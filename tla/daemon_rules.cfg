CONSTANTS
    Conns = {1, 2}
    Inbox <- MCInbox
    MaxMsgs = 2
    HashSize = 2
    Known <- MCKnown
    Malloced = {0, 2}
    MAX_MSG_SIZE = 8
    MAX_CTYPE_IN_USE = 10
    Clients = {"a", "b"}
SPECIFICATION Spec
CHECK_DEADLOCK FALSE
INVARIANT
    OneDaemonRuleKept
