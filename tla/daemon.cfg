\* Two connections, so that a thread can look too late, and two messages, so
\* that a short one can follow a longer one in the buffer.
CONSTANTS
    Conns = {1, 2}
    Inbox <- MCInbox
    MaxMsgs = 2
    HashSize = 2
    Known <- MCKnown
    Malloced = {0, 2}
    MAX_MSG_SIZE = 8
    MAX_CTYPE_IN_USE = 10
    Clients = {"a", "b"}
SPECIFICATION Spec
CHECK_DEADLOCK FALSE
INVARIANTS
    AnswersFromMessage
    ServesUntilInterrupt
PROPERTIES
    MessagesHandled
    ThreadsEnd
