------------------------------- MODULE Daemon -------------------------------
(***************************************************************************)
(* freecoind-old: the server thread that accepts connections and starts a  *)
(* thread for each, and the main loop that takes messages from the receive *)
(* queue into its one buffer and hands them to the handlers.  The queues   *)
(* are sequences here (MsgQueue models them).  handle_connection, the      *)
(* message builders, io_is_block and mempool_contains are declared and not *)
(* written: they are modelled from how they are used.                      *)
(***************************************************************************)
EXTENDS Integers, SequencesExt

CONSTANTS
    Conns,      \* connections that clients open
    Inbox,      \* messages they can send: type and bytes
    MaxMsgs,    \* number of messages
    HashSize,   \* SIZE_SHA256
    Known,      \* hashes of which we have the block or the transaction
    Malloced,   \* bytes that memory can hold before it is written
    MAX_MSG_SIZE,   \* bytes of the main loop's buffer
    MAX_CTYPE_IN_USE

Byte == 0 .. 255

ASSUME DaemonAssumption ==
    /\ HashSize \in Nat \ {0} /\ MaxMsgs \in Nat /\ MAX_MSG_SIZE \in Nat /\ MAX_MSG_SIZE > 2
    /\ MAX_CTYPE_IN_USE \in Nat
    /\ 0 \notin Conns
    /\ Malloced \subseteq Byte

\* No client sends more than fits the buffer.
ASSUME InboxAssumption ==
    \A m \in Inbox : m.type \in Byte /\ m.bytes \in Seq(Byte) /\ Len(m.bytes) <= MAX_MSG_SIZE

VARIABLES
    conn,       \* the variable peer of the server thread, 0 before the first
    creating,   \* whether the server thread still has to start its thread
    serves,     \* serves[t]: what the t-th thread got, 0 while it has not looked
    accepted,   \* history: the connections in the order of accept
    recvq,      \* server->recvqueue
    buffer,     \* the main loop's buffer
    sendq,      \* sendq[c]: the send queue of c's peer
    handled,    \* history: the messages that were handled
    alive       \* the process runs

acceptVars == <<conn, creating, serves, accepted>>
loopVars == <<recvq, buffer, sendq, handled>>
daemonVars == <<acceptVars, loopVars, alive>>

\* server_init, and main up to its loop; the buffer is as malloc left it.
DaemonInit ==
    /\ conn = 0 /\ creating = FALSE /\ serves = <<>> /\ accepted = <<>>
    /\ recvq = <<>> /\ handled = <<>>
    /\ \E b \in Malloced : buffer = [i \in 0 .. MAX_MSG_SIZE - 1 |-> b]
    /\ sendq = [c \in Conns |-> <<>>]
    /\ alive = TRUE

-----------------------------------------------------------------------------
(* server_thread.  The address of peer goes to the new thread.              *)

Accept(c) ==
    /\ ~creating /\ c \notin Range(accepted)
    /\ conn' = c /\ creating' = TRUE
    /\ accepted' = Append(accepted, c)
    /\ UNCHANGED <<serves, loopVars, alive>>

\* warn() ends the process.
AcceptFails == ~creating /\ alive' = FALSE /\ UNCHANGED <<acceptVars, loopVars>>

CreateThread ==
    /\ creating /\ creating' = FALSE
    /\ serves' = Append(serves, 0)
    /\ UNCHANGED <<conn, accepted, loopVars, alive>>

\* The result of pthread_create is not looked at.
CreateThreadFails ==
    /\ creating /\ creating' = FALSE
    /\ UNCHANGED <<conn, serves, accepted, loopVars, alive>>

\* The thread reads the variable through its address.
Look(t) ==
    /\ serves[t] = 0
    /\ serves' = [serves EXCEPT ![t] = conn]
    /\ UNCHANGED <<conn, creating, accepted, loopVars, alive>>

\* handle_connection puts a message of its peer into the receive queue.
Deliver(t, m) ==
    /\ serves[t] # 0 /\ Len(recvq) + Len(handled) < MaxMsgs
    /\ recvq' = Append(recvq, [type |-> m.type, bytes |-> m.bytes, from |-> serves[t]])
    /\ UNCHANGED <<acceptVars, buffer, sendq, handled, alive>>

-----------------------------------------------------------------------------
(* Handlers, on the buffer with the message's bytes in front.               *)

DTYPE_BLOCK == 0
DTYPE_TX == 1

\* The handlers take the size as a uint16_t.
MessageSize(m) == Len(m.bytes) % 65536

Id(buf, i) == [j \in 1 .. HashSize |-> buf[2 + i * HashSize + j - 1]]
Ids(buf, count) == [i \in 1 .. count |-> Id(buf, i - 1)]

\* uint8_t count = btous(&buffer[1])
Count(buf) == (256 * buf[1] + buf[2]) % 256

\* (mutation) only a message that is too short is refused
WrongSize_short(size, buf) == size < 2 + Count(buf)

WrongSize(size, buf) == size - 2 # Count(buf) * HashSize

\* What the loops over the hashes take: the missing ones of an inv and the known
\* ones of a getdata, in the order of the message.
Missing(dtype, ids) == SelectSeq(ids, LAMBDA h : dtype \in {DTYPE_BLOCK, DTYPE_TX} /\ h \notin Known)
Found(ids) == SelectSeq(ids, LAMBDA h : h \in Known)

\* msgqueue_enqueue(peer->sendqueue, ...)
Send(c, answers) == sendq' = [sendq EXCEPT ![c] = @ \o answers]
Nothing == UNCHANGED <<sendq, alive>>

handle_reject == Nothing

\* The builder returns NULL or an inv.
handle_getblocks(buf, size, peer) ==
    \/ Nothing
    \/ size = HashSize + 1 /\ Send(peer, <<[kind |-> "inv", of |-> Len(handled) + 1]>>) /\ UNCHANGED alive

\* The hashes that are missing, in a getdata; then the builder itself is
\* freed in the place of what it built, and the process is ended for it.
handle_inv(buf, size, peer) ==
    \/ Nothing
    \/ /\ ~WrongSize(size, buf)
       /\ Send(peer, <<[kind |-> "getdata", ids |-> Missing(buf[0], Ids(buf, Count(buf))),
                        of |-> Len(handled) + 1]>>)
       /\ alive' = FALSE

\* raw is only set for blocks and transactions.  Otherwise it is NULL by chance,
\* or something that is sent or not, and freed or not, before it ends the process.
Unset(peer) ==
    \/ Nothing
    \/ Send(peer, <<[kind |-> "stray", of |-> Len(handled) + 1]>>) /\ alive' \in BOOLEAN
    \/ alive' = FALSE /\ UNCHANGED sendq

\* A data message for each hash that is known, in a row: they are one entry of
\* the send queue here.
handle_getdata(buf, size, peer) ==
    IF WrongSize(size, buf) \/ Count(buf) = 0 THEN Nothing
    ELSE IF buf[0] \in {DTYPE_BLOCK, DTYPE_TX}
    THEN LET found == Found(Ids(buf, Count(buf)))
         IN  IF found = <<>> THEN Nothing
             ELSE /\ Send(peer, <<[kind |-> "data", ids |-> found, of |-> Len(handled) + 1]>>)
                  /\ UNCHANGED alive
    ELSE Unset(peer)

\* The table of handlers: handle_block is empty, the others are not written.
Handle(type, buf, size, peer) ==
    \/ type = 0 /\ handle_reject
    \/ type = 1 /\ handle_getblocks(buf, size, peer)
    \/ type = 3 /\ handle_inv(buf, size, peer)
    \/ type = 4 /\ handle_getdata(buf, size, peer)
    \/ type \notin {0, 1, 3, 4} /\ Nothing

\* (mutation) the loop ends at a message of an unknown type
Dispatch_stops ==
    /\ recvq # <<>> /\ Head(recvq).type <= MAX_CTYPE_IN_USE
    /\ recvq' = Tail(recvq) /\ handled' = Append(handled, Head(recvq))
    /\ UNCHANGED <<acceptVars, buffer, sendq, alive>>

\* main: msgqueue_dequeue, and the handler of the message's type.
Dispatch ==
    /\ recvq # <<>>
    /\ LET m == Head(recvq)
           size == MessageSize(m)
           buf == [i \in DOMAIN buffer |-> IF i < Len(m.bytes) THEN m.bytes[i + 1] ELSE buffer[i]]
       IN  /\ buffer' = buf
           /\ handled' = Append(handled, m)
           /\ \/ m.type > MAX_CTYPE_IN_USE /\ Nothing
              \/ m.type <= MAX_CTYPE_IN_USE /\ Handle(m.type, buf, size, m.from)
    /\ recvq' = Tail(recvq)
    /\ UNCHANGED acceptVars

DaemonNext ==
    /\ alive
    /\ \/ \E c \in Conns : Accept(c)
       \/ AcceptFails
       \/ CreateThread \/ CreateThreadFails
       \/ \E t \in DOMAIN serves : Look(t) \/ \E m \in Inbox : Deliver(t, m)
       \/ Dispatch

DaemonSpec == DaemonInit /\ [][DaemonNext]_daemonVars

-----------------------------------------------------------------------------
(* What a daemon sends for an inv, or for a getdata of blocks or            *)
(* transactions, is made of the hashes in the message itself: although the  *)
(* count is read from a buffer that still holds the bytes of longer         *)
(* messages, the check of the size keeps the loops within the message.  An  *)
(* inv's missing and a getdata's known hashes are all taken, in order.      *)
MessageIds(m) ==
    [i \in 1 .. (MessageSize(m) - 2) \div HashSize |->
        SubSeq(m.bytes, 3 + (i - 1) * HashSize, 2 + i * HashSize)]
AnswersFromMessage ==
    \A c \in Conns : \A k \in DOMAIN sendq[c] :
        LET a == sendq[c][k]
            m == handled[a.of]
        IN  /\ m.from = c
            /\ a.kind = "getdata" => a.ids = Missing(m.bytes[1], MessageIds(m))
            /\ a.kind = "data" => a.ids = Found(MessageIds(m))

(* A message that is in the receive queue is handled, in its turn, unless   *)
(* the daemon ends.                                                         *)
MessagesHandled ==
    \A n \in 1 .. MaxMsgs :
        Len(recvq) + Len(handled) >= n ~> Len(handled) >= n \/ ~alive

-----------------------------------------------------------------------------
(* What the documentation says and the code does not do.  The property asks *)
(* only that one of the rules be kept.                                      *)

\* The descriptions at handlers.c:66-70 and 100-104 and README.md:51: the
\* second byte of an inv or a getdata is the count of its hashes.  A message
\* with hashes of the size this says is not taken as malformed.
WellFormed(m) == Len(m.bytes) > 2 /\ Len(m.bytes) = 2 + HashSize * m.bytes[2]
CountIsSecondByte ==
    \A k \in DOMAIN handled :
        LET m == handled[k]
        IN  m.type \in {3, 4} /\ WellFormed(m) =>
                ~WrongSize(MessageSize(m), [i \in 0 .. Len(m.bytes) - 1 |-> m.bytes[i + 1]])

\* docs/info/processes.md:20: each peer has a socket thread.  So when all
\* threads are started and have looked, each connection is served.
OneThreadEach ==
    Len(serves) = Len(accepted) /\ 0 \notin Range(serves) => Range(accepted) \subseteq Range(serves)

\* docs/info/processes.md:11-12: the main thread is a cycle.  When an inv of
\* something that is missing was answered, by a message into the peer's send
\* queue, the cycle goes on.
InvLeavesRunning ==
    \A c \in Conns : \A k \in DOMAIN sendq[c] :
        sendq[c][k].kind = "getdata" /\ sendq[c][k].ids # <<>> => alive

(* The daemon in C does what its documents say in one of three respects:    *)
(* how it reads the count of a message, that each peer has its thread, and  *)
(* that it goes on after it has answered.                                   *)
OneDaemonRuleKept == CountIsSecondByte \/ OneThreadEach \/ InvLeavesRunning
=============================================================================
