------------------------------ MODULE MsgQueue ------------------------------
(***************************************************************************)
(* freecoind-old/src/msgqueue.c: a doubly linked list between two          *)
(* sentinels, a length and a mutex.  Any number of producers enqueue, one  *)
(* consumer dequeues (the logic thread for the receive queue, a peer's     *)
(* socket thread for its send queue).  The consumer waits for a message by *)
(* reading the length without the mutex, and msgqueue_peek_size reads the  *)
(* length and the list without it: a step is therefore a part of the code  *)
(* that such a read cannot split.                                          *)
(***************************************************************************)
EXTENDS Integers, Sequences

CONSTANTS
    Producers,   \* threads that call msgqueue_enqueue
    Consumer,    \* the thread that calls msgqueue_dequeue and _peek_size
    Msgs,        \* the messages the producers have to send, each once
    Nodes,       \* heap cells for a msgnode_t
    QHead,       \* the sentinel q->head
    QTail,       \* the sentinel q->tail
    Null

Threads == Producers \cup {Consumer}
Cells == Nodes \cup {QHead, QTail}

ASSUME QueueAssumption ==
    /\ Consumer \notin Producers
    /\ Null \notin Cells \cup Threads \cup Msgs
    /\ QHead # QTail /\ QHead \notin Nodes /\ QTail \notin Nodes

VARIABLES
    next, prev,  \* next[x], prev[x]: the links of cell x
    data,        \* data[n]: the message in node n (raw, size, type, peer)
    live,        \* the nodes that are allocated
    length,      \* q->length
    mutex,       \* the thread that holds q->mutex, or Null
    pc,          \* pc[t]: where thread t is
    msg,         \* msg[t]: t's local variable msg
    arg,         \* arg[t]: the message t sends, or has received
    unsent,      \* the messages no producer has taken up yet
    log,         \* history: the messages linked into the list, in order
    cell,        \* history: the nodes they were linked with
    delivered    \* history: the messages the consumer has taken out, in order

list == <<next, prev, data, live, length>>
history == <<log, cell, delivered>>
vars == <<list, mutex, pc, msg, arg, unsent, history>>

\* msgqueue_init
Init ==
    /\ next = [x \in Cells |-> IF x = QHead THEN QTail ELSE Null]
    /\ prev = [x \in Cells |-> IF x = QTail THEN QHead ELSE Null]
    /\ data = [n \in Nodes |-> Null]
    /\ live = {}
    /\ length = 0
    /\ mutex = Null
    /\ pc = [t \in Threads |-> "idle"]
    /\ msg = [t \in Threads |-> Null]
    /\ arg = [t \in Threads |-> Null]
    /\ unsent = Msgs
    /\ log = << >> /\ cell = << >> /\ delivered = << >>

Goto(t, label) == pc' = [pc EXCEPT ![t] = label]

\* pthread_mutex_lock returns
Lock(t) == mutex = Null /\ mutex' = t

\* pthread_mutex_unlock
Unlock(t) == mutex' = Null

-----------------------------------------------------------------------------
(* msgqueue_enqueue                                                         *)

EnqLock(t) ==
    /\ pc[t] = "idle"
    /\ \E m \in unsent :
        /\ arg' = [arg EXCEPT ![t] = m]
        /\ unsent' = unsent \ {m}
    /\ Lock(t)
    /\ Goto(t, "alloc")
    /\ UNCHANGED <<list, msg, history>>

\* malloc, and the node's contents
EnqAlloc(t) ==
    /\ pc[t] = "alloc"
    /\ \E n \in Nodes \ live :
        /\ live' = live \cup {n}
        /\ data' = [data EXCEPT ![n] = arg[t]]
        /\ msg' = [msg EXCEPT ![t] = n]
    /\ Goto(t, "link")
    /\ UNCHANGED <<next, prev, length, mutex, arg, unsent, history>>

\* (mutation) q->head->next->prev = msg is left out
EnqLinkOneWay(t) ==
    /\ pc[t] = "link"
    /\ next' = [next EXCEPT ![msg[t]] = next[QHead], ![QHead] = msg[t]]
    /\ prev' = [prev EXCEPT ![msg[t]] = QHead]
    /\ log' = Append(log, arg[t])
    /\ cell' = Append(cell, msg[t])
    /\ Goto(t, "count")
    /\ UNCHANGED <<data, live, length, mutex, msg, arg, unsent, delivered>>

\* The node goes between q->head and the cell after it.
EnqLink(t) ==
    /\ pc[t] = "link"
    /\ next' = [next EXCEPT ![msg[t]] = next[QHead], ![QHead] = msg[t]]
    /\ prev' = [prev EXCEPT ![msg[t]] = QHead, ![next[QHead]] = msg[t]]
    /\ log' = Append(log, arg[t])
    /\ cell' = Append(cell, msg[t])
    /\ Goto(t, "count")
    /\ UNCHANGED <<data, live, length, mutex, msg, arg, unsent, delivered>>

\* (mutation) ++length is left out
EnqNoCount(t) ==
    /\ pc[t] = "count"
    /\ Goto(t, "unlock")
    /\ UNCHANGED <<list, mutex, msg, arg, unsent, history>>

EnqCount(t) ==
    /\ pc[t] = "count"
    /\ length' = length + 1
    /\ Goto(t, "unlock")
    /\ UNCHANGED <<next, prev, data, live, mutex, msg, arg, unsent, history>>

\* The returned length is read after the unlock; no caller uses it.
EnqUnlock(t) ==
    /\ pc[t] = "unlock"
    /\ Unlock(t)
    /\ msg' = [msg EXCEPT ![t] = Null]
    /\ arg' = [arg EXCEPT ![t] = Null]
    /\ Goto(t, "idle")
    /\ UNCHANGED <<list, unsent, history>>

-----------------------------------------------------------------------------
(* msgqueue_dequeue, by the consumer c.                                     *)

\* while (q->length == 0) sleep(1), without the mutex
Sleep(c) ==
    /\ pc[c] = "idle"
    /\ length = 0
    /\ UNCHANGED vars

\* (mutation) the consumer does not wait for a message
AwakeAlways(c) ==
    /\ pc[c] = "idle"
    /\ Goto(c, "lock")
    /\ UNCHANGED <<list, mutex, msg, arg, unsent, history>>

Awake(c) ==
    /\ pc[c] = "idle"
    /\ length # 0
    /\ Goto(c, "lock")
    /\ UNCHANGED <<list, mutex, msg, arg, unsent, history>>

DeqLock(c) ==
    /\ pc[c] = "lock"
    /\ Lock(c)
    /\ Goto(c, "take")
    /\ UNCHANGED <<list, msg, arg, unsent, history>>

\* (mutation) the message next to q->head is taken
DeqTakeNewest(c) ==
    /\ pc[c] = "take"
    /\ msg' = [msg EXCEPT ![c] = next[QHead]]
    /\ arg' = [arg EXCEPT ![c] = IF next[QHead] \in live THEN data[next[QHead]] ELSE Null]
    /\ Goto(c, "unlink")
    /\ UNCHANGED <<list, mutex, unsent, history>>

\* msg = q->tail->prev, and its contents are copied out.  The sentinel q->head
\* has none: its uninitialised fields would be copied.
DeqTake(c) ==
    /\ pc[c] = "take"
    /\ msg' = [msg EXCEPT ![c] = prev[QTail]]
    /\ arg' = [arg EXCEPT ![c] = IF prev[QTail] \in live THEN data[prev[QTail]] ELSE Null]
    /\ Goto(c, "unlink")
    /\ UNCHANGED <<list, mutex, unsent, history>>

DeqUnlink(c) ==
    /\ pc[c] = "unlink"
    /\ next' = [next EXCEPT ![prev[msg[c]]] = QTail]
    /\ prev' = [prev EXCEPT ![QTail] = prev[msg[c]]]
    /\ delivered' = Append(delivered, arg[c])
    /\ Goto(c, "free")
    /\ UNCHANGED <<data, live, length, mutex, msg, arg, unsent, log, cell>>

\* (mutation) the node is not freed
DeqNoFree(c) ==
    /\ pc[c] = "free"
    /\ length' = length - 1
    /\ Goto(c, "done")
    /\ UNCHANGED <<next, prev, data, live, mutex, msg, arg, unsent, history>>

\* (mutation) a message counts for two when it leaves
DeqFreeTwo(c) ==
    /\ pc[c] = "free"
    /\ live' = live \ {msg[c]}
    /\ length' = length - 2
    /\ Goto(c, "done")
    /\ UNCHANGED <<next, prev, data, mutex, msg, arg, unsent, history>>

DeqFree(c) ==
    /\ pc[c] = "free"
    /\ live' = live \ {msg[c]}
    /\ length' = length - 1
    /\ Goto(c, "done")
    /\ UNCHANGED <<next, prev, data, mutex, msg, arg, unsent, history>>

DeqUnlock(c) ==
    /\ pc[c] = "done"
    /\ Unlock(c)
    /\ msg' = [msg EXCEPT ![c] = Null]
    /\ arg' = [arg EXCEPT ![c] = Null]
    /\ Goto(c, "idle")
    /\ UNCHANGED <<list, unsent, history>>

-----------------------------------------------------------------------------
(* msgqueue_peek_size, by the consumer c, without the mutex.                *)

PeekLength(c) ==
    /\ pc[c] = "idle"
    /\ length # 0
    /\ Goto(c, "peek")
    /\ UNCHANGED <<list, mutex, msg, arg, unsent, history>>

\* q->tail->prev->size
PeekNode(c) ==
    /\ pc[c] = "peek"
    /\ Goto(c, "idle")
    /\ UNCHANGED <<list, mutex, msg, arg, unsent, history>>

-----------------------------------------------------------------------------
EnqStep(t) == EnqAlloc(t) \/ EnqLink(t) \/ EnqCount(t) \/ EnqUnlock(t)

DeqStep(c) ==
    \/ Sleep(c) \/ Awake(c) \/ DeqLock(c) \/ DeqTake(c) \/ DeqUnlink(c)
    \/ DeqFree(c) \/ DeqUnlock(c)

PeekStep(c) == PeekLength(c) \/ PeekNode(c)

Next ==
    \/ \E t \in Producers : EnqLock(t) \/ EnqStep(t)
    \/ DeqStep(Consumer)
    \/ PeekStep(Consumer)

Spec == Init /\ [][Next]_vars

\* A thread that is inside a call keeps running, a producer that has something
\* to send gets the mutex when nobody else takes it, and the consumer calls
\* msgqueue_dequeue again and again (main's loop), whether it peeks or not.
FairSpec ==
    /\ Spec
    /\ \A t \in Producers : WF_vars(EnqStep(t)) /\ WF_vars(EnqLock(t))
    /\ WF_vars(DeqStep(Consumer)) /\ WF_vars(PeekNode(Consumer))
    /\ SF_vars(Awake(Consumer))

-----------------------------------------------------------------------------
(* Properties.                                                              *)

Labels == {"idle", "alloc", "link", "count", "unlock",
           "lock", "take", "unlink", "free", "done", "peek"}

\* Type invariant of the list and of the threads' locals.
TypeOK ==
    /\ next \in [Cells -> Cells \cup {Null}]
    /\ prev \in [Cells -> Cells \cup {Null}]
    /\ data \in [Nodes -> Msgs \cup {Null}]
    /\ live \subseteq Nodes
    /\ length \in Nat
    /\ mutex \in Threads \cup {Null}
    /\ pc \in [Threads -> Labels]
    /\ msg \in [Threads -> Cells \cup {Null}]
    /\ arg \in [Threads -> Msgs \cup {Null}]
    /\ unsent \subseteq Msgs
    /\ log \in Seq(Msgs)
    /\ cell \in Seq(Nodes)
    /\ delivered \in Seq(Msgs)

\* The messages that are linked in and not yet taken out are those after
\* delivered in log.  Spot(i) is the cell of the i-th message ever linked; the
\* sentinels stand just outside the messages in the list.
Taken == Len(delivered)
Linked == Len(log)
Spot(i) == IF i = Taken THEN QTail ELSE IF i = Linked + 1 THEN QHead ELSE cell[i]

\* Both directions of the list hold exactly the messages not yet delivered, the
\* oldest next to q->tail, in nodes that are allocated.
ListIntact ==
    /\ \A i \in Taken .. Linked : prev[Spot(i)] = Spot(i + 1) /\ next[Spot(i + 1)] = Spot(i)
    /\ \A i \in (Taken + 1) .. Linked : cell[i] \in live /\ data[cell[i]] = log[i]

\* Between calls the length is the number of messages in the list: an unlocked
\* reader sees at most a count that is one behind.
LengthExact == mutex = Null => length = Linked - Taken

\* The consumer decides on an unlocked read that there is a message; when it
\* gets to the list there is one, and never the sentinel q->head.
NeverTakesSentinel == pc[Consumer] \in {"lock", "take", "peek"} => prev[QTail] \in live

\* No allocated node is out of the list once nobody holds the mutex.
NoLeak == mutex = Null => live = {cell[i] : i \in (Taken + 1) .. Linked}

\* The list implements the queue: nothing is lost, duplicated or reordered.
F == INSTANCE Fifo
ImplementsFifo == F!Spec

\* Every message of a burst is delivered in the end.
AllDelivered == \A m \in Msgs : <>(\E i \in 1 .. Len(delivered) : delivered[i] = m)
=============================================================================
