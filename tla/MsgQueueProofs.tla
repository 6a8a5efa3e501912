--------------------------- MODULE MsgQueueProofs ---------------------------
(***************************************************************************)
(* The message queue is a FIFO for any number of producers, messages and   *)
(* heap cells, with one consumer that waits without the mutex.             *)
(***************************************************************************)
EXTENDS MsgQueue, TLAPS

ProducerLabels == {"idle", "alloc", "link", "count", "unlock"}
ConsumerLabels == {"idle", "lock", "take", "unlink", "free", "done", "peek"}
Critical == {"alloc", "link", "count", "unlock", "take", "unlink", "free", "done"}

\* The thread in a critical section is the one that holds the mutex.
MutexInv ==
    /\ \A t \in Producers : pc[t] \in ProducerLabels
    /\ pc[Consumer] \in ConsumerLabels
    /\ \A t \in Threads : pc[t] \in Critical <=> mutex = t

InList == (Taken + 1) .. Linked

\* The histories fit together, and no node is in the list twice.
HistoryInv ==
    /\ Len(cell) = Linked
    /\ Taken <= Linked
    /\ \A i, j \in InList : cell[i] = cell[j] => i = j

\* A node that is out of the list belongs to the thread that has just
\* allocated or unlinked it.
Out(t) == msg[t] \in live /\ \A i \in InList : cell[i] # msg[t]

LocalInv ==
    /\ \A t \in Producers :
        /\ pc[t] \in {"alloc", "link"} => arg[t] \in Msgs
        /\ pc[t] = "link" => Out(t) /\ data[msg[t]] = arg[t]
    /\ pc[Consumer] = "free" => Out(Consumer)
    /\ pc[Consumer] = "unlink" => /\ Taken < Linked
                                  /\ msg[Consumer] = cell[Taken + 1]
                                  /\ arg[Consumer] = log[Taken + 1]

\* The length is one behind while a node is linked and not counted, or
\* unlinked and still counted.
LengthInv ==
    length = (Linked - Taken) - (IF mutex \in Producers /\ pc[mutex] = "count" THEN 1 ELSE 0)
                              + (IF pc[Consumer] = "free" THEN 1 ELSE 0)

\* The message the consumer has seen in the length stays in the list: nobody
\* else takes one out.
SeenInv == pc[Consumer] \in {"lock", "take", "peek"} => Taken < Linked

LiveInv ==
    \A n \in live : \/ \E i \in InList : cell[i] = n
                    \/ mutex \in Producers /\ pc[mutex] = "link" /\ msg[mutex] = n
                    \/ pc[Consumer] = "free" /\ msg[Consumer] = n

Inv == TypeOK /\ MutexInv /\ HistoryInv /\ ListIntact /\ LocalInv /\ LengthInv /\ SeenInv /\ LiveInv

-----------------------------------------------------------------------------
LEMMA InitInv == Init => Inv
<1> SUFFICES ASSUME Init
             PROVE  Inv
  OBVIOUS
<1> USE QueueAssumption DEF Init, Threads, Cells
<1>1. TypeOK
  BY DEF TypeOK, Labels
<1>2. Taken = 0 /\ Linked = 0 /\ InList = {}
  BY DEF Taken, Linked, InList
<1>3. MutexInv /\ LocalInv /\ SeenInv /\ LiveInv
  BY DEF MutexInv, ProducerLabels, ConsumerLabels, Critical, LocalInv, SeenInv, LiveInv
<1>4. HistoryInv
  BY <1>2 DEF HistoryInv
<1>5. LengthInv
  BY <1>2 DEF LengthInv
<1>6. ListIntact
  BY <1>2 DEF ListIntact, Spot
<1> QED
  BY <1>1, <1>3, <1>4, <1>5, <1>6 DEF Inv

\* The consumer's view of the list: its oldest message is next to q->tail.
LEMMA OldestAtTail ==
  ASSUME Inv, Taken < Linked
  PROVE  prev[QTail] = cell[Taken + 1] /\ prev[QTail] \in live /\ data[prev[QTail]] = log[Taken + 1]
<1>1. Taken \in Nat /\ Linked \in Nat
  BY DEF Inv, TypeOK, Taken, Linked
<1>2. Taken \in Taken .. Linked /\ Taken + 1 \in (Taken + 1) .. Linked
  BY <1>1
<1>3. prev[Spot(Taken)] = Spot(Taken + 1)
  BY <1>2 DEF Inv, ListIntact
<1>4. Spot(Taken) = QTail /\ Spot(Taken + 1) = cell[Taken + 1]
  BY <1>1 DEF Spot
<1> QED
  BY <1>2, <1>3, <1>4 DEF Inv, ListIntact

\* The cells of the list are distinct, sentinels included.
LEMMA SpotsDistinct ==
  ASSUME Inv, NEW i \in Taken .. (Linked + 1), NEW j \in Taken .. (Linked + 1), Spot(i) = Spot(j)
  PROVE  i = j
<1>1. Taken \in Nat /\ Linked \in Nat /\ Taken <= Linked
  BY DEF Inv, TypeOK, Taken, Linked, HistoryInv
<1>2. \A k \in InList : cell[k] \in Nodes
  BY <1>1 DEF Inv, TypeOK, HistoryInv, InList, Linked
<1>3. \A k \in Taken .. (Linked + 1) : k # Taken /\ k # Linked + 1 => k \in InList
  BY <1>1 DEF InList
<1> QED
  BY <1>1, <1>2, <1>3, QueueAssumption DEF Inv, HistoryInv, Spot

-----------------------------------------------------------------------------
(* One step.                                                                *)

\* The numbers behind the histories.
LEMMA Counts ==
  ASSUME Inv
  PROVE  /\ Taken \in Nat /\ Linked \in Nat /\ Taken <= Linked /\ Len(cell) = Linked
         /\ InList \subseteq 1 .. Linked
         /\ \A i \in InList : cell[i] \in Nodes /\ log[i] \in Msgs
  BY DEF Inv, TypeOK, HistoryInv, InList, Taken, Linked

\* EnqLock preserves the invariant.
LEMMA EnqLockStep ==
  ASSUME Inv, NEW t \in Producers, EnqLock(t)
  PROVE  Inv'
<1> USE QueueAssumption DEF Inv, EnqLock, Lock, Goto, list, history
<1>0. /\ Taken' = Taken /\ Linked' = Linked /\ InList' = InList
      /\ \A i \in Taken .. (Linked + 1) : Spot(i)' = Spot(i)
  BY DEF Taken, Linked, InList, Spot
<1>1. TypeOK'
  BY <1>0, Counts DEF TypeOK, Labels, Threads, Cells
<1>2. MutexInv'
  BY <1>0, Counts DEF TypeOK, Threads, MutexInv, ProducerLabels, ConsumerLabels, Critical
<1>3. HistoryInv'
  BY <1>0, Counts DEF HistoryInv
<1>4. ListIntact'
  BY <1>0, Counts DEF ListIntact, Spot, InList
<1>5. LocalInv'
  BY <1>0, Counts DEF TypeOK, Threads, LocalInv, Out, MutexInv, Critical, ProducerLabels, ConsumerLabels
<1>6. LengthInv'
  BY <1>0, Counts DEF TypeOK, Threads, MutexInv, ProducerLabels, ConsumerLabels, Critical, LengthInv
<1>7. SeenInv'
  BY <1>0, Counts DEF TypeOK, Threads, SeenInv
<1>8. LiveInv'
  BY <1>0, Counts DEF TypeOK, Threads, MutexInv, ProducerLabels, ConsumerLabels, Critical, LiveInv
<1> QED
  BY <1>1, <1>2, <1>3, <1>4, <1>5, <1>6, <1>7, <1>8

\* EnqAlloc preserves the invariant.
LEMMA EnqAllocStep ==
  ASSUME Inv, NEW t \in Producers, EnqAlloc(t)
  PROVE  Inv'
<1> USE QueueAssumption DEF Inv, EnqAlloc, Goto, history
<1>0. /\ Taken' = Taken /\ Linked' = Linked /\ InList' = InList
      /\ \A i \in Taken .. (Linked + 1) : Spot(i)' = Spot(i)
  BY DEF Taken, Linked, InList, Spot
<1>1. TypeOK'
  BY <1>0, Counts DEF TypeOK, Labels, Threads, Cells
<1>2. MutexInv'
  BY <1>0, Counts DEF TypeOK, Threads, MutexInv, ProducerLabels, ConsumerLabels, Critical
<1>3. HistoryInv'
  BY <1>0, Counts DEF HistoryInv
<1>4. ListIntact'
  BY <1>0, Counts DEF ListIntact, Spot, InList, LocalInv, MutexInv, Critical, ProducerLabels, ConsumerLabels
<1>5. LocalInv'
  BY <1>0, Counts DEF TypeOK, Threads, LocalInv, Out, ListIntact, InList, MutexInv, Critical, ProducerLabels, ConsumerLabels
<1>6. LengthInv'
  BY <1>0, Counts DEF TypeOK, Threads, MutexInv, ProducerLabels, ConsumerLabels, Critical, LengthInv
<1>7. SeenInv'
  BY <1>0, Counts DEF TypeOK, Threads, SeenInv
<1>8. LiveInv'
  BY <1>0, Counts DEF TypeOK, Threads, MutexInv, ProducerLabels, ConsumerLabels, Critical, LiveInv, ListIntact, InList, LocalInv
<1> QED
  BY <1>1, <1>2, <1>3, <1>4, <1>5, <1>6, <1>7, <1>8

\* EnqCount preserves the invariant.
LEMMA EnqCountStep ==
  ASSUME Inv, NEW t \in Producers, EnqCount(t)
  PROVE  Inv'
<1> USE QueueAssumption DEF Inv, EnqCount, Goto, history
<1>0. /\ Taken' = Taken /\ Linked' = Linked /\ InList' = InList
      /\ \A i \in Taken .. (Linked + 1) : Spot(i)' = Spot(i)
  BY DEF Taken, Linked, InList, Spot
<1>1. TypeOK'
  BY <1>0, Counts DEF TypeOK, Labels, Threads, Cells
<1>2. MutexInv'
  BY <1>0, Counts DEF TypeOK, Threads, MutexInv, ProducerLabels, ConsumerLabels, Critical
<1>3. HistoryInv'
  BY <1>0, Counts DEF HistoryInv
<1>4. ListIntact'
  BY <1>0, Counts DEF ListIntact, Spot, InList
<1>5. LocalInv'
  BY <1>0, Counts DEF TypeOK, Threads, LocalInv, Out, MutexInv, Critical, ProducerLabels, ConsumerLabels
<1>6. LengthInv'
  BY <1>0, Counts DEF TypeOK, Threads, MutexInv, ProducerLabels, ConsumerLabels, Critical, LengthInv
<1>7. SeenInv'
  BY <1>0, Counts DEF TypeOK, Threads, SeenInv
<1>8. LiveInv'
  BY <1>0, Counts DEF TypeOK, Threads, MutexInv, ProducerLabels, ConsumerLabels, Critical, LiveInv
<1> QED
  BY <1>1, <1>2, <1>3, <1>4, <1>5, <1>6, <1>7, <1>8

\* EnqUnlock preserves the invariant.
LEMMA EnqUnlockStep ==
  ASSUME Inv, NEW t \in Producers, EnqUnlock(t)
  PROVE  Inv'
<1> USE QueueAssumption DEF Inv, EnqUnlock, Unlock, Goto, list, history
<1>0. /\ Taken' = Taken /\ Linked' = Linked /\ InList' = InList
      /\ \A i \in Taken .. (Linked + 1) : Spot(i)' = Spot(i)
  BY DEF Taken, Linked, InList, Spot
<1>1. TypeOK'
  BY <1>0, Counts DEF TypeOK, Labels, Threads, Cells
<1>2. MutexInv'
  BY <1>0, Counts DEF TypeOK, Threads, MutexInv, ProducerLabels, ConsumerLabels, Critical
<1>3. HistoryInv'
  BY <1>0, Counts DEF HistoryInv
<1>4. ListIntact'
  BY <1>0, Counts DEF ListIntact, Spot, InList
<1>5. LocalInv'
  BY <1>0, Counts DEF TypeOK, Threads, LocalInv, Out, MutexInv, Critical, ProducerLabels, ConsumerLabels
<1>6. LengthInv'
  BY <1>0, Counts DEF TypeOK, Threads, MutexInv, ProducerLabels, ConsumerLabels, Critical, LengthInv
<1>7. SeenInv'
  BY <1>0, Counts DEF TypeOK, Threads, SeenInv
<1>8. LiveInv'
  BY <1>0, Counts DEF TypeOK, Threads, MutexInv, ProducerLabels, ConsumerLabels, Critical, LiveInv
<1> QED
  BY <1>1, <1>2, <1>3, <1>4, <1>5, <1>6, <1>7, <1>8

\* Awake preserves the invariant.
LEMMA AwakeStep ==
  ASSUME Inv, Awake(Consumer)
  PROVE  Inv'
<1> USE QueueAssumption DEF Inv, Awake, Goto, list, history
<1>0. /\ Taken' = Taken /\ Linked' = Linked /\ InList' = InList
      /\ \A i \in Taken .. (Linked + 1) : Spot(i)' = Spot(i)
  BY DEF Taken, Linked, InList, Spot
<1>1. TypeOK'
  BY <1>0, Counts DEF TypeOK, Labels, Threads, Cells
<1>2. MutexInv'
  BY <1>0, Counts DEF TypeOK, Threads, MutexInv, ProducerLabels, ConsumerLabels, Critical
<1>3. HistoryInv'
  BY <1>0, Counts DEF HistoryInv
<1>4. ListIntact'
  BY <1>0, Counts DEF ListIntact, Spot, InList
<1>5. LocalInv'
  BY <1>0, Counts DEF TypeOK, Threads, LocalInv, Out, MutexInv, Critical, ProducerLabels, ConsumerLabels
<1>6. LengthInv'
  BY <1>0, Counts DEF TypeOK, Threads, MutexInv, ProducerLabels, ConsumerLabels, Critical, LengthInv
<1>7. SeenInv'
  BY <1>0, Counts DEF TypeOK, Threads, SeenInv, LengthInv, MutexInv, ConsumerLabels
<1>8. LiveInv'
  BY <1>0, Counts DEF TypeOK, Threads, MutexInv, ProducerLabels, ConsumerLabels, Critical, LiveInv
<1> QED
  BY <1>1, <1>2, <1>3, <1>4, <1>5, <1>6, <1>7, <1>8

\* DeqLock preserves the invariant.
LEMMA DeqLockStep ==
  ASSUME Inv, DeqLock(Consumer)
  PROVE  Inv'
<1> USE QueueAssumption DEF Inv, DeqLock, Lock, Goto, list, history
<1>0. /\ Taken' = Taken /\ Linked' = Linked /\ InList' = InList
      /\ \A i \in Taken .. (Linked + 1) : Spot(i)' = Spot(i)
  BY DEF Taken, Linked, InList, Spot
<1>1. TypeOK'
  BY <1>0, Counts DEF TypeOK, Labels, Threads, Cells
<1>2. MutexInv'
  BY <1>0, Counts DEF TypeOK, Threads, MutexInv, ProducerLabels, ConsumerLabels, Critical
<1>3. HistoryInv'
  BY <1>0, Counts DEF HistoryInv
<1>4. ListIntact'
  BY <1>0, Counts DEF ListIntact, Spot, InList
<1>5. LocalInv'
  BY <1>0, Counts DEF TypeOK, Threads, LocalInv, Out, MutexInv, Critical, ProducerLabels, ConsumerLabels
<1>6. LengthInv'
  BY <1>0, Counts DEF TypeOK, Threads, MutexInv, ProducerLabels, ConsumerLabels, Critical, LengthInv
<1>7. SeenInv'
  BY <1>0, Counts DEF TypeOK, Threads, SeenInv
<1>8. LiveInv'
  BY <1>0, Counts DEF TypeOK, Threads, MutexInv, ProducerLabels, ConsumerLabels, Critical, LiveInv
<1> QED
  BY <1>1, <1>2, <1>3, <1>4, <1>5, <1>6, <1>7, <1>8

\* DeqTake preserves the invariant.
LEMMA DeqTakeStep ==
  ASSUME Inv, DeqTake(Consumer)
  PROVE  Inv'
<1> USE QueueAssumption DEF Inv, DeqTake, Goto, list, history
<1>0. /\ Taken' = Taken /\ Linked' = Linked /\ InList' = InList
      /\ \A i \in Taken .. (Linked + 1) : Spot(i)' = Spot(i)
  BY DEF Taken, Linked, InList, Spot
<1>1. TypeOK'
  BY <1>0, Counts DEF TypeOK, Labels, Threads, Cells, HistoryInv
<1>2. MutexInv'
  BY <1>0, Counts DEF TypeOK, Threads, MutexInv, ProducerLabels, ConsumerLabels, Critical
<1>3. HistoryInv'
  BY <1>0, Counts DEF HistoryInv
<1>4. ListIntact'
  BY <1>0, Counts DEF ListIntact, Spot, InList
<1>5. LocalInv'
  BY <1>0, Counts, OldestAtTail DEF TypeOK, Threads, LocalInv, Out, SeenInv, HistoryInv, MutexInv, Critical, ProducerLabels, ConsumerLabels
<1>6. LengthInv'
  BY <1>0, Counts DEF TypeOK, Threads, MutexInv, ProducerLabels, ConsumerLabels, Critical, LengthInv
<1>7. SeenInv'
  BY <1>0, Counts DEF TypeOK, Threads, SeenInv
<1>8. LiveInv'
  BY <1>0, Counts DEF TypeOK, Threads, MutexInv, ProducerLabels, ConsumerLabels, Critical, LiveInv
<1> QED
  BY <1>1, <1>2, <1>3, <1>4, <1>5, <1>6, <1>7, <1>8

\* DeqFree preserves the invariant.
LEMMA DeqFreeStep ==
  ASSUME Inv, DeqFree(Consumer)
  PROVE  Inv'
<1> USE QueueAssumption DEF Inv, DeqFree, Goto, history
<1>0. /\ Taken' = Taken /\ Linked' = Linked /\ InList' = InList
      /\ \A i \in Taken .. (Linked + 1) : Spot(i)' = Spot(i)
  BY DEF Taken, Linked, InList, Spot
<1>1. TypeOK'
  BY <1>0, Counts DEF TypeOK, Labels, Threads, Cells, LocalInv, Out, InList, LengthInv, MutexInv, Critical
<1>2. MutexInv'
  BY <1>0, Counts DEF TypeOK, Threads, MutexInv, ProducerLabels, ConsumerLabels, Critical
<1>3. HistoryInv'
  BY <1>0, Counts DEF HistoryInv
<1>4. ListIntact'
  BY <1>0, Counts DEF ListIntact, Spot, LocalInv, Out, InList
<1>5. LocalInv'
  BY <1>0, Counts DEF TypeOK, Threads, LocalInv, Out, MutexInv, Critical, ProducerLabels, ConsumerLabels
<1>6. LengthInv'
  BY <1>0, Counts DEF TypeOK, Threads, MutexInv, ProducerLabels, ConsumerLabels, Critical, LengthInv
<1>7. SeenInv'
  BY <1>0, Counts DEF TypeOK, Threads, SeenInv
<1>8. LiveInv'
  BY <1>0, Counts DEF TypeOK, Threads, MutexInv, ProducerLabels, ConsumerLabels, Critical, LiveInv, LocalInv, Out, InList
<1> QED
  BY <1>1, <1>2, <1>3, <1>4, <1>5, <1>6, <1>7, <1>8

\* DeqUnlock preserves the invariant.
LEMMA DeqUnlockStep ==
  ASSUME Inv, DeqUnlock(Consumer)
  PROVE  Inv'
<1> USE QueueAssumption DEF Inv, DeqUnlock, Unlock, Goto, list, history
<1>0. /\ Taken' = Taken /\ Linked' = Linked /\ InList' = InList
      /\ \A i \in Taken .. (Linked + 1) : Spot(i)' = Spot(i)
  BY DEF Taken, Linked, InList, Spot
<1>1. TypeOK'
  BY <1>0, Counts DEF TypeOK, Labels, Threads, Cells
<1>2. MutexInv'
  BY <1>0, Counts DEF TypeOK, Threads, MutexInv, ProducerLabels, ConsumerLabels, Critical
<1>3. HistoryInv'
  BY <1>0, Counts DEF HistoryInv
<1>4. ListIntact'
  BY <1>0, Counts DEF ListIntact, Spot, InList
<1>5. LocalInv'
  BY <1>0, Counts DEF TypeOK, Threads, LocalInv, Out, MutexInv, Critical, ProducerLabels, ConsumerLabels
<1>6. LengthInv'
  BY <1>0, Counts DEF TypeOK, Threads, MutexInv, ProducerLabels, ConsumerLabels, Critical, LengthInv
<1>7. SeenInv'
  BY <1>0, Counts DEF TypeOK, Threads, SeenInv
<1>8. LiveInv'
  BY <1>0, Counts DEF TypeOK, Threads, MutexInv, ProducerLabels, ConsumerLabels, Critical, LiveInv
<1> QED
  BY <1>1, <1>2, <1>3, <1>4, <1>5, <1>6, <1>7, <1>8

\* PeekLength preserves the invariant.
LEMMA PeekLengthStep ==
  ASSUME Inv, PeekLength(Consumer)
  PROVE  Inv'
<1> USE QueueAssumption DEF Inv, PeekLength, Goto, list, history
<1>0. /\ Taken' = Taken /\ Linked' = Linked /\ InList' = InList
      /\ \A i \in Taken .. (Linked + 1) : Spot(i)' = Spot(i)
  BY DEF Taken, Linked, InList, Spot
<1>1. TypeOK'
  BY <1>0, Counts DEF TypeOK, Labels, Threads, Cells
<1>2. MutexInv'
  BY <1>0, Counts DEF TypeOK, Threads, MutexInv, ProducerLabels, ConsumerLabels, Critical
<1>3. HistoryInv'
  BY <1>0, Counts DEF HistoryInv
<1>4. ListIntact'
  BY <1>0, Counts DEF ListIntact, Spot, InList
<1>5. LocalInv'
  BY <1>0, Counts DEF TypeOK, Threads, LocalInv, Out, MutexInv, Critical, ProducerLabels, ConsumerLabels
<1>6. LengthInv'
  BY <1>0, Counts DEF TypeOK, Threads, MutexInv, ProducerLabels, ConsumerLabels, Critical, LengthInv
<1>7. SeenInv'
  BY <1>0, Counts DEF TypeOK, Threads, SeenInv, LengthInv, MutexInv, ConsumerLabels
<1>8. LiveInv'
  BY <1>0, Counts DEF TypeOK, Threads, MutexInv, ProducerLabels, ConsumerLabels, Critical, LiveInv
<1> QED
  BY <1>1, <1>2, <1>3, <1>4, <1>5, <1>6, <1>7, <1>8

\* PeekNode preserves the invariant.
LEMMA PeekNodeStep ==
  ASSUME Inv, PeekNode(Consumer)
  PROVE  Inv'
<1> USE QueueAssumption DEF Inv, PeekNode, Goto, list, history
<1>0. /\ Taken' = Taken /\ Linked' = Linked /\ InList' = InList
      /\ \A i \in Taken .. (Linked + 1) : Spot(i)' = Spot(i)
  BY DEF Taken, Linked, InList, Spot
<1>1. TypeOK'
  BY <1>0, Counts DEF TypeOK, Labels, Threads, Cells
<1>2. MutexInv'
  BY <1>0, Counts DEF TypeOK, Threads, MutexInv, ProducerLabels, ConsumerLabels, Critical
<1>3. HistoryInv'
  BY <1>0, Counts DEF HistoryInv
<1>4. ListIntact'
  BY <1>0, Counts DEF ListIntact, Spot, InList
<1>5. LocalInv'
  BY <1>0, Counts DEF TypeOK, Threads, LocalInv, Out, MutexInv, Critical, ProducerLabels, ConsumerLabels
<1>6. LengthInv'
  BY <1>0, Counts DEF TypeOK, Threads, MutexInv, ProducerLabels, ConsumerLabels, Critical, LengthInv
<1>7. SeenInv'
  BY <1>0, Counts DEF TypeOK, Threads, SeenInv
<1>8. LiveInv'
  BY <1>0, Counts DEF TypeOK, Threads, MutexInv, ProducerLabels, ConsumerLabels, Critical, LiveInv
<1> QED
  BY <1>1, <1>2, <1>3, <1>4, <1>5, <1>6, <1>7, <1>8

\* EnqLink preserves the invariant: the new node becomes the one next to q->head.
LEMMA EnqLinkStep ==
  ASSUME Inv, NEW t \in Producers, EnqLink(t)
  PROVE  Inv'
<1> USE QueueAssumption DEF Inv, EnqLink, Goto
<1> DEFINE n == msg[t]
<1>1. /\ n \in live /\ n \in Nodes /\ arg[t] \in Msgs /\ data[n] = arg[t]
      /\ \A i \in InList : cell[i] # n
  BY DEF LocalInv, Out, TypeOK
<1>2. mutex = t /\ \A u \in Threads : u # t => pc[u] \notin Critical
  BY DEF MutexInv, Critical, Threads
<1>3. /\ Taken' = Taken /\ Linked' = Linked + 1
      /\ cell' = Append(cell, n) /\ log' = Append(log, arg[t])
  BY <1>1 DEF Taken, Linked, TypeOK
<1>4. /\ InList' = InList \cup {Linked + 1}
      /\ \A i \in InList : cell'[i] = cell[i] /\ log'[i] = log[i]
      /\ cell'[Linked + 1] = n /\ log'[Linked + 1] = arg[t]
  BY <1>1, <1>3, Counts DEF InList, TypeOK, Linked
<1>5. /\ Spot(Linked + 1) = QHead
      /\ \A i \in Taken .. (Linked + 2) :
            /\ i = Linked + 2 => Spot(i)' = QHead
            /\ i = Linked + 1 => Spot(i)' = n
            /\ i <= Linked => Spot(i)' = Spot(i)
  BY <1>3, <1>4, Counts DEF Spot, InList
<1>6. next[QHead] = Spot(Linked) /\ Spot(Linked) \in Cells
  <2>1. Linked \in Taken .. Linked
    BY Counts
  <2>2. next[Spot(Linked + 1)] = Spot(Linked)
    BY <2>1 DEF ListIntact
  <2>3. Spot(Linked) \in Cells
    BY <2>1, Counts DEF Spot, Cells, InList
  <2> QED
    BY <1>5, <2>2, <2>3
<1>7. \A i \in Taken .. Linked : Spot(i) # n /\ Spot(i) # QHead /\ (Spot(i) = Spot(Linked) => i = Linked)
  <2> SUFFICES ASSUME NEW i \in Taken .. Linked
               PROVE  Spot(i) # n /\ Spot(i) # QHead /\ (Spot(i) = Spot(Linked) => i = Linked)
    OBVIOUS
  <2>1. /\ i \in Taken .. (Linked + 1) /\ i # Linked + 1 /\ Linked \in Taken .. (Linked + 1)
        /\ Linked + 1 \in Taken .. (Linked + 1)
    BY Counts
  <2>2. Spot(i) # Spot(Linked + 1) /\ (Spot(i) = Spot(Linked) => i = Linked)
    BY <2>1, SpotsDistinct
  <2>3. Spot(i) # n
    BY <1>1, Counts DEF Spot, InList
  <2> QED
    BY <1>5, <2>2, <2>3
<1>8. /\ next' \in [Cells -> Cells \cup {Null}]
      /\ prev' \in [Cells -> Cells \cup {Null}]
      /\ \A x \in Cells : next'[x] = IF x = QHead THEN n ELSE IF x = n THEN Spot(Linked) ELSE next[x]
      /\ \A x \in Cells : prev'[x] = IF x = Spot(Linked) THEN n ELSE IF x = n THEN QHead ELSE prev[x]
  <2>1. n \in Cells /\ QHead \in Cells /\ n # QHead
    BY <1>1 DEF Cells
  <2>2. next' = [next EXCEPT ![n] = Spot(Linked), ![QHead] = n]
    BY <1>6
  <2>3. prev' = [prev EXCEPT ![n] = QHead, ![Spot(Linked)] = n]
    BY <1>6
  <2>4. next \in [Cells -> Cells \cup {Null}] /\ prev \in [Cells -> Cells \cup {Null}]
    BY DEF TypeOK
  <2>5. Spot(Linked) \in Cells
    BY <1>6
  <2> HIDE DEF EnqLink, n
  <2> QED
    BY <2>1, <2>2, <2>3, <2>4, <2>5
<1>11. TypeOK'
  <2>1. cell' \in Seq(Nodes) /\ log' \in Seq(Msgs)
    BY <1>1, <1>3 DEF TypeOK
  <2> QED
    BY <1>8, <2>1 DEF TypeOK, Labels, Threads
<1>12. MutexInv'
  BY <1>2 DEF TypeOK, MutexInv, ProducerLabels, ConsumerLabels, Critical, Threads
<1>13. HistoryInv'
  BY <1>1, <1>3, <1>4, Counts DEF HistoryInv, TypeOK, InList
<1>14. ListIntact'
  <2>1. ASSUME NEW i \in Taken .. (Linked + 1)
        PROVE  prev'[Spot(i)'] = Spot(i + 1)' /\ next'[Spot(i + 1)'] = Spot(i)'
    <3>1. CASE i = Linked + 1
      <4>1. prev'[n] = QHead
        <5>1. n # Spot(Linked)
          BY <1>7, Counts
        <5> QED
          BY <1>1, <1>8, <5>1 DEF Cells
      <4>2. next'[QHead] = n
        BY <1>8 DEF Cells
      <4> QED
        <5>1. Spot(i)' = n
          BY <1>3, <1>4, <3>1, Counts DEF Spot
        <5>2. Spot(i + 1)' = QHead
          BY <1>3, <3>1, Counts DEF Spot
        <5> QED
          BY <4>1, <4>2, <5>1, <5>2
    <3>2. CASE i = Linked
      <4>1. prev'[Spot(Linked)] = n
        BY <1>6, <1>8
      <4>2. next'[n] = Spot(Linked)
        BY <1>1, <1>8 DEF Cells
      <4> QED
        BY <1>3, <1>4, <3>2, <4>1, <4>2, Counts DEF Spot, InList
    <3>3. CASE i # Linked /\ i # Linked + 1
      <4>1. i \in Taken .. Linked /\ i + 1 \in Taken .. Linked
        BY <3>3, Counts
      <4>2. prev[Spot(i)] = Spot(i + 1) /\ next[Spot(i + 1)] = Spot(i)
        BY <4>1 DEF ListIntact
      <4>3. Spot(i) # n /\ Spot(i) # Spot(Linked) /\ Spot(i + 1) # n /\ Spot(i + 1) # QHead
        BY <1>7, <3>3, <4>1
      <4>4. prev'[Spot(i)] = prev[Spot(i)] /\ next'[Spot(i + 1)] = next[Spot(i + 1)]
        <5>1. Spot(i) \in Cells /\ Spot(i + 1) \in Cells
          BY <4>1, Counts DEF Spot, InList, Cells
        <5> QED
          BY <1>8, <4>3, <5>1
      <4> QED
        BY <1>3, <1>4, <4>1, <4>2, <4>4, Counts DEF Spot, InList
    <3> QED
      BY <3>1, <3>2, <3>3
  <2>2. \A i \in InList' : cell'[i] \in live' /\ data'[cell'[i]] = log'[i]
    BY <1>1, <1>4 DEF ListIntact, InList
  <2> QED
    BY <1>3, <2>1, <2>2 DEF ListIntact, InList
<1>15. LocalInv'
  BY <1>2, <1>3, <1>4, Counts DEF TypeOK, MutexInv, ProducerLabels, ConsumerLabels, Critical, LocalInv, Threads
<1>16. LengthInv'
  BY <1>2, <1>3, Counts DEF TypeOK, MutexInv, ConsumerLabels, Critical, LengthInv, Threads
<1>17. SeenInv'
  BY <1>3, Counts DEF TypeOK, SeenInv, Threads
<1>18. LiveInv'
  <2> SUFFICES ASSUME NEW x \in live
               PROVE  \E i \in InList' : cell'[i] = x
    BY DEF LiveInv
  <2>1. pc[Consumer] # "free"
    BY <1>2 DEF Threads, Critical
  <2>2. (\E i \in InList : cell[i] = x) \/ x = n
    BY <1>2, <2>1 DEF LiveInv
  <2> QED
    BY <1>4, <2>2
<1> QED
  BY <1>11, <1>12, <1>13, <1>14, <1>15, <1>16, <1>17, <1>18

\* DeqUnlink preserves the invariant: the node next to q->tail leaves the list.
LEMMA DeqUnlinkStep ==
  ASSUME Inv, DeqUnlink(Consumer)
  PROVE  Inv'
<1> USE QueueAssumption DEF Inv, DeqUnlink, Goto
<1> DEFINE n == msg[Consumer]
           T == Taken + 1
<1>1. /\ Taken < Linked /\ n = cell[T] /\ arg[Consumer] = log[T] /\ T \in InList
      /\ n \in live /\ n \in Nodes /\ arg[Consumer] \in Msgs
  BY Counts DEF LocalInv, ListIntact, InList
<1>2. mutex = Consumer /\ \A u \in Producers : pc[u] \notin Critical
  BY DEF MutexInv, Critical, Threads
<1>3. Taken' = T /\ Linked' = Linked /\ cell' = cell /\ log' = log
  BY <1>1 DEF Taken, Linked, TypeOK
<1>4. InList' = InList \ {T}
  BY <1>1, <1>3, Counts DEF InList
<1>5. /\ Spot(T) = n /\ Spot(Taken) = QTail
      /\ \A i \in T .. (Linked + 1) :
            /\ i = T => Spot(i)' = QTail
            /\ i # T => Spot(i)' = Spot(i)
  BY <1>1, <1>3, Counts DEF Spot
<1>6. prev[n] = Spot(T + 1) /\ Spot(T + 1) \in Cells
  <2>1. T \in Taken .. Linked /\ T + 1 \in Taken .. (Linked + 1)
    BY <1>1, Counts
  <2>2. prev[Spot(T)] = Spot(T + 1)
    BY <2>1 DEF ListIntact
  <2>3. Spot(T + 1) \in Cells
    BY <2>1, Counts DEF Spot, Cells, InList
  <2> QED
    BY <1>5, <2>2, <2>3
<1>7. /\ next' = [next EXCEPT ![Spot(T + 1)] = QTail]
      /\ prev' = [prev EXCEPT ![QTail] = Spot(T + 1)]
  BY <1>6
<1>8. \A i \in (T + 1) .. (Linked + 1) : Spot(i) # QTail /\ (Spot(i) = Spot(T + 1) => i = T + 1)
  <2> SUFFICES ASSUME NEW i \in (T + 1) .. (Linked + 1)
               PROVE  Spot(i) # QTail /\ (Spot(i) = Spot(T + 1) => i = T + 1)
    OBVIOUS
  <2>1. i \in Taken .. (Linked + 1) /\ T + 1 \in Taken .. (Linked + 1) /\ Taken \in Taken .. (Linked + 1) /\ i # Taken
    BY <1>1, Counts
  <2> QED
    BY <1>5, <2>1, SpotsDistinct
<1>11. TypeOK'
  BY <1>1, <1>6, <1>7 DEF TypeOK, Labels, Cells, Threads
<1>12. MutexInv'
  BY <1>2 DEF TypeOK, MutexInv, ProducerLabels, ConsumerLabels, Critical, Threads
<1>13. HistoryInv'
  BY <1>1, <1>3, <1>4, Counts DEF HistoryInv
<1>14. ListIntact'
  <2>1. ASSUME NEW i \in T .. Linked
        PROVE  prev'[Spot(i)'] = Spot(i + 1)' /\ next'[Spot(i + 1)'] = Spot(i)'
    <3>1. i + 1 \in (T + 1) .. (Linked + 1) /\ i \in Taken .. Linked
      BY <1>1, Counts
    <3>2. CASE i = T
      <4>1. prev'[QTail] = Spot(T + 1) /\ next'[Spot(T + 1)] = QTail
        BY <1>6, <1>7 DEF TypeOK, Cells
      <4> QED
        BY <1>3, <3>1, <3>2, <4>1, Counts DEF Spot
    <3>3. CASE i # T
      <4>1. i \in (T + 1) .. (Linked + 1) /\ i + 1 # T + 1
        BY <3>1, <3>3, Counts
      <4>2. prev[Spot(i)] = Spot(i + 1) /\ next[Spot(i + 1)] = Spot(i)
        BY <3>1 DEF ListIntact
      <4>3. prev'[Spot(i)] = prev[Spot(i)] /\ next'[Spot(i + 1)] = next[Spot(i + 1)]
        BY <1>7, <1>8, <3>1, <4>1 DEF TypeOK
      <4> QED
        BY <1>3, <3>1, <4>1, <4>2, <4>3, Counts DEF Spot
    <3> QED
      BY <3>2, <3>3
  <2>2. \A i \in InList' : cell'[i] \in live' /\ data'[cell'[i]] = log'[i]
    BY <1>3, <1>4 DEF ListIntact, InList
  <2> QED
    BY <1>3, <2>1, <2>2 DEF ListIntact, InList
<1>15. LocalInv'
  BY <1>1, <1>2, <1>3, <1>4, Counts DEF TypeOK, MutexInv, ProducerLabels, ConsumerLabels, Critical, LocalInv, Out, HistoryInv, Threads
<1>16. LengthInv'
  BY <1>1, <1>2, <1>3, Counts DEF TypeOK, LengthInv, Threads
<1>17. SeenInv'
  BY DEF TypeOK, SeenInv, Threads
<1>18. LiveInv'
  BY <1>1, <1>2, <1>3, <1>4 DEF TypeOK, LiveInv, Threads
<1> QED
  BY <1>11, <1>12, <1>13, <1>14, <1>15, <1>16, <1>17, <1>18

\* The invariant is inductive.
LEMMA InvStep == Inv /\ [Next]_vars => Inv'
<1> SUFFICES ASSUME Inv, [Next]_vars
             PROVE  Inv'
  OBVIOUS
<1>1. CASE UNCHANGED vars
  BY <1>1 DEF vars, list, history, Inv, TypeOK, MutexInv, HistoryInv, ListIntact, LocalInv, Out,
              LengthInv, SeenInv, LiveInv, Taken, Linked, InList, Spot
<1>2. ASSUME NEW t \in Producers, EnqLock(t) \/ EnqStep(t)
      PROVE  Inv'
  BY <1>2, EnqLockStep, EnqAllocStep, EnqLinkStep, EnqCountStep, EnqUnlockStep DEF EnqStep
<1>3. CASE DeqStep(Consumer)
  BY <1>1, <1>3, AwakeStep, DeqLockStep, DeqTakeStep, DeqUnlinkStep, DeqFreeStep, DeqUnlockStep
     DEF DeqStep, Sleep
<1>4. CASE PeekStep(Consumer)
  BY <1>4, PeekLengthStep, PeekNodeStep DEF PeekStep
<1> QED
  BY <1>1, <1>2, <1>3, <1>4 DEF Next

\* The inductive invariant of the list, its mutex and its threads always holds.
THEOREM Invariance == Spec => []Inv
  BY InitInv, InvStep, PTL DEF Spec

-----------------------------------------------------------------------------
(* The results.                                                             *)

\* The list's links, the length and the threads' locals are always well typed.
THEOREM TypeCorrect == Spec => []TypeOK
<1>1. Inv => TypeOK
  BY DEF Inv
<1> QED
  BY <1>1, Invariance, PTL

\* Both directions of the list hold exactly the messages not yet delivered.
THEOREM ListAlwaysIntact == Spec => []ListIntact
<1>1. Inv => ListIntact
  BY DEF Inv
<1> QED
  BY <1>1, Invariance, PTL

\* Whenever the mutex is free the length is the number of messages.
THEOREM LengthAlwaysExact == Spec => []LengthExact
<1>1. Inv => LengthExact
  <2> SUFFICES ASSUME Inv, mutex = Null
               PROVE  length = Linked - Taken
    BY DEF LengthExact
  <2>1. mutex \notin Producers /\ pc[Consumer] # "free"
    BY QueueAssumption DEF Inv, MutexInv, Critical, Threads
  <2> QED
    BY <2>1, Counts DEF Inv, LengthInv
<1> QED
  BY <1>1, Invariance, PTL

\* Deciding on an unlocked read of the length, the consumer still never takes
\* the sentinel out of the list or peeks into a freed node.
THEOREM SentinelNeverTaken == Spec => []NeverTakesSentinel
<1>1. Inv => NeverTakesSentinel
  BY OldestAtTail DEF Inv, SeenInv, NeverTakesSentinel
<1> QED
  BY <1>1, Invariance, PTL

\* When the mutex is free every allocated node is in the list.
THEOREM NothingLeaks == Spec => []NoLeak
<1>1. Inv => NoLeak
  <2> SUFFICES ASSUME Inv, mutex = Null
               PROVE  live = {cell[i] : i \in InList}
    BY DEF NoLeak, InList
  <2>1. mutex \notin Producers /\ pc[Consumer] # "free"
    BY QueueAssumption DEF Inv, MutexInv, Critical, Threads
  <2> QED
    BY <2>1 DEF Inv, LiveInv, ListIntact, InList
<1> QED
  BY <1>1, Invariance, PTL

\* The list under its mutex implements the queue: messages come out in the
\* order in which they were linked in, each once.
THEOREM Refinement == Spec => ImplementsFifo
<1>1. Init => F!Init
  BY DEF Init, F!Init
<1>2. Inv /\ [Next]_vars => [F!Next]_<<log, delivered>>
  <2> SUFFICES ASSUME Inv, [Next]_vars
               PROVE  F!Next \/ UNCHANGED <<log, delivered>>
    OBVIOUS
  <2>1. ASSUME NEW t \in Producers, EnqLink(t)
        PROVE  F!Next
    BY <2>1 DEF EnqLink, Inv, LocalInv, F!Next, F!Accept
  <2>2. CASE DeqUnlink(Consumer)
    BY <2>2 DEF DeqUnlink, Inv, LocalInv, Taken, Linked, F!Next, F!Deliver
  <2>3. CASE UNCHANGED <<log, delivered>>
    BY <2>3
  <2> QED
    BY <2>1, <2>2, <2>3 DEF Next, EnqStep, DeqStep, PeekStep, EnqLock, EnqAlloc, EnqCount, EnqUnlock,
       Sleep, Awake, DeqLock, DeqTake, DeqFree, DeqUnlock, PeekLength, PeekNode, history, vars
<1> QED
  BY <1>1, <1>2, Invariance, PTL DEF Spec, ImplementsFifo, F!Spec
=============================================================================
