---------------------------- MODULE DaemonProofs ----------------------------
(***************************************************************************)
(* The two daemons, for any number of connections, clients and messages:   *)
(* what the answers of the handlers of the one in C are made of, and what  *)
(* ends the one in Python.                                                 *)
(***************************************************************************)
EXTENDS Daemon, PyDaemon, SequenceTheorems, TLAPS

-----------------------------------------------------------------------------
(* The server thread.                                                       *)

\* The variable peer holds a connection, and so does a thread that has looked.
ThreadInv == conn \in Conns \cup {0} /\ serves \in Seq(Conns \cup {0})

LEMMA ThreadInit == DaemonInit => ThreadInv
BY DEF DaemonInit, ThreadInv

LEMMA ThreadStep == ThreadInv /\ [DaemonNext]_daemonVars => ThreadInv'
<1> SUFFICES ASSUME ThreadInv, [DaemonNext]_daemonVars
             PROVE  ThreadInv'
  OBVIOUS
<1>1. ASSUME conn' = conn, serves' = serves
      PROVE  ThreadInv'
  BY <1>1 DEF ThreadInv
<1>2. ASSUME NEW c \in Conns, Accept(c)
      PROVE  ThreadInv'
  BY <1>2 DEF ThreadInv, Accept
<1>3. CASE CreateThread
  BY <1>3 DEF ThreadInv, CreateThread
<1>4. ASSUME NEW t \in DOMAIN serves, Look(t)
      PROVE  ThreadInv'
  BY <1>4 DEF ThreadInv, Look
<1>5. ASSUME NEW t \in DOMAIN serves, NEW m \in Inbox, Deliver(t, m)
      PROVE  ThreadInv'
  BY <1>1, <1>5 DEF Deliver, acceptVars
<1>6. CASE CreateThreadFails \/ AcceptFails \/ Dispatch
  BY <1>1, <1>6 DEF CreateThreadFails, AcceptFails, Dispatch, acceptVars
<1>7. CASE UNCHANGED daemonVars
  BY <1>1, <1>7 DEF daemonVars, acceptVars
<1> QED
  BY <1>2, <1>3, <1>4, <1>5, <1>6, <1>7 DEF DaemonNext

-----------------------------------------------------------------------------
(* The main loop.                                                           *)

Messages == [type : Byte, bytes : Seq(Byte), from : Conns]
Hash == [1 .. HashSize -> Byte]

\* What the handlers put together, whatever the hashes are.
IdLists == {Missing(t, s) : t \in Byte, s \in Seq(Hash)} \cup {Found(s) : s \in Seq(Hash)}
Answers == [kind : {"inv", "stray"}, of : Nat] \cup [kind : {"getdata", "data"}, ids : IdLists, of : Nat]

IsBuffer(buf) == buf \in [0 .. MAX_MSG_SIZE - 1 -> Byte]
FitsBuffer(m) == Len(m.bytes) <= MAX_MSG_SIZE
InFront(m, buf) == \A i \in 0 .. Len(m.bytes) - 1 : buf[i] = m.bytes[i + 1]

LoopType ==
    /\ recvq \in Seq(Messages) /\ handled \in Seq(Messages)
    /\ \A i \in 1 .. Len(recvq) : FitsBuffer(recvq[i])
    /\ IsBuffer(buffer)
    /\ sendq \in [Conns -> Seq(Answers)]

\* An answer that is right for the messages handled so far.
RightAnswer(c, a, msgs) ==
    /\ a.of \in 1 .. Len(msgs)
    /\ msgs[a.of].from = c
    /\ a.kind = "getdata" => a.ids = Missing(msgs[a.of].bytes[1], MessageIds(msgs[a.of]))
    /\ a.kind = "data" => a.ids = Found(MessageIds(msgs[a.of]))

AllRight == \A c \in Conns : \A k \in 1 .. Len(sendq[c]) : RightAnswer(c, sendq[c][k], handled)

LoopInv == LoopType /\ AllRight

\* What does not fit the multiples of a hash is refused, so the numbers agree.
LEMMA CountExact ==
  ASSUME NEW size \in Nat, NEW count \in Nat, size - 2 = count * HashSize
  PROVE  /\ size >= 2
         /\ (size - 2) \div HashSize = count
         /\ \A i \in 1 .. count, j \in 1 .. HashSize : 2 + (i - 1) * HashSize + j <= size
<1> USE DaemonAssumption
<1>1. count * HashSize \in Nat
  OBVIOUS
<1>2. (count * HashSize) \div HashSize = count
  OBVIOUS
<1>3. ASSUME NEW i \in 1 .. count, NEW j \in 1 .. HashSize
      PROVE  2 + (i - 1) * HashSize + j <= size
  <2>1. PICK d \in Nat : count = i + d
    BY count - i \in Nat
  <2>2. count * HashSize = (i - 1) * HashSize + HashSize + d * HashSize
    BY <2>1
  <2>3. d * HashSize \in Nat /\ (i - 1) * HashSize \in Nat
    BY <2>1
  <2> QED
    BY <2>2, <2>3
<1> QED
  BY <1>1, <1>2, <1>3

\* A uint16_t holds at most what it is set to, a uint8_t the lower byte.
LEMMA Uint16 == \A n \in Nat : n % 65536 \in Nat /\ n % 65536 <= n
OBVIOUS
LEMMA LowByte == \A x, y \in 0 .. 255 : (256 * x + y) % 256 = y
OBVIOUS

\* The hashes that the handlers' loops read are those of the message, if the
\* message's bytes are in front of the buffer and its size is not refused.
LEMMA ReadFromMessage ==
  ASSUME NEW m \in Messages, NEW buf, IsBuffer(buf), FitsBuffer(m),
         InFront(m, buf), ~WrongSize(MessageSize(m), buf)
  PROVE  /\ Count(buf) \in Nat
         /\ buf[0] = m.bytes[1]
         /\ Ids(buf, Count(buf)) = MessageIds(m)
         /\ Ids(buf, Count(buf)) \in Seq(Hash)
<1> USE DaemonAssumption
<1> DEFINE count == Count(buf)
           size == MessageSize(m)
           H == HashSize
<1>1. m.bytes \in Seq(Byte) /\ Len(m.bytes) \in Nat
  BY DEF Messages
<1>2. buf[1] \in 0 .. 255 /\ buf[2] \in 0 .. 255
  BY DEF IsBuffer, Byte
<1>3. count = buf[2]
  <2>1. count = (256 * buf[1] + buf[2]) % 256
    BY DEF Count
  <2> QED
    BY <1>2, <2>1, LowByte, ZenonT(60)
<1>4. size = Len(m.bytes) % 65536
  BY DEF MessageSize
<1>5. size - 2 = count * HashSize
  BY DEF WrongSize
<1> HIDE DEF count, size
<1>a. count \in Nat
  BY <1>2, <1>3
<1>b. size \in Nat /\ size <= Len(m.bytes)
  <2> DEFINE n == Len(m.bytes)
  <2> HIDE DEF n
  <2>1. n \in Nat /\ size = n % 65536
    BY <1>1, <1>4 DEF n
  <2>2. n % 65536 \in Nat /\ n % 65536 <= n
    BY <2>1, Uint16
  <2>3. size \in Nat /\ size <= n
    BY <2>1, <2>2
  <2> QED
    BY <2>3 DEF n
<1>6. /\ size >= 2 /\ (size - 2) \div H = count
      /\ \A i \in 1 .. count, j \in 1 .. H : 2 + (i - 1) * H + j <= size
  BY <1>a, <1>b, <1>5, CountExact
<1>7. buf[0] = m.bytes[1]
  BY <1>1, <1>b, <1>6 DEF InFront
<1>8. ASSUME NEW i \in 1 .. count
      PROVE  Id(buf, i - 1) = SubSeq(m.bytes, 3 + (i - 1) * H, 2 + i * H)
  <2> DEFINE o == (i - 1) * H
  <2>1. o \in Nat /\ i * H = o + H
    BY <1>a
  <2>2. \A j \in 1 .. H : 2 + o + j <= size
    BY <1>6
  <2> HIDE DEF o
  <2>3. \A j \in 1 .. H : buf[2 + o + j - 1] = m.bytes[3 + o + j - 1]
    <3> TAKE j \in 1 .. H
    <3> DEFINE n == Len(m.bytes)
    <3>1. n \in Nat /\ size \in Nat /\ size <= n /\ o \in Nat /\ 2 + o + j <= size
      BY <1>1, <1>b, <2>1, <2>2
    <3> HIDE DEF n
    <3>2. 2 + o + j - 1 \in 0 .. n - 1 /\ 2 + o + j - 1 + 1 = 3 + o + j - 1
      BY <3>1
    <3> QED
      BY <3>2 DEF n, InFront
  <2>4. SubSeq(m.bytes, 3 + o, 2 + (o + H)) = [j \in 1 .. H |-> m.bytes[3 + o + j - 1]]
    <3>1. 2 + o + H <= size
      BY <2>2
    <3>2. 2 + (o + H) <= Len(m.bytes)
      BY <1>1, <1>b, <2>1, <3>1
    <3> DEFINE a == 3 + o
               b == 2 + (o + H)
    <3>3. a \in Nat /\ b \in Nat /\ a <= b + 1 /\ b - a + 1 = H /\ a >= 1 /\ b <= Len(m.bytes)
      BY <2>1, <3>2
    <3> HIDE DEF a, b
    <3>4. SubSeq(m.bytes, a, b) \in Seq(Byte) /\ Len(SubSeq(m.bytes, a, b)) = H
      BY <1>1, <3>3
    <3>5. \A j \in 1 .. H : SubSeq(m.bytes, a, b)[j] = m.bytes[a + j - 1]
      BY <1>1, <3>3
    <3>6. DOMAIN SubSeq(m.bytes, a, b) = 1 .. H
      BY <3>4
    <3>7. SubSeq(m.bytes, a, b) = [j \in 1 .. H |-> SubSeq(m.bytes, a, b)[j]]
      BY <3>4, <3>6, LenProperties
    <3>8. SubSeq(m.bytes, a, b) = [j \in 1 .. H |-> m.bytes[a + j - 1]]
      BY <3>5, <3>7
    <3> QED
      BY <3>8 DEF a, b
  <2>5. Id(buf, i - 1) = [j \in 1 .. H |-> buf[2 + o + j - 1]]
    BY DEF Id, o
  <2> QED
    BY <2>1, <2>3, <2>4, <2>5 DEF o
<1>9. Ids(buf, count) = MessageIds(m)
  BY <1>6, <1>8 DEF Ids, MessageIds, size
<1>10. Ids(buf, count) \in Seq(Hash)
  <2>1. ASSUME NEW i \in 1 .. count
        PROVE  Id(buf, i - 1) \in Hash
    <3> SUFFICES ASSUME NEW j \in 1 .. H
                 PROVE  buf[2 + (i - 1) * H + j - 1] \in Byte
      BY DEF Id, Hash
    <3> DEFINE o == (i - 1) * H
    <3>1. o \in Nat
      BY <1>a
    <3>2. 2 + o + j <= size
      BY <1>6
    <3> HIDE DEF o
    <3>3. 2 + o + j - 1 \in 0 .. MAX_MSG_SIZE - 1
      BY <1>1, <1>b, <3>1, <3>2 DEF FitsBuffer
    <3> QED
      BY <3>3 DEF o, IsBuffer
  <2> QED
    BY <1>a, <2>1 DEF Ids
<1> QED
  BY <1>a, <1>7, <1>9, <1>10 DEF count

\* What the main loop takes from the queue, and the buffer it has then.
LEMMA Taken ==
  ASSUME LoopInv, Dispatch
  PROVE  \E m, buf :
            /\ m \in Messages
            /\ m = Head(recvq) /\ FitsBuffer(m)
            /\ IsBuffer(buf) /\ InFront(m, buf) /\ buffer' = buf
            /\ recvq' = Tail(recvq) /\ recvq # <<>>
            /\ handled' = Append(handled, m)
            /\ Nothing \/ Handle(m.type, buf, MessageSize(m), m.from)
<1> DEFINE m == Head(recvq)
           buf == [i \in DOMAIN buffer |-> IF i < Len(m.bytes) THEN m.bytes[i + 1] ELSE buffer[i]]
<1>1. LoopType
  BY DEF LoopInv
<1>2. /\ recvq # <<>> /\ recvq' = Tail(recvq) /\ buffer' = buf /\ handled' = Append(handled, m)
      /\ Nothing \/ Handle(m.type, buf, MessageSize(m), m.from)
  BY DEF Dispatch
<1>3. m \in Messages /\ FitsBuffer(m)
  BY <1>1, <1>2 DEF LoopType
<1>4. m.bytes \in Seq(Byte) /\ Len(m.bytes) \in Nat /\ Len(m.bytes) <= MAX_MSG_SIZE
  BY <1>3 DEF Messages, FitsBuffer
<1> HIDE DEF m
<1>5. /\ DOMAIN buffer = 0 .. MAX_MSG_SIZE - 1
      /\ \A i \in 0 .. MAX_MSG_SIZE - 1 : buffer[i] \in Byte
  BY <1>1 DEF LoopType, IsBuffer
<1>6. \A i \in 0 .. Len(m.bytes) - 1 : buf[i] = m.bytes[i + 1]
  BY <1>4, <1>5, DaemonAssumption
<1>7. \A i \in 0 .. MAX_MSG_SIZE - 1 : buf[i] \in Byte
  <2> TAKE i \in 0 .. MAX_MSG_SIZE - 1
  <2>1. CASE i < Len(m.bytes)
    BY <1>4, <1>5, <2>1
  <2>2. CASE ~(i < Len(m.bytes))
    BY <1>5, <2>2
  <2> QED
    BY <2>1, <2>2
<1>8. IsBuffer(buf)
  <2>1. DOMAIN buf = 0 .. MAX_MSG_SIZE - 1
    BY <1>5
  <2>2. buf = [i \in 0 .. MAX_MSG_SIZE - 1 |-> buf[i]]
    BY <2>1
  <2> HIDE DEF buf
  <2> QED
    BY <1>7, <2>2 DEF IsBuffer
<1>9. InFront(m, buf)
  BY <1>6 DEF InFront
<1> QED
  BY <1>2, <1>3, <1>8, <1>9 DEF m

\* What a handler does with a message: nothing that is seen, or an answer that is
\* right.
LEMMA HandlerResult ==
  ASSUME NEW m \in Messages, NEW buf, IsBuffer(buf), InFront(m, buf), FitsBuffer(m),
         handled \in Seq(Messages), handled' = Append(handled, m),
         Nothing \/ Handle(m.type, buf, MessageSize(m), m.from)
  PROVE  \/ sendq' = sendq
         \/ \E a \in Answers : RightAnswer(m.from, a, handled') /\ Send(m.from, <<a>>)
<1> DEFINE size == MessageSize(m)
           n == Len(handled) + 1
           ids == Ids(buf, Count(buf))
<1>1. n \in Nat /\ n = Len(handled') /\ handled'[n] = m /\ n \in 1 .. Len(handled')
  OBVIOUS
<1>2. ASSUME ~WrongSize(size, buf)
      PROVE  buf[0] = m.bytes[1] /\ ids = MessageIds(m) /\ ids \in Seq(Hash)
  BY <1>2, ReadFromMessage
<1>3. buf[0] \in Byte
  BY DaemonAssumption DEF IsBuffer
<1> HIDE DEF size, n, ids
<1>4. CASE m.type = 1 /\ handle_getblocks(buf, size, m.from)
  <2> DEFINE a == [kind |-> "inv", of |-> n]
  <2>1. a \in Answers /\ a.of = n /\ a.kind = "inv"
    BY <1>1 DEF Answers
  <2>2. sendq' = sendq \/ Send(m.from, <<a>>)
    BY <1>4 DEF handle_getblocks, Nothing, n
  <2> HIDE DEF a
  <2>3. RightAnswer(m.from, a, handled')
    BY <1>1, <2>1 DEF RightAnswer
  <2> QED
    BY <2>1, <2>2, <2>3
<1>5. CASE m.type = 3 /\ handle_inv(buf, size, m.from)
  <2> DEFINE a == [kind |-> "getdata", ids |-> Missing(buf[0], ids), of |-> n]
  <2>1. sendq' = sendq \/ (~WrongSize(size, buf) /\ Send(m.from, <<a>>))
    BY <1>5 DEF handle_inv, Nothing, n, ids
  <2>2. a.of = n /\ a.kind = "getdata" /\ a.ids = Missing(buf[0], ids)
    OBVIOUS
  <2>3. ASSUME ~WrongSize(size, buf)
        PROVE  a \in Answers
    BY <1>1, <1>2, <1>3, <2>3 DEF Answers, IdLists
  <2> HIDE DEF a
  <2>4. ASSUME ~WrongSize(size, buf)
        PROVE  RightAnswer(m.from, a, handled')
    BY <1>1, <1>2, <2>2, <2>4 DEF RightAnswer, size
  <2> QED
    BY <2>1, <2>3, <2>4
<1>6. CASE m.type = 4 /\ handle_getdata(buf, size, m.from)
  <2> DEFINE a == [kind |-> "data", ids |-> Found(ids), of |-> n]
           s == [kind |-> "stray", of |-> n]
  <2>1. \/ sendq' = sendq
        \/ ~WrongSize(size, buf) /\ Send(m.from, <<a>>)
        \/ Send(m.from, <<s>>)
    BY <1>6 DEF handle_getdata, Unset, Nothing, n, ids
  <2>2. s \in Answers /\ s.of = n /\ s.kind = "stray"
    BY <1>1 DEF Answers
  <2>3. a.of = n /\ a.kind = "data" /\ a.ids = Found(ids)
    OBVIOUS
  <2>4. ASSUME ~WrongSize(size, buf)
        PROVE  a \in Answers
    BY <1>1, <1>2, <2>4 DEF Answers, IdLists
  <2> HIDE DEF a, s
  <2>5. ASSUME ~WrongSize(size, buf)
        PROVE  RightAnswer(m.from, a, handled')
    BY <1>1, <1>2, <2>3, <2>5 DEF RightAnswer
  <2>6. RightAnswer(m.from, s, handled')
    BY <1>1, <2>2 DEF RightAnswer
  <2> QED
    BY <2>2, <2>1, <2>4, <2>5, <2>6
<1>7. \/ Nothing
      \/ m.type = 1 /\ handle_getblocks(buf, size, m.from)
      \/ m.type = 3 /\ handle_inv(buf, size, m.from)
      \/ m.type = 4 /\ handle_getdata(buf, size, m.from)
  BY DEF Handle, handle_reject, size
<1> QED
  BY <1>4, <1>5, <1>6, <1>7 DEF Nothing

\* A later message changes nothing about an answer.
LEMMA StaysRight ==
  ASSUME handled \in Seq(Messages), NEW m \in Messages, handled' = Append(handled, m),
         NEW c \in Conns, NEW a, RightAnswer(c, a, handled)
  PROVE  RightAnswer(c, a, handled')
<1>1. a.of \in 1 .. Len(handled)
  BY DEF RightAnswer
<1>2. a.of \in 1 .. Len(handled') /\ handled'[a.of] = handled[a.of]
  BY <1>1
<1> QED
  BY <1>2 DEF RightAnswer

LEMMA LoopInit == DaemonInit => LoopInv
<1> SUFFICES ASSUME DaemonInit
             PROVE  LoopInv
  OBVIOUS
<1>1. recvq = <<>> /\ handled = <<>> /\ sendq = [c \in Conns |-> <<>>]
  BY DEF DaemonInit
<1>2. IsBuffer(buffer)
  BY DaemonAssumption DEF DaemonInit, IsBuffer
<1>3. sendq \in [Conns -> Seq(Answers)] /\ \A c \in Conns : Len(sendq[c]) = 0
  BY <1>1
<1>4. recvq \in Seq(Messages) /\ handled \in Seq(Messages) /\ Len(recvq) = 0
  BY <1>1
<1> QED
  BY <1>2, <1>3, <1>4 DEF LoopInv, LoopType, AllRight

LEMMA DispatchStep ==
  ASSUME LoopInv, Dispatch
  PROVE  LoopInv'
<1>1. LoopType /\ AllRight
  BY DEF LoopInv
<1>2. PICK m, buf :
         /\ m \in Messages
         /\ m = Head(recvq) /\ FitsBuffer(m)
         /\ IsBuffer(buf) /\ InFront(m, buf) /\ buffer' = buf
         /\ recvq' = Tail(recvq) /\ recvq # <<>>
         /\ handled' = Append(handled, m)
         /\ Nothing \/ Handle(m.type, buf, MessageSize(m), m.from)
  BY Taken
<1>3. handled \in Seq(Messages) /\ handled' \in Seq(Messages)
  BY <1>1, <1>2 DEF LoopType
<1>4. /\ recvq' \in Seq(Messages)
      /\ \A i \in 1 .. Len(recvq') : FitsBuffer(recvq'[i])
  BY <1>1, <1>2 DEF LoopType
<1>5. IsBuffer(buffer')
  BY <1>2
<1>6. \A c \in Conns : \A k \in 1 .. Len(sendq[c]) : RightAnswer(c, sendq[c][k], handled')
  BY <1>1, <1>2, <1>3, StaysRight DEF AllRight
<1>7. ASSUME sendq' = sendq
      PROVE  sendq' \in [Conns -> Seq(Answers)] /\ AllRight'
  BY <1>1, <1>6, <1>7 DEF LoopType, AllRight
<1>8. ASSUME NEW a \in Answers, RightAnswer(m.from, a, handled'), Send(m.from, <<a>>)
      PROVE  sendq' \in [Conns -> Seq(Answers)] /\ AllRight'
  <2> DEFINE d == m.from
  <2>1. d \in Conns
    BY <1>2 DEF Messages
  <2> HIDE DEF d
  <2>2. sendq \in [Conns -> Seq(Answers)] /\ sendq' = [sendq EXCEPT ![d] = @ \o <<a>>]
    BY <1>1, <1>8 DEF LoopType, Send, d
  <2>3. /\ sendq[d] \in Seq(Answers) /\ sendq[d] \o <<a>> \in Seq(Answers)
        /\ Len(sendq[d] \o <<a>>) = Len(sendq[d]) + 1
        /\ (sendq[d] \o <<a>>)[Len(sendq[d]) + 1] = a
        /\ \A k \in 1 .. Len(sendq[d]) : (sendq[d] \o <<a>>)[k] = sendq[d][k]
    BY <2>1, <2>2
  <2>4. sendq' \in [Conns -> Seq(Answers)]
    BY <2>1, <2>2, <2>3
  <2>5. sendq'[d] = sendq[d] \o <<a>> /\ \A c \in Conns \ {d} : sendq'[c] = sendq[c]
    BY <2>1, <2>2
  <2>6. ASSUME NEW c \in Conns, NEW k \in 1 .. Len(sendq'[c])
        PROVE  RightAnswer(c, sendq'[c][k], handled')
    <3>1. CASE c # d
      BY <1>6, <2>5, <3>1
    <3>2. CASE c = d /\ k = Len(sendq[d]) + 1
      BY <1>8, <2>3, <2>5, <3>2 DEF d
    <3>3. CASE c = d /\ k # Len(sendq[d]) + 1
      <4>1. k \in 1 .. Len(sendq[d])
        BY <2>3, <2>5, <3>3
      <4> QED
        BY <1>6, <2>1, <2>3, <2>5, <3>3, <4>1
    <3> QED
      BY <3>1, <3>2, <3>3
  <2> QED
    BY <2>4, <2>6 DEF AllRight
<1>9. sendq' \in [Conns -> Seq(Answers)] /\ AllRight'
  <2>1. \/ sendq' = sendq
        \/ \E a \in Answers : RightAnswer(m.from, a, handled') /\ Send(m.from, <<a>>)
    BY <1>2, <1>3, HandlerResult
  <2> QED
    BY <1>7, <1>8, <2>1
<1> QED
  BY <1>3, <1>4, <1>5, <1>9 DEF LoopInv, LoopType

LEMMA LoopStep == ThreadInv /\ LoopInv /\ [DaemonNext]_daemonVars => LoopInv'
<1> SUFFICES ASSUME ThreadInv, LoopInv, [DaemonNext]_daemonVars
             PROVE  LoopInv'
  OBVIOUS
<1>1. ASSUME UNCHANGED loopVars
      PROVE  LoopInv'
  BY <1>1 DEF loopVars, LoopInv, LoopType, AllRight
<1>2. ASSUME NEW t \in DOMAIN serves, NEW m \in Inbox, Deliver(t, m)
      PROVE  LoopInv'
  <2> DEFINE x == [type |-> m.type, bytes |-> m.bytes, from |-> serves[t]]
  <2>1. serves[t] \in Conns
    BY <1>2 DEF ThreadInv, Deliver
  <2>2. x \in Messages
    BY <2>1, InboxAssumption DEF Messages
  <2>3. FitsBuffer(x)
    BY InboxAssumption DEF FitsBuffer
  <2>4. /\ recvq' = Append(recvq, x) /\ buffer' = buffer /\ sendq' = sendq /\ handled' = handled
    BY <1>2 DEF Deliver
  <2> HIDE DEF x
  <2>5. recvq \in Seq(Messages) /\ \A i \in 1 .. Len(recvq) : FitsBuffer(recvq[i])
    BY DEF LoopInv, LoopType
  <2>6. recvq' \in Seq(Messages) /\ \A i \in 1 .. Len(recvq') : FitsBuffer(recvq'[i])
    BY <2>2, <2>3, <2>4, <2>5
  <2> QED
    BY <2>4, <2>6 DEF LoopInv, LoopType, AllRight
<1>3. CASE Dispatch
  BY <1>3, DispatchStep
<1>4. ASSUME NEW c \in Conns, Accept(c)
      PROVE  LoopInv'
  BY <1>1, <1>4 DEF Accept
<1>5. ASSUME NEW t \in DOMAIN serves, Look(t)
      PROVE  LoopInv'
  BY <1>1, <1>5 DEF Look
<1>6. CASE CreateThread \/ CreateThreadFails \/ AcceptFails
  BY <1>1, <1>6 DEF CreateThread, CreateThreadFails, AcceptFails
<1>7. CASE UNCHANGED daemonVars
  BY <1>1, <1>7 DEF daemonVars
<1> QED
  BY <1>2, <1>3, <1>4, <1>5, <1>6, <1>7 DEF DaemonNext

\* Whatever longer messages left in the buffer, handle_inv and handle_getdata
\* answer with hashes of the message they handle, for any size of hash, of
\* buffer and of queue.
THEOREM AnswersAlwaysFromMessage == DaemonSpec => []AnswersFromMessage
<1>1. LoopInv => AnswersFromMessage
  <2> SUFFICES ASSUME LoopInv
               PROVE  AnswersFromMessage
    OBVIOUS
  <2>1. \A c \in Conns : DOMAIN sendq[c] = 1 .. Len(sendq[c])
    BY DEF LoopInv, LoopType
  <2>2. \A c \in Conns : \A k \in DOMAIN sendq[c] : RightAnswer(c, sendq[c][k], handled)
    BY <2>1 DEF LoopInv, AllRight
  <2> QED
    BY <2>2 DEF AnswersFromMessage, RightAnswer
<1> QED
  BY <1>1, ThreadInit, ThreadStep, LoopInit, LoopStep, PTL DEF DaemonSpec

-----------------------------------------------------------------------------
(* The daemon in Python.                                                    *)

\* How far the main thread is, the server and the interrupts that came.
PyInv ==
    /\ main \in {"start", "bound", "started", "waiting", "exit", "shutdown", "ended"}
    /\ server \in {"off", "listening", "serving", "stopped"}
    /\ signals \in 0 .. 2
    /\ registered \/ main = "started" => server \in {"serving", "stopped"}
    /\ request => registered /\ main \in {"shutdown", "ended"}
    /\ main = "shutdown" => registered
    /\ server = "stopped" => request
    /\ server \in {"serving", "stopped"} =>
          (main \in {"exit", "shutdown", "ended"} => signals > 0) /\ main \notin {"start", "bound"}
    /\ registered /\ main = "ended" => server = "stopped" \/ signals > 1

\* No thread of the daemon in Python ends a server or the process it runs in
\* before an interrupt, whatever the constructor or the start of the thread
\* raise; and only a second interrupt ends the process before the server.
THEOREM PyServesUntilInterrupt == PySpec => []ServesUntilInterrupt
<1>1. PyInit => PyInv
  BY DEF PyInit, PyInv
<1>2. PyInv /\ [PyNext]_pyVars => PyInv'
  <2> SUFFICES ASSUME PyInv, [PyNext]_pyVars
               PROVE  PyInv'
    OBVIOUS
  <2>1. CASE Bind \/ StartThread \/ Raises \/ Register
    BY <2>1 DEF PyInv, Main, Bind, StartThread, Raises, Register
  <2>2. CASE Interrupt
    BY <2>2 DEF PyInv, Main, Interrupt
  <2>3. CASE WaitOver \/ Shutdown
    BY <2>3 DEF PyInv, Main, WaitOver, Shutdown
  <2>4. CASE End \/ Stop
    BY <2>4 DEF PyInv, Main, End, Stop
  <2>5. ASSUME UNCHANGED <<main, server, registered, request, signals>>
        PROVE  PyInv'
    BY <2>5 DEF PyInv
  <2>6. ASSUME NEW c \in Clients, Connect(c) \/ Serve(c) \/ Close(c) \/ handle_connection(c)
        PROVE  PyInv'
    BY <2>5, <2>6 DEF Connect, Serve, Close, handle_connection, Move
  <2>7. CASE UNCHANGED pyVars
    BY <2>5, <2>7 DEF pyVars
  <2> QED
    BY <2>1, <2>2, <2>3, <2>4, <2>6, <2>7 DEF PyNext
<1>3. PyInv => ServesUntilInterrupt
  BY DEF PyInv, ServesUntilInterrupt
<1> QED
  BY <1>1, <1>2, <1>3, PTL DEF PySpec
=============================================================================
