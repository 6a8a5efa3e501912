-------------------------------- MODULE Fifo --------------------------------
(***************************************************************************)
(* What a message queue of freecoind promises: messages are delivered in   *)
(* the order in which they were accepted, each of them once.               *)
(***************************************************************************)
EXTENDS Naturals, Sequences

CONSTANT Msgs

VARIABLES
    log,        \* the messages accepted so far, in order
    delivered   \* the messages handed to the consumer so far, in order

Init == log = << >> /\ delivered = << >>

Accept(m) ==
    /\ log' = Append(log, m)
    /\ UNCHANGED delivered

Deliver ==
    /\ Len(delivered) < Len(log)
    /\ delivered' = Append(delivered, log[Len(delivered) + 1])
    /\ UNCHANGED log

Next == (\E m \in Msgs : Accept(m)) \/ Deliver

Spec == Init /\ [][Next]_<<log, delivered>>
=============================================================================
