\* Three messages from two threads, for every order of the threads' steps.
SPECIFICATION FairSpec
CONSTANTS
    Producers = {t1, t2}
    Consumer = main
    Msgs = {m1, m2, m3}
    Nodes = {n1, n2, n3}
    QHead = QHead
    QTail = QTail
    Null = Null
INVARIANTS
    TypeOK
    ListIntact
    LengthExact
    NeverTakesSentinel
    NoLeak
PROPERTIES
    ImplementsFifo
    AllDelivered
