SPECIFICATION Spec
CONSTANTS
    Producers = {p1, p2, p3}
    MaxPuts = 2
INVARIANTS
    TypeOK
    NoLostWakeup
    ProducerOrder
PROPERTY
    ImplementsFifo
