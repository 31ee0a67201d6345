CONSTANTS
    Unit = 20
    Rate = 9
    Burst = 2
    Window = 4
    Err = 1
    MaxTime = 14
SPECIFICATION Spec
INVARIANTS
    RateKept
    NoticesSpaced
PROPERTIES
    PromiseKept
