\* Every file an operator can write, crashes and restarts at every step.
SPECIFICATION Spec
INVARIANTS
    TypeOK
    RestartsAlike
PROPERTIES
    FileHeals
    CancelEndsMain
