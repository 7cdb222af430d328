\* Two dialogs, three events, one of them urgent.
CONSTANTS
    Windows = {login, main}
    Events = {e1, e2, e3}
    Urgent = {e3}
SPECIFICATION Spec
INVARIANTS
    TypeOK
    EachEventOnce
    NothingLostBeforeClose
    SleepsOnlyWhenIdle
PROPERTIES
    ImplementsBus
    QueueDrains
    JoinReturns
\* After the destructor nothing is left to run.
CHECK_DEADLOCK FALSE
