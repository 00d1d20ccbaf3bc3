\* The shortest max_idle_secs that covers one failed round.
SPECIFICATION Spec
CONSTANTS
    Conn = {c1, c2}
    MaxIdle = 4
    MaxWrite = 1
    MaxErrors = 1
    ClockRace = TRUE
INVARIANT SweptOnTime
PROPERTY EstablishedIsNotSwept
