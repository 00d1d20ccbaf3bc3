\* Two names; the clock may be set back once.
SPECIFICATION Spec
CONSTANTS
    Ttl = 2
    Name = {n1, n2}
    Value = {v1, v2}
    BadValue = {x1}
    MaxTime = 5
    MaxRecords = 3
INVARIANTS TypeOK AddressIsExact TextIsExact EntriesAreQueued
