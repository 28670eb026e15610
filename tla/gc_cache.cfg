SPECIFICATION FairSpec
CONSTANTS
    r1 = r1
    r2 = r2
    Readers = {r1, r2}
    MayForce = TRUE
    MaxVersion = 1
INVARIANTS TypeOK RefsExact HeldTracked CurrentKept CacheCovered
PROPERTIES GarbageGoes
