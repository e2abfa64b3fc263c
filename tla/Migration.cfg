CONSTANTS
    None = None
    Runners = {r1, r2}
    Faults = {"fail", "crash", "session"}
SPECIFICATION FairSpec
INVARIANTS
    OneAtATime
    EffectsRecorded
    UpIdempotent
PROPERTIES
    RunnersFinish
