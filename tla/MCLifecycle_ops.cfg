SPECIFICATION FairSpec
CONSTANTS
    Op = {o1, o2}
    Base = Base
    Kinds = {"create", "update", "upgrade", "restore", "delete"}
    MayFail = {"crash", "task", "workflow", "link", "rollback", "start", "plan", "planDelete", "apply", "persist", "finish", "complete", "failed"}
    MaxFaults = 2
    ForceFlag = FALSE
    Cancels = {"update", "restore", "delete"}
    Recreate = FALSE
INVARIANTS
    OneOperation
    SpecApplied
    NoOrphan
    KnownIsActual
PROPERTIES
    AcceptedOnCurrent
    Settles
CHECK_DEADLOCK FALSE
