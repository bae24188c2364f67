SPECIFICATION Spec
CONSTANTS
    Quads = {"q1"}
    Readers = {"r1"}
    NoSnap = NoSnap
    MaxEpoch = 3
    MaxGroup = 2
    MaxStorage = 3
INVARIANTS SnapshotIsolation PlanFaithful MergeFaithful
PROPERTIES NeverRegresses RefinesAtomicStore
CHECK_DEADLOCK FALSE
