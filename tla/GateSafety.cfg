CONSTANTS
    Writers = {w1, w2}
    Sched = Sched
    Manual = Manual
    Gc = Gc
    Admin = Admin
    Nobody = Nobody
    Soft = 1
    HardLimits = {1, 2}
    OnSoft = TRUE
    TombstoneRatio = TRUE
    MaxTx = 2
    Actors = {Manual, Gc, Admin}
SPECIFICATION Spec
INVARIANTS NoLostWakeup BoundedOvershoot 
SYMMETRY WriterSymmetry
