CONSTANTS
    Writers = {w1, w2}
    Sched = Sched
    Manual = Manual
    Gc = Gc
    Admin = Admin
    Nobody = Nobody
    Soft = 0
    HardLimits = {1}
    OnSoft = FALSE
    TombstoneRatio = FALSE
    MaxTx = 1
    Actors = {}
SPECIFICATION FairSpec
PROPERTIES GatedReturns PressureRelieved DropDetaches RequestServed
