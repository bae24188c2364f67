CONSTANTS
    q1 = q1
    q2 = q2
    Absent = Absent
    Partial = Partial
    Envs <- MCEnvs
SPECIFICATION Spec
CHECK_DEADLOCK FALSE
INVARIANTS ReadsHistory OpensUnlessFlipFails
PROPERTIES RecoveryExact StrictKept
