CONSTANTS
    q1 = q1
    q2 = q2
    Absent = Absent
    Partial = Partial
    Envs <- MCFlip
SPECIFICATION Spec
CHECK_DEADLOCK FALSE
INVARIANT AlwaysOpens
