CONSTANTS
    q1 = q1
    q2 = q2
    Absent = Absent
    Partial = Partial
    Envs <- MCPoison
SPECIFICATION Spec
CHECK_DEADLOCK FALSE
PROPERTY StrictSurvives
