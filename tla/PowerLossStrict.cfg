CONSTANTS
    q1 = q1
    q2 = q2
    Absent = Absent
    Partial = Partial
    Envs <- MCRotation
SPECIFICATION Spec
CHECK_DEADLOCK FALSE
PROPERTY StrictSurvives
