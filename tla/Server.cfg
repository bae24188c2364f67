SPECIFICATION MCSpec
CONSTANTS
    c1 = c1
    c2 = c2
    None = None
    Client = {c1, c2}
    Request <- MCRequest
    GraphOf <- MCGraphOf
    Unnamed <- D0
    FirstQuads <- MCFirst
    PlanOf <- MCPlanOf
    AnswerOf <- MCAnswerOf
    Capacity = 2
    MaxOps = 3
    MaxFold = 1
CHECK_DEADLOCK FALSE
INVARIANTS NotModifiedSound PlanFits PoolComplete
PROPERTIES UncontendedAtomic EnginesAgree 
