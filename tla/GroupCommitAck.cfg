CONSTANTS
    Writers = {w1, w2}
    Quads = {q1}
    Swapper = Swapper
    NoReply = NoReply
    Failed = Failed
SPECIFICATION Spec
INVARIANT AckedVisible
