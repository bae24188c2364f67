CONSTANTS
    Writers = {w1, w2, w3}
    Quads = {q1}
    Swapper = Swapper
    NoReply = NoReply
    Failed = Failed
SPECIFICATION FairSpec
INVARIANTS OneLeader NoOrphans EachAnsweredOnce 
PROPERTIES  FollowersReturn SwapNotStarved
