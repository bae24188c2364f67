SPECIFICATION MCSpec
CONSTANTS
    Instances = {"editor", "turtle", "sparql", "segments", "pipeline"}
    Uri = {doc}
    Texts <- MCTexts
    Edits <- MCEdits
    Languages = {"turtle"}
    Asks <- MCAsks
    MaxOps = 5
    MaxQueue = 2
    Analyze <- MCAnalyze
    Diagnose <- MCDiagnose
    Pretty <- MCPretty
CHECK_DEADLOCK FALSE
INVARIANTS DeltaFaithful  DiagnosticsCurrent AnsweredOnce FixAllFixes
    LenientAgrees  PipelineExact
PROPERTIES TurtleRoundTrip RoundTrip RecoveryAgrees
