SPECIFICATION MCSpec
CONSTANTS
    Instances = {"turtle"}
    Uri = {doc}
    Texts <- MCTexts
    Edits <- MCEdits
    Languages = {"turtle"}
    Asks <- MCAsks
    MaxOps = 5
    MaxQueue = 2
    Analyze <- MCAnalyze
    Diagnose <- MCDiagnose
    Pretty <- MCPretty
CHECK_DEADLOCK FALSE
PROPERTY NeverMangled
