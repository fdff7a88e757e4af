SPECIFICATION VoiceLiveSpec
CONSTANTS
    j1 = j1
    Jobs = {j1}
INVARIANTS
    TargetSentOnce TruthfulVerdict
PROPERTIES
    JobsSettle
