SPECIFICATION Spec
CONSTANTS
  Models = {"OV2640", "OV3660", "OV5640", "OV7670", "OV7725", "NT99141", "GC2145", "GC032A",
            "GC0308", "BF3005", "BF20A6", "SC101IOT", "SC030IOT", "SC031GS"}
  Inputs <- MCInputs
  ConfigSize = 5
  ConfigQuality = 14
  MaxCalls = 2
  MaxFaults = 1
INVARIANTS
  TypeOK
  StatusReadsBack
  FailuresReported
  LoadSurvives
PROPERTIES
  LoadRestores
CHECK_DEADLOCK FALSE
