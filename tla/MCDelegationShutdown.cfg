SPECIFICATION Spec
CONSTANTS
  Agents = {"main", "helper", "expert"}
  Main = "main"
  Children <- MCChildren
  Names = {"read", "bash", "run_code", "call_agent"}
  Guarded = {"bash", "run_code"}
  Batches <- MCBatches
  MaxSteps = 2
  MaxDepth = 3
  MaxToolCalls = 3
  MaxChildCalls = 2
  MaxBridge = 1
  DenialLimit = 2
PROPERTIES ShutdownEnds
CHECK_DEADLOCK FALSE
