CONSTANTS
  c1 = c1
  ToolCall = {c1}
  ModelCallRetries = 1
  MaxPrompts = 1
  NoSession = NoSession
CHECK_DEADLOCK FALSE
SPECIFICATION Spec
PROPERTY TypedToolsStopped
