\* The page is left while its conversation starts.
CONSTANTS
  MaxStarts = 1
  MaxMessages = 0
  Texts = {hi}
SPECIFICATION AgentSpec
INVARIANTS MicStopsWithPage
CHECK_DEADLOCK FALSE
