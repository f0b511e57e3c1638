SPECIFICATION Spec
CONSTANTS
  Prompts <- MCPrompts
  None = None
  MaxWrites = 2
  MaxCrashes = 2
CHECK_DEADLOCK FALSE
INVARIANT TornPromptsAreNoNewer
PROPERTIES HandoversAreNewer 
