SPECIFICATION Spec
CONSTANTS
  Clients = {"chat", "anthropic", "responses", "gemini"}
  Upstreams = {"chat", "anthropic", "responses", "gemini"}
  KnobSets <- SomeKnobs
  MaxTalk = 5
  MarkedResults = TRUE
INVARIANTS
  DialogueKept
  InstructionsReach
  AnswersFollowCalls
  KnobsReach
CHECK_DEADLOCK FALSE
