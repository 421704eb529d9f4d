SPECIFICATION Spec
CONSTANTS
  Clients = {"chat", "anthropic", "responses", "gemini"}
  Upstreams = {"chat", "anthropic", "responses", "gemini"}
  KnobSets <- OneKnob
  MaxTalk = 4
  MarkedResults = TRUE
INVARIANT CallsAreAnswered
CHECK_DEADLOCK FALSE
