SPECIFICATION Spec
CONSTANTS
  Answers <- SomeAnswers
  Upstreams = {"chat", "anthropic", "responses", "gemini"}
  Clients = {"chat", "anthropic", "responses", "gemini"}
INVARIANT UsageIsBilled
CHECK_DEADLOCK FALSE
