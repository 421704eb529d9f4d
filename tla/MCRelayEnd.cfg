SPECIFICATION Spec
CONSTANTS
  Answers <- Mentioning
  Upstreams = {"chat", "anthropic", "responses", "gemini"}
  Clients = {"chat", "anthropic", "responses", "gemini"}
INVARIANT EndIsSent
CHECK_DEADLOCK FALSE
