SPECIFICATION Spec
CONSTANTS
  Answers <- SomeAnswers
  Upstreams = {"chat", "anthropic", "responses", "gemini"}
  Clients = {"chat", "anthropic", "responses", "gemini"}
INVARIANTS
  FramesWellFormed
  EndMeansAll
  LogIsClientsAnswer
  AwaitedIsBilled
CHECK_DEADLOCK FALSE
