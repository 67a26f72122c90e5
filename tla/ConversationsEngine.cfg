SPECIFICATION ChatSpec
CONSTANTS
  Engines = {"claude", "codex"}
  FirstEngine = "claude"
  MaxTurns = 3
  MaxReads = 2
  MaxChatOps = 5
INVARIANT TokensStayWithTheirEngine
CHECK_DEADLOCK FALSE
