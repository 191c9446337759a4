\* Responses with content and responses that end in every way, cut anywhere, and the
\* requests of clients of every format that follow from them.
SPECIFICATION Talk
CONSTANTS
  MaxContent = 4
  MaxEnds = 3
  Scripts <- MCScripts
  MaxChunk = 4
  CallOf <- MCCallOf
  Aliases <- MCAliases
  EmptyPlaceholder = TRUE
  Openings <- MCOpenings
  FollowUps <- MCFollowUps
  MaxTurns = 2
INVARIANTS TypeOK CutsDoNotMatter SameMessage RoleOnce SameVerdict
INVARIANTS ConversationArrives ResultsNamed
