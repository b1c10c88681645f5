SPECIFICATION FairSpec
CONSTANTS
  Threads = {t1, t2}
  Getters = {t1}
  NoThread = NoThread
  MaxCalls = 4
  Backlog = 2
  Parts <- MCParts
  Replies <- MCReplies
INVARIANTS
  TypeOK
  ReplyMatchesRequest
  AnswerAfterEffect
  CommandsAreWhole
  ExecutedInCallOrder
  ContextIsUnbroken
  FreeLineIsClean
  FailureIsReported
  IInv
PROPERTIES
  CallsReturn
  AbandonedContextEnds
  ImplementsRemoteCall
