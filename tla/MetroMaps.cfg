CONSTANTS
  ann = ann
  bob = bob
  NoClient = NoClient
  Clients <- MCClients
  Asks <- MCAsks
  CoreCounts <- MCCoreCounts
  MaxErrors = 1

SPECIFICATION FairSpec

INVARIANTS
  TypeOK
  OneLinkPerChain
  AnswerIsOwn

PROPERTIES
  EveryRequestAnswered
  ReturnsWhenAsked

CHECK_DEADLOCK FALSE
