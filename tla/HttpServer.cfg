CONSTANTS
  c1 = c1
  c2 = c2
  w1 = w1
  w2 = w2
  path = path
  stub = stub
  none = none
  NoConn = NoConn
  NoAnswer = NoAnswer
  Conns = {c1, c2}
  Workers = {w1, w2}
  Words = {path, stub, none}
  NoWord = none
  Asks <- MCAsks
  Fds = {1, 3}
  ListenFd = 2
  SetSizes = {2, 3}
SPECIFICATION FairSpec
INVARIANTS
  TypeOK
  OneOwner
  AnswerIsOwn
PROPERTY EveryConnectionEnds
CHECK_DEADLOCK FALSE
