CONSTANTS
  alice = alice
  bob = bob
  carol = carol
  Clients = {alice, bob, carol}
  MaxLines <- TwoTalkers
  Room = 3
SPECIFICATION FairSpec
INVARIANTS
  TypeOK
  LinesArriveWhole
  NoSegmentLost
PROPERTIES
  ImplementsChatRoom
  EveryLineArrives
CHECK_DEADLOCK FALSE
