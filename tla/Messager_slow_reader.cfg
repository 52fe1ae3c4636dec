CONSTANTS
  alice = alice
  bob = bob
  carol = carol
  Clients = {alice, bob}
  MaxLines <- OneEach
  Room = 3
SPECIFICATION Spec
INVARIANT LinesArriveWholeAtAll
CHECK_DEADLOCK FALSE
