CONSTANTS
  ann = ann
  bob = bob
  lead = lead
  cont = cont
  x = x
  Bytes = {lead, cont, x}
  Lead = lead
  Cont = cont
  NoClient = NoClient
  Clients <- MCClients
  Messages <- MCMessages
  BufferSize = 2

SPECIFICATION FairSpec

INVARIANTS
  TypeOK
  EchoIsOwn

PROPERTY EveryClientServed

CHECK_DEADLOCK FALSE
