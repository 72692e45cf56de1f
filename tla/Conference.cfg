SPECIFICATION Spec
CONSTANTS
  ann = ann
  bob = bob
  cat = cat
  Clients = {ann, bob, cat}
  NoClient = NoClient
  Room = 1
  Parties <- MCParties
INVARIANTS
  TableIsLive
  MembersHearAll
PROPERTY ForwardingEnds
CHECK_DEADLOCK FALSE
