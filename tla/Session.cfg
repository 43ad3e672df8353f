SPECIFICATION FairSpec
CONSTANTS
  ann = ann
  bob = bob
  Owners = {ann}
  NoOwner = NoOwner
  Opens = 570
  Closes = 720
  Days = 1
  Disconnects = 1
  Requests = 1
  Expiries = 1
  Faults = 1
INVARIANTS TypeOK ConsentBounded
PROPERTIES StoppedBeforePaired SlotServed PairingHeeded RequestEnds
