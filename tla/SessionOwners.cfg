SPECIFICATION Spec
CONSTANTS
  ann = ann
  bob = bob
  Owners = {ann, bob}
  NoOwner = NoOwner
  Opens = 570
  Closes = 720
  Days = 1
  Disconnects = 1
  Requests = 0
  Expiries = 0
  Faults = 0
PROPERTY OwnersAccount
