SPECIFICATION FairSpec
CONSTANTS
  worker = worker
  display = display
  Services = {worker, display}
  Newest = 5
  Genuine = {1, 2, 4, 5}
  Sound = {0, 1, 4, 5}
  Installed = 0
  Keep = 2
  Retracts = FALSE
  MaxFaults = 1
CHECK_DEADLOCK FALSE
PROPERTY RunsGoOn
