SPECIFICATION Spec
CONSTANTS
  WakeFor = 1
  NoticeFor = 2
  Limit = 1
  MaxQueue = 2
  MaxFaults = 1
  MaxNews = 1
  MaxTries = 2

PROPERTY SetupScreenStays
