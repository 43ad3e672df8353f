SPECIFICATION SyncFairSpec
CONSTANTS
  force = force
  zeus = zeus
  Slugs = {force, zeus}
  Engines = {force}
  Revisions = 2
  Choices = 2
  Edits = 2
  Pushes = 1
  Faults = 1
INVARIANTS SyncTypeOK OnlyChosenBots
PROPERTIES LocalOnlyRaced FollowsWebsite
