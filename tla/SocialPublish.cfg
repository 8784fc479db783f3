SPECIFICATION Spec
CONSTANTS
  Packs = {1, 2}
  Channels = {"telegram", "instagram", "threads"}
  Gated = {"instagram"}
  Scheduled = {"telegram"}
  Files <- FilesOf
  Parts <- PartsOf
  Due <- DueAt
  Configured <- ConfiguredSets
  MaxClock = 1
  MaxEdits = 1
  MaxFaults = 1
INVARIANTS
  PostsAccounted
PROPERTIES
  PushKeepsOthers
  EventuallyRecorded
