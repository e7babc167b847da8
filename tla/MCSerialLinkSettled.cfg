SPECIFICATION LinkSpec
CONSTANTS
  Retries = 2
  Settled = TRUE
  ForeignBytes = {"m", "c"}
  MaxBacklog = 3
  MaxUnread = 7
  MaxBoots = 1
  MayKill = TRUE
  Scripts <- ResetAndSingle
PROPERTIES ImplementsPowerPort NextFrameAccepted SessionEnds
