SPECIFICATION LinkSpec
CONSTANTS
  Retries = 1
  Settled = FALSE
  ForeignBytes = {"m", "c", "2", "CR"}
  MaxBacklog = 2
  MaxUnread = 3
  MaxBoots = 0
  MayKill = TRUE
  Scripts <- ResetAndSingle
INVARIANTS NoSplicedCommand AckedWasExecuted
PROPERTY Resynchronizes
