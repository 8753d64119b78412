SPECIFICATION Spec
CONSTANTS
  Emitters = {e1, e2}
  Transients = {t1}
  Kinds = {"a", "p"}
  Sticky = {"p"}
  LogCap = 2
  Trimming = TRUE
  MaxBatch = 2
  MaxSeq = 3
  MaxBoots = 2
  Subscribers = {s1}
  Coalescing = {}
  Labelled = {}
  Latest = TRUE
  ChanCap = 2
  Drops = TRUE
  Accepts <- AcceptAll
CONSTRAINT FewHappenings
SYMMETRY EmitterSymmetry
INVARIANTS
  SeqNeverReused
  BroadcastInOrder
  PersistBeforeBroadcast
  LockPinsCursor
  OnlyTrimmedMissed
  DeliveredInOrder
  CurrentSeqPins
CHECK_DEADLOCK FALSE
