SPECIFICATION Spec
CONSTANTS
  Emitters = {e1}
  Transients = {}
  Kinds = {"a"}
  Sticky = {}
  LogCap = 2
  Trimming = TRUE
  MaxBatch = 2
  MaxSeq = 4
  MaxBoots = 2
  Subscribers = {s1}
  Coalescing = {}
  Labelled = {}
  Latest = TRUE
  ChanCap = 2
  Drops = TRUE
  Accepts <- AcceptAll
INVARIANTS
  SeqDurable
CHECK_DEADLOCK FALSE
