SPECIFICATION FairSpec
CONSTANTS
  Emitters = {e1}
  Transients = {t1}
  Kinds = {"a", "b", "t"}
  Sticky = {}
  LogCap = 2
  Trimming = FALSE
  MaxBatch = 1
  MaxSeq = 4
  MaxBoots = 1
  Subscribers = {s1}
  Coalescing = {s1}
  Labelled = {"a", "b"}
  Latest = TRUE
  ChanCap = 2
  Drops = FALSE
  Accepts <- AcceptAll
CONSTRAINT FewHappenings
INVARIANTS
  CoalesceCovers
  PerKeyInOrder
PROPERTIES
  LiveDelivery
CHECK_DEADLOCK FALSE
