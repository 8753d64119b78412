SPECIFICATION WiringSpec
CONSTANTS
  Plugins = {p1}
  Addressings = {a1, a2}
  Types = {"t"}
  States = {"s"}
  MaxCopies = 1
  MaxGroups = 2
  MaxIds = 3
  Predicates = {"q"}
  Reasons = {"r1"}
  Tasks = {t1, t2}
  Handlers = {"announce", "retract", "merge", "split", "update_state", "update_state_volatile", "assert", "suppress"}
  StoreFails = TRUE
  MaxBoots = 2
  MaxCalls = 4
  MaxRelations = 1
CONSTRAINT SmallGraph
SYMMETRY WiringSymmetry
INVARIANTS WiringTypeOK MemoryConsistent
CHECK_DEADLOCK FALSE
