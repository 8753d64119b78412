SPECIFICATION WiringSpec
CONSTANTS
  Plugins = {p1}
  Addressings = {a1, a2}
  Types = {"t"}
  States = {}
  MaxCopies = 1
  MaxGroups = 2
  MaxIds = 3
  Predicates = {"q"}
  Reasons = {"r1"}
  Tasks = {t1}
  Handlers = {"announce", "assert", "merge"}
  StoreFails = FALSE
  MaxBoots = 1
  MaxCalls = 5
  MaxRelations = 2
CONSTRAINT SmallGraph
SYMMETRY WiringSymmetry
INVARIANTS EdgesDurable
CHECK_DEADLOCK FALSE
