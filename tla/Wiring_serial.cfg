SPECIFICATION WiringSpec
CONSTANTS
  Plugins = {p1, p2}
  Addressings = {a1, a2, a3}
  Types = {"t", "u"}
  States = {"s"}
  MaxCopies = 1
  MaxGroups = 2
  MaxIds = 3
  Predicates = {"q"}
  Reasons = {"r1"}
  Tasks = {t1}
  Handlers = {"announce", "retract", "forced_retract_addressing", "merge", "split", "update_state", "assert", "retract_relation", "forced_retract_claim", "suppress", "unsuppress"}
  StoreFails = FALSE
  MaxBoots = 2
  MaxCalls = 5
  MaxRelations = 2
  SubjectCalls = 4
  RelationCalls = 5
CONSTRAINT SmallGraph
ACTION_CONSTRAINT InMix
SYMMETRY WiringSymmetry
INVARIANTS IdentityDurable NeverLiveAgain EdgesDurable EdgesHaveLiveEnds ConflictsIndexed
CHECK_DEADLOCK FALSE
