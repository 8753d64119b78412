SPECIFICATION IdentitySpec
CONSTANTS
  Plugins = {p1, p2}
  Addressings = {a1, a2, a3}
  Types = {"t", "u"}
  States = {"s"}
  MaxCopies = 1
  MaxGroups = 3
  MaxIds = 4
  Nodes = {a1, a2, a3}
  Predicates = {"p"}
  Claimants = {p1, p2}
  Reasons = {r1, r2}
  MaxRelations = 3
  MaxMarks = 4
SYMMETRY IdentitySymmetry
CONSTRAINT SmallGraph
INVARIANTS IndexAgrees IdsAccountedFor AliasChainsEnd IndicesExact ClaimedOrGone
PROPERTIES ProvenanceKept MergeCarriesClaims
CHECK_DEADLOCK FALSE
