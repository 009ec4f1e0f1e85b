SPECIFICATION TraversalSpec
CONSTANTS
  a = a
  b = b
  c = c
  d = d
  Nodes = {a, b, c}
  Structural = {c}
  Region = region
  Ports = {1}
  MaxInputs = 3
  MaxResults = 1
SYMMETRY Alike
INVARIANTS TypeOK DepthsCorrect ListsExact NoDangling TrackerExact VisitsAll
PROPERTIES PruneExact CallsReturn VisitsInOrder NeverRevisits
