SPECIFICATION Spec
CONSTANTS
  NoToken = NoToken
  Compute <- MCCompute
  Capacity = 3
  Data = {d1, d2, d3}
INVARIANT ShowsFifo
PROPERTIES IsFifo
