SPECIFICATION Spec
CONSTANTS
  None = None
  Root = "Root"
  Kind <- MCKind
  RegionOf <- MCRegionOf
  Subregions <- MCSubregions
  Inputs <- MCInputs
  Outputs <- MCOutputs
  Arguments <- MCArgumentsCopied
  Results <- MCResults
  InputOf <- MCInputOf
  OutputOf <- MCOutputOf
  LoopOutput <- MCLoopOutput
  RecArgument <- MCRecArgument
  Wirings <- MCWirings
INVARIANTS NoDangling
CHECK_DEADLOCK FALSE
