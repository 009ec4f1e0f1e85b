SPECIFICATION Spec
CONSTANTS
  None = None
  Root = "Root"
  Kind <- MCKind
  RegionOf <- MCRegionOf
  Subregions <- MCSubregions
  Inputs <- MCInputs
  Outputs <- MCOutputs
  Arguments <- MCArguments
  Results <- MCResults
  InputOf <- MCInputOf
  OutputOf <- MCOutputOf
  LoopOutput <- MCLoopOutput
  RecArgument <- MCRecArgument
  Wirings <- MCWirings
INVARIANTS TypeOK NoDangling KeepsNeeded KeepsNothingElse Aligned NoBottomLeft
PROPERTIES ComesToAnEnd
