CONSTANTS
  Width = 4
  Fuel = 17
  Factor = 2
  Programs <- AllPrograms
SPECIFICATION Spec
INVARIANTS SameBehaviour WellFormed Settles
CHECK_DEADLOCK FALSE
