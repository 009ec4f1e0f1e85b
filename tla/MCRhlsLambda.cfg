SPECIFICATION FairSpec
CONSTANTS
  NoToken = NoToken
  Compute <- MCCompute
  Netlist <- MCNetlist
  Sources <- MCSources
  Sinks <- MCSinks
  Calls <- MCCalls
  InitialMemory <- MCInitialMemory
  Run <- MCRun
  MaxCalls = 3
INVARIANTS TypeOK ReturnsResult OneAwaits
PROPERTIES CallsReturn
CHECK_DEADLOCK FALSE
