SPECIFICATION FairSpec
CONSTANTS
  NoToken = NoToken
  Compute <- MCCompute
  Netlist <- SelectNetlist
  Sources <- SelectSources
  Sinks <- SelectSinks
  Tokens <- SelectTokens
  Expected <- SelectExpected
INVARIANTS OneToOne
CHECK_DEADLOCK FALSE
