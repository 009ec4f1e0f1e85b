SPECIFICATION FairSpec
CONSTANTS
  NoToken = NoToken
  Compute <- MCCompute
  Netlist <- GammaNetlist
  Sources <- GammaSources
  Sinks <- GammaSinks
  Tokens <- GammaTokens
  Expected <- GammaExpected
INVARIANTS TypeOK InProgramOrder Quiescent
PROPERTIES OffersPersist Completes
CHECK_DEADLOCK FALSE
