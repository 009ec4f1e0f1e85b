SPECIFICATION FairSpec
CONSTANTS
  Objects <- MCObjects
  Kind <- MCKind
  NonPointer = NonPointer
  LambdaArgs <- MCLambdaArgs
  LambdaResults <- MCLambdaResults
  Facts <- MCFacts
  Constraints <- MCConstraints
  MaxConstraints = 3
INVARIANTS TypeOK Solved FlagsConsistent ExactlyLeast
PROPERTIES OnlyGrows Termination
CHECK_DEADLOCK FALSE
