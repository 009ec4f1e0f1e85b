CONSTANT Programs <- MCTwoWaysOut
SPECIFICATION Spec
INVARIANT SelectsChoose
