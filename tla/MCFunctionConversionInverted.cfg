CONSTANT Programs <- MCInverted
SPECIFICATION Spec
INVARIANT LoopsRepeat
