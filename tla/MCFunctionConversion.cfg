CONSTANT Programs <- MCPrograms
SPECIFICATION Spec
INVARIANTS RefusesOnlyTheKnown SameExecutionButKnown StructuredIsKept
