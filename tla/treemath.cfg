CONSTANT MaxLeaves = 16
SPECIFICATION Spec
CHECK_DEADLOCK FALSE
INVARIANTS AboveIsXor PathIsAncestry CopathIsSiblings SecretPathsSeparate
