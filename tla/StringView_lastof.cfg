SPECIFICATION Spec
CONSTANTS
    MaxLen = 3
    MaxPattern = 2
INVARIANT LastOfFound
