SPECIFICATION Spec
CONSTANT MaxAttempts = 5
INVARIANT OnlyTypedAmounts
