SPECIFICATION Spec
CONSTANTS
  a1 = a1
  a2 = a2
  f1 = f1
  f2 = f2
  l1 = l1
  l2 = l2
  Null = Null
INVARIANT FormatterForAll
PROPERTY EndsUnlessItHangs
CHECK_DEADLOCK FALSE
