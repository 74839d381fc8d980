SPECIFICATION Spec
CONSTANTS
  a = a
  b = b
  c = c
  d = d
  e = e
  g = g
  h = h
  k1 = k1
  k2 = k2
  Works = {a, b, c, d, e, g, h}
  Workers = {k1, k2}
  Nil = Nil
  Scenarios <- MCScenarios
INVARIANTS ScopesHold ExceptionIsKept
PROPERTIES WaitEndsLast ImplementsStructuredTasks EverythingEnds
