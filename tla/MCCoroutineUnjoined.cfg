SPECIFICATION Spec
CONSTANTS
  a = a
  b = b
  Works = {a, b}
  Workers = {k1, k2}
  Nil = Nil
  Scenarios <- MCScenarios
PROPERTY CoroutinesEnd
