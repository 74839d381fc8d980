CONSTANTS
  a = a
  b = b
  c = c
  NullWork = NullWork
  Works = {a, b, c}
  Producers = {p1, p2}
  p1 = p1
  p2 = p2
  t1 = t1
  t2 = t2
  Consumers = {t1, t2}
  MaxBatch = 2
SPECIFICATION FairStackSpec
INVARIANTS OnePlace SizeIsHonest
PROPERTIES PublishedIsStolen
