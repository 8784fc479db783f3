SPECIFICATION Spec
CONSTANTS
  e1 = e1
  e2 = e2
  p1 = p1
  l1 = l1
  l2 = l2
  t1 = t1
  t2 = t2
  k1 = k1
  k2 = k2
  NoTopic = NoTopic
  NoLine = NoLine
  Editors = {e1, e2}
  Plans = {p1}
  Lines = {l1, l2}
  Topics = {t1, t2}
  Packs = {k1, k2}
  Days = {1, 2}
  Periods <- SmallPeriods
SYMMETRY PlanSymmetry
INVARIANTS
  PlanCoherent
  SecondPackOverlooked
