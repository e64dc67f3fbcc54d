SPECIFICATION Spec
CONSTANTS
  h1 = h1  h2 = h2
  a1 = a1  b1 = b1  a2 = a2  g = g
  sa = sa  sb = sb  sg = sg  v1 = v1  v2 = v2
  c1 = c1  x1 = x1  x2 = x2  l1 = l1  e1 = e1
  None = None
  Hosts = {h1, h2}
  Decisions = {a1, a2, b1, g}
  Subjects = {sa, sb, sg}
  Values = {v1, v2}
  Conflicts = {c1}
  Explanations = {x1, x2}
  Constraints = {l1}
  Evidence = {e1}
  SubjectOf <- Subject
  ValueOf <- Value
  Parents <- Ground
  Antecedents <- NoConstraint
  Derived = {b1}
  Pinned = {g}
  Observed <- Witness
  About <- AllAboutC1
  Grounds <- Cited
  Cores <- Blame
  Source <- FirstExplains
  MaxOvertakes = 1
INVARIANTS Grounded ResolvedIsRefuted
PROPERTIES OnlyDependentsFall
SYMMETRY Symmetry
CHECK_DEADLOCK FALSE
