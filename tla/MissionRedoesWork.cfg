SPECIFICATION Spec
CONSTANTS
  h1 = h1  h2 = h2  c1 = c1
  t1 = t1  t2 = t2
  l1 = l1  l2 = l2  l3 = l3
  i1 = i1
  Hosts = {h1, h2}
  Controllers = {c1}
  Tasks = {t1, t2}
  Requires <- Chain
  Leases = {l1, l2}
  Impacts = {i1}
  Nothing = Nothing
  MaxControls = 2
PROPERTY NothingComesBack
VIEW Busy
SYMMETRY Symmetry
CHECK_DEADLOCK FALSE
