SPECIFICATION Spec
CONSTANTS
  h1 = h1  h2 = h2  d1 = d1  l1 = l1  l2 = l2  l3 = l3
  c1 = c1  c2 = c2  e1 = e1  p = p  q = q
  None = None
  Hosts = {h1, h2}
  Leases = {l1, l2, l3}
  Caps = {c1, c2}
  Effects = {e1}
  Actors = {p, q}
  Times = {0, 1, 2}
  Domain <- OneDomain
  Epoch <- Epochs
  From <- Starts
  Until <- Ends
  LeaseOf <- OnL1
  Parent <- Chain
  Calls <- Boundary
INVARIANT DispatchIsFenced
PROPERTY ImplementsAuthority
SYMMETRY Symmetry
