SPECIFICATION Spec
CONSTANTS
  h1 = h1  h2 = h2
  Hosts = {h1, h2}
  States = {"plan", "verify", "back", "done", "orphan"}
  Start = "plan"
  Terminal = {"done"}
  BackTrack = "back"
  Moves <- SmallMoves
  Nodes = {"n1"}
  Keys = {"k"}
  Facts = {"f"}
  MaxLog = 4
  MaxCheckpoints = 2
INVARIANTS ReplayIsSnapshot VersionIdentifiesSnapshot TerminationStaysPossible
SYMMETRY Symmetry
