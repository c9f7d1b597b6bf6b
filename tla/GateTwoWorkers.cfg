SPECIFICATION Spec
CONSTANTS
  p1 = p1
  p2 = p2
  w1 = w1
  w2 = w2
  s1 = s1
  s2 = s2
  k1 = k1
  dispatch = dispatch
  generate = generate
  None = None
  Keys = {k1}
  Actions = {dispatch}
  RequireApproval = {dispatch}
  Registered = {dispatch}
  TargetChecked = {dispatch}
  Proposals = {p1, p2}
  Workers = {w1, w2}
  Slots = {s1}
  MaxCrashes = 1
SYMMETRY Symmetry
INVARIANTS
  AtMostOnce
  RefusedNeverRuns
  OncePerKey
