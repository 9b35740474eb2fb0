SPECIFICATION Spec
CONSTANTS
  p1 = p1
  r1 = r1
  ours = ours
  theirs = theirs
  Organization = Organization
  None = None
  Pipelines = {p1}
  Releases = {r1}
  Products = {ours, theirs}
  ProductOf <- OneProduct
  Minimums = {3}
  Rules = {rule1, rule2}
  Requests = {q1, q2}
  Updaters = {u1, u2}
  Inputs <- Edges
INVARIANTS
  Inv
  AuditTrail
  RatingNearScore
PROPERTIES
  RegularAdmission
SYMMETRY Symmetry
CHECK_DEADLOCK FALSE
