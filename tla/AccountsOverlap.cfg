SPECIFICATION Spec
CONSTANTS
  reader = reader
  owner = owner
  readerRole = readerRole
  ownerRole = ownerRole
  custom = custom
  None = None
  Organization = Organization
  Default = reader
  Admin = owner
  Users = {u1}
  Groups = {g1}
  Grants = {b1}
  Requests = {q1, q2}
  Personas = {reader, owner}
  Former = {reader, owner}
  PersonaRole <- RoleOf
  PersonaPermissions <- PermissionsOf
  CustomRoles = {custom}
  Permissions <- AllPermissions
  Edits <- Lists
  Products = {x}
  Resend = FALSE
INVARIANTS
  Inv
  PersonaBound
  RightsAsEntitled
PROPERTIES
  ScopedKept
SYMMETRY Symmetry
CHECK_DEADLOCK FALSE
