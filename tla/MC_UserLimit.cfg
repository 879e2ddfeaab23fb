SPECIFICATION Spec
CONSTANTS
  Calls = {c1, c2}
  MaxId = 4
  Names = {n1, n2, n3, n4}
  CreateInputs <- LimitCreates
  UpdateInputs = {}
  BootstrapName = n1
  BootstrapRoles <- MCBootstrapRoles
  MaxUsers = 2
  Nil = Nil
SYMMETRY Symmetry
INVARIANTS CountBound UniqueUsernames TokenIdentity
