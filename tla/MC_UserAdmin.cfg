SPECIFICATION Spec
CONSTANTS
  Calls = {c1, c2}
  MaxId = 2
  Names = {n1, n2}
  CreateInputs <- AdminCreates
  UpdateInputs <- AdminUpdates
  BootstrapName = n1
  BootstrapRoles <- MCBootstrapRoles
  MaxUsers = 2
  Nil = Nil
SYMMETRY Symmetry
INVARIANT LastAdminSurvives
PROPERTIES NoLostUpdate OthersOnly ActsOnUserTable
