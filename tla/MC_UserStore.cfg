SPECIFICATION Spec
CONSTANTS
  Calls = {c1, c2}
  Ops <- AllOps
  MaxOpenConns = 2
  MaxUserID = 2
  Names <- MCNames
  RoleNames <- MCRoleNames
  Creates <- MCCreates
  Updates <- MCUpdates
  Nil = Nil
SYMMETRY Symmetry
INVARIANTS ReadsOneState NobodyStuck
PROPERTY ImplementsUserTable
