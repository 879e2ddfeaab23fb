----------------------------- MODULE MC_UserStore -----------------------------
EXTENDS UserStore, TLC

AllOps == {"CreateUser", "UpdateUser", "DeleteUser", "UpdateLastLogin",
           "GetUser", "ListUsers", "CountUsers"}

MCNames == {"a", "b"}
MCRoleNames == {"admin", "user"}

MCCreates ==
  {[Username |-> "a", Enabled |-> TRUE, Roles |-> {"admin"}],
   [Username |-> "b", Enabled |-> TRUE, Roles |-> {}]}

\* An update of both tables and one of the row alone.  Half of an operation is
\* no other operation: nothing creates an "a" without a role, and nothing gives
\* a user the one role without the other.
MCUpdates ==
  {[Enabled |-> FALSE, Roles |-> {"admin", "user"}], [Enabled |-> TRUE, Roles |-> Nil]}

Symmetry == Permutations(Calls)
=============================================================================
