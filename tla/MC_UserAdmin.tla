----------------------------- MODULE MC_UserAdmin -----------------------------
EXTENDS UserAdmin, TLC

Create(name, role, enabled) ==
  [name |-> name, roles |-> {role}, enabled |-> enabled, valid |-> TRUE]

Update(mask, roles, enabled) ==
  [mask |-> mask, roles |-> roles, enabled |-> enabled, valid |-> TRUE]

\* A second administrator, or an account with a name that may be taken.
AdminCreates == {Create(name, "admin", TRUE) : name \in Names}

\* One update for each thing that can be lost.
AdminUpdates ==
  {Update(<<"display_name">>, {}, FALSE),
   Update(<<"roles">>, {"user"}, FALSE),
   Update(<<"enabled">>, {}, FALSE),
   Update(<<"enabled">>, {}, TRUE)}

\* Clients of every kind, for what only arrives and is answered.
OrdinaryCreates == {Create(name, "user", TRUE) : name \in Names}

InvalidCreates == {[Create(BootstrapName, "user", TRUE) EXCEPT !.valid = FALSE]}

LimitCreates == OrdinaryCreates \cup InvalidCreates

MCBootstrapRoles == {"admin"}

Symmetry == Permutations(Calls)
=============================================================================
