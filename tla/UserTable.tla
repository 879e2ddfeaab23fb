------------------------------ MODULE UserTable ------------------------------
(***************************************************************************)
(* What pkg/database/sqlite promises to the service: a table of users with *)
(* their roles, in which each operation happens at one instant, whole or   *)
(* not at all.  UserStore implements this module.                          *)
(***************************************************************************)
EXTENDS Naturals

CONSTANTS
  Ids, Nil,
  Creates,  \* the users that may be created
  Updates   \* the fields an update may overwrite; Nil is one it leaves alone

VARIABLES
  users,    \* the users, with their roles
  sequence  \* the largest id ever assigned

vars == <<users, sequence>>

Init ==
  /\ users = [id \in Ids |-> Nil]
  /\ sequence = 0

\* A new user gets a new id, and a name that nobody has.
Create(id, user) ==
  /\ id = sequence + 1
  /\ \A other \in Ids : users[other] # Nil => users[other].Username # user.Username
  /\ users' = [users EXCEPT ![id] = user]
  /\ sequence' = id

Update(id, fields) ==
  /\ users[id] # Nil
  /\ users' = [users EXCEPT
       ![id].Enabled = IF fields.Enabled = Nil THEN @ ELSE fields.Enabled,
       ![id].Roles = IF fields.Roles = Nil THEN @ ELSE fields.Roles]
  /\ UNCHANGED sequence

Delete(id) ==
  /\ users[id] # Nil
  /\ users' = [users EXCEPT ![id] = Nil]
  /\ UNCHANGED sequence

Next ==
  \E id \in Ids :
    \/ \E user \in Creates : Create(id, user)
    \/ \E fields \in Updates : Update(id, fields)
    \/ Delete(id)

Spec == Init /\ [][Next]_vars
=============================================================================
