------------------------------ MODULE UserAdmin ------------------------------
(***************************************************************************)
(* User administration (internal/service/main.go, CreateUser, UpdateUser,  *)
(* DeleteUser and EnsureBootstrapAdmin) over the users table of            *)
(* pkg/database/sqlite, called by several clients at a time.               *)
(*                                                                         *)
(* A call is authorised by the claims inside an access token: what the     *)
(* account was when the token was signed, never what it is now.  Signed    *)
(* tokens are kept in tokens for good, which over-approximates every       *)
(* access_token_ttl: a token that has expired is one nobody presents.      *)
(*                                                                         *)
(* CreateUser counts the users in one statement and inserts in a           *)
(* transaction of its own.  UpdateUser reads the row and rewrites it in    *)
(* one deferred transaction.  SQLite in WAL mode lets it read a snapshot,  *)
(* and refuses its write when another write was committed since.           *)
(***************************************************************************)
EXTENDS Integers, FiniteSets, Sequences, Roles

CONSTANTS
  Calls,           \* calls in flight at the same time
  MaxId,           \* bound on user ids
  Names,           \* usernames
  CreateInputs,    \* what clients send to CreateUser
  UpdateInputs,    \* what clients send to UpdateUser, but for the user id
  BootstrapName,   \* auth.bootstrap_admin_username
  BootstrapRoles,  \* auth.bootstrap_admin_roles
  MaxUsers,        \* auth.max_users
  Nil

Ids == 1..MaxId

User == [Username : Names, Roles : SUBSET RoleNames, Enabled : BOOLEAN]

\* TokenClaims; Nil stands for a token that VerifyToken rejects.
Claims == [UserID : Ids, Username : Names, Roles : SUBSET RoleNames]

\* CreateUserInput and UpdateUserInput.  valid stands for the validation of
\* usernames, display names, passwords and role names.
CreateInput == [name : Names, roles : SUBSET RoleNames, enabled : BOOLEAN, valid : BOOLEAN]

UpdateInput ==
  [mask : Seq(STRING), roles : SUBSET RoleNames, enabled : BOOLEAN, valid : BOOLEAN]

ASSUME ConstantsAssumption ==
  /\ IsFiniteSet(Calls) /\ Calls # {}
  /\ MaxId \in Nat /\ MaxUsers \in Nat
  /\ CreateInputs \subseteq CreateInput
  /\ UpdateInputs \subseteq UpdateInput
  /\ BootstrapName \in Names /\ BootstrapRoles \in SUBSET RoleNames
  /\ Nil \notin User /\ Nil \notin Claims
  /\ Nil \notin CreateInput /\ Nil \notin UpdateInput
  /\ Nil \notin BOOLEAN /\ \A roles \in SUBSET RoleNames : roles # Nil

VARIABLES
  up,        \* the process is running and has bootstrapped
  users,     \* the users and user_roles tables
  sequence,  \* the largest user_id ever assigned (AUTOINCREMENT)
  tokens,    \* the claims of the access tokens signed so far
  pc,        \* where each call is
  req,       \* the input and local variables of each call
  stale      \* calls whose snapshot of the tables has been overtaken

vars == <<up, users, sequence, tokens, pc, req, stale>>

NoRequest ==
  [op |-> "none", claims |-> Nil, id |-> 0, input |-> Nil, row |-> Nil, result |-> "none"]

Results ==
  {"none", "ok", "internal", "ErrInvalidToken", "ErrPermissionDenied",
   "ErrInvalidArgument", "ErrInvalidPassword", "ErrInvalidUpdateMask",
   "ErrForbiddenFieldUpdate", "ErrForbiddenSelfAction", "ErrUserLimitExceeded",
   "ErrUserNotFound", "ErrUsernameExists"}

Request ==
  [op : {"none", "CreateUser", "UpdateUser", "DeleteUser"},
   claims : Claims \cup {Nil},
   id : 0..MaxId,
   input : CreateInputs \cup UpdateInputs \cup {Nil},
   row : User \cup {Nil},   \* the row UpdateUser's transaction has read
   result : Results]

Locations == {"idle", "count", "insert", "read", "write", "delete", "reply"}

TypeOK ==
  /\ up \in BOOLEAN
  /\ users \in [Ids -> User \cup {Nil}]
  /\ sequence \in 0..MaxId
  /\ tokens \in SUBSET Claims
  /\ pc \in [Calls -> Locations]
  /\ req \in [Calls -> Request]
  /\ stale \in SUBSET Calls

Init ==
  /\ up = FALSE
  /\ users = [id \in Ids |-> Nil]
  /\ sequence = 0
  /\ tokens = {}
  /\ pc = [c \in Calls |-> "idle"]
  /\ req = [c \in Calls |-> NoRequest]
  /\ stale = {}

-----------------------------------------------------------------------------
UserIds == {id \in Ids : users[id] # Nil}

\* CountUsers with no filter.
CountUsers == Cardinality(UserIds)

Goto(c, location) == pc' = [pc EXCEPT ![c] = location]

\* Of an answered call only the answer is kept.
Reply(op, result) == [NoRequest EXCEPT !.op = op, !.result = result]

Answer(c, result) ==
  /\ Goto(c, "reply")
  /\ req' = [req EXCEPT ![c] = Reply(@.op, result)]

\* A committed write overtakes the snapshot of every transaction that has
\* read and not yet written.
Overtake == stale' = stale \cup {c \in Calls : pc[c] = "write"}

Has(claims, permission) == permission \in ResolvePermissions(claims.Roles)

\* A call arrives; the checks of the claims need no table.
Arrive(c, request, error, location) ==
  /\ up
  /\ pc[c] = "idle"
  /\ IF error = "none"
       THEN Goto(c, location) /\ req' = [req EXCEPT ![c] = request]
       ELSE Goto(c, "reply") /\ req' = [req EXCEPT ![c] = Reply(request.op, error)]
  /\ UNCHANGED <<up, users, sequence, tokens, stale>>

-----------------------------------------------------------------------------
(* CreateUser *)

CreateError(claims) ==
  IF claims = Nil THEN "ErrInvalidToken"
  ELSE IF ~Has(claims, "user.create") THEN "ErrPermissionDenied"
  ELSE "none"

StartCreate(c, claims, input) ==
  Arrive(c, [NoRequest EXCEPT !.op = "CreateUser", !.claims = claims, !.input = input],
         CreateError(claims), "count")

\* Faulty variant: the limit itself still passes.
LimitReached_OffByOne == MaxUsers > 0 /\ CountUsers > MaxUsers

LimitReached == MaxUsers > 0 /\ CountUsers >= MaxUsers

\* The limit, then the validation and the slow password hash.
CreateCount(c) ==
  /\ pc[c] = "count"
  /\ \/ MaxUsers > 0 /\ Answer(c, "internal")
     \/ LimitReached /\ Answer(c, "ErrUserLimitExceeded")
     \/ /\ ~LimitReached
        /\ ~req[c].input.valid
        /\ \/ Answer(c, "ErrInvalidArgument")
           \/ Answer(c, "ErrInvalidPassword")
     \/ /\ ~LimitReached
        /\ req[c].input.valid
        /\ Goto(c, "insert")
        /\ UNCHANGED req
  /\ UNCHANGED <<up, users, sequence, tokens, stale>>

\* Faulty variant: without AUTOINCREMENT, SQLite takes the largest id in use plus 1.
NewId_Reused == CHOOSE n \in 1..(MaxId + 1) :
  /\ \A id \in UserIds : id < n
  /\ n = 1 \/ n - 1 \in UserIds

\* The id an inserted row gets: AUTOINCREMENT never reuses one.
NewId == sequence + 1

\* Faulty variant: no UNIQUE constraint.
NameTaken_Never(name) == FALSE

NameTaken(name) == \E id \in UserIds : users[id].Username = name

\* sqlite.CreateUser: its first statement takes the write lock, so the whole
\* transaction is one step.
CreateInsert(c) ==
  LET input == req[c].input IN
  /\ pc[c] = "insert"
  /\ \/ /\ Answer(c, "internal")
        /\ UNCHANGED <<users, sequence, stale>>
     \/ /\ NameTaken(input.name)
        /\ Answer(c, "ErrUsernameExists")
        /\ UNCHANGED <<users, sequence, stale>>
     \/ /\ ~NameTaken(input.name)
        /\ NewId <= MaxId   \* bound
        /\ users' = [users EXCEPT ![NewId] =
             [Username |-> input.name, Roles |-> input.roles, Enabled |-> input.enabled]]
        /\ sequence' = NewId
        /\ Overtake
        /\ Answer(c, "ok")
  /\ UNCHANGED <<up, tokens>>

-----------------------------------------------------------------------------
(* UpdateUser *)

\* Faulty variant: the self check covers the roles only.
PathError_SelfEnable(path, claims, id, valid) ==
  CASE path = "password" -> IF valid THEN "none" ELSE "ErrInvalidPassword"
    [] path = "display_name" -> IF valid THEN "none" ELSE "ErrInvalidArgument"
    [] path \in {"roles", "enabled"} ->
         IF path = "roles" /\ claims.UserID = id THEN "ErrForbiddenSelfAction"
         ELSE IF ~Has(claims, "user.update") THEN "ErrForbiddenFieldUpdate"
         ELSE IF path = "roles" /\ ~valid THEN "ErrInvalidArgument"
         ELSE "none"
    [] OTHER -> "ErrInvalidUpdateMask"

\* One round of the loop over the mask: "none", or the error it returns with.
PathError(path, claims, id, valid) ==
  CASE path = "password" -> IF valid THEN "none" ELSE "ErrInvalidPassword"
    [] path = "display_name" -> IF valid THEN "none" ELSE "ErrInvalidArgument"
    [] path \in {"roles", "enabled"} ->
         IF claims.UserID = id THEN "ErrForbiddenSelfAction"
         ELSE IF ~Has(claims, "user.update") THEN "ErrForbiddenFieldUpdate"
         ELSE IF path = "roles" /\ ~valid THEN "ErrInvalidArgument"
         ELSE "none"
    [] OTHER -> "ErrInvalidUpdateMask"

\* The loop stops at its first error; a mask without paths is an error too.
MaskError(mask, claims, id, valid) ==
  LET failing == {i \in DOMAIN mask : PathError(mask[i], claims, id, valid) # "none"} IN
  IF mask = <<>> THEN "ErrInvalidUpdateMask"
  ELSE IF failing = {} THEN "none"
  ELSE PathError(mask[CHOOSE i \in failing : \A j \in failing : i <= j], claims, id, valid)

UpdateError(claims, id, input) ==
  IF id = 0 THEN "ErrInvalidArgument"
  ELSE IF claims = Nil THEN "ErrInvalidToken"
  ELSE IF claims.UserID # id /\ ~Has(claims, "user.update") THEN "ErrPermissionDenied"
  ELSE MaskError(input.mask, claims, id, input.valid)

Paths(mask) == {mask[i] : i \in DOMAIN mask}

StartUpdate(c, claims, id, input) ==
  Arrive(c, [NoRequest EXCEPT !.op = "UpdateUser", !.claims = claims, !.id = id,
                              !.input = input],
         UpdateError(claims, id, input), "read")

\* sqlite.UpdateUser begins: the read fixes the transaction's snapshot.
UpdateRead(c) ==
  LET row == users[req[c].id] IN
  /\ pc[c] = "read"
  /\ \/ Answer(c, "internal") /\ UNCHANGED stale
     \/ row = Nil /\ Answer(c, "ErrUserNotFound") /\ UNCHANGED stale
     \/ /\ row # Nil
        /\ Goto(c, "write")
        /\ req' = [req EXCEPT ![c].row = row]
        /\ stale' = stale \ {c}
  /\ UNCHANGED <<up, users, sequence, tokens>>

\* Faulty variant: a column that is not in the mask is written as NULL.
Rewritten_Null(r, current) ==
  LET paths == Paths(r.input.mask) IN
  [Username |-> current.Username,
   Roles    |-> IF "roles" \in paths THEN r.input.roles ELSE current.Roles,
   Enabled  |-> IF "enabled" \in paths THEN r.input.enabled ELSE Nil]

\* The columns of users are written back as read, but for those in the mask;
\* user_roles is touched only if the mask has roles.
Rewritten(r, current) ==
  LET paths == Paths(r.input.mask) IN
  [Username |-> current.Username,
   Roles    |-> IF "roles" \in paths THEN r.input.roles ELSE current.Roles,
   Enabled  |-> IF "enabled" \in paths THEN r.input.enabled ELSE r.row.Enabled]

\* Faulty variant: the row is read before the transaction begins.
UpdateWrite_ReadOutside(c) ==
  LET r == req[c] IN
  /\ pc[c] = "write"
  /\ \/ /\ Answer(c, "internal")
        /\ UNCHANGED <<users, stale>>
     \/ /\ users[r.id] # Nil
        /\ users' = [users EXCEPT ![r.id] = Rewritten(r, @)]
        /\ Overtake
        /\ Answer(c, "ok")
  /\ UNCHANGED <<up, sequence, tokens>>

\* Write and commit, or SQLITE_BUSY_SNAPSHOT, or another fault; the deferred
\* Rollback leaves nothing behind.
UpdateWrite(c) ==
  LET r == req[c] IN
  /\ pc[c] = "write"
  /\ \/ /\ Answer(c, "internal")
        /\ UNCHANGED <<users, stale>>
     \/ /\ c \notin stale
        /\ users' = [users EXCEPT ![r.id] = Rewritten(r, @)]
        /\ Overtake
        /\ Answer(c, "ok")
  /\ UNCHANGED <<up, sequence, tokens>>

-----------------------------------------------------------------------------
(* DeleteUser *)

\* Faulty variant: no self check.
DeleteError_Self(claims, id) ==
  IF id = 0 THEN "ErrInvalidArgument"
  ELSE IF claims = Nil THEN "ErrInvalidToken"
  ELSE IF ~Has(claims, "user.delete") THEN "ErrPermissionDenied"
  ELSE "none"

DeleteError(claims, id) ==
  IF id = 0 THEN "ErrInvalidArgument"
  ELSE IF claims = Nil THEN "ErrInvalidToken"
  ELSE IF claims.UserID = id THEN "ErrForbiddenSelfAction"
  ELSE IF ~Has(claims, "user.delete") THEN "ErrPermissionDenied"
  ELSE "none"

StartDelete(c, claims, id) ==
  Arrive(c, [NoRequest EXCEPT !.op = "DeleteUser", !.claims = claims, !.id = id],
         DeleteError(claims, id), "delete")

\* One DELETE; the roles go with the row (ON DELETE CASCADE).
DeleteRow(c) ==
  LET id == req[c].id IN
  /\ pc[c] = "delete"
  /\ \/ /\ Answer(c, "internal")
        /\ UNCHANGED <<users, stale>>
     \/ /\ users[id] = Nil
        /\ Answer(c, "ErrUserNotFound")
        /\ UNCHANGED <<users, stale>>
     \/ /\ users[id] # Nil
        /\ users' = [users EXCEPT ![id] = Nil]
        /\ Overtake
        /\ Answer(c, "ok")
  /\ UNCHANGED <<up, sequence, tokens>>

Return(c) ==
  /\ pc[c] = "reply"
  /\ Goto(c, "idle")
  /\ req' = [req EXCEPT ![c] = NoRequest]
  /\ UNCHANGED <<up, users, sequence, tokens, stale>>

-----------------------------------------------------------------------------
(* The rest of the service, as far as these calls can see it.              *)

\* Login or RefreshToken signs a token for an enabled account: signAccessToken.
IssueToken(id) ==
  /\ up
  /\ id \in UserIds
  /\ users[id].Enabled
  /\ tokens' = tokens \cup
       {[UserID |-> id, Username |-> users[id].Username, Roles |-> users[id].Roles]}
  /\ UNCHANGED <<up, users, sequence, pc, req, stale>>

\* Login commits UpdateLastLogin, a write to a column nobody rewrites.
UpdateLastLogin(id) ==
  /\ up
  /\ id \in UserIds
  /\ Overtake
  /\ UNCHANGED <<up, users, sequence, tokens, pc, req>>

\* The process starts.  EnsureBootstrapAdmin fills an empty table before the
\* listeners accept; if that fails the process exits again.
Boot ==
  /\ ~up
  /\ \/ /\ UserIds = {}
        /\ NewId <= MaxId   \* bound
        /\ users' = [users EXCEPT ![NewId] =
             [Username |-> BootstrapName, Roles |-> BootstrapRoles, Enabled |-> TRUE]]
        /\ sequence' = NewId
        /\ up' = TRUE
     \/ /\ UserIds # {}
        /\ up' = TRUE
        /\ UNCHANGED <<users, sequence>>
     \/ UNCHANGED <<up, users, sequence>>
  /\ UNCHANGED <<tokens, pc, req, stale>>

\* The process dies: calls in flight and open transactions are gone, the
\* tables and the tokens in clients' hands are not.
Crash ==
  /\ up
  /\ up' = FALSE
  /\ pc' = [c \in Calls |-> "idle"]
  /\ req' = [c \in Calls |-> NoRequest]
  /\ stale' = {}
  /\ UNCHANGED <<users, sequence, tokens>>

-----------------------------------------------------------------------------
Step(c) ==
  \/ CreateCount(c) \/ CreateInsert(c)
  \/ UpdateRead(c) \/ UpdateWrite(c)
  \/ DeleteRow(c)
  \/ Return(c)

ArriveAny(c) ==
  \E claims \in tokens \cup {Nil} :
    \/ \E input \in CreateInputs : StartCreate(c, claims, input)
    \/ \E id \in 0..MaxId :
         \/ \E input \in UpdateInputs : StartUpdate(c, claims, id, input)
         \/ StartDelete(c, claims, id)

Next ==
  \/ \E c \in Calls : ArriveAny(c) \/ Step(c)
  \/ \E id \in Ids : IssueToken(id) \/ UpdateLastLogin(id)
  \/ Boot
  \/ Crash

Spec == Init /\ [][Next]_vars
-----------------------------------------------------------------------------
(* Properties. *)

\* CreateUser checks auth.max_users and inserts in two steps, so concurrent
\* calls get past it.  How far: each call in flight may add one user to the
\* largest number that still passes the check.
CountBound ==
  MaxUsers > 0 => CountUsers <= MaxUsers - 1 + Cardinality(Calls)

\* README.md and conf/authd.toml call auth.max_users the maximum number of
\* users.  Violated: two calls that count before either inserts.
MaxUsersRespected == MaxUsers > 0 => CountUsers <= MaxUsers

\* No two accounts share a name, although no call looks before it inserts.
UniqueUsernames ==
  \A i, j \in UserIds : users[i].Username = users[j].Username => i = j

\* A token names the account it was signed for, or nobody: through deletions,
\* re-creations and restarts, no other account comes under its user id.
TokenIdentity ==
  \A t \in tokens : t.UserID \in UserIds => users[t.UserID].Username = t.Username

\* An update changes what its mask names and nothing else, although it writes
\* back columns it read earlier: what another client changed meanwhile stays.
NoLostUpdate ==
  [][\A id \in UserIds \cap UserIds' :
       users'[id] # users[id] =>
         \E c \in Calls :
           LET paths == Paths(req[c].input.mask) IN
           /\ pc[c] = "write" /\ pc'[c] = "reply" /\ req[c].id = id
           /\ users'[id].Enabled # users[id].Enabled => "enabled" \in paths
           /\ users'[id].Roles # users[id].Roles => "roles" \in paths]_vars

\* An account is deleted, disabled, enabled or given roles only by a call with
\* the permission for it, presented by another account.
OthersOnly ==
  [][\A id \in UserIds :
       (id \notin UserIds' \/ users'[id] # users[id]) =>
         \E c \in Calls :
           /\ pc[c] \in {"write", "delete"} /\ pc'[c] = "reply" /\ req[c].id = id
           /\ req[c].claims.UserID # id
           /\ Has(req[c].claims, IF id \in UserIds' THEN "user.update" ELSE "user.delete")]_vars

\* Refinement: with reads, checks and writes at different times, what these
\* calls do to the tables is what UserTable has its clients do: a user as it was
\* sent is created, the columns of one mask are overwritten and no others, a
\* user is deleted, each at one instant.  UserStore implements the same table.
Account(input) ==
  [Username |-> input.name, Roles |-> input.roles, Enabled |-> input.enabled]

Fields(input) ==
  LET paths == Paths(input.mask) IN
  [Enabled |-> IF "enabled" \in paths THEN input.enabled ELSE Nil,
   Roles   |-> IF "roles" \in paths THEN input.roles ELSE Nil]

Bootstrapped == [Username |-> BootstrapName, Roles |-> BootstrapRoles, Enabled |-> TRUE]

Table == INSTANCE UserTable WITH
  Creates <- {Account(input) : input \in CreateInputs} \cup {Bootstrapped},
  Updates <- {Fields(input) : input \in UpdateInputs}

ActsOnUserTable == Table!Spec

\* As long as one account at most has ever held a token that can change other
\* accounts, an enabled administrator is left.  (Two such accounts can remove
\* each other: the checks compare a call with its own account only.)
Powerful == {t.UserID : t \in {k \in tokens : Has(k, "user.update") \/ Has(k, "user.delete")}}

LastAdminSurvives ==
  /\ TypeOK
  /\ up /\ Cardinality(Powerful) <= 1 =>
       \E id \in UserIds : users[id].Enabled /\ "admin" \in users[id].Roles
=============================================================================
