------------------------------ MODULE UserStore ------------------------------
(***************************************************************************)
(* The user store (pkg/database/sqlite), statement by statement: the pool  *)
(* of connections, the transactions of each operation, and SQLite's locks. *)
(*                                                                         *)
(* SQLite in WAL mode is external.  A transaction is deferred: its first   *)
(* statement fixes the snapshot it reads, its first write takes the one    *)
(* write lock.  A transaction that has not read yet waits for the lock for *)
(* busy_timeout; one that has fails at once, and fails also when another   *)
(* write was committed after its snapshot.                                 *)
(*                                                                         *)
(* Passwords, display names and times are columns like Enabled and left    *)
(* out.  UserAdmin has the checks and the races of the service above.      *)
(***************************************************************************)
EXTENDS Integers, FiniteSets

CONSTANTS
  Calls,         \* calls of the store in flight at the same time
  Ops,           \* the operations they call
  MaxOpenConns,  \* SetMaxOpenConns: 4
  MaxUserID,     \* the largest uint32
  Names,
  RoleNames,
  Creates,       \* what the service passes to CreateUser
  Updates,       \* what the service passes to UpdateUser, but for the id
  Nil

Ids == 1..MaxUserID

Row == [Username : Names, Enabled : BOOLEAN]

\* CreateUserParams and UpdateUserParams; Nil is a field that is not given.
CreateUserParams == [Username : Names, Enabled : BOOLEAN, Roles : SUBSET RoleNames]

UpdateUserParams ==
  [Enabled : BOOLEAN \cup {Nil}, Roles : (SUBSET RoleNames) \cup {Nil}]

\* The tables users (with sqlite_sequence) and user_roles.
Tables ==
  [rows : [Ids -> Row \cup {Nil}], roles : [Ids -> SUBSET RoleNames],
   sequence : 0..MaxUserID]

ASSUME ConstantsAssumption ==
  /\ IsFiniteSet(Calls)
  /\ Ops \subseteq {"CreateUser", "UpdateUser", "DeleteUser", "UpdateLastLogin",
                    "GetUser", "ListUsers", "CountUsers"}
  /\ MaxOpenConns \in Nat \ {0} /\ MaxUserID \in Nat
  /\ Creates \subseteq CreateUserParams
  /\ Updates \subseteq UpdateUserParams
  /\ Nil \notin Calls /\ Nil \notin BOOLEAN
  /\ \A roles \in SUBSET RoleNames : roles # Nil
  /\ \A row \in Row : row # Nil
  /\ \A user \in CreateUserParams : user # Nil
  /\ \A tables \in Tables : tables # Nil

\* A user as getUser returns it.
User == [UserID : Ids, Username : Names, Enabled : BOOLEAN, Roles : SUBSET RoleNames]

VARIABLES
  db,      \* the tables as last committed
  writer,  \* the call whose transaction holds the write lock
  stale,   \* calls whose snapshot has been overtaken by a commit
  pc,      \* where each call is
  req,     \* the parameters and local variables of each call
  \* History, read by the properties only:
  point    \* the tables as committed when each call took effect

vars == <<db, writer, stale, pc, req, point>>

Request ==
  [op : Ops \cup {"none"},
   id : 0..MaxUserID,
   params : Creates \cup Updates \cup {Nil},
   view : Tables \cup {Nil},   \* the tables as the transaction sees them
   todo : SUBSET Ids,          \* the users getUser is still to read
   row : Row \cup {Nil},       \* the row getUser has read
   got : SUBSET User,          \* the users it has returned
   result : {"none", "ok", "error", "ErrUserNotFound", "ErrUsernameExists"}]

NoRequest ==
  [op |-> "none", id |-> 0, params |-> Nil, view |-> Nil, todo |-> {}, row |-> Nil,
   got |-> {}, result |-> "none"]

\* Between "connect" and "done" a call has a connection.
Locations ==
  {"idle", "connect", "select", "row", "rowRoles", "insert", "update", "roles",
   "addRoles", "single", "commit", "done"}

TypeOK ==
  /\ db \in Tables
  /\ writer \in Calls \cup {Nil}
  /\ stale \in SUBSET Calls
  /\ pc \in [Calls -> Locations]
  /\ req \in [Calls -> Request]
  /\ point \in [Calls -> Tables \cup {Nil}]

\* migrate has created the tables.
Init ==
  /\ db = [rows |-> [id \in Ids |-> Nil], roles |-> [id \in Ids |-> {}], sequence |-> 0]
  /\ writer = Nil
  /\ stale = {}
  /\ pc = [c \in Calls |-> "idle"]
  /\ req = [c \in Calls |-> NoRequest]
  /\ point = [c \in Calls |-> Nil]

-----------------------------------------------------------------------------
Goto(c, location) == pc' = [pc EXCEPT ![c] = location]

\* The call answers, and its connection goes back to the pool.
Answer(c, result) ==
  LET reply == [NoRequest EXCEPT !.op = req[c].op, !.result = result] IN
  /\ Goto(c, "done")
  /\ req' = [req EXCEPT ![c] =
       IF result = "ok" THEN [reply EXCEPT !.id = req[c].id, !.got = req[c].got] ELSE reply]

\* defer tx.Rollback(): the transaction leaves nothing behind.
Rollback(c, result) ==
  /\ Answer(c, result)
  /\ writer' = IF writer = c THEN Nil ELSE writer
  /\ stale' = stale \ {c}
  /\ point' = [point EXCEPT ![c] = IF result = "ok" THEN @ ELSE Nil]
  /\ UNCHANGED db

\* A commit overtakes the snapshots of all other transactions.
CommitTables(c, tables) ==
  /\ db' = tables
  /\ writer' = Nil
  /\ stale' = {d \in Calls \ {c} : d \in stale \/ req[d].view # Nil}
  /\ point' = [point EXCEPT ![c] = tables]
  /\ Answer(c, "ok")

\* A statement inside the transaction leads on to the next; the first one
\* fixes the snapshot.
Proceed(c, location, request) ==
  /\ Goto(c, location)
  /\ req' = [req EXCEPT ![c] = request]
  /\ point' = [point EXCEPT ![c] = IF @ = Nil /\ request.view # Nil THEN db ELSE @]
  /\ UNCHANGED <<db, stale>>

-----------------------------------------------------------------------------
(* The pool. *)

Start(c, op, id, params) ==
  /\ pc[c] = "idle"
  /\ Goto(c, "connect")
  /\ req' = [req EXCEPT ![c] = [NoRequest EXCEPT !.op = op, !.id = id, !.params = params]]
  /\ UNCHANGED <<db, writer, stale, point>>

Connected == {c \in Calls : pc[c] \notin {"idle", "connect", "done"}}

FirstStatement(op) ==
  CASE op \in {"GetUser", "UpdateUser"} -> "row"
    [] op = "CreateUser" -> "insert"
    [] op = "ListUsers" -> "select"
    [] OTHER -> "single"

\* database/sql gives a connection that comes back to any call that waits.
Connect(c) ==
  /\ pc[c] = "connect"
  /\ Cardinality(Connected) < MaxOpenConns
  /\ Proceed(c, FirstStatement(req[c].op),
             [req[c] EXCEPT !.todo = IF req[c].op \in {"GetUser", "UpdateUser"}
                                       THEN {req[c].id} ELSE {}])
  /\ UNCHANGED writer

-----------------------------------------------------------------------------
(* Reading. *)

\* Faulty variant: each statement runs by itself, outside a transaction.
View_Latest(c) == IF writer = c THEN req[c].view ELSE db

\* The tables as the snapshot and the transaction's own writes leave them.
View(c) == IF req[c].view = Nil THEN db ELSE req[c].view

\* ListUsers, the ids.
Select(c) ==
  LET ids == {id \in Ids : db.rows[id] # Nil} IN
  /\ pc[c] = "select"
  /\ Proceed(c, IF ids = {} THEN "commit" ELSE "row",
             [req[c] EXCEPT !.todo = ids, !.view = db])
  /\ UNCHANGED writer

Current(c) == CHOOSE id \in req[c].todo : \A other \in req[c].todo : id <= other

\* getUser, the row.
ReadRow(c) ==
  LET row == View(c).rows[Current(c)] IN
  /\ pc[c] = "row"
  /\ \/ row = Nil /\ Rollback(c, "ErrUserNotFound")
     \/ /\ row # Nil
        /\ Proceed(c, "rowRoles", [req[c] EXCEPT !.row = row, !.view = View(c)])
        /\ UNCHANGED writer

\* Faulty variant: the roles are read on a connection of their own.
ReadRoles_Nested(c) ==
  LET r == req[c]
      user == [UserID |-> Current(c), Username |-> r.row.Username,
               Enabled |-> r.row.Enabled, Roles |-> View(c).roles[Current(c)]]
      todo == r.todo \ {Current(c)}
  IN
  /\ pc[c] = "rowRoles"
  /\ Cardinality(Connected) < MaxOpenConns
  /\ Proceed(c, IF todo # {} THEN "row"
                  ELSE IF r.op = "UpdateUser" /\ writer # c THEN "update"
                  ELSE "commit",
             [r EXCEPT !.got = @ \cup {user}, !.todo = todo, !.row = Nil])
  /\ UNCHANGED writer

\* getUser, the roles.  UpdateUser runs it before its write and after it.
ReadRoles(c) ==
  LET r == req[c]
      user == [UserID |-> Current(c), Username |-> r.row.Username,
               Enabled |-> r.row.Enabled, Roles |-> View(c).roles[Current(c)]]
      todo == r.todo \ {Current(c)}
  IN
  /\ pc[c] = "rowRoles"
  /\ Proceed(c, IF todo # {} THEN "row"
                  ELSE IF r.op = "UpdateUser" /\ writer # c THEN "update"
                  ELSE "commit",
             [r EXCEPT !.got = @ \cup {user}, !.todo = todo, !.row = Nil])
  /\ UNCHANGED writer

-----------------------------------------------------------------------------
(* Writing, inside a transaction. *)

Taken(name) == \E id \in Ids : db.rows[id] # Nil /\ db.rows[id].Username = name

\* Faulty variant: the row is inserted by itself, before the transaction of
\* its roles.
Insert_Outside(c) ==
  LET p == req[c].params
      id == db.sequence + 1
      tables == [db EXCEPT !.sequence = id,
                   !.rows[id] = [Username |-> p.Username, Enabled |-> p.Enabled]]
  IN
  /\ pc[c] = "insert"
  /\ writer = Nil
  /\ id \in Ids /\ ~Taken(p.Username)
  /\ db' = tables
  /\ writer' = c
  /\ stale' = {d \in Calls \ {c} : d \in stale \/ req[d].view # Nil}
  /\ point' = [point EXCEPT ![c] = tables]
  /\ req' = [req EXCEPT ![c] = [@ EXCEPT !.id = id, !.todo = {id}, !.view = tables]]
  /\ Goto(c, "roles")

\* int64ToUserID refuses an id that is no uint32, and the insert with it.
Insert(c) ==
  LET p == req[c].params
      id == db.sequence + 1
  IN
  /\ pc[c] = "insert"
  /\ writer = Nil
  /\ \/ /\ Taken(p.Username)
        /\ Rollback(c, "ErrUsernameExists")
     \/ /\ ~Taken(p.Username)
        /\ id \notin Ids
        /\ Rollback(c, "error")
     \/ /\ ~Taken(p.Username)
        /\ id \in Ids
        /\ Proceed(c, "roles",
                   [req[c] EXCEPT !.id = id, !.todo = {id},
                      !.view = [db EXCEPT !.sequence = id,
                                  !.rows[id] = [Username |-> p.Username, Enabled |-> p.Enabled]]])
        /\ writer' = c

NewEnabled(current, given) == IF given = Nil THEN current ELSE given

\* With a snapshot there is no waiting for the lock: SQLITE_BUSY.
UpdateRow(c) ==
  LET r == req[c]
      current == CHOOSE user \in r.got : TRUE
  IN
  /\ pc[c] = "update"
  /\ IF writer # Nil \/ c \in stale
       THEN Rollback(c, "error")
       ELSE /\ Proceed(c, IF r.params.Roles = Nil THEN "row" ELSE "roles",
                       [r EXCEPT !.todo = {r.id}, !.got = {},
                          !.view.rows[r.id].Enabled =
                            NewEnabled(current.Enabled, r.params.Enabled)])
            /\ writer' = c

\* replaceRoles: the roles are deleted, then inserted one by one.
DeleteRoles(c) ==
  LET r == req[c] IN
  /\ pc[c] = "roles"
  /\ Proceed(c, IF r.params.Roles = {} THEN "row" ELSE "addRoles",
             [r EXCEPT !.view.roles[r.id] = {}])
  /\ UNCHANGED writer

InsertRole(c) ==
  LET r == req[c]
      missing == r.params.Roles \ r.view.roles[r.id]
  IN
  /\ pc[c] = "addRoles"
  /\ \E role \in missing :
       Proceed(c, IF missing = {role} THEN "row" ELSE "addRoles",
               [r EXCEPT !.view.roles[r.id] = @ \cup {role}])
  /\ UNCHANGED writer

\* tx.Commit.  A transaction that has only read ends without a trace.
Commit(c) ==
  /\ pc[c] = "commit"
  /\ \/ writer = c /\ CommitTables(c, req[c].view)
     \/ writer # c /\ Rollback(c, "ok")

-----------------------------------------------------------------------------
(* Single statements. *)

\* ON DELETE CASCADE
Deleted(tables, id) == [tables EXCEPT !.rows[id] = Nil, !.roles[id] = {}]

\* DeleteUser and UpdateLastLogin, and the bare SELECT of CountUsers.
Single(c) ==
  LET r == req[c] IN
  /\ pc[c] = "single"
  /\ \/ r.op = "CountUsers" /\ Rollback(c, "ok")
     \/ /\ r.op # "CountUsers"
        /\ writer = Nil
        /\ db.rows[r.id] = Nil
        /\ Rollback(c, "ErrUserNotFound")
     \/ /\ r.op # "CountUsers"
        /\ writer = Nil
        /\ db.rows[r.id] # Nil
        /\ CommitTables(c, IF r.op = "DeleteUser" THEN Deleted(db, r.id) ELSE db)

\* A statement fails, the lock was not to be had within busy_timeout, the
\* context is cancelled, while the call waits for a connection too.
Fails(c) ==
  /\ pc[c] \notin {"idle", "done"}
  /\ Rollback(c, "error")

Return(c) ==
  /\ pc[c] = "done"
  /\ Goto(c, "idle")
  /\ req' = [req EXCEPT ![c] = NoRequest]
  /\ point' = [point EXCEPT ![c] = Nil]
  /\ UNCHANGED <<db, writer, stale>>

\* The process dies; what was committed stays.
Crash ==
  /\ \E c \in Calls : pc[c] # "idle"
  /\ writer' = Nil
  /\ stale' = {}
  /\ pc' = [c \in Calls |-> "idle"]
  /\ req' = [c \in Calls |-> NoRequest]
  /\ point' = [c \in Calls |-> Nil]
  /\ UNCHANGED db

-----------------------------------------------------------------------------
Arrive(c) ==
  \E op \in Ops :
    CASE op = "CreateUser" -> \E params \in Creates : Start(c, op, 0, params)
      [] op = "UpdateUser" -> \E id \in Ids, params \in Updates : Start(c, op, id, params)
      [] op \in {"ListUsers", "CountUsers"} -> Start(c, op, 0, Nil)
      [] OTHER -> \E id \in Ids : Start(c, op, id, Nil)

Statement(c) ==
  \/ Select(c) \/ ReadRow(c) \/ ReadRoles(c)
  \/ Insert(c) \/ UpdateRow(c) \/ DeleteRoles(c) \/ InsertRole(c) \/ Commit(c)
  \/ Single(c)

Next ==
  \/ \E c \in Calls :
       Arrive(c) \/ Connect(c) \/ Statement(c) \/ Fails(c) \/ Return(c)
  \/ Crash

Spec == Init /\ [][Next]_vars
-----------------------------------------------------------------------------
(* Properties. *)

UsersOf(tables) ==
  {[UserID |-> id, Username |-> tables.rows[id].Username,
    Enabled |-> tables.rows[id].Enabled, Roles |-> tables.roles[id]] :
     id \in {i \in Ids : tables.rows[i] # Nil}}

\* Refinement: rows and roles together change as UserTable's operations, each
\* at one instant, although they are written in several statements between
\* which others run, statements fail and the process dies.
Promise == INSTANCE UserTable WITH
  users <- [id \in Ids |->
    IF db.rows[id] = Nil THEN Nil
    ELSE [Username |-> db.rows[id].Username, Enabled |-> db.rows[id].Enabled,
          Roles |-> db.roles[id]]],
  sequence <- db.sequence

ImplementsUserTable == Promise!Spec

\* What a call returns, read in one statement per row and one per row's
\* roles, is what the tables held at one instant: for GetUser and ListUsers
\* when their transaction began to read, for CreateUser and UpdateUser when
\* it committed.  So a user deleted while ListUsers reads is no error: the ids
\* and the users come from one snapshot.
ReadsOneState ==
  /\ TypeOK
  /\ \A c \in Calls :
       (pc[c] = "done" /\ req[c].result = "ok") =>
         CASE req[c].op = "ListUsers" -> req[c].got = UsersOf(point[c])
           [] req[c].op \in {"GetUser", "CreateUser", "UpdateUser"} ->
                req[c].got = {u \in UsersOf(point[c]) : u.UserID = req[c].id}
           [] OTHER -> TRUE
  /\ \A c \in Calls : req[c].op = "ListUsers" => req[c].result # "ErrUserNotFound"

\* A call that waits neither for a connection nor for the write lock.
Ready(c) ==
  /\ pc[c] # "idle"
  /\ pc[c] = "connect" => Cardinality(Connected) < MaxOpenConns
  /\ pc[c] = "insert" \/ (pc[c] = "single" /\ req[c].op # "CountUsers") => writer = Nil

\* While calls are in flight, they do not all wait for each other.
SomebodyReady == (\E c \in Calls : pc[c] # "idle") => \E c \in Calls : Ready(c)

\* No operation waits for a second connection while it holds one, and none
\* that holds the write lock waits for anything: while calls are in flight,
\* some call gets on by itself, without an error and without a timeout that
\* has to break a deadlock.
NobodyStuck ==
  /\ SomebodyReady
  /\ \A c \in Calls : Ready(c) => ENABLED (Connect(c) \/ Statement(c) \/ Return(c))
=============================================================================
