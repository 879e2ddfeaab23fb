--------------------------- MODULE UserStoreProofs ---------------------------
(***************************************************************************)
(* Proofs about UserStore, for any calls, connections, ids and names.      *)
(***************************************************************************)
EXTENDS UserStore, FiniteSetTheorems, TLAPS

InFlight(c) == pc[c] \notin {"idle", "done"}

Readers == {"GetUser", "ListUsers", "CreateUser", "UpdateUser"}

\* A call has the parameters of its operation, and is at a point of it.
ParamsOK(c) ==
  LET r == req[c] IN
  /\ InFlight(c) =>
       /\ r.op \in Ops
       /\ r.op = "CreateUser" => r.params \in Creates
       /\ r.op = "UpdateUser" => r.params \in Updates
       /\ r.op \notin {"CreateUser", "ListUsers", "CountUsers"} => r.id \in Ids
  /\ pc[c] \in {"connect", "select", "insert", "single"} =>
       r.view = Nil /\ r.got = {} /\ writer # c
  /\ pc[c] = "select" => r.op = "ListUsers"
  /\ pc[c] = "insert" => r.op = "CreateUser"
  /\ pc[c] = "single" => r.op \notin Readers
  /\ pc[c] \in {"row", "rowRoles", "commit"} => r.op \in Readers
  /\ pc[c] = "update" => r.op = "UpdateUser"
  /\ pc[c] \in {"roles", "addRoles"} =>
       r.op = "CreateUser" \/ (r.op = "UpdateUser" /\ r.params.Roles # Nil)

\* A transaction that has not written sees the tables as they were when it began
\* to read, and unless it has been overtaken, as they are.
SnapshotOK(c) ==
  InFlight(c) /\ writer # c =>
    /\ point[c] = req[c].view
    /\ req[c].view # Nil /\ c \notin stale => req[c].view = db

\* What the transaction that holds the write lock has made of the tables: one
\* operation's change, and nothing else, as far as it has come.
RolesWritten(c) ==
  IF pc[c] = "roles" \/ req[c].params.Roles = Nil
    THEN db.roles
    ELSE [db.roles EXCEPT ![req[c].id] =
            IF pc[c] = "addRoles" THEN req[c].view.roles[req[c].id] ELSE req[c].params.Roles]

Created(c) ==
  LET r == req[c] IN
  /\ r.op = "CreateUser"
  /\ r.id = db.sequence + 1 /\ r.id \in Ids
  /\ ~Taken(r.params.Username)
  /\ r.view.sequence = r.id
  /\ r.view.rows =
       [db.rows EXCEPT ![r.id] = [Username |-> r.params.Username, Enabled |-> r.params.Enabled]]
  /\ r.view.roles = RolesWritten(c)

Updated(c) ==
  LET r == req[c] IN
  /\ r.op = "UpdateUser"
  /\ db.rows[r.id] # Nil
  /\ r.view.sequence = db.sequence
  /\ r.view.rows =
       [db.rows EXCEPT ![r.id].Enabled = NewEnabled(db.rows[r.id].Enabled, r.params.Enabled)]
  /\ r.view.roles = RolesWritten(c)

WriterOK(c) ==
  LET r == req[c] IN
  /\ writer = c =>
       /\ pc[c] \in {"roles", "addRoles", "row", "rowRoles", "commit"}
       /\ r.view # Nil
       /\ Created(c) \/ Updated(c)
  /\ pc[c] \in {"roles", "addRoles"} => writer = c
  /\ pc[c] = "addRoles" => r.view.roles[r.id] \subseteq r.params.Roles
  /\ r.op = "CreateUser" /\ pc[c] \in {"row", "rowRoles", "commit"} => writer = c
  /\ r.op = "UpdateUser" /\ pc[c] = "commit" => writer = c

\* The users an operation returns, of those in the tables
Wanted(r, tables) == {u \in UsersOf(tables) : r.op = "ListUsers" \/ u.UserID = r.id}

\* getUser goes through the users wanted one by one.
ReadOK(c) ==
  LET r == req[c] IN
  /\ pc[c] \in {"row", "rowRoles"} =>
       /\ r.todo # {}
       /\ r.op # "ListUsers" => r.todo = {r.id}
       /\ r.op = "ListUsers" =>
            r.view # Nil /\ \A id \in r.todo : r.view.rows[id] # Nil
       /\ r.view = Nil => r.got = {}
       /\ r.view # Nil => r.got = {u \in Wanted(r, r.view) : u.UserID \notin r.todo}
  /\ pc[c] = "rowRoles" =>
       r.view # Nil /\ r.row # Nil /\ r.row = r.view.rows[Current(c)]
  /\ pc[c] \in {"roles", "addRoles"} => r.todo = {r.id} /\ r.got = {}
  /\ pc[c] = "update" => r.view # Nil /\ r.view.rows[r.id] # Nil
  /\ pc[c] \in {"update", "commit"} => r.view # Nil /\ r.got = Wanted(r, r.view)
  /\ pc[c] = "done" /\ r.result = "ok" /\ r.op \in Readers => r.got = Wanted(r, point[c])
  /\ r.op = "ListUsers" => r.result # "ErrUserNotFound"

IdleOK(c) == pc[c] = "idle" => point[c] = Nil

CallOK(c) == ParamsOK(c) /\ SnapshotOK(c) /\ WriterOK(c) /\ ReadOK(c) /\ IdleOK(c)

StoreInv == TypeOK /\ \A c \in Calls : CallOK(c)

-----------------------------------------------------------------------------
(* Users and tables. *)

Least(S) == CHOOSE id \in S : \A other \in S : id <= other

LEMMA LeastIn ==
  ASSUME NEW S \in SUBSET Ids, S # {}
  PROVE  Least(S) \in S
<1>1. MaxUserID \in Nat
  BY ConstantsAssumption
<1>2. S \in SUBSET Nat
  BY <1>1 DEF Ids
<1>3. PICK m \in S : \A n \in S : ~(<<n, m>> \in OpToRel(<, Nat))
  BY <1>2, NatLessThanWellFounded, WFMin
<1>4. \A n \in S : ~(n < m)
  BY <1>2, <1>3 DEF OpToRel
<1>5. \E id \in S : \A other \in S : id <= other
  BY <1>2, <1>4
<1> QED BY <1>5 DEF Least

LEMMA CurrentIsLeast ==
  ASSUME NEW c
  PROVE  Current(c) = Least(req[c].todo)
BY DEF Current, Least

UserOf(tables, id) ==
  [UserID |-> id, Username |-> tables.rows[id].Username,
   Enabled |-> tables.rows[id].Enabled, Roles |-> tables.roles[id]]

LEMMA TablesFields ==
  ASSUME NEW t \in Tables
  PROVE  /\ t.rows \in [Ids -> Row \cup {Nil}]
         /\ t.roles \in [Ids -> SUBSET RoleNames]
         /\ t.sequence \in 0..MaxUserID
         /\ t # Nil
BY ConstantsAssumption DEF Tables

LEMMA RowFields ==
  ASSUME NEW row \in Row
  PROVE  row.Username \in Names /\ row.Enabled \in BOOLEAN /\ row # Nil
BY ConstantsAssumption DEF Row

LEMMA UserOfType ==
  ASSUME NEW t \in Tables, NEW id \in Ids, t.rows[id] # Nil
  PROVE  UserOf(t, id) \in User
<1>1. t.rows[id] \in Row
  BY TablesFields
<1>2. t.rows[id].Username \in Names /\ t.rows[id].Enabled \in BOOLEAN
  BY <1>1, RowFields
<1>3. t.roles[id] \in SUBSET RoleNames
  BY TablesFields
<1> QED BY <1>2, <1>3 DEF UserOf, User

LEMMA UsersAre ==
  ASSUME NEW t, NEW u
  PROVE  u \in UsersOf(t) <=> \E id \in Ids : t.rows[id] # Nil /\ u = UserOf(t, id)
BY DEF UsersOf, UserOf

LEMMA UserOfID ==
  ASSUME NEW t, NEW id
  PROVE  UserOf(t, id).UserID = id
BY DEF UserOf

\* Reading one user more
LEMMA WantedGrows ==
  ASSUME NEW t, NEW r, NEW todo, NEW id \in Ids, id \in todo, t.rows[id] # Nil,
         r.op = "ListUsers" \/ id = r.id
  PROVE  {u \in Wanted(r, t) : u.UserID \notin todo \ {id}} =
         {u \in Wanted(r, t) : u.UserID \notin todo} \cup {UserOf(t, id)}
<1>1. UserOf(t, id) \in Wanted(r, t)
  BY UsersAre, UserOfID DEF Wanted
<1>2. \A u \in Wanted(r, t) : u.UserID = id => u = UserOf(t, id)
  BY UsersAre, UserOfID DEF Wanted
<1> QED BY <1>1, <1>2, UserOfID

\* The one user with an id
LEMMA WantedOne ==
  ASSUME NEW t, NEW r, r.op # "ListUsers", r.id \in Ids, t.rows[r.id] # Nil
  PROVE  Wanted(r, t) = {UserOf(t, r.id)}
<1>1. UserOf(t, r.id) \in Wanted(r, t)
  BY UsersAre, UserOfID DEF Wanted
<1>2. \A u \in Wanted(r, t) : u = UserOf(t, r.id)
  BY UsersAre, UserOfID DEF Wanted
<1> QED BY <1>1, <1>2

\* Only these fields of a request say whom it wants.
LEMMA WantedSame ==
  ASSUME NEW r, NEW other, NEW t, r.op = other.op, r.id = other.id
  PROVE  Wanted(r, t) = Wanted(other, t)
BY DEF Wanted

LEMMA RequestFields ==
  ASSUME NEW r \in Request
  PROVE  /\ r.op \in Ops \cup {"none"}
         /\ r.id \in 0..MaxUserID
         /\ r.params \in Creates \cup Updates \cup {Nil}
         /\ r.view \in Tables \cup {Nil}
         /\ r.todo \in SUBSET Ids
         /\ r.row \in Row \cup {Nil}
         /\ r.got \in SUBSET User
         /\ r.result \in {"none", "ok", "error", "ErrUserNotFound", "ErrUsernameExists"}
BY DEF Request

LEMMA NoRequestType == NoRequest \in Request
<1>1. 0 \in 0..MaxUserID
  BY ConstantsAssumption
<1> QED BY <1>1 DEF NoRequest, Request

LEMMA StoreInit == Init => StoreInv
<1> SUFFICES ASSUME Init PROVE StoreInv
  OBVIOUS
<1>1. MaxUserID \in Nat
  BY ConstantsAssumption
<1>2. db \in Tables
  BY <1>1 DEF Init, Tables
<1>3. TypeOK
  BY <1>2, NoRequestType DEF Init, TypeOK, Locations
<1>4. \A c \in Calls : writer # c
  BY ConstantsAssumption DEF Init
<1>5. ASSUME NEW c \in Calls PROVE CallOK(c)
  <2>1. pc[c] = "idle" /\ req[c] = NoRequest
    BY DEF Init
  <2>2. req[c].op = "none" /\ req[c].result = "none"
    BY <2>1 DEF NoRequest
  <2>3. ParamsOK(c) /\ SnapshotOK(c)
    BY <2>1 DEF ParamsOK, SnapshotOK, InFlight
  <2>4. WriterOK(c)
    BY <1>4, <2>1 DEF WriterOK
  <2>5. ReadOK(c) /\ IdleOK(c)
    BY <2>1, <2>2 DEF ReadOK, IdleOK, Init
  <2> QED BY <2>3, <2>4, <2>5 DEF CallOK
<1> QED BY <1>3, <1>5 DEF StoreInv

-----------------------------------------------------------------------------
(* What a step of one call leaves of the others. *)

LEMMA OthersKeep ==
  ASSUME NEW d \in Calls, CallOK(d),
         pc'[d] = pc[d], req'[d] = req[d], point'[d] = point[d],
         writer' = d <=> writer = d, db' = db, d \in stale => d \in stale'
  PROVE  CallOK(d)'
<1>1. ParamsOK(d)'
  BY DEF CallOK, ParamsOK, InFlight
<1>2. SnapshotOK(d)'
  BY DEF CallOK, SnapshotOK, InFlight
<1>3. RolesWritten(d)' = RolesWritten(d)
  BY DEF RolesWritten
<1>4. Taken(req[d].params.Username)' = Taken(req[d].params.Username)
  BY DEF Taken
<1>5. Created(d)' = Created(d)
  BY <1>3, <1>4 DEF Created
<1>6. Updated(d)' = Updated(d)
  BY <1>3 DEF Updated
<1>7. WriterOK(d)'
  BY <1>5, <1>6 DEF CallOK, WriterOK
<1>8. Current(d)' = Current(d)
  BY CurrentIsLeast DEF Current
<1>9. ReadOK(d)' /\ IdleOK(d)'
  BY <1>8 DEF CallOK, ReadOK, IdleOK
<1> QED BY <1>1, <1>2, <1>7, <1>9 DEF CallOK

LEMMA OthersOvertaken ==
  ASSUME NEW d \in Calls, CallOK(d),
         pc'[d] = pc[d], req'[d] = req[d], point'[d] = point[d],
         writer # d, writer' # d, d \in stale \/ req[d].view # Nil => d \in stale'
  PROVE  CallOK(d)'
<1>1. ParamsOK(d)'
  BY DEF CallOK, ParamsOK, InFlight
<1>2. SnapshotOK(d)'
  BY DEF CallOK, SnapshotOK, InFlight
<1>3. WriterOK(d)'
  BY DEF CallOK, WriterOK
<1>4. Current(d)' = Current(d)
  BY CurrentIsLeast DEF Current
<1>5. ReadOK(d)' /\ IdleOK(d)'
  BY <1>4 DEF CallOK, ReadOK, IdleOK
<1> QED BY <1>1, <1>2, <1>3, <1>5 DEF CallOK

LEMMA NilNoCall == \A c \in Calls : c # Nil
BY ConstantsAssumption

LEMMA ProceedMoves ==
  ASSUME StoreInv, NEW c \in Calls, NEW location \in Locations, NEW request \in Request,
         Proceed(c, location, request),
         writer' = writer \/ (writer = Nil /\ writer' = c)
  PROVE  /\ TypeOK'
         /\ UNCHANGED <<db, stale>>
         /\ pc'[c] = location
         /\ req'[c] = request
         /\ point'[c] = IF point[c] = Nil /\ request.view # Nil THEN db ELSE point[c]
         /\ \A d \in Calls \ {c} : CallOK(d)'
<1> USE DEF StoreInv
<1>1. /\ pc' \in [Calls -> Locations] /\ pc'[c] = location
      /\ \A d \in Calls \ {c} : pc'[d] = pc[d]
  BY DEF Proceed, Goto, TypeOK
<1>2. /\ req' \in [Calls -> Request] /\ req'[c] = request
      /\ \A d \in Calls \ {c} : req'[d] = req[d]
  BY DEF Proceed, TypeOK
<1>3. /\ point' \in [Calls -> Tables \cup {Nil}]
      /\ point'[c] = IF point[c] = Nil /\ request.view # Nil THEN db ELSE point[c]
      /\ \A d \in Calls \ {c} : point'[d] = point[d]
  BY DEF Proceed, TypeOK
<1>4. UNCHANGED <<db, stale>>
  BY DEF Proceed
<1>5. TypeOK'
  BY <1>1, <1>2, <1>3, <1>4 DEF TypeOK
<1>6. \A d \in Calls \ {c} : writer' = d <=> writer = d
  BY NilNoCall
<1>7. \A d \in Calls \ {c} : CallOK(d)'
  BY <1>1, <1>2, <1>3, <1>4, <1>6, OthersKeep
<1> QED BY <1>1, <1>2, <1>3, <1>4, <1>5, <1>7

Results == {"ok", "error", "ErrUserNotFound", "ErrUsernameExists"}

LEMMA Answers ==
  ASSUME TypeOK, NEW c \in Calls, NEW result \in Results, Answer(c, result)
  PROVE  /\ pc' \in [Calls -> Locations] /\ pc'[c] = "done"
         /\ req' \in [Calls -> Request]
         /\ req'[c].op = req[c].op /\ req'[c].result = result
         /\ result = "ok" => req'[c].id = req[c].id /\ req'[c].got = req[c].got
         /\ \A d \in Calls \ {c} : pc'[d] = pc[d] /\ req'[d] = req[d]
<1> DEFINE reply == [NoRequest EXCEPT !.op = req[c].op, !.result = result]
           full == [reply EXCEPT !.id = req[c].id, !.got = req[c].got]
           answer == IF result = "ok" THEN full ELSE reply
<1>1. req[c] \in Request
  BY DEF TypeOK
<1>2. reply \in Request
  BY <1>1, NoRequestType DEF Request, Results
<1>3. full \in Request
  BY <1>1, <1>2 DEF Request
<1>4. reply.op = req[c].op /\ reply.result = result
  BY DEF NoRequest
<1>5. full.op = req[c].op /\ full.result = result /\ full.id = req[c].id /\ full.got = req[c].got
  BY DEF NoRequest
<1>6. req' = [req EXCEPT ![c] = answer]
  BY DEF Answer
<1>7. answer \in Request /\ answer.op = req[c].op /\ answer.result = result
  BY <1>2, <1>3, <1>4, <1>5
<1>8. result = "ok" => answer.id = req[c].id /\ answer.got = req[c].got
  BY <1>5
<1>9. /\ pc' \in [Calls -> Locations] /\ pc'[c] = "done"
      /\ \A d \in Calls \ {c} : pc'[d] = pc[d]
  BY DEF Answer, Goto, TypeOK, Locations
<1> HIDE DEF answer
<1>10. /\ req' \in [Calls -> Request] /\ req'[c] = answer
       /\ \A d \in Calls \ {c} : req'[d] = req[d]
  BY <1>6, <1>7 DEF TypeOK
<1> QED BY <1>7, <1>8, <1>9, <1>10

\* A call that has answered is at the end of its transaction.
LEMMA AnsweredOK ==
  ASSUME NEW c \in Calls, pc'[c] = "done", writer' # c,
         req'[c].result = "ok" /\ req'[c].op \in Readers =>
           req'[c].got = Wanted(req'[c], point'[c]),
         req'[c].op = "ListUsers" => req'[c].result # "ErrUserNotFound"
  PROVE  CallOK(c)'
<1>1. ParamsOK(c)' /\ SnapshotOK(c)'
  BY DEF ParamsOK, SnapshotOK, InFlight
<1>2. WriterOK(c)'
  BY DEF WriterOK
<1>3. ReadOK(c)' /\ IdleOK(c)'
  BY DEF ReadOK, IdleOK
<1> QED BY <1>1, <1>2, <1>3 DEF CallOK

LEMMA RollbackInv ==
  ASSUME StoreInv, NEW c \in Calls, NEW result \in Results, Rollback(c, result),
         result = "ok" /\ req[c].op \in Readers => req[c].got = Wanted(req[c], point[c]),
         result = "ErrUserNotFound" => req[c].op # "ListUsers"
  PROVE  StoreInv' /\ UNCHANGED db
<1> USE DEF StoreInv
<1>1. Answer(c, result) /\ UNCHANGED db
  BY DEF Rollback
<1>2. /\ pc' \in [Calls -> Locations] /\ pc'[c] = "done"
      /\ req' \in [Calls -> Request]
      /\ req'[c].op = req[c].op /\ req'[c].result = result
      /\ result = "ok" => req'[c].id = req[c].id /\ req'[c].got = req[c].got
      /\ \A d \in Calls \ {c} : pc'[d] = pc[d] /\ req'[d] = req[d]
  BY <1>1, Answers
<1>3. /\ point' \in [Calls -> Tables \cup {Nil}]
      /\ result = "ok" => point'[c] = point[c]
      /\ \A d \in Calls \ {c} : point'[d] = point[d]
  BY DEF Rollback, TypeOK
<1>4. stale' \in SUBSET Calls /\ \A d \in Calls \ {c} : d \in stale => d \in stale'
  BY DEF Rollback, TypeOK
<1>5. writer' \in Calls \cup {Nil} /\ writer' # c
  BY NilNoCall DEF Rollback, TypeOK
<1>6. \A d \in Calls \ {c} : writer' = d <=> writer = d
  BY NilNoCall DEF Rollback
<1>7. TypeOK'
  BY <1>1, <1>2, <1>3, <1>4, <1>5 DEF TypeOK
<1>8. \A d \in Calls \ {c} : CallOK(d)'
  BY <1>1, <1>2, <1>3, <1>4, <1>6, OthersKeep
<1>9. req'[c].result = "ok" /\ req'[c].op \in Readers => req'[c].got = Wanted(req'[c], point'[c])
  BY <1>2, <1>3, WantedSame
<1>10. CallOK(c)'
  <2>1. req'[c].op = "ListUsers" => req'[c].result # "ErrUserNotFound"
    BY <1>2
  <2> QED BY <1>2, <1>5, <1>9, <2>1, AnsweredOK
<1> QED BY <1>1, <1>7, <1>8, <1>10

LEMMA CommitInv ==
  ASSUME StoreInv, NEW c \in Calls, NEW tables \in Tables, CommitTables(c, tables),
         writer \in {c, Nil},
         req[c].op \in Readers => req[c].got = Wanted(req[c], tables)
  PROVE  StoreInv' /\ db' = tables
<1> USE DEF StoreInv
<1>1. Answer(c, "ok") /\ db' = tables /\ writer' = Nil
  BY DEF CommitTables
<1>2. /\ pc' \in [Calls -> Locations] /\ pc'[c] = "done"
      /\ req' \in [Calls -> Request]
      /\ req'[c].op = req[c].op /\ req'[c].result = "ok"
      /\ req'[c].id = req[c].id /\ req'[c].got = req[c].got
      /\ \A d \in Calls \ {c} : pc'[d] = pc[d] /\ req'[d] = req[d]
  BY <1>1, Answers DEF Results
<1>3. /\ point' \in [Calls -> Tables \cup {Nil}]
      /\ point'[c] = tables
      /\ \A d \in Calls \ {c} : point'[d] = point[d]
  BY DEF CommitTables, TypeOK
<1>4. /\ stale' \in SUBSET Calls
      /\ \A d \in Calls \ {c} : d \in stale \/ req[d].view # Nil => d \in stale'
  BY DEF CommitTables, TypeOK
<1>5. TypeOK'
  BY <1>1, <1>2, <1>3, <1>4 DEF TypeOK
<1>6. \A d \in Calls \ {c} : writer # d /\ writer' # d
  BY <1>1, NilNoCall
<1>7. \A d \in Calls \ {c} : CallOK(d)'
  BY <1>2, <1>3, <1>4, <1>6, OthersOvertaken
<1>8. req'[c].op \in Readers => req'[c].got = Wanted(req'[c], point'[c])
  BY <1>2, <1>3, WantedSame
<1>9. CallOK(c)'
  <2>1. req'[c].result # "ErrUserNotFound" /\ writer' # c
    BY <1>1, <1>2, NilNoCall
  <2> QED BY <1>2, <1>8, <2>1, AnsweredOK
<1> QED BY <1>1, <1>5, <1>7, <1>9

-----------------------------------------------------------------------------
(* The pool. *)

LEMMA StartInv ==
  ASSUME StoreInv, NEW c \in Calls, NEW op \in Ops, NEW id \in 0..MaxUserID,
         NEW params \in Creates \cup Updates \cup {Nil}, Start(c, op, id, params),
         op = "CreateUser" => params \in Creates,
         op = "UpdateUser" => params \in Updates,
         op \notin {"CreateUser", "ListUsers", "CountUsers"} => id \in Ids
  PROVE  StoreInv' /\ UNCHANGED db
<1> USE DEF StoreInv
<1> DEFINE r == [NoRequest EXCEPT !.op = op, !.id = id, !.params = params]
<1>1. r \in Request
  BY NoRequestType DEF Request
<1>2. /\ r.op = op /\ r.id = id /\ r.params = params
      /\ r.view = Nil /\ r.got = {} /\ r.result = "none"
  BY DEF NoRequest
<1>3. req' = [req EXCEPT ![c] = r]
  BY DEF Start
<1> HIDE DEF r
<1>4. UNCHANGED <<db, writer, stale, point>>
  BY DEF Start
<1>5. /\ pc' \in [Calls -> Locations] /\ pc'[c] = "connect" /\ pc[c] = "idle"
      /\ \A d \in Calls \ {c} : pc'[d] = pc[d]
  BY DEF Start, Goto, TypeOK, Locations
<1>6. /\ req' \in [Calls -> Request] /\ req'[c] = r
      /\ \A d \in Calls \ {c} : req'[d] = req[d]
  BY <1>1, <1>3 DEF TypeOK
<1>7. TypeOK'
  BY <1>4, <1>5, <1>6 DEF TypeOK
<1>8. writer # c /\ point[c] = Nil
  BY <1>5 DEF CallOK, WriterOK, IdleOK
<1>9. ParamsOK(c)'
  BY <1>2, <1>4, <1>5, <1>6, <1>8 DEF ParamsOK, InFlight
<1>10. SnapshotOK(c)'
  BY <1>2, <1>4, <1>5, <1>6, <1>8 DEF SnapshotOK
<1>11. WriterOK(c)' /\ ReadOK(c)' /\ IdleOK(c)'
  BY <1>2, <1>4, <1>5, <1>6, <1>8 DEF WriterOK, ReadOK, IdleOK
<1>12. \A d \in Calls \ {c} : CallOK(d)'
  BY <1>4, <1>5, <1>6, OthersKeep
<1> QED BY <1>4, <1>7, <1>9, <1>10, <1>11, <1>12 DEF CallOK

LEMMA ConnectInv ==
  ASSUME StoreInv, NEW c \in Calls, Connect(c)
  PROVE  StoreInv' /\ UNCHANGED db
<1> USE DEF StoreInv
<1> DEFINE todo == IF req[c].op \in {"GetUser", "UpdateUser"} THEN {req[c].id} ELSE {}
           r == [req[c] EXCEPT !.todo = todo]
           location == FirstStatement(req[c].op)
<1>1. pc[c] = "connect" /\ req[c] \in Request /\ CallOK(c)
  BY DEF Connect, TypeOK
<1>2. /\ req[c].op \in Ops
      /\ req[c].op \notin {"CreateUser", "ListUsers", "CountUsers"} => req[c].id \in Ids
      /\ req[c].view = Nil /\ req[c].got = {} /\ writer # c
  BY <1>1 DEF CallOK, ParamsOK, InFlight
<1>3. point[c] = Nil
  BY <1>1, <1>2 DEF CallOK, SnapshotOK, InFlight
<1>4. todo \in SUBSET Ids
  BY <1>2
<1>5. r \in Request
  BY <1>1, <1>4 DEF Request
<1>6. /\ r.op = req[c].op /\ r.id = req[c].id /\ r.params = req[c].params /\ r.todo = todo
      /\ r.view = Nil /\ r.got = {} /\ r.result = req[c].result
  BY <1>1, <1>2 DEF Request
<1>7. \/ location = "row" /\ r.op \in {"GetUser", "UpdateUser"}
      \/ location = "insert" /\ r.op = "CreateUser"
      \/ location = "select" /\ r.op = "ListUsers"
      \/ location = "single" /\ r.op \notin Readers
  BY <1>6 DEF FirstStatement, Readers
<1>8. location \in Locations
  BY <1>7 DEF Locations
<1>9. Proceed(c, location, r) /\ writer' = writer
  BY DEF Connect
<1>10. location = "row" => r.todo = {r.id} /\ r.op # "ListUsers"
  BY <1>6, <1>7
<1> HIDE DEF todo, r, location
<1>11. /\ TypeOK' /\ UNCHANGED <<db, stale>>
       /\ pc'[c] = location /\ req'[c] = r /\ point'[c] = Nil
       /\ \A d \in Calls \ {c} : CallOK(d)'
  BY <1>3, <1>5, <1>6, <1>8, <1>9, ProceedMoves
<1>12. ParamsOK(c)'
  BY <1>1, <1>2, <1>6, <1>7, <1>9, <1>11 DEF CallOK, ParamsOK, InFlight, Readers
<1>13. SnapshotOK(c)'
  BY <1>6, <1>11 DEF SnapshotOK
<1>14. WriterOK(c)'
  BY <1>2, <1>7, <1>9, <1>11 DEF WriterOK
<1>15. ReadOK(c)' /\ IdleOK(c)'
  BY <1>1, <1>6, <1>7, <1>10, <1>11 DEF CallOK, ReadOK, IdleOK
<1> QED BY <1>11, <1>12, <1>13, <1>14, <1>15 DEF CallOK

-----------------------------------------------------------------------------
(* Reading. *)

LEMMA SelectInv ==
  ASSUME StoreInv, NEW c \in Calls, Select(c)
  PROVE  StoreInv' /\ UNCHANGED db
<1> USE DEF StoreInv
<1> DEFINE ids == {id \in Ids : db.rows[id] # Nil}
           r == [req[c] EXCEPT !.todo = ids, !.view = db]
           location == IF ids = {} THEN "commit" ELSE "row"
<1>1. pc[c] = "select" /\ req[c] \in Request /\ CallOK(c) /\ db \in Tables
  BY DEF Select, TypeOK
<1>2. /\ req[c].op \in Ops /\ req[c].op = "ListUsers"
      /\ req[c].view = Nil /\ req[c].got = {} /\ writer # c
  BY <1>1 DEF CallOK, ParamsOK, InFlight
<1>3. point[c] = Nil /\ db # Nil
  BY <1>1, <1>2, TablesFields DEF CallOK, SnapshotOK, InFlight
<1>4. r \in Request
  BY <1>1 DEF Request
<1>5. /\ r.op = "ListUsers" /\ r.op \in Ops /\ r.todo = ids
      /\ r.view = db /\ r.got = {} /\ r.result = req[c].result
  BY <1>1, <1>2 DEF Request
<1>6. Proceed(c, location, r) /\ writer' = writer
  BY DEF Select
<1>7. location \in Locations /\ location \in {"row", "commit"}
  BY DEF Locations
<1>8. location = "row" => r.todo # {}
  BY <1>5
<1>9. \A id \in r.todo : db.rows[id] # Nil
  BY <1>5
<1>10. {u \in Wanted(r, db) : u.UserID \notin r.todo} = {}
  BY <1>5, UsersAre, UserOfID DEF Wanted
<1>11. location = "commit" => Wanted(r, db) = {}
  BY <1>5, UsersAre DEF Wanted
<1> HIDE DEF ids, r, location
<1>12. /\ TypeOK' /\ UNCHANGED <<db, stale>>
       /\ pc'[c] = location /\ req'[c] = r /\ point'[c] = db
       /\ \A d \in Calls \ {c} : CallOK(d)'
  BY <1>3, <1>4, <1>5, <1>6, <1>7, ProceedMoves
<1>13. ParamsOK(c)'
  BY <1>5, <1>6, <1>7, <1>12 DEF ParamsOK, InFlight, Readers
<1>14. SnapshotOK(c)'
  BY <1>5, <1>12 DEF SnapshotOK
<1>15. WriterOK(c)'
  BY <1>2, <1>5, <1>6, <1>7, <1>12 DEF WriterOK
<1>16. ReadOK(c)'
  <2>1. r.result # "ErrUserNotFound"
    BY <1>1, <1>2, <1>5 DEF CallOK, ReadOK
  <2>2. CASE location = "row"
    BY <1>3, <1>5, <1>8, <1>9, <1>10, <1>12, <2>1, <2>2 DEF ReadOK
  <2>3. CASE location = "commit"
    BY <1>3, <1>5, <1>11, <1>12, <2>1, <2>3 DEF ReadOK
  <2> QED BY <1>7, <2>2, <2>3
<1>17. IdleOK(c)'
  BY <1>7, <1>12 DEF IdleOK
<1> QED BY <1>12, <1>13, <1>14, <1>15, <1>16, <1>17 DEF CallOK

\* Reading changes nothing of what the transaction has written.
LEMMA WritesSame ==
  ASSUME NEW c, db' = db, req'[c].view = req[c].view, req'[c].op = req[c].op,
         req'[c].id = req[c].id, req'[c].params = req[c].params,
         pc'[c] = "roles" <=> pc[c] = "roles",
         pc'[c] = "addRoles" <=> pc[c] = "addRoles"
  PROVE  (Created(c) => Created(c)') /\ (Updated(c) => Updated(c)')
<1>1. RolesWritten(c)' = RolesWritten(c)
  BY DEF RolesWritten
<1>2. ~Taken(req[c].params.Username) => ~Taken(req[c].params.Username)'
  BY DEF Taken
<1>3. Created(c) => Created(c)'
  BY <1>1, <1>2 DEF Created
<1> QED BY <1>1, <1>3 DEF Updated

LEMMA ReadRowInv ==
  ASSUME StoreInv, NEW c \in Calls, ReadRow(c)
  PROVE  StoreInv' /\ UNCHANGED db
<1> USE DEF StoreInv
<1> DEFINE id == Current(c)
           row == View(c).rows[id]
           r == [req[c] EXCEPT !.row = row, !.view = View(c)]
<1>1. pc[c] = "row" /\ req[c] \in Request /\ CallOK(c) /\ db \in Tables
  BY DEF ReadRow, TypeOK
<1>2. id \in req[c].todo /\ id \in Ids
  BY <1>1, RequestFields, LeastIn, CurrentIsLeast DEF CallOK, ReadOK
<1>3. View(c) \in Tables
  BY <1>1, RequestFields DEF View
<1>4. row \in Row \cup {Nil} /\ View(c) # Nil
  BY <1>2, <1>3, TablesFields
<1>5. CASE row = Nil /\ Rollback(c, "ErrUserNotFound")
  <2>1. req[c].op # "ListUsers"
    BY <1>1, <1>2, <1>5 DEF CallOK, ReadOK, View
  <2> QED BY <1>5, <2>1, RollbackInv DEF Results
<1>6. CASE row # Nil /\ Proceed(c, "rowRoles", r) /\ writer' = writer
  <2>1. r \in Request
    BY <1>1, <1>3, <1>4 DEF Request
  <2>2. /\ r.op = req[c].op /\ r.id = req[c].id /\ r.params = req[c].params
        /\ r.todo = req[c].todo /\ r.got = req[c].got /\ r.result = req[c].result
        /\ r.view = View(c) /\ r.row = row
    BY <1>1 DEF Request
  <2> HIDE DEF r
  <2>3. /\ TypeOK' /\ UNCHANGED <<db, stale>>
        /\ pc'[c] = "rowRoles" /\ req'[c] = r
        /\ point'[c] = IF point[c] = Nil THEN db ELSE point[c]
        /\ \A d \in Calls \ {c} : CallOK(d)'
    BY <1>4, <1>6, <2>1, <2>2, ProceedMoves DEF Locations
  <2>4. ParamsOK(c)'
    BY <1>1, <1>6, <2>2, <2>3 DEF CallOK, ParamsOK, InFlight
  <2>5. SnapshotOK(c)'
    BY <1>1, <1>3, <1>4, <1>6, <2>2, <2>3, TablesFields DEF CallOK, SnapshotOK, InFlight, View
  <2>6. WriterOK(c)'
    <3>1. writer = c => View(c) = req[c].view
      BY <1>1 DEF CallOK, WriterOK, View
    <3>2. writer = c => (Created(c) => Created(c)') /\ (Updated(c) => Updated(c)')
      BY <1>1, <2>2, <2>3, <3>1, WritesSame
    <3> QED BY <1>1, <1>4, <1>6, <2>2, <2>3, <3>2 DEF CallOK, WriterOK
  <2>7. ReadOK(c)'
    <3>1. Current(c)' = id
      BY <2>2, <2>3, CurrentIsLeast DEF Current, Least
    <3>2. req[c].view # Nil => View(c) = req[c].view
      BY DEF View
    <3>3. \A t : Wanted(r, t) = Wanted(req[c], t)
      BY <2>2, WantedSame
    <3>4. r.got = {u \in Wanted(r, View(c)) : u.UserID \notin r.todo}
      <4>1. CASE req[c].view # Nil
        BY <1>1, <2>2, <3>2, <3>3, <4>1 DEF CallOK, ReadOK
      <4>2. CASE req[c].view = Nil
        <5>1. r.op # "ListUsers" /\ r.todo = {r.id} /\ r.got = {}
          BY <1>1, <2>2, <4>2 DEF CallOK, ReadOK
        <5> QED BY <5>1 DEF Wanted
      <4> QED BY <4>1, <4>2
    <3> QED BY <1>1, <1>4, <1>6, <2>2, <2>3, <3>1, <3>2, <3>4 DEF CallOK, ReadOK
  <2>8. IdleOK(c)'
    BY <2>3 DEF IdleOK
  <2> QED BY <2>3, <2>4, <2>5, <2>6, <2>7, <2>8 DEF CallOK
<1> QED BY <1>5, <1>6 DEF ReadRow

LEMMA ReadRolesInv ==
  ASSUME StoreInv, NEW c \in Calls, ReadRoles(c)
  PROVE  StoreInv' /\ UNCHANGED db
<1> USE DEF StoreInv
<1> DEFINE old == req[c]
           id == Current(c)
           user == [UserID |-> id, Username |-> old.row.Username,
                    Enabled |-> old.row.Enabled, Roles |-> View(c).roles[id]]
           todo == old.todo \ {id}
           location == IF todo # {} THEN "row"
                       ELSE IF old.op = "UpdateUser" /\ writer # c THEN "update"
                       ELSE "commit"
           r == [old EXCEPT !.got = @ \cup {user}, !.todo = todo, !.row = Nil]
<1>1. pc[c] = "rowRoles" /\ old \in Request /\ CallOK(c)
  BY DEF ReadRoles, TypeOK
<1>2. old.view \in Tables /\ old.view # Nil /\ View(c) = old.view
  BY <1>1, RequestFields DEF CallOK, ReadOK, View
<1>3. id \in old.todo /\ id \in Ids
  BY <1>1, RequestFields, LeastIn, CurrentIsLeast DEF CallOK, ReadOK
<1>4. old.row = old.view.rows[id] /\ old.view.rows[id] # Nil
  BY <1>1 DEF CallOK, ReadOK
<1>5. user = UserOf(old.view, id)
  BY <1>2, <1>4 DEF UserOf
<1>6. user \in User
  BY <1>2, <1>3, <1>4, <1>5, UserOfType
<1>7. todo \in SUBSET Ids
  BY <1>1, RequestFields
<1>8. Proceed(c, location, r) /\ writer' = writer
  BY DEF ReadRoles
<1>9. old.op # "ListUsers" => id = old.id /\ todo = {}
  BY <1>1, <1>3 DEF CallOK, ReadOK
<1> HIDE DEF user, todo
<1>10. r \in Request
  BY <1>1, <1>6, <1>7 DEF Request
<1>11. /\ r.op = old.op /\ r.id = old.id /\ r.params = old.params /\ r.result = old.result
       /\ r.view = old.view /\ r.todo = todo /\ r.got = old.got \cup {user}
  BY <1>1 DEF Request
<1>12. location \in {"row", "update", "commit"} /\ location \in Locations
  BY DEF Locations
<1>13. /\ location = "row" => todo # {} /\ old.op = "ListUsers"
       /\ location = "update" => old.op = "UpdateUser" /\ writer # c /\ todo = {}
       /\ location = "commit" => todo = {} /\ (old.op = "UpdateUser" => writer = c)
  BY <1>9
<1> HIDE DEF r, location
<1>14. /\ TypeOK' /\ UNCHANGED <<db, stale>>
       /\ pc'[c] = location /\ req'[c] = r /\ (writer # c => point'[c] = point[c])
       /\ \A d \in Calls \ {c} : CallOK(d)'
  <2>1. writer # c => point[c] # Nil
    BY <1>1, <1>2 DEF CallOK, SnapshotOK, InFlight
  <2>2. /\ TypeOK' /\ UNCHANGED <<db, stale>>
        /\ pc'[c] = location /\ req'[c] = r
        /\ point'[c] = IF point[c] = Nil /\ r.view # Nil THEN db ELSE point[c]
        /\ \A d \in Calls \ {c} : CallOK(d)'
    BY <1>8, <1>10, <1>12, ProceedMoves
  <2> QED BY <2>1, <2>2
<1>15. old.got = {u \in Wanted(old, old.view) : u.UserID \notin old.todo}
  BY <1>1, <1>2 DEF CallOK, ReadOK
<1>16. r.got = {u \in Wanted(r, r.view) : u.UserID \notin r.todo}
  <2>1. {u \in Wanted(old, old.view) : u.UserID \notin todo} = old.got \cup {user}
    BY <1>3, <1>4, <1>5, <1>9, <1>15, WantedGrows DEF todo
  <2>2. Wanted(r, old.view) = Wanted(old, old.view)
    BY <1>11, WantedSame
  <2> QED BY <1>11, <2>1, <2>2
<1>17. todo = {} => r.got = Wanted(r, r.view)
  BY <1>11, <1>16
<1>18. ParamsOK(c)'
  BY <1>1, <1>8, <1>11, <1>12, <1>13, <1>14 DEF CallOK, ParamsOK, InFlight, Readers
<1>19. SnapshotOK(c)'
  BY <1>1, <1>8, <1>11, <1>14 DEF CallOK, SnapshotOK, InFlight
<1>20. WriterOK(c)'
  <2>1. (Created(c) => Created(c)') /\ (Updated(c) => Updated(c)')
    BY <1>1, <1>11, <1>12, <1>14, WritesSame
  <2> QED BY <1>1, <1>8, <1>11, <1>12, <1>13, <1>14, <2>1 DEF CallOK, WriterOK
<1>21. ReadOK(c)'
  <2>1. location = "row" => \A i \in r.todo : r.view.rows[i] # Nil
    BY <1>1, <1>11, <1>13 DEF CallOK, ReadOK, todo
  <2>2. location = "update" => r.view.rows[r.id] # Nil
    BY <1>4, <1>9, <1>11, <1>13
  <2>3. r.op = "ListUsers" => r.result # "ErrUserNotFound"
    BY <1>1, <1>11 DEF CallOK, ReadOK
  <2> QED BY <1>2, <1>11, <1>12, <1>13, <1>14, <1>16, <1>17, <2>1, <2>2, <2>3 DEF ReadOK
<1>22. IdleOK(c)'
  BY <1>12, <1>14 DEF IdleOK
<1> QED BY <1>14, <1>18, <1>19, <1>20, <1>21, <1>22 DEF CallOK

-----------------------------------------------------------------------------
(* Writing. *)

LEMMA InsertInv ==
  ASSUME StoreInv, NEW c \in Calls, Insert(c)
  PROVE  StoreInv' /\ UNCHANGED db
<1> USE DEF StoreInv
<1> DEFINE p == req[c].params
           id == db.sequence + 1
           row == [Username |-> p.Username, Enabled |-> p.Enabled]
           view == [db EXCEPT !.sequence = id, !.rows[id] = row]
           r == [req[c] EXCEPT !.id = id, !.todo = {id}, !.view = view]
<1>1. pc[c] = "insert" /\ req[c] \in Request /\ CallOK(c) /\ db \in Tables /\ writer = Nil
  BY DEF Insert, TypeOK
<1>2. req[c].op = "CreateUser" /\ p \in Creates /\ req[c].op \in Ops /\ req[c].got = {}
  BY <1>1 DEF CallOK, ParamsOK, InFlight
<1>3. CASE Rollback(c, "ErrUsernameExists")
  BY <1>2, <1>3, RollbackInv DEF Results
<1>4. CASE Rollback(c, "error")
  BY <1>2, <1>4, RollbackInv DEF Results
<1>5. CASE ~Taken(p.Username) /\ id \in Ids /\ Proceed(c, "roles", r) /\ writer' = c
  <2>1. p \in CreateUserParams
    BY <1>2, ConstantsAssumption
  <2>2. p.Username \in Names /\ p.Enabled \in BOOLEAN /\ p.Roles \in SUBSET RoleNames
    BY <2>1 DEF CreateUserParams
  <2>3. row \in Row /\ p.Roles # Nil
    BY <2>2, ConstantsAssumption DEF Row
  <2> HIDE DEF row
  <2>4. id \in 0..MaxUserID
    BY <1>5, ConstantsAssumption DEF Ids
  <2>5. /\ view \in Tables /\ view.sequence = id /\ view.roles = db.roles
        /\ view.rows = [db.rows EXCEPT ![id] = row]
    BY <1>1, <1>5, <2>3, <2>4 DEF Tables
  <2>6. view # Nil
    BY <2>5, TablesFields
  <2> HIDE DEF view
  <2>7. r \in Request
    BY <1>1, <1>5, <2>4, <2>5 DEF Request
  <2>8. /\ r.op = req[c].op /\ r.id = id /\ r.params = p /\ r.todo = {id}
        /\ r.got = {} /\ r.result = req[c].result /\ r.view = view
    BY <1>1, <1>2 DEF Request
  <2> HIDE DEF r
  <2>9. /\ TypeOK' /\ UNCHANGED <<db, stale>>
        /\ pc'[c] = "roles" /\ req'[c] = r
        /\ \A d \in Calls \ {c} : CallOK(d)'
    BY <1>1, <1>5, <2>7, ProceedMoves DEF Locations
  <2>10. ParamsOK(c)'
    BY <1>2, <2>8, <2>9 DEF ParamsOK, InFlight
  <2>11. SnapshotOK(c)'
    BY <1>5 DEF SnapshotOK
  <2>12. RolesWritten(c)' = db.roles
    BY <2>9 DEF RolesWritten
  <2>13. ~Taken(p.Username)'
    BY <1>5, <2>8, <2>9 DEF Taken
  <2>14. Created(c)'
    BY <1>2, <1>5, <2>5, <2>8, <2>9, <2>12, <2>13 DEF Created, row
  <2>15. WriterOK(c)'
    BY <1>2, <1>5, <2>6, <2>8, <2>9, <2>14 DEF WriterOK
  <2>16. ReadOK(c)' /\ IdleOK(c)'
    BY <1>2, <2>8, <2>9 DEF ReadOK, IdleOK
  <2> QED BY <2>9, <2>10, <2>11, <2>15, <2>16 DEF CallOK
<1> QED BY <1>3, <1>4, <1>5 DEF Insert

LEMMA UpdateRowInv ==
  ASSUME StoreInv, NEW c \in Calls, UpdateRow(c)
  PROVE  StoreInv' /\ UNCHANGED db
<1> USE DEF StoreInv
<1> DEFINE old == req[c]
           id == old.id
           current == CHOOSE user \in old.got : TRUE
           enabled == NewEnabled(current.Enabled, old.params.Enabled)
           view == [old.view EXCEPT !.rows[id].Enabled = enabled]
           location == IF old.params.Roles = Nil THEN "row" ELSE "roles"
           r == [old EXCEPT !.todo = {id}, !.got = {}, !.view.rows[id].Enabled = enabled]
<1>1. pc[c] = "update" /\ old \in Request /\ CallOK(c) /\ db \in Tables
  BY DEF UpdateRow, TypeOK
<1>2. old.op = "UpdateUser" /\ old.params \in Updates /\ id \in Ids /\ old.op \in Ops
  BY <1>1 DEF CallOK, ParamsOK, InFlight
<1>3. CASE Rollback(c, "error")
  BY <1>2, <1>3, RollbackInv DEF Results
<1>4. CASE writer = Nil /\ c \notin stale /\ Proceed(c, location, r) /\ writer' = c
  <2>1. old.view = db
    BY <1>1, <1>4, NilNoCall DEF CallOK, SnapshotOK, ReadOK, InFlight
  <2>2. db.rows[id] # Nil /\ old.got = Wanted(old, db)
    BY <1>1, <2>1 DEF CallOK, ReadOK
  <2>3. old.got = {UserOf(db, id)}
    BY <1>2, <2>2, WantedOne
  <2>4. current.Enabled = db.rows[id].Enabled
    <3>1. \E user \in old.got : TRUE
      BY <2>3
    <3>2. current \in old.got
      BY <3>1, Zenon
    <3>3. current = UserOf(db, id)
      BY <2>3, <3>2
    <3> HIDE DEF current
    <3> QED BY <3>3 DEF UserOf
  <2>5. enabled = NewEnabled(db.rows[id].Enabled, old.params.Enabled)
    BY <2>4
  <2>6. db.rows[id] \in Row
    BY <1>1, <1>2, <2>2, TablesFields
  <2>7. enabled \in BOOLEAN
    <3>1. old.params.Enabled \in BOOLEAN \cup {Nil}
      BY <1>2, ConstantsAssumption DEF UpdateUserParams
    <3> QED BY <2>5, <2>6, <3>1, RowFields DEF NewEnabled
  <2> HIDE DEF enabled
  <2>8. [db.rows[id] EXCEPT !.Enabled = enabled] \in Row
    BY <2>6, <2>7 DEF Row
  <2>9. /\ view \in Tables /\ view.sequence = db.sequence /\ view.roles = db.roles
        /\ view.rows = [db.rows EXCEPT ![id].Enabled = enabled]
    BY <1>1, <1>2, <2>1, <2>8 DEF Tables
  <2>10. view # Nil
    BY <2>9, TablesFields
  <2>11. r = [old EXCEPT !.todo = {id}, !.got = {}, !.view = view]
    BY <1>1 DEF Request
  <2> HIDE DEF view, r
  <2>12. r \in Request
    BY <1>1, <1>2, <2>9, <2>11 DEF Request
  <2>13. /\ r.op = old.op /\ r.id = id /\ r.params = old.params /\ r.todo = {id}
         /\ r.got = {} /\ r.result = old.result /\ r.view = view
    BY <1>1, <2>11 DEF Request
  <2>14. /\ location \in {"row", "roles"} /\ location \in Locations
         /\ location = "roles" => old.params.Roles # Nil
         /\ location = "row" => old.params.Roles = Nil
    BY DEF Locations
  <2> HIDE DEF location
  <2>15. /\ TypeOK' /\ UNCHANGED <<db, stale>>
         /\ pc'[c] = location /\ req'[c] = r
         /\ \A d \in Calls \ {c} : CallOK(d)'
    BY <1>4, <2>12, <2>14, ProceedMoves
  <2>16. ParamsOK(c)'
    BY <1>2, <2>13, <2>14, <2>15 DEF ParamsOK, InFlight, Readers
  <2>17. SnapshotOK(c)'
    BY <1>4 DEF SnapshotOK
  <2>18. RolesWritten(c)' = db.roles
    BY <2>13, <2>14, <2>15 DEF RolesWritten
  <2>19. Updated(c)'
    BY <1>2, <2>2, <2>5, <2>9, <2>13, <2>15, <2>18 DEF Updated
  <2>20. WriterOK(c)'
    BY <1>2, <1>4, <2>10, <2>13, <2>14, <2>15, <2>19 DEF WriterOK
  <2>21. ReadOK(c)' /\ IdleOK(c)'
    <3>1. {u \in Wanted(r, r.view) : u.UserID \notin r.todo} = {}
      BY <1>2, <2>13 DEF Wanted
    <3> QED BY <1>2, <2>13, <2>14, <2>15, <3>1 DEF ReadOK, IdleOK
  <2> QED BY <2>15, <2>16, <2>17, <2>20, <2>21 DEF CallOK
<1> QED BY <1>3, <1>4 DEF UpdateRow, TypeOK

\* A statement of replaceRoles, which leaves the user some of the roles given, and
\* the last one all of them.
LEMMA RolesInv ==
  ASSUME StoreInv, NEW c \in Calls, pc[c] \in {"roles", "addRoles"},
         NEW roles, roles \subseteq req[c].params.Roles,
         NEW location \in {"addRoles", "row"},
         location = "row" => roles = req[c].params.Roles,
         Proceed(c, location, [req[c] EXCEPT !.view.roles[req[c].id] = roles]),
         UNCHANGED writer
  PROVE  StoreInv' /\ UNCHANGED db
<1> USE DEF StoreInv
<1> DEFINE old == req[c]
           id == old.id
           view == [old.view EXCEPT !.roles[id] = roles]
           r == [old EXCEPT !.view.roles[id] = roles]
<1>1. old \in Request /\ CallOK(c)
  BY DEF TypeOK
<1>2. writer = c /\ old.view \in Tables /\ (Created(c) \/ Updated(c))
  BY <1>1, RequestFields DEF CallOK, WriterOK
<1>3. old.op \in Ops /\ old.op \in {"CreateUser", "UpdateUser"} /\ id \in Ids
  BY <1>1, <1>2 DEF CallOK, ParamsOK, InFlight, Created, Updated
<1>4. old.params.Roles \in SUBSET RoleNames /\ old.params.Roles # Nil
  <2>1. CASE old.op = "CreateUser"
    <3>1. old.params \in CreateUserParams
      BY <1>1, <2>1, ConstantsAssumption DEF CallOK, ParamsOK, InFlight
    <3> QED BY <3>1, ConstantsAssumption DEF CreateUserParams
  <2>2. CASE old.op = "UpdateUser"
    <3>1. old.params \in UpdateUserParams
      BY <1>1, <2>2, ConstantsAssumption DEF CallOK, ParamsOK, InFlight
    <3>2. old.params.Roles # Nil
      BY <1>1, <2>2 DEF CallOK, ParamsOK
    <3> QED BY <3>1, <3>2 DEF UpdateUserParams
  <2> QED BY <1>3, <2>1, <2>2
<1>5. /\ view \in Tables /\ view.sequence = old.view.sequence /\ view.rows = old.view.rows
      /\ view.roles = [old.view.roles EXCEPT ![id] = roles]
  BY <1>2, <1>3, <1>4 DEF Tables
<1>6. view # Nil
  BY <1>5, TablesFields
<1>7. r = [old EXCEPT !.view = view]
  BY <1>1 DEF Request
<1>8. Proceed(c, location, r) /\ writer' = writer
  OBVIOUS
<1> HIDE DEF view, r
<1>9. r \in Request
  BY <1>1, <1>5, <1>7 DEF Request
<1>10. /\ r.op = old.op /\ r.id = id /\ r.params = old.params /\ r.todo = old.todo
       /\ r.got = old.got /\ r.result = old.result /\ r.view = view
  BY <1>1, <1>7 DEF Request
<1>11. /\ TypeOK' /\ UNCHANGED <<db, stale>>
       /\ pc'[c] = location /\ req'[c] = r
       /\ \A d \in Calls \ {c} : CallOK(d)'
  BY <1>8, <1>9, ProceedMoves DEF Locations
<1>12. ParamsOK(c)'
  BY <1>1, <1>10, <1>11, <1>3 DEF CallOK, ParamsOK, InFlight, Readers
<1>13. SnapshotOK(c)'
  BY <1>2, <1>8 DEF SnapshotOK
<1>14. view.roles = [db.roles EXCEPT ![id] = roles]
  <2>1. \/ old.view.roles = db.roles
        \/ \E some : old.view.roles = [db.roles EXCEPT ![id] = some]
    BY <1>2 DEF Created, Updated, RolesWritten
  <2> QED BY <1>5, <2>1
<1>15. RolesWritten(c)' = [db.roles EXCEPT ![id] = roles]
  BY <1>3, <1>4, <1>10, <1>11, <1>14 DEF RolesWritten
<1>16. ~Taken(old.params.Username) => ~Taken(old.params.Username)'
  BY <1>10, <1>11 DEF Taken
<1>17. (Created(c) => Created(c)') /\ (Updated(c) => Updated(c)')
  <2>1. Created(c) => Created(c)'
    BY <1>5, <1>10, <1>11, <1>14, <1>15, <1>16 DEF Created
  <2>2. Updated(c) => Updated(c)'
    BY <1>5, <1>10, <1>11, <1>14, <1>15 DEF Updated
  <2> QED BY <2>1, <2>2
<1>18. WriterOK(c)'
  <2>1. view.roles[id] = roles
    BY <1>2, <1>3, <1>5, TablesFields
  <2> QED BY <1>2, <1>6, <1>8, <1>10, <1>11, <1>17, <2>1 DEF WriterOK
<1>19. old.todo = {id} /\ old.got = {}
  BY <1>1 DEF CallOK, ReadOK
<1>20. ReadOK(c)' /\ IdleOK(c)'
  <2>1. {u \in Wanted(r, r.view) : u.UserID \notin r.todo} = {}
    BY <1>3, <1>10, <1>19 DEF Wanted
  <2> QED BY <1>3, <1>10, <1>11, <1>19, <2>1 DEF ReadOK, IdleOK
<1> QED BY <1>11, <1>12, <1>13, <1>18, <1>20 DEF CallOK

LEMMA DeleteRolesInv ==
  ASSUME StoreInv, NEW c \in Calls, DeleteRoles(c)
  PROVE  StoreInv' /\ UNCHANGED db
BY RolesInv DEF DeleteRoles

LEMMA InsertRoleInv ==
  ASSUME StoreInv, NEW c \in Calls, InsertRole(c)
  PROVE  StoreInv' /\ UNCHANGED db
<1> DEFINE id == req[c].id
           now == req[c].view.roles[id]
           missing == req[c].params.Roles \ now
<1>1. now \subseteq req[c].params.Roles
  BY DEF InsertRole, StoreInv, CallOK, WriterOK
<1>2. PICK role \in missing :
        Proceed(c, IF missing = {role} THEN "row" ELSE "addRoles",
                [req[c] EXCEPT !.view.roles[id] = now \cup {role}])
  BY DEF InsertRole
<1>3. now \cup {role} \subseteq req[c].params.Roles
  BY <1>1, <1>2
<1>4. missing = {role} => now \cup {role} = req[c].params.Roles
  BY <1>1
<1> QED BY <1>2, <1>3, <1>4, RolesInv DEF InsertRole

LEMMA CommitStep ==
  ASSUME StoreInv, NEW c \in Calls, Commit(c)
  PROVE  /\ StoreInv'
         /\ db' = IF writer = c THEN req[c].view ELSE db
<1> USE DEF StoreInv
<1>1. pc[c] = "commit" /\ req[c] \in Request /\ CallOK(c)
  BY DEF Commit, TypeOK
<1>2. req[c].view \in Tables /\ req[c].got = Wanted(req[c], req[c].view)
  BY <1>1, RequestFields DEF CallOK, ReadOK
<1>3. CASE writer = c /\ CommitTables(c, req[c].view)
  BY <1>2, <1>3, CommitInv
<1>4. CASE writer # c /\ Rollback(c, "ok")
  <2>1. point[c] = req[c].view
    BY <1>1, <1>4 DEF CallOK, SnapshotOK, InFlight
  <2> QED BY <1>2, <1>4, <2>1, RollbackInv DEF Results
<1> QED BY <1>3, <1>4 DEF Commit

-----------------------------------------------------------------------------
(* Single statements, and what may interrupt a call. *)

LEMMA SingleStep ==
  ASSUME StoreInv, NEW c \in Calls, Single(c)
  PROVE  /\ StoreInv'
         /\ \/ db' = db
            \/ /\ req[c].id \in Ids
               /\ db.rows[req[c].id] # Nil
               /\ db' = Deleted(db, req[c].id)
<1> USE DEF StoreInv
<1> DEFINE id == req[c].id
<1>1. pc[c] = "single" /\ CallOK(c) /\ db \in Tables
  BY DEF Single, TypeOK
<1>2. /\ req[c].op \notin Readers /\ req[c].op \in Ops
      /\ req[c].op # "CountUsers" => id \in Ids
  BY <1>1 DEF CallOK, ParamsOK, InFlight, Readers
<1>3. CASE Rollback(c, "ok") \/ Rollback(c, "ErrUserNotFound")
  <2>1. req[c].op # "ListUsers"
    BY <1>2 DEF Readers
  <2> QED BY <1>2, <1>3, <2>1, RollbackInv DEF Results
<1>4. CASE /\ req[c].op # "CountUsers" /\ writer = Nil /\ db.rows[id] # Nil
           /\ CommitTables(c, IF req[c].op = "DeleteUser" THEN Deleted(db, id) ELSE db)
  <2>1. Deleted(db, id) \in Tables
    BY <1>1, <1>2, <1>4 DEF Deleted, Tables
  <2>2. CASE req[c].op = "DeleteUser"
    BY <1>2, <1>4, <2>1, <2>2, CommitInv
  <2>3. CASE req[c].op # "DeleteUser"
    BY <1>1, <1>2, <1>4, <2>3, CommitInv
  <2> QED BY <2>2, <2>3
<1> QED BY <1>3, <1>4 DEF Single

LEMMA FailsInv ==
  ASSUME StoreInv, NEW c \in Calls, Fails(c)
  PROVE  StoreInv' /\ UNCHANGED db
BY RollbackInv DEF Fails, Results

LEMMA ReturnInv ==
  ASSUME StoreInv, NEW c \in Calls, Return(c)
  PROVE  StoreInv' /\ UNCHANGED db
<1> USE DEF StoreInv
<1>1. UNCHANGED <<db, writer, stale>>
  BY DEF Return
<1>2. /\ pc' \in [Calls -> Locations] /\ pc[c] = "done" /\ pc'[c] = "idle"
      /\ \A d \in Calls \ {c} : pc'[d] = pc[d]
  BY DEF Return, Goto, TypeOK, Locations
<1>3. /\ req' \in [Calls -> Request] /\ req'[c] = NoRequest
      /\ \A d \in Calls \ {c} : req'[d] = req[d]
  BY NoRequestType DEF Return, TypeOK
<1>4. /\ point' \in [Calls -> Tables \cup {Nil}] /\ point'[c] = Nil
      /\ \A d \in Calls \ {c} : point'[d] = point[d]
  BY DEF Return, TypeOK
<1>5. TypeOK'
  BY <1>1, <1>2, <1>3, <1>4 DEF TypeOK
<1>6. \A d \in Calls \ {c} : CallOK(d)'
  BY <1>1, <1>2, <1>3, <1>4, OthersKeep
<1>7. writer # c
  BY <1>2 DEF CallOK, WriterOK
<1>8. CallOK(c)'
  BY <1>1, <1>2, <1>3, <1>4, <1>7
  DEF CallOK, ParamsOK, SnapshotOK, WriterOK, ReadOK, IdleOK, InFlight, NoRequest
<1> QED BY <1>1, <1>5, <1>6, <1>8

LEMMA CrashInv ==
  ASSUME StoreInv, Crash
  PROVE  StoreInv' /\ UNCHANGED db
<1> USE DEF StoreInv
<1>1. TypeOK'
  BY NoRequestType DEF Crash, TypeOK, Locations
<1>2. ASSUME NEW c \in Calls PROVE CallOK(c)'
  <2>1. /\ pc'[c] = "idle" /\ req'[c] = NoRequest /\ point'[c] = Nil
        /\ writer' # c
    BY NilNoCall DEF Crash
  <2> QED BY <2>1
      DEF CallOK, ParamsOK, SnapshotOK, WriterOK, ReadOK, IdleOK, InFlight, NoRequest
<1> QED BY <1>1, <1>2 DEF Crash

LEMMA ArriveInv ==
  ASSUME StoreInv, NEW c \in Calls, Arrive(c)
  PROVE  StoreInv' /\ UNCHANGED db
<1>1. 0 \in 0..MaxUserID /\ Ids \subseteq 0..MaxUserID
  BY ConstantsAssumption DEF Ids
<1>2. PICK op \in Ops :
        CASE op = "CreateUser" -> \E params \in Creates : Start(c, op, 0, params)
          [] op = "UpdateUser" -> \E id \in Ids, params \in Updates : Start(c, op, id, params)
          [] op \in {"ListUsers", "CountUsers"} -> Start(c, op, 0, Nil)
          [] OTHER -> \E id \in Ids : Start(c, op, id, Nil)
  BY DEF Arrive
<1>3. CASE op = "CreateUser"
  <2>1. PICK params \in Creates : Start(c, op, 0, params)
    BY <1>2, <1>3
  <2> QED BY <1>1, <1>3, <2>1, StartInv
<1>4. CASE op = "UpdateUser"
  <2>1. PICK id \in Ids, params \in Updates : Start(c, op, id, params)
    BY <1>2, <1>4
  <2> QED BY <1>1, <1>4, <2>1, StartInv
<1>5. CASE op \in {"ListUsers", "CountUsers"}
  <2>1. Start(c, op, 0, Nil)
    BY <1>2, <1>5
  <2> QED BY <1>1, <1>5, <2>1, StartInv
<1>6. CASE op \notin {"CreateUser", "UpdateUser", "ListUsers", "CountUsers"}
  <2>1. PICK id \in Ids : Start(c, op, id, Nil)
    BY <1>2, <1>6
  <2> QED BY <1>1, <1>6, <2>1, StartInv
<1> QED BY <1>3, <1>4, <1>5, <1>6

LEMMA StutterInv == StoreInv /\ UNCHANGED vars => StoreInv'
<1> SUFFICES ASSUME StoreInv, UNCHANGED vars PROVE StoreInv'
  OBVIOUS
<1>1. TypeOK'
  BY DEF StoreInv, TypeOK, vars
<1>2. \A c \in Calls : CallOK(c)'
  BY OthersKeep DEF StoreInv, vars
<1> QED BY <1>1, <1>2 DEF StoreInv

-----------------------------------------------------------------------------
(* The theorems. *)

\* What a step does to the tables as committed: nothing, or all of what one call
\* is for.
TablesStep ==
  \/ db' = db
  \/ \E c \in Calls :
       /\ req[c] \in Request /\ CallOK(c) /\ pc[c] = "commit" /\ writer = c
       /\ db' = req[c].view
  \/ \E id \in Ids : db.rows[id] # Nil /\ db' = Deleted(db, id)

LEMMA StoreStep == StoreInv /\ [Next]_vars => StoreInv' /\ TablesStep
<1> SUFFICES ASSUME StoreInv, [Next]_vars PROVE StoreInv' /\ TablesStep
  OBVIOUS
<1>1. CASE UNCHANGED vars
  BY <1>1, StutterInv DEF vars, TablesStep
<1>2. CASE Crash
  BY <1>2, CrashInv DEF TablesStep
<1>3. ASSUME NEW c \in Calls, Arrive(c) \/ Connect(c) \/ Fails(c) \/ Return(c)
      PROVE  StoreInv' /\ TablesStep
  BY <1>3, ArriveInv, ConnectInv, FailsInv, ReturnInv DEF TablesStep
<1>4. ASSUME NEW c \in Calls, Statement(c)
      PROVE  StoreInv' /\ TablesStep
  <2>1. CASE Commit(c)
    BY <2>1, CommitStep DEF StoreInv, TypeOK, TablesStep, Commit
  <2>2. CASE Single(c)
    BY <2>2, SingleStep DEF TablesStep
  <2>3. CASE Select(c) \/ ReadRow(c) \/ ReadRoles(c)
             \/ Insert(c) \/ UpdateRow(c) \/ DeleteRoles(c) \/ InsertRole(c)
    BY <2>3, SelectInv, ReadRowInv, ReadRolesInv, InsertInv, UpdateRowInv,
       DeleteRolesInv, InsertRoleInv DEF TablesStep
  <2> QED BY <1>4, <2>1, <2>2, <2>3 DEF Statement
<1> QED BY <1>1, <1>2, <1>3, <1>4 DEF Next

LEMMA Invariance == Spec => []StoreInv
BY StoreInit, StoreStep, PTL DEF Spec

\* Calls never all wait for each other, however many there are for however few
\* connections: the one with the write lock is at a statement that waits for
\* nothing, and while nobody has the lock, whoever has a connection gets on.
THEOREM SomebodyReadyHolds == Spec => []SomebodyReady
<1>1. ASSUME StoreInv, NEW c \in Calls, pc[c] # "idle"
      PROVE  \E d \in Calls : Ready(d)
  <2>1. ASSUME NEW d \in Calls, writer = d PROVE Ready(d)
    BY <1>1, <2>1 DEF StoreInv, CallOK, WriterOK, Ready
  <2>2. ASSUME writer = Nil, NEW d \in Calls, pc[d] \notin {"idle", "connect"}
        PROVE  Ready(d)
    BY <2>2 DEF Ready
  <2>3. ASSUME \A d \in Calls : pc[d] \in {"idle", "connect"}
        PROVE  Ready(c)
    <3>1. Connected = {}
      BY <2>3 DEF Connected
    <3>2. Cardinality(Connected) < MaxOpenConns
      BY <3>1, FS_EmptySet, ConstantsAssumption
    <3> QED BY <1>1, <2>3, <3>2 DEF Ready
  <2> QED BY <1>1, <2>1, <2>2, <2>3 DEF StoreInv, TypeOK
<1>2. StoreInv => SomebodyReady
  BY <1>1 DEF SomebodyReady
<1> QED BY <1>2, Invariance, PTL

\* What CreateUser, UpdateUser, GetUser and ListUsers return is what the tables
\* held at one instant, whatever else ran between their statements, and
\* ListUsers does not fail because a user it listed is gone.
THEOREM ReadsOneStateHolds == Spec => []ReadsOneState
<1>1. StoreInv => ReadsOneState
  <2> SUFFICES ASSUME StoreInv PROVE ReadsOneState
    OBVIOUS
  <2>1. ASSUME NEW c \in Calls, pc[c] = "done", req[c].result = "ok", req[c].op \in Readers
        PROVE  req[c].got = Wanted(req[c], point[c])
    BY <2>1 DEF StoreInv, CallOK, ReadOK
  <2>2. \A c \in Calls : req[c].op = "ListUsers" => req[c].result # "ErrUserNotFound"
    BY DEF StoreInv, CallOK, ReadOK
  <2>3. ASSUME NEW c \in Calls, pc[c] = "done", req[c].result = "ok"
        PROVE  CASE req[c].op = "ListUsers" -> req[c].got = UsersOf(point[c])
                 [] req[c].op \in {"GetUser", "CreateUser", "UpdateUser"} ->
                      req[c].got = {u \in UsersOf(point[c]) : u.UserID = req[c].id}
                 [] OTHER -> TRUE
    <3>1. CASE req[c].op = "ListUsers"
      BY <2>1, <2>3, <3>1 DEF Wanted, Readers
    <3>2. CASE req[c].op \in {"GetUser", "CreateUser", "UpdateUser"}
      BY <2>1, <2>3, <3>2 DEF Wanted, Readers
    <3>3. CASE req[c].op \notin Readers
      BY <3>3 DEF Readers
    <3> QED BY <3>1, <3>2, <3>3 DEF Readers
  <2> QED BY <2>2, <2>3 DEF ReadsOneState, StoreInv
<1> QED BY <1>1, Invariance, PTL

-----------------------------------------------------------------------------
(* UserStore implements UserTable. *)

\* A user of UserTable
UserIn(tables, id) ==
  IF tables.rows[id] = Nil THEN Nil
  ELSE [Username |-> tables.rows[id].Username, Enabled |-> tables.rows[id].Enabled,
        Roles |-> tables.roles[id]]

UsersIn(tables) == [id \in Ids |-> UserIn(tables, id)]

LEMMA UserInType ==
  ASSUME NEW t \in Tables, NEW id \in Ids, t.rows[id] # Nil
  PROVE  /\ UserIn(t, id) \in CreateUserParams /\ UserIn(t, id) # Nil
         /\ UserIn(t, id).Username = t.rows[id].Username
         /\ UserIn(t, id).Enabled = t.rows[id].Enabled
         /\ UserIn(t, id).Roles = t.roles[id]
<1>1. t.rows[id] \in Row /\ t.roles[id] \in SUBSET RoleNames
  BY TablesFields
<1>2. t.rows[id].Username \in Names /\ t.rows[id].Enabled \in BOOLEAN
  BY <1>1, RowFields
<1>3. UserIn(t, id) = [Username |-> t.rows[id].Username, Enabled |-> t.rows[id].Enabled,
                       Roles |-> t.roles[id]]
  BY DEF UserIn
<1>4. UserIn(t, id) \in CreateUserParams
  BY <1>1, <1>2, <1>3 DEF CreateUserParams
<1> QED BY <1>3, <1>4, ConstantsAssumption

LEMMA PromiseInit == Init => Promise!Init
BY DEF Init, Promise!Init

LEMMA CreatedPromise ==
  ASSUME StoreInv, db' \in Tables, NEW c \in Calls, req[c] \in Request, pc[c] = "commit",
         ParamsOK(c), Created(c), db' = req[c].view
  PROVE  Promise!Create(req[c].id, req[c].params) /\ req[c].params \in Creates
<1> DEFINE p == req[c].params
           id == req[c].id
<1>0. req[c].op = "CreateUser" /\ p \in Creates /\ id \in Ids
  BY DEF ParamsOK, InFlight, Created
<1>1. p \in CreateUserParams
  BY <1>0, ConstantsAssumption
<1>2. /\ p = [Username |-> p.Username, Enabled |-> p.Enabled, Roles |-> p.Roles]
      /\ p.Username \in Names /\ p.Enabled \in BOOLEAN /\ p.Roles \in SUBSET RoleNames
      /\ p.Roles # Nil
  BY <1>1, ConstantsAssumption DEF CreateUserParams
<1>3. db \in Tables
  BY DEF StoreInv, TypeOK
<1> DEFINE row == [Username |-> p.Username, Enabled |-> p.Enabled]
<1>4. row \in Row /\ row # Nil
  BY <1>2, ConstantsAssumption DEF Row
<1>5. /\ db'.sequence = id /\ id = db.sequence + 1
      /\ db'.rows = [db.rows EXCEPT ![id] = row]
      /\ db'.roles = [db.roles EXCEPT ![id] = p.Roles]
      /\ ~Taken(p.Username)
  BY <1>2 DEF Created, RolesWritten
<1>6. db.rows \in [Ids -> Row \cup {Nil}] /\ db.roles \in [Ids -> SUBSET RoleNames]
  BY <1>3, TablesFields
<1>7. db'.rows[id] = row /\ db'.roles[id] = p.Roles
  BY <1>0, <1>5, <1>6
<1>8. \A i \in Ids \ {id} : db'.rows[i] = db.rows[i] /\ db'.roles[i] = db.roles[i]
  BY <1>0, <1>5, <1>6
<1>9. UserIn(db', id) = p
  BY <1>2, <1>4, <1>7 DEF UserIn
<1> HIDE DEF p, id, row
<1>10. \A i \in Ids \ {id} : UserIn(db', i) = UserIn(db, i)
  BY <1>8 DEF UserIn
<1>11. UsersIn(db') = [UsersIn(db) EXCEPT ![id] = p]
  BY <1>9, <1>10 DEF UsersIn
<1>12. \A other \in Ids :
         UsersIn(db)[other] # Nil => UsersIn(db)[other].Username # p.Username
  BY <1>3, <1>5, UserInType DEF UsersIn, UserIn, Taken
<1> QED BY <1>0, <1>5, <1>11, <1>12 DEF Promise!Create, UsersIn, UserIn, p, id

LEMMA SameParams ==
  ASSUME NEW user \in CreateUserParams, NEW other \in CreateUserParams,
         user.Username = other.Username, user.Enabled = other.Enabled, user.Roles = other.Roles
  PROVE  user = other
BY DEF CreateUserParams

LEMMA UpdatedPromise ==
  ASSUME StoreInv, db' \in Tables, NEW c \in Calls, req[c] \in Request, pc[c] = "commit",
         ParamsOK(c), Updated(c), db' = req[c].view
  PROVE  Promise!Update(req[c].id, req[c].params) /\ req[c].params \in Updates
         /\ req[c].id \in Ids
<1> DEFINE fields == req[c].params
           id == req[c].id
           enabled == NewEnabled(db.rows[id].Enabled, fields.Enabled)
           roles == IF fields.Roles = Nil THEN db.roles[id] ELSE fields.Roles
<1>1. fields \in Updates /\ id \in Ids
  BY DEF ParamsOK, InFlight, Updated
<1>2. db \in Tables
  BY DEF StoreInv, TypeOK
<1>3. /\ db.rows[id] # Nil
      /\ db'.sequence = db.sequence
      /\ db'.rows = [db.rows EXCEPT ![id].Enabled = enabled]
      /\ db'.roles = IF fields.Roles = Nil THEN db.roles
                     ELSE [db.roles EXCEPT ![id] = fields.Roles]
  BY DEF Updated, RolesWritten
<1>4. db.rows \in [Ids -> Row \cup {Nil}] /\ db.roles \in [Ids -> SUBSET RoleNames]
  BY <1>2, TablesFields
<1>5. db.rows[id] \in Row
  BY <1>1, <1>3, <1>4
<1>6. enabled \in BOOLEAN
  <2>1. fields.Enabled \in BOOLEAN \cup {Nil}
    BY <1>1, ConstantsAssumption DEF UpdateUserParams
  <2> QED BY <1>5, <2>1, RowFields DEF NewEnabled
<1>7. enabled = IF fields.Enabled = Nil THEN db.rows[id].Enabled ELSE fields.Enabled
  BY DEF NewEnabled
<1> HIDE DEF enabled
<1>8. /\ db'.rows[id] = [db.rows[id] EXCEPT !.Enabled = enabled]
      /\ db'.roles[id] = roles
  BY <1>1, <1>3, <1>4
<1>9. /\ db'.rows[id] \in Row /\ db'.rows[id] # Nil
      /\ db'.rows[id].Username = db.rows[id].Username /\ db'.rows[id].Enabled = enabled
  BY <1>5, <1>6, <1>8, RowFields DEF Row
<1>10. \A i \in Ids \ {id} : db'.rows[i] = db.rows[i] /\ db'.roles[i] = db.roles[i]
  BY <1>1, <1>3, <1>4
<1>11. /\ UserIn(db, id) \in CreateUserParams /\ UserIn(db, id) # Nil
       /\ UserIn(db, id).Username = db.rows[id].Username
       /\ UserIn(db, id).Enabled = db.rows[id].Enabled
       /\ UserIn(db, id).Roles = db.roles[id]
  BY <1>1, <1>2, <1>3, UserInType
<1>12. /\ UserIn(db', id) \in CreateUserParams
       /\ UserIn(db', id).Username = db.rows[id].Username
       /\ UserIn(db', id).Enabled = enabled
       /\ UserIn(db', id).Roles = roles
  BY <1>1, <1>8, <1>9, UserInType
<1>13. roles \in SUBSET RoleNames
  <2>1. db'.roles[id] \in SUBSET RoleNames
    BY <1>1, TablesFields
  <2> QED BY <1>8, <2>1
<1> HIDE DEF fields, id, roles
<1>14. UserIn(db', id) = [UserIn(db, id) EXCEPT !.Enabled = enabled, !.Roles = roles]
  <2> DEFINE user == [UserIn(db, id) EXCEPT !.Enabled = enabled, !.Roles = roles]
  <2>1. /\ user \in CreateUserParams
        /\ user.Username = UserIn(db, id).Username
        /\ user.Enabled = enabled /\ user.Roles = roles
    BY <1>6, <1>11, <1>13 DEF CreateUserParams
  <2> HIDE DEF user
  <2>2. UserIn(db', id) = user
    BY <1>11, <1>12, <2>1, SameParams
  <2> QED BY <2>2 DEF user
<1>15. \A i \in Ids \ {id} : UserIn(db', i) = UserIn(db, i)
  BY <1>10 DEF UserIn
<1>16. UsersIn(db') = [UsersIn(db) EXCEPT ![id].Enabled = enabled, ![id].Roles = roles]
  BY <1>1, <1>14, <1>15 DEF UsersIn
<1>17. /\ UsersIn(db)[id].Enabled = db.rows[id].Enabled
       /\ UsersIn(db)[id].Roles = db.roles[id] /\ UsersIn(db)[id] # Nil
  BY <1>1, <1>11 DEF UsersIn
<1>18. UsersIn(db') = [UsersIn(db) EXCEPT
         ![id].Enabled = IF fields.Enabled = Nil THEN @ ELSE fields.Enabled,
         ![id].Roles = IF fields.Roles = Nil THEN @ ELSE fields.Roles]
  BY <1>7, <1>16, <1>17 DEF roles
<1> QED BY <1>1, <1>3, <1>17, <1>18 DEF Promise!Update, UsersIn, UserIn, fields, id

LEMMA DeletedPromise ==
  ASSUME StoreInv, NEW id \in Ids, db.rows[id] # Nil, db' = Deleted(db, id)
  PROVE  Promise!Delete(id)
<1>1. db \in Tables
  BY DEF StoreInv, TypeOK
<1>2. db.rows \in [Ids -> Row \cup {Nil}] /\ db.roles \in [Ids -> SUBSET RoleNames]
  BY <1>1, TablesFields
<1>3. /\ db'.sequence = db.sequence
      /\ db'.rows = [db.rows EXCEPT ![id] = Nil]
      /\ db'.roles = [db.roles EXCEPT ![id] = {}]
  BY <1>1 DEF Deleted, Tables
<1>4. UserIn(db', id) = Nil
  BY <1>2, <1>3 DEF UserIn
<1>5. \A i \in Ids \ {id} : UserIn(db', i) = UserIn(db, i)
  BY <1>2, <1>3 DEF UserIn
<1>6. UsersIn(db') = [UsersIn(db) EXCEPT ![id] = Nil]
  BY <1>4, <1>5 DEF UsersIn
<1>7. UsersIn(db)[id] # Nil
  BY <1>1, UserInType DEF UsersIn
<1> QED BY <1>3, <1>6, <1>7 DEF Promise!Delete, UsersIn, UserIn

LEMMA PromiseNext == StoreInv /\ [Next]_vars => [Promise!Next]_(Promise!vars)
<1> SUFFICES ASSUME StoreInv, [Next]_vars PROVE [Promise!Next]_(Promise!vars)
  OBVIOUS
<1>1. TablesStep /\ db' \in Tables
  BY StoreStep DEF StoreInv, TypeOK
<1>2. CASE db' = db
  BY <1>2 DEF Promise!vars
<1>3. CASE \E c \in Calls :
             /\ req[c] \in Request /\ CallOK(c) /\ pc[c] = "commit" /\ writer = c
             /\ db' = req[c].view
  <2>1. PICK c \in Calls : /\ req[c] \in Request /\ CallOK(c) /\ pc[c] = "commit"
                           /\ writer = c /\ db' = req[c].view
    BY <1>3
  <2>2. ParamsOK(c) /\ (Created(c) \/ Updated(c))
    BY <2>1 DEF CallOK, WriterOK
  <2>3. CASE Created(c)
    <3>1. Promise!Create(req[c].id, req[c].params) /\ req[c].params \in Creates
      BY <1>1, <2>1, <2>2, <2>3, CreatedPromise
    <3>2. req[c].id \in Ids
      BY <2>3 DEF Created
    <3> QED BY <3>1, <3>2 DEF Promise!Next, Promise!Create
  <2>4. CASE Updated(c)
    <3>1. Promise!Update(req[c].id, req[c].params) /\ req[c].params \in Updates
          /\ req[c].id \in Ids
      BY <1>1, <2>1, <2>2, <2>4, UpdatedPromise
    <3> QED BY <3>1 DEF Promise!Next, Promise!Update
  <2> QED BY <2>2, <2>3, <2>4
<1>4. CASE \E id \in Ids : db.rows[id] # Nil /\ db' = Deleted(db, id)
  BY <1>4, DeletedPromise DEF Promise!Next
<1> QED BY <1>1, <1>2, <1>3, <1>4 DEF TablesStep

\* The operations of the store, in statements that interleave, fail and die with
\* the process, change rows and roles as UserTable's do, each at one instant.
THEOREM Refinement == Spec => ImplementsUserTable
BY PromiseInit, PromiseNext, Invariance, PTL DEF Spec, ImplementsUserTable, Promise!Spec
=============================================================================
