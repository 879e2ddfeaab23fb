--------------------------- MODULE UserAdminProofs ---------------------------
(***************************************************************************)
(* Proofs about UserAdmin, for every set of calls, names and inputs and    *)
(* every user limit.                                                       *)
(***************************************************************************)
EXTENDS UserAdmin, FiniteSetTheorems, WellFoundedInduction, TLAPS

\* The local variables a call uses at a location have been set by then.
LocalOK(location, r) ==
  /\ location \in {"count", "insert"} => r.input \in CreateInputs
  /\ location \in {"read", "write"} => r.input \in UpdateInputs
  /\ location \in {"read", "write", "delete"} => r.id \in Ids
  /\ location = "write" => r.row \in User

\* A transaction that has not been overtaken would still read the same row.
SnapshotOK ==
  \A c \in Calls : pc[c] = "write" /\ c \notin stale => users[req[c].id] = req[c].row

TypeInv ==
  /\ TypeOK
  /\ \A c \in Calls : LocalOK(pc[c], req[c])
  /\ SnapshotOK
  /\ ~up => \A c \in Calls : pc[c] = "idle"

CallsOK ==
  /\ pc \in [Calls -> Locations]
  /\ req \in [Calls -> Request]
  /\ \A c \in Calls : LocalOK(pc[c], req[c])

\* One call moves to a location with local variables that fit it.
LEMMA CallMoves ==
  ASSUME CallsOK, NEW c \in Calls, NEW location \in Locations, NEW r \in Request,
         LocalOK(location, r),
         pc' = [pc EXCEPT ![c] = location], req' = [req EXCEPT ![c] = r]
  PROVE  CallsOK'
BY DEF CallsOK, LocalOK

LEMMA CallGoes ==
  ASSUME CallsOK, NEW c \in Calls, NEW location \in Locations,
         LocalOK(location, req[c]), Goto(c, location), req' = req
  PROVE  CallsOK'
<1>1. req' = [req EXCEPT ![c] = req[c]] /\ req[c] \in Request
  BY DEF CallsOK
<1> QED BY <1>1, CallMoves DEF Goto

LEMMA NoRequestFits ==
  /\ NoRequest \in Request
  /\ \A op \in {"none", "CreateUser", "UpdateUser", "DeleteUser"}, result \in Results :
       Reply(op, result) \in Request
  /\ \A r : LocalOK("idle", r) /\ LocalOK("reply", r)
<1>1. 0 \in 0..MaxId
  BY ConstantsAssumption
<1> QED BY <1>1 DEF NoRequest, Request, Reply, Results, LocalOK

LEMMA CallAnswers ==
  ASSUME CallsOK, NEW c \in Calls, NEW result \in Results, Answer(c, result)
  PROVE  CallsOK'
<1>1. req' = [req EXCEPT ![c] = Reply(req[c].op, result)]
  BY DEF Answer, CallsOK
<1>2. Reply(req[c].op, result) \in Request
  BY NoRequestFits DEF CallsOK, Request
<1> QED BY <1>1, <1>2, NoRequestFits, CallMoves DEF Answer, Goto, Locations

\* A step of one call that leaves the tables alone, or overtakes the others.
LEMMA SnapshotKept ==
  ASSUME CallsOK, SnapshotOK, NEW c \in Calls, NEW location \in Locations,
         pc' = [pc EXCEPT ![c] = location], \A d \in Calls \ {c} : req'[d] = req[d],
         \/ users' = users /\ stale \subseteq stale' \cup {c}
         \/ Overtake,
         location = "write" => users' = users /\ users[req'[c].id] = req'[c].row
  PROVE  SnapshotOK'
BY DEF SnapshotOK, CallsOK, Overtake

LEMMA TypeInvInit == Init => TypeInv
<1> SUFFICES ASSUME Init PROVE TypeInv
  OBVIOUS
<1>0. NoRequest \in Request /\ 0 \in 0..MaxId
  BY NoRequestFits, ConstantsAssumption
<1>1. TypeOK
  BY <1>0 DEF Init, TypeOK, Locations
<1> QED BY <1>1, NoRequestFits DEF Init, TypeInv, SnapshotOK

LEMMA ErrorsAreResults ==
  /\ \A claims : CreateError(claims) \in Results
  /\ \A path, claims, id, valid : PathError(path, claims, id, valid) \in Results
  /\ \A claims, id, input : UpdateError(claims, id, input) \in Results
  /\ \A claims, id : DeleteError(claims, id) \in Results
<1>1. \A path, claims, id, valid : PathError(path, claims, id, valid) \in Results
  BY DEF PathError, Results
<1>2. \A mask, claims, id, valid : MaskError(mask, claims, id, valid) \in Results
  BY <1>1 DEF MaskError, Results
<1> QED BY <1>1, <1>2 DEF CreateError, UpdateError, DeleteError, Results

LEMMA TypeInvArrive ==
  ASSUME TypeInv, NEW c \in Calls, ArriveAny(c)
  PROVE  TypeInv'
<1>1. ASSUME NEW r \in Request, NEW error \in Results, NEW location \in Locations \ {"write"},
             error = "none" => LocalOK(location, r), Arrive(c, r, error, location)
      PROVE  TypeInv'
  <2>1. r.op \in {"none", "CreateUser", "UpdateUser", "DeleteUser"}
    BY DEF Request
  <2>2. CallsOK'
    BY <1>1, <2>1, NoRequestFits, CallMoves
       DEF Arrive, Goto, TypeInv, TypeOK, CallsOK, Locations
  <2>3. SnapshotOK'
    <3>1. PICK l \in {"reply", location} : pc' = [pc EXCEPT ![c] = l]
      BY <1>1 DEF Arrive, Goto
    <3>2. \A d \in Calls \ {c} : req'[d] = req[d]
      BY <1>1 DEF Arrive, TypeInv, TypeOK
    <3> QED BY <1>1, <3>1, <3>2, SnapshotKept
            DEF Arrive, TypeInv, TypeOK, CallsOK, Locations
  <2> QED BY <1>1, <2>2, <2>3 DEF Arrive, TypeInv, TypeOK, CallsOK
<1>2. \A claims \in tokens \cup {Nil} : claims \in Claims \cup {Nil}
  BY DEF TypeInv, TypeOK
<1>3. 0 \in 0..MaxId /\ \A id \in 0..MaxId : id # 0 => id \in Ids
  BY ConstantsAssumption DEF Ids
<1>4. ASSUME NEW claims \in tokens \cup {Nil}, NEW input \in CreateInputs,
             StartCreate(c, claims, input)
      PROVE  TypeInv'
  <2> DEFINE r == [NoRequest EXCEPT !.op = "CreateUser", !.claims = claims, !.input = input]
  <2>1. r \in Request /\ LocalOK("count", r)
    BY <1>2, <1>3 DEF NoRequest, Request, LocalOK, Results
  <2> QED BY <1>1, <1>4, <2>1, ErrorsAreResults DEF StartCreate, Locations
<1>5. ASSUME NEW claims \in tokens \cup {Nil}, NEW id \in 0..MaxId,
             NEW input \in UpdateInputs, StartUpdate(c, claims, id, input)
      PROVE  TypeInv'
  <2> DEFINE r == [NoRequest EXCEPT !.op = "UpdateUser", !.claims = claims, !.id = id,
                                    !.input = input]
  <2>1. r \in Request
    BY <1>2 DEF NoRequest, Request, Results
  <2>2. UpdateError(claims, id, input) = "none" => LocalOK("read", r)
    BY <1>3 DEF UpdateError, NoRequest, LocalOK
  <2> QED BY <1>1, <1>5, <2>1, <2>2, ErrorsAreResults DEF StartUpdate, Locations
<1>6. ASSUME NEW claims \in tokens \cup {Nil}, NEW id \in 0..MaxId,
             StartDelete(c, claims, id)
      PROVE  TypeInv'
  <2> DEFINE r == [NoRequest EXCEPT !.op = "DeleteUser", !.claims = claims, !.id = id]
  <2>1. r \in Request
    BY <1>2 DEF NoRequest, Request, Results
  <2>2. DeleteError(claims, id) = "none" => LocalOK("delete", r)
    BY <1>3 DEF DeleteError, NoRequest, LocalOK
  <2> QED BY <1>1, <1>6, <2>1, <2>2, ErrorsAreResults DEF StartDelete, Locations
<1> QED BY <1>4, <1>5, <1>6 DEF ArriveAny

\* A call is answered and changes the tables, if at all, in one commit.
LEMMA TypeInvAnswer ==
  ASSUME TypeInv, NEW c \in Calls, pc[c] # "idle", NEW result \in Results, Answer(c, result),
         UNCHANGED <<up, tokens>>,
         \/ UNCHANGED <<users, sequence, stale>>
         \/ /\ users' \in [Ids -> User \cup {Nil}]
            /\ sequence' \in 0..MaxId
            /\ Overtake
  PROVE  TypeInv'
<1> USE DEF TypeInv, TypeOK, CallsOK
<1>1. CallsOK'
  BY CallAnswers
<1>2. pc' = [pc EXCEPT ![c] = "reply"] /\ \A d \in Calls \ {c} : req'[d] = req[d]
  BY DEF Answer, Goto
<1>3. SnapshotOK'
  BY <1>2, SnapshotKept DEF Locations
<1>4. up /\ stale' \in SUBSET Calls
  BY DEF Overtake
<1> QED BY <1>1, <1>3, <1>4

LEMMA TypeInvStep ==
  ASSUME TypeInv, NEW c \in Calls, Step(c)
  PROVE  TypeInv'
<1> USE DEF TypeInv, TypeOK, CallsOK
<1>0. LocalOK(pc[c], req[c]) /\ req[c] \in Request
  OBVIOUS
<1>1. CASE CreateCount(c)
  <2>1. CASE \E e \in Results : Answer(c, e)
    BY <1>1, <2>1, TypeInvAnswer DEF CreateCount
  <2>2. CASE Goto(c, "insert") /\ UNCHANGED req
    <3>1. LocalOK("insert", req[c])
      BY <1>0, <1>1 DEF CreateCount, LocalOK
    <3>2. CallsOK'
      BY <2>2, <3>1, CallGoes DEF Locations
    <3>3. SnapshotOK'
      BY <1>1, <2>2, SnapshotKept DEF CreateCount, Goto, Locations
    <3> QED BY <1>1, <3>2, <3>3 DEF CreateCount
  <2> QED BY <1>1, <2>1, <2>2 DEF CreateCount, Results
<1>2. CASE CreateInsert(c)
  <2> DEFINE row == [Username |-> req[c].input.name, Roles |-> req[c].input.roles,
                     Enabled |-> req[c].input.enabled]
  <2>1. req[c].input \in CreateInput
    BY <1>0, <1>2, ConstantsAssumption DEF CreateInsert, LocalOK
  <2>2. row \in User
    BY <2>1 DEF CreateInput, User
  <2>3. \/ UNCHANGED <<users, sequence, stale>>
        \/ /\ users' \in [Ids -> User \cup {Nil}]
           /\ sequence' \in 0..MaxId
           /\ Overtake
    BY <1>2, <2>2, ConstantsAssumption DEF CreateInsert, NewId
  <2>4. PICK e \in Results : Answer(c, e)
    BY <1>2 DEF CreateInsert, Results
  <2> QED BY <1>2, <2>3, <2>4, TypeInvAnswer DEF CreateInsert
<1>3. CASE UpdateRead(c)
  <2> DEFINE r == [req[c] EXCEPT !.row = users[req[c].id]]
  <2>1. CASE UNCHANGED stale /\ \E e \in Results : Answer(c, e)
    BY <1>3, <2>1, TypeInvAnswer DEF UpdateRead
  <2>2. CASE /\ users[req[c].id] # Nil
             /\ Goto(c, "write")
             /\ req' = [req EXCEPT ![c].row = users[req[c].id]]
             /\ stale' = stale \ {c}
    <3>1. req[c].id \in Ids
      BY <1>0, <1>3 DEF UpdateRead, LocalOK
    <3>2. r \in Request /\ LocalOK("write", r)
      BY <1>0, <1>3, <2>2, <3>1 DEF UpdateRead, Request, LocalOK
    <3>3. CallsOK'
      BY <2>2, <3>2, CallMoves DEF Goto, Locations
    <3>4. users[req'[c].id] = req'[c].row
      BY <1>0, <2>2 DEF Request
    <3>5. SnapshotOK'
      BY <1>3, <2>2, <3>4, SnapshotKept DEF UpdateRead, Goto, Locations
    <3> QED BY <1>3, <2>2, <3>3, <3>5 DEF UpdateRead
  <2> QED BY <1>3, <2>1, <2>2 DEF UpdateRead, Results
<1>4. CASE UpdateWrite(c)
  <2>1. req[c].input \in UpdateInput /\ req[c].row \in User /\ req[c].id \in Ids
    BY <1>0, <1>4, ConstantsAssumption DEF UpdateWrite, LocalOK
  <2>2. c \notin stale => users[req[c].id] \in User
    BY <1>4, <2>1 DEF UpdateWrite, SnapshotOK
  <2>3. \A u \in User : Rewritten(req[c], u) \in User
    BY <2>1 DEF Rewritten, UpdateInput, User
  <2>4. \/ UNCHANGED <<users, stale>>
        \/ users' \in [Ids -> User \cup {Nil}] /\ Overtake
    BY <1>4, <2>2, <2>3 DEF UpdateWrite
  <2>5. PICK e \in Results : Answer(c, e)
    BY <1>4 DEF UpdateWrite, Results
  <2> QED BY <1>4, <2>4, <2>5, TypeInvAnswer DEF UpdateWrite
<1>5. CASE DeleteRow(c)
  <2>1. \/ UNCHANGED <<users, stale>>
        \/ users' \in [Ids -> User \cup {Nil}] /\ Overtake
    BY <1>5 DEF DeleteRow
  <2>2. PICK e \in Results : Answer(c, e)
    BY <1>5 DEF DeleteRow, Results
  <2> QED BY <1>5, <2>1, <2>2, TypeInvAnswer DEF DeleteRow
<1>6. CASE Return(c)
  <2>1. CallsOK'
    BY <1>6, NoRequestFits, CallMoves DEF Return, Goto, Locations
  <2>2. SnapshotOK'
    BY <1>6, SnapshotKept DEF Return, Goto, Locations
  <2> QED BY <1>6, <2>1, <2>2 DEF Return
<1> QED BY <1>1, <1>2, <1>3, <1>4, <1>5, <1>6 DEF Step

LEMMA TypeInvNext == TypeInv /\ [Next]_vars => TypeInv'
<1> SUFFICES ASSUME TypeInv, [Next]_vars PROVE TypeInv'
  OBVIOUS
<1> USE DEF TypeInv, TypeOK
<1>1. CASE UNCHANGED vars
  BY <1>1 DEF vars, SnapshotOK
<1>2. ASSUME NEW id \in Ids, IssueToken(id) PROVE TypeInv'
  <2>1. [UserID |-> id, Username |-> users[id].Username, Roles |-> users[id].Roles] \in Claims
    BY <1>2 DEF IssueToken, UserIds, User, Claims
  <2> QED BY <1>2, <2>1 DEF IssueToken, SnapshotOK
<1>3. ASSUME NEW id \in Ids, UpdateLastLogin(id) PROVE TypeInv'
  BY <1>3 DEF UpdateLastLogin, Overtake, SnapshotOK
<1>4. CASE Boot
  <2>1. [Username |-> BootstrapName, Roles |-> BootstrapRoles, Enabled |-> TRUE] \in User
    BY ConstantsAssumption DEF User
  <2>2. users' \in [Ids -> User \cup {Nil}] /\ sequence' \in 0..MaxId
    BY <1>4, <2>1, ConstantsAssumption DEF Boot, NewId
  <2>3. SnapshotOK'
    BY <1>4 DEF Boot, SnapshotOK
  <2> QED BY <1>4, <2>2, <2>3 DEF Boot
<1>5. CASE Crash
  BY <1>5, NoRequestFits DEF Crash, Locations, SnapshotOK
<1> QED BY <1>1, <1>2, <1>3, <1>4, <1>5, TypeInvArrive, TypeInvStep DEF Next

\* Every variable keeps its type, and every call has the local variables of the
\* place it is at.  A transaction about to write that no commit has overtaken
\* still has the row it read; no call outlives the process.
THEOREM TypeCorrectness == Spec => []TypeInv
BY TypeInvInit, TypeInvNext, PTL DEF Spec

-----------------------------------------------------------------------------
(* Names and ids.                                                          *)

IdsBelowSequence ==
  /\ \A id \in UserIds : id <= sequence
  /\ \A t \in tokens : t.UserID <= sequence

IdentityInv == UniqueUsernames /\ TokenIdentity /\ IdsBelowSequence

LEMMA IdentityInit == Init => IdentityInv
BY DEF Init, IdentityInv, UniqueUsernames, TokenIdentity, IdsBelowSequence, UserIds

\* Accounts disappear or keep their names, and nobody signs a token.
LEMMA IdentityKept ==
  ASSUME TypeInv, IdentityInv, UNCHANGED <<sequence, tokens>>, UserIds' \subseteq UserIds,
         \A id \in UserIds' : users'[id].Username = users[id].Username
  PROVE  IdentityInv'
BY DEF IdentityInv, UniqueUsernames, TokenIdentity, IdsBelowSequence

\* A row is inserted under a new id and a name nobody has.
LEMMA IdentityInsert ==
  ASSUME TypeInv, IdentityInv, NEW row \in User, NewId \in Ids, ~NameTaken(row.Username),
         users' = [users EXCEPT ![NewId] = row], sequence' = NewId, UNCHANGED tokens
  PROVE  IdentityInv'
<1> USE DEF TypeInv, TypeOK
<1>1. UserIds' = UserIds \cup {NewId}
  BY ConstantsAssumption DEF UserIds
<1>2. sequence < NewId /\ sequence \in Int /\ \A id \in Ids : id \in Int
  BY ConstantsAssumption DEF NewId, Ids
<1>3. \A id \in UserIds : id # NewId /\ users'[id] = users[id]
  BY <1>2 DEF IdentityInv, IdsBelowSequence, UserIds
<1>4. \A id \in UserIds : users[id].Username # row.Username
  BY DEF NameTaken
<1>5. UniqueUsernames'
  BY <1>1, <1>3, <1>4 DEF IdentityInv, UniqueUsernames
<1>6. \A t \in tokens : t.UserID \in Int /\ t.UserID <= sequence
  BY <1>2 DEF IdentityInv, IdsBelowSequence, Claims
<1>7. TokenIdentity'
  BY <1>1, <1>2, <1>3, <1>6 DEF IdentityInv, TokenIdentity
<1>8. IdsBelowSequence'
  BY <1>1, <1>2, <1>6 DEF IdentityInv, IdsBelowSequence, UserIds
<1> QED BY <1>5, <1>7, <1>8 DEF IdentityInv

LEMMA IdentityNext == TypeInv /\ IdentityInv /\ [Next]_vars => IdentityInv'
<1> SUFFICES ASSUME TypeInv, IdentityInv, [Next]_vars PROVE IdentityInv'
  OBVIOUS
<1> USE DEF TypeInv, TypeOK
<1>0. UNCHANGED <<users, sequence, tokens>> => IdentityInv'
  BY DEF IdentityInv, UniqueUsernames, TokenIdentity, IdsBelowSequence, UserIds
<1>1. ASSUME NEW c \in Calls, CreateInsert(c) PROVE IdentityInv'
  <2> DEFINE row == [Username |-> req[c].input.name, Roles |-> req[c].input.roles,
                     Enabled |-> req[c].input.enabled]
  <2>1. req[c].input \in CreateInput
    BY <1>1, ConstantsAssumption DEF CreateInsert, LocalOK
  <2>2. row \in User /\ row.Username = req[c].input.name
    BY <2>1 DEF CreateInput, User
  <2>3. NewId <= MaxId => NewId \in Ids
    BY ConstantsAssumption DEF NewId, Ids
  <2> QED BY <1>0, <1>1, <2>2, <2>3, IdentityInsert DEF CreateInsert
<1>2. ASSUME NEW c \in Calls, UpdateWrite(c) PROVE IdentityInv'
  <2>1. CASE UNCHANGED users
    BY <1>0, <1>2, <2>1 DEF UpdateWrite
  <2>2. CASE c \notin stale /\ users' = [users EXCEPT ![req[c].id] = Rewritten(req[c], @)]
    <3>1. req[c].id \in Ids /\ users[req[c].id] \in User
      BY <1>2, <2>2 DEF UpdateWrite, LocalOK, SnapshotOK
    <3>2. /\ \A id \in UserIds' : id \in UserIds /\ users'[id].Username = users[id].Username
      BY <2>2, <3>1, ConstantsAssumption DEF UserIds, Rewritten
    <3> QED BY <1>2, <3>2, IdentityKept DEF UpdateWrite
  <2> QED BY <1>2, <2>1, <2>2 DEF UpdateWrite
<1>3. ASSUME NEW c \in Calls, DeleteRow(c) PROVE IdentityInv'
  <2>1. \A id \in UserIds' : id \in UserIds /\ users'[id].Username = users[id].Username
    BY <1>3 DEF DeleteRow, UserIds
  <2> QED BY <1>3, <2>1, IdentityKept DEF DeleteRow
<1>4. ASSUME NEW c \in Calls, CreateCount(c) \/ UpdateRead(c) \/ Return(c) \/ ArriveAny(c)
      PROVE  IdentityInv'
  BY <1>0, <1>4 DEF CreateCount, UpdateRead, Return, ArriveAny, StartCreate, StartUpdate,
                    StartDelete, Arrive
<1>5. ASSUME NEW id \in Ids, IssueToken(id) PROVE IdentityInv'
  <2> DEFINE t == [UserID |-> id, Username |-> users[id].Username, Roles |-> users[id].Roles]
  <2>1. UserIds' = UserIds /\ users' = users /\ sequence' = sequence /\ id \in UserIds
    BY <1>5 DEF IssueToken, UserIds
  <2>2. tokens' = tokens \cup {t} /\ t.UserID = id /\ t.Username = users[id].Username
    BY <1>5 DEF IssueToken
  <2> QED BY <2>1, <2>2 DEF IdentityInv, UniqueUsernames, TokenIdentity, IdsBelowSequence
<1>6. ASSUME NEW id \in Ids, UpdateLastLogin(id) PROVE IdentityInv'
  BY <1>0, <1>6 DEF UpdateLastLogin
<1>7. CASE Boot
  <2> DEFINE row == [Username |-> BootstrapName, Roles |-> BootstrapRoles, Enabled |-> TRUE]
  <2>1. row \in User
    BY ConstantsAssumption DEF User
  <2>2. NewId <= MaxId => NewId \in Ids
    BY ConstantsAssumption DEF NewId, Ids
  <2>3. UserIds = {} => ~NameTaken(row.Username)
    BY DEF NameTaken
  <2> QED BY <1>0, <1>7, <2>1, <2>2, <2>3, IdentityInsert DEF Boot
<1>8. CASE Crash
  BY <1>0, <1>8 DEF Crash
<1>9. CASE UNCHANGED vars
  BY <1>0, <1>9 DEF vars
<1> QED BY <1>1, <1>2, <1>3, <1>4, <1>5, <1>6, <1>7, <1>8, <1>9 DEF Next, Step

\* An access token never comes to speak for another account.
THEOREM TokenIdentityHolds == Spec => []TokenIdentity
<1>1. IdentityInv => TokenIdentity
  BY DEF IdentityInv
<1> QED BY <1>1, TypeInvInit, TypeInvNext, IdentityInit, IdentityNext, PTL DEF Spec

\* Usernames stay unique.
THEOREM UniqueUsernamesHolds == Spec => []UniqueUsernames
<1>1. IdentityInv => UniqueUsernames
  BY DEF IdentityInv
<1> QED BY <1>1, TypeInvInit, TypeInvNext, IdentityInit, IdentityNext, PTL DEF Spec

-----------------------------------------------------------------------------
(* The user limit.                                                         *)

\* Calls that have passed the check and not yet inserted.
Inserting == {c \in Calls : pc[c] = "insert"}

\* Each of them may still add a user.
LimitInv ==
  MaxUsers > 0 =>
    CountUsers + Cardinality(Inserting) <= MaxUsers - 1 + Cardinality(Calls)

LEMMA Finite ==
  /\ IsFiniteSet(Ids) /\ IsFiniteSet(UserIds) /\ IsFiniteSet(UserIds')
  /\ IsFiniteSet(Inserting) /\ IsFiniteSet(Inserting')
  /\ Cardinality(Inserting) <= Cardinality(Calls)
  /\ Cardinality(Inserting') <= Cardinality(Calls)
  /\ Cardinality(Calls) \in Nat \ {0}
  /\ Cardinality(Inserting) \in Nat /\ Cardinality(Inserting') \in Nat
  /\ CountUsers \in Nat /\ CountUsers' \in Nat
<1>1. IsFiniteSet(Ids)
  BY FS_Interval, ConstantsAssumption DEF Ids
<1>2. UserIds \subseteq Ids /\ UserIds' \subseteq Ids
  BY DEF UserIds
<1>3. Inserting \subseteq Calls /\ Inserting' \subseteq Calls
  BY DEF Inserting
<1>4. IsFiniteSet(UserIds) /\ IsFiniteSet(UserIds')
  BY <1>1, <1>2, FS_Subset
<1>5. /\ IsFiniteSet(Inserting) /\ IsFiniteSet(Inserting')
      /\ Cardinality(Inserting) <= Cardinality(Calls)
      /\ Cardinality(Inserting') <= Cardinality(Calls)
  BY <1>3, FS_Subset, ConstantsAssumption
<1>6. Cardinality(Calls) \in Nat \ {0}
  BY FS_CardinalityType, FS_EmptySet, ConstantsAssumption
<1> QED BY <1>1, <1>4, <1>5, <1>6, FS_CardinalityType DEF CountUsers

\* A call passes the check only below the limit; an insertion uses up one pass.
LEMMA LimitNext == TypeInv /\ LimitInv /\ [Next]_vars => LimitInv'
<1> SUFFICES ASSUME TypeInv, LimitInv, [Next]_vars, MaxUsers > 0
             PROVE  CountUsers' + Cardinality(Inserting') <= MaxUsers - 1 + Cardinality(Calls)
  BY DEF LimitInv
<1> USE DEF TypeInv, TypeOK
<1>0. MaxUsers \in Nat
  BY ConstantsAssumption
<1>1. ASSUME UserIds' \subseteq UserIds, Inserting' \subseteq Inserting
      PROVE  CountUsers' + Cardinality(Inserting') <= MaxUsers - 1 + Cardinality(Calls)
  <2>1. CountUsers' <= CountUsers /\ Cardinality(Inserting') <= Cardinality(Inserting)
    BY <1>1, Finite, FS_Subset DEF CountUsers
  <2> QED BY <1>0, <2>1, Finite DEF LimitInv
<1>2. ASSUME UserIds' \subseteq UserIds, ~LimitReached
      PROVE  CountUsers' + Cardinality(Inserting') <= MaxUsers - 1 + Cardinality(Calls)
  <2>1. CountUsers' <= CountUsers
    BY <1>2, Finite, FS_Subset DEF CountUsers
  <2>2. CountUsers <= MaxUsers - 1
    BY <1>0, <1>2, Finite DEF LimitReached
  <2> QED BY <1>0, <2>1, <2>2, Finite
<1>3. ASSUME NEW c \in Calls, pc[c] = "insert", Goto(c, "reply"),
             UserIds' \subseteq UserIds \cup {NewId}
      PROVE  CountUsers' + Cardinality(Inserting') <= MaxUsers - 1 + Cardinality(Calls)
  <2>1. c \in Inserting /\ Inserting' = Inserting \ {c}
    BY <1>3 DEF Inserting, Goto
  <2>2. Cardinality(Inserting') = Cardinality(Inserting) - 1
    BY <2>1, Finite, FS_RemoveElement
  <2>3. IsFiniteSet(UserIds \cup {NewId}) /\ Cardinality(UserIds \cup {NewId}) <= CountUsers + 1
    <3>1. /\ IsFiniteSet(UserIds \cup {NewId})
          /\ Cardinality(UserIds \cup {NewId}) =
               IF NewId \in UserIds THEN Cardinality(UserIds) ELSE Cardinality(UserIds) + 1
      <4>1. IsFiniteSet(UserIds)
        BY Finite
      <4> HIDE DEF TypeInv, TypeOK
      <4> QED BY ONLY <4>1, FS_AddElement
    <3> QED BY <3>1, Finite DEF CountUsers
  <2>4. CountUsers' <= Cardinality(UserIds \cup {NewId})
    BY <1>3, <2>3, FS_Subset DEF CountUsers
  <2>5. Cardinality(UserIds \cup {NewId}) \in Nat
    BY <2>3, FS_CardinalityType
  <2> QED BY <1>0, <2>2, <2>3, <2>4, <2>5, Finite DEF LimitInv
<1>4. ASSUME NEW c \in Calls, Step(c) \/ ArriveAny(c)
      PROVE  CountUsers' + Cardinality(Inserting') <= MaxUsers - 1 + Cardinality(Calls)
  <2>1. CASE CreateCount(c)
    <3>1. UserIds' = UserIds
      BY <2>1 DEF CreateCount, UserIds
    <3>2. LimitReached => Inserting' \subseteq Inserting
      BY <2>1 DEF CreateCount, Answer, Goto, Inserting
    <3> QED BY <1>1, <1>2, <3>1, <3>2
  <2>2. CASE CreateInsert(c)
    <3>1. pc[c] = "insert" /\ Goto(c, "reply")
      BY <2>2 DEF CreateInsert, Answer
    <3>2. UserIds' \subseteq UserIds \cup {NewId}
      BY <2>2 DEF CreateInsert, UserIds
    <3> QED BY <1>3, <3>1, <3>2
  <2>3. CASE UpdateRead(c) \/ UpdateWrite(c) \/ DeleteRow(c) \/ Return(c) \/ ArriveAny(c)
    <3>1. UserIds' \subseteq UserIds
      <4>1. CASE UpdateWrite(c)
        <5>1. CASE UNCHANGED users
          BY <5>1 DEF UserIds
        <5>2. CASE c \notin stale /\ users' = [users EXCEPT ![req[c].id] = Rewritten(req[c], @)]
          <6>1. req[c].id \in Ids /\ users[req[c].id] \in User
            BY <4>1, <5>2 DEF UpdateWrite, LocalOK, SnapshotOK
          <6> QED BY <5>2, <6>1, ConstantsAssumption DEF UserIds
        <5> QED BY <4>1, <5>1, <5>2 DEF UpdateWrite
      <4>2. CASE DeleteRow(c)
        BY <4>2 DEF DeleteRow, UserIds
      <4>3. CASE UpdateRead(c) \/ Return(c) \/ ArriveAny(c)
        BY <4>3 DEF UpdateRead, Return, ArriveAny, StartCreate, StartUpdate, StartDelete,
                    Arrive, UserIds
      <4> QED BY <2>3, <4>1, <4>2, <4>3
    <3>2. PICK location \in {"count", "read", "write", "delete", "reply", "idle"} :
              pc' = [pc EXCEPT ![c] = location] \/ pc' = pc
      <4>1. CASE UpdateRead(c) \/ UpdateWrite(c) \/ DeleteRow(c) \/ Return(c)
        BY <4>1 DEF UpdateRead, UpdateWrite, DeleteRow, Return, Answer, Goto
      <4>2. CASE ArriveAny(c)
        BY <4>2 DEF ArriveAny, StartCreate, StartUpdate, StartDelete, Arrive, Answer, Goto
      <4> QED BY <2>3, <4>1, <4>2
    <3>3. Inserting' \subseteq Inserting
      BY <3>2 DEF Inserting
    <3> QED BY <1>1, <3>1, <3>3
  <2> QED BY <1>4, <2>1, <2>2, <2>3 DEF Step
<1>5. CASE Boot
  <2>1. Inserting' = {}
    BY <1>5 DEF Boot, Inserting
  <2>2. CASE UserIds = {} /\ users' # users
    <3>1. UserIds' \subseteq {NewId}
      BY <1>5, <2>2 DEF Boot, UserIds
    <3>2. CountUsers' <= 1
      <4>1. IsFiniteSet({NewId}) /\ Cardinality({NewId}) = 1
        BY FS_Singleton
      <4>2. Cardinality(UserIds') <= Cardinality({NewId})
        BY <3>1, <4>1, FS_Subset
      <4> QED BY <4>1, <4>2 DEF CountUsers
    <3>3. Cardinality(Inserting') = 0
      BY <2>1, FS_EmptySet
    <3> QED BY <1>0, <3>2, <3>3, Finite
  <2>3. CASE UNCHANGED users
    BY <1>1, <2>1, <2>3 DEF UserIds
  <2> QED BY <1>5, <2>2, <2>3 DEF Boot
<1>6. CASE (\E id \in Ids : IssueToken(id) \/ UpdateLastLogin(id)) \/ Crash \/ UNCHANGED vars
  <2>1. UserIds' \subseteq UserIds /\ Inserting' \subseteq Inserting
    BY <1>6 DEF IssueToken, UpdateLastLogin, Crash, vars, UserIds, Inserting
  <2> QED BY <1>1, <2>1
<1> QED BY <1>4, <1>5, <1>6 DEF Next

\* However many creations race, each call in flight adds one user at most to
\* those the limit lets in.
THEOREM CountBoundHolds == Spec => []CountBound
<1>1. Init => LimitInv
  <2> SUFFICES ASSUME Init PROVE LimitInv
    OBVIOUS
  <2>1. UserIds = {} /\ Inserting = {}
    BY DEF Init, UserIds, Inserting
  <2> QED BY <2>1, FS_EmptySet, Finite, ConstantsAssumption DEF LimitInv, CountUsers
<1>2. LimitInv => CountBound
  BY Finite, ConstantsAssumption DEF LimitInv, CountBound
<1> QED BY <1>1, <1>2, TypeInvInit, TypeInvNext, LimitNext, PTL DEF Spec

-----------------------------------------------------------------------------
(* Who may change an account, and what an update leaves alone.             *)

LEMMA Least ==
  ASSUME NEW S \in SUBSET Nat, S # {}
  PROVE  \E m \in S : \A n \in S : m <= n
<1>1. PICK m \in S : \A n \in S : ~(<<n, m>> \in OpToRel(<, Nat))
  BY NatLessThanWellFounded, WFMin
<1>2. \A n \in S : ~(n < m)
  BY <1>1 DEF OpToRel
<1> QED BY <1>2

\* A mask without an error has none at any of its paths.
LEMMA MaskPathsPass ==
  ASSUME NEW mask \in Seq(STRING), NEW claims, NEW id, NEW valid,
         MaskError(mask, claims, id, valid) = "none"
  PROVE  \A path \in Paths(mask) : PathError(path, claims, id, valid) = "none"
<1> DEFINE failing == {i \in DOMAIN mask : PathError(mask[i], claims, id, valid) # "none"}
<1>1. ASSUME failing # {} PROVE FALSE
  <2>1. failing \in SUBSET Nat
    OBVIOUS
  <2>2. \E i \in failing : \A j \in failing : i <= j
    BY <1>1, <2>1, Least
  <2>3. (CHOOSE i \in failing : \A j \in failing : i <= j) \in failing
    BY <2>2
  <2>4. PathError(mask[CHOOSE i \in failing : \A j \in failing : i <= j], claims, id, valid)
          # "none"
    BY <2>3
  <2>5. mask # <<>>
    BY <1>1
  <2> QED BY <1>1, <2>4, <2>5 DEF MaskError
<1> QED BY <1>1 DEF Paths

\* A call that got past its checks presents a token with the permission, of
\* another account where its own is out of bounds.
AuthorisedOK(location, r) ==
  /\ location \notin {"idle", "reply"} => r.claims \in tokens
  /\ location \in {"count", "insert"} => Has(r.claims, "user.create")
  /\ location \in {"read", "write"} /\ {"roles", "enabled"} \cap Paths(r.input.mask) # {} =>
       r.claims.UserID # r.id /\ Has(r.claims, "user.update")
  /\ location = "delete" => r.claims.UserID # r.id /\ Has(r.claims, "user.delete")

AuthorisedInv == \A c \in Calls : AuthorisedOK(pc[c], req[c])

LEMMA AuthorisedInit == Init => AuthorisedInv
BY DEF Init, AuthorisedInv, AuthorisedOK

\* One call moves; tokens are only added.
LEMMA AuthorisedMoves ==
  ASSUME TypeInv, AuthorisedInv, NEW c \in Calls, NEW location, NEW r,
         AuthorisedOK(location, r), tokens \subseteq tokens',
         pc' = [pc EXCEPT ![c] = location], req' = [req EXCEPT ![c] = r]
  PROVE  AuthorisedInv'
<1>1. \A d \in Calls : AuthorisedOK(pc'[d], req'[d])
  BY DEF AuthorisedInv, TypeInv, TypeOK
<1> QED BY <1>1 DEF AuthorisedInv, AuthorisedOK

LEMMA AuthorisedAnswers ==
  ASSUME TypeInv, AuthorisedInv, NEW c \in Calls, NEW result, Answer(c, result), UNCHANGED tokens
  PROVE  AuthorisedInv'
<1>1. req' = [req EXCEPT ![c] = Reply(req[c].op, result)] /\ pc' = [pc EXCEPT ![c] = "reply"]
  BY DEF Answer, Goto, TypeInv, TypeOK
<1>2. AuthorisedOK("reply", Reply(req[c].op, result))
  BY DEF AuthorisedOK
<1> QED BY <1>1, <1>2, AuthorisedMoves

LEMMA AuthorisedArrive ==
  ASSUME TypeInv, AuthorisedInv, NEW c \in Calls, ArriveAny(c)
  PROVE  AuthorisedInv'
<1>1. ASSUME NEW r, NEW error, NEW location, Arrive(c, r, error, location),
             error = "none" => AuthorisedOK(location, r)
      PROVE  AuthorisedInv'
  <2>1. AuthorisedOK("reply", Reply(r.op, error))
    BY DEF AuthorisedOK
  <2> QED BY <1>1, <2>1, AuthorisedMoves DEF Arrive, Goto
<1>2. ASSUME NEW claims \in tokens \cup {Nil}, NEW input \in CreateInputs,
             StartCreate(c, claims, input)
      PROVE  AuthorisedInv'
  <2> DEFINE r == [NoRequest EXCEPT !.op = "CreateUser", !.claims = claims, !.input = input]
  <2>1. r.claims = claims
    BY DEF NoRequest
  <2>2. CreateError(claims) = "none" => AuthorisedOK("count", r)
    BY <2>1 DEF CreateError, AuthorisedOK
  <2> QED BY <1>1, <1>2, <2>2 DEF StartCreate
<1>3. ASSUME NEW claims \in tokens \cup {Nil}, NEW id \in 0..MaxId,
             NEW input \in UpdateInputs, StartUpdate(c, claims, id, input)
      PROVE  AuthorisedInv'
  <2> DEFINE r == [NoRequest EXCEPT !.op = "UpdateUser", !.claims = claims, !.id = id,
                                    !.input = input]
  <2>1. r.claims = claims /\ r.id = id /\ r.input = input
    BY DEF NoRequest
  <2>2. input.mask \in Seq(STRING)
    BY ConstantsAssumption DEF UpdateInput
  <2>3. ASSUME UpdateError(claims, id, input) = "none" PROVE AuthorisedOK("read", r)
    <3>1. claims \in tokens /\ MaskError(input.mask, claims, id, input.valid) = "none"
      BY <2>3 DEF UpdateError
    <3>2. \A path \in Paths(input.mask) : PathError(path, claims, id, input.valid) = "none"
      BY <2>2, <3>1, MaskPathsPass
    <3>3. {"roles", "enabled"} \cap Paths(input.mask) # {} =>
            claims.UserID # id /\ Has(claims, "user.update")
      BY <3>2 DEF PathError
    <3> QED BY <2>1, <3>1, <3>3 DEF AuthorisedOK
  <2> QED BY <1>1, <1>3, <2>3 DEF StartUpdate
<1>4. ASSUME NEW claims \in tokens \cup {Nil}, NEW id \in 0..MaxId, StartDelete(c, claims, id)
      PROVE  AuthorisedInv'
  <2> DEFINE r == [NoRequest EXCEPT !.op = "DeleteUser", !.claims = claims, !.id = id]
  <2>1. r.claims = claims /\ r.id = id
    BY DEF NoRequest
  <2>2. DeleteError(claims, id) = "none" => AuthorisedOK("delete", r)
    BY <2>1 DEF DeleteError, AuthorisedOK
  <2> QED BY <1>1, <1>4, <2>2 DEF StartDelete
<1> QED BY <1>2, <1>3, <1>4 DEF ArriveAny

LEMMA AuthorisedStep ==
  ASSUME TypeInv, AuthorisedInv, NEW c \in Calls, Step(c)
  PROVE  AuthorisedInv'
<1>0. AuthorisedOK(pc[c], req[c]) /\ req[c] \in Request /\ req = [req EXCEPT ![c] = req[c]]
  BY DEF AuthorisedInv, TypeInv, TypeOK
<1>1. UNCHANGED tokens
  BY DEF Step, CreateCount, CreateInsert, UpdateRead, UpdateWrite, DeleteRow, Return
<1>2. ASSUME NEW result, Answer(c, result) PROVE AuthorisedInv'
  BY <1>1, <1>2, AuthorisedAnswers
<1>3. CASE CreateCount(c)
  <2>1. CASE Goto(c, "insert") /\ UNCHANGED req
    <3>1. AuthorisedOK("insert", req[c])
      BY <1>0, <1>3 DEF CreateCount, AuthorisedOK
    <3> QED BY <1>0, <1>1, <2>1, <3>1, AuthorisedMoves DEF Goto
  <2> QED BY <1>2, <1>3, <2>1 DEF CreateCount
<1>4. CASE UpdateRead(c)
  <2> DEFINE r == [req[c] EXCEPT !.row = users[req[c].id]]
  <2>1. CASE Goto(c, "write") /\ req' = [req EXCEPT ![c] = r]
    <3>1. r.claims = req[c].claims /\ r.id = req[c].id /\ r.input = req[c].input
      BY <1>0 DEF Request
    <3>2. AuthorisedOK("write", r)
      BY <1>0, <1>4, <3>1 DEF UpdateRead, AuthorisedOK
    <3> QED BY <1>1, <2>1, <3>2, AuthorisedMoves DEF Goto
  <2> QED BY <1>2, <1>4, <2>1 DEF UpdateRead
<1>5. CASE Return(c)
  <2>1. AuthorisedOK("idle", NoRequest)
    BY DEF AuthorisedOK
  <2> QED BY <1>1, <1>5, <2>1, AuthorisedMoves DEF Return, Goto
<1> QED BY <1>2, <1>3, <1>4, <1>5 DEF Step, CreateInsert, UpdateWrite, DeleteRow

LEMMA AuthorisedNext == TypeInv /\ AuthorisedInv /\ [Next]_vars => AuthorisedInv'
<1> SUFFICES ASSUME TypeInv, AuthorisedInv, [Next]_vars PROVE AuthorisedInv'
  OBVIOUS
<1>1. CASE UNCHANGED vars \/ Boot \/ \E id \in Ids : IssueToken(id) \/ UpdateLastLogin(id)
  <2>1. UNCHANGED <<pc, req>> /\ tokens \subseteq tokens'
    BY <1>1 DEF vars, Boot, IssueToken, UpdateLastLogin
  <2> QED BY <2>1 DEF AuthorisedInv, AuthorisedOK
<1>2. CASE Crash
  BY <1>2 DEF Crash, AuthorisedInv, AuthorisedOK
<1> QED BY <1>1, <1>2, AuthorisedArrive, AuthorisedStep DEF Next

\* Existing accounts change in the write of an update or in a deletion.
LEMMA ChangedBy ==
  ASSUME TypeInv, IdentityInv, [Next]_vars, NEW id \in UserIds,
         id \notin UserIds' \/ users'[id] # users[id]
  PROVE  \E c \in Calls : /\ UpdateWrite(c) \/ DeleteRow(c)
                          /\ pc[c] \in {"write", "delete"} /\ pc'[c] = "reply"
                          /\ req[c].id = id
<1> USE DEF TypeInv, TypeOK
<1>0. users' # users /\ id \in Ids /\ users[id] # Nil /\ NewId # id
  <2>1. id <= sequence /\ id \in Int /\ sequence \in Int
    BY ConstantsAssumption DEF IdentityInv, IdsBelowSequence, UserIds, Ids
  <2> QED BY <2>1 DEF UserIds, NewId
<1>1. ASSUME NEW c \in Calls, CreateInsert(c) PROVE FALSE
  <2>1. users'[id] = users[id]
    BY <1>0, <1>1 DEF CreateInsert
  <2> QED BY <1>0, <2>1 DEF UserIds
<1>2. CASE Boot
  BY <1>0, <1>2 DEF Boot
<1>3. ASSUME NEW c \in Calls, UpdateWrite(c) \/ DeleteRow(c)
      PROVE  /\ pc[c] \in {"write", "delete"} /\ pc'[c] = "reply"
             /\ req[c].id = id
  <2>1. pc[c] \in {"write", "delete"} /\ pc'[c] = "reply"
    BY <1>3 DEF UpdateWrite, DeleteRow, Answer, Goto
  <2>2. req[c].id # id => users'[id] = users[id]
    BY <1>0, <1>3 DEF UpdateWrite, DeleteRow
  <2> QED BY <1>0, <2>1, <2>2 DEF UserIds
<1>4. ASSUME NEW c \in Calls, ArriveAny(c) \/ CreateCount(c) \/ UpdateRead(c) \/ Return(c)
      PROVE  users' = users
  BY <1>4 DEF ArriveAny, StartCreate, StartUpdate, StartDelete, Arrive, CreateCount, UpdateRead,
              Return
<1>5. CASE UNCHANGED vars \/ Crash \/ \E i \in Ids : IssueToken(i) \/ UpdateLastLogin(i)
  BY <1>0, <1>5 DEF vars, Crash, IssueToken, UpdateLastLogin
<1> HIDE DEF TypeInv, TypeOK
<1> QED BY <1>0, <1>1, <1>2, <1>3, <1>4, <1>5 DEF Next, Step

\* The write of an update changes the columns of its mask.
LEMMA WriteChanges ==
  ASSUME TypeInv, NEW c \in Calls, UpdateWrite(c), users'[req[c].id] # users[req[c].id]
  PROVE  LET id == req[c].id
             paths == Paths(req[c].input.mask)
         IN /\ users'[id] \in User
            /\ users'[id].Enabled # users[id].Enabled => "enabled" \in paths
            /\ users'[id].Roles # users[id].Roles => "roles" \in paths
            /\ "enabled" \in paths \/ "roles" \in paths
<1> USE DEF TypeInv, TypeOK
<1> DEFINE id == req[c].id
           new == Rewritten(req[c], users[id])
<1>1. id \in Ids /\ req[c].input \in UpdateInput /\ req[c].row \in User
  BY ConstantsAssumption DEF UpdateWrite, LocalOK
<1>2. c \notin stale /\ users'[id] = new
  BY <1>1 DEF UpdateWrite
<1>3. users[id] = req[c].row
  BY <1>2 DEF UpdateWrite, SnapshotOK
<1>4. new \in User
  BY <1>1, <1>3 DEF Rewritten, UpdateInput, User
<1>5. /\ new.Username = users[id].Username
      /\ "enabled" \notin Paths(req[c].input.mask) => new.Enabled = users[id].Enabled
      /\ "roles" \notin Paths(req[c].input.mask) => new.Roles = users[id].Roles
  BY <1>1, <1>3 DEF Rewritten
<1>6. new = users[id] <=> /\ new.Username = users[id].Username
                          /\ new.Enabled = users[id].Enabled
                          /\ new.Roles = users[id].Roles
  BY <1>1, <1>3, <1>4 DEF User
<1> HIDE DEF new
<1> QED BY <1>2, <1>4, <1>5, <1>6

\* UpdateUser writes back columns it has read, and still undoes nothing that
\* another client changed meanwhile.
THEOREM NoLostUpdateHolds == Spec => NoLostUpdate
<1> DEFINE Step1(id) ==
      users'[id] # users[id] =>
        \E c \in Calls :
          LET paths == Paths(req[c].input.mask) IN
          /\ pc[c] = "write" /\ pc'[c] = "reply" /\ req[c].id = id
          /\ users'[id].Enabled # users[id].Enabled => "enabled" \in paths
          /\ users'[id].Roles # users[id].Roles => "roles" \in paths
<1>1. ASSUME TypeInv, IdentityInv, [Next]_vars, NEW id \in UserIds \cap UserIds',
             users'[id] # users[id]
      PROVE  Step1(id)
  <2>1. PICK c \in Calls : /\ UpdateWrite(c) \/ DeleteRow(c)
                           /\ pc'[c] = "reply" /\ req[c].id = id
    BY <1>1, ChangedBy
  <2>2. CASE DeleteRow(c)
    BY <1>1, <2>1, <2>2 DEF DeleteRow, UserIds, TypeInv, TypeOK
  <2>3. CASE UpdateWrite(c)
    <3>1. pc[c] = "write"
      BY <2>3 DEF UpdateWrite
    <3> QED BY <1>1, <2>1, <2>3, <3>1, WriteChanges
  <2> QED BY <2>1, <2>2, <2>3
<1>2. TypeInv /\ IdentityInv /\ [Next]_vars => [\A id \in UserIds \cap UserIds' : Step1(id)]_vars
  BY <1>1
<1> QED BY <1>2, TypeInvInit, TypeInvNext, IdentityInit, IdentityNext, PTL DEF Spec, NoLostUpdate

\* Whoever changes an account presents another account's token.
LEMMA ChangedByOther ==
  ASSUME TypeInv, IdentityInv, AuthorisedInv, [Next]_vars, NEW id \in UserIds,
         id \notin UserIds' \/ users'[id] # users[id]
  PROVE  \E c \in Calls :
           /\ pc[c] \in {"write", "delete"} /\ pc'[c] = "reply" /\ req[c].id = id
           /\ req[c].claims.UserID # id
           /\ req[c].claims \in tokens
           /\ Has(req[c].claims, IF id \in UserIds' THEN "user.update" ELSE "user.delete")
<1>1. PICK c \in Calls : /\ UpdateWrite(c) \/ DeleteRow(c)
                         /\ pc[c] \in {"write", "delete"} /\ pc'[c] = "reply"
                         /\ req[c].id = id
  BY ChangedBy
<1>2. AuthorisedOK(pc[c], req[c]) /\ req[c].claims \in tokens
  BY <1>1 DEF AuthorisedInv, AuthorisedOK
<1>3. CASE DeleteRow(c)
  <2>1. id \notin UserIds'
    <3>1. users'[id] = Nil
      BY <1>1, <1>3 DEF DeleteRow, UserIds, TypeInv, TypeOK
    <3> QED BY <3>1 DEF UserIds
  <2>2. pc[c] = "delete"
    BY <1>3 DEF DeleteRow
  <2> QED BY <1>1, <1>2, <2>1, <2>2 DEF AuthorisedOK
<1>4. CASE UpdateWrite(c)
  <2>1. users'[id] # users[id]
    BY DEF UserIds
  <2>2. users'[id] \in User /\ {"roles", "enabled"} \cap Paths(req[c].input.mask) # {}
    BY <1>1, <1>4, <2>1, WriteChanges
  <2>3. id \in UserIds' /\ pc[c] = "write"
    BY <1>4, <2>2, ConstantsAssumption DEF UpdateWrite, UserIds
  <2> QED BY <1>1, <1>2, <2>2, <2>3 DEF AuthorisedOK
<1> QED BY <1>1, <1>3, <1>4

\* Accounts are changed and deleted by other accounts with the permission.
THEOREM OthersOnlyHolds == Spec => OthersOnly
<1> DEFINE ByOther(id) ==
      (id \notin UserIds' \/ users'[id] # users[id]) =>
        \E c \in Calls :
          /\ pc[c] \in {"write", "delete"} /\ pc'[c] = "reply" /\ req[c].id = id
          /\ req[c].claims.UserID # id
          /\ Has(req[c].claims, IF id \in UserIds' THEN "user.update" ELSE "user.delete")
<1>1. TypeInv /\ IdentityInv /\ AuthorisedInv /\ [Next]_vars => [\A id \in UserIds : ByOther(id)]_vars
  <2> SUFFICES ASSUME TypeInv, IdentityInv, AuthorisedInv, [Next]_vars, NEW id \in UserIds
               PROVE  ByOther(id)
    OBVIOUS
  <2> QED BY ChangedByOther
<1> QED BY <1>1, TypeInvInit, TypeInvNext, IdentityInit, IdentityNext, AuthorisedInit,
           AuthorisedNext, PTL DEF Spec, OthersOnly

-----------------------------------------------------------------------------
(* The last administrator.                                                 *)

IsAdmin(user) == user.Enabled /\ "admin" \in user.Roles

\* Until somebody holds a powerful token there are bootstrapped accounts only;
\* the only account that ever held one cannot be changed by itself.
LastAdminInv ==
  (\A p, q \in Powerful : p = q) =>
    /\ Powerful = {} => /\ \A id \in UserIds : IsAdmin(users[id])
                        /\ up => UserIds # {}
    /\ \A p \in Powerful : p \in UserIds /\ IsAdmin(users[p])

LEMMA LastAdminInit == Init => LastAdminInv
BY DEF Init, LastAdminInv, Powerful, UserIds

\* user.create comes with user.update.
LEMMA CreatorsArePowerful ==
  ASSUME NEW claims, Has(claims, "user.create")
  PROVE  Has(claims, "user.update")
BY DEF Has, ResolvePermissions, RolePermissions, RoleNames

\* No call signs a token or starts the process.
LEMMA CallsKeep ==
  ASSUME NEW c \in Calls, ArriveAny(c) \/ Step(c)
  PROVE  UNCHANGED <<up, tokens>>
<1>1. CASE ArriveAny(c)
  BY <1>1 DEF ArriveAny, StartCreate, StartUpdate, StartDelete, Arrive
<1>2. CASE Step(c)
  BY <1>2 DEF Step, CreateCount, CreateInsert, UpdateRead, UpdateWrite, DeleteRow, Return
<1> QED BY <1>1, <1>2

\* Tokens are signed for enabled accounts and never taken back.
LEMMA PowerGrows ==
  ASSUME TypeInv, [Next]_vars
  PROVE  /\ Powerful \subseteq Powerful'
         /\ \A p \in Powerful' \ Powerful : p \in UserIds /\ users' = users
<1>1. CASE UNCHANGED tokens
  BY <1>1 DEF Powerful
<1>2. ASSUME NEW id \in Ids, IssueToken(id)
      PROVE  /\ Powerful \subseteq Powerful'
             /\ \A p \in Powerful' \ Powerful : p \in UserIds /\ users' = users
  <2> DEFINE t == [UserID |-> id, Username |-> users[id].Username, Roles |-> users[id].Roles]
  <2>1. tokens' = tokens \cup {t} /\ t.UserID = id /\ id \in UserIds /\ users' = users
    BY <1>2 DEF IssueToken
  <2> HIDE DEF t
  <2>2. Powerful \subseteq Powerful' /\ Powerful' \subseteq Powerful \cup {id}
    BY <2>1 DEF Powerful
  <2> QED BY <2>1, <2>2
<1>3. UNCHANGED tokens \/ \E id \in Ids : IssueToken(id)
  BY CallsKeep DEF Next, vars, UpdateLastLogin, Boot, Crash
<1> QED BY <1>1, <1>2, <1>3

\* A new account comes from the bootstrap or from a powerful token.
LEMMA NewAccounts ==
  ASSUME "admin" \in BootstrapRoles, TypeInv, AuthorisedInv, [Next]_vars, Powerful = {},
         NEW id \in UserIds' \ UserIds
  PROVE  IsAdmin(users'[id])
<1> USE DEF TypeInv, TypeOK
<1>1. ASSUME NEW c \in Calls, CreateInsert(c) PROVE FALSE
  <2>1. req[c].claims \in tokens /\ Has(req[c].claims, "user.update")
    BY <1>1, CreatorsArePowerful DEF CreateInsert, AuthorisedInv, AuthorisedOK
  <2> QED BY <2>1 DEF Powerful
<1>2. CASE Boot
  <2>1. users' # users
    BY DEF UserIds
  <2> QED BY <1>2, <2>1 DEF Boot, UserIds, IsAdmin
<1>3. ASSUME NEW c \in Calls, UpdateWrite(c) \/ DeleteRow(c) PROVE FALSE
  <2>1. users'[id] # users[id] /\ id \in Ids /\ users[id] = Nil
    BY DEF UserIds
  <2>2. CASE UpdateWrite(c)
    <3>1. c \notin stale /\ req[c].id = id
      BY <2>1, <2>2 DEF UpdateWrite
    <3>2. users[id] \in User
      BY <2>2, <3>1 DEF UpdateWrite, SnapshotOK, LocalOK
    <3> QED BY <2>1, <3>2, ConstantsAssumption
  <2>3. CASE DeleteRow(c)
    BY <2>1, <2>3 DEF DeleteRow
  <2> QED BY <1>3, <2>2, <2>3
<1>4. ASSUME NEW c \in Calls, ArriveAny(c) \/ CreateCount(c) \/ UpdateRead(c) \/ Return(c)
      PROVE  users' = users
  BY <1>4 DEF ArriveAny, StartCreate, StartUpdate, StartDelete, Arrive, CreateCount, UpdateRead,
              Return
<1>5. UNCHANGED vars \/ Crash \/ (\E i \in Ids : IssueToken(i) \/ UpdateLastLogin(i)) =>
        users' = users
  BY DEF vars, Crash, IssueToken, UpdateLastLogin
<1>6. users' # users
  BY DEF UserIds
<1> HIDE DEF TypeInv, TypeOK
<1> QED BY <1>1, <1>2, <1>3, <1>4, <1>5, <1>6 DEF Next, Step

LEMMA LastAdminNext ==
  ASSUME "admin" \in BootstrapRoles, TypeInv, IdentityInv, AuthorisedInv, LastAdminInv, [Next]_vars
  PROVE  LastAdminInv'
<1> SUFFICES ASSUME \A p, q \in Powerful' : p = q
             PROVE  /\ Powerful' = {} => /\ \A id \in UserIds' : IsAdmin(users'[id])
                                         /\ up' => UserIds' # {}
                    /\ \A p \in Powerful' : p \in UserIds' /\ IsAdmin(users'[p])
  BY DEF LastAdminInv, IsAdmin
<1>1. \A id \in UserIds :
        (id \notin UserIds' \/ users'[id] # users[id]) => \E q \in Powerful : q # id
  <2> SUFFICES ASSUME NEW id \in UserIds, id \notin UserIds' \/ users'[id] # users[id]
               PROVE  \E q \in Powerful : q # id
    OBVIOUS
  <2>1. PICK c \in Calls :
          /\ req[c].claims.UserID # id /\ req[c].claims \in tokens
          /\ Has(req[c].claims, IF id \in UserIds' THEN "user.update" ELSE "user.delete")
    BY ChangedByOther
  <2> QED BY <2>1 DEF Powerful
<1>2. \A p, q \in Powerful : p = q
  BY PowerGrows
<1>3. CASE Powerful' = {}
  <2>1. Powerful = {}
    BY <1>3, PowerGrows
  <2>2. \A id \in UserIds : id \in UserIds' /\ users'[id] = users[id] /\ IsAdmin(users[id])
    BY <1>1, <2>1 DEF LastAdminInv
  <2>3. \A id \in UserIds' : IsAdmin(users'[id])
    BY <2>1, <2>2, NewAccounts
  <2>4. up' => UserIds' # {}
    <3>1. CASE up
      BY <2>1, <2>2, <3>1 DEF LastAdminInv
    <3>2. CASE ~up /\ up'
      <4>1. Boot
        BY <3>2, CallsKeep DEF Next, vars, IssueToken, UpdateLastLogin, Crash
      <4>2. CASE UserIds # {}
        BY <2>2, <4>2
      <4>3. CASE UserIds = {}
        <5> DEFINE row == [Username |-> BootstrapName, Roles |-> BootstrapRoles,
                           Enabled |-> TRUE]
        <5>1. NewId <= MaxId /\ users' = [users EXCEPT ![NewId] = row]
          BY <3>2, <4>1, <4>3 DEF Boot
        <5>2. NewId \in Ids
          BY <5>1, ConstantsAssumption DEF NewId, Ids, TypeInv, TypeOK
        <5>3. row \in User
          BY ConstantsAssumption DEF User
        <5> HIDE DEF row
        <5>4. users'[NewId] = row
          BY <5>1, <5>2 DEF TypeInv, TypeOK
        <5>5. NewId \in UserIds'
          BY <5>2, <5>3, <5>4, ConstantsAssumption DEF UserIds
        <5> QED BY <5>5
      <4> QED BY <4>2, <4>3
    <3> QED BY <3>1, <3>2
  <2> QED BY <1>3, <2>3, <2>4
<1>4. ASSUME NEW p \in Powerful' PROVE p \in UserIds' /\ IsAdmin(users'[p])
  <2>1. CASE p \in Powerful
    <3>1. p \in UserIds /\ IsAdmin(users[p])
      BY <1>2, <2>1 DEF LastAdminInv
    <3>2. p \in UserIds' /\ users'[p] = users[p]
      BY <1>1, <1>2, <2>1, <3>1
    <3> QED BY <3>1, <3>2
  <2>2. CASE p \notin Powerful
    <3>1. Powerful = {} /\ p \in UserIds /\ users' = users
      BY <1>4, <2>2, PowerGrows
    <3>2. p \in UserIds' /\ IsAdmin(users[p])
      BY <1>2, <3>1 DEF LastAdminInv, UserIds
    <3> QED BY <3>1, <3>2
  <2> QED BY <2>1, <2>2
<1> QED BY <1>3, <1>4

\* Two accounts are not one.
LEMMA AtMostOne ==
  ASSUME TypeInv, Cardinality(Powerful) <= 1
  PROVE  \A p, q \in Powerful : p = q
<1> SUFFICES ASSUME NEW p \in Powerful, NEW q \in Powerful, p # q PROVE FALSE
  OBVIOUS
<1>1. IsFiniteSet(Powerful)
  <2>1. Powerful \subseteq Ids
    BY DEF Powerful, TypeInv, TypeOK, Claims
  <2> QED BY <2>1, Finite, FS_Subset
<1>2. IsFiniteSet({p}) /\ Cardinality({p}) = 1
  BY FS_Singleton
<1>3. Cardinality(Powerful) = 1 => Powerful = {p}
  BY <1>1, <1>2, FS_Subset
<1>4. Cardinality({p}) <= Cardinality(Powerful) /\ Cardinality(Powerful) \in Nat
  BY <1>1, FS_Subset, FS_CardinalityType
<1> QED BY <1>2, <1>3, <1>4

\* With an administrator among the bootstrap roles, the service is never left
\* without one until two accounts have held powerful tokens.
THEOREM LastAdminSurvivesHolds ==
  ASSUME "admin" \in BootstrapRoles
  PROVE  Spec => []LastAdminSurvives
<1>1. TypeInv /\ LastAdminInv => LastAdminSurvives
  <2> SUFFICES ASSUME TypeInv, LastAdminInv, up, Cardinality(Powerful) <= 1
               PROVE  \E id \in UserIds : IsAdmin(users[id])
    BY DEF LastAdminSurvives, IsAdmin, TypeInv
  <2> QED BY AtMostOne DEF LastAdminInv
<1>2. TypeInv /\ IdentityInv /\ AuthorisedInv /\ LastAdminInv /\ [Next]_vars => LastAdminInv'
  BY LastAdminNext
<1> QED BY <1>1, <1>2, TypeInvInit, TypeInvNext, IdentityInit, IdentityNext, AuthorisedInit,
           AuthorisedNext, LastAdminInit, PTL DEF Spec

-----------------------------------------------------------------------------
(* The tables as UserTable.                                                *)

LEMMA TableInit == Init => Table!Init
BY DEF Init, Table!Init

LEMMA TableCreates ==
  ASSUME TypeInv, NEW user \in {Account(input) : input \in CreateInputs} \cup {Bootstrapped},
         ~NameTaken(user.Username), NewId <= MaxId,
         users' = [users EXCEPT ![NewId] = user], sequence' = NewId
  PROVE  Table!Next
<1>1. NewId \in Ids
  BY ConstantsAssumption DEF TypeInv, TypeOK, NewId, Ids
<1>2. Table!Create(NewId, user)
  BY DEF Table!Create, NewId, NameTaken, UserIds
<1> QED BY <1>1, <1>2 DEF Table!Next

LEMMA SameUser ==
  ASSUME NEW user \in User, NEW other \in User,
         user.Username = other.Username, user.Roles = other.Roles, user.Enabled = other.Enabled
  PROVE  user = other
BY DEF User

LEMMA Overwritten ==
  ASSUME NEW user \in User, NEW enabled \in BOOLEAN, NEW roles \in SUBSET RoleNames
  PROVE  [user EXCEPT !.Enabled = enabled, !.Roles = roles]
           = [Username |-> user.Username, Roles |-> roles, Enabled |-> enabled]
<1> DEFINE one == [user EXCEPT !.Enabled = enabled, !.Roles = roles]
           other == [Username |-> user.Username, Roles |-> roles, Enabled |-> enabled]
<1>1. /\ one \in User
      /\ one.Username = user.Username /\ one.Enabled = enabled /\ one.Roles = roles
  BY DEF User
<1>2. /\ other \in User
      /\ other.Username = user.Username /\ other.Enabled = enabled /\ other.Roles = roles
  BY DEF User
<1> HIDE DEF one, other
<1>3. one = other
  BY <1>1, <1>2, SameUser
<1> QED BY <1>3 DEF one, other

\* A write finds the row as it was read: what it writes back is what is there.
LEMMA TableUpdates ==
  ASSUME TypeInv, NEW c \in Calls, UpdateWrite(c), users' # users
  PROVE  Table!Next
<1> USE DEF TypeInv, TypeOK
<1> DEFINE id == req[c].id
           input == req[c].input
           row == users[id]
           new == Rewritten(req[c], row)
           old == Fields(input)
<1>1. id \in Ids /\ input \in UpdateInputs /\ req[c].row \in User
  BY DEF UpdateWrite, LocalOK
<1>2. c \notin stale /\ users' = [users EXCEPT ![id] = new] /\ sequence' = sequence
  BY DEF UpdateWrite
<1>3. row = req[c].row /\ row \in User /\ row # Nil
  BY <1>1, <1>2, ConstantsAssumption DEF UpdateWrite, SnapshotOK
<1>4. input.enabled # Nil /\ input.roles # Nil
  BY <1>1, ConstantsAssumption DEF UpdateInput
<1>5. new = [row EXCEPT !.Enabled = IF old.Enabled = Nil THEN @ ELSE old.Enabled,
                        !.Roles = IF old.Roles = Nil THEN @ ELSE old.Roles]
  <2> DEFINE enabled == IF old.Enabled = Nil THEN row.Enabled ELSE old.Enabled
             roles == IF old.Roles = Nil THEN row.Roles ELSE old.Roles
  <2>1. enabled = IF "enabled" \in Paths(input.mask) THEN input.enabled ELSE row.Enabled
    BY <1>4 DEF Fields
  <2>2. roles = IF "roles" \in Paths(input.mask) THEN input.roles ELSE row.Roles
    BY <1>4 DEF Fields
  <2>3. new = [Username |-> row.Username, Roles |-> roles, Enabled |-> enabled]
    BY <1>3, <2>1, <2>2 DEF Rewritten
  <2>4. enabled \in BOOLEAN /\ roles \in SUBSET RoleNames
    BY <1>1, <1>3, <2>1, <2>2, ConstantsAssumption DEF User, UpdateInput
  <2> HIDE DEF new, row, enabled, roles
  <2>5. [row EXCEPT !.Enabled = enabled, !.Roles = roles]
          = [Username |-> row.Username, Roles |-> roles, Enabled |-> enabled]
    BY <1>3, <2>4, Overwritten
  <2>6. new = [row EXCEPT !.Enabled = enabled, !.Roles = roles]
    BY <2>3, <2>5
  <2> QED BY <2>6 DEF row, enabled, roles
<1>6. users' = [users EXCEPT
                  ![id].Enabled = IF old.Enabled = Nil THEN @ ELSE old.Enabled,
                  ![id].Roles = IF old.Roles = Nil THEN @ ELSE old.Roles]
  <2> HIDE DEF old, new
  <2> QED BY <1>1, <1>2, <1>3, <1>5
<1>7. Table!Update(id, old)
  BY <1>2, <1>3, <1>6 DEF Table!Update
<1> QED BY <1>1, <1>7 DEF Table!Next

LEMMA TableDeletes ==
  ASSUME TypeInv, NEW c \in Calls, DeleteRow(c), users' # users
  PROVE  Table!Next
<1>1. req[c].id \in Ids
  BY DEF TypeInv, LocalOK, DeleteRow
<1>2. Table!Delete(req[c].id)
  BY DEF DeleteRow, Table!Delete
<1> QED BY <1>1, <1>2 DEF Table!Next

LEMMA TableNext == TypeInv /\ [Next]_vars => [Table!Next]_(Table!vars)
<1> SUFFICES ASSUME TypeInv, [Next]_vars, ~UNCHANGED <<users, sequence>>
             PROVE  Table!Next
  BY DEF Table!vars
<1>1. ASSUME NEW c \in Calls, CreateInsert(c) PROVE Table!Next
  <2>1. req[c].input \in CreateInputs
    BY <1>1 DEF TypeInv, LocalOK, CreateInsert
  <2>2. /\ ~NameTaken(req[c].input.name) /\ NewId <= MaxId
        /\ users' = [users EXCEPT ![NewId] = Account(req[c].input)]
        /\ sequence' = NewId
    BY <1>1 DEF CreateInsert, Account
  <2>3. Account(req[c].input).Username = req[c].input.name
    BY DEF Account
  <2> QED BY <2>1, <2>2, <2>3, TableCreates
<1>2. ASSUME NEW c \in Calls, UpdateWrite(c) PROVE Table!Next
  BY <1>2, TableUpdates DEF UpdateWrite
<1>3. ASSUME NEW c \in Calls, DeleteRow(c) PROVE Table!Next
  BY <1>3, TableDeletes DEF DeleteRow
<1>4. CASE Boot
  <2>1. /\ UserIds = {} /\ NewId <= MaxId /\ sequence' = NewId
        /\ users' = [users EXCEPT ![NewId] = Bootstrapped]
    BY <1>4 DEF Boot, Bootstrapped
  <2>2. ~NameTaken(Bootstrapped.Username)
    BY <2>1 DEF NameTaken
  <2> QED BY <2>1, <2>2, TableCreates
<1>5. ASSUME NEW c \in Calls, ArriveAny(c) \/ CreateCount(c) \/ UpdateRead(c) \/ Return(c)
      PROVE  FALSE
  BY <1>5 DEF ArriveAny, StartCreate, StartUpdate, StartDelete, Arrive, CreateCount, UpdateRead,
              Return
<1>6. CASE UNCHANGED vars \/ Crash \/ \E id \in Ids : IssueToken(id) \/ UpdateLastLogin(id)
  BY <1>6 DEF vars, Crash, IssueToken, UpdateLastLogin
<1> QED BY <1>1, <1>2, <1>3, <1>4, <1>5, <1>6 DEF Next, Step

\* Whatever other calls, commits and crashes come between the checks, the reads
\* and the writes of these calls, the tables change by the operations of
\* UserTable only: the part of the store's promise that UserStore is proved to
\* keep is all that user administration relies on.
THEOREM ActsOnUserTableHolds == Spec => ActsOnUserTable
BY TableInit, TableNext, TypeInvInit, TypeInvNext, PTL DEF Spec, ActsOnUserTable, Table!Spec
=============================================================================
