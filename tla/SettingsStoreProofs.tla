-------------------------- MODULE SettingsStoreProofs --------------------------
(***************************************************************************)
(* Proofs about SettingsStore, for any calls and values of the settings.   *)
(***************************************************************************)
EXTENDS SettingsStore, FiniteSetTheorems, TLAPS

Writing == {"open", "write", "assign"}

\* What the lock gives: one call at a time replaces the file, it has a value to
\* write, and a call that is about to assign finds this value in the file.
WriterOK ==
  \A c \in Calls :
    /\ pc[c] \in Writing => writer = c
    /\ pc[c] \in {"lock"} \cup Writing => req[c].value \in Values
    /\ pc[c] = "assign" => file = req[c].value
    /\ pc[c] \in {"write", "assign"} => torn

FileOK == ~torn => Parsed(file) = settings

\* The value in force now has been in force since any call arrived.
AnswersOK ==
  \A c \in Calls :
    /\ pc[c] # "idle" => up /\ settings \in since[c]
    /\ pc[c] = "ok" => req[c].answer \in since[c]

StoreInv == TypeOK /\ WriterOK /\ FileOK /\ AnswersOK

LEMMA ContentsDiffer == Absent # Empty /\ Empty # Garbled /\ Absent # Garbled
<1>1. ASSUME NEW a, NEW b PROVE Cardinality({a, b}) # 3
  <2>1. CASE a = b
    <3>1. {a, b} = {a}
      BY <2>1
    <3>2. Cardinality({a}) = 1
      BY FS_Singleton
    <3> QED BY <3>1, <3>2
  <2>2. CASE a # b
    <3>1. IsFiniteSet({a}) /\ Cardinality({a}) = 1
      BY FS_Singleton
    <3>2. b \notin {a} /\ {a, b} = {a} \cup {b}
      BY <2>2
    <3>3. Cardinality({a} \cup {b}) = 2
      BY <3>1, <3>2, FS_AddElement
    <3> QED BY <3>2, <3>3
  <2> QED BY <2>1, <2>2
<1>2. CASE Absent = Empty
  BY <1>1, <1>2, ConstantsAssumption, {Absent, Empty, Garbled} = {Empty, Garbled}
<1>3. CASE Empty = Garbled
  BY <1>1, <1>3, ConstantsAssumption, {Absent, Empty, Garbled} = {Absent, Garbled}
<1>4. CASE Absent = Garbled
  BY <1>1, <1>4, ConstantsAssumption, {Absent, Empty, Garbled} = {Empty, Garbled}
<1> QED BY <1>2, <1>3, <1>4

LEMMA StoreInit == Init => StoreInv
<1> SUFFICES ASSUME Init PROVE StoreInv
  OBVIOUS
<1>1. NoRequest \in Request
  BY DEF NoRequest, Request
<1>2. TypeOK
  BY <1>1, ConstantsAssumption DEF Init, TypeOK, Locations
<1>3. WriterOK /\ FileOK /\ AnswersOK
  BY DEF Init, WriterOK, FileOK, AnswersOK, Writing
<1> QED BY <1>2, <1>3 DEF StoreInv

-----------------------------------------------------------------------------
LEMMA StoreNext == StoreInv /\ [Next]_vars => StoreInv'
<1> SUFFICES ASSUME StoreInv, [Next]_vars PROVE StoreInv'
  OBVIOUS
<1> USE ConstantsAssumption
    DEF StoreInv, TypeOK, WriterOK, FileOK, AnswersOK, Writing, Contents, Request,
        NoRequest, Locations, Goto
<1>1. CASE Load
  <2>1. settings' \in Values /\ file' \in Contents /\ Parsed(file') = settings'
    BY <1>1, ContentsDiffer DEF Load, Parsed
  <2>2. UNCHANGED <<writer, pc, req, since>> /\ up' = TRUE /\ torn' = FALSE
    BY <1>1 DEF Load
  <2>3. \A c \in Calls : pc[c] = "idle"
    BY <1>1 DEF Load
  <2> QED BY <2>1, <2>2, <2>3
<1>2. CASE LoadFails \/ Repair
  <2>1. file' \in Contents /\ torn' = TRUE /\ UNCHANGED <<up, settings, writer, pc, req, since>>
    BY <1>2 DEF LoadFails, Repair
  <2>2. \A c \in Calls : pc[c] = "idle"
    BY <1>2 DEF LoadFails, Repair
  <2> QED BY <2>1, <2>2
<1>3. CASE Crash
  BY <1>3 DEF Crash, Parsed
<1>4. ASSUME NEW c \in Calls, NEW roles, NEW permission, NEW request \in Request,
             NEW location \in {"get", "lock"},
             location = "lock" => request.value \in Values,
             Arrive(c, roles, permission, request, location)
      PROVE  StoreInv'
  BY <1>4 DEF Arrive, Parsed
<1>4a. ASSUME NEW c \in Calls, NEW roles, StartGet(c, roles) PROVE StoreInv'
  <2>1. NoRequest \in Request
    OBVIOUS
  <2> QED BY <1>4, <1>4a, <2>1 DEF StartGet
<1>4b. ASSUME NEW c \in Calls, NEW roles, NEW v \in Values, StartUpdate(c, roles, v)
       PROVE  StoreInv'
  <2>1. [NoRequest EXCEPT !.value = v] \in Request
    OBVIOUS
  <2>2. [NoRequest EXCEPT !.value = v].value = v
    OBVIOUS
  <2> QED BY <1>4, <1>4b, <2>1, <2>2 DEF StartUpdate
<1>5. ASSUME NEW c \in Calls, UpdateLock(c) PROVE StoreInv'
  BY <1>5 DEF UpdateLock, MayWrite, Parsed
<1>6. ASSUME NEW c \in Calls, UpdateOpen(c) PROVE StoreInv'
  <2>1. CASE Fail(c) /\ UNCHANGED <<file, torn>>
    BY <1>6, <2>1 DEF UpdateOpen, Fail, Parsed
  <2>2. CASE /\ file' = Empty
             /\ torn' = TRUE
             /\ Goto(c, "write")
             /\ UNCHANGED writer
    BY <1>6, <2>2 DEF UpdateOpen
  <2> QED BY <1>6, <2>1, <2>2 DEF UpdateOpen
<1>7. ASSUME NEW c \in Calls, UpdateWrite(c) PROVE StoreInv'
  BY <1>7 DEF UpdateWrite, Fail, Parsed
<1>8. ASSUME NEW c \in Calls, UpdateAssign(c) PROVE StoreInv'
  <2>1. file' = settings' /\ settings' \in Values /\ Parsed(file') = settings'
    BY <1>8 DEF UpdateAssign, Parsed
  <2> QED BY <1>8, <2>1 DEF UpdateAssign
<1>9. ASSUME NEW c \in Calls, Read(c) PROVE StoreInv'
  BY <1>9 DEF Read, Parsed
<1>10. ASSUME NEW c \in Calls, Return(c) PROVE StoreInv'
  BY <1>10 DEF Return, Parsed
<1>11. CASE UNCHANGED vars
  BY <1>11 DEF vars, Parsed
<1> QED
  BY <1>1, <1>2, <1>3, <1>4a, <1>4b, <1>5, <1>6, <1>7, <1>8, <1>9, <1>10, <1>11
  DEF Next, Acquire, Proceed

LEMMA StoreInvariant == Spec => []StoreInv
BY StoreInit, StoreNext, PTL DEF Spec

-----------------------------------------------------------------------------
\* File and memory agree whenever no update is under way and none has failed,
\* however many calls replace both (SetRefreshTokenExtendOnRefresh).
THEOREM FileInStepHolds == Spec => []FileInStep
<1>1. StoreInv => FileInStep
  BY DEF StoreInv, FileInStep, FileOK
<1> QED BY <1>1, StoreInvariant, PTL

\* Every answer of GetAuthSettings and UpdateAuthSettings is a value in force
\* since the call arrived, or since it put its own into force.
THEOREM AnswerInForceHolds == Spec => []AnswerInForce
<1>1. StoreInv => AnswerInForce
  BY DEF StoreInv, AnswerInForce, AnswersOK
<1> QED BY <1>1, StoreInvariant, PTL

\* A value comes into force only once the file has it.
THEOREM WrittenFirstHolds == Spec => WrittenFirst
<1>1. ASSUME StoreInv, [Next]_vars, up, settings' # settings
      PROVE  file = settings'
  <2>1. PICK c \in Calls : UpdateAssign(c)
    BY <1>1
    DEF Next, vars, Load, LoadFails, Repair, Crash, StartGet, StartUpdate, Arrive,
        Acquire, Proceed, UpdateLock, Read, UpdateOpen, UpdateWrite, Return
  <2> QED BY <1>1, <2>1 DEF StoreInv, WriterOK, UpdateAssign
<1>2. StoreInv /\ [Next]_vars => [(up /\ settings' # settings) => file = settings']_vars
  BY <1>1
<1> QED BY <1>2, StoreInvariant, PTL DEF Spec, WrittenFirst
=============================================================================
