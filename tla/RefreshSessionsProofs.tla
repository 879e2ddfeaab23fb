------------------------ MODULE RefreshSessionsProofs ------------------------
(***************************************************************************)
(* Proofs about RefreshSessions, for every set of calls, users and tokens  *)
(* and every bound on the clock: what becomes of a token, that the calls   *)
(* implement SingleUseTokens, how long sessions last and what the unlocked *)
(* purge timestamp can become, what an answer says about the account and   *)
(* the token, and what a logout leaves in the table.                       *)
(***************************************************************************)
EXTENDS RefreshSessions, TLAPS

CallsOK ==
  /\ pc \in [Calls -> Locations]
  /\ req \in [Calls -> Request]
  /\ LocalsOK

TypeInv == TypeOK /\ LocalsOK

\* One call moves to a location with local variables that fit it.
LEMMA CallMoves ==
  ASSUME CallsOK, NEW c \in Calls, NEW location \in Locations, NEW r \in Request,
         LocalOK(location, r),
         pc' = [pc EXCEPT ![c] = location], req' = [req EXCEPT ![c] = r]
  PROVE  CallsOK'
BY DEF CallsOK, LocalsOK, LocalOK

LEMMA CallGoes ==
  ASSUME CallsOK, NEW c \in Calls, NEW location \in Locations,
         LocalOK(location, req[c]), Goto(c, location), req' = req
  PROVE  CallsOK'
<1>1. req' = [req EXCEPT ![c] = req[c]] /\ req[c] \in Request
  BY DEF CallsOK
<1> QED BY <1>1, CallMoves DEF Goto

LEMMA CallAnswers ==
  ASSUME CallsOK, NEW c \in Calls, NEW result \in Errors \cup {"ok"}, Answer(c, result),
         req[c].op = "RefreshToken" => result # "ok"
  PROVE  CallsOK'
<1> DEFINE r == [req[c] EXCEPT !.result = result]
<1>1. req' = [req EXCEPT ![c] = r] /\ pc' = [pc EXCEPT ![c] = "reply"]
  BY DEF Answer, Goto, CallsOK
<1>2. r \in Request
  BY DEF CallsOK, Request
<1>3. LocalOK("reply", r)
  BY DEF CallsOK, LocalsOK, LocalOK, Request
<1> QED BY <1>1, <1>2, <1>3, CallMoves DEF Locations

LEMMA NoRequestFits == NoRequest \in Request /\ LocalOK("idle", NoRequest)
BY DEF NoRequest, Request, Ops, LocalOK

LEMMA TypeInvInit == Init => TypeInv
<1> SUFFICES ASSUME Init PROVE TypeInv
  OBVIOUS
<1>1. TypeOK
  BY NoRequestFits, ConstantsAssumption DEF Init, TypeOK, Locations
<1>2. LocalsOK
  BY NoRequestFits DEF Init, LocalsOK
<1> QED BY <1>1, <1>2 DEF TypeInv

LEMMA TypeInvArrive ==
  ASSUME TypeInv, NEW c \in Calls, Arrive(c)
  PROVE  TypeInv'
<1>1. ASSUME NEW location \in Locations, NEW r \in Request, LocalOK(location, r),
             Start(c, location, r)
      PROVE  TypeInv'
  <2>1. CallsOK'
    BY <1>1, CallMoves DEF Start, Goto, TypeInv, TypeOK, CallsOK
  <2>2. sawEnabled' \in [Calls -> SUBSET Users]
    BY <1>1 DEF Start, TypeInv, TypeOK, EnabledUsers
  <2> QED BY <1>1, <2>1, <2>2 DEF Start, TypeInv, TypeOK, CallsOK, store
<1>2. ASSUME NEW u \in Users, StartLogin(c, u) PROVE TypeInv'
  <2> DEFINE r == [NoRequest EXCEPT !.op = "Login", !.user = u]
  <2>1. r \in Request /\ LocalOK("lookup", r)
    BY DEF NoRequest, Request, Ops, LocalOK
  <2> QED BY <1>1, <1>2, <2>1 DEF StartLogin, Locations
<1>3. ASSUME NEW t \in known, StartRefresh(c, t) PROVE TypeInv'
  <2> DEFINE r == [NoRequest EXCEPT !.op = "RefreshToken", !.token = t, !.now = now]
  <2>0. now \in Nat /\ t \in Tokens
    BY ConstantsAssumption DEF TypeInv, TypeOK
  <2>1. r \in Request /\ LocalOK("purge", r)
    BY <2>0 DEF NoRequest, Request, Ops, LocalOK
  <2> QED BY <1>1, <1>3, <2>1 DEF StartRefresh, Locations
<1>4. ASSUME NEW t \in known, StartLogout(c, t) PROVE TypeInv'
  <2> DEFINE r == [NoRequest EXCEPT !.op = "Logout", !.token = t, !.now = now]
  <2>0. now \in Nat /\ t \in Tokens
    BY ConstantsAssumption DEF TypeInv, TypeOK
  <2>1. r \in Request /\ LocalOK("purge", r)
    BY <2>0 DEF NoRequest, Request, Ops, LocalOK
  <2> QED BY <1>1, <1>4, <2>1 DEF StartLogout, Locations
<1> QED BY <1>2, <1>3, <1>4 DEF Arrive

LEMMA TypeInvPurge ==
  ASSUME TypeInv, NEW c \in Calls, PurgeStep(c)
  PROVE  TypeInv'
<1> USE DEF TypeInv, TypeOK, CallsOK, store, history
<1>1. pc[c] \in {"purge", "stamp", "sweep"} =>
        /\ AfterPurge(req[c].op) \in Locations
        /\ LocalOK(AfterPurge(req[c].op), req[c])
        /\ LocalOK("stamp", req[c]) /\ LocalOK("sweep", req[c])
  BY DEF LocalsOK, LocalOK, AfterPurge, Ops, Locations
<1>2. CASE CheckPurge(c)
  BY <1>1, <1>2, CallGoes DEF CheckPurge, Locations
<1>3. CASE StampPurge(c)
  <2>1. CallsOK'
    BY <1>1, <1>3, CallGoes DEF StampPurge, Locations
  <2>2. nextPurge' \in Nat
    BY <1>3, ConstantsAssumption DEF StampPurge, Request
  <2> QED BY <1>3, <2>1, <2>2 DEF StampPurge
<1>4. CASE SweepExpired(c)
  <2>1. CallsOK'
    BY <1>1, <1>4, CallGoes DEF SweepExpired
  <2> QED BY <1>4, <2>1 DEF SweepExpired
<1> QED BY <1>2, <1>3, <1>4 DEF PurgeStep

LEMMA TypeInvLogin ==
  ASSUME TypeInv, NEW c \in Calls, LoginStep(c)
  PROVE  TypeInv'
<1> USE DEF TypeInv, TypeOK, CallsOK, store, history
<1>0. LocalOK(pc[c], req[c]) /\ req[c] \in Request
  BY DEF LocalsOK
<1>1. CASE LoginLookup(c)
  <2> DEFINE s == [UserID |-> req[c].user, LoginAt |-> now,
                   ExpiresAt |-> now + RefreshTokenTTL]
             r == [req[c] EXCEPT !.now = now, !.session = s]
  <2>1. req[c].op = "Login" /\ req[c].user \in Users
    BY <1>0, <1>1 DEF LoginLookup, LocalOK
  <2>2. s \in Session
    BY <2>1, ConstantsAssumption DEF Session
  <2>3. now \in Nat
    BY ConstantsAssumption
  <2>4. r \in Request /\ LocalOK("purge", r)
    BY <1>0, <2>1, <2>2, <2>3 DEF Request, LocalOK, Ops
  <2>5. CASE \E e \in Errors : Answer(c, e)
    BY <1>1, <2>5, CallAnswers DEF LoginLookup, Errors
  <2>6. CASE Goto(c, "purge") /\ req' = [req EXCEPT ![c] = r]
    <3>1. CallsOK'
      BY <2>4, <2>6, CallMoves DEF Goto, Locations
    <3> QED BY <1>1, <3>1 DEF LoginLookup
  <2>7. \/ \E e \in Errors : Answer(c, e)
        \/ Goto(c, "purge") /\ req' = [req EXCEPT ![c] = r]
    BY <1>1 DEF LoginLookup, Errors
  <2> QED BY <2>5, <2>6, <2>7
<1>2. CASE LoginSave(c)
  <2>1. PICK t \in Fresh : /\ sessions' = [sessions EXCEPT ![t] = req[c].session]
                           /\ req' = [req EXCEPT ![c].granted = t]
    BY <1>2 DEF LoginSave
  <2> DEFINE r == [req[c] EXCEPT !.granted = t]
  <2>2. r \in Request /\ LocalOK("lastLogin", r) /\ req[c].session \in Session
    BY <1>0, <1>2 DEF LoginSave, Request, LocalOK, Fresh
  <2>3. CallsOK'
    BY <1>2, <2>1, <2>2, CallMoves DEF LoginSave, Goto, Locations
  <2> QED BY <1>2, <2>1, <2>2, <2>3 DEF LoginSave
<1>3. CASE LoginStamp(c)
  <2>1. LocalOK("reload", req[c])
    BY <1>0, <1>3 DEF LoginStamp, LocalOK
  <2>2. CallsOK'
    BY <1>3, <2>1, CallGoes, CallAnswers DEF LoginStamp, Locations, Errors
  <2> QED BY <1>3, <2>2 DEF LoginStamp
<1>4. CASE LoginReload(c)
  <2>1. req[c].op # "RefreshToken"
    BY <1>0, <1>4 DEF LoginReload, LocalOK
  <2>2. CallsOK'
    BY <1>4, <2>1, CallAnswers DEF LoginReload, Errors
  <2> QED BY <1>4, <2>2 DEF LoginReload
<1> QED BY <1>1, <1>2, <1>3, <1>4 DEF LoginStep

LEMMA TypeInvRefresh ==
  ASSUME TypeInv, NEW c \in Calls, RefreshStep(c)
  PROVE  TypeInv'
<1> USE DEF TypeInv, TypeOK, CallsOK, store, history
<1>0. LocalOK(pc[c], req[c]) /\ req[c] \in Request
  BY DEF LocalsOK
<1>1. CASE RefreshGet(c)
  <2> DEFINE r == [req[c] EXCEPT !.session = sessions[req[c].token]]
  <2>1. CASE Answer(c, "ErrInvalidToken")
    <3>1. CallsOK'
      BY <2>1, CallAnswers DEF Errors
    <3> QED BY <1>1, <3>1 DEF RefreshGet
  <2>2. CASE /\ sessions[req[c].token] # Nil
             /\ Goto(c, "user") /\ req' = [req EXCEPT ![c] = r]
    <3>1. sessions[req[c].token] \in Session /\ req[c].op = "RefreshToken"
      BY <1>0, <1>1, <2>2 DEF RefreshGet, LocalOK
    <3>2. r \in Request /\ LocalOK("user", r)
      BY <1>0, <3>1 DEF Request, LocalOK
    <3>3. CallsOK'
      BY <2>2, <3>2, CallMoves DEF Goto, Locations
    <3> QED BY <1>1, <3>3 DEF RefreshGet
  <2> QED BY <1>1, <2>1, <2>2 DEF RefreshGet
<1>2. CASE RefreshUser(c)
  <2>1. LocalOK("revoke", req[c])
    BY <1>0, <1>2 DEF RefreshUser, LocalOK
  <2>2. CallsOK'
    BY <1>2, <2>1, CallGoes, CallAnswers DEF RefreshUser, Locations, Errors
  <2> QED BY <1>2, <2>2 DEF RefreshUser
<1>3. CASE RefreshRevoke(c)
  <2>1. LocalOK("setting", req[c])
    BY <1>0, <1>3 DEF RefreshRevoke, LocalOK
  <2>2. CallsOK'
    BY <1>3, <2>1, CallGoes, CallAnswers DEF RefreshRevoke, Locations, Errors
  <2> QED BY <1>3, <2>2 DEF RefreshRevoke
<1>4. CASE RefreshSetting(c)
  <2> DEFINE r == [req[c] EXCEPT !.expiresAt = NewExpiry(req[c])]
  <2>1. req[c].session \in Session
    BY <1>0, <1>4 DEF RefreshSetting, LocalOK
  <2>2. NewExpiry(req[c]) \in Nat
    BY <1>0, <2>1, ConstantsAssumption DEF NewExpiry, Session, Request
  <2>3. r \in Request /\ LocalOK("rotate", r)
    BY <1>0, <1>4, <2>2 DEF RefreshSetting, Request, LocalOK
  <2>4. CallsOK'
    BY <1>4, <2>3, CallMoves DEF RefreshSetting, Goto, Locations
  <2> QED BY <1>4, <2>4 DEF RefreshSetting
<1>5. CASE RefreshSave(c)
  <2>1. PICK t \in Fresh :
          /\ sessions' = [sessions EXCEPT ![t] =
                            [req[c].session EXCEPT !.ExpiresAt = req[c].expiresAt]]
          /\ heirs' = [heirs EXCEPT ![req[c].token] = @ \cup {t}]
          /\ req' = [req EXCEPT ![c].granted = t, ![c].result = "ok"]
    BY <1>5 DEF RefreshSave
  <2> DEFINE r == [req[c] EXCEPT !.granted = t, !.result = "ok"]
  <2>2. req[c].session \in Session
    BY <1>0, <1>5 DEF RefreshSave, LocalOK
  <2>3. [req[c].session EXCEPT !.ExpiresAt = req[c].expiresAt] \in Session
    BY <1>0, <2>2 DEF Session, Request
  <2>4. r \in Request /\ LocalOK("reply", r)
    BY <1>0, <1>5, <2>2 DEF RefreshSave, Request, LocalOK, Fresh
  <2>5. req' = [req EXCEPT ![c] = r]
    BY <2>1
  <2>6. CallsOK'
    BY <1>5, <2>5, <2>4, CallMoves DEF RefreshSave, Goto, Locations
  <2>7. sessions' \in [Tokens -> Session \cup {Nil}]
    BY <2>1, <2>3
  <2>8. heirs' \in [Tokens -> SUBSET Tokens]
    BY <2>1 DEF Fresh
  <2> QED BY <1>5, <2>6, <2>7, <2>8 DEF RefreshSave
<1> QED BY <1>1, <1>2, <1>3, <1>4, <1>5 DEF RefreshStep

LEMMA TypeInvOther ==
  ASSUME TypeInv,
         (\E c \in Calls : LogoutDelete(c) \/ Return(c)) \/ Administer \/ Tick \/ Crash
  PROVE  TypeInv'
<1> USE DEF TypeInv, TypeOK, CallsOK, store, history
<1>1. ASSUME NEW c \in Calls, LogoutDelete(c) PROVE TypeInv'
  <2>1. req[c].op # "RefreshToken"
    BY <1>1 DEF LogoutDelete, LocalsOK, LocalOK
  <2>2. CallsOK'
    BY <1>1, <2>1, CallAnswers DEF LogoutDelete
  <2> QED BY <1>1, <2>2 DEF LogoutDelete
<1>2. ASSUME NEW c \in Calls, Return(c) PROVE TypeInv'
  <2>1. CallsOK'
    BY <1>2, NoRequestFits, CallMoves DEF Return, Goto, Locations
  <2>2. known' \in SUBSET Tokens
    BY <1>2 DEF Return, Request
  <2> QED BY <1>2, <2>1, <2>2 DEF Return
<1>3. ASSUME NEW u \in Users, NEW on \in BOOLEAN, SetEnabled(u, on) PROVE TypeInv'
  BY <1>3 DEF SetEnabled, LocalsOK
<1>4. ASSUME NEW u \in Users, DeleteUser(u) PROVE TypeInv'
  BY <1>4 DEF DeleteUser, LocalsOK
<1>5. ASSUME NEW on \in BOOLEAN, SetExtend(on) PROVE TypeInv'
  BY <1>5 DEF SetExtend, LocalsOK
<1>6. CASE Tick
  BY <1>6, ConstantsAssumption DEF Tick, LocalsOK
<1>7. CASE Crash
  <2>1. CallsOK'
    BY <1>7, NoRequestFits DEF Crash, Locations, LocalsOK
  <2> QED BY <1>7, <2>1 DEF Crash
<1> QED BY <1>1, <1>2, <1>3, <1>4, <1>5, <1>6, <1>7 DEF Administer

LEMMA TypeInvNext == TypeInv /\ [Next]_vars => TypeInv'
<1> SUFFICES ASSUME TypeInv, [Next]_vars PROVE TypeInv'
  OBVIOUS
<1>1. CASE UNCHANGED vars
  BY <1>1 DEF vars, TypeInv, TypeOK, LocalsOK
<1>2. CASE Next
  BY <1>2, TypeInvArrive, TypeInvPurge, TypeInvLogin, TypeInvRefresh, TypeInvOther
     DEF Next, Step
<1> QED BY <1>1, <1>2

\* Every variable, and every local variable of every call, keeps its type.
THEOREM TypeCorrectness == Spec => []TypeOK
<1>1. TypeInv => TypeOK
  BY DEF TypeInv
<1> QED BY <1>1, TypeInvInit, TypeInvNext, PTL DEF Spec
-----------------------------------------------------------------------------
(* What becomes of a token.                                                *)

TokenInv == TokensOK /\ FreshUnknown /\ SingleUse /\ RotationNotLost

tokenVars == <<sessions, fate, heirs, known>>

LEMMA TokenInvInit == Init => TokenInv
<1> SUFFICES ASSUME Init PROVE TokenInv
  OBVIOUS
<1>1. \A c \in Calls : pc[c] = "idle" /\ req[c].token = Nil /\ req[c].granted = Nil
  BY DEF Init, NoRequest
<1>2. \A t \in Tokens : ~Live(t) /\ fate[t] = "none" /\ heirs[t] = {} /\ t # Nil
  BY ConstantsAssumption DEF Init, Live
<1>3. \A c \in Calls, t \in Tokens : ~Rotating(c, t)
  BY <1>1 DEF Rotating
<1>4. FreshUnknown
  BY <1>1, <1>2 DEF Init, FreshUnknown, Fresh
<1> QED BY <1>2, <1>3, <1>4 DEF TokenInv, TokensOK, SingleUse, RotationNotLost

\* Steps that touch no token and neither begin nor end a rotation.
LEMMA TokenInvQuiet ==
  ASSUME TokenInv, UNCHANGED tokenVars,
         \A d \in Calls : /\ req'[d].token = req[d].token
                          /\ req'[d].granted = req[d].granted
                          /\ pc'[d] \in {"setting", "rotate"} <=> pc[d] \in {"setting", "rotate"}
  PROVE  TokenInv'
<1>1. \A d \in Calls, t \in Tokens : Rotating(d, t)' <=> Rotating(d, t)
  BY DEF Rotating
<1>2. TokensOK'
  BY <1>1 DEF TokenInv, TokensOK, tokenVars, Live
<1>3. FreshUnknown'
  BY DEF TokenInv, FreshUnknown, Fresh, tokenVars, Live
<1>4. SingleUse'
  BY DEF TokenInv, SingleUse, tokenVars
<1>5. RotationNotLost'
  BY <1>1 DEF TokenInv, RotationNotLost, tokenVars
<1> QED BY <1>2, <1>3, <1>4, <1>5 DEF TokenInv

\* Steps of one call among those.
LEMMA TokenInvQuietCall ==
  ASSUME TypeInv, TokenInv, UNCHANGED tokenVars, NEW c \in Calls,
         \A d \in Calls \ {c} : pc'[d] = pc[d] /\ req'[d] = req[d],
         req'[c].token = req[c].token, req'[c].granted = req[c].granted,
         pc'[c] \in {"setting", "rotate"} <=> pc[c] \in {"setting", "rotate"}
  PROVE  TokenInv'
BY TokenInvQuiet

LEMMA TokenInvCallMoves ==
  ASSUME TypeInv, TokenInv, NEW c \in Calls,
         \/ CheckPurge(c) \/ StampPurge(c)
         \/ LoginLookup(c) \/ LoginStamp(c) \/ LoginReload(c)
         \/ RefreshGet(c) \/ RefreshUser(c) \/ RefreshSetting(c)
  PROVE  TokenInv'
<1> USE DEF TypeInv, TypeOK, Goto, Answer, Request, tokenVars, history, store
<1>1. CASE CheckPurge(c)
  BY <1>1, TokenInvQuietCall DEF CheckPurge, AfterPurge
<1>2. CASE StampPurge(c)
  BY <1>2, TokenInvQuietCall DEF StampPurge
<1>3. CASE LoginLookup(c)
  <2>1. UNCHANGED tokenVars /\ \A d \in Calls \ {c} : pc'[d] = pc[d] /\ req'[d] = req[d]
    BY <1>3 DEF LoginLookup
  <2>2. req'[c].token = req[c].token /\ req'[c].granted = req[c].granted
    BY <1>3 DEF LoginLookup
  <2>3. pc'[c] \notin {"setting", "rotate"} /\ pc[c] \notin {"setting", "rotate"}
    BY <1>3 DEF LoginLookup
  <2> QED BY <2>1, <2>2, <2>3, TokenInvQuietCall
<1>4. CASE LoginStamp(c)
  BY <1>4, TokenInvQuietCall DEF LoginStamp
<1>5. CASE LoginReload(c)
  BY <1>5, TokenInvQuietCall DEF LoginReload
<1>6. CASE RefreshGet(c)
  BY <1>6, TokenInvQuietCall DEF RefreshGet
<1>7. CASE RefreshUser(c)
  BY <1>7, TokenInvQuietCall DEF RefreshUser
<1>8. CASE RefreshSetting(c)
  BY <1>8, TokenInvQuietCall DEF RefreshSetting
<1> QED BY <1>1, <1>2, <1>3, <1>4, <1>5, <1>6, <1>7, <1>8

\* A call arrives with a token some client knows, or with none.
LEMMA TokenInvArrive ==
  ASSUME TypeInv, TokenInv, NEW c \in Calls, Arrive(c)
  PROVE  TokenInv'
<1>1. ASSUME NEW location \in {"lookup", "purge"}, NEW r, Start(c, location, r),
             r.token \notin Fresh, r.granted \notin Fresh
      PROVE  TokenInv'
  <2>1. UNCHANGED tokenVars /\ Fresh' = Fresh
    BY <1>1 DEF Start, tokenVars, Fresh, Live
  <2>2. \A d \in Calls : \/ d # c /\ pc'[d] = pc[d] /\ req'[d] = req[d]
                         \/ d = c /\ pc[d] = "idle" /\ pc'[d] = location /\ req'[d] = r
    BY <1>1 DEF Start, Goto, TypeInv, TypeOK
  <2>3. \A d \in Calls, t \in Tokens : Rotating(d, t)' <=> Rotating(d, t)
    BY <2>2 DEF Rotating
  <2>4. TokensOK' /\ SingleUse' /\ RotationNotLost'
    BY <2>1, <2>3 DEF TokenInv, TokensOK, SingleUse, RotationNotLost, tokenVars, Live
  <2>5. FreshUnknown'
    BY <1>1, <2>1, <2>2 DEF TokenInv, FreshUnknown, tokenVars
  <2> QED BY <2>4, <2>5 DEF TokenInv
<1>2. Nil \notin Fresh /\ \A t \in known : t \notin Fresh
  BY ConstantsAssumption DEF TokenInv, FreshUnknown, Fresh
<1>3. ASSUME NEW u \in Users, StartLogin(c, u) PROVE TokenInv'
  <2> DEFINE r == [NoRequest EXCEPT !.op = "Login", !.user = u]
  <2>1. r.token = Nil /\ r.granted = Nil
    BY DEF NoRequest
  <2> QED BY <1>1, <1>2, <1>3, <2>1 DEF StartLogin
<1>4. ASSUME NEW t \in known, StartRefresh(c, t) PROVE TokenInv'
  <2> DEFINE r == [NoRequest EXCEPT !.op = "RefreshToken", !.token = t, !.now = now]
  <2>1. r.token = t /\ r.granted = Nil
    BY DEF NoRequest
  <2> QED BY <1>1, <1>2, <1>4, <2>1 DEF StartRefresh
<1>5. ASSUME NEW t \in known, StartLogout(c, t) PROVE TokenInv'
  <2> DEFINE r == [NoRequest EXCEPT !.op = "Logout", !.token = t, !.now = now]
  <2>1. r.token = t /\ r.granted = Nil
    BY DEF NoRequest
  <2> QED BY <1>1, <1>2, <1>5, <2>1 DEF StartLogout
<1> QED BY <1>3, <1>4, <1>5 DEF Arrive

\* The sweep and a logout take live tokens out of the table.
LEMMA TokenInvRevokes ==
  ASSUME TypeInv, TokenInv, NEW c \in Calls, SweepExpired(c) \/ LogoutDelete(c)
  PROVE  TokenInv'
<1>1. \A t \in Tokens : /\ Live(t)' => Live(t)
                        /\ Live(t) /\ ~Live(t)' => fate'[t] = "revoked"
                        /\ Live(t) <=> Live(t)' => fate'[t] = fate[t]
  BY DEF SweepExpired, LogoutDelete, TypeInv, TypeOK, Live, LocalsOK, LocalOK
<1>2. UNCHANGED <<heirs, known>>
  BY DEF SweepExpired, LogoutDelete
<1>3. \A d \in Calls : /\ req'[d].token = req[d].token
                       /\ req'[d].granted = req[d].granted
                       /\ pc'[d] \in {"setting", "rotate"} <=> pc[d] \in {"setting", "rotate"}
  BY DEF SweepExpired, LogoutDelete, Goto, Answer, AfterPurge, TypeInv, TypeOK, Request
<1>4. \A d \in Calls, t \in Tokens : Rotating(d, t)' <=> Rotating(d, t)
  BY <1>3 DEF Rotating
<1>5. Fresh' = Fresh
  BY <1>1 DEF Fresh, TokenInv, TokensOK
<1>6. \A t \in Tokens : fate'[t] = "redeemed" <=> fate[t] = "redeemed"
  BY <1>1 DEF TokenInv, TokensOK
<1>7. TokensOK'
  BY <1>1, <1>2, <1>4, <1>6 DEF TokenInv, TokensOK
<1>8. FreshUnknown'
  BY <1>2, <1>3, <1>5 DEF TokenInv, FreshUnknown
<1>9. SingleUse' /\ RotationNotLost'
  BY <1>2, <1>4, <1>6 DEF TokenInv, SingleUse, RotationNotLost
<1> QED BY <1>7, <1>8, <1>9 DEF TokenInv

LEMMA TokenInvLoginSave ==
  ASSUME TypeInv, TokenInv, NEW c \in Calls, LoginSave(c)
  PROVE  TokenInv'
<1> USE DEF TypeInv, TypeOK
<1>1. PICK n \in Fresh : /\ sessions' = [sessions EXCEPT ![n] = req[c].session]
                         /\ req' = [req EXCEPT ![c].granted = n]
  BY DEF LoginSave
<1>2. req[c].session # Nil
  BY ConstantsAssumption DEF LoginSave, LocalsOK, LocalOK
<1>3. \A t \in Tokens : Live(t)' <=> Live(t) \/ t = n
  BY <1>1, <1>2 DEF Live
<1>4. UNCHANGED <<fate, heirs, known>> /\ Fresh' = Fresh \ {n}
  BY <1>3 DEF LoginSave, Fresh, history
<1>5. \A d \in Calls : /\ req'[d].token = req[d].token
                       /\ req'[d].granted \in {req[d].granted, n}
                       /\ pc'[d] \in {"setting", "rotate"} <=> pc[d] \in {"setting", "rotate"}
  BY <1>1 DEF LoginSave, Goto, Request
<1>6. \A d \in Calls, t \in Tokens : Rotating(d, t)' <=> Rotating(d, t)
  BY <1>5 DEF Rotating
<1>7. TokensOK'
  BY <1>3, <1>4, <1>6 DEF TokenInv, TokensOK, Fresh
<1>8. FreshUnknown'
  BY <1>4, <1>5 DEF TokenInv, FreshUnknown
<1>9. SingleUse' /\ RotationNotLost'
  BY <1>4, <1>6 DEF TokenInv, SingleUse, RotationNotLost
<1> QED BY <1>7, <1>8, <1>9 DEF TokenInv

\* The compare-and-delete.
LEMMA TokenInvRevoke ==
  ASSUME TypeInv, TokenInv, NEW c \in Calls, RefreshRevoke(c)
  PROVE  TokenInv'
<1> USE DEF TypeInv, TypeOK
<1> DEFINE t0 == req[c].token
<1>1. CASE ~Revocable(t0, req[c].session.UserID)
  BY <1>1, TokenInvQuietCall DEF RefreshRevoke, Answer, Goto, Request, tokenVars
<1>2. CASE Revocable(t0, req[c].session.UserID)
  <2>1. t0 \in Tokens
    BY DEF RefreshRevoke, LocalsOK, LocalOK
  <2>2. Live(t0) /\ fate[t0] = "none" /\ heirs[t0] = {}
    BY <1>2, <2>1 DEF Revocable, TokenInv, TokensOK, SingleUse
  <2>3. /\ sessions' = [sessions EXCEPT ![t0] = Nil]
        /\ fate' = [fate EXCEPT ![t0] = "redeemed"]
        /\ pc' = [pc EXCEPT ![c] = "setting"]
        /\ UNCHANGED <<req, heirs, known>>
    BY <1>2 DEF RefreshRevoke, Goto
  <2>4. \A t \in Tokens : Live(t)' <=> Live(t) /\ t # t0
    BY <2>3 DEF Live
  <2>5. Fresh' = Fresh
    BY <2>1, <2>2, <2>3, <2>4 DEF Fresh
  <2>6. pc[c] = "revoke"
    BY DEF RefreshRevoke
  <2>7. \A d \in Calls, t \in Tokens :
          Rotating(d, t)' <=> (Rotating(d, t) \/ (d = c /\ t = t0))
    BY <2>3, <2>6 DEF Rotating
  <2>8. \A d \in Calls : ~Rotating(d, t0)
    BY <2>1, <2>2 DEF TokenInv, TokensOK
  <2>9. TokensOK'
    <3>1. \A t \in Tokens : Live(t)' => fate'[t] = "none"
      BY <2>3, <2>4 DEF TokenInv, TokensOK
    <3>2. \A d \in Calls, t \in Tokens : Rotating(d, t)' => fate'[t] = "redeemed" /\ heirs'[t] = {}
      BY <2>1, <2>2, <2>3, <2>7 DEF TokenInv, TokensOK
    <3>3. \A d, e \in Calls, t \in Tokens : Rotating(d, t)' /\ Rotating(e, t)' => d = e
      BY <2>7, <2>8 DEF TokenInv, TokensOK, Rotating
    <3> QED BY <3>1, <3>2, <3>3 DEF TokensOK
  <2>10. FreshUnknown'
    BY <2>3, <2>5 DEF TokenInv, FreshUnknown
  <2>11. SingleUse'
    BY <2>2, <2>3 DEF TokenInv, SingleUse
  <2>12. RotationNotLost'
    <3> SUFFICES ASSUME NEW t \in Tokens, fate'[t] = "redeemed", heirs'[t] = {}
                 PROVE  \E d \in Calls : Rotating(d, t)' /\ \A e \in Calls \ {d} : ~Rotating(e, t)'
      BY DEF RotationNotLost
    <3>1. CASE t = t0
      BY <3>1, <2>7, <2>8
    <3>2. CASE t # t0
      BY <3>2, <2>3, <2>7 DEF TokenInv, RotationNotLost
    <3> QED BY <3>1, <3>2
  <2> QED BY <2>9, <2>10, <2>11, <2>12 DEF TokenInv
<1> QED BY <1>1, <1>2

\* The successor is saved.
LEMMA TokenInvRefreshSave ==
  ASSUME TypeInv, TokenInv, NEW c \in Calls, RefreshSave(c)
  PROVE  TokenInv'
<1> USE DEF TypeInv, TypeOK
<1> DEFINE t0 == req[c].token
<1>1. PICK n \in Fresh :
        /\ sessions' = [sessions EXCEPT ![n] = [req[c].session EXCEPT !.ExpiresAt = req[c].expiresAt]]
        /\ heirs' = [heirs EXCEPT ![t0] = @ \cup {n}]
        /\ req' = [req EXCEPT ![c].granted = n, ![c].result = "ok"]
  BY DEF RefreshSave
<1>2. t0 \in Tokens /\ Rotating(c, t0) /\ fate[t0] = "redeemed" /\ heirs[t0] = {}
  BY DEF RefreshSave, LocalsOK, LocalOK, Rotating, TokenInv, TokensOK
<1>3. sessions'[n] # Nil
  <2>1. req[c].session \in Session
    BY DEF RefreshSave, LocalsOK, LocalOK
  <2>2. [req[c].session EXCEPT !.ExpiresAt = req[c].expiresAt] \in Session
    BY <2>1 DEF Session, Request
  <2> QED BY <1>1, <2>2, ConstantsAssumption DEF Fresh
<1>4. \A t \in Tokens : Live(t)' <=> Live(t) \/ t = n
  BY <1>1, <1>3 DEF Live
<1>5. UNCHANGED <<fate, known>> /\ Fresh' = Fresh \ {n}
  BY <1>4 DEF RefreshSave, Fresh
<1>6. \A d \in Calls : /\ req'[d].token = req[d].token
                       /\ req'[d].granted \in {req[d].granted, n}
  BY <1>1 DEF Request
<1>7. \A d \in Calls, t \in Tokens : Rotating(d, t)' <=> Rotating(d, t) /\ d # c
  BY <1>6 DEF RefreshSave, Goto, Rotating
<1>8. \A t \in Tokens : heirs'[t] = IF t = t0 THEN {n} ELSE heirs[t]
  BY <1>1, <1>2
<1>9. TokensOK'
  <2>1. \A t \in Tokens : Live(t)' => fate'[t] = "none"
    BY <1>4, <1>5 DEF TokenInv, TokensOK, Fresh
  <2>2. \A d \in Calls, t \in Tokens : Rotating(d, t)' => fate'[t] = "redeemed" /\ heirs'[t] = {}
    BY <1>2, <1>5, <1>7, <1>8 DEF TokenInv, TokensOK
  <2>3. \A d, e \in Calls, t \in Tokens : Rotating(d, t)' /\ Rotating(e, t)' => d = e
    BY <1>7 DEF TokenInv, TokensOK
  <2> QED BY <2>1, <2>2, <2>3 DEF TokensOK
<1>10. FreshUnknown'
  BY <1>5, <1>6 DEF TokenInv, FreshUnknown
<1>11. SingleUse'
  BY <1>2, <1>5, <1>8 DEF TokenInv, SingleUse
<1>12. RotationNotLost'
  <2> SUFFICES ASSUME NEW t \in Tokens, fate'[t] = "redeemed", heirs'[t] = {}
               PROVE  \E d \in Calls : Rotating(d, t)' /\ \A e \in Calls \ {d} : ~Rotating(e, t)'
    BY DEF RotationNotLost
  <2>1. t # t0 /\ fate[t] = "redeemed" /\ heirs[t] = {}
    BY <1>5, <1>8
  <2>2. PICK d \in Calls : Rotating(d, t) /\ \A e \in Calls \ {d} : ~Rotating(e, t)
    BY <2>1 DEF TokenInv, RotationNotLost
  <2>3. d # c
    BY <2>1, <2>2 DEF Rotating
  <2> QED BY <2>2, <2>3, <1>7
<1> QED BY <1>9, <1>10, <1>11, <1>12 DEF TokenInv

\* The reply is delivered or lost, and the call's slot is free again.
LEMMA TokenInvReturn ==
  ASSUME TypeInv, TokenInv, NEW c \in Calls, Return(c)
  PROVE  TokenInv'
<1> USE DEF TypeInv, TypeOK
<1>1. \A d \in Calls : \/ d # c /\ pc'[d] = pc[d] /\ req'[d] = req[d]
                       \/ d = c /\ pc[d] = "reply" /\ pc'[d] = "idle" /\ req'[d] = NoRequest
  BY DEF Return, Goto
<1>2. \A d \in Calls, t \in Tokens : Rotating(d, t)' <=> Rotating(d, t)
  BY <1>1 DEF Rotating
<1>3. UNCHANGED <<sessions, fate, heirs>> /\ Fresh' = Fresh
  BY DEF Return, Fresh, Live
<1>4. TokensOK' /\ SingleUse' /\ RotationNotLost'
  BY <1>2, <1>3 DEF TokenInv, TokensOK, SingleUse, RotationNotLost, Live
<1>5. Nil \notin Fresh
  BY ConstantsAssumption DEF Fresh
<1>6. known' \subseteq known \cup {req[c].granted}
  BY DEF Return
<1>7. FreshUnknown'
  BY <1>1, <1>3, <1>5, <1>6 DEF TokenInv, FreshUnknown, NoRequest
<1> QED BY <1>4, <1>7 DEF TokenInv

\* A restart revokes every live token and every rotation in progress.
LEMMA TokenInvCrash == ASSUME TypeInv, TokenInv, Crash PROVE TokenInv'
<1> USE DEF TypeInv, TypeOK
<1>1. \A c \in Calls : pc'[c] = "idle" /\ req'[c].token = Nil /\ req'[c].granted = Nil
  BY DEF Crash, NoRequest
<1>2. \A c \in Calls, t \in Tokens : ~Rotating(c, t)'
  BY <1>1 DEF Rotating
<1>3. \A t \in Tokens :
        /\ ~Live(t)'
        /\ fate'[t] = IF Live(t) \/ (fate[t] = "redeemed" /\ heirs[t] = {})
                        THEN "revoked" ELSE fate[t]
  BY DEF Crash, Live
<1>4. UNCHANGED <<heirs, known>>
  BY DEF Crash
<1>5. Fresh' = Fresh /\ Nil \notin Fresh
  BY <1>3, ConstantsAssumption DEF Fresh
<1>6. TokensOK'
  BY <1>2, <1>3 DEF TokensOK
<1>7. FreshUnknown'
  BY <1>1, <1>4, <1>5 DEF TokenInv, FreshUnknown
<1>8. SingleUse' /\ RotationNotLost'
  BY <1>3, <1>4 DEF TokenInv, TokensOK, SingleUse, RotationNotLost
<1> QED BY <1>6, <1>7, <1>8 DEF TokenInv

LEMMA TokenInvAdminister ==
  ASSUME TypeInv, TokenInv, Administer \/ Tick
  PROVE  TokenInv'
<1>1. UNCHANGED <<tokenVars, pc, req>>
  BY DEF Administer, Tick, SetEnabled, DeleteUser, SetExtend, tokenVars, history
<1> QED BY <1>1, TokenInvQuiet

LEMMA TokenInvNext == TypeInv /\ TokenInv /\ [Next]_vars => TokenInv'
<1> SUFFICES ASSUME TypeInv, TokenInv, [Next]_vars PROVE TokenInv'
  OBVIOUS
<1>1. CASE UNCHANGED vars
  BY <1>1, TokenInvQuiet DEF vars, tokenVars
<1>2. ASSUME NEW c \in Calls, Arrive(c) \/ Step(c) PROVE TokenInv'
  BY <1>2, TokenInvArrive, TokenInvCallMoves, TokenInvRevokes, TokenInvLoginSave,
     TokenInvRevoke, TokenInvRefreshSave, TokenInvReturn
     DEF Step, PurgeStep, LoginStep, RefreshStep
<1> QED BY <1>1, <1>2, TokenInvAdminister, TokenInvCrash DEF Next

\* A refresh token is exchanged at most once, and never after it was revoked.
THEOREM SingleUseHolds == Spec => []SingleUse
<1>1. TypeInv /\ TokenInv => SingleUse
  BY DEF TokenInv
<1> QED BY <1>1, TypeInvInit, TokenInvInit, TypeInvNext, TokenInvNext, PTL DEF Spec

\* A session that has been taken for rotation is in the hands of one call.
THEOREM RotationNotLostHolds == Spec => []RotationNotLost
<1>1. TypeInv /\ TokenInv => RotationNotLost
  BY DEF TokenInv
<1> QED BY <1>1, TypeInvInit, TokenInvInit, TypeInvNext, TokenInvNext, PTL DEF Spec

-----------------------------------------------------------------------------
(* The calls implement SingleUseTokens: every step of the table is a step  *)
(* of the abstract tokens or leaves them alone.                            *)

LEMMA StatusIs ==
  ASSUME TypeInv, TokenInv, NEW t \in Tokens
  PROVE  /\ TokenStatus[t] = "live" <=> Live(t)
         /\ TokenStatus[t] = "owed" <=> fate[t] = "redeemed" /\ heirs[t] = {}
         /\ TokenStatus[t] = "replaced" <=> fate[t] = "redeemed" /\ heirs[t] # {}
         /\ TokenStatus[t] = "revoked" <=> fate[t] = "revoked"
         /\ TokenStatus[t] = "unused" <=> t \in Fresh
         /\ TokenStatus[t] \in {"live", "owed", "replaced", "revoked", "unused"}
BY DEF TokenStatus, TypeInv, TypeOK, TokenInv, TokensOK, Fresh

LEMMA StatusIsNext ==
  ASSUME TypeInv', TokenInv', NEW t \in Tokens
  PROVE  /\ TokenStatus'[t] = "live" <=> Live(t)'
         /\ TokenStatus'[t] = "owed" <=> fate'[t] = "redeemed" /\ heirs'[t] = {}
         /\ TokenStatus'[t] = "replaced" <=> fate'[t] = "redeemed" /\ heirs'[t] # {}
         /\ TokenStatus'[t] = "revoked" <=> fate'[t] = "revoked"
         /\ TokenStatus'[t] = "unused" <=> t \in Fresh'
         /\ TokenStatus'[t] \in {"live", "owed", "replaced", "revoked", "unused"}
BY DEF TokenStatus, TypeInv, TypeOK, TokenInv, TokensOK, Fresh

LEMMA StatusIsFunction ==
  /\ TokenStatus = [t \in Tokens |-> TokenStatus[t]]
  /\ TokenStatus' = [t \in Tokens |-> TokenStatus'[t]]
BY DEF TokenStatus

LEMMA PromiseInit == Init => Promise!Init
<1> SUFFICES ASSUME Init PROVE Promise!Init
  OBVIOUS
<1>1. \A t \in Tokens : ~Live(t) /\ fate[t] = "none"
  BY DEF Init, Live
<1>2. TokenStatus = [t \in Tokens |-> "unused"]
  BY <1>1 DEF TokenStatus
<1> QED BY <1>2 DEF Init, Promise!Init

LEMMA PromiseStutters ==
  ASSUME UNCHANGED <<sessions, fate, heirs>>
  PROVE  UNCHANGED Promise!vars
BY DEF Promise!vars, TokenStatus, Live

LEMMA QuietSteps ==
  ASSUME NEW c \in Calls,
         \/ Arrive(c) \/ CheckPurge(c) \/ StampPurge(c)
         \/ LoginLookup(c) \/ LoginStamp(c) \/ LoginReload(c)
         \/ RefreshGet(c) \/ RefreshUser(c) \/ RefreshSetting(c) \/ Return(c)
  PROVE  UNCHANGED <<sessions, fate, heirs>>
BY DEF Arrive, StartLogin, StartRefresh, StartLogout, Start, CheckPurge, StampPurge,
       LoginLookup, LoginStamp, LoginReload, RefreshGet, RefreshUser, RefreshSetting,
       Return, history

\* The sweep, a logout and a restart revoke.
LEMMA PromiseRevoke ==
  ASSUME TypeInv, TokenInv, TypeInv', TokenInv', UNCHANGED heirs,
         \A t \in Tokens :
           \/ (Live(t)' <=> Live(t)) /\ fate'[t] = fate[t]
           \/ /\ Live(t) \/ (fate[t] = "redeemed" /\ heirs[t] = {})
              /\ ~Live(t)' /\ fate'[t] = "revoked"
  PROVE  Promise!Next
<1> DEFINE S == {t \in Tokens : TokenStatus'[t] # TokenStatus[t]}
<1>1. \A t \in S : TokenStatus[t] \in {"live", "owed"} /\ TokenStatus'[t] = "revoked"
  BY StatusIs, StatusIsNext DEF Fresh
<1>2. TokenStatus' = [t \in Tokens |-> IF t \in S THEN "revoked" ELSE TokenStatus[t]]
  <2>1. \A t \in Tokens : TokenStatus'[t] = IF t \in S THEN "revoked" ELSE TokenStatus[t]
    BY <1>1
  <2> QED BY <2>1 DEF TokenStatus
<1>3. Promise!Revoke(S)
  BY <1>1, <1>2 DEF Promise!Revoke
<1> QED BY <1>3 DEF Promise!Next

LEMMA PromiseIssue ==
  ASSUME TypeInv, TokenInv, TypeInv', TokenInv', NEW c \in Calls, LoginSave(c)
  PROVE  Promise!Next
<1> USE DEF TypeInv, TypeOK
<1>1. PICK n \in Fresh : sessions' = [sessions EXCEPT ![n] = req[c].session]
  BY DEF LoginSave
<1>2. req[c].session # Nil
  BY ConstantsAssumption DEF LoginSave, LocalsOK, LocalOK
<1>3. \A t \in Tokens : Live(t)' <=> Live(t) \/ t = n
  BY <1>1, <1>2 DEF Live
<1>4. UNCHANGED <<fate, heirs>>
  BY DEF LoginSave, history
<1>5. n \in Tokens /\ TokenStatus[n] = "unused" /\ TokenStatus'[n] = "live"
  BY <1>3, StatusIs, StatusIsNext DEF Fresh
<1>6. \A t \in Tokens \ {n} : TokenStatus'[t] = TokenStatus[t]
  BY <1>3, <1>4 DEF TokenStatus
<1>7. TokenStatus' = [TokenStatus EXCEPT ![n] = "live"]
  BY <1>5, <1>6, StatusIsFunction
<1> QED BY <1>4, <1>5, <1>7 DEF Promise!Next, Promise!Issue

LEMMA PromiseRedeem ==
  ASSUME TypeInv, TokenInv, TypeInv', TokenInv', NEW c \in Calls, RefreshRevoke(c)
  PROVE  Promise!Next \/ UNCHANGED Promise!vars
<1> USE DEF TypeInv, TypeOK
<1> DEFINE t0 == req[c].token
<1>1. CASE ~Revocable(t0, req[c].session.UserID)
  BY <1>1, PromiseStutters DEF RefreshRevoke
<1>2. CASE Revocable(t0, req[c].session.UserID)
  <2>1. t0 \in Tokens
    BY DEF RefreshRevoke, LocalsOK, LocalOK
  <2>2. /\ sessions' = [sessions EXCEPT ![t0] = Nil]
        /\ fate' = [fate EXCEPT ![t0] = "redeemed"]
        /\ UNCHANGED heirs
    BY <1>2 DEF RefreshRevoke
  <2>3. Live(t0) /\ heirs[t0] = {}
    BY <1>2, <2>1 DEF Revocable, TokenInv, TokensOK, SingleUse
  <2>4. TokenStatus[t0] = "live" /\ TokenStatus'[t0] = "owed"
    BY <2>1, <2>2, <2>3, StatusIs, StatusIsNext
  <2>5. \A t \in Tokens \ {t0} : TokenStatus'[t] = TokenStatus[t]
    BY <2>2 DEF TokenStatus, Live
  <2>6. TokenStatus' = [TokenStatus EXCEPT ![t0] = "owed"]
    BY <2>4, <2>5, StatusIsFunction
  <2> QED BY <2>1, <2>2, <2>4, <2>6 DEF Promise!Next, Promise!Redeem
<1> QED BY <1>1, <1>2

LEMMA PromiseReplace ==
  ASSUME TypeInv, TokenInv, TypeInv', TokenInv', NEW c \in Calls, RefreshSave(c)
  PROVE  Promise!Next
<1> USE DEF TypeInv, TypeOK
<1> DEFINE t0 == req[c].token
<1>1. PICK n \in Fresh :
        /\ sessions' = [sessions EXCEPT ![n] = [req[c].session EXCEPT !.ExpiresAt = req[c].expiresAt]]
        /\ heirs' = [heirs EXCEPT ![t0] = @ \cup {n}]
  BY DEF RefreshSave
<1>2. t0 \in Tokens /\ fate[t0] = "redeemed" /\ heirs[t0] = {}
  BY DEF RefreshSave, LocalsOK, LocalOK, Rotating, TokenInv, TokensOK
<1>3. sessions'[n] # Nil
  <2>1. req[c].session \in Session
    BY DEF RefreshSave, LocalsOK, LocalOK
  <2>2. [req[c].session EXCEPT !.ExpiresAt = req[c].expiresAt] \in Session
    BY <2>1 DEF Session, Request
  <2> QED BY <1>1, <2>2, ConstantsAssumption DEF Fresh
<1>4. \A t \in Tokens : heirs'[t] = IF t = t0 THEN {n} ELSE heirs[t]
  BY <1>1, <1>2
<1>5. UNCHANGED fate /\ n \in Tokens
  BY DEF RefreshSave, Fresh
<1>6. heirs' = [heirs EXCEPT ![t0] = {n}]
  BY <1>1, <1>4
<1>7. n # t0 /\ TokenStatus[n] = "unused" /\ TokenStatus[t0] = "owed"
  BY <1>2, StatusIs DEF Fresh
<1>8. TokenStatus'[n] = "live" /\ TokenStatus'[t0] = "replaced"
  <2>1. Live(n)' /\ fate'[t0] = "redeemed" /\ heirs'[t0] # {}
    BY <1>2, <1>3, <1>4, <1>5 DEF Live
  <2> QED BY <2>1, <1>2, <1>5, StatusIsNext
<1>9. \A t \in Tokens \ {n, t0} : TokenStatus'[t] = TokenStatus[t]
  BY <1>1, <1>4, <1>5 DEF TokenStatus, Live
<1>10. TokenStatus' = [TokenStatus EXCEPT ![t0] = "replaced", ![n] = "live"]
  BY <1>2, <1>5, <1>7, <1>8, <1>9, StatusIsFunction
<1> QED BY <1>2, <1>6, <1>5, <1>7, <1>10 DEF Promise!Next, Promise!Replace

LEMMA PromiseNext ==
  ASSUME TypeInv, TokenInv, [Next]_vars
  PROVE  [Promise!Next]_(Promise!vars)
<1>1. TypeInv' /\ TokenInv'
  BY TypeInvNext, TokenInvNext
<1>2. CASE UNCHANGED vars
  BY <1>2, PromiseStutters DEF vars
<1>3. ASSUME NEW c \in Calls, Arrive(c) \/ Step(c)
      PROVE  Promise!Next \/ UNCHANGED Promise!vars
  <2>1. CASE SweepExpired(c) \/ LogoutDelete(c)
    <3>1. UNCHANGED heirs
      BY <2>1 DEF SweepExpired, LogoutDelete
    <3>2. \A t \in Tokens : \/ (Live(t)' <=> Live(t)) /\ fate'[t] = fate[t]
                            \/ Live(t) /\ ~Live(t)' /\ fate'[t] = "revoked"
      BY <2>1 DEF SweepExpired, LogoutDelete, Live, TypeInv, TypeOK, LocalsOK, LocalOK
    <3> QED BY <1>1, <3>1, <3>2, PromiseRevoke
  <2> QED BY <1>1, <1>3, <2>1, QuietSteps, PromiseStutters, PromiseIssue, PromiseRedeem,
             PromiseReplace DEF Step, PurgeStep, LoginStep, RefreshStep
<1>4. CASE Administer \/ Tick
  <2>1. UNCHANGED <<sessions, fate, heirs>>
    BY <1>4 DEF Administer, Tick, SetEnabled, DeleteUser, SetExtend, history
  <2> QED BY <2>1, PromiseStutters
<1>5. CASE Crash
  <2>1. \A t \in Tokens :
          \/ (Live(t)' <=> Live(t)) /\ fate'[t] = fate[t]
          \/ /\ Live(t) \/ (fate[t] = "redeemed" /\ heirs[t] = {})
             /\ ~Live(t)' /\ fate'[t] = "revoked"
    BY <1>5 DEF Crash, Live
  <2>2. UNCHANGED heirs
    BY <1>5 DEF Crash
  <2> QED BY <1>1, <2>1, <2>2, PromiseRevoke
<1> QED BY <1>2, <1>3, <1>4, <1>5 DEF Next

\* Login, RefreshToken and Logout, in any interleaving with each other and with
\* restarts, implement single-use tokens.
THEOREM Refinement == Spec => ImplementsSingleUseTokens
<1>1. Spec => [](TypeInv /\ TokenInv)
  BY TypeInvInit, TokenInvInit, TypeInvNext, TokenInvNext, PTL DEF Spec
<1>2. TypeInv /\ TokenInv /\ [Next]_vars => [Promise!Next]_(Promise!vars)
  BY PromiseNext
<1> QED BY <1>1, <1>2, PromiseInit, PTL DEF Spec, ImplementsSingleUseTokens, Promise!Spec

-----------------------------------------------------------------------------
(* Clock values.                                                           *)

\* ClockOK of one call, by its location and its local variables.
CallClockOK(location, r) ==
  /\ r.now <= now
  /\ r.op = "Login" /\ r.session # Nil => r.session.ExpiresAt <= now + RefreshTokenTTL
  /\ \A t \in Tokens :
       r.op = "RefreshToken" /\ r.token = t /\ Live(t) =>
         sessions[t].ExpiresAt <= r.now + RefreshTokenTTL
  /\ location \in {"user", "revoke", "setting", "rotate"} =>
       r.session.ExpiresAt <= r.now + RefreshTokenTTL
  /\ location = "rotate" => /\ r.expiresAt <= r.now + RefreshTokenTTL
                            /\ r.expiresAt >= r.session.ExpiresAt

SessionsClockOK ==
  \A t \in Tokens : Live(t) => sessions[t].ExpiresAt <= now + RefreshTokenTTL

LEMMA ClockParts ==
  ClockOK <=> /\ PurgeWindow
              /\ SessionsClockOK
              /\ \A c \in Calls : CallClockOK(pc[c], req[c])
BY DEF ClockOK, SessionsClockOK, CallClockOK

LEMMA ClockPartsNext ==
  PurgeWindow' /\ SessionsClockOK' /\ (\A c \in Calls : CallClockOK(pc[c], req[c])') => ClockOK'
BY DEF ClockOK, SessionsClockOK, CallClockOK

LEMMA ClockInit == Init => ClockOK
<1> SUFFICES ASSUME Init PROVE ClockOK
  OBVIOUS
<1>1. PurgeWindow /\ SessionsClockOK
  BY ConstantsAssumption DEF Init, PurgeWindow, SessionsClockOK, Live
<1>2. \A c \in Calls : CallClockOK(pc[c], req[c])
  BY DEF Init, CallClockOK, NoRequest
<1> QED BY <1>1, <1>2, ClockParts

\* One call moves; sessions may only leave the table.
LEMMA ClockMoves ==
  ASSUME TypeInv, ClockOK, NEW c \in Calls, NEW location, NEW r,
         CallClockOK(location, r),
         pc' = [pc EXCEPT ![c] = location], req' = [req EXCEPT ![c] = r],
         now' = now, PurgeWindow',
         \A t \in Tokens : Live(t)' => sessions'[t] = sessions[t]
  PROVE  ClockOK'
<1> USE ClockParts DEF TypeInv, TypeOK
<1>1. \A t \in Tokens : Live(t)' => Live(t)
  BY DEF Live
<1>2. SessionsClockOK'
  BY <1>1 DEF SessionsClockOK
<1>3. \A d \in Calls : CallClockOK(pc'[d], req'[d])
  OBVIOUS
<1>4. \A d \in Calls : CallClockOK(pc[d], req[d])'
  BY <1>1, <1>3 DEF CallClockOK
<1> HIDE DEF TypeInv, TypeOK
<1> QED BY <1>2, <1>4, ClockPartsNext

LEMMA ClockGoes ==
  ASSUME TypeInv, ClockOK, NEW c \in Calls, NEW location, CallClockOK(location, req[c]),
         Goto(c, location), req' = req, now' = now, PurgeWindow',
         \A t \in Tokens : Live(t)' => sessions'[t] = sessions[t]
  PROVE  ClockOK'
<1>1. req' = [req EXCEPT ![c] = req[c]]
  BY DEF TypeInv, TypeOK
<1> QED BY <1>1, ClockMoves DEF Goto

LEMMA ClockAnswers ==
  ASSUME TypeInv, ClockOK, NEW c \in Calls, NEW result, Answer(c, result),
         now' = now, UNCHANGED nextPurge,
         \A t \in Tokens : Live(t)' => sessions'[t] = sessions[t]
  PROVE  ClockOK'
<1> DEFINE r == [req[c] EXCEPT !.result = result]
<1>1. req' = [req EXCEPT ![c] = r] /\ pc' = [pc EXCEPT ![c] = "reply"]
  BY DEF Answer, Goto, TypeInv, TypeOK
<1>2. CallClockOK("reply", req[c])
  BY ClockParts DEF CallClockOK
<1>3. req[c] \in Request
  BY DEF TypeInv, TypeOK
<1>4. CallClockOK("reply", r)
  BY <1>2, <1>3 DEF CallClockOK, Request
<1>5. PurgeWindow'
  BY DEF ClockOK, PurgeWindow
<1> QED BY <1>1, <1>4, <1>5, ClockMoves

LEMMA ClockArrive ==
  ASSUME TypeInv, ClockOK, NEW c \in Calls, Arrive(c)
  PROVE  ClockOK'
<1>0. now \in Nat /\ 0 <= now /\ SessionsClockOK
  BY ClockParts, ConstantsAssumption DEF TypeInv, TypeOK
<1>1. ASSUME NEW location \in {"lookup", "purge"}, NEW r, Start(c, location, r),
             r.now \in {0, now}, r.session = Nil, r.op = "RefreshToken" => r.now = now
      PROVE  ClockOK'
  <2>1. CallClockOK(location, r)
    BY <1>0, <1>1 DEF CallClockOK, SessionsClockOK
  <2>2. PurgeWindow'
    BY <1>1 DEF Start, ClockOK, PurgeWindow
  <2> QED BY <1>1, <2>1, <2>2, ClockMoves DEF Start, Goto
<1>2. ASSUME NEW u \in Users, StartLogin(c, u) PROVE ClockOK'
  BY <1>1, <1>2 DEF StartLogin, NoRequest
<1>3. ASSUME NEW t \in known, StartRefresh(c, t) PROVE ClockOK'
  BY <1>1, <1>3 DEF StartRefresh, NoRequest
<1>4. ASSUME NEW t \in known, StartLogout(c, t) PROVE ClockOK'
  BY <1>1, <1>4 DEF StartLogout, NoRequest
<1> QED BY <1>2, <1>3, <1>4 DEF Arrive

LEMMA ClockPurge ==
  ASSUME TypeInv, ClockOK, NEW c \in Calls, PurgeStep(c)
  PROVE  ClockOK'
<1> USE DEF TypeInv, TypeOK
<1>1. CallClockOK(pc[c], req[c]) /\ PurgeWindow
  BY ClockParts
<1>2. ASSUME NEW location \in {"stamp", "sweep", "save", "get", "delete"}
      PROVE  CallClockOK(location, req[c])
  BY <1>1 DEF CallClockOK
<1>3. AfterPurge(req[c].op) \in {"save", "get", "delete"}
  BY DEF AfterPurge
<1>4. CASE CheckPurge(c)
  BY <1>1, <1>2, <1>3, <1>4, ClockGoes DEF CheckPurge, PurgeWindow
<1>5. CASE StampPurge(c)
  <2>1. req[c].now <= now /\ req[c].now \in Nat
    BY <1>1 DEF CallClockOK, Request
  <2>2. PurgeWindow'
    BY <1>5, <2>1, ConstantsAssumption DEF StampPurge, PurgeWindow
  <2> QED BY <1>2, <1>5, <2>2, ClockGoes DEF StampPurge
<1>6. CASE SweepExpired(c)
  <2>1. \A t \in Tokens : Live(t)' => sessions'[t] = sessions[t]
    BY <1>6 DEF SweepExpired, Live
  <2> QED BY <1>1, <1>2, <1>3, <1>6, <2>1, ClockGoes DEF SweepExpired, PurgeWindow
<1> QED BY <1>4, <1>5, <1>6 DEF PurgeStep

\* A session is saved under a fresh token, which no call presents.
LEMMA ClockSaves ==
  ASSUME TypeInv, TokenInv, ClockOK, NEW c \in Calls, NEW n \in Fresh, NEW s, NEW location,
         NEW r, s.ExpiresAt <= now + RefreshTokenTTL, sessions' = [sessions EXCEPT ![n] = s],
         CallClockOK(location, r), r.token = req[c].token,
         pc' = [pc EXCEPT ![c] = location], req' = [req EXCEPT ![c] = r],
         UNCHANGED <<now, nextPurge>>
  PROVE  ClockOK'
<1> USE ClockParts DEF TypeInv, TypeOK
<1>1. \A t \in Tokens : t # n => sessions'[t] = sessions[t] /\ (Live(t)' <=> Live(t))
  BY DEF Live
<1>2. n \in Tokens /\ sessions'[n] = s
  BY DEF Fresh
<1>3. SessionsClockOK'
  BY <1>1, <1>2 DEF SessionsClockOK
<1>4. \A d \in Calls : req'[d].token = req[d].token /\ req[d].token # n
  BY DEF TokenInv, FreshUnknown
<1>5. \A d \in Calls : CallClockOK(pc'[d], req'[d])
  OBVIOUS
<1>6. \A d \in Calls : CallClockOK(pc[d], req[d])'
  BY <1>1, <1>4, <1>5 DEF CallClockOK
<1>7. PurgeWindow'
  BY DEF PurgeWindow
<1> HIDE DEF TypeInv, TypeOK
<1> QED BY <1>3, <1>6, <1>7, ClockPartsNext

LEMMA ClockLogin ==
  ASSUME TypeInv, TokenInv, ClockOK, NEW c \in Calls, LoginStep(c)
  PROVE  ClockOK'
<1> USE DEF TypeInv, TypeOK
<1>0. LocalOK(pc[c], req[c]) /\ req[c] \in Request /\ CallClockOK(pc[c], req[c]) /\ PurgeWindow
  BY ClockParts DEF LocalsOK
<1>1. CASE LoginLookup(c)
  <2> DEFINE s == [UserID |-> req[c].user, LoginAt |-> now,
                   ExpiresAt |-> now + RefreshTokenTTL]
             r == [req[c] EXCEPT !.now = now, !.session = s]
  <2>1. CASE \E e \in Errors : Answer(c, e)
    BY <1>1, <2>1, ClockAnswers DEF LoginLookup
  <2>2. CASE Goto(c, "purge") /\ req' = [req EXCEPT ![c] = r]
    <3>1. req[c].op = "Login" /\ now \in Nat
      BY <1>0, <1>1, ConstantsAssumption DEF LoginLookup, LocalOK
    <3>2. r.op = "Login" /\ r.now = now /\ r.session = s
      BY <1>0, <3>1 DEF Request
    <3>3. CallClockOK("purge", r)
      BY <3>1, <3>2, ConstantsAssumption DEF CallClockOK
    <3> QED BY <1>0, <1>1, <2>2, <3>3, ClockMoves DEF LoginLookup, Goto, PurgeWindow
  <2>3. \/ \E e \in Errors : Answer(c, e)
        \/ Goto(c, "purge") /\ req' = [req EXCEPT ![c] = r]
    BY <1>1 DEF LoginLookup, Errors
  <2> QED BY <2>1, <2>2, <2>3
<1>2. CASE LoginSave(c)
  <2>1. PICK n \in Fresh : /\ sessions' = [sessions EXCEPT ![n] = req[c].session]
                           /\ req' = [req EXCEPT ![c].granted = n]
    BY <1>2 DEF LoginSave
  <2> DEFINE r == [req[c] EXCEPT !.granted = n]
  <2>2. req[c].session \in Session /\ req[c].op = "Login"
    BY <1>0, <1>2 DEF LoginSave, LocalOK
  <2>3. req[c].session.ExpiresAt <= now + RefreshTokenTTL
    BY <1>0, <2>2, ConstantsAssumption DEF CallClockOK
  <2>4. CallClockOK("lastLogin", r) /\ r.token = req[c].token
    BY <1>0, <1>2 DEF LoginSave, CallClockOK, Request
  <2> QED BY <1>2, <2>1, <2>3, <2>4, ClockSaves DEF LoginSave, Goto
<1>3. CASE LoginStamp(c)
  <2>1. CallClockOK("reload", req[c])
    BY <1>0 DEF CallClockOK
  <2> QED BY <1>0, <1>3, <2>1, ClockGoes, ClockAnswers DEF LoginStamp, PurgeWindow
<1>4. CASE LoginReload(c)
  BY <1>4, ClockAnswers DEF LoginReload
<1> QED BY <1>1, <1>2, <1>3, <1>4 DEF LoginStep

LEMMA ClockRefresh ==
  ASSUME TypeInv, TokenInv, ClockOK, NEW c \in Calls, RefreshStep(c)
  PROVE  ClockOK'
<1> USE DEF TypeInv, TypeOK
<1>0. LocalOK(pc[c], req[c]) /\ req[c] \in Request /\ CallClockOK(pc[c], req[c]) /\ PurgeWindow
  BY ClockParts DEF LocalsOK
<1>1. CASE RefreshGet(c)
  <2> DEFINE s == sessions[req[c].token]
             r == [req[c] EXCEPT !.session = s]
  <2>1. CASE Answer(c, "ErrInvalidToken")
    BY <1>1, <2>1, ClockAnswers DEF RefreshGet
  <2>2. CASE s # Nil /\ Goto(c, "user") /\ req' = [req EXCEPT ![c] = r]
    <3>1. req[c].op = "RefreshToken" /\ req[c].token \in Tokens
      BY <1>0, <1>1 DEF RefreshGet, LocalOK
    <3>2. s.ExpiresAt <= req[c].now + RefreshTokenTTL
      BY <1>0, <2>2, <3>1 DEF CallClockOK, Live
    <3>3. CallClockOK("user", r)
      BY <1>0, <3>1, <3>2 DEF CallClockOK, Request
    <3> QED BY <1>0, <1>1, <2>2, <3>3, ClockMoves DEF RefreshGet, Goto, PurgeWindow
  <2> QED BY <1>1, <2>1, <2>2 DEF RefreshGet
<1>2. CASE RefreshUser(c)
  <2>1. CallClockOK("revoke", req[c])
    BY <1>0, <1>2 DEF RefreshUser, CallClockOK
  <2> QED BY <1>0, <1>2, <2>1, ClockGoes, ClockAnswers DEF RefreshUser, PurgeWindow
<1>3. CASE RefreshRevoke(c)
  <2>1. CallClockOK("setting", req[c])
    BY <1>0, <1>3 DEF RefreshRevoke, CallClockOK
  <2>2. \A t \in Tokens : Live(t)' => sessions'[t] = sessions[t]
    BY <1>3 DEF RefreshRevoke, Live
  <2> QED BY <1>0, <1>3, <2>1, <2>2, ClockGoes, ClockAnswers DEF RefreshRevoke, PurgeWindow
<1>4. CASE RefreshSetting(c)
  <2> DEFINE r == [req[c] EXCEPT !.expiresAt = NewExpiry(req[c])]
  <2>1. /\ req[c].session \in Session /\ req[c].now \in Nat
        /\ req[c].session.ExpiresAt <= req[c].now + RefreshTokenTTL
    BY <1>0, <1>4 DEF RefreshSetting, LocalOK, CallClockOK, Request
  <2>2. /\ NewExpiry(req[c]) <= req[c].now + RefreshTokenTTL
        /\ NewExpiry(req[c]) >= req[c].session.ExpiresAt
    BY <2>1, ConstantsAssumption DEF NewExpiry, Session
  <2>3. CallClockOK("rotate", r)
    BY <1>0, <2>1, <2>2 DEF CallClockOK, Request
  <2> QED BY <1>0, <1>4, <2>3, ClockMoves DEF RefreshSetting, Goto, PurgeWindow
<1>5. CASE RefreshSave(c)
  <2> DEFINE s == [req[c].session EXCEPT !.ExpiresAt = req[c].expiresAt]
  <2>1. PICK n \in Fresh : /\ sessions' = [sessions EXCEPT ![n] = s]
                           /\ req' = [req EXCEPT ![c].granted = n, ![c].result = "ok"]
    BY <1>5 DEF RefreshSave
  <2> DEFINE r == [req[c] EXCEPT !.granted = n, !.result = "ok"]
  <2>2. req[c].session \in Session
    BY <1>0, <1>5 DEF RefreshSave, LocalOK
  <2>3. s.ExpiresAt = req[c].expiresAt
    BY <2>2 DEF Session
  <2>4. req[c].now \in Nat /\ req[c].expiresAt \in Nat /\ now \in Nat
    BY <1>0, ConstantsAssumption DEF Request
  <2>5. s.ExpiresAt <= now + RefreshTokenTTL
    BY <1>0, <1>5, <2>3, <2>4, ConstantsAssumption DEF RefreshSave, CallClockOK
  <2>6. CallClockOK("reply", r) /\ r.token = req[c].token
    BY <1>0 DEF CallClockOK, Request
  <2>7. /\ pc' = [pc EXCEPT ![c] = "reply"] /\ req' = [req EXCEPT ![c] = r]
        /\ UNCHANGED <<now, nextPurge>>
    BY <1>5, <2>1 DEF RefreshSave, Goto
  <2> HIDE DEF TypeInv, TypeOK
  <2> HIDE DEF s, r
  <2> QED BY <2>1, <2>5, <2>6, <2>7, ClockSaves
<1> QED BY <1>1, <1>2, <1>3, <1>4, <1>5 DEF RefreshStep

LEMMA ClockOther ==
  ASSUME TypeInv, ClockOK,
         (\E c \in Calls : LogoutDelete(c) \/ Return(c)) \/ Administer \/ Tick \/ Crash
  PROVE  ClockOK'
<1> USE DEF TypeInv, TypeOK
<1>0. now \in Nat /\ nextPurge \in Nat
  BY ConstantsAssumption
<1>1. ASSUME NEW c \in Calls, LogoutDelete(c) PROVE ClockOK'
  <2>1. \A t \in Tokens : Live(t)' => sessions'[t] = sessions[t]
    BY <1>1 DEF LogoutDelete, Live
  <2> QED BY <1>1, <2>1, ClockAnswers DEF LogoutDelete
<1>2. CallClockOK("idle", NoRequest)
  BY <1>0 DEF CallClockOK, NoRequest
<1>3. ASSUME NEW c \in Calls, Return(c) PROVE ClockOK'
  BY <1>2, <1>3, ClockMoves DEF Return, Goto, ClockOK, PurgeWindow
<1>4. CASE Administer
  <2>1. UNCHANGED <<now, sessions, nextPurge, pc, req>>
    BY <1>4 DEF Administer, SetEnabled, DeleteUser, SetExtend
  <2> QED BY <2>1 DEF ClockOK, PurgeWindow, Live
<1>5. CASE Tick
  <2>1. now' = now + 1 /\ UNCHANGED <<sessions, nextPurge, pc, req>>
    BY <1>5 DEF Tick
  <2>2. PurgeWindow'
    BY <1>0, <2>1, ConstantsAssumption DEF ClockOK, PurgeWindow
  <2>3. SessionsClockOK'
    <3> SUFFICES ASSUME NEW t \in Tokens, Live(t)
                 PROVE  sessions[t].ExpiresAt <= now + 1 + RefreshTokenTTL
      BY <2>1 DEF SessionsClockOK, Live
    <3>1. sessions[t] \in Session
      BY DEF Live
    <3> QED BY <1>0, <3>1, ConstantsAssumption DEF ClockOK, Session
  <2>4. ASSUME NEW c \in Calls PROVE CallClockOK(pc[c], req[c])'
    <3>1. CallClockOK(pc[c], req[c]) /\ req[c] \in Request
      BY ClockParts
    <3>2. req[c].now \in Nat /\ req[c].session \in Session \cup {Nil}
      BY <3>1 DEF Request
    <3>3. req[c].now <= now + 1
      BY <1>0, <3>1, <3>2 DEF CallClockOK
    <3>4. req[c].op = "Login" /\ req[c].session # Nil =>
            req[c].session.ExpiresAt <= now + 1 + RefreshTokenTTL
      BY <1>0, <3>1, <3>2, ConstantsAssumption DEF CallClockOK, Session
    <3> QED BY <2>1, <3>1, <3>3, <3>4 DEF CallClockOK, Live
  <2> QED BY <2>2, <2>3, <2>4, ClockPartsNext
<1>6. CASE Crash
  <2>1. PurgeWindow' /\ SessionsClockOK'
    BY <1>0, <1>6, ConstantsAssumption DEF Crash, PurgeWindow, SessionsClockOK, Live
  <2>2. \A c \in Calls : CallClockOK(pc[c], req[c])'
    BY <1>0, <1>6 DEF Crash, CallClockOK, NoRequest
  <2> QED BY <2>1, <2>2, ClockPartsNext
<1> QED BY <1>1, <1>3, <1>4, <1>5, <1>6

LEMMA ClockNext == TypeInv /\ TokenInv /\ ClockOK /\ [Next]_vars => ClockOK'
<1> SUFFICES ASSUME TypeInv, TokenInv, ClockOK, [Next]_vars PROVE ClockOK'
  OBVIOUS
<1>1. CASE UNCHANGED vars
  BY <1>1 DEF vars, ClockOK, PurgeWindow, Live
<1>2. CASE Next
  BY <1>2, ClockArrive, ClockPurge, ClockLogin, ClockRefresh, ClockOther DEF Next, Step
<1> QED BY <1>1, <1>2

\* The inductive invariant of the session calls holds in every reachable state.
THEOREM InvariantHolds == Spec => []IInv
<1>1. TypeInv /\ TokenInv /\ ClockOK => IInv
  BY DEF TypeInv, TokenInv, IInv
<1> QED BY <1>1, TypeInvInit, TokenInvInit, ClockInit, TypeInvNext, TokenInvNext, ClockNext,
           PTL DEF Spec

\* However calls race on nextRefreshPurgeUnixNano, the next purge is never
\* more than one interval away (purgeExpiredRefreshSessions).
THEOREM PurgeWindowHolds == Spec => []PurgeWindow
<1>1. IInv => PurgeWindow
  BY DEF IInv, ClockOK
<1> QED BY <1>1, InvariantHolds, PTL

\* RefreshToken never moves the end of a session backwards, whatever becomes
\* of the extend setting meanwhile.
THEOREM RefreshNeverShortensHolds == Spec => []RefreshNeverShortens
<1>1. IInv => RefreshNeverShortens
  BY DEF IInv, ClockOK, RefreshNeverShortens
<1> QED BY <1>1, InvariantHolds, PTL

-----------------------------------------------------------------------------
(* What an answer says about the account.                                  *)

\* The locations of a Login that has looked at the account.
LoginPassed == {"purge", "stamp", "sweep", "save", "lastLogin", "reload"}

\* The account a call is about.
UserOf(r) == IF r.op = "Login" THEN r.user ELSE r.session.UserID

\* A call that got past the account saw it enabled, and its answer fits what
\* it has seen; saw are the users enabled at some moment of the call.
CallAccountOK(location, r, saw) ==
  /\ location # "idle" => EnabledUsers \subseteq saw
  /\ r.op = "Login" /\ location \in LoginPassed => r.user \in saw
  /\ location \in {"revoke", "setting", "rotate"} => r.session.UserID \in saw
  /\ location = "reply" =>
       /\ r.op = "Logout" => r.result = "ok"
       /\ r.op = "RefreshToken" => r.result # "ErrInvalidArgument"
       /\ r.op \in {"Login", "RefreshToken"} /\ r.result = "ok" => UserOf(r) \in saw
       /\ r.result = "ErrUserNotFound" => UserOf(r) \in Users /\ accounts[UserOf(r)] = "gone"
       /\ r.result = "ErrUserNotFound" /\ r.op = "Login" => r.user \in saw

AccountInv == \A c \in Calls : CallAccountOK(pc[c], req[c], sawEnabled[c])

LEMMA AccountInit == Init => AccountInv
BY DEF Init, AccountInv, CallAccountOK, NoRequest

\* One call moves while nobody touches the accounts.
LEMMA AccountMoves ==
  ASSUME TypeInv, AccountInv, NEW c \in Calls, NEW location, NEW r,
         CallAccountOK(location, r, sawEnabled[c]),
         pc' = [pc EXCEPT ![c] = location], req' = [req EXCEPT ![c] = r],
         UNCHANGED <<accounts, sawEnabled>>
  PROVE  AccountInv'
<1>1. \A d \in Calls : CallAccountOK(pc'[d], req'[d], sawEnabled'[d])
  BY DEF AccountInv, TypeInv, TypeOK
<1>2. EnabledUsers' = EnabledUsers
  BY DEF EnabledUsers
<1> QED BY <1>1, <1>2 DEF AccountInv, CallAccountOK

LEMMA AccountGoes ==
  ASSUME TypeInv, AccountInv, NEW c \in Calls, NEW location,
         CallAccountOK(location, req[c], sawEnabled[c]), Goto(c, location), UNCHANGED req,
         UNCHANGED <<accounts, sawEnabled>>
  PROVE  AccountInv'
<1>1. req' = [req EXCEPT ![c] = req[c]]
  BY DEF TypeInv, TypeOK
<1> QED BY <1>1, AccountMoves DEF Goto

\* A call is answered with a result that fits its account.
LEMMA AccountAnswers ==
  ASSUME TypeInv, AccountInv, NEW c \in Calls, pc[c] # "idle", NEW result, Answer(c, result),
         UNCHANGED <<accounts, sawEnabled>>,
         req[c].op = "Logout" => result = "ok",
         req[c].op = "RefreshToken" => result # "ErrInvalidArgument",
         req[c].op \in {"Login", "RefreshToken"} /\ result = "ok" =>
           UserOf(req[c]) \in sawEnabled[c],
         result = "ErrUserNotFound" =>
           UserOf(req[c]) \in Users /\ accounts[UserOf(req[c])] = "gone",
         result = "ErrUserNotFound" /\ req[c].op = "Login" => req[c].user \in sawEnabled[c]
  PROVE  AccountInv'
<1> DEFINE r == [req[c] EXCEPT !.result = result]
<1>1. req' = [req EXCEPT ![c] = r] /\ pc' = [pc EXCEPT ![c] = "reply"]
  BY DEF Answer, Goto, TypeInv, TypeOK
<1>2. req[c] \in Request
  BY DEF TypeInv, TypeOK
<1>3. r.op = req[c].op /\ r.result = result /\ UserOf(r) = UserOf(req[c])
  BY <1>2 DEF UserOf, Request
<1>4. EnabledUsers \subseteq sawEnabled[c]
  BY DEF AccountInv, CallAccountOK
<1>5. CallAccountOK("reply", r, sawEnabled[c])
  BY <1>3, <1>4 DEF CallAccountOK, LoginPassed
<1> QED BY <1>1, <1>5, AccountMoves

LEMMA AccountArrive ==
  ASSUME TypeInv, AccountInv, NEW c \in Calls, Arrive(c)
  PROVE  AccountInv'
<1>1. ASSUME NEW location \in {"lookup", "purge"}, NEW r, Start(c, location, r),
             r.op = "Login" => location = "lookup"
      PROVE  AccountInv'
  <2>1. EnabledUsers' = EnabledUsers
    BY <1>1 DEF Start, store, EnabledUsers
  <2>2. \A d \in Calls :
          \/ /\ d # c /\ pc'[d] = pc[d] /\ req'[d] = req[d] /\ sawEnabled'[d] = sawEnabled[d]
          \/ /\ d = c /\ pc'[d] = location /\ req'[d] = r /\ sawEnabled'[d] = EnabledUsers
    BY <1>1 DEF Start, Goto, TypeInv, TypeOK
  <2>3. accounts' = accounts
    BY <1>1 DEF Start, store
  <2> QED BY <1>1, <2>1, <2>2, <2>3 DEF AccountInv, CallAccountOK, LoginPassed
<1>2. ASSUME NEW u \in Users, StartLogin(c, u) PROVE AccountInv'
  BY <1>1, <1>2 DEF StartLogin
<1>3. ASSUME NEW t \in known, StartRefresh(c, t) PROVE AccountInv'
  BY <1>1, <1>3 DEF StartRefresh, NoRequest
<1>4. ASSUME NEW t \in known, StartLogout(c, t) PROVE AccountInv'
  BY <1>1, <1>4 DEF StartLogout, NoRequest
<1> QED BY <1>2, <1>3, <1>4 DEF Arrive

LEMMA AccountPurge ==
  ASSUME TypeInv, AccountInv, NEW c \in Calls, PurgeStep(c)
  PROVE  AccountInv'
<1>1. CallAccountOK(pc[c], req[c], sawEnabled[c]) /\ LocalOK(pc[c], req[c])
  BY DEF AccountInv, TypeInv, LocalsOK
<1>2. pc[c] \in {"purge", "stamp", "sweep"} /\ UNCHANGED <<accounts, sawEnabled, req>>
  BY DEF PurgeStep, CheckPurge, StampPurge, SweepExpired, store, history
<1>3. PICK location \in {"stamp", "sweep", AfterPurge(req[c].op)} : Goto(c, location)
  BY DEF PurgeStep, CheckPurge, StampPurge, SweepExpired
<1>4. CallAccountOK(location, req[c], sawEnabled[c])
  BY <1>1, <1>2 DEF CallAccountOK, AfterPurge, LoginPassed
<1> QED BY <1>2, <1>3, <1>4, AccountGoes

LEMMA AccountLogin ==
  ASSUME TypeInv, AccountInv, NEW c \in Calls, LoginStep(c)
  PROVE  AccountInv'
<1> USE DEF TypeInv, TypeOK
<1>0. /\ LocalOK(pc[c], req[c]) /\ req[c] \in Request
      /\ CallAccountOK(pc[c], req[c], sawEnabled[c])
  BY DEF AccountInv, LocalsOK
<1>1. UNCHANGED <<accounts, sawEnabled>>
  BY DEF LoginStep, LoginLookup, LoginSave, LoginStamp, LoginReload, store, history
<1>2. req[c].op = "Login" /\ req[c].user \in Users /\ UserOf(req[c]) = req[c].user
  BY <1>0 DEF LoginStep, LoginLookup, LoginSave, LoginStamp, LoginReload, LocalOK, UserOf
<1>3. CASE LoginLookup(c)
  <2> DEFINE r == [req[c] EXCEPT !.now = now,
                                 !.session = [UserID |-> req[c].user, LoginAt |-> now,
                                              ExpiresAt |-> now + RefreshTokenTTL]]
  <2>1. CASE \E e \in {"internal", "ErrInvalidArgument", "ErrInvalidCredentials"} : Answer(c, e)
    BY <1>1, <1>2, <1>3, <2>1, AccountAnswers DEF LoginLookup
  <2>2. CASE /\ accounts[req[c].user] = "enabled"
             /\ Goto(c, "purge") /\ req' = [req EXCEPT ![c] = r]
    <3>1. r.op = "Login" /\ r.user = req[c].user
      BY <1>0, <1>2 DEF Request
    <3>2. EnabledUsers \subseteq sawEnabled[c] /\ req[c].user \in EnabledUsers
      BY <1>0, <1>2, <1>3, <2>2 DEF LoginLookup, CallAccountOK, EnabledUsers
    <3>3. CallAccountOK("purge", r, sawEnabled[c])
      BY <3>1, <3>2 DEF CallAccountOK
    <3> QED BY <1>1, <2>2, <3>3, AccountMoves DEF Goto
  <2> QED BY <1>3, <2>1, <2>2 DEF LoginLookup
<1>4. CASE LoginSave(c)
  <2>1. PICK t \in Fresh : req' = [req EXCEPT ![c].granted = t]
    BY <1>4 DEF LoginSave
  <2> DEFINE r == [req[c] EXCEPT !.granted = t]
  <2>2. r.op = "Login" /\ r.user = req[c].user
    BY <1>0, <1>2 DEF Request
  <2>3. CallAccountOK("lastLogin", r, sawEnabled[c])
    BY <1>0, <1>2, <1>4, <2>2 DEF LoginSave, CallAccountOK, LoginPassed
  <2> QED BY <1>1, <1>4, <2>1, <2>3, AccountMoves DEF LoginSave, Goto
<1>5. CASE LoginStamp(c)
  <2>1. CallAccountOK("reload", req[c], sawEnabled[c])
    BY <1>0, <1>5 DEF LoginStamp, CallAccountOK, LoginPassed
  <2>2. req[c].user \in sawEnabled[c]
    BY <1>0, <1>2, <1>5 DEF LoginStamp, CallAccountOK, LoginPassed
  <2> QED BY <1>1, <1>2, <1>5, <2>1, <2>2, AccountAnswers, AccountGoes DEF LoginStamp
<1>6. CASE LoginReload(c)
  <2>1. UserOf(req[c]) \in sawEnabled[c]
    BY <1>0, <1>2, <1>6 DEF LoginReload, CallAccountOK, LoginPassed
  <2> QED BY <1>1, <1>2, <1>6, <2>1, AccountAnswers DEF LoginReload
<1> QED BY <1>3, <1>4, <1>5, <1>6 DEF LoginStep

LEMMA AccountRefresh ==
  ASSUME TypeInv, AccountInv, NEW c \in Calls, RefreshStep(c)
  PROVE  AccountInv'
<1> USE DEF TypeInv, TypeOK
<1>0. /\ LocalOK(pc[c], req[c]) /\ req[c] \in Request
      /\ CallAccountOK(pc[c], req[c], sawEnabled[c])
  BY DEF AccountInv, LocalsOK
<1>1. UNCHANGED <<accounts, sawEnabled>>
  BY DEF RefreshStep, RefreshGet, RefreshUser, RefreshRevoke, RefreshSetting, RefreshSave,
         store, history
<1>2. req[c].op = "RefreshToken" /\ EnabledUsers \subseteq sawEnabled[c]
  BY <1>0 DEF RefreshStep, RefreshGet, RefreshUser, RefreshRevoke, RefreshSetting, RefreshSave,
              LocalOK, CallAccountOK
<1>3. CASE RefreshGet(c)
  <2> DEFINE r == [req[c] EXCEPT !.session = sessions[req[c].token]]
  <2>1. CASE Answer(c, "ErrInvalidToken")
    BY <1>1, <1>2, <1>3, <2>1, AccountAnswers DEF RefreshGet
  <2>2. CASE Goto(c, "user") /\ req' = [req EXCEPT ![c] = r]
    <3>1. r.op = "RefreshToken"
      BY <1>0, <1>2 DEF Request
    <3>2. CallAccountOK("user", r, sawEnabled[c])
      BY <1>2, <3>1 DEF CallAccountOK
    <3> QED BY <1>1, <2>2, <3>2, AccountMoves DEF Goto
  <2> QED BY <1>3, <2>1, <2>2 DEF RefreshGet
<1>4. CASE RefreshUser(c)
  <2>1. UserOf(req[c]) = req[c].session.UserID /\ req[c].session.UserID \in Users
    BY <1>0, <1>2, <1>4 DEF RefreshUser, LocalOK, Session, UserOf
  <2>2. accounts[req[c].session.UserID] = "enabled" =>
          CallAccountOK("revoke", req[c], sawEnabled[c])
    BY <1>2, <2>1 DEF CallAccountOK, EnabledUsers
  <2> QED BY <1>1, <1>2, <1>4, <2>1, <2>2, AccountAnswers, AccountGoes DEF RefreshUser
<1>5. CASE RefreshRevoke(c)
  <2>1. CallAccountOK("setting", req[c], sawEnabled[c])
    BY <1>0, <1>2, <1>5 DEF RefreshRevoke, CallAccountOK
  <2> QED BY <1>1, <1>2, <1>5, <2>1, AccountAnswers, AccountGoes DEF RefreshRevoke
<1>6. CASE RefreshSetting(c)
  <2> DEFINE r == [req[c] EXCEPT !.expiresAt = NewExpiry(req[c])]
  <2>1. r.op = "RefreshToken" /\ r.session = req[c].session
    BY <1>0, <1>2 DEF Request
  <2>2. CallAccountOK("rotate", r, sawEnabled[c])
    BY <1>0, <1>2, <1>6, <2>1 DEF RefreshSetting, CallAccountOK
  <2> QED BY <1>1, <1>6, <2>2, AccountMoves DEF RefreshSetting, Goto
<1>7. CASE RefreshSave(c)
  <2>1. PICK t \in Fresh : req' = [req EXCEPT ![c].granted = t, ![c].result = "ok"]
    BY <1>7 DEF RefreshSave
  <2> DEFINE r == [req[c] EXCEPT !.granted = t, !.result = "ok"]
  <2>2. r.op = "RefreshToken" /\ r.session = req[c].session /\ r.result = "ok"
    BY <1>0, <1>2 DEF Request
  <2>3. CallAccountOK("reply", r, sawEnabled[c])
    BY <1>0, <1>2, <1>7, <2>2 DEF RefreshSave, CallAccountOK, UserOf, LoginPassed
  <2>4. pc' = [pc EXCEPT ![c] = "reply"] /\ req' = [req EXCEPT ![c] = r]
    BY <1>7, <2>1 DEF RefreshSave, Goto
  <2> HIDE DEF TypeInv, TypeOK, r
  <2> QED BY <1>1, <2>3, <2>4, AccountMoves
<1> QED BY <1>3, <1>4, <1>5, <1>6, <1>7 DEF RefreshStep

\* Accounts are enabled in the sight of every call in flight, and an account
\* that is gone stays gone.
LEMMA AccountAdminister ==
  ASSUME TypeInv, AccountInv, Administer \/ Tick
  PROVE  AccountInv'
<1> USE DEF TypeInv, TypeOK
<1>1. UNCHANGED <<pc, req>>
  BY DEF Administer, Tick, SetEnabled, DeleteUser, SetExtend
<1>2. \A u \in Users : accounts[u] = "gone" => accounts'[u] = "gone"
  BY DEF Administer, Tick, SetEnabled, DeleteUser, SetExtend, store
<1>3. \A c \in Calls : sawEnabled[c] \subseteq sawEnabled'[c]
  BY DEF Administer, Tick, SetEnabled, DeleteUser, SetExtend, history
<1>4. \A c \in Calls : pc[c] # "idle" /\ EnabledUsers \subseteq sawEnabled[c] =>
                         EnabledUsers' \subseteq sawEnabled'[c]
  BY DEF Administer, Tick, SetEnabled, DeleteUser, SetExtend, EnabledUsers, store, history
<1> QED BY <1>1, <1>2, <1>3, <1>4 DEF AccountInv, CallAccountOK

LEMMA AccountOther ==
  ASSUME TypeInv, AccountInv, (\E c \in Calls : LogoutDelete(c) \/ Return(c)) \/ Crash
  PROVE  AccountInv'
<1> USE DEF TypeInv, TypeOK
<1>1. ASSUME NEW c \in Calls, LogoutDelete(c) PROVE AccountInv'
  <2>1. req[c].op = "Logout"
    BY <1>1 DEF LogoutDelete, LocalsOK, LocalOK
  <2> QED BY <1>1, <2>1, AccountAnswers DEF LogoutDelete, store
<1>2. ASSUME NEW c \in Calls, Return(c) PROVE AccountInv'
  <2>1. \A d \in Calls :
          \/ /\ d # c /\ pc'[d] = pc[d] /\ req'[d] = req[d] /\ sawEnabled'[d] = sawEnabled[d]
          \/ d = c /\ pc'[d] = "idle"
    BY <1>2 DEF Return, Goto
  <2>2. accounts' = accounts /\ EnabledUsers' = EnabledUsers
    BY <1>2 DEF Return, store, EnabledUsers
  <2> QED BY <2>1, <2>2 DEF AccountInv, CallAccountOK, LoginPassed
<1>3. CASE Crash
  BY <1>3 DEF Crash, AccountInv, CallAccountOK, LoginPassed
<1> QED BY <1>1, <1>2, <1>3

LEMMA AccountNext == TypeInv /\ AccountInv /\ [Next]_vars => AccountInv'
<1> SUFFICES ASSUME TypeInv, AccountInv, [Next]_vars PROVE AccountInv'
  OBVIOUS
<1>1. CASE UNCHANGED vars
  BY <1>1 DEF vars, AccountInv, CallAccountOK, EnabledUsers
<1>2. CASE Next
  BY <1>2, AccountArrive, AccountPurge, AccountLogin, AccountRefresh, AccountAdminister,
     AccountOther DEF Next, Step
<1> QED BY <1>1, <1>2

\* Login and RefreshToken answer "ok" only for an account that was enabled at
\* some moment of the call, whatever administrators do meanwhile.
THEOREM EnabledDuringCallHolds == Spec => []EnabledDuringCall
<1>1. AccountInv => EnabledDuringCall
  BY DEF AccountInv, CallAccountOK, EnabledDuringCall, UserOf
<1> QED BY <1>1, TypeInvInit, TypeInvNext, AccountInit, AccountNext, PTL DEF Spec

\* The gRPC codes of Login, RefreshToken and Logout: a logout always succeeds,
\* and NotFound means that the account is gone, to a login that it was enabled
\* while the call ran.
THEOREM ReplyCodesHolds == Spec => []ReplyCodes
<1>1. AccountInv => ReplyCodes
  <2> SUFFICES ASSUME AccountInv, NEW c \in Calls, pc[c] = "reply"
               PROVE  LET code == StatusOf(req[c].result) IN
                      /\ req[c].op = "Logout" => code = "OK"
                      /\ code = "NotFound" => accounts[UserOf(req[c])] = "gone"
                      /\ code = "NotFound" /\ req[c].op = "Login" =>
                           UserOf(req[c]) \in sawEnabled[c]
                      /\ req[c].op = "Login" =>
                           code \in {"OK", "Unauthenticated", "InvalidArgument", "Internal",
                                     "NotFound"}
                      /\ req[c].op = "RefreshToken" =>
                           code \in {"OK", "Unauthenticated", "Internal", "NotFound"}
    BY DEF ReplyCodes, UserOf
  <2>1. CallAccountOK("reply", req[c], sawEnabled[c])
    BY DEF AccountInv
  <2> QED BY <2>1 DEF CallAccountOK, StatusOf, UserOf
<1> QED BY <1>1, TypeInvInit, TypeInvNext, AccountInit, AccountNext, PTL DEF Spec

-----------------------------------------------------------------------------
(* What a call has read of the table, and what a logout leaves in it.      *)

\* A refresh that has found its session found it good, and until the token
\* leaves the table its session stays the one that was read.
ReadOK ==
  \A c \in Calls :
    pc[c] \in {"user", "revoke"} =>
      /\ req[c].now <= req[c].session.ExpiresAt
      /\ Live(req[c].token) => sessions[req[c].token] = req[c].session

TableInv == ReadOK /\ LogoutFinal

LEMMA TableInit == Init => TableInv
BY DEF Init, TableInv, ReadOK, LogoutFinal

\* Tokens that have been saved keep their session or lose it, and no call
\* comes to depend on what it has read or deleted.
LEMMA TableKept ==
  ASSUME TypeInv, TokenInv, TableInv,
         \A t \in Tokens \ Fresh : sessions'[t] \in {sessions[t], Nil},
         \A d \in Calls :
           \/ pc'[d] = pc[d] /\ req'[d] = req[d]
           \/ pc'[d] \notin {"user", "revoke", "reply"}
           \/ pc'[d] = "reply" /\ req'[d].op # "Logout"
  PROVE  TableInv'
<1>1. \A d \in Calls : req[d].token \notin Fresh
  BY DEF TokenInv, FreshUnknown
<1>2. ReadOK'
  <2> SUFFICES ASSUME NEW d \in Calls, pc'[d] \in {"user", "revoke"}
               PROVE  /\ req'[d].now <= req'[d].session.ExpiresAt
                      /\ sessions'[req'[d].token] # Nil =>
                           sessions'[req'[d].token] = req'[d].session
    BY DEF ReadOK, Live
  <2>1. pc'[d] = pc[d] /\ req'[d] = req[d]
    OBVIOUS
  <2>2. req[d].token \in Tokens
    BY <2>1 DEF TypeInv, LocalsOK, LocalOK
  <2> QED BY <1>1, <2>1, <2>2 DEF TableInv, ReadOK, Live
<1>3. LogoutFinal'
  <2> SUFFICES ASSUME NEW d \in Calls, pc'[d] = "reply", req'[d].op = "Logout"
               PROVE  sessions'[req'[d].token] = Nil
    BY DEF LogoutFinal, Live
  <2>1. pc'[d] = pc[d] /\ req'[d] = req[d]
    OBVIOUS
  <2>2. req[d].token \in Tokens
    BY <2>1 DEF TypeInv, LocalsOK, LocalOK
  <2> QED BY <1>1, <2>1, <2>2 DEF TableInv, LogoutFinal, Live
<1> QED BY <1>2, <1>3 DEF TableInv

\* The steps of one call that neither look a session up nor end a logout.
LEMMA TableMoves ==
  ASSUME TypeInv, TokenInv, TableInv, NEW c \in Calls,
         \/ Arrive(c) \/ PurgeStep(c) \/ LoginStep(c)
         \/ RefreshRevoke(c) \/ RefreshSetting(c) \/ RefreshSave(c) \/ Return(c)
  PROVE  TableInv'
<1> USE DEF TypeInv, TypeOK, Goto, Answer
<1>0. LocalOK(pc[c], req[c]) /\ req[c] \in Request
  BY DEF LocalsOK
<1>1. \A d \in Calls \ {c} : pc'[d] = pc[d] /\ req'[d] = req[d]
  <2>1. CASE Arrive(c)
    BY <2>1 DEF Arrive, StartLogin, StartRefresh, StartLogout, Start
  <2>2. CASE PurgeStep(c)
    BY <2>2 DEF PurgeStep, CheckPurge, StampPurge, SweepExpired
  <2>3. CASE LoginStep(c)
    BY <2>3 DEF LoginStep, LoginLookup, LoginSave, LoginStamp, LoginReload
  <2>4. CASE RefreshRevoke(c) \/ RefreshSetting(c) \/ RefreshSave(c) \/ Return(c)
    BY <2>4 DEF RefreshRevoke, RefreshSetting, RefreshSave, Return
  <2> QED BY <2>1, <2>2, <2>3, <2>4
<1>2. pc'[c] \notin {"user", "revoke", "reply"} \/ (pc'[c] = "reply" /\ req'[c].op # "Logout")
  <2>1. CASE Arrive(c)
    BY <2>1 DEF Arrive, StartLogin, StartRefresh, StartLogout, Start
  <2>2. CASE PurgeStep(c)
    BY <2>2 DEF PurgeStep, CheckPurge, StampPurge, SweepExpired, AfterPurge
  <2>3. CASE LoginStep(c)
    BY <1>0, <2>3 DEF LoginStep, LoginLookup, LoginSave, LoginStamp, LoginReload, LocalOK,
                      Request
  <2>4. CASE RefreshRevoke(c) \/ RefreshSetting(c) \/ RefreshSave(c)
    <3>1. req[c].op = "RefreshToken"
      BY <1>0, <2>4 DEF RefreshRevoke, RefreshSetting, RefreshSave, LocalOK
    <3>2. req'[c].op = req[c].op
      <4>1. CASE RefreshRevoke(c)
        BY <1>0, <4>1 DEF RefreshRevoke, Request
      <4>2. CASE RefreshSetting(c)
        BY <1>0, <4>2 DEF RefreshSetting, Request
      <4>3. CASE RefreshSave(c)
        <5>1. PICK t \in Fresh : req' = [req EXCEPT ![c].granted = t, ![c].result = "ok"]
          BY <4>3 DEF RefreshSave
        <5> QED BY <1>0, <5>1 DEF Request
      <4> QED BY <2>4, <4>1, <4>2, <4>3
    <3>3. pc'[c] \in {"setting", "rotate", "reply"}
      BY <2>4 DEF RefreshRevoke, RefreshSetting, RefreshSave
    <3> QED BY <3>1, <3>2, <3>3
  <2>5. CASE Return(c)
    BY <2>5 DEF Return
  <2> QED BY <2>1, <2>2, <2>3, <2>4, <2>5
<1>3. \A t \in Tokens \ Fresh : sessions'[t] \in {sessions[t], Nil}
  <2>1. CASE Arrive(c)
    BY <2>1, QuietSteps
  <2>2. CASE PurgeStep(c)
    BY <2>2 DEF PurgeStep, CheckPurge, StampPurge, SweepExpired
  <2>3. CASE LoginStep(c)
    BY <2>3 DEF LoginStep, LoginLookup, LoginSave, LoginStamp, LoginReload
  <2>4. CASE RefreshRevoke(c) \/ RefreshSetting(c) \/ RefreshSave(c) \/ Return(c)
    BY <2>4 DEF RefreshRevoke, RefreshSetting, RefreshSave, Return
  <2> QED BY <2>1, <2>2, <2>3, <2>4
<1> QED BY <1>1, <1>2, <1>3, TableKept

\* RefreshToken looks the session up, and the account after it.
LEMMA TableLookup ==
  ASSUME TypeInv, TokenInv, TableInv, NEW c \in Calls, RefreshGet(c) \/ RefreshUser(c)
  PROVE  TableInv'
<1> USE DEF TypeInv, TypeOK, Goto, Answer
<1>0. /\ LocalOK(pc[c], req[c]) /\ req[c] \in Request
      /\ req[c].op = "RefreshToken" /\ req[c].token \in Tokens
  BY DEF LocalsOK, LocalOK, RefreshGet, RefreshUser
<1>1. \A d \in Calls \ {c} : pc'[d] = pc[d] /\ req'[d] = req[d]
  BY DEF RefreshGet, RefreshUser
<1>2. UNCHANGED sessions
  BY DEF RefreshGet, RefreshUser
<1>3. CASE pc'[c] = "reply"
  <2>1. req'[c].op # "Logout"
    BY <1>0, <1>3 DEF RefreshGet, RefreshUser, Request
  <2> QED BY <1>1, <1>2, <1>3, <2>1, TableKept
<1>4. CASE pc'[c] # "reply"
  <2>1. /\ req'[c].now <= req'[c].session.ExpiresAt
        /\ Live(req'[c].token) => sessions[req'[c].token] = req'[c].session
    <3>1. CASE RefreshGet(c)
      <4> DEFINE s == sessions[req[c].token]
      <4>1. s # Nil /\ ~Expired(s, req[c].now) /\ req' = [req EXCEPT ![c].session = s]
        BY <1>4, <3>1 DEF RefreshGet
      <4>2. req'[c].now = req[c].now /\ req'[c].token = req[c].token /\ req'[c].session = s
        BY <1>0, <4>1 DEF Request
      <4>3. s \in Session /\ req[c].now \in Nat
        BY <1>0, <4>1 DEF Request
      <4>4. req[c].now <= s.ExpiresAt
        BY <4>1, <4>3 DEF Expired, Session
      <4> QED BY <4>2, <4>4
    <3>2. CASE RefreshUser(c)
      <4>1. req' = req
        BY <1>4, <3>2 DEF RefreshUser
      <4> QED BY <3>2, <4>1 DEF RefreshUser, TableInv, ReadOK
    <3> QED BY <3>1, <3>2
  <2>2. ReadOK'
    BY <1>1, <1>2, <2>1 DEF TableInv, ReadOK, Live
  <2>3. LogoutFinal'
    BY <1>1, <1>2, <1>4 DEF TableInv, LogoutFinal, Live
  <2> QED BY <2>2, <2>3 DEF TableInv
<1> QED BY <1>3, <1>4

LEMMA TableLogout ==
  ASSUME TypeInv, TokenInv, TableInv, NEW c \in Calls, LogoutDelete(c)
  PROVE  TableInv'
<1> USE DEF TypeInv, TypeOK, Goto, Answer
<1>1. \A d \in Calls \ {c} : pc'[d] = pc[d] /\ req'[d] = req[d]
  BY DEF LogoutDelete
<1>2. pc'[c] = "reply" /\ req'[c].token = req[c].token /\ req[c].token \in Tokens
  BY DEF LogoutDelete, LocalsOK, LocalOK, Request
<1>3. \A t \in Tokens : sessions'[t] = IF t = req[c].token THEN Nil ELSE sessions[t]
  BY <1>2 DEF LogoutDelete
<1>4. \A d \in Calls : pc[d] \in {"user", "revoke"} \/ (pc[d] = "reply" /\ req[d].op = "Logout") =>
                         req[d].token \in Tokens
  BY DEF LocalsOK, LocalOK
<1>5. ReadOK'
  BY <1>1, <1>2, <1>3, <1>4 DEF TableInv, ReadOK, Live
<1>6. LogoutFinal'
  BY <1>1, <1>2, <1>3, <1>4 DEF TableInv, LogoutFinal, Live
<1> QED BY <1>5, <1>6 DEF TableInv

LEMMA TableNext == TypeInv /\ TokenInv /\ TableInv /\ [Next]_vars => TableInv'
<1> SUFFICES ASSUME TypeInv, TokenInv, TableInv, [Next]_vars PROVE TableInv'
  OBVIOUS
<1>1. CASE Administer \/ Tick \/ UNCHANGED vars
  <2>1. UNCHANGED <<sessions, pc, req>>
    BY <1>1 DEF Administer, Tick, SetEnabled, DeleteUser, SetExtend, vars
  <2> QED BY <2>1, TableKept
<1>2. CASE Crash
  BY <1>2, TableKept DEF Crash
<1>3. ASSUME NEW c \in Calls, Arrive(c) \/ Step(c) PROVE TableInv'
  BY <1>3, TableMoves, TableLookup, TableLogout DEF Step, RefreshStep
<1> QED BY <1>1, <1>2, <1>3 DEF Next

\* Once Logout has deleted the token's session, no refresh, purge or restart
\* brings it back.
THEOREM LogoutFinalHolds == Spec => []LogoutFinal
<1>1. TableInv => LogoutFinal
  BY DEF TableInv
<1> QED BY <1>1, TypeInvInit, TypeInvNext, TokenInvInit, TokenInvNext, TableInit, TableNext,
           PTL DEF Spec

\* RefreshToken takes only a session that had not expired on its arrival,
\* although the purge is throttled and the account is looked up in between.
THEOREM ExpiredNeverRedeemedHolds == Spec => ExpiredNeverRedeemed
<1>1. ASSUME TypeInv, TableInv, [Next]_vars, NEW t \in Tokens,
             fate[t] = "none", fate'[t] = "redeemed"
      PROVE  \E c \in Calls : /\ req[c].op = "RefreshToken"
                              /\ req[c].token = t
                              /\ req[c].now <= sessions[t].ExpiresAt
  <2> USE DEF TypeInv, TypeOK
  <2>1. PICK c \in Calls : RefreshRevoke(c)
    <3>1. \A c \in Calls : Arrive(c) \/ CheckPurge(c) \/ StampPurge(c) \/ Return(c) => fate' = fate
      BY QuietSteps DEF Arrive, StartLogin, StartRefresh, StartLogout, Start, CheckPurge,
                        StampPurge, Return, history
    <3>2. \A c \in Calls : LoginStep(c) => fate' = fate
      BY DEF LoginStep, LoginLookup, LoginSave, LoginStamp, LoginReload, history
    <3>3. \A c \in Calls : RefreshStep(c) /\ ~RefreshRevoke(c) => fate' = fate
      BY DEF RefreshStep, RefreshGet, RefreshUser, RefreshSetting, RefreshSave, history
    <3>4. \A c \in Calls : SweepExpired(c) \/ LogoutDelete(c) => fate'[t] \in {fate[t], "revoked"}
      BY <1>1 DEF SweepExpired, LogoutDelete
    <3>5. Administer \/ Tick \/ UNCHANGED vars => fate' = fate
      BY DEF Administer, Tick, SetEnabled, DeleteUser, SetExtend, vars, history
    <3>6. Crash => fate'[t] \in {fate[t], "revoked"}
      BY DEF Crash
    <3> QED BY <1>1, <3>1, <3>2, <3>3, <3>4, <3>5, <3>6 DEF Next, Step, PurgeStep
  <2>2. req[c].op = "RefreshToken" /\ req[c].token \in Tokens /\ pc[c] = "revoke"
    BY <1>1, <2>1 DEF RefreshRevoke, LocalsOK, LocalOK
  <2>3. t = req[c].token /\ Live(t)
    BY <1>1, <2>1, <2>2 DEF RefreshRevoke, Revocable
  <2> QED BY <1>1, <2>2, <2>3 DEF TableInv, ReadOK
<1>2. TypeInv /\ TableInv /\ [Next]_vars =>
        [\A t \in Tokens :
           (fate[t] = "none" /\ fate'[t] = "redeemed") =>
             \E c \in Calls : /\ req[c].op = "RefreshToken"
                              /\ req[c].token = t
                              /\ req[c].now <= sessions[t].ExpiresAt]_vars
  BY <1>1
<1> QED BY <1>2, TypeInvInit, TypeInvNext, TokenInvInit, TokenInvNext, TableInit, TableNext,
           PTL DEF Spec, ExpiredNeverRedeemed

\* A session that is not redeemed ends in a logout of its token, in a restart
\* or past its expiry (purgeExpiredRefreshSessions, Logout).
THEOREM EndsOnlyWhenDueHolds == Spec => EndsOnlyWhenDue
<1> DEFINE Due(t) == \/ now > sessions[t].ExpiresAt
                     \/ \E c \in Calls : pc[c] = "delete" /\ req[c].token = t /\ pc'[c] = "reply"
                     \/ Crash
<1>1. ASSUME TypeInv, TokenInv, ClockOK, [Next]_vars, NEW t \in Tokens,
             Live(t), ~Live(t)', fate'[t] = "revoked"
      PROVE  Due(t)
  <2> USE DEF TypeInv, TypeOK
  <2>1. ASSUME NEW c \in Calls, SweepExpired(c) PROVE now > sessions[t].ExpiresAt
    <3>1. req[c].now <= now /\ req[c].now \in Nat /\ now \in Nat
      BY <1>1, ConstantsAssumption DEF ClockOK, Request
    <3>2. sessions[t] \in Session
      BY <1>1 DEF Live
    <3>3. req[c].now > sessions[t].ExpiresAt
      BY <1>1, <2>1 DEF SweepExpired, Expired, Live
    <3> QED BY <3>1, <3>2, <3>3 DEF Session
  <2>2. ASSUME NEW c \in Calls, LogoutDelete(c) PROVE Due(t)
    BY <1>1, <2>2 DEF LogoutDelete, LocalsOK, LocalOK, Live, Answer, Goto
  <2>3. ASSUME NEW c \in Calls, RefreshRevoke(c) PROVE FALSE
    BY <1>1, <2>3 DEF RefreshRevoke, LocalsOK, LocalOK, Live, TokenInv, TokensOK
  <2>4. ASSUME NEW c \in Calls, LoginSave(c) \/ RefreshSave(c) PROVE FALSE
    <3>1. fate' = fate
      BY <2>4 DEF LoginSave, RefreshSave, history
    <3> QED BY <1>1, <3>1 DEF TokenInv, TokensOK
  <2>5. CASE Administer \/ Tick \/ UNCHANGED vars
    BY <1>1, <2>5 DEF Administer, Tick, SetEnabled, DeleteUser, SetExtend, vars, Live
  <2>6. ASSUME UNCHANGED sessions PROVE FALSE
    BY <1>1, <2>6 DEF Live
  <2> HIDE DEF TypeInv, TypeOK, Due
  <2>7. ASSUME NEW c \in Calls, Arrive(c) \/ Step(c) PROVE Due(t)
    BY <2>1, <2>2, <2>3, <2>4, <2>6, <2>7, QuietSteps
       DEF Step, PurgeStep, LoginStep, RefreshStep, Due
  <2> QED BY <1>1, <2>5, <2>7 DEF Next, Due
<1>2. TypeInv /\ TokenInv /\ ClockOK /\ [Next]_vars =>
        [\A t \in Tokens : (Live(t) /\ ~Live(t)' /\ fate'[t] = "revoked") => Due(t)]_vars
  BY <1>1
<1> QED BY <1>2, TypeInvInit, TypeInvNext, TokenInvInit, TokenInvNext, ClockInit, ClockNext,
           PTL DEF Spec, EndsOnlyWhenDue

-----------------------------------------------------------------------------
(* The lifetime of a session while refreshes do not extend it.             *)

\* A session ends a TTL after the login it descends from.
Fixed(session) == session.ExpiresAt = session.LoginAt + RefreshTokenTTL

CallFixedOK(location, r) ==
  /\ r.session # Nil => Fixed(r.session)
  /\ location = "rotate" => r.expiresAt = r.session.ExpiresAt

\* In the table and in the hands of calls: what is fixed stays fixed for as
\* long as no refresh has seen the extend setting on.
FixedInv ==
  ~everExtended =>
    /\ ~extend
    /\ \A t \in Tokens : Live(t) => Fixed(sessions[t])
    /\ \A c \in Calls : CallFixedOK(pc[c], req[c])

LEMMA FixedInit == Init => FixedInv
BY DEF Init, FixedInv, CallFixedOK, NoRequest, Live

\* One call moves; sessions leave the table, or fixed ones enter it.
LEMMA FixedMoves ==
  ASSUME TypeInv, FixedInv, NEW c \in Calls, NEW location, NEW r,
         ~everExtended => CallFixedOK(location, r),
         pc' = [pc EXCEPT ![c] = location], req' = [req EXCEPT ![c] = r],
         UNCHANGED <<extend, everExtended>>,
         ~everExtended =>
           \A t \in Tokens : Live(t)' => sessions'[t] = sessions[t] \/ Fixed(sessions'[t])
  PROVE  FixedInv'
<1> SUFFICES ASSUME ~everExtended PROVE FixedInv'
  BY DEF FixedInv
<1>1. \A d \in Calls : CallFixedOK(pc'[d], req'[d])
  BY DEF FixedInv, TypeInv, TypeOK
<1>2. \A t \in Tokens : Live(t)' => Fixed(sessions'[t])
  BY DEF FixedInv, Live
<1>3. ~extend'
  BY DEF FixedInv
<1> QED BY <1>1, <1>2, <1>3 DEF FixedInv, CallFixedOK, Fixed, Live

LEMMA FixedGoes ==
  ASSUME TypeInv, FixedInv, NEW c \in Calls, NEW location, location # "rotate",
         Goto(c, location), UNCHANGED <<req, extend, everExtended>>,
         \A t \in Tokens : Live(t)' => sessions'[t] = sessions[t]
  PROVE  FixedInv'
<1>1. req' = [req EXCEPT ![c] = req[c]]
  BY DEF TypeInv, TypeOK
<1>2. ~everExtended => CallFixedOK(location, req[c])
  BY DEF FixedInv, CallFixedOK
<1> QED BY <1>1, <1>2, FixedMoves DEF Goto

LEMMA FixedAnswers ==
  ASSUME TypeInv, FixedInv, NEW c \in Calls, NEW result, Answer(c, result),
         UNCHANGED <<extend, everExtended>>,
         \A t \in Tokens : Live(t)' => sessions'[t] = sessions[t]
  PROVE  FixedInv'
<1> DEFINE r == [req[c] EXCEPT !.result = result]
<1>1. req' = [req EXCEPT ![c] = r] /\ pc' = [pc EXCEPT ![c] = "reply"]
  BY DEF Answer, Goto, TypeInv, TypeOK
<1>2. r.session = req[c].session
  BY DEF TypeInv, TypeOK, Request
<1>3. ~everExtended => CallFixedOK("reply", r)
  BY <1>2 DEF FixedInv, CallFixedOK
<1> QED BY <1>1, <1>3, FixedMoves

LEMMA FixedArrive ==
  ASSUME TypeInv, FixedInv, NEW c \in Calls, Arrive(c)
  PROVE  FixedInv'
<1>1. ASSUME NEW location \in {"lookup", "purge"}, NEW r, Start(c, location, r), r.session = Nil
      PROVE  FixedInv'
  <2>1. CallFixedOK(location, r)
    BY <1>1 DEF CallFixedOK
  <2> QED BY <1>1, <2>1, FixedMoves DEF Start, Goto, store
<1> QED BY <1>1 DEF Arrive, StartLogin, StartRefresh, StartLogout, NoRequest

LEMMA FixedPurge ==
  ASSUME TypeInv, FixedInv, NEW c \in Calls, PurgeStep(c)
  PROVE  FixedInv'
<1>1. AfterPurge(req[c].op) # "rotate"
  BY DEF AfterPurge
<1>2. \A t \in Tokens : Live(t)' => sessions'[t] = sessions[t]
  BY DEF PurgeStep, CheckPurge, StampPurge, SweepExpired, Live
<1>3. PICK location \in {"stamp", "sweep", AfterPurge(req[c].op)} : Goto(c, location)
  BY DEF PurgeStep, CheckPurge, StampPurge, SweepExpired
<1>4. UNCHANGED <<req, extend, everExtended>>
  BY DEF PurgeStep, CheckPurge, StampPurge, SweepExpired, store, history
<1> QED BY <1>1, <1>2, <1>3, <1>4, FixedGoes

LEMMA FixedLogin ==
  ASSUME TypeInv, FixedInv, NEW c \in Calls, LoginStep(c)
  PROVE  FixedInv'
<1> USE DEF TypeInv, TypeOK
<1>0. LocalOK(pc[c], req[c]) /\ req[c] \in Request
  BY DEF LocalsOK
<1>1. UNCHANGED <<extend, everExtended>>
  BY DEF LoginStep, LoginLookup, LoginSave, LoginStamp, LoginReload, store, history
<1>2. CASE LoginLookup(c)
  <2> DEFINE s == [UserID |-> req[c].user, LoginAt |-> now,
                   ExpiresAt |-> now + RefreshTokenTTL]
             r == [req[c] EXCEPT !.now = now, !.session = s]
  <2>1. CASE \E e \in Errors : Answer(c, e)
    BY <1>1, <1>2, <2>1, FixedAnswers DEF LoginLookup, Live
  <2>2. CASE Goto(c, "purge") /\ req' = [req EXCEPT ![c] = r]
    <3>1. r.session = s
      BY <1>0 DEF Request
    <3>2. CallFixedOK("purge", r)
      BY <3>1 DEF CallFixedOK, Fixed
    <3> QED BY <1>1, <1>2, <2>2, <3>2, FixedMoves DEF LoginLookup, Goto
  <2>3. \/ \E e \in Errors : Answer(c, e)
        \/ Goto(c, "purge") /\ req' = [req EXCEPT ![c] = r]
    BY <1>2 DEF LoginLookup, Errors
  <2> QED BY <2>1, <2>2, <2>3
<1>3. CASE LoginSave(c)
  <2>1. PICK n \in Fresh : /\ sessions' = [sessions EXCEPT ![n] = req[c].session]
                           /\ req' = [req EXCEPT ![c].granted = n]
    BY <1>3 DEF LoginSave
  <2> DEFINE r == [req[c] EXCEPT !.granted = n]
  <2>2. r.session = req[c].session /\ req[c].session \in Session
    BY <1>0, <1>3 DEF LoginSave, LocalOK, Request
  <2>3. ~everExtended => Fixed(req[c].session) /\ CallFixedOK("lastLogin", r)
    BY <2>2, ConstantsAssumption DEF FixedInv, CallFixedOK
  <2>4. ~everExtended =>
          \A t \in Tokens : Live(t)' => sessions'[t] = sessions[t] \/ Fixed(sessions'[t])
    BY <2>1, <2>3 DEF Fresh
  <2> QED BY <1>1, <1>3, <2>1, <2>3, <2>4, FixedMoves DEF LoginSave, Goto
<1>4. CASE LoginStamp(c)
  BY <1>1, <1>4, FixedGoes, FixedAnswers DEF LoginStamp
<1>5. CASE LoginReload(c)
  BY <1>1, <1>5, FixedAnswers DEF LoginReload
<1> QED BY <1>2, <1>3, <1>4, <1>5 DEF LoginStep

LEMMA FixedRefresh ==
  ASSUME TypeInv, FixedInv, NEW c \in Calls, RefreshStep(c)
  PROVE  FixedInv'
<1> USE DEF TypeInv, TypeOK
<1>0. LocalOK(pc[c], req[c]) /\ req[c] \in Request
  BY DEF LocalsOK
<1>1. UNCHANGED <<extend, everExtended>>
  BY DEF RefreshStep, RefreshGet, RefreshUser, RefreshRevoke, RefreshSetting, RefreshSave,
         store, history
<1>2. CASE RefreshGet(c)
  <2> DEFINE s == sessions[req[c].token]
             r == [req[c] EXCEPT !.session = s]
  <2>1. CASE Answer(c, "ErrInvalidToken")
    BY <1>1, <1>2, <2>1, FixedAnswers DEF RefreshGet
  <2>2. CASE s # Nil /\ Goto(c, "user") /\ req' = [req EXCEPT ![c] = r]
    <3>1. req[c].token \in Tokens /\ r.session = s
      BY <1>0, <1>2 DEF RefreshGet, LocalOK, Request
    <3>2. ~everExtended => CallFixedOK("user", r)
      BY <2>2, <3>1 DEF FixedInv, CallFixedOK, Live
    <3> QED BY <1>1, <1>2, <2>2, <3>2, FixedMoves DEF RefreshGet, Goto
  <2> QED BY <1>2, <2>1, <2>2 DEF RefreshGet
<1>3. CASE RefreshUser(c)
  BY <1>1, <1>3, FixedGoes, FixedAnswers DEF RefreshUser
<1>4. CASE RefreshRevoke(c)
  <2>1. \A t \in Tokens : Live(t)' => sessions'[t] = sessions[t]
    BY <1>4 DEF RefreshRevoke, Live
  <2> QED BY <1>1, <1>4, <2>1, FixedGoes, FixedAnswers DEF RefreshRevoke
<1>5. CASE RefreshSetting(c)
  <2> DEFINE r == [req[c] EXCEPT !.expiresAt = NewExpiry(req[c])]
  <2>1. r.session = req[c].session /\ r.expiresAt = NewExpiry(req[c])
    BY <1>0 DEF Request
  <2>2. ~everExtended => CallFixedOK("rotate", r)
    BY <2>1 DEF FixedInv, CallFixedOK, NewExpiry
  <2> QED BY <1>1, <1>5, <2>2, FixedMoves DEF RefreshSetting, Goto
<1>6. CASE RefreshSave(c)
  <2> DEFINE s == [req[c].session EXCEPT !.ExpiresAt = req[c].expiresAt]
  <2>1. PICK n \in Fresh : /\ sessions' = [sessions EXCEPT ![n] = s]
                           /\ req' = [req EXCEPT ![c].granted = n, ![c].result = "ok"]
    BY <1>6 DEF RefreshSave
  <2> DEFINE r == [req[c] EXCEPT !.granted = n, !.result = "ok"]
  <2>2. req[c].session \in Session
    BY <1>0, <1>6 DEF RefreshSave, LocalOK
  <2>3. s.ExpiresAt = req[c].expiresAt /\ s.LoginAt = req[c].session.LoginAt
    BY <2>2 DEF Session
  <2>4. ~everExtended => Fixed(s)
    <3>1. ~everExtended => CallFixedOK("rotate", req[c])
      BY <1>6 DEF RefreshSave, FixedInv
    <3> HIDE DEF s
    <3> QED BY <2>2, <2>3, <3>1, ConstantsAssumption DEF CallFixedOK, Fixed
  <2>5. r.session = req[c].session
    BY <1>0 DEF Request
  <2>6. ~everExtended => CallFixedOK("reply", r)
    BY <2>5 DEF FixedInv, CallFixedOK
  <2>7. pc' = [pc EXCEPT ![c] = "reply"] /\ req' = [req EXCEPT ![c] = r]
    BY <1>6, <2>1 DEF RefreshSave, Goto
  <2> HIDE DEF s, r
  <2>8. ~everExtended =>
          \A t \in Tokens : Live(t)' => sessions'[t] = sessions[t] \/ Fixed(sessions'[t])
    BY <2>1, <2>4 DEF Fresh
  <2> HIDE DEF TypeInv, TypeOK
  <2> QED BY <1>1, <2>6, <2>7, <2>8, FixedMoves
<1> QED BY <1>2, <1>3, <1>4, <1>5, <1>6 DEF RefreshStep

LEMMA FixedOther ==
  ASSUME TypeInv, FixedInv,
         (\E c \in Calls : LogoutDelete(c) \/ Return(c)) \/ Administer \/ Tick \/ Crash
  PROVE  FixedInv'
<1> USE DEF TypeInv, TypeOK
<1>1. ASSUME NEW c \in Calls, LogoutDelete(c) PROVE FixedInv'
  <2>1. \A t \in Tokens : Live(t)' => sessions'[t] = sessions[t]
    BY <1>1 DEF LogoutDelete, Live
  <2> QED BY <1>1, <2>1, FixedAnswers DEF LogoutDelete, store
<1>2. ASSUME NEW c \in Calls, Return(c) PROVE FixedInv'
  <2>1. CallFixedOK("idle", NoRequest)
    BY DEF CallFixedOK, NoRequest
  <2> QED BY <1>2, <2>1, FixedMoves DEF Return, Goto, store
<1>3. CASE Administer \/ Tick
  <2>1. UNCHANGED <<sessions, pc, req>>
    BY <1>3 DEF Administer, Tick, SetEnabled, DeleteUser, SetExtend
  <2>2. everExtended' \/ (UNCHANGED everExtended /\ (extend' => extend))
    BY <1>3 DEF Administer, Tick, SetEnabled, DeleteUser, SetExtend, store, history
  <2> QED BY <2>1, <2>2 DEF FixedInv, CallFixedOK, Fixed, Live
<1>4. CASE Crash
  BY <1>4 DEF Crash, store, FixedInv, CallFixedOK, NoRequest, Live
<1> QED BY <1>1, <1>2, <1>3, <1>4

LEMMA FixedNext == TypeInv /\ FixedInv /\ [Next]_vars => FixedInv'
<1> SUFFICES ASSUME TypeInv, FixedInv, [Next]_vars PROVE FixedInv'
  OBVIOUS
<1>1. CASE UNCHANGED vars
  BY <1>1 DEF vars, FixedInv, CallFixedOK, Fixed, Live
<1>2. CASE Next
  BY <1>2, FixedArrive, FixedPurge, FixedLogin, FixedRefresh, FixedOther DEF Next, Step
<1> QED BY <1>1, <1>2

\* Without refresh_token_extend_on_refresh every session ends
\* refresh_token_ttl after its login, however often it is rotated.
THEOREM FixedLifetimeHolds == Spec => []FixedLifetime
<1>1. FixedInv => FixedLifetime
  BY DEF FixedInv, FixedLifetime, Fixed
<1> QED BY <1>1, TypeInvInit, TypeInvNext, FixedInit, FixedNext, PTL DEF Spec
=============================================================================
