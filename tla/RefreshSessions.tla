--------------------------- MODULE RefreshSessions ---------------------------
(***************************************************************************)
(* The refresh-token sessions of the service (internal/service/main.go):   *)
(* Login, RefreshToken and Logout, the in-memory session table they share, *)
(* the lazy purge of expired sessions and the restart that empties the     *)
(* table.  Every call is cut into the steps between which another call can *)
(* run: the session table is locked by each helper on its own, never by a  *)
(* whole call, and the purge's timestamp is not locked at all.             *)
(*                                                                         *)
(* Tokens stand for their SHA-256 hashes.  A token is chosen when it is    *)
(* saved: until then nobody else can name it.  Access tokens, passwords    *)
(* and client metadata have no influence on the table and are left out.    *)
(***************************************************************************)
EXTENDS Integers, FiniteSets

CONSTANTS
  Calls,            \* calls in flight at the same time
  Users,            \* user ids
  Tokens,           \* refresh tokens; a bound, the code draws 32 random bytes
  Nil,              \* no session, no token, no user
  RefreshTokenTTL,  \* auth.refresh_token_ttl
  PurgeInterval,    \* defaultRefreshPurgeInterval
  MaxTime           \* bound on the clock

(***************************************************************************)
(* refreshSession.  LoginAt, the time of the login a session descends      *)
(* from, is history: the code does not keep it.                            *)
(***************************************************************************)
Session == [UserID : Users, LoginAt : Nat, ExpiresAt : Nat]

ASSUME ConstantsAssumption ==
  /\ RefreshTokenTTL \in Nat \ {0}
  /\ PurgeInterval \in Nat \ {0}
  /\ MaxTime \in Nat
  /\ Nil \notin Users \cup Tokens \cup Session

Ops == {"Login", "RefreshToken", "Logout"}

Errors ==
  {"ErrInvalidArgument", "ErrInvalidCredentials", "ErrInvalidToken", "ErrUserNotFound",
   "internal"}

\* The local variables of a call.
Request ==
  [op : Ops \cup {"none"},
   user : Users \cup {Nil},         \* whose credentials Login was given
   token : Tokens \cup {Nil},       \* the token RefreshToken or Logout was given
   now : Nat,
   session : Session \cup {Nil},    \* the session read or about to be saved
   expiresAt : Nat,
   granted : Tokens \cup {Nil},     \* the token saved for the caller
   result : Errors \cup {"none", "ok"}]

NoRequest ==
  [op |-> "none", user |-> Nil, token |-> Nil, now |-> 0, session |-> Nil,
   expiresAt |-> 0, granted |-> Nil, result |-> "none"]

VARIABLES
  now,           \* the clock
  accounts,      \* the users table: "enabled", "disabled" or "gone"
  extend,        \* settings.RefreshTokenExtendOnRefresh
  sessions,      \* s.refreshSessions
  nextPurge,     \* s.nextRefreshPurgeUnixNano
  pc,            \* where each call is
  req,           \* the local variables of each call
  known,         \* tokens some client has received
  \* History, read by the properties only:
  fate,          \* how a token left the table: "none", "redeemed" or "revoked"
  heirs,         \* the tokens saved in exchange for each token
  sawEnabled,    \* users enabled at some moment of each call in flight
  everExtended   \* the extend setting has been on

store   == <<accounts, extend>>
history == <<fate, heirs, sawEnabled, everExtended>>
vars == <<now, accounts, extend, sessions, nextPurge, pc, req, known,
          fate, heirs, sawEnabled, everExtended>>

Locations ==
  {"idle", "lookup", "purge", "stamp", "sweep", "save", "lastLogin", "reload",
   "get", "user", "revoke", "setting", "rotate", "delete", "reply"}

TypeOK ==
  /\ now \in 0..MaxTime
  /\ accounts \in [Users -> {"enabled", "disabled", "gone"}]
  /\ extend \in BOOLEAN
  /\ sessions \in [Tokens -> Session \cup {Nil}]
  /\ nextPurge \in Nat
  /\ pc \in [Calls -> Locations]
  /\ req \in [Calls -> Request]
  /\ known \in SUBSET Tokens
  /\ fate \in [Tokens -> {"none", "redeemed", "revoked"}]
  /\ heirs \in [Tokens -> SUBSET Tokens]
  /\ sawEnabled \in [Calls -> SUBSET Users]
  /\ everExtended \in BOOLEAN

Init ==
  /\ now = 0
  /\ accounts \in [Users -> {"enabled", "disabled"}]
  /\ extend \in BOOLEAN
  /\ sessions = [t \in Tokens |-> Nil]
  /\ nextPurge = 0
  /\ pc = [c \in Calls |-> "idle"]
  /\ req = [c \in Calls |-> NoRequest]
  /\ known = {}
  /\ fate = [t \in Tokens |-> "none"]
  /\ heirs = [t \in Tokens |-> {}]
  /\ sawEnabled = [c \in Calls |-> {}]
  /\ everExtended = extend

-----------------------------------------------------------------------------
Live(t) == sessions[t] # Nil

\* Faulty variant: a token may come back once it has left the table.
Fresh_Reused == {t \in Tokens : ~Live(t)}

\* generateOpaqueToken never returns a token twice.
Fresh == {t \in Tokens : ~Live(t) /\ fate[t] = "none"}

\* now.After(session.ExpiresAt): a session is good at its last instant.
Expired(session, at) == at > session.ExpiresAt

EnabledUsers == {u \in Users : accounts[u] = "enabled"}

Goto(c, location) == pc' = [pc EXCEPT ![c] = location]

Answer(c, result) ==
  /\ Goto(c, "reply")
  /\ req' = [req EXCEPT ![c].result = result]

\* Where a call goes on when the purge is over.
AfterPurge(op) ==
  CASE op = "Login" -> "save"
    [] op = "RefreshToken" -> "get"
    [] OTHER -> "delete"

-----------------------------------------------------------------------------
(* Calls arrive.  A string that was never issued finds nothing in the      *)
(* table, as a token that has left it does, so known tokens are enough.    *)

\* Bound: a token is left for every call in flight that may save one.
TokensLeft ==
  Cardinality({d \in Calls : pc[d] # "idle" /\ req[d].op # "Logout"
                               /\ req[d].granted = Nil})
    < Cardinality(Fresh)

Start(c, location, request) ==
  /\ pc[c] = "idle"
  /\ Goto(c, location)
  /\ req' = [req EXCEPT ![c] = request]
  /\ sawEnabled' = [sawEnabled EXCEPT ![c] = EnabledUsers]
  /\ UNCHANGED <<now, store, sessions, nextPurge, known, fate, heirs, everExtended>>

StartLogin(c, u) ==
  /\ TokensLeft
  /\ Start(c, "lookup", [NoRequest EXCEPT !.op = "Login", !.user = u])

\* The call's now is taken on arrival, before anything is read.
StartRefresh(c, t) ==
  /\ TokensLeft
  /\ Start(c, "purge", [NoRequest EXCEPT !.op = "RefreshToken", !.token = t,
                                         !.now = now])

StartLogout(c, t) ==
  Start(c, "purge", [NoRequest EXCEPT !.op = "Logout", !.token = t, !.now = now])

-----------------------------------------------------------------------------
(* purgeExpiredRefreshSessions, run by every call.  nextPurge is read and  *)
(* written without the lock; the release builds are for 64-bit targets, so *)
(* a read returns a value some call wrote.                                 *)

CheckPurge(c) ==
  /\ pc[c] = "purge"
  /\ Goto(c, IF nextPurge > req[c].now THEN AfterPurge(req[c].op) ELSE "stamp")
  /\ UNCHANGED <<now, store, sessions, nextPurge, req, known, history>>

\* Faulty variant: the timestamp is advanced from its old value.
StampPurge_Relative(c) ==
  /\ pc[c] = "stamp"
  /\ nextPurge' = nextPurge + PurgeInterval
  /\ Goto(c, "sweep")
  /\ UNCHANGED <<now, store, sessions, req, known, history>>

StampPurge(c) ==
  /\ pc[c] = "stamp"
  /\ nextPurge' = req[c].now + PurgeInterval
  /\ Goto(c, "sweep")
  /\ UNCHANGED <<now, store, sessions, req, known, history>>

\* Faulty variant: sessions are compared with the next purge, not with now.
SweepExpired_Early(c) ==
  LET swept == {t \in Tokens : Live(t) /\ Expired(sessions[t], nextPurge)} IN
  /\ pc[c] = "sweep"
  /\ sessions' = [t \in Tokens |-> IF t \in swept THEN Nil ELSE sessions[t]]
  /\ fate' = [t \in Tokens |-> IF t \in swept THEN "revoked" ELSE fate[t]]
  /\ Goto(c, AfterPurge(req[c].op))
  /\ UNCHANGED <<now, store, nextPurge, req, known, heirs, sawEnabled, everExtended>>

SweepExpired(c) ==
  LET swept == {t \in Tokens : Live(t) /\ Expired(sessions[t], req[c].now)} IN
  /\ pc[c] = "sweep"
  /\ sessions' = [t \in Tokens |-> IF t \in swept THEN Nil ELSE sessions[t]]
  /\ fate' = [t \in Tokens |-> IF t \in swept THEN "revoked" ELSE fate[t]]
  /\ Goto(c, AfterPurge(req[c].op))
  /\ UNCHANGED <<now, store, nextPurge, req, known, heirs, sawEnabled, everExtended>>

-----------------------------------------------------------------------------
(* Login *)

\* GetUserByUsername, the password, enabled; the clock is read afterwards.
\* A fault stands for every error that is not a sentinel: the database, a
\* cancelled context, signing.
LoginLookup(c) ==
  LET u == req[c].user IN
  /\ pc[c] = "lookup"
  /\ \/ Answer(c, "internal")
     \/ Answer(c, "ErrInvalidArgument")      \* malformed name
     \/ Answer(c, "ErrInvalidCredentials")   \* unknown name, wrong password
     \/ /\ accounts[u] = "disabled"
        /\ Answer(c, "ErrInvalidCredentials")
     \/ /\ accounts[u] = "enabled"
        /\ Goto(c, "purge")
        /\ req' = [req EXCEPT ![c].now = now,
                              ![c].session = [UserID |-> u, LoginAt |-> now,
                                              ExpiresAt |-> now + RefreshTokenTTL]]
  /\ UNCHANGED <<now, store, sessions, nextPurge, known, history>>

LoginSave(c) ==
  /\ pc[c] = "save"
  /\ \E t \in Fresh :
       /\ sessions' = [sessions EXCEPT ![t] = req[c].session]
       /\ req' = [req EXCEPT ![c].granted = t]
  /\ Goto(c, "lastLogin")
  /\ UNCHANGED <<now, store, nextPurge, known, history>>

\* UpdateLastLogin.  On an error the session stays behind in the table.
LoginStamp(c) ==
  LET u == req[c].user IN
  /\ pc[c] = "lastLogin"
  /\ \/ Answer(c, "internal")
     \/ /\ accounts[u] = "gone"
        /\ Answer(c, "ErrUserNotFound")
     \/ /\ accounts[u] # "gone"
        /\ Goto(c, "reload")
        /\ UNCHANGED req
  /\ UNCHANGED <<now, store, sessions, nextPurge, known, history>>

\* GetUserByID, for the reply.
LoginReload(c) ==
  /\ pc[c] = "reload"
  /\ \/ Answer(c, "internal")
     \/ Answer(c, IF accounts[req[c].user] = "gone" THEN "ErrUserNotFound" ELSE "ok")
  /\ UNCHANGED <<now, store, sessions, nextPurge, known, history>>

-----------------------------------------------------------------------------
(* RefreshToken *)

\* Faulty variant: the purge is trusted to have removed expired sessions.
RefreshGet_Unchecked(c) ==
  LET session == sessions[req[c].token] IN
  /\ pc[c] = "get"
  /\ IF session = Nil
       THEN Answer(c, "ErrInvalidToken")
       ELSE /\ Goto(c, "user")
            /\ req' = [req EXCEPT ![c].session = session]
  /\ UNCHANGED <<now, store, sessions, nextPurge, known, history>>

RefreshGet(c) ==
  LET session == sessions[req[c].token] IN
  /\ pc[c] = "get"
  /\ IF session = Nil \/ Expired(session, req[c].now)
       THEN Answer(c, "ErrInvalidToken")
       ELSE /\ Goto(c, "user")
            /\ req' = [req EXCEPT ![c].session = session]
  /\ UNCHANGED <<now, store, sessions, nextPurge, known, history>>

\* Faulty variant: any account that still exists may refresh.
RefreshUser_AnyAccount(c) ==
  LET u == req[c].session.UserID IN
  /\ pc[c] = "user"
  /\ IF accounts[u] = "gone"
       THEN Answer(c, "ErrUserNotFound")
       ELSE Goto(c, "revoke") /\ UNCHANGED req
  /\ UNCHANGED <<now, store, sessions, nextPurge, known, history>>

\* GetUserByID and enabled; nothing has been revoked yet.
RefreshUser(c) ==
  LET u == req[c].session.UserID IN
  /\ pc[c] = "user"
  /\ \/ Answer(c, "internal")
     \/ /\ accounts[u] = "gone"
        /\ Answer(c, "ErrUserNotFound")
     \/ /\ accounts[u] = "disabled"
        /\ Answer(c, "ErrInvalidToken")
     \/ /\ accounts[u] = "enabled"
        /\ Goto(c, "revoke")
        /\ UNCHANGED req
  /\ UNCHANGED <<now, store, sessions, nextPurge, known, history>>

\* Faulty variant: the session read earlier is taken to be still there.
Revocable_Stale(t, user) == TRUE

\* revokeRefreshSession deletes the session only if it is still there: of two
\* calls with one token, one gets past this step.
Revocable(t, user) == Live(t) /\ sessions[t].UserID = user

\* Faulty variant: an error exit after the deletion.
RefreshRevoke_ThenFault(c) ==
  LET t == req[c].token IN
  /\ pc[c] = "revoke"
  /\ IF Revocable(t, req[c].session.UserID)
       THEN /\ sessions' = [sessions EXCEPT ![t] = Nil]
            /\ fate' = [fate EXCEPT ![t] = "redeemed"]
            /\ \/ Goto(c, "setting") /\ UNCHANGED req
               \/ Answer(c, "internal")
       ELSE /\ Answer(c, "ErrInvalidToken")
            /\ UNCHANGED <<sessions, fate>>
  /\ UNCHANGED <<now, store, nextPurge, known, heirs, sawEnabled, everExtended>>

RefreshRevoke(c) ==
  LET t == req[c].token IN
  /\ pc[c] = "revoke"
  /\ IF Revocable(t, req[c].session.UserID)
       THEN /\ sessions' = [sessions EXCEPT ![t] = Nil]
            /\ fate' = [fate EXCEPT ![t] = "redeemed"]
            /\ Goto(c, "setting")
            /\ UNCHANGED req
       ELSE /\ Answer(c, "ErrInvalidToken")
            /\ UNCHANGED <<sessions, fate>>
  /\ UNCHANGED <<now, store, nextPurge, known, heirs, sawEnabled, everExtended>>

\* Faulty variants: every refresh extends; an extension forgets the TTL.
NewExpiry_Always(request) == request.now + RefreshTokenTTL

NewExpiry_NoTTL(request) ==
  IF extend THEN request.now ELSE request.session.ExpiresAt

\* The setting is read between the revocation and the save.
NewExpiry(request) ==
  IF extend THEN request.now + RefreshTokenTTL ELSE request.session.ExpiresAt

RefreshSetting(c) ==
  /\ pc[c] = "setting"
  /\ req' = [req EXCEPT ![c].expiresAt = NewExpiry(req[c])]
  /\ Goto(c, "rotate")
  /\ UNCHANGED <<now, store, sessions, nextPurge, known, history>>

\* Faulty variant: the presented token is kept and only its session renewed.
RefreshSave_SameToken(c) ==
  LET r == req[c] IN
  /\ pc[c] = "rotate"
  /\ sessions' = [sessions EXCEPT ![r.token] = [r.session EXCEPT !.ExpiresAt = r.expiresAt]]
  /\ heirs' = [heirs EXCEPT ![r.token] = @ \cup {r.token}]
  /\ req' = [req EXCEPT ![c].granted = r.token, ![c].result = "ok"]
  /\ Goto(c, "reply")
  /\ UNCHANGED <<now, store, nextPurge, known, fate, sawEnabled, everExtended>>

RefreshSave(c) ==
  LET r == req[c] IN
  /\ pc[c] = "rotate"
  /\ \E t \in Fresh :
       /\ sessions' = [sessions EXCEPT ![t] = [r.session EXCEPT !.ExpiresAt = r.expiresAt]]
       /\ heirs' = [heirs EXCEPT ![r.token] = @ \cup {t}]
       /\ req' = [req EXCEPT ![c].granted = t, ![c].result = "ok"]
  /\ Goto(c, "reply")
  /\ UNCHANGED <<now, store, nextPurge, known, fate, sawEnabled, everExtended>>

-----------------------------------------------------------------------------
(* Logout: idempotent, a token that is not in the table is no error. *)

\* Faulty variant: a logout that finds no session reports an invalid token.
LogoutDelete_NotIdempotent(c) ==
  LET t == req[c].token IN
  /\ pc[c] = "delete"
  /\ sessions' = [sessions EXCEPT ![t] = Nil]
  /\ fate' = [fate EXCEPT ![t] = IF Live(t) THEN "revoked" ELSE @]
  /\ Answer(c, IF Live(t) THEN "ok" ELSE "ErrInvalidToken")
  /\ UNCHANGED <<now, store, nextPurge, known, heirs, sawEnabled, everExtended>>

LogoutDelete(c) ==
  LET t == req[c].token IN
  /\ pc[c] = "delete"
  /\ sessions' = [sessions EXCEPT ![t] = Nil]
  /\ fate' = [fate EXCEPT ![t] = IF Live(t) THEN "revoked" ELSE @]
  /\ Answer(c, "ok")
  /\ UNCHANGED <<now, store, nextPurge, known, heirs, sawEnabled, everExtended>>

-----------------------------------------------------------------------------
\* The reply reaches the client, or is lost and the client may retry.
Return(c) ==
  /\ pc[c] = "reply"
  /\ \/ /\ req[c].result = "ok"
        /\ req[c].granted # Nil
        /\ known' = known \cup {req[c].granted}
     \/ UNCHANGED known
  /\ Goto(c, "idle")
  /\ req' = [req EXCEPT ![c] = NoRequest]
  /\ sawEnabled' = [sawEnabled EXCEPT ![c] = {}]
  /\ UNCHANGED <<now, store, sessions, nextPurge, fate, heirs, everExtended>>

-----------------------------------------------------------------------------
(* What administrators do meanwhile, as far as these calls can see it.     *)

\* UpdateUser with the mask "enabled".
SetEnabled(u, on) ==
  /\ accounts[u] # "gone"
  /\ accounts' = [accounts EXCEPT ![u] = IF on THEN "enabled" ELSE "disabled"]
  /\ sawEnabled' = [c \in Calls |->
       IF on /\ pc[c] # "idle" THEN sawEnabled[c] \cup {u} ELSE sawEnabled[c]]
  /\ UNCHANGED <<now, extend, sessions, nextPurge, pc, req, known,
                 fate, heirs, everExtended>>

\* DeleteUser leaves the user's sessions in the table; ids are not reused.
DeleteUser(u) ==
  /\ accounts[u] # "gone"
  /\ accounts' = [accounts EXCEPT ![u] = "gone"]
  /\ UNCHANGED <<now, extend, sessions, nextPurge, pc, req, known, history>>

\* UpdateAuthSettings.
SetExtend(on) ==
  /\ extend' = on
  /\ everExtended' = (everExtended \/ on)
  /\ UNCHANGED <<now, accounts, sessions, nextPurge, pc, req, known,
                 fate, heirs, sawEnabled>>

Tick ==
  /\ now < MaxTime
  /\ now' = now + 1
  /\ UNCHANGED <<store, sessions, nextPurge, pc, req, known, history>>

\* The process dies and is started again: the table and the calls are gone,
\* the database and the settings file are not.
Crash ==
  /\ sessions' = [t \in Tokens |-> Nil]
  /\ nextPurge' = 0
  /\ pc' = [c \in Calls |-> "idle"]
  /\ req' = [c \in Calls |-> NoRequest]
  /\ fate' = [t \in Tokens |->
       IF Live(t) \/ (fate[t] = "redeemed" /\ heirs[t] = {}) THEN "revoked" ELSE fate[t]]
  /\ sawEnabled' = [c \in Calls |-> {}]
  /\ UNCHANGED <<now, store, known, heirs, everExtended>>

-----------------------------------------------------------------------------
LoginStep(c) == LoginLookup(c) \/ LoginSave(c) \/ LoginStamp(c) \/ LoginReload(c)

RefreshStep(c) ==
  \/ RefreshGet(c) \/ RefreshUser(c) \/ RefreshRevoke(c)
  \/ RefreshSetting(c) \/ RefreshSave(c)

PurgeStep(c) == CheckPurge(c) \/ StampPurge(c) \/ SweepExpired(c)

\* A call's own steps: once it has started, the runtime runs it to its reply.
Step(c) ==
  PurgeStep(c) \/ LoginStep(c) \/ RefreshStep(c) \/ LogoutDelete(c) \/ Return(c)

Arrive(c) ==
  \/ \E u \in Users : StartLogin(c, u)
  \/ \E t \in known : StartRefresh(c, t) \/ StartLogout(c, t)

Administer ==
  \/ \E u \in Users : DeleteUser(u) \/ (\E on \in BOOLEAN : SetEnabled(u, on))
  \/ \E on \in BOOLEAN : SetExtend(on)

Next ==
  \/ \E c \in Calls : Arrive(c) \/ Step(c)
  \/ Administer
  \/ Tick
  \/ Crash

Spec == Init /\ [][Next]_vars

\* After the revocation RefreshToken reads the setting, which waits for an
\* update's file to be written at most, and saves, which waits for a mutex.
\* No other step is taken to be fair: elsewhere a call waits for the database.
FairSpec ==
  Spec /\ \A c \in Calls : WF_vars(RefreshSetting(c) \/ RefreshSave(c))

\* What the calls answer over gRPC: toStatusError.
StatusOf(result) ==
  CASE result = "ok" -> "OK"
    [] result = "ErrUserNotFound" -> "NotFound"
    [] result \in {"ErrInvalidCredentials", "ErrInvalidToken"} -> "Unauthenticated"
    [] result = "ErrInvalidArgument" -> "InvalidArgument"
    [] OTHER -> "Internal"

-----------------------------------------------------------------------------
(* Properties. *)

\* A refresh token buys at most one successor, whichever calls present it and
\* whichever logout, sweep or restart they race: of the two deletions of one
\* session only one finds it (RefreshToken's revocation, compare-and-delete).
SingleUse ==
  \A t \in Tokens :
    /\ \A m, n \in heirs[t] : m = n
    /\ heirs[t] # {} => fate[t] = "redeemed"

\* RefreshToken revokes before it saves.  In between, the caller's session
\* exists only in that call: a redeemed token without a successor is always
\* in the hands of one call that is past its last error exit.
Rotating(c, t) == pc[c] \in {"setting", "rotate"} /\ req[c].token = t

RotationNotLost ==
  \A t \in Tokens :
    (fate[t] = "redeemed" /\ heirs[t] = {}) =>
      \E c \in Calls : Rotating(c, t) /\ \A d \in Calls \ {c} : ~Rotating(d, t)

\* Login and RefreshToken look at the account once, early, and answer late.
\* Whoever they answer "ok" was enabled at some moment while the call ran.
EnabledDuringCall ==
  \A c \in Calls :
    (pc[c] = "reply" /\ req[c].result = "ok") =>
      CASE req[c].op = "Login" -> req[c].user \in sawEnabled[c]
        [] req[c].op = "RefreshToken" -> req[c].session.UserID \in sawEnabled[c]
        [] OTHER -> TRUE

\* The codes clients see.  A logout succeeds whatever happened to its token, a
\* retried one too; a refresh that lost its race says the token is not good.  The
\* one code doc/errors.md does not list for these calls is NotFound.  A login
\* answers it only when the account it has let in is deleted before it ends.  A
\* refresh answers it for any account that is gone when it looks, also one deleted
\* long before: DeleteUser leaves the sessions in the table.
ReplyCodes ==
  \A c \in Calls :
    LET code == StatusOf(req[c].result)
        user == IF req[c].op = "Login" THEN req[c].user ELSE req[c].session.UserID
    IN pc[c] = "reply" =>
         /\ req[c].op = "Logout" => code = "OK"
         /\ code = "NotFound" => accounts[user] = "gone"
         /\ code = "NotFound" /\ req[c].op = "Login" => user \in sawEnabled[c]
         /\ req[c].op = "Login" =>
              code \in {"OK", "Unauthenticated", "InvalidArgument", "Internal", "NotFound"}
         /\ req[c].op = "RefreshToken" =>
              code \in {"OK", "Unauthenticated", "Internal", "NotFound"}

\* A finished logout has done its work, whatever refreshed, swept or logged
\* out the token meanwhile: the token is not in the table and never returns.
LogoutFinal ==
  \A c \in Calls :
    (pc[c] = "reply" /\ req[c].op = "Logout") => ~Live(req[c].token)

\* While the extend setting has always been off, rotation never moves the end
\* of a session: every descendant ends refresh_token_ttl after the login.
FixedLifetime ==
  ~everExtended =>
    \A t \in Tokens :
      Live(t) => sessions[t].ExpiresAt = sessions[t].LoginAt + RefreshTokenTTL

\* Rotation never shortens a session, although the new end is computed from
\* a clock value read before the session was looked up.
RefreshNeverShortens ==
  \A c \in Calls :
    pc[c] = "rotate" => req[c].expiresAt >= req[c].session.ExpiresAt

\* The purge's timestamp is written without a lock, by calls whose clock value
\* may be old.  It is still never more than one interval ahead, so no race can
\* switch the purge off.
PurgeWindow == nextPurge <= now + PurgeInterval

\* A refresh takes only a session that had not expired when the call arrived,
\* also when the throttled purge has left expired sessions in the table.
ExpiredNeverRedeemed ==
  [][\A t \in Tokens :
       (fate[t] = "none" /\ fate'[t] = "redeemed") =>
         \E c \in Calls : /\ req[c].op = "RefreshToken"
                          /\ req[c].token = t
                          /\ req[c].now <= sessions[t].ExpiresAt]_vars

\* Short of a restart, a session that is not redeemed ends in a logout of its
\* token or past its expiry: a sweep that runs late, with an old clock value,
\* takes no session that is still good.
EndsOnlyWhenDue ==
  [][\A t \in Tokens :
       (Live(t) /\ ~Live(t)' /\ fate'[t] = "revoked") =>
         \/ now > sessions[t].ExpiresAt
         \/ \E c \in Calls : pc[c] = "delete" /\ req[c].token = t /\ pc'[c] = "reply"
         \/ Crash]_vars

\* Unless the process dies, a redeemed token is replaced: nothing a call does
\* after the revocation can keep the successor from being saved.
RedeemedIsReplaced ==
  \A t \in Tokens :
    (fate[t] = "redeemed" /\ heirs[t] = {}) ~> (heirs[t] # {} \/ fate[t] = "revoked")

\* Refinement.  The calls implement single-use tokens.
TokenStatus == [t \in Tokens |->
  CASE Live(t) -> "live"
    [] fate[t] = "redeemed" /\ heirs[t] = {} -> "owed"
    [] fate[t] = "redeemed" /\ heirs[t] # {} -> "replaced"
    [] fate[t] = "revoked" -> "revoked"
    [] OTHER -> "unused"]

Promise == INSTANCE SingleUseTokens WITH status <- TokenStatus, heir <- heirs

ImplementsSingleUseTokens == Promise!Spec

-----------------------------------------------------------------------------
(* The inductive invariant behind the properties above. *)

\* The local variables a call uses at a location have been set by then.
LocalOK(location, r) ==
  /\ location = "lookup" => r.op = "Login"
  /\ location \in {"purge", "stamp", "sweep"} => r.op \in Ops
  /\ location \in {"save", "lastLogin", "reload"} => r.op = "Login"
  /\ location \in {"get", "user", "revoke", "setting", "rotate"} => r.op = "RefreshToken"
  /\ location = "delete" => r.op = "Logout"
  /\ r.op = "Login" => r.user \in Users
  /\ r.op \in {"RefreshToken", "Logout"} => r.token \in Tokens
  /\ (r.op = "Login" /\ location \notin {"lookup", "reply"}) => r.session \in Session
  /\ location \in {"user", "revoke", "setting", "rotate"} => r.session \in Session
  /\ (r.op = "RefreshToken" /\ r.result = "ok") => r.session \in Session

LocalsOK == \A c \in Calls : LocalOK(pc[c], req[c])

\* A token is in the table or out of it for good, and a call that has revoked
\* one holds it alone.
TokensOK ==
  /\ \A t \in Tokens : Live(t) => fate[t] = "none"
  /\ \A c \in Calls, t \in Tokens :
       Rotating(c, t) => fate[t] = "redeemed" /\ heirs[t] = {}
  /\ \A c, d \in Calls, t \in Tokens : Rotating(c, t) /\ Rotating(d, t) => c = d

\* A token that was never saved is unknown to every client and every call.
FreshUnknown ==
  \A t \in Fresh :
    /\ t \notin known
    /\ \A c \in Calls : req[c].token # t /\ req[c].granted # t

\* No clock value is ahead of the clock, and no session ends more than a TTL
\* after the clock value of a call that presents it.
ClockOK ==
  /\ PurgeWindow
  /\ \A t \in Tokens : Live(t) => sessions[t].ExpiresAt <= now + RefreshTokenTTL
  /\ \A c \in Calls :
       LET r == req[c] IN
       /\ r.now <= now
       /\ r.op = "Login" /\ r.session # Nil =>
            r.session.ExpiresAt <= now + RefreshTokenTTL
       /\ \A t \in Tokens :
            r.op = "RefreshToken" /\ r.token = t /\ Live(t) =>
              sessions[t].ExpiresAt <= r.now + RefreshTokenTTL
       /\ pc[c] \in {"user", "revoke", "setting", "rotate"} =>
            r.session.ExpiresAt <= r.now + RefreshTokenTTL
       /\ pc[c] = "rotate" => /\ r.expiresAt <= r.now + RefreshTokenTTL
                              /\ r.expiresAt >= r.session.ExpiresAt

IInv ==
  /\ TypeOK
  /\ LocalsOK
  /\ TokensOK
  /\ FreshUnknown
  /\ SingleUse
  /\ RotationNotLost
  /\ ClockOK
=============================================================================
