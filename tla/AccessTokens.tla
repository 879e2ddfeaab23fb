----------------------------- MODULE AccessTokens -----------------------------
(***************************************************************************)
(* Access tokens (internal/service/main.go): signAccessToken and           *)
(* VerifyToken, and the calls that a verified token authorises.            *)
(*                                                                         *)
(* A token carries the roles its account had when Login or RefreshToken    *)
(* read it.  Nothing revokes it: a verified token is taken at its word     *)
(* until it expires, whatever became of the account.  Expiry is counted in *)
(* whole seconds, the clock here in ticks of a part of a second.           *)
(*                                                                         *)
(* CreateUser, UpdateUser and DeleteUser are authorised in the same way;   *)
(* UserAdmin models their checks.                                          *)
(***************************************************************************)
EXTENDS Integers, FiniteSets, Roles

CONSTANTS
  Calls,           \* calls in flight at the same time
  Users,
  Second,          \* ticks in a second, the precision of a NumericDate
  AccessTokenTTL,  \* auth.access_token_ttl, in ticks
  MaxCallTime,     \* bound on the ticks a call is in flight
  MaxTime,         \* bound on the clock
  MaxTokens,       \* bound on the tokens signed
  Nil

ASSUME ConstantsAssumption ==
  /\ Second \in Nat \ {0}
  /\ AccessTokenTTL \in Nat /\ AccessTokenTTL >= Second  \* config.validate
  /\ {MaxCallTime, MaxTime, MaxTokens} \subseteq Nat

RoleSets == SUBSET RoleNames

\* TokenClaims.  SignedAt is history: iat is in the token and never looked at.
Claims == [UserID : Users, Roles : RoleSets, ExpiresAt : Nat, SignedAt : Nat]

\* The calls that read on behalf of a token, and the permission each of them
\* looks for; ListUsers and CountUsers take any token, user.list or not.
Needs == [GetProfile |-> {"user.read"}, ListRoles |-> {"user.read"},
          GetAuthSettings |-> {"settings.read"},
          UpdateAuthSettings |-> {"settings.update"},
          ListUsers |-> {}, CountUsers |-> {}, VerifyToken |-> {}]

Ops == DOMAIN Needs

Results ==
  {"none", "ok", "internal", "Unauthenticated", "ErrInvalidToken", "ErrInvalidArgument",
   "ErrPermissionDenied", "ErrUserNotFound"}

VARIABLES
  now,       \* the clock
  accounts,  \* the roles of each enabled account, Nil for every other
  tokens,    \* the tokens in clients' hands
  pc,        \* where each call is
  req,       \* the local variables of each call
  \* History, read by the properties only:
  lastHad    \* when each account was last enabled with each set of roles

vars == <<now, accounts, tokens, pc, req, lastHad>>

NoRequest ==
  [op |-> "none", user |-> Nil, roles |-> {}, claims |-> Nil, since |-> 0,
   result |-> "none"]

Request ==
  [op : Ops \cup {"none", "Login"},
   user : Users \cup {Nil},       \* whom the call is about
   roles : RoleSets,              \* the account as Login or RefreshToken read it
   claims : Claims \cup {Nil},    \* what VerifyToken returned
   since : Nat,                   \* when the call arrived
   result : Results]

Locations == {"idle", "sign", "act", "reply"}

TypeOK ==
  /\ now \in 0..MaxTime
  /\ accounts \in [Users -> RoleSets \cup {Nil}]
  /\ tokens \in SUBSET Claims
  /\ pc \in [Calls -> Locations]
  /\ req \in [Calls -> Request]
  /\ lastHad \in [Users -> [RoleSets -> Nat \cup {-1}]]

\* lastHad when the accounts are a at the time t.
Noted(a, t) ==
  [u \in Users |-> [r \in RoleSets |-> IF a[u] = r THEN t ELSE lastHad[u][r]]]

Init ==
  /\ now = 0
  /\ accounts \in [Users -> {{"admin"}, {"user"}}]
  /\ tokens = {}
  /\ pc = [c \in Calls |-> "idle"]
  /\ req = [c \in Calls |-> NoRequest]
  /\ lastHad = [u \in Users |-> [r \in RoleSets |-> IF accounts[u] = r THEN 0 ELSE -1]]

-----------------------------------------------------------------------------
\* jwt.NewNumericDate drops the fraction of a second.
NumericDate(t) == (t \div Second) * Second

\* Faulty variant: the TTL is counted from the last whole second.
ExpiresAt_FromSecond(at) == NumericDate(at) + AccessTokenTTL - Second

\* signAccessToken
ExpiresAt(at) == NumericDate(at + AccessTokenTTL)

\* VerifyToken: the parser checks the signature and exp, without leeway.
Accepted(token) == now < token.ExpiresAt

Goto(c, location) == pc' = [pc EXCEPT ![c] = location]

-----------------------------------------------------------------------------
(* Login and RefreshToken, as far as the access token goes. *)

\* The account is read, and found enabled.
ReadAccount(c, u) ==
  /\ pc[c] = "idle"
  /\ accounts[u] # Nil
  /\ Goto(c, "sign")
  /\ req' = [req EXCEPT ![c] = [NoRequest EXCEPT !.op = "Login", !.user = u,
                                  !.roles = accounts[u], !.since = now]]
  /\ UNCHANGED <<now, accounts, tokens, lastHad>>

\* signAccessToken reads the clock, and the reply takes the token to a client.
Sign(c) ==
  LET r == req[c] IN
  /\ pc[c] = "sign"
  /\ Cardinality(tokens) < MaxTokens   \* bound
  /\ tokens' = tokens \cup {[UserID |-> r.user, Roles |-> r.roles,
                             ExpiresAt |-> ExpiresAt(now), SignedAt |-> now]}
  /\ Goto(c, "idle")
  /\ req' = [req EXCEPT ![c] = NoRequest]
  /\ UNCHANGED <<now, accounts, lastHad>>

\* The call ends otherwise: an error before or after the signature.
GiveUp(c) ==
  /\ pc[c] = "sign"
  /\ Goto(c, "idle")
  /\ req' = [req EXCEPT ![c] = NoRequest]
  /\ UNCHANGED <<now, accounts, tokens, lastHad>>

-----------------------------------------------------------------------------
(* The calls a token authorises. *)

\* Faulty variant: any verified token will do.
May_Any(claims, op, target) == TRUE

May(claims, op, target) ==
  \/ Needs[op] \subseteq ResolvePermissions(claims.Roles)
  \/ op = "GetProfile" /\ claims.UserID = target

\* The handler finds no bearer token in the metadata.
PresentNothing(c, op) ==
  /\ pc[c] = "idle"
  /\ op # "VerifyToken"
  /\ Goto(c, "reply")
  /\ req' = [req EXCEPT ![c] = [NoRequest EXCEPT !.op = op, !.since = now,
                                  !.result = "Unauthenticated"]]
  /\ UNCHANGED <<now, accounts, tokens, lastHad>>

\* Arguments that are refused before the token is looked at: the user id zero
\* (GetProfile), a keyword that is too long (ListUsers, CountUsers).
PresentMalformed(c, op) ==
  /\ pc[c] = "idle"
  /\ op \in {"GetProfile", "ListUsers", "CountUsers"}
  /\ Goto(c, "reply")
  /\ req' = [req EXCEPT ![c] = [NoRequest EXCEPT !.op = op, !.since = now,
                                  !.result = "ErrInvalidArgument"]]
  /\ UNCHANGED <<now, accounts, tokens, lastHad>>

\* VerifyToken, then the permission.
Present(c, op, token, target) ==
  LET result == IF ~Accepted(token) THEN "ErrInvalidToken"
                ELSE IF ~May(token, op, target) THEN "ErrPermissionDenied"
                ELSE "none"
  IN
  /\ pc[c] = "idle"
  /\ Goto(c, IF result = "none" THEN "act" ELSE "reply")
  /\ req' = [req EXCEPT ![c] = [NoRequest EXCEPT !.op = op, !.user = target,
                                  !.claims = token, !.since = now, !.result = result]]
  /\ UNCHANGED <<now, accounts, tokens, lastHad>>

\* What the call then does, with its claims and without another look at the
\* account or the clock.
Act(c) ==
  /\ pc[c] = "act"
  /\ Goto(c, "reply")
  /\ \E result \in
       {"ok"} \cup (IF req[c].op \in {"ListRoles", "GetAuthSettings", "VerifyToken"}
                      THEN {} ELSE {"internal"})
              \cup (IF req[c].op = "GetProfile" /\ accounts[req[c].user] = Nil
                      THEN {"ErrUserNotFound"} ELSE {})
              \cup (IF req[c].op = "ListUsers" THEN {"ErrInvalidArgument"} ELSE {}) :
       req' = [req EXCEPT ![c].result = result]
  /\ UNCHANGED <<now, accounts, tokens, lastHad>>

Return(c) ==
  /\ pc[c] = "reply"
  /\ Goto(c, "idle")
  /\ req' = [req EXCEPT ![c] = NoRequest]
  /\ UNCHANGED <<now, accounts, tokens, lastHad>>

-----------------------------------------------------------------------------
\* UpdateUser and DeleteUser: new roles, or an end to the account's rights.
SetAccount(u, roles) ==
  /\ accounts[u] # roles
  /\ accounts' = [accounts EXCEPT ![u] = roles]
  /\ lastHad' = Noted(accounts', now)
  /\ UNCHANGED <<now, tokens, pc, req>>

\* The bound on calls: time waits for those that have been running for long.
Tick ==
  /\ now < MaxTime
  /\ \A c \in Calls : pc[c] # "idle" => now < req[c].since + MaxCallTime
  /\ now' = now + 1
  /\ lastHad' = Noted(accounts, now')
  /\ UNCHANGED <<accounts, tokens, pc, req>>

Next ==
  \/ \E c \in Calls :
       \/ \E u \in Users : ReadAccount(c, u)
       \/ Sign(c) \/ GiveUp(c) \/ Act(c) \/ Return(c)
       \/ \E op \in Ops :
            \/ PresentNothing(c, op) \/ PresentMalformed(c, op)
            \/ \E token \in tokens, u \in Users : Present(c, op, token, u)
  \/ \E u \in Users, roles \in {{"admin"}, {"user"}, Nil} : SetAccount(u, roles)
  \/ Tick

Spec == Init /\ [][Next]_vars
-----------------------------------------------------------------------------
(* Properties. *)

\* However the clock stood within its second, a token is accepted when it is
\* signed, for more than the TTL less a second, and never for longer than the
\* TTL (access_token_ttl >= 1s and the truncation in NewNumericDate).
Lifetime ==
  /\ TypeOK
  /\ \A token \in tokens :
       /\ Accepted(token) => now < token.SignedAt + AccessTokenTTL
       /\ now <= token.SignedAt + AccessTokenTTL - Second => Accepted(token)

\* Disabling, deleting or demoting an account takes no token back, so rights
\* outlive it.  But what a call does with a permission, it does while, or soon
\* after, its account had it: no later than one TTL, the time of the call that
\* signed the token, and the call's own.
ActLag ==
  \A c \in Calls :
    (pc[c] = "act" /\ ~(req[c].op = "GetProfile" /\ req[c].claims.UserID = req[c].user)) =>
      \E roles \in RoleSets :
        /\ Needs[req[c].op] \subseteq ResolvePermissions(roles)
        /\ lastHad[req[c].claims.UserID][roles] >= 0
        /\ now < lastHad[req[c].claims.UserID][roles] + AccessTokenTTL + 2 * MaxCallTime
=============================================================================
