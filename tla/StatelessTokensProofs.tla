------------------------ MODULE StatelessTokensProofs ------------------------
(***************************************************************************)
(* Proofs about the two kinds of tokens that clients hold from one call to *)
(* the next while the server keeps nothing for them, so that both may be   *)
(* out of date when they are used: access tokens (AccessTokens), for any   *)
(* lifetime, any precision of the expiry and any number of users, tokens   *)
(* and calls, and page tokens (Pagination), for any list, any page sizes   *)
(* and any changes during the walk.                                        *)
(***************************************************************************)
EXTENDS AccessTokens, Pagination, FiniteSetTheorems, TLAPS

-----------------------------------------------------------------------------
(* Access tokens. *)

\* The truncation of NewNumericDate takes less than a second away.
LEMMA Truncation ==
  ASSUME NEW t \in Nat
  PROVE  /\ NumericDate(t) \in Nat
         /\ NumericDate(t) <= t
         /\ t < NumericDate(t) + Second
<1>1. Second \in Nat /\ Second > 0
  BY ConstantsAssumption
<1>2. t \div Second \in Nat
  BY <1>1
<1>3. t = Second * (t \div Second) + (t % Second) /\ 0 <= t % Second /\ t % Second < Second
  BY <1>1
<1>4. NumericDate(t) = Second * (t \div Second)
  BY <1>1, <1>2 DEF NumericDate
<1>5. Second * (t \div Second) \in Nat
  BY <1>1, <1>2
<1> QED BY <1>1, <1>3, <1>4, <1>5

-----------------------------------------------------------------------------
\* An account that is enabled has its roles now, and nobody had any later.
HadOK ==
  /\ \A u \in Users, r \in RoleSets : lastHad[u][r] <= now
  /\ \A u \in Users : accounts[u] # Nil => lastHad[u][accounts[u]] = now

\* Whom a token names had its roles no earlier than a call before the signature.
Rightful(claims) ==
  /\ lastHad[claims.UserID][claims.Roles] >= 0
  /\ claims.SignedAt <= lastHad[claims.UserID][claims.Roles] + MaxCallTime

TokensOK ==
  \A token \in tokens :
    /\ token.ExpiresAt = ExpiresAt(token.SignedAt)
    /\ token.SignedAt <= now
    /\ Rightful(token)

CallOK(c) ==
  LET r == req[c] IN
  /\ pc[c] # "idle" => r.since <= now /\ now <= r.since + MaxCallTime
  /\ pc[c] = "sign" => r.user \in Users /\ lastHad[r.user][r.roles] >= r.since
  /\ pc[c] = "act" =>
       /\ r.claims \in Claims
       /\ Rightful(r.claims)
       /\ r.since < r.claims.SignedAt + AccessTokenTTL
       /\ May(r.claims, r.op, r.user)

RightsInv ==
  /\ TypeOK
  /\ HadOK
  /\ TokensOK
  /\ \A c \in Calls : CallOK(c)

LEMMA ExpiresAtType ==
  ASSUME NEW at \in Nat
  PROVE  /\ ExpiresAt(at) \in Nat
         /\ ExpiresAt(at) <= at + AccessTokenTTL
         /\ at + AccessTokenTTL < ExpiresAt(at) + Second
<1>1. at + AccessTokenTTL \in Nat
  BY ConstantsAssumption
<1> QED BY <1>1, Truncation DEF ExpiresAt

LEMMA NoRequestType == NoRequest \in Request
BY DEF NoRequest, Request, RoleSets, Results

LEMMA RightsInit == Init => RightsInv
<1> SUFFICES ASSUME Init PROVE RightsInv
  OBVIOUS
<1>1. accounts \in [Users -> RoleSets \cup {Nil}]
  BY DEF Init, RoleSets, RoleNames, RolePermissions
<1>2. lastHad \in [Users -> [RoleSets -> Nat \cup {-1}]]
  BY DEF Init
<1>3. TypeOK
  BY <1>1, <1>2, NoRequestType, ConstantsAssumption DEF Init, TypeOK, Locations
<1>4. HadOK
  BY <1>1 DEF Init, HadOK
<1>5. TokensOK /\ \A c \in Calls : CallOK(c)
  BY DEF Init, TokensOK, CallOK
<1> QED BY <1>3, <1>4, <1>5 DEF RightsInv

-----------------------------------------------------------------------------
\* Noting the accounts again only moves lastHad forward.
LEMMA NotedLater ==
  ASSUME TypeOK, HadOK, now' \in Nat, now <= now',
         accounts' \in [Users -> RoleSets \cup {Nil}], lastHad' = Noted(accounts', now')
  PROVE  /\ lastHad' \in [Users -> [RoleSets -> Nat \cup {-1}]]
         /\ HadOK'
         /\ \A u \in Users, r \in RoleSets : lastHad[u][r] <= lastHad'[u][r]
<1>1. now \in Nat
  BY ConstantsAssumption DEF TypeOK
<1>2. \A u \in Users, r \in RoleSets : lastHad[u][r] \in Nat \cup {-1} /\ lastHad[u][r] <= now
  BY DEF TypeOK, HadOK
<1>3. \A u \in Users, r \in RoleSets :
        lastHad'[u][r] = IF accounts'[u] = r THEN now' ELSE lastHad[u][r]
  BY DEF Noted
<1>4. lastHad' \in [Users -> [RoleSets -> Nat \cup {-1}]]
  BY <1>2 DEF Noted
<1> QED BY <1>1, <1>2, <1>3, <1>4 DEF HadOK

\* What was true of tokens and calls stays true when lastHad moves forward.
LEMMA RightfulLater ==
  ASSUME TypeOK, TypeOK', NEW claims \in Claims, Rightful(claims),
         \A u \in Users, r \in RoleSets : lastHad[u][r] <= lastHad'[u][r]
  PROVE  Rightful(claims)'
<1> DEFINE u == claims.UserID
           r == claims.Roles
<1>1. u \in Users /\ r \in RoleSets /\ claims.SignedAt \in Nat
  BY DEF Claims
<1>2. lastHad[u][r] \in Nat \cup {-1} /\ lastHad'[u][r] \in Nat \cup {-1}
  BY <1>1 DEF TypeOK
<1> HIDE DEF u, r
<1>3. lastHad[u][r] <= lastHad'[u][r]
  BY <1>1
<1> QED BY <1>1, <1>2, <1>3, ConstantsAssumption DEF Rightful, u, r

\* A step of a call that leaves clock, accounts and tokens alone.
LEMMA CallMoves ==
  ASSUME RightsInv, NEW c \in Calls, NEW location \in Locations, NEW r \in Request,
         Goto(c, location), req' = [req EXCEPT ![c] = r],
         UNCHANGED <<now, accounts, tokens, lastHad>>, CallOK(c)'
  PROVE  RightsInv'
<1>1. TypeOK'
  BY DEF RightsInv, TypeOK, Goto
<1>2. HadOK' /\ TokensOK'
  BY DEF RightsInv, HadOK, TokensOK, Rightful
<1>3. ASSUME NEW d \in Calls \ {c} PROVE CallOK(d)'
  <2>1. CallOK(d) /\ pc'[d] = pc[d] /\ req'[d] = req[d]
    BY DEF RightsInv, TypeOK, Goto
  <2> QED BY <2>1 DEF CallOK, Rightful
<1> QED BY <1>1, <1>2, <1>3 DEF RightsInv

LEMMA CallsNext ==
  ASSUME RightsInv, NEW c \in Calls, Act(c) \/ Return(c) \/ GiveUp(c)
  PROVE  RightsInv'
<1>1. CASE Act(c)
  <2>1. PICK result \in Results : req' = [req EXCEPT ![c].result = result]
    BY <1>1 DEF Act, Results
  <2> DEFINE r == [req[c] EXCEPT !.result = result]
  <2>2. req[c] \in Request
    BY DEF RightsInv, TypeOK
  <2>3. r \in Request /\ req' = [req EXCEPT ![c] = r]
    BY <2>1, <2>2 DEF Request, RightsInv, TypeOK
  <2>4. pc'[c] = "reply" /\ req'[c].since = req[c].since
    BY <1>1, <2>1, <2>2 DEF Act, Goto, RightsInv, TypeOK, Request
  <2>5. CallOK(c) /\ pc[c] = "act" /\ now' = now
    BY <1>1 DEF RightsInv, Act
  <2>6. CallOK(c)'
    BY <2>4, <2>5 DEF CallOK
  <2> QED BY <1>1, <2>3, <2>6, CallMoves DEF Act, Locations
<1>2. CASE Return(c) \/ GiveUp(c)
  <2>1. /\ Goto(c, "idle")
        /\ req' = [req EXCEPT ![c] = NoRequest]
        /\ UNCHANGED <<now, accounts, tokens, lastHad>>
    BY <1>2 DEF Return, GiveUp
  <2>2. CallOK(c)'
    BY <2>1 DEF CallOK, Goto, RightsInv, TypeOK
  <2> QED BY <2>1, <2>2, NoRequestType, CallMoves DEF Locations
<1> QED BY <1>1, <1>2

LEMMA ReadAccountNext ==
  ASSUME RightsInv, NEW c \in Calls, NEW u \in Users, ReadAccount(c, u)
  PROVE  RightsInv'
<1> DEFINE r == [NoRequest EXCEPT !.op = "Login", !.user = u, !.roles = accounts[u],
                                  !.since = now]
<1>1. accounts[u] \in RoleSets /\ now \in Nat
  BY ConstantsAssumption DEF ReadAccount, RightsInv, TypeOK
<1>2. r \in Request
  BY <1>1, NoRequestType DEF Request
<1>3. r.since = now /\ r.user = u /\ r.roles = accounts[u]
  BY DEF NoRequest
<1>4. pc'[c] = "sign" /\ req'[c] = r /\ now' = now /\ lastHad' = lastHad
  BY DEF ReadAccount, Goto, RightsInv, TypeOK
<1>5. lastHad[u][accounts[u]] = now
  BY DEF RightsInv, HadOK, ReadAccount
<1>6. CallOK(c)'
  BY <1>1, <1>3, <1>4, <1>5, ConstantsAssumption DEF CallOK
<1> QED BY <1>2, <1>6, CallMoves DEF ReadAccount, Locations

\* A call that arrives with a token, or without.
LEMMA PresentNext ==
  ASSUME RightsInv, NEW c \in Calls, NEW op \in Ops,
         \/ PresentNothing(c, op) \/ PresentMalformed(c, op)
         \/ \E token \in tokens, u \in Users : Present(c, op, token, u)
  PROVE  RightsInv'
<1>0. now \in Nat
  BY ConstantsAssumption DEF RightsInv, TypeOK
<1>1. CASE PresentNothing(c, op) \/ PresentMalformed(c, op)
  <2>1. PICK result \in {"Unauthenticated", "ErrInvalidArgument"} :
          req' = [req EXCEPT ![c] = [NoRequest EXCEPT !.op = op, !.since = now,
                                                      !.result = result]]
    BY <1>1 DEF PresentNothing, PresentMalformed
  <2> DEFINE r == [NoRequest EXCEPT !.op = op, !.since = now, !.result = result]
  <2>2. r \in Request
    BY <1>0, NoRequestType DEF Request, Results
  <2>3. r.since = now
    BY DEF NoRequest
  <2>4. /\ Goto(c, "reply") /\ pc'[c] = "reply" /\ req'[c] = r
        /\ UNCHANGED <<now, accounts, tokens, lastHad>>
    BY <1>1, <2>1 DEF PresentNothing, PresentMalformed, Goto, RightsInv, TypeOK
  <2>5. CallOK(c)'
    BY <1>0, <2>3, <2>4, ConstantsAssumption DEF CallOK
  <2> QED BY <2>1, <2>2, <2>4, <2>5, CallMoves DEF Locations
<1>2. ASSUME NEW token \in tokens, NEW u \in Users, Present(c, op, token, u)
      PROVE  RightsInv'
  <2> DEFINE result == IF ~Accepted(token) THEN "ErrInvalidToken"
                       ELSE IF ~May(token, op, u) THEN "ErrPermissionDenied"
                       ELSE "none"
             r == [NoRequest EXCEPT !.op = op, !.user = u, !.claims = token,
                                    !.since = now, !.result = result]
             location == IF result = "none" THEN "act" ELSE "reply"
  <2>1. token \in Claims /\ Rightful(token) /\ token.ExpiresAt = ExpiresAt(token.SignedAt)
    BY DEF RightsInv, TypeOK, TokensOK
  <2>2. r \in Request /\ location \in Locations
    BY <1>0, <2>1, NoRequestType DEF Request, Results, Locations
  <2>3. r.since = now /\ r.user = u /\ r.claims = token /\ r.op = op
    BY DEF NoRequest
  <2>4. /\ Goto(c, location) /\ req' = [req EXCEPT ![c] = r]
        /\ UNCHANGED <<now, accounts, tokens, lastHad>>
    BY <1>2 DEF Present
  <2>5. location = "act" => Accepted(token) /\ May(token, op, u)
    OBVIOUS
  <2>6. location # "idle" /\ location # "sign"
    OBVIOUS
  <2>7. location = "act" => now < token.SignedAt + AccessTokenTTL
    <3>1. token.SignedAt \in Nat
      BY <2>1 DEF Claims
    <3> HIDE DEF location
    <3> QED BY <1>0, <2>1, <2>5, <3>1, ExpiresAtType, ConstantsAssumption DEF Accepted
  <2> HIDE DEF location, r
  <2>8. pc'[c] = location /\ req'[c] = r
    BY <2>4 DEF Goto, RightsInv, TypeOK
  <2>9. CallOK(c)'
    BY <1>0, <2>1, <2>3, <2>4, <2>5, <2>6, <2>7, <2>8, ConstantsAssumption
    DEF CallOK, Rightful
  <2> QED BY <2>2, <2>4, <2>9, CallMoves
<1> QED BY <1>1, <1>2

\* The one step that signs.
LEMMA SignNext ==
  ASSUME RightsInv, NEW c \in Calls, Sign(c)
  PROVE  RightsInv'
<1> DEFINE r == req[c]
           token == [UserID |-> r.user, Roles |-> r.roles, ExpiresAt |-> ExpiresAt(now),
                     SignedAt |-> now]
<1>0. now \in Nat
  BY ConstantsAssumption DEF RightsInv, TypeOK
<1>1. /\ r \in Request /\ r.user \in Users /\ lastHad[r.user][r.roles] >= r.since
      /\ now <= r.since + MaxCallTime
  BY DEF RightsInv, TypeOK, CallOK, Sign
<1>2. r.roles \in RoleSets /\ r.since \in Nat
  BY <1>1 DEF Request
<1>3. lastHad[r.user][r.roles] \in Nat \cup {-1}
  BY <1>1, <1>2 DEF RightsInv, TypeOK
<1>4. token \in Claims
  BY <1>0, <1>1, <1>2, ExpiresAtType DEF Claims
<1>5. /\ tokens' = tokens \cup {token} /\ Goto(c, "idle")
      /\ req' = [req EXCEPT ![c] = NoRequest] /\ UNCHANGED <<now, accounts, lastHad>>
  BY DEF Sign
<1>6. TypeOK'
  BY <1>4, <1>5, NoRequestType DEF RightsInv, TypeOK, Goto, Locations
<1>7. Rightful(token)
  BY <1>0, <1>1, <1>2, <1>3, ConstantsAssumption DEF Rightful
<1>8. HadOK'
  BY <1>5 DEF RightsInv, HadOK
<1>9. TokensOK'
  <2>1. token.ExpiresAt = ExpiresAt(token.SignedAt) /\ token.SignedAt <= now
    BY <1>0
  <2> HIDE DEF token
  <2> QED BY <1>5, <1>7, <2>1 DEF RightsInv, TokensOK, Rightful
<1>10. ASSUME NEW d \in Calls PROVE CallOK(d)'
  <2>1. CASE d = c
    BY <1>5, <2>1 DEF CallOK, Goto, RightsInv, TypeOK
  <2>2. CASE d # c
    BY <1>5, <2>2 DEF CallOK, Goto, RightsInv, TypeOK, Rightful
  <2> QED BY <2>1, <2>2
<1> QED BY <1>6, <1>8, <1>9, <1>10 DEF RightsInv

\* An account changes, or time goes on.
LEMMA WorldNext ==
  ASSUME RightsInv,
         \/ \E u \in Users, roles \in {{"admin"}, {"user"}, Nil} : SetAccount(u, roles)
         \/ Tick
  PROVE  RightsInv'
<1>0. now \in Nat /\ TypeOK /\ HadOK
  BY ConstantsAssumption DEF RightsInv, TypeOK
<1>1. /\ now' \in 0..MaxTime /\ now <= now' /\ now' \in Nat
      /\ accounts' \in [Users -> RoleSets \cup {Nil}]
      /\ lastHad' = Noted(accounts', now')
      /\ UNCHANGED <<tokens, pc, req>>
  BY <1>0, ConstantsAssumption
  DEF SetAccount, Tick, TypeOK, RoleSets, RoleNames, RolePermissions, Noted
<1>2. /\ lastHad' \in [Users -> [RoleSets -> Nat \cup {-1}]]
      /\ HadOK'
      /\ \A u \in Users, r \in RoleSets : lastHad[u][r] <= lastHad'[u][r]
  BY <1>0, <1>1, NotedLater
<1>3. TypeOK'
  BY <1>0, <1>1, <1>2 DEF TypeOK
<1>4. TokensOK'
  <2> SUFFICES ASSUME NEW token \in tokens
               PROVE  /\ token.ExpiresAt = ExpiresAt(token.SignedAt)
                      /\ token.SignedAt <= now'
                      /\ Rightful(token)'
    BY <1>1 DEF TokensOK
  <2>1. token \in Claims /\ Rightful(token)
    BY DEF RightsInv, TypeOK, TokensOK
  <2>2. token.SignedAt \in Nat /\ token.SignedAt <= now
    BY <2>1 DEF Claims, RightsInv, TokensOK
  <2> QED BY <1>0, <1>1, <1>2, <1>3, <2>1, <2>2, RightfulLater DEF RightsInv, TokensOK
<1>5. ASSUME NEW c \in Calls PROVE CallOK(c)'
  <2> DEFINE r == req[c]
  <2>1. r \in Request /\ CallOK(c) /\ pc'[c] = pc[c] /\ req'[c] = r
    BY <1>1 DEF RightsInv, TypeOK
  <2>2. r.since \in Nat /\ r.roles \in RoleSets
    BY <2>1 DEF Request
  <2>3. pc[c] # "idle" => r.since <= now' /\ now' <= r.since + MaxCallTime
    BY <1>0, <1>1, <2>1, <2>2, ConstantsAssumption DEF CallOK, Tick, SetAccount
  <2>4. pc[c] = "sign" => r.user \in Users /\ lastHad'[r.user][r.roles] >= r.since
    <3> SUFFICES ASSUME pc[c] = "sign"
                 PROVE  r.user \in Users /\ lastHad'[r.user][r.roles] >= r.since
      OBVIOUS
    <3>1. r.user \in Users /\ lastHad[r.user][r.roles] >= r.since
      BY <2>1 DEF CallOK
    <3>2. /\ lastHad[r.user][r.roles] <= lastHad'[r.user][r.roles]
          /\ lastHad[r.user][r.roles] \in Nat \cup {-1}
          /\ lastHad'[r.user][r.roles] \in Nat \cup {-1}
      BY <1>0, <1>2, <2>2, <3>1 DEF TypeOK
    <3> QED BY <2>2, <3>1, <3>2
  <2>5. pc[c] = "act" => Rightful(r.claims)'
    BY <1>0, <1>2, <1>3, <2>1, RightfulLater DEF CallOK
  <2> QED BY <2>1, <2>3, <2>4, <2>5 DEF CallOK
<1> QED BY <1>2, <1>3, <1>4, <1>5 DEF RightsInv

LEMMA RightsInvariant == Spec => []RightsInv
<1>1. RightsInv /\ [Next]_vars => RightsInv'
  <2>1. RightsInv /\ UNCHANGED vars => RightsInv'
    BY DEF RightsInv, vars, TypeOK, HadOK, TokensOK, Rightful, CallOK
  <2> QED BY <2>1, CallsNext, ReadAccountNext, PresentNext, SignNext, WorldNext DEF Next
<1> QED BY <1>1, RightsInit, PTL DEF Spec

-----------------------------------------------------------------------------
\* A token is good for more than the TTL less a second and no longer than the
\* TTL, whatever the TTL and wherever in its second it was signed.
THEOREM LifetimeHolds == Spec => []Lifetime
<1>1. ASSUME RightsInv, NEW token \in tokens
      PROVE  /\ Accepted(token) => now < token.SignedAt + AccessTokenTTL
             /\ now <= token.SignedAt + AccessTokenTTL - Second => Accepted(token)
  <2>1. token \in Claims /\ token.ExpiresAt = ExpiresAt(token.SignedAt) /\ now \in Nat
    BY <1>1, ConstantsAssumption DEF RightsInv, TypeOK, TokensOK
  <2>2. token.SignedAt \in Nat
    BY <2>1 DEF Claims
  <2> QED BY <2>1, <2>2, ExpiresAtType, ConstantsAssumption DEF Accepted
<1>2. RightsInv => Lifetime
  BY <1>1 DEF Lifetime, RightsInv
<1> QED BY <1>2, RightsInvariant, PTL

\* What a call does with a permission, it does no later than one TTL and the
\* time of two calls after the account had it, for any number of accounts.
THEOREM ActLagHolds == Spec => []ActLag
<1>1. ASSUME RightsInv, NEW c \in Calls, pc[c] = "act",
             ~(req[c].op = "GetProfile" /\ req[c].claims.UserID = req[c].user)
      PROVE  \E roles \in RoleSets :
               /\ Needs[req[c].op] \subseteq ResolvePermissions(roles)
               /\ lastHad[req[c].claims.UserID][roles] >= 0
               /\ now < lastHad[req[c].claims.UserID][roles] + AccessTokenTTL + 2 * MaxCallTime
  <2> DEFINE r == req[c]
             had == lastHad[r.claims.UserID][r.claims.Roles]
  <2>1. /\ r \in Request /\ CallOK(c) /\ r.claims \in Claims /\ now \in Nat
        /\ May(r.claims, r.op, r.user) /\ Rightful(r.claims)
        /\ r.since < r.claims.SignedAt + AccessTokenTTL /\ now <= r.since + MaxCallTime
    BY <1>1, ConstantsAssumption DEF RightsInv, TypeOK, CallOK
  <2>2. r.since \in Nat
    BY <2>1 DEF Request
  <2>3. r.claims.Roles \in RoleSets /\ r.claims.UserID \in Users /\ r.claims.SignedAt \in Nat
    BY <2>1 DEF Claims
  <2>4. Needs[r.op] \subseteq ResolvePermissions(r.claims.Roles)
    BY <1>1, <2>1 DEF May
  <2>5. had \in Nat \cup {-1} /\ had >= 0 /\ r.claims.SignedAt <= had + MaxCallTime
    BY <1>1, <2>1, <2>3 DEF Rightful, RightsInv, TypeOK
  <2>6. now < had + AccessTokenTTL + 2 * MaxCallTime
    <3> HIDE DEF had
    <3> QED BY <2>1, <2>2, <2>3, <2>5, ConstantsAssumption
  <2> QED BY <2>3, <2>4, <2>5, <2>6
<1>2. RightsInv => ActLag
  BY <1>1 DEF ActLag
<1> QED BY <1>2, RightsInvariant, PTL

-----------------------------------------------------------------------------
(* Page tokens: the order of a list and the positions of its users. *)

\* What users may be.
Tables == [Ids -> User \cup {None, Gone}]

Exists(table, id) == table[id] \notin {None, Gone}

LEMMA RowFacts ==
  ASSUME NEW T \in Tables, NEW id \in Ids, Exists(T, id)
  PROVE  T[id] \in User /\ T[id].createdAt \in Int /\ id \in Int
<1>1. T[id] \in User
  BY DEF Tables, Exists
<1>2. T[id].createdAt \in Times
  BY <1>1 DEF User
<1>3. id \in Int
  BY PagesAssumption DEF Ids
<1> QED BY <1>1, <1>2, <1>3, PagesAssumption

\* Sets of ids are finite.
LEMMA IdsFinite ==
  ASSUME NEW S \in SUBSET Ids
  PROVE  IsFiniteSet(S) /\ Cardinality(S) \in Nat
<1>1. IsFiniteSet(Ids)
  BY FS_Interval, PagesAssumption DEF Ids
<1> QED BY <1>1, FS_Subset, FS_CardinalityType

\* What Position counts.
Ahead(table, id) == {other \in Listed(table) : other = id \/ Before(table, other, id)}

\* A list is finite, its users are there, and positions are numbers.
LEMMA ListedFacts ==
  ASSUME NEW T \in Tables
  PROVE  /\ Listed(T) \in SUBSET Ids
         /\ Cardinality(Listed(T)) \in Nat
         /\ \A id \in Listed(T) : Exists(T, id) /\ T[id].createdAt \in Int /\ id \in Int
         /\ \A id \in Ids : /\ Ahead(T, id) \in SUBSET Listed(T)
                            /\ Position(T, id) = Cardinality(Ahead(T, id))
                            /\ Position(T, id) \in Nat
<1>1. Listed(T) \in SUBSET Ids
  BY DEF Listed
<1>2. \A id \in Listed(T) : Exists(T, id)
  BY DEF Listed, Exists
<1>3. \A id \in Ids : Ahead(T, id) \in SUBSET Listed(T) /\ Ahead(T, id) \in SUBSET Ids
  BY <1>1 DEF Ahead
<1>4. \A id \in Ids : Position(T, id) = Cardinality(Ahead(T, id))
  BY DEF Position, Ahead
<1> QED BY <1>1, <1>2, <1>3, <1>4, RowFacts, IdsFinite

\* ORDER BY is a total order on the users of a list.
LEMMA Order ==
  ASSUME NEW T \in Tables, NEW a \in Listed(T), NEW b \in Listed(T), NEW c \in Listed(T)
  PROVE  /\ ~Before(T, a, a)
         /\ Before(T, a, b) /\ Before(T, b, c) => Before(T, a, c)
         /\ a # b => Before(T, a, b) \/ Before(T, b, a)
BY ListedFacts DEF Before

\* Later in the order is later in the list.
LEMMA PositionGrows ==
  ASSUME NEW T \in Tables, NEW a \in Listed(T), NEW b \in Listed(T), Before(T, a, b)
  PROVE  Position(T, a) < Position(T, b)
<1>1. Ahead(T, a) \subseteq Ahead(T, b)
  BY Order DEF Ahead
<1>2. b \in Ahead(T, b) /\ b \notin Ahead(T, a)
  BY Order DEF Ahead
<1>3. a \in Ids /\ b \in Ids
  BY ListedFacts
<1>4. IsFiniteSet(Ahead(T, b))
  BY <1>3, ListedFacts, IdsFinite
<1>5. /\ Cardinality(Ahead(T, a)) <= Cardinality(Ahead(T, b))
      /\ Cardinality(Ahead(T, a)) # Cardinality(Ahead(T, b))
  BY <1>1, <1>2, <1>4, FS_Subset
<1> QED BY <1>3, <1>5, ListedFacts

\* Positions are between 1 and the number of users.
LEMMA PositionRange ==
  ASSUME NEW T \in Tables, NEW id \in Listed(T)
  PROVE  Position(T, id) \in 1..Cardinality(Listed(T))
<1>1. id \in Ids /\ IsFiniteSet(Listed(T)) /\ Cardinality(Listed(T)) \in Nat
  BY ListedFacts, IdsFinite
<1>2. id \in Ahead(T, id) /\ Ahead(T, id) \in SUBSET Listed(T)
  BY <1>1, ListedFacts DEF Ahead
<1>3. /\ IsFiniteSet(Ahead(T, id))
      /\ Cardinality(Ahead(T, id)) <= Cardinality(Listed(T))
  BY <1>1, <1>2, FS_Subset
<1>4. Cardinality(Ahead(T, id)) # 0
  BY <1>2, <1>3, FS_EmptySet
<1> QED BY <1>1, <1>3, <1>4, ListedFacts

\* No two users share a position (the rows of one millisecond have an order).
LEMMA PositionUnique ==
  ASSUME NEW T \in Tables, NEW a \in Listed(T), NEW b \in Listed(T),
         Position(T, a) = Position(T, b)
  PROVE  a = b
<1>1. Position(T, a) \in Int /\ Position(T, b) \in Int
  BY PositionRange
<1> QED BY <1>1, Order, PositionGrows

\* Without gaps: whom CHOOSE picks in Page is there.
LEMMA PositionOnto ==
  ASSUME NEW T \in Tables, NEW n \in 1..Cardinality(Listed(T))
  PROVE  \E id \in Listed(T) : Position(T, id) = n
<1> DEFINE f == [id \in Listed(T) |-> Position(T, id)]
           N == 1..Cardinality(Listed(T))
<1>1. f \in Injection(Listed(T), N)
  <2>1. f \in [Listed(T) -> N]
    BY PositionRange
  <2> QED BY <2>1, PositionUnique DEF Injection, IsInjective
<1>2. Cardinality(Listed(T)) \in Nat
  BY ListedFacts
<1>3. IsFiniteSet(N) /\ Cardinality(N) = Cardinality(Listed(T))
  BY <1>2, FS_Interval
<1>4. f \in Surjection(Listed(T), N)
  <2> HIDE DEF f, N
  <2> QED BY <1>1, <1>3, FS_Injection
<1>5. \E id \in Listed(T) : f[id] = n
  BY <1>4 DEF Surjection
<1> QED BY <1>5

\* As many users as n have a position up to n.
LEMMA FirstCount ==
  ASSUME NEW T \in Tables, NEW n \in 0..Cardinality(Listed(T))
  PROVE  Cardinality({id \in Listed(T) : Position(T, id) <= n}) = n
<1> DEFINE S == {id \in Listed(T) : Position(T, id) <= n}
<1>0. Cardinality(Listed(T)) \in Nat
  BY ListedFacts
<1>1. CASE n = 0
  <2>1. S = {}
    BY <1>1, PositionRange
  <2> QED BY <1>1, <2>1, FS_EmptySet
<1>2. CASE n # 0
  <2>1. n \in 1..Cardinality(Listed(T))
    BY <1>0, <1>2
  <2>2. PICK z \in Listed(T) : Position(T, z) = n
    BY <2>1, PositionOnto
  <2>3. \A id \in Listed(T) : Position(T, id) \in Int
    BY PositionRange
  <2>4. \A id \in Listed(T) : Position(T, id) <= n <=> id = z \/ Before(T, id, z)
    BY <2>2, <2>3, PositionGrows, Order
  <2>5. S = Ahead(T, z)
    BY <2>4 DEF Ahead
  <2>6. z \in Ids
    BY ListedFacts
  <2> QED BY <2>2, <2>5, <2>6, ListedFacts
<1> QED BY <1>1, <1>2

\* The users at so many positions behind one.
Stretch(table, from, length) ==
  {id \in Listed(table) : from < Position(table, id) /\ Position(table, id) <= from + length}

\* A stretch within the list has as many users as it has positions.
LEMMA StretchCount ==
  ASSUME NEW T \in Tables, NEW a \in Nat, NEW length \in Nat,
         a + length <= Cardinality(Listed(T))
  PROVE  Cardinality(Stretch(T, a, length)) = length
<1> DEFINE S(n) == {id \in Listed(T) : Position(T, id) <= n}
           b == a + length
           D == Stretch(T, a, length)
<1>0. Cardinality(Listed(T)) \in Nat /\ IsFiniteSet(Listed(T))
  BY ListedFacts, IdsFinite
<1>1. \A id \in Listed(T) : Position(T, id) \in Int
  BY PositionRange
<1>2. S(b) \cap S(a) = S(a) /\ S(b) \ S(a) = D
  BY <1>1 DEF Stretch
<1>3. IsFiniteSet(S(b))
  BY <1>0, FS_Subset
<1>4. Cardinality(S(a)) = a /\ Cardinality(S(b)) = b
  BY <1>0, FirstCount
<1> HIDE DEF S, D
<1>5. Cardinality(S(b) \ S(a)) = Cardinality(S(b)) - Cardinality(S(b) \cap S(a))
  BY <1>3, FS_Difference
<1>6. Cardinality(D) = Cardinality(S(b)) - Cardinality(S(a))
  BY <1>2, <1>5
<1> QED BY <1>4, <1>6 DEF D

-----------------------------------------------------------------------------
\* A page has room for a user at least: a page size of 0 or less is the default.
LEMMA LimitType ==
  ASSUME NEW size \in PageSizes
  PROVE  Limit(size) \in Nat \ {0}
<1>1. size \in Int
  BY PagesAssumption
<1> QED BY <1>1, PagesAssumption DEF Limit

\* Who is in a sequence of users.
ToSet(s) == {s[i] : i \in DOMAIN s}

\* How long a page is when so many users are left.
PageLength(there, limit) ==
  IF there < 0 THEN 0 ELSE IF there < limit THEN there ELSE limit

\* A page is the users at the positions behind the token, in their order.
LEMMA PageFacts ==
  ASSUME NEW T \in Tables, NEW from \in Nat, NEW limit \in Nat,
         NEW page, page = Page(T, from, limit)
  PROVE  /\ page \in Seq(Ids)
         /\ Len(page) = PageLength(Cardinality(Listed(T)) - from, limit)
         /\ ToSet(page) = Stretch(T, from, Len(page))
<1> DEFINE there == Cardinality(Listed(T)) - from
           size == PageLength(there, limit)
<1>0. Cardinality(Listed(T)) \in Nat /\ there \in Int
  BY ListedFacts
<1>1. size \in Nat /\ from + size <= from + limit
      /\ (size > 0 => from + size <= Cardinality(Listed(T)))
  BY <1>0 DEF PageLength
<1>2. 1..(IF there < limit THEN there ELSE limit) = 1..size
  BY <1>0 DEF PageLength
<1>3. page = [n \in 1..size |-> CHOOSE id \in Listed(T) : Position(T, id) = from + n]
  BY <1>2 DEF Page
<1> HIDE DEF size
<1>4. ASSUME NEW n \in 1..size
      PROVE  page[n] \in Listed(T) /\ Position(T, page[n]) = from + n
  <2>1. from + n \in 1..Cardinality(Listed(T))
    BY <1>0, <1>1
  <2>2. \E id \in Listed(T) : Position(T, id) = from + n
    BY <2>1, PositionOnto
  <2> QED BY <1>3, <2>2
<1>5. page \in Seq(Ids) /\ DOMAIN page = 1..size /\ Len(page) = size
  <2>1. page \in [1..size -> Ids]
    BY <1>3, <1>4, ListedFacts
  <2> QED BY <1>1, <2>1
<1>6. ToSet(page) = Stretch(T, from, Len(page))
  <2>1. ASSUME NEW id \in Listed(T), from < Position(T, id), Position(T, id) <= from + size
        PROVE  id \in ToSet(page)
    <3>1. Position(T, id) \in Int
      BY PositionRange
    <3>2. Position(T, id) - from \in 1..size
      BY <1>1, <2>1, <3>1
    <3>3. page[Position(T, id) - from] = id
      <4>1. from + (Position(T, id) - from) = Position(T, id)
        BY <3>1
      <4> QED BY <1>4, <3>2, <4>1, PositionUnique
    <3> QED BY <1>5, <3>2, <3>3 DEF ToSet
  <2>2. ASSUME NEW n \in 1..size
        PROVE  /\ page[n] \in Listed(T) /\ from < Position(T, page[n])
               /\ Position(T, page[n]) <= from + size
    BY <1>1, <1>4
  <2> QED BY <1>5, <2>1, <2>2 DEF ToSet, Stretch
<1> QED BY <1>5, <1>6 DEF size

\* The users of one sequence followed by another.
LEMMA Appended ==
  ASSUME NEW s \in Seq(Ids), NEW t \in Seq(Ids)
  PROVE  /\ s \o t \in Seq(Ids)
         /\ Len(s \o t) = Len(s) + Len(t)
         /\ ToSet(s \o t) = ToSet(s) \cup ToSet(t)
<1>1. /\ s \o t \in Seq(Ids) /\ Len(s \o t) = Len(s) + Len(t)
      /\ Len(s) \in Nat /\ Len(t) \in Nat
      /\ DOMAIN s = 1..Len(s) /\ DOMAIN t = 1..Len(t) /\ DOMAIN (s \o t) = 1..(Len(s) + Len(t))
      /\ \A i \in 1..(Len(s) + Len(t)) :
           (s \o t)[i] = IF i <= Len(s) THEN s[i] ELSE t[i - Len(s)]
  OBVIOUS
<1> DEFINE w == s \o t
<1> HIDE DEF w
<1>2. ASSUME NEW i \in DOMAIN w PROVE w[i] \in ToSet(s) \cup ToSet(t)
  <2>1. CASE i <= Len(s)
    BY <1>1, <1>2, <2>1 DEF ToSet, w
  <2>2. CASE i > Len(s)
    <3>1. i - Len(s) \in DOMAIN t /\ w[i] = t[i - Len(s)]
      BY <1>1, <1>2, <2>2 DEF w
    <3> QED BY <3>1 DEF ToSet
  <2> QED BY <1>1, <1>2, <2>1, <2>2 DEF w
<1>3. ASSUME NEW i \in DOMAIN s PROVE s[i] \in ToSet(w)
  <2>1. i \in DOMAIN w /\ w[i] = s[i]
    BY <1>1, <1>3 DEF w
  <2> QED BY <2>1 DEF ToSet
<1>4. ASSUME NEW i \in DOMAIN t PROVE t[i] \in ToSet(w)
  <2>1. i + Len(s) \in DOMAIN w /\ (i + Len(s)) - Len(s) = i
    BY <1>1, <1>4 DEF w
  <2>2. i + Len(s) > Len(s)
    BY <1>1, <1>4
  <2>3. w[i + Len(s)] = t[i]
    BY <1>1, <2>1, <2>2 DEF w
  <2> QED BY <2>1, <2>3 DEF ToSet
<1>5. ToSet(w) = ToSet(s) \cup ToSet(t)
  BY <1>2, <1>3, <1>4 DEF ToSet
<1> QED BY <1>1, <1>5 DEF w

-----------------------------------------------------------------------------
(* What other clients do changes the row of one user. *)

\* The tables differ in the row of x, whose created_at stays and whose id is not
\* used again.
OneRow(table, x) ==
  /\ x \in Ids /\ table \in Tables
  /\ \A id \in Ids \ {x} : table[id] = users[id]
  /\ users[x] = Gone => table[x] = Gone
  /\ Exists(users, x) => table[x] # None
  /\ Exists(users, x) /\ Exists(table, x) => table[x].createdAt = users[x].createdAt

\* CreateUser, DeleteUser and UpdateUser are such changes.
LEMMA ChangeOfOne ==
  ASSUME WalkTypes, NEW x \in Ids,
         \/ \E at \in Times, matches \in BOOLEAN : Create(x, at, matches)
         \/ Delete(x) \/ Update(x)
  PROVE  \E table : OneRow(table, x) /\ Change(table)
<1>1. users \in Tables
  BY DEF WalkTypes, Tables
<1>2. ASSUME NEW at \in Times, NEW matches \in BOOLEAN, Create(x, at, matches)
      PROVE  \E table : OneRow(table, x) /\ Change(table)
  <2> DEFINE row == [createdAt |-> at, matches |-> matches]
             table == [users EXCEPT ![x] = row]
  <2>1. row \in User
    BY DEF User
  <2>2. table \in Tables /\ table[x] = row /\ \A id \in Ids \ {x} : table[id] = users[id]
    BY <1>1, <2>1 DEF Tables
  <2>3. users[x] = None /\ Change(table)
    BY <1>2 DEF Create
  <2> HIDE DEF table
  <2>4. OneRow(table, x)
    BY <2>2, <2>3, PagesAssumption DEF OneRow, Exists
  <2> QED BY <2>3, <2>4
<1>3. CASE Delete(x)
  <2> DEFINE table == [users EXCEPT ![x] = Gone]
  <2>1. table \in Tables /\ table[x] = Gone /\ \A id \in Ids \ {x} : table[id] = users[id]
    BY <1>1 DEF Tables
  <2>2. Change(table)
    BY <1>3 DEF Delete
  <2> HIDE DEF table
  <2>3. OneRow(table, x)
    BY <2>1, PagesAssumption DEF OneRow, Exists
  <2> QED BY <2>2, <2>3
<1>4. CASE Update(x)
  <2> DEFINE row == [users[x] EXCEPT !.matches = ~@]
             table == [users EXCEPT ![x] = row]
  <2>1. users[x] \in User /\ Exists(users, x)
    BY <1>1, <1>4 DEF Update, Tables, Exists
  <2>2. row \in User /\ row.createdAt = users[x].createdAt
    BY <2>1 DEF User
  <2>3. table \in Tables /\ table[x] = row /\ \A id \in Ids \ {x} : table[id] = users[id]
    BY <1>1, <2>2 DEF Tables
  <2>4. Change(table)
    BY <1>4 DEF Update
  <2> HIDE DEF table, row
  <2>5. OneRow(table, x)
    BY <2>1, <2>2, <2>3, PagesAssumption DEF OneRow, Exists
  <2> QED BY <2>4, <2>5
<1> QED BY <1>2, <1>3, <1>4

\* A set that holds one thing or nothing.
LEMMA AtMostOne ==
  ASSUME NEW x, NEW S \in SUBSET {x}
  PROVE  Cardinality(S) = IF x \in S THEN 1 ELSE 0
<1>1. S = IF x \in S THEN {x} ELSE {}
  OBVIOUS
<1> QED BY <1>1, FS_EmptySet, FS_Singleton

\* Who comes to be listed by a change, and who ceases to be.
Came(table) == Listed(table) \ Listed(users)
Went(table) == Listed(users) \ Listed(table)

\* So the history variables grow by one or stay.
LEMMA ChangeCounts ==
  ASSUME WalkTypes, NEW table, NEW x, OneRow(table, x), Change(table)
  PROVE  /\ WalkTypes'
         /\ offset \in Nat /\ Came(table) \subseteq {x} /\ Went(table) \subseteq {x}
         /\ left' = left + (IF x \in Went(table) /\ Position(users, x) <= offset THEN 1 ELSE 0)
         /\ arrived' = arrived +
                         (IF x \in Came(table) /\ Position(table, x) <= offset THEN 1 ELSE 0)
<1>1. offset \in Nat /\ left \in Nat /\ arrived \in Nat
  BY DEF WalkTypes, Change
<1>2. \A id \in Ids \ {x} : id \in Listed(users) <=> id \in Listed(table)
  BY DEF OneRow, Listed
<1>3. Came(table) \subseteq {x} /\ Went(table) \subseteq {x}
  BY <1>2 DEF Came, Went, Listed
<1>4. Cardinality({id \in Went(table) : Position(users, id) <= offset})
        = IF x \in Went(table) /\ Position(users, x) <= offset THEN 1 ELSE 0
  BY <1>3, AtMostOne
<1>5. Cardinality({id \in Came(table) : Position(table, id) <= offset})
        = IF x \in Came(table) /\ Position(table, x) <= offset THEN 1 ELSE 0
  BY <1>3, AtMostOne
<1>6. /\ left' = left + Cardinality({id \in Went(table) : Position(users, id) <= offset})
      /\ arrived' = arrived + Cardinality({id \in Came(table) : Position(table, id) <= offset})
  BY DEF Change, Came, Went
<1>7. left' \in Nat /\ arrived' \in Nat
  BY <1>1, <1>4, <1>5, <1>6
<1>8. WalkTypes'
  BY <1>7, PagesAssumption DEF WalkTypes, Change, OneRow, Tables
<1> QED BY <1>1, <1>3, <1>4, <1>5, <1>6, <1>8

\* Who was up to a user and is not the one that changed, still is.
LEMMA Shift ==
  ASSUME users \in Tables, NEW table, NEW x, OneRow(table, x),
         NEW id \in Listed(users) \cap Listed(table)
  PROVE  /\ Ahead(table, id) \ Came(table) = Ahead(users, id) \ Went(table)
         /\ Ahead(table, id) \cap Went(table) = {}
         /\ Ahead(users, id) \cap Came(table) = {}
<1>1. \A other \in Listed(users) \cap Listed(table) :
        /\ other \in Ids
        /\ table[other].createdAt = users[other].createdAt
  BY DEF OneRow, Listed, Exists
<1>2. \A other \in Listed(users) \cap Listed(table) :
        Before(table, other, id) <=> Before(users, other, id)
  BY <1>1 DEF Before
<1> QED BY <1>2 DEF Ahead, Came, Went

-----------------------------------------------------------------------------
(* What a walk misses. *)

\* The inductive invariant: who has been listed all the time still is, so it has a
\* position.
MissesInv ==
  /\ WalkTypes
  /\ steady \subseteq Listed(users)
  /\ MissesBounded

\* Of the page the client gets: its length, and who is on it.
LEMMA NextPageFacts ==
  ASSUME WalkTypes, NEW size \in PageSizes, NextPage(size)
  PROVE  LET page == Page(users, offset, Limit(size))
             last == offset + Len(page)
         IN  /\ WalkTypes'
             /\ offset \in Nat /\ Len(page) \in Nat
             /\ Len(got') = Len(got) + Len(page)
             /\ ToSet(got') = ToSet(got) \cup
                              Stretch(users, offset, Len(page))
             /\ Len(page) > 0 => last <= Cardinality(Listed(users))
             /\ offset' # None => offset' = last
             /\ offset' = None => Cardinality(Listed(users)) <= last
<1> DEFINE page == Page(users, offset, Limit(size))
<1>1. offset \in Nat /\ users \in Tables /\ got \in Seq(Ids)
  BY DEF NextPage, WalkTypes, Tables
<1>2. Limit(size) \in Nat \ {0} /\ Cardinality(Listed(users)) \in Nat
  BY <1>1, LimitType, ListedFacts
<1>3. /\ page \in Seq(Ids)
      /\ Len(page) = PageLength(Cardinality(Listed(users)) - offset, Limit(size))
      /\ ToSet(page) = Stretch(users, offset, Len(page))
  <2>1. Limit(size) \in Nat
    BY <1>2
  <2>2. page = Page(users, offset, Limit(size))
    OBVIOUS
  <2> HIDE DEF page
  <2> QED BY <1>1, <2>1, <2>2, PageFacts
<1>4. /\ got' = got \o page
      /\ offset' = IF Len(page) = Limit(size) THEN offset + Limit(size) ELSE None
  BY DEF NextPage, NextToken
<1> HIDE DEF page
<1>5. /\ Len(page) \in Nat
      /\ Len(page) > 0 => offset + Len(page) <= Cardinality(Listed(users))
      /\ Len(page) # Limit(size) => Cardinality(Listed(users)) <= offset + Len(page)
  BY <1>1, <1>2, <1>3 DEF PageLength
<1>6. /\ got' \in Seq(Ids) /\ Len(got') = Len(got) + Len(page)
      /\ ToSet(got') = ToSet(got) \cup ToSet(page)
  BY <1>1, <1>3, <1>4, Appended
<1>7. offset' \in Nat \cup {None}
  BY <1>1, <1>2, <1>4
<1>8. WalkTypes'
  BY <1>6, <1>7 DEF WalkTypes, NextPage
<1>9. /\ offset' # None => offset' = offset + Len(page)
      /\ offset' = None => Cardinality(Listed(users)) <= offset + Len(page)
  <2>1. CASE Len(page) = Limit(size)
    BY <1>1, <1>2, <1>4, <2>1, PagesAssumption
  <2>2. CASE Len(page) # Limit(size)
    BY <1>4, <1>5, <2>2
  <2> QED BY <2>1, <2>2
<1> QED BY <1>1, <1>3, <1>5, <1>6, <1>8, <1>9 DEF page

\* A page takes nobody past the token who is not received.
LEMMA MissesPage ==
  ASSUME MissesInv, NEW size \in PageSizes, NextPage(size)
  PROVE  MissesInv'
<1> DEFINE page == Page(users, offset, Limit(size))
           last == offset + Len(page)
           m == Cardinality(Listed(users))
<1>1. users' = users /\ steady' = steady /\ left' = left /\ users \in Tables
  BY DEF NextPage, MissesInv, WalkTypes, Tables
<1>2. /\ WalkTypes' /\ offset \in Nat /\ Len(page) \in Nat
      /\ ToSet(got') = ToSet(got) \cup Stretch(users, offset, Len(page))
      /\ offset' # None => offset' = last
      /\ offset' = None => m <= last
  BY NextPageFacts DEF MissesInv
<1> HIDE DEF page
<1>3. ASSUME NEW id \in Missed' PROVE id \in Missed
  <2>1. id \in steady /\ id \in Listed(users) /\ id \notin ToSet(got')
    BY <1>1, <1>3 DEF Missed, MissesInv, ToSet
  <2>2. Position(users, id) \in 1..m /\ m \in Nat
    BY <1>1, <2>1, PositionRange, ListedFacts
  <2>3. Position(users, id) <= last
    BY <1>1, <1>2, <1>3, <2>2 DEF Missed
  <2>4. Position(users, id) <= offset /\ id \notin ToSet(got)
    BY <1>2, <2>1, <2>2, <2>3 DEF Stretch
  <2> QED BY <2>1, <2>4 DEF Missed, ToSet
<1>4. Missed \in SUBSET Ids
  BY DEF Missed, MissesInv, WalkTypes
<1>5. /\ Cardinality(Missed') \in Nat /\ Cardinality(Missed) \in Nat
      /\ Cardinality(Missed') <= Cardinality(Missed)
  BY <1>3, <1>4, IdsFinite, FS_Subset
<1> QED BY <1>1, <1>2, <1>5 DEF MissesInv, MissesBounded, WalkTypes

\* A change moves a user past the token only if it takes one away from before
\* the token, and then it is the one user right behind it.
LEMMA MissesChange ==
  ASSUME MissesInv, NEW table, NEW x, OneRow(table, x), Change(table)
  PROVE  MissesInv'
<1>1. /\ WalkTypes /\ WalkTypes' /\ offset \in Nat /\ offset' = offset /\ got' = got
      /\ Came(table) \subseteq {x} /\ Went(table) \subseteq {x}
      /\ left' = left + (IF x \in Went(table) /\ Position(users, x) <= offset THEN 1 ELSE 0)
      /\ left \in Nat /\ users' = table /\ steady' = steady \ Went(table)
      /\ users \in Tables /\ table \in Tables
  BY ChangeCounts DEF MissesInv, Change, Went, OneRow, WalkTypes, Tables
<1> DEFINE Fell == {id \in steady' : Position(table, id) <= offset /\ Position(users, id) > offset}
<1>2. steady' \subseteq Listed(table) /\ steady' \subseteq Listed(users)
  BY <1>1 DEF MissesInv, Went
<1>3. Missed' \subseteq Missed \cup Fell
  <2> SUFFICES ASSUME NEW id \in Missed', ~(Position(users, id) > offset) PROVE id \in Missed
    BY <1>1 DEF Missed
  <2>1. id \in steady' /\ (\A i \in DOMAIN got : got[i] # id) /\ id \in Ids
    BY <1>1, <1>2, ListedFacts DEF Missed
  <2>2. Position(users, id) <= offset
    BY <1>1, <2>1, ListedFacts
  <2> QED BY <1>1, <2>1, <2>2 DEF Missed
<1>4. ASSUME NEW id \in Fell
      PROVE  x \in Went(table) /\ Position(users, x) <= offset /\ Position(users, id) = offset + 1
  <2>1. id \in Listed(users) \cap Listed(table) /\ id \in Ids
    BY <1>1, <1>2, ListedFacts
  <2>2. /\ Ahead(table, id) \ Came(table) = Ahead(users, id) \ Went(table)
        /\ Ahead(table, id) \cap Went(table) = {}
        /\ Ahead(users, id) \cap Came(table) = {}
    BY <1>1, <2>1, Shift
  <2>3. /\ Ahead(users, id) \in SUBSET Ids /\ Ahead(table, id) \in SUBSET Ids
        /\ Position(users, id) = Cardinality(Ahead(users, id))
        /\ Position(table, id) = Cardinality(Ahead(table, id))
        /\ Position(users, id) \in Nat /\ Position(table, id) \in Nat
    BY <1>1, <2>1, ListedFacts
  <2>4. Position(table, id) < Position(users, id)
    BY <1>1, <1>4, <2>3
  <2>5. ~(Ahead(users, id) \subseteq Ahead(table, id))
    BY <2>3, <2>4, IdsFinite, FS_Subset
  <2>6. x \in Went(table) /\ x \in Ahead(users, id) /\ x # id
    BY <1>1, <2>1, <2>2, <2>5 DEF Went
  <2>7. x \notin Came(table)
    BY <2>6 DEF Came, Went
  <2>8. Ahead(table, id) = Ahead(users, id) \ {x}
    BY <1>1, <2>2, <2>6, <2>7
  <2>9. Position(table, id) = Position(users, id) - 1
    BY <2>3, <2>6, <2>8, IdsFinite, FS_RemoveElement
  <2>10. Position(users, id) = offset + 1
    BY <1>1, <1>4, <2>3, <2>9
  <2>11. x \in Listed(users) /\ Before(users, x, id)
    BY <2>6 DEF Ahead
  <2>12. Position(users, x) < Position(users, id) /\ Position(users, x) \in Int
    BY <1>1, <2>1, <2>11, PositionGrows, PositionRange
  <2> QED BY <1>1, <2>6, <2>10, <2>12
<1>5. \A a, b \in Fell : a = b
  BY <1>1, <1>2, <1>4, PositionUnique
<1>6. Missed \in SUBSET Ids /\ IsFiniteSet(Missed) /\ Cardinality(Missed) \in Nat
  BY <1>1, IdsFinite DEF Missed, WalkTypes
<1>7. Cardinality(Missed) <= left
  BY DEF MissesInv, MissesBounded
<1>8. Cardinality(Missed') <= left'
  <2>1. CASE Fell = {}
    <3>1. Cardinality(Missed') <= Cardinality(Missed) /\ Cardinality(Missed') \in Nat
      BY <1>3, <1>6, <2>1, FS_Subset, FS_CardinalityType
    <3> QED BY <1>1, <1>6, <1>7, <3>1
  <2>2. CASE Fell # {}
    <3>1. PICK z \in Fell : TRUE
      BY <2>2
    <3>2. Missed' \subseteq Missed \cup {z}
      BY <1>3, <1>5, <3>1
    <3>3. /\ IsFiniteSet(Missed \cup {z}) /\ Cardinality(Missed \cup {z}) \in Nat
          /\ Cardinality(Missed \cup {z}) <= Cardinality(Missed) + 1
      <4>1. /\ IsFiniteSet(Missed \cup {z})
            /\ Cardinality(Missed \cup {z})
                 = IF z \in Missed THEN Cardinality(Missed) ELSE Cardinality(Missed) + 1
        BY <1>6, FS_AddElement
      <4> QED BY <1>6, <4>1
    <3>4. Cardinality(Missed') <= Cardinality(Missed \cup {z}) /\ Cardinality(Missed') \in Nat
      BY <3>2, <3>3, FS_Subset, FS_CardinalityType
    <3>5. left' = left + 1
      BY <1>1, <1>4, <3>1
    <3> QED BY <1>1, <1>6, <1>7, <3>3, <3>4, <3>5
  <2> QED BY <2>1, <2>2
<1> QED BY <1>1, <1>2, <1>8 DEF MissesInv, MissesBounded

\* A walk starts with the types in order and nobody received.
LEMMA WalkInitTypes ==
  ASSUME WalkInit
  PROVE  /\ WalkTypes /\ users \in Tables /\ got = <<>> /\ ToSet(got) = {} /\ offset # None
<1>1. users \in [Ids -> User \cup {None}] /\ got = <<>> /\ offset = 0
  BY DEF WalkInit
<1>2. steady \in SUBSET Ids
  BY DEF WalkInit, Listed
<1> QED BY <1>1, <1>2, PagesAssumption DEF WalkInit, WalkTypes, Tables, ToSet

LEMMA MissesInit == WalkInit => MissesInv
<1> SUFFICES ASSUME WalkInit PROVE MissesInv
  OBVIOUS
<1>1. WalkTypes /\ users \in Tables /\ offset = 0 /\ steady = Listed(users) /\ left = 0
  BY WalkInitTypes DEF WalkInit
<1>2. Missed = {}
  BY <1>1, PositionRange, PagesAssumption DEF Missed
<1> QED BY <1>1, <1>2, FS_EmptySet DEF MissesInv, MissesBounded

\* Whatever the list's length, the page sizes and the changes during the walk:
\* a walk misses no more users than have ceased to be listed ahead of it.
THEOREM MissesBoundedHolds == WalkSpec => []MissesBounded
<1>1. MissesInv /\ [WalkNext]_walkVars => MissesInv'
  <2> SUFFICES ASSUME MissesInv, [WalkNext]_walkVars PROVE MissesInv'
    OBVIOUS
  <2>1. CASE UNCHANGED walkVars
    BY <2>1 DEF walkVars, MissesInv, WalkTypes, MissesBounded, Missed
  <2>2. CASE \E size \in PageSizes : NextPage(size)
    BY <2>2, MissesPage
  <2>3. ASSUME NEW id \in Ids,
               \/ \E at \in Times, matches \in BOOLEAN : Create(id, at, matches)
               \/ Delete(id) \/ Update(id)
        PROVE  MissesInv'
    BY <2>3, ChangeOfOne, MissesChange DEF MissesInv
  <2> QED BY <2>1, <2>2, <2>3 DEF WalkNext
<1>2. MissesInv => MissesBounded
  BY DEF MissesInv
<1> QED BY <1>1, <1>2, MissesInit, PTL DEF WalkSpec

-----------------------------------------------------------------------------
(* What a walk repeats. *)

\* Up to a place in ORDER BY, whether or not somebody listed is there.
NotAfter(table, id, at, last) ==
  /\ Exists(table, id)
  /\ \/ table[id].createdAt > at
     \/ table[id].createdAt = at /\ id <= last

\* Who is listed there, and whom of them, or of those that are gone, the client
\* has received.
InFront(table, at, last) == {id \in Listed(table) : NotAfter(table, id, at, last)}

Seen(table, received, at, last) ==
  {id \in received : table[id] = Gone \/ NotAfter(table, id, at, last)}

\* Up to any place, everyone or as many as the token counts have been seen,
\* except for one for each arrival.
SeenEnough(table, received, token, extra) ==
  \A at \in Times, last \in Ids :
    LET seen == Cardinality(Seen(table, received, at, last))
    IN  Cardinality(InFront(table, at, last)) <= seen + extra \/ token <= seen + extra

\* RepeatsBounded alone says nothing of where in the list those are who were
\* received: a page could hold them all again.
RepeatsInv ==
  /\ RepeatsBounded
  /\ offset # None =>
       /\ Len(got) = offset
       /\ SeenEnough(users, ToSet(got), offset, arrived)

LEMMA FrontFacts ==
  ASSUME NEW T \in Tables, NEW R \in SUBSET Ids, NEW at, NEW last
  PROVE  /\ InFront(T, at, last) \in SUBSET Listed(T)
         /\ Seen(T, R, at, last) \in SUBSET R
         /\ IsFiniteSet(InFront(T, at, last)) /\ Cardinality(InFront(T, at, last)) \in Nat
         /\ IsFiniteSet(Seen(T, R, at, last)) /\ Cardinality(Seen(T, R, at, last)) \in Nat
<1>1. InFront(T, at, last) \in SUBSET Listed(T) /\ Seen(T, R, at, last) \in SUBSET R
  BY DEF InFront, Seen
<1>2. InFront(T, at, last) \in SUBSET Ids /\ Seen(T, R, at, last) \in SUBSET Ids
  BY <1>1, ListedFacts
<1> QED BY <1>1, <1>2, IdsFinite

\* Those in front of a place are the first of the list.
LEMMA FrontFirst ==
  ASSUME NEW T \in Tables, NEW at \in Int, NEW last \in Int, NEW id \in Listed(T)
  PROVE  id \in InFront(T, at, last) <=> Position(T, id) <= Cardinality(InFront(T, at, last))
<1> DEFINE F == InFront(T, at, last)
<1>1. id \in Ids /\ F \in SUBSET Listed(T) /\ IsFiniteSet(F) /\ Cardinality(F) \in Nat
  BY ListedFacts, FrontFacts
<1>2. /\ Position(T, id) = Cardinality(Ahead(T, id)) /\ Position(T, id) \in Nat
      /\ Ahead(T, id) \in SUBSET Ids /\ IsFiniteSet(Ahead(T, id))
  BY <1>1, ListedFacts, IdsFinite
<1>3. ASSUME NEW a \in Listed(T), NEW b \in Listed(T), Before(T, a, b), b \in F
      PROVE  a \in F
  BY <1>3, ListedFacts DEF InFront, NotAfter, Before
<1>4. ASSUME NEW a \in Listed(T), NEW b \in Listed(T), a \in F, b \notin F
      PROVE  Before(T, a, b)
  BY <1>4, ListedFacts DEF InFront, NotAfter, Before
<1>5. CASE id \in F
  <2>1. Ahead(T, id) \subseteq F
    BY <1>3, <1>5 DEF Ahead
  <2> QED BY <1>1, <1>2, <1>5, <2>1, FS_Subset
<1>6. CASE id \notin F
  <2>1. F \subseteq Ahead(T, id) /\ id \in Ahead(T, id)
    BY <1>1, <1>4, <1>6 DEF Ahead
  <2>2. Cardinality(F) <= Cardinality(Ahead(T, id)) /\ Cardinality(F) # Cardinality(Ahead(T, id))
    BY <1>2, <1>6, <2>1, FS_Subset
  <2> QED BY <1>1, <1>2, <1>6, <2>2
<1> QED BY <1>5, <1>6

\* Up to the place of a user of the list are as many as its position says.
LEMMA FrontOfUser ==
  ASSUME NEW T \in Tables, NEW z \in Listed(T)
  PROVE  /\ T[z].createdAt \in Times /\ z \in Ids
         /\ InFront(T, T[z].createdAt, z) = Ahead(T, z)
         /\ Cardinality(InFront(T, T[z].createdAt, z)) = Position(T, z)
<1>1. z \in Ids /\ T[z].createdAt \in Times
  BY DEF Tables, Listed, User
<1>2. InFront(T, T[z].createdAt, z) = Ahead(T, z)
  <2>1. ASSUME NEW other \in Listed(T)
        PROVE  NotAfter(T, other, T[z].createdAt, z) <=> other = z \/ Before(T, other, z)
    BY ListedFacts DEF NotAfter, Before
  <2> QED BY <2>1 DEF InFront, Ahead
<1> QED BY <1>1, <1>2, ListedFacts

\* Among those received are nearly as many as the token counts who are not
\* behind the token.
LEMMA SeenBefore ==
  ASSUME NEW T \in Tables, NEW R \in SUBSET Ids, NEW token \in Nat, NEW extra \in Nat,
         SeenEnough(T, R, token, extra), token < Cardinality(Listed(T))
  PROVE  \E B \in SUBSET R :
           /\ IsFiniteSet(B) /\ Cardinality(B) + extra >= token
           /\ \A id \in Listed(T) : id \in B => Position(T, id) <= token
           /\ \A at \in Times, last \in Ids :
                Cardinality(InFront(T, at, last)) > token => B \subseteq Seen(T, R, at, last)
<1>0. Cardinality(Listed(T)) \in Nat
  BY ListedFacts
<1>1. CASE token = 0
  BY <1>1, FS_EmptySet
<1>2. CASE token > 0
  <2>1. PICK z \in Listed(T) : Position(T, z) = token
    BY <1>0, <1>2, PositionOnto
  <2> DEFINE t == T[z].createdAt
             B == Seen(T, R, t, z)
  <2>2. /\ t \in Times /\ z \in Ids /\ t \in Int /\ z \in Int
        /\ Cardinality(InFront(T, t, z)) = token
    BY <2>1, FrontOfUser, ListedFacts
  <2>3. B \in SUBSET R /\ IsFiniteSet(B) /\ Cardinality(B) \in Nat
    BY FrontFacts
  <2>4. Cardinality(B) + extra >= token
    BY <2>2, <2>3 DEF SeenEnough
  <2>5. ASSUME NEW id \in Listed(T), id \in B PROVE Position(T, id) <= token
    <3>1. Exists(T, id)
      BY ListedFacts
    <3>2. id \in InFront(T, t, z)
      BY <2>5, <3>1 DEF Seen, InFront, Exists
    <3> QED BY <2>2, <3>2, FrontFirst
  <2>6. ASSUME NEW at \in Times, NEW last \in Ids, Cardinality(InFront(T, at, last)) > token
        PROVE  B \subseteq Seen(T, R, at, last)
    <3>1. at \in Int /\ last \in Int
      BY PagesAssumption DEF Ids
    <3>2. Position(T, z) <= Cardinality(InFront(T, at, last))
      BY <2>1, <2>6, FrontFacts
    <3>3. z \in InFront(T, at, last)
      BY <3>1, <3>2, FrontFirst
    <3>4. NotAfter(T, z, at, last)
      BY <3>3 DEF InFront
    <3>5. ASSUME NEW id \in R, NotAfter(T, id, t, z) PROVE NotAfter(T, id, at, last)
      <4>1. T[id].createdAt \in Int /\ id \in Int
        BY <3>5, RowFacts DEF NotAfter
      <4> QED BY <2>2, <3>1, <3>4, <3>5, <4>1 DEF NotAfter
    <3> QED BY <3>5 DEF Seen
  <2> QED BY <2>3, <2>4, <2>5, <2>6
<1> QED BY <1>1, <1>2

\* With a part of the page they make so many more.
LEMMA SeenMore ==
  ASSUME NEW T \in Tables, NEW token \in Nat, NEW extra \in Nat, NEW length \in Nat,
         token + length <= Cardinality(Listed(T)),
         NEW B \in SUBSET Ids, Cardinality(B) + extra >= token,
         \A id \in Listed(T) : id \in B => Position(T, id) <= token,
         NEW S \in SUBSET Ids, B \subseteq S, Stretch(T, token, length) \subseteq S
  PROVE  Cardinality(S) + extra >= token + length
<1> DEFINE Q == Stretch(T, token, length)
<1>1. Q \in SUBSET Listed(T) /\ \A id \in Q : Position(T, id) > token /\ Position(T, id) \in Int
  BY PositionRange DEF Stretch
<1>2. Cardinality(Q) = length
  BY StretchCount
<1>3. Q \in SUBSET Ids /\ Q \cap B = {}
  BY <1>1, ListedFacts
<1>4. /\ IsFiniteSet(B) /\ IsFiniteSet(Q) /\ IsFiniteSet(S)
      /\ Cardinality(B) \in Nat /\ Cardinality(S) \in Nat
  BY <1>3, IdsFinite
<1> HIDE DEF Q
<1>5. Cardinality(Q \cup B) = length + Cardinality(B)
  <2>1. Cardinality(Q \cup B) = Cardinality(Q) + Cardinality(B) - Cardinality(Q \cap B)
    BY <1>4, FS_Union
  <2>2. Cardinality(Q \cap B) = 0
    BY <1>3, FS_EmptySet, Zenon
  <2> QED BY <1>2, <1>4, <2>1, <2>2
<1>6. Cardinality(Q \cup B) <= Cardinality(S)
  <2>1. Q \cup B \in SUBSET S
    BY DEF Q
  <2> QED BY <1>4, <2>1, FS_Subset
<1> QED BY <1>4, <1>5, <1>6

LEMMA Received ==
  ASSUME WalkTypes
  PROVE  /\ users \in Tables /\ ToSet(got) \in SUBSET Ids /\ Len(got) \in Nat
         /\ arrived \in Nat
         /\ RepeatsBounded <=> Len(got) - Cardinality(ToSet(got)) <= arrived
BY DEF WalkTypes, Tables, ToSet, RepeatsBounded

\* A page holds nobody who was seen in front of the token.
LEMMA RepeatsPage ==
  ASSUME RepeatsInv, NEW size \in PageSizes, NextPage(size)
  PROVE  RepeatsInv'
<1> DEFINE page == Page(users, offset, Limit(size))
           R == ToSet(got)
           m == Cardinality(Listed(users))
<1>1. WalkTypes /\ users' = users /\ arrived' = arrived
  BY DEF NextPage, RepeatsInv, RepeatsBounded
<1>2. /\ users \in Tables /\ R \in SUBSET Ids /\ Len(got) \in Nat /\ arrived \in Nat
      /\ m \in Nat
  BY <1>1, Received, ListedFacts
<1>3. /\ WalkTypes' /\ offset \in Nat /\ Len(page) \in Nat
      /\ Len(got') = Len(got) + Len(page)
      /\ ToSet(got') = R \cup Stretch(users, offset, Len(page))
      /\ Len(page) > 0 => offset + Len(page) <= m
      /\ offset' # None => offset' = offset + Len(page)
  BY <1>1, NextPageFacts
<1>4. /\ Len(got) = offset /\ SeenEnough(users, R, offset, arrived)
      /\ Len(got) - Cardinality(R) <= arrived
  BY <1>1, Received DEF RepeatsInv, NextPage
<1> HIDE DEF page, R
<1>5. ToSet(got') \in SUBSET Ids /\ IsFiniteSet(ToSet(got')) /\ Cardinality(ToSet(got')) \in Nat
      /\ IsFiniteSet(R) /\ Cardinality(R) \in Nat
  <2>1. Stretch(users, offset, Len(page)) \in SUBSET Ids
    BY <1>2, ListedFacts DEF Stretch
  <2> QED BY <1>2, <1>3, <2>1, IdsFinite
<1>6. RepeatsBounded' <=> Len(got') - Cardinality(ToSet(got')) <= arrived'
  BY <1>3 DEF RepeatsBounded, ToSet
<1>7. CASE Len(page) = 0
  <2>1. Stretch(users, offset, 0) = {}
    BY <1>2, <1>3, PositionRange DEF Stretch
  <2>2. ToSet(got') = R
    BY <1>3, <1>7, <2>1
  <2>3. /\ Cardinality(ToSet(got')) = Cardinality(R)
        /\ SeenEnough(users, ToSet(got'), offset, arrived)
    BY <1>4, <2>2, Zenon
  <2>4. Len(got') = offset /\ (offset' # None => offset' = offset)
    BY <1>3, <1>4, <1>7
  <2>5. RepeatsBounded'
    BY <1>1, <1>4, <1>6, <2>3, <2>4
  <2> QED BY <1>1, <2>3, <2>4, <2>5 DEF RepeatsInv
<1>8. CASE Len(page) > 0
  <2>0. offset < m
    BY <1>2, <1>3, <1>8
  <2>1. PICK B \in SUBSET R :
           /\ IsFiniteSet(B) /\ Cardinality(B) + arrived >= offset
           /\ \A id \in Listed(users) : id \in B => Position(users, id) <= offset
           /\ \A at \in Times, last \in Ids :
                Cardinality(InFront(users, at, last)) > offset =>
                  B \subseteq Seen(users, R, at, last)
    BY <1>2, <1>3, <1>4, <2>0, SeenBefore
  <2>2. B \in SUBSET Ids
    BY <1>2, <2>1
  <2>3. Cardinality(ToSet(got')) + arrived >= offset + Len(page)
    <3>1. B \subseteq ToSet(got') /\ Stretch(users, offset, Len(page)) \subseteq ToSet(got')
      BY <1>3, <2>1
    <3> QED BY <1>2, <1>3, <1>5, <1>8, <2>1, <2>2, <3>1, SeenMore
  <2>4. RepeatsBounded'
    BY <1>1, <1>2, <1>3, <1>4, <1>5, <1>6, <2>3
  <2>5. SeenEnough(users, ToSet(got'), offset + Len(page), arrived)
    <3> SUFFICES ASSUME NEW at \in Times, NEW last \in Ids
                 PROVE  LET S == Seen(users, ToSet(got'), at, last)
                            F == InFront(users, at, last)
                        IN  \/ Cardinality(F) <= Cardinality(S) + arrived
                            \/ offset + Len(page) <= Cardinality(S) + arrived
      BY DEF SeenEnough
    <3> DEFINE S == Seen(users, ToSet(got'), at, last)
               S0 == Seen(users, R, at, last)
               F == InFront(users, at, last)
    <3> SUFFICES \/ Cardinality(F) <= Cardinality(S) + arrived
                 \/ offset + Len(page) <= Cardinality(S) + arrived
      OBVIOUS
    <3>1. /\ IsFiniteSet(S) /\ Cardinality(S) \in Nat /\ Cardinality(S0) \in Nat
          /\ S \in SUBSET Ids /\ Cardinality(F) \in Nat /\ F \in SUBSET Listed(users)
          /\ IsFiniteSet(Listed(users))
      <4>1. S \in SUBSET ToSet(got')
        BY <1>2, <1>5, FrontFacts
      <4> QED BY <1>2, <1>5, <4>1, FrontFacts, ListedFacts, IdsFinite
    <3>2. S0 \subseteq S
      BY <1>3 DEF Seen
    <3>3. Cardinality(S0) <= Cardinality(S)
      BY <3>1, <3>2, FS_Subset
    <3>4. Cardinality(F) <= Cardinality(S0) + arrived \/ offset <= Cardinality(S0) + arrived
      BY <1>4 DEF SeenEnough
    <3>5. at \in Int /\ last \in Int
      BY PagesAssumption DEF Ids
    <3>6. Cardinality(F) <= m
      BY <3>1, FS_Subset
    <3>7. CASE Cardinality(F) <= offset
      <4> HIDE DEF S, S0, F
      <4> QED BY <1>2, <1>3, <3>1, <3>3, <3>4, <3>7
    <3>8. CASE Cardinality(F) > offset
      <4> DEFINE length == IF Cardinality(F) < offset + Len(page) THEN Cardinality(F) - offset
                           ELSE Len(page)
      <4>1. length \in Nat /\ length <= Len(page) /\ offset + length <= Cardinality(F)
        <5> HIDE DEF F
        <5> QED BY <1>3, <3>1, <3>8
      <4> HIDE DEF length
      <4>2. ASSUME NEW id \in Stretch(users, offset, length) PROVE id \in S
        <5>1. id \in Listed(users) /\ Position(users, id) \in Int /\ offset < Position(users, id)
              /\ Position(users, id) <= offset + length
          BY <1>2, <4>2, PositionRange DEF Stretch
        <5>2. id \in Stretch(users, offset, Len(page)) /\ Position(users, id) <= Cardinality(F)
          BY <1>3, <3>1, <4>1, <5>1 DEF Stretch
        <5>3. id \in F
          BY <1>2, <3>5, <5>1, <5>2, FrontFirst
        <5> QED BY <1>3, <5>2, <5>3 DEF Seen, InFront
      <4>3. B \subseteq S
        BY <2>1, <3>2, <3>8
      <4>4. Cardinality(S) + arrived >= offset + length
        <5>1. offset + length <= m
          BY <1>2, <1>3, <3>1, <3>6, <4>1
        <5>2. Stretch(users, offset, length) \subseteq S
          BY <4>2
        <5> HIDE DEF S
        <5> QED BY <1>2, <1>3, <2>1, <2>2, <3>1, <4>1, <4>3, <5>1, <5>2, SeenMore
      <4> HIDE DEF S, F
      <4> QED BY <1>2, <1>3, <3>1, <3>8, <4>1, <4>4 DEF length
    <3> QED BY <1>3, <3>1, <3>7, <3>8
  <2> QED BY <1>1, <1>3, <1>4, <2>4, <2>5 DEF RepeatsInv
<1> QED BY <1>3, <1>7, <1>8

\* An arrival ahead of the token is counted; one behind it leaves enough in
\* front; who goes or changes stays seen.
LEMMA RepeatsChange ==
  ASSUME RepeatsInv, NEW table, NEW x, OneRow(table, x), Change(table)
  PROVE  RepeatsInv'
<1> DEFINE R == ToSet(got)
           extra == IF x \in Came(table) /\ Position(table, x) <= offset THEN 1 ELSE 0
<1>1. /\ WalkTypes /\ WalkTypes' /\ offset \in Nat /\ offset' = offset /\ got' = got
      /\ users' = table /\ Came(table) \subseteq {x} /\ arrived' = arrived + extra
      /\ table \in Tables /\ x \in Ids
  BY ChangeCounts DEF RepeatsInv, RepeatsBounded, Change, OneRow
<1>2. users \in Tables /\ R \in SUBSET Ids /\ Len(got) \in Nat /\ arrived \in Nat
  BY <1>1, Received
<1>3. /\ Len(got) = offset /\ SeenEnough(users, R, offset, arrived)
      /\ Len(got) - Cardinality(R) <= arrived /\ Cardinality(R) \in Nat
  BY <1>1, <1>2, Received, IdsFinite DEF RepeatsInv, Change
<1>4. extra \in Nat
  OBVIOUS
<1>5. RepeatsBounded'
  <2> HIDE DEF extra
  <2>1. Len(got) - Cardinality(R) <= arrived'
    BY <1>1, <1>2, <1>3, <1>4
  <2> QED BY <1>1, <2>1 DEF RepeatsBounded, ToSet
<1>6. SeenEnough(table, R, offset, arrived + extra)
  <2> SUFFICES ASSUME NEW at \in Times, NEW last \in Ids
               PROVE  LET S == Seen(table, R, at, last)
                          F == InFront(table, at, last)
                      IN  \/ Cardinality(F) <= Cardinality(S) + (arrived + extra)
                          \/ offset <= Cardinality(S) + (arrived + extra)
    BY DEF SeenEnough
  <2> DEFINE S == Seen(table, R, at, last)
             S0 == Seen(users, R, at, last)
             F == InFront(table, at, last)
             F0 == InFront(users, at, last)
  <2> SUFFICES \/ Cardinality(F) <= Cardinality(S) + (arrived + extra)
               \/ offset <= Cardinality(S) + (arrived + extra)
    OBVIOUS
  <2>1. /\ IsFiniteSet(S) /\ Cardinality(S) \in Nat /\ Cardinality(S0) \in Nat
        /\ IsFiniteSet(F) /\ Cardinality(F) \in Nat /\ F \in SUBSET Listed(table)
        /\ IsFiniteSet(F0) /\ Cardinality(F0) \in Nat
    BY <1>1, <1>2, FrontFacts
  <2>2. at \in Int /\ last \in Int
    BY PagesAssumption DEF Ids
  <2>3. ASSUME NEW id \in Ids, users[id] = Gone \/ NotAfter(users, id, at, last)
        PROVE  table[id] = Gone \/ NotAfter(table, id, at, last)
    <3>1. CASE id # x
      BY <1>1, <2>3, <3>1 DEF OneRow, NotAfter, Exists
    <3>2. CASE id = x
      BY <1>1, <2>3, <3>2 DEF OneRow, NotAfter, Exists
    <3> QED BY <3>1, <3>2
  <2>4. Cardinality(S0) <= Cardinality(S)
    <3>1. S0 \subseteq S
      BY <1>2, <2>3 DEF Seen
    <3> QED BY <2>1, <3>1, FS_Subset
  <2>5. Cardinality(F0) <= Cardinality(S0) + arrived \/ offset <= Cardinality(S0) + arrived
    BY <1>3 DEF SeenEnough
  <2>6. F \ {x} \subseteq F0
    BY <1>1 DEF OneRow, InFront, Listed, NotAfter, Exists
  <2>7. CASE F \subseteq F0
    <3>1. Cardinality(F) <= Cardinality(F0)
      BY <2>1, <2>7, FS_Subset
    <3> HIDE DEF F, F0, S, S0, extra
    <3> QED BY <1>1, <1>2, <1>4, <2>1, <2>4, <2>5, <3>1
  <2>8. CASE ~(F \subseteq F0)
    <3>1. x \in F /\ x \notin F0 /\ x \in Listed(table)
      BY <2>1, <2>6, <2>8
    <3>2. x \in Came(table)
      <4> SUFFICES ASSUME x \in Listed(users) PROVE FALSE
        BY <3>1 DEF Came
      <4>1. table[x].createdAt = users[x].createdAt /\ Exists(users, x)
        BY <1>1, <1>2, <3>1, ListedFacts DEF OneRow
      <4> QED BY <3>1, <4>1 DEF InFront, NotAfter
    <3>3. Cardinality(F) = Cardinality(F \ {x}) + 1 /\ Cardinality(F \ {x}) \in Nat
          /\ Cardinality(F \ {x}) <= Cardinality(F0)
      <4>1. IsFiniteSet(F \ {x}) /\ Cardinality(F \ {x}) = Cardinality(F) - 1
        BY <2>1, <3>1, FS_RemoveElement
      <4>2. Cardinality(F \ {x}) <= Cardinality(F0) /\ Cardinality(F \ {x}) \in Nat
        BY <2>1, <2>6, <4>1, FS_Subset, FS_CardinalityType
      <4> QED BY <2>1, <4>1, <4>2
    <3>4. Position(table, x) <= Cardinality(F) /\ Position(table, x) \in Int
      BY <1>1, <2>2, <3>1, FrontFirst, PositionRange
    <3>5. CASE Position(table, x) <= offset
      <4>1. extra = 1
        BY <3>2, <3>5
      <4> HIDE DEF F, F0, S, S0, extra
      <4> QED BY <1>1, <1>2, <2>1, <2>4, <2>5, <3>3, <4>1
    <3>6. CASE Position(table, x) > offset
      <4>1. extra = 0
        BY <1>1, <3>4, <3>6
      <4> HIDE DEF F, F0, S, S0, extra
      <4> QED BY <1>1, <1>2, <2>1, <2>4, <2>5, <3>3, <3>4, <3>6, <4>1
    <3> QED BY <1>1, <3>4, <3>5, <3>6
  <2> QED BY <2>7, <2>8
<1> QED BY <1>1, <1>3, <1>5, <1>6 DEF RepeatsInv

LEMMA RepeatsInit == WalkInit => RepeatsInv
<1> SUFFICES ASSUME WalkInit PROVE RepeatsInv
  OBVIOUS
<1>1. /\ WalkTypes /\ users \in Tables /\ ToSet(got) = {} /\ got = <<>>
      /\ offset = 0 /\ arrived = 0
  BY WalkInitTypes DEF WalkInit
<1>2. Cardinality(ToSet(got)) = 0 /\ Len(got) = 0
  BY <1>1, FS_EmptySet
<1>3. ASSUME NEW at \in Times, NEW last \in Ids
      PROVE  offset <= Cardinality(Seen(users, ToSet(got), at, last)) + arrived
  <2>1. ToSet(got) \in SUBSET Ids
    BY <1>1
  <2>2. Cardinality(Seen(users, ToSet(got), at, last)) \in Nat
    BY <1>1, <2>1, FrontFacts
  <2> QED BY <1>1, <2>2
<1> QED BY <1>1, <1>2, <1>3, Received DEF RepeatsInv, SeenEnough

\* Whatever the list's length, the page sizes and the changes during the walk:
\* a walk receives users again no more often than others have come to be listed
\* ahead of it.
THEOREM RepeatsBoundedHolds == WalkSpec => []RepeatsBounded
<1>1. RepeatsInv /\ [WalkNext]_walkVars => RepeatsInv'
  <2> SUFFICES ASSUME RepeatsInv, [WalkNext]_walkVars PROVE RepeatsInv'
    OBVIOUS
  <2>1. CASE UNCHANGED walkVars
    BY <2>1 DEF walkVars, RepeatsInv, RepeatsBounded, WalkTypes, ToSet, SeenEnough
  <2>2. CASE \E size \in PageSizes : NextPage(size)
    BY <2>2, RepeatsPage
  <2>3. ASSUME NEW id \in Ids,
               \/ \E at \in Times, matches \in BOOLEAN : Create(id, at, matches)
               \/ Delete(id) \/ Update(id)
        PROVE  RepeatsInv'
    BY <2>3, ChangeOfOne, RepeatsChange DEF RepeatsInv, RepeatsBounded
  <2> QED BY <2>1, <2>2, <2>3 DEF WalkNext
<1>2. RepeatsInv => RepeatsBounded
  BY DEF RepeatsInv
<1> QED BY <1>1, <1>2, RepeatsInit, PTL DEF WalkSpec

-----------------------------------------------------------------------------
\* A walk that nobody disturbs ahead of its token, whatever happens behind it
\* and whatever sizes its pages have.
QuietWalk ==
  (offset = None /\ left = 0 /\ arrived = 0) =>
    \A id \in steady :
      \E i \in DOMAIN got : got[i] = id /\ \A j \in DOMAIN got : got[j] = id => j = i

\* It receives every user that was listed all the time, and exactly once.
THEOREM QuietWalkHolds == WalkSpec => []QuietWalk
<1>1. ASSUME WalkTypes, MissesBounded, RepeatsBounded, offset = None, left = 0, arrived = 0,
             NEW id \in steady
      PROVE  \E i \in DOMAIN got : got[i] = id /\ \A j \in DOMAIN got : got[j] = id => j = i
  <2>1. /\ got \in Seq(Ids) /\ Len(got) \in Nat /\ DOMAIN got = 1..Len(got)
        /\ ToSet(got) \in SUBSET Ids /\ steady \in SUBSET Ids
    BY <1>1 DEF WalkTypes, ToSet
  <2>2. PICK i \in DOMAIN got : got[i] = id
    <3>1. Missed \in SUBSET Ids
      BY <2>1 DEF Missed
    <3>2. Cardinality(Missed) = 0
      BY <1>1, <3>1, IdsFinite DEF MissesBounded
    <3>3. Missed = {}
      BY <3>1, <3>2, IdsFinite, FS_EmptySet
    <3> QED BY <1>1, <3>3 DEF Missed
  <2>3. got \in Surjection(DOMAIN got, ToSet(got))
    BY <2>1 DEF Surjection, ToSet
  <2>4. IsFiniteSet(DOMAIN got) /\ Cardinality(DOMAIN got) = Len(got)
    <3>1. PICK n \in Nat : n = Len(got)
      BY <2>1
    <3>2. IsFiniteSet(1..n) /\ Cardinality(1..n) = n
      BY FS_Interval
    <3> QED BY <2>1, <3>1, <3>2, Zenon
  <2>5. IsFiniteSet(ToSet(got)) /\ Cardinality(ToSet(got)) \in Nat
        /\ Cardinality(ToSet(got)) <= Cardinality(DOMAIN got)
    BY <2>1, <2>3, <2>4, IdsFinite, FS_Surjection
  <2>6. Len(got) - Cardinality(ToSet(got)) <= 0
    BY <1>1, Received
  <2>7. got \in Injection(DOMAIN got, ToSet(got))
    BY <2>1, <2>3, <2>4, <2>5, <2>6, FS_Surjection
  <2>8. \A j \in DOMAIN got : got[j] = got[i] => j = i
    BY <2>7 DEF Injection, IsInjective
  <2> QED BY <2>2, <2>8
<1>2. RepeatsBounded => WalkTypes
  BY DEF RepeatsBounded
<1>3. MissesBounded /\ RepeatsBounded => QuietWalk
  BY <1>1, <1>2 DEF QuietWalk
<1> QED BY <1>3, MissesBoundedHolds, RepeatsBoundedHolds, PTL
=============================================================================
