------------------------------ MODULE Pagination ------------------------------
(***************************************************************************)
(* A client walks through ListUsers page by page (internal/service/main.go *)
(* and pkg/database/sqlite) while other clients create, delete and change  *)
(* users.  A page token is nothing but the offset of the next page in      *)
(* ORDER BY created_at DESC; each page is one state of the tables, as      *)
(* UserStore shows, and any two pages may be of different ones.            *)
(*                                                                         *)
(* The order of users created in the same millisecond is that of their     *)
(* rows, as SQLite is built; SQL leaves it open.                           *)
(*                                                                         *)
(* Its names are its own: StatelessTokensProofs extends it together with   *)
(* AccessTokens.                                                           *)
(***************************************************************************)
EXTENDS Integers, FiniteSets, Sequences

CONSTANTS
  MaxId,            \* bound on user ids
  Times,            \* values of created_at
  PageSizes,        \* page_size, as clients send it
  DefaultPageSize,  \* 50
  MaxPageSize,      \* 200
  MaxChanges,       \* bound on the changes during a walk
  None, Gone        \* no user yet, and none any more

Ids == 1..MaxId

User == [createdAt : Times, matches : BOOLEAN]

ASSUME PagesAssumption ==
  /\ MaxId \in Nat /\ MaxChanges \in Nat
  /\ Times \subseteq Int /\ PageSizes \subseteq Int
  /\ DefaultPageSize \in Nat \ {0}
  /\ MaxPageSize \in Nat /\ MaxPageSize >= DefaultPageSize
  /\ None # Gone /\ None \notin Nat /\ {None, Gone} \cap User = {}

VARIABLES
  users,    \* created_at of each user, and whether the filter matches it
  offset,   \* the page token the client holds, None when it was told to stop
  got,      \* the users the client has received, in order
  \* History, read by the properties only:
  steady,   \* the users listed all through the walk
  arrived,  \* how often a user came to be listed ahead of the token
  left,     \* how often a user ahead of the token ceased to be listed
  changes   \* changes so far

walkVars == <<users, offset, got, steady, arrived, left, changes>>

WalkTypes ==
  /\ users \in [Ids -> User \cup {None, Gone}]
  /\ offset \in Nat \cup {None}
  /\ got \in Seq(Ids)
  /\ steady \in SUBSET Ids
  /\ arrived \in Nat /\ left \in Nat
  /\ changes \in 0..MaxChanges

-----------------------------------------------------------------------------
\* The filter: enabled_only, and the keyword in the username or display name.
Listed(table) == {id \in Ids : table[id] \notin {None, Gone} /\ table[id].matches}

\* ORDER BY created_at DESC
Before(table, a, b) ==
  \/ table[a].createdAt > table[b].createdAt
  \/ table[a].createdAt = table[b].createdAt /\ a < b

\* How many users there are up to this one.
Position(table, id) ==
  Cardinality({other \in Listed(table) : other = id \/ Before(table, other, id)})

\* LIMIT and OFFSET
Page(table, from, limit) ==
  LET there == Cardinality(Listed(table)) - from
  IN [n \in 1..(IF there < limit THEN there ELSE limit) |->
        CHOOSE id \in Listed(table) : Position(table, id) = from + n]

WalkInit ==
  /\ users \in {table \in [Ids -> User \cup {None}] :
                  \A id \in Ids : table[id] = None => \A later \in id..MaxId : table[later] = None}
  /\ offset = 0   \* no token
  /\ got = <<>>
  /\ steady = Listed(users)
  /\ arrived = 0
  /\ left = 0
  /\ changes = 0

-----------------------------------------------------------------------------
\* The service's limit for a page_size.
Limit(size) ==
  IF size <= 0 THEN DefaultPageSize
  ELSE IF size > MaxPageSize THEN MaxPageSize
  ELSE size

\* Faulty variants: the token counts what was asked for; the next page starts
\* with the last user of this one.
NextToken_AsAsked(from, size, page) ==
  IF Len(page) = Limit(size) THEN from + size ELSE None

NextToken_Overlap(from, size, page) ==
  IF Len(page) = Limit(size) THEN from + Limit(size) - 1 ELSE None

NextToken(from, size, page) ==
  IF Len(page) = Limit(size) THEN from + Limit(size) ELSE None

\* ListUsers: a page, and a token for the next one if this one is full.
NextPage(size) ==
  /\ offset # None
  /\ got' = got \o Page(users, offset, Limit(size))
  /\ offset' = NextToken(offset, size, Page(users, offset, Limit(size)))
  /\ UNCHANGED <<users, steady, arrived, left, changes>>

-----------------------------------------------------------------------------
(* Other clients, meanwhile. *)

Change(table) ==
  LET gone == Listed(users) \ Listed(table)
      come == Listed(table) \ Listed(users)
  IN
  /\ offset # None
  /\ changes < MaxChanges   \* bound
  /\ changes' = changes + 1
  /\ users' = table
  /\ steady' = steady \ gone
  /\ left' = left + Cardinality({id \in gone : Position(users, id) <= offset})
  /\ arrived' = arrived + Cardinality({id \in come : Position(table, id) <= offset})
  /\ UNCHANGED <<offset, got>>

\* CreateUser takes created_at from the wall clock before it waits for the
\* write lock: a new user need not be the first of the list.
Create(id, at, matches) ==
  /\ users[id] = None
  /\ \A earlier \in 1..(id - 1) : users[earlier] # None   \* the next id
  /\ Change([users EXCEPT ![id] = [createdAt |-> at, matches |-> matches]])

\* DeleteUser: ids are not used again.
Delete(id) ==
  /\ users[id] \notin {None, Gone}
  /\ Change([users EXCEPT ![id] = Gone])

\* UpdateUser: a user is enabled or disabled, or its display name changes.
Update(id) ==
  /\ users[id] \notin {None, Gone}
  /\ Change([users EXCEPT ![id].matches = ~@])

WalkNext ==
  \/ \E size \in PageSizes : NextPage(size)
  \/ \E id \in Ids :
       \/ \E at \in Times, matches \in BOOLEAN : Create(id, at, matches)
       \/ Delete(id)
       \/ Update(id)

WalkSpec == WalkInit /\ [][WalkNext]_walkVars
-----------------------------------------------------------------------------
(* Properties. *)

\* A walk misses a user that was listed all the time only when one ahead of
\* it has left the list, and for each that did one user at most: without
\* such changes every user is received, whatever the page sizes.
Missed ==
  {id \in steady : /\ \A i \in DOMAIN got : got[i] # id
                   /\ offset # None => Position(users, id) <= offset}

MissesBounded == Cardinality(Missed) <= left

\* A user is received twice only when another has joined the list ahead of
\* the token, and for each that did once at most.
RepeatsBounded ==
  /\ WalkTypes
  /\ Len(got) - Cardinality({got[i] : i \in DOMAIN got}) <= arrived
=============================================================================
