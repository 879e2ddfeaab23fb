---------------------------- MODULE PurgeThrottle ----------------------------
(***************************************************************************)
(* The purge of expired refresh sessions (internal/service/main.go,        *)
(* purgeExpiredRefreshSessions) under the wall clock: its readings are     *)
(* reduced to UnixNano, so the clock may be set back between two of them.  *)
(* Nothing but a call of Login, RefreshToken or Logout ever purges.        *)
(*                                                                         *)
(* Instants are kept as distances from the clock, so that time can go on   *)
(* for ever; one that lies so far back that no test can tell is kept at    *)
(* Floor.                                                                  *)
(***************************************************************************)
EXTENDS Integers, FiniteSets

CONSTANTS
  Calls,            \* calls in flight at the same time
  Slots,            \* bound on the sessions in the table
  RefreshTokenTTL,  \* auth.refresh_token_ttl
  PurgeInterval,    \* defaultRefreshPurgeInterval
  MaxAge,           \* bound on the age of a call's clock reading
  MaxBack,          \* bound on how far the clock is set back in all
  Nil

ASSUME ConstantsAssumption ==
  /\ RefreshTokenTTL \in Nat \ {0} /\ PurgeInterval \in Nat \ {0}
  /\ MaxAge \in Nat /\ MaxBack \in Nat
  /\ Nil \notin Int

Floor == -(PurgeInterval + 2 * MaxAge + 2 * MaxBack + 1)

Distance(bound) == Floor..(bound + MaxBack)

VARIABLES
  left,   \* how far ahead the end of each stored session lies, Nil for none
  wait,   \* how far ahead nextRefreshPurgeUnixNano lies
  pc,     \* where each call is
  age,    \* how long ago each call has read the clock
  held,   \* what is left of the session that a refresh has revoked
  back    \* how far the clock has been set back in all

vars == <<left, wait, pc, age, held, back>>

Locations == {"idle", "purge", "stamp", "sweep", "work", "rotate"}

TypeOK ==
  /\ left \in [Slots -> Distance(RefreshTokenTTL) \cup {Nil}]
  /\ wait \in Distance(PurgeInterval)
  /\ pc \in [Calls -> Locations]
  /\ age \in [Calls -> -MaxBack..MaxAge]
  /\ held \in [Calls -> Distance(RefreshTokenTTL) \cup {Nil}]
  /\ back \in 0..MaxBack

\* New: nextRefreshPurgeUnixNano is 0, long before now.
Init ==
  /\ left = [s \in Slots |-> Nil]
  /\ wait = Floor
  /\ pc = [c \in Calls |-> "idle"]
  /\ age = [c \in Calls |-> 0]
  /\ held = [c \in Calls |-> Nil]
  /\ back = 0

-----------------------------------------------------------------------------
Shift(distance, by) ==
  IF distance = Nil THEN Nil
  ELSE IF distance + by < Floor THEN Floor ELSE distance + by

\* Each reading grows older by the amount the instants come closer.
MoveClock(by) ==
  /\ left' = [s \in Slots |-> Shift(left[s], -by)]
  /\ wait' = Shift(wait, -by)
  /\ held' = [c \in Calls |-> Shift(held[c], -by)]
  /\ age' = [c \in Calls |-> IF pc[c] = "idle" THEN 0 ELSE age[c] + by]
  /\ UNCHANGED pc

\* The bound on ages: time waits for a call that was slow.
Tick ==
  /\ \A c \in Calls : pc[c] # "idle" => age[c] < MaxAge
  /\ MoveClock(1)
  /\ UNCHANGED back

SetBack ==
  /\ back < MaxBack
  /\ back' = back + 1
  /\ MoveClock(-1)

-----------------------------------------------------------------------------
Goto(c, location) == pc' = [pc EXCEPT ![c] = location]

\* A call reads the clock.
Arrive(c) ==
  /\ pc[c] = "idle"
  /\ Goto(c, "purge")
  /\ age' = [age EXCEPT ![c] = 0]
  /\ UNCHANGED <<left, wait, held, back>>

\* nextPurge > now, in distances from the clock.
Throttled(c) == wait + age[c] > 0

\* Faulty variant: a call that is throttled puts the purge off.
Check_Debounce(c) ==
  /\ pc[c] = "purge"
  /\ Goto(c, IF Throttled(c) THEN "work" ELSE "stamp")
  /\ wait' = IF Throttled(c) THEN PurgeInterval - age[c] ELSE wait
  /\ UNCHANGED <<left, age, held, back>>

Check(c) ==
  /\ pc[c] = "purge"
  /\ Goto(c, IF Throttled(c) THEN "work" ELSE "stamp")
  /\ UNCHANGED <<left, wait, age, held, back>>

\* Faulty variant: the old timestamp is advanced.
Stamp_Relative(c) ==
  /\ pc[c] = "stamp"
  /\ wait' = (IF wait = Floor THEN -age[c] ELSE wait) + PurgeInterval
  /\ Goto(c, "sweep")
  /\ UNCHANGED <<left, age, held, back>>

Stamp(c) ==
  /\ pc[c] = "stamp"
  /\ wait' = PurgeInterval - age[c]
  /\ Goto(c, "sweep")
  /\ UNCHANGED <<left, age, held, back>>

\* Faulty variant: sessions get another TTL after their end.
EndedBefore_TTL(distance, at) == distance # Nil /\ distance + at < -RefreshTokenTTL

\* now.After(ExpiresAt), for a reading of that age.
EndedBefore(distance, at) == distance # Nil /\ distance + at < 0

Sweep(c) ==
  /\ pc[c] = "sweep"
  /\ left' = [s \in Slots |-> IF EndedBefore(left[s], age[c]) THEN Nil ELSE left[s]]
  /\ Goto(c, "work")
  /\ UNCHANGED <<wait, age, held, back>>

-----------------------------------------------------------------------------
(* What the calls do when the purge is over, as far as the ends of sessions *)
(* go.                                                                      *)

Free == {s \in Slots : left[s] = Nil}

Rotating == {c \in Calls : pc[c] = "rotate"}

\* saveRefreshSession, by Login, or by a refresh that extends the session.
\* Bound: a login leaves a slot for every refresh that owes a session.
SaveNew(c, s) ==
  /\ \/ pc[c] = "rotate"
     \/ pc[c] = "work" /\ Cardinality(Rotating) < Cardinality(Free)
  /\ left[s] = Nil
  /\ left' = [left EXCEPT ![s] = RefreshTokenTTL - age[c]]
  /\ held' = [held EXCEPT ![c] = Nil]
  /\ Goto(c, "idle")
  /\ UNCHANGED <<wait, age, back>>

\* RefreshToken takes a session that had not ended when the call arrived.
Revoke(c, s) ==
  /\ pc[c] = "work"
  /\ left[s] # Nil
  /\ ~EndedBefore(left[s], age[c])
  /\ held' = [held EXCEPT ![c] = left[s]]
  /\ left' = [left EXCEPT ![s] = Nil]
  /\ Goto(c, "rotate")
  /\ UNCHANGED <<wait, age, back>>

\* A refresh that does not extend puts it back, ended meanwhile or not.
SaveHeld(c, s) ==
  /\ pc[c] = "rotate"
  /\ left[s] = Nil
  /\ left' = [left EXCEPT ![s] = held[c]]
  /\ held' = [held EXCEPT ![c] = Nil]
  /\ Goto(c, "idle")
  /\ UNCHANGED <<wait, age, back>>

\* Logout, and every call that ends in an error before it saves.
Finish(c) ==
  /\ pc[c] = "work"
  /\ \/ UNCHANGED left
     \/ \E s \in Slots : left' = [left EXCEPT ![s] = Nil]
  /\ Goto(c, "idle")
  /\ UNCHANGED <<wait, age, held, back>>

Work(c) ==
  \/ \E s \in Slots : SaveNew(c, s) \/ Revoke(c, s) \/ SaveHeld(c, s)
  \/ Finish(c)

Step(c) == Check(c) \/ Stamp(c) \/ Sweep(c) \/ Work(c)

Next == Tick \/ SetBack \/ \E c \in Calls : Arrive(c) \/ Step(c)

Spec == Init /\ [][Next]_vars

\* Calls keep arriving, and their steps and time go on; that the clock is set
\* back a bounded number of times is part of Next.
FairSpec ==
  /\ Spec
  /\ SF_vars(Tick)
  /\ SF_vars(\E c \in Calls : Arrive(c))
  /\ \A c \in Calls : WF_vars(Step(c))
-----------------------------------------------------------------------------
(* Properties. *)

\* The timestamp is written without a lock from old clock readings, and the
\* clock may fall back behind it: the next purge is still never further away
\* than one interval and what the clock was set back.
PurgeNotPutOff == TypeOK /\ wait <= PurgeInterval + back

\* How much older than another one the reading of a call may be
Slack == IF back > MaxAge THEN back ELSE MaxAge

\* A call that has passed the purge, throttled or not, leaves behind no session
\* that had ended one interval before it read the clock, and as long again as a
\* call takes or the clock was set back (a slow refresh may put an ended session
\* back), except where the sweep of another call is still to come and takes it.
\* (While no calls arrive nothing is purged, and nothing is saved.)
Backlog ==
  \A c \in Calls, s \in Slots :
    /\ pc[c] \in {"work", "rotate"}
    /\ left[s] # Nil
    /\ left[s] + age[c] <= -(PurgeInterval + Slack)
    => \E d \in Calls : pc[d] = "sweep" /\ EndedBefore(left[s], age[d])

\* While calls keep arriving, an ended session leaves the table (or the clock
\* falls back, and it has not ended).
EndedLeaves ==
  \A s \in Slots :
    (left[s] # Nil /\ left[s] < 0) ~> (left[s] = Nil \/ left[s] >= 0)
=============================================================================
