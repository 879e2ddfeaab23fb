--------------------------- MODULE SingleUseTokens ---------------------------
(***************************************************************************)
(* What the refresh-token endpoints of authd promise, without the calls    *)
(* that keep the promise: a refresh token buys at most one successor.  A   *)
(* token is issued once, and ends either redeemed, and then it is owed     *)
(* exactly one successor, or revoked (logout, expiry, restart), and then   *)
(* it has none.  RefreshSessions implements this module.                   *)
(***************************************************************************)
CONSTANT Tokens

VARIABLES
  status,  \* what became of each token
  heir     \* the tokens issued in exchange for each token

vars == <<status, heir>>

Status == {"unused", "live", "owed", "replaced", "revoked"}

Init ==
  /\ status = [t \in Tokens |-> "unused"]
  /\ heir   = [t \in Tokens |-> {}]

\* A login issues a token that was never issued before.
Issue(t) ==
  /\ status[t] = "unused"
  /\ status' = [status EXCEPT ![t] = "live"]
  /\ UNCHANGED heir

\* A refresh takes a live token out of use; its successor is owed.
Redeem(t) ==
  /\ status[t] = "live"
  /\ status' = [status EXCEPT ![t] = "owed"]
  /\ UNCHANGED heir

\* The successor of a redeemed token is issued.
Replace(t, n) ==
  /\ status[t] = "owed"
  /\ status[n] = "unused"
  /\ status' = [status EXCEPT ![t] = "replaced", ![n] = "live"]
  /\ heir'   = [heir EXCEPT ![t] = {n}]

\* Logout and the sweep end live tokens; a restart ends all of them and
\* forgets the successors still owed.
Revoke(S) ==
  /\ \A t \in S : status[t] \in {"live", "owed"}
  /\ status' = [t \in Tokens |-> IF t \in S THEN "revoked" ELSE status[t]]
  /\ UNCHANGED heir

Next ==
  \/ \E t \in Tokens : Issue(t) \/ Redeem(t)
  \/ \E t, n \in Tokens : Replace(t, n)
  \/ \E S \in SUBSET Tokens : Revoke(S)

Spec == Init /\ [][Next]_vars
=============================================================================
