------------------------- MODULE PurgeThrottleProofs -------------------------
(***************************************************************************)
(* Proofs about PurgeThrottle, for any calls, sessions, lifetimes and      *)
(* intervals, and any bounds on the clock.                                 *)
(***************************************************************************)
EXTENDS PurgeThrottle, TLAPS

\* A reading is from the future only as far as the clock was set back since, and
\* so are the instants computed from it.
ReadingsOK ==
  /\ \A c \in Calls : age[c] >= -back
  /\ wait <= PurgeInterval + back
  /\ \A s \in Slots : left[s] # Nil => left[s] <= RefreshTokenTTL + back
  /\ \A c \in Calls : held[c] # Nil => held[c] <= RefreshTokenTTL + back

\* A refresh has not revoked a session that had ended when it read the clock.
HeldOK ==
  \A c \in Calls : pc[c] = "rotate" => held[c] # Nil /\ held[c] + age[c] >= 0

\* The reading of a call is not further behind another one, nor behind the one
\* that stamped last, than a call takes or the clock was set back.
SlackOK ==
  \A c \in Calls : pc[c] # "idle" =>
    /\ wait - PurgeInterval + age[c] <= Slack
    /\ \A d \in Calls : pc[d] # "idle" => age[c] - age[d] <= Slack

\* A sweep is about to take what ended at that distance.
Pending(distance) == \E c \in Calls : pc[c] = "sweep" /\ EndedBefore(distance, age[c])

\* Whatever ended too long before the last purge, a sweep is about to take.
OldAreSwept ==
  \A s \in Slots :
    left[s] # Nil /\ left[s] < wait - PurgeInterval - Slack => Pending(left[s])

\* Backlog, call by call and session by session
Behind(c, s) ==
  /\ pc[c] \in {"work", "rotate"}
  /\ left[s] # Nil
  /\ left[s] + age[c] <= -(PurgeInterval + Slack)

BehindOK == \A c \in Calls, s \in Slots : Behind(c, s) => Pending(left[s])

ThrottleInv == TypeOK /\ ReadingsOK /\ HeldOK /\ SlackOK /\ OldAreSwept /\ BehindOK

LEMMA ConstantTypes ==
  /\ RefreshTokenTTL \in Nat /\ RefreshTokenTTL > 0
  /\ PurgeInterval \in Nat /\ PurgeInterval > 0
  /\ MaxAge \in Nat /\ MaxBack \in Nat
  /\ Floor \in Int /\ Floor = -(PurgeInterval + 2 * MaxAge + 2 * MaxBack + 1)
  /\ \A i \in Int : i # Nil
BY ConstantsAssumption DEF Floor

LEMMA Types ==
  ASSUME TypeOK
  PROVE  /\ \A s \in Slots : left[s] # Nil =>
              left[s] \in Int /\ Floor <= left[s] /\ left[s] <= RefreshTokenTTL + MaxBack
         /\ \A c \in Calls : held[c] # Nil =>
              held[c] \in Int /\ Floor <= held[c] /\ held[c] <= RefreshTokenTTL + MaxBack
         /\ wait \in Int /\ Floor <= wait /\ wait <= PurgeInterval + MaxBack
         /\ \A c \in Calls : age[c] \in Int /\ -MaxBack <= age[c] /\ age[c] <= MaxAge
         /\ back \in Nat /\ back <= MaxBack
BY ConstantTypes DEF TypeOK, Distance

LEMMA Shifted ==
  ASSUME NEW distance \in Int, NEW by \in Int
  PROVE  /\ Shift(distance, by) \in Int
         /\ Shift(distance, by) = IF distance + by < Floor THEN Floor ELSE distance + by
BY ConstantTypes DEF Shift

LEMMA ShiftedNil ==
  ASSUME NEW by
  PROVE  Shift(Nil, by) = Nil
BY DEF Shift

LEMMA SlackType ==
  ASSUME TypeOK
  PROVE  Slack \in Nat /\ Slack >= MaxAge /\ Slack >= back
BY Types, ConstantTypes DEF Slack

LEMMA SlackKept ==
  ASSUME back' = back
  PROVE  Slack' = Slack
BY DEF Slack

\* Readings and the timestamp as they were, and no call more
LEMMA SlackStays ==
  ASSUME SlackOK, UNCHANGED <<wait, age, back>>,
         \A c \in Calls : pc'[c] # "idle" => pc[c] # "idle"
  PROVE  SlackOK'
BY SlackKept DEF SlackOK

LEMMA InDistance ==
  ASSUME NEW distance, NEW bound \in Nat
  PROVE  distance \in Distance(bound) <=>
           distance \in Int /\ Floor <= distance /\ distance <= bound + MaxBack
BY ConstantTypes DEF Distance

LEMMA BoundGrows ==
  ASSUME NEW distance \in Int, NEW bound \in Nat, NEW b \in Nat, NEW max \in Nat,
         distance <= bound + b, b <= max
  PROVE  distance <= bound + max
OBVIOUS

-----------------------------------------------------------------------------
LEMMA ThrottleInit == Init => ThrottleInv
<1> SUFFICES ASSUME Init PROVE ThrottleInv
  OBVIOUS
<1>1. TypeOK
  <2>1. Floor \in Distance(PurgeInterval) /\ 0 \in -MaxBack..MaxAge /\ 0 \in 0..MaxBack
    BY ConstantTypes DEF Distance
  <2> QED BY <2>1 DEF Init, TypeOK, Locations
<1>2. ReadingsOK
  BY ConstantTypes DEF Init, ReadingsOK
<1>3. HeldOK /\ SlackOK /\ OldAreSwept /\ BehindOK
  BY DEF Init, HeldOK, SlackOK, OldAreSwept, BehindOK, Behind
<1> QED BY <1>1, <1>2, <1>3 DEF ThrottleInv

\* What moving the clock does to each instant
LEMMA Moves ==
  ASSUME TypeOK, NEW by \in Int, NEW apart \in Int, by + apart = 0, MoveClock(by)
  PROVE  /\ \A s \in Slots :
              /\ left[s] = Nil => left'[s] = Nil
              /\ left[s] # Nil => left'[s] = Shift(left[s], apart) /\ left'[s] # Nil
         /\ \A c \in Calls :
              /\ held[c] = Nil => held'[c] = Nil
              /\ held[c] # Nil => held'[c] = Shift(held[c], apart) /\ held'[c] # Nil
              /\ pc'[c] = pc[c]
              /\ age'[c] = IF pc[c] = "idle" THEN 0 ELSE age[c] + by
         /\ wait' = Shift(wait, apart)
         /\ pc' = pc
         /\ left' = [s \in Slots |-> left'[s]]
         /\ held' = [c \in Calls |-> held'[c]]
         /\ age' = [c \in Calls |-> age'[c]]
<1>1. -by = apart
  OBVIOUS
<1>2. \A s \in Slots : left[s] # Nil => left[s] \in Int
  BY Types
<1>3. \A c \in Calls : held[c] # Nil => held[c] \in Int
  BY Types
<1>4. \A d \in Int : Shift(d, apart) # Nil
  BY Shifted, ConstantTypes
<1> QED BY <1>1, <1>2, <1>3, <1>4, ShiftedNil DEF MoveClock

LEMMA TickInv == ThrottleInv /\ Tick => ThrottleInv'
<1> SUFFICES ASSUME ThrottleInv, Tick PROVE ThrottleInv'
  OBVIOUS
<1> USE DEF ThrottleInv
<1>1. /\ \A s \in Slots :
           /\ left[s] = Nil => left'[s] = Nil
           /\ left[s] # Nil => left'[s] = Shift(left[s], -1) /\ left'[s] # Nil
      /\ \A c \in Calls :
           /\ held[c] = Nil => held'[c] = Nil
           /\ held[c] # Nil => held'[c] = Shift(held[c], -1) /\ held'[c] # Nil
           /\ pc'[c] = pc[c]
           /\ age'[c] = IF pc[c] = "idle" THEN 0 ELSE age[c] + 1
      /\ wait' = Shift(wait, -1)
      /\ pc' = pc
      /\ left' = [s \in Slots |-> left'[s]]
      /\ held' = [c \in Calls |-> held'[c]]
      /\ age' = [c \in Calls |-> age'[c]]
  <2>1. MoveClock(1) /\ -1 \in Int /\ 1 \in Int /\ 1 + -1 = 0
    BY DEF Tick
  <2> QED BY <2>1, Moves
<1>2. back' = back /\ \A c \in Calls : pc[c] # "idle" => age[c] < MaxAge
  BY DEF Tick
<1>3. \A s \in Slots : left'[s] # Nil =>
        /\ left[s] # Nil /\ left'[s] \in Int /\ Floor <= left'[s]
        /\ left'[s] = IF left[s] - 1 < Floor THEN Floor ELSE left[s] - 1
  BY <1>1, Types, Shifted, ConstantTypes
<1>4. \A c \in Calls : held'[c] # Nil =>
        /\ held[c] # Nil /\ held'[c] \in Int /\ Floor <= held'[c]
        /\ held'[c] = IF held[c] - 1 < Floor THEN Floor ELSE held[c] - 1
  BY <1>1, Types, Shifted, ConstantTypes
<1>5. /\ wait' \in Int /\ Floor <= wait'
      /\ wait' = IF wait - 1 < Floor THEN Floor ELSE wait - 1
  BY <1>1, Types, Shifted, ConstantTypes
<1>6. \A c \in Calls : age'[c] \in Int /\ -back <= age'[c] /\ age'[c] <= MaxAge
  BY <1>1, <1>2, Types, ConstantTypes DEF ReadingsOK
<1>7. ReadingsOK'
  <2>1. \A s \in Slots : left'[s] # Nil => left'[s] <= RefreshTokenTTL + back
    BY <1>3, Types, ConstantTypes DEF ReadingsOK
  <2>2. \A c \in Calls : held'[c] # Nil => held'[c] <= RefreshTokenTTL + back
    BY <1>4, Types, ConstantTypes DEF ReadingsOK
  <2>3. wait' <= PurgeInterval + back
    BY <1>5, Types, ConstantTypes DEF ReadingsOK
  <2> QED BY <1>2, <1>6, <2>1, <2>2, <2>3 DEF ReadingsOK
<1>8. TypeOK'
  <2>1. \A s \in Slots : left'[s] \in Distance(RefreshTokenTTL) \cup {Nil}
    BY <1>2, <1>3, <1>7, Types, ConstantTypes, InDistance DEF ReadingsOK
  <2>2. \A c \in Calls : held'[c] \in Distance(RefreshTokenTTL) \cup {Nil}
    BY <1>2, <1>4, <1>7, Types, ConstantTypes, InDistance DEF ReadingsOK
  <2>3. wait' \in Distance(PurgeInterval)
    BY <1>2, <1>5, <1>7, Types, ConstantTypes, InDistance DEF ReadingsOK
  <2>4. \A c \in Calls : age'[c] \in -MaxBack..MaxAge
    BY <1>6, Types, ConstantTypes
  <2> QED BY <1>1, <1>2, <2>1, <2>2, <2>3, <2>4 DEF TypeOK
<1>9. HeldOK'
  <2> SUFFICES ASSUME NEW c \in Calls, pc[c] = "rotate"
               PROVE  held'[c] # Nil /\ held'[c] + age'[c] >= 0
    BY <1>1 DEF HeldOK
  <2>1. held[c] # Nil /\ held[c] + age[c] >= 0
    BY DEF HeldOK
  <2>2. held'[c] >= held[c] - 1 /\ held'[c] # Nil /\ age'[c] = age[c] + 1
    BY <1>1, <1>4, <2>1, Types, ConstantTypes
  <2> QED BY <1>4, <2>1, <2>2, Types
<1>10. ASSUME NEW s \in Slots, left'[s] # Nil, Pending(left[s])
       PROVE  Pending(left[s])'
  <2>1. PICK c \in Calls : pc[c] = "sweep" /\ EndedBefore(left[s], age[c])
    BY <1>10 DEF Pending
  <2>2. age'[c] = age[c] + 1 /\ age'[c] <= MaxAge
    BY <1>1, <1>6, <2>1
  <2>3. left[s] + age[c] < 0
    BY <2>1 DEF EndedBefore
  <2>4. left'[s] + age'[c] < 0
    BY <1>3, <1>10, <2>2, <2>3, Types, ConstantTypes
  <2> QED BY <1>1, <1>10, <2>1, <2>4 DEF Pending, EndedBefore
<1>11. Slack' = Slack /\ Slack \in Nat /\ Slack <= MaxAge + MaxBack
  BY <1>2, SlackKept, SlackType, Types, ConstantTypes DEF Slack
<1>12. SlackOK'
  <2> SUFFICES ASSUME NEW c \in Calls, pc[c] # "idle"
               PROVE  /\ wait' - PurgeInterval + age'[c] <= Slack
                      /\ \A d \in Calls : pc[d] # "idle" => age'[c] - age'[d] <= Slack
    BY <1>1, <1>11 DEF SlackOK
  <2>1. age'[c] = age[c] + 1 /\ age'[c] <= MaxAge /\ wait - PurgeInterval + age[c] <= Slack
    BY <1>1, <1>6 DEF SlackOK
  <2>2. wait' - PurgeInterval + age'[c] <= Slack
    BY <1>5, <1>11, <2>1, Types, ConstantTypes
  <2>3. ASSUME NEW d \in Calls, pc[d] # "idle" PROVE age'[c] - age'[d] <= Slack
    <3>1. age'[d] = age[d] + 1 /\ age[c] - age[d] <= Slack
      BY <1>1, <2>3 DEF SlackOK
    <3> QED BY <1>11, <2>1, <3>1, Types
  <2> QED BY <2>2, <2>3
<1>13. OldAreSwept'
  <2> SUFFICES ASSUME NEW s \in Slots, left'[s] # Nil,
                      left'[s] < wait' - PurgeInterval - Slack
               PROVE  Pending(left[s])
    BY <1>10, <1>11 DEF OldAreSwept
  <2>1. left[s] # Nil /\ left[s] < wait - PurgeInterval - Slack
    BY <1>3, <1>5, <1>11, Types, ConstantTypes
  <2> QED BY <2>1 DEF OldAreSwept
<1>14. BehindOK'
  <2> SUFFICES ASSUME NEW c \in Calls, NEW s \in Slots, Behind(c, s)'
               PROVE  Pending(left[s])
    BY <1>10 DEF BehindOK, Behind
  <2>1. /\ pc[c] \in {"work", "rotate"} /\ left'[s] # Nil
        /\ left'[s] + age'[c] <= -(PurgeInterval + Slack)
    BY <1>1, <1>11 DEF Behind
  <2>2. age'[c] = age[c] + 1 /\ age[c] <= MaxAge
    BY <1>1, <2>1, Types
  <2>3. left[s] + age[c] <= -(PurgeInterval + Slack)
    BY <1>3, <1>11, <2>1, <2>2, Types, ConstantTypes
  <2> QED BY <1>3, <2>1, <2>3 DEF BehindOK, Behind
<1> QED BY <1>7, <1>8, <1>9, <1>12, <1>13, <1>14

LEMMA SetBackInv == ThrottleInv /\ SetBack => ThrottleInv'
<1> SUFFICES ASSUME ThrottleInv, SetBack PROVE ThrottleInv'
  OBVIOUS
<1> USE DEF ThrottleInv
<1>1. /\ \A s \in Slots :
           /\ left[s] = Nil => left'[s] = Nil
           /\ left[s] # Nil => left'[s] = Shift(left[s], 1) /\ left'[s] # Nil
      /\ \A c \in Calls :
           /\ held[c] = Nil => held'[c] = Nil
           /\ held[c] # Nil => held'[c] = Shift(held[c], 1) /\ held'[c] # Nil
           /\ pc'[c] = pc[c]
           /\ age'[c] = IF pc[c] = "idle" THEN 0 ELSE age[c] + -1
      /\ wait' = Shift(wait, 1)
      /\ pc' = pc
      /\ left' = [s \in Slots |-> left'[s]]
      /\ held' = [c \in Calls |-> held'[c]]
      /\ age' = [c \in Calls |-> age'[c]]
  <2>1. MoveClock(-1) /\ -1 \in Int /\ 1 \in Int /\ -1 + 1 = 0
    BY DEF SetBack
  <2> QED BY <2>1, Moves
<1>2. back' = back + 1 /\ back < MaxBack
  BY DEF SetBack
<1>3. \A s \in Slots : left'[s] # Nil =>
        left[s] # Nil /\ left'[s] \in Int /\ Floor <= left'[s] /\ left'[s] = left[s] + 1
  BY <1>1, Types, Shifted, ConstantTypes
<1>4. \A c \in Calls : held'[c] # Nil =>
        held[c] # Nil /\ held'[c] \in Int /\ Floor <= held'[c] /\ held'[c] = held[c] + 1
  BY <1>1, Types, Shifted, ConstantTypes
<1>5. wait' \in Int /\ Floor <= wait' /\ wait' = wait + 1
  BY <1>1, Types, Shifted, ConstantTypes
<1>6. \A c \in Calls : age'[c] \in Int /\ -back' <= age'[c] /\ age'[c] <= MaxAge
  BY <1>1, <1>2, Types, ConstantTypes DEF ReadingsOK
<1>7. ReadingsOK'
  <2>1. \A s \in Slots : left'[s] # Nil => left'[s] <= RefreshTokenTTL + back'
    BY <1>2, <1>3, Types, ConstantTypes DEF ReadingsOK
  <2>2. \A c \in Calls : held'[c] # Nil => held'[c] <= RefreshTokenTTL + back'
    BY <1>2, <1>4, Types, ConstantTypes DEF ReadingsOK
  <2>3. wait' <= PurgeInterval + back'
    BY <1>2, <1>5, Types, ConstantTypes DEF ReadingsOK
  <2> QED BY <1>6, <2>1, <2>2, <2>3 DEF ReadingsOK
<1>8. TypeOK'
  <2>0. back' \in Nat /\ back' <= MaxBack
    BY <1>2, Types, ConstantTypes
  <2>1. \A s \in Slots : left'[s] \in Distance(RefreshTokenTTL) \cup {Nil}
    BY <2>0, <1>3, <1>7, ConstantTypes, InDistance DEF ReadingsOK
  <2>2. \A c \in Calls : held'[c] \in Distance(RefreshTokenTTL) \cup {Nil}
    BY <2>0, <1>4, <1>7, ConstantTypes, InDistance DEF ReadingsOK
  <2>3. wait' \in Distance(PurgeInterval)
    <3>1. wait' <= PurgeInterval + back'
      BY <1>7 DEF ReadingsOK
    <3>2. wait' <= PurgeInterval + MaxBack
      BY <2>0, <1>5, <3>1, ConstantTypes, BoundGrows
    <3> QED BY <1>5, <3>2, ConstantTypes, InDistance
  <2>4. \A c \in Calls : age'[c] \in -MaxBack..MaxAge
    BY <2>0, <1>6, ConstantTypes
  <2> QED BY <1>1, <2>0, <2>1, <2>2, <2>3, <2>4, ConstantTypes DEF TypeOK
<1>9. HeldOK'
  <2> SUFFICES ASSUME NEW c \in Calls, pc[c] = "rotate"
               PROVE  held'[c] # Nil /\ held'[c] + age'[c] >= 0
    BY <1>1 DEF HeldOK
  <2>1. held[c] # Nil /\ held[c] + age[c] >= 0
    BY DEF HeldOK
  <2>2. held'[c] = held[c] + 1 /\ held'[c] # Nil /\ age'[c] = age[c] - 1
    BY <1>1, <1>4, <2>1, Types
  <2> QED BY <2>1, <2>2, Types
<1>10. ASSUME NEW s \in Slots, left'[s] # Nil, Pending(left[s])
       PROVE  Pending(left[s])'
  <2>1. PICK c \in Calls : pc[c] = "sweep" /\ EndedBefore(left[s], age[c])
    BY <1>10 DEF Pending
  <2>2. left'[s] = left[s] + 1 /\ age'[c] = age[c] - 1
    BY <1>1, <1>3, <1>10, <2>1, Types
  <2>3. left'[s] + age'[c] < 0
    BY <1>3, <1>10, <2>1, <2>2, Types DEF EndedBefore
  <2> QED BY <1>1, <1>10, <2>1, <2>3 DEF Pending, EndedBefore
<1>11. Slack' >= Slack /\ Slack' \in Int /\ Slack \in Int
  BY <1>2, SlackType, Types, ConstantTypes DEF Slack
<1>12. SlackOK'
  <2> SUFFICES ASSUME NEW c \in Calls, pc[c] # "idle"
               PROVE  /\ wait' - PurgeInterval + age'[c] <= Slack'
                      /\ \A d \in Calls : pc[d] # "idle" => age'[c] - age'[d] <= Slack'
    BY <1>1 DEF SlackOK
  <2>1. age'[c] = age[c] - 1 /\ wait - PurgeInterval + age[c] <= Slack
    BY <1>1, Types DEF SlackOK
  <2>2. wait' - PurgeInterval + age'[c] <= Slack'
    BY <1>5, <1>11, <2>1, Types, ConstantTypes
  <2>3. ASSUME NEW d \in Calls, pc[d] # "idle" PROVE age'[c] - age'[d] <= Slack'
    <3>1. age'[d] = age[d] - 1 /\ age[c] - age[d] <= Slack
      BY <1>1, <2>3, Types DEF SlackOK
    <3> QED BY <1>11, <2>1, <3>1, Types
  <2> QED BY <2>2, <2>3
<1>13. OldAreSwept'
  <2> SUFFICES ASSUME NEW s \in Slots, left'[s] # Nil,
                      left'[s] < wait' - PurgeInterval - Slack'
               PROVE  Pending(left[s])
    BY <1>10 DEF OldAreSwept
  <2>1. left[s] # Nil /\ left[s] < wait - PurgeInterval - Slack
    BY <1>3, <1>5, <1>11, Types, ConstantTypes
  <2> QED BY <2>1 DEF OldAreSwept
<1>14. BehindOK'
  <2> SUFFICES ASSUME NEW c \in Calls, NEW s \in Slots, Behind(c, s)'
               PROVE  Pending(left[s])
    BY <1>10 DEF BehindOK, Behind
  <2>1. /\ pc[c] \in {"work", "rotate"} /\ left'[s] # Nil
        /\ left'[s] + age'[c] <= -(PurgeInterval + Slack')
    BY <1>1 DEF Behind
  <2>2. left'[s] = left[s] + 1 /\ age'[c] = age[c] - 1
    BY <1>1, <1>3, <2>1, Types
  <2>3. left[s] + age[c] <= -(PurgeInterval + Slack)
    BY <1>3, <1>11, <2>1, <2>2, Types, ConstantTypes
  <2> QED BY <1>3, <2>1, <2>3 DEF BehindOK, Behind
<1> QED BY <1>7, <1>8, <1>9, <1>12, <1>13, <1>14

LEMMA Going ==
  ASSUME TypeOK, NEW c \in Calls, NEW location \in Locations, Goto(c, location)
  PROVE  /\ pc' \in [Calls -> Locations] /\ pc'[c] = location
         /\ \A d \in Calls \ {c} : pc'[d] = pc[d]
BY DEF Goto, TypeOK

LEMMA ArriveInv ==
  ASSUME ThrottleInv, NEW c \in Calls, Arrive(c)
  PROVE  ThrottleInv'
<1> USE DEF ThrottleInv
<1>1. /\ pc' \in [Calls -> Locations] /\ pc'[c] = "purge" /\ pc[c] = "idle"
      /\ \A d \in Calls \ {c} : pc'[d] = pc[d]
  BY Going DEF Arrive, Locations
<1>2. UNCHANGED <<left, wait, held, back>>
  BY DEF Arrive
<1>3. age'[c] = 0 /\ \A d \in Calls \ {c} : age'[d] = age[d]
  BY DEF Arrive, TypeOK
<1>4. TypeOK'
  <2>1. 0 \in -MaxBack..MaxAge
    BY ConstantTypes
  <2> QED BY <1>1, <1>2, <2>1 DEF TypeOK, Arrive
<1>5. ReadingsOK'
  BY <1>2, <1>3, Types DEF ReadingsOK
<1>6. HeldOK'
  BY <1>1, <1>2, <1>3 DEF HeldOK
<1>7. OldAreSwept' /\ BehindOK'
  BY <1>1, <1>2, <1>3, SlackKept DEF OldAreSwept, BehindOK, Behind, Pending, EndedBefore
<1>8. SlackOK'
  <2>1. Slack' = Slack /\ Slack >= MaxAge /\ Slack >= back /\ Slack \in Nat
    BY <1>2, SlackKept, SlackType
  <2>2. wait <= PurgeInterval + back
    BY DEF ReadingsOK
  <2>3. \A d \in Calls : age'[d] \in Int /\ -back <= age'[d] /\ age'[d] <= MaxAge
    BY <1>2, <1>3, Types, ConstantTypes DEF ReadingsOK
  <2>4. wait' - PurgeInterval + age'[c] <= Slack
    BY <1>2, <1>3, <2>1, <2>2, Types, ConstantTypes
  <2>5. \A d \in Calls : age'[c] - age'[d] <= Slack /\ age'[d] - age'[c] <= Slack
    BY <1>3, <2>1, <2>3, Types, ConstantTypes
  <2> QED BY <1>1, <1>2, <1>3, <2>1, <2>4, <2>5 DEF SlackOK
<1> QED BY <1>4, <1>5, <1>6, <1>7, <1>8

\* What a call that is throttled leaves behind had ended long before the last
\* purge, so a sweep is about to take it.
LEMMA CheckInv ==
  ASSUME ThrottleInv, NEW c \in Calls, Check(c)
  PROVE  ThrottleInv'
<1> USE DEF ThrottleInv
<1>1. /\ pc' \in [Calls -> Locations] /\ pc'[c] \in {"work", "stamp"} /\ pc[c] = "purge"
      /\ \A d \in Calls \ {c} : pc'[d] = pc[d]
  BY Going DEF Check, Locations
<1>2. UNCHANGED <<left, wait, age, held, back>>
  BY DEF Check
<1>3. TypeOK'
  BY <1>1, <1>2 DEF TypeOK
<1>4. ReadingsOK' /\ HeldOK'
  BY <1>1, <1>2 DEF ReadingsOK, HeldOK
<1>5. \A s \in Slots : left[s] # Nil /\ Pending(left[s]) => Pending(left[s])'
  BY <1>1, <1>2 DEF Pending, EndedBefore
<1>6. OldAreSwept'
  BY <1>2, <1>5, SlackKept DEF OldAreSwept
<1>7. BehindOK'
  <2> SUFFICES ASSUME NEW d \in Calls, NEW s \in Slots, Behind(d, s)'
               PROVE  Pending(left[s])
    BY <1>2, <1>5 DEF BehindOK, Behind
  <2>1. /\ pc'[d] \in {"work", "rotate"} /\ left[s] # Nil
        /\ left[s] + age[d] <= -(PurgeInterval + Slack)
    BY <1>2, SlackKept DEF Behind
  <2>2. CASE d # c
    BY <1>1, <2>1, <2>2 DEF BehindOK, Behind
  <2>3. CASE d = c
    <3>1. wait + age[c] > 0
      BY <1>1, <2>1, <2>3 DEF Check, Goto, Throttled
    <3>2. left[s] < wait - PurgeInterval - Slack
      BY <2>1, <2>3, <3>1, SlackType, Types, ConstantTypes
    <3> QED BY <2>1, <3>2 DEF OldAreSwept
  <2> QED BY <2>2, <2>3
<1>8. SlackOK'
  BY <1>1, <1>2, SlackStays
<1> QED BY <1>3, <1>4, <1>6, <1>7, <1>8

\* The call that stamps is about to sweep, with the reading it stamped with.
LEMMA StampInv ==
  ASSUME ThrottleInv, NEW c \in Calls, Stamp(c)
  PROVE  ThrottleInv'
<1> USE DEF ThrottleInv
<1>1. /\ pc' \in [Calls -> Locations] /\ pc'[c] = "sweep" /\ pc[c] = "stamp"
      /\ \A d \in Calls \ {c} : pc'[d] = pc[d]
  BY Going DEF Stamp, Locations
<1>2. UNCHANGED <<left, age, held, back>>
  BY DEF Stamp
<1>3. wait' = PurgeInterval - age[c]
  BY DEF Stamp
<1>4. wait' <= PurgeInterval + back
  BY <1>3, Types, ConstantTypes DEF ReadingsOK
<1>5. wait' \in Distance(PurgeInterval)
  BY <1>3, Types, ConstantTypes, InDistance
<1>6. TypeOK'
  BY <1>1, <1>2, <1>5 DEF TypeOK
<1>7. ReadingsOK' /\ HeldOK'
  BY <1>1, <1>2, <1>4 DEF ReadingsOK, HeldOK
<1>8. OldAreSwept'
  <2> SUFFICES ASSUME NEW s \in Slots, left[s] # Nil,
                      left[s] < wait' - PurgeInterval - Slack
               PROVE  EndedBefore(left[s], age[c])
    BY <1>1, <1>2, SlackKept DEF OldAreSwept, Pending, EndedBefore
  <2> QED BY <1>3, SlackType, Types, ConstantTypes DEF EndedBefore
<1>9. BehindOK'
  BY <1>1, <1>2, SlackKept DEF BehindOK, Behind, Pending, EndedBefore
<1>10. SlackOK'
  <2> SUFFICES ASSUME NEW d \in Calls, pc'[d] # "idle"
               PROVE  /\ wait' - PurgeInterval + age[d] <= Slack
                      /\ \A e \in Calls : pc'[e] # "idle" => age[d] - age[e] <= Slack
    BY <1>2, SlackKept DEF SlackOK
  <2>1. \A e \in Calls : pc'[e] # "idle" => pc[e] # "idle"
    BY <1>1
  <2>2. \A e \in Calls : pc'[e] # "idle" => age[d] - age[e] <= Slack
    BY <2>1 DEF SlackOK
  <2>3. wait' - PurgeInterval + age[d] <= Slack
    BY <1>1, <1>3, <2>2, SlackType, Types, ConstantTypes
  <2> QED BY <2>2, <2>3
<1> QED BY <1>6, <1>7, <1>8, <1>9, <1>10

LEMMA SweepInv ==
  ASSUME ThrottleInv, NEW c \in Calls, Sweep(c)
  PROVE  ThrottleInv'
<1> USE DEF ThrottleInv
<1>1. /\ pc' \in [Calls -> Locations] /\ pc'[c] = "work" /\ pc[c] = "sweep"
      /\ \A d \in Calls \ {c} : pc'[d] = pc[d]
  BY Going DEF Sweep, Locations
<1>2. UNCHANGED <<wait, age, held, back>>
  BY DEF Sweep
<1>3. left' = [s \in Slots |-> IF EndedBefore(left[s], age[c]) THEN Nil ELSE left[s]]
  BY DEF Sweep
<1>4. TypeOK'
  BY <1>1, <1>2, <1>3 DEF TypeOK
<1>5. ReadingsOK' /\ HeldOK'
  BY <1>1, <1>2, <1>3 DEF ReadingsOK, HeldOK
<1>6. ASSUME NEW s \in Slots, left'[s] # Nil, Pending(left[s])
      PROVE  Pending(left[s])'
  <2>1. left'[s] = left[s] /\ ~EndedBefore(left[s], age[c])
    BY <1>3, <1>6
  <2> QED BY <1>1, <1>2, <1>6, <2>1 DEF Pending, EndedBefore
<1>7. \A s \in Slots : left'[s] # Nil => left'[s] = left[s] /\ left[s] + age[c] >= 0
  BY <1>3, Types DEF EndedBefore
<1>8. OldAreSwept'
  BY <1>2, <1>6, <1>7, SlackKept DEF OldAreSwept
<1>9. BehindOK'
  <2> SUFFICES ASSUME NEW d \in Calls, NEW s \in Slots, Behind(d, s)'
               PROVE  Pending(left[s])
    BY <1>6 DEF BehindOK, Behind
  <2>1. /\ pc'[d] \in {"work", "rotate"} /\ left'[s] # Nil
        /\ left'[s] + age[d] <= -(PurgeInterval + Slack)
    BY <1>2, SlackKept DEF Behind
  <2>2. d # c
    BY <1>7, <2>1, SlackType, Types, ConstantTypes
  <2> QED BY <1>1, <1>7, <2>1, <2>2 DEF BehindOK, Behind
<1>10. SlackOK'
  BY <1>1, <1>2, SlackStays
<1> QED BY <1>4, <1>5, <1>8, <1>9, <1>10

\* Whoever saves a session that had not ended when it read the clock adds nothing
\* to sweep, and nothing that another call would have left behind.
LEMMA SavedOld ==
  ASSUME TypeOK, SlackOK, OldAreSwept, BehindOK, UNCHANGED <<wait, age, back>>,
         \A d \in Calls : pc[d] = "sweep" => pc'[d] = "sweep",
         \A d \in Calls : pc'[d] \in {"work", "rotate"} => pc[d] \in {"work", "rotate"},
         NEW c \in Calls, pc[c] # "idle",
         \A s \in Slots :
           left'[s] # Nil => left'[s] = left[s] \/ (left'[s] \in Int /\ left'[s] + age[c] >= 0)
  PROVE  OldAreSwept' /\ BehindOK'
<1>1. \A s \in Slots : left'[s] # Nil /\ left'[s] = left[s] /\ Pending(left[s]) => Pending(left[s])'
  BY DEF Pending, EndedBefore
<1>2. OldAreSwept'
  <2> SUFFICES ASSUME NEW s \in Slots, left'[s] # Nil,
                      left'[s] < wait - PurgeInterval - Slack
               PROVE  Pending(left[s])'
    BY SlackKept DEF OldAreSwept
  <2>1. wait - PurgeInterval + age[c] <= Slack
    BY DEF SlackOK
  <2>2. left'[s] = left[s]
    BY <2>1, SlackType, Types, ConstantTypes
  <2> QED BY <1>1, <2>2 DEF OldAreSwept
<1>3. BehindOK'
  <2> SUFFICES ASSUME NEW d \in Calls, NEW s \in Slots, Behind(d, s)'
               PROVE  Pending(left[s])'
    BY DEF BehindOK
  <2>1. /\ pc[d] \in {"work", "rotate"} /\ left'[s] # Nil
        /\ left'[s] + age[d] <= -(PurgeInterval + Slack)
    BY SlackKept DEF Behind
  <2>2. age[c] - age[d] <= Slack
    BY <2>1 DEF SlackOK
  <2>3. left'[s] = left[s]
    BY <2>1, <2>2, SlackType, Types, ConstantTypes
  <2> QED BY <1>1, <2>1, <2>3 DEF BehindOK, Behind
<1> QED BY <1>2, <1>3

LEMMA SaveNewInv ==
  ASSUME ThrottleInv, NEW c \in Calls, NEW s \in Slots, SaveNew(c, s)
  PROVE  ThrottleInv'
<1> USE DEF ThrottleInv
<1>1. /\ pc' \in [Calls -> Locations] /\ pc'[c] = "idle" /\ pc[c] \in {"rotate", "work"}
      /\ \A d \in Calls \ {c} : pc'[d] = pc[d]
  BY Going DEF SaveNew, Locations
<1>2. UNCHANGED <<wait, age, back>>
  BY DEF SaveNew
<1>3. /\ left' = [left EXCEPT ![s] = RefreshTokenTTL - age[c]]
      /\ held' = [held EXCEPT ![c] = Nil]
  BY DEF SaveNew
<1>4. /\ RefreshTokenTTL - age[c] \in Int /\ (RefreshTokenTTL - age[c]) + age[c] >= 0
      /\ RefreshTokenTTL - age[c] <= RefreshTokenTTL + back
  BY Types, ConstantTypes DEF ReadingsOK
<1>5. RefreshTokenTTL - age[c] \in Distance(RefreshTokenTTL)
  BY <1>4, Types, ConstantTypes, InDistance
<1>6. TypeOK'
  BY <1>1, <1>2, <1>3, <1>5 DEF TypeOK
<1>7. ReadingsOK'
  BY <1>2, <1>3, <1>4 DEF ReadingsOK, TypeOK
<1>8. HeldOK'
  BY <1>1, <1>2, <1>3 DEF HeldOK, TypeOK
<1>9. \A i \in Slots : left'[i] = left[i] \/ (left'[i] \in Int /\ left'[i] + age[c] >= 0)
  BY <1>3, <1>4 DEF TypeOK
<1>10. OldAreSwept' /\ BehindOK'
  BY <1>1, <1>2, <1>9, SavedOld
<1>11. SlackOK'
  BY <1>1, <1>2, SlackStays
<1> QED BY <1>6, <1>7, <1>8, <1>10, <1>11

LEMMA RevokeInv ==
  ASSUME ThrottleInv, NEW c \in Calls, NEW s \in Slots, Revoke(c, s)
  PROVE  ThrottleInv'
<1> USE DEF ThrottleInv
<1>1. /\ pc' \in [Calls -> Locations] /\ pc'[c] = "rotate" /\ pc[c] = "work"
      /\ \A d \in Calls \ {c} : pc'[d] = pc[d]
  BY Going DEF Revoke, Locations
<1>2. UNCHANGED <<wait, age, back>>
  BY DEF Revoke
<1>3. /\ left' = [left EXCEPT ![s] = Nil]
      /\ held' = [held EXCEPT ![c] = left[s]]
      /\ left[s] # Nil /\ ~EndedBefore(left[s], age[c])
  BY DEF Revoke
<1>4. TypeOK'
  BY <1>1, <1>2, <1>3 DEF TypeOK
<1>5. ReadingsOK'
  BY <1>2, <1>3 DEF ReadingsOK, TypeOK
<1>6. left[s] + age[c] >= 0
  BY <1>3, Types DEF EndedBefore
<1>7. HeldOK'
  BY <1>1, <1>2, <1>3, <1>6 DEF HeldOK, TypeOK
<1>8. \A i \in Slots : left'[i] # Nil => left'[i] = left[i]
  BY <1>3 DEF TypeOK
<1>9. OldAreSwept' /\ BehindOK'
  BY <1>1, <1>2, <1>8, SavedOld
<1>10. SlackOK'
  BY <1>1, <1>2, SlackStays
<1> QED BY <1>4, <1>5, <1>7, <1>9, <1>10

LEMMA SaveHeldInv ==
  ASSUME ThrottleInv, NEW c \in Calls, NEW s \in Slots, SaveHeld(c, s)
  PROVE  ThrottleInv'
<1> USE DEF ThrottleInv
<1>1. /\ pc' \in [Calls -> Locations] /\ pc'[c] = "idle" /\ pc[c] = "rotate"
      /\ \A d \in Calls \ {c} : pc'[d] = pc[d]
  BY Going DEF SaveHeld, Locations
<1>2. UNCHANGED <<wait, age, back>>
  BY DEF SaveHeld
<1>3. left' = [left EXCEPT ![s] = held[c]] /\ held' = [held EXCEPT ![c] = Nil]
  BY DEF SaveHeld
<1>4. TypeOK'
  BY <1>1, <1>2, <1>3 DEF TypeOK
<1>5. ReadingsOK'
  BY <1>2, <1>3 DEF ReadingsOK, TypeOK
<1>6. HeldOK'
  BY <1>1, <1>2, <1>3 DEF HeldOK, TypeOK
<1>7. held[c] \in Int /\ held[c] + age[c] >= 0
  BY <1>1, Types, ConstantTypes DEF HeldOK
<1>8. \A i \in Slots : left'[i] # Nil =>
        left'[i] = left[i] \/ (left'[i] \in Int /\ left'[i] + age[c] >= 0)
  BY <1>3, <1>7 DEF TypeOK
<1>9. OldAreSwept' /\ BehindOK'
  BY <1>1, <1>2, <1>8, SavedOld
<1>10. SlackOK'
  BY <1>1, <1>2, SlackStays
<1> QED BY <1>4, <1>5, <1>6, <1>9, <1>10

LEMMA FinishInv ==
  ASSUME ThrottleInv, NEW c \in Calls, Finish(c)
  PROVE  ThrottleInv'
<1> USE DEF ThrottleInv
<1>1. /\ pc' \in [Calls -> Locations] /\ pc'[c] = "idle" /\ pc[c] = "work"
      /\ \A d \in Calls \ {c} : pc'[d] = pc[d]
  BY Going DEF Finish, Locations
<1>2. UNCHANGED <<wait, age, held, back>>
  BY DEF Finish
<1>3. /\ left' \in [Slots -> Distance(RefreshTokenTTL) \cup {Nil}]
      /\ \A i \in Slots : left'[i] # Nil => left'[i] = left[i]
  BY DEF Finish, TypeOK
<1>4. TypeOK'
  BY <1>1, <1>2, <1>3 DEF TypeOK
<1>5. ReadingsOK' /\ HeldOK'
  BY <1>1, <1>2, <1>3 DEF ReadingsOK, HeldOK
<1>6. OldAreSwept' /\ BehindOK'
  BY <1>1, <1>2, <1>3, SavedOld
<1>7. SlackOK'
  BY <1>1, <1>2, SlackStays
<1> QED BY <1>4, <1>5, <1>6, <1>7

LEMMA ThrottleNext == ThrottleInv /\ [Next]_vars => ThrottleInv'
<1> SUFFICES ASSUME ThrottleInv, [Next]_vars PROVE ThrottleInv'
  OBVIOUS
<1>1. CASE UNCHANGED vars
  BY <1>1 DEF vars, ThrottleInv, TypeOK, ReadingsOK, HeldOK, SlackOK, Slack,
     OldAreSwept, BehindOK, Behind, Pending, EndedBefore
<1>2. ASSUME NEW c \in Calls, Arrive(c) \/ Step(c) PROVE ThrottleInv'
  BY <1>2, ArriveInv, CheckInv, StampInv, SweepInv, SaveNewInv, RevokeInv, SaveHeldInv,
     FinishInv DEF Step, Work
<1> QED BY <1>1, <1>2, TickInv, SetBackInv DEF Next

LEMMA Invariance == Spec => []ThrottleInv
BY ThrottleInit, ThrottleNext, PTL DEF Spec

\* However the calls race on the timestamp, and wherever the clock falls back to,
\* the next purge is no further away than one interval and what the clock was set
\* back.
THEOREM PurgeNotPutOffHolds == Spec => []PurgeNotPutOff
<1>1. ThrottleInv => PurgeNotPutOff
  BY DEF ThrottleInv, ReadingsOK, PurgeNotPutOff
<1> QED BY <1>1, Invariance, PTL

\* A call that has passed the purge leaves behind no session that had ended one
\* interval before it read the clock and as long again as a call takes or the clock
\* was set back, but those that another call's sweep is about to take.
THEOREM BacklogHolds == Spec => []Backlog
<1>1. ThrottleInv => Backlog
  BY DEF ThrottleInv, BehindOK, Behind, Pending, Backlog
<1> QED BY <1>1, Invariance, PTL
=============================================================================
