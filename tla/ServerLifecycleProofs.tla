------------------------ MODULE ServerLifecycleProofs ------------------------
(***************************************************************************)
(* Proofs about ServerLifecycle, for any number of processes, calls, kills *)
(* and signals.                                                            *)
(***************************************************************************)
EXTENDS ServerLifecycle, TLAPS

\* The points a process passes on its way to a socket, behind the TCP address.
BehindPort == {"stat", "remove", "bind"}

\* Who listens on the address has it; so does, with an address configured, who
\* has come past it.
PortOK ==
  /\ \A p \in Procs : "tcp" \in listeners[p] => port = p
  /\ \A p \in Procs : mode.tcp /\ (pc[p] \in BehindPort \/ Up(p)) => port = p

\* Calls are in flight only where the process accepts them, or drains.
CallsOK ==
  \A p \in Procs : calls[p] # {} => pc[p] \in {"up", "serving", "closing", "draining"}

LifecycleInv == TypeOK /\ PortOK /\ CallsOK

LEMMA LifecycleInit == Init => LifecycleInv
BY ConstantsAssumption
DEF Init, LifecycleInv, TypeOK, PortOK, CallsOK, BehindPort, Up, Points

-----------------------------------------------------------------------------
LEMMA TypeNext == TypeOK /\ [Next]_vars => TypeOK'
<1> SUFFICES ASSUME TypeOK, [Next]_vars PROVE TypeOK'
  OBVIOUS
<1>a. ASSUME NEW p \in Procs, Own(p) PROVE TypeOK'
  <2> USE <1>a, ConstantsAssumption DEF TypeOK, Points, GoTo
  <2>1. CASE ListenTCP(p)
    BY <2>1 DEF ListenTCP, Fatal, End
  <2>2. CASE Stat(p)
    BY <2>2 DEF Stat, Fatal, End
  <2>3. CASE Remove(p)
    BY <2>3 DEF Remove, Fatal, End
  <2>4. CASE ListenUnix(p)
    BY <2>4 DEF ListenUnix, Fatal, End
  <2>5. CASE Notify(p) \/ ReceiveError(p) \/ ListenersClosed(p) \/ Drained(p)
    BY <2>5 DEF Notify, ReceiveError, ListenersClosed, Drained
  <2>6. ASSUME NEW l \in listeners[p], CloseListener(p, l) PROVE TypeOK'
    BY <2>6 DEF CloseListener, Close
  <2>7. CASE Unlink(p)
    BY <2>7 DEF Unlink, End
  <2> QED
    BY <2>1, <2>2, <2>3, <2>4, <2>5, <2>6, <2>7 DEF Own
<1>b. ASSUME NEW p \in Procs, Begin(p) PROVE TypeOK'
  BY <1>b DEF TypeOK, Points, GoTo, Begin
<1>c. ASSUME NEW p \in Procs, NEW c \in Calls, Call(p, c) \/ Finish(p, c) PROVE TypeOK'
  BY <1>c DEF TypeOK, Call, Finish
<1>d. ASSUME NEW p \in Procs, NEW l \in listeners[p], ServeFails(p, l) PROVE TypeOK'
  BY <1>d DEF TypeOK, ServeFails, Close
<1>e. ASSUME NEW p \in Procs, ReceiveSignal(p) PROVE TypeOK'
  BY <1>e, ConstantsAssumption DEF TypeOK, Points, GoTo, ReceiveSignal
<1>f. ASSUME NEW p \in Procs, Terminate(p) \/ Kill(p) PROVE TypeOK'
  BY <1>f, ConstantsAssumption DEF TypeOK, Points, GoTo, Terminate, Kill, End
<1>g. CASE ChangeFile
  BY <1>g DEF TypeOK, ChangeFile
<1>h. CASE UNCHANGED vars
  BY <1>h DEF TypeOK, vars
<1> QED
  BY <1>a, <1>b, <1>c, <1>d, <1>e, <1>f, <1>g, <1>h DEF Next

-----------------------------------------------------------------------------
\* A process that ends gives the address back, and nobody else's is touched.
LEMMA EndKeepsPort ==
  ASSUME TypeOK, PortOK, NEW p \in Procs, NEW how, End(p, how),
         mode' = mode, failed' = failed
  PROVE  PortOK'
BY ConstantsAssumption DEF TypeOK, PortOK, BehindPort, Up, End, GoTo

\* A closed listener was the process's own; the process no longer serves.
LEMMA CloseKeepsPort ==
  ASSUME TypeOK, PortOK, NEW p \in Procs, NEW l \in listeners[p], Close(p, l),
         pc' = pc, mode' = mode, \A q \in Procs \ {p} : failed'[q] = failed[q],
         pc[p] \notin BehindPort, ~Up(p)'
  PROVE  PortOK'
BY ConstantsAssumption DEF TypeOK, PortOK, BehindPort, Up, Close

LEMMA PortNext == TypeOK /\ PortOK /\ [Next]_vars => PortOK'
<1> SUFFICES ASSUME TypeOK, PortOK, [Next]_vars PROVE PortOK'
  OBVIOUS
<1>a. ASSUME NEW p \in Procs, Own(p) PROVE PortOK'
  <2>0. ASSUME Fatal(p) PROVE PortOK'
    BY <2>0, EndKeepsPort DEF Fatal
  <2>1. CASE ListenTCP(p)
    BY <2>0, <2>1, ConstantsAssumption
    DEF ListenTCP, Free, GoTo, TypeOK, PortOK, BehindPort, Up
  <2>2. CASE Stat(p)
    BY <2>0, <2>2 DEF Stat, GoTo, TypeOK, PortOK, BehindPort, Up
  <2>3. CASE Remove(p)
    BY <2>0, <2>3 DEF Remove, GoTo, TypeOK, PortOK, BehindPort, Up
  <2>4. CASE ListenUnix(p)
    BY <2>0, <2>4 DEF ListenUnix, GoTo, TypeOK, PortOK, BehindPort, Up
  <2>5. CASE Notify(p) \/ ReceiveError(p) \/ ListenersClosed(p) \/ Drained(p)
    BY <2>5 DEF Notify, ReceiveError, ListenersClosed, Drained, GoTo, TypeOK,
                PortOK, BehindPort, Up
  <2>6. ASSUME NEW l \in listeners[p], CloseListener(p, l) PROVE PortOK'
    <3>1. pc[p] \notin BehindPort /\ ~Up(p)'
      BY <2>6 DEF CloseListener, BehindPort, Up
    <3> QED BY <2>6, <3>1, CloseKeepsPort DEF CloseListener
  <2>7. CASE Unlink(p)
    BY <2>7, EndKeepsPort DEF Unlink
  <2> QED
    BY <1>a, <2>1, <2>2, <2>3, <2>4, <2>5, <2>6, <2>7 DEF Own
<1>b. ASSUME NEW p \in Procs, Begin(p) PROVE PortOK'
  BY <1>b DEF TypeOK, PortOK, BehindPort, Up, GoTo, Begin
<1>c. ASSUME NEW p \in Procs, NEW c \in Calls, Call(p, c) \/ Finish(p, c) PROVE PortOK'
  BY <1>c DEF PortOK, Up, Call, Finish
<1>d. ASSUME NEW p \in Procs, NEW l \in listeners[p], ServeFails(p, l) PROVE PortOK'
  <2>1. pc[p] \notin BehindPort /\ ~Up(p)' /\ \A q \in Procs \ {p} : failed'[q] = failed[q]
    BY <1>d DEF ServeFails, BehindPort, Up, TypeOK
  <2> QED BY <1>d, <2>1, CloseKeepsPort DEF ServeFails
<1>e. ASSUME NEW p \in Procs, ReceiveSignal(p) PROVE PortOK'
  BY <1>e DEF TypeOK, PortOK, BehindPort, Up, GoTo, ReceiveSignal
<1>f. ASSUME NEW p \in Procs, Terminate(p) \/ Kill(p) PROVE PortOK'
  BY <1>f, EndKeepsPort DEF Terminate, Kill
<1>g. CASE ChangeFile \/ UNCHANGED vars
  BY <1>g DEF PortOK, Up, ChangeFile, vars
<1> QED
  BY <1>a, <1>b, <1>c, <1>d, <1>e, <1>f, <1>g DEF Next

-----------------------------------------------------------------------------
LEMMA CallsNext == TypeOK /\ CallsOK /\ [Next]_vars => CallsOK'
<1> SUFFICES ASSUME TypeOK, CallsOK, [Next]_vars PROVE CallsOK'
  OBVIOUS
<1> USE DEF TypeOK, CallsOK, GoTo
<1>a. ASSUME NEW p \in Procs, Own(p) PROVE CallsOK'
  <2>1. CASE ListenTCP(p) \/ Stat(p) \/ Remove(p) \/ ListenUnix(p)
    BY <2>1 DEF ListenTCP, Stat, Remove, ListenUnix, Fatal, End
  <2>2. CASE Notify(p) \/ ReceiveError(p) \/ ListenersClosed(p)
    BY <2>2 DEF Notify, ReceiveError, ListenersClosed
  <2>3. CASE Drained(p)
    BY <2>3 DEF Drained, Quiet
  <2>4. ASSUME NEW l \in listeners[p], CloseListener(p, l) PROVE CallsOK'
    BY <2>4 DEF CloseListener
  <2>5. CASE Unlink(p)
    BY <2>5 DEF Unlink, End
  <2> QED
    BY <1>a, <2>1, <2>2, <2>3, <2>4, <2>5 DEF Own
<1>b. ASSUME NEW p \in Procs, Begin(p) PROVE CallsOK'
  BY <1>b DEF Begin
<1>c. ASSUME NEW p \in Procs, NEW c \in Calls, Call(p, c) \/ Finish(p, c) PROVE CallsOK'
  BY <1>c DEF Call, Finish, Accepts
<1>d. ASSUME NEW p \in Procs, NEW l \in listeners[p], ServeFails(p, l) PROVE CallsOK'
  BY <1>d DEF ServeFails
<1>e. ASSUME NEW p \in Procs, ReceiveSignal(p) PROVE CallsOK'
  BY <1>e DEF ReceiveSignal
<1>f. ASSUME NEW p \in Procs, Terminate(p) \/ Kill(p) PROVE CallsOK'
  BY <1>f DEF Terminate, Kill, End
<1>g. CASE ChangeFile \/ UNCHANGED vars
  BY <1>g DEF ChangeFile, vars
<1> QED
  BY <1>a, <1>b, <1>c, <1>d, <1>e, <1>f, <1>g DEF Next

LEMMA LifecycleNext == LifecycleInv /\ [Next]_vars => LifecycleInv'
BY TypeNext, PortNext, CallsNext DEF LifecycleInv

LEMMA LifecycleInvariant == Spec => []LifecycleInv
BY LifecycleInit, LifecycleNext, PTL DEF Spec

-----------------------------------------------------------------------------
\* With a TCP address configured, buildListeners lets no process come to the
\* socket path of one that serves, however many start, stop and die.
THEOREM StartsKeepOutHolds == Spec => []StartsKeepOut
<1>1. LifecycleInv => StartsKeepOut
  BY DEF LifecycleInv, StartsKeepOut, PortOK, BehindPort, Up
<1> QED BY <1>1, LifecycleInvariant, PTL

\* Main closes the store only after Stop, and Stop returns only when no call
\* is left: whatever call came in until the listeners closed.
THEOREM AnsweredBeforeCloseHolds == Spec => []AnsweredBeforeClose
<1>1. LifecycleInv => AnsweredBeforeClose
  BY DEF LifecycleInv, AnsweredBeforeClose, CallsOK
<1> QED BY <1>1, LifecycleInvariant, PTL
=============================================================================
