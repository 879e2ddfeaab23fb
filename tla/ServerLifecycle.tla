--------------------------- MODULE ServerLifecycle ---------------------------
(***************************************************************************)
(* The gRPC server of one or more authd processes: NewServer and Stop      *)
(* (internal/api/authServer/server.go), and the main function from there   *)
(* to its exit (main.go).  The processes have one configuration, and so    *)
(* compete for one TCP address and one socket path.  The store and the     *)
(* settings are open from Begin until the process is off.                  *)
(*                                                                         *)
(* grpc.Server, net.Listener and systemd are external: GracefulStop closes *)
(* the listeners in any order and waits for the calls in flight; a Unix    *)
(* listener unlinks its path when it is closed, whatever is there by then; *)
(* systemd starts authd again as Restart=on-failure says.                  *)
(***************************************************************************)
EXTENDS Integers, FiniteSets

CONSTANTS
  Procs,       \* processes
  Calls,       \* calls that can be in flight in a process
  MaxKills,    \* bound on crashes and SIGKILLs
  MaxSignals,  \* bound on SIGINTs and SIGTERMs
  None         \* nobody, nothing

ASSUME ConstantsAssumption ==
  /\ None \notin Procs
  /\ {"dead", "file"} \cap (Procs \cup {None}) = {}
  /\ MaxKills \in Nat /\ MaxSignals \in Nat

\* What is configured: listen_address, unix_socket_path (Config.validate
\* refuses to have neither); and who starts authd, systemd alone or anyone.
Modes ==
  {m \in [tcp : BOOLEAN, unix : BOOLEAN, supervised : BOOLEAN] : m.tcp \/ m.unix}

VARIABLES
  mode,       \* one of Modes, for good
  pc,         \* where each process is
  port,       \* the process bound to the TCP address
  path,       \* what is at the socket path: the socket of a process, or:
              \* "dead", one whose process is gone; "file", no socket; None
  listeners,  \* the open listeners of each process
  calls,      \* the calls in flight in each process
  failed,     \* errCh holds an error
  status,     \* how the process ended last
  kills, signals

vars == <<mode, pc, port, path, listeners, calls, failed, status, kills, signals>>

\* "up": the listeners are served, and signals have their default effect yet.
Points == {"off", "tcp", "stat", "remove", "bind", "up", "serving",
           "closing", "draining", "unlink"}

TypeOK ==
  /\ mode \in Modes
  /\ pc \in [Procs -> Points]
  /\ port \in Procs \cup {None}
  /\ path \in Procs \cup {"dead", "file", None}
  /\ listeners \in [Procs -> SUBSET {"tcp", "unix"}]
  /\ calls \in [Procs -> SUBSET Calls]
  /\ failed \in [Procs -> BOOLEAN]
  /\ status \in [Procs -> {"new", "clean", "failure"}]
  /\ kills \in 0..MaxKills /\ signals \in 0..MaxSignals

Init ==
  /\ mode \in Modes
  /\ pc = [p \in Procs |-> "off"]
  /\ port = None
  /\ path \in {None, "dead", "file"}
  /\ listeners = [p \in Procs |-> {}]
  /\ calls = [p \in Procs |-> {}]
  /\ failed = [p \in Procs |-> FALSE]
  /\ status = [p \in Procs |-> "new"]
  /\ kills = 0 /\ signals = 0

-----------------------------------------------------------------------------
GoTo(p, point) == pc' = [pc EXCEPT ![p] = point]

\* The kernel closes what the process had open; nobody unlinks its socket.
End(p, how) ==
  /\ GoTo(p, "off")
  /\ status' = [status EXCEPT ![p] = how]
  /\ listeners' = [listeners EXCEPT ![p] = {}]
  /\ calls' = [calls EXCEPT ![p] = {}]
  /\ port' = IF port = p THEN None ELSE port

\* buildListeners fails: closeAll, and log.Fatal with exit status 1.
Fatal(p) ==
  /\ End(p, "failure")
  /\ UNCHANGED <<mode, path, failed, kills, signals>>

\* systemd: Restart=on-failure, and one process of the one service.
MayStart(p) ==
  mode.supervised => /\ status[p] # "clean"
                     /\ \A q \in Procs \ {p} : pc[q] = "off" /\ status[q] = "new"

\* The first of buildListeners' parts that applies.
Begin(p) ==
  /\ pc[p] = "off"
  /\ MayStart(p)
  /\ GoTo(p, IF mode.tcp THEN "tcp" ELSE "stat")
  /\ failed' = [failed EXCEPT ![p] = FALSE]
  /\ UNCHANGED <<mode, port, path, listeners, calls, status, kills, signals>>

\* Faulty variant: as with SO_REUSEPORT.
Free_Reuse(address) == TRUE

Free(address) == address = None

ListenTCP(p) ==
  /\ pc[p] = "tcp"
  /\ \/ /\ Free(port)
        /\ port' = p
        /\ listeners' = [listeners EXCEPT ![p] = @ \cup {"tcp"}]
        /\ GoTo(p, IF mode.unix THEN "stat" ELSE "up")
        /\ UNCHANGED <<mode, path, calls, failed, status, kills, signals>>
     \/ ~Free(port) /\ Fatal(p)

\* Faulty variant: a socket is in use.
Obstacle_Socket(there) == there # None

Obstacle(there) == there = "file"

\* prepareSocketPath: os.Stat
Stat(p) ==
  /\ pc[p] = "stat"
  /\ \/ Obstacle(path) /\ Fatal(p)
     \/ /\ ~Obstacle(path)
        /\ GoTo(p, IF path = None THEN "bind" ELSE "remove")
        /\ UNCHANGED <<mode, port, path, listeners, calls, failed, status, kills, signals>>

\* prepareSocketPath: os.Remove of what is there now; a path that has gone
\* since is an error.
Remove(p) ==
  /\ pc[p] = "remove"
  /\ \/ /\ path # None
        /\ path' = None
        /\ GoTo(p, "bind")
        /\ UNCHANGED <<mode, port, listeners, calls, failed, status, kills, signals>>
     \/ path = None /\ Fatal(p)

ListenUnix(p) ==
  /\ pc[p] = "bind"
  /\ \/ /\ path = None
        /\ path' = p
        /\ listeners' = [listeners EXCEPT ![p] = @ \cup {"unix"}]
        /\ GoTo(p, "up")
        /\ UNCHANGED <<mode, port, calls, failed, status, kills, signals>>
     \/ path # None /\ Fatal(p)

\* main: signal.Notify
Notify(p) ==
  /\ pc[p] = "up"
  /\ GoTo(p, "serving")
  /\ UNCHANGED <<mode, port, path, listeners, calls, failed, status, kills, signals>>

-----------------------------------------------------------------------------
\* Faulty variant: connections are served until the last one is done.
Accepts_Draining(p) == pc[p] \in {"up", "serving", "closing", "draining"}

Accepts(p) == pc[p] \in {"up", "serving", "closing"}

Call(p, c) ==
  /\ Accepts(p)
  /\ c \notin calls[p]
  /\ calls' = [calls EXCEPT ![p] = @ \cup {c}]
  /\ UNCHANGED <<mode, pc, port, path, listeners, failed, status, kills, signals>>

Finish(p, c) ==
  /\ c \in calls[p]
  /\ calls' = [calls EXCEPT ![p] = @ \ {c}]
  /\ UNCHANGED <<mode, pc, port, path, listeners, failed, status, kills, signals>>

\* Close of a listener; that of a Unix socket unlinks the path first.
Close(p, l) ==
  /\ listeners' = [listeners EXCEPT ![p] = @ \ {l}]
  /\ port' = IF l = "tcp" THEN None ELSE port
  /\ path' = IF l = "unix" THEN None ELSE path

\* grpc.Serve gives up on a listener, closes it and returns an error.
ServeFails(p, l) ==
  /\ pc[p] \in {"up", "serving"}
  /\ l \in listeners[p]
  /\ Close(p, l)
  /\ failed' = [failed EXCEPT ![p] = TRUE]
  /\ UNCHANGED <<mode, pc, calls, status, kills, signals>>

\* main's select: one of the two sends it on to Stop.
ReceiveSignal(p) ==
  /\ pc[p] = "serving"
  /\ signals < MaxSignals   \* bound
  /\ signals' = signals + 1
  /\ GoTo(p, "closing")
  /\ UNCHANGED <<mode, port, path, listeners, calls, failed, status, kills>>

ReceiveError(p) ==
  /\ pc[p] = "serving"
  /\ failed[p]
  /\ GoTo(p, "closing")
  /\ UNCHANGED <<mode, port, path, listeners, calls, failed, status, kills, signals>>

\* A signal before signal.Notify ends the process; for systemd that is clean.
Terminate(p) ==
  /\ pc[p] \in {"tcp", "stat", "remove", "bind", "up"}
  /\ signals < MaxSignals   \* bound
  /\ signals' = signals + 1
  /\ End(p, "clean")
  /\ path' = IF path = p THEN "dead" ELSE path
  /\ UNCHANGED <<mode, failed, kills>>

\* Stop: GracefulStop
CloseListener(p, l) ==
  /\ pc[p] = "closing"
  /\ l \in listeners[p]
  /\ Close(p, l)
  /\ UNCHANGED <<mode, pc, calls, failed, status, kills, signals>>

ListenersClosed(p) ==
  /\ pc[p] = "closing"
  /\ listeners[p] = {}
  /\ GoTo(p, "draining")
  /\ UNCHANGED <<mode, port, path, listeners, calls, failed, status, kills, signals>>

\* Faulty variant: Stop in place of GracefulStop.
Quiet_Stop(p) == TRUE

Quiet(p) == calls[p] = {}

Drained(p) ==
  /\ pc[p] = "draining"
  /\ Quiet(p)
  /\ GoTo(p, "unlink")
  /\ UNCHANGED <<mode, port, path, listeners, calls, failed, status, kills, signals>>

\* Stop: os.Remove, by name once more; then main closes the store and returns,
\* with exit status 0 for an error as for a signal.
Unlink(p) ==
  /\ pc[p] = "unlink"
  /\ path' = IF mode.unix THEN None ELSE path
  /\ End(p, "clean")
  /\ UNCHANGED <<mode, failed, kills, signals>>

-----------------------------------------------------------------------------
(* Outside the program. *)

Kill(p) ==
  /\ pc[p] # "off"
  /\ kills < MaxKills   \* bound
  /\ kills' = kills + 1
  /\ End(p, "failure")
  /\ path' = IF path = p THEN "dead" ELSE path
  /\ UNCHANGED <<mode, failed, signals>>

\* Somebody puts a file there, or takes it away, while authd is not running.
ChangeFile ==
  /\ \A p \in Procs : pc[p] = "off"
  /\ \/ path = None /\ path' = "file"
     \/ path = "file" /\ path' = None
  /\ UNCHANGED <<mode, pc, port, listeners, calls, failed, status, kills, signals>>

Own(p) ==
  \/ ListenTCP(p) \/ Stat(p) \/ Remove(p) \/ ListenUnix(p) \/ Notify(p)
  \/ ReceiveError(p)
  \/ \E l \in listeners[p] : CloseListener(p, l)
  \/ ListenersClosed(p) \/ Drained(p) \/ Unlink(p)

Next ==
  \/ \E p \in Procs :
       \/ Own(p)
       \/ Begin(p)
       \/ \E c \in Calls : Call(p, c) \/ Finish(p, c)
       \/ \E l \in listeners[p] : ServeFails(p, l)
       \/ ReceiveSignal(p) \/ Terminate(p) \/ Kill(p)
  \/ ChangeFile

Spec == Init /\ [][Next]_vars

\* The process runs, systemd starts it, and every call ends: all are unary
\* and wait for nothing but the store and the settings.
FairSpec ==
  /\ Spec
  /\ \A p \in Procs : WF_vars(Own(p)) /\ WF_vars(mode.supervised /\ Begin(p))
  /\ \A p \in Procs, c \in Calls : WF_vars(Finish(p, c))
-----------------------------------------------------------------------------
(* Properties. *)

\* A call in flight is answered before the store is closed: Stop returns only
\* after it, and main closes the store after Stop.
AnsweredBeforeClose == \A p \in Procs : calls[p] # {} => pc[p] \notin {"off", "unlink"}

\* With a TCP address in the configuration, no start comes to the socket path
\* of a process that serves: it fails on the address before.
Up(p) == pc[p] \in {"up", "serving"} /\ ~failed[p]

StartsKeepOut ==
  TypeOK /\ \A p, q \in Procs : mode.tcp /\ Up(p) => pc[q] \notin {"stat", "remove", "bind"}

\* Once told to stop, the process comes to its end.
StopEnds == \A p \in Procs : pc[p] = "closing" ~> pc[p] = "off"

\* Under systemd a crash is recovered from, whatever socket it left, unless
\* somebody stops the process, has put a file in the way, or a listener fails:
\* it serves again, and on a socket of its own.
ComesBack ==
  \A p \in Procs :
    (mode.supervised /\ pc[p] = "off" /\ status[p] = "failure")
      ~> \/ pc[p] = "serving" /\ (mode.unix => path = p)
         \/ failed[p] \/ status[p] = "clean" \/ path = "file"
=============================================================================
