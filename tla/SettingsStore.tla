---------------------------- MODULE SettingsStore ----------------------------
(***************************************************************************)
(* The runtime settings (internal/config/settings.go): a value in memory   *)
(* behind a sync.RWMutex, and the file it is loaded from and written back  *)
(* to, with GetAuthSettings and UpdateAuthSettings on top.                 *)
(*                                                                         *)
(* The file is truncated and then written in place, both under the lock:   *)
(* a write may fail before or after the truncation, and the process may    *)
(* die anywhere in between.  A read of the value needs the lock only for   *)
(* an instant, so it is one step that waits until no writer holds it.      *)
(* The operating system is taken to keep what was written.                 *)
(***************************************************************************)
EXTENDS FiniteSets, Roles

CONSTANTS
  Calls,    \* calls in flight at the same time
  Values,   \* values of Settings: its only field is a bool
  Default,  \* [default_setting] of authd.toml
  Absent, Empty, Garbled,   \* what the file may be other than a value
  Nil

ASSUME ConstantsAssumption ==
  /\ Default \in Values
  /\ {Absent, Empty, Garbled} \cap Values = {}
  /\ Cardinality({Absent, Empty, Garbled}) = 3
  /\ Nil \notin Calls \cup Values

Contents == Values \cup {Absent, Empty, Garbled}

VARIABLES
  up,        \* the process serves
  settings,  \* SettingsStore.settings; while down, the value last in force
  file,      \* authd-settings.toml
  writer,    \* the call that holds the lock for writing
  pc,        \* where each call is
  req,       \* the input and the answer of each call
  \* History, read by the properties only:
  torn,      \* the file was opened for an update that has not succeeded
  since      \* values in force since a call arrived, or since it assigned its own

vars == <<up, settings, file, writer, pc, req, torn, since>>

Request == [value : Values \cup {Nil}, answer : Values \cup {Nil}]

NoRequest == [value |-> Nil, answer |-> Nil]

Locations ==
  {"idle", "lock", "open", "write", "assign", "reread", "get", "ok", "failed"}

TypeOK ==
  /\ up \in BOOLEAN
  /\ settings \in Values
  /\ file \in Contents
  /\ writer \in Calls \cup {Nil}
  /\ pc \in [Calls -> Locations]
  /\ req \in [Calls -> Request]
  /\ torn \in BOOLEAN
  /\ since \in [Calls -> SUBSET Values]

\* Before the first start an operator may have left anything in the file.
Init ==
  /\ up = FALSE
  /\ settings = Default
  /\ file \in Contents
  /\ writer = Nil
  /\ pc = [c \in Calls |-> "idle"]
  /\ req = [c \in Calls |-> NoRequest]
  /\ torn = TRUE
  /\ since = [c \in Calls |-> {}]

-----------------------------------------------------------------------------
\* An empty file is valid TOML: every field keeps its default.
Parsed(contents) == IF contents = Empty THEN Default ELSE contents

\* LoadSettings.  A missing file is created from the defaults, an illegible
\* one keeps the process from starting.
Load ==
  /\ ~up
  /\ file # Garbled
  /\ IF file = Absent
       THEN file' = Default /\ settings' = Default
       ELSE settings' = Parsed(file) /\ UNCHANGED file
  /\ up' = TRUE
  /\ torn' = FALSE
  /\ UNCHANGED <<writer, pc, req, since>>

\* LoadSettings fails while it writes the defaults, and so does the start.
LoadFails ==
  /\ ~up
  /\ file = Absent
  /\ file' \in {Absent, Empty, Garbled}
  /\ torn' = TRUE
  /\ UNCHANGED <<up, settings, writer, pc, req, since>>

\* The operator replaces an illegible file.
Repair ==
  /\ ~up
  /\ file = Garbled
  /\ file' \in Values \cup {Absent}
  /\ torn' = TRUE
  /\ UNCHANGED <<up, settings, writer, pc, req, since>>

Crash ==
  /\ up
  /\ up' = FALSE
  /\ writer' = Nil
  /\ pc' = [c \in Calls |-> "idle"]
  /\ req' = [c \in Calls |-> NoRequest]
  /\ since' = [c \in Calls |-> {}]
  /\ UNCHANGED <<settings, file, torn>>

-----------------------------------------------------------------------------
Goto(c, location) == pc' = [pc EXCEPT ![c] = location]

\* A call arrives with the roles of its token, and is refused or goes on.
Arrive(c, roles, permission, request, location) ==
  /\ up
  /\ pc[c] = "idle"
  /\ Goto(c, IF permission \in ResolvePermissions(roles) THEN location ELSE "failed")
  /\ req' = [req EXCEPT ![c] = request]
  /\ since' = [since EXCEPT ![c] = {settings}]
  /\ UNCHANGED <<up, settings, file, writer, torn>>

\* GetAuthSettings; RefreshToken reads the value in the same way.
StartGet(c, roles) == Arrive(c, roles, "settings.read", NoRequest, "get")

\* UpdateAuthSettings.  The handler passes the value on and never looks at
\* the mask; a value that was not sent reads as false.
StartUpdate(c, roles, v) ==
  Arrive(c, roles, "settings.update", [NoRequest EXCEPT !.value = v], "lock")

\* Faulty variant: the file is written without the lock.
MayWrite_Always == TRUE

MayWrite == writer = Nil

UpdateLock(c) ==
  /\ pc[c] = "lock"
  /\ MayWrite
  /\ writer' = c
  /\ Goto(c, "open")
  /\ UNCHANGED <<up, settings, file, req, torn, since>>

\* Every error exit of SetRefreshTokenExtendOnRefresh runs the deferred Unlock.
Fail(c) == writer' = Nil /\ Goto(c, "failed")

\* Faulty variant: an early return without the unlock.
UpdateOpen_KeepsLock(c) ==
  /\ pc[c] = "open"
  /\ \/ Goto(c, "failed") /\ UNCHANGED <<writer, file, torn>>
     \/ /\ file' = Empty
        /\ torn' = TRUE
        /\ Goto(c, "write")
        /\ UNCHANGED writer
  /\ UNCHANGED <<up, settings, req, since>>

\* MkdirAll, Marshal and the opening of the file, which truncates it.
UpdateOpen(c) ==
  /\ pc[c] = "open"
  /\ \/ Fail(c) /\ UNCHANGED <<file, torn>>
     \/ /\ file' = Empty
        /\ torn' = TRUE
        /\ Goto(c, "write")
        /\ UNCHANGED writer
  /\ UNCHANGED <<up, settings, req, since>>

\* Faulty variant: memory goes first.
UpdateWrite_MemoryFirst(c) ==
  /\ pc[c] = "write"
  /\ settings' = req[c].value
  /\ since' = [d \in Calls |-> since[d] \cup {settings'}]
  /\ \/ file' = req[c].value /\ Goto(c, "assign") /\ UNCHANGED writer
     \/ file' = Empty /\ Fail(c)
  /\ UNCHANGED <<up, req, torn>>

\* The write of a whole file, or an error: nothing or a part of it was
\* written, or all of it and the close failed.
UpdateWrite(c) ==
  /\ pc[c] = "write"
  /\ \/ file' = req[c].value /\ Goto(c, "assign") /\ UNCHANGED writer
     \/ file' \in {Empty, Garbled, req[c].value} /\ Fail(c)
  /\ UNCHANGED <<up, settings, req, torn, since>>

UpdateAssign(c) ==
  /\ pc[c] = "assign"
  /\ settings' = req[c].value
  /\ since' = [d \in Calls |-> IF d = c THEN {settings'} ELSE since[d] \cup {settings'}]
  /\ torn' = FALSE
  /\ writer' = Nil
  /\ Goto(c, "reread")
  /\ UNCHANGED <<up, file, req>>

\* Faulty variant: the value is read without the lock, from the file.
Read_File(c) ==
  /\ pc[c] \in {"get", "reread"}
  /\ file \in Values
  /\ req' = [req EXCEPT ![c].answer = file]
  /\ Goto(c, "ok")
  /\ UNCHANGED <<up, settings, file, writer, torn, since>>

\* RefreshTokenExtendOnRefresh.  UpdateAuthSettings answers with the value it
\* finds after its own unlock, which may be another call's.
Read(c) ==
  /\ pc[c] \in {"get", "reread"}
  /\ writer = Nil
  /\ req' = [req EXCEPT ![c].answer = settings]
  /\ Goto(c, "ok")
  /\ UNCHANGED <<up, settings, file, writer, torn, since>>

Return(c) ==
  /\ pc[c] \in {"ok", "failed"}
  /\ Goto(c, "idle")
  /\ req' = [req EXCEPT ![c] = NoRequest]
  /\ since' = [since EXCEPT ![c] = {}]
  /\ UNCHANGED <<up, settings, file, writer, torn>>

-----------------------------------------------------------------------------
\* The steps that wait for the lock, and those that never wait.
Acquire(c) == UpdateLock(c) \/ Read(c)

Proceed(c) == UpdateOpen(c) \/ UpdateWrite(c) \/ UpdateAssign(c) \/ Return(c)

Next ==
  \/ Load \/ LoadFails \/ Repair \/ Crash
  \/ \E c \in Calls :
       \/ \E roles \in {{"admin"}, {"user"}} :
            \/ StartGet(c, roles)
            \/ \E v \in Values : StartUpdate(c, roles, v)
       \/ Acquire(c)
       \/ Proceed(c)

Spec == Init /\ [][Next]_vars

\* sync.RWMutex starves neither readers nor writers: a waiting writer keeps
\* new readers out, and readers that waited for a writer go before the next.
FairSpec ==
  Spec /\ \A c \in Calls : SF_vars(Acquire(c)) /\ WF_vars(Proceed(c))
-----------------------------------------------------------------------------
(* Properties. *)

\* Whenever no update is under way and none has failed since the last that
\* succeeded, the file says what is in force, although calls replace both at
\* the same time (SetRefreshTokenExtendOnRefresh holds the lock for both).  So
\* a restart at such a moment puts the same value into force again.
FileInStep == TypeOK /\ (~torn => Parsed(file) = settings)

\* Memory follows the file: a value comes into force only once it has been
\* written, so no write that fails can take effect.
WrittenFirst ==
  [][(up /\ settings' # settings) => file = settings']_vars

\* GetAuthSettings answers a value that was in force during the call, and
\* UpdateAuthSettings its own or one put into force after it, never an older.
AnswerInForce ==
  \A c \in Calls : pc[c] = "ok" => req[c].answer \in since[c]

\* The lock is held by a call that will release it, during file I/O and on
\* every error exit: each read and each update is answered unless the
\* process dies.
EveryCallAnswered ==
  \A c \in Calls :
    pc[c] \in {"lock", "get", "reread"} ~> (pc[c] \in {"ok", "failed"} \/ ~up)
=============================================================================
