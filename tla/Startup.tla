------------------------------- MODULE Startup -------------------------------
(***************************************************************************)
(* From the start of an authd process until it serves: main (main.go) goes *)
(* through Load, LoadSettings, Open with its migration, New,               *)
(* EnsureBootstrapAdmin and NewServer, and leaves files behind on the way: *)
(* a process may die between any two steps, an operator may edit authd.toml *)
(* between two starts, and two processes may start at once.                *)
(*                                                                         *)
(* Each statement on the database is atomic (UserStore) and NewServer is   *)
(* one step (ServerLifecycle).  Once a process serves, its users may be    *)
(* changed by administrators as UserAdmin says, and the settings file as   *)
(* SettingsStore says: it is truncated and then written in place, by a     *)
(* start that found none as well.                                          *)
(***************************************************************************)
EXTENDS Config, FiniteSets, Roles

CONSTANTS
  Procs,      \* processes
  Documents,  \* what operators put in authd.toml
  Usernames,  \* well-formed usernames; any other does not pass ValidateUsername
  MaxEdits,   \* bound on what operators do to authd.toml and to the settings
  MaxFaults,  \* bound on crashes and on failures of the system below
  MaxChanges, \* bound on what administrators do
  Empty,      \* of the settings file: truncated
  Garbled,    \* of the settings file: no TOML
  None

ASSUME ConstantsAssumption ==
  /\ Documents \subseteq Document
  /\ "blank" \notin Usernames
  /\ \A roles \in SUBSET RoleNames : roles # None
  /\ Cardinality({None, Empty, Garbled}) = 3
  /\ {None, Empty, Garbled} \cap BOOLEAN = {}
  /\ MaxEdits \in Nat /\ MaxFaults \in Nat /\ MaxChanges \in Nat

VARIABLES
  document,  \* authd.toml; None when it is missing or no TOML
  settings,  \* authd-settings.toml; None when it is missing
  writing,   \* what a process is to write to it, having truncated it
  tables,    \* the tables that have been created
  users,     \* the roles of each user, None where there is no such user
  granted,   \* who has been an administrator
  pc,        \* where each process is
  cfg,       \* what it has loaded
  edits, faults, changes,
  \* History, read by the properties only:
  early      \* the starts that are to create what was not there when they looked

vars == <<document, settings, writing, tables, users, granted, pc, cfg, edits,
          faults, changes, early>>

Points == {"off", "settings", "open", "write", "users", "user_roles", "new",
           "check", "count", "create", "listen", "serving"}

TypeOK ==
  /\ document \in Documents \cup {None}
  /\ settings \in BOOLEAN \cup {None, Empty, Garbled}
  /\ writing \in [Procs -> BOOLEAN \cup {None}]
  /\ tables \subseteq {"users", "user_roles"}
  /\ users \in [Usernames -> (SUBSET RoleNames) \cup {None}]
  /\ granted \subseteq Usernames
  /\ pc \in [Procs -> Points]
  /\ cfg \in [Procs -> Documents \cup {None}]
  /\ edits \in 0..MaxEdits /\ faults \in 0..MaxFaults /\ changes \in 0..MaxChanges
  /\ early \subseteq Procs

IsAdmin(roles) == roles # None /\ "admin" \in roles

Accounts == {name \in Usernames : users[name] # None}

Init ==
  /\ document \in Documents \cup {None}
  /\ settings = None
  /\ writing = [p \in Procs |-> None]
  /\ tables = {}
  /\ users = [name \in Usernames |-> None]
  /\ granted = {}
  /\ pc = [p \in Procs |-> "off"]
  /\ cfg = [p \in Procs |-> None]
  /\ edits = 0 /\ faults = 0 /\ changes = 0
  /\ early = {}

-----------------------------------------------------------------------------
\* From one point to the next, or out through log.Fatal.
Advance(p, from, passes, to) ==
  /\ pc[p] = from
  /\ pc' = [pc EXCEPT ![p] = IF passes THEN to ELSE "off"]

\* A Load that fails leaves everything as it was.
Load(p) ==
  /\ document # None
  /\ Loads(document)
  /\ Advance(p, "off", TRUE, "settings")
  /\ cfg' = [cfg EXCEPT ![p] = document]
  /\ UNCHANGED <<document, settings, writing, tables, users, granted, edits, faults,
                 changes, early>>

\* Faulty variant: the error of the read is not looked at.
Missing_Always(file) == TRUE

Missing(file) == file = None

\* LoadSettings: the file is read, or found to be missing.  An illegible one
\* keeps the process from starting; an empty one leaves the defaults.
ReadSettings(p) ==
  /\ Advance(p, "settings", settings # Garbled,
             IF Missing(settings) THEN "open" ELSE "users")
  /\ early' = IF settings = None THEN early \cup {p} ELSE early
  /\ UNCHANGED <<document, settings, writing, tables, users, granted, cfg, edits,
                 faults, changes>>

\* The file that was missing is created from [default_setting]: os.WriteFile
\* truncates whatever is there by now.
CreateSettings(p) ==
  /\ Advance(p, "open", TRUE, "write")
  /\ settings' = Empty
  /\ writing' = [writing EXCEPT ![p] = cfg[p].defaultSetting]
  /\ UNCHANGED <<document, tables, users, granted, cfg, edits, faults, changes, early>>

\* The rest of os.WriteFile, for a start or for an update.
WriteSettings(p) ==
  /\ writing[p] # None
  /\ settings' = writing[p]
  /\ writing' = [writing EXCEPT ![p] = None]
  /\ pc' = [pc EXCEPT ![p] = IF @ = "write" THEN "users" ELSE @]
  /\ early' = early \ {p}
  /\ UNCHANGED <<document, tables, users, granted, cfg, edits, faults, changes>>

\* Faulty variant: CREATE TABLE, and an error if there is one.
Creates_New(table) == table \notin tables

Creates(table) == TRUE

\* Open: migrate, statement by statement
Migrate(p, table, to) ==
  /\ Advance(p, table, Creates(table), to)
  /\ tables' = tables \cup {table}
  /\ UNCHANGED <<document, settings, writing, users, granted, cfg, edits, faults,
                 changes, early>>

New(p) ==
  /\ Advance(p, "new", cfg[p].signingKey # "blank", "check")
  /\ UNCHANGED <<document, settings, writing, tables, users, granted, cfg, edits,
                 faults, changes, early>>

\* EnsureBootstrapAdmin checks the account on every start, its roles only
\* when it is to be created.
Skips(doc) == "blank" \in {doc.username, doc.password}

WellFormed(doc) ==
  doc.username \in Usernames /\ doc.displayName = "ok" /\ doc.password = "ok"

CheckBootstrap(p) ==
  /\ Advance(p, "check", Skips(cfg[p]) \/ WellFormed(cfg[p]),
             IF Skips(cfg[p]) THEN "listen" ELSE "count")
  /\ UNCHANGED <<document, settings, writing, tables, users, granted, cfg, edits,
                 faults, changes, early>>

RolesOf(doc) == {doc.roles[i] : i \in DOMAIN doc.roles}

\* normalizeRoleNames
Defined(roles) == roles \subseteq RoleNames

Complete(p) == Accounts # {}

CountUsers(p) ==
  /\ Advance(p, "count", Complete(p) \/ Defined(RolesOf(cfg[p])),
             IF Complete(p) THEN "listen" ELSE "create")
  /\ early' = IF Accounts = {} /\ pc'[p] = "create" THEN early \cup {p} ELSE early
  /\ UNCHANGED <<document, settings, writing, tables, users, granted, cfg, edits,
                 faults, changes>>

\* CreateUser; usernames are unique.
CreateBootstrap(p) ==
  LET name == cfg[p].username
      roles == RolesOf(cfg[p])
  IN
  /\ Advance(p, "create", users[name] = None, "listen")
  /\ \/ /\ users[name] = None
        /\ users' = [users EXCEPT ![name] = roles]
        /\ granted' = IF IsAdmin(roles) THEN granted \cup {name} ELSE granted
     \/ users[name] # None /\ UNCHANGED <<users, granted>>
  /\ early' = early \ {p}
  /\ UNCHANGED <<document, settings, writing, tables, cfg, edits, faults, changes>>

\* Good addresses are one address, which another process may hold.
Held(p) == \E q \in Procs \ {p} : pc[q] = "serving" /\ cfg[q].listen # "blank"

\* NewServer.  A socket path is taken over from whoever holds it.
Listen(p) ==
  /\ Advance(p, "listen", cfg[p].listen = "blank" \/ ~Held(p), "serving")
  /\ UNCHANGED <<document, settings, writing, tables, users, granted, cfg, edits,
                 faults, changes, early>>

-----------------------------------------------------------------------------
(* While a process serves. *)

\* CreateUser, UpdateUser or DeleteUser of an administrator.  The checks are
\* made before the change, so the caller may be none any more (UserAdmin).
Administer(p, by, name, roles) ==
  /\ pc[p] = "serving"
  /\ by # name
  /\ by \in granted
  /\ changes < MaxChanges   \* bound
  /\ changes' = changes + 1
  /\ users' = [users EXCEPT ![name] = roles]
  /\ granted' = IF IsAdmin(roles) THEN granted \cup {name} ELSE granted
  /\ UNCHANGED <<document, settings, writing, tables, pc, cfg, edits, faults, early>>

\* UpdateAuthSettings, one at a time: the file is truncated.
UpdateSettings(p, by, value) ==
  /\ pc[p] = "serving"
  /\ by \in granted
  /\ writing[p] = None
  /\ changes < MaxChanges   \* bound
  /\ changes' = changes + 1
  /\ settings' = Empty
  /\ writing' = [writing EXCEPT ![p] = value]
  /\ UNCHANGED <<document, tables, users, granted, pc, cfg, edits, faults, early>>

-----------------------------------------------------------------------------
(* Outside the program. *)

\* What a write that was cut short leaves: nothing, a part or all of it written.
CutShort(p) ==
  /\ settings' \in IF writing[p] = None THEN {settings} ELSE {settings, Garbled, writing[p]}
  /\ writing' = [writing EXCEPT ![p] = None]

\* A crash, or a failure below that ends a start: a file or the database cannot
\* be written or is locked for too long.
Die(p) ==
  /\ pc[p] # "off"
  /\ faults < MaxFaults   \* bound
  /\ faults' = faults + 1
  /\ pc' = [pc EXCEPT ![p] = "off"]
  /\ CutShort(p)
  /\ early' = early \ {p}
  /\ UNCHANGED <<document, tables, users, granted, cfg, edits, changes>>

\* The write of an update fails, and the process goes on.
UpdateFails(p) ==
  /\ pc[p] = "serving"
  /\ writing[p] # None
  /\ faults < MaxFaults   \* bound
  /\ faults' = faults + 1
  /\ CutShort(p)
  /\ UNCHANGED <<document, tables, users, granted, pc, cfg, edits, changes, early>>

Edit(doc) ==
  /\ edits < MaxEdits   \* bound
  /\ edits' = edits + 1
  /\ document' = doc
  /\ UNCHANGED <<settings, writing, tables, users, granted, pc, cfg, faults, changes, early>>

\* Nothing but an operator gets an illegible settings file out of the way.
Repair ==
  /\ settings = Garbled
  /\ edits < MaxEdits   \* bound
  /\ edits' = edits + 1
  /\ settings' \in BOOLEAN \cup {None}
  /\ UNCHANGED <<document, writing, tables, users, granted, pc, cfg, faults, changes, early>>

Start(p) ==
  \/ Load(p) \/ ReadSettings(p) \/ CreateSettings(p) \/ WriteSettings(p)
  \/ Migrate(p, "users", "user_roles") \/ Migrate(p, "user_roles", "new")
  \/ New(p) \/ CheckBootstrap(p) \/ CountUsers(p) \/ CreateBootstrap(p) \/ Listen(p)

Next ==
  \/ \E p \in Procs : Start(p) \/ Die(p) \/ UpdateFails(p)
  \/ \E p \in Procs, by \in Usernames :
       \/ \E name \in Usernames, roles \in (SUBSET RoleNames) \cup {None} :
            Administer(p, by, name, roles)
       \/ \E value \in BOOLEAN : UpdateSettings(p, by, value)
  \/ \E doc \in Documents : Edit(doc)
  \/ Repair

Spec == Init /\ [][Next]_vars

\* systemd starts a process that failed again, and a process runs.
FairSpec == Spec /\ \A p \in Procs : WF_vars(Start(p))
-----------------------------------------------------------------------------
(* Properties. *)

Serving(p) == pc[p] = "serving"

\* What a process serves with is what the other modules assume of the
\* configuration, whatever has become of the file since; and there is a user,
\* although two starts may race for the first one and starts before have died
\* anywhere.  (One change of an administrator cannot empty the table, two can:
\* they remove each other between the count and the listeners of a start.)
ServesWhatIsAssumed ==
  /\ TypeOK
  /\ \A p \in Procs :
       Serving(p) =>
         /\ cfg[p].accessTTL >= Second              \* AccessTokens
         /\ cfg[p].refreshTTL >= cfg[p].accessTTL   \* RefreshSessions
         /\ cfg[p].maxUsers > 0                     \* UserAdmin
         /\ {cfg[p].listen, cfg[p].socket} # {"blank"}   \* ServerLifecycle
         /\ tables = {"users", "user_roles"}        \* UserStore
  /\ \A p \in Procs : pc[p] = "listen" /\ changes <= 1 => Accounts # {}

\* No step of a start, a crash or a write that fails takes away or changes an
\* account.  And only a start that found no user when it looked adds one, so that
\* one appears beside another only if that was created since the look; only a
\* start that found no settings file, and the end of an update under way, change
\* one that is there.  (The look and the creation are apart, so such a start may
\* overwrite what another has created and what an administrator has set since.)
StartsChangeNothing ==
  [][changes' = changes /\ edits' = edits =>
       /\ \A name \in Accounts : users'[name] = users[name]
       /\ Accounts # {} /\ (\A p \in early : pc[p] # "create") => users' = users
       /\ /\ settings # None
          /\ \A p \in early : pc[p] = "create"
          /\ \A p \in Procs : Serving(p) => writing[p] = None
          => settings' = settings]_vars

Right(doc) ==
  /\ Loads(doc)
  /\ WellFormed(doc)
  /\ Defined(RolesOf(doc))

\* Another process serves at the address of the document.
Blocked(p) == document # None /\ document.listen # "blank" /\ Held(p)

\* Once the document is right for good, the settings file legible and nothing
\* below fails any more, every process comes to serve or finds the address held
\* by another, whatever else the starts that died before have left: half of a
\* migration, a user without a server, a truncated settings file.  (A settings
\* file cut off in the middle keeps every start from serving until an operator
\* replaces it.)
RightDocumentServes ==
  \A p \in Procs :
    <>[](document # None /\ Right(document) /\ settings # Garbled)
      => []<>(Serving(p) \/ Blocked(p))
=============================================================================
