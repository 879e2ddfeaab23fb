---------------------------- MODULE StartupProofs ----------------------------
(***************************************************************************)
(* Proofs about Startup, for any processes, documents and usernames, and   *)
(* any number of edits, faults and changes.                                *)
(***************************************************************************)
EXTENDS Startup, TLAPS

\* Before the database is opened.
Early == {"off", "settings", "open", "write", "users"}

\* What a process has behind it at each point: it has loaded a document that
\* Load accepts, its bootstrap account passed the checks where it is to be
\* created, and each table it migrated is there.  It is about to create only
\* what it has not found, and writes the settings only as a start or while it
\* serves.
BehindOK(p) ==
  /\ pc[p] # "off" => cfg[p] \in Documents /\ Loads(cfg[p])
  /\ pc[p] \in {"count", "create"} => WellFormed(cfg[p])
  /\ pc[p] = "create" => Defined(RolesOf(cfg[p]))
  /\ pc[p] \notin Early => "users" \in tables
  /\ pc[p] \notin Early \cup {"user_roles"} => "user_roles" \in tables
  /\ pc[p] \in {"open", "write", "create"} => p \in early
  /\ writing[p] # None => pc[p] \in {"write", "serving"}

\* As long as nobody has changed anything, whoever was an administrator has an
\* account.  So the first change leaves at least the account of its caller.
GrantedOK == changes = 0 => granted \subseteq Accounts

AccountsOK == \A p \in Procs : pc[p] = "listen" /\ changes <= 1 => Accounts # {}

StartupInv ==
  /\ TypeOK
  /\ \A p \in Procs : BehindOK(p)
  /\ GrantedOK
  /\ AccountsOK

LEMMA StartupInit == Init => StartupInv
<1> SUFFICES ASSUME Init PROVE StartupInv
  OBVIOUS
<1>1. TypeOK
  BY ConstantsAssumption DEF Init, TypeOK, Points
<1>2. \A p \in Procs : BehindOK(p)
  BY DEF Init, BehindOK, Early
<1>3. GrantedOK /\ AccountsOK
  BY DEF Init, GrantedOK, AccountsOK
<1> QED BY <1>1, <1>2, <1>3 DEF StartupInv

-----------------------------------------------------------------------------
(* The steps of a start. *)

LEMMA DocumentFields ==
  ASSUME NEW doc \in Documents
  PROVE  doc.defaultSetting \in BOOLEAN /\ doc.maxUsers \in Nat
BY ConstantsAssumption DEF Document

\* What Load has checked for the modules that take it for granted.
LEMMA LoadedFields ==
  ASSUME NEW doc \in Documents, Loads(doc)
  PROVE  /\ doc.accessTTL >= Second
         /\ doc.refreshTTL >= doc.accessTTL
         /\ doc.maxUsers > 0
         /\ {doc.listen, doc.socket} # {"blank"}
         /\ ~Skips(doc)
<1>1. ValidAuth(doc) /\ ValidServer(doc)
  BY DEF Loads
<1>2. doc.maxUsers > 0
  BY <1>1, DocumentFields DEF ValidAuth
<1>3. ~Skips(doc)
  BY <1>1 DEF ValidAuth, Skips
<1>4. {doc.listen, doc.socket} # {"blank"}
  BY <1>1 DEF ValidServer
<1> QED BY <1>1, <1>2, <1>3, <1>4 DEF ValidAuth

LEMMA Advances ==
  ASSUME TypeOK, NEW p \in Procs, NEW from, NEW passes, NEW to \in Points,
         Advance(p, from, passes, to)
  PROVE  /\ pc[p] = from
         /\ pc' \in [Procs -> Points]
         /\ pc'[p] = IF passes THEN to ELSE "off"
         /\ \A q \in Procs \ {p} : pc'[q] = pc[q]
BY DEF Advance, TypeOK, Points

\* What a step of the start of p does to the rest of the system: it takes no
\* account away, makes an administrator only of a user who has one, and gets to
\* the listeners only when there is one.
Steps(p) ==
  /\ TypeOK'
  /\ BehindOK(p)'
  /\ \A q \in Procs \ {p} :
       /\ pc'[q] = pc[q] /\ cfg'[q] = cfg[q] /\ writing'[q] = writing[q]
       /\ q \in early => q \in early'
  /\ tables \subseteq tables'
  /\ changes' = changes
  /\ Accounts \subseteq Accounts'
  /\ granted' \subseteq granted \cup Accounts'
  /\ pc'[p] = "listen" => Accounts' # {}

LEMMA LoadSteps ==
  ASSUME StartupInv, NEW p \in Procs, Load(p)
  PROVE  Steps(p)
<1> USE DEF StartupInv
<1>1. pc[p] = "off" /\ pc'[p] = "settings" /\ pc' \in [Procs -> Points]
  BY Advances DEF Load, Points
<1>2. \A q \in Procs \ {p} : pc'[q] = pc[q] /\ cfg'[q] = cfg[q]
  BY Advances DEF Load, Points, TypeOK
<1>3. document \in Documents /\ Loads(document)
  BY DEF Load, TypeOK
<1>4. cfg'[p] = document
  BY DEF Load, TypeOK
<1>5. TypeOK'
  BY <1>1, <1>3 DEF Load, TypeOK
<1>6. BehindOK(p)'
  BY <1>1, <1>3, <1>4 DEF Load, BehindOK, Early
<1>7. UNCHANGED <<writing, tables, changes, users, granted, early>>
  BY DEF Load
<1>8. Accounts' = Accounts
  BY <1>7 DEF Accounts
<1> QED BY <1>1, <1>2, <1>5, <1>6, <1>7, <1>8 DEF Steps

LEMMA ReadSettingsSteps ==
  ASSUME StartupInv, NEW p \in Procs, ReadSettings(p)
  PROVE  Steps(p)
<1> USE DEF StartupInv
<1>1. /\ pc[p] = "settings" /\ pc' \in [Procs -> Points]
      /\ pc'[p] = IF settings = Garbled THEN "off"
                   ELSE IF settings = None THEN "open" ELSE "users"
      /\ \A q \in Procs \ {p} : pc'[q] = pc[q]
  BY Advances DEF ReadSettings, Missing, Points
<1>2. UNCHANGED <<document, settings, writing, tables, users, granted, cfg, edits,
                 faults, changes>>
  BY DEF ReadSettings
<1>3. early' = IF settings = None THEN early \cup {p} ELSE early
  BY DEF ReadSettings
<1>4. TypeOK'
  BY <1>1, <1>2, <1>3 DEF TypeOK
<1>5. BehindOK(p)'
  BY <1>1, <1>2, <1>3 DEF BehindOK, Early
<1>6. Accounts' = Accounts
  BY <1>2 DEF Accounts
<1> QED BY <1>1, <1>2, <1>3, <1>4, <1>5, <1>6 DEF Steps

LEMMA CreateSettingsSteps ==
  ASSUME StartupInv, NEW p \in Procs, CreateSettings(p)
  PROVE  Steps(p)
<1> USE DEF StartupInv
<1>1. /\ pc[p] = "open" /\ pc'[p] = "write" /\ pc' \in [Procs -> Points]
      /\ \A q \in Procs \ {p} : pc'[q] = pc[q]
  BY Advances DEF CreateSettings, Points
<1>2. cfg[p] \in Documents /\ cfg[p].defaultSetting \in BOOLEAN
  BY <1>1, DocumentFields DEF BehindOK
<1>3. /\ settings' = Empty
      /\ writing' = [writing EXCEPT ![p] = cfg[p].defaultSetting]
      /\ UNCHANGED <<document, tables, users, granted, cfg, edits, faults, changes, early>>
  BY DEF CreateSettings
<1>4. /\ writing' \in [Procs -> BOOLEAN \cup {None}]
      /\ \A q \in Procs \ {p} : writing'[q] = writing[q]
  BY <1>2, <1>3 DEF TypeOK
<1>5. TypeOK'
  BY <1>1, <1>3, <1>4 DEF TypeOK
<1>6. BehindOK(p)'
  BY <1>1, <1>3 DEF BehindOK, Early
<1>7. Accounts' = Accounts
  BY <1>3 DEF Accounts
<1> QED BY <1>1, <1>3, <1>4, <1>5, <1>6, <1>7 DEF Steps

LEMMA WriteSettingsSteps ==
  ASSUME StartupInv, NEW p \in Procs, WriteSettings(p)
  PROVE  Steps(p)
<1> USE DEF StartupInv
<1>1. writing[p] # None /\ writing[p] \in BOOLEAN /\ pc[p] \in {"write", "serving"}
  BY DEF WriteSettings, BehindOK, TypeOK
<1>2. /\ settings' = writing[p]
      /\ writing' = [writing EXCEPT ![p] = None]
      /\ early' = early \ {p}
      /\ UNCHANGED <<document, tables, users, granted, cfg, edits, faults, changes>>
  BY DEF WriteSettings
<1>3. /\ pc' \in [Procs -> Points]
      /\ pc'[p] = IF pc[p] = "write" THEN "users" ELSE pc[p]
      /\ \A q \in Procs \ {p} : pc'[q] = pc[q]
  BY DEF WriteSettings, TypeOK, Points
<1>4. /\ writing' \in [Procs -> BOOLEAN \cup {None}] /\ writing'[p] = None
      /\ \A q \in Procs \ {p} : writing'[q] = writing[q]
  BY <1>2 DEF TypeOK
<1>5. TypeOK'
  BY <1>1, <1>2, <1>3, <1>4 DEF TypeOK
<1>6. BehindOK(p)'
  BY <1>1, <1>2, <1>3, <1>4 DEF BehindOK, Early
<1>7. Accounts' = Accounts
  BY <1>2 DEF Accounts
<1> QED BY <1>1, <1>2, <1>3, <1>4, <1>5, <1>6, <1>7 DEF Steps

LEMMA MigrateSteps ==
  ASSUME StartupInv, NEW p \in Procs, NEW table, NEW to,
         \/ table = "users" /\ to = "user_roles"
         \/ table = "user_roles" /\ to = "new",
         Migrate(p, table, to)
  PROVE  Steps(p)
<1> USE DEF StartupInv
<1>1. Advance(p, table, TRUE, to) /\ to \in Points
  BY DEF Migrate, Creates, Points
<1>2. /\ pc[p] = table /\ pc'[p] = to /\ pc' \in [Procs -> Points]
      /\ \A q \in Procs \ {p} : pc'[q] = pc[q]
  BY <1>1, Advances
<1>3. tables' = tables \cup {table}
  BY DEF Migrate
<1>4. UNCHANGED <<document, settings, writing, users, granted, cfg, edits, faults,
                 changes, early>>
  BY DEF Migrate
<1>5. TypeOK'
  BY <1>1, <1>2, <1>3, <1>4 DEF TypeOK
<1>6. BehindOK(p)'
  BY <1>1, <1>2, <1>3, <1>4 DEF BehindOK, Early
<1>7. Accounts' = Accounts
  BY <1>4 DEF Accounts
<1> QED BY <1>1, <1>2, <1>3, <1>4, <1>5, <1>6, <1>7 DEF Steps

LEMMA NewSteps ==
  ASSUME StartupInv, NEW p \in Procs, New(p)
  PROVE  Steps(p)
<1> USE DEF StartupInv
<1>1. /\ pc[p] = "new" /\ pc'[p] \in {"check", "off"} /\ pc' \in [Procs -> Points]
      /\ \A q \in Procs \ {p} : pc'[q] = pc[q]
  BY Advances DEF New, Points
<1>2. UNCHANGED <<document, settings, writing, tables, users, granted, cfg, edits,
                 faults, changes, early>>
  BY DEF New
<1>3. TypeOK'
  BY <1>1, <1>2 DEF TypeOK
<1>4. BehindOK(p)'
  BY <1>1, <1>2 DEF BehindOK, Early
<1>5. Accounts' = Accounts
  BY <1>2 DEF Accounts
<1> QED BY <1>1, <1>2, <1>3, <1>4, <1>5 DEF Steps

\* A document that loads names a bootstrap account, so the start does not skip
\* it.
LEMMA CheckBootstrapSteps ==
  ASSUME StartupInv, NEW p \in Procs, CheckBootstrap(p)
  PROVE  Steps(p)
<1> USE DEF StartupInv
<1>1. pc[p] = "check"
  BY DEF CheckBootstrap, Advance
<1>2. cfg[p] \in Documents /\ Loads(cfg[p])
  BY <1>1 DEF BehindOK, Early
<1>3. ~Skips(cfg[p])
  BY <1>2, LoadedFields
<1>4. Advance(p, "check", WellFormed(cfg[p]), "count")
  BY <1>3 DEF CheckBootstrap, Advance
<1>5. /\ pc'[p] = IF WellFormed(cfg[p]) THEN "count" ELSE "off"
      /\ pc' \in [Procs -> Points]
      /\ \A q \in Procs \ {p} : pc'[q] = pc[q]
  BY <1>4, Advances DEF Points
<1>6. UNCHANGED <<document, settings, writing, tables, users, granted, cfg, edits,
                 faults, changes, early>>
  BY DEF CheckBootstrap
<1>7. TypeOK'
  BY <1>5, <1>6 DEF TypeOK
<1>8. UNCHANGED <<WellFormed(cfg[p]), Loads(cfg[p])>>
  BY <1>6 DEF WellFormed, Loads, Decodes, ValidServer, ValidStorage, ValidAuth
<1>9. BehindOK(p)'
  BY <1>1, <1>2, <1>5, <1>6, <1>8 DEF BehindOK, Early
<1>10. Accounts' = Accounts
  BY <1>6 DEF Accounts
<1> QED BY <1>5, <1>6, <1>7, <1>9, <1>10 DEF Steps

LEMMA CountUsersSteps ==
  ASSUME StartupInv, NEW p \in Procs, CountUsers(p)
  PROVE  Steps(p)
<1> USE DEF StartupInv
<1>1. /\ pc[p] = "count" /\ pc' \in [Procs -> Points]
      /\ pc'[p] = IF Complete(p) THEN "listen"
                   ELSE IF Defined(RolesOf(cfg[p])) THEN "create" ELSE "off"
      /\ \A q \in Procs \ {p} : pc'[q] = pc[q]
  BY Advances DEF CountUsers, Points
<1>2. UNCHANGED <<document, settings, writing, tables, users, granted, cfg, edits,
                 faults, changes>>
  BY DEF CountUsers
<1>3. /\ early \subseteq early' /\ early' \subseteq Procs
      /\ pc'[p] = "create" => p \in early'
  BY <1>1 DEF CountUsers, Complete, TypeOK
<1>4. TypeOK'
  BY <1>1, <1>2, <1>3 DEF TypeOK
<1>5. BehindOK(p)'
  BY <1>1, <1>2, <1>3 DEF BehindOK, Early
<1>6. Accounts' = Accounts
  BY <1>2 DEF Accounts
<1>7. pc'[p] = "listen" => Accounts' # {}
  BY <1>1, <1>6 DEF Complete
<1> QED BY <1>1, <1>2, <1>3, <1>4, <1>5, <1>6, <1>7 DEF Steps

LEMMA CreateBootstrapSteps ==
  ASSUME StartupInv, NEW p \in Procs, CreateBootstrap(p)
  PROVE  Steps(p)
<1> USE DEF StartupInv
<1> DEFINE name == cfg[p].username
           roles == RolesOf(cfg[p])
<1>1. /\ pc[p] = "create" /\ pc' \in [Procs -> Points]
      /\ pc'[p] = IF users[name] = None THEN "listen" ELSE "off"
      /\ \A q \in Procs \ {p} : pc'[q] = pc[q]
  BY Advances DEF CreateBootstrap, Points
<1>2. name \in Usernames /\ roles \in SUBSET RoleNames
  BY <1>1 DEF BehindOK, WellFormed, Defined
<1>3. /\ UNCHANGED <<document, settings, writing, tables, cfg, edits, faults, changes>>
      /\ early' = early \ {p}
  BY DEF CreateBootstrap
<1>4. roles # None
  BY <1>2, ConstantsAssumption
<1>5. /\ users' \in [Usernames -> (SUBSET RoleNames) \cup {None}]
      /\ Accounts \subseteq Accounts'
      /\ granted' \subseteq granted \cup Accounts'
      /\ granted' \subseteq Usernames
      /\ users[name] = None => name \in Accounts'
  <2> HIDE DEF name, roles
  <2>0. \/ users[name] = None /\ users' = [users EXCEPT ![name] = roles]
           /\ granted' = IF IsAdmin(roles) THEN granted \cup {name} ELSE granted
        \/ users[name] # None /\ UNCHANGED <<users, granted>>
    BY DEF CreateBootstrap, name, roles
  <2>1. CASE users[name] # None
    BY <2>0, <2>1 DEF TypeOK, Accounts
  <2>2. CASE users[name] = None
    <3>1. name \in Accounts'
      BY <1>2, <1>4, <2>0, <2>2 DEF TypeOK, Accounts
    <3>2. Accounts \subseteq Accounts'
      BY <1>2, <1>4, <2>0, <2>2 DEF TypeOK, Accounts
    <3> QED BY <1>2, <2>0, <2>2, <3>1, <3>2 DEF TypeOK
  <2> QED BY <2>1, <2>2
<1>6. TypeOK'
  BY <1>1, <1>3, <1>5 DEF TypeOK
<1>7. BehindOK(p)'
  BY <1>1, <1>3 DEF BehindOK, Early
<1> HIDE DEF name, roles
<1> QED BY <1>1, <1>3, <1>5, <1>6, <1>7 DEF Steps

LEMMA ListenSteps ==
  ASSUME StartupInv, NEW p \in Procs, Listen(p)
  PROVE  Steps(p)
<1> USE DEF StartupInv
<1>1. /\ pc[p] = "listen" /\ pc'[p] \in {"serving", "off"} /\ pc' \in [Procs -> Points]
      /\ \A q \in Procs \ {p} : pc'[q] = pc[q]
  BY Advances DEF Listen, Points
<1>2. UNCHANGED <<document, settings, writing, tables, users, granted, cfg, edits,
                 faults, changes, early>>
  BY DEF Listen
<1>3. TypeOK'
  BY <1>1, <1>2 DEF TypeOK
<1>4. BehindOK(p)'
  BY <1>1, <1>2 DEF BehindOK, Early
<1>5. Accounts' = Accounts
  BY <1>2 DEF Accounts
<1> QED BY <1>1, <1>2, <1>3, <1>4, <1>5 DEF Steps

LEMMA StartSteps ==
  ASSUME StartupInv, NEW p \in Procs, Start(p)
  PROVE  Steps(p)
BY LoadSteps, ReadSettingsSteps, CreateSettingsSteps, WriteSettingsSteps, MigrateSteps, NewSteps, CheckBootstrapSteps,
   CountUsersSteps, CreateBootstrapSteps, ListenSteps DEF Start

-----------------------------------------------------------------------------
(* The inductive invariant. *)

\* What a process has behind it is not undone by what happens around it.
LEMMA OthersBehind ==
  ASSUME NEW q \in Procs, BehindOK(q), pc'[q] = pc[q], cfg'[q] = cfg[q],
         writing'[q] = writing[q], q \in early => q \in early',
         tables \subseteq tables'
  PROVE  BehindOK(q)'
<1>1. UNCHANGED <<Loads(cfg[q]), WellFormed(cfg[q]), Defined(RolesOf(cfg[q]))>>
  BY DEF Loads, Decodes, ValidServer, ValidStorage, ValidAuth, WellFormed, Defined, RolesOf
<1> QED BY <1>1 DEF BehindOK, Early

LEMMA StartInv ==
  ASSUME StartupInv, NEW p \in Procs, Start(p)
  PROVE  StartupInv'
<1> USE DEF StartupInv
<1>1. Steps(p)
  BY StartSteps
<1>2. \A q \in Procs : BehindOK(q)'
  BY <1>1, OthersBehind DEF Steps
<1>3. GrantedOK'
  BY <1>1 DEF Steps, GrantedOK
<1>4. AccountsOK'
  BY <1>1 DEF Steps, AccountsOK
<1> QED BY <1>1, <1>2, <1>3, <1>4 DEF Steps

LEMMA AdministerInv ==
  ASSUME StartupInv, NEW p \in Procs, NEW by \in Usernames, NEW name \in Usernames,
         NEW roles \in (SUBSET RoleNames) \cup {None}, Administer(p, by, name, roles)
  PROVE  StartupInv'
<1> USE DEF StartupInv
<1>1. UNCHANGED <<document, settings, writing, tables, pc, cfg, edits, faults, early>>
  BY DEF Administer
<1>2. changes \in Nat /\ changes' = changes + 1 /\ changes' \in 0..MaxChanges
  BY ConstantsAssumption DEF Administer, TypeOK
<1>3. users' \in [Usernames -> (SUBSET RoleNames) \cup {None}] /\ granted' \subseteq Usernames
  BY DEF Administer, TypeOK
<1>4. TypeOK'
  BY <1>1, <1>2, <1>3 DEF TypeOK
<1>5. \A q \in Procs : BehindOK(q)'
  BY <1>1, OthersBehind
<1>6. GrantedOK'
  BY <1>2 DEF GrantedOK
<1>7. changes' <= 1 => by \in Accounts'
  <2> SUFFICES ASSUME changes' <= 1 PROVE by \in Accounts'
    OBVIOUS
  <2>1. by \in Accounts
    BY <1>2 DEF GrantedOK, Administer
  <2>2. users'[by] = users[by]
    BY DEF Administer, TypeOK
  <2> QED BY <2>1, <2>2 DEF Accounts
<1>8. AccountsOK'
  BY <1>7 DEF AccountsOK
<1> QED BY <1>4, <1>5, <1>6, <1>8

LEMMA UpdateSettingsInv ==
  ASSUME StartupInv, NEW p \in Procs, NEW by \in Usernames, NEW value \in BOOLEAN,
         UpdateSettings(p, by, value)
  PROVE  StartupInv'
<1> USE DEF StartupInv
<1>1. /\ pc[p] = "serving" /\ settings' = Empty
      /\ UNCHANGED <<document, tables, users, granted, pc, cfg, edits, faults, early>>
  BY DEF UpdateSettings
<1>2. changes \in Nat /\ changes' = changes + 1 /\ changes' \in 0..MaxChanges
  BY ConstantsAssumption DEF UpdateSettings, TypeOK
<1>3. /\ writing' \in [Procs -> BOOLEAN \cup {None}]
      /\ \A q \in Procs \ {p} : writing'[q] = writing[q]
  BY DEF UpdateSettings, TypeOK
<1>4. TypeOK'
  BY <1>1, <1>2, <1>3 DEF TypeOK
<1>5. BehindOK(p)'
  <2>1. cfg'[p] \in Documents /\ Loads(cfg'[p])
    BY <1>1 DEF BehindOK
  <2> QED BY <1>1, <2>1 DEF BehindOK, Early
<1>6. \A q \in Procs : BehindOK(q)'
  BY <1>1, <1>3, <1>5, OthersBehind
<1>7. Accounts' = Accounts
  BY <1>1 DEF Accounts
<1>8. GrantedOK' /\ AccountsOK'
  BY <1>1, <1>2, <1>7 DEF GrantedOK, AccountsOK
<1> QED BY <1>4, <1>6, <1>8

\* A write that is cut short leaves nothing that settings cannot be.
LEMMA CutShortOK ==
  ASSUME TypeOK, NEW p \in Procs, CutShort(p)
  PROVE  /\ settings' \in BOOLEAN \cup {None, Empty, Garbled}
         /\ writing' \in [Procs -> BOOLEAN \cup {None}] /\ writing'[p] = None
         /\ \A q \in Procs \ {p} : writing'[q] = writing[q]
         /\ writing[p] = None => settings' = settings
BY DEF CutShort, TypeOK

LEMMA DieInv ==
  ASSUME StartupInv, NEW p \in Procs, Die(p)
  PROVE  StartupInv'
<1> USE DEF StartupInv
<1>1. /\ UNCHANGED <<document, tables, users, granted, cfg, edits, changes>>
      /\ early' = early \ {p}
      /\ faults' = faults + 1 /\ faults' \in 0..MaxFaults
      /\ CutShort(p)
  BY ConstantsAssumption DEF Die, TypeOK
<1>2. /\ pc' \in [Procs -> Points] /\ pc'[p] = "off"
      /\ \A q \in Procs \ {p} : pc'[q] = pc[q]
  BY DEF Die, TypeOK, Points
<1>3. TypeOK'
  BY <1>1, <1>2, CutShortOK DEF TypeOK
<1>4. BehindOK(p)'
  BY <1>2, <1>1, CutShortOK DEF BehindOK, Early
<1>5. \A q \in Procs : BehindOK(q)'
  BY <1>1, <1>2, <1>4, CutShortOK, OthersBehind
<1>6. Accounts' = Accounts
  BY <1>1 DEF Accounts
<1>7. GrantedOK' /\ AccountsOK'
  BY <1>1, <1>2, <1>6 DEF GrantedOK, AccountsOK
<1> QED BY <1>3, <1>5, <1>7

LEMMA UpdateFailsInv ==
  ASSUME StartupInv, NEW p \in Procs, UpdateFails(p)
  PROVE  StartupInv'
<1> USE DEF StartupInv
<1>1. /\ UNCHANGED <<document, tables, users, granted, pc, cfg, edits, changes, early>>
      /\ pc[p] = "serving"
      /\ faults' = faults + 1 /\ faults' \in 0..MaxFaults
      /\ CutShort(p)
  BY ConstantsAssumption DEF UpdateFails, TypeOK
<1>2. TypeOK'
  BY <1>1, CutShortOK DEF TypeOK
<1>3. BehindOK(p)'
  <2>1. cfg'[p] \in Documents /\ Loads(cfg'[p])
    BY <1>1 DEF BehindOK
  <2> QED BY <1>1, <2>1 DEF BehindOK, Early
<1>4. \A q \in Procs : BehindOK(q)'
  BY <1>1, <1>3, CutShortOK, OthersBehind
<1>5. Accounts' = Accounts
  BY <1>1 DEF Accounts
<1>6. GrantedOK' /\ AccountsOK'
  BY <1>1, <1>5 DEF GrantedOK, AccountsOK
<1> QED BY <1>2, <1>4, <1>6

LEMMA EditInv ==
  ASSUME StartupInv, NEW doc \in Documents, Edit(doc)
  PROVE  StartupInv'
<1> USE DEF StartupInv
<1>1. UNCHANGED <<settings, writing, tables, users, granted, pc, cfg, faults, changes, early>>
  BY DEF Edit
<1>2. TypeOK'
  BY <1>1, ConstantsAssumption DEF Edit, TypeOK
<1>3. \A q \in Procs : BehindOK(q)'
  BY <1>1, OthersBehind
<1>4. Accounts' = Accounts
  BY <1>1 DEF Accounts
<1>5. GrantedOK' /\ AccountsOK'
  BY <1>1, <1>4 DEF GrantedOK, AccountsOK
<1> QED BY <1>2, <1>3, <1>5

LEMMA RepairInv ==
  ASSUME StartupInv, Repair
  PROVE  StartupInv'
<1> USE DEF StartupInv
<1>1. UNCHANGED <<document, writing, tables, users, granted, pc, cfg, faults, changes, early>>
  BY DEF Repair
<1>2. TypeOK'
  BY <1>1, ConstantsAssumption DEF Repair, TypeOK
<1>3. \A q \in Procs : BehindOK(q)'
  BY <1>1, OthersBehind
<1>4. Accounts' = Accounts
  BY <1>1 DEF Accounts
<1>5. GrantedOK' /\ AccountsOK'
  BY <1>1, <1>4 DEF GrantedOK, AccountsOK
<1> QED BY <1>2, <1>3, <1>5

LEMMA StutterInv == StartupInv /\ UNCHANGED vars => StartupInv'
<1> SUFFICES ASSUME StartupInv, UNCHANGED vars PROVE StartupInv'
  OBVIOUS
<1> USE DEF StartupInv
<1>1. TypeOK'
  BY DEF TypeOK, vars
<1>2. \A q \in Procs : BehindOK(q)'
  BY OthersBehind DEF vars
<1>3. Accounts' = Accounts
  BY DEF Accounts, vars
<1>4. GrantedOK' /\ AccountsOK'
  BY <1>3 DEF GrantedOK, AccountsOK, vars
<1> QED BY <1>1, <1>2, <1>4

LEMMA InvariantStep == StartupInv /\ [Next]_vars => StartupInv'
BY StartInv, AdministerInv, UpdateSettingsInv, DieInv, UpdateFailsInv, EditInv, RepairInv,
   StutterInv DEF Next

LEMMA Invariance == Spec => []StartupInv
BY StartupInit, InvariantStep, PTL DEF Spec

-----------------------------------------------------------------------------

\* A process that serves has a configuration, and a database, as the other
\* modules assume, and a start that comes to its listeners finds a user, whatever
\* the starts before it left behind and whoever starts beside it.
THEOREM ServesWhatIsAssumedHolds == Spec => []ServesWhatIsAssumed
<1>1. StartupInv => ServesWhatIsAssumed
  <2> SUFFICES ASSUME StartupInv PROVE ServesWhatIsAssumed
    OBVIOUS
  <2> USE DEF StartupInv
  <2>1. ASSUME NEW p \in Procs, Serving(p)
        PROVE  /\ cfg[p].accessTTL >= Second
               /\ cfg[p].refreshTTL >= cfg[p].accessTTL
               /\ cfg[p].maxUsers > 0
               /\ {cfg[p].listen, cfg[p].socket} # {"blank"}
               /\ tables = {"users", "user_roles"}
    <3>1. cfg[p] \in Documents /\ Loads(cfg[p])
      BY <2>1 DEF Serving, BehindOK
    <3>2. tables = {"users", "user_roles"}
      BY <2>1 DEF Serving, BehindOK, Early, TypeOK
    <3> QED BY <3>1, <3>2, LoadedFields
  <2> QED BY <2>1 DEF ServesWhatIsAssumed, AccountsOK
<1> QED BY <1>1, Invariance, PTL

\* What StartsChangeNothing says of a step.
Unchanged ==
  /\ \A name \in Accounts : users'[name] = users[name]
  /\ Accounts # {} /\ (\A p \in early : pc[p] # "create") => users' = users
  /\ /\ settings # None
     /\ \A p \in early : pc[p] = "create"
     /\ \A p \in Procs : Serving(p) => writing[p] = None
     => settings' = settings

\* Whoever has a write to finish is a start that found no file, or an update.
LEMMA WritesAreExpected ==
  ASSUME StartupInv, NEW p \in Procs, writing[p] # None,
         \A q \in early : pc[q] = "create",
         \A q \in Procs : Serving(q) => writing[q] = None
  PROVE  FALSE
<1>1. pc[p] \in {"write", "serving"}
  BY DEF StartupInv, BehindOK
<1>2. pc[p] = "write" => p \in early
  BY DEF StartupInv, BehindOK
<1> QED BY <1>1, <1>2 DEF Serving

LEMMA StartChangesNothing ==
  ASSUME StartupInv, NEW p \in Procs, Start(p)
  PROVE  Unchanged
<1>1. CASE CreateBootstrap(p)
  <2>1. \A name \in Accounts : users'[name] = users[name]
    BY <1>1 DEF CreateBootstrap, Accounts, StartupInv, TypeOK
  <2>2. pc[p] = "create" /\ p \in early
    BY <1>1 DEF CreateBootstrap, Advance, StartupInv, BehindOK
  <2>3. settings' = settings
    BY <1>1 DEF CreateBootstrap
  <2> QED BY <2>1, <2>2, <2>3 DEF Unchanged
<1>2. CASE CreateSettings(p)
  <2>1. pc[p] = "open" /\ p \in early
    BY <1>2 DEF CreateSettings, Advance, StartupInv, BehindOK
  <2>2. users' = users
    BY <1>2 DEF CreateSettings
  <2> QED BY <2>1, <2>2 DEF Unchanged
<1>3. CASE WriteSettings(p)
  <2>1. writing[p] # None /\ users' = users
    BY <1>3 DEF WriteSettings
  <2> QED BY <2>1, WritesAreExpected DEF Unchanged
<1>4. CASE \/ Load(p) \/ ReadSettings(p) \/ New(p) \/ CheckBootstrap(p) \/ CountUsers(p)
           \/ Listen(p) \/ Migrate(p, "users", "user_roles") \/ Migrate(p, "user_roles", "new")
  <2>1. UNCHANGED <<users, settings>>
    BY <1>4 DEF Load, ReadSettings, New, CheckBootstrap, CountUsers, Listen, Migrate
  <2> QED BY <2>1 DEF Unchanged
<1> QED BY <1>1, <1>2, <1>3, <1>4 DEF Start

\* A write that is cut short is one that was expected.
LEMMA CutShortChangesNothing ==
  ASSUME StartupInv, NEW p \in Procs, CutShort(p), users' = users
  PROVE  Unchanged
<1>1. CASE writing[p] = None
  BY <1>1, CutShortOK DEF Unchanged, StartupInv
<1>2. CASE writing[p] # None
  BY <1>2, WritesAreExpected DEF Unchanged
<1> QED BY <1>1, <1>2

\* However many starts there are, whenever they die and whatever is written
\* meanwhile, an account stays as it is, and a start adds a user beside another,
\* or replaces settings that are there, only if it had looked before they were.
THEOREM StartsChangeNothingHolds == Spec => StartsChangeNothing
<1>1. StartupInv /\ [Next]_vars => [changes' = changes /\ edits' = edits => Unchanged]_vars
  <2> SUFFICES ASSUME StartupInv, Next, changes' = changes, edits' = edits
               PROVE  Unchanged
    OBVIOUS
  <2>1. changes \in Nat /\ edits \in Nat
    BY DEF StartupInv, TypeOK
  <2>2. ASSUME NEW p \in Procs, NEW by, NEW name, NEW roles, Administer(p, by, name, roles)
        PROVE  FALSE
    BY <2>1, <2>2 DEF Administer
  <2>3. ASSUME NEW p \in Procs, NEW by, NEW value, UpdateSettings(p, by, value)
        PROVE  FALSE
    BY <2>1, <2>3 DEF UpdateSettings
  <2>4. ASSUME NEW p \in Procs, Die(p) \/ UpdateFails(p)
        PROVE  Unchanged
    <3>1. CutShort(p) /\ users' = users
      BY <2>4 DEF Die, UpdateFails
    <3> QED BY <3>1, CutShortChangesNothing
  <2>5. ASSUME NEW doc \in Documents, Edit(doc)
        PROVE  FALSE
    BY <2>1, <2>5 DEF Edit
  <2>6. ASSUME Repair
        PROVE  FALSE
    BY <2>1, <2>6 DEF Repair
  <2> QED BY <2>2, <2>3, <2>4, <2>5, <2>6, StartChangesNothing DEF Next
<1>2. StartsChangeNothing <=> [][changes' = changes /\ edits' = edits => Unchanged]_vars
  BY DEF StartsChangeNothing, Unchanged
<1> QED BY <1>1, <1>2, Invariance, PTL DEF Spec
=============================================================================
