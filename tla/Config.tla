-------------------------------- MODULE Config --------------------------------
(***************************************************************************)
(* What authd.toml may hold, and what Load makes of it                     *)
(* (internal/config/main.go and duration.go).                              *)
(*                                                                         *)
(* A text is "blank" (missing, empty or white space), "bad" where some     *)
(* later check refuses it, or stands for itself; a duration is in          *)
(* microseconds, or NoDuration when it is none for time.ParseDuration.      *)
(***************************************************************************)
EXTENDS Integers, Sequences

CONSTANT NoDuration

Millisecond == 1000
Second == 1000 * Millisecond

\* A document that is TOML and has no unknown field.
Document ==
  [listen : {"blank", "bad", "ok"},         \* bad: not host:port
   socket : {"blank", "bad", "ok"},         \* bad: relative, too long, or with a NUL
   keepalive : Seq(Int \cup {NoDuration}),       \* time, timeout, min_time
   sqlitePath : {"blank", "ok"},
   busyTimeout : Int \cup {NoDuration},
   issuer : {"blank", "ok"},
   accessTTL : Int \cup {NoDuration},
   refreshTTL : Int \cup {NoDuration},
   maxUsers : Nat,
   signingKey : {"blank", "ok"},
   username : STRING,                       \* of the bootstrap administrator
   password : {"blank", "bad", "ok"},
   displayName : {"blank", "bad", "ok"},
   roles : Seq(STRING),
   defaultSetting : BOOLEAN]                \* FALSE too when it is missing

\* Duration.UnmarshalText, in the decoding of each duration
Decodes(doc) ==
  NoDuration \notin {doc.busyTimeout, doc.accessTTL, doc.refreshTTL}
             \cup {doc.keepalive[i] : i \in DOMAIN doc.keepalive}

ValidServer(doc) ==
  /\ doc.listen # "blank" \/ doc.socket # "blank"
  /\ doc.listen # "bad"
  /\ doc.socket # "bad"
  /\ \A i \in DOMAIN doc.keepalive : doc.keepalive[i] > 0

ValidStorage(doc) ==
  /\ doc.sqlitePath # "blank"
  /\ doc.busyTimeout > 0

\* Faulty variant: any two lifetimes will do.
ValidAuth_AnyTTL(doc) ==
  /\ doc.issuer # "blank"
  /\ doc.accessTTL >= Second
  /\ doc.refreshTTL >= Second
  /\ doc.maxUsers # 0
  /\ doc.signingKey # "blank"
  /\ "blank" \notin {doc.username, doc.password, doc.displayName}
  /\ doc.roles # <<>> /\ \A i \in DOMAIN doc.roles : doc.roles[i] # "blank"

ValidAuth(doc) ==
  /\ doc.issuer # "blank"
  /\ doc.accessTTL >= Second
  /\ doc.refreshTTL >= Second
  /\ doc.refreshTTL >= doc.accessTTL
  /\ doc.maxUsers # 0
  /\ doc.signingKey # "blank"
  /\ "blank" \notin {doc.username, doc.password, doc.displayName}
  /\ doc.roles # <<>> /\ \A i \in DOMAIN doc.roles : doc.roles[i] # "blank"

\* Load, of a file that is there and is TOML, makes its checks in this order.
Loads(doc) == Decodes(doc) /\ ValidServer(doc) /\ ValidStorage(doc) /\ ValidAuth(doc)
=============================================================================
