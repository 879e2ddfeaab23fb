----------------------------- MODULE MC_Startup -----------------------------
EXTENDS Startup

\* conf/authd.toml
Shipped ==
  [listen |-> "ok", socket |-> "blank",
   keepalive |-> <<10 * Second, 3 * Second, 5 * Second>>,
   sqlitePath |-> "ok", busyTimeout |-> 5 * Second,
   issuer |-> "ok", accessTTL |-> Second, refreshTTL |-> Second, maxUsers |-> 20,
   signingKey |-> "ok", username |-> "admin", password |-> "ok",
   displayName |-> "ok", roles |-> <<"admin">>, defaultSetting |-> TRUE]

With(field, value) == [Shipped EXCEPT ![field] = value]

\* One field other than shipped, for every check of Load and of the start.
OneOff ==
  {With("listen", "bad"), With("socket", "bad"), With("socket", "ok"),
   With("listen", "blank"), With("keepalive", <<Second, 0, Second>>),
   With("keepalive", <<Second, Second, NoDuration>>), With("sqlitePath", "blank"),
   With("busyTimeout", 0), With("busyTimeout", Millisecond \div 2),
   With("issuer", "blank"), With("accessTTL", Second - 1),
   With("accessTTL", Second + 1), With("refreshTTL", Second - 1),
   With("accessTTL", NoDuration), With("maxUsers", 0), With("signingKey", "blank"),
   With("username", "blank"), With("username", "Admin"),
   With("password", "blank"), With("password", "bad"),
   With("displayName", "blank"), With("displayName", "bad"),
   With("roles", <<>>), With("roles", <<"blank", "admin">>),
   With("roles", <<"auditor">>), With("roles", <<"user">>),
   With("roles", <<"user", "admin", "user">>),
   [With("username", "root") EXCEPT !.defaultSetting = FALSE]}

AllDocuments == {Shipped} \cup OneOff
=============================================================================
