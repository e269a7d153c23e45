------------------------------ MODULE ConfigLoad ------------------------------
(***************************************************************************)
(* From the environment to a server that runs: config.Load reads and checks *)
(* the options in three stages (transport, the others, database), main warns*)
(* of a database without TLS, buildPoolConfig applies what only the parsed  *)
(* connection string shows, and the mux and the bearer check stand between  *)
(* an HTTP request and the tools.                                           *)
(*                                                                         *)
(* Options appear by the classes the code tells apart.  What the operator   *)
(* set is chosen stage by stage and never changes after.                    *)
(***************************************************************************)
EXTENDS Integers

CONSTANTS
  MaxAllowedConns, \* 100 in the code
  ConnCounts       \* values of CRDB_MCP_MAX_CONNS to consider

ASSUME ConfigAssumption == MaxAllowedConns \in Nat \ {0} /\ ConnCounts \subseteq Int

VARIABLES
  pc,        \* "transport", "options", "database", "loaded", "running",
             \* "rejected" by Load, or "refused" by buildPoolConfig
  transport, \* the options of the first stage
  options,   \* those of the second
  database,  \* and those of the third
  sslMode,   \* cfg.SSLMode
  qos,       \* the pool's default_transaction_quality_of_service
  warned     \* the operator was warned that the database may be without TLS

vars == <<pc, transport, options, database, sslMode, qos, warned>>

Unset == "unset"

(* The files of the HTTP transport must be regular, those for the database  *)
(* must be there.                                                           *)
Transports ==
  [name : {"stdio"}, insecureDB : BOOLEAN, malformed : BOOLEAN]
  \cup [name : {"http", "other"}, insecureDB : BOOLEAN, malformed : BOOLEAN,
        token : {Unset, "short", "long"}, noBearer : BOOLEAN, insecureHTTP : BOOLEAN,
        cert : {Unset, "file", "directory"}, key : {Unset, "file", "directory"}]

(* "malformed" stands for any one option of the stage that does not parse:  *)
(* a log level, a log path, a port, a duration, a count, a flag.            *)
Options ==
  [malformed : BOOLEAN, maxConns : ConnCounts, allowPassword : BOOLEAN,
   qos : {Unset, "regular", "CRITICAL", "urgent"}]

(* A password is in the connection string or CRDB_PWD ("given"), or pgx     *)
(* finds it in PGPASSWORD or a password file ("ambient").                   *)
SSLModes == {Unset, "disable", "allow", "prefer", "require", "verify-ca", "verify-full", "nonsense"}
Passwords == {Unset, "given", "ambient"}

(* Nothing checks the quality of service in a connection string.            *)
DSNQualities == {Unset, "background", "critical", "urgent"}

(* A string of keywords and values, host=db sslmode=require, may hold a "?" *)
(* in one of its values: "query" is the sslmode that url.Parse then finds.  *)
URLs ==
  [source : {"url"}, form : {"url", "malformed"}, sslmode : SSLModes, password : Passwords, qos : DSNQualities]
  \cup [source : {"url"}, form : {"keywords"}, sslmode : SSLModes, query : SSLModes, password : Passwords,
        qos : DSNQualities]

Certs ==
  [source : {"cert"}, hostAndUser : BOOLEAN, sslmode : SSLModes, password : Passwords,
   cert : {Unset, "file", "absent"}, key : {Unset, "file", "absent"}, ca : {Unset, "file", "absent"}]

Init ==
  /\ pc = "transport"
  /\ transport = [name |-> Unset] /\ options = [qos |-> Unset] /\ database = [source |-> Unset]
  /\ sslMode = Unset /\ qos = Unset /\ warned = FALSE

-----------------------------------------------------------------------------
(* The transport.                                                           *)

(* A token of at least 16 characters, or the opt-out, not both.             *)
TokenOK(t) == IF t.token = Unset THEN t.noBearer ELSE t.token = "long" /\ ~t.noBearer

ValidHTTPTLS(t) ==
  /\ t.cert = Unset <=> t.key = Unset
  /\ t.cert = Unset => t.insecureHTTP
  /\ {t.cert, t.key} \subseteq {Unset, "file"}

TransportOK(t) ==
  /\ ~t.malformed
  /\ t.name = "stdio" \/ (t.name = "http" /\ TokenOK(t) /\ ValidHTTPTLS(t))

LoadTransport ==
  /\ pc = "transport"
  /\ transport' \in Transports
  /\ pc' = IF TransportOK(transport') THEN "options" ELSE "rejected"
  /\ UNCHANGED <<options, database, sslMode, qos, warned>>

(* The other options; one that is not set counts with its default.  The     *)
(* quality of service is put in lower case before it is checked.            *)
Lower(q) == IF q = "CRITICAL" THEN "critical" ELSE q

MaxConnsOK(n) == 0 < n /\ n <= MaxAllowedConns

LoadOptions ==
  /\ pc = "options"
  /\ options' \in Options
  /\ pc' = IF /\ ~options'.malformed /\ MaxConnsOK(options'.maxConns)
              /\ Lower(options'.qos) \in {Unset, "background", "regular", "critical"}
           THEN "database" ELSE "rejected"
  /\ UNCHANGED <<transport, database, sslMode, qos, warned>>

-----------------------------------------------------------------------------
(* The database.                                                            *)
InsecureCapable(mode) == mode \in {"disable", "allow", "prefer"}

AllowedSSLMode(mode) ==
  mode \in {"require", "verify-ca", "verify-full"} \/ (InsecureCapable(mode) /\ transport.insecureDB)

(* Mutant: a URL without a mode has the default one.                        *)
QueryMode_Defaults(d) ==
  IF d.form # "url" THEN d.query ELSE IF d.sslmode = Unset THEN "verify-full" ELSE d.sslmode

(* The mode that Load sees.  A string of keywords parses as a URL that is   *)
(* all path, up to the first "?".                                           *)
QueryMode(d) == IF d.form = "url" THEN d.sslmode ELSE d.query

ValidDatabaseURL(d) == d.form # "malformed" /\ AllowedSSLMode(QueryMode(d))

CertMode(d) == IF d.sslmode = Unset THEN "verify-full" ELSE d.sslmode

FilesGiven(d) ==
  /\ InsecureCapable(CertMode(d)) \/ Unset \notin {d.cert, d.key}
  /\ CertMode(d) \in {"verify-ca", "verify-full"} => d.ca # Unset

ValidCertConfig(d) ==
  /\ AllowedSSLMode(CertMode(d))
  /\ d.hostAndUser /\ FilesGiven(d)
  /\ "absent" \notin {d.cert, d.key, d.ca}

(* Mutant: the mode of a connection string is checked but not kept.         *)
LoadedMode_CertOnly(d) == IF d.source = "url" THEN Unset ELSE CertMode(d)

LoadedMode(d) == IF d.source = "url" THEN QueryMode(d) ELSE CertMode(d)

LoadDatabase ==
  /\ pc = "database"
  /\ database' \in URLs \cup Certs
  /\ IF database'.source = "url" THEN ValidDatabaseURL(database') ELSE ValidCertConfig(database')
  /\ pc' = "loaded"
  /\ sslMode' = LoadedMode(database')
  /\ UNCHANGED <<transport, options, qos, warned>>

RejectDatabase ==
  /\ pc = "database"
  /\ database' \in URLs \cup Certs
  /\ ~(IF database'.source = "url" THEN ValidDatabaseURL(database') ELSE ValidCertConfig(database'))
  /\ pc' = "rejected"
  /\ UNCHANGED <<transport, options, sslMode, qos, warned>>

-----------------------------------------------------------------------------
(* main and buildPoolConfig.                                                *)

(* Mutant: only the passwords that Load has seen are looked at.             *)
PasswordOK_GivenOnly == database.password # "given" \/ options.allowPassword

(* The gate is on the parsed configuration, which has the ambient ones too. *)
PasswordOK == database.password = Unset \/ options.allowPassword

DSNQoS == IF database.source = "url" THEN database.qos ELSE Unset

PoolQoS ==
  IF options.qos # Unset THEN Lower(options.qos)
  ELSE IF DSNQoS # Unset THEN DSNQoS ELSE "background"

(* The mode that pgx uses: it reads a string of keywords as such, and       *)
(* prefers TLS where none is given.                                         *)
EffectiveMode(d) ==
  IF d.source = "cert" THEN CertMode(d) ELSE IF d.sslmode = Unset THEN "prefer" ELSE d.sslmode

(* pgx refuses a mode it does not know and may refuse the string for other  *)
(* reasons, a certificate it cannot read for instance.                      *)
OpenDatabase ==
  /\ pc = "loaded"
  /\ warned' = InsecureCapable(sslMode)
  /\ \/ EffectiveMode(database) # "nonsense" /\ PasswordOK /\ pc' = "running" /\ qos' = PoolQoS
     \/ pc' = "refused" /\ UNCHANGED qos
  /\ UNCHANGED <<transport, options, database, sslMode>>

Stopped == pc \in {"running", "rejected", "refused"} /\ UNCHANGED vars

Next ==
  \/ LoadTransport \/ LoadOptions \/ LoadDatabase \/ RejectDatabase \/ OpenDatabase
  \/ Stopped

Spec == Init /\ [][Next]_vars

-----------------------------------------------------------------------------
(* Requests to the HTTP transport.                                          *)
HTTPRequests ==
  [path : {"/healthz", "/ready", "/"}, method : {"GET", "HEAD", "POST"},
   scheme : {Unset, "Bearer", "bearer"}, token : {"right", "wrong"}]

ServesTLS(t) == t.cert # Unset /\ t.key # Unset

(* Mutant: the token is compared only when there is a scheme at all.        *)
Authorized_IfPresent(q) == q.scheme = Unset \/ (q.scheme = "Bearer" /\ q.token = "right")

(* The scheme is matched with its case, the token as a whole.               *)
Authorized(q) == q.scheme = "Bearer" /\ q.token = "right"

Health(q) == IF q.method \in {"GET", "HEAD"} THEN "ok" ELSE "method not allowed"

(* An empty token leaves the bearer check out.                              *)
Answer(q) ==
  IF q.path \in {"/healthz", "/ready"} THEN Health(q)
  ELSE IF transport.token = Unset \/ Authorized(q) THEN "mcp" ELSE "unauthorized"

-----------------------------------------------------------------------------
(* The modes by what they promise: no TLS, TLS, TLS with a checked server.  *)
MayLackTLS == {"disable", "allow", "prefer"}
Verifying == {"verify-ca", "verify-full"}

(* All but the strings of keywords, which Load and pgx read differently.    *)
ReadAlike(d) == d.source = "cert" \/ d.form = "url"

HasToken(q) == q.scheme = "Bearer" /\ q.token = "right"

(* A server that runs does nothing insecure that its operator has not opted *)
(* into: cleartext HTTP, tools without a token, a database without TLS, a   *)
(* password, wherever pgx may have found it.  For the database this is not  *)
(* so of a string of keywords, see SSLModeRequirement.                      *)
OptInsRespected ==
  pc = "running" =>
    /\ transport.name = "http" =>
         /\ ServesTLS(transport) \/ transport.insecureHTTP
         /\ (\E q \in HTTPRequests : ~HasToken(q) /\ Answer(q) = "mcp") => transport.noBearer
    /\ ReadAlike(database) /\ EffectiveMode(database) \in MayLackTLS => transport.insecureDB
    /\ database.password # Unset => options.allowPassword

(* With a token configured, a request reaches the tools exactly if it has   *)
(* the token; probes need none and get nowhere else.                        *)
TokenGuardsTools ==
  (pc = "running" /\ transport.name = "http" /\ ~transport.noBearer) =>
    \A q \in HTTPRequests :
      /\ Answer(q) = "mcp" <=> (q.path = "/" /\ HasToken(q))
      /\ q.path # "/" /\ q.method # "POST" => Answer(q) = "ok"

(* A URL or a certificate setup with which pgx may connect without TLS never*)
(* goes unmentioned, and no other is warned of: the mode that Load has      *)
(* checked and kept is the one that pgx uses.                               *)
InsecureDBWarned ==
  pc = "running" /\ ReadAlike(database) => (warned <=> EffectiveMode(database) \in MayLackTLS)

(* "In both auth modes sslmode must be require, verify-ca, or verify-full;  *)
(* [...] the TLS-optional modes (disable, allow, prefer) require            *)
(* CRDB_MCP_ALLOW_INSECURE_DB=true" (README.md:201-204): of the connection  *)
(* that pgx makes, however the string is written.                           *)
SSLModeRequirement ==
  pc = "running" /\ EffectiveMode(database) \in MayLackTLS => transport.insecureDB

(* CRDB_DATABASE_URL is "a full libpq connection string" (config.go:106,    *)
(* README.md:200), and libpq's come as URLs or as keywords and values.      *)
ConnectionStringsLoad ==
  (pc = "rejected" /\ database.source = "url") =>
    ~(database.form \in {"url", "keywords"} /\ database.sslmode \in {"require"} \cup Verifying)

-----------------------------------------------------------------------------
(* Why the safety properties hold: every stage leaves behind what it has    *)
(* checked, for the stages after it and for the server that runs.           *)
DatabaseOK == IF database.source = "url" THEN ValidDatabaseURL(database) ELSE ValidCertConfig(database)

TransportInv ==
  pc \in {"options", "database", "loaded", "running"} => transport \in Transports /\ TransportOK(transport)

OptionsInv ==
  pc \in {"database", "loaded", "running"} =>
    options \in Options /\ Lower(options.qos) \in {Unset, "background", "regular", "critical"}

DatabaseInv ==
  /\ pc \in {"transport", "options", "database"} => database = [source |-> Unset]
  /\ pc \in {"loaded", "running"} =>
       database \in URLs \cup Certs /\ DatabaseOK /\ sslMode = LoadedMode(database)

PoolInv ==
  pc = "running" =>
    EffectiveMode(database) # "nonsense" /\ PasswordOK /\ qos = PoolQoS /\ warned = InsecureCapable(sslMode)

IInv == TransportInv /\ OptionsInv /\ DatabaseInv /\ PoolInv

=============================================================================
