--------------------------- MODULE ConfigLoadProofs ---------------------------
(***************************************************************************)
(* Proofs of the safety properties of ConfigLoad, whatever the maximum of   *)
(* connections and the counts that operators ask for.  Every stage of Load  *)
(* leaves an invariant behind (TransportInv, OptionsInv, DatabaseInv), as   *)
(* does buildPoolConfig (PoolInv); what a running server does follows from  *)
(* the four together.                                                       *)
(***************************************************************************)
EXTENDS ConfigLoad, TLAPS

(* The first two stages are behind the later ones, and keep what they found.*)
LEMMA StagesStep == TransportInv /\ OptionsInv /\ [Next]_vars => TransportInv' /\ OptionsInv'
<1> SUFFICES ASSUME TransportInv, OptionsInv, [Next]_vars PROVE TransportInv' /\ OptionsInv'
  OBVIOUS
<1>1. CASE LoadTransport
  <2>1. /\ transport' \in Transports
        /\ pc' = IF TransportOK(transport') THEN "options" ELSE "rejected"
    BY <1>1 DEF LoadTransport
  <2>2. pc' \in {"options", "rejected"} /\ (pc' = "options" => TransportOK(transport'))
    BY <2>1
  <2>3. TransportOK(transport)' = TransportOK(transport')
    BY DEF TransportOK, TokenOK, ValidHTTPTLS
  <2> QED
    BY <2>1, <2>2, <2>3 DEF TransportInv, OptionsInv
<1>2. CASE LoadOptions
  <2>1. /\ pc = "options" /\ options' \in Options /\ UNCHANGED transport
        /\ pc' \in {"database", "rejected"}
        /\ pc' = "database" => Lower(options'.qos) \in {Unset, "background", "regular", "critical"}
    BY <1>2 DEF LoadOptions
  <2> QED
    BY <2>1 DEF TransportInv, OptionsInv
<1>3. CASE LoadDatabase \/ RejectDatabase \/ OpenDatabase \/ UNCHANGED vars
  <2>1. /\ UNCHANGED <<transport, options>>
        /\ pc' = pc \/ pc' \in {"rejected", "refused"} \/ (pc \in {"database", "loaded"} /\ pc' \in {"loaded", "running"})
    BY <1>3 DEF LoadDatabase, RejectDatabase, OpenDatabase, vars
  <2> QED
    BY <2>1 DEF TransportInv, OptionsInv
<1> QED
  BY <1>1, <1>2, <1>3 DEF Next, Stopped

(* The third stage keeps the mode that it has checked.                      *)
LEMMA DatabaseStep == DatabaseInv /\ [Next]_vars => DatabaseInv'
<1> SUFFICES ASSUME DatabaseInv, [Next]_vars PROVE DatabaseInv'
  OBVIOUS
<1>1. CASE LoadTransport \/ LoadOptions
  <2>1. /\ pc \in {"transport", "options"} /\ UNCHANGED database
        /\ pc' \in {"options", "database", "rejected"}
    BY <1>1 DEF LoadTransport, LoadOptions
  <2> QED
    BY <2>1 DEF DatabaseInv
<1>2. CASE LoadDatabase
  <2>1. /\ database' \in URLs \cup Certs /\ pc' = "loaded" /\ sslMode' = LoadedMode(database')
        /\ UNCHANGED transport
        /\ IF database'.source = "url" THEN ValidDatabaseURL(database') ELSE ValidCertConfig(database')
    BY <1>2 DEF LoadDatabase
  <2>2. DatabaseOK'
    BY <2>1 DEF DatabaseOK, ValidDatabaseURL, ValidCertConfig, AllowedSSLMode
  <2> QED
    BY <2>1, <2>2 DEF DatabaseInv, LoadedMode
<1>3. CASE RejectDatabase
  BY <1>3 DEF RejectDatabase, DatabaseInv
<1>4. CASE OpenDatabase \/ UNCHANGED vars
  <2>1. /\ UNCHANGED <<transport, database, sslMode>>
        /\ pc' = pc \/ (pc = "loaded" /\ pc' \in {"running", "refused"})
    BY <1>4 DEF OpenDatabase, vars
  <2> QED
    BY <2>1 DEF DatabaseInv, DatabaseOK, ValidDatabaseURL, ValidCertConfig, AllowedSSLMode, LoadedMode
<1> QED
  BY <1>1, <1>2, <1>3, <1>4 DEF Next, Stopped

(* The pool is opened after the warning, with the gate on passwords passed. *)
LEMMA PoolStep == PoolInv /\ [Next]_vars => PoolInv'
<1> SUFFICES ASSUME PoolInv, [Next]_vars, pc' = "running" PROVE PoolInv'
  BY DEF PoolInv
<1>1. CASE LoadTransport \/ LoadOptions \/ LoadDatabase \/ RejectDatabase
  BY <1>1 DEF LoadTransport, LoadOptions, LoadDatabase, RejectDatabase
<1>2. CASE OpenDatabase
  <2>1. /\ UNCHANGED <<options, database, sslMode>> /\ EffectiveMode(database) # "nonsense"
        /\ PasswordOK /\ qos' = PoolQoS /\ warned' = InsecureCapable(sslMode)
    BY <1>2 DEF OpenDatabase
  <2> QED
    BY <2>1 DEF PoolInv, PasswordOK, PoolQoS, DSNQoS
<1>3. CASE UNCHANGED vars
  BY <1>3 DEF vars, PoolInv, PasswordOK, PoolQoS, DSNQoS
<1> QED
  BY <1>1, <1>2, <1>3 DEF Next, Stopped

(* What the three stages and the pool establish holds in every state.       *)
THEOREM Inductive == Spec => []IInv
<1>1. Init => IInv
  BY DEF Init, IInv, TransportInv, OptionsInv, DatabaseInv, PoolInv
<1>2. IInv /\ [Next]_vars => IInv'
  BY StagesStep, DatabaseStep, PoolStep DEF IInv
<1> QED
  BY <1>1, <1>2, PTL DEF Spec

-----------------------------------------------------------------------------
(* An HTTP transport that was accepted has a token or the opt-out, and both *)
(* files of its certificate or the opt-out.                                 *)
LEMMA AcceptedHTTP ==
  ASSUME NEW t \in Transports, TransportOK(t), t.name = "http"
  PROVE  /\ t.token = Unset => t.noBearer
         /\ ~t.noBearer => t.token = "long"
         /\ ServesTLS(t) \/ t.insecureHTTP
BY DEF Transports, TransportOK, TokenOK, ValidHTTPTLS, ServesTLS, Unset

(* What the mode that was kept says of the mode that pgx uses.              *)
LEMMA KeptMode ==
  ASSUME database \in URLs \cup Certs, DatabaseOK, sslMode = LoadedMode(database), ReadAlike(database)
  PROVE  sslMode = EffectiveMode(database) /\ AllowedSSLMode(sslMode)
<1>1. CASE database.source = "url"
  <2>1. database.form = "url"
    BY <1>1 DEF ReadAlike
  <2>2. sslMode = database.sslmode /\ AllowedSSLMode(sslMode)
    BY <1>1, <2>1 DEF DatabaseOK, ValidDatabaseURL, LoadedMode, QueryMode
  <2>3. sslMode # Unset
    BY <2>2 DEF AllowedSSLMode, InsecureCapable, Unset
  <2> QED
    BY <1>1, <2>2, <2>3 DEF EffectiveMode
<1>2. CASE database.source # "url"
  <2>1. database.source = "cert"
    BY <1>2 DEF ReadAlike, URLs, Certs
  <2> QED
    BY <1>2, <2>1 DEF DatabaseOK, ValidCertConfig, LoadedMode, EffectiveMode
<1> QED
  BY <1>1, <1>2

(* Nothing insecure runs that was not opted into, but for what a string of  *)
(* keywords may say of TLS.                                                 *)
THEOREM InsecurityIsChosen == Spec => []OptInsRespected
<1>1. IInv => OptInsRespected
  <2> SUFFICES ASSUME IInv, pc = "running"
               PROVE  /\ transport.name = "http" =>
                           /\ ServesTLS(transport) \/ transport.insecureHTTP
                           /\ (\E q \in HTTPRequests : ~HasToken(q) /\ Answer(q) = "mcp") => transport.noBearer
                      /\ ReadAlike(database) /\ EffectiveMode(database) \in MayLackTLS => transport.insecureDB
                      /\ database.password # Unset => options.allowPassword
    BY DEF OptInsRespected
  <2>1. transport \in Transports /\ TransportOK(transport)
    BY DEF IInv, TransportInv
  <2>2. ASSUME transport.name = "http", NEW q \in HTTPRequests, ~HasToken(q), Answer(q) = "mcp"
        PROVE  transport.noBearer
    <3>1. transport.token = Unset
      BY <2>2 DEF Answer, Health, HasToken, Authorized
    <3> QED
      BY <2>1, <2>2, <3>1, AcceptedHTTP
  <2>3. ReadAlike(database) /\ EffectiveMode(database) \in MayLackTLS => transport.insecureDB
    BY KeptMode DEF IInv, DatabaseInv, AllowedSSLMode, MayLackTLS
  <2>4. database.password # Unset => options.allowPassword
    BY DEF IInv, PoolInv, PasswordOK
  <2> QED
    BY <2>1, <2>2, <2>3, <2>4, AcceptedHTTP
<1> QED
  BY <1>1, Inductive, PTL

(* With a token configured, the tools are behind it.                        *)
THEOREM ToolsAreGuarded == Spec => []TokenGuardsTools
<1>1. IInv => TokenGuardsTools
  <2> SUFFICES ASSUME IInv, pc = "running", transport.name = "http", ~transport.noBearer, NEW q \in HTTPRequests
               PROVE  /\ Answer(q) = "mcp" <=> (q.path = "/" /\ HasToken(q))
                      /\ q.path # "/" /\ q.method # "POST" => Answer(q) = "ok"
    BY DEF TokenGuardsTools
  <2>1. transport.token # Unset
    BY AcceptedHTTP DEF IInv, TransportInv, Unset
  <2>2. q.path \in {"/healthz", "/ready", "/"} /\ q.method \in {"GET", "HEAD", "POST"}
    BY DEF HTTPRequests
  <2> QED
    BY <2>1, <2>2 DEF Answer, Health, HasToken, Authorized
<1> QED
  BY <1>1, Inductive, PTL

(* A URL or a certificate setup without guaranteed TLS is warned of, and no *)
(* other.                                                                   *)
THEOREM WarningIsExact == Spec => []InsecureDBWarned
<1>1. IInv => InsecureDBWarned
  BY KeptMode DEF IInv, DatabaseInv, PoolInv, InsecureDBWarned, InsecureCapable, MayLackTLS
<1> QED
  BY <1>1, Inductive, PTL

=============================================================================
