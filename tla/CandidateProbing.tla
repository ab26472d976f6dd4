--------------------------- MODULE CandidateProbing ---------------------------
(***************************************************************************)
(* One candidate server is probed by the six measuring clients and judged   *)
(* by the cryptographic gate: gate_worker.probe, the OpenSSL negotiation it *)
(* observes through scripts/tls_handshake.c, and gate_policy.evaluate.      *)
(*                                                                          *)
(* The gate sees the outcomes of handshakes, never the configuration.  The  *)
(* question is whether those outcomes determine the configuration: an       *)
(* approved candidate must have no classical way in.                        *)
(***************************************************************************)
EXTENDS GatePolicy

CONSTANT Configs   \* the server configurations a candidate may have

Groups     == {"smaug1", "X25519"}
Signatures == {"haetae2", "ecdsa_secp256r1_sha256"}
Versions   == {"TLSv1.2", "TLSv1.3"}

\* groups, sigs: what the process was started with; version: the only version
\* it speaks (minimum = maximum); trusted: its certificate is in the bundle.
ConfigType == [groups : SUBSET Groups, sigs : SUBSET Signatures,
               version : Versions, trusted : BOOLEAN]

\* A probe record.
RecordType ==
  [success : BOOLEAN, error : BOOLEAN, returncode : {0, 1, 2},
   verify : {0, 18, None}, group : Groups \cup {"none", None},
   signature : Signatures \cup {"none", None}, version : Versions \cup {None},
   cipher : {PolicyCipher, "ECDHE", "none", None},
   ssl_error : {0, 1, 2, 5, None}, messages : {1, None}]

ASSUME ConfigsAssumption == Configs \subseteq ConfigType
ASSUME NoneAssumption ==
  /\ None # {} /\ None \notin RecordType
  /\ None \notin {0, 1} /\ None \notin {PolicyCipher} \cup Groups \cup Signatures \cup Versions

VARIABLES
  config,     \* configuration of the candidate
  probes,     \* evidence collected so far, one record per client
  cut,        \* clients whose connection was cut within the TLS exchange
  decision    \* None, or the reasons of the last decision ({} is approval)

vars == <<config, probes, cut, decision>>

\* What each measuring client offers.
OfferedGroups ==
  [broad |-> {"smaug1", "X25519"}, pqc |-> {"smaug1"}, classical_kem |-> {"X25519"},
   classical_signature |-> {"smaug1"}, legacy |-> {"X25519"}, tls12 |-> {"X25519"}]

OfferedSignatures ==
  [broad |-> {"haetae2", "ecdsa_secp256r1_sha256"}, pqc |-> {"haetae2"},
   classical_kem |-> {"haetae2"}, classical_signature |-> {"ecdsa_secp256r1_sha256"},
   legacy |-> {"ecdsa_secp256r1_sha256"}, tls12 |-> {"ecdsa_secp256r1_sha256"}]

OfferedVersion(client) == IF client = "tls12" THEN "TLSv1.2" ELSE "TLSv1.3"

\* In TLS 1.2 mode both ends replace their groups by X25519:P-256.
ServerGroups(c) == IF c.version = "TLSv1.2" THEN {"X25519"} ELSE c.groups

\* The algorithm pairs the two ends can agree on; the library picks any of them.
Agreements(c, client) ==
  IF c.version # OfferedVersion(client) THEN {}
  ELSE (ServerGroups(c) \cap OfferedGroups[client])
         \X (c.sigs \cap OfferedSignatures[client])

Failed(sslError, verify) ==
  [success |-> FALSE, error |-> FALSE, returncode |-> 1, verify |-> verify,
   group |-> "none", signature |-> "none", version |-> PolicyVersion,
   cipher |-> "none", ssl_error |-> sslError, messages |-> 1]

\* No usable measurement: time-out, malformed or missing output, no connection.
Faulted ==
  [success |-> FALSE, error |-> TRUE, returncode |-> 2, verify |-> None,
   group |-> None, signature |-> None, version |-> None,
   cipher |-> None, ssl_error |-> None, messages |-> None]

\* A mutant of Connected: the two algorithms are parsed in the wrong order.
ConnectedSwapped(c, pair) ==
  [success |-> TRUE, error |-> FALSE, returncode |-> 0, verify |-> 0,
   group |-> pair[2], signature |-> pair[1], version |-> c.version,
   cipher |-> PolicyCipher, ssl_error |-> 0, messages |-> 1]

Connected(c, pair) ==
  [success |-> TRUE, error |-> FALSE, returncode |-> 0, verify |-> 0,
   group |-> pair[1], signature |-> pair[2], version |-> c.version,
   cipher |-> IF c.version = "TLSv1.3" THEN PolicyCipher ELSE "ECDHE",
   ssl_error |-> 0, messages |-> 1]

\* The records a completed exchange can leave: 1 is SSL_ERROR_SSL, 18 the
\* verification result of an unknown self-signed certificate.
Exchange(c, client) ==
  LET pairs == Agreements(c, client) IN
  IF pairs = {} THEN {Failed(1, 0)}
  ELSE IF ~c.trusted THEN {Failed(1, 18)}
  ELSE {Connected(c, p) : p \in pairs}

\* 2 is SSL_ERROR_WANT_READ, what a receive time-out of the client's socket gives.
Unusable == {Faulted, Failed(2, 0)}

\* A connection closed inside SSL_connect is SSL_ERROR_SSL (unexpected EOF) when
\* the close was orderly and SSL_ERROR_SYSCALL (5) when it was a reset.
Severed == {Failed(1, 0), Failed(5, 0)}

\* The order in which gate_suite.py and release_experiments.py probe.
Position == [broad |-> 1, pqc |-> 2, classical_kem |-> 3,
             classical_signature |-> 4, legacy |-> 5, tls12 |-> 6]

Turn(client) ==
  /\ decision = None
  /\ probes[client] = None
  /\ \A d \in Clients : Position[d] < Position[client] => probes[d] # None

Record(client, outcomes) ==
  /\ \E r \in outcomes : probes' = [probes EXCEPT ![client] = r]
  /\ UNCHANGED <<config, decision>>

Probe(client) ==
  /\ Turn(client)
  /\ Record(client, Exchange(config, client) \cup Unusable)
  /\ UNCHANGED cut

\* The server dies, or the router closes, after the readiness byte.
ProbeSevered(client) ==
  /\ Turn(client)
  /\ Record(client, Severed)
  /\ cut' = cut \cup {client}

\* The controller may ask for a decision at any time, with any compatibility
\* requirements added to the policy's.
Decide ==
  /\ decision = None
  /\ \E extra \in {{}, {"pqc"}, {"pqc", "legacy"}} :
       decision' = Evaluate(TRUE, probes, extra)
  /\ UNCHANGED <<config, probes, cut>>

Init ==
  /\ config \in Configs
  /\ probes = [c \in Clients |-> None]
  /\ cut = {}
  /\ decision = None

Next ==
  \/ \E client \in Clients : Probe(client)
  \/ \E client \in Clients : ProbeSevered(client)
  \/ Decide

Spec == Init /\ [][Next]_vars

-----------------------------------------------------------------------------
\* The only configuration without a classical way in.
PqcOnly(c) ==
  /\ c.groups = {PolicyGroup}
  /\ c.sigs = {PolicySignature}
  /\ c.version = PolicyVersion

Reasons == {"CANDIDATE_NOT_READY", "INVALID_PROBE_EVIDENCE", "PROBE_UNAVAILABLE",
            "TLS_HANDSHAKE_FAILED", "CERTIFICATE_VERIFICATION_FAILED",
            "TLS_VERSION_MISMATCH", "KEM_POLICY_MISMATCH", "SIGNATURE_POLICY_MISMATCH",
            "CIPHER_POLICY_MISMATCH", "MISSING_NEGATIVE_PROBE",
            "INCONCLUSIVE_NEGATIVE_PROBE", "PROHIBITED_TLS_VERSION_ACCEPTED",
            "CLASSICAL_FALLBACK_ACCEPTED", "REQUIRED_CLIENT_INCOMPATIBLE"}

(* Every variable has its type. *)
TypeOK ==
  /\ config \in Configs
  /\ probes \in [Clients -> RecordType \cup {None}]
  /\ cut \subseteq Clients
  /\ decision = None \/ decision \subseteq Reasons

(* An approved candidate accepts only the policy's group, signature and       *)
(* version: gate_policy.evaluate infers the whole configuration from six      *)
(* handshakes, whichever of them failed for other reasons, except those of a  *)
(* forbidden client that were cut within the TLS exchange.                    *)
ApprovedIsPqcOnly == decision = {} /\ cut \cap Forbidden = {} => PqcOnly(config)

(* Availability of the gate: a candidate that is PQC only and trusted, and    *)
(* whose six probes all ran to an end, is refused only to requests that       *)
(* demand a classical client.                                                 *)
SecureIsNotRefused ==
  /\ decision # None
  /\ PqcOnly(config) /\ config.trusted
  /\ cut = {}
  /\ \A c \in Clients : probes[c] \notin Unusable \cup {None}
  => decision \subseteq {"REQUIRED_CLIENT_INCOMPATIBLE"}

(* gate_policy.py:24 "Missing probes and transport failures must never count  *)
(* as negative-test success."                                                 *)
TransportFailureIsNoRefusal ==
  \A c \in cut \cap Forbidden : CheckNegative(c, probes[c]) # "OK"
===============================================================================
