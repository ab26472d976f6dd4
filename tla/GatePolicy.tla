------------------------------ MODULE GatePolicy ------------------------------
(***************************************************************************)
(* The policy evaluation of scripts/gate_policy.py as pure operators, with  *)
(* the values of policies/pqc-required.json.  A probe record is a record    *)
(* with every field the evaluation reads; a field that the JSON record does *)
(* not have, or has with another type, is None.  A client that was not      *)
(* probed, or whose evidence is not a JSON object, has the value None.      *)
(***************************************************************************)
EXTENDS Integers

CONSTANT None   \* a missing record or field

Required  == {"broad", "pqc"}
Forbidden == {"classical_kem", "classical_signature", "legacy", "tls12"}
Clients   == Required \cup Forbidden

\* The algorithms the policy names; the group and signature codes 65056 and
\* 65408 are the wire values of these two.
PolicyGroup     == "smaug1"
PolicySignature == "haetae2"
PolicyVersion   == "TLSv1.3"
PolicyCipher    == "TLS_AES_256_GCM_SHA384"

\* The outcome of the evaluation of one required client: "OK" is Python's None.
Check(r) ==
  IF r = None \/ r.success \notin BOOLEAN THEN "INVALID_PROBE_EVIDENCE"
  ELSE IF r.error THEN "PROBE_UNAVAILABLE"
  ELSE IF ~r.success \/ r.returncode # 0 THEN "TLS_HANDSHAKE_FAILED"
  ELSE IF None \in {r.verify, r.group, r.signature, r.version, r.cipher}
       THEN "INVALID_PROBE_EVIDENCE"
  ELSE IF r.verify # 0 THEN "CERTIFICATE_VERIFICATION_FAILED"
  ELSE IF r.version # PolicyVersion THEN "TLS_VERSION_MISMATCH"
  ELSE IF r.group # PolicyGroup THEN "KEM_POLICY_MISMATCH"
  ELSE IF r.signature # PolicySignature THEN "SIGNATURE_POLICY_MISMATCH"
  ELSE IF r.cipher # PolicyCipher THEN "CIPHER_POLICY_MISMATCH"
  ELSE "OK"

\* Mutants of Conclusive: any failure is a refusal, and the wrong return code.
AnyFailure(r) == r.success = FALSE /\ r.returncode # 0 /\ r.messages # 0
OnlyTimeouts(r) == r.success = FALSE /\ r.returncode = 2 /\ r.ssl_error = 1

\* A refusal counts only when the TLS library reports a protocol error of an
\* exchange that started and in which no certificate was found invalid.
Conclusive(r) ==
  /\ r.success = FALSE
  /\ r.returncode # None /\ r.returncode # 0
  /\ r.ssl_error = 1
  /\ r.verify = 0
  /\ r.messages # None /\ r.messages # 0

\* The outcome of the evaluation of one forbidden client.
CheckNegative(client, r) ==
  IF r = None THEN "MISSING_NEGATIVE_PROBE"
  ELSE IF r.error THEN "INCONCLUSIVE_NEGATIVE_PROBE"
  ELSE IF r.success = TRUE
       THEN IF client = "tls12" THEN "PROHIBITED_TLS_VERSION_ACCEPTED"
                                ELSE "CLASSICAL_FALLBACK_ACCEPTED"
  ELSE IF ~Conclusive(r) THEN "INCONCLUSIVE_NEGATIVE_PROBE"
  ELSE "OK"

\* The reasons for refusing a candidate: ready is the controller's report,
\* probes a function from Clients to records, extra the compatibility
\* requirements that one request may add.
Evaluate(ready, probes, extra) ==
  LET notReady == IF ready THEN {} ELSE {"CANDIDATE_NOT_READY"}
      positive == {Check(probes[c]) : c \in Required}
      negative == {CheckNegative(c, probes[c]) : c \in Forbidden}
      compat   == {IF probes[c] # None /\ probes[c].success = TRUE
                   THEN "OK" ELSE "REQUIRED_CLIENT_INCOMPATIBLE" : c \in extra}
  IN  (notReady \cup positive \cup negative \cup compat) \ {"OK"}

Allowed(ready, probes, extra) == Evaluate(ready, probes, extra) = {}
===============================================================================
