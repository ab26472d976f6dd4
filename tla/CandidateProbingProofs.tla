------------------------ MODULE CandidateProbingProofs ------------------------
(***************************************************************************)
(* What an approval by the cryptographic gate means for every candidate     *)
(* configuration.                                                           *)
(***************************************************************************)
EXTENDS CandidateProbing, TLAPS

\* The record of a connection that was not cut is one the configuration can
\* produce, or unusable.
Truthful(c, client, r) == r \in Exchange(c, client) \cup Unusable \cup {None}

(* A required client is satisfied only by a connection on the policy's        *)
(* algorithms, so the candidate supports each of them (gate_policy.check).    *)
LEMMA PositiveProbe ==
  ASSUME NEW c \in ConfigType, NEW client \in Required, NEW r,
         Truthful(c, client, r), Check(r) = "OK"
  PROVE  /\ c.version = PolicyVersion
         /\ PolicyGroup \in c.groups
         /\ PolicySignature \in c.sigs
<1>1. r # None /\ r \notin Unusable
  BY DEF Check, Unusable, Faulted, Failed
<1>2. PICK p \in Agreements(c, client) : r = Connected(c, p)
  BY <1>1 DEF Truthful, Exchange, Check, Failed
<1>3. /\ r.version = c.version /\ r.group = p[1] /\ r.signature = p[2]
  BY <1>2 DEF Connected
<1>4. r.version = PolicyVersion /\ r.group = PolicyGroup /\ r.signature = PolicySignature
  BY DEF Check
<1>5. c.version # "TLSv1.2"
  BY <1>3, <1>4 DEF PolicyVersion
<1>6. p \in (c.groups \cap OfferedGroups[client])
              \X (c.sigs \cap OfferedSignatures[client])
  BY <1>2, <1>5 DEF Agreements, ServerGroups
<1>7. QED BY <1>3, <1>4, <1>6

(* A forbidden client is satisfied only by a refusal, so the candidate shares *)
(* no pair of algorithms with it (gate_policy.evaluate, lines 37 to 49).      *)
LEMMA NegativeProbe ==
  ASSUME NEW c \in ConfigType, NEW client \in Forbidden, NEW r,
         Truthful(c, client, r), CheckNegative(client, r) = "OK"
  PROVE  Agreements(c, client) = {}
<1>1. r # None /\ Conclusive(r)
  BY DEF CheckNegative
<1>2. r \notin Unusable
  BY <1>1 DEF CheckNegative, Conclusive, Unusable, Faulted, Failed
<1>3. SUFFICES ASSUME Agreements(c, client) # {} PROVE FALSE
  OBVIOUS
<1>4. r \in Exchange(c, client)
  BY <1>1, <1>2 DEF Truthful
<1>5. CASE ~c.trusted
  BY <1>1, <1>3, <1>4, <1>5 DEF Exchange, Failed, Conclusive
<1>6. CASE c.trusted
  BY <1>1, <1>3, <1>4, <1>6 DEF Exchange, Connected, Conclusive
<1>7. QED BY <1>5, <1>6 DEF ConfigType

(* The six outcomes together pin the configuration down.                      *)
LEMMA AllowedIsPqcOnly ==
  ASSUME NEW c \in ConfigType, NEW p, NEW extra,
         \A client \in Required : Truthful(c, client, p[client]) \/ p[client] \in Severed,
         \A client \in Forbidden : Truthful(c, client, p[client]),
         Evaluate(TRUE, p, extra) = {}
  PROVE  PqcOnly(c)
<1>1. \A client \in Required : Check(p[client]) = "OK"
  BY DEF Evaluate
<1>2. \A client \in Forbidden : CheckNegative(client, p[client]) = "OK"
  BY DEF Evaluate
<1>3. /\ c.version = PolicyVersion /\ PolicyGroup \in c.groups
      /\ PolicySignature \in c.sigs
  <2>1. p["pqc"] \notin Severed
    BY <1>1 DEF Required, Check, Severed, Failed
  <2> QED BY <1>1, <2>1, PositiveProbe DEF Required
<1>4. \A client \in Forbidden : Agreements(c, client) = {}
  BY <1>2, NegativeProbe
<1>5. c.groups \subseteq Groups /\ c.sigs \subseteq Signatures
  BY DEF ConfigType
<1>6. "X25519" \notin c.groups
  <2>1. Agreements(c, "classical_kem") = {}
    BY <1>4 DEF Forbidden
  <2>2. (c.groups \cap {"X25519"}) \X (c.sigs \cap {"haetae2"}) = {}
    BY <2>1, <1>3 DEF Agreements, ServerGroups, OfferedGroups,
       OfferedSignatures, OfferedVersion, PolicyVersion
  <2>3. <<"X25519", "haetae2">> \notin
          (c.groups \cap {"X25519"}) \X (c.sigs \cap {"haetae2"})
    BY <2>2
  <2>4. QED BY <2>3, <1>3 DEF PolicySignature
<1>7. "ecdsa_secp256r1_sha256" \notin c.sigs
  <2>1. Agreements(c, "classical_signature") = {}
    BY <1>4 DEF Forbidden
  <2>2. (c.groups \cap {"smaug1"}) \X (c.sigs \cap {"ecdsa_secp256r1_sha256"}) = {}
    BY <2>1, <1>3 DEF Agreements, ServerGroups, OfferedGroups,
       OfferedSignatures, OfferedVersion, PolicyVersion
  <2>3. <<"smaug1", "ecdsa_secp256r1_sha256">> \notin
          (c.groups \cap {"smaug1"}) \X (c.sigs \cap {"ecdsa_secp256r1_sha256"})
    BY <2>2
  <2>4. QED BY <2>3, <1>3 DEF PolicyGroup
<1>8. QED
  BY <1>3, <1>5, <1>6, <1>7 DEF PqcOnly, Groups, Signatures, PolicyGroup,
     PolicySignature

LEMMA NoSevered == None \notin Severed
<1>1. Severed \subseteq RecordType
  BY DEF Severed, Failed, RecordType, Groups, Signatures, Versions, PolicyVersion
<1> QED BY <1>1, NoneAssumption

-----------------------------------------------------------------------------
(* Evidence is truthful, and an approval was given on truthful evidence.      *)
GateInv ==
  /\ config \in Configs
  /\ DOMAIN probes = Clients
  /\ probes = [c \in Clients |-> probes[c]]
  /\ \A c \in Clients : Truthful(config, c, probes[c]) \/ c \in cut
  /\ \A c \in cut : probes[c] \in Severed
  /\ ApprovedIsPqcOnly

LEMMA GateInvariant == Spec => []GateInv
<1>1. Init => GateInv
  BY NoneAssumption DEF Init, GateInv, Truthful, ApprovedIsPqcOnly
<1>2. GateInv /\ [Next]_vars => GateInv'
  <2> SUFFICES ASSUME GateInv, [Next]_vars PROVE GateInv'
    OBVIOUS
  <2>1. ASSUME NEW client \in Clients, Probe(client) PROVE GateInv'
    <3>1. PICK r \in Exchange(config, client) \cup Unusable :
            probes' = [probes EXCEPT ![client] = r]
      BY <2>1 DEF Probe, Record
    <3>2. config' = config /\ decision' = None /\ cut' = cut /\ client \notin cut
      BY <2>1, NoSevered DEF Probe, Record, Turn, GateInv
    <3>3. \A c \in Clients : Truthful(config, c, probes'[c]) \/ c \in cut
      BY <3>1 DEF GateInv, Truthful
    <3>4. ApprovedIsPqcOnly'
      BY <3>2, NoneAssumption DEF ApprovedIsPqcOnly
    <3>5. \A c \in cut : probes'[c] \in Severed
      BY <3>1, <3>2 DEF GateInv
    <3>6. QED BY <3>1, <3>2, <3>3, <3>4, <3>5 DEF GateInv
  <2>2. ASSUME NEW client \in Clients, ProbeSevered(client) PROVE GateInv'
    <3>1. PICK r \in Severed : probes' = [probes EXCEPT ![client] = r]
      BY <2>2 DEF ProbeSevered, Record
    <3>2. config' = config /\ decision' = None /\ cut' = cut \cup {client}
      BY <2>2 DEF ProbeSevered, Record, Turn
    <3>3. \A c \in Clients : Truthful(config, c, probes'[c]) \/ c \in cut'
      BY <3>1, <3>2 DEF GateInv
    <3>4. ApprovedIsPqcOnly'
      BY <3>2, NoneAssumption DEF ApprovedIsPqcOnly
    <3>5. \A c \in cut' : probes'[c] \in Severed
      BY <3>1, <3>2 DEF GateInv
    <3>6. QED BY <3>1, <3>2, <3>3, <3>4, <3>5 DEF GateInv
  <2>3. CASE Decide
    <3>1. PICK extra : decision' = Evaluate(TRUE, probes, extra)
      BY <2>3 DEF Decide
    <3>2. config' = config /\ probes' = probes /\ cut' = cut
      BY <2>3 DEF Decide
    <3>3. config \in ConfigType
      BY ConfigsAssumption DEF GateInv
    <3>4. ASSUME decision' = {}, cut \cap Forbidden = {} PROVE PqcOnly(config)
      <4>1. \A c \in Required : Truthful(config, c, probes[c]) \/ probes[c] \in Severed
        BY DEF GateInv, Clients
      <4>2. \A c \in Forbidden : Truthful(config, c, probes[c])
        BY <3>4 DEF GateInv, Clients
      <4> QED BY <3>1, <3>3, <3>4, <4>1, <4>2, AllowedIsPqcOnly
    <3>5. ApprovedIsPqcOnly'
      BY <3>2, <3>4 DEF ApprovedIsPqcOnly
    <3>6. QED BY <3>2, <3>5 DEF GateInv
  <2>4. CASE UNCHANGED vars
    BY <2>4 DEF vars, GateInv, ApprovedIsPqcOnly
  <2>5. QED BY <2>1, <2>2, <2>3, <2>4 DEF Next
<1> QED BY <1>1, <1>2, PTL DEF Spec

(* ApprovedIsPqcOnly is an invariant of the gate for every set of candidate   *)
(* configurations.                                                            *)
THEOREM ApprovalIsSound == Spec => []ApprovedIsPqcOnly
<1>1. GateInv => ApprovedIsPqcOnly
  BY DEF GateInv
<1> QED BY <1>1, GateInvariant, PTL

-----------------------------------------------------------------------------
(* The records are of their type, and a decision is about those at hand.      *)
LEMMA RecordsTyped ==
  ASSUME NEW c \in ConfigType, NEW client \in Clients
  PROVE  Exchange(c, client) \cup Unusable \cup Severed \subseteq RecordType
<1>1. /\ Faulted \in RecordType /\ Failed(1, 0) \in RecordType /\ Failed(1, 18) \in RecordType
      /\ Failed(2, 0) \in RecordType /\ Failed(5, 0) \in RecordType
  BY DEF Faulted, Failed, RecordType, Groups, Signatures, Versions, PolicyVersion
<1>2. ASSUME NEW p \in Agreements(c, client) PROVE Connected(c, p) \in RecordType
  <2>1. p[1] \in Groups /\ p[2] \in Signatures /\ c.version \in Versions
    BY <1>2 DEF Agreements, ServerGroups, Groups, ConfigType
  <2> QED BY <2>1 DEF Connected, RecordType, PolicyCipher
<1> QED BY <1>1, <1>2 DEF Exchange, Unusable, Severed

RecordInv ==
  /\ cut \subseteq Clients
  /\ probes \in [Clients -> RecordType \cup {None}]
  /\ decision # None => \E extra : decision = Evaluate(TRUE, probes, extra)
  /\ \A c \in Clients : Truthful(config, c, probes[c]) \/ c \in cut
  /\ config \in Configs

LEMMA RecordInvariant == Spec => []RecordInv
<1>1. Init => RecordInv
  BY DEF Init, RecordInv, Truthful
<1>2. GateInv /\ RecordInv /\ [Next]_vars => RecordInv'
  <2> SUFFICES ASSUME GateInv, RecordInv, [Next]_vars PROVE RecordInv'
    OBVIOUS
  <2>1. ASSUME NEW client \in Clients, Probe(client) \/ ProbeSevered(client) PROVE RecordInv'
    <3>1. config \in ConfigType
      BY ConfigsAssumption DEF RecordInv
    <3>2. PICK r \in Exchange(config, client) \cup Unusable \cup Severed :
            /\ probes' = [probes EXCEPT ![client] = r]
            /\ r \in Exchange(config, client) \cup Unusable \/ client \in cut'
      BY <2>1 DEF Probe, ProbeSevered, Record
    <3>3. config' = config /\ decision' = None /\ cut' \in {cut, cut \cup {client}}
      BY <2>1 DEF Probe, ProbeSevered, Record, Turn
    <3>4. r \in RecordType
      BY <3>1, RecordsTyped
    <3> QED BY <3>2, <3>3, <3>4 DEF RecordInv, Truthful
  <2>2. CASE Decide
    BY <2>2 DEF Decide, RecordInv
  <2>3. CASE UNCHANGED vars
    BY <2>3 DEF vars, RecordInv
  <2> QED BY <2>1, <2>2, <2>3 DEF Next
<1> QED BY <1>1, <1>2, GateInvariant, PTL DEF Spec

(* The one pair of algorithms a required client and a PQC-only server share.  *)
LEMMA RequiredAgree ==
  ASSUME NEW c \in ConfigType, PqcOnly(c), NEW client \in Required
  PROVE  Agreements(c, client) = {<<"smaug1", "haetae2">>}
<1>1. c.groups = {"smaug1"} /\ c.sigs = {"haetae2"} /\ c.version = "TLSv1.3"
  BY DEF PqcOnly, PolicyGroup, PolicySignature, PolicyVersion
<1>2. /\ "smaug1" \in OfferedGroups[client] /\ "haetae2" \in OfferedSignatures[client]
      /\ OfferedVersion(client) = "TLSv1.3"
  BY DEF Required, OfferedGroups, OfferedSignatures, OfferedVersion
<1>3. ServerGroups(c) = {"smaug1"}
  BY <1>1 DEF ServerGroups
<1>4. Agreements(c, client) = {"smaug1"} \X {"haetae2"}
  BY <1>1, <1>2, <1>3 DEF Agreements
<1> QED BY <1>4

LEMMA ForbiddenDisagree ==
  ASSUME NEW c \in ConfigType, PqcOnly(c), NEW client \in Forbidden
  PROVE  Agreements(c, client) = {}
BY DEF PqcOnly, Agreements, ServerGroups, Forbidden, OfferedGroups, OfferedSignatures,
       OfferedVersion, PolicyGroup, PolicySignature, PolicyVersion

(* A PQC-only, trusted candidate whose probes all ran to their end passes     *)
(* every test of gate_policy.evaluate, except a demand for classical clients. *)
THEOREM SecureIsAdmitted == Spec => []SecureIsNotRefused
<1>1. RecordInv => SecureIsNotRefused
  <2> SUFFICES ASSUME RecordInv, decision # None, PqcOnly(config), config.trusted, cut = {},
                      \A c \in Clients : probes[c] \notin Unusable \cup {None}
               PROVE  decision \subseteq {"REQUIRED_CLIENT_INCOMPATIBLE"}
    BY DEF SecureIsNotRefused
  <2>1. config \in ConfigType
    BY ConfigsAssumption DEF RecordInv
  <2>2. \A c \in Clients : probes[c] \in Exchange(config, c)
    BY DEF RecordInv, Truthful
  <2>3. ASSUME NEW c \in Required PROVE Check(probes[c]) = "OK"
    <3>1. c \in Clients
      BY DEF Clients
    <3>2. Agreements(config, c) = {<<"smaug1", "haetae2">>}
      BY <2>1, RequiredAgree
    <3>3. probes[c] = Connected(config, <<"smaug1", "haetae2">>)
      BY <2>2, <3>1, <3>2 DEF Exchange
    <3>4. probes[c] # None
      BY <3>1
    <3>5. None \notin {0, "smaug1", "haetae2", "TLSv1.3", PolicyCipher}
      BY NoneAssumption DEF Groups, Signatures, Versions
    <3> QED BY <3>3, <3>4, <3>5 DEF Connected, Check, PqcOnly, PolicyGroup, PolicySignature,
               PolicyVersion
  <2>4. ASSUME NEW c \in Forbidden PROVE CheckNegative(c, probes[c]) = "OK"
    <3>1. c \in Clients
      BY DEF Clients
    <3>2. probes[c] = Failed(1, 0)
      BY <2>1, <2>2, <3>1, ForbiddenDisagree DEF Exchange
    <3>3. probes[c] # None
      BY <3>1
    <3> QED BY <3>2, <3>3, NoneAssumption DEF Failed, CheckNegative, Conclusive
  <2>5. PICK extra : decision = Evaluate(TRUE, probes, extra)
    BY DEF RecordInv
  <2> QED BY <2>3, <2>4, <2>5 DEF Evaluate
<1> QED BY <1>1, RecordInvariant, PTL

(* Evidence and verdicts have their types.                                    *)
THEOREM ProbingTypes == Spec => []TypeOK
<1>1. RecordInv => TypeOK
  <2> SUFFICES ASSUME RecordInv, decision # None PROVE decision \subseteq Reasons
    BY DEF RecordInv, TypeOK
  <2>1. PICK extra : decision = Evaluate(TRUE, probes, extra)
    BY DEF RecordInv
  <2>2. \A r : Check(r) \in Reasons \cup {"OK"}
    BY DEF Check, Reasons
  <2>3. \A c, r : CheckNegative(c, r) \in Reasons \cup {"OK"}
    BY DEF CheckNegative, Reasons
  <2>4. "REQUIRED_CLIENT_INCOMPATIBLE" \in Reasons
    BY DEF Reasons
  <2> QED BY <2>1, <2>2, <2>3, <2>4 DEF Evaluate
<1> QED BY <1>1, RecordInvariant, PTL
===============================================================================
