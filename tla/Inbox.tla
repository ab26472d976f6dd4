-------------------------------- MODULE Inbox --------------------------------
(***************************************************************************)
(* The receiver of signed statements in scripts/lab.py: what sign makes of  *)
(* a statement, and the checks receive and validate_xml apply to a bundle,  *)
(* in their order.  A check that fails raises Rejected with its reason; the *)
(* first one to fail decides.  Cryptography is ideal: a signature verifies  *)
(* under the key of its signer and over the message it was made for.        *)
(***************************************************************************)
EXTENDS Integers, Sequences, SequencesExt

CONSTANTS
  Algorithms,   \* signature algorithms, each with a key pair of that name
  Classical,    \* the classical one of them
  Required      \* the post-quantum algorithm the migration is tried with

ASSUME AlgorithmsAssumption ==
  Classical \in Algorithms /\ Required \in Algorithms \ {Classical}

Accepted == "accepted"

\* checks is a sequence of <<reason, holds>>.
FirstRefusal(checks) ==
  LET refusals == {i \in DOMAIN checks : ~ checks[i][2]}
  IN  IF refusals = {} THEN Accepted ELSE checks[Min(refusals)][1]

\* The synthetic account statement; amounts in units of 10000 KRW, debits
\* negative.  schema: the document conforms to the XSD.
Entry(ref, amount) == [ref |-> ref, amount |-> amount, status |-> "BOOK"]
Statement ==
  [entities |-> FALSE, schema |-> TRUE, stmts |-> 1, doc |-> "statement",
   currency |-> "KRW", amounts |-> {"KRW"},
   balances |-> << <<"OPBD", 100>>, <<"CLBD", 133>> >>,
   entries  |-> << Entry("1", 10), Entry("2", -2), Entry("3", 25) >>]

\* The sum of the amounts of the first n entries, for every n.
Total(entries) ==
  LET sum[n \in 0 .. Len(entries)] ==
        IF n = 0 THEN 0 ELSE sum[n - 1] + entries[n].amount
  IN  sum

\* amounts: the currencies of the document's amounts ("fraction": an amount
\* that is not a whole number).  None of its fields is missing.
Distinct(s) == \A i, j \in DOMAIN s : s[i] = s[j] => i = j
ValidateXml(x) ==
  LET code(i)  == x.balances[i][1]
      value(c) == x.balances[CHOOSE i \in DOMAIN x.balances : code(i) = c][2]
      change   == Total(x.entries)[Len(x.entries)]
  IN  FirstRefusal(
        << <<"xml_entities", ~ x.entities>>,
           <<"schema", x.schema>>,
           <<"account_scope", x.stmts = 1>>,
           <<"currency", x.currency = "KRW" /\ x.amounts \subseteq {"KRW"}>>,
           <<"duplicate_balance", Distinct([i \in DOMAIN x.balances |-> code(i)])>>,
           <<"entries", /\ Distinct([i \in DOMAIN x.entries |-> x.entries[i].ref])
                        /\ \A i \in DOMAIN x.entries : x.entries[i].status = "BOOK">>,
           <<"balance", /\ {code(i) : i \in DOMAIN x.balances} = {"OPBD", "CLBD"}
                        /\ value("OPBD") + change = value("CLBD")>> >>)

\* The metadata is signed together with the statement it carries.
Sign(alg, xml) ==
  LET message == [domain |-> "KPQC-LAB-STATEMENT-v1", policy |-> 1, alg |-> alg,
                  keyId |-> alg, doc |-> "statement", payload |-> xml]
  IN  [message |-> message, signer |-> alg, signed |-> message]

\* The registry of trusted public keys, by key id: whose key each one is.
Trust == [a \in Algorithms |-> a]

\* The verdict of receive; the duplicate check applies only with replay.
Receive(bundle, allowed, registry, known, replay) ==
  LET m == bundle.message
  IN  FirstRefusal(
        << <<"domain_policy", m.domain = "KPQC-LAB-STATEMENT-v1" /\ m.policy = 1>>,
           <<"algorithm_policy", m.alg \in allowed /\ m.keyId = m.alg>>,
           <<"untrusted_key", m.keyId \in DOMAIN registry>>,
           <<"signature", /\ m.keyId \in DOMAIN registry
                          /\ bundle.signer = registry[m.keyId]
                          /\ bundle.signed = m>>,
           <<ValidateXml(m.payload), ValidateXml(m.payload) = Accepted>>,
           <<"document_binding", m.doc = m.payload.doc>>,
           <<"duplicate", replay => m.doc \notin known>> >>)

\* An accepted document is remembered only when duplicates are refused.
Remember(bundle, verdict, known, replay) ==
  IF replay /\ verdict = Accepted THEN known \cup {bundle.message.doc} ELSE known
==============================================================================
