---------------------------- MODULE ReleaseContract ----------------------------
(***************************************************************************)
(* What the release procedure promises to the users of the active service,  *)
(* without files, processes or evidence: the service moves to generations    *)
(* that were never active before and refuse classical clients, and back only *)
(* to generations whose release was completed.                               *)
(***************************************************************************)
EXTENDS Integers

VARIABLES
  gen,      \* the generation that is active
  secure,   \* it refuses every classical client
  trusted   \* generations whose release was completed

Init ==
  /\ gen = 0
  /\ secure \in BOOLEAN
  /\ trusted = {}

Admit ==
  /\ gen' \in Nat
  /\ gen' > gen
  /\ \A t \in trusted : gen' > t
  /\ secure' = TRUE
  /\ UNCHANGED trusted

Complete ==
  /\ secure
  /\ trusted' = trusted \cup {gen}
  /\ UNCHANGED <<gen, secure>>

Restore ==
  /\ gen' \in trusted
  /\ secure' = TRUE
  /\ UNCHANGED trusted

Next == Admit \/ Complete \/ Restore

Spec == Init /\ [][Next]_<<gen, secure, trusted>>
================================================================================
