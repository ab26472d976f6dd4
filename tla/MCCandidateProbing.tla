-------------------------- MODULE MCCandidateProbing --------------------------
(* Every configuration with at least one group and one signature algorithm,   *)
(* of which the seven candidates of gate_worker.main are instances.           *)
EXTENDS CandidateProbing

AllConfigs ==
  {c \in ConfigType : c.groups # {} /\ c.sigs # {}}
===============================================================================
