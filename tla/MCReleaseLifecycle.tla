-------------------------- MODULE MCReleaseLifecycle --------------------------
(* Values for the small instances of ReleaseLifecycle: two PQC-only versions, *)
(* so that a route can be confused with another's, and one that also accepts  *)
(* classical clients.                                                         *)
EXTENDS ReleaseLifecycle

OnePqcVersion  == {"good"}
TwoVersions    == {"good", "mixed"}
TwoPqcVersions == {"good", "good2"}
AllCandidates  == {"good", "good2", "mixed"}
ClientKinds    == {"active", "candidate"}
================================================================================
