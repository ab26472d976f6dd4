---------------------------- MODULE MCMigrationLab ----------------------------
(* Values for the small instance of MigrationLab: both KEM families, and a     *)
(* second post-quantum signature algorithm for the combined sessions.          *)
EXTENDS MigrationLab

TwoFamilies     == <<"smaug1", "ntruplus_kem768">>
ThreeAlgorithms == {"EC", "haetae2", "aimer128f"}
================================================================================
