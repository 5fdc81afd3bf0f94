---------------------------- MODULE MCMarketplace ----------------------------
(* Small instance of EnerMeshMarketplace for TLC. *)
EXTENDS EnerMeshMarketplace
=============================================================================
