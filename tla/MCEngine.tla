------------------------------ MODULE MCEngine ------------------------------
(***************************************************************************)
(* CacheEngine for TLC.  Client threads run the same code and no definition *)
(* chooses between them, so states that differ by a renaming of the clients *)
(* are the same for the invariants.                                        *)
(***************************************************************************)
EXTENDS EngineProperties, TLC

ClientSymmetry == Permutations(Clients)
=============================================================================
