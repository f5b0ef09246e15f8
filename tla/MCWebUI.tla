------------------------------ MODULE MCWebUI ------------------------------
(***************************************************************************)
(* WebUI with two versions and two chains: one chain polls while the other *)
(* selects, edits, verifies again or simulates.                            *)
(***************************************************************************)
EXTENDS WebLadder, TLC
=============================================================================
