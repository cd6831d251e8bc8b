----------------------------- MODULE MCArmChain -----------------------------
(* Instances of ArmChain for TLC.                                          *)
EXTENDS ArmChain
=============================================================================
