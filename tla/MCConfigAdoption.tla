-------------------------- MODULE MCConfigAdoption --------------------------
(* Instances of ConfigAdoption for TLC.                                    *)
EXTENDS ConfigAdoption
=============================================================================
