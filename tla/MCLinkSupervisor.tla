-------------------------- MODULE MCLinkSupervisor --------------------------
(* Instances of LinkSupervisor for TLC.                                    *)
EXTENDS LinkSupervisor

\* What follows a start that overtook another call.
NotOvertaken == ~overtaken
=============================================================================
