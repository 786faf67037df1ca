------------------------------- MODULE MC_Probe -------------------------------
(* Instances of Probe for TLC. *)
EXTENDS Probe

AnyUrl == {"http", "invalid", "otherProtocol", "badHeaders"}
==============================================================================
