----------------------------- MODULE MCLogRing ------------------------------
(* Instances of LogRing for TLC. *)
EXTENDS LogRing

CONSTANTS log, logwf

TwoRings == << log, logwf >>
OneRing == << log >>
=============================================================================
