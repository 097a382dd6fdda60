---------------------------- MODULE MCWhitelist -----------------------------
(* Instances of Whitelist for TLC. *)
EXTENDS Whitelist

CONSTANT Stranger

TwoThreads == {Checker, Stranger}
AllEvents == (0 .. MaxChanges + 1) \cup {Other}
=============================================================================
