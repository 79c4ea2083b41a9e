---------------------------- MODULE MCDiscovery ----------------------------
(* Finite instance of Discovery: three attempts that do not all fit.        *)
EXTENDS Discovery

MCBackoff == <<1, 2>>
=============================================================================
