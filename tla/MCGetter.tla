------------------------------ MODULE MCGetter ------------------------------
(* Two definitions and two APIs: both may serve one API, or none. *)
EXTENDS PackageGetter, TLC

CONSTANTS d1, d2, v1, v2
=============================================================================
