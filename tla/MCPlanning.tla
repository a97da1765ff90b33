------------------------------ MODULE MCPlanning ------------------------------
(***************************************************************************)
(* Small instances of Planning: one request to the Core, or two at once.   *)
(***************************************************************************)
EXTENDS Planning

CONSTANTS c1, c2
===============================================================================
