---------------------------- MODULE MCAccounting ----------------------------
EXTENDS Report

(* The heat of other servers may be less than none.                        *)
MCInlets == {-20, 45, 61}
=============================================================================
