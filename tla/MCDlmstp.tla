------------------------------ MODULE MCDlmstp ------------------------------
(* Values of the constants of Dlmstp for TLC: two stations that have used  *)
(* the same invoke id, so that the code takes the reply to one for the     *)
(* reply to the other, or one station.                                     *)
EXTENDS Dlmstp

SameID == {[src |-> 1, id |-> 1], [src |-> 2, id |-> 1]}
OneRequest == {[src |-> 1, id |-> 1]}
=============================================================================
