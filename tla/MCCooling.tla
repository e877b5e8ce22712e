----------------------------- MODULE MCCooling -----------------------------
(* Model checking of Cooling: the air takes one second to the first server, *)
(* two to the second, and the buffers have the smallest size that holds it. *)
EXTENDS Cooling

(* Recirculated air may be colder than the supply. *)
MCHeats == {-2, 0, 4}

MCTravel == [s \in Servers |-> s]

=============================================================================
