----------------------------- MODULE MCTouchpad -----------------------------
(* Touchpad with model values for the thread and the services. *)
EXTENDS Touchpad
=============================================================================
