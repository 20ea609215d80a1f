----------------------------- MODULE MCDelivery -----------------------------
(* Delivery for TLC.  When every message has its result the sender rests;   *)
(* the explicit step keeps deadlock checking on for every other state.      *)
EXTENDS Delivery

Rest ==
    /\ \A m \in Msg : told[m] # "new" /\ call[m] = "none"
    /\ outbox = {}
    /\ UNCHANGED vars

MCNext == Next \/ Rest
MCSpec == Init /\ [][MCNext]_vars
MCFairSpec == MCSpec /\ Fairness
=============================================================================
