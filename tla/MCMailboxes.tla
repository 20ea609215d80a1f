----------------------------- MODULE MCMailboxes -----------------------------
(* Accounts and Mailboxes for TLC.  With every request answered and nothing *)
(* left for the operator's requests the server rests; the explicit step     *)
(* keeps deadlock checking on for every other state, such as one in which   *)
(* nobody gives a slot back.                                                *)
EXTENDS Mailboxes

Rest ==
    /\ \A o \in Op : op[o].step \notin InProgress
    /\ \A s \in Sender : put[s] = NoPut
    /\ pending = {} /\ loop = None
    /\ UNCHANGED dataVars

MCNext == DataNext \/ Rest
MCFairSpec == DataInit /\ [][MCNext]_dataVars /\ DataFairness
=============================================================================
