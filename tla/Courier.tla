------------------------------- MODULE Courier -------------------------------
(***************************************************************************)
(* What Tarion promises the sender of a message, whichever way it goes:    *)
(* the result send or flushOutbox reports (main.go) is final and true, a   *)
(* letter stays on the server until its message was taken or refused, or   *)
(* the server let it go (too old, or the mailbox removed), and nothing     *)
(* arrives that was not sent.                                              *)
(*                                                                         *)
(* Delivery implements this with streams, an outbox, letters, a duplicate  *)
(* filter and processes that stop.                                         *)
(***************************************************************************)
CONSTANTS Msg

VARIABLES
    told,  \* what the sender's user has been told of each message
    has,   \* messages the receiver took
    box,   \* messages with a letter on the server
    gone,  \* messages the receiver logged as refused
    lapsed \* messages whose last letter the server let go

vars == <<told, has, box, gone, lapsed>>

Underway(m) == told[m] \in {"sending", "queued"}

Init == told = [m \in Msg |-> "new"] /\ has = {} /\ box = {} /\ gone = {} /\ lapsed = {}

Send(m) ==
    /\ told[m] = "new"
    /\ told' = [told EXCEPT ![m] = "sending"]
    /\ UNCHANGED <<has, box, gone, lapsed>>

\* Not delivered yet, and kept.
Queue(m) ==
    /\ told[m] = "sending"
    /\ told' = [told EXCEPT ![m] = "queued"]
    /\ UNCHANGED <<has, box, gone, lapsed>>

\* A letter reaches the server.
Post(m) ==
    /\ Underway(m)
    /\ box' = box \union {m}
    /\ lapsed' = lapsed \ {m}
    /\ UNCHANGED <<told, has, gone>>

\* A copy reaches the receiver, which takes it or logs that it refused it.  It
\* may do so long after the sender was told a result.
Take(m) ==
    /\ told[m] # "new"
    /\ has' = has \union {m}
    /\ UNCHANGED <<told, box, gone, lapsed>>

Refuse(m) ==
    /\ told[m] # "new"
    /\ gone' = gone \union {m}
    /\ UNCHANGED <<told, has, box, lapsed>>

\* The server deletes letters that were acknowledged.
Discard(ms) ==
    /\ ms \subseteq has \union gone
    /\ box' = box \ ms
    /\ UNCHANGED <<told, has, gone, lapsed>>

\* The server deletes letters nobody acknowledged, and keeps no other copy.
Lapse(ms) ==
    /\ ms \subseteq box
    /\ box' = box \ ms
    /\ lapsed' = lapsed \union ms
    /\ UNCHANGED <<told, has, gone>>

\* The results there are, and what each of them says.
True(m, result) ==
    \/ result = "delivered" /\ m \in has
    \/ result = "mailed" /\ m \in has \union box \union gone \union lapsed
    \/ result = "failed"

Report(m, result) ==
    /\ Underway(m)
    /\ True(m, result)
    /\ told' = [told EXCEPT ![m] = result]
    /\ UNCHANGED <<has, box, gone, lapsed>>

Next ==
    \/ \E m \in Msg : Send(m) \/ Queue(m) \/ Post(m) \/ Take(m) \/ Refuse(m)
    \/ \E ms \in SUBSET Msg : Discard(ms) \/ Lapse(ms)
    \/ \E m \in Msg, result \in {"delivered", "mailed", "failed"} : Report(m, result)

Spec == Init /\ [][Next]_vars
=============================================================================
