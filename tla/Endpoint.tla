------------------------------ MODULE Endpoint -------------------------------
(***************************************************************************)
(* The connections of one pair of clients: SendMessage, conn and dropConn  *)
(* on the sender's side, the accept loop of StartListener on the           *)
(* receiver's (internal/network/quic.go).                                  *)
(*                                                                         *)
(* Several sends to one address share the connection nm.conns holds for    *)
(* it; a connection may die without either end noticing, and the receiver  *)
(* serves no more than maxActiveConns at a time.  What is sent is the      *)
(* subject of module Delivery; here it is what becomes of connections.     *)
(*                                                                         *)
(* A send has a deadline.  That of a LAN candidate or of a relay session   *)
(* used before is brief: sendOnce gives it 3 s (main.go:846, 880), which   *)
(* is cachedAttemptTimeout, so that a first attempt that waits for its     *)
(* answer in vain leaves no time to dial again.                            *)
(***************************************************************************)
EXTENDS Naturals, FiniteSets

CONSTANTS
    Sender,     \* goroutines that send to the address
    MaxActive,  \* maxActiveConns
    MaxConns,   \* bound: connections dialed
    MaxSendsOn, \* bound: sends
    MaxDeaths   \* bound: connections and dials that fail

ASSUME EndpointAssumption ==
    /\ {MaxActive, MaxConns} \subseteq Nat \ {0}
    /\ {MaxSendsOn, MaxDeaths} \subseteq Nat

VARIABLES
    cached,   \* nm.conns[addr], or 0
    conns,    \* the state of each connection, at the two ends
    dialed,   \* how many connections were dialed
    stage,    \* where each sender is
    begun,    \* how many sends have begun
    active,   \* the receiver's count of connections
    deaths,   \* how many of those bounded by MaxDeaths have happened
    marred    \* history: connections that died, or were closed by another send

endpointVars == <<cached, conns, dialed, stage, begun, active, deaths, marred>>

ConnId == 1..MaxConns

\* near: none, open, or closed; far: none, queued for the accept loop, counted,
\* served, refused or ended.  A connection that is dead is open at both ends.
Unused == [near |-> "none", far |-> "none", dead |-> FALSE]
Rests == [at |-> "idle", conn |-> 0, cached |-> FALSE, again |-> FALSE, brief |-> FALSE, late |-> FALSE]

EndpointInit ==
    /\ cached = 0
    /\ conns = [i \in ConnId |-> Unused]
    /\ dialed = 0
    /\ stage = [s \in Sender |-> Rests]
    /\ begun = 0 /\ active = 0 /\ deaths = 0 /\ marred = {}

Death == deaths < MaxDeaths /\ deaths' = deaths + 1

\* Both ends can still use it.
Live(i) == conns[i].near = "open" /\ conns[i].far \in {"queued", "served"} /\ ~conns[i].dead

-----------------------------------------------------------------------------
(* The sender.                                                             *)

\* SendMessage, conn: the cached connection, unless it is known to be closed, or
\* a new one.
BeginsSend(s) ==
    LET use == cached # 0 /\ conns[cached].near = "open" IN
    /\ stage[s] = Rests /\ begun < MaxSendsOn
    /\ begun' = begun + 1
    /\ \E brief \in BOOLEAN :
           stage' = [stage EXCEPT ![s] =
               [Rests EXCEPT !.at = IF use THEN "verify" ELSE "dial",
                             !.conn = IF use THEN cached ELSE 0, !.cached = use, !.brief = brief]]
    /\ UNCHANGED <<cached, conns, dialed, active, deaths, marred>>

\* The address is dialed.
DialsNew(s) ==
    /\ stage[s].at = "dial" /\ ~stage[s].late /\ dialed < MaxConns
    /\ dialed' = dialed + 1
    /\ stage' = [stage EXCEPT ![s] = [@ EXCEPT !.at = "cache", !.conn = dialed']]
    /\ conns' = [conns EXCEPT ![dialed'] = [near |-> "open", far |-> "queued", dead |-> FALSE]]
    /\ UNCHANGED <<cached, begun, active, deaths, marred>>

\* The end of a connection the sender closes: the receiver hears of it, unless
\* it is dead.
Closed(c) == [c EXCEPT !.near = "closed"]

\* Mutant: the connection that was cached is left open.
CachesOnly(s) ==
    /\ stage[s].at = "cache"
    /\ cached' = stage[s].conn
    /\ stage' = [stage EXCEPT ![s].at = "verify"]
    /\ UNCHANGED <<conns, dialed, begun, active, deaths, marred>>

\* What was cached, by another send meanwhile, is closed.
Caches(s) ==
    LET i == stage[s].conn IN
    /\ stage[s].at = "cache"
    /\ cached' = i
    /\ conns' = IF cached \notin {0, i} THEN [conns EXCEPT ![cached] = Closed(@)] ELSE conns
    /\ marred' = marred \union ({cached} \ {0, i})
    /\ stage' = [stage EXCEPT ![s].at = "verify"]
    /\ UNCHANGED <<dialed, begun, active, deaths>>

DialFails(s) ==
    /\ stage[s].at = "dial" /\ Death
    /\ stage' = [stage EXCEPT ![s] = Rests]
    /\ UNCHANGED <<cached, conns, dialed, begun, active, marred>>

\* The deadline has passed: Dial fails at once.
DialsLate(s) ==
    /\ stage[s].at = "dial" /\ stage[s].late
    /\ stage' = [stage EXCEPT ![s] = Rests]
    /\ UNCHANGED <<cached, conns, dialed, begun, active, deaths, marred>>

\* dropConn.
Drops(s) ==
    LET i == stage[s].conn IN
    /\ cached' = IF cached = i THEN 0 ELSE cached
    /\ conns' = [conns EXCEPT ![i] = Closed(@)]
    /\ marred' = marred \union {i}

\* The certificate the connection was made with is the one wanted ...
Verifies(s) ==
    /\ stage[s].at = "verify"
    /\ stage' = [stage EXCEPT ![s].at = "stream"]
    /\ UNCHANGED <<cached, conns, dialed, begun, active, deaths, marred>>

\* ... or not, whether or not the connection is still alive: it is dropped for
\* all, and the send is over.
VerifyRefuses(s) ==
    /\ stage[s].at = "verify"
    /\ stage' = [stage EXCEPT ![s] = Rests]
    /\ Drops(s)
    /\ UNCHANGED <<dialed, begun, active, deaths>>

\* sendOnStream: acknowledged over a connection that is served.
Acknowledged(s) ==
    /\ stage[s].at = "stream"
    /\ Live(stage[s].conn) /\ conns[stage[s].conn].far = "served"
    /\ stage' = [stage EXCEPT ![s] = Rests]
    /\ UNCHANGED <<cached, conns, dialed, begun, active, deaths, marred>>

\* Mutant: there is one attempt only.
StreamFailsOnce(s) ==
    /\ stage[s].at = "stream"
    /\ stage' = [stage EXCEPT ![s] = Rests]
    /\ Drops(s)
    /\ UNCHANGED <<dialed, begun, active, deaths>>

\* ... or not: the connection is closed or dead, the receiver does not take it
\* up, or the answer takes too long.  A cached one is followed by a second
\* attempt with a fresh one, late if the first has waited out a brief deadline.
StreamFails(s) ==
    /\ stage[s].at = "stream"
    /\ stage' = [stage EXCEPT ![s] =
           IF stage[s].cached
           THEN [Rests EXCEPT !.at = "dial", !.again = TRUE, !.brief = stage[s].brief,
                              !.late = stage[s].brief /\ conns[stage[s].conn].near = "open"]
           ELSE Rests]
    /\ Drops(s)
    /\ UNCHANGED <<dialed, begun, active, deaths>>

\* The other end answers that it refuses the message (RejectedError).
Rejected(s) ==
    /\ stage[s].at = "stream"
    /\ Live(stage[s].conn) /\ conns[stage[s].conn].far = "served"
    /\ stage' = [stage EXCEPT ![s] = Rests]
    /\ Drops(s)
    /\ UNCHANGED <<dialed, begun, active, deaths>>

\* A connection dies: neither end has noticed.
Dies(i) ==
    /\ conns[i].near = "open" /\ ~conns[i].dead /\ Death
    /\ conns' = [conns EXCEPT ![i].dead = TRUE]
    /\ marred' = marred \union {i}
    /\ UNCHANGED <<cached, dialed, stage, begun, active>>

\* The sender's end notices (the idle timeout), or hears of a refusal.
Notices(i) ==
    /\ conns[i].near = "open" /\ (conns[i].dead \/ conns[i].far \in {"refused", "ended"})
    /\ conns' = [conns EXCEPT ![i] = Closed(@)]
    /\ UNCHANGED <<cached, dialed, stage, begun, active, deaths, marred>>

-----------------------------------------------------------------------------
(* The receiver.                                                           *)

\* Mutant: a refused connection keeps its place.
AcceptsCounted(i) ==
    /\ conns[i].far = "queued"
    /\ active' = active + 1
    /\ conns' = [conns EXCEPT ![i].far = IF active' > MaxActive THEN "refused" ELSE "served"]
    /\ UNCHANGED <<cached, dialed, stage, begun, deaths, marred>>

\* The accept loop: the count is raised, and lowered again for a connection that
\* is one too many.
Accepts(i) ==
    /\ conns[i].far = "queued"
    /\ IF active + 1 > MaxActive
       THEN conns' = [conns EXCEPT ![i].far = "refused"] /\ UNCHANGED active
       ELSE conns' = [conns EXCEPT ![i].far = "served"] /\ active' = active + 1
    /\ UNCHANGED <<cached, dialed, stage, begun, deaths, marred>>

\* handleConnection returns: the other end closed it, or it was idle for long.
EndsServing(i) ==
    /\ conns[i].far = "served" /\ (conns[i].near = "closed" \/ conns[i].dead)
    /\ conns' = [conns EXCEPT ![i].far = "ended"]
    /\ active' = active - 1
    /\ UNCHANGED <<cached, dialed, stage, begun, deaths, marred>>

-----------------------------------------------------------------------------
SendStep(s) ==
    \/ BeginsSend(s) \/ DialsNew(s) \/ Caches(s) \/ DialFails(s) \/ DialsLate(s)
    \/ Verifies(s) \/ VerifyRefuses(s)
    \/ Acknowledged(s) \/ StreamFails(s) \/ Rejected(s)

ConnStep(i) == Dies(i) \/ Notices(i) \/ Accepts(i) \/ EndsServing(i)

EndpointNext == (\E s \in Sender : SendStep(s)) \/ (\E i \in ConnId : ConnStep(i))

EndpointSpec == EndpointInit /\ [][EndpointNext]_endpointVars

-----------------------------------------------------------------------------
(* Properties.                                                             *)

\* The variables hold values of their types.
EndpointTypeOK ==
    /\ cached \in ConnId \union {0} /\ dialed \in 0..MaxConns
    /\ conns \in [ConnId -> [near : {"none", "open", "closed"},
                             far : {"none", "queued", "served", "refused", "ended"}, dead : BOOLEAN]]
    /\ stage \in [Sender -> [at : {"idle", "dial", "cache", "verify", "stream"}, conn : ConnId \union {0},
                             cached : BOOLEAN, again : BOOLEAN, brief : BOOLEAN, late : BOOLEAN]]
    /\ begun \in 0..MaxSendsOn /\ active \in 0..MaxActive /\ deaths \in 0..MaxDeaths
    /\ marred \subseteq ConnId

\* A connection the sender has open is the one in the cache, or a send still has
\* it in hand: no race of sends forgets one (conn, dropConn).
NothingLeaks ==
    \A i \in ConnId : conns[i].near = "open" =>
        i = cached \/ \E s \in Sender : stage[s].conn = i

\* A send whose certificate was accepted is not given up for a connection from
\* the cache: what failed then is one it dialed itself, which died, was refused,
\* or was closed by another send that dialed the same address.  Only a send with
\* a brief deadline is given up for want of time, without another dial
\* (SendMessage).  A cached connection whose certificate is not the one wanted
\* ends the send without a second attempt, also when it is dead.
StaleIsRetried ==
    [][\A s \in Sender :
         LET i == stage[s].conn IN
         /\ (stage[s].at = "stream" /\ stage'[s] = Rests /\ ~Live(i)) =>
                ~stage[s].cached /\ (i \in marred \/ conns[i].far = "refused")
         /\ (stage[s].at = "dial" /\ stage'[s] = Rests /\ deaths' = deaths) =>
                stage[s].again /\ stage[s].brief]_endpointVars

-----------------------------------------------------------------------------
(* What a comment says, which the code does not keep.                      *)

\* "Give it only this long before redialing, so the fresh attempt still has
\* most of the deadline" (quic.go:38): the second attempt has time to dial.
RedialHasTime == \A s \in Sender : stage[s].again => ~stage[s].late
=============================================================================
