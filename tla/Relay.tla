-------------------------------- MODULE Relay --------------------------------
(***************************************************************************)
(* The relay: server/server.go (openRelay, ServeRelay, sweepRelays), the   *)
(* socket wrapper of internal/relay, the directory client's Relay and      *)
(* handlePush, and the part of deliverMsg in main.go that chooses between  *)
(* direct attempts and the relay.                                          *)
(*                                                                         *)
(* Client a sends to its contact b.  Sessions of the relay live in four    *)
(* places that nobody keeps in step: the server's table, the sets of       *)
(* sessions the two sockets accept, and a's memory of the one it last      *)
(* used.  Each forgets by a clock of its own; connections, clients and the *)
(* server come and go.                                                     *)
(*                                                                         *)
(* Time passes in ticks of half a minute.  What was used is known by its   *)
(* age, which stops growing when it makes no more difference.              *)
(***************************************************************************)
EXTENDS Naturals, FiniteSets

CONSTANTS
    Cap,       \* MaxRelaysPerUser
    TTL,       \* relaySessionTTL, in ticks
    RelayIdle, \* relayIdle
    Memory,    \* relayMemory
    SessionIdle,  \* sessionIdle of the socket wrapper
    MaxSends,  \* bound: messages of a
    MaxLogins, \* bound: logins of each client
    MaxFaults  \* bound: lost packets and connections, refusals, restarts

ASSUME RelayAssumption ==
    /\ {Cap, TTL, MaxSends, MaxLogins} \subseteq Nat \ {0}
    /\ {RelayIdle, Memory, SessionIdle, MaxFaults} \subseteq Nat
    /\ TTL < RelayIdle /\ TTL < Memory /\ RelayIdle < SessionIdle

VARIABLES
    relays,    \* the server's table: open sessions of the relay
    opened,    \* how many it has opened
    online,    \* the login each client is online by, or 0
    ended,     \* logins whose connection the server knows to have ended
    from,      \* the address of each login
    up,        \* clients that take themselves to be connected
    logins,    \* how often each client has logged in
    accepted,  \* how long ago each client's socket saw each session it accepts
    memory,    \* what a remembers: the session it last used for b
    call,      \* where a's deliverMsg is
    sends,     \* how many messages a has sent
    answer,    \* the server's answer to a's request, on its way
    pushes,    \* sessions b is being told of
    packets,   \* relay packets on their way
    resent,    \* a's attempt has sent its packet again
    faults,    \* how many of those bounded by MaxFaults have happened
    hit        \* history: a fault, or a change of connections, met this call

tableVars == <<relays, opened>>
loginVars == <<online, ended, from, up, logins>>
netVars == <<answer, pushes, packets>>
callVars == <<memory, call, sends, resent, hit>>
relayVars == <<tableVars, loginVars, accepted, netVars, callVars, faults>>

Client == {"a", "b"}

\* A call opens one session at most.
Id == 1..MaxSends
Login == [c : Client, n : 1..MaxLogins]
L(c, n) == [c |-> c, n |-> n]
Peer(c) == IF c = "a" THEN "b" ELSE "a"

\* Addresses are known by the client and the login that first had them.
Addr == Login

Forgotten == SessionIdle + 2
Never == Memory + 1

NoCall == [at |-> "idle", id |-> 0, can |-> FALSE, tried |-> FALSE]
NoAnswer == [kind |-> "none", id |-> 0]

RelayInit ==
    /\ relays = {} /\ opened = 0
    /\ online = [c \in Client |-> 1] /\ ended = {}
    /\ from = [l \in Login |-> L(l.c, 1)]
    /\ up = Client /\ logins = [c \in Client |-> 1]
    /\ accepted = [c \in Client |-> [i \in Id |-> Forgotten]]
    /\ memory = [id |-> 0, age |-> Never]
    /\ call = NoCall /\ sends = 0 /\ resent = FALSE
    /\ answer = NoAnswer /\ pushes = {} /\ packets = {}
    /\ faults = 0 /\ hit = FALSE

Fault == faults < MaxFaults /\ faults' = faults + 1 /\ hit' = TRUE

-----------------------------------------------------------------------------
(* The socket wrapper.                                                     *)

\* Allow: sessions not seen for long are forgotten, and this one is accepted.
Allow(c, i) ==
    accepted' = [accepted EXCEPT ![c] = [j \in Id |->
        IF j = i THEN 0 ELSE IF @[j] > SessionIdle THEN Forgotten ELSE @[j]]]

Known(c, i) == accepted[c][i] # Forgotten
Seen(c, i) == accepted' = [accepted EXCEPT ![c][i] = 0]

\* Where a client's packets come from.
Here(c) == from[L(c, logins[c])]

\* WriteTo: a packet of a session, on its way to the server.
Out(c, i) == [leg |-> "server", id |-> i, addr |-> Here(c), by |-> c]

-----------------------------------------------------------------------------
(* deliverMsg of a.                                                        *)

RelayedRecently == memory.age < Memory

\* Mutant: a session is usable for as long as it is remembered.
UsableEver == memory.id # 0

Usable == memory.id # 0 /\ memory.age < TTL

\* viaRelay: the remembered session if it is still usable, else a new one.
ViaRelay(tried) ==
    /\ call' = [at |-> IF Usable THEN "reuse" ELSE "ask", id |-> IF Usable THEN memory.id ELSE 0,
                can |-> TRUE, tried |-> tried]
    /\ packets' = IF Usable THEN packets \union {Out("a", memory.id)} ELSE packets
    /\ resent' = FALSE
    /\ UNCHANGED <<answer, pushes>>

Direct(can, tried) ==
    /\ call' = [at |-> "direct", id |-> 0, can |-> can, tried |-> tried]
    /\ resent' = FALSE
    /\ UNCHANGED netVars

\* Both clients and the server agree on who is connected.
Settled == up = Client /\ \A c \in Client : online[c] = logins[c]

\* The lookup tells whether the server knows b to be online.
Deliver ==
    LET can == "a" \in up /\ online["a"] # 0 /\ online["b"] # 0 IN
    /\ call = NoCall /\ sends < MaxSends
    /\ sends' = sends + 1
    /\ hit' = ~Settled
    /\ IF can /\ RelayedRecently THEN ViaRelay(TRUE) ELSE Direct(can, FALSE)
    /\ UNCHANGED <<tableVars, loginVars, accepted, memory, faults>>

End == call' = NoCall /\ resent' = FALSE /\ UNCHANGED netVars

\* A direct attempt arrives, and a forgets the relay; or does not.
DirectArrives ==
    /\ call.at = "direct" /\ "b" \in up
    /\ memory' = [id |-> 0, age |-> Never]
    /\ End
    /\ UNCHANGED <<tableVars, loginVars, accepted, sends, faults, hit>>

DirectFails ==
    /\ call.at = "direct"
    /\ IF call.can /\ ~call.tried THEN ViaRelay(FALSE) ELSE End
    /\ UNCHANGED <<tableVars, loginVars, accepted, memory, sends, faults, hit>>

\* viaRelay failed: the direct attempts come next, unless they came before.
RelayFails == IF call.tried THEN Direct(TRUE, TRUE) ELSE End

\* a's request cannot be sent, or is answered with a refusal.
AskFails ==
    /\ call.at = "ask"
    /\ \/ "a" \notin up \/ online["a"] = 0
       \/ answer.kind = "refused"
    /\ call' = IF call.tried THEN [NoCall EXCEPT !.at = "direct", !.can = TRUE, !.tried = TRUE] ELSE NoCall
    /\ answer' = NoAnswer
    /\ resent' = FALSE
    /\ UNCHANGED <<tableVars, loginVars, accepted, memory, sends, pushes, packets, faults, hit>>

\* Mutant: a's own socket is not told of the session.
AskedUnknown ==
    /\ call.at = "ask" /\ answer.kind = "session" /\ "a" \in up
    /\ call' = [call EXCEPT !.at = "fresh", !.id = answer.id]
    /\ packets' = packets \union {Out("a", answer.id)}
    /\ answer' = NoAnswer /\ resent' = FALSE
    /\ UNCHANGED <<tableVars, loginVars, accepted, memory, sends, pushes, faults, hit>>

\* Client.Relay returns a session, and a attempts to reach b by it.
Asked ==
    /\ call.at = "ask" /\ answer.kind = "session" /\ "a" \in up
    /\ Allow("a", answer.id)
    /\ call' = [call EXCEPT !.at = "fresh", !.id = answer.id]
    /\ packets' = packets \union {Out("a", answer.id)}
    /\ answer' = NoAnswer /\ resent' = FALSE
    /\ UNCHANGED <<tableVars, loginVars, memory, sends, pushes, faults, hit>>

Attempting == call.at \in {"reuse", "fresh"}

\* Nothing a waits for is on its way any more.
Quiet == packets = {} /\ pushes = {} /\ answer = NoAnswer

\* The QUIC connection of the attempt sends again what was not answered.
Resend ==
    /\ Attempting /\ Quiet /\ ~resent
    /\ packets' = {Out("a", call.id)}
    /\ resent' = TRUE
    /\ UNCHANGED <<tableVars, loginVars, accepted, memory, call, sends, answer, pushes, faults, hit>>

\* The attempt times out.  A new session is tried after a remembered one.
TimesOut ==
    /\ Attempting /\ Quiet /\ resent
    /\ \/ /\ call.at = "reuse"
          /\ call' = [call EXCEPT !.at = "ask", !.id = 0]
          /\ resent' = FALSE /\ UNCHANGED netVars
       \/ call.at = "fresh" /\ RelayFails
    /\ UNCHANGED <<tableVars, loginVars, accepted, memory, sends, faults, hit>>

\* The answer of b arrives, at an attempt that still waits for it: the session
\* is remembered, or b has refused for good.
Answered ==
    \E p \in packets :
        /\ p.leg = "client" /\ p.by = "b"
        /\ packets' = packets \ {p}
        /\ IF p.addr = Here("a") /\ Known("a", p.id)
           THEN /\ Seen("a", p.id)
                /\ IF Attempting /\ p.id = call.id
                   THEN /\ memory' \in {memory, [id |-> p.id, age |-> 0]}
                        /\ call' = NoCall /\ resent' = FALSE
                   ELSE UNCHANGED <<memory, call, resent>>
           ELSE UNCHANGED <<accepted, memory, call, resent>>
        /\ UNCHANGED <<tableVars, loginVars, sends, answer, pushes, faults, hit>>

-----------------------------------------------------------------------------
(* b.                                                                      *)

\* handlePush of a relay push.
TakePush ==
    /\ \E i \in pushes :
           /\ pushes' = pushes \ {i}
           /\ IF "b" \in up THEN Allow("b", i) ELSE UNCHANGED accepted
    /\ UNCHANGED <<tableVars, loginVars, answer, packets, callVars, faults>>

\* A packet for b is answered if its session is accepted (ReadFrom, WriteTo).
TakePacket ==
    \E p \in packets :
        /\ p.leg = "client" /\ p.by = "a"
        /\ IF p.addr = Here("b") /\ Known("b", p.id)
           THEN packets' = (packets \ {p}) \union {Out("b", p.id)} /\ Seen("b", p.id)
           ELSE packets' = packets \ {p} /\ UNCHANGED accepted
        /\ UNCHANGED <<tableVars, loginVars, answer, pushes, callVars, faults>>

-----------------------------------------------------------------------------
(* The server.                                                             *)

\* The sessions a login may still open.
UnderCap(l) == Cardinality({r \in relays : r.a = l}) < Cap

\* openRelay: a session is entered, b is told, and a answered.  b may have
\* gone, and its push with it.
OpenRelay ==
    LET a == L("a", online["a"])
        b == L("b", online["b"]) IN
    /\ call.at = "ask" /\ answer = NoAnswer
    /\ "a" \in up /\ online["a"] # 0
    /\ IF online["b"] # 0 /\ UnderCap(a)
       THEN /\ opened' = opened + 1
            /\ relays' = relays \union {[id |-> opened', a |-> a, b |-> b, age |-> 0]}
            /\ answer' = [kind |-> "session", id |-> opened']
            /\ pushes' = pushes \union {opened'}
       ELSE /\ answer' = [kind |-> "refused", id |-> 0]
            /\ UNCHANGED <<tableVars, pushes>>
    /\ UNCHANGED <<loginVars, accepted, packets, callVars, faults>>

\* The packet's session, and the other member's address, if it has them.
Routes(p) ==
    {[r |-> r, to |-> IF p.addr = from[r.a] THEN from[r.b] ELSE from[r.a]] :
        r \in {s \in relays : s.id = p.id /\ p.addr \in {from[s.a], from[s.b]}}}

\* ServeRelay: a packet of a member goes on to the other one.
ServeRelay ==
    \E p \in packets :
        /\ p.leg = "server"
        /\ packets' = (packets \ {p}) \union
               {[leg |-> "client", id |-> p.id, addr |-> w.to, by |-> p.by] : w \in Routes(p)}
        /\ relays' = {IF \E w \in Routes(p) : w.r = r THEN [r EXCEPT !.age = 0] ELSE r : r \in relays}
        /\ UNCHANGED <<opened, loginVars, accepted, answer, pushes, callVars, faults>>

\* Mutant: idle sessions of members who are connected stay.
SweptEnded(r) == r.a \in ended \/ r.b \in ended

\* What a sweep drops.
Swept(r) == r.age > RelayIdle \/ r.a \in ended \/ r.b \in ended

\* sweepRelays, once a minute.
SweepRelays ==
    /\ relays' = {r \in relays : ~Swept(r)}
    /\ relays' # relays
    /\ UNCHANGED <<opened, loginVars, accepted, netVars, callVars, faults>>

-----------------------------------------------------------------------------
(* Time, connections and restarts.                                         *)

Older(age, top) == IF age < top THEN age + 1 ELSE age

\* Attempts and requests take seconds: a tick passes between them.
Tick ==
    /\ call = NoCall /\ Quiet
    /\ relays' = {[r EXCEPT !.age = Older(@, RelayIdle + 1)] : r \in relays}
    /\ memory' = [memory EXCEPT !.age = Older(@, Never)]
    /\ accepted' = [c \in Client |-> [i \in Id |->
           IF Known(c, i) THEN Older(accepted[c][i], SessionIdle + 1) ELSE Forgotten]]
    /\ UNCHANGED <<opened, loginVars, netVars, call, sends, resent, hit, faults>>

\* A login: the client's address is the one it had, or a new one; the
\* connection of its last login is closed (session, bind).
LogIn(c) ==
    /\ c \notin up /\ logins[c] < MaxLogins
    /\ logins' = [logins EXCEPT ![c] = @ + 1]
    /\ \E addr \in {Here(c), L(c, logins'[c])} :
           from' = [from EXCEPT ![L(c, logins'[c])] = addr]
    /\ online' = [online EXCEPT ![c] = logins'[c]]
    /\ ended' = ended \union {L(c, logins[c])}
    /\ up' = up \union {c}
    /\ hit' = TRUE
    /\ UNCHANGED <<tableVars, accepted, netVars, memory, call, sends, resent, faults>>

\* The client's connection is lost; the server has not noticed yet.
LoseConnection(c) ==
    /\ c \in up /\ Fault
    /\ up' = up \ {c}
    /\ UNCHANGED <<tableVars, online, ended, from, logins, accepted, netVars, memory, call, sends, resent>>

\* The server notices (endSession), and the client that is gone, too.
Notice(c) ==
    /\ c \notin up /\ online[c] # 0
    /\ online' = [online EXCEPT ![c] = 0]
    /\ ended' = ended \union {L(c, logins[c])}
    /\ hit' = TRUE
    /\ UNCHANGED <<tableVars, from, up, logins, accepted, netVars, memory, call, sends, resent, faults>>

\* The client notices that the server does not know it any more.
NoticeServer(c) ==
    /\ c \in up /\ online[c] = 0
    /\ up' = up \ {c}
    /\ hit' = TRUE
    /\ UNCHANGED <<tableVars, online, ended, from, logins, accepted, netVars, memory, call, sends, resent, faults>>

\* A client stops and starts: it accepts and remembers no session.
RestartClient(c) ==
    /\ Fault
    /\ up' = up \ {c}
    /\ accepted' = [accepted EXCEPT ![c] = [i \in Id |-> Forgotten]]
    /\ IF c = "a"
       THEN memory' = [id |-> 0, age |-> Never] /\ call' = NoCall /\ resent' = FALSE /\ answer' = NoAnswer
       ELSE UNCHANGED <<memory, call, resent, answer>>
    /\ UNCHANGED <<tableVars, online, ended, from, logins, sends, pushes, packets>>

\* The server stops and starts: every login and session is gone.
RestartServer ==
    /\ Fault
    /\ relays' = {}
    /\ online' = [c \in Client |-> 0]
    /\ UNCHANGED <<opened, ended, from, up, logins, accepted, netVars, memory, call, sends, resent>>

\* A packet or a push is lost, or one of the server's limits refuses.
Lose ==
    /\ Fault
    /\ \/ \E p \in packets : packets' = packets \ {p} /\ UNCHANGED <<answer, pushes>>
       \/ \E i \in pushes : pushes' = pushes \ {i} /\ UNCHANGED <<answer, packets>>
       \/ /\ call.at = "ask" /\ answer.kind # "refused"
          /\ answer' = [kind |-> "refused", id |-> 0]
          /\ UNCHANGED <<packets, pushes>>
    /\ UNCHANGED <<tableVars, loginVars, accepted, memory, call, sends, resent>>

-----------------------------------------------------------------------------
RelayNext ==
    \/ Deliver \/ DirectArrives \/ DirectFails
    \/ AskFails \/ Asked \/ Resend \/ TimesOut \/ Answered
    \/ TakePush \/ TakePacket
    \/ OpenRelay \/ ServeRelay \/ SweepRelays
    \/ Tick
    \/ \E c \in Client : LogIn(c) \/ LoseConnection(c) \/ Notice(c) \/ NoticeServer(c) \/ RestartClient(c)
    \/ RestartServer \/ Lose

RelaySpec == RelayInit /\ [][RelayNext]_relayVars

CallGoesOn == DirectFails \/ AskFails \/ Asked \/ Resend \/ TimesOut
PacketsTravel == Answered \/ TakePush \/ TakePacket \/ OpenRelay \/ ServeRelay

(* Time passes, packets travel, calls have timeouts, and the server sweeps *)
(* every minute.                                                           *)
RelayFairness ==
    /\ WF_relayVars(Tick) /\ WF_relayVars(SweepRelays)
    /\ WF_relayVars(CallGoesOn) /\ WF_relayVars(PacketsTravel)
RelayFairSpec == RelaySpec /\ RelayFairness

-----------------------------------------------------------------------------
(* Properties.                                                             *)

Session == [id : Id, a : Login, b : Login, age : 0..(RelayIdle + 1)]
Packet == [leg : {"server", "client"}, id : Id, addr : Addr, by : Client]

\* The variables hold values of their types.
RelayTypeOK ==
    /\ relays \subseteq Session /\ opened \in 0..MaxSends
    /\ online \in [Client -> 0..MaxLogins] /\ ended \subseteq Login
    /\ from \in [Login -> Addr] /\ up \subseteq Client /\ logins \in [Client -> 1..MaxLogins]
    /\ accepted \in [Client -> [Id -> 0..Forgotten]]
    /\ memory \in [id : Id \union {0}, age : 0..Never]
    /\ call \in [at : {"idle", "direct", "reuse", "ask", "fresh"}, id : Id \union {0},
                 can : BOOLEAN, tried : BOOLEAN]
    /\ sends \in 0..MaxSends /\ resent \in BOOLEAN /\ hit \in BOOLEAN
    /\ answer \in [kind : {"none", "session", "refused"}, id : Id \union {0}]
    /\ pushes \subseteq Id /\ packets \subseteq Packet
    /\ faults \in 0..MaxFaults

\* A session a would use again is still open at the server, unless the server
\* restarted or a member's connection ended: 90 seconds since the last answer
\* end before two minutes since the last packet (relaySessionTTL, relayIdle).
ReuseFindsSession ==
    [][\A r \in relays :
         (Usable /\ r.id = memory.id /\ r.id \notin {s.id : s \in relays'})
             => {r.a, r.b} \intersect ended # {} \/ faults' # faults]_relayVars

\* An attempt over a session that was just opened fails only if a packet or a
\* connection was lost meanwhile, or one end restarted: whichever of b's push
\* and the first packet comes first, and whatever old sessions the two sockets
\* and the table hold (openRelay, Client.Relay, handlePush, ServeRelay).
FreshSessionWorks ==
    [][(call.at = "fresh" /\ call'.at # "fresh" /\ packets = {}) => hit']_relayVars

\* Every session leaves the server's table in the end, whatever became of its
\* members, their sockets and their packets (sweepRelays).
RelaysEnd == <>[](relays = {})
=============================================================================
