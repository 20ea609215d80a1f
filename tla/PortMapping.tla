----------------------------- MODULE PortMapping -----------------------------
(***************************************************************************)
(* The automatic port forwarding of a client: mapPort and its renewal loop *)
(* in main.go, Open in internal/portmap, SetPublicAddr and Probe of the    *)
(* directory client, advertise and sendProbe of the server.                *)
(*                                                                         *)
(* Four places hold the address: the router's forwards, n.port.mapping,    *)
(* the client's publicAddr, which every login sends, and the session at    *)
(* the server, which is what others are given.  An attempt goes through    *)
(* them one request at a time, while the connection to the server comes    *)
(* and goes, the loop renews, and the process may be told to stop.         *)
(***************************************************************************)
EXTENDS Naturals, FiniteSets

CONSTANTS
    MaxAttempts,  \* bound: calls of mapPort by the user (tarion portmap)
    MaxGlitches,  \* bound: router restarts, lost requests and connections, kills
    MaxLives      \* bound: processes started

ASSUME PortMappingAssumption ==
    {MaxAttempts, MaxGlitches} \subseteq Nat /\ MaxLives \in Nat \ {0}

VARIABLES
    wan,        \* the router's internet address
    forwards,   \* ports the router forwards to this computer
    taken,      \* ports it forwards to others
    strangers,  \* test packets get through to this computer
    permanent,  \* the router knows no leases
    link,       \* the connection to the server: down, login or up
    sent,       \* the public address the login under way has sent
    seenAddr,   \* the address the server saw at the last login
    publicAddr, \* the client's, for every login
    advertised, \* the session's, at the server
    mapping,    \* n.port.mapping
    mapper,     \* mapPort, which n.port.busy lets run once at a time
    renewal,    \* the loop of startPortMapping
    asks,       \* requests of the user that wait for busy
    leaving,    \* the process: running, removing its mapping, or gone
    attempts,   \* how many of those bounded by MaxAttempts were made
    glitches,   \* ... by MaxGlitches
    lives,      \* ... by MaxLives
    upset       \* history: a glitch, a forward left behind by an earlier process, or an
                \* attempt beside a renewal or without connection

routerVars == <<wan, forwards, taken, strangers, permanent>>
linkVars == <<link, sent, seenAddr>>
addrVars == <<publicAddr, advertised>>
boundVars == <<attempts, glitches, lives>>
portVars == <<routerVars, linkVars, addrVars, mapping, mapper, renewal, asks, leaving, boundVars, upset>>

Wan == {1, 2}
Port == {1, 2}
Address == [ip : Wan \union {0}, port : Port]
NoAddress == [ip |-> 0, port |-> 0]
Idle == [at |-> "idle", m |-> NoAddress]
Staying == [at |-> "no", m |-> NoAddress]

PortInit ==
    /\ wan = 1 /\ forwards = {} /\ taken \in SUBSET {1}
    /\ strangers \in BOOLEAN /\ permanent \in BOOLEAN
    /\ link = "down" /\ sent = NoAddress /\ seenAddr = 0
    /\ publicAddr = NoAddress /\ advertised = NoAddress
    /\ mapping = NoAddress /\ mapper = Idle
    /\ renewal = [at |-> "asks", m |-> NoAddress]
    /\ asks = 0 /\ leaving = Staying
    /\ attempts = 0 /\ glitches = 0 /\ lives = 1
    /\ upset = FALSE

Alive == leaving.at # "gone"
Glitch == glitches < MaxGlitches /\ glitches' = glitches + 1 /\ upset' = TRUE
Same == UNCHANGED <<glitches, upset>>

\* Where mapPort goes on, and with which mapping.
MapGoes(at, m) == mapper' = [at |-> at, m |-> m]

\* setPort ends the attempt: the mapping is kept, or there is none.
Keeps(m) == mapping' = m /\ mapper' = Idle
Fails == mapping' = NoAddress /\ mapper' = Idle

-----------------------------------------------------------------------------
(* The connection to the server (Client.session and login).                *)

\* login reads publicAddr and sends it ...
LogInSends ==
    /\ Alive /\ link = "down"
    /\ link' = "login" /\ sent' = publicAddr
    /\ UNCHANGED <<routerVars, seenAddr, addrVars, mapping, mapper, renewal, asks, leaving, boundVars, upset>>

\* ... the server binds the session with it, and the client takes itself to be
\* connected when it has the answer.
LogInEnds ==
    /\ Alive /\ link = "login"
    /\ link' = "up" /\ sent' = NoAddress
    /\ advertised' = sent /\ seenAddr' = wan
    /\ UNCHANGED <<routerVars, publicAddr, mapping, mapper, renewal, asks, leaving, boundVars, upset>>

LinkLost ==
    /\ link # "down" /\ Glitch
    /\ link' = "down" /\ sent' = NoAddress
    /\ advertised' = NoAddress
    /\ UNCHANGED <<routerVars, seenAddr, publicAddr, mapping, mapper, renewal, asks, leaving, attempts, lives>>

\* SetPublicAddr, first half: the address for this and later logins.
SetsPublicAddr(a) == publicAddr' = a /\ UNCHANGED advertised

\* Second half: nothing is sent while the client is not connected; a request
\* is answered, or the connection breaks before or after the server had it.
\* ok says whether SetPublicAddr returns without an error.
Advertises(a, ok) ==
    \/ /\ link # "up" /\ ok
       /\ UNCHANGED <<linkVars, advertised>> /\ Same
    \/ /\ link = "up" /\ ok
       /\ advertised' = a
       /\ UNCHANGED linkVars /\ Same
    \/ /\ link = "up" /\ ~ok /\ Glitch
       /\ link' = "down" /\ advertised' = NoAddress
       /\ UNCHANGED <<sent, seenAddr>>

-----------------------------------------------------------------------------
(* mapPort.                                                                *)

\* busy is taken by the loop or for the user; removeMapping takes the mapping.
StartMap ==
    /\ Alive /\ mapper = Idle
    /\ \/ renewal.at = "asks" /\ renewal' = [renewal EXCEPT !.at = "mapping"] /\ UNCHANGED asks
       \/ asks > 0 /\ asks' = asks - 1 /\ UNCHANGED renewal
    /\ MapGoes(IF mapping = NoAddress THEN "open" ELSE "remove", mapping)
    /\ mapping' = NoAddress
    /\ upset' = (upset \/ renewal.at = "renewing" \/ link # "up")
    /\ UNCHANGED <<routerVars, linkVars, addrVars, leaving, boundVars>>

\* A request to delete a forward reaches the router, or is lost.
Deletes(m) ==
    \/ forwards' = forwards \ {m.port} /\ Same
    \/ UNCHANGED forwards /\ Glitch

MapRemoves ==
    /\ Alive /\ mapper.at = "remove"
    /\ Deletes(mapper.m)
    /\ MapGoes(IF link = "up" THEN "withdraw" ELSE "open", NoAddress)
    /\ UNCHANGED <<wan, taken, strangers, permanent, linkVars, addrVars, mapping, renewal, asks,
                   leaving, attempts, lives>>

\* SetPublicAddr sets the client's own address first.
MapSets ==
    /\ Alive
    /\ \/ /\ mapper.at = "withdraw"
          /\ SetsPublicAddr(NoAddress) /\ MapGoes("withdrawing", NoAddress)
       \/ /\ mapper.at = "announce"
          /\ SetsPublicAddr(mapper.m) /\ MapGoes("announcing", mapper.m)
       \/ /\ mapper.at = "retract"
          /\ SetsPublicAddr(NoAddress) /\ MapGoes("retracting", mapper.m)
    /\ UNCHANGED <<routerVars, linkVars, mapping, renewal, asks, leaving, boundVars, upset>>

\* ... and then tells the server.  Only an announcement's error is looked at.
MapTells ==
    /\ Alive
    /\ \E ok \in BOOLEAN :
           /\ Advertises(publicAddr, ok)
           /\ \/ mapper.at = "withdrawing" /\ MapGoes("open", NoAddress)
              \/ mapper.at = "announcing" /\ MapGoes(IF ok THEN "probe" ELSE "drop", mapper.m)
              \/ mapper.at = "retracting" /\ MapGoes("drop", mapper.m)
    /\ UNCHANGED <<routerVars, publicAddr, mapping, renewal, asks, leaving, attempts, lives>>

\* The port of the client, or another one if others have it.
Offered == IF 1 \in taken THEN 2 ELSE 1

\* Open: no method works, or a port is forwarded.  A router that does not say
\* its address is taken to have the one the server sees; one that says another
\* is behind a second router.
MapOpens ==
    /\ Alive /\ mapper.at = "open"
    /\ \/ Fails /\ UNCHANGED forwards
       \/ /\ forwards' = forwards \union {Offered}
          /\ UNCHANGED mapping
          /\ \E ip \in {wan, seenAddr} :
                 LET m == [ip |-> ip, port |-> Offered] IN
                 MapGoes(IF ip # 0 /\ seenAddr \in {0, ip} THEN "announce" ELSE "drop", m)
    /\ UNCHANGED <<wan, taken, strangers, permanent, linkVars, addrVars, renewal, asks, leaving, boundVars, upset>>

\* Whether the test packet to the advertised address arrives.
Reached == advertised.ip = wan /\ advertised.port \in forwards /\ strangers

\* probeReachable: the server refuses if nothing is advertised, if the address
\* is not the client's, or if it does not test.
MapProbes ==
    /\ Alive /\ mapper.at = "probe"
    /\ \/ Keeps(mapper.m)
       \/ /\ link = "up" /\ advertised # NoAddress /\ advertised.ip = seenAddr
          /\ IF Reached THEN Keeps(mapper.m) ELSE MapGoes("retract", mapper.m) /\ UNCHANGED mapping
    /\ UNCHANGED <<routerVars, linkVars, addrVars, renewal, asks, leaving, boundVars, upset>>

\* Mutant: a forward that cannot be announced is not taken back.
MapDropsNothing ==
    /\ Alive /\ mapper.at = "drop"
    /\ Fails /\ Same
    /\ UNCHANGED <<routerVars, linkVars, addrVars, renewal, asks, leaving, attempts, lives>>

\* drop, before the attempt fails.
MapDrops ==
    /\ Alive /\ mapper.at = "drop"
    /\ Deletes(mapper.m)
    /\ Fails
    /\ UNCHANGED <<wan, taken, strangers, permanent, linkVars, addrVars, renewal, asks, leaving,
                   attempts, lives>>

-----------------------------------------------------------------------------
(* The renewal loop, and tarion portmap.                                   *)

\* The loop's attempt is over.
LoopWaits ==
    /\ Alive /\ renewal.at = "mapping" /\ mapper = Idle
    /\ renewal' = [at |-> "waits", m |-> NoAddress]
    /\ UNCHANGED <<routerVars, linkVars, addrVars, mapping, mapper, asks, leaving, boundVars, upset>>

\* Every 25 minutes: the mapping is read ...
LoopReads ==
    /\ Alive /\ renewal.at = "waits" /\ mapping # NoAddress
    /\ renewal' = [at |-> "renewing", m |-> mapping]
    /\ UNCHANGED <<routerVars, linkVars, addrVars, mapping, mapper, asks, leaving, boundVars, upset>>

\* Mutant: a failed renewal is left at that.
LoopRenewsOnly ==
    /\ Alive /\ renewal.at = "renewing"
    /\ renewal' = [at |-> "waits", m |-> NoAddress]
    /\ forwards' = IF renewal.m.port \in taken THEN forwards ELSE forwards \union {renewal.m.port}
    /\ UNCHANGED <<wan, taken, strangers, permanent, linkVars, addrVars, mapping, mapper, asks, leaving, boundVars, upset>>

\* ... and renewed: the router forwards the port again if it had forgotten it,
\* or refuses because others have it, and mapPort starts over.
LoopRenews ==
    /\ Alive /\ renewal.at = "renewing"
    /\ IF renewal.m.port \in taken
       THEN renewal' = [at |-> "asks", m |-> NoAddress] /\ UNCHANGED forwards
       ELSE renewal' = [at |-> "waits", m |-> NoAddress] /\ forwards' = forwards \union {renewal.m.port}
    /\ UNCHANGED <<wan, taken, strangers, permanent, linkVars, addrVars, mapping, mapper, asks, leaving, boundVars, upset>>

UserAsks ==
    /\ leaving = Staying /\ attempts < MaxAttempts
    /\ attempts' = attempts + 1 /\ asks' = asks + 1
    /\ UNCHANGED <<routerVars, linkVars, addrVars, mapping, mapper, renewal, leaving, glitches, lives, upset>>

-----------------------------------------------------------------------------
(* The end of the process, and the router.                                 *)

\* prepareExit and close: removeMapping takes the mapping ...
PrepareExit ==
    /\ leaving = Staying
    /\ leaving' = [at |-> IF mapping = NoAddress THEN "removed" ELSE "removing", m |-> mapping]
    /\ mapping' = NoAddress
    /\ UNCHANGED <<routerVars, linkVars, addrVars, mapper, renewal, asks, boundVars, upset>>

\* ... and deletes it from the router ...
ExitRemoves ==
    /\ leaving.at = "removing"
    /\ Deletes(leaving.m)
    /\ leaving' = [leaving EXCEPT !.at = "removed"]
    /\ UNCHANGED <<wan, taken, strangers, permanent, linkVars, addrVars, mapping, mapper, renewal, asks,
                   attempts, lives>>

\* ... before os.Exit, whatever the other goroutines are doing.
Ends ==
    /\ leaving' = [at |-> "gone", m |-> NoAddress]
    /\ link' = "down" /\ sent' = NoAddress /\ seenAddr' = 0
    /\ publicAddr' = NoAddress /\ advertised' = NoAddress
    /\ mapping' = NoAddress /\ mapper' = Idle
    /\ renewal' = [at |-> "asks", m |-> NoAddress]
    /\ asks' = 0

Exits ==
    /\ leaving.at = "removed"
    /\ Ends
    /\ upset' = (upset \/ forwards # {})
    /\ UNCHANGED <<routerVars, boundVars>>

Killed ==
    /\ Alive /\ Glitch
    /\ Ends
    /\ UNCHANGED <<routerVars, attempts, lives>>

Starts ==
    /\ ~Alive /\ lives < MaxLives
    /\ lives' = lives + 1
    /\ leaving' = Staying
    /\ UNCHANGED <<routerVars, linkVars, addrVars, mapping, mapper, renewal, asks, attempts, glitches, upset>>

\* The lease of a forward nobody renews ends.
LeaseEnds ==
    /\ ~Alive /\ ~permanent
    /\ forwards # {} /\ forwards' = {}
    /\ UNCHANGED <<wan, taken, strangers, permanent, linkVars, addrVars, mapping, mapper, renewal, asks,
                   leaving, boundVars, upset>>

\* The router restarts: it has no forwards, maybe another address, and others
\* may be quicker to have the port forwarded.
RouterRestarts ==
    /\ Glitch
    /\ forwards' = {} /\ wan' \in Wan /\ taken' \in {{}, {1}}
    /\ UNCHANGED <<strangers, permanent, linkVars, addrVars, mapping, mapper, renewal, asks, leaving,
                   attempts, lives>>

-----------------------------------------------------------------------------
MapPort == StartMap \/ MapRemoves \/ MapSets \/ MapTells \/ MapOpens \/ MapProbes \/ MapDrops
RenewLoop == LoopWaits \/ LoopReads \/ LoopRenews
LogsIn == LogInSends \/ LogInEnds

PortNext ==
    \/ LogsIn \/ LinkLost \/ MapPort \/ RenewLoop \/ UserAsks
    \/ PrepareExit \/ ExitRemoves \/ Exits \/ Killed \/ Starts \/ LeaseEnds \/ RouterRestarts

\* Requests have timeouts, and the loop its timer.
PortFairness == WF_portVars(LogsIn) /\ WF_portVars(MapPort) /\ WF_portVars(RenewLoop)

PortSpec == PortInit /\ [][PortNext]_portVars
PortFairSpec == PortSpec /\ PortFairness

-----------------------------------------------------------------------------
(* Properties.                                                             *)

\* The variables hold values of their types.
PortTypeOK ==
    /\ wan \in Wan /\ forwards \subseteq Port /\ taken \subseteq {1}
    /\ strangers \in BOOLEAN /\ permanent \in BOOLEAN
    /\ link \in {"down", "login", "up"} /\ seenAddr \in Wan \union {0}
    /\ mapper.m \in Address \union {NoAddress}
    /\ {sent, publicAddr, advertised, mapping, renewal.m, leaving.m}
           \subseteq {a \in Address : a.ip # 0} \union {NoAddress}
    /\ mapper.at \in {"idle", "remove", "withdraw", "withdrawing", "open", "announce", "announcing",
                      "probe", "retract", "retracting", "drop"}
    /\ renewal.at \in {"asks", "mapping", "waits", "renewing"}
    /\ leaving.at \in {"no", "removing", "removed", "gone"}
    /\ asks \in 0..MaxAttempts /\ attempts \in 0..MaxAttempts
    /\ glitches \in 0..MaxGlitches /\ lives \in 1..MaxLives
    /\ upset \in BOOLEAN

\* An attempt made while the client is connected, and that nothing disturbs,
\* leaves all four places in agreement when it is over, wherever it failed: the
\* mapping is kept, forwarded, sent with logins and advertised, or it is none of
\* these (mapPort, removeMapping, SetPublicAddr, advertise).
AtRest == mapper = Idle /\ renewal.at = "waits" /\ leaving = Staying /\ link = "up"

AllOrNothing ==
    (AtRest /\ ~upset) =>
        /\ publicAddr = mapping /\ advertised = mapping
        /\ IF mapping = NoAddress THEN forwards = {} ELSE mapping.port \in forwards

\* A forward the router has forgotten is made again, or given up: also if others
\* have the port by now (startPortMapping).
ForwardRepaired ==
    (mapping # NoAddress /\ mapping.port \notin forwards)
        ~> (mapping = NoAddress \/ mapping.port \in forwards)

-----------------------------------------------------------------------------
(* What the documentation says, which the code does not keep.              *)

\* "removed when it exits (quitting the menu, Ctrl+C or `tarion stop`)"
\* (README.md): when prepareExit is done, the router forwards nothing.
RemovedOnExit == (leaving.at = "removed" /\ ~upset) => forwards = {}

\* "Only if that packet arrives is the forward kept and given to people who look
\* you up" (README.md): an address that is not kept is not advertised.
GivenOutIsKept == (AtRest /\ mapping = NoAddress) => advertised = NoAddress
=============================================================================
