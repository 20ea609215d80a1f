---------------------------- MODULE ClientProofs ----------------------------
(***************************************************************************)
(* Proofs about DirectoryClient, PortMapping and Relay: the connection of  *)
(* a client to its server, its automatic port forwarding, and the sessions *)
(* of the relay it uses where that does not help.  They share no state, so *)
(* each has an invariant of its own; all hold for any values of the        *)
(* constants, that is for any number of devices, sessions and faults.      *)
(***************************************************************************)
EXTENDS DirectoryClient, PortMapping, Relay, FiniteSetTheorems, TLAPS

-----------------------------------------------------------------------------
(* DirectoryClient: the inductive invariant.                               *)

\* The pin of a client that runs is the one in its file, and it is the only key
\* a login was sent to.
PinKept(d) ==
    /\ place[d] # "off" => pin[d] = file[d].pin
    /\ told[d] \subseteq {file[d].pin} \ {0}

\* A device that was logged in has no password, neither in memory nor in its file.
PasswordGone(d) == pass[d] = 0 /\ file[d].pass = 0

ClientIInv ==
    /\ ClientTypeOK
    /\ \A d \in Device : place[d] = "login" => pin[d] = server
    /\ \A d \in Device \ unpinned : PinKept(d)
    /\ \A d \in linked : PasswordGone(d)
    /\ \A d \in Device : place[d] \in {"off", "linked"} => pass[d] = 0
    /\ \A d \in Device : place[d] = "register" => pass[d] # 0

LEMMA ClientInitially == ClientInit => ClientIInv
<1> SUFFICES ASSUME ClientInit PROVE ClientIInv
  OBVIOUS
<1>1. ClientTypeOK
  BY ClientAssumption DEF ClientInit, ClientTypeOK, Word, ServerKey
<1> QED
  BY <1>1 DEF ClientInit, ClientIInv, PinKept

LEMMA AccountIs ==
    ASSUME ClientTypeOK
    PROVE  account = NoAccount \/ (account.key \in Device /\ account.word \in Word)
  BY DEF ClientTypeOK

\* The steps of one device.
LEMMA DeviceKeeps ==
    ASSUME ClientIInv, NEW d \in Device, ClientStep(d)
    PROVE  ClientIInv'
<1> USE ClientAssumption DEF ClientIInv, ClientTypeOK, PinKept, PasswordGone, Moves, Word, ServerKey,
        accountVars, fileVars, toldVars, Event
<1>1. CASE StartsUp(d)
  BY <1>1 DEF StartsUp
<1>2. CASE StopsNow(d)
  BY <1>2 DEF StopsNow
<1>3. CASE UserGivesPassword(d)
  BY <1>3 DEF UserGivesPassword
<1>4. CASE UserUnpins(d)
  BY <1>4 DEF UserUnpins
<1>5. CASE Dial(d)
  <2>1. CASE pin[d] = 0
    <3>1. place' = [place EXCEPT ![d] = "login"] /\ pin' = [pin EXCEPT ![d] = server]
      BY <1>5, <2>1 DEF Dial
    <3>2. CASE file' = [file EXCEPT ![d].pin = server] /\ UNCHANGED <<events, unpinned>>
      <4>1. ClientTypeOK'
        BY <1>5, <3>1, <3>2 DEF Dial
      <4>2. ASSUME NEW e \in Device \ unpinned' PROVE PinKept(e)'
        BY <1>5, <2>1, <3>1, <3>2, <4>2 DEF Dial
      <4> QED
        BY <1>5, <3>1, <3>2, <4>1, <4>2 DEF Dial
    <3>3. CASE Event /\ unpinned' = unpinned \union {d} /\ UNCHANGED file
      BY <1>5, <3>1, <3>3 DEF Dial
    <3> QED
      BY <1>5, <2>1, <3>2, <3>3 DEF Dial
  <2>2. CASE pin[d] # 0
    BY <1>5, <2>2 DEF Dial
  <2> QED
    BY <2>1, <2>2
<1>6. CASE LogInOnce(d)
  <2>1. told' = [told EXCEPT ![d] = @ \union {server}]
        /\ UNCHANGED <<file, linked, pass, pin, server, events, unpinned>> /\ place[d] = "login"
    BY <1>6 DEF LogInOnce
  <2>2. \A e \in Device \ unpinned' : told'[e] \subseteq {file'[e].pin} \ {0}
    BY <2>1
  <2>3. \/ place' = [place EXCEPT ![d] = "stopped"] \/ place' = [place EXCEPT ![d] = "answer"]
        \/ pass[d] # 0 /\ place' = [place EXCEPT ![d] = "register"]
    BY <1>6 DEF LogInOnce, Refused
  <2>4. /\ account' \in [key : Device, word : Word] \union {NoAccount}
        /\ session' \in Device \union {Nobody}
        /\ closing' \in [Device -> {"no", "replaced", "deleted"}]
    <3>1. CASE Binds(d)
      <4>1. session' = d /\ closing' \in [Device -> {"no", "replaced", "deleted"}]
        BY <3>1 DEF Binds
      <4> QED
        BY <1>6, <4>1, AccountIs DEF LogInOnce, Refused
    <3>2. CASE UNCHANGED <<account, session, closing>>
      BY <3>2
    <3> QED
      BY <1>6, <3>1, <3>2 DEF LogInOnce, Refused
  <2>5. ClientTypeOK'
    BY <2>1, <2>3, <2>4
  <2> QED
    BY <2>1, <2>2, <2>3, <2>5
<1>7. CASE Register(d)
  BY <1>7 DEF Register, Binds, Refused
<1>8. CASE LoggedIn(d)
  BY <1>8 DEF LoggedIn
<1>9. CASE OnLoggedIn(d)
  BY <1>9 DEF OnLoggedIn
<1>10. CASE ClosedForGood(d)
  BY <1>10 DEF ClosedForGood
<1>11. CASE Breaks(d)
  BY <1>11 DEF Breaks
<1> QED
  BY <1>1, <1>2, <1>3, <1>4, <1>5, <1>6, <1>7, <1>8, <1>9, <1>10, <1>11 DEF ClientStep, KeepsSession

LEMMA ServerKeeps ==
    ASSUME ClientIInv, AccountDeleted \/ PasswordChanged \/ Reinstalled
    PROVE  ClientIInv'
<1> USE ClientAssumption DEF ClientIInv, ClientTypeOK, PinKept, PasswordGone, Word, ServerKey,
        fileVars, toldVars, Event
<1>1. CASE AccountDeleted
  BY <1>1 DEF AccountDeleted
<1>2. CASE PasswordChanged
  BY <1>2 DEF PasswordChanged
<1>3. CASE Reinstalled
  BY <1>3 DEF Reinstalled
<1> QED
  BY <1>1, <1>2, <1>3

LEMMA ClientInductive ==
    ASSUME ClientIInv, [ClientNext]_clientVars
    PROVE  ClientIInv'
<1>1. CASE UNCHANGED clientVars
  BY <1>1 DEF clientVars, ClientIInv, ClientTypeOK, PinKept, PasswordGone
<1> QED
  BY <1>1, DeviceKeeps, ServerKeeps DEF ClientNext

-----------------------------------------------------------------------------
(* DirectoryClient: the theorems.                                          *)

\* A client that runs holds the pin of its file, unless that could not be
\* written, and a device that was logged in has no password (dial, OnServerID,
\* login, OnLoggedIn).
THEOREM ClientInvariant == ClientSpec => []ClientIInv
  BY ClientInitially, ClientInductive, PTL DEF ClientSpec

\* The variables hold values of their types (Client.session, login).
THEOREM ClientTypes == ClientSpec => []ClientTypeOK
<1>1. ClientIInv => ClientTypeOK
  BY DEF ClientIInv
<1> QED
  BY <1>1, ClientInvariant, PTL

\* A device tells one server only who its user is and what the password is,
\* however often it stops and the server changes, until the user unpins it or the
\* key could not be written (dial, OnServerID).
THEOREM OneTold == ClientSpec => []OneServerTold
<1>1. ASSUME ClientIInv, NEW d \in Device \ unpinned PROVE Cardinality(told[d]) <= 1
  <2>1. told[d] = {} \/ told[d] = {file[d].pin}
    BY <1>1 DEF ClientIInv, PinKept
  <2>2. Cardinality({}) = 0 /\ Cardinality({file[d].pin}) = 1
    BY FS_EmptySet, FS_Singleton
  <2> QED
    BY <2>1, <2>2
<1>2. ClientIInv => OneServerTold
  BY <1>1 DEF OneServerTold
<1> QED
  BY <1>2, ClientInvariant, PTL

\* A device that was logged in does not make the account again after it was
\* deleted, and does not take it back from another device, whatever connections
\* break and processes restart: its user must give the password again (login,
\* OnLoggedIn).
THEOREM NoneTakenBack == ClientSpec => NotTakenBack
<1> DEFINE Act == \A d \in Device : (account'.key = d /\ account.key # d) => d \notin linked
<1>1. ASSUME ClientIInv, NEW e \in Device, ClientStep(e), NEW d \in Device,
             account'.key = d, account.key # d
      PROVE  d \notin linked
  <2>1. CASE LogInOnce(e)
    <3>1. CASE account' = [account EXCEPT !.key = e] /\ account # NoAccount /\ pass[e] # 0
      <4>1. account \in [key : Device, word : Word]
        BY <1>1, <3>1 DEF ClientIInv, ClientTypeOK
      <4>2. d = e
        BY <1>1, <3>1, <4>1
      <4> QED
        BY <1>1, <3>1, <4>2 DEF ClientIInv, PasswordGone
    <3>2. CASE UNCHANGED account
      BY <1>1, <3>2
    <3> QED
      BY <2>1, <3>1, <3>2 DEF LogInOnce, Refused, accountVars
  <2>2. CASE Register(e)
    <3>1. d = e /\ pass[e] # 0
      BY <1>1, <2>2 DEF Register, Refused, accountVars, ClientIInv
    <3> QED
      BY <1>1, <3>1 DEF ClientIInv, PasswordGone
  <2>3. CASE UNCHANGED account
    BY <1>1, <2>3
  <2> QED
    BY <1>1, <2>1, <2>2, <2>3
       DEF ClientStep, KeepsSession, StartsUp, StopsNow, UserGivesPassword, UserUnpins, Dial,
           LoggedIn, OnLoggedIn, ClosedForGood, Breaks, accountVars
<1>2. ASSUME ClientIInv, AccountDeleted \/ PasswordChanged \/ Reinstalled, NEW d \in Device,
             account'.key = d, account.key # d
      PROVE  d \notin linked
  <2>1. CASE account' = NoAccount
    BY <1>2, <2>1, ClientAssumption DEF NoAccount
  <2>2. CASE account # NoAccount /\ account' = [account EXCEPT !.word = 3 - @]
    <3>1. account \in [key : Device, word : Word]
      BY <1>2, <2>2 DEF ClientIInv, ClientTypeOK
    <3> QED
      BY <1>2, <2>2, <3>1
  <2> QED
    BY <1>2, <2>1, <2>2 DEF AccountDeleted, PasswordChanged, Reinstalled
<1>3. ClientIInv /\ [ClientNext]_clientVars => [Act]_clientVars
  BY <1>1, <1>2 DEF ClientNext
<1> QED
  BY <1>3, ClientInvariant, PTL DEF ClientSpec, NotTakenBack

-----------------------------------------------------------------------------
(* PortMapping: the inductive invariant.                                   *)

\* The stages of an attempt: those with an address to offer to others, and all.
Offering == {"announce", "announcing", "probe", "retract"}
Stage == Offering \union {"idle", "remove", "withdraw", "withdrawing", "open", "retracting", "drop"}

\* An address others can use, or none.
Complete == {a \in Address : a.ip # 0} \union {NoAddress}

\* What PortTypeOK says, one variable after the other.
PortTyped ==
    /\ wan \in Wan /\ forwards \subseteq Port /\ taken \subseteq {1}
    /\ strangers \in BOOLEAN /\ permanent \in BOOLEAN
    /\ link \in {"down", "login", "up"} /\ seenAddr \in Wan \union {0}
    /\ sent \in Complete /\ publicAddr \in Complete /\ advertised \in Complete
    /\ mapping \in Complete
    /\ mapper \in [at : Stage, m : Address \union {NoAddress}]
    /\ renewal \in [at : {"asks", "mapping", "waits", "renewing"}, m : Complete]
    /\ leaving \in [at : {"no", "removing", "removed", "gone"}, m : Complete]
    /\ asks \in Nat /\ attempts \in 0..MaxAttempts /\ asks <= attempts
    /\ glitches \in 0..MaxGlitches /\ lives \in 1..MaxLives
    /\ upset \in BOOLEAN

\* What is known of the variables whatever happens.
PortSound ==
    /\ PortTyped
    /\ mapper.at \in Offering => mapper.m.ip # 0
    /\ mapper.at \in Offering \union {"retracting", "drop"} => mapper.m \in Address
    /\ mapper.at = "idle" => mapper = Idle
    /\ mapper.at # "idle" => mapping = NoAddress
    /\ renewal.at = "renewing" => renewal.m # NoAddress

\* A process that is not running has nothing, nor left anything behind.
GoneLeavesNothing ==
    /\ link = "down" /\ mapper = Idle /\ renewal.at = "asks"
    /\ publicAddr = NoAddress /\ mapping = NoAddress
    /\ ~upset => forwards = {}

\* Where the four places agree while an attempt that nothing disturbed goes on.
Undisturbed ==
    /\ mapper.at # "idle" => link = "up"
    /\ link = "login" => sent = publicAddr
    /\ renewal.at = "renewing" => mapper.at = "idle" /\ renewal.m = mapping
    /\ mapper.at = "idle" =>
         /\ publicAddr = mapping /\ (link = "up" => advertised = mapping)
         /\ forwards = IF mapping = NoAddress THEN {} ELSE {mapping.port}
    /\ mapper.at \in {"withdraw", "withdrawing", "open"} => forwards = {}
    /\ mapper.at \in Offering \union {"remove", "retracting", "drop"} => forwards = {mapper.m.port}
    /\ mapper.at \in {"withdrawing", "open", "announce", "retracting", "drop"} => publicAddr = NoAddress
    /\ mapper.at \in {"open", "announce", "drop"} => advertised = NoAddress
    /\ mapper.at \in {"announcing", "probe", "retract"} => publicAddr = mapper.m
    /\ mapper.at \in {"probe", "retract"} => advertised = mapper.m

PortIInv ==
    /\ PortSound
    /\ ~Alive => GoneLeavesNothing
    /\ leaving.at = "no" /\ ~upset => Undisturbed

-----------------------------------------------------------------------------
(* PortMapping: the steps.                                                 *)

LEMMA PortInitially == PortInit => PortIInv
<1> SUFFICES ASSUME PortInit PROVE PortIInv
  OBVIOUS
<1>1. "idle" \in Stage /\ NoAddress \in Complete
  BY DEF Stage, Complete
<1>2. PortTyped
  <2>1. mapper \in [at : Stage, m : Address \union {NoAddress}]
    BY <1>1 DEF PortInit, Idle
  <2>2. /\ renewal \in [at : {"asks", "mapping", "waits", "renewing"}, m : Complete]
        /\ leaving \in [at : {"no", "removing", "removed", "gone"}, m : Complete]
    BY <1>1 DEF PortInit, Staying
  <2>3. 0 \in 0..MaxAttempts /\ 0 \in 0..MaxGlitches /\ 1 \in 1..MaxLives
    BY PortMappingAssumption
  <2>4. taken \subseteq {1} /\ forwards \subseteq Port
    BY DEF PortInit
  <2>5. strangers \in BOOLEAN /\ permanent \in BOOLEAN /\ upset \in BOOLEAN
    BY DEF PortInit
  <2>6. wan \in Wan /\ seenAddr \in Wan \union {0} /\ link \in {"down", "login", "up"}
    BY DEF PortInit, Wan
  <2>7. sent \in Complete /\ publicAddr \in Complete /\ advertised \in Complete /\ mapping \in Complete
    BY <1>1 DEF PortInit
  <2>8. asks \in Nat /\ attempts \in 0..MaxAttempts /\ asks <= attempts
        /\ glitches \in 0..MaxGlitches /\ lives \in 1..MaxLives
    BY <2>3 DEF PortInit
  <2> QED
    BY <2>1, <2>2, <2>4, <2>5, <2>6, <2>7, <2>8 DEF PortTyped
<1>3. PortSound
  BY <1>2 DEF PortInit, PortSound, Idle, Staying, Offering, Stage, Complete
<1>4. Undisturbed /\ Alive
  BY DEF PortInit, Undisturbed, Idle, Staying, NoAddress, Offering, Alive
<1> QED
  BY <1>3, <1>4 DEF PortIInv

LEMMA Addresses ==
    /\ NoAddress \notin Address /\ NoAddress \in Complete
    /\ \A a \in Address : a.port \in Port /\ (a.ip # 0 => a \in Complete)
    /\ \A a \in Complete : a # NoAddress => a \in Address /\ a.ip # 0
    /\ \A w \in Wan : w # 0
    /\ \A a \in Wan \union {0} : [ip |-> a, port |-> Offered] \in Address
    /\ Offered \in Port
  BY DEF NoAddress, Address, Complete, Wan, Port, Offered

LEMMA LinkSound ==
    ASSUME PortSound, LogInSends \/ LogInEnds \/ LinkLost
    PROVE  PortSound'
<1> USE PortMappingAssumption, Addresses DEF PortSound, PortTyped, routerVars, linkVars, addrVars,
        boundVars, Glitch
<1>1. CASE LogInSends
  BY <1>1 DEF LogInSends
<1>2. CASE LogInEnds
  BY <1>2 DEF LogInEnds
<1>3. CASE LinkLost
  BY <1>3 DEF LinkLost
<1> QED
  BY <1>1, <1>2, <1>3

\* Requests, whether they are answered, lost or break the connection.
LEMMA DeletesSound ==
    ASSUME PortTyped, NEW m, Deletes(m)
    PROVE  /\ forwards' \subseteq Port /\ glitches' \in 0..MaxGlitches /\ upset' \in BOOLEAN
           /\ upset => upset'
           /\ ~upset' => forwards' = forwards \ {m.port}
<1>1. upset \in BOOLEAN /\ glitches \in 0..MaxGlitches /\ forwards \subseteq Port
  BY DEF PortTyped
<1>2. CASE forwards' = forwards \ {m.port} /\ Same
  BY <1>1, <1>2 DEF Same
<1>3. CASE UNCHANGED forwards /\ Glitch
  <2>1. glitches' \in 0..MaxGlitches
    BY <1>1, <1>3, PortMappingAssumption DEF Glitch
  <2>2. upset' = TRUE
    BY <1>3 DEF Glitch
  <2> QED
    BY <1>1, <1>3, <2>1, <2>2
<1> QED
  BY <1>2, <1>3 DEF Deletes

LEMMA AdvertisesSound ==
    ASSUME PortTyped, NEW a \in Complete, NEW ok, Advertises(a, ok)
    PROVE  /\ link' \in {"down", "login", "up"} /\ seenAddr' = seenAddr /\ sent' = sent
           /\ advertised' \in Complete /\ glitches' \in 0..MaxGlitches /\ upset' \in BOOLEAN
           /\ upset => upset'
           /\ ~upset' => ok /\ link' = link /\ advertised' = IF link = "up" THEN a ELSE advertised
<1>1. /\ upset \in BOOLEAN /\ glitches \in 0..MaxGlitches /\ advertised \in Complete
      /\ link \in {"down", "login", "up"} /\ NoAddress \in Complete
  BY Addresses DEF PortTyped
<1>2. CASE link # "up" /\ ok /\ UNCHANGED <<linkVars, advertised>> /\ Same
  BY <1>1, <1>2 DEF Same, linkVars
<1>3. CASE link = "up" /\ ok /\ advertised' = a /\ UNCHANGED linkVars /\ Same
  BY <1>1, <1>3 DEF Same, linkVars
<1>4. CASE /\ link = "up" /\ ~ok /\ Glitch
           /\ link' = "down" /\ advertised' = NoAddress
           /\ UNCHANGED <<sent, seenAddr>>
  <2>1. glitches' \in 0..MaxGlitches
    BY <1>1, <1>4, PortMappingAssumption DEF Glitch
  <2>2. upset' = TRUE
    BY <1>4 DEF Glitch
  <2> QED
    BY <1>1, <1>4, <2>1, <2>2
<1> QED
  BY <1>2, <1>3, <1>4 DEF Advertises

LEMMA MapSound ==
    ASSUME PortSound, MapPort
    PROVE  PortSound'
<1> USE PortMappingAssumption, Addresses DEF PortSound, PortTyped, routerVars, linkVars, addrVars,
        boundVars, Glitch, Same, Stage, Offering, MapGoes, Idle
<1>1. CASE StartMap
  BY <1>1 DEF StartMap
<1>2. CASE MapRemoves
  <2>1. mapper' \in [at : Stage, m : Address \union {NoAddress}] /\ mapper'.at \in {"withdraw", "open"}
    BY <1>2 DEF MapRemoves
  <2> QED
    BY <1>2, <2>1, DeletesSound DEF MapRemoves
<1>3. CASE MapSets
  BY <1>3 DEF MapSets, SetsPublicAddr
<1>4. CASE MapTells
  <2>1. PICK ok \in BOOLEAN :
            /\ Advertises(publicAddr, ok)
            /\ \/ mapper.at = "withdrawing" /\ mapper' = [at |-> "open", m |-> NoAddress]
               \/ mapper.at = "announcing" /\ mapper' = [at |-> IF ok THEN "probe" ELSE "drop", m |-> mapper.m]
               \/ mapper.at = "retracting" /\ mapper' = [at |-> "drop", m |-> mapper.m]
    BY <1>4 DEF MapTells
  <2>2. /\ link' \in {"down", "login", "up"} /\ seenAddr' = seenAddr /\ sent' = sent
        /\ advertised' \in Complete /\ glitches' \in 0..MaxGlitches /\ upset' \in BOOLEAN
    BY <2>1, AdvertisesSound
  <2> QED
    BY <1>4, <2>1, <2>2 DEF MapTells
<1>5. CASE MapOpens
  BY <1>5 DEF MapOpens, Fails
<1>6. CASE MapProbes
  <2>1. CASE Keeps(mapper.m)
    BY <1>6, <2>1 DEF MapProbes, Keeps
  <2>2. CASE MapGoes("retract", mapper.m) /\ UNCHANGED mapping
    BY <1>6, <2>2 DEF MapProbes
  <2> QED
    BY <1>6, <2>1, <2>2 DEF MapProbes
<1>7. CASE MapDrops
  <2>1. forwards' \subseteq Port /\ glitches' \in 0..MaxGlitches /\ upset' \in BOOLEAN
    BY <1>7, DeletesSound DEF MapDrops
  <2> QED
    BY <1>7, <2>1 DEF MapDrops, Fails
<1> QED
  BY <1>1, <1>2, <1>3, <1>4, <1>5, <1>6, <1>7 DEF MapPort

LEMMA LoopSound ==
    ASSUME PortSound, RenewLoop \/ UserAsks
    PROVE  PortSound'
<1> USE PortMappingAssumption, Addresses DEF PortSound, PortTyped, routerVars, linkVars, addrVars,
        boundVars
<1>1. CASE LoopWaits
  BY <1>1 DEF LoopWaits
<1>2. CASE LoopReads
  BY <1>2 DEF LoopReads
<1>3. CASE LoopRenews
  BY <1>3 DEF LoopRenews
<1>4. CASE UserAsks
  BY <1>4 DEF UserAsks
<1> QED
  BY <1>1, <1>2, <1>3, <1>4 DEF RenewLoop

LEMMA ProcessSound ==
    ASSUME PortSound, PrepareExit \/ ExitRemoves \/ Exits \/ Killed \/ Starts
    PROVE  PortSound'
<1> USE PortMappingAssumption, Addresses DEF PortSound, PortTyped, routerVars, linkVars, addrVars,
        boundVars, Glitch, Same, Idle, Staying, Stage, Offering
<1>1. CASE PrepareExit
  BY <1>1 DEF PrepareExit
<1>2. CASE ExitRemoves
  <2>1. leaving' \in [at : {"no", "removing", "removed", "gone"}, m : Complete]
    BY <1>2 DEF ExitRemoves
  <2> QED
    BY <1>2, <2>1, DeletesSound DEF ExitRemoves
<1>3. CASE Exits
  BY <1>3 DEF Exits, Ends
<1>4. CASE Killed
  BY <1>4 DEF Killed, Ends
<1>5. CASE Starts
  BY <1>5 DEF Starts
<1> QED
  BY <1>1, <1>2, <1>3, <1>4, <1>5

LEMMA RouterSound ==
    ASSUME PortSound, LeaseEnds \/ RouterRestarts
    PROVE  PortSound'
<1> USE PortMappingAssumption DEF PortSound, PortTyped, linkVars, addrVars, boundVars, Glitch
<1>1. CASE LeaseEnds
  BY <1>1 DEF LeaseEnds
<1>2. CASE RouterRestarts
  BY <1>2 DEF RouterRestarts, Wan
<1> QED
  BY <1>1, <1>2

LEMMA PortSoundKept ==
    ASSUME PortSound, [PortNext]_portVars
    PROVE  PortSound'
<1>1. CASE UNCHANGED portVars
  BY <1>1 DEF portVars, routerVars, linkVars, addrVars, boundVars, PortSound, PortTyped
<1> QED
  BY <1>1, LinkSound, MapSound, LoopSound, ProcessSound, RouterSound DEF PortNext, LogsIn

\* An attempt goes on undisturbed.
LEMMA MapUndisturbed ==
    ASSUME PortSound, Undisturbed, ~upset, MapPort, ~upset'
    PROVE  Undisturbed'
<1> USE DEF PortSound, Undisturbed, Offering, MapGoes, Idle, addrVars, linkVars, routerVars
<1>0. upset \in BOOLEAN /\ upset' \in BOOLEAN /\ PortTyped /\ publicAddr \in Complete
  BY MapSound DEF PortTyped
<1>1. CASE StartMap
  <2>1. link = "up" /\ renewal.at # "renewing"
    BY <1>0, <1>1 DEF StartMap
  <2>2. mapper.at = "idle" /\ renewal'.at # "renewing"
    BY <1>0, <1>1, <2>1 DEF StartMap, PortTyped
  <2> QED
    BY <1>1, <2>1, <2>2 DEF StartMap
<1>2. CASE MapRemoves
  <2>1. forwards' = forwards \ {mapper.m.port}
    BY <1>0, <1>2, DeletesSound DEF MapRemoves
  <2> QED
    BY <1>2, <2>1 DEF MapRemoves
<1>3. CASE MapSets
  BY <1>3 DEF MapSets, SetsPublicAddr
<1>4. CASE MapTells
  <2>1. PICK ok \in BOOLEAN :
            /\ Advertises(publicAddr, ok)
            /\ \/ mapper.at = "withdrawing" /\ mapper' = [at |-> "open", m |-> NoAddress]
               \/ mapper.at = "announcing" /\ mapper' = [at |-> IF ok THEN "probe" ELSE "drop", m |-> mapper.m]
               \/ mapper.at = "retracting" /\ mapper' = [at |-> "drop", m |-> mapper.m]
    BY <1>4 DEF MapTells
  <2>2. link = "up" /\ link' = "up" /\ ok /\ advertised' = publicAddr /\ sent' = sent
    BY <1>0, <2>1, AdvertisesSound
  <2> QED
    BY <1>4, <2>1, <2>2 DEF MapTells
<1>5. CASE MapOpens
  <2>1. CASE Fails /\ UNCHANGED forwards
    BY <1>5, <2>1 DEF MapOpens, Fails
  <2>2. CASE /\ forwards' = forwards \union {Offered} /\ UNCHANGED mapping
             /\ \E ip \in {wan, seenAddr} :
                    mapper' = [at |-> IF ip # 0 /\ seenAddr \in {0, ip} THEN "announce" ELSE "drop",
                               m |-> [ip |-> ip, port |-> Offered]]
    BY <1>5, <2>2 DEF MapOpens
  <2> QED
    BY <1>5, <2>1, <2>2 DEF MapOpens
<1>6. CASE MapProbes
  <2>1. CASE Keeps(mapper.m)
    <3>1. mapper.m # NoAddress
      BY <1>6 DEF MapProbes, NoAddress
    <3> QED
      BY <1>6, <2>1, <3>1 DEF MapProbes, Keeps
  <2>2. CASE MapGoes("retract", mapper.m) /\ UNCHANGED mapping
    BY <1>6, <2>2 DEF MapProbes
  <2> QED
    BY <1>6, <2>1, <2>2 DEF MapProbes
<1>7. CASE MapDrops
  <2>1. forwards' = forwards \ {mapper.m.port}
    BY <1>0, <1>7, DeletesSound DEF MapDrops
  <2> QED
    BY <1>7, <2>1 DEF MapDrops, Fails
<1> QED
  BY <1>1, <1>2, <1>3, <1>4, <1>5, <1>6, <1>7 DEF MapPort

\* Nor does the connection or the loop disturb it.
LEMMA RestUndisturbed ==
    ASSUME PortSound, Undisturbed, LogsIn \/ RenewLoop \/ UserAsks
    PROVE  Undisturbed'
<1> USE DEF PortSound, Undisturbed, Offering, addrVars, linkVars, routerVars
<1>1. CASE LogInSends
  BY <1>1 DEF LogInSends
<1>2. CASE LogInEnds
  BY <1>2 DEF LogInEnds
<1>3. CASE LoopWaits
  BY <1>3 DEF LoopWaits
<1>4. CASE LoopReads
  BY <1>4 DEF LoopReads
<1>5. CASE LoopRenews
  BY <1>5 DEF LoopRenews
<1>6. CASE UserAsks
  BY <1>6 DEF UserAsks
<1> QED
  BY <1>1, <1>2, <1>3, <1>4, <1>5, <1>6 DEF LogsIn, RenewLoop

LEMMA PortInductive ==
    ASSUME PortIInv, [PortNext]_portVars
    PROVE  PortIInv'
<1>1. PortSound /\ PortSound' /\ upset \in BOOLEAN /\ upset' \in BOOLEAN
  BY PortSoundKept DEF PortIInv, PortSound, PortTyped
<1>2. ASSUME leaving'.at = "no", ~upset' PROVE Undisturbed'
  <2>1. CASE MapPort
    <3>1. leaving.at = "no" /\ ~upset
      BY <1>1, <1>2, <2>1, DeletesSound, AdvertisesSound
         DEF MapPort, StartMap, MapRemoves, MapSets, MapTells, MapOpens, MapProbes, MapDrops,
             PortSound, PortTyped
    <3> QED
      BY <1>1, <1>2, <2>1, <3>1, MapUndisturbed DEF PortIInv
  <2>2. CASE LogsIn \/ RenewLoop \/ UserAsks
    <3>1. leaving.at = "no" /\ ~upset
      BY <1>2, <2>2 DEF LogsIn, LogInSends, LogInEnds, RenewLoop, LoopWaits, LoopReads, LoopRenews,
             UserAsks, boundVars
    <3> QED
      BY <1>1, <2>2, <3>1, RestUndisturbed DEF PortIInv
  <2>3. CASE LinkLost \/ RouterRestarts \/ Killed
    BY <1>2, <2>3 DEF LinkLost, RouterRestarts, Killed, Glitch
  <2>4. CASE PrepareExit \/ ExitRemoves \/ Exits
    BY <1>1, <1>2, <2>4 DEF PrepareExit, ExitRemoves, Exits, Ends, PortSound, PortTyped
  <2>5. CASE Starts
    <3>1. GoneLeavesNothing /\ forwards = {} /\ renewal'.at = "asks"
      BY <1>2, <2>5 DEF Starts, PortIInv, GoneLeavesNothing
    <3> QED
      BY <2>5, <3>1 DEF Starts, GoneLeavesNothing, Undisturbed, Idle, Offering, routerVars, linkVars,
             addrVars
  <2>6. CASE LeaseEnds
    BY <1>2, <2>6 DEF LeaseEnds, Alive
  <2>7. CASE UNCHANGED portVars
    BY <1>2, <2>7 DEF portVars, routerVars, linkVars, addrVars, boundVars, PortIInv, Undisturbed
  <2> QED
    BY <2>1, <2>2, <2>3, <2>4, <2>5, <2>6, <2>7 DEF PortNext
<1>3. ASSUME ~Alive' PROVE GoneLeavesNothing'
  <2>1. CASE Exits
    BY <1>1, <2>1 DEF Exits, Ends, GoneLeavesNothing, Idle, routerVars
  <2>2. CASE Killed
    BY <2>2 DEF Killed, Ends, Glitch, GoneLeavesNothing, Idle
  <2>3. CASE LeaseEnds \/ RouterRestarts \/ LinkLost
    <3>1. ~Alive
      BY <1>3, <2>3 DEF Alive, LeaseEnds, RouterRestarts, LinkLost
    <3> QED
      BY <2>3, <3>1 DEF PortIInv, GoneLeavesNothing, LeaseEnds, RouterRestarts, LinkLost, Glitch,
             linkVars, addrVars
  <2>4. CASE UNCHANGED portVars
    BY <1>3, <2>4 DEF portVars, routerVars, linkVars, addrVars, boundVars, PortIInv,
           GoneLeavesNothing, Alive
  <2>5. CASE LogsIn \/ MapPort \/ RenewLoop
    BY <1>3, <2>5 DEF Alive, LogsIn, LogInSends, LogInEnds, MapPort, StartMap, MapRemoves, MapSets,
           MapTells, MapOpens, MapProbes, MapDrops, RenewLoop, LoopWaits, LoopReads, LoopRenews
  <2>6. CASE UserAsks \/ PrepareExit \/ ExitRemoves \/ Starts
    BY <1>1, <1>3, <2>6 DEF Alive, UserAsks, PrepareExit, ExitRemoves, Starts, Staying, PortSound, PortTyped
  <2> QED
    BY <2>1, <2>2, <2>3, <2>4, <2>5, <2>6 DEF PortNext
<1> QED
  BY <1>1, <1>2, <1>3 DEF PortIInv

-----------------------------------------------------------------------------
(* PortMapping: the theorems.                                              *)

\* Where the router's forwards, the mapping, the client's address and the one at
\* the server stand at each stage of an attempt that nothing disturbs (mapPort,
\* removeMapping, SetPublicAddr, advertise).
THEOREM PortInvariant == PortSpec => []PortIInv
  BY PortInitially, PortInductive, PTL DEF PortSpec

\* The variables hold values of their types (mapPort, startPortMapping).
THEOREM PortTypes == PortSpec => []PortTypeOK
<1>1. ASSUME PortIInv PROVE PortTypeOK
  <2>1. PortTyped
    BY <1>1 DEF PortIInv, PortSound
  <2>2. {sent, publicAddr, advertised, mapping, renewal.m, leaving.m} \subseteq Complete
    BY <2>1 DEF PortTyped
  <2>3. asks \in 0..MaxAttempts
    BY <2>1, PortMappingAssumption DEF PortTyped
  <2> QED
    BY <2>1, <2>2, <2>3 DEF PortTyped, PortTypeOK, Stage, Offering, Complete
<1> QED
  BY <1>1, PortInvariant, PTL

\* An attempt made while the client is connected, and that nothing disturbs,
\* leaves all four places in agreement when it is over, wherever it failed: the
\* mapping is kept, forwarded, sent with logins and advertised, or it is none of
\* these (mapPort, removeMapping, SetPublicAddr, advertise).
THEOREM AllAgree == PortSpec => []AllOrNothing
<1>1. PortIInv => AllOrNothing
  BY DEF PortIInv, Undisturbed, AllOrNothing, AtRest, Idle, Staying
<1> QED
  BY <1>1, PortInvariant, PTL

-----------------------------------------------------------------------------
(* Relay: the inductive invariant.                                         *)

\* A call may still open a session.
MayOpen ==
    \/ call.at = "reuse"
    \/ call.at = "direct" /\ ~call.tried
    \/ call.at = "ask" /\ answer = NoAnswer

\* A call opens one session at most.
OncePerCall ==
    /\ opened <= sends /\ (MayOpen => opened < sends)
    /\ call.at # "ask" => answer = NoAnswer

\* An answer and an attempt are of a session.
Numbered ==
    /\ answer.kind = "session" => answer.id # 0
    /\ call.at \in {"reuse", "fresh"} => call.id # 0

\* The server's table: one session by each number, ...
TableSound ==
    /\ \A r \in relays : r.id <= opened
    /\ \A r, s \in relays : r.id = s.id => r = s

\* ... which was used when a packet was passed on, and after that as recently as
\* a remembers it.
UsedAsRemembered ==
    /\ \A r \in relays : (r.id = memory.id /\ memory.age < TTL) => r.age <= memory.age
    /\ \A p \in packets : p.leg = "client" => \A r \in relays : r.id = p.id => r.age = 0

\* An address is one client's, and the login a client is online by has not ended.
LoginsSound ==
    /\ \A l \in Login : from[l].c = l.c
    /\ \A l \in ended : l.n <= logins[l.c] /\ (l.n = logins[l.c] => online[l.c] = 0)

\* The session i was opened for the logins the two clients have now, and b knows
\* of it or is about to.
OpenFor(i) ==
    /\ i \in Id
    /\ \E r \in relays : r.id = i /\ r.age = 0 /\ r.a = L("a", logins["a"]) /\ r.b = L("b", logins["b"])
    /\ i \in pushes \/ accepted["b"][i] = 0

\* A packet of a to b, or of b to a, that the next hop does not turn away.
OnItsWay(p) ==
    \/ p.leg = "server" /\ p.addr = Here(p.by)
    \/ p.leg = "client" /\ p.addr = Here(Peer(p.by))

\* What is known of an attempt that no fault and no change of connections met.
AttemptSound ==
    /\ call.at # "idle" => Settled
    /\ call.at = "ask" /\ answer.kind = "session" => OpenFor(answer.id)
    /\ call.at = "fresh" => OpenFor(call.id) /\ accepted["a"][call.id] = 0
    /\ call.at = "fresh" /\ resent =>
         call.id \notin pushes /\ \E p \in packets : p.id = call.id /\ OnItsWay(p)

RelayIInv ==
    /\ RelayTypeOK /\ Numbered /\ OncePerCall /\ TableSound /\ UsedAsRemembered /\ LoginsSound
    /\ ~hit => AttemptSound

-----------------------------------------------------------------------------
(* Relay: types.                                                           *)

LEMMA Bounds ==
    /\ 1 \in Id /\ Id \subseteq Nat
    /\ \A c \in Client, n \in 1..MaxLogins : L(c, n) \in Login /\ L(c, n).c = c /\ L(c, n).n = n
    /\ \A l \in Login : l.c \in Client /\ l.n \in 1..MaxLogins /\ l = L(l.c, l.n)
    /\ Forgotten \in Nat /\ Forgotten = SessionIdle + 2 /\ Never \in Nat
    /\ MaxLogins \in Nat /\ MaxSends \in Nat /\ MaxFaults \in Nat /\ SessionIdle \in Nat
    /\ RelayIdle \in Nat /\ TTL \in Nat /\ TTL < RelayIdle /\ TTL < Memory /\ Memory \in Nat
    /\ 1 \in 1..MaxLogins /\ "a" \in Client /\ "b" \in Client
  BY RelayAssumption DEF Id, Login, L, Forgotten, Never, Client

LEMMA RelayInitially == RelayInit => RelayIInv
<1> SUFFICES ASSUME RelayInit PROVE RelayIInv
  OBVIOUS
<1>1. RelayTypeOK
  <2>1. call \in [at : {"idle", "direct", "reuse", "ask", "fresh"}, id : Id \union {0},
                 can : BOOLEAN, tried : BOOLEAN]
    BY DEF RelayInit, NoCall
  <2>2. answer \in [kind : {"none", "session", "refused"}, id : Id \union {0}]
    BY DEF RelayInit, NoAnswer
  <2>3. from \in [Login -> Addr] /\ accepted \in [Client -> [Id -> 0..Forgotten]]
    BY Bounds DEF RelayInit, Addr
  <2>4. memory \in [id : Id \union {0}, age : 0..Never]
    BY Bounds DEF RelayInit
  <2>5. online \in [Client -> 0..MaxLogins] /\ logins \in [Client -> 1..MaxLogins]
    BY Bounds DEF RelayInit
  <2>6. relays \subseteq Session /\ ended \subseteq Login /\ up \subseteq Client
        /\ pushes \subseteq Id /\ packets \subseteq Packet /\ resent \in BOOLEAN /\ hit \in BOOLEAN
    BY DEF RelayInit
  <2>7. opened \in 0..MaxSends /\ sends \in 0..MaxSends /\ faults \in 0..MaxFaults
    BY Bounds DEF RelayInit
  <2> QED
    BY <2>1, <2>2, <2>3, <2>4, <2>5, <2>6, <2>7 DEF RelayTypeOK
<1>2. OncePerCall
  BY DEF RelayInit, OncePerCall, MayOpen, NoCall
<1>3. TableSound /\ UsedAsRemembered
  BY DEF RelayInit, TableSound, UsedAsRemembered
<1>4. LoginsSound
  BY Bounds DEF RelayInit, LoginsSound
<1>5. AttemptSound /\ Numbered
  BY DEF RelayInit, AttemptSound, Numbered, NoCall, NoAnswer
<1> QED
  BY <1>1, <1>2, <1>3, <1>4, <1>5 DEF RelayIInv

\* What a step that a fault causes does to the counter.
LEMMA FaultSound ==
    ASSUME RelayTypeOK, Fault
    PROVE  faults' \in 0..MaxFaults /\ hit' = TRUE /\ faults' # faults
  BY Bounds DEF RelayTypeOK, Fault

LEMMA HereIs ==
    ASSUME RelayTypeOK, NEW c \in Client
    PROVE  Here(c) \in Addr
  BY Bounds DEF RelayTypeOK, Here

LEMMA OutIs ==
    ASSUME RelayTypeOK, NEW c \in Client, NEW i \in Id
    PROVE  Out(c, i) \in Packet
  BY HereIs DEF Out, Packet

LEMMA AllowIs ==
    ASSUME RelayTypeOK, NEW c \in Client, NEW i \in Id, Allow(c, i)
    PROVE  accepted' \in [Client -> [Id -> 0..Forgotten]] /\ accepted'[c][i] = 0
           /\ \A d \in Client, j \in Id : accepted[d][j] = 0 => accepted'[d][j] = 0
<1> DEFINE row == [j \in Id |->
        IF j = i THEN 0 ELSE IF accepted[c][j] > SessionIdle THEN Forgotten ELSE accepted[c][j]]
<1>1. accepted' = [accepted EXCEPT ![c] = row]
  BY DEF Allow
<1>2. row \in [Id -> 0..Forgotten]
  BY Bounds DEF RelayTypeOK
<1>3. row[i] = 0 /\ \A j \in Id : accepted[c][j] = 0 => row[j] = 0
  BY Bounds
<1> HIDE DEF row
<1> QED
  BY <1>1, <1>2, <1>3 DEF RelayTypeOK

LEMMA SeenIs ==
    ASSUME RelayTypeOK, NEW c \in Client, NEW i \in Id, Seen(c, i)
    PROVE  accepted' \in [Client -> [Id -> 0..Forgotten]] /\ accepted'[c][i] = 0
           /\ \A d \in Client, j \in Id : accepted[d][j] = 0 => accepted'[d][j] = 0
  BY Bounds DEF RelayTypeOK, Seen

\* No call, no answer and no memory.
LEMMA NothingYet ==
    /\ NoCall \in [at : {"idle", "direct", "reuse", "ask", "fresh"}, id : Id \union {0},
                   can : BOOLEAN, tried : BOOLEAN]
    /\ NoAnswer \in [kind : {"none", "session", "refused"}, id : Id \union {0}]
    /\ [id |-> 0, age |-> Never] \in [id : Id \union {0}, age : 0..Never]
  BY Bounds DEF NoCall, NoAnswer

\* The types, one variable after the other.
LEMMA CallTypes ==
    ASSUME RelayTypeOK, Numbered,
           \/ Deliver \/ DirectArrives \/ DirectFails \/ AskFails \/ Asked \/ Resend \/ TimesOut \/ Answered
    PROVE  RelayTypeOK'
<1> USE DEF tableVars, loginVars, netVars, callVars
<1>0. /\ NoCall \in [at : {"idle", "direct", "reuse", "ask", "fresh"}, id : Id \union {0},
                     can : BOOLEAN, tried : BOOLEAN]
      /\ NoAnswer \in [kind : {"none", "session", "refused"}, id : Id \union {0}]
      /\ [id |-> 0, age |-> Never] \in [id : Id \union {0}, age : 0..Never]
      /\ "a" \in Client /\ "b" \in Client
  BY NothingYet, Bounds
<1>v. ASSUME NEW tried \in BOOLEAN, ViaRelay(tried)
      PROVE  /\ call' \in [at : {"idle", "direct", "reuse", "ask", "fresh"}, id : Id \union {0},
                           can : BOOLEAN, tried : BOOLEAN]
             /\ packets' \subseteq Packet /\ resent' \in BOOLEAN /\ UNCHANGED <<answer, pushes>>
  <2>1. Usable => memory.id \in Id
    BY DEF Usable, RelayTypeOK
  <2>2. Usable => Out("a", memory.id) \in Packet
    BY <1>0, <2>1, OutIs
  <2> QED
    BY <1>v, <2>1, <2>2 DEF ViaRelay, RelayTypeOK
<1>d. ASSUME NEW can \in BOOLEAN, NEW tried \in BOOLEAN, Direct(can, tried)
      PROVE  /\ call' \in [at : {"idle", "direct", "reuse", "ask", "fresh"}, id : Id \union {0},
                           can : BOOLEAN, tried : BOOLEAN]
             /\ resent' \in BOOLEAN /\ UNCHANGED netVars
  BY <1>d DEF Direct
<1>1. CASE Deliver
  <2> DEFINE can == "a" \in up /\ online["a"] # 0 /\ online["b"] # 0
  <2>1. can \in BOOLEAN /\ hit' \in BOOLEAN
    BY <1>1 DEF Deliver
  <2>2. /\ call' \in [at : {"idle", "direct", "reuse", "ask", "fresh"}, id : Id \union {0},
                      can : BOOLEAN, tried : BOOLEAN]
        /\ packets' \subseteq Packet /\ resent' \in BOOLEAN /\ UNCHANGED <<answer, pushes>>
    <3>1. ViaRelay(TRUE) \/ Direct(can, FALSE)
      BY <1>1 DEF Deliver
    <3> QED
      BY <2>1, <3>1, <1>v, <1>d DEF RelayTypeOK
  <2>3. sends' \in 0..MaxSends
    BY <1>1, Bounds DEF Deliver, RelayTypeOK
  <2> QED
    BY <1>1, <2>1, <2>2, <2>3 DEF Deliver, RelayTypeOK
<1>2. CASE DirectArrives
  BY <1>0, <1>2 DEF DirectArrives, End, RelayTypeOK
<1>3. CASE DirectFails
  <2>1. CASE ViaRelay(FALSE)
    BY <1>3, <2>1, <1>v DEF DirectFails, RelayTypeOK
  <2>2. CASE End
    BY <1>0, <1>3, <2>2 DEF DirectFails, End, RelayTypeOK
  <2> QED
    BY <1>3, <2>1, <2>2 DEF DirectFails
<1>4. CASE AskFails
  BY <1>0, <1>4 DEF AskFails, RelayTypeOK
<1>5. CASE Asked
  <2>1. answer.id \in Id
    BY <1>5 DEF Asked, RelayTypeOK, Numbered
  <2> QED
    BY <1>0, <1>5, <2>1, OutIs, AllowIs DEF Asked, RelayTypeOK
<1>6. CASE Resend
  <2>1. call.id \in Id
    BY <1>6 DEF Resend, Attempting, RelayTypeOK, Numbered
  <2> QED
    BY <1>0, <1>6, <2>1, OutIs DEF Resend, RelayTypeOK
<1>7. CASE TimesOut
  <2>1. CASE RelayFails
    BY <1>0, <1>7, <2>1, <1>d DEF TimesOut, RelayFails, End, RelayTypeOK
  <2>2. CASE call' = [call EXCEPT !.at = "ask", !.id = 0] /\ resent' = FALSE /\ UNCHANGED netVars
    BY <1>7, <2>2 DEF TimesOut, RelayTypeOK
  <2> QED
    BY <1>7, <2>1, <2>2 DEF TimesOut
<1>8. CASE Answered
  <2>1. PICK p \in packets :
            /\ packets' = packets \ {p}
            /\ \/ Seen("a", p.id) \/ UNCHANGED accepted
            /\ \/ memory' \in {memory, [id |-> p.id, age |-> 0]} /\ call' = NoCall /\ resent' = FALSE
               \/ UNCHANGED <<memory, call, resent>>
            /\ UNCHANGED <<tableVars, loginVars, sends, answer, pushes, faults, hit>>
    BY <1>8 DEF Answered
  <2>2. p.id \in Id
    BY DEF RelayTypeOK, Packet
  <2>3. accepted' \in [Client -> [Id -> 0..Forgotten]]
    BY <1>0, <2>1, <2>2, SeenIs DEF RelayTypeOK
  <2>4. [id |-> p.id, age |-> 0] \in [id : Id \union {0}, age : 0..Never]
    BY <2>2, Bounds
  <2> QED
    BY <1>0, <2>1, <2>3, <2>4 DEF RelayTypeOK
<1> QED
  BY <1>1, <1>2, <1>3, <1>4, <1>5, <1>6, <1>7, <1>8

\* Sessions grow older, and young again when they are used.
LEMMA Ages ==
    /\ \A r \in Session, n \in 0..(RelayIdle + 1) :
         /\ [r EXCEPT !.age = n] \in Session /\ [r EXCEPT !.age = n].age = n
         /\ [r EXCEPT !.age = n].id = r.id /\ [r EXCEPT !.age = n].a = r.a /\ [r EXCEPT !.age = n].b = r.b
    /\ 0 \in 0..(RelayIdle + 1)
    /\ \A top \in Nat : \A n \in 0..top : Older(n, top) \in 0..top /\ Older(n, top) <= n + 1
    /\ \A top \in Nat : \A n \in 0..top : n < top => Older(n, top) = n + 1
<1>1. \A r \in Session, n \in 0..(RelayIdle + 1) :
         /\ [r EXCEPT !.age = n] \in Session /\ [r EXCEPT !.age = n].age = n
         /\ [r EXCEPT !.age = n].id = r.id /\ [r EXCEPT !.age = n].a = r.a /\ [r EXCEPT !.age = n].b = r.b
  BY DEF Session
<1> QED
  BY <1>1, Bounds DEF Older

LEMMA NetTypes ==
    ASSUME RelayTypeOK, OncePerCall,
           TakePush \/ TakePacket \/ OpenRelay \/ ServeRelay \/ SweepRelays \/ Tick
    PROVE  RelayTypeOK'
<1> USE DEF tableVars, loginVars, netVars, callVars
<1>1. CASE TakePush
  <2>1. PICK i \in pushes : pushes' = pushes \ {i} /\ (Allow("b", i) \/ UNCHANGED accepted)
    BY <1>1 DEF TakePush
  <2>2. accepted' \in [Client -> [Id -> 0..Forgotten]]
    BY <2>1, AllowIs, Bounds DEF RelayTypeOK
  <2> QED
    BY <1>1, <2>1, <2>2 DEF TakePush, RelayTypeOK
<1>2. CASE TakePacket
  <2>1. PICK p \in packets : \/ packets' = (packets \ {p}) \union {Out("b", p.id)} /\ Seen("b", p.id)
                             \/ packets' = packets \ {p} /\ UNCHANGED accepted
    BY <1>2 DEF TakePacket
  <2>2. p.id \in Id
    BY DEF RelayTypeOK, Packet
  <2>3. accepted' \in [Client -> [Id -> 0..Forgotten]] /\ packets' \subseteq Packet
    <3>1. "b" \in Client /\ Out("b", p.id) \in Packet
      BY <2>2, OutIs, Bounds
    <3>2. CASE Seen("b", p.id) /\ packets' = (packets \ {p}) \union {Out("b", p.id)}
      BY <2>2, <3>1, <3>2, SeenIs DEF RelayTypeOK
    <3>3. CASE packets' = packets \ {p} /\ UNCHANGED accepted
      BY <3>3 DEF RelayTypeOK
    <3> QED
      BY <2>1, <3>2, <3>3
  <2> QED
    BY <1>2, <2>3 DEF TakePacket, RelayTypeOK
<1>3. CASE OpenRelay
  <2>1. CASE answer' = [kind |-> "refused", id |-> 0] /\ UNCHANGED <<tableVars, pushes>>
    BY <1>3, <2>1 DEF OpenRelay, RelayTypeOK
  <2>2. CASE /\ online["b"] # 0 /\ opened' = opened + 1
             /\ relays' = relays \union
                   {[id |-> opened', a |-> L("a", online["a"]), b |-> L("b", online["b"]), age |-> 0]}
             /\ answer' = [kind |-> "session", id |-> opened']
             /\ pushes' = pushes \union {opened'}
    <3>1. opened' \in Id /\ opened' \in 0..MaxSends
      BY <1>3, <2>2, Bounds DEF OpenRelay, OncePerCall, MayOpen, RelayTypeOK, Id
    <3>2. L("a", online["a"]) \in Login /\ L("b", online["b"]) \in Login
      BY <1>3, <2>2, Bounds DEF OpenRelay, RelayTypeOK
    <3>3. [id |-> opened', a |-> L("a", online["a"]), b |-> L("b", online["b"]), age |-> 0] \in Session
      BY <3>1, <3>2, Bounds DEF Session
    <3> QED
      BY <1>3, <2>2, <3>1, <3>3 DEF OpenRelay, RelayTypeOK
  <2> QED
    BY <1>3, <2>1, <2>2 DEF OpenRelay
<1>4. CASE ServeRelay
  <2>1. PICK p \in packets :
          /\ packets' = (packets \ {p}) \union
                {[leg |-> "client", id |-> p.id, addr |-> w.to, by |-> p.by] : w \in Routes(p)}
          /\ relays' = {IF \E w \in Routes(p) : w.r = r THEN [r EXCEPT !.age = 0] ELSE r : r \in relays}
    BY <1>4 DEF ServeRelay
  <2>2. \A w \in Routes(p) : w.to \in Addr
    BY DEF Routes, RelayTypeOK, Session
  <2>3. packets' \subseteq Packet
    BY <2>1, <2>2 DEF RelayTypeOK, Packet
  <2>4. \A r \in relays : r \in Session /\ [r EXCEPT !.age = 0] \in Session
    BY Ages DEF RelayTypeOK
  <2>5. relays' \subseteq Session
    BY <2>1, <2>4
  <2> QED
    BY <1>4, <2>3, <2>5 DEF ServeRelay, RelayTypeOK
<1>5. CASE SweepRelays
  BY <1>5 DEF SweepRelays, RelayTypeOK
<1>6. CASE Tick
  <2>1. \A r \in relays : [r EXCEPT !.age = Older(@, RelayIdle + 1)] \in Session
    <3> TAKE r \in relays
    <3>1. r \in Session /\ r.age \in 0..(RelayIdle + 1) /\ RelayIdle + 1 \in Nat
      BY Bounds DEF RelayTypeOK, Session
    <3> QED
      BY <3>1, Ages
  <2>2. relays' \subseteq Session
    BY <1>6, <2>1 DEF Tick
  <2>3. memory' \in [id : Id \union {0}, age : 0..Never]
    <3>1. memory.age \in 0..Never /\ Never \in Nat
      BY Bounds DEF RelayTypeOK
    <3> QED
      BY <1>6, <3>1, Ages DEF Tick, RelayTypeOK
  <2>4. accepted' \in [Client -> [Id -> 0..Forgotten]]
    <3>1. \A c \in Client, i \in Id :
            (IF Known(c, i) THEN Older(accepted[c][i], SessionIdle + 1) ELSE Forgotten) \in 0..Forgotten
      BY Bounds DEF RelayTypeOK, Older
    <3> QED
      BY <1>6, <3>1 DEF Tick
  <2> QED
    BY <1>6, <2>2, <2>3, <2>4 DEF Tick, RelayTypeOK
<1> QED
  BY <1>1, <1>2, <1>3, <1>4, <1>5, <1>6

LEMMA ConnectionTypes ==
    ASSUME RelayTypeOK,
           \/ \E c \in Client : LogIn(c) \/ LoseConnection(c) \/ Notice(c) \/ NoticeServer(c) \/ RestartClient(c)
           \/ RestartServer \/ Lose
    PROVE  RelayTypeOK'
<1> USE DEF tableVars, loginVars, netVars, callVars
<1>1. ASSUME NEW c \in Client, LogIn(c) PROVE RelayTypeOK'
  <2>1. logins' \in [Client -> 1..MaxLogins] /\ logins'[c] \in 1..MaxLogins /\ logins[c] \in 1..MaxLogins
    BY <1>1, Bounds DEF LogIn, RelayTypeOK
  <2>2. from' \in [Login -> Addr]
    <3>1. PICK addr \in {Here(c), L(c, logins'[c])} : from' = [from EXCEPT ![L(c, logins'[c])] = addr]
      BY <1>1 DEF LogIn
    <3>2. addr \in Addr
      BY <2>1, HereIs, Bounds DEF Addr
    <3> QED
      BY <3>1, <3>2 DEF RelayTypeOK
  <2>3. online' \in [Client -> 0..MaxLogins] /\ ended' \subseteq Login /\ up' \subseteq Client
    BY <1>1, <2>1, Bounds DEF LogIn, RelayTypeOK
  <2> QED
    BY <1>1, <2>1, <2>2, <2>3 DEF LogIn, RelayTypeOK
<1>2. ASSUME NEW c \in Client, Notice(c) \/ NoticeServer(c) PROVE RelayTypeOK'
  <2>1. CASE Notice(c)
    <3>1. L(c, logins[c]) \in Login /\ 0 \in 0..MaxLogins
      BY Bounds DEF RelayTypeOK
    <3> QED
      BY <2>1, <3>1 DEF Notice, RelayTypeOK
  <2>2. CASE NoticeServer(c)
    BY <2>2 DEF NoticeServer, RelayTypeOK
  <2> QED
    BY <1>2, <2>1, <2>2
<1>3. ASSUME NEW c \in Client, LoseConnection(c) PROVE RelayTypeOK'
  BY <1>3, FaultSound DEF LoseConnection, RelayTypeOK
<1>4. ASSUME NEW c \in Client, RestartClient(c) PROVE RelayTypeOK'
  <2>1. accepted' \in [Client -> [Id -> 0..Forgotten]]
    BY <1>4, Bounds DEF RestartClient, RelayTypeOK
  <2>2. /\ memory' \in [id : Id \union {0}, age : 0..Never] /\ resent' \in BOOLEAN
        /\ call' \in [at : {"idle", "direct", "reuse", "ask", "fresh"}, id : Id \union {0},
                      can : BOOLEAN, tried : BOOLEAN]
        /\ answer' \in [kind : {"none", "session", "refused"}, id : Id \union {0}]
    <3>1. CASE UNCHANGED <<memory, call, resent, answer>>
      BY <3>1 DEF RelayTypeOK
    <3>2. CASE memory' = [id |-> 0, age |-> Never] /\ call' = NoCall /\ resent' = FALSE /\ answer' = NoAnswer
      BY <3>2, NothingYet
    <3> QED
      BY <1>4, <3>1, <3>2 DEF RestartClient
  <2>3. faults' \in 0..MaxFaults /\ hit' = TRUE /\ up' \subseteq Client
    BY <1>4, FaultSound DEF RestartClient, RelayTypeOK
  <2> QED
    BY <1>4, <2>1, <2>2, <2>3 DEF RestartClient, RelayTypeOK
<1>5. CASE RestartServer
  <2>1. relays' \subseteq Session /\ online' \in [Client -> 0..MaxLogins]
    BY <1>5, Bounds DEF RestartServer
  <2> QED
    BY <1>5, <2>1, FaultSound DEF RestartServer, RelayTypeOK
<1>6. CASE Lose
  <2>1. /\ packets' \subseteq Packet /\ pushes' \subseteq Id
        /\ answer' \in [kind : {"none", "session", "refused"}, id : Id \union {0}]
    BY <1>6 DEF Lose, RelayTypeOK
  <2> QED
    BY <1>6, <2>1, FaultSound DEF Lose, RelayTypeOK
<1> QED
  BY <1>1, <1>2, <1>3, <1>4, <1>5, <1>6

-----------------------------------------------------------------------------
(* Relay: the steps.                                                       *)

\* What is counted is a number.
LEMMA Counts ==
    ASSUME RelayTypeOK
    PROVE  opened \in Nat /\ sends \in Nat /\ \A r \in relays : r \in Session /\ r.id \in Nat
<1>1. opened \in 0..MaxSends /\ sends \in 0..MaxSends /\ relays \subseteq Session
  BY DEF RelayTypeOK
<1>2. opened \in Nat /\ sends \in Nat
  BY <1>1
<1>3. \A r \in relays : r \in Session /\ r.id \in Id
  BY <1>1 DEF Session
<1> QED
  BY <1>2, <1>3, Bounds

\* Calls, answers and numbers.
LEMMA NumbersKept ==
    ASSUME RelayTypeOK, Numbered, OncePerCall, RelayNext
    PROVE  Numbered' /\ OncePerCall'
<1> USE DEF tableVars, loginVars, netVars, callVars, Numbered, OncePerCall, MayOpen, NoCall, NoAnswer
<1>0. /\ opened \in Nat /\ sends \in Nat /\ answer.kind = "none" => answer # [kind |-> "session", id |-> 0]
      /\ call \in [at : {"idle", "direct", "reuse", "ask", "fresh"}, id : Id \union {0},
                   can : BOOLEAN, tried : BOOLEAN]
  BY Bounds DEF RelayTypeOK
<1>1. CASE Deliver
  <2>1. sends' = sends + 1 /\ UNCHANGED <<opened, answer>> /\ answer = NoAnswer
    BY <1>1 DEF Deliver, ViaRelay, Direct
  <2>2. call'.at \in {"reuse", "ask", "direct"} /\ (call'.at = "reuse" => call'.id # 0)
    BY <1>1 DEF Deliver, ViaRelay, Direct, Usable
  <2>3. opened <= sends
    OBVIOUS
  <2>4. Numbered'
    BY <2>1, <2>2
  <2>5. opened' <= sends' /\ opened' < sends'
    BY Counts, <2>1, <2>3
  <2> QED
    BY <2>1, <2>4, <2>5
<1>2. CASE DirectArrives
  BY <1>2 DEF DirectArrives, End
<1>3. CASE DirectFails
  <2>1. UNCHANGED <<opened, sends, answer>> /\ answer = NoAnswer
    BY <1>3 DEF DirectFails, ViaRelay, End
  <2>2. CASE call.can /\ ~call.tried /\ ViaRelay(FALSE)
    BY <1>3, <2>1, <2>2 DEF DirectFails, ViaRelay, Usable
  <2>3. CASE End
    BY <2>1, <2>3 DEF End
  <2> QED
    BY <1>3, <2>2, <2>3 DEF DirectFails
<1>4. CASE AskFails
  BY <1>4 DEF AskFails
<1>5. CASE Asked
  BY <1>0, <1>5 DEF Asked
<1>6. CASE Resend
  BY <1>6 DEF Resend
<1>7. CASE TimesOut
  <2>1. CASE call.at = "reuse" /\ call' = [call EXCEPT !.at = "ask", !.id = 0] /\ UNCHANGED netVars
    BY <1>0, <1>7, <2>1 DEF TimesOut
  <2>2. CASE call.at = "fresh" /\ RelayFails
    BY <1>7, <2>2 DEF TimesOut, RelayFails, Direct, End
  <2> QED
    BY <1>7, <2>1, <2>2 DEF TimesOut
<1>8. CASE Answered
  BY <1>8 DEF Answered, Attempting
<1>9. CASE TakePush \/ TakePacket
  BY <1>9 DEF TakePush, TakePacket
<1>10. CASE OpenRelay
  <2>1. call.at = "ask" /\ answer = NoAnswer /\ opened < sends /\ UNCHANGED <<call, sends>>
    BY <1>10 DEF OpenRelay
  <2>2. CASE answer' = [kind |-> "refused", id |-> 0] /\ opened' = opened
    BY <1>0, <2>1, <2>2
  <2>3. CASE answer' = [kind |-> "session", id |-> opened'] /\ opened' = opened + 1
    <3>1. opened' <= sends' /\ opened' # 0
      BY Counts, <2>1, <2>3
    <3>2. answer'.kind = "session" /\ answer'.id = opened' /\ answer' # [kind |-> "none", id |-> 0]
      BY <2>3
    <3>3. ~MayOpen'
      BY <2>1, <3>2
    <3> QED
      BY <2>1, <3>1, <3>2, <3>3
  <2> QED
    BY <1>10, <2>2, <2>3 DEF OpenRelay
<1>11. CASE ServeRelay \/ SweepRelays \/ Tick
  BY <1>11 DEF ServeRelay, SweepRelays, Tick
<1>12. ASSUME NEW c \in Client, LogIn(c) \/ LoseConnection(c) \/ Notice(c) \/ NoticeServer(c)
       PROVE  Numbered' /\ OncePerCall'
  BY <1>12 DEF LogIn, LoseConnection, Notice, NoticeServer
<1>13. ASSUME NEW c \in Client, RestartClient(c) PROVE Numbered' /\ OncePerCall'
  BY <1>0, <1>13 DEF RestartClient
<1>14. CASE RestartServer \/ Lose
  BY <1>0, <1>14 DEF RestartServer, Lose
<1> QED
  BY <1>1, <1>2, <1>3, <1>4, <1>5, <1>6, <1>7, <1>8, <1>9, <1>10, <1>11, <1>12, <1>13, <1>14
     DEF RelayNext

\* Sessions that are used or grow older stay the sessions they were.
LEMMA ServedIs ==
    ASSUME RelayTypeOK, TableSound, ServeRelay
    PROVE  \E p \in packets :
             /\ p.leg = "server"
             /\ packets' = (packets \ {p}) \union
                   {[leg |-> "client", id |-> p.id, addr |-> w.to, by |-> p.by] : w \in Routes(p)}
             /\ \A s \in relays' : \E r \in relays :
                   /\ s.id = r.id /\ s.a = r.a /\ s.b = r.b /\ (s.age = r.age \/ s.age = 0)
                   /\ (Routes(p) # {} /\ s.id = p.id) => s.age = 0
                   /\ s = IF \E w \in Routes(p) : w.r = r THEN [r EXCEPT !.age = 0] ELSE r
             /\ \A r \in relays : \E s \in relays' :
                   s.id = r.id /\ s.a = r.a /\ s.b = r.b /\ (s.age = r.age \/ s.age = 0)
<1>1. PICK p \in packets :
        /\ p.leg = "server"
        /\ packets' = (packets \ {p}) \union
              {[leg |-> "client", id |-> p.id, addr |-> w.to, by |-> p.by] : w \in Routes(p)}
        /\ relays' = {IF \E w \in Routes(p) : w.r = r THEN [r EXCEPT !.age = 0] ELSE r : r \in relays}
  BY DEF ServeRelay
<1> DEFINE New(r) == IF \E w \in Routes(p) : w.r = r THEN [r EXCEPT !.age = 0] ELSE r
<1>2. \A r \in relays : New(r).id = r.id /\ New(r).a = r.a /\ New(r).b = r.b
                       /\ (New(r).age = r.age \/ New(r).age = 0)
                       /\ ((\E w \in Routes(p) : w.r = r) => New(r).age = 0)
  BY Ages DEF RelayTypeOK
<1>3. \A w \in Routes(p) : w.r \in relays /\ w.r.id = p.id
  BY DEF Routes
<1>4. \A r \in relays : (Routes(p) # {} /\ r.id = p.id) => \E w \in Routes(p) : w.r = r
  BY <1>3 DEF TableSound
<1> HIDE DEF New
<1>5. relays' = {New(r) : r \in relays}
  BY <1>1 DEF New
<1>6. \A s \in relays' : \E r \in relays : s = New(r)
  BY <1>5
<1>7. \A s \in relays' : \E r \in relays :
        /\ s.id = r.id /\ s.a = r.a /\ s.b = r.b /\ (s.age = r.age \/ s.age = 0)
        /\ (Routes(p) # {} /\ s.id = p.id) => s.age = 0
        /\ s = New(r)
  BY <1>2, <1>4, <1>6
<1>8. \A r \in relays : New(r) \in relays'
  BY <1>5
<1>9. \A r \in relays : \E s \in relays' :
        s.id = r.id /\ s.a = r.a /\ s.b = r.b /\ (s.age = r.age \/ s.age = 0)
  BY <1>2, <1>8
<1> QED
  BY <1>1, <1>7, <1>9 DEF New

LEMMA TickedIs ==
    ASSUME RelayTypeOK, Tick
    PROVE  /\ \A s \in relays' : \E r \in relays :
                /\ s = [r EXCEPT !.age = Older(@, RelayIdle + 1)]
                /\ s.id = r.id /\ s.age <= r.age + 1 /\ s.age \in Nat /\ r.age \in Nat
           /\ \A r \in relays : \E s \in relays' : s.id = r.id
<1> DEFINE New(r) == [r EXCEPT !.age = Older(@, RelayIdle + 1)]
<1>1. \A r \in relays : New(r).id = r.id /\ New(r).age <= r.age + 1 /\ New(r).age \in Nat /\ r.age \in Nat
  <2> TAKE r \in relays
  <2>1. r \in Session /\ r.age \in 0..(RelayIdle + 1) /\ RelayIdle + 1 \in Nat
    BY Bounds DEF RelayTypeOK, Session
  <2>2. Older(r.age, RelayIdle + 1) \in 0..(RelayIdle + 1) /\ Older(r.age, RelayIdle + 1) <= r.age + 1
    BY <2>1, Ages
  <2>3. New(r).id = r.id /\ New(r).age = Older(r.age, RelayIdle + 1)
    BY <2>1, <2>2, Ages
  <2> QED
    BY <2>1, <2>2, <2>3
<1> HIDE DEF New
<1>2. relays' = {New(r) : r \in relays}
  BY DEF Tick, New
<1> QED
  BY <1>1, <1>2 DEF New

LEMMA TableKept ==
    ASSUME RelayTypeOK, TableSound, RelayNext
    PROVE  TableSound'
<1> USE DEF tableVars, loginVars, netVars, callVars
<1>0. opened \in Nat /\ \A r \in relays : r.id \in Nat
  BY Counts
<1>1. CASE OpenRelay
  <2>1. CASE UNCHANGED tableVars
    BY <2>1 DEF TableSound
  <2>2. CASE /\ opened' = opened + 1
             /\ \E s : relays' = relays \union {s} /\ s.id = opened'
    BY <1>0, <2>2 DEF TableSound
  <2>3. [id |-> opened', a |-> L("a", online["a"]), b |-> L("b", online["b"]), age |-> 0].id = opened'
    OBVIOUS
  <2> QED
    BY <1>1, <2>1, <2>2, <2>3 DEF OpenRelay
<1>2. CASE ServeRelay
  <2>1. PICK p : \A s \in relays' : \E r \in relays :
            s.id = r.id /\ s = IF \E w \in Routes(p) : w.r = r THEN [r EXCEPT !.age = 0] ELSE r
    BY <1>2, ServedIs
  <2> QED
    BY <1>2, <2>1 DEF ServeRelay, TableSound
<1>3. CASE Tick
  <2>1. \A s \in relays' : \E r \in relays : s = [r EXCEPT !.age = Older(@, RelayIdle + 1)] /\ s.id = r.id
    BY <1>3, TickedIs
  <2> QED
    BY <1>3, <2>1 DEF Tick, TableSound
<1>4. CASE opened' = opened /\ relays' \subseteq relays
  BY <1>4 DEF TableSound
<1>5. CASE \/ Deliver \/ DirectArrives \/ DirectFails \/ AskFails \/ Asked \/ Resend \/ TimesOut \/ Answered
           \/ TakePush \/ TakePacket
  BY <1>4, <1>5 DEF Deliver, DirectArrives, DirectFails, AskFails, Asked, Resend, TimesOut, Answered,
         TakePush, TakePacket
<1>6. CASE SweepRelays \/ RestartServer \/ Lose
  BY <1>4, <1>6 DEF SweepRelays, RestartServer, Lose
<1>7. ASSUME NEW c \in Client, LogIn(c) \/ LoseConnection(c) \/ Notice(c) \/ NoticeServer(c) \/ RestartClient(c)
      PROVE  TableSound'
  BY <1>4, <1>7 DEF LogIn, LoseConnection, Notice, NoticeServer, RestartClient
<1> QED
  BY <1>1, <1>2, <1>3, <1>5, <1>6, <1>7 DEF RelayNext

LEMMA UsedKept ==
    ASSUME RelayTypeOK, TableSound, UsedAsRemembered, RelayNext
    PROVE  UsedAsRemembered'
<1> USE DEF tableVars, loginVars, netVars, callVars
<1>0. /\ \A r \in relays : r.age \in Nat
      /\ memory.age \in 0..Never /\ Never \in Nat /\ TTL \in Nat /\ TTL < Never
  BY Bounds, RelayAssumption DEF RelayTypeOK, Session, Never
<1>1. CASE Tick
  <2>1. packets' = {} /\ memory'.id = memory.id /\ memory'.age = Older(memory.age, Never)
    BY <1>1 DEF Tick, Quiet, RelayTypeOK
  <2>2. memory'.age < TTL => memory.age < TTL /\ memory'.age = memory.age + 1
    BY <1>0, <2>1 DEF Older
  <2>3. ASSUME NEW s \in relays', s.id = memory'.id, memory'.age < TTL
        PROVE  s.age <= memory'.age
    <3>1. PICK r \in relays : s.id = r.id /\ s.age <= r.age + 1 /\ s.age \in Nat /\ r.age \in Nat
      BY <1>1, TickedIs
    <3>2. r.age <= memory.age
      BY <2>1, <2>2, <2>3, <3>1 DEF UsedAsRemembered
    <3> QED
      BY <1>0, <2>2, <2>3, <3>1, <3>2
  <2> QED
    BY <2>1, <2>3 DEF UsedAsRemembered
<1>2. CASE ServeRelay
  <2>1. PICK p \in packets :
          /\ packets' = (packets \ {p}) \union
                {[leg |-> "client", id |-> p.id, addr |-> w.to, by |-> p.by] : w \in Routes(p)}
          /\ \A s \in relays' : \E r \in relays :
                /\ s.id = r.id /\ (s.age = r.age \/ s.age = 0)
                /\ (Routes(p) # {} /\ s.id = p.id) => s.age = 0
    BY <1>2, ServedIs
  <2>2. memory' = memory
    BY <1>2 DEF ServeRelay
  <2>3. ASSUME NEW s \in relays', s.id = memory'.id, memory'.age < TTL
        PROVE  s.age <= memory'.age
    BY <1>0, <2>1, <2>2, <2>3 DEF UsedAsRemembered
  <2>4. ASSUME NEW q \in packets', q.leg = "client", NEW s \in relays', s.id = q.id
        PROVE  s.age = 0
    <3>1. CASE q \in packets
      BY <2>1, <2>4, <3>1 DEF UsedAsRemembered
    <3>2. CASE q \notin packets
      <4>1. Routes(p) # {} /\ q.id = p.id
        BY <2>1, <3>2
      <4> QED
        BY <2>1, <2>4, <4>1
    <3> QED
      BY <3>1, <3>2
  <2> QED
    BY <2>3, <2>4 DEF UsedAsRemembered
<1>3. CASE OpenRelay
  <2>1. memory' = memory /\ packets' = packets /\ \A s \in relays' : s \in relays \/ s.age = 0
    BY <1>3 DEF OpenRelay
  <2> QED
    BY <1>0, <2>1 DEF UsedAsRemembered
<1>4. CASE Answered
  <2>1. PICK p \in packets :
            /\ p.leg = "client" /\ packets' = packets \ {p} /\ relays' = relays
            /\ memory' \in {memory, [id |-> p.id, age |-> 0]}
    BY <1>4 DEF Answered
  <2>2. CASE memory' = memory
    BY <2>1, <2>2 DEF UsedAsRemembered
  <2>3. CASE memory' = [id |-> p.id, age |-> 0]
    BY <2>1, <2>3 DEF UsedAsRemembered
  <2> QED
    BY <2>1, <2>2, <2>3
<1>5. CASE relays' = relays /\ packets' = packets /\ memory' = [id |-> 0, age |-> Never]
  <2>1. ~(memory'.age < TTL)
    BY <1>0, <1>5
  <2> QED
    BY <1>5, <2>1 DEF UsedAsRemembered
<1>6. CASE memory' = memory /\ relays' \subseteq relays /\ \A p \in packets' : p \in packets \/ p.leg = "server"
  BY <1>6 DEF UsedAsRemembered
<1>7. CASE Deliver \/ DirectFails \/ AskFails \/ Asked \/ Resend \/ TimesOut
  BY <1>6, <1>7 DEF Deliver, DirectFails, AskFails, Asked, Resend, TimesOut, ViaRelay, Direct, End,
         RelayFails, Out
<1>8. CASE DirectArrives
  BY <1>5, <1>8 DEF DirectArrives, End
<1>9. CASE TakePush \/ TakePacket \/ SweepRelays \/ RestartServer \/ Lose
  BY <1>6, <1>9 DEF TakePush, TakePacket, SweepRelays, RestartServer, Lose, Out
<1>10. ASSUME NEW c \in Client, LogIn(c) \/ LoseConnection(c) \/ Notice(c) \/ NoticeServer(c)
       PROVE  UsedAsRemembered'
  BY <1>6, <1>10 DEF LogIn, LoseConnection, Notice, NoticeServer
<1>11. ASSUME NEW c \in Client, RestartClient(c) PROVE UsedAsRemembered'
  BY <1>5, <1>6, <1>11 DEF RestartClient
<1> QED
  BY <1>1, <1>2, <1>3, <1>4, <1>7, <1>8, <1>9, <1>10, <1>11 DEF RelayNext

LEMMA LoginsKept ==
    ASSUME RelayTypeOK, LoginsSound, RelayNext
    PROVE  LoginsSound'
<1> USE DEF tableVars, loginVars, netVars, callVars
<1>0. /\ logins \in [Client -> 1..MaxLogins] /\ online \in [Client -> 0..MaxLogins]
      /\ from \in [Login -> Addr] /\ ended \subseteq Login
  BY DEF RelayTypeOK
<1>1. ASSUME NEW c \in Client, LogIn(c) PROVE LoginsSound'
  <2>1. logins[c] \in Nat /\ logins' = [logins EXCEPT ![c] = @ + 1] /\ logins'[c] = logins[c] + 1
        /\ logins'[c] \in 1..MaxLogins
    BY <1>0, <1>1, Bounds DEF LogIn
  <2>2. PICK addr \in {Here(c), L(c, logins'[c])} : from' = [from EXCEPT ![L(c, logins'[c])] = addr]
    BY <1>1 DEF LogIn
  <2>3. addr.c = c /\ L(c, logins'[c]).c = c
    BY <1>0, <2>1, <2>2, Bounds DEF Here, LoginsSound
  <2>4. \A l \in Login : from'[l].c = l.c
    BY <1>0, <2>2, <2>3 DEF LoginsSound
  <2>5. \A l \in ended' : \/ l.n <= logins'[l.c] /\ l.n # logins'[l.c]
                          \/ l \in ended /\ l.c # c
    <3> TAKE l \in ended'
    <3>1. l \in ended \/ l = L(c, logins[c])
      BY <1>1 DEF LogIn
    <3>2. CASE l = L(c, logins[c])
      BY <2>1, <3>2, L(c, logins[c]).c = c, L(c, logins[c]).n = logins[c] DEF L
    <3>3. CASE l \in ended /\ l.c = c
      <4>1. l.n \in Nat /\ l.n <= logins[c]
        BY <1>0, <3>3, Bounds DEF LoginsSound
      <4> QED
        BY <2>1, <3>3, <4>1
    <3> QED
      BY <3>1, <3>2, <3>3
  <2>6. \A d \in Client : d # c => logins'[d] = logins[d] /\ online'[d] = online[d]
    BY <1>0, <1>1, <2>1 DEF LogIn
  <2>7. \A l \in ended : l.c \in Client
    BY <1>0, Bounds
  <2> QED
    BY <2>4, <2>5, <2>6, <2>7 DEF LoginsSound
<1>2. ASSUME NEW c \in Client, Notice(c) PROVE LoginsSound'
  <2>1. /\ online' = [online EXCEPT ![c] = 0] /\ ended' = ended \union {L(c, logins[c])}
        /\ UNCHANGED <<from, logins>>
    BY <1>2 DEF Notice
  <2>2. L(c, logins[c]).c = c /\ L(c, logins[c]).n = logins[c] /\ logins[c] \in Nat
    BY <1>0 DEF L
  <2>3. online'[c] = 0 /\ \A d \in Client : online[d] = 0 => online'[d] = 0
    BY <1>0, <2>1
  <2>4. \A l \in ended : l.c \in Client
    BY <1>0, Bounds
  <2> QED
    BY <2>1, <2>2, <2>3, <2>4 DEF LoginsSound
<1>3. CASE RestartServer
  <2>1. \A l \in ended : l.c \in Client
    BY <1>0, Bounds
  <2> QED
    BY <1>3, <2>1 DEF RestartServer, LoginsSound
<1>4. CASE UNCHANGED <<online, ended, from, logins>>
  BY <1>4 DEF LoginsSound
<1>5. CASE Deliver \/ DirectArrives \/ DirectFails \/ AskFails \/ Asked \/ Resend \/ TimesOut \/ Answered
  BY <1>4, <1>5 DEF Deliver, DirectArrives, DirectFails, AskFails, Asked, Resend, TimesOut, Answered
<1>6. CASE TakePush \/ TakePacket \/ OpenRelay \/ ServeRelay \/ SweepRelays \/ Tick \/ Lose
  BY <1>4, <1>6 DEF TakePush, TakePacket, OpenRelay, ServeRelay, SweepRelays, Tick, Lose
<1>7. ASSUME NEW c \in Client, LoseConnection(c) \/ NoticeServer(c) \/ RestartClient(c) PROVE LoginsSound'
  BY <1>4, <1>7 DEF LoseConnection, NoticeServer, RestartClient
<1> QED
  BY <1>1, <1>2, <1>3, <1>5, <1>6, <1>7 DEF RelayNext

\* A session that was open for the clients' logins stays so.
LEMMA StaysOpen ==
    ASSUME NEW i \in Id, OpenFor(i), logins' = logins,
           \A r \in relays : r.age = 0 =>
             \/ r \in relays'
             \/ \E s \in relays' : s.id = r.id /\ s.age = 0 /\ s.a = r.a /\ s.b = r.b,
           i \in pushes => i \in pushes' \/ accepted'["b"][i] = 0,
           accepted["b"][i] = 0 => accepted'["b"][i] = 0
    PROVE  OpenFor(i)'
<1>1. \E r \in relays' : r.id = i /\ r.age = 0 /\ r.a = L("a", logins'["a"]) /\ r.b = L("b", logins'["b"])
  BY DEF OpenFor
<1> QED
  BY <1>1 DEF OpenFor

\* The steps of a's call.
LEMMA CallAttempt ==
    ASSUME RelayIInv, ~hit', \/ Deliver \/ DirectArrives \/ DirectFails \/ AskFails \/ Asked \/ Resend \/ TimesOut
    PROVE  AttemptSound'
<1> USE DEF tableVars, loginVars, netVars, callVars
<1>0. RelayTypeOK /\ Numbered /\ OncePerCall
  BY DEF RelayIInv
<1>1. CASE Deliver
  <2>1. Settled /\ UNCHANGED <<up, online, logins, answer>> /\ answer = NoAnswer
    BY <1>0, <1>1 DEF Deliver, ViaRelay, Direct, OncePerCall, NoCall
  <2>2. call'.at \in {"reuse", "ask", "direct"}
    BY <1>1 DEF Deliver, ViaRelay, Direct
  <2>3. Settled' /\ answer'.kind # "session"
    BY <2>1 DEF Settled, NoAnswer
  <2> QED
    BY <2>2, <2>3 DEF AttemptSound
<1>2. ASSUME ~Deliver PROVE AttemptSound /\ UNCHANGED <<loginVars, relays>>
  BY <1>2 DEF RelayIInv, DirectArrives, DirectFails, AskFails, Asked, Resend, TimesOut
<1>3. ASSUME call'.at = "idle" PROVE AttemptSound'
  BY <1>3 DEF AttemptSound
<1>4. CASE DirectArrives
  BY <1>3, <1>4 DEF DirectArrives, End, NoCall
<1>5. ASSUME DirectFails, ~Deliver PROVE AttemptSound'
  <2>1. CASE End
    BY <1>3, <2>1 DEF End, NoCall
  <2>2. CASE ViaRelay(FALSE)
    <3>1. Settled' /\ answer' = NoAnswer /\ call'.at \in {"reuse", "ask"}
      BY <1>0, <1>2, <1>5, <2>2 DEF DirectFails, ViaRelay, OncePerCall, AttemptSound, Settled
    <3> QED
      BY <3>1 DEF AttemptSound, NoAnswer
  <2> QED
    BY <1>5, <2>1, <2>2 DEF DirectFails
<1>6. ASSUME AskFails, ~Deliver PROVE AttemptSound'
  <2>1. Settled'
    BY <1>2, <1>6 DEF AskFails, AttemptSound, Settled
  <2>2. call'.at \in {"direct", "idle"}
    BY <1>6 DEF AskFails, NoCall
  <2> QED
    BY <2>1, <2>2 DEF AttemptSound
<1>7. ASSUME Asked, ~Deliver PROVE AttemptSound'
  <2>1. PICK i \in Id : i = answer.id
    BY <1>0, <1>7 DEF Asked, Numbered, RelayTypeOK
  <2>2. OpenFor(i) /\ Settled'
    BY <1>2, <1>7, <2>1 DEF Asked, AttemptSound, Settled
  <2>3. /\ call'.at = "fresh" /\ call'.id = i /\ resent' = FALSE /\ UNCHANGED <<relays, pushes, logins>>
        /\ Allow("a", i)
    BY <1>0, <1>2, <1>7, <2>1 DEF Asked, RelayTypeOK
  <2>4. accepted'["a"][i] = 0 /\ (accepted["b"][i] = 0 => accepted'["b"][i] = 0)
    BY <1>0, <2>3, AllowIs, Bounds
  <2>5. OpenFor(i)'
    BY <2>2, <2>3, <2>4, StaysOpen
  <2> QED
    BY <2>2, <2>3, <2>4, <2>5 DEF AttemptSound, OpenFor
<1>8. ASSUME Resend, ~Deliver PROVE AttemptSound'
  <2>1. UNCHANGED <<loginVars, relays, pushes, accepted, call, answer>> /\ pushes = {}
        /\ packets' = {Out("a", call.id)} /\ call.at \in {"reuse", "fresh"} /\ AttemptSound
    BY <1>2, <1>8 DEF Resend, Attempting, Quiet
  <2>2. Settled'
    BY <2>1 DEF AttemptSound, Settled
  <2>3. ASSUME call.at = "fresh" PROVE OpenFor(call.id)'
    BY <2>1, <2>3 DEF AttemptSound, OpenFor
  <2>4. Out("a", call.id) \in packets' /\ Out("a", call.id).id = call'.id
        /\ Out("a", call.id).leg = "server" /\ Out("a", call.id).by = "a"
        /\ Out("a", call.id).addr = Here("a")'
    BY <2>1 DEF Out, Here
  <2>5. \E p \in packets' : p.id = call'.id /\ p.leg = "server" /\ p.addr = Here(p.by)'
    BY <2>4
  <2>6. \E p \in packets' : p.id = call'.id /\ OnItsWay(p)'
    BY <2>5 DEF OnItsWay
  <2> QED
    BY <2>1, <2>2, <2>3, <2>6 DEF AttemptSound
<1>9. ASSUME TimesOut, ~Deliver PROVE AttemptSound'
  <2>1. AttemptSound /\ UNCHANGED <<loginVars, relays>> /\ packets = {} /\ resent /\ answer = NoAnswer
    BY <1>2, <1>9 DEF TimesOut, Quiet
  <2>2. call.at = "reuse" /\ call'.at = "ask" /\ answer' = answer
    BY <1>0, <1>9, <2>1 DEF TimesOut, AttemptSound, RelayTypeOK
  <2>3. Settled' /\ answer'.kind # "session"
    BY <2>1, <2>2 DEF AttemptSound, Settled, NoAnswer
  <2> QED
    BY <2>2, <2>3 DEF AttemptSound
<1> QED
  BY <1>1, <1>4, <1>5, <1>6, <1>7, <1>8, <1>9

\* A packet that is passed on, or answered, is on its way still.
LEMMA PassedOn ==
    ASSUME RelayTypeOK, LoginsSound, TableSound, NEW p \in packets, p.leg = "server", OnItsWay(p), OpenFor(p.id),
           packets' = (packets \ {p}) \union
               {[leg |-> "client", id |-> p.id, addr |-> w.to, by |-> p.by] : w \in Routes(p)},
           UNCHANGED loginVars
    PROVE  \E q \in packets' : q.id = p.id /\ OnItsWay(q)'
<1>1. PICK r \in relays : r.id = p.id /\ r.a = L("a", logins["a"]) /\ r.b = L("b", logins["b"])
  BY DEF OpenFor
<1>2. p.addr = Here(p.by) /\ p.by \in Client
  BY DEF OnItsWay, RelayTypeOK, Packet
<1>3. Here("a") = from[r.a] /\ Here("b") = from[r.b] /\ from[r.a].c = "a" /\ from[r.b].c = "b"
  <2>1. logins["a"] \in 1..MaxLogins /\ logins["b"] \in 1..MaxLogins
    BY Bounds DEF RelayTypeOK
  <2>2. from[L("a", logins["a"])].c = "a" /\ from[L("b", logins["b"])].c = "b"
    BY <2>1, Bounds DEF LoginsSound
  <2> QED
    BY <1>1, <2>2 DEF Here
<1> DEFINE to == IF p.addr = from[r.a] THEN from[r.b] ELSE from[r.a]
           w == [r |-> r, to |-> to]
<1>4. to = Here(Peer(p.by))
  <2>1. CASE p.by = "a"
    BY <1>2, <1>3, <2>1 DEF Peer
  <2>2. CASE p.by = "b"
    BY <1>2, <1>3, <2>2 DEF Peer
  <2> QED
    BY <1>2, <2>1, <2>2 DEF Client
<1>5. w \in Routes(p)
  <2>1. p.addr \in {from[r.a], from[r.b]}
    BY <1>2, <1>3 DEF Client
  <2> QED
    BY <1>1, <2>1 DEF Routes
<1>6. w.to = to
  OBVIOUS
<1>7. [leg |-> "client", id |-> p.id, addr |-> to, by |-> p.by] \in packets'
  BY <1>5, <1>6
<1>8. PICK q \in packets' : q.leg = "client" /\ q.id = p.id /\ q.by = p.by /\ q.addr = to
  BY <1>7
<1> HIDE DEF to, w
<1>9. Here(Peer(q.by))' = Here(Peer(q.by))
  BY DEF Here, loginVars
<1>10. q.addr = Here(Peer(q.by))'
  BY <1>4, <1>8, <1>9
<1> QED
  BY <1>8, <1>10 DEF OnItsWay

\* The steps of packets, of pushes and of the server.
LEMMA NetAttempt ==
    ASSUME RelayIInv, ~hit', Answered \/ TakePush \/ TakePacket \/ OpenRelay \/ ServeRelay \/ SweepRelays \/ Tick
    PROVE  AttemptSound'
<1> USE DEF tableVars, loginVars, netVars, callVars
<1>0. RelayTypeOK /\ Numbered /\ OncePerCall /\ LoginsSound /\ TableSound
  BY DEF RelayIInv
<1>1. AttemptSound /\ UNCHANGED loginVars
  BY DEF RelayIInv, Answered, TakePush, TakePacket, OpenRelay, ServeRelay, SweepRelays, Tick
<1>2. ASSUME call'.at = "idle" PROVE AttemptSound'
  BY <1>2 DEF AttemptSound
<1>3. call'.at # "idle" => call.at # "idle"
  BY DEF Answered, TakePush, TakePacket, OpenRelay, ServeRelay, SweepRelays, Tick, NoCall
<1>4. call'.at # "idle" => Settled'
  BY <1>1, <1>3 DEF AttemptSound, Settled
\* On its way before is on its way after, if it is still there.
<1>5. \A p : OnItsWay(p) => OnItsWay(p)'
  BY <1>1 DEF OnItsWay, Here
<1>6. ASSUME call' = call, UNCHANGED <<answer, resent>>,
             \A i \in Id : OpenFor(i) => OpenFor(i)',
             call.at = "fresh" => (accepted["a"][call.id] = 0 => accepted'["a"][call.id] = 0),
             (call.at = "fresh" /\ resent) =>
                /\ call.id \notin pushes'
                /\ \E p \in packets' : p.id = call.id /\ OnItsWay(p)'
      PROVE  AttemptSound'
  <2>1. ASSUME call.at = "ask", answer.kind = "session" PROVE OpenFor(answer.id)'
    <3>1. PICK i \in Id : i = answer.id
      BY <1>1, <2>1 DEF AttemptSound, OpenFor
    <3>2. OpenFor(i)'
      BY <1>1, <1>6, <2>1, <3>1 DEF AttemptSound
    <3> QED
      BY <1>6, <3>1, <3>2 DEF OpenFor
  <2>2. ASSUME call.at = "fresh" PROVE OpenFor(call.id)'
    <3>1. PICK i \in Id : i = call.id
      BY <1>1, <2>2 DEF AttemptSound, OpenFor
    <3>2. OpenFor(i)'
      BY <1>1, <1>6, <2>2, <3>1 DEF AttemptSound
    <3> QED
      BY <1>6, <3>1, <3>2 DEF OpenFor
  <2> QED
    BY <1>1, <1>4, <1>6, <2>1, <2>2 DEF AttemptSound
<1>7. \A i \in Id : i \in Id /\ Forgotten # 0
  BY Bounds
<1>8. CASE Answered
  <2>1. PICK p \in packets :
            /\ p.leg = "client" /\ p.by = "b" /\ packets' = packets \ {p}
            /\ \/ Seen("a", p.id) \/ UNCHANGED accepted
            /\ \/ call' = NoCall
               \/ /\ UNCHANGED <<call, resent>>
                  /\ ~(p.addr = Here("a") /\ Known("a", p.id) /\ Attempting /\ p.id = call.id)
            /\ UNCHANGED <<relays, pushes, answer>>
    BY <1>8 DEF Answered
  <2>2. CASE call' = NoCall
    BY <1>2, <2>2 DEF NoCall
  <2>3. CASE call' # NoCall
    <3>1. p.id \in Id
      BY <1>0 DEF RelayTypeOK, Packet
    <3>2. \A d \in Client, j \in Id : accepted[d][j] = 0 => accepted'[d][j] = 0
      BY <1>0, <2>1, <3>1, SeenIs, Bounds
    <3>3. \A i \in Id : OpenFor(i) => OpenFor(i)'
      BY <1>1, <2>1, <3>2, StaysOpen, Bounds
    <3>4. ASSUME call.at = "fresh", resent
          PROVE  call.id \notin pushes' /\ \E q \in packets' : q.id = call.id /\ OnItsWay(q)'
      <4>1. PICK q \in packets : q.id = call.id /\ OnItsWay(q)
        BY <1>1, <3>4 DEF AttemptSound
      <4>2. accepted["a"][call.id] = 0 /\ call.id \notin pushes
        BY <1>1, <3>4 DEF AttemptSound
      <4>3. q # p
        BY <1>7, <2>1, <2>3, <3>4, <4>1, <4>2, <3>1 DEF OnItsWay, Peer, Known, Attempting
      <4> QED
        BY <1>5, <2>1, <4>1, <4>2, <4>3
    <3>5. call.at = "fresh" => call.id \in Id
      BY <1>1 DEF AttemptSound, OpenFor
    <3> QED
      BY <1>6, <2>1, <2>3, <3>2, <3>3, <3>4, <3>5, Bounds
  <2> QED
    BY <2>2, <2>3
<1>9. CASE TakePush
  <2>1. PICK i \in pushes : pushes' = pushes \ {i} /\ IF "b" \in up THEN Allow("b", i) ELSE UNCHANGED accepted
    BY <1>9 DEF TakePush
  <2>2. UNCHANGED <<relays, call, resent, answer, packets>> /\ i \in Id
    BY <1>0, <1>9 DEF TakePush, RelayTypeOK
  <2>3. \A d \in Client, j \in Id : accepted[d][j] = 0 => accepted'[d][j] = 0
    BY <1>0, <2>1, <2>2, AllowIs, Bounds
  <2>4. CASE call.at = "idle"
    BY <1>2, <2>2, <2>4
  <2>5. CASE call.at # "idle"
    <3>1. accepted'["b"][i] = 0
      BY <1>0, <1>1, <2>1, <2>2, <2>5, AllowIs, Bounds DEF AttemptSound, Settled
    <3>2. \A j \in Id : OpenFor(j) => OpenFor(j)'
      BY <1>1, <2>1, <2>2, <2>3, <3>1, StaysOpen, Bounds
    <3>3. ASSUME call.at = "fresh", resent
          PROVE  call.id \notin pushes' /\ \E q \in packets' : q.id = call.id /\ OnItsWay(q)'
      BY <1>1, <1>5, <2>1, <2>2, <3>3 DEF AttemptSound
    <3>4. call.at = "fresh" => accepted["a"][call.id] = 0 /\ accepted'["a"][call.id] = 0
      BY <1>1, <2>3, Bounds DEF AttemptSound, OpenFor
    <3> QED
      BY <1>6, <2>2, <3>2, <3>3, <3>4
  <2> QED
    BY <2>4, <2>5
<1>10. CASE TakePacket
  <2>1. PICK p \in packets :
          /\ p.leg = "client" /\ p.by = "a"
          /\ IF p.addr = Here("b") /\ Known("b", p.id)
             THEN packets' = (packets \ {p}) \union {Out("b", p.id)} /\ Seen("b", p.id)
             ELSE packets' = packets \ {p} /\ UNCHANGED accepted
    BY <1>10 DEF TakePacket
  <2>2. UNCHANGED <<relays, call, resent, answer, pushes>> /\ p.id \in Id
    BY <1>0, <1>10 DEF TakePacket, RelayTypeOK, Packet
  <2>3. \A d \in Client, j \in Id : accepted[d][j] = 0 => accepted'[d][j] = 0
    BY <1>0, <2>1, <2>2, SeenIs, Bounds
  <2>4. \A j \in Id : OpenFor(j) => OpenFor(j)'
    BY <1>1, <2>2, <2>3, StaysOpen, Bounds
  <2>5. ASSUME call.at = "fresh", resent
        PROVE  call.id \notin pushes' /\ \E q \in packets' : q.id = call.id /\ OnItsWay(q)'
    <3>1. PICK q \in packets : q.id = call.id /\ OnItsWay(q)
      BY <1>1, <2>5 DEF AttemptSound
    <3>2. accepted["b"][call.id] = 0 /\ call.id \notin pushes
      BY <1>1, <2>5 DEF AttemptSound, OpenFor
    <3>3. CASE q # p
      BY <1>5, <2>1, <2>2, <3>1, <3>2, <3>3
    <3>4. CASE q = p
      <4>1. p.addr = Here("b") /\ Known("b", p.id)
        BY <1>7, <2>1, <2>2, <3>1, <3>2, <3>4 DEF OnItsWay, Peer, Known
      <4>2. Out("b", p.id) \in packets' /\ Out("b", p.id).id = call.id /\ OnItsWay(Out("b", p.id))
        BY <2>1, <3>1, <3>4, <4>1 DEF Out, OnItsWay
      <4> QED
        BY <1>5, <2>2, <3>2, <4>2
    <3> QED
      BY <3>3, <3>4
  <2>6. call.at = "fresh" => accepted["a"][call.id] = 0 /\ accepted'["a"][call.id] = 0
    BY <1>1, <2>3, Bounds DEF AttemptSound, OpenFor
  <2> QED
    BY <1>6, <2>2, <2>4, <2>5, <2>6
<1>11. CASE OpenRelay
  <2>1. call.at = "ask" /\ UNCHANGED <<call, loginVars>> /\ Settled
    BY <1>1, <1>11 DEF OpenRelay, AttemptSound
  <2>2. ASSUME answer'.kind = "session" PROVE OpenFor(answer.id)'
    <3>1. /\ answer' = [kind |-> "session", id |-> opened'] /\ pushes' = pushes \union {opened'}
          /\ [id |-> opened', a |-> L("a", online["a"]), b |-> L("b", online["b"]), age |-> 0] \in relays'
      BY <1>11, <2>2 DEF OpenRelay
    <3>2. answer'.id = opened' /\ opened' \in Id
      <4>1. RelayTypeOK'
        BY <1>0, <1>11, NetTypes
      <4>2. Numbered'
        BY <1>0, <1>11, NumbersKept DEF RelayNext
      <4> QED
        BY <2>2, <3>1, <4>1, <4>2 DEF RelayTypeOK, Numbered
    <3>3. online["a"] = logins'["a"] /\ online["b"] = logins'["b"]
      BY <2>1, Bounds DEF Settled
    <3> QED
      BY <3>1, <3>2, <3>3 DEF OpenFor
  <2> QED
    BY <1>4, <2>1, <2>2 DEF AttemptSound
<1>12. CASE ServeRelay
  <2>1. PICK p \in packets :
          /\ p.leg = "server"
          /\ packets' = (packets \ {p}) \union
                {[leg |-> "client", id |-> p.id, addr |-> w.to, by |-> p.by] : w \in Routes(p)}
          /\ \A r \in relays : \E s \in relays' :
                s.id = r.id /\ s.a = r.a /\ s.b = r.b /\ (s.age = r.age \/ s.age = 0)
    BY <1>0, <1>12, ServedIs
  <2>2. UNCHANGED <<call, resent, answer, pushes, accepted>> /\ p.id \in Id
    BY <1>0, <1>12 DEF ServeRelay, RelayTypeOK, Packet
  <2>3. \A r \in relays : r.age = 0 => \E s \in relays' : s.id = r.id /\ s.age = 0 /\ s.a = r.a /\ s.b = r.b
    BY <2>1
  <2>4. \A j \in Id : OpenFor(j) => OpenFor(j)'
    BY <1>1, <2>2, <2>3, StaysOpen
  <2>5. ASSUME call.at = "fresh", resent
        PROVE  call.id \notin pushes' /\ \E q \in packets' : q.id = call.id /\ OnItsWay(q)'
    <3>1. PICK q \in packets : q.id = call.id /\ OnItsWay(q)
      BY <1>1, <2>5 DEF AttemptSound
    <3>2. call.id \notin pushes /\ OpenFor(call.id)
      BY <1>1, <2>5 DEF AttemptSound
    <3>3. CASE q # p
      BY <1>5, <2>1, <2>2, <3>1, <3>2, <3>3
    <3>4. CASE q = p
      <4>1. OpenFor(p.id) /\ OnItsWay(p) /\ p.id = call.id
        BY <3>1, <3>2, <3>4
      <4>2. \E k \in packets' : k.id = p.id /\ OnItsWay(k)'
        BY <1>0, <1>1, <2>1, <4>1, PassedOn
      <4> QED
        BY <2>2, <3>2, <4>1, <4>2
    <3> QED
      BY <3>3, <3>4
  <2> QED
    BY <1>6, <2>2, <2>4, <2>5
<1>13. CASE SweepRelays
  <2>1. UNCHANGED <<call, resent, answer, pushes, accepted, packets>> /\ relays' = {r \in relays : ~Swept(r)}
    BY <1>13 DEF SweepRelays
  <2>2. CASE call.at = "idle"
    BY <1>2, <2>1, <2>2
  <2>3. CASE call.at # "idle"
    <3>1. Settled /\ logins["a"] \in 1..MaxLogins /\ logins["b"] \in 1..MaxLogins
      BY <1>0, <1>1, <2>3, Bounds DEF AttemptSound, RelayTypeOK
    <3>2. \A c \in Client : L(c, logins[c]) \notin ended
      <4> TAKE c \in Client
      <4>1. logins[c] \in 1..MaxLogins /\ online[c] = logins[c]
        BY <1>0, <3>1 DEF RelayTypeOK, Settled
      <4>2. L(c, logins[c]).c = c /\ L(c, logins[c]).n = logins[c]
        BY <4>1, Bounds
      <4> QED
        BY <1>0, <4>1, <4>2 DEF LoginsSound
    <3>3. ASSUME NEW j \in Id, OpenFor(j) PROVE OpenFor(j)'
      <4>1. PICK r \in relays : r.id = j /\ r.age = 0 /\ r.a = L("a", logins["a"]) /\ r.b = L("b", logins["b"])
        BY <3>3 DEF OpenFor
      <4>2. ~(0 > RelayIdle)
        BY Bounds
      <4>3. ~Swept(r)
        BY <3>2, <4>1, <4>2, Bounds DEF Swept
      <4> QED
        BY <1>1, <2>1, <3>3, <4>1, <4>3 DEF OpenFor
    <3>4. call.at = "fresh" /\ resent => call.id \notin pushes' /\ \E q \in packets' : q.id = call.id /\ OnItsWay(q)'
      BY <1>1, <1>5, <2>1 DEF AttemptSound
    <3> QED
      BY <1>6, <2>1, <3>3, <3>4
  <2> QED
    BY <2>2, <2>3
<1>14. CASE Tick
  BY <1>2, <1>14 DEF Tick, NoCall
<1> QED
  BY <1>8, <1>9, <1>10, <1>11, <1>12, <1>13, <1>14

LEMMA RelayInductive ==
    ASSUME RelayIInv, [RelayNext]_relayVars
    PROVE  RelayIInv'
<1>1. CASE UNCHANGED relayVars
  BY <1>1 DEF RelayIInv, relayVars, tableVars, loginVars, netVars, callVars, RelayTypeOK, Numbered,
         OncePerCall, MayOpen, TableSound, UsedAsRemembered, LoginsSound, AttemptSound, OpenFor,
         OnItsWay, Here, Settled
<1>2. CASE RelayNext
  <2>1. RelayTypeOK /\ Numbered /\ OncePerCall /\ TableSound /\ UsedAsRemembered /\ LoginsSound
    BY DEF RelayIInv
  <2>2. RelayTypeOK'
    BY <1>2, <2>1, CallTypes, NetTypes, ConnectionTypes DEF RelayNext
  <2>3. Numbered' /\ OncePerCall' /\ TableSound' /\ UsedAsRemembered' /\ LoginsSound'
    BY <1>2, <2>1, NumbersKept, TableKept, UsedKept, LoginsKept
  <2>4. ASSUME ~hit' PROVE AttemptSound'
    <3>1. CASE RestartServer \/ Lose
      BY <2>4, <3>1 DEF RestartServer, Lose, Fault
    <3>2. CASE \E c \in Client : LogIn(c) \/ LoseConnection(c) \/ Notice(c) \/ NoticeServer(c) \/ RestartClient(c)
      BY <2>4, <3>2 DEF LogIn, LoseConnection, Notice, NoticeServer, RestartClient, Fault
    <3> QED
      BY <1>2, <2>4, <3>1, <3>2, CallAttempt, NetAttempt DEF RelayNext
  <2> QED
    BY <2>2, <2>3, <2>4 DEF RelayIInv
<1> QED
  BY <1>1, <1>2

-----------------------------------------------------------------------------
(* Relay: the theorems.                                                    *)

\* A call opens one session at most, a session in the table was used as recently
\* as a remembers it, and an attempt over a session just opened that nothing
\* disturbs has a packet the next hop does not turn away (openRelay, ServeRelay,
\* Client.Relay, handlePush, deliverMsg).
THEOREM RelayInvariant == RelaySpec => []RelayIInv
  BY RelayInitially, RelayInductive, PTL DEF RelaySpec

\* The variables hold values of their types: in particular the sessions the server
\* opens never outnumber the messages (openRelay, deliverMsg).
THEOREM RelayTypes == RelaySpec => []RelayTypeOK
<1>1. RelayIInv => RelayTypeOK
  BY DEF RelayIInv
<1> QED
  BY <1>1, RelayInvariant, PTL

\* A session a would use again is still open at the server, unless the server
\* restarted or a member's connection ended (relaySessionTTL, relayIdle,
\* ServeRelay, sweepRelays).
THEOREM ReuseFinds == RelaySpec => ReuseFindsSession
<1> DEFINE Act == \A r \in relays :
         (Usable /\ r.id = memory.id /\ r.id \notin {s.id : s \in relays'})
             => {r.a, r.b} \intersect ended # {} \/ faults' # faults
<1>1. ASSUME RelayIInv, RelayNext, NEW r \in relays, Usable, r.id = memory.id,
             r.id \notin {s.id : s \in relays'}
      PROVE  {r.a, r.b} \intersect ended # {} \/ faults' # faults
  <2> USE DEF tableVars
  <2>1. RelayTypeOK /\ TableSound /\ UsedAsRemembered
    BY <1>1 DEF RelayIInv
  <2>2. r \notin relays'
    BY <1>1
  <2>3. CASE SweepRelays
    <3>1. Swept(r)
      BY <2>2, <2>3 DEF SweepRelays
    <3>2. r.age <= memory.age /\ memory.age < TTL
      BY <1>1, <2>1 DEF UsedAsRemembered, Usable
    <3>3. r.age \in 0..(RelayIdle + 1) /\ memory.age \in 0..Never
      BY <2>1 DEF RelayTypeOK, Session
    <3>4. ~(r.age > RelayIdle)
      BY <3>2, <3>3, Bounds
    <3> QED
      BY <3>1, <3>4 DEF Swept
  <2>4. CASE ServeRelay
    BY <1>1, <2>1, <2>4, ServedIs
  <2>5. CASE Tick
    BY <1>1, <2>1, <2>5, TickedIs
  <2>6. CASE RestartServer
    BY <2>1, <2>6, FaultSound DEF RestartServer
  <2>7. CASE Deliver \/ DirectArrives \/ DirectFails \/ AskFails \/ Asked \/ Resend \/ TimesOut \/ Answered
    BY <2>2, <2>7 DEF Deliver, DirectArrives, DirectFails, AskFails, Asked, Resend, TimesOut, Answered
  <2>8. CASE TakePush \/ TakePacket \/ OpenRelay \/ Lose
    BY <2>2, <2>8 DEF TakePush, TakePacket, OpenRelay, Lose
  <2>9. CASE \E c \in Client : LogIn(c) \/ LoseConnection(c) \/ Notice(c) \/ NoticeServer(c) \/ RestartClient(c)
    BY <2>2, <2>9 DEF LogIn, LoseConnection, Notice, NoticeServer, RestartClient
  <2> QED
    BY <1>1, <2>3, <2>4, <2>5, <2>6, <2>7, <2>8, <2>9 DEF RelayNext
<1>2. RelayIInv /\ [RelayNext]_relayVars => [Act]_relayVars
  BY <1>1
<1>3. RelaySpec => [][Act]_relayVars
  BY <1>2, RelayInvariant, PTL DEF RelaySpec
<1> QED
  BY <1>3 DEF ReuseFindsSession

\* An attempt over a session that was just opened fails only if a packet or a
\* connection was lost meanwhile, or one end restarted (openRelay, Client.Relay,
\* handlePush, ServeRelay, deliverMsg).
THEOREM FreshWorks == RelaySpec => FreshSessionWorks
<1> DEFINE Act == (call.at = "fresh" /\ call'.at # "fresh" /\ packets = {}) => hit'
<1>1. ASSUME RelayIInv, RelayNext, call.at = "fresh", call'.at # "fresh", packets = {}
      PROVE  hit'
  <2> USE DEF callVars
  <2>1. RelayTypeOK /\ (~hit => AttemptSound)
    BY <1>1 DEF RelayIInv
  <2>2. CASE TimesOut
    <3>1. resent /\ hit' = hit /\ hit \in BOOLEAN
      BY <2>1, <2>2 DEF TimesOut, RelayTypeOK
    <3> QED
      BY <1>1, <2>1, <3>1 DEF AttemptSound
  <2>3. CASE \E c \in Client : RestartClient(c)
    BY <2>3 DEF RestartClient, Fault
  <2>4. CASE Deliver \/ DirectArrives \/ DirectFails \/ AskFails \/ Asked
    BY <1>1, <2>4 DEF Deliver, DirectArrives, DirectFails, AskFails, Asked, NoCall
  <2>5. CASE Answered
    BY <1>1, <2>5 DEF Answered
  <2>6. CASE Resend \/ TakePush \/ TakePacket \/ OpenRelay \/ ServeRelay \/ SweepRelays \/ Tick
             \/ RestartServer \/ Lose
    BY <1>1, <2>6 DEF Resend, TakePush, TakePacket, OpenRelay, ServeRelay, SweepRelays, Tick,
           RestartServer, Lose
  <2>7. CASE \E c \in Client : LogIn(c) \/ LoseConnection(c) \/ Notice(c) \/ NoticeServer(c)
    BY <1>1, <2>7 DEF LogIn, LoseConnection, Notice, NoticeServer
  <2> QED
    BY <1>1, <2>2, <2>3, <2>4, <2>5, <2>6, <2>7 DEF RelayNext
<1>2. RelayIInv /\ [RelayNext]_relayVars => [Act]_relayVars
  BY <1>1 DEF relayVars, callVars
<1>3. RelaySpec => [][Act]_relayVars
  BY <1>2, RelayInvariant, PTL DEF RelaySpec
<1> QED
  BY <1>3 DEF FreshSessionWorks

=============================================================================
