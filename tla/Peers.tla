-------------------------------- MODULE Peers --------------------------------
(***************************************************************************)
(* Pinned contacts (internal/storage/peers.go) and the callers that decide *)
(* under which name a message is filed and which key one may be sent to.   *)
(*                                                                         *)
(* Within a process each change of peers.json happens under a lock.        *)
(* tarion forget is another process, which reads the file and then writes  *)
(* it.  A delivery looks for its contact, and pins the key that answered   *)
(* when the handshake is over.  Any key may answer at an address, and any  *)
(* name may be claimed with a message.                                     *)
(***************************************************************************)
EXTENDS Naturals, Sequences, FiniteSets, SequencesExt

CONSTANTS
    PeerKey,   \* keys of other people
    Base,      \* names without a mark, after CleanName
    NoKey,
    MaxSteps   \* bound: messages received, sent, and names forgotten

ASSUME PeersAssumption ==
    NoKey \notin PeerKey /\ IsFiniteSet(PeerKey) /\ Base # {} /\ MaxSteps \in Nat

VARIABLES
    pins,      \* peers.json
    sending,   \* names with a delivery under way
    forgetting,  \* what tarion forget has read, and the name it is to forget
    steps,     \* how many of the steps bounded by MaxSteps were taken
    heard,     \* history: keys that wrote or read under each name, since it was
               \* last forgotten or given up for another
    dropped    \* history: names whose pin was lost to a forget of another name

peersVars == <<pins, sending, forgetting, steps, heard, dropped>>

\* A name as it is, or marked with a key: "bob~1a2b3c4d".
PinName == [base : Base, mark : PeerKey \union {NoKey}]
Unmarked(b) == [base |-> b, mark |-> NoKey]
Pin == [key : PeerKey, name : PinName]

NotForgetting == [name |-> Unmarked(CHOOSE b \in Base : TRUE), pins |-> <<>>, on |-> FALSE]

PeersInit ==
    /\ pins = <<>> /\ sending = {} /\ forgetting = NotForgetting /\ steps = 0
    /\ heard = [n \in PinName |-> {}]
    /\ dropped = {}

Counted == steps < MaxSteps /\ steps' = steps + 1

Places(list, n) == {i \in DOMAIN list : list[i].name = n}
PlacesOfKey(k) == {i \in DOMAIN pins : pins[i].key = k}

\* The loops over the list take the first that fits.
First(S) == CHOOSE i \in S : \A j \in S : i <= j

\* The name of a key that is not known: the one it claims, marked if that is
\* somebody else's.
Claim(k, b) == IF Places(pins, Unmarked(b)) = {} THEN Unmarked(b) ELSE [base |-> b, mark |-> k]

Hears(n, k) == heard' = [heard EXCEPT ![n] = @ \union {k}]

\* ResolveIncoming, for a message that recordIncoming files.
ResolveIncoming(k, b) ==
    /\ Counted
    /\ \/ /\ PlacesOfKey(k) # {}
          /\ Hears(pins[First(PlacesOfKey(k))].name, k)
          /\ UNCHANGED pins
       \/ /\ PlacesOfKey(k) = {}
          /\ pins' = Append(pins, [key |-> k, name |-> Claim(k, b)])
          /\ Hears(Claim(k, b), k)
    /\ UNCHANGED <<sending, forgetting, dropped>>

\* deliverMsg: the server or the settings may have an address for an unmarked
\* name, only the pin has one for a marked name.
DeliverTo(n) ==
    /\ Counted
    /\ n \notin sending
    /\ n.mark = NoKey \/ Places(pins, n) # {}
    /\ sending' = sending \union {n}
    /\ UNCHANGED <<pins, forgetting, heard, dropped>>

\* Mutant: a name is pinned to whoever answers.
PinOutgoingAnyway(n, k) ==
    /\ n \in sending /\ sending' = sending \ {n}
    /\ IF Places(pins, n) = {} THEN pins' = Append(pins, [key |-> k, name |-> n])
       ELSE pins' = [pins EXCEPT ![First(Places(pins, n))].key = k]
    /\ Hears(n, k)
    /\ UNCHANGED <<forgetting, steps, dropped>>

\* PinOutgoing, when k has answered for n: the pinned key is told the message,
\* another is refused, and a key known by another name takes this one.
PinOutgoing(n, k) ==
    /\ n \in sending /\ sending' = sending \ {n}
    /\ \/ /\ Places(pins, n) # {}
          /\ IF pins[First(Places(pins, n))].key = k THEN Hears(n, k) ELSE UNCHANGED heard
          /\ UNCHANGED pins
       \/ /\ Places(pins, n) = {} /\ PlacesOfKey(k) # {}
          /\ LET i == First(PlacesOfKey(k)) IN
             /\ pins' = [pins EXCEPT ![i].name = n]
             /\ heard' = [heard EXCEPT ![n] = @ \union {k}, ![pins[i].name] = {}]
       \/ /\ Places(pins, n) = {} /\ PlacesOfKey(k) = {}
          /\ pins' = Append(pins, [key |-> k, name |-> n])
          /\ Hears(n, k)
    /\ UNCHANGED <<forgetting, steps, dropped>>

\* The delivery does not reach anybody.
DeliverFails(n) ==
    /\ n \in sending /\ sending' = sending \ {n}
    /\ UNCHANGED <<pins, forgetting, steps, heard, dropped>>

NamesIn(list) == {p.name : p \in Range(list)}

\* tarion forget: ForgetPeer reads the file ...
ForgetReads(n) ==
    /\ ~forgetting.on /\ Counted
    /\ Places(pins, n) # {}
    /\ forgetting' = [name |-> n, pins |-> pins, on |-> TRUE]
    /\ UNCHANGED <<pins, sending, heard, dropped>>

\* ... and writes it without the name.
ForgetWrites ==
    LET f == forgetting IN
    /\ f.on /\ forgetting' = NotForgetting
    /\ pins' = RemoveAt(f.pins, First(Places(f.pins, f.name)))
    /\ heard' = [heard EXCEPT ![f.name] = {}]
    /\ dropped' = dropped \union IF pins = f.pins THEN {} ELSE NamesIn(pins) \union NamesIn(f.pins)
    /\ UNCHANGED <<sending, steps>>

PeersNext ==
    \/ \E k \in PeerKey, b \in Base : ResolveIncoming(k, b)
    \/ \E n \in PinName : DeliverTo(n) \/ DeliverFails(n) \/ ForgetReads(n)
    \/ \E n \in PinName, k \in PeerKey : PinOutgoing(n, k)
    \/ ForgetWrites

PeersSpec == PeersInit /\ [][PeersNext]_peersVars

-----------------------------------------------------------------------------
(* Properties.                                                             *)

\* The variables hold values of their types.
PeersTypeOK ==
    /\ pins \in Seq(Pin) /\ Len(pins) <= Cardinality(PeerKey)
    /\ sending \subseteq PinName
    /\ forgetting \in [name : PinName, pins : Seq(Pin), on : BOOLEAN]
    /\ steps \in 0..MaxSteps
    /\ heard \in [PinName -> SUBSET PeerKey]
    /\ dropped \subseteq PinName

\* All that is filed under a name without a mark or sent to it comes from one
\* key and goes to it, until the user forgets the name or has its key take
\* another; only a pin lost to a forget that ran meanwhile makes room for a
\* second key (ResolveIncoming, PinOutgoing).
OneVoice ==
    \A b \in Base : Unmarked(b) \in dropped \/ Cardinality(heard[Unmarked(b)]) <= 1
=============================================================================
