----------------------------- MODULE PeersProofs -----------------------------
(***************************************************************************)
(* Proofs about Peers: whoever answers, whatever names are claimed and     *)
(* however deliveries and a forget interleave, a name without a mark is    *)
(* one person's.  For any keys and names and any number of steps.          *)
(***************************************************************************)
EXTENDS Peers, SequenceTheorems, FiniteSetTheorems, WellFoundedInduction, TLAPS

-----------------------------------------------------------------------------
(* The inductive invariant.                                                *)

\* Each key is in a list once, and so is each name without a mark (one with a
\* mark may be given to the key that answers for it, and then claimed again).
KeysOnce(list) == \A i, j \in DOMAIN list : list[i].key = list[j].key => i = j

NamesOnce(list) ==
    \A i, j \in DOMAIN list :
        list[i].name = list[j].name /\ list[i].name.mark = NoKey => i = j

\* What is a name without a mark that heard somebody, heard the key it has.
VoicesPinned ==
    \A b \in Base : Unmarked(b) \in dropped
        \/ \A k \in heard[Unmarked(b)] : \E i \in Places(pins, Unmarked(b)) : pins[i].key = k

PeersIInv ==
    /\ pins \in Seq(Pin)
    /\ sending \subseteq PinName
    /\ forgetting \in [name : PinName, pins : Seq(Pin), on : BOOLEAN]
    /\ steps \in 0..MaxSteps
    /\ heard \in [PinName -> SUBSET PeerKey]
    /\ dropped \subseteq PinName
    /\ forgetting.on => Places(forgetting.pins, forgetting.name) # {}
    /\ KeysOnce(pins) /\ NamesOnce(pins)
    /\ KeysOnce(forgetting.pins) /\ NamesOnce(forgetting.pins)
    /\ VoicesPinned

-----------------------------------------------------------------------------
(* Lists and names.                                                        *)

\* The first of some places in a list is one of them.
LEMMA FirstIsOne ==
    ASSUME NEW S, S \subseteq Nat, S # {}
    PROVE  First(S) \in S
<1> DEFINE Less == {ss \in Nat \X Nat : ss[1] < ss[2]}
<1>1. IsWellFoundedOn(Less, Nat)
  BY NatLessThanWellFounded DEF OpToRel
<1> HIDE DEF Less
<1>2. \E i \in S : \A j \in S : ~(<<j, i>> \in Less)
  BY <1>1, WFMin
<1>3. \E i \in S : \A j \in S : i <= j
  <2>1. ASSUME NEW i \in Nat, NEW j \in Nat, j < i PROVE <<j, i>> \in Less
    BY <2>1, <<j, i>>[1] = j, <<j, i>>[2] = i DEF Less
  <2>2. PICK i \in S : \A j \in S : ~(<<j, i>> \in Less)
    BY <1>2
  <2>3. \A j \in S : ~(j < i) /\ i \in Nat /\ j \in Nat
    BY <2>1, <2>2
  <2> QED
    BY <2>3
<1> QED
  BY <1>3 DEF First

LEMMA Names ==
    /\ \A b \in Base : Unmarked(b) \in PinName /\ Unmarked(b).mark = NoKey
    /\ \A b \in Base, k \in PeerKey :
         /\ [base |-> b, mark |-> k] \in PinName
         /\ \A c \in Base : [base |-> b, mark |-> k] # Unmarked(c)
         /\ [base |-> b, mark |-> k].mark # NoKey
    /\ \A n \in PinName : n.mark = NoKey => \E b \in Base : n = Unmarked(b)
  BY PeersAssumption DEF PinName, Unmarked

LEMMA RemoveAtProperties ==
    ASSUME NEW S, NEW s \in Seq(S), NEW i \in 1..Len(s)
    PROVE  /\ RemoveAt(s, i) \in Seq(S)
           /\ Len(RemoveAt(s, i)) = Len(s) - 1
           /\ \A j \in 1..(Len(s) - 1) : RemoveAt(s, i)[j] = IF j < i THEN s[j] ELSE s[j + 1]
<1> DEFINE a == SubSeq(s, 1, i - 1)
           b == SubSeq(s, i + 1, Len(s))
<1>0. Len(s) \in Nat /\ \A j \in 1..Len(s) : s[j] \in S
  BY LenProperties, ElementOfSeq
<1>1. a \in Seq(S) /\ Len(a) = i - 1 /\ \A j \in 1..(i - 1) : a[j] = s[j]
  <2>1. /\ 1 \in Int /\ i - 1 \in Int /\ \A j \in 1..(i - 1) : s[j] \in S
    BY <1>0
  <2>2. /\ a \in Seq(S) /\ Len(a) = IF 1 <= i - 1 THEN (i - 1) - 1 + 1 ELSE 0
        /\ \A j \in 1..((i - 1) - 1 + 1) : a[j] = s[1 + j - 1]
    BY <2>1, SubSeqProperties
  <2> HIDE DEF a
  <2> QED
    BY <1>0, <2>2
<1>2. b \in Seq(S) /\ Len(b) = Len(s) - i /\ \A j \in 1..(Len(s) - i) : b[j] = s[i + j]
  <2>1. /\ i + 1 \in Int /\ Len(s) \in Int /\ \A j \in (i + 1)..Len(s) : s[j] \in S
    BY <1>0
  <2>2. /\ b \in Seq(S) /\ Len(b) = IF i + 1 <= Len(s) THEN Len(s) - (i + 1) + 1 ELSE 0
        /\ \A j \in 1..(Len(s) - (i + 1) + 1) : b[j] = s[(i + 1) + j - 1]
    BY <2>1, SubSeqProperties
  <2> HIDE DEF b
  <2> QED
    BY <1>0, <2>2
<1> HIDE DEF a, b
<1>3. /\ a \o b \in Seq(S) /\ Len(a \o b) = Len(a) + Len(b)
      /\ \A j \in 1..(Len(a) + Len(b)) : (a \o b)[j] = IF j <= Len(a) THEN a[j] ELSE b[j - Len(a)]
  BY <1>1, <1>2, ConcatProperties
<1>4. RemoveAt(s, i) = a \o b
  BY DEF RemoveAt, a, b
<1>5. \A j \in 1..(Len(s) - 1) : (a \o b)[j] = IF j < i THEN s[j] ELSE s[j + 1]
  <2> TAKE j \in 1..(Len(s) - 1)
  <2>1. CASE j < i
    BY <1>0, <1>1, <1>2, <1>3, <2>1
  <2>2. CASE ~(j < i)
    <3>1. j - (i - 1) \in 1..(Len(s) - i) /\ i + (j - (i - 1)) = j + 1
      BY <1>0, <2>2
    <3>2. (a \o b)[j] = b[j - (i - 1)]
      BY <1>0, <1>1, <1>2, <1>3, <2>2
    <3> QED
      BY <1>2, <2>2, <3>1, <3>2
  <2> QED
    BY <2>1, <2>2
<1> QED
  BY <1>0, <1>1, <1>2, <1>3, <1>4, <1>5

\* The place of a name, and of a key, that is in the list.
LEMMA FirstPlace ==
    ASSUME NEW list \in Seq(Pin), NEW n, Places(list, n) # {}
    PROVE  First(Places(list, n)) \in 1..Len(list) /\ list[First(Places(list, n))].name = n
<1>1. Places(list, n) \subseteq Nat /\ DOMAIN list = 1..Len(list)
  BY LenProperties DEF Places
<1>2. First(Places(list, n)) \in Places(list, n)
  BY <1>1, FirstIsOne
<1> QED
  BY <1>1, <1>2 DEF Places

LEMMA FirstOfKey ==
    ASSUME PeersIInv, NEW k, PlacesOfKey(k) # {}
    PROVE  /\ First(PlacesOfKey(k)) \in 1..Len(pins)
           /\ pins[First(PlacesOfKey(k))].key = k /\ pins[First(PlacesOfKey(k))] \in Pin
<1>1. PlacesOfKey(k) \subseteq Nat /\ DOMAIN pins = 1..Len(pins) /\ pins \in Seq(Pin)
  BY LenProperties DEF PlacesOfKey, PeersIInv
<1>2. First(PlacesOfKey(k)) \in PlacesOfKey(k)
  BY <1>1, FirstIsOne
<1> QED
  BY <1>1, <1>2, ElementOfSeq DEF PlacesOfKey

LEMMA AppendPin ==
    ASSUME PeersIInv, NEW k \in PeerKey, NEW n \in PinName, PlacesOfKey(k) = {},
           n.mark = NoKey => Places(pins, n) = {},
           pins' = Append(pins, [key |-> k, name |-> n])
    PROVE  /\ pins' \in Seq(Pin) /\ KeysOnce(pins') /\ NamesOnce(pins')
           /\ DOMAIN pins \subseteq DOMAIN pins' /\ \A i \in DOMAIN pins : pins'[i] = pins[i]
           /\ \E i \in DOMAIN pins' : pins'[i] = [key |-> k, name |-> n]
<1> DEFINE q == [key |-> k, name |-> n]
<1>1. q \in Pin /\ pins \in Seq(Pin) /\ Len(pins) \in Nat
  BY LenProperties DEF Pin, PeersIInv
<1>2. /\ pins' \in Seq(Pin) /\ Len(pins') = Len(pins) + 1
      /\ \A i \in 1..Len(pins) : pins'[i] = pins[i]
      /\ pins'[Len(pins) + 1] = q
  BY <1>1, AppendProperties
<1>3. DOMAIN pins = 1..Len(pins) /\ DOMAIN pins' = 1..Len(pins')
  BY <1>1, <1>2, LenProperties
<1>4. KeysOnce(pins')
  BY <1>1, <1>2, <1>3 DEF PeersIInv, KeysOnce, PlacesOfKey
<1>5. NamesOnce(pins')
  BY <1>1, <1>2, <1>3 DEF PeersIInv, NamesOnce, Places
<1>6. Len(pins) + 1 \in DOMAIN pins'
  BY <1>1, <1>2, <1>3
<1> QED
  BY <1>1, <1>2, <1>3, <1>4, <1>5, <1>6

-----------------------------------------------------------------------------
(* The steps.                                                              *)

LEMMA PeersInitially == PeersInit => PeersIInv
<1> SUFFICES ASSUME PeersInit PROVE PeersIInv
  OBVIOUS
<1>1. <<>> \in Seq(Pin) /\ DOMAIN <<>> = {}
  BY EmptySeq
<1>2. (CHOOSE b \in Base : TRUE) \in Base
  BY PeersAssumption
<1>3. NotForgetting \in [name : PinName, pins : Seq(Pin), on : BOOLEAN]
  BY <1>1, <1>2, Names DEF NotForgetting
<1>4. KeysOnce(<<>>) /\ NamesOnce(<<>>)
  BY <1>1 DEF KeysOnce, NamesOnce
<1>5. forgetting.on = FALSE /\ forgetting.pins = <<>>
  BY DEF PeersInit, NotForgetting
<1>6. VoicesPinned
  BY Names DEF PeersInit, VoicesPinned
<1> QED
  BY <1>1, <1>3, <1>4, <1>5, <1>6, PeersAssumption DEF PeersInit, PeersIInv

\* A key is heard under the name it has.
LEMMA HearsPinned ==
    ASSUME PeersIInv, NEW i \in DOMAIN pins, Hears(pins[i].name, pins[i].key),
           UNCHANGED <<pins, dropped>>
    PROVE  heard' \in [PinName -> SUBSET PeerKey] /\ VoicesPinned'
<1>1. pins[i] \in Pin
  BY LenProperties, ElementOfSeq DEF PeersIInv
<1>2. heard' \in [PinName -> SUBSET PeerKey]
  BY <1>1 DEF PeersIInv, Hears, Pin
<1>3. VoicesPinned'
  BY <1>1, Names DEF PeersIInv, Hears, VoicesPinned, Places, Pin
<1> QED
  BY <1>2, <1>3

\* A new pin is the first that is heard under its name, if it has no mark.
LEMMA HearsNew ==
    ASSUME PeersIInv, NEW k \in PeerKey, NEW n \in PinName, PlacesOfKey(k) = {},
           n.mark = NoKey => Places(pins, n) = {},
           pins' = Append(pins, [key |-> k, name |-> n]), Hears(n, k), UNCHANGED dropped
    PROVE  heard' \in [PinName -> SUBSET PeerKey] /\ VoicesPinned'
<1>1. /\ \A i \in DOMAIN pins : i \in DOMAIN pins' /\ pins'[i] = pins[i]
      /\ \E i \in DOMAIN pins' : pins'[i] = [key |-> k, name |-> n]
  BY AppendPin
<1>2. heard' \in [PinName -> SUBSET PeerKey]
  BY DEF PeersIInv, Hears
<1>3. ASSUME NEW b \in Base, Unmarked(b) \notin dropped, NEW l \in heard'[Unmarked(b)]
      PROVE  \E i \in Places(pins', Unmarked(b)) : pins'[i].key = l
  <2>1. CASE l \in heard[Unmarked(b)]
    <3>1. PICK i \in Places(pins, Unmarked(b)) : pins[i].key = l
      BY <1>3, <2>1 DEF PeersIInv, VoicesPinned
    <3> QED
      BY <1>1, <3>1 DEF Places
  <2>2. CASE Unmarked(b) = n /\ l = k
    BY <1>1, <2>2 DEF Places
  <2> QED
    BY <1>3, <2>1, <2>2, Names DEF PeersIInv, Hears
<1>4. VoicesPinned'
  BY <1>3 DEF VoicesPinned
<1> QED
  BY <1>2, <1>4

LEMMA ResolveKeeps ==
    ASSUME PeersIInv, NEW k \in PeerKey, NEW b \in Base, ResolveIncoming(k, b)
    PROVE  PeersIInv'
<1>1. steps' \in 0..MaxSteps /\ UNCHANGED <<sending, forgetting, dropped>>
  BY PeersAssumption DEF ResolveIncoming, Counted, PeersIInv
<1>2. CASE /\ PlacesOfKey(k) # {}
           /\ Hears(pins[First(PlacesOfKey(k))].name, k)
           /\ UNCHANGED pins
  <2>1. First(PlacesOfKey(k)) \in DOMAIN pins /\ pins[First(PlacesOfKey(k))].key = k
    BY <1>2, FirstOfKey, LenProperties DEF PeersIInv
  <2>2. heard' \in [PinName -> SUBSET PeerKey] /\ VoicesPinned'
    BY <1>1, <1>2, <2>1, HearsPinned
  <2> QED
    BY <1>1, <1>2, <2>2 DEF PeersIInv
<1>3. CASE /\ PlacesOfKey(k) = {}
           /\ pins' = Append(pins, [key |-> k, name |-> Claim(k, b)])
           /\ Hears(Claim(k, b), k)
  <2>1. Claim(k, b) \in PinName /\ (Claim(k, b).mark = NoKey => Places(pins, Claim(k, b)) = {})
    BY Names DEF Claim
  <2>2. heard' \in [PinName -> SUBSET PeerKey] /\ VoicesPinned'
    BY <1>1, <1>3, <2>1, HearsNew
  <2>3. pins' \in Seq(Pin) /\ KeysOnce(pins') /\ NamesOnce(pins')
    BY <1>3, <2>1, AppendPin
  <2> QED
    BY <1>1, <2>2, <2>3 DEF PeersIInv
<1> QED
  BY <1>2, <1>3 DEF ResolveIncoming

LEMMA PinOutgoingKeeps ==
    ASSUME PeersIInv, NEW n \in PinName, NEW k \in PeerKey, PinOutgoing(n, k)
    PROVE  PeersIInv'
<1>1. sending' \subseteq PinName /\ UNCHANGED <<forgetting, steps, dropped>>
  BY DEF PinOutgoing, PeersIInv
<1>2. CASE /\ Places(pins, n) # {}
           /\ IF pins[First(Places(pins, n))].key = k THEN Hears(n, k) ELSE UNCHANGED heard
           /\ UNCHANGED pins
  <2>1. First(Places(pins, n)) \in DOMAIN pins /\ pins[First(Places(pins, n))].name = n
    BY <1>2, FirstPlace, LenProperties DEF PeersIInv
  <2>2. CASE UNCHANGED heard
    BY <1>1, <1>2, <2>2 DEF PeersIInv, VoicesPinned
  <2>3. CASE pins[First(Places(pins, n))].key = k /\ Hears(n, k)
    <3>1. heard' \in [PinName -> SUBSET PeerKey] /\ VoicesPinned'
      BY <1>1, <1>2, <2>1, <2>3, HearsPinned
    <3> QED
      BY <1>1, <1>2, <3>1 DEF PeersIInv
  <2> QED
    BY <1>2, <2>2, <2>3
<1>3. CASE /\ Places(pins, n) = {} /\ PlacesOfKey(k) # {}
           /\ pins' = [pins EXCEPT ![First(PlacesOfKey(k))].name = n]
           /\ heard' = [heard EXCEPT ![n] = @ \union {k}, ![pins[First(PlacesOfKey(k))].name] = {}]
  <2> DEFINE i == First(PlacesOfKey(k))
             q == [key |-> k, name |-> n]
             m == pins[i].name
  <2>1. i \in 1..Len(pins) /\ i \in DOMAIN pins /\ pins[i].key = k /\ pins[i] \in Pin /\ m \in PinName
    BY <1>3, FirstOfKey, LenProperties DEF PeersIInv, Pin
  <2> HIDE DEF i
  <2>2. q \in Pin /\ [pins[i] EXCEPT !.name = n] = q
    BY <2>1 DEF Pin
  <2>3. pins' = [pins EXCEPT ![i] = q]
    BY <1>3, <2>2 DEF i
  <2>4. /\ pins' \in Seq(Pin) /\ DOMAIN pins' = DOMAIN pins /\ pins'[i] = q
        /\ \A j \in DOMAIN pins : j # i => pins'[j] = pins[j]
    BY <2>1, <2>2, <2>3, ExceptSeq, LenProperties DEF PeersIInv
  <2>5. KeysOnce(pins')
    BY <2>1, <2>4 DEF PeersIInv, KeysOnce
  <2>6. NamesOnce(pins')
    BY <1>3, <2>1, <2>4 DEF PeersIInv, NamesOnce, Places
  <2>7. heard' = [heard EXCEPT ![n] = @ \union {k}, ![m] = {}] /\ m # n
    BY <1>3, <2>1 DEF i, Places
  <2>8. heard' \in [PinName -> SUBSET PeerKey]
    BY <2>1, <2>7 DEF PeersIInv
  <2>9. ASSUME NEW b \in Base, Unmarked(b) \notin dropped, NEW l \in heard'[Unmarked(b)]
        PROVE  \E j \in Places(pins', Unmarked(b)) : pins'[j].key = l
    <3>1. Unmarked(b) # m
      BY <2>1, <2>7, <2>9, Names DEF PeersIInv
    <3>2. CASE l \in heard[Unmarked(b)]
      <4>1. PICK j \in Places(pins, Unmarked(b)) : pins[j].key = l
        BY <2>9, <3>2 DEF PeersIInv, VoicesPinned
      <4>2. j # i
        BY <3>1, <4>1 DEF Places
      <4> QED
        BY <2>4, <4>1, <4>2 DEF Places
    <3>3. CASE Unmarked(b) = n /\ l = k
      BY <2>1, <2>4, <3>3 DEF Places
    <3> QED
      BY <2>1, <2>7, <2>9, <3>1, <3>2, <3>3, Names DEF PeersIInv
  <2>10. VoicesPinned'
    BY <1>1, <2>9 DEF VoicesPinned
  <2> QED
    BY <1>1, <2>4, <2>5, <2>6, <2>8, <2>10 DEF PeersIInv
<1>4. CASE /\ Places(pins, n) = {} /\ PlacesOfKey(k) = {}
           /\ pins' = Append(pins, [key |-> k, name |-> n])
           /\ Hears(n, k)
  <2>1. heard' \in [PinName -> SUBSET PeerKey] /\ VoicesPinned'
    BY <1>1, <1>4, HearsNew
  <2>2. pins' \in Seq(Pin) /\ KeysOnce(pins') /\ NamesOnce(pins')
    BY <1>4, AppendPin
  <2> QED
    BY <1>1, <2>1, <2>2 DEF PeersIInv
<1> QED
  BY <1>2, <1>3, <1>4 DEF PinOutgoing

LEMMA DeliversKeep ==
    ASSUME PeersIInv, NEW n \in PinName, DeliverTo(n) \/ DeliverFails(n)
    PROVE  PeersIInv'
<1>1. /\ sending' \subseteq PinName /\ steps' \in 0..MaxSteps
      /\ UNCHANGED <<pins, forgetting, heard, dropped>>
  BY PeersAssumption DEF PeersIInv, DeliverTo, DeliverFails, Counted
<1> QED
  BY <1>1 DEF PeersIInv, VoicesPinned, Places

LEMMA ForgetReadsKeeps ==
    ASSUME PeersIInv, NEW n \in PinName, ForgetReads(n)
    PROVE  PeersIInv'
<1>1. /\ steps' \in 0..MaxSteps /\ UNCHANGED <<pins, sending, heard, dropped>>
      /\ forgetting' = [name |-> n, pins |-> pins, on |-> TRUE] /\ Places(pins, n) # {}
  BY PeersAssumption DEF PeersIInv, ForgetReads, Counted
<1>2. VoicesPinned'
  BY <1>1 DEF PeersIInv, VoicesPinned, Places
<1> QED
  BY <1>1, <1>2 DEF PeersIInv

\* A list without one of its places.
LEMMA RemovedPin ==
    ASSUME NEW list \in Seq(Pin), NEW at \in 1..Len(list), KeysOnce(list), NamesOnce(list)
    PROVE  /\ RemoveAt(list, at) \in Seq(Pin)
           /\ KeysOnce(RemoveAt(list, at)) /\ NamesOnce(RemoveAt(list, at))
           /\ \A i \in DOMAIN list \ {at} :
                 \E j \in DOMAIN RemoveAt(list, at) : RemoveAt(list, at)[j] = list[i]
<1> DEFINE r == RemoveAt(list, at)
           Was(j) == IF j < at THEN j ELSE j + 1
<1>1. /\ r \in Seq(Pin) /\ Len(r) = Len(list) - 1 /\ Len(list) \in Nat
      /\ \A j \in 1..(Len(list) - 1) : r[j] = IF j < at THEN list[j] ELSE list[j + 1]
  BY RemoveAtProperties, LenProperties
<1> HIDE DEF r
<1>2. DOMAIN r = 1..(Len(list) - 1) /\ DOMAIN list = 1..Len(list)
  BY <1>1, LenProperties
<1>3. \A j \in DOMAIN r : Was(j) \in DOMAIN list /\ r[j] = list[Was(j)]
  BY <1>1, <1>2
<1>4. \A i, j \in DOMAIN r : Was(i) = Was(j) => i = j
  BY <1>1, <1>2
<1>5. \A i \in DOMAIN list \ {at} : \E j \in DOMAIN r : i = Was(j)
  <2> TAKE i \in DOMAIN list \ {at}
  <2>1. CASE i < at
    BY <1>1, <1>2, <2>1
  <2>2. CASE ~(i < at)
    <3>1. i - 1 \in DOMAIN r /\ ~(i - 1 < at) /\ i = (i - 1) + 1
      BY <1>1, <1>2, <2>2
    <3> QED
      BY <3>1
  <2> QED
    BY <2>1, <2>2
<1> HIDE DEF Was
<1>6. KeysOnce(r)
  BY <1>3, <1>4 DEF KeysOnce
<1>7. NamesOnce(r)
  BY <1>3, <1>4 DEF NamesOnce
<1>8. \A i \in DOMAIN list \ {at} : \E j \in DOMAIN r : r[j] = list[i]
  BY <1>3, <1>5
<1> QED
  BY <1>1, <1>6, <1>7, <1>8 DEF r

LEMMA ForgetWritesKeeps ==
    ASSUME PeersIInv, ForgetWrites
    PROVE  PeersIInv'
<1> DEFINE f == forgetting
           at == First(Places(f.pins, f.name))
<1>1. /\ f.pins \in Seq(Pin) /\ f.name \in PinName /\ at \in 1..Len(f.pins)
      /\ f.pins[at].name = f.name
  BY FirstPlace DEF PeersIInv, ForgetWrites
<1>2. /\ pins' \in Seq(Pin) /\ KeysOnce(pins') /\ NamesOnce(pins')
      /\ \A i \in DOMAIN f.pins \ {at} : \E j \in DOMAIN pins' : pins'[j] = f.pins[i]
  BY <1>1, RemovedPin DEF PeersIInv, ForgetWrites
<1>3. /\ heard' = [heard EXCEPT ![f.name] = {}] /\ UNCHANGED <<sending, steps>>
      /\ forgetting' = NotForgetting
      /\ dropped' = dropped \union IF pins = f.pins THEN {} ELSE NamesIn(pins) \union NamesIn(f.pins)
  BY DEF ForgetWrites
<1>4. \A list \in Seq(Pin) : NamesIn(list) \subseteq PinName
                             /\ \A i \in DOMAIN list : list[i].name \in NamesIn(list)
  <2> TAKE list \in Seq(Pin)
  <2>1. \A i \in DOMAIN list : list[i] \in Pin /\ list[i] \in Range(list)
    BY LenProperties, ElementOfSeq DEF Range
  <2>2. \A q \in Range(list) : q \in Pin
    BY <2>1 DEF Range
  <2> QED
    BY <2>1, <2>2 DEF NamesIn, Pin
<1>5. dropped' \subseteq PinName /\ heard' \in [PinName -> SUBSET PeerKey]
  BY <1>1, <1>3, <1>4 DEF PeersIInv
<1>6. /\ forgetting' \in [name : PinName, pins : Seq(Pin), on : BOOLEAN]
      /\ forgetting'.on = FALSE /\ KeysOnce(forgetting'.pins) /\ NamesOnce(forgetting'.pins)
  <2>1. (CHOOSE b \in Base : TRUE) \in Base
    BY PeersAssumption
  <2>2. <<>> \in Seq(Pin) /\ DOMAIN <<>> = {}
    BY EmptySeq
  <2>3. NotForgetting \in [name : PinName, pins : Seq(Pin), on : BOOLEAN]
    BY <2>1, <2>2, Names DEF NotForgetting
  <2>4. KeysOnce(<<>>) /\ NamesOnce(<<>>)
    BY <2>2 DEF KeysOnce, NamesOnce
  <2> QED
    BY <1>3, <2>3, <2>4 DEF NotForgetting
<1>7. ASSUME NEW b \in Base, Unmarked(b) \notin dropped', NEW l \in heard'[Unmarked(b)]
      PROVE  \E j \in Places(pins', Unmarked(b)) : pins'[j].key = l
  <2>1. Unmarked(b) \notin dropped /\ Unmarked(b) # f.name /\ l \in heard[Unmarked(b)]
    BY <1>1, <1>3, <1>7, Names DEF PeersIInv
  <2>2. PICK i \in Places(pins, Unmarked(b)) : pins[i].key = l
    BY <2>1 DEF PeersIInv, VoicesPinned
  <2>3. pins = f.pins
    BY <1>3, <1>4, <1>7, <2>2 DEF PeersIInv, Places
  <2>4. i \in DOMAIN f.pins \ {at}
    BY <1>1, <2>1, <2>2, <2>3 DEF Places
  <2> QED
    BY <1>2, <2>2, <2>3, <2>4 DEF Places
<1>8. VoicesPinned'
  BY <1>7 DEF VoicesPinned
<1> QED
  BY <1>2, <1>3, <1>5, <1>6, <1>8 DEF PeersIInv

LEMMA PeersInductive ==
    ASSUME PeersIInv, [PeersNext]_peersVars
    PROVE  PeersIInv'
<1>1. CASE UNCHANGED peersVars
  BY <1>1 DEF peersVars, PeersIInv, VoicesPinned, Places
<1> QED
  BY <1>1, ResolveKeeps, PinOutgoingKeeps, DeliversKeep, ForgetReadsKeeps, ForgetWritesKeeps
     DEF PeersNext

-----------------------------------------------------------------------------
(* The theorems.                                                           *)

\* Each key is pinned once and each name without a mark names one key, in
\* peers.json and in what tarion forget has read of it, and what was heard
\* under such a name came from the key it has (ResolveIncoming, PinOutgoing,
\* ForgetPeer).
THEOREM PeersInvariant == PeersSpec => []PeersIInv
  BY PeersInitially, PeersInductive, PTL DEF PeersSpec

\* The variables hold values of their types, and there are never more pins than
\* keys (internal/storage/peers.go).
THEOREM PeersTypes == PeersSpec => []PeersTypeOK
<1>1. ASSUME PeersIInv PROVE PeersTypeOK
  <2> DEFINE f == [i \in 1..Len(pins) |-> pins[i].key]
  <2>1. Len(pins) \in Nat /\ DOMAIN pins = 1..Len(pins) /\ \A i \in 1..Len(pins) : pins[i] \in Pin
    BY <1>1, LenProperties, ElementOfSeq DEF PeersIInv
  <2>2. f \in Injection(1..Len(pins), PeerKey)
    BY <1>1, <2>1 DEF PeersIInv, KeysOnce, Pin, Injection, IsInjective
  <2> HIDE DEF f
  <2>3. Cardinality(1..Len(pins)) <= Cardinality(PeerKey)
    BY <2>2, PeersAssumption, FS_Injection
  <2>4. Cardinality(1..Len(pins)) = Len(pins)
    <3>1. Cardinality(1..Len(pins)) = IF 1 > Len(pins) THEN 0 ELSE Len(pins) - 1 + 1
      BY <2>1, FS_Interval
    <3> QED
      BY <2>1, <3>1
  <2> QED
    BY <1>1, <2>3, <2>4 DEF PeersIInv, PeersTypeOK
<1> QED
  BY <1>1, PeersInvariant, PTL

\* All that is filed under a name without a mark or sent to it comes from one
\* key and goes to it, until the user forgets the name or has its key take
\* another; only a pin lost to a forget that ran meanwhile makes room for a
\* second key (ResolveIncoming, PinOutgoing).
THEOREM VoicesOne == PeersSpec => []OneVoice
<1>1. ASSUME PeersIInv, NEW b \in Base, Unmarked(b) \notin dropped
      PROVE  Cardinality(heard[Unmarked(b)]) <= 1
  <2>1. \A k, l \in heard[Unmarked(b)] : k = l
    BY <1>1, Names DEF PeersIInv, VoicesPinned, NamesOnce, Places
  <2>2. CASE heard[Unmarked(b)] = {}
    BY <2>2, FS_EmptySet
  <2>3. CASE heard[Unmarked(b)] # {}
    <3>1. PICK k : heard[Unmarked(b)] = {k}
      BY <2>1, <2>3
    <3> QED
      BY <3>1, FS_Singleton
  <2> QED
    BY <2>2, <2>3
<1>2. PeersIInv => OneVoice
  BY <1>1 DEF OneVoice
<1> QED
  BY <1>2, PeersInvariant, PTL

=============================================================================
