---------------------------- MODULE NetworkProofs ----------------------------
(***************************************************************************)
(* Proofs about Endpoint and Limiter, what stands between the network and  *)
(* the rest of a client and of the server: connections are kept track of   *)
(* for any number of senders, and requests are rationed for any number of  *)
(* keys.  They share no state.                                             *)
(***************************************************************************)
EXTENDS Endpoint, Limiter, FiniteSetTheorems, TLAPS

-----------------------------------------------------------------------------
(* Endpoint: the inductive invariant.                                      *)

Near == {"none", "open", "closed"}
Far == {"none", "queued", "served", "refused", "ended"}
SendStage == [at : {"idle", "dial", "cache", "verify", "stream"}, conn : ConnId \union {0},
              cached : BOOLEAN, again : BOOLEAN, brief : BOOLEAN, late : BOOLEAN]
ConnState == [near : Near, far : Far, dead : BOOLEAN]

\* What was not dialed yet has no state, and nobody knows it.
Fresh ==
    /\ cached <= dialed
    /\ \A i \in ConnId : i > dialed => conns[i] = Unused
    /\ \A i \in ConnId : i <= dialed => conns[i].near # "none" /\ conns[i].far # "none"

\* A sender has a connection in hand in the places where it needs one, and
\* retries what came from the cache; it is late only with a brief deadline.
InHand ==
    \A s \in Sender :
        /\ stage[s].conn <= dialed
        /\ stage[s].conn # 0 <=> stage[s].at \in {"cache", "verify", "stream"}
        /\ stage[s].late => stage[s].again /\ stage[s].brief

\* A connection that is sent on and open is the one in the cache: whoever
\* replaces or drops that one closes it.
SentOnCached ==
    \A s \in Sender :
        stage[s].at \in {"verify", "stream"} /\ conns[stage[s].conn].near = "open" => stage[s].conn = cached

\* Why a connection is of no more use.
Spoilt ==
    \A i \in ConnId :
        /\ conns[i].dead => i \in marred
        /\ conns[i].near = "closed" => i \in marred \/ conns[i].far = "refused"
        /\ conns[i].far = "ended" => conns[i].near = "closed" \/ conns[i].dead

Served == {i \in ConnId : conns[i].far = "served"}

\* The receiver's count is that of the connections it serves.
CountIsServed == active = Cardinality(Served)

Leaks == NothingLeaks /\ Fresh /\ InHand /\ SentOnCached

EndpointIInv == EndpointTypeOK /\ Leaks /\ Spoilt /\ CountIsServed

-----------------------------------------------------------------------------
LEMMA EndpointInitially == EndpointInit => EndpointIInv
<1> SUFFICES ASSUME EndpointInit PROVE EndpointIInv
  OBVIOUS
<1> USE EndpointAssumption DEF EndpointInit
<1>1. ConnId \subseteq Nat \ {0}
  BY DEF ConnId
<1>2. EndpointTypeOK
  BY <1>1 DEF EndpointTypeOK, Unused, Rests
<1>3. Leaks
  BY <1>1 DEF Leaks, NothingLeaks, Fresh, InHand, SentOnCached, Unused, Rests
<1>4. Spoilt
  BY DEF Spoilt, Unused
<1>5. CountIsServed
  <2>1. Served = {}
    BY DEF Served, Unused
  <2> QED
    BY <2>1, FS_EmptySet DEF CountIsServed
<1> QED
  BY <1>2, <1>3, <1>4, <1>5 DEF EndpointIInv

-----------------------------------------------------------------------------
(* The receiver's count.                                                   *)

LEMMA ServedFinite == IsFiniteSet(Served) /\ Cardinality(Served) \in Nat
<1>1. IsFiniteSet(ConnId)
  BY FS_Interval, EndpointAssumption DEF ConnId
<1>2. Served \subseteq ConnId
  BY DEF Served
<1> QED
  BY <1>1, <1>2, FS_Subset, FS_CardinalityType

\* A step that serves the same connections and leaves the count.
LEMMA CountedSame ==
    ASSUME CountIsServed, active' = active, \A i \in ConnId : conns'[i].far = "served" <=> conns[i].far = "served"
    PROVE  CountIsServed'
  BY DEF CountIsServed, Served

LEMMA CountedAccepts ==
    ASSUME EndpointIInv, NEW i \in ConnId, Accepts(i)
    PROVE  CountIsServed' /\ active' \in 0..MaxActive
<1> USE DEF EndpointIInv, EndpointTypeOK
<1>1. CASE active + 1 > MaxActive
  <2>1. \A j \in ConnId : conns'[j].far = "served" <=> conns[j].far = "served"
    BY <1>1 DEF Accepts
  <2> QED
    BY <1>1, <2>1, CountedSame DEF Accepts
<1>2. CASE ~(active + 1 > MaxActive)
  <2>1. Served' = Served \union {i}
    BY <1>2 DEF Accepts, Served
  <2>2. i \notin Served
    BY DEF Accepts, Served
  <2>3. Cardinality(Served') = Cardinality(Served) + 1
    BY <2>1, <2>2, ServedFinite, FS_AddElement
  <2> QED
    BY <1>2, <2>3, EndpointAssumption DEF Accepts, CountIsServed
<1> QED
  BY <1>1, <1>2

LEMMA CountedEnds ==
    ASSUME EndpointIInv, NEW i \in ConnId, EndsServing(i)
    PROVE  CountIsServed' /\ active' \in 0..MaxActive
<1> USE DEF EndpointIInv, EndpointTypeOK
<1>1. Served' = Served \ {i}
  BY DEF EndsServing, Served
<1>2. i \in Served
  BY DEF EndsServing, Served
<1>3. Cardinality(Served') = Cardinality(Served) - 1
  BY <1>1, <1>2, ServedFinite, FS_RemoveElement
<1>4. Cardinality(Served') \in Nat
  BY <1>1, ServedFinite, FS_RemoveElement, FS_CardinalityType
<1> QED
  BY <1>3, <1>4, EndpointAssumption DEF EndsServing, CountIsServed

-----------------------------------------------------------------------------
(* One lemma for each action.                                              *)

\* A send begins: with the cached connection, or by dialing.
LEMMA BeginsKeeps == ASSUME EndpointIInv, NEW s \in Sender, BeginsSend(s) PROVE EndpointIInv'
<1> USE EndpointAssumption DEF EndpointIInv, BeginsSend
<1> DEFINE use == cached # 0 /\ conns[cached].near = "open"
<1>0. /\ stage' \in [Sender -> SendStage]
      /\ \A r \in Sender \ {s} : stage'[r] = stage[r]
      /\ stage'[s].at = IF use THEN "verify" ELSE "dial"
      /\ stage'[s].conn = IF use THEN cached ELSE 0
      /\ ~stage'[s].late /\ stage[s].conn = 0
  <2>1. PICK brief \in BOOLEAN :
            stage' = [stage EXCEPT ![s] =
                [Rests EXCEPT !.at = IF use THEN "verify" ELSE "dial",
                              !.conn = IF use THEN cached ELSE 0, !.cached = use, !.brief = brief]]
    OBVIOUS
  <2> DEFINE r == [at |-> IF use THEN "verify" ELSE "dial", conn |-> IF use THEN cached ELSE 0,
                   cached |-> use, again |-> FALSE, brief |-> brief, late |-> FALSE]
  <2>2. stage' = [stage EXCEPT ![s] = r]
    BY <2>1 DEF Rests
  <2>3. cached \in ConnId \union {0} /\ use \in BOOLEAN /\ stage \in [Sender -> SendStage]
    BY DEF EndpointTypeOK, SendStage
  <2>4. r \in SendStage
    BY <2>3 DEF SendStage
  <2>5. r.at = (IF use THEN "verify" ELSE "dial") /\ r.conn = (IF use THEN cached ELSE 0) /\ ~r.late
    OBVIOUS
  <2>6. stage[s].conn = 0
    BY DEF Rests
  <2> HIDE DEF r
  <2>7. stage' \in [Sender -> SendStage] /\ stage'[s] = r /\ \A q \in Sender \ {s} : stage'[q] = stage[q]
    BY <2>2, <2>3, <2>4
  <2> QED
    BY <2>5, <2>6, <2>7
<1>1. EndpointTypeOK'
  BY <1>0 DEF EndpointTypeOK, SendStage, ConnId
<1>2. NothingLeaks'
  BY <1>0 DEF EndpointTypeOK, Leaks, NothingLeaks, ConnId
<1>3. Fresh'
  BY DEF Leaks, Fresh
<1>4. InHand'
  BY <1>0 DEF EndpointTypeOK, Leaks, Fresh, InHand, ConnId
<1>5. SentOnCached'
  BY <1>0 DEF EndpointTypeOK, Leaks, SentOnCached
<1>6. Spoilt'
  BY DEF Spoilt
<1>7. CountIsServed'
  BY CountedSame
<1> QED
  BY <1>1, <1>2, <1>3, <1>4, <1>5, <1>6, <1>7 DEF Leaks

\* A connection is dialed: nobody but this send knows it.
LEMMA DialsKeeps == ASSUME EndpointIInv, NEW s \in Sender, DialsNew(s) PROVE EndpointIInv'
<1> USE EndpointAssumption DEF EndpointIInv, DialsNew
<1>1. dialed' = dialed + 1 /\ dialed' \in ConnId /\ dialed \in Nat
  BY DEF EndpointTypeOK, ConnId
<1>2. EndpointTypeOK'
  <2>1. conns' \in [ConnId -> ConnState]
    BY <1>1 DEF EndpointTypeOK, ConnState, Near, Far
  <2>2. stage' \in [Sender -> SendStage]
    BY <1>1 DEF EndpointTypeOK, SendStage
  <2>3. dialed' \in 0..MaxConns
    BY <1>1 DEF ConnId
  <2> QED
    BY <2>1, <2>2, <2>3 DEF EndpointTypeOK, SendStage, ConnState, Near, Far
<1>3. NothingLeaks'
  <2>1. stage'[s].conn = dialed' /\ \A r \in Sender \ {s} : stage'[r] = stage[r]
    BY DEF EndpointTypeOK
  <2>2. stage[s].conn = 0
    BY DEF EndpointTypeOK, Leaks, InHand
  <2>3. \A j \in ConnId \ {dialed'} : conns'[j] = conns[j] /\ j # 0
    BY <1>1 DEF EndpointTypeOK, ConnId
  <2> QED
    BY <2>1, <2>2, <2>3 DEF Leaks, NothingLeaks
<1>4. Fresh'
  BY <1>1 DEF EndpointTypeOK, Leaks, Fresh, ConnId
<1>5. InHand'
  BY <1>1 DEF EndpointTypeOK, Leaks, InHand, ConnId
<1>6. SentOnCached'
  BY <1>1 DEF EndpointTypeOK, Leaks, InHand, SentOnCached, ConnId
<1>7. Spoilt'
  BY <1>1 DEF EndpointTypeOK, Spoilt
<1>8. CountIsServed'
  BY <1>1, CountedSame DEF EndpointTypeOK, Leaks, Fresh, Unused, ConnId
<1> QED
  BY <1>2, <1>3, <1>4, <1>5, <1>6, <1>7, <1>8 DEF Leaks

\* It is put into the cache, and what was there is closed.
LEMMA CachesKeeps == ASSUME EndpointIInv, NEW s \in Sender, Caches(s) PROVE EndpointIInv'
<1> DEFINE i == stage[s].conn
<1> USE EndpointAssumption DEF EndpointIInv, Caches, Closed
<1>1. i \in ConnId /\ i <= dialed
  BY DEF EndpointTypeOK, Leaks, InHand
<1>2. /\ stage' = [stage EXCEPT ![s].at = "verify"] /\ cached' = i
      /\ \A j \in ConnId :
             conns'[j] = IF j = cached /\ j # i THEN [conns[j] EXCEPT !.near = "closed"] ELSE conns[j]
  <2>1. CASE cached \in {0, i}
    BY <1>1, <2>1 DEF ConnId
  <2>2. CASE cached \notin {0, i}
    BY <1>1, <2>2 DEF EndpointTypeOK
  <2> QED
    BY <2>1, <2>2
<1>3. EndpointTypeOK'
  <2>1. conns' \in [ConnId -> ConnState] /\ marred' \subseteq ConnId
    BY DEF EndpointTypeOK, ConnState, Near, Far
  <2> QED
    BY <1>1, <2>1 DEF EndpointTypeOK, ConnState, Near, Far
<1>4. NothingLeaks'
  <2>1. ASSUME NEW j \in ConnId, conns'[j].near = "open", j # i
        PROVE  \E r \in Sender : stage'[r].conn = j
    BY <1>1, <1>2, <2>1 DEF EndpointTypeOK, Leaks, NothingLeaks
  <2> QED
    BY <1>2, <2>1 DEF NothingLeaks
<1>5. Fresh'
  BY <1>1, <1>2 DEF EndpointTypeOK, Leaks, Fresh, ConnId
<1>6. InHand'
  BY <1>1, <1>2 DEF EndpointTypeOK, Leaks, InHand
<1>7. SentOnCached'
  <2>1. ASSUME NEW r \in Sender, stage'[r].at \in {"verify", "stream"}, conns'[stage'[r].conn].near = "open", r # s
        PROVE  stage'[r].conn = i
    <3>1. stage'[r] = stage[r] /\ stage[r].conn \in ConnId
      BY <1>2, <2>1 DEF EndpointTypeOK, Leaks, InHand
    <3> QED
      BY <1>2, <2>1, <3>1 DEF EndpointTypeOK, Leaks, SentOnCached
  <2>2. stage'[s].conn = i
    BY <1>2 DEF EndpointTypeOK
  <2> QED
    BY <1>2, <2>1, <2>2 DEF SentOnCached
<1>8. Spoilt'
  BY <1>1, <1>2 DEF EndpointTypeOK, Spoilt, ConnId
<1>9. CountIsServed'
  BY <1>2, CountedSame DEF EndpointTypeOK
<1> QED
  BY <1>3, <1>4, <1>5, <1>6, <1>7, <1>8, <1>9 DEF Leaks

\* A send ends, or fails before it had a connection.
LEMMA RestKeeps ==
    ASSUME EndpointIInv, NEW s \in Sender, Acknowledged(s) \/ DialFails(s) \/ DialsLate(s)
    PROVE  EndpointIInv'
<1> USE EndpointAssumption DEF EndpointIInv, Acknowledged, DialFails, DialsLate, Live
<1>1. /\ stage' = [stage EXCEPT ![s] = Rests]
      /\ UNCHANGED <<cached, conns, dialed, begun, active, marred>>
      /\ deaths' \in 0..MaxDeaths
  BY DEF EndpointTypeOK, Death
<1>2. EndpointTypeOK'
  BY <1>1 DEF EndpointTypeOK, Rests, ConnId
<1>3. NothingLeaks'
  <2>1. ASSUME NEW j \in ConnId, conns[j].near = "open", stage[s].conn = j PROVE j = cached
    BY <2>1 DEF EndpointTypeOK, Leaks, InHand, SentOnCached, ConnId
  <2> QED
    BY <1>1, <2>1 DEF EndpointTypeOK, Leaks, NothingLeaks
<1>4. Fresh'
  BY <1>1 DEF Leaks, Fresh
<1>5. InHand'
  BY <1>1 DEF EndpointTypeOK, Leaks, InHand, Rests
<1>6. SentOnCached'
  BY <1>1 DEF EndpointTypeOK, Leaks, SentOnCached, Rests
<1>7. Spoilt'
  BY <1>1 DEF Spoilt
<1>8. CountIsServed'
  BY <1>1, CountedSame
<1> QED
  BY <1>2, <1>3, <1>4, <1>5, <1>6, <1>7, <1>8 DEF Leaks

\* The certificate is the right one.
LEMMA VerifiesKeeps == ASSUME EndpointIInv, NEW s \in Sender, Verifies(s) PROVE EndpointIInv'
<1> USE EndpointAssumption DEF EndpointIInv, Verifies
<1>1. /\ stage' \in [Sender -> SendStage]
      /\ \A r \in Sender \ {s} : stage'[r] = stage[r]
      /\ stage'[s].at = "stream" /\ stage'[s].conn = stage[s].conn
      /\ stage'[s].late = stage[s].late /\ stage'[s].again = stage[s].again
      /\ stage'[s].brief = stage[s].brief
  BY DEF EndpointTypeOK, SendStage
<1>2. EndpointTypeOK'
  BY <1>1 DEF EndpointTypeOK, SendStage
<1>3. NothingLeaks'
  <2>1. \A r \in Sender : stage'[r].conn = stage[r].conn
    BY <1>1
  <2> QED
    BY <2>1 DEF Leaks, NothingLeaks
<1>4. Fresh'
  BY DEF Leaks, Fresh
<1>5. InHand'
  BY <1>1 DEF Leaks, InHand
<1>6. SentOnCached'
  BY <1>1 DEF Leaks, SentOnCached
<1>7. Spoilt'
  BY DEF Spoilt
<1>8. CountIsServed'
  BY CountedSame
<1> QED
  BY <1>2, <1>3, <1>4, <1>5, <1>6, <1>7, <1>8 DEF Leaks

\* A send fails or is refused: its connection is dropped for all.
LEMMA DropKeeps ==
    ASSUME EndpointIInv, NEW s \in Sender, StreamFails(s) \/ Rejected(s) \/ VerifyRefuses(s)
    PROVE  EndpointIInv'
<1> DEFINE i == stage[s].conn
           again == [at |-> "dial", conn |-> 0, cached |-> FALSE, again |-> TRUE, brief |-> stage[s].brief,
                     late |-> stage[s].brief /\ conns[i].near = "open"]
<1> USE EndpointAssumption DEF EndpointIInv
<1>1. stage[s].at \in {"verify", "stream"} /\ i \in ConnId /\ i <= dialed
  BY DEF EndpointTypeOK, Leaks, InHand, StreamFails, Rejected, VerifyRefuses
<1>2. /\ stage' \in {[stage EXCEPT ![s] = Rests], [stage EXCEPT ![s] = again]}
      /\ cached' = IF cached = i THEN 0 ELSE cached
      /\ conns' = [conns EXCEPT ![i] = [@ EXCEPT !.near = "closed"]]
      /\ marred' = marred \union {i}
      /\ UNCHANGED <<dialed, begun, active, deaths>>
  BY DEF StreamFails, Rejected, VerifyRefuses, Drops, Closed, Rests
<1>3. /\ stage'[s].conn = 0 /\ stage'[s].at \in {"idle", "dial"}
      /\ stage'[s].late => stage'[s].again /\ stage'[s].brief
      /\ stage' \in [Sender -> SendStage]
      /\ \A r \in Sender \ {s} : stage'[r] = stage[r]
  <2>1. stage \in [Sender -> SendStage] /\ stage[s].brief \in BOOLEAN
    BY DEF EndpointTypeOK, SendStage
  <2>2. Rests \in SendStage /\ again \in SendStage
    BY <2>1 DEF Rests, SendStage
  <2>3. /\ again.conn = 0 /\ again.at = "dial" /\ (again.late => again.again /\ again.brief)
        /\ Rests.conn = 0 /\ Rests.at = "idle" /\ ~Rests.late
    BY DEF Rests
  <2> HIDE DEF again
  <2>4. /\ stage'[s] \in {Rests, again} /\ stage' \in [Sender -> SendStage]
        /\ \A r \in Sender \ {s} : stage'[r] = stage[r]
    BY <1>2, <2>1, <2>2
  <2>5. CASE stage'[s] = Rests
    BY <2>3, <2>4, <2>5
  <2>6. CASE stage'[s] = again
    BY <2>3, <2>4, <2>6
  <2> QED
    BY <2>4, <2>5, <2>6
<1>4. /\ conns'[i].near = "closed" /\ conns'[i].far = conns[i].far /\ conns'[i].dead = conns[i].dead
      /\ conns' \in [ConnId -> ConnState]
      /\ \A j \in ConnId \ {i} : conns'[j] = conns[j]
  BY <1>1, <1>2 DEF EndpointTypeOK, ConnState, Near, Far
<1>5. EndpointTypeOK'
  BY <1>1, <1>2, <1>3, <1>4 DEF EndpointTypeOK, SendStage, ConnState, Near, Far
<1>6. NothingLeaks'
  BY <1>2, <1>3, <1>4 DEF Leaks, NothingLeaks
<1>7. Fresh'
  <2>1. cached' <= dialed
    BY <1>2 DEF EndpointTypeOK, Leaks, Fresh
  <2>2. \A j \in ConnId : j > dialed => j # i
    BY <1>1 DEF EndpointTypeOK, ConnId
  <2> QED
    BY <1>2, <1>4, <2>1, <2>2 DEF Leaks, Fresh
<1>8. InHand'
  BY <1>2, <1>3 DEF EndpointTypeOK, Leaks, InHand
<1>9. SentOnCached'
  <2>1. ASSUME NEW r \in Sender, stage'[r].at \in {"verify", "stream"}, conns'[stage'[r].conn].near = "open"
        PROVE  stage'[r].conn = cached'
    <3>1. r # s /\ stage'[r] = stage[r] /\ stage[r].conn \in ConnId
      BY <1>3, <2>1 DEF EndpointTypeOK, Leaks, InHand
    <3>2. stage[r].conn # i /\ conns[stage[r].conn].near = "open"
      BY <1>4, <2>1, <3>1
    <3> QED
      BY <1>2, <2>1, <3>1, <3>2 DEF Leaks, SentOnCached
  <2> QED
    BY <2>1 DEF SentOnCached
<1>10. Spoilt'
  BY <1>1, <1>2, <1>4 DEF Spoilt
<1>11. CountIsServed'
  BY <1>2, <1>4, CountedSame
<1> QED
  BY <1>5, <1>6, <1>7, <1>8, <1>9, <1>10, <1>11 DEF Leaks

\* A connection dies, one end hears of it, or the receiver takes it up or ends
\* it: nothing is opened, and no sender or cache changes.
LEMMA ConnKeeps == ASSUME EndpointIInv, NEW i \in ConnId, ConnStep(i) PROVE EndpointIInv'
<1> USE EndpointAssumption DEF EndpointIInv
<1>1. /\ UNCHANGED <<cached, dialed, stage, begun>>
      /\ \A j \in ConnId \ {i} : conns'[j] = conns[j]
      /\ conns' \in [ConnId -> ConnState]
      /\ conns'[i].near = "open" => conns[i].near = "open"
      /\ conns'[i].near # "none" /\ conns'[i].far # "none"
      /\ i <= dialed
      /\ marred' \subseteq ConnId
      /\ deaths' \in 0..MaxDeaths
  <2>1. i <= dialed
    BY DEF EndpointTypeOK, Leaks, Fresh, Unused, ConnStep, Dies, Notices, Accepts, EndsServing, ConnId
  <2>2. conns[i].near # "none" /\ conns[i].far # "none"
    BY <2>1 DEF Leaks, Fresh
  <2>3. CASE Dies(i)
    <3>1. conns' = [conns EXCEPT ![i].dead = TRUE] /\ conns \in [ConnId -> ConnState]
      BY <2>3 DEF EndpointTypeOK, Dies, ConnState, Near, Far
    <3>2. conns' \in [ConnId -> ConnState]
      BY <3>1 DEF ConnState
    <3>3. deaths' \in 0..MaxDeaths
      BY <2>3 DEF EndpointTypeOK, Dies, Death
    <3> QED
      BY <2>1, <2>2, <2>3, <3>1, <3>2, <3>3 DEF EndpointTypeOK, Dies
  <2>4. CASE Notices(i)
    BY <2>1, <2>2, <2>4 DEF EndpointTypeOK, Notices, Closed, ConnState, Near, Far
  <2>5. CASE Accepts(i)
    BY <2>1, <2>2, <2>5 DEF EndpointTypeOK, Accepts, ConnState, Near, Far
  <2>6. CASE EndsServing(i)
    BY <2>1, <2>2, <2>6 DEF EndpointTypeOK, EndsServing, ConnState, Near, Far
  <2> QED
    BY <2>3, <2>4, <2>5, <2>6 DEF ConnStep
<1>2. CountIsServed' /\ active' \in 0..MaxActive
  <2>1. CASE Dies(i)
    BY <2>1, CountedSame DEF EndpointTypeOK, Dies
  <2>2. CASE Notices(i)
    BY <2>2, CountedSame DEF EndpointTypeOK, Notices, Closed
  <2> QED
    BY <2>1, <2>2, CountedAccepts, CountedEnds DEF ConnStep
<1>3. EndpointTypeOK'
  BY <1>1, <1>2 DEF EndpointTypeOK, ConnState, Near, Far
<1>4. NothingLeaks'
  BY <1>1 DEF Leaks, NothingLeaks
<1>5. Fresh'
  <2>1. \A j \in ConnId : j > dialed => j # i
    BY <1>1 DEF EndpointTypeOK, ConnId
  <2> QED
    BY <1>1, <2>1 DEF Leaks, Fresh
<1>6. InHand'
  BY <1>1 DEF Leaks, InHand
<1>7. SentOnCached'
  <2>1. \A r \in Sender : stage[r].at \in {"verify", "stream"} => stage[r].conn \in ConnId
    BY DEF EndpointTypeOK, Leaks, InHand
  <2> QED
    BY <1>1, <2>1 DEF Leaks, SentOnCached
<1>8. Spoilt'
  <2>1. CASE Dies(i)
    BY <2>1 DEF EndpointTypeOK, Dies, Spoilt
  <2>2. CASE Notices(i)
    BY <2>2 DEF EndpointTypeOK, Notices, Closed, Spoilt
  <2>3. CASE Accepts(i)
    BY <2>3 DEF EndpointTypeOK, Accepts, Spoilt
  <2>4. CASE EndsServing(i)
    BY <2>4 DEF EndpointTypeOK, EndsServing, Spoilt
  <2> QED
    BY <2>1, <2>2, <2>3, <2>4 DEF ConnStep
<1> QED
  BY <1>2, <1>3, <1>4, <1>5, <1>6, <1>7, <1>8 DEF Leaks

LEMMA EndpointInductive == EndpointIInv /\ [EndpointNext]_endpointVars => EndpointIInv'
<1> SUFFICES ASSUME EndpointIInv, [EndpointNext]_endpointVars PROVE EndpointIInv'
  OBVIOUS
<1>1. ASSUME NEW s \in Sender, SendStep(s) PROVE EndpointIInv'
  BY <1>1, BeginsKeeps, DialsKeeps, CachesKeeps, RestKeeps, VerifiesKeeps, DropKeeps DEF SendStep
<1>2. ASSUME NEW i \in ConnId, ConnStep(i) PROVE EndpointIInv'
  BY <1>2, ConnKeeps
<1>3. CASE UNCHANGED endpointVars
  BY <1>3 DEF endpointVars, EndpointIInv, EndpointTypeOK, Leaks, NothingLeaks, Fresh, InHand,
              SentOnCached, Spoilt, CountIsServed, Served
<1> QED
  BY <1>1, <1>2, <1>3 DEF EndpointNext

\* The cache, the senders and the count of admitted connections agree (conn,
\* dropConn, StartListener).
THEOREM EndpointInvariant == EndpointSpec => []EndpointIInv
  BY EndpointInitially, EndpointInductive, PTL DEF EndpointSpec

-----------------------------------------------------------------------------
\* Every variable keeps its type; above all the receiver's count is never below
\* zero nor above maxActiveConns, whatever is dialed, refused and ended.
THEOREM EndpointTypes == EndpointSpec => []EndpointTypeOK
  BY EndpointInvariant, PTL DEF EndpointIInv

\* However many sends share, replace and drop the connection of an address, none
\* of them leaves one open that nobody knows (conn, dropConn).
THEOREM NoneForgotten == EndpointSpec => []NothingLeaks
  BY EndpointInvariant, PTL DEF EndpointIInv, Leaks

\* What a sending goroutine does when another one acts is nothing.
LEMMA OthersRest ==
    ASSUME NEW s \in Sender, NEW r \in Sender, SendStep(r), r # s, EndpointTypeOK
    PROVE  stage'[s] = stage[s]
  BY DEF SendStep, BeginsSend, DialsNew, Caches, DialFails, DialsLate, Verifies, VerifyRefuses,
         Acknowledged, StreamFails, Rejected, EndpointTypeOK

\* A send past the certificate fails for the sake of its connection only if it
\* dialed that one itself, and gives up a second dial only with a brief deadline
\* (SendMessage).
THEOREM StaleRetried == EndpointSpec => StaleIsRetried
<1> DEFINE Failed(s) == LET i == stage[s].conn IN
         /\ (stage[s].at = "stream" /\ stage'[s] = Rests /\ ~Live(i)) =>
                ~stage[s].cached /\ (i \in marred \/ conns[i].far = "refused")
         /\ (stage[s].at = "dial" /\ stage'[s] = Rests /\ deaths' = deaths) =>
                stage[s].again /\ stage[s].brief
<1>1. ASSUME EndpointIInv, [EndpointNext]_endpointVars, NEW s \in Sender PROVE Failed(s)
  <2> DEFINE i == stage[s].conn
  <2>1. ASSUME stage[s].at \in {"dial", "stream"}, stage'[s] = Rests PROVE SendStep(s)
    <3>1. stage'[s] # stage[s]
      BY <2>1 DEF Rests
    <3> QED
      BY <1>1, <3>1, OthersRest
         DEF EndpointIInv, EndpointNext, endpointVars, ConnStep, Dies, Notices, Accepts, EndsServing
  <2>2. ASSUME stage[s].at = "stream", stage'[s] = Rests, ~Live(i)
        PROVE  ~stage[s].cached /\ (i \in marred \/ conns[i].far = "refused")
    <3>1. i \in ConnId /\ i <= dialed
      BY <1>1, <2>2 DEF EndpointIInv, EndpointTypeOK, Leaks, InHand
    <3>2. StreamFails(s)
      <4>1. ~BeginsSend(s)
        <5>1. Rests.at = "idle"
          BY DEF Rests
        <5> QED
          BY <2>2, <5>1 DEF BeginsSend
      <4>2. ~DialsNew(s) /\ ~Caches(s) /\ ~DialFails(s) /\ ~DialsLate(s) /\ ~Verifies(s) /\ ~VerifyRefuses(s)
        BY <2>2 DEF DialsNew, Caches, DialFails, DialsLate, Verifies, VerifyRefuses
      <4>3. ~Acknowledged(s) /\ ~Rejected(s)
        BY <2>2 DEF Acknowledged, Rejected
      <4> QED
        BY <2>1, <2>2, <4>1, <4>2, <4>3 DEF SendStep
    <3>3. ~stage[s].cached
      <4>1. ASSUME stage[s].cached PROVE FALSE
        <5>1. stage'[s].at = "dial"
          BY <1>1, <3>2, <4>1 DEF StreamFails, Rests, EndpointIInv, EndpointTypeOK
        <5> QED
          BY <2>2, <5>1 DEF Rests
      <4> QED
        BY <4>1
    <3>4. conns[i].near \in Near /\ conns[i].far \in Far /\ conns[i].near # "none" /\ conns[i].far # "none"
      BY <1>1, <3>1 DEF EndpointIInv, EndpointTypeOK, Leaks, Fresh, Near, Far
    <3>5. i \in marred \/ conns[i].far = "refused"
      BY <1>1, <2>2, <3>1, <3>4 DEF Live, EndpointIInv, Spoilt, Near, Far
    <3> QED
      BY <3>3, <3>5
  <2>3. ASSUME stage[s].at = "dial", stage'[s] = Rests, deaths' = deaths
        PROVE  stage[s].again /\ stage[s].brief
    <3>1. DialsLate(s)
      <4>1. ~BeginsSend(s)
        <5>1. Rests.at = "idle"
          BY DEF Rests
        <5> QED
          BY <2>3, <5>1 DEF BeginsSend
      <4>2. ~DialFails(s)
        BY <1>1, <2>3 DEF DialFails, Death, EndpointIInv, EndpointTypeOK
      <4>3. ~DialsNew(s)
        <5>1. ASSUME DialsNew(s) PROVE stage'[s].at = "cache"
          BY <1>1, <5>1 DEF DialsNew, EndpointIInv, EndpointTypeOK
        <5> QED
          BY <2>3, <5>1 DEF Rests
      <4>4. /\ ~Caches(s) /\ ~Verifies(s) /\ ~VerifyRefuses(s) /\ ~Acknowledged(s) /\ ~StreamFails(s)
            /\ ~Rejected(s)
        BY <2>3 DEF Caches, Verifies, VerifyRefuses, Acknowledged, StreamFails, Rejected
      <4> QED
        BY <2>1, <2>3, <4>1, <4>2, <4>3, <4>4 DEF SendStep
    <3> QED
      BY <1>1, <3>1 DEF DialsLate, EndpointIInv, Leaks, InHand
  <2> QED
    BY <2>2, <2>3
<1>2. EndpointIInv /\ [EndpointNext]_endpointVars => [\A s \in Sender : Failed(s)]_endpointVars
  BY <1>1
<1> QED
  BY <1>2, EndpointInvariant, PTL DEF EndpointSpec, StaleIsRetried

-----------------------------------------------------------------------------
(* Limiter: types, and that it implements TokenBuckets.  The level of a key *)
(* is Looked(k); a request sets it, a sweep leaves it, and a tick raises it *)
(* until it is full.                                                        *)

\* What has refilled is within the bucket.
LEMMA RefilledBounds ==
    ASSUME LimiterTypeOK, NEW k \in Key
    PROVE  /\ Looked(k) \in 0..Burst
           /\ k \in DOMAIN buckets => Refilled(buckets[k]) \in 0..Burst
  BY LimiterAssumption DEF LimiterTypeOK, Looked, Refilled, Bucket

LEMMA LimiterTypeStep == LimiterTypeOK /\ [LimiterNext]_limiterVars => LimiterTypeOK'
<1> SUFFICES ASSUME LimiterTypeOK, [LimiterNext]_limiterVars PROVE LimiterTypeOK'
  OBVIOUS
<1>1. ASSUME NEW k \in Key, NEW n \in Want, AllowN(k, n) PROVE LimiterTypeOK'
  <2> DEFINE t == Looked(k)
  <2>1. t \in 0..Burst
    BY RefilledBounds
  <2>2. n \in Nat \ {0}
    BY LimiterAssumption
  <2> HIDE DEF t
  <2>3. /\ result' = [key |-> k, n |-> n, ok |-> t >= n]
        /\ buckets' = [j \in DOMAIN buckets \union {k} |->
               IF j = k THEN [tokens |-> IF t >= n THEN t - n ELSE t, last |-> now] ELSE buckets[j]]
        /\ now' = now
    BY <1>1 DEF AllowN, t
  <2>4. now \in 0..MaxTime
    BY DEF LimiterTypeOK
  <2>5. (IF t >= n THEN t - n ELSE t) \in 0..Burst
    BY <2>1, <2>2, LimiterAssumption
  <2>6. ASSUME NEW j \in DOMAIN buckets' PROVE buckets'[j] \in Bucket /\ buckets'[j].last <= now'
    <3>1. CASE j = k
      BY <3>1, <2>3, <2>4, <2>5, LimiterAssumption DEF Bucket
    <3>2. CASE j # k
      BY <3>2, <2>3 DEF LimiterTypeOK
    <3> QED BY <3>1, <3>2
  <2>7. DOMAIN buckets' \subseteq Key
    BY <2>3 DEF LimiterTypeOK
  <2>8. result' \in [key : Key, n : Want, ok : BOOLEAN]
    BY <2>3
  <2> QED
    BY <2>3, <2>4, <2>6, <2>7, <2>8 DEF LimiterTypeOK
<1>2. CASE Sweep
  BY <1>2 DEF LimiterTypeOK, Sweep
<1>3. CASE TimePasses
  BY <1>3, LimiterAssumption DEF LimiterTypeOK, TimePasses, Bucket
<1>4. CASE UNCHANGED limiterVars
  BY <1>4 DEF LimiterTypeOK, limiterVars
<1> QED
  BY <1>1, <1>2, <1>3, <1>4 DEF LimiterNext

\* Every variable keeps its type, and no bucket is younger than the clock says.
THEOREM LimiterTypes == LimiterSpec => []LimiterTypeOK
<1>1. LimiterInit => LimiterTypeOK
  BY LimiterAssumption DEF LimiterInit, LimiterTypeOK
<1> QED
  BY <1>1, LimiterTypeStep, PTL DEF LimiterSpec

-----------------------------------------------------------------------------
(* Limiter: the refinement.                                                *)

\* A request finds and leaves the level TokenBuckets has.
LEMMA RequestStep ==
    ASSUME LimiterTypeOK, NEW k \in Key, NEW n \in Want, AllowN(k, n)
    PROVE  TB!Request(k, n)
<1> DEFINE t == Looked(k)
<1>1. t \in 0..Burst
  BY RefilledBounds
<1>2. n \in Nat \ {0}
  BY LimiterAssumption
<1>3. Levels[k] = t
  BY DEF Levels
<1>4. ASSUME NEW j \in Key, j # k PROVE Looked(j)' = Looked(j)
  BY <1>4 DEF AllowN, Looked, Refilled
<1>5. Looked(k)' = IF t >= n THEN t - n ELSE t
  <2>1. Looked(k)' = Refilled([tokens |-> IF t >= n THEN t - n ELSE t, last |-> now])
    BY DEF AllowN, Looked, Refilled
  <2> HIDE DEF t
  <2> QED
    BY <2>1, <1>1, <1>2, LimiterAssumption DEF Refilled, LimiterTypeOK
<1>6. result' = [key |-> k, n |-> n, ok |-> t >= n]
  BY DEF AllowN
<1> HIDE DEF t
<1>7. Levels' = IF Levels[k] >= n THEN [Levels EXCEPT ![k] = @ - n] ELSE Levels
  <2>1. Levels' = [j \in Key |-> Looked(j)']
    BY DEF Levels
  <2> QED
    BY <2>1, <1>3, <1>4, <1>5 DEF Levels
<1> QED
  BY <1>3, <1>6, <1>7 DEF TB!Request

\* A sweep drops full buckets, whose level is that of a key without one.
LEMMA SweepStep ==
    ASSUME LimiterTypeOK, Sweep
    PROVE  Levels' = Levels /\ result' = result
<1>1. ASSUME NEW k \in Key PROVE Looked(k)' = Looked(k)
  BY LimiterAssumption DEF LimiterTypeOK, Sweep, Looked, Refilled, Bucket
<1> QED
  BY <1>1 DEF Levels, Sweep

\* A tick is a token for every bucket that is not full.
LEMMA TickStep == ASSUME LimiterTypeOK, TimePasses PROVE TB!Refill
<1>1. ASSUME NEW k \in Key
      PROVE  Looked(k)' = IF Looked(k) < Burst THEN Looked(k) + 1 ELSE Burst
  BY LimiterAssumption DEF LimiterTypeOK, TimePasses, Looked, Refilled, Bucket
<1> QED
  BY <1>1 DEF Levels, TimePasses, TB!Refill

\* The limiter of the server, which has buckets only for keys that are in use,
\* grants and refuses exactly what one with a bucket for every key does, for any
\* keys, burst and requests (AllowN, sweep).
THEOREM GrantsRight == LimiterSpec => GrantsAsPromised
<1>1. LimiterInit => TB!BucketsInit
  BY DEF LimiterInit, TB!BucketsInit, Levels, Looked, NoResult, TB!NoRequest
<1>2. LimiterTypeOK /\ [LimiterNext]_limiterVars => [TB!BucketsNext]_(TB!bucketVars)
  <2> SUFFICES ASSUME LimiterTypeOK, [LimiterNext]_limiterVars
               PROVE  [TB!BucketsNext]_(TB!bucketVars)
    OBVIOUS
  <2>1. ASSUME NEW k \in Key, NEW n \in Want, AllowN(k, n) PROVE TB!BucketsNext
    BY <2>1, RequestStep DEF TB!BucketsNext
  <2>2. CASE Sweep
    BY <2>2, SweepStep DEF TB!bucketVars
  <2>3. CASE TimePasses
    BY <2>3, TickStep DEF TB!BucketsNext
  <2>4. CASE UNCHANGED limiterVars
    BY <2>4 DEF limiterVars, TB!bucketVars, Levels, Looked, Refilled
  <2> QED
    BY <2>1, <2>2, <2>3, <2>4 DEF LimiterNext
<1> QED
  BY <1>1, <1>2, LimiterTypes, PTL DEF LimiterSpec, GrantsAsPromised, TB!BucketsSpec
=============================================================================
