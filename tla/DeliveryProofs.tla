--------------------------- MODULE DeliveryProofs ---------------------------
(* Proofs about Delivery, for every value of its constants.                 *)
EXTENDS Delivery, TLAPS

-----------------------------------------------------------------------------
(* Lemmas about the sequences MessageChan and the history are.             *)

\* Recording moves the head of MessageChan to the end of the history.
LEMMA RangeAppend ==
    ASSUME NEW S, NEW s \in Seq(S), NEW x \in S
    PROVE  /\ Append(s, x) \in Seq(S)
           /\ Len(Append(s, x)) = Len(s) + 1
           /\ Range(Append(s, x)) = Range(s) \union {x}
  <1>1. /\ Append(s, x) \in Seq(S)
        /\ Len(Append(s, x)) = Len(s) + 1
        /\ DOMAIN s = 1..Len(s) /\ DOMAIN Append(s, x) = 1..(Len(s) + 1)
        /\ \A i \in 1..Len(s) : Append(s, x)[i] = s[i]
        /\ Append(s, x)[Len(s) + 1] = x
    OBVIOUS
  <1>2. Len(s) \in Nat OBVIOUS
  <1>3. 1..(Len(s) + 1) = 1..Len(s) \union {Len(s) + 1} BY <1>2
  <1>4. Range(Append(s, x)) \subseteq Range(s) \union {x}
    BY <1>1, <1>3 DEF Range
  <1>5. ASSUME NEW i \in 1..Len(s) PROVE s[i] \in Range(Append(s, x))
    <2>1. i \in DOMAIN Append(s, x) /\ s[i] = Append(s, x)[i] BY <1>1, <1>3
    <2> QED BY <2>1 DEF Range
  <1>6. x \in Range(Append(s, x))
    <2>1. Len(s) + 1 \in DOMAIN Append(s, x) BY <1>1, <1>3
    <2> QED BY <1>1, <2>1 DEF Range
  <1> QED BY <1>1, <1>4, <1>5, <1>6 DEF Range

LEMMA RangeTail ==
    ASSUME NEW S, NEW s \in Seq(S), s # <<>>
    PROVE  /\ Head(s) \in S
           /\ Tail(s) \in Seq(S)
           /\ Len(Tail(s)) = Len(s) - 1
           /\ Range(s) \subseteq Range(Tail(s)) \union {Head(s)}
  <1>1. /\ Head(s) \in S /\ Tail(s) \in Seq(S)
        /\ Len(s) \in Nat /\ Len(s) # 0
        /\ Len(Tail(s)) = Len(s) - 1
        /\ DOMAIN s = 1..Len(s) /\ DOMAIN Tail(s) = 1..(Len(s) - 1)
        /\ \A i \in 1..(Len(s) - 1) : Tail(s)[i] = s[i + 1]
        /\ Head(s) = s[1]
    OBVIOUS
  <1>2. ASSUME NEW i \in 1..Len(s) PROVE s[i] = Head(s) \/ s[i] \in Range(Tail(s))
    <2>1. CASE i = 1 BY <2>1, <1>1
    <2>2. CASE i # 1
      <3>1. i - 1 \in 1..(Len(s) - 1) /\ s[i] = Tail(s)[i - 1] BY <2>2, <1>1
      <3> QED BY <3>1, <1>1 DEF Range
    <2> QED BY <2>1, <2>2
  <1> QED BY <1>1, <1>2 DEF Range

-----------------------------------------------------------------------------
(* Type correctness.                                                       *)

\* A group of variables an action leaves alone keeps its types.
LEMMA TypesKept ==
    /\ TxTypes /\ UNCHANGED txVars => TxTypes'
    /\ NetTypes /\ UNCHANGED netVars => NetTypes'
    /\ BoxTypes /\ UNCHANGED boxVars => BoxTypes'
    /\ MailTypes /\ UNCHANGED mailVars => MailTypes'
    /\ RxTypes /\ UNCHANGED rxVars => RxTypes'
    /\ AuxTypes /\ UNCHANGED auxVars => AuxTypes'
  BY DEF TxTypes, NetTypes, BoxTypes, MailTypes, RxTypes, AuxTypes,
         txVars, netVars, boxVars, mailVars, rxVars, auxVars

\* MessageChan takes a message within its capacity.
LEMMA EnqueuedTypes ==
    ASSUME RxTypes, NEW m \in Msg, Enqueued(m)
    PROVE  /\ chan' \in Seq(Msg) /\ Len(chan') <= ChanCap
           /\ Range(chan') = Range(chan) \union {m}
  <1>1. /\ Append(chan, m) \in Seq(Msg)
        /\ Len(Append(chan, m)) = Len(chan) + 1
        /\ Range(Append(chan, m)) = Range(chan) \union {m}
    BY RangeAppend DEF RxTypes
  <1>2. chan' = Append(chan, m) /\ Len(chan) < ChanCap BY DEF Enqueued
  <1>3. Len(chan) \in Nat BY DEF RxTypes
  <1> QED BY <1>1, <1>2, <1>3, ConstantsAssumption

\* The server's own steps touch only what it keeps, and the calls whose key it
\* replaces.
LEMMA ServerQuiet ==
    ASSUME ServerStep
    PROVE  /\ UNCHANGED <<told, outbox, items, pass, age, copies, netVars, mailVars, rxVars, auxVars>>
           /\ \/ UNCHANGED call
              \/ call' = [m \in Msg |-> IF call[m] = "deposit" THEN "stale" ELSE call[m]]
           /\ \/ \E ls \in SUBSET letters : LetGo(ls) /\ (~box' \/ \E l \in Letter : ls = {l} /\ LetterExpires(l))
              \/ UNCHANGED <<letters, lapsed>>
  <1>1. ASSUME NEW l \in Letter, LetterExpires(l)
        PROVE  /\ UNCHANGED <<told, outbox, items, pass, age, copies, netVars, mailVars, rxVars, auxVars, call>>
               /\ {l} \in SUBSET letters /\ LetGo({l})
    BY <1>1 DEF LetterExpires, txVars
  <1>2. ASSUME MailboxOff
        PROVE  /\ UNCHANGED <<told, outbox, items, pass, age, copies, netVars, mailVars, rxVars, auxVars, call>>
               /\ letters \in SUBSET letters /\ LetGo(letters) /\ ~box'
    BY <1>2 DEF MailboxOff, txVars
  <1>3. CASE MailboxOn \/ Moves BY <1>3 DEF MailboxOn, Moves, txVars
  <1> QED BY <1>1, <1>2, <1>3 DEF ServerStep

LEMMA TypeInit == Init => TypeOK
  BY ConstantsAssumption
     DEF Init, TypeOK, TxTypes, NetTypes, BoxTypes, MailTypes, RxTypes, AuxTypes, Told, Call, Fate

\* Every action keeps the types.
LEMMA TypeStep == TypeOK /\ [Next]_vars => TypeOK'
  <1> SUFFICES ASSUME TypeOK, [Next]_vars PROVE TypeOK'
    OBVIOUS
  <1>k. /\ UNCHANGED txVars => TxTypes'
        /\ UNCHANGED netVars => NetTypes'
        /\ UNCHANGED boxVars => BoxTypes'
        /\ UNCHANGED mailVars => MailTypes'
        /\ UNCHANGED rxVars => RxTypes'
        /\ UNCHANGED auxVars => AuxTypes'
        /\ UNCHANGED faults => (faults \in 0..MaxFaults)'
    BY TypesKept DEF TypeOK
  <1>1. ASSUME NEW m \in Msg, SendStart(m) PROVE TypeOK'
    <2>1. TxTypes' BY <1>1 DEF TypeOK, SendStart, Goto, TxTypes, Told, Call
    <2> QED BY <2>1, <1>1, <1>k DEF TypeOK, SendStart, Goto
  <1>2. ASSUME NEW m \in Msg, Attempt(m) PROVE TypeOK'
    <2>1. TxTypes' BY <1>2 DEF TypeOK, Attempt, Goto, TxTypes, Told, Call
    <2>2. NetTypes' BY <1>2, ConstantsAssumption DEF TypeOK, Attempt, NetTypes, Fate, Stream
    <2> QED BY <2>1, <2>2, <1>2, <1>k DEF TypeOK, Attempt, Goto
  <1>3. ASSUME NEW m \in Msg, Reply(m) PROVE TypeOK'
    <2>1. TxTypes' BY <1>3 DEF TypeOK, Reply, Goto, TxTypes, Told, Call
    <2>2. NetTypes' BY <1>3, ConstantsAssumption DEF TypeOK, Reply, Cancelled, Answer, NetTypes, Fate, Stream
    <2> QED BY <2>1, <2>2, <1>3, <1>k DEF TypeOK, Reply, Answer, Cancelled, Goto
  <1>4. ASSUME NEW m \in Msg, AttemptFails(m) PROVE TypeOK'
    <2>1. TxTypes' BY <1>4 DEF TypeOK, AttemptFails, Goto, TxTypes, Told, Call
    <2>2. NetTypes' BY <1>4, ConstantsAssumption DEF TypeOK, AttemptFails, Cancelled, Answer, NetTypes, Fate, Stream
    <2> QED BY <2>1, <2>2, <1>4, <1>k DEF TypeOK, AttemptFails, Answer, Cancelled, Goto
  <1>5. ASSUME NEW m \in Msg, DeliverFails(m) PROVE TypeOK'
    <2>1. TxTypes' BY <1>5 DEF TypeOK, DeliverFails, Goto, TxTypes, Told, Call
    <2> QED BY <2>1, <1>5, <1>k DEF TypeOK, DeliverFails, Goto
  <1>6. ASSUME NEW m \in Msg, DeliverRefuses(m) PROVE TypeOK'
    <2>1. TxTypes' BY <1>6 DEF TypeOK, DeliverRefuses, Goto, TxTypes, Told, Call
    <2> QED BY <2>1, <1>6, <1>k DEF TypeOK, DeliverRefuses, Goto
  <1>7. ASSUME NEW m \in Msg, Delivered(m) PROVE TypeOK'
    <2>1. TxTypes' BY <1>7 DEF TypeOK, Delivered, Settle, TxTypes, Told, Call
    <2> QED BY <2>1, <1>7, <1>k DEF TypeOK, Delivered, Settle
  <1>8. ASSUME NEW m \in Msg, GiveUp(m) PROVE TypeOK'
    <2>1. TxTypes' BY <1>8 DEF TypeOK, GiveUp, Settle, TxTypes, Told, Call
    <2> QED BY <2>1, <1>8, <1>k DEF TypeOK, GiveUp, Settle
  <1>9. ASSUME NEW m \in Msg, Mailed(m) PROVE TypeOK'
    <2>1. TxTypes' BY <1>9 DEF TypeOK, Mailed, Settle, TxTypes, Told, Call
    <2> QED BY <2>1, <1>9, <1>k DEF TypeOK, Mailed, Settle
  <1>10. ASSUME NEW m \in Msg, Deposit(m) PROVE TypeOK'
    <2>1. TxTypes' BY <1>10 DEF TypeOK, Deposit, TxTypes, Told, Call
    <2> QED BY <2>1, <1>10, <1>k DEF TypeOK, Deposit
  <1>11. ASSUME NEW m \in Msg, MailboxPut(m) PROVE TypeOK'
    <2>1. TxTypes' BY <1>11 DEF TypeOK, MailboxPut, TxTypes, Told, Call
    <2>2. BoxTypes'
      <3>1. <<m, copies[m] + 1>> \in Letter /\ copies[m] + 1 \in 0..MaxCopies
        BY <1>11, ConstantsAssumption DEF TypeOK, MailboxPut, BoxTypes, Letter
      <3> QED BY <1>11, <3>1 DEF TypeOK, MailboxPut, BoxTypes
    <2> QED BY <2>1, <2>2, <1>11, <1>k DEF TypeOK, MailboxPut
  <1>12. ASSUME NEW m \in Msg, DepositFails(m) PROVE TypeOK'
    <2>1. TxTypes' BY <1>12 DEF TypeOK, DepositFails, TxTypes, Told, Call
    <2> QED BY <2>1, <1>12, <1>k DEF TypeOK, DepositFails
  <1>13. ASSUME NEW m \in Msg, Keep(m) PROVE TypeOK'
    <2>1. TxTypes' BY <1>13 DEF TypeOK, Keep, TxTypes, Told, Call
    <2> QED BY <2>1, <1>13, <1>k DEF TypeOK, Keep
  <1>14. ASSUME FlushStart PROVE TypeOK'
    <2>1. TxTypes' BY <1>14 DEF TypeOK, FlushStart, TxTypes, Told, Call
    <2> QED BY <2>1, <1>14, <1>k DEF TypeOK, FlushStart
  <1>15. ASSUME NEW m \in Msg, FlushExpired(m) PROVE TypeOK'
    <2>1. TxTypes' BY <1>15 DEF TypeOK, FlushExpired, Settle, TxTypes, Told, Call
    <2> QED BY <2>1, <1>15, <1>k DEF TypeOK, FlushExpired, Settle
  <1>16. ASSUME NEW m \in Msg, FlushDeliver(m) PROVE TypeOK'
    <2>1. TxTypes' BY <1>16 DEF TypeOK, FlushDeliver, Goto, TxTypes, Told, Call
    <2> QED BY <2>1, <1>16, <1>k DEF TypeOK, FlushDeliver, Goto
  <1>17. ASSUME NEW m \in Msg, FlushMail(m) PROVE TypeOK'
    <2>1. TxTypes' BY <1>17 DEF TypeOK, FlushMail, Goto, TxTypes, Told, Call
    <2> QED BY <2>1, <1>17, <1>k DEF TypeOK, FlushMail, Goto
  <1>18. ASSUME NEW m \in Msg, FlushWait(m) PROVE TypeOK'
    <2>1. TxTypes' BY <1>18 DEF TypeOK, FlushWait, TxTypes, Told, Call
    <2> QED BY <2>1, <1>18, <1>k DEF TypeOK, FlushWait
  <1>19. ASSUME NEW m \in Msg, Grow(m) PROVE TypeOK'
    <2>1. TxTypes' BY <1>19 DEF TypeOK, Grow, TxTypes, Told, Call
    <2> QED BY <2>1, <1>19, <1>k DEF TypeOK, Grow
  <1>20. ASSUME NEW s \in Stream, StreamArrives(s) PROVE TypeOK'
    <2>1. NetTypes' BY <1>20, ConstantsAssumption DEF TypeOK, StreamArrives, Answered, NetTypes, Fate, Stream
    <2>2. RxTypes' BY <1>20, ConstantsAssumption DEF TypeOK, StreamArrives, MsgOf, Stream, Mark, RxTypes
    <2>3. AuxTypes' BY <1>20 DEF TypeOK, StreamArrives, MsgOf, Stream, RxTypes, Mark, AckDuplicate, AuxTypes
    <2> QED BY <2>1, <2>2, <2>3, <1>20, <1>k DEF TypeOK, StreamArrives, AckDuplicate, Answered, Mark, MsgOf, RxTypes, Stream
  <1>21. ASSUME NEW s \in Stream, StreamHandsOver(s) PROVE TypeOK'
    <2>1. NetTypes' BY <1>21, ConstantsAssumption DEF TypeOK, StreamHandsOver, Answered, NetTypes, Fate, Stream
    <2>m. MsgOf(s) \in Msg BY DEF MsgOf, Stream
    <2>2. RxTypes'
      <3>1. /\ seen' \subseteq seen
            /\ UNCHANGED <<proc, history, refused>>
            /\ Enqueued(MsgOf(s)) \/ UNCHANGED chan
        BY <1>21 DEF StreamHandsOver, Unmark
      <3> QED BY <3>1, <2>m, EnqueuedTypes DEF TypeOK, RxTypes
    <2>3. AuxTypes' BY <1>21 DEF TypeOK, StreamHandsOver, Enqueued, AuxTypes
    <2> QED BY <2>1, <2>2, <2>3, <1>21, <1>k DEF TypeOK, StreamHandsOver, Answered, Enqueued, MsgOf, Stream, Unmark
  <1>22. ASSUME Record PROVE TypeOK'
    <2>1. RxTypes' BY <1>22, ConstantsAssumption, RangeTail DEF TypeOK, Record, RxTypes
    <2> QED BY <2>1, <1>22, <1>k DEF TypeOK, Record
  <1>23. ASSUME MailboxFetch PROVE TypeOK'
    <2>1. MailTypes' BY <1>23 DEF TypeOK, MailboxFetch, BoxTypes, MailTypes
    <2> QED BY <2>1, <1>23, <1>k DEF TypeOK, MailboxFetch, BoxTypes
  <1>24. ASSUME NEW l \in Letter, OpenLetter(l) PROVE TypeOK'
    <2>1. MailTypes' BY <1>24 DEF TypeOK, OpenLetter, MailTypes
    <2>2. RxTypes' BY <1>24, ConstantsAssumption DEF TypeOK, OpenLetter, MsgOf, Letter, Mark, RxTypes
    <2>3. AuxTypes' BY <1>24 DEF TypeOK, OpenLetter, MsgOf, Letter, RxTypes, Mark, AckDuplicate, AuxTypes
    <2> QED BY <2>1, <2>2, <2>3, <1>24, <1>k DEF TypeOK, OpenLetter, AckDuplicate, Letter, Mark, MsgOf, RxTypes
  <1>25. ASSUME NEW l \in Letter, DeliverLetter(l) PROVE TypeOK'
    <2>1. MailTypes' BY <1>25 DEF TypeOK, DeliverLetter, MailTypes
    <2>m. MsgOf(l) \in Msg BY DEF MsgOf, Letter
    <2>2. RxTypes'
      <3>1. /\ seen' \subseteq seen
            /\ UNCHANGED <<proc, history, refused>>
            /\ Enqueued(MsgOf(l)) \/ UNCHANGED chan
        BY <1>25 DEF DeliverLetter, Unmark
      <3> QED BY <3>1, <2>m, EnqueuedTypes DEF TypeOK, RxTypes
    <2>3. AuxTypes' BY <1>25 DEF TypeOK, DeliverLetter, Enqueued, AuxTypes
    <2> QED BY <2>1, <2>2, <2>3, <1>25, <1>k DEF TypeOK, DeliverLetter, Enqueued, Letter, MsgOf, Unmark
  <1>26. ASSUME MailboxAck PROVE TypeOK'
    <2>1. BoxTypes' BY <1>26, ConstantsAssumption DEF TypeOK, MailboxAck, BoxTypes, Letter
    <2>2. MailTypes' BY <1>26 DEF TypeOK, MailboxAck, MailTypes
    <2>3. (faults \in 0..MaxFaults)' BY <1>26, ConstantsAssumption DEF TypeOK, MailboxAck
    <2> QED BY <2>1, <2>2, <2>3, <1>26, <1>k DEF TypeOK, MailboxAck
  <1>27. ASSUME NEW m \in Msg, MarkExpires(m) PROVE TypeOK'
    <2>1. TxTypes' BY <1>27 DEF TypeOK, MarkExpires, TxTypes, Told, Call
    <2>2. NetTypes' BY <1>27, ConstantsAssumption DEF TypeOK, MarkExpires, NetTypes, Fate, Stream
    <2>3. RxTypes' BY <1>27, ConstantsAssumption DEF TypeOK, MarkExpires, RxTypes
    <2>4. AuxTypes' BY <1>27 DEF TypeOK, MarkExpires, AuxTypes
    <2>5. (faults \in 0..MaxFaults)' BY <1>27, ConstantsAssumption DEF TypeOK, MarkExpires
    <2> QED BY <2>1, <2>2, <2>3, <2>4, <2>5, <1>27, <1>k DEF TypeOK, MarkExpires
  <1>28. ASSUME NEW kind \in {"node", "oneshot"}, Start(kind) PROVE TypeOK'
    <2>1. RxTypes' BY <1>28, ConstantsAssumption DEF TypeOK, Start, RxTypes
    <2>2. (faults \in 0..MaxFaults)' BY <1>28, ConstantsAssumption DEF TypeOK, Start
    <2> QED BY <2>1, <2>2, <1>28, <1>k DEF TypeOK, Start
  <1>29. ASSUME Stop PROVE TypeOK'
    <2>1. NetTypes' BY <1>29, ConstantsAssumption DEF TypeOK, Stop, NetTypes, Fate, Stream
    <2>2. MailTypes' BY <1>29 DEF TypeOK, Stop, MemoryLost, MailTypes
    <2>3. RxTypes' BY <1>29, ConstantsAssumption DEF TypeOK, Stop, MemoryLost, RxTypes
    <2>4. AuxTypes' BY <1>29 DEF TypeOK, Stop, RxTypes, Range, AuxTypes
    <2>5. (faults \in 0..MaxFaults)' BY <1>29, ConstantsAssumption DEF TypeOK, Stop
    <2> QED BY <2>1, <2>2, <2>3, <2>4, <2>5, <1>29, <1>k DEF TypeOK, Stop, MemoryLost, Range, RxTypes
  <1>30. ASSUME SenderRestart PROVE TypeOK'
    <2>1. TxTypes' BY <1>30 DEF TypeOK, SenderRestart, TxTypes, Told, Call
    <2>2. NetTypes' BY <1>30, ConstantsAssumption DEF TypeOK, SenderRestart, Answer, NetTypes, Fate, Stream
    <2>3. (faults \in 0..MaxFaults)' BY <1>30, ConstantsAssumption DEF TypeOK, SenderRestart
    <2> QED BY <2>1, <2>2, <2>3, <1>30, <1>k DEF TypeOK, SenderRestart, Answer
  <1>31. CASE UNCHANGED vars BY <1>31, <1>k DEF vars, TypeOK
  <1>32. ASSUME ServerStep PROVE TypeOK'
    <2>1. TxTypes' BY <1>32, ServerQuiet DEF TypeOK, TxTypes, Call
    <2>2. BoxTypes'
      BY <1>32 DEF ServerStep, LetterExpires, MailboxOff, MailboxOn, Moves, LetGo, TypeOK, BoxTypes
    <2>3. (faults \in 0..MaxFaults)'
      <3>1. ASSUME NEW l \in Letter, LetterExpires(l) PROVE (faults \in 0..MaxFaults)'
        <4>1. CASE Fetchable(l) BY <3>1, <4>1, ConstantsAssumption DEF LetterExpires, TypeOK
        <4>2. CASE ~Fetchable(l) BY <3>1, <4>2 DEF LetterExpires, TypeOK
        <4> QED BY <4>1, <4>2
      <3>2. CASE MailboxOff \/ MailboxOn \/ Moves
        BY <3>2, ConstantsAssumption DEF MailboxOff, MailboxOn, Moves, TypeOK
      <3> QED BY <1>32, <3>1, <3>2 DEF ServerStep
    <2> QED BY <2>1, <2>2, <2>3, <1>32, <1>k, ServerQuiet DEF TypeOK
  <1> QED
    BY <1>1, <1>2, <1>3, <1>4, <1>5, <1>6, <1>7, <1>8, <1>9, <1>10, <1>11, <1>12, <1>13, <1>14, <1>15, <1>16, <1>17, <1>18, <1>19, <1>20, <1>21, <1>22, <1>23, <1>24, <1>25, <1>26, <1>27, <1>28, <1>29, <1>30, <1>31, <1>32
       DEF Next, SenderStep, FlushStep, StreamStep, MailStep

\* The variables keep their types.
THEOREM TypeCorrect == Spec => []TypeOK
  <1> QED BY TypeInit, TypeStep, PTL DEF Spec

-----------------------------------------------------------------------------
(* No silent loss.                                                         *)
(*                                                                         *)
(* The property is not inductive: it says nothing of the mark that lets a  *)
(* duplicate be acknowledged, of an answer on its way to the sender, of a  *)
(* letter about to be acknowledged, or of a call that has its answer and   *)
(* has not reported it.  IInv follows a message through all of them.       *)

\* A stream that was never opened carries nothing.
Unopened == \A s \in Stream : s[2] > tried[s[1]] => stream[s] = "unused"

\* A mark stands for a message that was taken or is being handed over.
SeenTaken == \A m \in seen : Taken(m) \/ Held(m)

\* An acknowledgement on its way is for a message that was taken.
AcksTaken == \A s \in Stream : stream[s] = "ack" => Taken(MsgOf(s))

\* A letter to be acknowledged was taken or refused.
DoneTaken == \A l \in done : Taken(MsgOf(l)) \/ MsgOf(l) \in refused

\* A call that waits has opened a stream to wait on.
AwaitsStream == \A m \in Msg : call[m] = "await" => tried[m] # 0

\* A call that has its answer has a good reason for it.
CallsTaken ==
    \A m \in Msg : /\ call[m] = "acked" => Taken(m)
                   /\ call[m] = "mailed" => Kept(m)

IInv ==
    /\ TypeOK /\ Unopened /\ AwaitsStream
    /\ SeenTaken /\ AcksTaken /\ DoneTaken /\ CallsTaken
    /\ NoSilentLoss

\* The sender's actions leave the receiver's variables alone.
LEMMA SenderQuiet ==
    ASSUME NEW m \in Msg, SendStart(m) \/ SenderStep(m) \/ FlushStep(m) \/ Grow(m)
    PROVE  UNCHANGED <<mailVars, rxVars, auxVars>>
  <1>1. ASSUME SendStart(m) \/ Grow(m) PROVE UNCHANGED <<mailVars, rxVars, auxVars>>
    BY <1>1 DEF SendStart, Grow
  <1>2. ASSUME FlushStep(m) PROVE UNCHANGED <<mailVars, rxVars, auxVars>>
    BY <1>2 DEF FlushStep, FlushExpired, FlushDeliver, FlushMail, FlushWait, Settle
  <1>3. ASSUME SenderStep(m) PROVE UNCHANGED <<mailVars, rxVars, auxVars>>
    BY <1>3 DEF SenderStep, Attempt, Reply, AttemptFails, DeliverFails, DeliverRefuses, Delivered,
                GiveUp, Mailed, Settle, Deposit, MailboxPut, DepositFails, Keep
  <1> QED BY <1>1, <1>2, <1>3

\* How a step changes where a taken message is.
LEMMA TakenCases ==
    ASSUME [Next]_vars
    PROVE  \/ UNCHANGED <<chan, history, wiped, early>>
           \/ \E m \in Msg : Enqueued(m) /\ UNCHANGED <<history, wiped>>
           \/ \E m \in Msg : AckDuplicate(m) /\ UNCHANGED <<chan, history, wiped>>
           \/ Record
           \/ Stop
  <1> DEFINE Still == UNCHANGED <<chan, history, wiped, early>>
  <1>1. ASSUME NEW m \in Msg, SendStart(m) \/ SenderStep(m) \/ FlushStep(m) \/ Grow(m) PROVE Still
    BY <1>1, SenderQuiet DEF rxVars, auxVars
  <1>2. ASSUME NEW m \in Msg, MarkExpires(m) PROVE Still
    BY <1>2 DEF MarkExpires
  <1>3. ASSUME FlushStart \/ MailboxFetch \/ MailboxAck \/ SenderRestart \/ UNCHANGED vars PROVE Still
    BY <1>3 DEF FlushStart, MailboxFetch, MailboxAck, SenderRestart, vars, rxVars, auxVars
  <1>4. ASSUME NEW kind \in {"node", "oneshot"}, Start(kind) PROVE Still
    BY <1>4 DEF Start, auxVars
  <1>5. ASSUME NEW s \in Stream, StreamArrives(s)
        PROVE  Still \/ (AckDuplicate(MsgOf(s)) /\ UNCHANGED <<chan, history, wiped>>)
    BY <1>5 DEF StreamArrives
  <1>6. ASSUME NEW l \in Letter, OpenLetter(l)
        PROVE  Still \/ (AckDuplicate(MsgOf(l)) /\ UNCHANGED <<chan, history, wiped>>)
    BY <1>6 DEF OpenLetter
  <1>7. ASSUME NEW s \in Stream, StreamHandsOver(s)
        PROVE  Still \/ (Enqueued(MsgOf(s)) /\ UNCHANGED <<history, wiped>>)
    BY <1>7 DEF StreamHandsOver
  <1>8. ASSUME NEW l \in Letter, DeliverLetter(l)
        PROVE  Still \/ (Enqueued(MsgOf(l)) /\ UNCHANGED <<history, wiped>>)
    BY <1>8 DEF DeliverLetter
  <1>9. /\ \A s \in Stream : MsgOf(s) \in Msg
        /\ \A l \in Letter : MsgOf(l) \in Msg
    BY DEF MsgOf, Stream, Letter
  <1>s. ASSUME ServerStep PROVE Still
    BY <1>s, ServerQuiet DEF rxVars, auxVars
  <1> HIDE DEF Still
  <1>10. \/ Still
         \/ \E m \in Msg : Enqueued(m) /\ UNCHANGED <<history, wiped>>
         \/ \E m \in Msg : AckDuplicate(m) /\ UNCHANGED <<chan, history, wiped>>
         \/ Record
         \/ Stop
    BY <1>1, <1>2, <1>3, <1>4, <1>5, <1>6, <1>7, <1>8, <1>9, <1>s, Zenon DEF Next, StreamStep, MailStep
  <1> QED BY <1>10 DEF Still

\* A message that was taken stays taken.
LEMMA TakenGrows ==
    ASSUME TypeOK, [Next]_vars, NEW m \in Msg, Taken(m)
    PROVE  Taken(m)'
  <1>1. CASE UNCHANGED <<chan, history, wiped, early>>
    BY <1>1 DEF Taken, Arrived
  <1>2. CASE \E k \in Msg : Enqueued(k) /\ UNCHANGED <<history, wiped>>
    <2>1. PICK k \in Msg : Enqueued(k) /\ UNCHANGED <<history, wiped>> BY <1>2
    <2>2. Range(chan') = Range(chan) \union {k} BY <2>1, EnqueuedTypes DEF TypeOK
    <2>3. early' = early \ {k} BY <2>1 DEF Enqueued
    <2> QED BY <2>1, <2>2, <2>3 DEF Taken, Arrived
  <1>3. CASE \E k \in Msg : AckDuplicate(k) /\ UNCHANGED <<chan, history, wiped>>
    BY <1>3 DEF AckDuplicate, Taken, Arrived
  <1>4. CASE Record
    <2>1. /\ chan \in Seq(Msg) /\ chan # <<>> /\ history \in Seq(Msg)
          /\ chan' = Tail(chan) /\ history' = Append(history, Head(chan))
          /\ UNCHANGED <<wiped, early>>
      BY <1>4 DEF Record, TypeOK, RxTypes, auxVars
    <2>2. Head(chan) \in Msg /\ Range(chan) \subseteq Range(chan') \union {Head(chan)}
      BY <2>1, RangeTail
    <2>3. Range(history') = Range(history) \union {Head(chan)}
      BY <2>1, <2>2, RangeAppend
    <2> QED BY <2>1, <2>2, <2>3 DEF Taken, Arrived
  <1>5. CASE Stop
    BY <1>5 DEF Stop, Taken, Arrived
  <1> QED BY <1>1, <1>2, <1>3, <1>4, <1>5, TakenCases

\* The log of refused messages only grows, and letters come by MailboxPut and
\* leave by MailboxAck or at the server's own steps.
LEMMA LettersAndRefused ==
    ASSUME [Next]_vars
    PROVE  /\ refused \subseteq refused'
           /\ \/ letters \ letters' \subseteq done /\ UNCHANGED lapsed
              \/ \E m \in Msg : MailboxPut(m)
              \/ ServerStep
  <1> DEFINE Good == /\ refused \subseteq refused'
                     /\ \/ letters \ letters' \subseteq done /\ UNCHANGED lapsed
                        \/ \E m \in Msg : MailboxPut(m)
                        \/ ServerStep
  <1>1. ASSUME NEW m \in Msg, SendStart(m) \/ SenderStep(m) \/ FlushStep(m) \/ Grow(m) PROVE Good
    <2>1. refused' = refused BY <1>1, SenderQuiet DEF rxVars
    <2>2. CASE SendStart(m) \/ Grow(m) BY <2>1, <2>2 DEF SendStart, Grow, boxVars
    <2>3. CASE FlushStep(m)
      BY <2>1, <2>3 DEF FlushStep, FlushExpired, FlushDeliver, FlushMail, FlushWait, Settle, boxVars
    <2>4. CASE SenderStep(m) /\ ~MailboxPut(m)
      BY <2>1, <2>4 DEF SenderStep, Attempt, Reply, AttemptFails, DeliverFails, DeliverRefuses,
           Delivered, GiveUp, Mailed, Settle, Deposit, DepositFails, Keep, boxVars
    <2>5. CASE MailboxPut(m) BY <2>1, <2>5
    <2> QED BY <1>1, <2>2, <2>3, <2>4, <2>5
  <1>2. ASSUME NEW m \in Msg, MarkExpires(m) PROVE Good
    BY <1>2 DEF MarkExpires, boxVars
  <1>3. ASSUME FlushStart \/ MailboxFetch \/ SenderRestart \/ Stop \/ Record \/ UNCHANGED vars PROVE Good
    BY <1>3 DEF FlushStart, MailboxFetch, SenderRestart, Stop, Record, vars, rxVars, boxVars
  <1>4. ASSUME NEW kind \in {"node", "oneshot"}, Start(kind) PROVE Good
    BY <1>4 DEF Start, boxVars
  <1>5. ASSUME NEW s \in Stream, StreamArrives(s) \/ StreamHandsOver(s) PROVE Good
    BY <1>5 DEF StreamArrives, StreamHandsOver, boxVars
  <1>6. ASSUME NEW l \in Letter, OpenLetter(l) \/ DeliverLetter(l) PROVE Good
    BY <1>6 DEF OpenLetter, DeliverLetter, boxVars
  <1>7. ASSUME MailboxAck PROVE Good
    BY <1>7 DEF MailboxAck, rxVars
  <1>s. ASSUME ServerStep PROVE Good
    BY <1>s, ServerQuiet DEF rxVars
  <1> HIDE DEF Good
  <1>8. Good
    BY <1>1, <1>2, <1>3, <1>4, <1>5, <1>6, <1>7, <1>s, Zenon DEF Next, StreamStep, MailStep
  <1> QED BY <1>8 DEF Good

\* A mailed message stays where it may be.
LEMMA KeptGrows ==
    ASSUME TypeOK, DoneTaken, [Next]_vars, NEW m \in Msg, Kept(m)
    PROVE  Kept(m)'
  <1>1. CASE Taken(m) BY <1>1, TakenGrows DEF Kept
  <1>2. CASE m \in refused BY <1>2, LettersAndRefused DEF Kept
  <1>3. CASE (HasLetter(m) \/ m \in lapsed) /\ \E k \in Msg : MailboxPut(k)
    <2>1. PICK k \in Msg : MailboxPut(k) BY <1>3
    <2>2. letters' = letters \union {<<k, copies[k] + 1>>} /\ lapsed' = lapsed \ {k}
      BY <2>1 DEF MailboxPut
    <2>3. MsgOf(<<k, copies[k] + 1>>) = k BY DEF MsgOf
    <2>4. (HasLetter(m) \/ m = k) => HasLetter(m)' BY <2>2, <2>3 DEF HasLetter
    <2> QED BY <1>3, <2>2, <2>4 DEF Kept
  <1>4. CASE (HasLetter(m) \/ m \in lapsed) /\ ServerStep
    <2>1. CASE UNCHANGED <<letters, lapsed>> BY <1>4, <2>1 DEF HasLetter, Kept
    <2>2. CASE \E ls \in SUBSET letters : LetGo(ls)
      <3>1. PICK ls \in SUBSET letters : LetGo(ls) BY <2>2
      <3>2. CASE m \in lapsed BY <3>1, <3>2 DEF LetGo, Kept
      <3>3. CASE HasLetter(m)
        <4>1. CASE \A l \in letters : MsgOf(l) = m => l \in ls
          BY <3>1, <3>3, <4>1 DEF LetGo, Kept
        <4>2. CASE \E l \in letters : MsgOf(l) = m /\ l \notin ls
          BY <3>1, <4>2 DEF LetGo, HasLetter, Kept
        <4> QED BY <4>1, <4>2
      <3> QED BY <1>4, <3>2, <3>3
    <2> QED BY <1>4, <2>1, <2>2, ServerQuiet
  <1>5. CASE m \in lapsed /\ UNCHANGED lapsed BY <1>5 DEF Kept
  <1>6. CASE HasLetter(m) /\ letters \ letters' \subseteq done
    <2>1. PICK l \in letters : MsgOf(l) = m BY <1>6 DEF HasLetter
    <2>2. CASE l \in letters' BY <2>1, <2>2 DEF HasLetter, Kept
    <2>3. CASE l \notin letters'
      <3>1. l \in done BY <1>6, <2>1, <2>3
      <3>2. Taken(m) \/ m \in refused BY <2>1, <3>1 DEF DoneTaken
      <3> QED BY <3>2, <1>1, <1>2
    <2> QED BY <2>2, <2>3
  <1> QED BY <1>1, <1>2, <1>3, <1>4, <1>5, <1>6, LettersAndRefused DEF Kept

\* What becomes of the streams: only a stream's own goroutine, or the end of
\* the process, takes a copy out of the receiver's hands.
LEMMA StreamCases ==
    ASSUME TypeOK, [Next]_vars
    PROVE  \/ \E m \in Msg : Attempt(m)
           \/ \E s \in Stream : StreamArrives(s) \/ StreamHandsOver(s)
           \/ Stop
           \/ /\ UNCHANGED tried
              /\ \A s \in Stream : \/ stream'[s] = stream[s]
                                   \/ stream'[s] = "unused" /\ stream[s] # "held"
  <1> DEFINE Calm == /\ UNCHANGED tried
                     /\ \A s \in Stream : \/ stream'[s] = stream[s]
                                          \/ stream'[s] = "unused" /\ stream[s] # "held"
  <1>1. ASSUME NEW m \in Msg, SendStart(m) \/ FlushStep(m) \/ Grow(m) PROVE Calm
    BY <1>1 DEF SendStart, Grow, FlushStep, FlushExpired, FlushDeliver, FlushMail, FlushWait, Settle, netVars
  <1>2. ASSUME NEW m \in Msg, SenderStep(m) PROVE Attempt(m) \/ Calm
    <2>1. CASE Reply(m) \/ AttemptFails(m)
      BY <2>1 DEF Reply, AttemptFails, Cancelled, Answer, TypeOK, NetTypes
    <2>2. CASE SenderStep(m) /\ ~Attempt(m) /\ ~Reply(m) /\ ~AttemptFails(m)
      BY <2>2 DEF SenderStep, DeliverFails, DeliverRefuses, Delivered, GiveUp, Mailed, Settle,
                  Deposit, MailboxPut, DepositFails, Keep, netVars
    <2> QED BY <1>2, <2>1, <2>2
  <1>3. ASSUME NEW m \in Msg, MarkExpires(m) PROVE Calm
    BY <1>3 DEF MarkExpires
  <1>4. ASSUME FlushStart \/ MailboxFetch \/ MailboxAck \/ Record \/ UNCHANGED vars PROVE Calm
    BY <1>4 DEF FlushStart, MailboxFetch, MailboxAck, Record, vars, netVars
  <1>5. ASSUME SenderRestart PROVE Calm
    BY <1>5 DEF SenderRestart, Answer
  <1>6. ASSUME NEW l \in Letter, OpenLetter(l) \/ DeliverLetter(l) PROVE Calm
    BY <1>6 DEF OpenLetter, DeliverLetter, netVars
  <1>7. ASSUME NEW kind \in {"node", "oneshot"}, Start(kind) PROVE Calm
    BY <1>7 DEF Start, netVars
  <1>s. ASSUME ServerStep PROVE Calm
    BY <1>s, ServerQuiet DEF netVars
  <1> HIDE DEF Calm
  <1>8. \/ \E m \in Msg : Attempt(m)
        \/ \E s \in Stream : StreamArrives(s) \/ StreamHandsOver(s)
        \/ Stop
        \/ Calm
    BY <1>1, <1>2, <1>3, <1>4, <1>5, <1>6, <1>7, <1>s, Zenon DEF Next, StreamStep, MailStep
  <1> QED BY <1>8 DEF Calm

\* What a step does to the marks and to the letter being handed over.
LEMMA SeenCases ==
    ASSUME [Next]_vars
    PROVE  \/ \E s \in Stream : StreamArrives(s) \/ StreamHandsOver(s)
           \/ \E l \in Letter : OpenLetter(l) \/ DeliverLetter(l)
           \/ Stop
           \/ seen' \subseteq seen /\ UNCHANGED hold
  <1> DEFINE Calm == seen' \subseteq seen /\ UNCHANGED hold
  <1>1. ASSUME NEW m \in Msg, SendStart(m) \/ SenderStep(m) \/ FlushStep(m) \/ Grow(m) PROVE Calm
    BY <1>1, SenderQuiet DEF mailVars, rxVars
  <1>2. ASSUME NEW m \in Msg, MarkExpires(m) PROVE Calm
    BY <1>2 DEF MarkExpires, mailVars
  <1>3. ASSUME FlushStart \/ MailboxFetch \/ MailboxAck \/ Record \/ SenderRestart \/ UNCHANGED vars PROVE Calm
    BY <1>3 DEF FlushStart, MailboxFetch, MailboxAck, Record, SenderRestart, vars, rxVars, mailVars
  <1>4. ASSUME NEW kind \in {"node", "oneshot"}, Start(kind) PROVE Calm
    BY <1>4 DEF Start, mailVars
  <1>s. ASSUME ServerStep PROVE Calm
    BY <1>s, ServerQuiet DEF mailVars, rxVars
  <1> HIDE DEF Calm
  <1>5. \/ \E s \in Stream : StreamArrives(s) \/ StreamHandsOver(s)
        \/ \E l \in Letter : OpenLetter(l) \/ DeliverLetter(l)
        \/ Stop
        \/ Calm
    BY <1>1, <1>2, <1>3, <1>4, <1>s, Zenon DEF Next, StreamStep, MailStep
  <1> QED BY <1>5 DEF Calm

LEMMA UnopenedStep ==
    ASSUME TypeOK, Unopened, [Next]_vars
    PROVE  Unopened'
  <1> USE DEF Unopened, TypeOK, NetTypes, Stream
  <1>1. CASE \E m \in Msg : Attempt(m)
    <2>1. PICK m \in Msg : Attempt(m) BY <1>1
    <2>2. SUFFICES ASSUME NEW m2 \in Msg, NEW k2 \in 1..MaxTries, k2 > tried'[m2]
          PROVE  stream'[<<m2, k2>>] = "unused"
      OBVIOUS
    <2>3. /\ tried' = [tried EXCEPT ![m] = tried[m] + 1]
          /\ stream' = [stream EXCEPT ![<<m, tried[m] + 1>>] = "sent"]
      BY <2>1 DEF Attempt
    <2>4. k2 > tried[m2] /\ <<m2, k2>> # <<m, tried[m] + 1>>
      BY <2>2, <2>3, ConstantsAssumption
    <2>5. stream[<<m2, k2>>] = "unused" BY <2>4
    <2> QED BY <2>3, <2>4, <2>5
  <1>2. CASE \E s \in Stream : StreamArrives(s) \/ StreamHandsOver(s)
    <2>1. PICK s \in Stream : StreamArrives(s) \/ StreamHandsOver(s) BY <1>2
    <2>2. /\ stream[s] \in {"sent", "held"} /\ UNCHANGED tried
          /\ \A t \in Stream : t # s => stream'[t] = stream[t]
      BY <2>1 DEF StreamArrives, StreamHandsOver, Answered
    <2> QED BY <2>2
  <1>3. CASE Stop BY <1>3 DEF Stop
  <1>4. CASE /\ UNCHANGED tried
             /\ \A s \in Stream : \/ stream'[s] = stream[s]
                                  \/ stream'[s] = "unused" /\ stream[s] # "held"
    BY <1>4
  <1> QED BY <1>1, <1>2, <1>3, <1>4, StreamCases

\* An acknowledged duplicate is taken: its mark stands for a copy that was
\* taken before, or for one being handed over, which makes it an early one.
LEMMA DuplicateTaken ==
    ASSUME TypeOK, SeenTaken, [Next]_vars, NEW m \in Msg, m \in seen, AckDuplicate(m)
    PROVE  Taken(m)'
  <1>1. CASE Taken(m) BY <1>1, TakenGrows
  <1>2. CASE Held(m) BY <1>2 DEF AckDuplicate, Taken
  <1> QED BY <1>1, <1>2 DEF SeenTaken

\* A message MessageChan accepts is taken.
LEMMA EnqueuedTaken ==
    ASSUME TypeOK, NEW m \in Msg, Enqueued(m)
    PROVE  Taken(m)'
  BY EnqueuedTypes DEF TypeOK, Taken, Arrived

LEMMA MessagesOf ==
    /\ \A s \in Stream : MsgOf(s) \in Msg
    /\ \A l \in Letter : MsgOf(l) \in Msg
  BY DEF MsgOf, Stream, Letter

\* markSeen adds one mark, or throws the others away and keeps that one.
LEMMA MarkAdds ==
    ASSUME NEW m \in Msg, Mark(m)
    PROVE  seen' \subseteq seen \union {m}
  BY DEF Mark

LEMMA SeenTakenStep ==
    ASSUME TypeOK, Unopened, SeenTaken, [Next]_vars
    PROVE  SeenTaken'
  <1> SUFFICES ASSUME NEW m \in seen', ~Taken(m)' PROVE Held(m)'
    BY DEF SeenTaken
  <1>1. m \in seen => m \in Msg /\ Held(m)
    BY TakenGrows DEF SeenTaken, TypeOK, RxTypes
  <1>2. CASE \E s \in Stream : StreamArrives(s) \/ StreamHandsOver(s)
    <2>1. PICK s \in Stream : StreamArrives(s) \/ StreamHandsOver(s) BY <1>2
    <2>2. /\ MsgOf(s) \in Msg
          /\ UNCHANGED hold
          /\ \A t \in Stream : t # s => stream'[t] = stream[t]
      BY <2>1, MessagesOf DEF StreamArrives, StreamHandsOver, Answered, mailVars, TypeOK, NetTypes
    <2>3. CASE StreamArrives(s)
      <3>1. stream[s] = "sent" BY <2>3 DEF StreamArrives
      <3>2. Held(m) => Held(m)' BY <2>2, <3>1 DEF Held
      <3>3. CASE m \in seen BY <1>1, <3>2, <3>3
      <3>4. CASE m \notin seen
        <4>1. stream' = [stream EXCEPT ![s] = "held"] /\ Mark(MsgOf(s))
          BY <2>3, <3>4 DEF StreamArrives
        <4>2. m = MsgOf(s) BY <2>2, <3>4, <4>1, MarkAdds
        <4> QED BY <4>1, <4>2 DEF Held, TypeOK, NetTypes
      <3> QED BY <3>3, <3>4
    <2>4. CASE StreamHandsOver(s)
      <3>1. m \in seen BY <2>4 DEF StreamHandsOver, Unmark
      <3>2. CASE Enqueued(MsgOf(s))
        <4>1. m # MsgOf(s) BY <2>2, <3>2, EnqueuedTaken
        <4> QED BY <1>1, <2>2, <3>1, <4>1 DEF Held
      <3>3. CASE Unmark(MsgOf(s))
        <4>1. m # MsgOf(s) BY <3>3 DEF Unmark
        <4> QED BY <1>1, <2>2, <3>1, <4>1 DEF Held
      <3> QED BY <2>4, <3>2, <3>3 DEF StreamHandsOver
    <2> QED BY <2>1, <2>3, <2>4
  <1>3. CASE \E l \in Letter : OpenLetter(l) \/ DeliverLetter(l)
    <2>1. PICK l \in Letter : OpenLetter(l) \/ DeliverLetter(l) BY <1>3
    <2>2. MsgOf(l) \in Msg /\ UNCHANGED stream
      BY <2>1, MessagesOf DEF OpenLetter, DeliverLetter, netVars
    <2>3. CASE OpenLetter(l)
      <3>1. hold = {} BY <2>3 DEF OpenLetter
      <3>2. Held(m) => Held(m)' BY <2>2, <3>1 DEF Held
      <3>3. CASE m \in seen BY <1>1, <3>2, <3>3
      <3>4. CASE m \notin seen
        <4>1. hold' = {l} /\ Mark(MsgOf(l))
          BY <2>3, <3>4 DEF OpenLetter
        <4>2. m = MsgOf(l) BY <2>2, <3>4, <4>1, MarkAdds
        <4> QED BY <4>1, <4>2 DEF Held
      <3> QED BY <3>3, <3>4
    <2>4. CASE DeliverLetter(l)
      <3>1. m \in seen BY <2>4 DEF DeliverLetter, Unmark
      <3>2. m # MsgOf(l)
        BY <2>2, <2>4, EnqueuedTaken DEF DeliverLetter, Unmark
      <3> QED BY <1>1, <2>2, <2>4, <3>1, <3>2 DEF Held, DeliverLetter
    <2> QED BY <2>1, <2>3, <2>4
  <1>4. CASE Stop BY <1>4 DEF Stop, MemoryLost
  <1>5. CASE /\ ~Stop
             /\ ~\E s \in Stream : StreamArrives(s) \/ StreamHandsOver(s)
             /\ ~\E l \in Letter : OpenLetter(l) \/ DeliverLetter(l)
    <2>1. seen' \subseteq seen /\ UNCHANGED hold BY <1>5, SeenCases
    <2>2. ASSUME NEW s \in Stream, stream[s] = "held" PROVE stream'[s] = "held"
      <3>1. CASE \E k \in Msg : Attempt(k)
        <4>1. PICK k \in Msg : Attempt(k) BY <3>1
        <4>2. stream' = [stream EXCEPT ![<<k, tried[k] + 1>>] = "sent"] BY <4>1 DEF Attempt
        <4>3. s[2] <= tried[s[1]]
          BY <2>2 DEF Unopened, TypeOK, NetTypes, Stream
        <4>4. s # <<k, tried[k] + 1>>
          BY <4>3 DEF TypeOK, NetTypes, Stream
        <4> QED BY <2>2, <4>2, <4>4 DEF TypeOK, NetTypes
      <3>2. CASE ~\E k \in Msg : Attempt(k)
        BY <1>5, <2>2, <3>2, StreamCases
      <3> QED BY <3>1, <3>2
    <2> QED BY <1>1, <2>1, <2>2 DEF Held
  <1> QED BY <1>2, <1>3, <1>4, <1>5

LEMMA AcksTakenStep ==
    ASSUME TypeOK, SeenTaken, AcksTaken, [Next]_vars
    PROVE  AcksTaken'
  <1> SUFFICES ASSUME NEW s \in Stream, stream'[s] = "ack" PROVE Taken(MsgOf(s))'
    BY DEF AcksTaken
  <1>1. CASE stream[s] = "ack"
    BY <1>1, TakenGrows, MessagesOf DEF AcksTaken
  <1>2. CASE stream[s] # "ack"
    <2>1. CASE \E t \in Stream : StreamArrives(t) \/ StreamHandsOver(t)
      <3>1. PICK t \in Stream : StreamArrives(t) \/ StreamHandsOver(t) BY <2>1
      <3>2. t = s
        BY <1>2, <3>1 DEF StreamArrives, StreamHandsOver, Answered, TypeOK, NetTypes
      <3>3. MsgOf(s) \in Msg BY MessagesOf
      <3>4. CASE StreamArrives(s)
        <4>1. MsgOf(s) \in seen /\ AckDuplicate(MsgOf(s))
          BY <1>2, <3>4 DEF StreamArrives, Answered, TypeOK, NetTypes
        <4> QED BY <3>3, <4>1, DuplicateTaken
      <3>5. CASE StreamHandsOver(s)
        <4>1. Enqueued(MsgOf(s))
          BY <1>2, <3>5 DEF StreamHandsOver, Answered, TypeOK, NetTypes
        <4> QED BY <3>3, <4>1, EnqueuedTaken
      <3> QED BY <3>1, <3>2, <3>4, <3>5
    <2>2. CASE \E k \in Msg : Attempt(k)
      BY <1>2, <2>2 DEF Attempt, TypeOK, NetTypes
    <2>3. CASE Stop BY <1>2, <2>3 DEF Stop
    <2> QED BY <1>2, <2>1, <2>2, <2>3, StreamCases
  <1> QED BY <1>1, <1>2

\* What a step does to the letters that are to be acknowledged.
LEMMA DoneCases ==
    ASSUME [Next]_vars
    PROVE  done' \subseteq done \/ \E l \in Letter : OpenLetter(l) \/ DeliverLetter(l)
  <1> DEFINE Calm == done' \subseteq done
  <1>1. ASSUME NEW m \in Msg, SendStart(m) \/ SenderStep(m) \/ FlushStep(m) \/ Grow(m) PROVE Calm
    BY <1>1, SenderQuiet DEF mailVars
  <1>2. ASSUME NEW m \in Msg, MarkExpires(m) PROVE Calm
    BY <1>2 DEF MarkExpires, mailVars
  <1>3. ASSUME FlushStart \/ MailboxFetch \/ MailboxAck \/ Record \/ SenderRestart \/ UNCHANGED vars PROVE Calm
    BY <1>3 DEF FlushStart, MailboxFetch, MailboxAck, Record, SenderRestart, vars, mailVars
  <1>4. ASSUME NEW kind \in {"node", "oneshot"}, Start(kind) PROVE Calm
    BY <1>4 DEF Start, mailVars
  <1>5. ASSUME Stop PROVE Calm
    BY <1>5 DEF Stop, MemoryLost
  <1>6. ASSUME NEW s \in Stream, StreamArrives(s) \/ StreamHandsOver(s) PROVE Calm
    BY <1>6 DEF StreamArrives, StreamHandsOver, mailVars
  <1>s. ASSUME ServerStep PROVE Calm
    BY <1>s, ServerQuiet DEF mailVars
  <1> HIDE DEF Calm
  <1>7. Calm \/ \E l \in Letter : OpenLetter(l) \/ DeliverLetter(l)
    BY <1>1, <1>2, <1>3, <1>4, <1>5, <1>6, <1>s, Zenon DEF Next, StreamStep, MailStep
  <1> QED BY <1>7 DEF Calm

LEMMA DoneTakenStep ==
    ASSUME TypeOK, SeenTaken, DoneTaken, [Next]_vars
    PROVE  DoneTaken'
  <1> SUFFICES ASSUME NEW l \in done' PROVE Taken(MsgOf(l))' \/ MsgOf(l) \in refused'
    BY DEF DoneTaken
  <1>1. CASE l \in done
    <2>1. MsgOf(l) \in Msg BY <1>1, MessagesOf DEF TypeOK, MailTypes
    <2> QED BY <1>1, <2>1, TakenGrows, LettersAndRefused DEF DoneTaken
  <1>2. CASE l \notin done
    <2>1. PICK k \in Letter : OpenLetter(k) \/ DeliverLetter(k) BY <1>2, DoneCases
    <2>2. k = l BY <1>2, <2>1 DEF OpenLetter, DeliverLetter
    <2>3. MsgOf(l) \in Msg BY <2>2, MessagesOf
    <2>4. CASE OpenLetter(l)
      <3>1. MsgOf(l) \in refused' \/ (MsgOf(l) \in seen /\ AckDuplicate(MsgOf(l)))
        BY <1>2, <2>4 DEF OpenLetter
      <3> QED BY <2>3, <3>1, DuplicateTaken
    <2>5. CASE DeliverLetter(l)
      <3>1. Enqueued(MsgOf(l)) BY <1>2, <2>5 DEF DeliverLetter
      <3> QED BY <2>3, <3>1, EnqueuedTaken
    <2> QED BY <2>1, <2>2, <2>4, <2>5
  <1> QED BY <1>1, <1>2

\* How a call gets to wait for an answer, or to have a good one.
LEMMA CallCases ==
    ASSUME TypeOK, [Next]_vars, NEW m \in Msg
    PROVE  \/ call'[m] = call[m]
           \/ call'[m] \notin {"await", "acked", "mailed"}
           \/ Attempt(m)
           \/ Reply(m) /\ stream[Current(m)] = "ack" /\ call'[m] = "acked"
           \/ MailboxPut(m) /\ call'[m] = "mailed"
  <1> DEFINE Calm == call'[m] = call[m] \/ call'[m] \notin {"await", "acked", "mailed"}
  <1>t. call \in [Msg -> Call] BY DEF TypeOK, TxTypes
  <1>1. ASSUME NEW k \in Msg, SendStart(k) \/ FlushStep(k) \/ Grow(k) PROVE Calm
    BY <1>1, <1>t DEF SendStart, Grow, FlushStep, FlushExpired, FlushDeliver, FlushMail, FlushWait,
                      Settle, Goto
  <1>2. ASSUME NEW k \in Msg, SenderStep(k)
        PROVE  \/ Calm
               \/ Attempt(m)
               \/ Reply(m) /\ stream[Current(m)] = "ack" /\ call'[m] = "acked"
               \/ MailboxPut(m) /\ call'[m] = "mailed"
    <2>1. CASE Attempt(k) BY <2>1, <1>t DEF Attempt, Goto
    <2>2. CASE Reply(k) BY <2>2, <1>t DEF Reply, Goto
    <2>3. CASE MailboxPut(k) BY <2>3, <1>t DEF MailboxPut
    <2>4. CASE AttemptFails(k) \/ DeliverFails(k) \/ DeliverRefuses(k) \/ DepositFails(k)
      BY <2>4, <1>t DEF AttemptFails, DeliverFails, DeliverRefuses, DepositFails, Goto
    <2>5. CASE Delivered(k) \/ GiveUp(k) \/ Mailed(k) \/ Deposit(k) \/ Keep(k)
      BY <2>5, <1>t DEF Delivered, GiveUp, Mailed, Settle, Deposit, Keep
    <2> QED BY <1>2, <2>1, <2>2, <2>3, <2>4, <2>5 DEF SenderStep
  <1>3. ASSUME NEW k \in Msg, MarkExpires(k) PROVE Calm
    BY <1>3 DEF MarkExpires
  <1>4. ASSUME FlushStart \/ MailboxFetch \/ MailboxAck \/ Record \/ Stop \/ SenderRestart \/ UNCHANGED vars
        PROVE  Calm
    BY <1>4 DEF FlushStart, MailboxFetch, MailboxAck, Record, Stop, SenderRestart, vars, txVars
  <1>5. ASSUME NEW kind \in {"node", "oneshot"}, Start(kind) PROVE Calm
    BY <1>5 DEF Start, txVars
  <1>6. ASSUME NEW s \in Stream, StreamArrives(s) \/ StreamHandsOver(s) PROVE Calm
    BY <1>6 DEF StreamArrives, StreamHandsOver, txVars
  <1>7. ASSUME NEW l \in Letter, OpenLetter(l) \/ DeliverLetter(l) PROVE Calm
    BY <1>7 DEF OpenLetter, DeliverLetter, txVars
  <1>s. ASSUME ServerStep PROVE Calm
    BY <1>s, <1>t, ServerQuiet
  <1> HIDE DEF Calm
  <1>8. \/ Calm
        \/ Attempt(m)
        \/ Reply(m) /\ stream[Current(m)] = "ack" /\ call'[m] = "acked"
        \/ MailboxPut(m) /\ call'[m] = "mailed"
    BY <1>1, <1>2, <1>3, <1>4, <1>5, <1>6, <1>7, <1>s, Zenon DEF Next, StreamStep, MailStep
  <1> QED BY <1>8 DEF Calm

LEMMA AwaitsStreamStep ==
    ASSUME TypeOK, AwaitsStream, [Next]_vars
    PROVE  AwaitsStream'
  <1> SUFFICES ASSUME NEW m \in Msg, call'[m] = "await" PROVE tried'[m] # 0
    BY DEF AwaitsStream
  <1>t. tried \in [Msg -> 0..MaxTries] /\ MaxTries \in Nat
    BY ConstantsAssumption DEF TypeOK, NetTypes
  <1>1. ASSUME NEW k \in Msg, Attempt(k) PROVE tried' = [tried EXCEPT ![k] = tried[k] + 1]
    BY <1>1 DEF Attempt
  <1>2. CASE \E k \in Msg : Attempt(k)
    <2>1. PICK k \in Msg : Attempt(k) BY <1>2
    <2>2. CASE k = m BY <1>1, <1>t, <2>1, <2>2
    <2>3. CASE k # m
      <3>1. call[m] = "await"
        BY <2>1, <2>3 DEF Attempt, Goto, TypeOK, TxTypes
      <3> QED BY <1>1, <1>t, <2>1, <2>3, <3>1 DEF AwaitsStream
    <2> QED BY <2>2, <2>3
  <1>3. CASE ~\E k \in Msg : Attempt(k)
    <2>1. UNCHANGED tried
      BY <1>3, StreamCases DEF StreamArrives, StreamHandsOver, Stop
    <2>2. call[m] = "await" BY <1>3, CallCases
    <2> QED BY <2>1, <2>2 DEF AwaitsStream
  <1> QED BY <1>2, <1>3

LEMMA CallsTakenStep ==
    ASSUME TypeOK, AwaitsStream, AcksTaken, DoneTaken, CallsTaken, [Next]_vars
    PROVE  CallsTaken'
  <1> SUFFICES ASSUME NEW m \in Msg
               PROVE  /\ call'[m] = "acked" => Taken(m)'
                      /\ call'[m] = "mailed" => Kept(m)'
    BY DEF CallsTaken
  <1>1. CASE call'[m] = call[m]
    BY <1>1, TakenGrows, KeptGrows DEF CallsTaken
  <1>2. CASE Attempt(m)
    BY <1>2 DEF Attempt, Goto, TypeOK, TxTypes
  <1>3. CASE Reply(m) /\ stream[Current(m)] = "ack" /\ call'[m] = "acked"
    <2>1. tried[m] # 0 BY <1>3 DEF Reply, AwaitsStream
    <2>2. Current(m) \in Stream /\ MsgOf(Current(m)) = m
      BY <2>1, ConstantsAssumption DEF Current, MsgOf, Stream, TypeOK, NetTypes
    <2>3. Taken(m) BY <1>3, <2>2 DEF AcksTaken
    <2> QED BY <1>3, <2>3, TakenGrows
  <1>4. CASE MailboxPut(m) /\ call'[m] = "mailed"
    <2>1. <<m, copies[m] + 1>> \in letters' BY <1>4 DEF MailboxPut
    <2>2. HasLetter(m)' BY <2>1 DEF HasLetter, MsgOf
    <2> QED BY <1>4, <2>2 DEF Kept
  <1> QED BY <1>1, <1>2, <1>3, <1>4, CallCases

\* How a message gets its result.
LEMMA ToldCases ==
    ASSUME TypeOK, [Next]_vars, NEW m \in Msg
    PROVE  \/ told'[m] = told[m] /\ (m \in outbox => m \in outbox')
           \/ told'[m] \in {"sending", "failed"}
           \/ told'[m] = "queued" /\ m \in outbox'
           \/ call[m] = "acked" /\ told'[m] = "delivered"
           \/ call[m] = "mailed" /\ told'[m] = "mailed"
  <1> DEFINE Same == told'[m] = told[m] /\ (m \in outbox => m \in outbox')
             Good == \/ Same
                     \/ told'[m] \in {"sending", "failed"}
                     \/ told'[m] = "queued" /\ m \in outbox'
                     \/ call[m] = "acked" /\ told'[m] = "delivered"
                     \/ call[m] = "mailed" /\ told'[m] = "mailed"
  <1>t. told \in [Msg -> Told] BY DEF TypeOK, TxTypes
  <1>1. ASSUME NEW k \in Msg, SendStart(k) \/ Grow(k) PROVE Good
    BY <1>1, <1>t DEF SendStart, Grow
  <1>2. ASSUME NEW k \in Msg, FlushStep(k) PROVE Good
    BY <1>2, <1>t DEF FlushStep, FlushExpired, FlushDeliver, FlushMail, FlushWait, Settle
  <1>3. ASSUME NEW k \in Msg, SenderStep(k) PROVE Good
    <2>1. CASE Delivered(k) \/ GiveUp(k) \/ Mailed(k)
      BY <2>1, <1>t DEF Delivered, GiveUp, Mailed, Settle
    <2>2. CASE Keep(k) BY <2>2, <1>t DEF Keep
    <2>3. CASE SenderStep(k) /\ ~Delivered(k) /\ ~GiveUp(k) /\ ~Mailed(k) /\ ~Keep(k)
      BY <2>3 DEF SenderStep, Attempt, Reply, AttemptFails, DeliverFails, DeliverRefuses, Deposit,
                  MailboxPut, DepositFails
    <2> QED BY <1>3, <2>1, <2>2, <2>3
  <1>4. ASSUME NEW k \in Msg, MarkExpires(k) PROVE Good
    BY <1>4 DEF MarkExpires
  <1>5. ASSUME FlushStart \/ MailboxFetch \/ MailboxAck \/ Record \/ Stop \/ SenderRestart \/ UNCHANGED vars
        PROVE  Good
    BY <1>5 DEF FlushStart, MailboxFetch, MailboxAck, Record, Stop, SenderRestart, vars, txVars
  <1>6. ASSUME NEW kind \in {"node", "oneshot"}, Start(kind) PROVE Good
    BY <1>6 DEF Start, txVars
  <1>7. ASSUME NEW s \in Stream, StreamArrives(s) \/ StreamHandsOver(s) PROVE Good
    BY <1>7 DEF StreamArrives, StreamHandsOver, txVars
  <1>8. ASSUME NEW l \in Letter, OpenLetter(l) \/ DeliverLetter(l) PROVE Good
    BY <1>8 DEF OpenLetter, DeliverLetter, txVars
  <1>s. ASSUME ServerStep PROVE Good
    BY <1>s, ServerQuiet
  <1> HIDE DEF Good
  <1>9. Good
    BY <1>1, <1>2, <1>3, <1>4, <1>5, <1>6, <1>7, <1>8, <1>s, Zenon DEF Next, StreamStep, MailStep
  <1> QED BY <1>9 DEF Good

LEMMA NoSilentLossStep ==
    ASSUME TypeOK, DoneTaken, CallsTaken, NoSilentLoss, [Next]_vars
    PROVE  NoSilentLoss'
  <1> SUFFICES ASSUME NEW m \in Msg
               PROVE  /\ told'[m] = "delivered" => Taken(m)'
                      /\ told'[m] = "mailed" => Kept(m)'
                      /\ told'[m] = "queued" => m \in outbox'
    BY DEF NoSilentLoss
  <1>1. CASE told'[m] = told[m] /\ (m \in outbox => m \in outbox')
    <2>1. told[m] = "mailed" => Kept(m) BY DEF NoSilentLoss
    <2> QED BY <1>1, <2>1, TakenGrows, KeptGrows DEF NoSilentLoss
  <1>2. CASE call[m] = "acked" /\ told'[m] = "delivered"
    BY <1>2, TakenGrows DEF CallsTaken
  <1>3. CASE call[m] = "mailed" /\ told'[m] = "mailed"
    BY <1>3, KeptGrows DEF CallsTaken
  <1> QED BY <1>1, <1>2, <1>3, ToldCases

LEMMA IInvInit == Init => IInv
  BY TypeInit DEF Init, IInv, Unopened, AwaitsStream, SeenTaken, AcksTaken, DoneTaken, CallsTaken,
                  NoSilentLoss

LEMMA IInvStep == IInv /\ [Next]_vars => IInv'
  BY TypeStep, UnopenedStep, AwaitsStreamStep, SeenTakenStep, AcksTakenStep, DoneTakenStep,
     CallsTakenStep, NoSilentLossStep DEF IInv

\* What the sender's user is told of a message is true: unless it went missing
\* in one of the two ways Taken names, or, if it was mailed, the server let its
\* last letter go, it is with the receiver, in its mailbox or in the outbox
\* (send and flushOutbox against handleStream, fetchMail and the server).
THEOREM NothingLostSilently == Spec => []NoSilentLoss
  <1>1. IInv => NoSilentLoss BY DEF IInv
  <1> QED BY <1>1, IInvInit, IInvStep, PTL DEF Spec

\* A letter leaves the server only once the receiver took its message or logged
\* that it refused it (fetchMail acknowledges after openLetter), unless it is too
\* old or the receiver's whole mailbox goes (Expire and Remove).
THEOREM DeletedOnceTaken == Spec => LetterDeletedOnceTaken
  <1> DEFINE Step == \A l \in letters \ letters' :
                        Taken(MsgOf(l)) \/ MsgOf(l) \in refused \/ LetterExpires(l) \/ ~box'
  <1>1. IInv /\ [Next]_vars => [Step]_vars
    <2> SUFFICES ASSUME IInv, [Next]_vars PROVE Step
      OBVIOUS
    <2>1. CASE letters \ letters' \subseteq done BY <2>1 DEF IInv, DoneTaken
    <2>2. CASE \E m \in Msg : MailboxPut(m) BY <2>2 DEF MailboxPut
    <2>3. CASE ServerStep
      <3>1. CASE UNCHANGED letters BY <3>1
      <3>2. CASE ~box' BY <3>2
      <3>3. CASE \E k \in Letter : LetGo({k}) /\ LetterExpires(k) BY <3>3 DEF LetGo
      <3> QED BY <2>3, <3>1, <3>2, <3>3, ServerQuiet
    <2> QED BY <2>1, <2>2, <2>3, LettersAndRefused
  <1> HIDE DEF Step
  <1>2. Spec => [][Step]_vars BY <1>1, IInvInit, IInvStep, PTL DEF Spec
  <1> QED BY <1>2 DEF Step, LetterDeletedOnceTaken

-----------------------------------------------------------------------------
(* Delivery implements Courier.                                            *)
(*                                                                         *)
(* Courier's results are final, and nothing arrives that was not sent.     *)
(* IInv does not say why; InHand and Unsent do.                            *)

\* A call works on a message whose result is still open, and the outbox holds
\* messages reported queued.
InHand == \A m \in Msg : /\ call[m] # "none" => told[m] \in {"sending", "queued"}
                         /\ m \in outbox => told[m] = "queued"

\* No stream was opened and no letter stored for a message the user has not
\* sent, and a letter anywhere is one that was stored.
Unsent ==
    /\ \A m \in Msg : told[m] = "new" => tried[m] = 0 /\ copies[m] = 0
    /\ \A l \in letters \union batch \union hold : l[2] <= copies[l[1]]

PInv == IInv /\ InHand /\ Unsent

LEMMA PInvInit == Init => PInv
  BY IInvInit, ConstantsAssumption DEF Init, PInv, InHand, Unsent

\* What a step does to the results and the calls they belong to.
LEMMA InHandStep ==
    ASSUME TypeOK, InHand, [Next]_vars
    PROVE  InHand'
  <1> USE DEF InHand
  <1>t. told \in [Msg -> Told] /\ call \in [Msg -> Call] /\ pass \subseteq outbox
    BY DEF TypeOK, TxTypes
  <1>1. ASSUME NEW k \in Msg, SendStart(k) \/ Grow(k) PROVE InHand'
    BY <1>1, <1>t DEF SendStart, Grow, Goto
  <1>2. ASSUME NEW k \in Msg, FlushStep(k) PROVE InHand'
    BY <1>2, <1>t DEF FlushStep, FlushExpired, FlushDeliver, FlushMail, FlushWait, Settle, Goto, Next1
  <1>3. ASSUME NEW k \in Msg, SenderStep(k) PROVE InHand'
    <2>1. CASE Delivered(k) \/ GiveUp(k) \/ Mailed(k)
      BY <2>1, <1>t DEF Delivered, GiveUp, Mailed, Settle
    <2>2. CASE Keep(k) BY <2>2, <1>t DEF Keep
    <2>3. CASE Attempt(k) \/ Reply(k) \/ AttemptFails(k) \/ DeliverFails(k) \/ DeliverRefuses(k)
      BY <2>3, <1>t DEF Attempt, Reply, AttemptFails, DeliverFails, DeliverRefuses, Goto
    <2>4. CASE Deposit(k) \/ MailboxPut(k) \/ DepositFails(k)
      BY <2>4, <1>t DEF Deposit, UseMailbox, MailboxPut, DepositFails, Goto
    <2> QED BY <1>3, <2>1, <2>2, <2>3, <2>4 DEF SenderStep
  <1>4. ASSUME NEW k \in Msg, MarkExpires(k) PROVE InHand'
    BY <1>4 DEF MarkExpires
  <1>5. ASSUME FlushStart \/ MailboxFetch \/ MailboxAck \/ Record \/ Stop \/ SenderRestart \/ UNCHANGED vars
        PROVE  InHand'
    BY <1>5 DEF FlushStart, MailboxFetch, MailboxAck, Record, Stop, SenderRestart, vars, txVars
  <1>6. ASSUME NEW kind \in {"node", "oneshot"}, Start(kind) PROVE InHand'
    BY <1>6 DEF Start, txVars
  <1>7. ASSUME NEW s \in Stream, StreamArrives(s) \/ StreamHandsOver(s) PROVE InHand'
    BY <1>7 DEF StreamArrives, StreamHandsOver, txVars
  <1>8. ASSUME NEW l \in Letter, OpenLetter(l) \/ DeliverLetter(l) PROVE InHand'
    BY <1>8 DEF OpenLetter, DeliverLetter, txVars
  <1>s. ASSUME ServerStep PROVE InHand'
    BY <1>s, <1>t, ServerQuiet
  <1> HIDE DEF InHand
  <1> QED
    BY <1>1, <1>2, <1>3, <1>4, <1>5, <1>6, <1>7, <1>8, <1>s, Zenon DEF Next, StreamStep, MailStep

LEMMA UnsentStep ==
    ASSUME TypeOK, InHand, Unsent, [Next]_vars
    PROVE  Unsent'
  <1> DEFINE Calm == UNCHANGED <<told, tried, copies, letters, batch, hold>>
  <1>t. /\ told \in [Msg -> Told] /\ call \in [Msg -> Call] /\ pass \subseteq outbox
        /\ outbox \subseteq Msg
        /\ tried \in [Msg -> 0..MaxTries] /\ copies \in [Msg -> 0..MaxCopies]
        /\ letters \subseteq Letter /\ batch \subseteq Letter /\ hold \subseteq Letter
        /\ MaxTries \in Nat /\ MaxCopies \in Nat
    BY ConstantsAssumption DEF TypeOK, TxTypes, NetTypes, BoxTypes, MailTypes
  <1>1. ASSUME NEW k \in Msg, SendStart(k) PROVE Unsent'
    BY <1>1, <1>t DEF SendStart, netVars, boxVars, mailVars, Unsent
  <1>2. ASSUME NEW k \in Msg, FlushExpired(k) \/ Delivered(k) \/ GiveUp(k) \/ Mailed(k) PROVE Unsent'
    BY <1>2, <1>t DEF FlushExpired, Delivered, GiveUp, Mailed, Settle, netVars, boxVars, mailVars,
                      Unsent
  <1>3. ASSUME NEW k \in Msg, Keep(k) PROVE Unsent'
    BY <1>3, <1>t DEF Keep, netVars, boxVars, mailVars, Unsent
  <1>4. ASSUME NEW k \in Msg, Attempt(k) PROVE Unsent'
    <2>1. told[k] # "new" BY <1>4, <1>t DEF Attempt, Goto, InHand
    <2>2. /\ UNCHANGED <<told, copies, letters, batch, hold>>
          /\ tried' = [tried EXCEPT ![k] = tried[k] + 1]
      BY <1>4 DEF Attempt, boxVars, mailVars
    <2> QED BY <1>t, <2>1, <2>2 DEF Unsent
  <1>5. ASSUME NEW k \in Msg, MailboxPut(k) PROVE Unsent'
    <2>1. told[k] # "new" BY <1>5, <1>t DEF MailboxPut, InHand
    <2>2. /\ UNCHANGED <<told, tried, batch, hold>>
          /\ copies' = [copies EXCEPT ![k] = copies[k] + 1]
          /\ letters' = letters \union {<<k, copies[k] + 1>>}
      BY <1>5 DEF MailboxPut, netVars, mailVars
    <2>3. ASSUME NEW l \in letters \union batch \union hold PROVE l[2] <= copies'[l[1]]
      <3>1. l[1] \in Msg /\ l[2] \in Nat /\ l[2] <= copies[l[1]]
        BY <1>t DEF Unsent, Letter
      <3> QED BY <1>t, <2>2, <3>1
    <2>4. copies[k] + 1 <= copies'[k] BY <1>t, <2>2
    <2> QED BY <1>t, <2>1, <2>2, <2>3, <2>4 DEF Unsent
  <1>6. ASSUME NEW l \in Letter, OpenLetter(l) \/ DeliverLetter(l) PROVE Unsent'
    BY <1>6 DEF OpenLetter, DeliverLetter, txVars, netVars, boxVars, Unsent
  <1>7. ASSUME MailboxFetch \/ MailboxAck \/ Stop PROVE Unsent'
    BY <1>7 DEF MailboxFetch, MailboxAck, Stop, MemoryLost, txVars, netVars, boxVars, Unsent
  <1>8. ASSUME NEW k \in Msg, Grow(k) \/ MarkExpires(k) \/ (FlushStep(k) /\ ~FlushExpired(k)) PROVE Calm
    BY <1>8 DEF Grow, MarkExpires, FlushStep, FlushDeliver, FlushMail, FlushWait, netVars, boxVars,
                mailVars
  <1>9. ASSUME NEW k \in Msg, \/ Reply(k) \/ AttemptFails(k) \/ DeliverFails(k) \/ DeliverRefuses(k)
                              \/ Deposit(k) \/ DepositFails(k)
        PROVE  Calm
    BY <1>9 DEF Reply, AttemptFails, DeliverFails, DeliverRefuses, Deposit, DepositFails, netVars,
                boxVars, mailVars
  <1>10. ASSUME FlushStart \/ Record \/ SenderRestart \/ UNCHANGED vars PROVE Calm
    BY <1>10 DEF FlushStart, Record, SenderRestart, vars, txVars, netVars, boxVars, mailVars
  <1>11. ASSUME NEW kind \in {"node", "oneshot"}, Start(kind) PROVE Calm
    BY <1>11 DEF Start, txVars, netVars, boxVars, mailVars
  <1>12. ASSUME NEW s \in Stream, StreamArrives(s) \/ StreamHandsOver(s) PROVE Calm
    BY <1>12 DEF StreamArrives, StreamHandsOver, txVars, boxVars, mailVars
  <1>13. Calm => Unsent' BY DEF Unsent
  <1>s. ASSUME ServerStep PROVE Unsent'
    <2>1. letters' \subseteq letters BY <1>s, ServerQuiet DEF LetGo
    <2> QED BY <1>s, <2>1, ServerQuiet DEF netVars, mailVars, Unsent
  <1> HIDE DEF Calm
  <1> QED
    BY <1>1, <1>2, <1>3, <1>4, <1>5, <1>6, <1>7, <1>8, <1>9, <1>10, <1>11, <1>12, <1>13, <1>s, Zenon
    DEF Next, SenderStep, FlushStep, StreamStep, MailStep

LEMMA PInvStep == PInv /\ [Next]_vars => PInv'
  BY IInvStep, InHandStep, UnsentStep DEF PInv, IInv

\* The values Delivery gives to Courier's variables.
Has == {m \in Msg : Taken(m)}
Box == {m \in Msg : HasLetter(m)}

\* A step that moves no message, or takes one.
LEMMA HasChanges ==
    ASSUME TypeOK
    PROVE  /\ UNCHANGED <<chan, history, wiped, early>> => Has' = Has
           /\ \A k \in Msg : Enqueued(k) /\ UNCHANGED <<history, wiped>> => Has' = Has \union {k}
           /\ \A k \in Msg : AckDuplicate(k) /\ UNCHANGED <<chan, history, wiped>>
                               => Has' = Has \/ Has' = Has \union {k}
           /\ Record \/ Stop => Has' = Has
  <1>1. ASSUME UNCHANGED <<chan, history, wiped, early>> PROVE Has' = Has
    BY <1>1 DEF Has, Taken, Arrived
  <1>2. ASSUME NEW k \in Msg, Enqueued(k), UNCHANGED <<history, wiped>>
        PROVE  Has' = Has \union {k}
    <2>1. Range(chan') = Range(chan) \union {k} BY <1>2, EnqueuedTypes DEF TypeOK
    <2>2. early' = early \ {k} BY <1>2 DEF Enqueued
    <2> QED BY <1>2, <2>1, <2>2 DEF Has, Taken, Arrived
  <1>3. ASSUME NEW k \in Msg, AckDuplicate(k), UNCHANGED <<chan, history, wiped>>
        PROVE  Has' = Has \/ Has' = Has \union {k}
    <2>1. early' = early \/ early' = early \union {k} BY <1>3 DEF AckDuplicate
    <2> QED BY <1>3, <2>1 DEF Has, Taken, Arrived
  <1>4. ASSUME Record PROVE Has' = Has
    <2>1. /\ chan \in Seq(Msg) /\ chan # <<>> /\ history \in Seq(Msg)
          /\ chan' = Tail(chan) /\ history' = Append(history, Head(chan))
          /\ UNCHANGED <<wiped, early>>
      BY <1>4 DEF Record, TypeOK, RxTypes, auxVars
    <2>2. Range(history') = Range(history) \union {Head(chan)}
      BY <2>1, RangeTail, RangeAppend
    <2>3. Range(chan) = Range(chan') \union {Head(chan)}
      <3>1. Range(chan) \subseteq Range(chan') \union {Head(chan)} BY <2>1, RangeTail
      <3>2. /\ Len(chan) \in Nat \ {0} /\ DOMAIN chan = 1..Len(chan)
            /\ DOMAIN Tail(chan) = 1..(Len(chan) - 1)
            /\ \A i \in 1..(Len(chan) - 1) : Tail(chan)[i] = chan[i + 1]
            /\ Head(chan) = chan[1]
        BY <2>1
      <3>3. Range(chan') \subseteq Range(chan) BY <2>1, <3>2 DEF Range
      <3>4. Head(chan) \in Range(chan) BY <3>2 DEF Range
      <3> QED BY <3>1, <3>3, <3>4
    <2> QED BY <2>1, <2>2, <2>3 DEF Has, Taken, Arrived
  <1>5. ASSUME Stop PROVE Has' = Has
    <2>1. chan' = <<>> /\ wiped' = wiped \union Range(chan) /\ UNCHANGED <<history, early>>
      BY <1>5 DEF Stop, MemoryLost
    <2>2. Range(<<>>) = {} BY DEF Range
    <2> QED BY <2>1, <2>2 DEF Has, Taken, Arrived
  <1> QED BY <1>1, <1>2, <1>3, <1>4, <1>5

\* Whatever reaches the receiver was sent.
LEMMA ArrivalsSent ==
    ASSUME PInv
    PROVE  /\ \A s \in Stream : stream[s] # "unused" => MsgOf(s) \in Msg /\ told[MsgOf(s)] # "new"
           /\ \A l \in batch \union hold : MsgOf(l) \in Msg /\ told[MsgOf(l)] # "new"
  <1>1. ASSUME NEW s \in Stream, stream[s] # "unused" PROVE tried[s[1]] # 0
    BY <1>1, ConstantsAssumption DEF PInv, IInv, Unopened, TypeOK, NetTypes, Stream
  <1>2. ASSUME NEW l \in batch \union hold PROVE l \in Letter /\ copies[l[1]] # 0
    BY ConstantsAssumption DEF PInv, IInv, Unsent, TypeOK, BoxTypes, MailTypes, Letter
  <1> QED BY <1>1, <1>2, MessagesOf DEF PInv, Unsent, MsgOf, Stream, Letter

\* Every step of Delivery is a step of Courier, or changes nothing it sees.
LEMMA StepKeepsPromise ==
    ASSUME PInv, [Next]_vars
    PROVE  [Promise!Next]_(Promise!vars)
  <1> DEFINE Goal == [Promise!Next]_(Promise!vars)
  <1>t. /\ TypeOK /\ told \in [Msg -> Told] /\ call \in [Msg -> Call] /\ pass \subseteq outbox
        /\ outbox \subseteq Msg
    BY DEF PInv, IInv, TypeOK, TxTypes
  <1>h. /\ UNCHANGED <<chan, history, wiped, early>> => Has' = Has
        /\ UNCHANGED letters => Box' = Box
        /\ UNCHANGED boxVars => UNCHANGED lapsed
    BY <1>t, HasChanges DEF Box, HasLetter, boxVars
  <1>s. UNCHANGED <<told, Has, Box, refused, lapsed>> => Goal
    BY DEF Promise!vars, Has, Box
  <1>1. ASSUME NEW k \in Msg, SendStart(k) PROVE Goal
    <2>1. UNCHANGED <<Has, Box, refused, lapsed>> BY <1>1, <1>h DEF SendStart, rxVars, auxVars, boxVars
    <2> QED BY <1>1, <2>1 DEF SendStart, Has, Box, Promise!Next, Promise!Send
  <1>2. ASSUME NEW k \in Msg, Delivered(k) PROVE Goal
    <2>1. UNCHANGED <<Has, Box, refused, lapsed>> /\ told' = [told EXCEPT ![k] = "delivered"]
      BY <1>2, <1>h DEF Delivered, Settle, rxVars, auxVars, boxVars
    <2>2. told[k] \in {"sending", "queued"} /\ k \in Has
      BY <1>2 DEF Delivered, Has, PInv, IInv, InHand, CallsTaken
    <2> QED BY <2>1, <2>2 DEF Has, Box, Promise!Next, Promise!Report, Promise!Underway, Promise!True
  <1>3. ASSUME NEW k \in Msg, Mailed(k) PROVE Goal
    <2>1. UNCHANGED <<Has, Box, refused, lapsed>> /\ told' = [told EXCEPT ![k] = "mailed"]
      BY <1>3, <1>h DEF Mailed, Settle, rxVars, auxVars, boxVars
    <2>2. told[k] \in {"sending", "queued"} /\ k \in Has \union Box \union refused \union lapsed
      BY <1>3 DEF Mailed, Has, Box, PInv, IInv, InHand, CallsTaken, Kept
    <2> QED BY <2>1, <2>2 DEF Has, Box, Promise!Next, Promise!Report, Promise!Underway, Promise!True
  <1>4. ASSUME NEW k \in Msg, GiveUp(k) \/ FlushExpired(k) PROVE Goal
    <2>1. UNCHANGED <<Has, Box, refused, lapsed>> /\ told' = [told EXCEPT ![k] = "failed"]
      BY <1>4, <1>h DEF GiveUp, FlushExpired, Settle, rxVars, auxVars, boxVars
    <2>2. told[k] \in {"sending", "queued"}
      BY <1>4, <1>t DEF GiveUp, FlushExpired, Next1, PInv, InHand
    <2> QED BY <2>1, <2>2 DEF Has, Box, Promise!Next, Promise!Report, Promise!Underway, Promise!True
  <1>5. ASSUME NEW k \in Msg, Keep(k) PROVE Goal
    <2>1. UNCHANGED <<Has, Box, refused, lapsed>>
      BY <1>5, <1>h DEF Keep, rxVars, auxVars, boxVars
    <2>2. CASE k \in outbox BY <1>5, <1>s, <2>1, <2>2 DEF Keep
    <2>3. CASE told[k] = "sending" /\ told' = [told EXCEPT ![k] = "queued"]
      BY <2>1, <2>3 DEF Has, Box, Promise!Next, Promise!Queue
    <2>4. CASE told[k] \in {"sending", "queued"} /\ told' = [told EXCEPT ![k] = "failed"]
      BY <2>1, <2>4 DEF Has, Box, Promise!Next, Promise!Report, Promise!Underway, Promise!True
    <2>5. CASE told[k] = "queued" /\ told' = [told EXCEPT ![k] = "queued"]
      <3>1. told' = told BY <2>5, <1>t
      <3> QED BY <1>s, <2>1, <3>1
    <2>6. told[k] \in {"sending", "queued"} BY <1>5 DEF Keep, PInv, InHand
    <2> QED BY <1>5, <2>2, <2>3, <2>4, <2>5, <2>6 DEF Keep
  <1>6. ASSUME NEW k \in Msg, MailboxPut(k) PROVE Goal
    <2>1. /\ UNCHANGED <<told, Has, refused>> /\ letters' = letters \union {<<k, copies[k] + 1>>}
          /\ lapsed' = lapsed \ {k}
      BY <1>6, <1>h DEF MailboxPut, rxVars, auxVars
    <2>2. Box' = Box \union {k}
      <3>1. MsgOf(<<k, copies[k] + 1>>) = k BY DEF MsgOf
      <3> QED BY <2>1, <3>1 DEF Box, HasLetter
    <2>3. told[k] \in {"sending", "queued"} BY <1>6 DEF MailboxPut, PInv, InHand
    <2> QED BY <2>1, <2>2, <2>3 DEF Has, Box, Promise!Next, Promise!Post, Promise!Underway
  <1>7. ASSUME NEW k \in Msg, told[k] # "new", UNCHANGED <<told, Box, refused, lapsed>>,
               Has' = Has \/ Has' = Has \union {k}
        PROVE  Goal
    BY <1>7, <1>s DEF Has, Box, Promise!Next, Promise!Take
  <1>8. ASSUME NEW k \in Msg, told[k] # "new", UNCHANGED <<told, Has, Box, lapsed>>,
               refused' = refused \union {k}
        PROVE  Goal
    BY <1>8 DEF Has, Box, Promise!Next, Promise!Refuse
  <1>9. ASSUME NEW s \in Stream, StreamArrives(s) \/ StreamHandsOver(s) PROVE Goal
    <2>1. MsgOf(s) \in Msg /\ told[MsgOf(s)] # "new"
      BY <1>9, ArrivalsSent DEF StreamArrives, StreamHandsOver
    <2>2. UNCHANGED <<told, Box, lapsed>>
      BY <1>9, <1>h DEF StreamArrives, StreamHandsOver, txVars, boxVars
    <2>3. CASE UNCHANGED <<chan, history, wiped, early>> /\ refused' \in {refused, refused \union {MsgOf(s)}}
      BY <1>h, <1>s, <1>8, <2>1, <2>2, <2>3
    <2>4. CASE AckDuplicate(MsgOf(s)) /\ UNCHANGED <<chan, history, wiped, refused>>
      BY <1>t, <1>7, <2>1, <2>2, <2>4, HasChanges
    <2>5. CASE Enqueued(MsgOf(s)) /\ UNCHANGED <<history, wiped, refused>>
      BY <1>t, <1>7, <2>1, <2>2, <2>5, HasChanges
    <2> QED BY <1>9, <2>3, <2>4, <2>5 DEF StreamArrives, StreamHandsOver
  <1>10. ASSUME NEW l \in Letter, OpenLetter(l) \/ DeliverLetter(l) PROVE Goal
    <2>1. MsgOf(l) \in Msg /\ told[MsgOf(l)] # "new"
      BY <1>10, ArrivalsSent DEF OpenLetter, DeliverLetter
    <2>2. UNCHANGED <<told, Box, lapsed>>
      BY <1>10, <1>h DEF OpenLetter, DeliverLetter, txVars, boxVars
    <2>3. CASE UNCHANGED <<chan, history, wiped, early>> /\ refused' \in {refused, refused \union {MsgOf(l)}}
      BY <1>h, <1>s, <1>8, <2>1, <2>2, <2>3
    <2>4. CASE AckDuplicate(MsgOf(l)) /\ UNCHANGED <<chan, history, wiped, refused>>
      BY <1>t, <1>7, <2>1, <2>2, <2>4, HasChanges
    <2>5. CASE Enqueued(MsgOf(l)) /\ UNCHANGED <<history, wiped, refused>>
      BY <1>t, <1>7, <2>1, <2>2, <2>5, HasChanges
    <2> QED BY <1>10, <2>3, <2>4, <2>5 DEF OpenLetter, DeliverLetter
  <1>11. ASSUME MailboxAck PROVE Goal
    <2>1. UNCHANGED <<told, Has, refused, lapsed>> BY <1>11, <1>h DEF MailboxAck, txVars, rxVars, auxVars
    <2>2. letters' \subseteq letters /\ letters \ letters' \subseteq done BY <1>11 DEF MailboxAck
    <2>3. Box' = Box \ (Box \ Box') BY <2>2 DEF Box, HasLetter
    <2>4. ASSUME NEW m \in Box \ Box' PROVE m \in Has \union refused
      <3>1. PICK l \in letters : MsgOf(l) = m /\ l \notin letters' BY <2>4 DEF Box, HasLetter
      <3> QED BY <2>2, <2>4, <3>1 DEF Box, Has, PInv, IInv, DoneTaken
    <2>5. Box \ Box' \in SUBSET Msg BY DEF Box
    <2> DEFINE ms == Box \ Box'
    <2>6. Promise!Discard(ms)
      BY <2>1, <2>3, <2>4 DEF Has, Box, Promise!Discard
    <2> QED BY <2>5, <2>6 DEF Promise!Next
  <1>12. ASSUME Record \/ Stop PROVE Goal
    <2>1. UNCHANGED <<told, Box, refused, lapsed>> BY <1>12, <1>h DEF Record, Stop, txVars, boxVars
    <2>2. Has' = Has BY <1>12, <1>t, HasChanges
    <2> QED BY <1>s, <2>1, <2>2
  <1> DEFINE Calm == UNCHANGED <<told, letters, lapsed, chan, history, wiped, early, refused>>
  <1>13. ASSUME NEW k \in Msg, Grow(k) \/ MarkExpires(k) \/ (FlushStep(k) /\ ~FlushExpired(k)) PROVE Calm
    BY <1>13 DEF Grow, MarkExpires, FlushStep, FlushDeliver, FlushMail, FlushWait, boxVars, rxVars,
                 auxVars
  <1>14. ASSUME NEW k \in Msg, \/ Attempt(k) \/ Reply(k) \/ AttemptFails(k) \/ DeliverFails(k)
                               \/ DeliverRefuses(k) \/ Deposit(k) \/ DepositFails(k)
         PROVE  Calm
    BY <1>14 DEF Attempt, Reply, AttemptFails, DeliverFails, DeliverRefuses, Deposit, DepositFails,
                 boxVars, rxVars, auxVars
  <1>15. ASSUME FlushStart \/ MailboxFetch \/ SenderRestart \/ UNCHANGED vars PROVE Calm
    BY <1>15 DEF FlushStart, MailboxFetch, SenderRestart, vars, txVars, boxVars, rxVars, auxVars
  <1>16. ASSUME NEW kind \in {"node", "oneshot"}, Start(kind) PROVE Calm
    BY <1>16 DEF Start, txVars, boxVars, auxVars
  <1>19. ASSUME ServerStep PROVE Goal
    <2>1. UNCHANGED <<told, Has, refused>> BY <1>19, <1>h, ServerQuiet DEF rxVars, auxVars
    <2>2. CASE UNCHANGED <<letters, lapsed>> BY <1>h, <1>s, <2>1, <2>2
    <2>3. CASE \E ls \in SUBSET letters : LetGo(ls)
      <3>1. PICK ls \in SUBSET letters : LetGo(ls) BY <2>3
      <3> DEFINE ms == {m \in Msg : HasLetter(m) /\ \A l \in letters : MsgOf(l) = m => l \in ls}
      <3>2. ms \in SUBSET Msg /\ ms \subseteq Box /\ lapsed' = lapsed \union ms
        BY <3>1 DEF LetGo, Box
      <3>3. letters' = letters \ ls BY <3>1 DEF LetGo
      <3>4. Box' = Box \ ms BY <3>3 DEF Box, HasLetter
      <3> HIDE DEF ms
      <3>5. Promise!Lapse(ms) BY <2>1, <3>2, <3>4 DEF Has, Box, Promise!Lapse
      <3> QED BY <3>2, <3>5 DEF Promise!Next
    <2> QED BY <1>19, <2>2, <2>3, ServerQuiet
  <1>17. Calm => Goal BY <1>h, <1>s
  <1> HIDE DEF Goal, Calm
  <1>18. Goal
    BY <1>1, <1>2, <1>3, <1>4, <1>5, <1>6, <1>9, <1>10, <1>11, <1>12, <1>13, <1>14, <1>15, <1>16,
       <1>17, <1>19, Zenon
    DEF Next, SenderStep, FlushStep, StreamStep, MailStep
  <1> QED BY <1>18 DEF Goal

\* Delivery implements Courier: whatever is lost, repeated or restarted on the
\* way, results are final and true, letters stay until they are taken or the
\* server lets them go, and nothing arrives that was not sent.
THEOREM KeepsPromise == Spec => PromiseKept
  <1>1. Init => Promise!Init
    BY DEF Init, Promise!Init, Taken, Arrived, HasLetter, Range
  <1>2. PInv /\ [Next]_vars => [Promise!Next]_(Promise!vars)
    BY StepKeepsPromise
  <1> QED BY <1>1, <1>2, PInvInit, PInvStep, PTL DEF Spec, PromiseKept, Promise!Spec

-----------------------------------------------------------------------------
(* The order of a contact's messages.                                      *)

\* What is left in the outbox of the items a pass read, the pass has not handled
\* yet, unless it is over; and an item was queued once.
PassHolds ==
    /\ pass # {} => items \intersect outbox \subseteq pass
    /\ \A m \in items : told[m] \notin {"new", "sending"}

OInv == PInv /\ PassHolds /\ OldestFirst

LEMMA OInvInit == Init => OInv
  BY PInvInit DEF Init, OInv, PassHolds, OldestFirst

LEMMA OInvStep == OInv /\ [Next]_vars => OInv'
  <1> SUFFICES ASSUME OInv, [Next]_vars PROVE OInv'
    OBVIOUS
  <1>0. PInv /\ TypeOK /\ InHand /\ NoSilentLoss BY DEF OInv, PInv, IInv
  <1>p. PInv' BY <1>0, PInvStep
  <1>t. /\ told \in [Msg -> Told] /\ call \in [Msg -> Call] /\ pass \subseteq outbox
        /\ outbox \subseteq Msg /\ items \subseteq Msg
    BY <1>0 DEF TypeOK, TxTypes
  <1>h. \A m \in Msg : /\ call[m] # "none" => told[m] \in {"sending", "queued"}
                       /\ m \in outbox => told[m] = "queued"
                       /\ told[m] = "queued" => m \in outbox
    BY <1>0 DEF InHand, NoSilentLoss
  <1>i. PassHolds /\ OldestFirst BY DEF OInv
  <1> DEFINE Good == PassHolds' /\ OldestFirst'
  <1>1. ASSUME NEW k \in Msg, SendStart(k) PROVE Good
    <2>1. /\ told[k] = "new" /\ told' = [told EXCEPT ![k] = "sending"] /\ call' = [call EXCEPT ![k] = "deliver"]
          /\ UNCHANGED <<outbox, items, pass>>
      BY <1>1 DEF SendStart, Goto
    <2>2. k \notin outbox /\ k \notin items BY <1>h, <1>i, <2>1 DEF PassHolds
    <2> QED BY <1>t, <1>i, <2>1, <2>2 DEF PassHolds, OldestFirst
  <1>2. ASSUME NEW k \in Msg, NEW result \in {"delivered", "mailed", "failed"}, Settle(k, result) PROVE Good
    BY <1>2, <1>t, <1>i DEF Settle, PassHolds, OldestFirst
  <1>3. ASSUME NEW k \in Msg, Delivered(k) \/ GiveUp(k) \/ Mailed(k) \/ FlushExpired(k) PROVE Good
    BY <1>2, <1>3 DEF Delivered, GiveUp, Mailed, FlushExpired
  <1>4. ASSUME NEW k \in Msg, Keep(k) PROVE Good
    <2>1. call[k] # "none" /\ call' = [call EXCEPT ![k] = "none"] /\ items' = items
      BY <1>4 DEF Keep
    <2>2. CASE k \in outbox
      BY <1>4, <1>t, <1>i, <2>1, <2>2 DEF Keep, PassHolds, OldestFirst
    <2>3. CASE k \notin outbox
      <3>1. told[k] = "sending" /\ k \notin items
        BY <1>h, <1>i, <2>1, <2>3 DEF PassHolds
      <3>2. /\ pass' = pass /\ outbox' \subseteq outbox \union {k} /\ outbox \subseteq outbox'
            /\ \A m \in Msg : m # k => told'[m] = told[m]
        BY <1>4, <1>t, <2>3 DEF Keep
      <3> QED BY <1>t, <1>i, <2>1, <3>1, <3>2 DEF PassHolds, OldestFirst
    <2> QED BY <2>2, <2>3
  \* A call goes on.
  <1>5. ASSUME NEW k \in Msg, call[k] # "none", \A m \in Msg : m # k => call'[m] = call[m],
               UNCHANGED <<told, outbox, items, pass>>
        PROVE  Good
    BY <1>5, <1>t, <1>i DEF PassHolds, OldestFirst
  <1>6. ASSUME NEW k \in Msg, \/ Attempt(k) \/ Reply(k) \/ AttemptFails(k) \/ DeliverFails(k)
                              \/ DeliverRefuses(k) \/ Deposit(k) \/ MailboxPut(k) \/ DepositFails(k)
        PROVE  Good
    <2>1. call[k] # "none" /\ UNCHANGED <<told, outbox, items, pass>>
      BY <1>6 DEF Attempt, Reply, AttemptFails, DeliverFails, DeliverRefuses, Deposit, UseMailbox,
                  MailboxPut, DepositFails, Goto
    <2>2. \E c : call' = [call EXCEPT ![k] = c]
      BY <1>6 DEF Attempt, Reply, AttemptFails, DeliverFails, DeliverRefuses, Deposit, MailboxPut,
                  DepositFails, Goto
    <2>3. \A m \in Msg : m # k => call'[m] = call[m] BY <1>t, <2>2
    <2> QED BY <1>5, <2>1, <2>3
  <1>7. ASSUME NEW k \in Msg, FlushDeliver(k) \/ FlushMail(k) PROVE Good
    <2>1. /\ Next1(k) /\ UNCHANGED <<told, outbox, items, pass>>
          /\ \A m \in Msg : m # k => call'[m] = call[m]
      BY <1>7, <1>t DEF FlushDeliver, FlushMail, Goto
    <2>2. \A m \in outbox : m # k => call'[m] = "none"
      BY <1>t, <2>1 DEF Next1, FlushFree
    <2>3. \A m \in items \intersect outbox : k <= m
      BY <1>i, <2>1 DEF Next1, PassHolds
    <2> QED BY <1>i, <2>1, <2>2, <2>3 DEF PassHolds, OldestFirst
  <1>8. ASSUME NEW k \in Msg, FlushWait(k) PROVE Good
    BY <1>8, <1>i DEF FlushWait, PassHolds, OldestFirst
  <1>9. ASSUME FlushStart PROVE Good
    BY <1>9, <1>t, <1>h DEF FlushStart, FlushFree, PassHolds, OldestFirst
  <1>10. ASSUME SenderRestart PROVE Good
    BY <1>10, <1>t DEF SenderRestart, PassHolds, OldestFirst
  <1>11. ASSUME UNCHANGED <<told, call, outbox, items, pass>> PROVE Good
    BY <1>11, <1>i DEF PassHolds, OldestFirst
  <1>12. ASSUME NEW k \in Msg, Grow(k) \/ MarkExpires(k) PROVE Good
    BY <1>11, <1>12 DEF Grow, MarkExpires
  <1>13. ASSUME MailboxFetch \/ MailboxAck \/ Record \/ Stop \/ UNCHANGED vars PROVE Good
    BY <1>11, <1>13 DEF MailboxFetch, MailboxAck, Record, Stop, vars, txVars
  <1>14. ASSUME NEW kind \in {"node", "oneshot"}, Start(kind) PROVE Good
    BY <1>11, <1>14 DEF Start, txVars
  <1>15. ASSUME NEW s \in Stream, StreamArrives(s) \/ StreamHandsOver(s) PROVE Good
    BY <1>11, <1>15 DEF StreamArrives, StreamHandsOver, txVars
  <1>16. ASSUME NEW l \in Letter, OpenLetter(l) \/ DeliverLetter(l) PROVE Good
    BY <1>11, <1>16 DEF OpenLetter, DeliverLetter, txVars
  <1>s. ASSUME ServerStep PROVE Good
    <2>1. UNCHANGED <<told, outbox, items, pass>> BY <1>s, ServerQuiet
    <2>2. \A m \in Msg : call'[m] # "none" => call[m] # "none" BY <1>s, <1>t, ServerQuiet
    <2> QED BY <1>t, <1>i, <2>1, <2>2 DEF PassHolds, OldestFirst
  <1> HIDE DEF Good
  <1>17. Good
    BY <1>1, <1>3, <1>4, <1>6, <1>7, <1>8, <1>9, <1>10, <1>12, <1>13, <1>14, <1>15, <1>16, <1>s, Zenon
    DEF Next, SenderStep, FlushStep, StreamStep, MailStep
  <1> QED BY <1>p, <1>17 DEF Good, OInv

\* While flushOutbox works on a message, no older one it read is left in the
\* outbox, whatever calls of send queue messages meanwhile (flushOutbox, send).
THEOREM OldestGoesFirst == Spec => []OldestFirst
  <1>1. OInv => OldestFirst BY DEF OInv
  <1> QED BY <1>1, OInvInit, OInvStep, PTL DEF Spec

-----------------------------------------------------------------------------
(* The duplicate filter.                                                   *)

\* The copies of a message that are being handed over.
Copies(m) ==
    {[at |-> "stream", copy |-> s] : s \in {t \in Stream : MsgOf(t) = m /\ stream[t] = "held"}}
    \union {[at |-> "mail", copy |-> l] : l \in {k \in hold : MsgOf(k) = m}}

\* Unless the filter forgot it, one copy of a message at most is being handed
\* over, and none once the message has arrived; in both cases it is marked.
FilterSound(m) ==
    m \notin forgot =>
        /\ \A x, y \in Copies(m) : x = y
        /\ Copies(m) # {} => m \in seen
        /\ Arrived(m) => m \in seen /\ Copies(m) = {}

DInv == TypeOK /\ Unopened /\ (\A m \in Msg : FilterSound(m)) /\ NoDuplicates

LEMMA DInvInit == Init => DInv
  <1> SUFFICES ASSUME Init PROVE DInv
    OBVIOUS
  <1>1. TypeOK /\ Unopened BY TypeInit DEF Init, Unopened
  <1>2. ASSUME NEW m \in Msg PROVE FilterSound(m)
    <2>1. Copies(m) = {} BY DEF Init, Copies
    <2>2. ~Arrived(m) BY DEF Init, Arrived, Range
    <2> QED BY <2>1, <2>2 DEF FilterSound
  <1>3. NoDuplicates
    <2>1. history = <<>> /\ chan = <<>> BY DEF Init
    <2>2. <<>> \o <<>> = <<>> /\ DOMAIN <<>> = {} OBVIOUS
    <2> QED BY <2>1, <2>2 DEF NoDuplicates
  <1> QED BY <1>1, <1>2, <1>3 DEF DInv

\* What is filed when MessageChan takes a message, when the reader files one, and
\* when the receiver stops.
LEMMA FiledIs ==
    ASSUME NEW h \in Seq(Msg), NEW c \in Seq(Msg)
    PROVE  /\ Len(h) \in Nat /\ Len(c) \in Nat
           /\ DOMAIN (h \o c) = 1..(Len(h) + Len(c))
           /\ \A i \in 1..(Len(h) + Len(c)) : (h \o c)[i] = IF i <= Len(h) THEN h[i] ELSE c[i - Len(h)]
  OBVIOUS

LEMMA FiledArrived ==
    ASSUME TypeOK, NEW i \in DOMAIN (history \o chan)
    PROVE  (history \o chan)[i] \in Msg /\ Arrived((history \o chan)[i])
  <1>1. history \in Seq(Msg) /\ chan \in Seq(Msg) BY DEF TypeOK, RxTypes
  <1>2. /\ Len(history) \in Nat /\ Len(chan) \in Nat
        /\ i \in 1..(Len(history) + Len(chan))
        /\ (history \o chan)[i] = IF i <= Len(history) THEN history[i] ELSE chan[i - Len(history)]
    BY <1>1, FiledIs
  <1>3. DOMAIN history = 1..Len(history) /\ DOMAIN chan = 1..Len(chan)
        /\ (\A j \in 1..Len(history) : history[j] \in Msg) /\ (\A j \in 1..Len(chan) : chan[j] \in Msg)
    BY <1>1
  <1>4. CASE i <= Len(history)
    BY <1>2, <1>3, <1>4 DEF Arrived, Range
  <1>5. CASE ~(i <= Len(history))
    <2>1. i - Len(history) \in 1..Len(chan) BY <1>2, <1>5
    <2> QED BY <1>2, <1>3, <1>5, <2>1 DEF Arrived, Range
  <1> QED BY <1>4, <1>5

LEMMA FiledEnqueued ==
    ASSUME NEW h \in Seq(Msg), NEW c \in Seq(Msg), NEW m \in Msg
    PROVE  /\ DOMAIN (h \o Append(c, m)) = DOMAIN (h \o c) \union {Len(h) + Len(c) + 1}
           /\ \A i \in DOMAIN (h \o c) : i < Len(h) + Len(c) + 1 /\ (h \o Append(c, m))[i] = (h \o c)[i]
           /\ (h \o Append(c, m))[Len(h) + Len(c) + 1] = m
  <1>1. /\ Append(c, m) \in Seq(Msg) /\ Len(Append(c, m)) = Len(c) + 1
        /\ \A i \in 1..Len(c) : Append(c, m)[i] = c[i]
        /\ Append(c, m)[Len(c) + 1] = m
    OBVIOUS
  <1>2. /\ Len(h) \in Nat /\ Len(c) \in Nat
        /\ DOMAIN (h \o c) = 1..(Len(h) + Len(c))
        /\ \A i \in 1..(Len(h) + Len(c)) : (h \o c)[i] = IF i <= Len(h) THEN h[i] ELSE c[i - Len(h)]
    BY FiledIs
  <1>3. /\ DOMAIN (h \o Append(c, m)) = 1..(Len(h) + Len(c) + 1)
        /\ \A i \in 1..(Len(h) + Len(c) + 1) :
              (h \o Append(c, m))[i] = IF i <= Len(h) THEN h[i] ELSE Append(c, m)[i - Len(h)]
    <2>1. /\ DOMAIN (h \o Append(c, m)) = 1..(Len(h) + Len(Append(c, m)))
          /\ \A i \in 1..(Len(h) + Len(Append(c, m))) :
                (h \o Append(c, m))[i] = IF i <= Len(h) THEN h[i] ELSE Append(c, m)[i - Len(h)]
      BY <1>1, FiledIs
    <2>2. Len(h) + Len(Append(c, m)) = Len(h) + Len(c) + 1 BY <1>1, <1>2
    <2> QED BY <2>1, <2>2
  <1> QED BY <1>1, <1>2, <1>3

LEMMA FiledMoved ==
    ASSUME NEW h \in Seq(Msg), NEW c \in Seq(Msg), c # <<>>
    PROVE  /\ DOMAIN (Append(h, Head(c)) \o Tail(c)) = DOMAIN (h \o c)
           /\ \A i \in DOMAIN (h \o c) : (Append(h, Head(c)) \o Tail(c))[i] = (h \o c)[i]
  <1>1. /\ Append(h, Head(c)) \in Seq(Msg) /\ Len(Append(h, Head(c))) = Len(h) + 1
        /\ \A i \in 1..Len(h) : Append(h, Head(c))[i] = h[i]
        /\ Append(h, Head(c))[Len(h) + 1] = c[1]
    OBVIOUS
  <1>2. /\ Tail(c) \in Seq(Msg) /\ Len(Tail(c)) = Len(c) - 1 /\ Len(c) \in Nat /\ Len(c) # 0
        /\ \A i \in 1..(Len(c) - 1) : Tail(c)[i] = c[i + 1]
    OBVIOUS
  <1>3. /\ Len(h) \in Nat
        /\ DOMAIN (h \o c) = 1..(Len(h) + Len(c))
        /\ \A i \in 1..(Len(h) + Len(c)) : (h \o c)[i] = IF i <= Len(h) THEN h[i] ELSE c[i - Len(h)]
    BY FiledIs
  <1>4. /\ DOMAIN (Append(h, Head(c)) \o Tail(c)) = 1..(Len(h) + 1 + (Len(c) - 1))
        /\ \A i \in 1..(Len(h) + 1 + (Len(c) - 1)) : (Append(h, Head(c)) \o Tail(c))[i] =
              IF i <= Len(h) + 1 THEN Append(h, Head(c))[i] ELSE Tail(c)[i - (Len(h) + 1)]
    BY <1>1, <1>2, FiledIs
  <1>5. Len(h) + 1 + (Len(c) - 1) = Len(h) + Len(c) BY <1>2, <1>3
  <1>6. ASSUME NEW i \in 1..(Len(h) + Len(c)) PROVE (Append(h, Head(c)) \o Tail(c))[i] = (h \o c)[i]
    <2>1. CASE i <= Len(h) BY <1>1, <1>3, <1>4, <1>5, <2>1
    <2>2. CASE i = Len(h) + 1 BY <1>1, <1>3, <1>4, <1>5, <2>2
    <2>3. CASE i > Len(h) + 1
      <3>1. i - (Len(h) + 1) \in 1..(Len(c) - 1) /\ (i - (Len(h) + 1)) + 1 = i - Len(h)
        BY <1>2, <1>3, <2>3
      <3> QED BY <1>2, <1>3, <1>4, <1>5, <2>3, <3>1
    <2> QED BY <1>3, <2>1, <2>2, <2>3
  <1> QED BY <1>3, <1>4, <1>5, <1>6

LEMMA FiledStopped ==
    ASSUME NEW h \in Seq(Msg), NEW c \in Seq(Msg)
    PROVE  /\ DOMAIN (h \o <<>>) \subseteq DOMAIN (h \o c)
           /\ \A i \in DOMAIN (h \o <<>>) : (h \o <<>>)[i] = (h \o c)[i]
  <1>1. <<>> \in Seq(Msg) /\ Len(<<>>) = 0 OBVIOUS
  <1>2. /\ Len(h) \in Nat /\ DOMAIN (h \o <<>>) = 1..(Len(h) + 0)
        /\ \A i \in 1..(Len(h) + 0) : (h \o <<>>)[i] = IF i <= Len(h) THEN h[i] ELSE <<>>[i - Len(h)]
    BY <1>1, FiledIs
  <1>3. /\ Len(c) \in Nat /\ DOMAIN (h \o c) = 1..(Len(h) + Len(c))
        /\ \A i \in 1..(Len(h) + Len(c)) : (h \o c)[i] = IF i <= Len(h) THEN h[i] ELSE c[i - Len(h)]
    BY FiledIs
  <1> QED BY <1>2, <1>3

\* A step that takes no copy in hand and lets none arrive.
LEMMA FilterShrinks ==
    ASSUME NEW m \in Msg, FilterSound(m), Copies(m)' \subseteq Copies(m), forgot \subseteq forgot',
           m \in seen => m \in seen' \/ m \in forgot', Arrived(m)' => Arrived(m)
    PROVE  FilterSound(m)'
  BY DEF FilterSound

LEMMA CopiesAre ==
    ASSUME NEW m \in Msg
    PROVE  /\ \A s \in Stream : (MsgOf(s) = m /\ stream[s] = "held") <=> [at |-> "stream", copy |-> s] \in Copies(m)
           /\ \A l \in hold : MsgOf(l) = m => [at |-> "mail", copy |-> l] \in Copies(m)
           /\ \A x \in Copies(m) :
                 \/ \E s \in Stream : MsgOf(s) = m /\ stream[s] = "held" /\ x = [at |-> "stream", copy |-> s]
                 \/ \E l \in hold : MsgOf(l) = m /\ x = [at |-> "mail", copy |-> l]
  <1>1. \A s, t : [at |-> "stream", copy |-> s] = [at |-> "stream", copy |-> t] => s = t
    <2> TAKE s, t
    <2>1. [at |-> "stream", copy |-> s].copy = s /\ [at |-> "stream", copy |-> t].copy = t OBVIOUS
    <2> QED BY <2>1
  <1>2. \A s, l : [at |-> "stream", copy |-> s] # [at |-> "mail", copy |-> l]
    <2> TAKE s, l
    <2>1. [at |-> "stream", copy |-> s].at = "stream" /\ [at |-> "mail", copy |-> l].at = "mail" OBVIOUS
    <2> QED BY <2>1
  <1> QED BY <1>1, <1>2 DEF Copies

\* Streams and letters that are not in hand before are not after.
LEMMA CopiesShrink ==
    ASSUME NEW m \in Msg, hold' \subseteq hold, \A s \in Stream : stream'[s] = "held" => stream[s] = "held"
    PROVE  Copies(m)' \subseteq Copies(m)
  BY DEF Copies

\* The steps that do not hand over a copy.
LEMMA FilterCases ==
    ASSUME TypeOK, [Next]_vars
    PROVE  \/ \E s \in Stream : StreamArrives(s) \/ StreamHandsOver(s)
           \/ \E l \in Letter : OpenLetter(l) \/ DeliverLetter(l)
           \/ /\ hold' \subseteq hold
              /\ \A s \in Stream : stream'[s] = "held" => stream[s] = "held"
              /\ forgot \subseteq forgot' /\ seen \subseteq seen' \union forgot'
              /\ Stop \/ Record \/ UNCHANGED <<chan, history>>
  <1> DEFINE Calm == /\ hold' \subseteq hold
                     /\ \A s \in Stream : stream'[s] = "held" => stream[s] = "held"
                     /\ forgot \subseteq forgot' /\ seen \subseteq seen' \union forgot'
                     /\ Stop \/ Record \/ UNCHANGED <<chan, history>>
  <1>1. ASSUME NEW k \in Msg, SendStart(k) \/ SenderStep(k) \/ FlushStep(k) \/ Grow(k) PROVE Calm
    <2>1. UNCHANGED <<hold, chan, history, forgot, seen>>
      BY <1>1, SenderQuiet DEF mailVars, rxVars, auxVars
    <2>2. CASE SendStart(k) \/ FlushStep(k) \/ Grow(k)
      BY <2>1, <2>2 DEF SendStart, Grow, FlushStep, FlushExpired, FlushDeliver, FlushMail, FlushWait, Settle, netVars
    <2>3. CASE Attempt(k)
      BY <2>1, <2>3 DEF Attempt, TypeOK, NetTypes
    <2>4. CASE Reply(k) \/ AttemptFails(k)
      BY <2>1, <2>4 DEF Reply, AttemptFails, Cancelled
    <2>5. CASE SenderStep(k) /\ ~Attempt(k) /\ ~Reply(k) /\ ~AttemptFails(k)
      BY <2>1, <2>5 DEF SenderStep, DeliverFails, DeliverRefuses, Delivered, GiveUp, Mailed, Settle,
                  Deposit, MailboxPut, DepositFails, Keep, netVars
    <2> QED BY <1>1, <2>2, <2>3, <2>4, <2>5
  <1>2. ASSUME NEW k \in Msg, MarkExpires(k) PROVE Calm
    BY <1>2 DEF MarkExpires, mailVars
  <1>3. ASSUME FlushStart \/ MailboxFetch \/ MailboxAck \/ Record \/ UNCHANGED vars PROVE Calm
    BY <1>3 DEF FlushStart, MailboxFetch, MailboxAck, Record, vars, netVars, mailVars, rxVars, auxVars
  <1>4. ASSUME NEW kind \in {"node", "oneshot"}, Start(kind) PROVE Calm
    BY <1>4 DEF Start, netVars, mailVars, auxVars
  <1>5. ASSUME SenderRestart PROVE Calm
    BY <1>5 DEF SenderRestart, mailVars, rxVars, auxVars
  <1>6. ASSUME Stop PROVE Calm
    BY <1>6 DEF Stop, MemoryLost
  <1>s. ASSUME ServerStep PROVE Calm
    BY <1>s, ServerQuiet DEF netVars, mailVars, rxVars, auxVars
  <1> HIDE DEF Calm
  <1>7. \/ \E s \in Stream : StreamArrives(s) \/ StreamHandsOver(s)
        \/ \E l \in Letter : OpenLetter(l) \/ DeliverLetter(l)
        \/ Calm
    BY <1>1, <1>2, <1>3, <1>4, <1>5, <1>6, <1>s, Zenon DEF Next, StreamStep, MailStep
  <1> QED BY <1>7 DEF Calm

\* Nothing arrives but by MessageChan.
LEMMA ArrivedStays ==
    ASSUME TypeOK, Stop \/ Record \/ UNCHANGED <<chan, history>>, NEW m \in Msg, Arrived(m)'
    PROVE  Arrived(m)
  <1>0. history \in Seq(Msg) /\ chan \in Seq(Msg) BY DEF TypeOK, RxTypes
  <1>1. CASE Stop
    <2>1. chan' = <<>> /\ history' = history BY <1>1 DEF Stop, MemoryLost
    <2>2. Range(<<>>) = {} BY DEF Range
    <2> QED BY <2>1, <2>2 DEF Arrived
  <1>2. CASE Record
    <2>1. chan # <<>> /\ chan' = Tail(chan) /\ history' = Append(history, Head(chan)) BY <1>2 DEF Record
    <2>2. Head(chan) \in Msg /\ Range(history') = Range(history) \union {Head(chan)}
      BY <1>0, <2>1, RangeAppend, RangeTail
    <2>3. /\ Len(chan) \in Nat /\ Len(chan) # 0 /\ DOMAIN chan = 1..Len(chan) /\ Head(chan) = chan[1]
          /\ DOMAIN Tail(chan) = 1..(Len(chan) - 1)
          /\ \A i \in 1..(Len(chan) - 1) : Tail(chan)[i] = chan[i + 1]
      BY <1>0, <2>1
    <2>4. Head(chan) \in Range(chan)
      <3>1. 1 \in DOMAIN chan BY <2>3
      <3> QED BY <2>3, <3>1 DEF Range
    <2>5. ASSUME NEW i \in 1..(Len(chan) - 1) PROVE Tail(chan)[i] \in Range(chan)
      <3>1. i + 1 \in DOMAIN chan BY <2>3
      <3> QED BY <2>3, <3>1 DEF Range
    <2>6. Range(Tail(chan)) \subseteq Range(chan) BY <2>3, <2>5 DEF Range
    <2> QED BY <2>1, <2>2, <2>4, <2>6 DEF Arrived
  <1>3. CASE UNCHANGED <<chan, history>>
    BY <1>3 DEF Arrived
  <1> QED BY <1>1, <1>2, <1>3

\* A mark is set; the others stay or are forgotten.
LEMMA MarkIs ==
    ASSUME NEW m \in Msg, Mark(m)
    PROVE  m \in seen' /\ seen \subseteq seen' \union forgot' /\ forgot \subseteq forgot'
           /\ (m \in forgot' => m \in forgot)
  BY DEF Mark

\* The filter lets a copy of k through, which is handed over from now on.
LEMMA FilterTakes ==
    ASSUME NEW m \in Msg, NEW k \in Msg, FilterSound(m), Fresh(k), Mark(k), UNCHANGED <<chan, history>>,
           NEW x, Copies(m)' \subseteq Copies(m) \union (IF m = k THEN {x} ELSE {})
    PROVE  FilterSound(m)'
  <1>1. Arrived(m)' => Arrived(m) BY DEF Arrived
  <1>2. CASE m # k
    BY <1>1, <1>2, FilterShrinks, MarkIs
  <1>3. CASE m = k
    <2>1. m \notin seen /\ m \in seen' /\ (m \in forgot' <=> m \in forgot)
      BY <1>3, MarkIs DEF Fresh
    <2>2. m \notin forgot => Copies(m) = {} /\ ~Arrived(m) BY <2>1 DEF FilterSound
    <2> QED BY <1>1, <1>3, <2>1, <2>2 DEF FilterSound
  <1> QED BY <1>2, <1>3

\* A copy of k was handed over, or turned away for want of room.
LEMMA FilterHands ==
    ASSUME TypeOK, NEW m \in Msg, NEW k \in Msg, FilterSound(m), UNCHANGED <<history, forgot>>,
           \/ Enqueued(k) /\ UNCHANGED seen
           \/ Unmark(k) /\ UNCHANGED chan,
           NEW x, m = k => x \in Copies(m), Copies(m)' \subseteq Copies(m) \ (IF m = k THEN {x} ELSE {})
    PROVE  FilterSound(m)'
  <1>1. m # k => (Arrived(m)' => Arrived(m)) /\ (m \in seen => m \in seen')
    <2>1. CASE Enqueued(k) /\ UNCHANGED seen
      BY <2>1, EnqueuedTypes DEF Arrived, TypeOK
    <2>2. CASE Unmark(k) /\ UNCHANGED chan
      BY <2>2 DEF Unmark, Arrived
    <2> QED BY <2>1, <2>2
  <1>2. CASE m # k
    BY <1>1, <1>2, FilterShrinks
  <1>3. CASE m = k
    <2>1. ASSUME m \notin forgot PROVE Copies(m)' = {} /\ m \in seen /\ ~Arrived(m)
      BY <1>3, <2>1 DEF FilterSound
    <2>2. CASE Enqueued(k) /\ UNCHANGED seen
      BY <2>1, <2>2 DEF FilterSound
    <2>3. CASE Unmark(k) /\ UNCHANGED chan
      BY <2>1, <2>3 DEF FilterSound, Arrived
    <2> QED BY <2>2, <2>3
  <1> QED BY <1>2, <1>3

LEMMA FilterStep ==
    ASSUME TypeOK, \A k \in Msg : FilterSound(k), [Next]_vars, NEW m \in Msg
    PROVE  FilterSound(m)'
  <1>t. stream \in [Stream -> Fate] /\ hold \subseteq Letter BY DEF TypeOK, NetTypes, MailTypes
  <1>0. FilterSound(m) OBVIOUS
  <1>1. ASSUME NEW s \in Stream, StreamArrives(s) PROVE FilterSound(m)'
    <2>1. UNCHANGED <<hold, chan, history>> /\ stream[s] = "sent" /\ MsgOf(s) \in Msg
      BY <1>1, MessagesOf DEF StreamArrives, mailVars
    <2>2. CASE stream'[s] # "held" /\ UNCHANGED <<seen, forgot>>
      <3>1. \A t \in Stream : stream'[t] = "held" => stream[t] = "held"
        BY <1>1, <1>t, <2>2 DEF StreamArrives, Answered
      <3>2. Copies(m)' \subseteq Copies(m) BY <2>1, <3>1, CopiesShrink
      <3>3. Arrived(m)' => Arrived(m) BY <2>1, ArrivedStays
      <3> QED BY <1>0, <2>2, <3>2, <3>3, FilterShrinks
    <2>3. CASE Fresh(MsgOf(s)) /\ Mark(MsgOf(s)) /\ stream' = [stream EXCEPT ![s] = "held"]
      <3>1. Copies(m)' \subseteq Copies(m) \union (IF m = MsgOf(s) THEN {[at |-> "stream", copy |-> s]} ELSE {})
        BY <1>t, <2>1, <2>3 DEF Copies
      <3> QED BY <1>0, <2>1, <2>3, <3>1, FilterTakes
    <2> QED BY <1>1, <1>t, <2>2, <2>3 DEF StreamArrives, Answered
  <1>2. ASSUME NEW s \in Stream, StreamHandsOver(s) PROVE FilterSound(m)'
    <2>1. /\ UNCHANGED <<hold, history, forgot>> /\ stream[s] = "held" /\ MsgOf(s) \in Msg
          /\ \/ Enqueued(MsgOf(s)) /\ UNCHANGED seen
             \/ Unmark(MsgOf(s)) /\ UNCHANGED chan
      BY <1>2, MessagesOf DEF StreamHandsOver, mailVars
    <2>2. stream'[s] # "held" /\ \A t \in Stream : stream'[t] = "held" => stream[t] = "held"
      BY <1>2, <1>t DEF StreamHandsOver, Answered
    <2>3. m = MsgOf(s) => [at |-> "stream", copy |-> s] \in Copies(m)
      BY <2>1, CopiesAre
    <2>4. Copies(m)' \subseteq Copies(m) BY <2>1, <2>2, CopiesShrink
    <2>5. [at |-> "stream", copy |-> s] \notin Copies(m)'
      <3>1. ASSUME NEW t, [at |-> "stream", copy |-> s] = [at |-> "stream", copy |-> t] PROVE s = t
        <4>1. [at |-> "stream", copy |-> s].copy = s /\ [at |-> "stream", copy |-> t].copy = t OBVIOUS
        <4> QED BY <3>1, <4>1
      <3>2. ASSUME NEW l PROVE [at |-> "stream", copy |-> s] # [at |-> "mail", copy |-> l]
        <4>1. [at |-> "stream", copy |-> s].at = "stream" /\ [at |-> "mail", copy |-> l].at = "mail" OBVIOUS
        <4> QED BY <4>1
      <3> QED BY <2>2, <3>1, <3>2 DEF Copies
    <2>6. Copies(m)' \subseteq Copies(m) \ (IF m = MsgOf(s) THEN {[at |-> "stream", copy |-> s]} ELSE {})
      BY <2>4, <2>5
    <2> QED BY <1>0, <2>1, <2>3, <2>6, FilterHands
  <1>3. ASSUME NEW l \in Letter, OpenLetter(l) PROVE FilterSound(m)'
    <2>1. UNCHANGED <<stream, chan, history>> /\ hold = {} /\ MsgOf(l) \in Msg
      BY <1>3, MessagesOf DEF OpenLetter, netVars
    <2>2. CASE UNCHANGED <<hold, seen, forgot>>
      <3>1. Copies(m)' = Copies(m) BY <2>1, <2>2 DEF Copies
      <3>2. Arrived(m)' => Arrived(m) BY <2>1, ArrivedStays
      <3> QED BY <1>0, <2>2, <3>1, <3>2, FilterShrinks
    <2>3. CASE Fresh(MsgOf(l)) /\ Mark(MsgOf(l)) /\ hold' = {l}
      <3>1. Copies(m)' \subseteq Copies(m) \union (IF m = MsgOf(l) THEN {[at |-> "mail", copy |-> l]} ELSE {})
        BY <2>1, <2>3 DEF Copies
      <3> QED BY <1>0, <2>1, <2>3, <3>1, FilterTakes
    <2> QED BY <1>3, <2>2, <2>3 DEF OpenLetter
  <1>4. ASSUME NEW l \in Letter, DeliverLetter(l) PROVE FilterSound(m)'
    <2>1. /\ UNCHANGED <<stream, history, forgot>> /\ hold = {l} /\ hold' = {} /\ MsgOf(l) \in Msg
          /\ \/ Enqueued(MsgOf(l)) /\ UNCHANGED seen
             \/ Unmark(MsgOf(l)) /\ UNCHANGED chan
      BY <1>4, MessagesOf DEF DeliverLetter, netVars
    <2>2. m = MsgOf(l) => [at |-> "mail", copy |-> l] \in Copies(m)
      BY <2>1, CopiesAre
    <2>3. Copies(m)' \subseteq Copies(m) BY <2>1, CopiesShrink
    <2>4. [at |-> "mail", copy |-> l] \notin Copies(m)'
      <3>1. ASSUME NEW t PROVE [at |-> "stream", copy |-> t] # [at |-> "mail", copy |-> l]
        <4>1. [at |-> "stream", copy |-> t].at = "stream" /\ [at |-> "mail", copy |-> l].at = "mail" OBVIOUS
        <4> QED BY <4>1
      <3> QED BY <2>1, <3>1 DEF Copies
    <2>5. Copies(m)' \subseteq Copies(m) \ (IF m = MsgOf(l) THEN {[at |-> "mail", copy |-> l]} ELSE {})
      BY <2>3, <2>4
    <2> QED BY <1>0, <2>1, <2>2, <2>5, FilterHands
  <1>5. ASSUME hold' \subseteq hold, \A s \in Stream : stream'[s] = "held" => stream[s] = "held",
               forgot \subseteq forgot', seen \subseteq seen' \union forgot',
               Stop \/ Record \/ UNCHANGED <<chan, history>>
        PROVE  FilterSound(m)'
    <2>1. Copies(m)' \subseteq Copies(m) BY <1>5, CopiesShrink
    <2>2. Arrived(m)' => Arrived(m) BY <1>5, ArrivedStays
    <2> QED BY <1>0, <1>5, <2>1, <2>2, FilterShrinks
  <1> QED BY <1>1, <1>2, <1>3, <1>4, <1>5, FilterCases

\* MessageChan takes a message that is being handed over, so one that has not
\* arrived or was forgotten; otherwise nothing new is filed.
LEMMA NoDuplicatesStep ==
    ASSUME TypeOK, \A k \in Msg : FilterSound(k), NoDuplicates, [Next]_vars
    PROVE  NoDuplicates'
  <1>0. history \in Seq(Msg) /\ chan \in Seq(Msg) BY DEF TypeOK, RxTypes
  <1>n. \A i, j \in DOMAIN (history \o chan) :
           i < j /\ (history \o chan)[i] = (history \o chan)[j] => (history \o chan)[i] \in forgot
    BY DEF NoDuplicates
  \* Nothing new, in the same order.
  <1>1. ASSUME DOMAIN (history' \o chan') \subseteq DOMAIN (history \o chan),
               \A i \in DOMAIN (history' \o chan') : (history' \o chan')[i] = (history \o chan)[i],
               forgot \subseteq forgot'
        PROVE  NoDuplicates'
    BY <1>1, <1>n DEF NoDuplicates
  <1>2. ASSUME NEW k \in Msg, Enqueued(k), Copies(k) # {}, UNCHANGED <<history, forgot>> PROVE NoDuplicates'
    <2> DEFINE n == Len(history) + Len(chan) + 1
               old == history \o chan
               new == history \o Append(chan, k)
    <2>1. chan' = Append(chan, k) BY <1>2 DEF Enqueued
    <2>2. /\ DOMAIN new = DOMAIN old \union {n}
          /\ \A i \in DOMAIN old : i < n /\ new[i] = old[i]
          /\ new[n] = k
      BY <1>0, FiledEnqueued
    <2>3. DOMAIN old \subseteq Nat /\ n \in Nat
      <3>1. Len(history) \in Nat /\ Len(chan) \in Nat /\ DOMAIN old = 1..(Len(history) + Len(chan))
        BY <1>0, FiledIs
      <3> QED BY <3>1
    <2>4. Arrived(k) => k \in forgot BY <1>2 DEF FilterSound
    <2>5. \A i \in DOMAIN old : Arrived(old[i]) BY FiledArrived
    <2> HIDE DEF n, new, old
    <2>6. ASSUME NEW i \in DOMAIN new, NEW j \in DOMAIN new, i < j, new[i] = new[j]
          PROVE  new[i] \in forgot
      <3>1. i \in DOMAIN old BY <2>2, <2>3, <2>6
      <3>2. CASE j \in DOMAIN old
        BY <1>n, <2>2, <2>6, <3>1, <3>2 DEF old
      <3>3. CASE j = n
        <4>1. old[i] = k BY <2>2, <2>6, <3>1, <3>3
        <4> QED BY <2>2, <2>4, <2>5, <3>1, <4>1
      <3> QED BY <2>2, <3>2, <3>3
    <2>7. history' \o chan' = new /\ forgot' = forgot BY <1>2, <2>1 DEF new
    <2> QED BY <2>6, <2>7 DEF NoDuplicates
  <1>3. ASSUME UNCHANGED <<chan, history>>, forgot \subseteq forgot' PROVE NoDuplicates'
    BY <1>1, <1>3
  <1>4. ASSUME NEW s \in Stream, StreamArrives(s) PROVE NoDuplicates'
    BY <1>3, <1>4 DEF StreamArrives, Mark
  <1>5. ASSUME NEW s \in Stream, StreamHandsOver(s) PROVE NoDuplicates'
    <2>1. MsgOf(s) \in Msg /\ Copies(MsgOf(s)) # {} /\ UNCHANGED <<history, forgot>>
      BY <1>5, MessagesOf, CopiesAre DEF StreamHandsOver
    <2>2. Enqueued(MsgOf(s)) \/ UNCHANGED chan BY <1>5 DEF StreamHandsOver
    <2> QED BY <1>2, <1>3, <2>1, <2>2
  <1>6. ASSUME NEW l \in Letter, OpenLetter(l) PROVE NoDuplicates'
    BY <1>3, <1>6 DEF OpenLetter, Mark
  <1>7. ASSUME NEW l \in Letter, DeliverLetter(l) PROVE NoDuplicates'
    <2>1. MsgOf(l) \in Msg /\ Copies(MsgOf(l)) # {} /\ UNCHANGED <<history, forgot>>
      BY <1>7, MessagesOf, CopiesAre DEF DeliverLetter
    <2>2. Enqueued(MsgOf(l)) \/ UNCHANGED chan BY <1>7 DEF DeliverLetter
    <2> QED BY <1>2, <1>3, <2>1, <2>2
  <1>8. ASSUME Record, forgot \subseteq forgot' PROVE NoDuplicates'
    <2>1. chan # <<>> /\ chan' = Tail(chan) /\ history' = Append(history, Head(chan))
      BY <1>8 DEF Record
    <2> QED BY <1>0, <1>1, <1>8, <2>1, FiledMoved
  <1>9. ASSUME Stop, forgot \subseteq forgot' PROVE NoDuplicates'
    <2>1. chan' = <<>> /\ history' = history BY <1>9 DEF Stop, MemoryLost
    <2> QED BY <1>0, <1>1, <1>9, <2>1, FiledStopped
  <1> QED BY <1>3, <1>4, <1>5, <1>6, <1>7, <1>8, <1>9, FilterCases

LEMMA DInvStep == DInv /\ [Next]_vars => DInv'
  BY TypeStep, UnopenedStep, FilterStep, NoDuplicatesStep DEF DInv

\* No message is filed twice, or filed while another copy waits to be, unless its
\* mark expired, was thrown away with a full map or was lost with the process:
\* whatever streams and letters bring copies of it, in whatever order (markSeen,
\* handleStream, Deliver).
THEOREM NoneFiledTwice == Spec => []NoDuplicates
  <1>1. DInv => NoDuplicates BY DEF DInv
  <1> QED BY <1>1, DInvInit, DInvStep, PTL DEF Spec

=============================================================================
