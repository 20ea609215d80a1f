------------------------------ MODULE Delivery ------------------------------
(***************************************************************************)
(* How one Tarion client gets messages to one contact.                     *)
(*                                                                         *)
(* The sender side is node.send, node.flushOutbox and node.deliverMsg      *)
(* (main.go) with the outbox file (internal/storage/outbox.go); the        *)
(* receiver side is the QUIC listener and its duplicate filter             *)
(* (internal/network/quic.go), the mailbox loop (mailbox.go) and the       *)
(* reader that files messages in the chat history (serveIncoming).  Between*)
(* them are QUIC streams, whose request or reply may be lost, and the      *)
(* letters the directory server keeps for the contact (server/mailbox.go)  *)
(* until they are acknowledged, grow too old, or their mailbox is removed. *)
(*                                                                         *)
(* Messages are numbered in the order they were created.  Time is          *)
(* abstracted: a retry may fall due whenever its message is queued, age    *)
(* tells apart only the two limits the code compares a message's creation  *)
(* time with, a mark of the duplicate filter may expire when no copy of    *)
(* its message is being handed over, and a letter may grow too old once    *)
(* the calls and retries of its first minute are over.                     *)
(***************************************************************************)
EXTENDS Naturals, Sequences, FiniteSets, Functions

CONSTANTS
    N,           \* how many messages the sender creates
    ChanCap,     \* capacity of MessageChan (100 in the code)
    MaxSeen,     \* marks the duplicate filter holds (4096 in the code)
    MaxOutbox,   \* messages the outbox holds (500 in the code)
    Mailbox,     \* do both ends use the server mailbox?
    Readerless,  \* may the receiver run a command that starts a node and
                 \* never reads MessageChan (passwd, delete-account, portmap)?
    Refusals,    \* may a ban or a changed key make either end refuse?
    MaxTries,    \* bound: streams opened per message
    MaxCopies,   \* bound: letters stored per message
    MaxSends,    \* bound: streams and letters per message together
    MaxFaults    \* bound: process stops, expired marks, lost mailbox acks,
                 \* removed mailboxes, changes of device and letters that
                 \* grow too old although a process could fetch them

ASSUME ConstantsAssumption ==
    /\ N \in Nat \ {0}
    /\ ChanCap \in Nat \ {0}
    /\ MaxSeen \in Nat \ {0}
    /\ MaxOutbox \in Nat \ {0}
    /\ {Mailbox, Readerless, Refusals} \subseteq BOOLEAN
    /\ MaxTries \in Nat
    /\ MaxCopies \in Nat
    /\ MaxSends \in Nat
    /\ MaxFaults \in Nat

Msg    == 1..N
Stream == Msg \X (1..MaxTries)
Letter == Msg \X (1..MaxCopies)
MsgOf(x) == x[1]

VARIABLES
    told,     \* what the sender's user has been told of each message
    call,     \* where each message is in send or flushOutbox
    outbox,   \* outbox.json
    items,    \* the items the last flushOutbox pass read
    pass,     \* those of them it has not handled yet
    age,      \* 0: under mailboxGrace, 1: over it, 2: over outboxExpiry
    tried,    \* streams opened for each message
    stream,   \* what has become of each stream
    copies,   \* letters ever stored for each message
    letters,  \* letters waiting on the server
    box,      \* does the server have the receiver's box key?
    stranded,    \* letters kept for a device the account was on before
    unreadable,  \* letters sealed to that device and kept for the present one
    lapsed,   \* messages whose last letter the server let go by itself (a
              \* history variable, which no action reads)
    proc,     \* the receiver's process: "down", "node" or "oneshot"
    chan,     \* MessageChan
    seen,     \* messages whose mark is younger than seenTTL
    mail,     \* the mailbox loop: "idle" or "open" (within fetchMail)
    batch,    \* letters fetched and not opened yet
    hold,     \* the letter Deliver is handing over, as a set
    done,     \* letters opened, to be acknowledged to the server
    history,  \* the chat history file
    refused,  \* messages in the receiver's dropped.log
    faults,   \* how many faults have happened
    \* Three history variables, which no action reads.
    wiped,    \* messages that were in MessageChan when the receiver stopped
    early,    \* messages acknowledged as duplicates of a copy that was still
              \* being handed over, until a copy really is
    forgot    \* messages whose mark was dropped after it was set

txVars   == <<told, call, outbox, items, pass, age>>
netVars  == <<tried, stream>>
boxVars  == <<copies, letters, box, stranded, unreadable, lapsed>>
mailVars == <<mail, batch, hold, done>>
rxVars   == <<proc, chan, seen, history, refused>>
auxVars  == <<wiped, early, forgot>>
vars     == <<txVars, netVars, boxVars, mailVars, rxVars, auxVars, faults>>

Told  == {"new", "sending", "delivered", "mailed", "queued", "failed"}
Call  == {"none", "deliver", "await", "acked", "offline", "unreachable",
          "busy", "final", "deposit", "stale", "mailed", "mailerr"}
Fate  == {"unused", "sent", "held", "ack", "busy", "refused"}

\* What a stream's reply says, once the receiver has written it.
Answer == {"ack", "busy", "refused"}

Init ==
    /\ told = [m \in Msg |-> "new"]
    /\ call = [m \in Msg |-> "none"]
    /\ outbox = {} /\ items = {} /\ pass = {}
    /\ age = [m \in Msg |-> 0]
    /\ tried = [m \in Msg |-> 0]
    /\ stream = [s \in Stream |-> "unused"]
    /\ copies = [m \in Msg |-> 0]
    /\ letters = {} /\ box = TRUE
    /\ stranded = {} /\ unreadable = {} /\ lapsed = {}
    /\ proc = "down"
    /\ chan = <<>> /\ history = <<>>
    /\ seen = {} /\ refused = {}
    /\ mail = "idle"
    /\ batch = {} /\ hold = {} /\ done = {}
    /\ faults = 0
    /\ wiped = {} /\ early = {} /\ forgot = {}

-----------------------------------------------------------------------------
(* The sender: deliverMsg and the streams it opens.                        *)

\* A message is in the hands of flushOutbox when it is in the outbox, and
\* in the hands of a call of send when it is not.
Goto(m, from, to) == call[m] = from /\ call' = [call EXCEPT ![m] = to]

\* The user sends the next message: send makes its ID and calls deliverMsg.
SendStart(m) ==
    /\ told[m] = "new"
    /\ \A k \in Msg : k < m => told[k] # "new"
    /\ told' = [told EXCEPT ![m] = "sending"]
    /\ Goto(m, "none", "deliver")
    /\ UNCHANGED <<outbox, items, pass, age, netVars, boxVars, mailVars, rxVars, auxVars, faults>>

\* The stream m's call waits on, and the streams once it stops waiting: an
\* answer nobody reads is forgotten, a request on its way is not.
Current(m) == <<m, tried[m]>>
Cancelled(m) == [s \in Stream |-> IF s = Current(m) /\ stream[s] \in Answer
                                  THEN "unused" ELSE stream[s]]

SendsLeft(m) == tried[m] + copies[m] < MaxSends

\* deliverMsg reaches one of the contact's addresses (or the relay) and
\* sendOnStream writes the message.  Nothing is written unless the handshake
\* with the receiver's process succeeds.
Attempt(m) ==
    /\ proc # "down"
    /\ tried[m] < MaxTries /\ SendsLeft(m)
    /\ Goto(m, "deliver", "await")
    /\ tried' = [tried EXCEPT ![m] = @ + 1]
    /\ stream' = [stream EXCEPT ![<<m, tried[m] + 1>>] = "sent"]
    /\ UNCHANGED <<told, outbox, items, pass, age, boxVars, mailVars, rxVars, auxVars, faults>>

\* The reply arrives in time.  A rejection ends deliverMsg: the peer was
\* reached and refused, its other addresses would only refuse again.
Reply(m) ==
    /\ call[m] = "await"
    /\ LET answer == stream[Current(m)] IN
       \/ answer = "ack"     /\ Goto(m, "await", "acked")
       \/ answer = "busy"    /\ Goto(m, "await", "busy")
       \/ answer = "refused" /\ Goto(m, "await", "final")
    /\ stream' = Cancelled(m)
    /\ UNCHANGED <<told, outbox, items, pass, age, tried, boxVars, mailVars, rxVars, auxVars, faults>>

\* The attempt times out, whatever has become of its stream; deliverMsg goes
\* on to a fresh connection, the next address or the relay.
AttemptFails(m) ==
    /\ Goto(m, "await", "deliver")
    /\ stream' = Cancelled(m)
    /\ UNCHANGED <<told, outbox, items, pass, age, tried, boxVars, mailVars, rxVars, auxVars, faults>>

\* No address is left, or there never was one: the contact is offline by the
\* server's word, or could not be reached.
DeliverFails(m) ==
    /\ \/ Goto(m, "deliver", "offline")
       \/ Goto(m, "deliver", "unreachable")
    /\ UNCHANGED <<told, outbox, items, pass, age, netVars, boxVars, mailVars, rxVars, auxVars, faults>>

\* A banned contact, or a key that is not the one pinned: nothing is sent.
DeliverRefuses(m) ==
    /\ Refusals
    /\ Goto(m, "deliver", "final")
    /\ UNCHANGED <<told, outbox, items, pass, age, netVars, boxVars, mailVars, rxVars, auxVars, faults>>

-----------------------------------------------------------------------------
(* The sender: what send and flushOutbox do with deliverMsg's answer.      *)

\* Mutant: RemoveOutbox is forgotten.
SettleKeeps(m, result) ==
    /\ told' = [told EXCEPT ![m] = result]
    /\ call' = [call EXCEPT ![m] = "none"]
    /\ pass' = pass \ {m}
    /\ UNCHANGED <<outbox, items, age, netVars, boxVars, mailVars, rxVars, auxVars, faults>>

\* RemoveOutbox, if the message was in the outbox, and the message's result.
Settle(m, result) ==
    /\ told' = [told EXCEPT ![m] = result]
    /\ call' = [call EXCEPT ![m] = "none"]
    /\ outbox' = outbox \ {m}
    /\ pass' = pass \ {m}
    /\ UNCHANGED <<items, age, netVars, boxVars, mailVars, rxVars, auxVars, faults>>

\* Mutant: a nack counts as delivered.
DeliveredIfAnswered(m) == call[m] \in {"acked", "busy"} /\ Settle(m, "delivered")

Delivered(m) == call[m] = "acked" /\ Settle(m, "delivered")

\* Not retryable: logged as dropped.
GiveUp(m) == call[m] = "final" /\ Settle(m, "failed")

\* Mutant: the deposit's error is ignored.
MailedAnyway(m) == call[m] \in {"mailed", "mailerr"} /\ Settle(m, "mailed")

Mailed(m) == call[m] = "mailed" /\ Settle(m, "mailed")

\* useMailbox: at once if the contact is offline, after mailboxGrace if not.
UseMailbox(m) ==
    /\ Mailbox
    /\ \/ call[m] = "offline"
       \/ call[m] \in {"unreachable", "busy"} /\ age[m] >= 1

\* depositMail starts: it asks for the contact's box key and seals.
Deposit(m) ==
    /\ UseMailbox(m)
    /\ call' = [call EXCEPT ![m] = "deposit"]
    /\ UNCHANGED <<told, outbox, items, pass, age, netVars, boxVars, mailVars, rxVars, auxVars, faults>>

\* The server stores the letter for the device whose box key it has now; its
\* answer reaches the sender or is lost.
MailboxPut(m) ==
    /\ box
    /\ copies[m] < MaxCopies /\ SendsLeft(m)
    /\ call[m] \in {"deposit", "stale"}
    /\ \E answer \in {"mailed", "mailerr"} : call' = [call EXCEPT ![m] = answer]
    /\ copies' = [copies EXCEPT ![m] = @ + 1]
    /\ LET letter == {<<m, copies[m] + 1>>} IN
       /\ letters' = letters \union letter
       /\ unreadable' = IF call[m] = "stale" THEN unreadable \union letter ELSE unreadable
    /\ lapsed' = lapsed \ {m}
    /\ UNCHANGED <<told, outbox, items, pass, age, netVars, box, stranded, mailVars, rxVars, auxVars, faults>>

\* Not connected, no box key, a full mailbox, a key that does not check out.
DepositFails(m) ==
    /\ call[m] \in {"deposit", "stale"}
    /\ call' = [call EXCEPT ![m] = "mailerr"]
    /\ UNCHANGED <<told, outbox, items, pass, age, netVars, boxVars, mailVars, rxVars, auxVars, faults>>

\* Neither delivered nor mailed.  send queues the message, or drops it when
\* the outbox is full; flushOutbox sets its next retry and leaves the rest of
\* the contact's messages for the next pass.
Keep(m) ==
    /\ call[m] \in {"offline", "unreachable", "busy", "mailerr"}
    /\ ~UseMailbox(m)
    /\ call' = [call EXCEPT ![m] = "none"]
    /\ IF m \in outbox
       THEN pass' = {} /\ UNCHANGED <<told, outbox>>
       ELSE /\ UNCHANGED pass
            /\ IF Cardinality(outbox) < MaxOutbox
               THEN /\ outbox' = outbox \union {m}
                    /\ told' = [told EXCEPT ![m] = "queued"]
               ELSE /\ UNCHANGED outbox
                    /\ told' = [told EXCEPT ![m] = "failed"]
    /\ UNCHANGED <<items, age, netVars, boxVars, mailVars, rxVars, auxVars, faults>>

-----------------------------------------------------------------------------
(* The sender: the passes of flushOutbox.                                  *)

\* No outbox item is between two steps of its own handling.
FlushFree == \A m \in outbox : call[m] = "none"

FlushStart ==
    /\ FlushFree
    /\ pass = {} /\ outbox # {}
    /\ items' = outbox /\ pass' = outbox
    /\ UNCHANGED <<told, call, outbox, age, netVars, boxVars, mailVars, rxVars, auxVars, faults>>

\* Mutant: the items are not sorted.
Next1Any(m) == FlushFree /\ m \in pass

\* The next item of the pass is the oldest one.
Next1(m) == FlushFree /\ m \in pass /\ \A k \in pass : m <= k

\* Mutant: an expired message is skipped and not removed.
FlushExpiredSkips(m) ==
    /\ Next1(m) /\ age[m] = 2
    /\ pass' = {}
    /\ UNCHANGED <<told, call, outbox, items, age, netVars, boxVars, mailVars, rxVars, auxVars, faults>>

FlushExpired(m) ==
    /\ Next1(m) /\ age[m] = 2
    /\ Settle(m, "failed")

\* Due, or the contact is listed online: deliverMsg.
FlushDeliver(m) ==
    /\ Next1(m) /\ age[m] < 2
    /\ Goto(m, "none", "deliver")
    /\ UNCHANGED <<told, outbox, items, pass, age, netVars, boxVars, mailVars, rxVars, auxVars, faults>>

\* Not due, but the server confirms that the contact is offline.
FlushMail(m) ==
    /\ Next1(m) /\ age[m] < 2
    /\ Mailbox
    /\ Goto(m, "none", "deposit")
    /\ UNCHANGED <<told, outbox, items, pass, age, netVars, boxVars, mailVars, rxVars, auxVars, faults>>

\* Not due: this message and the later ones wait for the next pass.
FlushWait(m) ==
    /\ Next1(m) /\ age[m] < 2
    /\ pass' = {}
    /\ UNCHANGED <<told, call, outbox, items, age, netVars, boxVars, mailVars, rxVars, auxVars, faults>>

\* Time passes: a message gets older, and so did every message before it.
Grow(m) ==
    /\ told[m] \in {"sending", "queued"}
    /\ age[m] < 2
    /\ \A k \in Msg : k < m /\ told[k] \in {"sending", "queued"} => age[k] > age[m]
    /\ age' = [age EXCEPT ![m] = @ + 1]
    /\ UNCHANGED <<told, call, outbox, items, pass, netVars, boxVars, mailVars, rxVars, auxVars, faults>>

-----------------------------------------------------------------------------
(* The receiver: the listener and its duplicate filter.                    *)

Held(m) == \/ \E s \in Stream : MsgOf(s) = m /\ stream[s] = "held"
           \/ \E l \in hold : MsgOf(l) = m

\* Mutant: every copy passes the filter.
FreshAlways(m) == m \in Msg

\* markSeen's test.
Fresh(m) == m \notin seen

\* markSeen on a message that has no fresh mark.  A full map of fresh marks
\* is thrown away.
Mark(m) ==
    IF Cardinality(seen) >= MaxSeen
    THEN seen' = {m} /\ forgot' = forgot \union (seen \ {m})
    ELSE seen' = seen \union {m} /\ UNCHANGED forgot

\* An acknowledgement given because the message is marked, though the copy
\* that set the mark may not be in MessageChan yet.
AckDuplicate(m) == early' = IF Held(m) THEN early \union {m} ELSE early

\* Mutant: MessageChan grows without limit.
EnqueuedUnbounded(m) == chan' = Append(chan, m) /\ early' = early \ {m}

\* MessageChan takes the message.
Enqueued(m) ==
    /\ Len(chan) < ChanCap
    /\ chan' = Append(chan, m)
    /\ early' = early \ {m}

\* unmarkSeen.
Unmark(m) == seen' = seen \ {m}

\* The receiver writes its reply; it counts only while the sender waits.
Answered(s, a) ==
    stream' = [stream EXCEPT ![s] =
                 IF call[MsgOf(s)] = "await" /\ s = Current(MsgOf(s)) THEN a ELSE "unused"]

\* handleStream up to markSeen.
StreamArrives(s) ==
    LET m == MsgOf(s) IN
    /\ proc # "down"
    /\ stream[s] = "sent"
    /\ \/ /\ Refusals
          /\ Answered(s, "refused")
          /\ refused' = refused \union {m}
          /\ UNCHANGED <<seen, early, forgot>>
       \/ /\ m \in seen
          /\ Answered(s, "ack")
          /\ AckDuplicate(m)
          /\ UNCHANGED <<seen, refused, forgot>>
       \/ /\ Fresh(m)
          /\ stream' = [stream EXCEPT ![s] = "held"]
          /\ Mark(m)
          /\ UNCHANGED <<refused, early>>
    /\ UNCHANGED <<txVars, tried, boxVars, mailVars, proc, chan, history, wiped, faults>>

\* handleStream's select: into MessageChan if there is room, else unmark and
\* answer "receiver busy".
StreamHandsOver(s) ==
    LET m == MsgOf(s) IN
    /\ stream[s] = "held"
    /\ \/ /\ Enqueued(m)
          /\ Answered(s, "ack")
          /\ UNCHANGED seen
       \/ /\ Len(chan) >= ChanCap
          /\ Answered(s, "busy")
          /\ Unmark(m)
          /\ UNCHANGED <<chan, early>>
    /\ UNCHANGED <<txVars, tried, boxVars, mailVars, proc, history, refused, wiped, forgot, faults>>

\* The reader (serveIncoming, or the menu) files a message in the history.
Record ==
    /\ proc = "node"
    /\ chan # <<>>
    /\ chan' = Tail(chan)
    /\ history' = Append(history, Head(chan))
    /\ UNCHANGED <<txVars, netVars, boxVars, mailVars, proc, seen, refused, auxVars, faults>>

-----------------------------------------------------------------------------
(* The receiver: the mailbox loop.                                         *)

\* Mutant: the server deletes letters when it hands them out.
MailboxFetchDeletes ==
    /\ proc # "down" /\ Mailbox
    /\ mail = "idle"
    /\ letters # {}
    /\ mail' = "open"
    /\ batch' = letters
    /\ letters' = {}
    /\ UNCHANGED <<txVars, netVars, copies, box, stranded, unreadable, lapsed, hold, done, rxVars,
                   auxVars, faults>>

\* The letters kept for this device.
MailboxFetch ==
    /\ proc # "down" /\ Mailbox
    /\ mail = "idle"
    /\ letters \ stranded # {}
    /\ mail' = "open"
    /\ batch' = letters \ stranded
    /\ UNCHANGED <<txVars, netVars, boxVars, hold, done, rxVars, auxVars, faults>>

\* openLetter up to markSeen.  A letter that does not open is logged as
\* dropped, as one that is refused is.
OpenLetter(l) ==
    LET m == MsgOf(l) IN
    /\ mail = "open" /\ hold = {}
    /\ l \in batch
    /\ batch' = batch \ {l}
    /\ \/ /\ Refusals \/ l \in unreadable
          /\ done' = done \union {l}
          /\ refused' = refused \union {m}
          /\ UNCHANGED <<hold, seen, early, forgot>>
       \/ /\ l \notin unreadable
          /\ m \in seen
          /\ done' = done \union {l}
          /\ AckDuplicate(m)
          /\ UNCHANGED <<hold, seen, refused, forgot>>
       \/ /\ l \notin unreadable
          /\ Fresh(m)
          /\ hold' = {l}
          /\ Mark(m)
          /\ UNCHANGED <<done, refused, early>>
    /\ UNCHANGED <<txVars, netVars, boxVars, mail, proc, chan, history, wiped, faults>>

\* Deliver's select: MessageChan takes the message, or stays full for the
\* whole wait and fetchMail leaves this letter and the rest on the server.
DeliverLetter(l) ==
    LET m == MsgOf(l) IN
    /\ hold = {l}
    /\ hold' = {}
    /\ \/ /\ Enqueued(m)
          /\ done' = done \union {l}
          /\ UNCHANGED <<seen, batch>>
       \/ /\ Len(chan) >= ChanCap
          /\ Unmark(m)
          /\ batch' = {}
          /\ UNCHANGED <<chan, early, done>>
    /\ UNCHANGED <<txVars, netVars, boxVars, mail, proc, history, refused, wiped, forgot, faults>>

\* MailboxAck, at the end of a batch; the request may be lost.
MailboxAck ==
    /\ mail = "open" /\ hold = {} /\ batch = {}
    /\ mail' = "idle"
    /\ done' = {}
    /\ \/ letters' = letters \ done /\ UNCHANGED faults
       \/ faults < MaxFaults /\ faults' = faults + 1 /\ UNCHANGED letters
    /\ UNCHANGED <<txVars, netVars, copies, box, stranded, unreadable, lapsed, batch, hold, rxVars,
                   auxVars>>

-----------------------------------------------------------------------------
(* The server: what else ends a letter, and which device a letter is for.  *)

\* A letter of m waits on the server.
HasLetter(m) == \E l \in letters : MsgOf(l) = m

\* The server deletes letters by itself.
LetGo(ls) ==
    /\ letters' = letters \ ls
    /\ stranded' = stranded \ ls
    /\ lapsed' = lapsed \union {m \in Msg : HasLetter(m) /\ \A l \in letters : MsgOf(l) = m => l \in ls}

\* A process runs that could fetch l.
Fetchable(l) == proc # "down" /\ l \notin stranded

\* Expire: the letter is older than -mailbox-days.  By then no call of send
\* works on its message or an older one, and those still in the outbox are over
\* mailboxGrace.  It takes a fault, such as days without a connection, for this
\* to happen to a letter that could be fetched.
LetterExpires(l) ==
    /\ l \in letters
    /\ \A k \in 1..MsgOf(l) :
          /\ call[k] # "none" => k \in outbox
          /\ k \in outbox => age[k] >= 1
    /\ Fetchable(l) => faults < MaxFaults
    /\ faults' = IF Fetchable(l) THEN faults + 1 ELSE faults
    /\ LetGo({l})
    /\ UNCHANGED <<txVars, netVars, copies, box, unreadable, mailVars, rxVars, auxVars>>

\* Remove: the receiver logs in with the mailbox off, the account is deleted,
\* or the operator turns the mailbox off.  The key goes with the letters.
MailboxOff ==
    /\ Mailbox /\ box
    /\ faults < MaxFaults /\ faults' = faults + 1
    /\ LetGo(letters)
    /\ box' = FALSE
    /\ UNCHANGED <<txVars, netVars, copies, unreadable, mailVars, rxVars, auxVars>>

\* SetKey, at a login with the mailbox on again.
MailboxOn ==
    /\ ~box
    /\ box' = TRUE
    /\ UNCHANGED <<txVars, netVars, copies, letters, stranded, unreadable, lapsed, mailVars, rxVars,
                   auxVars, faults>>

\* SetKey, at the first login from another device: the letters there are stay
\* for the old one, and a sender that asked for the key before this seals to
\* the old one too.  (A return to a former device is left out: it would only
\* make its letters readable again.)
Moves ==
    /\ Mailbox /\ box
    /\ proc = "down"
    /\ faults < MaxFaults /\ faults' = faults + 1
    /\ stranded' = letters
    /\ call' = [m \in Msg |-> IF call[m] = "deposit" THEN "stale" ELSE call[m]]
    /\ UNCHANGED <<told, outbox, items, pass, age, netVars, copies, letters, box, unreadable, lapsed,
                   mailVars, rxVars, auxVars>>

-----------------------------------------------------------------------------
(* Faults and restarts.                                                    *)

\* seenTTL passes after m was marked: no stream lives that long, and messages
\* created before m, and m itself, are over mailboxGrace by then.  (A request
\* on its way when the mark expires behaves as one sent just afterwards.)
MarkExpires(m) ==
    /\ m \in seen /\ ~Held(m)
    /\ faults < MaxFaults /\ faults' = faults + 1
    /\ seen' = seen \ {m}
    /\ forgot' = forgot \union {m}
    /\ age' = [k \in Msg |-> IF k <= m /\ told[k] \in {"sending", "queued"} /\ age[k] = 0 THEN 1 ELSE age[k]]
    /\ stream' = [s \in Stream |-> IF MsgOf(s) = m /\ stream[s] = "sent"
                                   THEN "unused" ELSE stream[s]]
    /\ UNCHANGED <<told, call, outbox, items, pass, tried, boxVars, mailVars, proc, chan, history,
                   refused, wiped, early>>

\* The background process or the menu starts, some day or never; or a one-shot
\* command starts a node of its own, which stops by itself.
Start(kind) ==
    /\ proc = "down"
    /\ kind = "oneshot" => Readerless /\ faults < MaxFaults
    /\ faults' = IF kind = "oneshot" THEN faults + 1 ELSE faults
    /\ proc' = kind
    /\ UNCHANGED <<txVars, netVars, boxVars, mailVars, chan, seen, history, refused, auxVars>>

\* Mutant: the marks outlive the process, the copies they stand for do not.
MemoryLostButMarks ==
    /\ chan' = <<>> /\ UNCHANGED seen
    /\ mail' = "idle" /\ batch' = {} /\ hold' = {} /\ done' = {}

MemoryLost ==
    /\ chan' = <<>> /\ seen' = {}
    /\ mail' = "idle" /\ batch' = {} /\ hold' = {} /\ done' = {}

\* The receiver's process exits or dies.  Everything it had in memory is
\* gone, and so are its connections; replies already sent may still arrive.
Stop ==
    /\ proc # "down"
    /\ proc = "node" => faults < MaxFaults
    /\ faults' = IF proc = "node" THEN faults + 1 ELSE faults
    /\ proc' = "down"
    /\ wiped' = wiped \union Range(chan)
    /\ forgot' = forgot \union seen
    /\ MemoryLost
    /\ stream' = [s \in Stream |-> IF stream[s] \in {"sent", "held"} THEN "unused" ELSE stream[s]]
    /\ UNCHANGED <<txVars, tried, boxVars, history, refused, early>>

\* The sender's process dies and is started again: calls and the pass are
\* lost, the outbox is not.  A message still in send is never heard of again.
SenderRestart ==
    /\ \E m \in Msg : call[m] # "none"
    /\ faults < MaxFaults /\ faults' = faults + 1
    /\ call' = [m \in Msg |-> "none"]
    /\ items' = {} /\ pass' = {}
    /\ stream' = [s \in Stream |-> IF stream[s] \in Answer THEN "unused" ELSE stream[s]]
    /\ UNCHANGED <<told, outbox, age, tried, boxVars, mailVars, rxVars, auxVars>>

-----------------------------------------------------------------------------
SenderStep(m) ==
    \/ Attempt(m) \/ Reply(m) \/ AttemptFails(m) \/ DeliverFails(m) \/ DeliverRefuses(m)
    \/ Delivered(m) \/ GiveUp(m) \/ Mailed(m)
    \/ Deposit(m) \/ MailboxPut(m) \/ DepositFails(m) \/ Keep(m)

FlushStep(m) == FlushExpired(m) \/ FlushDeliver(m) \/ FlushMail(m) \/ FlushWait(m)

StreamStep(s) == StreamArrives(s) \/ StreamHandsOver(s)

MailStep ==
    \/ MailboxFetch
    \/ \E l \in Letter : OpenLetter(l) \/ DeliverLetter(l)
    \/ MailboxAck

ServerStep ==
    \/ \E l \in Letter : LetterExpires(l)
    \/ MailboxOff \/ MailboxOn \/ Moves

Next ==
    \/ \E m \in Msg : SendStart(m) \/ SenderStep(m) \/ FlushStep(m) \/ Grow(m) \/ MarkExpires(m)
    \/ FlushStart
    \/ \E s \in Stream : StreamStep(s)
    \/ MailStep
    \/ ServerStep
    \/ Record
    \/ \E kind \in {"node", "oneshot"} : Start(kind)
    \/ Stop
    \/ SenderRestart

Spec == Init /\ [][Next]_vars

(* Fairness.  Every wait of a call to send or flushOutbox is bounded by a   *)
(* timeout, the tickers of runOutbox and runMailbox keep running while     *)
(* their process does, streams that reached the receiver are each served   *)
(* by a goroutine, and the server looks for old letters every minute.      *)
(* Nothing makes either user start a process or send, and no fault has to  *)
(* happen.  A letter need not grow old while a process can fetch it.       *)
OneShotEnds == proc = "oneshot" /\ Stop

OldLetterExpires == \E l \in letters : ~Fetchable(l) /\ LetterExpires(l)

Fairness ==
    /\ \A m \in Msg : WF_vars(SenderStep(m)) /\ WF_vars(FlushStep(m)) /\ WF_vars(Grow(m))
    /\ WF_vars(FlushStart)
    /\ \A s \in Stream : WF_vars(StreamHandsOver(s))
    /\ WF_vars(MailStep)
    /\ WF_vars(Record)
    /\ WF_vars(OldLetterExpires)
    /\ WF_vars(OneShotEnds)

FairSpec == Spec /\ Fairness

-----------------------------------------------------------------------------
(* Properties.                                                             *)

TxTypes ==
    /\ told \in [Msg -> Told]
    /\ call \in [Msg -> Call]
    /\ outbox \subseteq Msg /\ items \subseteq Msg /\ pass \subseteq outbox
    /\ age \in [Msg -> 0..2]

NetTypes == tried \in [Msg -> 0..MaxTries] /\ stream \in [Stream -> Fate]

BoxTypes ==
    /\ copies \in [Msg -> 0..MaxCopies] /\ letters \subseteq Letter /\ box \in BOOLEAN
    /\ stranded \subseteq Letter /\ unreadable \subseteq Letter /\ lapsed \subseteq Msg

MailTypes ==
    /\ mail \in {"idle", "open"}
    /\ batch \subseteq Letter /\ hold \subseteq Letter /\ done \subseteq Letter

RxTypes ==
    /\ proc \in {"down", "node", "oneshot"}
    /\ chan \in Seq(Msg) /\ Len(chan) <= ChanCap
    /\ history \in Seq(Msg)
    /\ seen \subseteq Msg /\ refused \subseteq Msg

AuxTypes == wiped \subseteq Msg /\ early \subseteq Msg /\ forgot \subseteq Msg

\* The variables hold values of their types; a pass works on outbox items
\* only, and MessageChan keeps to its capacity (flushOutbox, quic.go).
TypeOK ==
    TxTypes /\ NetTypes /\ BoxTypes /\ MailTypes /\ RxTypes /\ AuxTypes /\ faults \in 0..MaxFaults

\* The receiver has the message: it is waiting for the reader or in the chat.
Arrived(m) == m \in Range(chan) \union Range(history)

\* The receiver answered for the message.  Besides having it, there are two
\* ways: it had it and stopped before reading it, or it acknowledged a
\* duplicate of a copy that in the end was not handed over.
Taken(m) == Arrived(m) \/ m \in wiped \/ m \in early

\* Where a letter's message may be: taken, in dropped.log, on the server, or
\* gone from it by age or with the whole mailbox.
Kept(m) == Taken(m) \/ m \in refused \/ HasLetter(m) \/ m \in lapsed

\* A message the sender's user was told is delivered, left in the mailbox or
\* queued is accounted for: the receiver took it, or it is in the outbox, or,
\* if mailed, it is where Kept says.  A delivered one can only go missing in
\* the two ways of Taken, a mailed one also when the server let its last letter
\* go unfetched (Expire and Remove in server/mailbox.go, which nobody is told
\* of).  This is the outcome of send and flushOutbox (main.go) against
\* handleStream, Deliver, fetchMail and the server's mailbox store.
NoSilentLoss ==
    \A m \in Msg :
        /\ told[m] = "delivered" => Taken(m)
        /\ told[m] = "mailed" => Kept(m)
        /\ told[m] = "queued" => m \in outbox

\* No message is filed twice, or filed while another copy waits to be, unless
\* the duplicate filter forgot it: its mark expired, was thrown away with a
\* full map, or was lost with the process (markSeen in quic.go).
NoDuplicates ==
    LET all == history \o chan IN
    \A i, j \in DOMAIN all : i < j /\ all[i] = all[j] => all[i] \in forgot

\* While a pass of flushOutbox works on a message, no older message it read
\* is left in the outbox: after a failure the contact's later messages wait.
OldestFirst ==
    \A m \in outbox : call[m] # "none" => \A k \in items \intersect outbox : m <= k

\* A letter leaves the server only when the receiver has taken its message or
\* logged that it refused it (fetchMail acknowledges after openLetter), unless
\* it grew too old or the receiver's whole mailbox went (Expire and Remove).
LetterDeletedOnceTaken ==
    [][\A l \in letters \ letters' :
          Taken(MsgOf(l)) \/ MsgOf(l) \in refused \/ LetterExpires(l) \/ ~box']_vars

\* A queued message does not stay queued: it is delivered, mailed or, after
\* seven days, given up with a line in the history and in dropped.log.
QueuedSettles ==
    \A m \in Msg : (told[m] = "queued") ~> (told[m] \in {"delivered", "mailed", "failed"})

\* A message left in the server mailbox does not stay there: it is filed by its
\* recipient or refused, or one of the losses above ends it.  While a process
\* of the recipient runs, fetchMail alone sees to it; letters nobody fetches
\* and those of a former device grow too old.
MailedArrives ==
    \A m \in Msg : (told[m] = "mailed")
        ~> (m \in Range(history) \union refused \union wiped \union early \union lapsed)

\* All this keeps the promise made to the sender: results are final and true,
\* letters stay until they are taken or the server lets them go, nothing
\* arrives unsent (module Courier).
Promise == INSTANCE Courier WITH
    has <- {m \in Msg : Taken(m)},
    box <- {m \in Msg : HasLetter(m)},
    gone <- refused,
    lapsed <- lapsed

PromiseKept == Promise!Spec

-----------------------------------------------------------------------------
(* What the documentation and comments say, which the code does not keep.  *)

\* mailbox.go on fetchMail: letters are deleted after they were handed on, "so
\* nothing is lost if this process stops halfway".  (Letters the server let go
\* are not what the comment speaks of.)
StopLosesNoLetter ==
    \A m \in Msg :
        told[m] = "mailed" => Arrived(m) \/ HasLetter(m) \/ m \in refused \/ m \in lapsed

\* README on what reaches an end: "Nothing gets lost quietly".  A one-shot
\* command leaves no acknowledged message unread when it ends.
OneShotLeavesNothing == [][OneShotEnds => chan = <<>>]_vars

\* README on what reaches an end: "Nothing gets lost quietly".  Without any
\* fault, a message told delivered has arrived or is being handed over.
AckedIsNotLost == \A m \in Msg : told[m] = "delivered" => Arrived(m) \/ Held(m)
=============================================================================
