------------------------------ MODULE Mailboxes ------------------------------
(***************************************************************************)
(* The mailboxes of tariond beside its accounts (server/mailbox.go and     *)
(* their callers in server.go): one folder per name with the box key its   *)
(* user published and the letters left for it.                             *)
(*                                                                         *)
(* A folder is changed under the store's own lock, an account under        *)
(* another, and the callers take them one after the other: a login links   *)
(* the device and then publishes its box key, a sender looks up account    *)
(* and box key and then leaves the letter, a deletion removes the account  *)
(* and then the folder, and any of these can meet.                         *)
(***************************************************************************)
EXTENDS Accounts

CONSTANTS
    Sender,    \* other users, who leave letters
    MaxItems, MaxBytes, PerPeer,  \* the store's limits
    MaxPuts    \* bound: letters each sender tries to leave

ASSUME MailboxesAssumption ==
    /\ MaxItems \in Nat \ {0} /\ MaxBytes \in Nat \ {0} /\ PerPeer \in Nat \ {0}
    /\ MaxPuts \in Nat

VARIABLES
    box,       \* key.json: the device that published each name's box key
    letters,   \* the letters in each folder
    put,       \* what each sender is doing
    puts,      \* how many letters each sender has tried to leave
    hand,      \* letters each session has fetched and not acknowledged
    stale      \* letters older than the keep time

storeVars == <<box, letters>>
mailboxVars == <<box, letters, put, puts, hand, stale>>
dataVars == <<accountVars, mailboxVars>>

\* A letter is known by its sender and number; its ID is random.
LetterId == Sender \X (1..MaxPuts)
Letter == [id : LetterId, key : Key, size : {1, 2}]
From(l) == l.id[1]

NoPut == [to |-> None, key |-> None, size |-> 1]

DataInit ==
    /\ AccountsInit
    /\ box = [n \in Name |-> None]
    /\ letters = [n \in Name |-> {}]
    /\ put = [s \in Sender |-> NoPut]
    /\ puts = [s \in Sender |-> 0]
    /\ hand = [o \in Op |-> {}]
    /\ stale = {}

-----------------------------------------------------------------------------
\* SetKey and Remove.
SetKey(n, k) == box' = [box EXCEPT ![n] = k] /\ UNCHANGED letters
Remove(n) ==
    /\ box' = [box EXCEPT ![n] = None]
    /\ letters' = [letters EXCEPT ![n] = {}]

\* bind's updateMailbox: the user turned the mailbox on or off, or the box key
\* is not signed by this device or cannot be written.
UpdateMailbox(o) ==
    /\ Go(o, "bind", "online")
    /\ \/ Remove(op[o].name)
       \/ SetKey(op[o].name, op[o].key)
       \/ UNCHANGED storeVars
    /\ UNCHANGED <<mem, diskVars, loop, begun, faults, agreed, owed, put, puts, hand, stale>>

\* removeMailbox, after the owner's Delete ...
OwnerRemoves(o) ==
    /\ Go(o, "ending", "done")
    /\ Remove(op[o].name)
    /\ UNCHANGED <<mem, diskVars, loop, begun, faults, agreed, owed, put, puts, hand, stale>>

\* ... and after processDeletions'; then the request is dropped.
OperatorRemoves ==
    /\ DeletionDone
    /\ Remove(loop)
    /\ UNCHANGED <<put, puts, hand, stale>>

-----------------------------------------------------------------------------
\* Mutant: every account is taken to have a box key.
TargetByAccount(n) == mem[n] # None

\* mailboxTarget: the account, and a box key of the device it is linked to.
Target(n) == mem[n] # None /\ box[n] # None /\ box[n] = mem[n].key

\* mailboxPut finds its target.
PutBegins(s, n, size) ==
    /\ put[s].to = None
    /\ puts[s] < MaxPuts
    /\ Target(n)
    /\ put' = [put EXCEPT ![s] = [to |-> n, key |-> box[n], size |-> size]]
    /\ puts' = [puts EXCEPT ![s] = @ + 1]
    /\ UNCHANGED <<accountVars, box, letters, hand, stale>>

\* Mutant: the box key is not looked for again.
BoxThereSkipped(n) == n \in Name

BoxThere(n) == box[n] # None

\* What is waiting, from whom, and how large, with the new letter.
Bytes(ls) == Cardinality(ls) + Cardinality({l \in ls : l.size = 2})
Room(s, n, size) ==
    /\ Cardinality(letters[n]) < MaxItems
    /\ Bytes(letters[n]) + size <= MaxBytes
    /\ Cardinality({l \in letters[n] : From(l) = s}) < PerPeer

\* Put, under the store's lock: the folder may be gone, or full, by now.
Put(s) ==
    LET n == put[s].to IN
    /\ n # None
    /\ put' = [put EXCEPT ![s] = NoPut]
    /\ \/ /\ BoxThere(n) /\ Room(s, n, put[s].size)
          /\ letters' = [letters EXCEPT ![n] = @ \union
                {[id |-> <<s, puts[s]>>, key |-> put[s].key, size |-> put[s].size]}]
       \/ /\ ~(BoxThere(n) /\ Room(s, n, put[s].size))
          /\ UNCHANGED letters
    /\ UNCHANGED <<accountVars, box, puts, hand, stale>>

\* Fetch: letters sealed to this device, as many as fit in an answer, but one
\* at least.
Fetch(o) ==
    LET mine == {l \in letters[op[o].name] : l.key = op[o].key} IN
    /\ Go(o, "online", "fetched")
    /\ mine # {}
    /\ \E part \in SUBSET mine \ {{}} : hand' = [hand EXCEPT ![o] = part]
    /\ UNCHANGED <<mem, diskVars, loop, begun, faults, agreed, owed, box, letters, put, puts, stale>>

\* Mutant: an acknowledgement empties the folder.
AckAll(o) ==
    /\ Go(o, "fetched", "online")
    /\ letters' = [letters EXCEPT ![op[o].name] = {}]
    /\ hand' = [hand EXCEPT ![o] = {}]
    /\ UNCHANGED <<mem, diskVars, loop, begun, faults, agreed, owed, box, put, puts, stale>>

\* Ack: those the client handed on, which may be some of them.
Ack(o) ==
    /\ Go(o, "fetched", "online")
    /\ \E done \in SUBSET hand[o] : letters' = [letters EXCEPT ![op[o].name] = @ \ done]
    /\ hand' = [hand EXCEPT ![o] = {}]
    /\ UNCHANGED <<mem, diskVars, loop, begun, faults, agreed, owed, box, put, puts, stale>>

\* The keep time passes.
Age ==
    /\ \E n \in Name : letters[n] \ stale # {}
    /\ \E n \in Name : \E l \in letters[n] \ stale : stale' = stale \union {l}
    /\ UNCHANGED <<accountVars, box, letters, put, puts, hand>>

\* Mutant: only letters for accounts that exist expire.
ExpireKnown ==
    /\ letters' = [n \in Name |-> IF mem[n] # None THEN letters[n] \ stale ELSE letters[n]]
    /\ letters' # letters
    /\ UNCHANGED <<accountVars, box, put, puts, hand, stale>>

\* Expire, once a minute.
Expire ==
    /\ letters' = [n \in Name |-> letters[n] \ stale]
    /\ letters' # letters
    /\ UNCHANGED <<accountVars, box, put, puts, hand, stale>>

\* A stop ends every session and request, of senders too.
RestartAll ==
    /\ Restart
    /\ put' = [s \in Sender |-> NoPut]
    /\ hand' = [o \in Op |-> {}]
    /\ UNCHANGED <<box, letters, puts, stale>>

-----------------------------------------------------------------------------
DataNext ==
    \/ \E o \in Op : (Request(o) \/ Advance(o)) /\ UNCHANGED mailboxVars
    \/ \E n \in Name : (RequestDeletion(n) \/ ProcessDeletion(n)) /\ UNCHANGED mailboxVars
    \/ \E o \in Op : UpdateMailbox(o) \/ OwnerRemoves(o) \/ Fetch(o) \/ Ack(o)
    \/ OperatorRemoves
    \/ \E s \in Sender : Put(s) \/ \E n \in Name, size \in {1, 2} : PutBegins(s, n, size)
    \/ Age
    \/ Expire
    \/ RestartAll

DataSpec == DataInit /\ [][DataNext]_dataVars

(* Time passes, and the server's loop expires letters every minute.         *)
DataFairness == WF_dataVars(Age) /\ WF_dataVars(Expire)
DataFairSpec == DataSpec /\ DataFairness

-----------------------------------------------------------------------------
(* Properties.                                                             *)

\* The variables hold values of their types.
MailboxesTypeOK ==
    /\ AccountsTypeOK
    /\ box \in [Name -> Key \union {None}]
    /\ letters \in [Name -> SUBSET Letter]
    /\ put \in [Sender -> [to : Name, key : Key, size : {1, 2}] \union {NoPut}]
    /\ puts \in [Sender -> 0..MaxPuts]
    /\ hand \in [Op -> SUBSET Letter]
    /\ stale \subseteq Letter

\* A folder without a box key holds no letter: neither a sender who found the
\* key just before, nor a deletion or a login with the mailbox off that meets
\* it, leaves one behind (Put looks for the key again under the lock, Remove
\* takes the folder as a whole).
NoLetterWithoutBox == \A n \in Name : letters[n] # {} => box[n] # None

\* A letter goes only by the hand of the device it is sealed to, with its whole
\* folder, or because it is too old (Ack, Remove, Expire).
LettersGoRightly ==
    [][\A n \in Name : \A l \in letters[n] \ letters'[n] :
         \/ \E o \in Op : l \in hand[o] /\ op[o].name = n /\ op[o].key = l.key
         \/ box'[n] = None
         \/ l \in stale]_dataVars

\* No letter stays for ever, whether its device is gone or its account: it is
\* fetched or expires (Expire goes by folders, not by accounts).
LettersLeave ==
    \A n \in Name : \A l \in Letter : l \in letters[n] ~> l \notin letters[n]
=============================================================================
