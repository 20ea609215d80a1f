-------------------------------- MODULE Vault --------------------------------
(***************************************************************************)
(* The protected storage of a client: protect.go, internal/vault and       *)
(* internal/storage/sealed.go.  Files are sealed with a data key, which    *)
(* vault.json holds; each process unlocks it when it starts, and may then  *)
(* have to seal, unseal or re-protect what it finds, one file after the    *)
(* other.  It may stop between any two steps.                              *)
(*                                                                         *)
(* What a file holds is a set of chunks: the entries of a file that is     *)
(* rewritten as a whole, or the lines of one that is appended to, each     *)
(* plain or sealed with a key.  A file is replaced in three steps: it is   *)
(* read, its .tmp is written, and the .tmp is renamed to it                *)
(* (writeFileAtomic).  That of vault.json, which nothing reads, is left    *)
(* out, and a .tmp is written as a whole or not at all.                    *)
(***************************************************************************)
EXTENDS Naturals, Sequences, FiniteSets

CONSTANTS
    Proc,      \* processes that may run at one time
    MaxItems,  \* bound: entries written
    MaxKeys,   \* bound: data keys made
    MaxStarts  \* bound: processes started

ASSUME VaultAssumption ==
    {MaxItems, MaxKeys, MaxStarts} \subseteq Nat

VARIABLES
    auto,      \* this is Windows, with automatic protection
    vault,     \* vault.json: the data key it holds and its protector
    chunks,    \* what each file holds
    tmp,       \* what its .tmp holds
    proc,      \* the processes
    keys,      \* how many data keys were made
    starts,    \* how many processes have started
    items,     \* how many entries were written
    chosen     \* history: the user turned protection off and not on since

vaultVars == <<auto, vault, chunks, tmp, proc, keys, starts, items, chosen>>

\* Reseal goes through the files in this order: those written as a whole
\* (identity.key; peers.json and outbox.json are alike), then those of lines
\* (dropped.log and the histories are alike).
Files == <<"identity", "outbox", "history">>
File == {"identity", "outbox", "history"}
Whole == {"identity", "outbox"}

DataKey == 1..MaxKeys
Plain == 0
Protector == {"windows", "passphrase"}
NoVault == [key |-> Plain, by |-> "nobody"]

\* The entry an older version left in a file, and a line that was not readable.
Old == MaxItems + 1
Unreadable == MaxItems + 2
Item == 1..(MaxItems + 2)
Chunk == [item : Item, key : DataKey \union {Plain}]

ItemsOf(cs) == {c.item : c \in cs}
SealedWith(k, is) == {[item |-> i, key |-> k] : i \in is}
FileOf(at) == Files[at]

Command == {"node", "off", "windows", "passphrase"}

Gone == [cmd |-> "node", at |-> "gone", had |-> FALSE, key |-> Plain, from |-> Plain, to |-> Plain,
         by |-> "nobody", file |-> 1, buf |-> {}]

VaultInit ==
    /\ auto \in BOOLEAN
    /\ vault = NoVault
    /\ chunks \in [File -> {{}, SealedWith(Plain, {Old})}]
    /\ tmp = [f \in File |-> {}]
    /\ proc = [p \in Proc |-> Gone]
    /\ keys = 0 /\ starts = 0 /\ items = 0
    /\ chosen = FALSE

-----------------------------------------------------------------------------
Goes(p, at) == proc' = [proc EXCEPT ![p].at = at]

\* Mutant: only the files written as a whole are looked at.
NeedsSealingWhole == \E f \in Whole : \E c \in chunks[f] : c.key = Plain

\* NeedsSealing: some file holds something plain.
NeedsSealing == \E f \in File : \E c \in chunks[f] : c.key = Plain

\* It looks at everything in the directory of the histories, and so at a .tmp
\* there, but not at that of dropped.log or of a whole file.
PlainLeftOver == \E c \in tmp["history"] : c.key = Plain

\* A command starts.  protect refuses while a background process answers.
Start(p, cmd) ==
    /\ proc[p].at = "gone" /\ starts < MaxStarts
    /\ cmd # "node" => \A q \in Proc : proc[q].at # "up"
    /\ cmd = "windows" => auto
    /\ starts' = starts + 1
    /\ proc' = [proc EXCEPT ![p] = [Gone EXCEPT !.cmd = cmd, !.at = "unlock", !.had = (vault # NoVault)]]
    /\ UNCHANGED <<auto, vault, chunks, tmp, keys, items, chosen>>

\* Reseal begins: files are read with the key from, and written with to.
Resealing(r, from, to) == [r EXCEPT !.at = "read", !.from = from, !.to = to, !.file = 1, !.key = to]

\* NewKey, to be protected next.
Protects(r, by) == [r EXCEPT !.at = "wrap", !.key = keys', !.by = by]

\* unlockData.
Unlock(p) ==
    LET r == proc[p] IN
    /\ r.at = "unlock"
    /\ \/ /\ vault = NoVault /\ ~auto
          /\ Goes(p, "ready") /\ UNCHANGED keys
       \/ /\ vault = NoVault /\ auto
          /\ keys < MaxKeys /\ keys' = keys + 1
          /\ proc' = [proc EXCEPT ![p] = Protects(r, "windows")]
       \/ /\ vault # NoVault /\ (NeedsSealing \/ PlainLeftOver)
          /\ proc' = [proc EXCEPT ![p] = Resealing(r, vault.key, vault.key)]
          /\ UNCHANGED keys
       \/ /\ vault # NoVault /\ ~NeedsSealing
          /\ proc' = [proc EXCEPT ![p] = [r EXCEPT !.at = "ready", !.key = vault.key]]
          /\ UNCHANGED keys
       \* A wrong passphrase.
       \/ /\ vault.by = "passphrase"
          /\ Goes(p, "gone") /\ UNCHANGED keys
    /\ UNCHANGED <<auto, vault, chunks, tmp, starts, items, chosen>>

\* Mutant: the files are sealed before the key is kept.
WrapLast(p) ==
    LET r == proc[p] IN
    /\ r.at = "wrap"
    /\ proc' = [proc EXCEPT ![p] = Resealing(r, Plain, r.key)]
    /\ UNCHANGED <<auto, vault, chunks, tmp, keys, starts, items, chosen>>

\* Wrap: vault.json is written; turnOnProtection then seals every file.
Wrap(p) ==
    LET r == proc[p] IN
    /\ r.at = "wrap"
    /\ vault' = [key |-> r.key, by |-> r.by]
    /\ proc' = [proc EXCEPT ![p] = Resealing(r, Plain, r.key)]
    /\ UNCHANGED <<auto, chunks, tmp, keys, starts, items, chosen>>

-----------------------------------------------------------------------------
(* Reseal.                                                                 *)

\* The file opens with the key k.
Opens(f, k) == \A c \in chunks[f] : c.key \in {Plain, k}

\* Mutant: lines written by a process without the key are skipped.
ReadSealed(f, k) == {c.item : c \in {x \in chunks[f] : x.key = k}}

\* What readSealed and openLine make of a file: a line that does not open is
\* replaced, unless no key is there to try.
Read(f, k) ==
    {IF c.key \in {Plain, k} THEN c.item ELSE Unreadable : c \in chunks[f]}

\* Where a command goes on after Reseal.
AfterReseal(r) ==
    IF r.cmd = "off" /\ r.to = Plain THEN "remove"
    ELSE IF r.cmd = "passphrase" /\ r.by = "passphrase" THEN "done"
    ELSE "ready"

\* Reseal is done with a file: it goes on with the next.
Onward(r) ==
    [r EXCEPT !.file = IF @ < Len(Files) THEN @ + 1 ELSE 1, !.buf = {},
              !.at = IF r.file < Len(Files) THEN "read" ELSE AfterReseal(r)]

\* writeFileAtomic: the .tmp of a file is written ...
WritesTmp(f, cs) == tmp' = [tmp EXCEPT ![f] = cs] /\ UNCHANGED chunks

\* ... and renamed to it, if no other process has just done that.
Renames(f) ==
    /\ tmp[f] # {}
    /\ chunks' = [chunks EXCEPT ![f] = tmp[f]]
    /\ tmp' = [tmp EXCEPT ![f] = {}]

\* A file is read with the old key, unless it is not there ...
ResealReads(p) ==
    LET r == proc[p]
        f == FileOf(r.file) IN
    /\ r.at = "read"
    /\ proc' = [proc EXCEPT ![p] =
          IF chunks[f] = {} THEN Onward(r)
          ELSE IF Opens(f, r.from) \/ (f \notin Whole /\ r.from # Plain)
          THEN [r EXCEPT !.at = "write", !.buf = Read(f, r.from)]
          ELSE [r EXCEPT !.at = "gone"]]
    /\ UNCHANGED <<auto, vault, chunks, tmp, keys, starts, items, chosen>>

\* ... written with the new one ...
ResealWrites(p) ==
    LET r == proc[p] IN
    /\ r.at = "write"
    /\ WritesTmp(FileOf(r.file), SealedWith(r.to, r.buf))
    /\ Goes(p, "rename")
    /\ UNCHANGED <<auto, vault, keys, starts, items, chosen>>

\* ... and replaced.
ResealRenames(p) ==
    LET r == proc[p] IN
    /\ r.at = "rename"
    /\ Renames(FileOf(r.file))
    /\ proc' = [proc EXCEPT ![p] = Onward(r)]
    /\ UNCHANGED <<auto, vault, keys, starts, items, chosen>>

-----------------------------------------------------------------------------
(* protect, once its data is unlocked.                                     *)

\* protect off.
ProtectOff(p) ==
    LET r == proc[p] IN
    /\ r.at = "ready" /\ r.cmd = "off"
    /\ proc' = [proc EXCEPT ![p] = IF r.had THEN Resealing(r, r.key, Plain) ELSE [r EXCEPT !.at = "done"]]
    /\ UNCHANGED <<auto, vault, chunks, tmp, keys, starts, items, chosen>>

\* ... whose last step is to remove vault.json.
RemoveVault(p) ==
    /\ proc[p].at = "remove"
    /\ vault' = NoVault
    /\ Goes(p, "done")
    /\ chosen' = TRUE
    /\ UNCHANGED <<auto, chunks, tmp, keys, starts, items>>

\* switchProtector: the data key stays the one it was, or there is a first one.
SwitchProtector(p) ==
    LET r == proc[p] IN
    /\ r.at = "ready" /\ r.cmd \in Protector
    /\ \/ /\ r.key # Plain
          /\ vault' = [key |-> r.key, by |-> r.cmd]
          /\ Goes(p, "done") /\ UNCHANGED keys
       \/ /\ r.key = Plain
          /\ keys < MaxKeys /\ keys' = keys + 1
          /\ proc' = [proc EXCEPT ![p] = Protects(r, r.cmd)]
          /\ UNCHANGED vault
    /\ chosen' = FALSE
    /\ UNCHANGED <<auto, chunks, tmp, starts, items>>

-----------------------------------------------------------------------------
(* A node (the background process or the menu), and the end of processes.  *)

\* LoadOrCreateIdentity: the identity is loaded, or one is made and written ...
NodeRuns(p) ==
    LET r == proc[p] IN
    /\ r.at = "ready" /\ r.cmd = "node"
    /\ IF chunks["identity"] = {}
       THEN Goes(p, "made") /\ WritesTmp("identity", SealedWith(r.key, {Old}))
       ELSE Opens("identity", r.key) /\ Goes(p, "up") /\ UNCHANGED <<chunks, tmp>>
    /\ UNCHANGED <<auto, vault, keys, starts, items, chosen>>

\* ... and its file is there.
KeepsIdentity(p) ==
    /\ proc[p].at = "made"
    /\ Renames("identity")
    /\ Goes(p, "up")
    /\ UNCHANGED <<auto, vault, keys, starts, items, chosen>>

\* AppendHistory and AppendDropped.
AppendsLine(p) ==
    /\ proc[p].at = "up" /\ items < MaxItems
    /\ items' = items + 1
    /\ chunks' = [chunks EXCEPT !["history"] = @ \union SealedWith(proc[p].key, {items'})]
    /\ UNCHANGED <<auto, vault, tmp, proc, keys, starts, chosen>>

\* tarion send: the line is written by a process that did not unlock the key.
SendAppends(p) ==
    /\ proc[p].at = "up" /\ items < MaxItems
    /\ items' = items + 1
    /\ chunks' = [chunks EXCEPT !["history"] = @ \union SealedWith(Plain, {items'})]
    /\ UNCHANGED <<auto, vault, tmp, proc, keys, starts, chosen>>

\* Enqueue (savePeers is alike): the file is read ...
Loads(p) ==
    /\ proc[p].at = "up" /\ items < MaxItems
    /\ Opens("outbox", proc[p].key)
    /\ proc' = [proc EXCEPT ![p].at = "save", ![p].buf = ItemsOf(chunks["outbox"])]
    /\ UNCHANGED <<auto, vault, chunks, tmp, keys, starts, items, chosen>>

\* ... written with one entry more ...
Saves(p) ==
    LET r == proc[p] IN
    /\ r.at = "save" /\ items < MaxItems
    /\ items' = items + 1
    /\ WritesTmp("outbox", SealedWith(r.key, r.buf \union {items'}))
    /\ proc' = [proc EXCEPT ![p].at = "saved", ![p].buf = @ \union {items'}]
    /\ UNCHANGED <<auto, vault, keys, starts, chosen>>

\* ... and replaced.
Saved(p) ==
    /\ proc[p].at = "saved"
    /\ Renames("outbox")
    /\ proc' = [proc EXCEPT ![p].at = "up", ![p].buf = {}]
    /\ UNCHANGED <<auto, vault, keys, starts, items, chosen>>

\* A process is done, or stops wherever it is.
Stops(p) ==
    /\ proc[p].at # "gone"
    /\ proc' = [proc EXCEPT ![p] = Gone]
    /\ UNCHANGED <<auto, vault, chunks, tmp, keys, starts, items, chosen>>

-----------------------------------------------------------------------------
VaultStep(p) ==
    \/ \E cmd \in Command : Start(p, cmd)
    \/ Unlock(p) \/ Wrap(p) \/ ResealReads(p) \/ ResealWrites(p) \/ ResealRenames(p)
    \/ ProtectOff(p) \/ RemoveVault(p) \/ SwitchProtector(p)
    \/ NodeRuns(p) \/ KeepsIdentity(p) \/ AppendsLine(p) \/ SendAppends(p)
    \/ Loads(p) \/ Saves(p) \/ Saved(p)
    \/ Stops(p)

VaultNext == \E p \in Proc : VaultStep(p)

VaultSpec == VaultInit /\ [][VaultNext]_vaultVars

-----------------------------------------------------------------------------
(* Properties.                                                             *)

ProcType ==
    [cmd : Command,
     at : {"gone", "unlock", "wrap", "read", "write", "rename", "ready", "remove", "done",
           "made", "up", "save", "saved"},
     had : BOOLEAN, key : DataKey \union {Plain}, from : DataKey \union {Plain},
     to : DataKey \union {Plain}, by : Protector \union {"nobody"},
     file : 1..Len(Files), buf : SUBSET Item]

\* The variables hold values of their types.
VaultTypeOK ==
    /\ auto \in BOOLEAN
    /\ vault \in [key : DataKey, by : Protector] \union {NoVault}
    /\ chunks \in [File -> SUBSET Chunk] /\ tmp \in [File -> SUBSET Chunk]
    /\ proc \in [Proc -> ProcType]
    /\ keys \in 0..MaxKeys /\ starts \in 0..MaxStarts /\ items \in 0..MaxItems
    /\ chosen \in BOOLEAN

\* Whatever is sealed can be opened with the key in vault.json, at any moment
\* and so after a stop at any moment (turnOnProtection keeps the key before it
\* seals the first file, protect off removes it after it unsealed the last).
KeyIsKept == \A f \in File : \A c \in chunks[f] : c.key # Plain => c.key = vault.key

\* Nothing that was written disappears from its file, however often the files
\* are sealed, unsealed and sealed again, and wherever that stopped (Reseal).
NothingLost ==
    [][\A f \in File : ItemsOf(chunks[f]) \subseteq ItemsOf(chunks'[f])]_vaultVars

\* When a node is ready to run with a key, none of its files holds anything
\* plain: also not after a stop halfway through sealing or unsealing them, nor
\* after a line that tarion send wrote (NeedsSealing, Reseal).  A .tmp that such
\* a stop left behind is not one of its files: see NoPlainLeftOver.
SealedWhenReady ==
    [][\A p \in Proc : (proc'[p].at = "ready" /\ proc[p].at # "ready" /\ proc'[p].key # Plain)
           => \A f \in File : \A c \in chunks'[f] : c.key # Plain]_vaultVars

-----------------------------------------------------------------------------
(* What the program says, which it does not keep.                          *)

\* "It stays that way: Tarion only encrypts new installs automatically." (what
\* protect off prints): once off, protection stays off until the user turns it
\* on.
OffStaysOff == chosen => vault = NoVault

\* "Your identity key, chat history, contacts, queued messages and dropped-message
\* log are encrypted on disk" (README.md:209): when a node is ready to run with a
\* key, the .tmp of a file it has holds nothing plain either.
NoPlainLeftOver ==
    \A p \in Proc : (proc[p].at = "ready" /\ proc[p].cmd = "node" /\ proc[p].key # Plain) =>
        \A f \in File : chunks[f] # {} => \A c \in tmp[f] : c.key # Plain
=============================================================================
