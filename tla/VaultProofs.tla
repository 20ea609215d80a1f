----------------------------- MODULE VaultProofs -----------------------------
(***************************************************************************)
(* Proofs about Vault: whatever is read, sealed or unsealed, and wherever  *)
(* that stops, files keep what they hold and vault.json the key to it.     *)
(*                                                                         *)
(* Reseal's comment forbids that anything else writes the files meanwhile. *)
(* The theorems about the files hold for any number of processes that keep *)
(* to that, and for any number of entries, keys and starts; the one about  *)
(* types holds without it.                                                 *)
(***************************************************************************)
EXTENDS Vault, TLAPS

\* The process makes the first key or changes the key of the files.
Rewriting(p) == proc[p].at \in {"wrap", "read", "write", "rename", "remove"}

\* The process has read the outbox, to replace it.
Saving(p) == proc[p].at \in {"save", "saved"}

\* The process found no identity and makes one.
Making(p) == proc[p].at = "made"

\* What Reseal's comment asks: whoever rewrites the files is alone with them.
\* Others have not unlocked them yet (they wait for the passphrase) or are done
\* with them.  No two replace the outbox at once, nor make the first identity,
\* which would be two keys (Vault has one entry for either).
RewritesAlone ==
    \A p, q \in Proc : p # q =>
        /\ Rewriting(p) => proc[q].at \in {"gone", "unlock", "done"}
        /\ ~(Saving(p) /\ Saving(q)) /\ ~(Making(p) /\ Making(q))

\* The hypothesis asks nothing of a single process, whatever it does to the files.
LEMMA OneIsAlone ==
    ASSUME \A p, q \in Proc : p = q
    PROVE  []RewritesAlone
<1>1. RewritesAlone
  BY DEF RewritesAlone
<1> QED
  BY <1>1, PTL

-----------------------------------------------------------------------------
(* The inductive invariant.                                                *)

\* Every chunk of the file is of that key, in the files cs.
AllBy(cs, f, k) == \A c \in cs[f] : c.key = k

\* A process that is sealing, unsealing or sealing again: what it has done with
\* is sealed with the new key, what it has not can be read with the old one, and
\* the key of both is in vault.json, which is v.
ResealSound(r, v, cs) ==
    /\ r.key = r.to
    /\ r.from \in {Plain, v.key} /\ r.to \in {Plain, v.key}
    /\ r.from = Plain => \A i \in r.file..Len(Files) : AllBy(cs, FileOf(i), Plain)
    /\ r.to = Plain => r.cmd = "off"
    /\ \A i \in 1..(r.file - 1) : AllBy(cs, FileOf(i), r.to)
    /\ r.at \in {"write", "rename"} => r.buf = ItemsOf(cs[FileOf(r.file)])

\* What a process knows of the key, the files and what it wrote to their .tmp,
\* wherever it is.
ProcSound(r, v, cs, ts) ==
    /\ r.at = "unlock" => r.key = Plain
    /\ r.at = "wrap" => v = NoVault /\ r.key # Plain /\ r.by # "nobody"
    /\ r.at \in {"read", "write", "rename"} => ResealSound(r, v, cs)
    /\ r.at \notin {"read", "write", "rename"} => r.file = 1
    /\ r.at = "rename" => ts[FileOf(r.file)] = SealedWith(r.to, r.buf)
    /\ r.at \in {"ready", "made", "up", "save", "saved"} => r.key = v.key
    /\ r.at = "made" => /\ ts["identity"] \in {{}, SealedWith(v.key, {Old})}
                       /\ ItemsOf(cs["identity"]) \subseteq {Old}
    /\ r.at = "save" => r.buf = ItemsOf(cs["outbox"])
    /\ r.at = "saved" => /\ ts["outbox"] = SealedWith(v.key, r.buf)
                        /\ ItemsOf(cs["outbox"]) \subseteq r.buf
    /\ r.at = "remove" => \A f \in File : AllBy(cs, f, Plain)

VaultIInv == VaultTypeOK /\ KeyIsKept /\ \A p \in Proc : ProcSound(proc[p], vault, chunks, tmp)

-----------------------------------------------------------------------------
LEMMA FilesFacts ==
    /\ Len(Files) = 3
    /\ FileOf(1) = "identity" /\ FileOf(2) = "outbox" /\ FileOf(3) = "history"
  BY DEF Files, FileOf

LEMMA FilePlaces ==
    /\ \A i \in 1..3 : FileOf(i) \in File
    /\ \A i, j \in 1..3 : FileOf(i) = FileOf(j) => i = j
    /\ \A f \in File : \E i \in 1..3 : f = FileOf(i)
<1>1. \A i \in 1..3 : i = 1 \/ i = 2 \/ i = 3
  OBVIOUS
<1> QED
  BY <1>1, FilesFacts DEF File

LEMMA GoneIsProc == Gone \in ProcType
<1>1. 1 \in 1..Len(Files) /\ {} \in SUBSET Item
  BY FilesFacts
<1> QED
  BY <1>1 DEF Gone, ProcType, Command

\* Sealing keeps what there is.
LEMMA SealedItems ==
    ASSUME NEW k, NEW is
    PROVE  ItemsOf(SealedWith(k, is)) = is
<1>1. \A i \in is : [item |-> i, key |-> k] \in SealedWith(k, is)
  BY DEF SealedWith
<1>2. \A i \in is : i \in ItemsOf(SealedWith(k, is))
  <2> TAKE i \in is
  <2>1. [item |-> i, key |-> k].item = i
    OBVIOUS
  <2> QED
    BY <1>1, <2>1 DEF ItemsOf
<1>3. \A i \in ItemsOf(SealedWith(k, is)) : i \in is
  BY DEF ItemsOf, SealedWith
<1> QED
  BY <1>2, <1>3

LEMMA VaultInitially == VaultInit => VaultIInv
<1> SUFFICES ASSUME VaultInit PROVE VaultIInv
  OBVIOUS
<1>1. Old \in Item
  BY VaultAssumption DEF Old, Item
<1>2. \A f \in File : chunks[f] \in SUBSET Chunk /\ AllBy(chunks, f, Plain)
  BY <1>1 DEF VaultInit, SealedWith, Chunk, AllBy
<1>3. chunks \in [File -> SUBSET Chunk] /\ tmp \in [File -> SUBSET Chunk]
  BY <1>2 DEF VaultInit
<1>4. Gone \in ProcType
  BY GoneIsProc
<1>5. VaultTypeOK
  <2>1. proc \in [Proc -> ProcType]
    BY <1>4 DEF VaultInit
  <2>2. keys \in 0..MaxKeys /\ starts \in 0..MaxStarts /\ items \in 0..MaxItems
    BY VaultAssumption DEF VaultInit
  <2>3. auto \in BOOLEAN /\ vault = NoVault /\ chosen \in BOOLEAN
    BY DEF VaultInit
  <2> QED
    BY <1>3, <2>1, <2>2, <2>3 DEF VaultTypeOK
<1>6. KeyIsKept
  BY <1>2 DEF KeyIsKept, AllBy
<1>7. \A p \in Proc : ProcSound(proc[p], vault, chunks, tmp)
  BY DEF VaultInit, ProcSound, Gone
<1> QED
  BY <1>5, <1>6, <1>7 DEF VaultIInv

-----------------------------------------------------------------------------
(* Types, with any processes at once.                                      *)

\* A process that is about to write vault.json has a key and a protector.
HasKey == \A p \in Proc : proc[p].at = "wrap" => proc[p].key # Plain /\ proc[p].by # "nobody"

Typed == VaultTypeOK /\ HasKey

\* A step of p to r, which leaves everything but the files and keys' counts as it is.
LEMMA TypedMove ==
    ASSUME Typed, NEW p \in Proc, NEW r \in ProcType, proc' = [proc EXCEPT ![p] = r],
           r.at = "wrap" => r.key # Plain /\ r.by # "nobody",
           UNCHANGED auto, vault' \in [key : DataKey, by : Protector] \union {NoVault},
           chunks' \in [File -> SUBSET Chunk], tmp' \in [File -> SUBSET Chunk], chosen' \in BOOLEAN,
           keys' \in 0..MaxKeys, starts' \in 0..MaxStarts, items' \in 0..MaxItems
    PROVE  Typed'
<1>1. VaultTypeOK'
  BY DEF Typed, VaultTypeOK
<1>2. HasKey'
  BY DEF Typed, VaultTypeOK, HasKey
<1> QED
  BY <1>1, <1>2 DEF Typed

\* What is sealed with a key there is are chunks.
LEMMA SealedChunks ==
    ASSUME NEW k \in DataKey \union {Plain}, NEW is \in SUBSET Item
    PROVE  SealedWith(k, is) \in SUBSET Chunk
  BY DEF SealedWith, Chunk

LEMMA TypedKeys ==
    ASSUME Typed, keys < MaxKeys, keys' = keys + 1
    PROVE  keys' \in DataKey /\ keys' # Plain /\ keys' \in 0..MaxKeys
  BY VaultAssumption DEF Typed, VaultTypeOK, DataKey, Plain

\* The steps that start a process, and those that decide how it goes on.
LEMMA TypedDecides ==
    ASSUME Typed, NEW p \in Proc,
           \/ \E cmd \in Command : Start(p, cmd)
           \/ Unlock(p) \/ Wrap(p) \/ ProtectOff(p) \/ RemoveVault(p) \/ SwitchProtector(p) \/ Stops(p)
    PROVE  Typed'
<1> DEFINE r == proc[p]
<1>0. /\ r \in ProcType /\ proc \in [Proc -> ProcType]
      /\ chunks \in [File -> SUBSET Chunk] /\ tmp \in [File -> SUBSET Chunk]
      /\ vault \in [key : DataKey, by : Protector] \union {NoVault} /\ vault.key \in DataKey \union {Plain}
      /\ keys \in 0..MaxKeys /\ starts \in 0..MaxStarts /\ items \in 0..MaxItems /\ chosen \in BOOLEAN
  BY DEF Typed, VaultTypeOK, NoVault
<1>a. \A at \in {"gone", "ready", "done"} : [r EXCEPT !.at = at] \in ProcType
  BY <1>0 DEF ProcType
<1>b. \A from, to \in DataKey \union {Plain} : Resealing(r, from, to) \in ProcType
  <2>1. 1 \in 1..Len(Files)
    BY FilesFacts
  <2> HIDE DEF r
  <2> QED
    BY <1>0, <2>1 DEF ProcType, Resealing
<1>c. \A at \in {"gone", "ready", "done"} : [r EXCEPT !.at = at].at = at
  BY <1>0 DEF ProcType
<1>d. \A from, to \in DataKey \union {Plain} : Resealing(r, from, to).at = "read"
  BY <1>0 DEF ProcType, Resealing
<1>1. ASSUME NEW cmd \in Command, Start(p, cmd) PROVE Typed'
  <2> DEFINE s == [Gone EXCEPT !.cmd = cmd, !.at = "unlock", !.had = (vault # NoVault)]
  <2>1. s \in ProcType
    BY GoneIsProc DEF ProcType
  <2>2. s.at = "unlock"
    BY DEF Gone
  <2>5. starts < MaxStarts /\ starts' = starts + 1
    BY <1>1 DEF Start
  <2>3. starts' \in 0..MaxStarts
    BY <1>0, <2>5, VaultAssumption
  <2> HIDE DEF s
  <2>4. proc' = [proc EXCEPT ![p] = s]
    BY <1>1 DEF Start, s
  <2> QED
    BY <1>0, <1>1, <2>1, <2>2, <2>3, <2>4, TypedMove DEF Start
<1>2. CASE Unlock(p)
  <2>0. UNCHANGED <<auto, vault, chunks, tmp, starts, items, chosen>>
    BY <1>2 DEF Unlock
  <2>1. ASSUME NEW at \in {"gone", "ready"}, Goes(p, at), UNCHANGED keys PROVE Typed'
    BY <1>0, <1>a, <1>c, <2>0, <2>1, TypedMove DEF Goes
  <2>2. CASE keys < MaxKeys /\ keys' = keys + 1 /\ proc' = [proc EXCEPT ![p] = Protects(r, "windows")]
    <3>1. Protects(r, "windows") \in ProcType /\ Protects(r, "windows").key # Plain
          /\ Protects(r, "windows").by # "nobody"
      BY <1>0, <2>2, TypedKeys DEF Protects, ProcType, Protector
    <3> QED
      BY <1>0, <2>0, <2>2, <3>1, TypedKeys, TypedMove
  <2>3. CASE UNCHANGED keys /\ proc' = [proc EXCEPT ![p] = Resealing(r, vault.key, vault.key)]
    BY <1>0, <1>b, <1>d, <2>0, <2>3, TypedMove
  <2>4. CASE UNCHANGED keys /\ proc' = [proc EXCEPT ![p] = [r EXCEPT !.at = "ready", !.key = vault.key]]
    <3>1. [r EXCEPT !.at = "ready", !.key = vault.key] \in ProcType
          /\ [r EXCEPT !.at = "ready", !.key = vault.key].at = "ready"
      BY <1>0 DEF ProcType
    <3> QED
      BY <1>0, <2>0, <2>4, <3>1, TypedMove
  <2> QED
    BY <1>2, <2>1, <2>2, <2>3, <2>4 DEF Unlock
<1>3. CASE Wrap(p)
  <2>1. r.key \in DataKey /\ r.by \in Protector /\ Plain \in DataKey \union {Plain}
    BY <1>0, <1>3 DEF Wrap, Typed, HasKey, ProcType
  <2> HIDE DEF r
  <2> QED
    BY <1>0, <1>b, <1>d, <1>3, <2>1, TypedMove DEF Wrap, r
<1>4. CASE ProtectOff(p)
  <2>1. r.key \in DataKey \union {Plain} /\ Plain \in DataKey \union {Plain}
    BY <1>0 DEF ProcType
  <2>2. CASE proc' = [proc EXCEPT ![p] = Resealing(r, r.key, Plain)]
    BY <1>0, <1>b, <1>d, <1>4, <2>1, <2>2, TypedMove DEF ProtectOff
  <2>3. CASE proc' = [proc EXCEPT ![p] = [r EXCEPT !.at = "done"]]
    BY <1>0, <1>a, <1>c, <1>4, <2>3, TypedMove DEF ProtectOff
  <2> QED
    BY <1>4, <2>2, <2>3 DEF ProtectOff
<1>5. CASE RemoveVault(p)
  BY <1>0, <1>a, <1>c, <1>5, TypedMove DEF RemoveVault, Goes
<1>6. CASE SwitchProtector(p)
  <2>0. r.cmd \in Protector /\ chosen' = FALSE /\ UNCHANGED <<auto, chunks, tmp, starts, items>>
    BY <1>6 DEF SwitchProtector
  <2>1. CASE r.key # Plain /\ vault' = [key |-> r.key, by |-> r.cmd] /\ Goes(p, "done") /\ UNCHANGED keys
    <3>1. vault' \in [key : DataKey, by : Protector]
      BY <1>0, <2>0, <2>1 DEF ProcType
    <3> QED
      BY <1>0, <1>a, <1>c, <2>0, <2>1, <3>1, TypedMove DEF Goes
  <2>2. CASE keys < MaxKeys /\ keys' = keys + 1 /\ proc' = [proc EXCEPT ![p] = Protects(r, r.cmd)]
             /\ UNCHANGED vault
    <3>1. Protects(r, r.cmd) \in ProcType /\ Protects(r, r.cmd).key # Plain
          /\ Protects(r, r.cmd).by # "nobody"
      BY <1>0, <2>0, <2>2, TypedKeys DEF Protects, ProcType, Protector
    <3> QED
      BY <1>0, <2>0, <2>2, <3>1, TypedKeys, TypedMove
  <2> QED
    BY <1>6, <2>1, <2>2 DEF SwitchProtector
<1>7. CASE Stops(p)
  <2>1. Gone.at = "gone"
    BY DEF Gone
  <2> QED
    BY <1>0, <1>7, <2>1, GoneIsProc, TypedMove DEF Stops
<1> QED
  BY <1>1, <1>2, <1>3, <1>4, <1>5, <1>6, <1>7

\* The steps that read files, or write their .tmp, or a line.
LEMMA TypedWrites ==
    ASSUME Typed, NEW p \in Proc,
           \/ ResealReads(p) \/ ResealWrites(p) \/ ResealRenames(p)
           \/ NodeRuns(p) \/ KeepsIdentity(p) \/ AppendsLine(p) \/ SendAppends(p)
           \/ Loads(p) \/ Saves(p) \/ Saved(p)
    PROVE  Typed'
<1> DEFINE r == proc[p]
<1>0. /\ r \in ProcType /\ proc \in [Proc -> ProcType]
      /\ chunks \in [File -> SUBSET Chunk] /\ tmp \in [File -> SUBSET Chunk]
      /\ vault \in [key : DataKey, by : Protector] \union {NoVault}
      /\ keys \in 0..MaxKeys /\ starts \in 0..MaxStarts /\ items \in 0..MaxItems /\ chosen \in BOOLEAN
  BY DEF Typed, VaultTypeOK
<1>k. r.key \in DataKey \union {Plain} /\ r.to \in DataKey \union {Plain} /\ r.buf \in SUBSET Item
      /\ r.file \in 1..3
  BY <1>0, FilesFacts DEF ProcType
<1>f. "identity" \in File /\ "outbox" \in File /\ "history" \in File /\ FileOf(r.file) \in File
  BY <1>k, FilePlaces DEF File
<1>i. items < MaxItems /\ items' = items + 1 => items' \in Item /\ items' \in 0..MaxItems
  BY <1>0, VaultAssumption DEF Item
<1>o. Onward(r) \in ProcType /\ Onward(r).at \in {"read", "remove", "done", "ready"}
  <2> DEFINE at == IF r.file < Len(Files) THEN "read" ELSE AfterReseal(r)
             file == IF r.file < Len(Files) THEN r.file + 1 ELSE 1
             s == [r EXCEPT !.file = file, !.buf = {}, !.at = at]
  <2>1. at \in {"read", "remove", "done", "ready"} /\ file \in 1..Len(Files) /\ {} \in SUBSET Item
    BY <1>k, FilesFacts DEF AfterReseal
  <2>2. Onward(r) = s
    BY DEF Onward
  <2> HIDE DEF at, file
  <2> QED
    BY <1>0, <2>1, <2>2 DEF ProcType
<1>r. ASSUME NEW f \in File, Renames(f)
      PROVE  chunks' \in [File -> SUBSET Chunk] /\ tmp' \in [File -> SUBSET Chunk]
  BY <1>0, <1>r DEF Renames
<1>w. ASSUME NEW f \in File, NEW cs \in SUBSET Chunk, WritesTmp(f, cs)
      PROVE  chunks' \in [File -> SUBSET Chunk] /\ tmp' \in [File -> SUBSET Chunk]
  BY <1>0, <1>w DEF WritesTmp
<1>a. \A at \in {"gone", "rename", "made", "up"} :
          [r EXCEPT !.at = at] \in ProcType /\ [r EXCEPT !.at = at].at = at
  BY <1>0 DEF ProcType
<1>b. \A at \in {"write", "save", "saved", "up"}, is \in SUBSET Item :
          [r EXCEPT !.at = at, !.buf = is] \in ProcType /\ [r EXCEPT !.at = at, !.buf = is].at = at
  BY <1>0 DEF ProcType
<1>1. CASE ResealReads(p)
  <2> DEFINE read == Read(FileOf(r.file), r.from)
  <2>1. read \in SUBSET Item
    <3>1. chunks[FileOf(r.file)] \in SUBSET Chunk /\ Unreadable \in Item
      BY <1>0, <1>f, VaultAssumption DEF Unreadable, Item
    <3> QED
      BY <3>1 DEF Read, Chunk
  <2>2. \/ proc' = [proc EXCEPT ![p] = Onward(r)]
        \/ proc' = [proc EXCEPT ![p] = [r EXCEPT !.at = "write", !.buf = read]]
        \/ proc' = [proc EXCEPT ![p] = [r EXCEPT !.at = "gone"]]
    BY <1>1 DEF ResealReads
  <2> HIDE DEF read
  <2>3. UNCHANGED <<auto, vault, chunks, tmp, keys, starts, items, chosen>>
    BY <1>1 DEF ResealReads
  <2>4. CASE proc' = [proc EXCEPT ![p] = Onward(r)]
    BY <1>0, <1>o, <2>3, <2>4, TypedMove
  <2>5. CASE proc' = [proc EXCEPT ![p] = [r EXCEPT !.at = "write", !.buf = read]]
    BY <1>0, <1>b, <2>1, <2>3, <2>5, TypedMove
  <2>6. CASE proc' = [proc EXCEPT ![p] = [r EXCEPT !.at = "gone"]]
    BY <1>0, <1>a, <2>3, <2>6, TypedMove
  <2> QED
    BY <2>2, <2>4, <2>5, <2>6
<1>2. CASE ResealWrites(p)
  <2>1. SealedWith(r.to, r.buf) \in SUBSET Chunk
    BY <1>k, SealedChunks
  <2>2. chunks' \in [File -> SUBSET Chunk] /\ tmp' \in [File -> SUBSET Chunk]
    BY <1>f, <1>w, <1>2, <2>1 DEF ResealWrites
  <2> QED
    BY <1>0, <1>a, <1>2, <2>2, TypedMove DEF ResealWrites, Goes
<1>3. CASE ResealRenames(p)
  <2>1. chunks' \in [File -> SUBSET Chunk] /\ tmp' \in [File -> SUBSET Chunk]
    BY <1>f, <1>r, <1>3 DEF ResealRenames
  <2> QED
    BY <1>0, <1>o, <1>3, <2>1, TypedMove DEF ResealRenames
<1>4. CASE NodeRuns(p)
  <2>1. SealedWith(r.key, {Old}) \in SUBSET Chunk
    BY <1>k, SealedChunks, VaultAssumption DEF Old, Item
  <2>2. chunks' \in [File -> SUBSET Chunk] /\ tmp' \in [File -> SUBSET Chunk]
    BY <1>0, <1>f, <1>w, <1>4, <2>1 DEF NodeRuns
  <2> QED
    BY <1>0, <1>a, <1>4, <2>2, TypedMove DEF NodeRuns, Goes
<1>5. CASE KeepsIdentity(p)
  <2>1. chunks' \in [File -> SUBSET Chunk] /\ tmp' \in [File -> SUBSET Chunk]
    BY <1>f, <1>r, <1>5 DEF KeepsIdentity
  <2> QED
    BY <1>0, <1>a, <1>5, <2>1, TypedMove DEF KeepsIdentity, Goes
<1>6. CASE AppendsLine(p) \/ SendAppends(p)
  <2>1. items' \in Item /\ items' \in 0..MaxItems
    BY <1>i, <1>6 DEF AppendsLine, SendAppends
  <2>2. SealedWith(r.key, {items'}) \in SUBSET Chunk /\ SealedWith(Plain, {items'}) \in SUBSET Chunk
    BY <1>k, <2>1, SealedChunks
  <2>3. chunks' \in [File -> SUBSET Chunk]
    BY <1>0, <1>f, <1>6, <2>2 DEF AppendsLine, SendAppends
  <2>4. VaultTypeOK'
    BY <1>6, <2>1, <2>3 DEF Typed, VaultTypeOK, AppendsLine, SendAppends
  <2>5. HasKey'
    BY <1>6 DEF Typed, HasKey, AppendsLine, SendAppends
  <2> QED
    BY <2>4, <2>5 DEF Typed
<1>7. CASE Loads(p)
  <2> DEFINE read == ItemsOf(chunks["outbox"])
  <2>1. read \in SUBSET Item
    BY <1>0, <1>f DEF ItemsOf, Chunk
  <2>2. proc' = [proc EXCEPT ![p] = [r EXCEPT !.at = "save", !.buf = read]]
    BY <1>7 DEF Loads
  <2> HIDE DEF read
  <2>3. [r EXCEPT !.at = "save", !.buf = read] \in ProcType
        /\ [r EXCEPT !.at = "save", !.buf = read].at = "save"
    BY <1>b, <2>1
  <2> QED
    BY <1>0, <1>7, <2>2, <2>3, TypedMove DEF Loads
<1>8. CASE Saves(p)
  <2>1. items' \in Item /\ items' \in 0..MaxItems /\ r.buf \union {items'} \in SUBSET Item
    BY <1>i, <1>k, <1>8 DEF Saves
  <2>2. SealedWith(r.key, r.buf \union {items'}) \in SUBSET Chunk
    BY <1>k, <2>1, SealedChunks
  <2>3. chunks' \in [File -> SUBSET Chunk] /\ tmp' \in [File -> SUBSET Chunk]
    BY <1>f, <1>w, <1>8, <2>2 DEF Saves
  <2>4. proc' = [proc EXCEPT ![p] = [r EXCEPT !.at = "saved", !.buf = r.buf \union {items'}]]
    BY <1>8 DEF Saves
  <2>5. [r EXCEPT !.at = "saved", !.buf = r.buf \union {items'}] \in ProcType
        /\ [r EXCEPT !.at = "saved", !.buf = r.buf \union {items'}].at = "saved"
    BY <1>b, <2>1
  <2> QED
    BY <1>0, <1>8, <2>1, <2>3, <2>4, <2>5, TypedMove DEF Saves
<1>9. CASE Saved(p)
  <2>1. chunks' \in [File -> SUBSET Chunk] /\ tmp' \in [File -> SUBSET Chunk]
    BY <1>f, <1>r, <1>9 DEF Saved
  <2>2. proc' = [proc EXCEPT ![p] = [r EXCEPT !.at = "up", !.buf = {}]] /\ {} \in SUBSET Item
    BY <1>9 DEF Saved
  <2>3. [r EXCEPT !.at = "up", !.buf = {}] \in ProcType /\ [r EXCEPT !.at = "up", !.buf = {}].at = "up"
    BY <1>b, <2>2
  <2> QED
    BY <1>0, <1>9, <2>1, <2>2, <2>3, TypedMove DEF Saved
<1> QED
  BY <1>1, <1>2, <1>3, <1>4, <1>5, <1>6, <1>7, <1>8, <1>9

LEMMA TypedStep == Typed /\ [VaultNext]_vaultVars => Typed'
<1>1. Typed /\ VaultNext => Typed'
  BY TypedDecides, TypedWrites DEF VaultNext, VaultStep
<1>2. Typed /\ UNCHANGED vaultVars => Typed'
  BY DEF Typed, VaultTypeOK, HasKey, vaultVars
<1> QED
  BY <1>1, <1>2

\* The variables hold values of their types, whatever processes run at once
\* (protect.go, internal/vault).
THEOREM VaultTypes == VaultSpec => []VaultTypeOK
<1>1. VaultInit => Typed
  <2>1. VaultInit => VaultTypeOK
    BY VaultInitially DEF VaultIInv
  <2>2. VaultInit => HasKey
    BY DEF HasKey, VaultInit, Gone
  <2> QED
    BY <2>1, <2>2 DEF Typed
<1>2. Typed => VaultTypeOK
  BY DEF Typed
<1> QED
  BY <1>1, <1>2, TypedStep, PTL DEF VaultSpec

-----------------------------------------------------------------------------
(* The steps.                                                              *)

LEMMA TypesOf ==
    ASSUME VaultTypeOK, NEW p \in Proc
    PROVE  /\ proc[p] \in ProcType
           /\ vault = NoVault \/ (vault.key \in DataKey /\ vault.key # Plain)
           /\ vault = NoVault => vault.key = Plain
           /\ \A f \in File : chunks[f] \in SUBSET Chunk /\ tmp[f] \in SUBSET Chunk
  BY VaultAssumption DEF VaultTypeOK, DataKey, Plain, NoVault

\* What a step has to keep: of the processes the one that takes it, the others
\* are gone.
Kept(p) == VaultTypeOK' /\ KeyIsKept' /\ ProcSound(proc[p], vault, chunks, tmp)'

\* A step that only moves the process, and perhaps makes a key, keeps the rest.
LEMMA OnlyMoves ==
    ASSUME VaultIInv, NEW p \in Proc, NEW r \in ProcType, proc' = [proc EXCEPT ![p] = r],
           UNCHANGED <<auto, vault, chunks, tmp, items, chosen>>, keys' \in 0..MaxKeys,
           starts' \in 0..MaxStarts, ProcSound(r, vault', chunks', tmp')
    PROVE  Kept(p)
<1>1. proc'[p] = r
  BY DEF VaultIInv, VaultTypeOK
<1>2. VaultTypeOK'
  BY DEF VaultIInv, VaultTypeOK
<1>3. KeyIsKept'
  BY DEF VaultIInv, KeyIsKept
<1>4. ProcSound(proc[p], vault, chunks, tmp)'
  BY <1>1
<1> QED
  BY <1>2, <1>3, <1>4 DEF Kept

LEMMA StartKeeps ==
    ASSUME VaultIInv, NEW p \in Proc, NEW cmd \in Command, Start(p, cmd)
    PROVE  Kept(p)
<1> DEFINE r == [Gone EXCEPT !.cmd = cmd, !.at = "unlock", !.had = (vault # NoVault)]
<1>1. r \in ProcType
  BY GoneIsProc DEF ProcType
<1>2. ProcSound(r, vault', chunks', tmp')
  BY DEF Gone, ProcSound, Start
<1>3. keys' \in 0..MaxKeys /\ starts' \in 0..MaxStarts
  BY VaultAssumption DEF Start, VaultIInv, VaultTypeOK
<1> QED
  BY <1>1, <1>2, <1>3, OnlyMoves DEF Start

LEMMA UnlockKeeps ==
    ASSUME VaultIInv, NEW p \in Proc, Unlock(p)
    PROVE  Kept(p)
<1> DEFINE r == proc[p]
<1>0. r \in ProcType /\ ProcSound(r, vault, chunks, tmp) /\ r.at = "unlock" /\ r.key = Plain /\ r.file = 1
  BY TypesOf DEF VaultIInv, ProcSound, Unlock
<1>1. CASE vault = NoVault /\ Goes(p, "ready") /\ UNCHANGED keys
  <2> DEFINE s == [r EXCEPT !.at = "ready"]
  <2>1. s \in ProcType
    BY <1>0 DEF ProcType
  <2>2. ProcSound(s, vault', chunks', tmp')
    BY <1>0, <1>1, FilesFacts DEF ProcSound, Unlock, NoVault, ProcType
  <2>3. proc' = [proc EXCEPT ![p] = s]
    BY <1>1 DEF Goes
  <2> QED
    BY <1>1, <2>1, <2>2, <2>3, OnlyMoves DEF Unlock, VaultIInv, VaultTypeOK
<1>2. CASE /\ vault = NoVault /\ keys < MaxKeys /\ keys' = keys + 1
           /\ proc' = [proc EXCEPT ![p] = Protects(r, "windows")]
  <2>1. keys' \in DataKey /\ keys' \in 0..MaxKeys /\ keys' # Plain
    BY <1>2, VaultAssumption DEF VaultIInv, VaultTypeOK, DataKey, Plain
  <2>2. Protects(r, "windows") \in ProcType
    BY <1>0, <2>1 DEF ProcType, Protects, Protector
  <2>3. ProcSound(Protects(r, "windows"), vault', chunks', tmp')
    BY <1>0, <1>2, <2>1 DEF ProcSound, Protects, Unlock, ProcType
  <2> QED
    BY <1>2, <2>1, <2>2, <2>3, OnlyMoves DEF Unlock, VaultIInv, VaultTypeOK
<1>3. CASE vault # NoVault /\ UNCHANGED keys
           /\ proc' = [proc EXCEPT ![p] = Resealing(r, vault.key, vault.key)]
  <2> DEFINE s == Resealing(r, vault.key, vault.key)
  <2>1. vault.key \in DataKey /\ vault.key # Plain
    BY <1>3, TypesOf DEF VaultIInv
  <2>2. s \in ProcType
    BY <1>0, <2>1, FilesFacts DEF ProcType, Resealing
  <2>3. ResealSound(s, vault', chunks')
    BY <1>0, <1>3, <2>1, FilesFacts DEF ResealSound, Resealing, Unlock, ProcType
  <2>4. ProcSound(s, vault', chunks', tmp')
    BY <1>0, <2>3 DEF ProcSound, Resealing, ProcType
  <2> QED
    BY <1>3, <2>2, <2>4, OnlyMoves DEF Unlock, VaultIInv, VaultTypeOK
<1>4. CASE vault # NoVault /\ UNCHANGED keys
           /\ proc' = [proc EXCEPT ![p] = [r EXCEPT !.at = "ready", !.key = vault.key]]
  <2> DEFINE s == [r EXCEPT !.at = "ready", !.key = vault.key]
  <2>1. vault.key \in DataKey
    BY <1>4, TypesOf DEF VaultIInv
  <2>2. s \in ProcType
    BY <1>0, <2>1 DEF ProcType
  <2>3. ProcSound(s, vault', chunks', tmp')
    BY <1>0, <1>4, <2>1 DEF ProcSound, Unlock, ProcType
  <2> QED
    BY <1>4, <2>2, <2>3, OnlyMoves DEF Unlock, VaultIInv, VaultTypeOK
<1>5. CASE Goes(p, "gone") /\ UNCHANGED keys
  <2> DEFINE s == [r EXCEPT !.at = "gone"]
  <2>1. s \in ProcType
    BY <1>0 DEF ProcType
  <2>2. ProcSound(s, vault', chunks', tmp')
    BY <1>0, FilesFacts DEF ProcSound, ProcType
  <2>3. proc' = [proc EXCEPT ![p] = s]
    BY <1>5 DEF Goes
  <2> QED
    BY <1>5, <2>1, <2>2, <2>3, OnlyMoves DEF Unlock, VaultIInv, VaultTypeOK
<1> QED
  BY <1>1, <1>2, <1>3, <1>4, <1>5 DEF Unlock

LEMMA WrapKeeps ==
    ASSUME VaultIInv, NEW p \in Proc, Wrap(p)
    PROVE  Kept(p)
<1> DEFINE r == proc[p]
           s == Resealing(r, Plain, r.key)
<1>0. /\ r \in ProcType /\ r.at = "wrap" /\ vault = NoVault /\ r.key # Plain /\ r.by # "nobody"
      /\ vault' = [key |-> r.key, by |-> r.by] /\ proc' = [proc EXCEPT ![p] = s]
      /\ UNCHANGED <<auto, chunks, tmp, keys, starts, items, chosen>>
  BY TypesOf DEF VaultIInv, ProcSound, Wrap
<1>1. r.key \in DataKey /\ r.by \in Protector
  BY <1>0 DEF ProcType
<1>2. \A f \in File : AllBy(chunks, f, Plain)
  BY <1>0, TypesOf DEF VaultIInv, KeyIsKept, AllBy
<1>3. s \in ProcType
  <2>1. 1 \in 1..Len(Files) /\ Plain \in DataKey \union {Plain} /\ r.key \in DataKey \union {Plain}
    BY <1>1, FilesFacts
  <2> HIDE DEF r
  <2> QED
    BY <1>0, <2>1 DEF ProcType, Resealing
<1>4. VaultTypeOK'
  BY <1>0, <1>1, <1>3 DEF VaultIInv, VaultTypeOK
<1>5. KeyIsKept'
  BY <1>0, <1>2 DEF KeyIsKept, AllBy
<1>6. vault' # NoVault /\ vault'.key = r.key
  BY <1>0 DEF NoVault
<1>7. /\ s.at = "read" /\ s.key = r.key /\ s.from = Plain /\ s.to = r.key /\ s.file = 1
  BY <1>0 DEF Resealing, ProcType
<1>8. \A i \in 1..Len(Files) : AllBy(chunks', FileOf(i), Plain)
  BY <1>0, <1>2, FilesFacts, FilePlaces
<1>9. ResealSound(s, vault', chunks')
  BY <1>0, <1>6, <1>7, <1>8 DEF ResealSound
<1>10. ProcSound(s, vault', chunks', tmp')
  BY <1>7, <1>9 DEF ProcSound
<1>11. proc'[p] = s
  BY <1>0 DEF VaultIInv, VaultTypeOK
<1> QED
  BY <1>4, <1>5, <1>10, <1>11 DEF Kept

\* A file that is read with a key that opens all of it: nothing is unreadable.
LEMMA ReadsAll ==
    ASSUME NEW f \in File, NEW k, Opens(f, k)
    PROVE  Read(f, k) = ItemsOf(chunks[f])
  BY DEF Opens, Read, ItemsOf

\* With the key in vault.json or, where all is plain, without it, a file opens.
LEMMA ResealOpens ==
    ASSUME VaultIInv, NEW p \in Proc, proc[p].at = "read"
    PROVE  FileOf(proc[p].file) \in File /\ Opens(FileOf(proc[p].file), proc[p].from)
<1> DEFINE r == proc[p]
<1>1. r \in ProcType /\ ResealSound(r, vault, chunks)
  BY TypesOf DEF VaultIInv, ProcSound
<1>2. r.file \in 1..3 /\ r.file \in r.file..Len(Files)
  BY <1>1, FilesFacts DEF ProcType
<1>3. FileOf(r.file) \in File
  BY <1>2, FilePlaces
<1>4. CASE r.from = Plain
  <2>1. AllBy(chunks, FileOf(r.file), Plain)
    BY <1>1, <1>2, <1>4 DEF ResealSound
  <2> QED
    BY <1>3, <2>1 DEF AllBy, Opens
<1>5. CASE r.from = vault.key
  BY <1>3, <1>5 DEF VaultIInv, KeyIsKept, Opens
<1> QED
  BY <1>1, <1>3, <1>4, <1>5 DEF ResealSound

\* Once the last file is sealed with the new key, all of them are.
LEMMA LastFile ==
    ASSUME NEW r \in ProcType, ResealSound(r, vault, chunks), ~(r.file < Len(Files)),
           AllBy(chunks', FileOf(r.file), r.to),
           \A g \in File \ {FileOf(r.file)} : chunks'[g] = chunks[g]
    PROVE  r.file = 3 /\ \A g \in File : AllBy(chunks', g, r.to)
<1>1. r.file = 3
  BY FilesFacts DEF ProcType
<1>2. ASSUME NEW g \in File PROVE AllBy(chunks', g, r.to)
  <2>1. PICK i \in 1..3 : g = FileOf(i)
    BY FilePlaces
  <2>2. CASE i = 3
    BY <1>1, <2>1, <2>2
  <2>3. CASE i # 3
    <3>1. i \in 1..(r.file - 1) /\ g # FileOf(r.file)
      BY <1>1, <2>1, <2>3, FilePlaces
    <3> QED
      BY <2>1, <3>1 DEF ResealSound, AllBy
  <2> QED
    BY <2>2, <2>3
<1> QED
  BY <1>1, <1>2

\* A process goes on with the next file when the one it was at is sealed with the
\* new key, or is not there, and no other file changed.
LEMMA OnwardKeeps ==
    ASSUME VaultIInv, NEW p \in Proc, proc[p].at \in {"read", "rename"},
           AllBy(chunks', FileOf(proc[p].file), proc[p].to),
           \A g \in File \ {FileOf(proc[p].file)} : chunks'[g] = chunks[g],
           chunks' \in [File -> SUBSET Chunk], tmp' \in [File -> SUBSET Chunk], KeyIsKept',
           proc' = [proc EXCEPT ![p] = Onward(proc[p])],
           UNCHANGED <<auto, vault, keys, starts, items, chosen>>
    PROVE  Kept(p)
<1> DEFINE r == proc[p]
           f == FileOf(r.file)
           s == [r EXCEPT !.file = IF @ < Len(Files) THEN @ + 1 ELSE 1, !.buf = {},
                          !.at = IF r.file < Len(Files) THEN "read" ELSE AfterReseal(r)]
<1>1. /\ r \in ProcType /\ ResealSound(r, vault, chunks) /\ r.file \in 1..3 /\ f \in File
      /\ AllBy(chunks', f, r.to) /\ KeyIsKept'
      /\ chunks' \in [File -> SUBSET Chunk] /\ tmp' \in [File -> SUBSET Chunk]
      /\ \A g \in File \ {f} : chunks'[g] = chunks[g]
  <2>1. r \in ProcType /\ ResealSound(r, vault, chunks)
    BY TypesOf DEF VaultIInv, ProcSound
  <2>2. r.file \in 1..3 /\ f \in File
    BY <2>1, FilesFacts, FilePlaces DEF ProcType
  <2> QED
    BY <2>1, <2>2
<1>2. proc' = [proc EXCEPT ![p] = s] /\ UNCHANGED <<auto, vault, keys, starts, items, chosen>>
  BY DEF Onward
<1>3. s \in ProcType
  <2>1. AfterReseal(r) \in {"remove", "done", "ready"}
    BY DEF AfterReseal
  <2>2. (IF r.file < Len(Files) THEN r.file + 1 ELSE 1) \in 1..Len(Files) /\ {} \in SUBSET Item
    BY <1>1, FilesFacts
  <2> HIDE DEF r
  <2> QED
    BY <1>1, <2>1, <2>2 DEF ProcType
<1>4. VaultTypeOK'
  BY <1>1, <1>2, <1>3 DEF VaultIInv, VaultTypeOK
<1>5. proc'[p] = s
  BY <1>2 DEF VaultIInv, VaultTypeOK
<1>6. CASE r.file < Len(Files)
  <2>1. /\ s.at = "read" /\ s.file = r.file + 1 /\ s.key = r.key /\ s.from = r.from /\ s.to = r.to
        /\ s.cmd = r.cmd
    BY <1>1, <1>6 DEF ProcType
  <2>2. \A i \in 1..(s.file - 1) : AllBy(chunks', FileOf(i), s.to)
    <3> TAKE i \in 1..(s.file - 1)
    <3>1. i \in 1..3 /\ (i = r.file \/ i \in 1..(r.file - 1))
      BY <1>1, <2>1
    <3>2. CASE i = r.file
      BY <1>1, <2>1, <3>2
    <3>3. CASE i \in 1..(r.file - 1)
      <4>1. FileOf(i) # f /\ FileOf(i) \in File
        BY <1>1, <3>1, <3>3, FilePlaces
      <4>2. AllBy(chunks, FileOf(i), r.to)
        BY <1>1, <3>3 DEF ResealSound
      <4> QED
        BY <1>1, <2>1, <4>1, <4>2 DEF AllBy
    <3> QED
      BY <3>1, <3>2, <3>3
  <2>3. s.from = Plain => \A i \in s.file..Len(Files) : AllBy(chunks', FileOf(i), Plain)
    <3> SUFFICES ASSUME s.from = Plain, NEW i \in s.file..Len(Files)
                 PROVE  AllBy(chunks', FileOf(i), Plain)
      OBVIOUS
    <3>1. i \in 1..3 /\ i # r.file /\ i \in r.file..Len(Files)
      BY <1>1, <2>1, FilesFacts
    <3>2. FileOf(i) # f /\ FileOf(i) \in File
      BY <1>1, <3>1, FilePlaces
    <3>3. AllBy(chunks, FileOf(i), Plain)
      BY <1>1, <2>1, <3>1 DEF ResealSound
    <3> QED
      BY <1>1, <3>2, <3>3 DEF AllBy
  <2>4. ResealSound(s, vault', chunks')
    BY <1>1, <1>2, <2>1, <2>2, <2>3 DEF ResealSound
  <2>5. ProcSound(s, vault', chunks', tmp')
    BY <2>1, <2>4 DEF ProcSound
  <2> QED
    BY <1>1, <1>4, <1>5, <2>5 DEF Kept
<1>7. CASE ~(r.file < Len(Files))
  <2>1. s.at = AfterReseal(r) /\ s.file = 1 /\ s.key = r.to /\ s.had = r.had /\ r.file = 3
    BY <1>1, <1>7, FilesFacts DEF ProcType, ResealSound
  <2>2. \A g \in File : AllBy(chunks', g, r.to)
    BY <1>1, <1>7, LastFile
  <2>3. r.to \in {Plain, vault'.key} /\ (r.to = Plain => r.cmd = "off")
    BY <1>1, <1>2 DEF ResealSound
  <2>4. CASE r.cmd = "off" /\ r.to = Plain
    <3>1. s.at = "remove"
      BY <2>1, <2>4 DEF AfterReseal
    <3> QED
      BY <1>1, <1>4, <1>5, <2>1, <2>2, <2>4, <3>1 DEF Kept, ProcSound
  <2>5. CASE ~(r.cmd = "off" /\ r.to = Plain)
    <3>1. s.at \in {"done", "ready"}
      BY <2>1, <2>5 DEF AfterReseal
    <3> QED
      BY <1>1, <1>4, <1>5, <2>1, <2>3, <2>5, <3>1 DEF Kept, ProcSound
  <2> QED
    BY <2>4, <2>5
<1> QED
  BY <1>6, <1>7

LEMMA ResealReadsKeeps ==
    ASSUME VaultIInv, NEW p \in Proc, ResealReads(p)
    PROVE  Kept(p)
<1> DEFINE r == proc[p]
           f == FileOf(r.file)
           s == [r EXCEPT !.at = "write", !.buf = Read(f, r.from)]
<1>0. r \in ProcType /\ ResealSound(r, vault, chunks) /\ r.at = "read"
  BY TypesOf DEF VaultIInv, ProcSound, ResealReads
<1>1. f \in File /\ Opens(f, r.from)
  BY <1>0, ResealOpens
<1>2. UNCHANGED <<auto, vault, chunks, tmp, keys, starts, items, chosen>>
  BY DEF ResealReads
<1>3. CASE chunks[f] = {}
  <2>1. proc' = [proc EXCEPT ![p] = Onward(r)]
    BY <1>3 DEF ResealReads
  <2>2. AllBy(chunks', f, r.to) /\ \A g \in File \ {f} : chunks'[g] = chunks[g]
    BY <1>2, <1>3 DEF AllBy
  <2>3. /\ chunks' \in [File -> SUBSET Chunk] /\ tmp' \in [File -> SUBSET Chunk] /\ KeyIsKept'
    BY <1>2 DEF VaultIInv, VaultTypeOK, KeyIsKept
  <2> QED
    BY <1>0, <1>2, <2>1, <2>2, <2>3, OnwardKeeps
<1>4. CASE chunks[f] # {}
  <2>1. proc' = [proc EXCEPT ![p] = s]
    BY <1>1, <1>4 DEF ResealReads
  <2>2. Read(f, r.from) = ItemsOf(chunks[f])
    BY <1>1, ReadsAll
  <2>3. ItemsOf(chunks[f]) \in SUBSET Item
    BY <1>1, TypesOf DEF VaultIInv, ItemsOf, Chunk
  <2>4. s \in ProcType
    BY <1>0, <2>2, <2>3 DEF ProcType
  <2>5. ResealSound(s, vault, chunks)
    BY <1>0, <2>2 DEF ResealSound, ProcType
  <2>6. ProcSound(s, vault, chunks, tmp)
    BY <1>0, <2>5 DEF ProcSound, ProcType
  <2>7. ProcSound(s, vault', chunks', tmp') /\ keys' \in 0..MaxKeys /\ starts' \in 0..MaxStarts
    BY <1>2, <2>6 DEF VaultIInv, VaultTypeOK
  <2> QED
    BY <1>2, <2>1, <2>4, <2>7, OnlyMoves
<1> QED
  BY <1>3, <1>4

\* A step that writes the .tmp of a file, and nothing else of the files.
LEMMA WritesKeeps ==
    ASSUME VaultIInv, NEW p \in Proc, NEW r \in ProcType, proc' = [proc EXCEPT ![p] = r],
           NEW f \in File, NEW cs \in SUBSET Chunk, WritesTmp(f, cs), items' \in 0..MaxItems,
           UNCHANGED <<auto, vault, keys, starts, chosen>>, ProcSound(r, vault', chunks', tmp')
    PROVE  Kept(p)
<1>1. chunks' = chunks /\ tmp' \in [File -> SUBSET Chunk]
  BY DEF VaultIInv, VaultTypeOK, WritesTmp
<1>2. VaultTypeOK' /\ proc'[p] = r
  BY <1>1 DEF VaultIInv, VaultTypeOK
<1>3. KeyIsKept'
  BY <1>1 DEF VaultIInv, KeyIsKept
<1> QED
  BY <1>2, <1>3 DEF Kept

LEMMA ResealWritesKeeps ==
    ASSUME VaultIInv, NEW p \in Proc, ResealWrites(p)
    PROVE  Kept(p)
<1> DEFINE r == proc[p]
           f == FileOf(r.file)
           s == [r EXCEPT !.at = "rename"]
<1>1. r \in ProcType /\ r.at = "write" /\ ResealSound(r, vault, chunks)
  BY TypesOf DEF VaultIInv, ProcSound, ResealWrites
<1>2. f \in File /\ r.to \in DataKey \union {Plain} /\ r.buf \in SUBSET Item
  BY <1>1, FilesFacts, FilePlaces DEF ProcType
<1>3. SealedWith(r.to, r.buf) \in SUBSET Chunk
  BY <1>2, SealedChunks
<1>4. /\ proc' = [proc EXCEPT ![p] = s] /\ WritesTmp(f, SealedWith(r.to, r.buf))
      /\ UNCHANGED <<auto, vault, keys, starts, items, chosen>>
  BY DEF ResealWrites, Goes
<1>5. /\ s \in ProcType /\ s.at = "rename" /\ s.file = r.file /\ s.to = r.to /\ s.buf = r.buf
      /\ s.key = r.key /\ s.from = r.from /\ s.cmd = r.cmd
  BY <1>1 DEF ProcType
<1>6. chunks' = chunks /\ tmp'[f] = SealedWith(r.to, r.buf)
  BY <1>2, <1>4 DEF WritesTmp, VaultIInv, VaultTypeOK
<1>7. ResealSound(s, vault', chunks')
  BY <1>1, <1>4, <1>5, <1>6 DEF ResealSound
<1>8. ProcSound(s, vault', chunks', tmp')
  BY <1>5, <1>6, <1>7 DEF ProcSound
<1>9. items' \in 0..MaxItems
  BY <1>4 DEF VaultIInv, VaultTypeOK
<1> QED
  BY <1>2, <1>3, <1>4, <1>5, <1>8, <1>9, WritesKeeps

\* What a file that is sealed again becomes: what was in it, each chunk with the
\* new key, and no other file changes.
LEMMA ResealRenamesFile ==
    ASSUME VaultIInv, NEW p \in Proc, ResealRenames(p)
    PROVE  LET r == proc[p]
               f == FileOf(r.file) IN
           /\ r \in ProcType /\ r.at = "rename" /\ ResealSound(r, vault, chunks)
           /\ r.file \in 1..3 /\ f \in File
           /\ AllBy(chunks', f, r.to)
           /\ \A g \in File \ {f} : chunks'[g] = chunks[g]
           /\ ItemsOf(chunks'[f]) = ItemsOf(chunks[f])
           /\ chunks' \in [File -> SUBSET Chunk] /\ tmp' \in [File -> SUBSET Chunk]
           /\ KeyIsKept'
<1> DEFINE r == proc[p]
           f == FileOf(r.file)
<1>1. r \in ProcType /\ r.at = "rename" /\ ResealSound(r, vault, chunks)
      /\ tmp[f] = SealedWith(r.to, r.buf) /\ r.buf = ItemsOf(chunks[f])
  BY TypesOf DEF VaultIInv, ProcSound, ResealSound, ResealRenames
<1>2. r.file \in 1..3 /\ f \in File
  BY <1>1, FilesFacts, FilePlaces DEF ProcType
<1>3. chunks' = [chunks EXCEPT ![f] = tmp[f]] /\ tmp' = [tmp EXCEPT ![f] = {}] /\ vault' = vault
  BY DEF ResealRenames, Renames
<1>4. chunks'[f] = SealedWith(r.to, ItemsOf(chunks[f])) /\ \A g \in File \ {f} : chunks'[g] = chunks[g]
  BY <1>1, <1>2, <1>3 DEF VaultIInv, VaultTypeOK
<1>5. AllBy(chunks', f, r.to)
  BY <1>4 DEF AllBy, SealedWith
<1>6. ItemsOf(chunks'[f]) = ItemsOf(chunks[f])
  BY <1>4, SealedItems
<1>7. chunks' \in [File -> SUBSET Chunk] /\ tmp' \in [File -> SUBSET Chunk]
  BY <1>2, <1>3 DEF VaultIInv, VaultTypeOK
<1>8. KeyIsKept'
  BY <1>1, <1>3, <1>4, <1>5 DEF VaultIInv, KeyIsKept, ResealSound, AllBy
<1> QED
  BY <1>1, <1>2, <1>4, <1>5, <1>6, <1>7, <1>8

LEMMA ResealRenamesKeeps ==
    ASSUME VaultIInv, NEW p \in Proc, ResealRenames(p)
    PROVE  Kept(p)
<1>1. proc[p].at = "rename" /\ proc' = [proc EXCEPT ![p] = Onward(proc[p])]
      /\ UNCHANGED <<auto, vault, keys, starts, items, chosen>>
  BY DEF ResealRenames
<1> QED
  BY <1>1, ResealRenamesFile, OnwardKeeps

LEMMA ProtectOffKeeps ==
    ASSUME VaultIInv, NEW p \in Proc, ProtectOff(p)
    PROVE  Kept(p)
<1> DEFINE r == proc[p]
<1>0. /\ r \in ProcType /\ ProcSound(r, vault, chunks, tmp) /\ r.at = "ready" /\ r.cmd = "off"
      /\ r.key = vault.key /\ r.file = 1
      /\ UNCHANGED <<auto, vault, chunks, tmp, keys, starts, items, chosen>>
  BY TypesOf DEF VaultIInv, ProcSound, ProtectOff
<1>1. keys' \in 0..MaxKeys /\ starts' \in 0..MaxStarts
  BY <1>0 DEF VaultIInv, VaultTypeOK
<1>2. CASE r.had /\ proc' = [proc EXCEPT ![p] = Resealing(r, r.key, Plain)]
  <2> DEFINE s == Resealing(r, r.key, Plain)
  <2>1. vault.key \in DataKey \union {Plain}
    BY <1>0 DEF ProcType
  <2>2. s \in ProcType /\ s.at = "read" /\ s.file = 1 /\ s.from = vault.key /\ s.to = Plain
        /\ s.key = Plain /\ s.cmd = "off"
    BY <1>0, <2>1, FilesFacts DEF ProcType, Resealing
  <2>5. vault.key = Plain => \A i \in 1..Len(Files) : AllBy(chunks, FileOf(i), Plain)
    BY FilesFacts, FilePlaces DEF VaultIInv, KeyIsKept, AllBy
  <2>3. ResealSound(s, vault', chunks')
    BY <1>0, <2>1, <2>2, <2>5 DEF ResealSound
  <2>4. ProcSound(s, vault', chunks', tmp')
    BY <2>2, <2>3 DEF ProcSound
  <2> QED
    BY <1>0, <1>1, <1>2, <2>2, <2>4, OnlyMoves
<1>3. CASE proc' = [proc EXCEPT ![p] = [r EXCEPT !.at = "done"]]
  <2>1. [r EXCEPT !.at = "done"] \in ProcType
    BY <1>0 DEF ProcType
  <2>2. ProcSound([r EXCEPT !.at = "done"], vault', chunks', tmp')
    BY <1>0 DEF ProcSound, ProcType
  <2> QED
    BY <1>0, <1>1, <1>3, <2>1, <2>2, OnlyMoves
<1> QED
  BY <1>2, <1>3 DEF ProtectOff

LEMMA RemoveVaultKeeps ==
    ASSUME VaultIInv, NEW p \in Proc, RemoveVault(p)
    PROVE  Kept(p)
<1> DEFINE s == [proc[p] EXCEPT !.at = "done"]
<1>0. /\ proc[p] \in ProcType /\ proc[p].file = 1 /\ vault' = NoVault /\ chosen' = TRUE
      /\ \A f \in File : AllBy(chunks, f, Plain)
      /\ proc' = [proc EXCEPT ![p] = s] /\ UNCHANGED <<auto, chunks, tmp, keys, starts, items>>
  BY TypesOf DEF VaultIInv, ProcSound, RemoveVault, Goes
<1>1. s \in ProcType /\ ProcSound(s, vault', chunks', tmp') /\ proc'[p] = s
  BY <1>0 DEF ProcType, ProcSound, VaultIInv, VaultTypeOK
<1>2. VaultTypeOK'
  BY <1>0, <1>1 DEF VaultIInv, VaultTypeOK
<1>3. KeyIsKept'
  BY <1>0 DEF KeyIsKept, AllBy
<1> QED
  BY <1>1, <1>2, <1>3 DEF Kept

LEMMA SwitchProtectorKeeps ==
    ASSUME VaultIInv, NEW p \in Proc, SwitchProtector(p)
    PROVE  Kept(p)
<1> DEFINE r == proc[p]
<1>0. /\ r \in ProcType /\ r.at = "ready" /\ r.cmd \in Protector /\ r.key = vault.key /\ r.file = 1
      /\ chosen' = FALSE /\ UNCHANGED <<auto, chunks, tmp, starts, items>>
  BY TypesOf DEF VaultIInv, ProcSound, SwitchProtector
<1>1. CASE /\ r.key # Plain /\ vault' = [key |-> r.key, by |-> r.cmd]
           /\ Goes(p, "done") /\ UNCHANGED keys
  <2> DEFINE s == [r EXCEPT !.at = "done"]
  <2>1. s \in ProcType /\ ProcSound(s, vault', chunks', tmp')
    BY <1>0 DEF ProcType, ProcSound
  <2>2. proc' = [proc EXCEPT ![p] = s] /\ proc'[p] = s
    BY <1>1 DEF Goes, VaultIInv, VaultTypeOK
  <2>3. vault'.key = vault.key /\ r.key \in DataKey
    BY <1>0, <1>1 DEF ProcType
  <2>4. VaultTypeOK'
    BY <1>0, <1>1, <2>1, <2>2, <2>3 DEF VaultIInv, VaultTypeOK
  <2>5. KeyIsKept'
    BY <1>0, <2>3 DEF VaultIInv, KeyIsKept
  <2> QED
    BY <2>1, <2>2, <2>4, <2>5 DEF Kept
<1>2. CASE /\ r.key = Plain /\ keys < MaxKeys /\ keys' = keys + 1
           /\ proc' = [proc EXCEPT ![p] = Protects(r, r.cmd)] /\ UNCHANGED vault
  <2> DEFINE s == Protects(r, r.cmd)
  <2>1. keys' \in DataKey /\ keys' \in 0..MaxKeys /\ keys' # Plain
    BY <1>2, VaultAssumption DEF VaultIInv, VaultTypeOK, DataKey, Plain
  <2>2. vault = NoVault
    BY <1>0, <1>2, TypesOf DEF VaultIInv
  <2>3. /\ s \in ProcType /\ s.at = "wrap" /\ s.key = keys' /\ s.by = r.cmd /\ s.file = 1
        /\ r.cmd # "nobody"
    BY <1>0, <2>1 DEF ProcType, Protects, Protector
  <2>4. ProcSound(s, vault', chunks', tmp')
    BY <1>2, <2>1, <2>2, <2>3 DEF ProcSound
  <2>5. VaultTypeOK' /\ KeyIsKept' /\ proc'[p] = s
    BY <1>0, <1>2, <2>1, <2>3 DEF VaultIInv, VaultTypeOK, KeyIsKept
  <2> QED
    BY <2>4, <2>5 DEF Kept
<1> QED
  BY <1>1, <1>2 DEF SwitchProtector

\* What is added to a file is of the key in vault.json or plain.
LEMMA Adds ==
    ASSUME VaultIInv, NEW f \in File, NEW k \in {Plain, vault.key}, NEW is \in SUBSET Item, NEW cs,
           cs \subseteq chunks[f] \union SealedWith(k, is),
           chunks' = [chunks EXCEPT ![f] = cs], UNCHANGED vault
    PROVE  chunks' \in [File -> SUBSET Chunk] /\ KeyIsKept'
<1>1. k \in DataKey \union {Plain}
  BY DEF VaultIInv, VaultTypeOK, NoVault
<1>2. SealedWith(k, is) \in SUBSET Chunk /\ \A c \in SealedWith(k, is) : c.key = k
  <2>1. \A i \in is : [item |-> i, key |-> k] \in Chunk /\ [item |-> i, key |-> k].key = k
    BY <1>1 DEF Chunk
  <2> QED
    BY <2>1 DEF SealedWith
<1>3. chunks[f] \in SUBSET Chunk
  BY DEF VaultIInv, VaultTypeOK
<1>4. chunks' \in [File -> SUBSET Chunk]
  BY <1>2, <1>3 DEF VaultIInv, VaultTypeOK
<1>5. KeyIsKept'
  BY <1>2 DEF VaultIInv, VaultTypeOK, KeyIsKept
<1> QED
  BY <1>4, <1>5

LEMMA NodeRunsKeeps ==
    ASSUME VaultIInv, NEW p \in Proc, NodeRuns(p)
    PROVE  Kept(p)
<1> DEFINE r == proc[p]
<1>0. /\ r \in ProcType /\ r.at = "ready" /\ r.key = vault.key /\ r.file = 1
      /\ UNCHANGED <<auto, vault, keys, starts, items, chosen>>
  BY TypesOf DEF VaultIInv, ProcSound, NodeRuns
<1>1. CASE chunks["identity"] = {}
  <2> DEFINE s == [r EXCEPT !.at = "made"]
             cs == SealedWith(r.key, {Old})
  <2>1. proc' = [proc EXCEPT ![p] = s] /\ WritesTmp("identity", cs)
    BY <1>1 DEF NodeRuns, Goes
  <2>2. s \in ProcType /\ s.at = "made" /\ s.key = vault.key /\ s.file = 1
    BY <1>0 DEF ProcType
  <2>3. cs \in SUBSET Chunk
    <3>1. {Old} \in SUBSET Item /\ r.key \in DataKey \union {Plain}
      BY <1>0, VaultAssumption DEF Old, Item, ProcType
    <3> QED
      BY <3>1, SealedChunks
  <2>4. "identity" \in File /\ items' \in 0..MaxItems
    BY <1>0 DEF File, VaultIInv, VaultTypeOK
  <2>5. tmp'["identity"] = cs /\ ItemsOf(chunks'["identity"]) = {}
    BY <1>1, <2>1, <2>4 DEF WritesTmp, VaultIInv, VaultTypeOK, ItemsOf
  <2>6. ProcSound(s, vault', chunks', tmp')
    BY <1>0, <2>2, <2>5 DEF ProcSound
  <2> QED
    BY <1>0, <2>1, <2>2, <2>3, <2>4, <2>6, WritesKeeps
<1>2. CASE chunks["identity"] # {}
  <2> DEFINE s == [r EXCEPT !.at = "up"]
  <2>1. proc' = [proc EXCEPT ![p] = s] /\ UNCHANGED <<chunks, tmp>>
    BY <1>2 DEF NodeRuns, Goes
  <2>2. s \in ProcType /\ ProcSound(s, vault', chunks', tmp')
    BY <1>0, <2>1 DEF ProcType, ProcSound
  <2>3. keys' \in 0..MaxKeys /\ starts' \in 0..MaxStarts
    BY <1>0 DEF VaultIInv, VaultTypeOK
  <2> QED
    BY <1>0, <2>1, <2>2, <2>3, OnlyMoves
<1> QED
  BY <1>1, <1>2

\* What the identity becomes: the one the process made, with its key.
LEMMA IdentityFile ==
    ASSUME VaultIInv, NEW p \in Proc, KeepsIdentity(p)
    PROVE  /\ proc[p] \in ProcType /\ proc[p].key = vault.key /\ proc[p].file = 1
           /\ chunks' = [chunks EXCEPT !["identity"] = SealedWith(vault.key, {Old})]
           /\ tmp' = [tmp EXCEPT !["identity"] = {}]
           /\ ItemsOf(chunks["identity"]) \subseteq {Old}
  BY TypesOf DEF VaultIInv, ProcSound, KeepsIdentity, Renames

LEMMA KeepsIdentityKeeps ==
    ASSUME VaultIInv, NEW p \in Proc, KeepsIdentity(p)
    PROVE  Kept(p)
<1> DEFINE r == proc[p]
           s == [r EXCEPT !.at = "up"]
           cs == SealedWith(vault.key, {Old})
<1>0. proc' = [proc EXCEPT ![p] = s] /\ UNCHANGED <<auto, vault, keys, starts, items, chosen>>
  BY DEF KeepsIdentity, Goes
<1>1. s \in ProcType /\ ProcSound(s, vault', chunks', tmp') /\ proc'[p] = s
  <2>1. r \in ProcType /\ r.key = vault.key /\ r.file = 1
    BY IdentityFile
  <2>2. s \in ProcType /\ s.at = "up" /\ s.key = vault.key /\ s.file = 1
    BY <2>1 DEF ProcType
  <2>3. ProcSound(s, vault', chunks', tmp')
    BY <1>0, <2>2 DEF ProcSound
  <2>4. proc'[p] = s
    BY <1>0 DEF VaultIInv, VaultTypeOK
  <2> QED
    BY <2>2, <2>3, <2>4
<1>2. {Old} \in SUBSET Item /\ "identity" \in File /\ cs \subseteq chunks["identity"] \union cs
  BY VaultAssumption DEF Old, Item, File
<1>3. chunks' = [chunks EXCEPT !["identity"] = cs] /\ tmp' \in [File -> SUBSET Chunk]
  BY IdentityFile DEF VaultIInv, VaultTypeOK
<1>4. chunks' \in [File -> SUBSET Chunk] /\ KeyIsKept'
  BY <1>0, <1>2, <1>3, Adds
<1>5. VaultTypeOK'
  BY <1>0, <1>1, <1>3, <1>4 DEF VaultIInv, VaultTypeOK
<1> QED
  BY <1>1, <1>4, <1>5 DEF Kept

\* A new entry is one of those that may be written.
LEMMA NewEntry ==
    ASSUME VaultIInv, items < MaxItems, items' = items + 1
    PROVE  items' \in Item /\ items' \in 0..MaxItems
  BY VaultAssumption DEF VaultIInv, VaultTypeOK, Item

LEMMA LinesKeep ==
    ASSUME VaultIInv, NEW p \in Proc, AppendsLine(p) \/ SendAppends(p)
    PROVE  Kept(p)
<1>0. /\ proc[p] \in ProcType /\ proc[p].at = "up" /\ proc[p].key = vault.key /\ proc[p].file = 1
      /\ items' \in Item /\ items' \in 0..MaxItems
      /\ UNCHANGED <<auto, vault, tmp, proc, keys, starts, chosen>>
  BY TypesOf, NewEntry DEF VaultIInv, ProcSound, AppendsLine, SendAppends
<1>1. PICK k \in {Plain, vault.key} :
        chunks' = [chunks EXCEPT !["history"] = chunks["history"] \union SealedWith(k, {items'})]
  BY <1>0 DEF AppendsLine, SendAppends
<1>2. "history" \in File /\ {items'} \in SUBSET Item
  BY <1>0 DEF File
<1>3. chunks' \in [File -> SUBSET Chunk] /\ KeyIsKept'
  BY <1>0, <1>1, <1>2, Adds
<1>4. ProcSound(proc[p], vault, chunks, tmp)'
  BY <1>0 DEF ProcSound
<1>5. VaultTypeOK'
  BY <1>0, <1>3 DEF VaultIInv, VaultTypeOK
<1> QED
  BY <1>3, <1>4, <1>5 DEF Kept

LEMMA LoadsKeeps ==
    ASSUME VaultIInv, NEW p \in Proc, Loads(p)
    PROVE  Kept(p)
<1> DEFINE r == proc[p]
           s == [r EXCEPT !.at = "save", !.buf = ItemsOf(chunks["outbox"])]
<1>0. /\ r \in ProcType /\ r.key = vault.key /\ r.file = 1
      /\ proc' = [proc EXCEPT ![p] = s]
      /\ UNCHANGED <<auto, vault, chunks, tmp, keys, starts, items, chosen>>
  BY TypesOf DEF VaultIInv, ProcSound, Loads
<1>1. ItemsOf(chunks["outbox"]) \in SUBSET Item
  BY TypesOf DEF VaultIInv, ItemsOf, Chunk, File
<1>2. s \in ProcType
  BY <1>0, <1>1 DEF ProcType
<1>3. ProcSound(s, vault', chunks', tmp')
  BY <1>0 DEF ProcSound, ProcType
<1>4. keys' \in 0..MaxKeys /\ starts' \in 0..MaxStarts
  BY <1>0 DEF VaultIInv, VaultTypeOK
<1> QED
  BY <1>0, <1>2, <1>3, <1>4, OnlyMoves

LEMMA SavesKeeps ==
    ASSUME VaultIInv, NEW p \in Proc, Saves(p)
    PROVE  Kept(p)
<1> DEFINE r == proc[p]
           is == r.buf \union {items'}
           s == [r EXCEPT !.at = "saved", !.buf = is]
           cs == SealedWith(r.key, is)
<1>0. /\ proc' = [proc EXCEPT ![p] = s] /\ WritesTmp("outbox", cs)
      /\ UNCHANGED <<auto, vault, keys, starts, chosen>>
  BY DEF Saves
<1>1. /\ r \in ProcType /\ r.key = vault.key /\ r.file = 1 /\ r.buf = ItemsOf(chunks["outbox"])
      /\ items' \in Item /\ items' \in 0..MaxItems
  BY TypesOf, NewEntry DEF VaultIInv, ProcSound, Saves
<1>2. is \in SUBSET Item /\ "outbox" \in File
  BY <1>1 DEF ProcType, File
<1>3. cs \in SUBSET Chunk
  BY <1>1, <1>2, SealedChunks DEF ProcType
<1>4. s \in ProcType /\ s.at = "saved" /\ s.key = vault.key /\ s.file = 1 /\ s.buf = is
  BY <1>1, <1>2 DEF ProcType
<1>5. tmp'["outbox"] = cs /\ chunks' = chunks
  BY <1>0, <1>2 DEF WritesTmp, VaultIInv, VaultTypeOK
<1>6. ProcSound(s, vault', chunks', tmp')
  BY <1>0, <1>1, <1>4, <1>5 DEF ProcSound
<1> QED
  BY <1>0, <1>1, <1>2, <1>3, <1>4, <1>6, WritesKeeps

\* What the outbox becomes: what the process has in hand, with its key.
LEMMA SavedFile ==
    ASSUME VaultIInv, NEW p \in Proc, Saved(p)
    PROVE  /\ proc[p] \in ProcType /\ proc[p].key = vault.key /\ proc[p].file = 1
           /\ chunks' = [chunks EXCEPT !["outbox"] = SealedWith(vault.key, proc[p].buf)]
           /\ tmp' = [tmp EXCEPT !["outbox"] = {}]
           /\ ItemsOf(chunks["outbox"]) \subseteq proc[p].buf
  BY TypesOf DEF VaultIInv, ProcSound, Saved, Renames

LEMMA SavedKeeps ==
    ASSUME VaultIInv, NEW p \in Proc, Saved(p)
    PROVE  Kept(p)
<1> DEFINE r == proc[p]
           s == [r EXCEPT !.at = "up", !.buf = {}]
           cs == SealedWith(vault.key, r.buf)
<1>0. proc' = [proc EXCEPT ![p] = s] /\ UNCHANGED <<auto, vault, keys, starts, items, chosen>>
  BY DEF Saved
<1>1. s \in ProcType /\ ProcSound(s, vault', chunks', tmp') /\ proc'[p] = s
  <2>1. r \in ProcType /\ r.key = vault.key /\ r.file = 1
    BY SavedFile
  <2>2. s \in ProcType /\ s.at = "up" /\ s.key = vault.key /\ s.file = 1
    BY <2>1 DEF ProcType
  <2>3. ProcSound(s, vault', chunks', tmp')
    BY <1>0, <2>2 DEF ProcSound
  <2>4. proc'[p] = s
    BY <1>0 DEF VaultIInv, VaultTypeOK
  <2> QED
    BY <2>2, <2>3, <2>4
<1>2. r.buf \in SUBSET Item /\ "outbox" \in File /\ cs \subseteq chunks["outbox"] \union cs
  BY SavedFile DEF ProcType, File
<1>3. chunks' = [chunks EXCEPT !["outbox"] = cs] /\ tmp' \in [File -> SUBSET Chunk]
  BY SavedFile DEF VaultIInv, VaultTypeOK
<1>4. chunks' \in [File -> SUBSET Chunk] /\ KeyIsKept'
  BY <1>0, <1>2, <1>3, Adds
<1>5. VaultTypeOK'
  BY <1>0, <1>1, <1>3, <1>4 DEF VaultIInv, VaultTypeOK
<1> QED
  BY <1>1, <1>4, <1>5 DEF Kept

LEMMA StopsKeeps ==
    ASSUME VaultIInv, NEW p \in Proc, Stops(p)
    PROVE  Kept(p)
<1>1. ProcSound(Gone, vault', chunks', tmp')
  BY DEF ProcSound, Gone
<1>2. keys' \in 0..MaxKeys /\ starts' \in 0..MaxStarts
  BY DEF Stops, VaultIInv, VaultTypeOK
<1> QED
  BY <1>1, <1>2, GoneIsProc, OnlyMoves DEF Stops

LEMMA StepKeeps ==
    ASSUME VaultIInv, NEW p \in Proc, VaultStep(p)
    PROVE  Kept(p)
  BY StartKeeps, UnlockKeeps, WrapKeeps, ResealReadsKeeps, ResealWritesKeeps, ResealRenamesKeeps,
     ProtectOffKeeps, RemoveVaultKeeps, SwitchProtectorKeeps, NodeRunsKeeps, KeepsIdentityKeeps,
     LinesKeep, LoadsKeeps, SavesKeeps, SavedKeeps, StopsKeeps DEF VaultStep

\* A step leaves the other processes where they are.
LEMMA OthersStay ==
    ASSUME VaultTypeOK, NEW p \in Proc, VaultStep(p), NEW q \in Proc, q # p
    PROVE  proc'[q] = proc[q]
  BY DEF VaultTypeOK, VaultStep, Start, Unlock, Goes, Protects, Resealing, Wrap, ResealReads,
         ResealWrites, ResealRenames, ProtectOff, RemoveVault, SwitchProtector, NodeRuns,
         KeepsIdentity, AppendsLine, SendAppends, Loads, Saves, Saved, Stops

\* What a process does that has not unlocked the files, or is done with them.
LEMMA WaitsOrDone ==
    ASSUME VaultIInv, NEW p \in Proc, VaultStep(p), proc[p].at \in {"gone", "unlock", "done"}
    PROVE  UNCHANGED <<vault, chunks, tmp>>
  BY DEF VaultStep, Start, Unlock, Wrap, ResealReads, ResealWrites, ResealRenames, ProtectOff,
         RemoveVault, SwitchProtector, NodeRuns, KeepsIdentity, AppendsLine, SendAppends, Loads,
         Saves, Saved, Stops

\* What is true of the key and the files after a step of a process that does not
\* rewrite them.
Spares(p) ==
    /\ vault'.key = vault.key
    /\ ~Saving(p) => chunks'["outbox"] = chunks["outbox"] /\ tmp'["outbox"] = tmp["outbox"]
    /\ tmp'["identity"] \in {tmp["identity"], {}, SealedWith(vault.key, {Old})}
    /\ ItemsOf(chunks'["identity"]) \subseteq ItemsOf(chunks["identity"]) \union {Old}

LEMMA KeepsKey ==
    ASSUME VaultIInv, NEW p \in Proc, VaultStep(p), ~Rewriting(p)
    PROVE  Spares(p)
<1>0. /\ "identity" \in File /\ "outbox" \in File /\ "history" \in File
      /\ chunks \in [File -> SUBSET Chunk] /\ tmp \in [File -> SUBSET Chunk]
  BY DEF File, VaultIInv, VaultTypeOK
<1>1. CASE SwitchProtector(p)
  <2>1. proc[p].key = vault.key
    BY <1>1 DEF VaultIInv, ProcSound, SwitchProtector
  <2> QED
    BY <1>1, <2>1 DEF SwitchProtector, Spares
<1>2. CASE NodeRuns(p)
  <2>1. proc[p].key = vault.key
    BY <1>2 DEF VaultIInv, ProcSound, NodeRuns
  <2>2. vault' = vault /\ chunks' = chunks
    BY <1>2 DEF NodeRuns, WritesTmp
  <2>3. tmp' = tmp \/ tmp' = [tmp EXCEPT !["identity"] = SealedWith(vault.key, {Old})]
    BY <1>2, <2>1 DEF NodeRuns, WritesTmp
  <2> QED
    BY <1>0, <2>2, <2>3 DEF Spares
<1>3. CASE KeepsIdentity(p)
  <2>1. vault' = vault
    BY <1>3 DEF KeepsIdentity
  <2>2. chunks'["identity"] = SealedWith(vault.key, {Old}) /\ chunks'["outbox"] = chunks["outbox"]
        /\ tmp'["identity"] = {} /\ tmp'["outbox"] = tmp["outbox"]
    BY <1>0, <1>3, IdentityFile
  <2>3. ItemsOf(chunks'["identity"]) = {Old}
    BY <2>2, SealedItems
  <2> QED
    BY <2>1, <2>2, <2>3 DEF Spares
<1>4. CASE AppendsLine(p) \/ SendAppends(p)
  <2>1. /\ vault' = vault /\ tmp' = tmp
        /\ chunks'["identity"] = chunks["identity"] /\ chunks'["outbox"] = chunks["outbox"]
    BY <1>0, <1>4 DEF AppendsLine, SendAppends
  <2> QED
    BY <2>1 DEF Spares, ItemsOf
<1>5. CASE Saves(p) \/ Saved(p)
  <2>1. vault' = vault /\ Saving(p)
    BY <1>5 DEF Saves, Saved, Saving
  <2>2. chunks'["identity"] = chunks["identity"] /\ tmp'["identity"] = tmp["identity"]
    BY <1>0, <1>5 DEF Saves, Saved, WritesTmp, Renames
  <2> QED
    BY <2>1, <2>2 DEF Spares, ItemsOf
<1>6. CASE UNCHANGED <<vault, chunks, tmp>>
  BY <1>6 DEF Spares
<1> QED
  BY <1>1, <1>2, <1>3, <1>4, <1>5, <1>6
     DEF Rewriting, VaultStep, Start, Unlock, Wrap, ResealReads, ResealWrites, ResealRenames,
         ProtectOff, RemoveVault, Loads, Stops

\* What another process knows stays true.
LEMMA OthersKeep ==
    ASSUME VaultIInv, RewritesAlone, NEW p \in Proc, VaultStep(p), NEW q \in Proc, q # p
    PROVE  ProcSound(proc[q], vault, chunks, tmp)'
<1>0. proc'[q] = proc[q] /\ ProcSound(proc[q], vault, chunks, tmp) /\ proc[q] \in ProcType
  BY OthersStay DEF VaultIInv, VaultTypeOK
<1>1. CASE proc[q].at \in {"gone", "unlock", "done"}
  BY <1>0, <1>1 DEF ProcSound
<1>2. CASE Rewriting(q)
  <2>1. UNCHANGED <<vault, chunks, tmp>>
    BY <1>2, WaitsOrDone DEF RewritesAlone
  <2> QED
    BY <1>0, <2>1
<1>3. CASE proc[q].at \in {"ready", "made", "up", "save", "saved"}
  <2>1. ~Rewriting(p) /\ (Saving(q) => ~Saving(p))
    BY <1>3 DEF RewritesAlone
  <2>2. Spares(p)
    BY <2>1, KeepsKey
  <2>3. CASE Saving(q)
    <3>1. /\ vault'.key = vault.key /\ chunks'["outbox"] = chunks["outbox"]
          /\ tmp'["outbox"] = tmp["outbox"] /\ ItemsOf(chunks'["outbox"]) = ItemsOf(chunks["outbox"])
      BY <2>1, <2>2, <2>3 DEF Spares, ItemsOf
    <3> QED
      BY <1>0, <2>3, <3>1 DEF ProcSound, Saving
  <2>4. CASE proc[q].at = "made"
    BY <1>0, <2>2, <2>4 DEF ProcSound, Spares
  <2>5. CASE proc[q].at \in {"ready", "up"}
    BY <1>0, <2>2, <2>5 DEF ProcSound, Spares
  <2> QED
    BY <1>3, <2>3, <2>4, <2>5 DEF Saving
<1> QED
  BY <1>0, <1>1, <1>2, <1>3 DEF ProcType, Rewriting

LEMMA VaultInductive ==
    ASSUME VaultIInv, RewritesAlone, [VaultNext]_vaultVars
    PROVE  VaultIInv'
<1>1. CASE VaultNext
  <2>1. PICK p \in Proc : VaultStep(p)
    BY <1>1 DEF VaultNext
  <2>2. Kept(p)
    BY <2>1, StepKeeps
  <2>3. \A q \in Proc : q # p => ProcSound(proc[q], vault, chunks, tmp)'
    BY <2>1, OthersKeep
  <2> QED
    BY <2>2, <2>3 DEF VaultIInv, Kept
<1>2. CASE UNCHANGED vaultVars
  BY <1>2 DEF vaultVars, VaultIInv, VaultTypeOK, KeyIsKept
<1> QED
  BY <1>1, <1>2

-----------------------------------------------------------------------------
(* The theorems.                                                           *)

\* The variables keep their types, and what a process that seals, unseals or
\* saves has in hand agrees with the files and with vault.json (Reseal,
\* turnOnProtection, Enqueue).
THEOREM VaultInvariant == VaultSpec /\ []RewritesAlone => []VaultIInv
<1>1. VaultIInv /\ RewritesAlone /\ [VaultNext]_vaultVars => VaultIInv'
  BY VaultInductive
<1> QED
  BY <1>1, VaultInitially, PTL DEF VaultSpec

\* Whatever is sealed can be opened with the key in vault.json: turnOnProtection
\* keeps the key before it seals the first file, and protect off removes it
\* after it unsealed the last.
THEOREM KeyKept == VaultSpec /\ []RewritesAlone => []KeyIsKept
<1>1. VaultIInv => KeyIsKept
  BY DEF VaultIInv
<1> QED
  BY <1>1, VaultInvariant, PTL

\* Nothing that was written disappears from its file, however often the files
\* are sealed, unsealed and sealed again, and wherever that stopped (Reseal).
THEOREM NoneLost == VaultSpec /\ []RewritesAlone => NothingLost
<1> DEFINE Grows == \A f \in File : ItemsOf(chunks[f]) \subseteq ItemsOf(chunks'[f])
<1>1. ASSUME VaultIInv, NEW p \in Proc, VaultStep(p) PROVE Grows
  <2>1. CASE UNCHANGED chunks
    BY <2>1
  <2>2. CASE ResealRenames(p)
    <3> DEFINE f == FileOf(proc[p].file)
    <3>1. f \in File /\ ItemsOf(chunks'[f]) = ItemsOf(chunks[f])
          /\ \A g \in File \ {f} : chunks'[g] = chunks[g]
      BY <1>1, <2>2, ResealRenamesFile
    <3> QED
      BY <3>1
  <2>3. CASE KeepsIdentity(p)
    <3>1. "identity" \in File /\ chunks'["identity"] = SealedWith(vault.key, {Old})
          /\ ItemsOf(chunks["identity"]) \subseteq {Old}
          /\ \A g \in File \ {"identity"} : chunks'[g] = chunks[g]
      BY <1>1, <2>3, IdentityFile DEF VaultIInv, VaultTypeOK, File
    <3>2. ItemsOf(chunks'["identity"]) = {Old}
      BY <3>1, SealedItems
    <3> QED
      BY <3>1, <3>2
  <2>4. CASE AppendsLine(p) \/ SendAppends(p)
    <3>1. \A g \in File : chunks[g] \subseteq chunks'[g]
      BY <1>1, <2>4 DEF AppendsLine, SendAppends, VaultIInv, VaultTypeOK
    <3> QED
      BY <3>1 DEF ItemsOf
  <2>5. CASE Saved(p)
    <3>1. "outbox" \in File /\ chunks'["outbox"] = SealedWith(vault.key, proc[p].buf)
          /\ ItemsOf(chunks["outbox"]) \subseteq proc[p].buf
          /\ \A g \in File \ {"outbox"} : chunks'[g] = chunks[g]
      BY <1>1, <2>5, SavedFile DEF VaultIInv, VaultTypeOK, File
    <3>2. ItemsOf(chunks'["outbox"]) = proc[p].buf
      BY <3>1, SealedItems
    <3> QED
      BY <3>1, <3>2
  <2> QED
    BY <1>1, <2>1, <2>2, <2>3, <2>4, <2>5
       DEF VaultStep, Start, Unlock, Wrap, ResealReads, ResealWrites, WritesTmp, ProtectOff,
           RemoveVault, SwitchProtector, NodeRuns, Loads, Saves, Stops
<1>2. VaultIInv /\ [VaultNext]_vaultVars => [Grows]_vaultVars
  BY <1>1 DEF VaultNext
<1> QED
  BY <1>2, VaultInvariant, PTL DEF VaultSpec, NothingLost

\* When a node is ready to run with a key, none of its files holds anything
\* plain: also not after a stop halfway through sealing or unsealing them, nor
\* after a line that tarion send wrote (NeedsSealing, Reseal).  A .tmp such a stop
\* left behind may: the theorem is not about it.
THEOREM ReadySealed == VaultSpec /\ []RewritesAlone => SealedWhenReady
<1> DEFINE Ready(p) == proc'[p].at = "ready" /\ proc[p].at # "ready" /\ proc'[p].key # Plain
           Sealed == \A f \in File : \A c \in chunks'[f] : c.key # Plain
           Act == \A p \in Proc : Ready(p) => Sealed
<1>1. ASSUME VaultIInv, NEW p \in Proc, VaultStep(p), NEW q \in Proc, Ready(q)
      PROVE  Sealed
  <2>1. q = p
    BY <1>1, OthersStay DEF VaultIInv
  <2>2. proc[p] \in ProcType /\ ProcSound(proc[p], vault, chunks, tmp) /\ proc \in [Proc -> ProcType]
    BY <1>1, TypesOf DEF VaultIInv, VaultTypeOK
  <2>3. CASE Unlock(p)
    <3>1. proc[p].key = Plain
      BY <2>2, <2>3 DEF Unlock, ProcSound
    <3>2. CASE ~NeedsSealing
      BY <2>3, <3>2 DEF NeedsSealing, Unlock
    <3>5. CASE proc' = [proc EXCEPT ![p] = Resealing(proc[p], vault.key, vault.key)]
      BY <1>1, <2>1, <2>2, <3>5 DEF Resealing, ProcType
    <3>3. CASE Goes(p, "ready")
      BY <1>1, <2>1, <2>2, <3>1, <3>3 DEF Goes, ProcType
    <3>4. CASE Goes(p, "gone") \/ proc' = [proc EXCEPT ![p] = Protects(proc[p], "windows")]
      BY <1>1, <2>1, <2>2, <3>4 DEF Goes, Protects, ProcType
    <3> QED
      BY <2>3, <3>2, <3>3, <3>4, <3>5 DEF Unlock
  <2>4. CASE proc[p].at \in {"read", "rename"} /\ proc' = [proc EXCEPT ![p] = Onward(proc[p])]
    <3> DEFINE r == proc[p]
    <3>1. /\ r.file \in 1..3 /\ FileOf(r.file) \in File /\ ResealSound(r, vault, chunks)
      BY <2>2, <2>4, FilesFacts, FilePlaces DEF ProcSound, ProcType
    <3>2. /\ AllBy(chunks', FileOf(r.file), r.to)
          /\ \A g \in File \ {FileOf(r.file)} : chunks'[g] = chunks[g]
      <4>1. CASE ResealRenames(p)
        BY <1>1, <4>1, ResealRenamesFile
      <4>2. CASE ResealReads(p) /\ chunks[FileOf(r.file)] = {}
        BY <4>2 DEF ResealReads, AllBy
      <4>3. CASE ResealReads(p) /\ chunks[FileOf(r.file)] # {}
        <5>1. proc'[p].at # "ready"
          BY <2>2, <4>3 DEF ResealReads, ProcType
        <5> QED
          BY <1>1, <2>1, <5>1
      <4>4. CASE Stops(p)
        BY <1>1, <2>1, <2>2, <4>4 DEF Stops, Gone
      <4> QED
        BY <1>1, <2>4, <4>1, <4>2, <4>3, <4>4
           DEF VaultStep, Start, Unlock, Wrap, ResealWrites, ProtectOff, RemoveVault,
               SwitchProtector, NodeRuns, KeepsIdentity, AppendsLine, SendAppends, Loads, Saves, Saved
    <3>3. ~(r.file < Len(Files)) /\ proc'[p].key = r.to
      BY <1>1, <2>1, <2>2, <2>4, <3>1 DEF Onward, ResealSound, ProcType
    <3>4. \A g \in File : AllBy(chunks', g, r.to)
      BY <2>2, <3>1, <3>2, <3>3, LastFile
    <3> QED
      BY <1>1, <2>1, <3>3, <3>4 DEF AllBy
  <2>5. CASE ~Unlock(p) /\ ~(proc[p].at \in {"read", "rename"} /\ proc' = [proc EXCEPT ![p] = Onward(proc[p])])
    <3>1. proc'[p].at # "ready" \/ proc[p].at = "ready"
      <4>1. CASE \E cmd \in Command : Start(p, cmd)
        BY <2>2, <4>1 DEF Start, Gone
      <4>2. CASE Wrap(p)
        BY <2>2, <4>2 DEF Wrap, Resealing, ProcType
      <4>6. CASE RemoveVault(p)
        BY <2>2, <4>6 DEF RemoveVault, Goes, ProcType
      <4>7. CASE ResealReads(p)
        BY <2>2, <2>5, <4>7 DEF ResealReads, ProcType
      <4>8. CASE NodeRuns(p)
        BY <4>8 DEF NodeRuns
      <4>9. CASE ResealWrites(p) \/ KeepsIdentity(p)
        BY <2>2, <4>9 DEF ResealWrites, KeepsIdentity, Goes, ProcType
      <4>10. ~ResealRenames(p)
        BY <2>5 DEF ResealRenames
      <4>3. CASE ProtectOff(p) \/ SwitchProtector(p)
        BY <4>3 DEF ProtectOff, SwitchProtector
      <4>4. CASE AppendsLine(p) \/ SendAppends(p) \/ Loads(p) \/ Saves(p) \/ Saved(p)
        BY <2>2, <4>4 DEF AppendsLine, SendAppends, Loads, Saves, Saved, ProcType
      <4>5. CASE Stops(p)
        BY <2>2, <4>5 DEF Stops, Gone
      <4> QED
        BY <1>1, <2>5, <4>1, <4>2, <4>3, <4>4, <4>5, <4>6, <4>7, <4>8, <4>9, <4>10
           DEF VaultStep
    <3> QED
      BY <1>1, <2>1, <3>1
  <2> QED
    BY <2>3, <2>4, <2>5
<1>2. VaultIInv /\ [VaultNext]_vaultVars => [Act]_vaultVars
  BY <1>1 DEF VaultNext
<1> QED
  BY <1>2, VaultInvariant, PTL DEF VaultSpec, SealedWhenReady

=============================================================================
