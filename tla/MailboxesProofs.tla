--------------------------- MODULE MailboxesProofs ---------------------------
(***************************************************************************)
(* Proofs about Accounts and Mailboxes, which change side by side, for any *)
(* number of requests, names, passwords, letters and faults.               *)
(***************************************************************************)
EXTENDS Mailboxes, FiniteSetTheorems, TLAPS

-----------------------------------------------------------------------------
(* The inductive invariant.                                                *)

OpRecord == [kind : Kind, step : Step, name : Name \union {None},
             pass : Pass \union {None}, new : Pass \union {None},
             key : Key \union {None}, code : Code \union {None},
             snap : Account \union {None}]

\* What a request carries, by its kind: a login or change at work knows the
\* password of the account it read.
Shaped(r) ==
    r.step # "unused" =>
        /\ r.name \in Name
        /\ r.kind = "register" =>
               r.pass \in Pass /\ r.key \in Key /\ r.code \in Code /\ r.step # "ending"
        /\ r.kind = "keylogin" => r.key \in Key
        /\ r.kind = "login" => r.key \in Key
        /\ r.kind = "change" => r.new \in Pass
        /\ r.kind \in {"login", "change"} =>
               r.pass \in Pass /\ r.snap \in Account /\ r.pass = r.snap.hash.pass
        /\ r.kind \in {"change", "delete"} => r.step \notin {"bind", "online", "fetched"}

Requests ==
    /\ op \in [Op -> OpRecord] /\ begun \in 0..MaxOps
    /\ \A o \in Op : Shaped(op[o]) /\ (o > begun => op[o].step = "unused")

\* What is owed is in memory too, so that every save keeps it.
OwedThere == \A n \in owed : mem[n] # None /\ file[n] # None

AccountsSound ==
    /\ mem \in Accts /\ file \in Accts
    /\ invites \subseteq Code /\ pending \subseteq Name /\ loop \in Name \union {None}
    /\ faults \in 0..MaxFaults
    /\ agreed \in [Name -> SUBSET Pass] /\ owed \subseteq Name
    /\ OwedThere /\ PasswordInForce

\* A registration that has an invite in hand, or an account for it.
Has(o, c) ==
    /\ op[o].kind = "register" /\ op[o].code = c
    /\ op[o].step \in {"create", "commit", "restore", "giveback",
                       "bind", "online", "fetched", "done", "unanswered"}

OneHolder ==
    InviteOnly =>
        \A c \in Code :
            /\ c \in invites => \A o \in Op : ~Has(o, c)
            /\ \A o, q \in Op : Has(o, c) /\ Has(q, c) => o = q

\* A request that put an account, or a hash of a password, into the map.
Commits(o) ==
    /\ op[o].step # "unused"
    /\ op[o].kind = "register" =>
           op[o].step \in {"bind", "online", "fetched", "done", "unanswered", "giveback", "unsaved"}

\* Every hash that is not imported was made by a request that committed.
HashesMade ==
    \A n \in Name : \A a \in {mem[n], file[n]} : \A o \in Op :
        a # None /\ a.hash.by = o => Commits(o)

\* What a session has fetched is sealed to its device.
HandMine ==
    \A o \in Op : hand[o] # {} => op[o].step = "fetched" /\ \A l \in hand[o] : l.key = op[o].key

BoxesSound ==
    /\ box \in [Name -> Key \union {None}] /\ letters \in [Name -> SUBSET Letter]
    /\ put \in [Sender -> [to : Name, key : Key, size : {1, 2}] \union {NoPut}]
    /\ puts \in [Sender -> 0..MaxPuts]
    /\ \A s \in Sender : put[s] # NoPut => puts[s] \in 1..MaxPuts
    /\ hand \in [Op -> SUBSET Letter] /\ stale \subseteq Letter
    /\ NoLetterWithoutBox /\ HandMine

IInv == Requests /\ AccountsSound /\ OneHolder /\ HashesMade /\ BoxesSound

-----------------------------------------------------------------------------
(* Requests.                                                               *)

\* A request moves on: it carries what it carried.
LEMMA GoKeeps ==
    ASSUME Requests, NEW o \in Op, NEW to \in Step \ {"unused"},
           op' = [op EXCEPT ![o].step = to], begun' = begun,
           op[o].step # "unused",
           op[o].kind = "register" => to # "ending",
           op[o].kind \in {"change", "delete"} => to \notin {"bind", "online", "fetched"}
    PROVE  Requests'
<1>1. op' \in [Op -> OpRecord]
  BY DEF Requests, OpRecord
<1>2. \A q \in Op \ {o} : op'[q] = op[q]
  BY DEF Requests
<1>3. /\ op'[o].step = to
      /\ op'[o].kind = op[o].kind /\ op'[o].name = op[o].name /\ op'[o].pass = op[o].pass
      /\ op'[o].new = op[o].new /\ op'[o].key = op[o].key /\ op'[o].code = op[o].code
      /\ op'[o].snap = op[o].snap
  BY DEF Requests, OpRecord
<1>4. Shaped(op[o])
  BY DEF Requests
<1>5. Shaped(op[o])'
  BY <1>3, <1>4 DEF Shaped
<1>6. o <= begun /\ o \in Nat /\ begun \in Nat
  BY DEF Requests, Op
<1> QED
  BY <1>1, <1>2, <1>3, <1>5, <1>6 DEF Requests, Op, Shaped

\* The next request arrives with what its kind needs.
LEMMA ArrivesKeeps ==
    ASSUME Requests, NEW o \in Op, NEW kind \in Kind, NEW step \in Step, NEW n \in Name,
           NEW p \in Pass \union {None}, NEW new \in Pass \union {None},
           NEW k \in Key \union {None}, NEW c \in Code \union {None}, NEW snap \in Account \union {None},
           Arrives(o, kind, step, n, p, new, k, c, snap),
           Shaped([kind |-> kind, step |-> step, name |-> n, pass |-> p, new |-> new,
                   key |-> k, code |-> c, snap |-> snap])
    PROVE  Requests'
<1> DEFINE r == [kind |-> kind, step |-> step, name |-> n, pass |-> p, new |-> new,
                 key |-> k, code |-> c, snap |-> snap]
<1>1. r \in OpRecord
  BY DEF OpRecord
<1>2. op' = [op EXCEPT ![o] = r] /\ o = begun + 1 /\ begun' = o
  BY DEF Arrives
<1>3. Shaped(r)
  OBVIOUS
<1>4. begun' \in 0..MaxOps /\ begun \in Nat
  BY <1>2, AccountsAssumption DEF Op, Requests
<1> HIDE DEF r
<1>5. op' \in [Op -> OpRecord] /\ op'[o] = r /\ \A q \in Op \ {o} : op'[q] = op[q]
  BY <1>1, <1>2 DEF Requests
<1>6. \A q \in Op : Shaped(op'[q])
  BY <1>3, <1>5 DEF Requests
<1>7. \A q \in Op : q > begun' => op'[q].step = "unused"
  BY <1>2, <1>4, <1>5 DEF Requests, Op
<1>8. \A q \in Op : Shaped(op[q])'
  BY <1>6 DEF Shaped
<1> QED
  BY <1>4, <1>5, <1>7, <1>8 DEF Requests

LEMMA RequestKeeps ==
    ASSUME Requests, mem \in Accts, NEW o \in Op, Request(o)
    PROVE  Requests'
<1>1. {"bind", "invite", "create", "commit"} \subseteq Step /\ "ending" \notin {"invite", "create"}
  BY DEF Step
<1>2. {"register", "keylogin", "login", "change", "delete"} \subseteq Kind
  BY DEF Kind
<1>3. ASSUME NEW n \in Name, NEW p \in Pass, Matches(n, p)
      PROVE  mem[n] \in Account /\ p = mem[n].hash.pass
  BY <1>3 DEF Matches, Accts
<1>4. ASSUME NEW n \in Name, NEW p \in Pass, NEW k \in Key, NEW c \in Code, RegisterBegins(o, n, p, k, c)
      PROVE  Requests'
  <2> DEFINE first == IF InviteOnly THEN "invite" ELSE "create"
  <2>1. first \in Step /\ first # "ending"
    BY <1>1
  <2>2. Arrives(o, "register", first, n, p, None, k, c, None)
    BY <1>4 DEF RegisterBegins
  <2>3. Shaped([kind |-> "register", step |-> first, name |-> n, pass |-> p, new |-> None,
                key |-> k, code |-> c, snap |-> None])
    BY <2>1 DEF Shaped
  <2> HIDE DEF first
  <2> QED
    BY <1>2, <2>1, <2>2, <2>3, ArrivesKeeps
<1>5. ASSUME NEW n \in Name, NEW k \in Key, KeyLogin(o, n, k) PROVE Requests'
  <2>1. Arrives(o, "keylogin", "bind", n, None, None, k, None, None)
    BY <1>5 DEF KeyLogin
  <2>2. Shaped([kind |-> "keylogin", step |-> "bind", name |-> n, pass |-> None, new |-> None,
                key |-> k, code |-> None, snap |-> None])
    BY DEF Shaped
  <2> QED
    BY <1>1, <1>2, <2>1, <2>2, ArrivesKeeps
<1>6. ASSUME NEW n \in Name, NEW p \in Pass, NEW k \in Key, LoginChecks(o, n, p, k) PROVE Requests'
  <2>1. Arrives(o, "login", "commit", n, p, None, k, None, mem[n]) /\ Matches(n, p)
    BY <1>6 DEF LoginChecks
  <2>2. Shaped([kind |-> "login", step |-> "commit", name |-> n, pass |-> p, new |-> None,
                key |-> k, code |-> None, snap |-> mem[n]])
    BY <1>3, <2>1 DEF Shaped
  <2> QED
    BY <1>1, <1>2, <1>3, <2>1, <2>2, ArrivesKeeps
<1>7. ASSUME NEW n \in Name, NEW p \in Pass, DeleteChecks(o, n, p) PROVE Requests'
  <2>1. Arrives(o, "delete", "commit", n, p, None, None, None, None)
    BY <1>7 DEF DeleteChecks
  <2>2. Shaped([kind |-> "delete", step |-> "commit", name |-> n, pass |-> p, new |-> None,
                key |-> None, code |-> None, snap |-> None])
    BY DEF Shaped
  <2> QED
    BY <1>1, <1>2, <2>1, <2>2, ArrivesKeeps
<1>8. ASSUME NEW n \in Name, NEW p \in Pass, NEW new \in Pass, ChangeChecks(o, n, p, new) PROVE Requests'
  <2>1. Arrives(o, "change", "commit", n, p, new, None, None, mem[n]) /\ Matches(n, p)
    BY <1>8 DEF ChangeChecks
  <2>2. Shaped([kind |-> "change", step |-> "commit", name |-> n, pass |-> p, new |-> new,
                key |-> None, code |-> None, snap |-> mem[n]])
    BY <1>3, <2>1 DEF Shaped
  <2> QED
    BY <1>1, <1>2, <1>3, <2>1, <2>2, ArrivesKeeps
<1> QED
  BY <1>4, <1>5, <1>6, <1>7, <1>8 DEF Request

\* Where a request can go from where it is.
Reached == {"create", "failed", "commit", "restore", "giveback", "unsaved", "bind", "done", "ending"}

LEMMA AdvanceGoes ==
    ASSUME Requests, NEW o \in Op, Advance(o)
    PROVE  /\ begun' = begun
           /\ op[o].step \in {"invite", "create", "commit", "restore", "giveback"}
           /\ \E to \in Reached :
                  /\ op' = [op EXCEPT ![o].step = to]
                  /\ op[o].kind = "register" => to # "ending"
                  /\ op[o].kind \in {"change", "delete"} => to # "bind"
<1>1. CASE Consume(o)
  BY <1>1 DEF Consume, Is, Go, Reached
<1>2. CASE CreateHashes(o)
  BY <1>2 DEF CreateHashes, Is, Go, GiveBack, Reached
<1>3. CASE CreateCommits(o)
  BY <1>3 DEF CreateCommits, Is, Go, GiveBack, GiveBackUnsaved, Reached
<1>4. CASE Restore(o)
  BY <1>4 DEF Restore, Go, Reached
<1>5. CASE LoginCommits(o)
  BY <1>5 DEF LoginCommits, Is, Go, Reached
<1>6. CASE ChangeCommits(o)
  BY <1>6 DEF ChangeCommits, Is, Go, Reached
<1>7. CASE DeleteCommits(o)
  BY <1>7 DEF DeleteCommits, Is, Go, Reached
<1> QED
  BY <1>1, <1>2, <1>3, <1>4, <1>5, <1>6, <1>7 DEF Advance

LEMMA AdvanceKeeps == ASSUME Requests, NEW o \in Op, Advance(o) PROVE Requests'
<1>1. PICK to \in Reached :
          /\ op' = [op EXCEPT ![o].step = to]
          /\ op[o].kind = "register" => to # "ending"
          /\ op[o].kind \in {"change", "delete"} => to # "bind"
  BY AdvanceGoes
<1>2. to \in Step \ {"unused"} /\ to \notin {"online", "fetched"}
  BY DEF Step, Reached
<1> QED
  BY <1>1, <1>2, AdvanceGoes, GoKeeps

\* A session's own steps.
LEMMA SessionGoes ==
    ASSUME Requests, NEW o \in Op, UpdateMailbox(o) \/ OwnerRemoves(o) \/ Fetch(o) \/ Ack(o)
    PROVE  /\ begun' = begun
           /\ \E move \in {<<"bind", "online">>, <<"ending", "done">>, <<"online", "fetched">>, <<"fetched", "online">>} :
                  op[o].step = move[1] /\ op' = [op EXCEPT ![o].step = move[2]]
<1>1. CASE UpdateMailbox(o)
  BY <1>1 DEF UpdateMailbox, Go
<1>2. CASE OwnerRemoves(o)
  BY <1>2 DEF OwnerRemoves, Go
<1>3. CASE Fetch(o)
  BY <1>3 DEF Fetch, Go
<1>4. CASE Ack(o)
  BY <1>4 DEF Ack, Go
<1> QED
  BY <1>1, <1>2, <1>3, <1>4

LEMMA SessionKeeps ==
    ASSUME Requests, NEW o \in Op, UpdateMailbox(o) \/ OwnerRemoves(o) \/ Fetch(o) \/ Ack(o)
    PROVE  Requests'
<1>1. PICK move \in {<<"bind", "online">>, <<"ending", "done">>, <<"online", "fetched">>, <<"fetched", "online">>} :
          op[o].step = move[1] /\ op' = [op EXCEPT ![o].step = move[2]]
  BY SessionGoes
<1>2. begun' = begun
  BY SessionGoes
<1>3. {"online", "done", "fetched"} \subseteq Step \ {"unused"}
  BY DEF Step
<1>4. Shaped(op[o])
  BY DEF Requests
<1>5. CASE move = <<"ending", "done">>
  BY <1>1, <1>2, <1>3, <1>5, GoKeeps
<1>6. CASE move # <<"ending", "done">>
  <2>1. op[o].step \in {"bind", "online", "fetched"} /\ move[2] \in {"online", "fetched"}
    BY <1>1, <1>6
  <2>2. op[o].kind \notin {"change", "delete"}
    BY <1>4, <2>1 DEF Shaped
  <2> QED
    BY <1>1, <1>2, <1>3, <2>1, <2>2, GoKeeps
<1> QED
  BY <1>5, <1>6

\* Where a stop leaves a request.
LEMMA CutIs ==
    ASSUME NEW r \in OpRecord
    PROVE  /\ Cut(r) \in Step
           /\ r.step \in {"invite", "create", "commit", "restore", "ending"} => Cut(r) = "lost"
           /\ r.step = "giveback" => Cut(r) = "unsaved"
           /\ r.step = "bind" => Cut(r) = IF r.kind = "register" THEN "unanswered" ELSE "lost"
           /\ r.step \in {"online", "fetched"} => Cut(r) = "done"
           /\ r.step \in {"unused", "failed", "lost", "unsaved", "unanswered", "done"} => Cut(r) = r.step
<1>1. r.step \in Step
  BY DEF OpRecord
<1> QED
  BY <1>1 DEF Cut, Step

LEMMA CutGoes ==
    ASSUME Requests, Restart, NEW o \in Op
    PROVE  /\ op[o] \in OpRecord /\ op'[o] \in OpRecord
           /\ op'[o].kind = op[o].kind /\ op'[o].name = op[o].name /\ op'[o].pass = op[o].pass
           /\ op'[o].new = op[o].new /\ op'[o].key = op[o].key /\ op'[o].code = op[o].code
           /\ op'[o].snap = op[o].snap
           /\ op'[o].step = Cut(op[o])
<1>1. op[o] \in OpRecord
  BY DEF Requests
<1>2. op'[o] = [op[o] EXCEPT !.step = Cut(op[o])]
  BY DEF Restart
<1>3. Cut(op[o]) \in Step
  BY <1>1, CutIs
<1> QED
  BY <1>1, <1>2, <1>3 DEF OpRecord

LEMMA RestartKeeps == ASSUME Requests, Restart PROVE Requests'
<1>1. begun' = begun
  BY DEF Restart
<1>2. op' \in [Op -> OpRecord]
  <2>1. ASSUME NEW o \in Op PROVE op'[o] \in OpRecord
    BY CutGoes
  <2> QED
    BY <2>1 DEF Restart
<1>3. ASSUME NEW o \in Op PROVE Shaped(op[o])' /\ (o > begun' => op'[o].step = "unused")
  <2>1. Shaped(op[o]) /\ (o > begun => op[o].step = "unused") /\ op[o] \in OpRecord
    BY DEF Requests
  <2>3. /\ op'[o].kind = op[o].kind /\ op'[o].name = op[o].name /\ op'[o].pass = op[o].pass
        /\ op'[o].new = op[o].new /\ op'[o].key = op[o].key /\ op'[o].code = op[o].code
        /\ op'[o].snap = op[o].snap
        /\ op'[o].step = Cut(op[o])
    BY CutGoes
  <2>4. \/ op'[o].step = op[o].step
        \/ op'[o].step \in {"lost", "done", "unsaved", "unanswered"} /\ op[o].step # "unused"
    BY <2>1, <2>3, CutIs DEF OpRecord, Step
  <2>5. Shaped(op[o])'
    BY <2>1, <2>3, <2>4 DEF Shaped
  <2> QED
    BY <1>1, <2>1, <2>4, <2>5
<1> QED
  BY <1>1, <1>2, <1>3 DEF Requests

LEMMA RequestsStep == ASSUME Requests, mem \in Accts, [DataNext]_dataVars PROVE Requests'
<1>1. CASE \E o \in Op : Request(o) \/ Advance(o)
  BY <1>1, RequestKeeps, AdvanceKeeps
<1>2. CASE \E o \in Op : UpdateMailbox(o) \/ OwnerRemoves(o) \/ Fetch(o) \/ Ack(o)
  BY <1>2, SessionKeeps
<1>3. CASE RestartAll
  BY <1>3, RestartKeeps DEF RestartAll
<1>4. CASE UNCHANGED <<op, begun>>
  BY <1>4 DEF Requests, Shaped
<1>5. ASSUME \E n \in Name : RequestDeletion(n) \/ ProcessDeletion(n) PROVE UNCHANGED <<op, begun>>
  BY <1>5 DEF RequestDeletion, ProcessDeletion
<1>6. ASSUME OperatorRemoves PROVE UNCHANGED <<op, begun>>
  BY <1>6 DEF OperatorRemoves, DeletionDone
<1>7. ASSUME \E s \in Sender : Put(s) \/ \E n \in Name, size \in {1, 2} : PutBegins(s, n, size)
      PROVE  UNCHANGED <<op, begun>>
  BY <1>7 DEF Put, PutBegins, accountVars
<1>8. ASSUME Age \/ Expire PROVE UNCHANGED <<op, begun>>
  BY <1>8 DEF Age, Expire, accountVars
<1>9. ASSUME UNCHANGED dataVars PROVE UNCHANGED <<op, begun>>
  BY <1>9 DEF dataVars, accountVars
<1> QED
  BY <1>1, <1>2, <1>3, <1>4, <1>5, <1>6, <1>7, <1>8, <1>9 DEF DataNext

-----------------------------------------------------------------------------
(* Accounts.                                                               *)

\* What a step may do to the accounts.
Untouched == UNCHANGED <<mem, file, agreed, owed>>

\* The account of n is made or changed to a, and the save succeeds or fails;
\* ps are the passwords its owner may take to be in force then.
Stored(n, a, ps, ok) ==
    /\ mem' = [mem EXCEPT ![n] = a]
    /\ file' = IF ok THEN mem' ELSE file
    /\ agreed' = [agreed EXCEPT ![n] = ps]
    /\ a.hash.pass \in ps
    /\ ~ok => agreed[n] \subseteq ps

LEMMA StoredSound ==
    ASSUME AccountsSound, NEW n \in Name, NEW a \in Account, NEW ps \in SUBSET Pass, NEW ok \in BOOLEAN,
           Stored(n, a, ps, ok),
           owed' = owed \/ (ok /\ owed' = owed \union {n}),
           invites' \subseteq Code, pending' \subseteq Name, loop' \in Name \union {None},
           faults' \in 0..MaxFaults
    PROVE  AccountsSound'
<1> USE NoneIsNoAccount
<1>1. a # None
  OBVIOUS
<1>2. /\ mem' \in Accts /\ file' \in Accts /\ agreed' \in [Name -> SUBSET Pass] /\ owed' \subseteq Name
      /\ mem'[n] = a /\ agreed'[n] = ps
      /\ \A q \in Name \ {n} : mem'[q] = mem[q] /\ agreed'[q] = agreed[q]
      /\ file' = mem' \/ file' = file
  BY DEF AccountsSound, Stored, Accts
<1>3. OwedThere'
  BY <1>1, <1>2 DEF AccountsSound, OwedThere, Stored
<1>4. PasswordInForce'
  <2>1. ASSUME NEW q \in Name, mem'[q] # None PROVE mem'[q].hash.pass \in agreed'[q]
    BY <1>2, <2>1 DEF AccountsSound, PasswordInForce, Stored
  <2>2. ASSUME NEW q \in Name, file'[q] # None PROVE file'[q].hash.pass \in agreed'[q]
    <3>1. CASE ok
      BY <2>1, <2>2, <3>1 DEF Stored
    <3>2. CASE ~ok
      BY <1>2, <2>2, <3>2 DEF AccountsSound, PasswordInForce, Stored
    <3> QED
      BY <3>1, <3>2
  <2> QED
    BY <2>1, <2>2 DEF PasswordInForce
<1> QED
  BY <1>2, <1>3, <1>4 DEF AccountsSound

\* The account of n is deleted, in memory and maybe on disk.
LEMMA DeletedSound ==
    ASSUME AccountsSound, NEW n \in Name, Delete(n), file' \in {file, mem'}, agreed' = agreed,
           invites' \subseteq Code, pending' \subseteq Name, loop' \in Name \union {None},
           faults' \in 0..MaxFaults
    PROVE  AccountsSound'
<1>1. /\ mem' \in Accts /\ file' \in Accts /\ owed' \subseteq Name
      /\ mem'[n] = None
      /\ \A q \in Name \ {n} : mem'[q] = mem[q]
  BY DEF AccountsSound, Delete, Accts
<1>2. OwedThere'
  BY <1>1 DEF AccountsSound, OwedThere, Delete
<1>3. PasswordInForce'
  BY <1>1 DEF AccountsSound, PasswordInForce
<1> QED
  BY <1>1, <1>2, <1>3 DEF AccountsSound

LEMMA UntouchedSound ==
    ASSUME AccountsSound, Untouched,
           invites' \subseteq Code, pending' \subseteq Name, loop' \in Name \union {None},
           faults' \in 0..MaxFaults
    PROVE  AccountsSound'
  BY DEF AccountsSound, Untouched, OwedThere, PasswordInForce

LEMMA FaultBound == ASSUME faults \in 0..MaxFaults, Fault PROVE faults' \in 0..MaxFaults
  BY AccountsAssumption DEF Fault

LEMMA CreateSound ==
    ASSUME Requests, AccountsSound, NEW o \in Op, CreateCommits(o) PROVE AccountsSound'
<1> DEFINE n == op[o].name
           a == [hash |-> [pass |-> op[o].pass, by |-> o, old |-> FALSE], key |-> op[o].key]
<1>1. n \in Name /\ op[o].pass \in Pass /\ op[o].key \in Key
  <2>1. Shaped(op[o]) /\ op[o].kind = "register" /\ op[o].step = "commit"
    BY DEF Requests, CreateCommits, Is
  <2> QED
    BY <2>1 DEF Shaped
<1>2. a \in Account
  BY <1>1, AccountsAssumption DEF Account, Hash, Op
<1>3. a.hash.pass = op[o].pass
  OBVIOUS
<1>4. UNCHANGED <<invites, pending, loop>>
  BY DEF CreateCommits
<1>5. CASE mem[n] # None
  BY <1>4, <1>5, UntouchedSound DEF CreateCommits, AccountsSound, Untouched
<1>6. CASE mem[n] = None
  <2>1. mem' = [mem EXCEPT ![n] = a]
    BY <1>6 DEF CreateCommits
  <2>2. \/ /\ Saved(mem') /\ agreed' = [agreed EXCEPT ![n] = {op[o].pass}] /\ owed' = owed \union {n}
        \/ /\ SaveFails /\ agreed' = [agreed EXCEPT ![n] = @ \union {op[o].pass}] /\ owed' = owed
    BY <1>6 DEF CreateCommits
  <2> HIDE DEF a
  <2>3. CASE /\ Saved(mem') /\ agreed' = [agreed EXCEPT ![n] = {op[o].pass}] /\ owed' = owed \union {n}
    <3>1. Stored(n, a, {op[o].pass}, TRUE)
      BY <1>3, <2>1, <2>3 DEF Stored, Saved
    <3>2. {op[o].pass} \in SUBSET Pass /\ faults' \in 0..MaxFaults
      BY <1>1, <2>3 DEF Saved, AccountsSound
    <3> QED
      BY <1>1, <1>2, <1>4, <2>3, <3>1, <3>2, StoredSound DEF AccountsSound
  <2>4. CASE /\ SaveFails /\ agreed' = [agreed EXCEPT ![n] = @ \union {op[o].pass}] /\ owed' = owed
    <3>1. Stored(n, a, agreed[n] \union {op[o].pass}, FALSE)
      BY <1>3, <2>1, <2>4 DEF Stored, SaveFails
    <3>2. (agreed[n] \union {op[o].pass}) \in SUBSET Pass /\ faults' \in 0..MaxFaults
      BY <1>1, <2>4, FaultBound DEF SaveFails, AccountsSound
    <3> QED
      BY <1>1, <1>2, <1>4, <2>4, <3>1, <3>2, StoredSound DEF AccountsSound
  <2> QED
    BY <2>2, <2>3, <2>4
<1> QED
  BY <1>5, <1>6

\* A login or change that passes the comparison knows the password in force.
LEMMA KnowsPassword ==
    ASSUME Requests, AccountsSound, NEW o \in Op, op[o].kind \in {"login", "change"},
           op[o].step # "unused", Unchanged(o)
    PROVE  /\ op[o].name \in Name /\ op[o].pass \in Pass
           /\ mem[op[o].name] \in Account /\ mem[op[o].name].hash.pass = op[o].pass
<1>1. Shaped(op[o])
  BY DEF Requests
<1>2. op[o].name \in Name /\ op[o].pass \in Pass /\ op[o].pass = op[o].snap.hash.pass
  BY <1>1 DEF Shaped
<1> QED
  BY <1>2 DEF Unchanged, AccountsSound, Accts

LEMMA LoginSound ==
    ASSUME Requests, AccountsSound, NEW o \in Op, LoginCommits(o) PROVE AccountsSound'
<1> DEFINE n == op[o].name
           a == [hash |-> IF op[o].snap.hash.old THEN [pass |-> op[o].pass, by |-> o, old |-> FALSE]
                          ELSE mem[n].hash,
                 key |-> op[o].key]
<1>1. UNCHANGED <<invites, pending, loop, agreed, owed>>
  BY DEF LoginCommits
<1>2. CASE ~Unchanged(o) \/ a = mem[n]
  BY <1>1, <1>2, UntouchedSound DEF LoginCommits, AccountsSound, Untouched
<1>3. CASE Unchanged(o) /\ a # mem[n]
  <2>1. op[o].kind = "login" /\ op[o].step = "commit"
    BY DEF LoginCommits, Is
  <2>2. n \in Name /\ op[o].pass \in Pass /\ mem[n] \in Account /\ mem[n].hash.pass = op[o].pass
    BY <1>3, <2>1, KnowsPassword
  <2>3. op[o].key \in Key
    BY <2>1 DEF Requests, Shaped
  <2>4. mem[n].hash \in Hash /\ [pass |-> op[o].pass, by |-> o, old |-> FALSE] \in Hash
    BY <2>2, AccountsAssumption DEF Account, Hash, Op
  <2>5. a \in Account /\ a.hash.pass = op[o].pass
    BY <2>2, <2>3, <2>4 DEF Account
  <2>6. mem' = [mem EXCEPT ![n] = a] /\ (Saved(mem') \/ SaveFails)
    BY <1>3 DEF LoginCommits
  <2> HIDE DEF a
  <2>7. agreed' = [agreed EXCEPT ![n] = agreed[n]] /\ agreed[n] \in SUBSET Pass
    BY <1>1, <2>2 DEF AccountsSound
  <2>8. op[o].pass \in agreed[n]
    BY <1>3, <2>2 DEF AccountsSound, PasswordInForce, Unchanged
  <2>9. \E ok \in BOOLEAN : Stored(n, a, agreed[n], ok)
    BY <2>5, <2>6, <2>7, <2>8 DEF Stored, Saved, SaveFails
  <2>10. faults' \in 0..MaxFaults
    BY <2>6, FaultBound DEF Saved, SaveFails, AccountsSound
  <2>11. PICK ok \in BOOLEAN : Stored(n, a, agreed[n], ok)
    BY <2>9
  <2>12. invites' \subseteq Code /\ pending' \subseteq Name /\ loop' \in Name \union {None} /\ owed' = owed
    BY <1>1 DEF AccountsSound
  <2>13. a \in Account /\ agreed[n] \in SUBSET Pass /\ n \in Name
    BY <2>2, <2>5, <2>7
  <2> QED
    BY <2>10, <2>11, <2>12, <2>13, StoredSound
<1> QED
  BY <1>2, <1>3

LEMMA ChangeSound ==
    ASSUME Requests, AccountsSound, NEW o \in Op, ChangeCommits(o) PROVE AccountsSound'
<1> DEFINE n == op[o].name
           h == [pass |-> op[o].new, by |-> o, old |-> FALSE]
           a == [mem[n] EXCEPT !.hash = h]
<1>1. UNCHANGED <<invites, pending, loop, owed>>
  BY DEF ChangeCommits
<1>2. CASE ~Unchanged(o)
  BY <1>1, <1>2, UntouchedSound DEF ChangeCommits, AccountsSound, Untouched
<1>3. CASE Unchanged(o)
  <2>1. op[o].kind = "change" /\ op[o].step = "commit"
    BY DEF ChangeCommits, Is
  <2>2. n \in Name /\ mem[n] \in Account
    BY <1>3, <2>1, KnowsPassword
  <2>3. op[o].new \in Pass
    BY <2>1 DEF Requests, Shaped
  <2>4. h \in Hash
    BY <2>3, AccountsAssumption DEF Hash, Op
  <2>5. a \in Account /\ a.hash = h
    BY <2>2, <2>4 DEF Account
  <2>6. a.hash.pass = op[o].new
    BY <2>5
  <2>7. mem' = [mem EXCEPT ![n] = a]
    BY <1>3 DEF ChangeCommits
  <2>8. \/ Saved(mem') /\ agreed' = [agreed EXCEPT ![n] = {op[o].new}]
        \/ SaveFails /\ agreed' = [agreed EXCEPT ![n] = @ \union {op[o].new}]
    BY <1>3 DEF ChangeCommits
  <2> HIDE DEF a
  <2>9. CASE Saved(mem') /\ agreed' = [agreed EXCEPT ![n] = {op[o].new}]
    <3>1. Stored(n, a, {op[o].new}, TRUE)
      BY <2>6, <2>7, <2>9 DEF Stored, Saved
    <3>2. {op[o].new} \in SUBSET Pass /\ faults' \in 0..MaxFaults
      BY <2>3, <2>9 DEF Saved, AccountsSound
    <3> QED
      BY <1>1, <2>2, <2>5, <3>1, <3>2, StoredSound DEF AccountsSound
  <2>10. CASE SaveFails /\ agreed' = [agreed EXCEPT ![n] = @ \union {op[o].new}]
    <3>1. Stored(n, a, agreed[n] \union {op[o].new}, FALSE)
      BY <2>6, <2>7, <2>10 DEF Stored, SaveFails
    <3>2. (agreed[n] \union {op[o].new}) \in SUBSET Pass /\ faults' \in 0..MaxFaults
      BY <2>2, <2>3, <2>10, FaultBound DEF SaveFails, AccountsSound
    <3> QED
      BY <1>1, <2>2, <2>5, <3>1, <3>2, StoredSound DEF AccountsSound
  <2> QED
    BY <2>8, <2>9, <2>10
<1> QED
  BY <1>2, <1>3

LEMMA DeleteSound ==
    ASSUME Requests, AccountsSound, NEW o \in Op, DeleteCommits(o) PROVE AccountsSound'
<1>1. op[o].name \in Name
  BY DEF Requests, Shaped, DeleteCommits, Is
<1>2. Delete(op[o].name) /\ UNCHANGED <<invites, pending, loop, agreed>>
  BY DEF DeleteCommits
<1>3. file' \in {file, mem'} /\ (UNCHANGED faults \/ Fault)
  BY DEF DeleteCommits, Saved, SaveFails
<1> QED
  BY <1>1, <1>2, <1>3, DeletedSound, FaultBound DEF AccountsSound

LEMMA ProcessSound == ASSUME AccountsSound, NEW n \in Name, ProcessDeletion(n) PROVE AccountsSound'
<1>1. Delete(n) /\ UNCHANGED <<invites, agreed>>
  BY DEF ProcessDeletion
<1>2. /\ file' \in {file, mem'} /\ (UNCHANGED faults \/ Fault)
      /\ pending' \subseteq pending /\ loop' \in {loop, n}
  BY DEF ProcessDeletion, Saved, SaveFails
<1> QED
  BY <1>1, <1>2, DeletedSound, FaultBound DEF AccountsSound

\* The other steps of a request leave the accounts alone.
LEMMA OtherSound ==
    ASSUME Requests, AccountsSound, NEW o \in Op, Request(o) \/ Consume(o) \/ CreateHashes(o) \/ Restore(o)
    PROVE  AccountsSound'
<1>1. CASE Request(o)
  <2>1. UNCHANGED <<mem, diskVars, loop, faults, agreed, owed>>
    BY <1>1 DEF Request, RegisterBegins, KeyLogin, LoginChecks, DeleteChecks, ChangeChecks
  <2> QED
    BY <2>1, UntouchedSound DEF AccountsSound, Untouched, diskVars
<1>2. CASE Consume(o)
  BY <1>2, UntouchedSound DEF Consume, AccountsSound, Untouched
<1>3. CASE CreateHashes(o)
  BY <1>3, UntouchedSound DEF CreateHashes, AccountsSound, Untouched, diskVars
<1>4. CASE Restore(o)
  <2>1. op[o].code \in Code
    BY <1>4 DEF Requests, Shaped, Restore, Go
  <2> QED
    BY <1>4, <2>1, UntouchedSound DEF Restore, AccountsSound, Untouched
<1> QED
  BY <1>1, <1>2, <1>3, <1>4

LEMMA RestartSound == ASSUME AccountsSound, Restart PROVE AccountsSound'
<1>1. mem' = file /\ UNCHANGED <<file, invites, pending, agreed, owed>> /\ loop' = None
  BY DEF Restart, diskVars
<1>2. faults' \in 0..MaxFaults
  BY FaultBound DEF Restart, AccountsSound
<1>3. OwedThere' /\ PasswordInForce'
  BY <1>1 DEF AccountsSound, OwedThere, PasswordInForce
<1> QED
  BY <1>1, <1>2, <1>3 DEF AccountsSound

LEMMA AccountsStep == ASSUME Requests, AccountsSound, [DataNext]_dataVars PROVE AccountsSound'
<1>1. CASE \E o \in Op : Request(o) \/ Advance(o)
  BY <1>1, OtherSound, CreateSound, LoginSound, ChangeSound, DeleteSound DEF Advance
<1>2. CASE RestartAll
  BY <1>2, RestartSound DEF RestartAll
<1>3. CASE \E n \in Name : RequestDeletion(n)
  BY <1>3, UntouchedSound, FaultBound DEF RequestDeletion, AccountsSound, Untouched
<1>4. CASE \E n \in Name : ProcessDeletion(n)
  BY <1>4, ProcessSound
<1>5. CASE OperatorRemoves
  BY <1>5, UntouchedSound DEF OperatorRemoves, DeletionDone, AccountsSound, Untouched
<1>6. CASE UNCHANGED <<mem, file, invites, pending, loop, faults, agreed, owed>>
  BY <1>6, UntouchedSound DEF AccountsSound, Untouched
<1>7. ASSUME \E o \in Op : UpdateMailbox(o) \/ OwnerRemoves(o) \/ Fetch(o) \/ Ack(o)
      PROVE  UNCHANGED <<mem, file, invites, pending, loop, faults, agreed, owed>>
  BY <1>7 DEF UpdateMailbox, OwnerRemoves, Fetch, Ack, diskVars
<1>8. ASSUME \E s \in Sender : Put(s) \/ \E n \in Name, size \in {1, 2} : PutBegins(s, n, size)
      PROVE  UNCHANGED <<mem, file, invites, pending, loop, faults, agreed, owed>>
  BY <1>8 DEF Put, PutBegins, accountVars
<1>9. ASSUME Age \/ Expire \/ UNCHANGED dataVars
      PROVE  UNCHANGED <<mem, file, invites, pending, loop, faults, agreed, owed>>
  BY <1>9 DEF Age, Expire, accountVars, dataVars
<1> QED
  BY <1>1, <1>2, <1>3, <1>4, <1>5, <1>6, <1>7, <1>8, <1>9 DEF DataNext

-----------------------------------------------------------------------------
(* Invites.                                                                *)

\* A step that gives nobody an invite, and puts none back.
LEMMA HoldersSame ==
    ASSUME OneHolder, invites' \subseteq invites, \A q \in Op, c \in Code : Has(q, c)' => Has(q, c)
    PROVE  OneHolder'
  BY DEF OneHolder

Steps == {"create", "commit", "restore", "giveback", "bind", "online", "fetched", "done", "unanswered"}

\* A request that moves on has what it had, unless it comes from outside.
LEMMA GoHas ==
    ASSUME Requests, NEW o \in Op, NEW to \in Step, op' = [op EXCEPT ![o].step = to],
           op[o].kind = "register" => (to \in Steps => op[o].step \in Steps)
    PROVE  \A q \in Op, c \in Code : Has(q, c)' => Has(q, c)
<1>1. \A q \in Op \ {o} : op'[q] = op[q]
  BY DEF Requests
<1>2. op'[o].step = to /\ op'[o].kind = op[o].kind /\ op'[o].code = op[o].code
  BY DEF Requests, OpRecord
<1> QED
  BY <1>1, <1>2 DEF Has, Steps

LEMMA RequestHolds == ASSUME Requests, OneHolder, NEW o \in Op, Request(o) PROVE OneHolder'
<1>1. invites' = invites
  BY DEF Request, RegisterBegins, KeyLogin, LoginChecks, DeleteChecks, ChangeChecks, diskVars
<1>2. /\ \A q \in Op \ {o} : op'[q] = op[q]
      /\ op'[o].kind = "register" => op'[o].step = IF InviteOnly THEN "invite" ELSE "create"
  BY DEF Requests, Request, RegisterBegins, KeyLogin, LoginChecks, DeleteChecks, ChangeChecks, Arrives
<1>3. InviteOnly => \A q \in Op, c \in Code : Has(q, c)' => Has(q, c)
  BY <1>2 DEF Has
<1> QED
  BY <1>1, <1>3 DEF OneHolder

LEMMA ConsumeHolds == ASSUME Requests, OneHolder, NEW o \in Op, Consume(o) PROVE OneHolder'
<1> DEFINE code == op[o].code
<1>1. invites' = invites \ {code} /\ op[o].kind = "register" /\ op[o].step = "invite"
  BY DEF Consume, Is
<1>2. op' = [op EXCEPT ![o].step = IF code \in invites THEN "create" ELSE "failed"]
  BY DEF Consume, Go
<1>3. CASE code \notin invites
  <2>1. "failed" \in Step \ Steps
    BY DEF Step, Steps
  <2> QED
    BY <1>1, <1>2, <1>3, <2>1, GoHas, HoldersSame
<1>4. CASE code \in invites
  <2>1. \A q \in Op \ {o} : op'[q] = op[q]
    BY <1>2 DEF Requests
  <2>2. op'[o].code = code
    BY <1>2 DEF Requests, OpRecord
  <2>3. \A q \in Op, c \in Code : Has(q, c)' => Has(q, c) \/ (q = o /\ c = code)
    BY <2>1, <2>2 DEF Has
  <2>4. InviteOnly => \A q \in Op : ~Has(q, code) \/ code \notin Code
    BY <1>4 DEF OneHolder
  <2> QED
    BY <1>1, <2>3, <2>4 DEF OneHolder
<1> QED
  BY <1>3, <1>4

LEMMA RestoreHolds == ASSUME Requests, OneHolder, NEW o \in Op, Restore(o) PROVE OneHolder'
<1> DEFINE code == op[o].code
<1>1. /\ invites' = invites \union {code} /\ op[o].kind = "register" /\ op[o].step \in {"restore", "giveback"}
      /\ \E to \in {"failed", "unsaved"} : op' = [op EXCEPT ![o].step = to]
  BY DEF Restore, Go
<1>2. Has(o, code)
  BY <1>1 DEF Has
<1>3. \A q \in Op \ {o} : op'[q] = op[q]
  BY <1>1 DEF Requests
<1>4. op'[o].step \in {"failed", "unsaved"}
  BY <1>1 DEF Requests, OpRecord
<1>5. \A q \in Op, c \in Code : Has(q, c)' => Has(q, c) /\ q # o
  BY <1>3, <1>4 DEF Has
<1>6. ASSUME InviteOnly, NEW q \in Op, NEW c \in Code, c = code, Has(q, c)' PROVE FALSE
  <2>1. Has(q, c) /\ q # o /\ Has(o, c)
    BY <1>2, <1>5, <1>6
  <2> QED
    BY <1>6, <2>1 DEF OneHolder
<1> QED
  BY <1>1, <1>5, <1>6 DEF OneHolder

\* The other steps of a request that is worked on.
LEMMA AdvanceHolds ==
    ASSUME Requests, OneHolder, NEW o \in Op,
           CreateHashes(o) \/ CreateCommits(o) \/ LoginCommits(o) \/ ChangeCommits(o) \/ DeleteCommits(o)
    PROVE  OneHolder'
<1>1. Advance(o) /\ op[o].step \in {"create", "commit"} /\ invites' = invites
  BY DEF Advance, CreateHashes, CreateCommits, LoginCommits, ChangeCommits, DeleteCommits, Is, diskVars
<1>2. PICK to \in Reached :
          op' = [op EXCEPT ![o].step = to]
  BY <1>1, AdvanceGoes
<1>3. to \in Step /\ op[o].step \in Steps
  BY <1>1 DEF Step, Steps, Reached
<1> QED
  BY <1>1, <1>2, <1>3, GoHas, HoldersSame

LEMMA SessionHolds ==
    ASSUME Requests, OneHolder, NEW o \in Op, UpdateMailbox(o) \/ OwnerRemoves(o) \/ Fetch(o) \/ Ack(o)
    PROVE  OneHolder'
<1>1. invites' = invites
  BY DEF UpdateMailbox, OwnerRemoves, Fetch, Ack, diskVars
<1>2. PICK move \in {<<"bind", "online">>, <<"ending", "done">>, <<"online", "fetched">>, <<"fetched", "online">>} :
          op[o].step = move[1] /\ op' = [op EXCEPT ![o].step = move[2]]
  BY SessionGoes
<1>3. op[o].kind = "register" => op[o].step # "ending"
  BY DEF Requests, Shaped
<1>4. move[2] \in Step /\ (op[o].kind = "register" => op[o].step \in Steps)
  BY <1>2, <1>3 DEF Step, Steps
<1> QED
  BY <1>1, <1>2, <1>4, GoHas, HoldersSame

LEMMA RestartHolds == ASSUME Requests, OneHolder, Restart PROVE OneHolder'
<1>1. invites' = invites
  BY DEF Restart, diskVars
<1>2. ASSUME NEW o \in Op
      PROVE  /\ op'[o].kind = op[o].kind /\ op'[o].code = op[o].code
             /\ op'[o].step \in Steps => op[o].step \in Steps
  <2>1. op[o] \in OpRecord /\ op[o].step \in Step
    BY DEF Requests, OpRecord
  <2> QED
    BY <2>1, CutGoes, CutIs DEF Step, Steps
<1> QED
  BY <1>1, <1>2, HoldersSame DEF Has, Steps

LEMMA HolderStep == ASSUME Requests, OneHolder, [DataNext]_dataVars PROVE OneHolder'
<1>1. CASE \E o \in Op : Request(o) \/ Advance(o)
  BY <1>1, RequestHolds, ConsumeHolds, RestoreHolds, AdvanceHolds DEF Advance
<1>2. CASE \E o \in Op : UpdateMailbox(o) \/ OwnerRemoves(o) \/ Fetch(o) \/ Ack(o)
  BY <1>2, SessionHolds
<1>3. CASE RestartAll
  BY <1>3, RestartHolds DEF RestartAll
<1>4. CASE UNCHANGED <<op, invites>>
  BY <1>4, HoldersSame DEF Has
<1>5. ASSUME \E n \in Name : RequestDeletion(n) \/ ProcessDeletion(n) PROVE UNCHANGED <<op, invites>>
  BY <1>5 DEF RequestDeletion, ProcessDeletion
<1>6. ASSUME OperatorRemoves PROVE UNCHANGED <<op, invites>>
  BY <1>6 DEF OperatorRemoves, DeletionDone
<1>7. ASSUME \E s \in Sender : Put(s) \/ \E n \in Name, size \in {1, 2} : PutBegins(s, n, size)
      PROVE  UNCHANGED <<op, invites>>
  BY <1>7 DEF Put, PutBegins, accountVars
<1>8. ASSUME Age \/ Expire \/ UNCHANGED dataVars PROVE UNCHANGED <<op, invites>>
  BY <1>8 DEF Age, Expire, accountVars, dataVars
<1> QED
  BY <1>1, <1>2, <1>3, <1>4, <1>5, <1>6, <1>7, <1>8 DEF DataNext

\* What InviteInOnePlace counts is one holder at most, or the unused invite.
LEMMA OneHolderCounts ==
    ASSUME Requests, OneHolder, InviteOnly, NEW c \in Code
    PROVE  Cardinality(Made(c)) + Cardinality(Holding(c)) + (IF c \in invites THEN 1 ELSE 0) <= 1
<1>1. \A o \in Op : o \in Made(c) \/ o \in Holding(c) => Has(o, c)
  BY DEF Made, Holding, Registered, Has
<1>2. ~\E o \in Op : o \in Made(c) /\ o \in Holding(c)
  BY DEF Made, Holding, Registered
<1>3. Made(c) \subseteq Op /\ Holding(c) \subseteq Op
  BY DEF Made, Holding, Registered
<1>4. ASSUME NEW o \in Op PROVE Cardinality({o}) = 1
  BY FS_Singleton
<1>5. Cardinality({}) = 0
  BY FS_EmptySet
<1>6. CASE \E o \in Op : Has(o, c)
  <2>1. PICK o \in Op : Has(o, c)
    BY <1>6
  <2>2. Made(c) \subseteq {o} /\ Holding(c) \subseteq {o} /\ c \notin invites
    BY <1>1, <1>3, <2>1 DEF OneHolder
  <2>3. (Made(c) = {o} /\ Holding(c) = {}) \/ (Made(c) = {} /\ Holding(c) = {o}) \/ (Made(c) = {} /\ Holding(c) = {})
    BY <1>2, <2>2
  <2> QED
    BY <1>4, <1>5, <2>2, <2>3
<1>7. CASE ~\E o \in Op : Has(o, c)
  <2>1. Made(c) = {} /\ Holding(c) = {}
    BY <1>1, <1>3, <1>7
  <2> QED
    BY <1>5, <2>1
<1> QED
  BY <1>6, <1>7

LEMMA InvitesCounted == Requests /\ OneHolder /\ HashesMade => InviteInOnePlace
<1> SUFFICES ASSUME Requests, OneHolder, HashesMade, InviteOnly, NEW c \in Code
             PROVE  /\ Cardinality(Made(c)) + Cardinality(Holding(c)) + (IF c \in invites THEN 1 ELSE 0) <= 1
                    /\ \A n \in Name : \A a \in {mem[n], file[n]} \ {None} : \A o \in Op :
                           (a.hash.by = o /\ op[o].kind = "register" /\ op[o].code = c)
                               => o \in Made(c) \union LeftUnsaved(c)
  BY DEF InviteInOnePlace
<1>1. ASSUME NEW n \in Name, NEW a \in {mem[n], file[n]} \ {None}, NEW o \in Op,
             a.hash.by = o, op[o].kind = "register", op[o].code = c
      PROVE  o \in Made(c) \union LeftUnsaved(c)
  <2>1. Commits(o)
    BY <1>1 DEF HashesMade
  <2> QED
    BY <1>1, <2>1 DEF Commits, Made, LeftUnsaved, Registered
<1> QED
  BY <1>1, OneHolderCounts

\* A request that committed stays one.
LEMMA CommitsStay ==
    ASSUME Requests, [DataNext]_dataVars, NEW q \in Op, Commits(q)
    PROVE  Commits(q)'
<1>1. ASSUME NEW o \in Op, Request(o) PROVE Commits(q)'
  <2>1. q # o
    BY <1>1 DEF Requests, Op, Commits, Request, RegisterBegins, KeyLogin, LoginChecks, DeleteChecks,
                ChangeChecks, Arrives
  <2>2. op'[q] = op[q]
    BY <1>1, <2>1 DEF Requests, Request, RegisterBegins, KeyLogin, LoginChecks, DeleteChecks,
                      ChangeChecks, Arrives
  <2> QED
    BY <2>2 DEF Commits
<1>2. ASSUME NEW o \in Op, Advance(o) PROVE Commits(q)'
  <2>1. PICK to \in Reached : op' = [op EXCEPT ![o].step = to]
    BY <1>2, AdvanceGoes
  <2>2. CASE q # o
    BY <2>1, <2>2 DEF Requests, Commits
  <2>3. CASE q = o
    <3>1. op'[o].step = to /\ op'[o].kind = op[o].kind /\ to # "unused"
      BY <2>1 DEF Requests, OpRecord, Reached
    <3>2. CASE op[o].kind # "register"
      BY <2>3, <3>1, <3>2 DEF Commits
    <3>3. CASE op[o].kind = "register"
      <4>1. Restore(o) /\ op[o].step = "giveback"
        BY <1>2, <2>3, <3>3 DEF Advance, Commits, Consume, CreateHashes, CreateCommits, Restore,
                                LoginCommits, ChangeCommits, DeleteCommits, Is, Go
      <4>2. op' = [op EXCEPT ![o].step = "unsaved"]
        BY <4>1 DEF Restore, Go
      <4>3. op'[o].step = "unsaved"
        BY <4>2 DEF Requests, OpRecord
      <4> QED
        BY <2>3, <4>3 DEF Commits
    <3> QED
      BY <3>2, <3>3
  <2> QED
    BY <2>2, <2>3
<1>3. ASSUME NEW o \in Op, UpdateMailbox(o) \/ OwnerRemoves(o) \/ Fetch(o) \/ Ack(o) PROVE Commits(q)'
  <2>1. PICK move \in {<<"bind", "online">>, <<"ending", "done">>, <<"online", "fetched">>, <<"fetched", "online">>} :
            op[o].step = move[1] /\ op' = [op EXCEPT ![o].step = move[2]]
    BY <1>3, SessionGoes
  <2>2. /\ \A r \in Op \ {o} : op'[r] = op[r]
        /\ op'[o].kind = op[o].kind /\ op'[o].step = move[2] /\ move[2] \in {"online", "done", "fetched"}
    BY <2>1 DEF Requests, OpRecord
  <2> QED
    BY <2>2 DEF Commits
<1>4. CASE RestartAll
  <2>1. Restart
    BY <1>4 DEF RestartAll
  <2>2. op[q] \in OpRecord /\ op[q].step \in Step
    BY DEF Requests, OpRecord
  <2> QED
    BY <2>1, <2>2, CutGoes, CutIs DEF Commits, Step
<1>5. CASE UNCHANGED op
  BY <1>5 DEF Commits
<1>6. ASSUME \E n \in Name : RequestDeletion(n) \/ ProcessDeletion(n) PROVE UNCHANGED op
  BY <1>6 DEF RequestDeletion, ProcessDeletion
<1>7. ASSUME OperatorRemoves PROVE UNCHANGED op
  BY <1>7 DEF OperatorRemoves, DeletionDone
<1>8. ASSUME \E s \in Sender : Put(s) \/ \E n \in Name, size \in {1, 2} : PutBegins(s, n, size)
      PROVE  UNCHANGED op
  BY <1>8 DEF Put, PutBegins, accountVars
<1>9. ASSUME Age \/ Expire \/ UNCHANGED dataVars PROVE UNCHANGED op
  BY <1>9 DEF Age, Expire, accountVars, dataVars
<1> QED
  BY <1>1, <1>2, <1>3, <1>4, <1>5, <1>6, <1>7, <1>8, <1>9 DEF DataNext

\* A hash of the map after a step was there before, or is of the request that
\* has just committed.
FromBefore(m) ==
    \A n \in Name : m[n] # None =>
        \/ mem[n] # None /\ m[n].hash.by = mem[n].hash.by
        \/ file[n] # None /\ m[n].hash.by = file[n].hash.by
        \/ \A o \in Op : m[n].hash.by = o => Commits(o)'

LEMMA MadeBefore ==
    ASSUME Requests, HashesMade, [DataNext]_dataVars, FromBefore(mem'), FromBefore(file')
    PROVE  HashesMade'
  BY CommitsStay DEF HashesMade, FromBefore

LEMMA CommitMade ==
    ASSUME Requests, AccountsSound, NEW o \in Op, Advance(o)
    PROVE  FromBefore(mem') /\ FromBefore(file')
<1>1. file' = file \/ file' = mem'
  BY DEF Advance, Consume, CreateHashes, CreateCommits, Restore, LoginCommits, ChangeCommits,
         DeleteCommits, Saved, SaveFails, diskVars
<1>2. PICK to \in Reached : op' = [op EXCEPT ![o].step = to]
  BY AdvanceGoes
<1>3. op'[o].step = to /\ op'[o].kind = op[o].kind /\ to # "unused"
  BY <1>2 DEF Requests, OpRecord, Reached
<1>4. CASE UNCHANGED mem
  BY <1>1, <1>4 DEF FromBefore
<1>5. CASE CreateCommits(o) /\ mem' # mem
  <2>1. /\ mem' = [mem EXCEPT ![op[o].name] =
                     [hash |-> [pass |-> op[o].pass, by |-> o, old |-> FALSE], key |-> op[o].key]]
        /\ op'[o].step \in {"bind", "giveback", "unsaved"}
    BY <1>2, <1>5 DEF CreateCommits, Go, GiveBackUnsaved, Requests, OpRecord
  <2>2. Commits(o)'
    BY <1>3, <2>1 DEF Commits
  <2> QED
    BY <1>1, <2>1, <2>2 DEF FromBefore, AccountsSound, Accts
<1>6. CASE LoginCommits(o) /\ mem' # mem
  <2>1. /\ op[o].kind = "login" /\ mem[op[o].name] # None
        /\ mem' = [mem EXCEPT ![op[o].name] =
                     [hash |-> IF op[o].snap.hash.old THEN [pass |-> op[o].pass, by |-> o, old |-> FALSE]
                               ELSE mem[op[o].name].hash,
                      key |-> op[o].key]]
    BY <1>6 DEF LoginCommits, Is, Unchanged
  <2>2. Commits(o)'
    BY <1>3, <2>1 DEF Commits
  <2> QED
    BY <1>1, <2>1, <2>2 DEF FromBefore, AccountsSound, Accts
<1>7. CASE ChangeCommits(o) /\ mem' # mem
  <2>1. /\ op[o].kind = "change" /\ mem[op[o].name] # None
        /\ mem' = [mem EXCEPT ![op[o].name].hash = [pass |-> op[o].new, by |-> o, old |-> FALSE]]
    BY <1>7 DEF ChangeCommits, Is, Unchanged
  <2>2. Commits(o)'
    BY <1>3, <2>1 DEF Commits
  <2>3. ASSUME NEW n \in Name, n = op[o].name PROVE mem'[n].hash = [pass |-> op[o].new, by |-> o, old |-> FALSE]
    BY <2>1, <2>3 DEF AccountsSound, Accts, Account
  <2>4. \A n \in Name \ {op[o].name} : mem'[n] = mem[n]
    BY <2>1 DEF AccountsSound, Accts
  <2> QED
    BY <1>1, <2>2, <2>3, <2>4 DEF FromBefore
<1>8. CASE DeleteCommits(o)
  BY <1>1, <1>8 DEF DeleteCommits, Delete, FromBefore, AccountsSound, Accts
<1> QED
  BY <1>4, <1>5, <1>6, <1>7, <1>8 DEF Advance, Consume, CreateHashes, Restore

LEMMA HashesStep == ASSUME Requests, AccountsSound, HashesMade, [DataNext]_dataVars PROVE HashesMade'
<1>1. CASE \E o \in Op : Advance(o)
  BY <1>1, CommitMade, MadeBefore
<1>2. CASE UNCHANGED <<mem, file>>
  <2>1. FromBefore(mem') /\ FromBefore(file')
    BY <1>2 DEF FromBefore
  <2> QED
    BY <2>1, MadeBefore
<1>3. CASE RestartAll
  <2>1. mem' = file /\ file' = file
    BY <1>3 DEF RestartAll, Restart, diskVars
  <2>2. FromBefore(mem') /\ FromBefore(file')
    BY <2>1 DEF FromBefore
  <2> QED
    BY <2>2, MadeBefore
<1>4. CASE \E n \in Name : ProcessDeletion(n)
  <2>1. PICK n \in Name : ProcessDeletion(n)
    BY <1>4
  <2>2. mem' = [mem EXCEPT ![n] = None] /\ (file' = file \/ file' = mem')
    BY <2>1 DEF ProcessDeletion, Delete, Saved, SaveFails
  <2>3. FromBefore(mem') /\ FromBefore(file')
    BY <2>2 DEF FromBefore, AccountsSound, Accts
  <2> QED
    BY <2>3, MadeBefore
<1>5. ASSUME \E o \in Op : Request(o) PROVE UNCHANGED <<mem, file>>
  BY <1>5 DEF Request, RegisterBegins, KeyLogin, LoginChecks, DeleteChecks, ChangeChecks, diskVars
<1>6. ASSUME \E o \in Op : UpdateMailbox(o) \/ OwnerRemoves(o) \/ Fetch(o) \/ Ack(o)
      PROVE  UNCHANGED <<mem, file>>
  BY <1>6 DEF UpdateMailbox, OwnerRemoves, Fetch, Ack, diskVars
<1>7. ASSUME \E n \in Name : RequestDeletion(n) PROVE UNCHANGED <<mem, file>>
  BY <1>7 DEF RequestDeletion
<1>8. ASSUME OperatorRemoves PROVE UNCHANGED <<mem, file>>
  BY <1>8 DEF OperatorRemoves, DeletionDone
<1>9. ASSUME \E s \in Sender : Put(s) \/ \E n \in Name, size \in {1, 2} : PutBegins(s, n, size)
      PROVE  UNCHANGED <<mem, file>>
  BY <1>9 DEF Put, PutBegins, accountVars
<1>10. ASSUME Age \/ Expire \/ UNCHANGED dataVars PROVE UNCHANGED <<mem, file>>
  BY <1>10 DEF Age, Expire, accountVars, dataVars
<1> QED
  BY <1>1, <1>2, <1>3, <1>4, <1>5, <1>6, <1>7, <1>8, <1>9, <1>10 DEF DataNext

-----------------------------------------------------------------------------
(* Mailboxes.                                                              *)

\* A step that moves no request, and leaves what was fetched.
LEMMA HandSame ==
    ASSUME HandMine, hand' = hand,
           \A o \in Op : op[o].step = "fetched" => op'[o].step = "fetched" /\ op'[o].key = op[o].key
    PROVE  HandMine'
  BY DEF HandMine

\* Requests that arrive or are worked on have fetched nothing.
LEMMA RequestBoxes ==
    ASSUME Requests, BoxesSound, NEW o \in Op, Request(o) \/ Advance(o), UNCHANGED mailboxVars
    PROVE  BoxesSound'
<1>1. UNCHANGED <<box, letters, put, puts, hand, stale>>
  BY DEF mailboxVars
<1>2. \A q \in Op \ {o} : op'[q] = op[q]
  <2>1. CASE Request(o)
    BY <2>1 DEF Requests, Request, RegisterBegins, KeyLogin, LoginChecks, DeleteChecks, ChangeChecks, Arrives
  <2>2. CASE Advance(o)
    BY <2>2, AdvanceGoes DEF Requests
  <2> QED
    BY <2>1, <2>2
<1>3. op[o].step # "fetched"
  <2>1. CASE Request(o)
    <3>1. o = begun + 1
      BY <2>1 DEF Request, RegisterBegins, KeyLogin, LoginChecks, DeleteChecks, ChangeChecks, Arrives
    <3>2. o > begun
      BY <3>1 DEF Requests
    <3> QED
      BY <3>2 DEF Requests
  <2>2. CASE Advance(o)
    BY <2>2, AdvanceGoes
  <2> QED
    BY <2>1, <2>2
<1>4. HandMine'
  BY <1>1, <1>2, <1>3, HandSame DEF BoxesSound
<1> QED
  BY <1>1, <1>4 DEF BoxesSound, NoLetterWithoutBox

\* A folder is removed, its key set, or nothing done to it.
LEMMA FolderSound ==
    ASSUME BoxesSound, NEW n \in Name, NEW k \in Key,
           Remove(n) \/ SetKey(n, k) \/ UNCHANGED storeVars
    PROVE  /\ box' \in [Name -> Key \union {None}] /\ letters' \in [Name -> SUBSET Letter]
           /\ NoLetterWithoutBox'
<1> USE AccountsAssumption DEF BoxesSound, NoLetterWithoutBox
<1>1. CASE Remove(n)
  BY <1>1 DEF Remove
<1>2. CASE SetKey(n, k)
  BY <1>2 DEF SetKey
<1>3. CASE UNCHANGED storeVars
  BY <1>3 DEF storeVars
<1> QED
  BY <1>1, <1>2, <1>3

LEMMA UpdateBoxes == ASSUME Requests, BoxesSound, NEW o \in Op, UpdateMailbox(o) PROVE BoxesSound'
<1>1. Shaped(op[o]) /\ op[o].step = "bind" /\ op[o] \in OpRecord
  BY DEF Requests, UpdateMailbox, Go
<1>2. op[o].name \in Name /\ op[o].key \in Key
  <2>1. op[o].kind \in {"register", "keylogin", "login"}
    BY <1>1 DEF Shaped, OpRecord, Kind
  <2> QED
    BY <1>1, <2>1 DEF Shaped
<1>3. UNCHANGED <<put, puts, hand, stale>>
  BY DEF UpdateMailbox
<1>4. Remove(op[o].name) \/ SetKey(op[o].name, op[o].key) \/ UNCHANGED storeVars
  BY DEF UpdateMailbox
<1>5. \A q \in Op \ {o} : op'[q] = op[q]
  BY DEF Requests, UpdateMailbox, Go
<1>6. HandMine'
  BY <1>1, <1>3, <1>5, HandSame DEF BoxesSound
<1> QED
  BY <1>2, <1>3, <1>4, <1>6, FolderSound DEF BoxesSound

LEMMA OwnerBoxes == ASSUME Requests, BoxesSound, NEW o \in Op, OwnerRemoves(o) PROVE BoxesSound'
<1>1. op[o].step = "ending" /\ op[o].name \in Name
  BY DEF Requests, Shaped, OwnerRemoves, Go
<1>2. Remove(op[o].name) /\ UNCHANGED <<put, puts, hand, stale>>
  BY DEF OwnerRemoves
<1>3. \A q \in Op \ {o} : op'[q] = op[q]
  BY DEF Requests, OwnerRemoves, Go
<1>4. HandMine'
  BY <1>1, <1>2, <1>3, HandSame DEF BoxesSound
<1>5. /\ box' \in [Name -> Key \union {None}] /\ letters' \in [Name -> SUBSET Letter]
      /\ NoLetterWithoutBox'
  BY <1>1, <1>2 DEF Remove, BoxesSound, NoLetterWithoutBox
<1> QED
  BY <1>2, <1>4, <1>5 DEF BoxesSound

LEMMA OperatorBoxes == ASSUME AccountsSound, BoxesSound, OperatorRemoves PROVE BoxesSound'
<1>1. loop \in Name /\ Remove(loop) /\ UNCHANGED <<op, put, puts, hand, stale>>
  BY DEF OperatorRemoves, DeletionDone, AccountsSound
<1>2. HandMine'
  BY <1>1 DEF BoxesSound, HandMine
<1>3. /\ box' \in [Name -> Key \union {None}] /\ letters' \in [Name -> SUBSET Letter]
      /\ NoLetterWithoutBox'
  BY <1>1 DEF Remove, BoxesSound, NoLetterWithoutBox
<1> QED
  BY <1>1, <1>2, <1>3 DEF BoxesSound

LEMMA FetchBoxes == ASSUME Requests, BoxesSound, NEW o \in Op, Fetch(o) PROVE BoxesSound'
<1> DEFINE mine == {l \in letters[op[o].name] : l.key = op[o].key}
<1>1. op' = [op EXCEPT ![o].step = "fetched"] /\ UNCHANGED <<box, letters, put, puts, stale>>
  BY DEF Fetch, Go
<1>2. op[o].name \in Name
  BY DEF Requests, Shaped, Fetch, Go
<1>3. PICK part \in SUBSET mine : hand' = [hand EXCEPT ![o] = part]
  BY DEF Fetch
<1>4. hand' \in [Op -> SUBSET Letter]
  BY <1>2, <1>3 DEF BoxesSound
<1>5. /\ \A q \in Op \ {o} : op'[q] = op[q] /\ hand'[q] = hand[q]
      /\ op'[o].step = "fetched" /\ op'[o].key = op[o].key /\ hand'[o] = part
  BY <1>1, <1>3 DEF Requests, OpRecord, BoxesSound
<1>6. HandMine'
  BY <1>5 DEF BoxesSound, HandMine
<1> QED
  BY <1>1, <1>4, <1>6 DEF BoxesSound, NoLetterWithoutBox

LEMMA AckBoxes == ASSUME Requests, BoxesSound, NEW o \in Op, Ack(o) PROVE BoxesSound'
<1>1. op' = [op EXCEPT ![o].step = "online"] /\ UNCHANGED <<box, put, puts, stale>>
  BY DEF Ack, Go
<1>2. PICK acked \in SUBSET hand[o] : letters' = [letters EXCEPT ![op[o].name] = @ \ acked]
  BY DEF Ack
<1>3. hand' = [hand EXCEPT ![o] = {}]
  BY DEF Ack
<1>4. /\ \A q \in Op \ {o} : op'[q] = op[q] /\ hand'[q] = hand[q]
      /\ hand'[o] = {} /\ hand' \in [Op -> SUBSET Letter]
  BY <1>1, <1>3 DEF Requests, BoxesSound
<1>5. HandMine'
  BY <1>4 DEF BoxesSound, HandMine
<1>6. letters' \in [Name -> SUBSET Letter] /\ \A n \in Name : letters'[n] \subseteq letters[n]
  BY <1>2 DEF BoxesSound
<1> QED
  BY <1>1, <1>4, <1>5, <1>6 DEF BoxesSound, NoLetterWithoutBox

LEMMA PutBoxes ==
    ASSUME BoxesSound, NEW s \in Sender,
           Put(s) \/ \E n \in Name, size \in {1, 2} : PutBegins(s, n, size)
    PROVE  BoxesSound'
<1>1. HandMine'
  BY DEF Put, PutBegins, accountVars, BoxesSound, HandMine
<1>2. CASE \E n \in Name, size \in {1, 2} : PutBegins(s, n, size)
  <2>1. PICK n \in Name, size \in {1, 2} : PutBegins(s, n, size)
    BY <1>2
  <2>2. /\ box[n] \in Key /\ puts[s] < MaxPuts
        /\ put' = [put EXCEPT ![s] = [to |-> n, key |-> box[n], size |-> size]]
        /\ puts' = [puts EXCEPT ![s] = @ + 1]
        /\ UNCHANGED <<box, letters, hand, stale>>
    BY <2>1 DEF PutBegins, Target, BoxesSound
  <2>3. puts[s] \in 0..MaxPuts /\ puts[s] + 1 \in 1..MaxPuts
    BY <2>2, MailboxesAssumption DEF BoxesSound
  <2>4. puts' \in [Sender -> 0..MaxPuts] /\ puts'[s] \in 1..MaxPuts /\ \A r \in Sender \ {s} : puts'[r] = puts[r]
    BY <2>2, <2>3 DEF BoxesSound
  <2>5. /\ put' \in [Sender -> [to : Name, key : Key, size : {1, 2}] \union {NoPut}]
        /\ \A r \in Sender \ {s} : put'[r] = put[r]
    BY <2>2 DEF BoxesSound
  <2> QED
    BY <1>1, <2>2, <2>4, <2>5 DEF BoxesSound, NoLetterWithoutBox
<1>3. CASE Put(s)
  <2> DEFINE n == put[s].to
             l == [id |-> <<s, puts[s]>>, key |-> put[s].key, size |-> put[s].size]
  <2>1. put[s] # NoPut
    BY <1>3 DEF Put, NoPut
  <2>2. put[s] \in [to : Name, key : Key, size : {1, 2}] /\ puts[s] \in 1..MaxPuts
    BY <2>1 DEF BoxesSound
  <2>3. n \in Name /\ l \in Letter
    BY <2>2 DEF Letter, LetterId
  <2>4. put' = [put EXCEPT ![s] = NoPut] /\ UNCHANGED <<box, puts, hand, stale>>
    BY <1>3 DEF Put
  <2>5. \/ letters' = letters
        \/ box[n] # None /\ letters' = [letters EXCEPT ![n] = @ \union {l}]
    BY <1>3 DEF Put, BoxThere
  <2> HIDE DEF l
  <2>6. letters' \in [Name -> SUBSET Letter] /\ NoLetterWithoutBox'
    BY <2>3, <2>4, <2>5 DEF BoxesSound, NoLetterWithoutBox
  <2>7. /\ put' \in [Sender -> [to : Name, key : Key, size : {1, 2}] \union {NoPut}]
        /\ \A r \in Sender : put'[r] # NoPut => put'[r] = put[r]
    BY <2>4 DEF BoxesSound
  <2> QED
    BY <1>1, <2>4, <2>6, <2>7 DEF BoxesSound
<1> QED
  BY <1>2, <1>3

LEMMA AgeBoxes == ASSUME BoxesSound, Age \/ Expire PROVE BoxesSound'
<1>1. HandMine'
  BY DEF Age, Expire, accountVars, BoxesSound, HandMine
<1>2. CASE Age
  <2>1. stale' \subseteq Letter /\ UNCHANGED <<box, letters, put, puts, hand>>
    BY <1>2 DEF Age, BoxesSound
  <2> QED
    BY <1>1, <2>1 DEF BoxesSound, NoLetterWithoutBox
<1>3. CASE Expire
  <2>1. UNCHANGED <<box, put, puts, hand, stale>> /\ letters' = [n \in Name |-> letters[n] \ stale]
    BY <1>3 DEF Expire
  <2>2. letters' \in [Name -> SUBSET Letter] /\ NoLetterWithoutBox'
    BY <2>1 DEF BoxesSound, NoLetterWithoutBox
  <2> QED
    BY <1>1, <2>1, <2>2 DEF BoxesSound
<1> QED
  BY <1>2, <1>3

LEMMA RestartBoxes == ASSUME BoxesSound, RestartAll PROVE BoxesSound'
<1>1. /\ put' = [s \in Sender |-> NoPut] /\ hand' = [o \in Op |-> {}]
      /\ UNCHANGED <<box, letters, puts, stale>>
  BY DEF RestartAll
<1> QED
  BY <1>1 DEF BoxesSound, HandMine, NoLetterWithoutBox

LEMMA BoxesStep ==
    ASSUME Requests, AccountsSound, BoxesSound, [DataNext]_dataVars
    PROVE  BoxesSound'
<1>1. CASE \E o \in Op : (Request(o) \/ Advance(o)) /\ UNCHANGED mailboxVars
  BY <1>1, RequestBoxes
<1>2. CASE \E o \in Op : UpdateMailbox(o) \/ OwnerRemoves(o) \/ Fetch(o) \/ Ack(o)
  BY <1>2, UpdateBoxes, OwnerBoxes, FetchBoxes, AckBoxes
<1>3. CASE OperatorRemoves
  BY <1>3, OperatorBoxes
<1>4. CASE \E s \in Sender : Put(s) \/ \E n \in Name, size \in {1, 2} : PutBegins(s, n, size)
  BY <1>4, PutBoxes
<1>5. CASE Age \/ Expire
  BY <1>5, AgeBoxes
<1>6. CASE RestartAll
  BY <1>6, RestartBoxes
<1>7. CASE UNCHANGED <<op, mailboxVars>>
  BY <1>7 DEF mailboxVars, BoxesSound, HandMine, NoLetterWithoutBox
<1>8. ASSUME NEW n \in Name, RequestDeletion(n) \/ ProcessDeletion(n), UNCHANGED mailboxVars
      PROVE  UNCHANGED <<op, mailboxVars>>
  BY <1>8 DEF RequestDeletion, ProcessDeletion
<1>9. ASSUME UNCHANGED dataVars PROVE UNCHANGED <<op, mailboxVars>>
  BY <1>9 DEF dataVars, accountVars
<1> QED
  BY <1>1, <1>2, <1>3, <1>4, <1>5, <1>6, <1>7, <1>8, <1>9 DEF DataNext

-----------------------------------------------------------------------------
(* The theorems.                                                           *)

\* What importLegacy makes of the old file are accounts.
LEMMA ImportedSound ==
    ASSUME NEW k \in Nat, NEW db \in [1..k -> [name : Name, pass : Pass]]
    PROVE  Imported(db) \in Accts
<1> SUFFICES ASSUME NEW n \in Name, Imported(db)[n] # None PROVE Imported(db)[n] \in Account
  BY DEF Accts, Imported
<1> DEFINE at == {i \in DOMAIN db : db[i].name = n}
<1>0. Imported(db)[n] = IF Cardinality(at) # 1 THEN None
        ELSE [hash |-> [pass |-> db[CHOOSE i \in at : TRUE].pass, by |-> 0, old |-> TRUE], key |-> None]
  BY Zenon DEF Imported
<1>1. Cardinality(at) = 1
  <2> SUFFICES ASSUME Cardinality(at) # 1 PROVE FALSE
    OBVIOUS
  <2> HIDE DEF at
  <2> QED
    BY <1>0, Zenon
<1>2. at # {}
  <2>1. \A S : S = {} => Cardinality(S) = 0
    BY FS_EmptySet, Zenon
  <2> HIDE DEF at
  <2> QED
    BY <1>1, <2>1
<1>3. (CHOOSE i \in at : TRUE) \in at
  BY <1>2
<1> DEFINE j == CHOOSE i \in at : TRUE
<1>4. db[j].pass \in Pass
  BY <1>3
<1>5. Imported(db)[n] = [hash |-> [pass |-> db[j].pass, by |-> 0, old |-> TRUE], key |-> None]
  BY <1>0, <1>1
<1> HIDE DEF j
<1> QED
  BY <1>4, <1>5, AccountsAssumption DEF Account, Hash

LEMMA Initially == DataInit => IInv
<1> SUFFICES ASSUME DataInit PROVE IInv
  OBVIOUS
<1>1. AccountsInit
  BY DEF DataInit
<1>2. mem \in Accts
  <2>1. PICK k \in 0..MaxLegacy : \E db \in [1..k -> [name : Name, pass : Pass]] : mem = Imported(db)
    BY <1>1 DEF AccountsInit
  <2>2. k \in Nat
    BY AccountsAssumption
  <2> QED
    BY <2>1, <2>2, ImportedSound
<1>3. Requests
  <2>1. Idle \in OpRecord /\ Idle.step = "unused"
    BY DEF Idle, OpRecord, Kind, Step
  <2>2. op = [o \in Op |-> Idle] /\ begun = 0
    BY <1>1 DEF AccountsInit
  <2> HIDE DEF Idle
  <2> QED
    BY <2>1, <2>2, AccountsAssumption DEF Requests, Shaped
<1>4. AccountsSound
  <2>1. /\ file = mem /\ invites = Code /\ pending = {} /\ loop = None /\ faults = 0
        /\ agreed = [n \in Name |-> IF mem[n] = None THEN {} ELSE {mem[n].hash.pass}]
        /\ owed = {n \in Name : mem[n] # None}
    BY <1>1 DEF AccountsInit
  <2>2. agreed \in [Name -> SUBSET Pass]
    BY <1>2, <2>1 DEF Accts, Account, Hash
  <2> QED
    BY <1>2, <2>1, <2>2, AccountsAssumption DEF AccountsSound, OwedThere, PasswordInForce
<1>5. OneHolder /\ HashesMade
  <2>1. OneHolder
    BY <1>1 DEF AccountsInit, OneHolder, Has, Idle
  <2>2. ASSUME NEW n \in Name, mem[n] # None PROVE mem[n].hash.by = 0 /\ file[n] = mem[n]
    BY <1>1, <2>2 DEF AccountsInit, Imported
  <2>3. file = mem
    BY <1>1 DEF AccountsInit
  <2> QED
    BY <2>1, <2>2, <2>3, AccountsAssumption DEF HashesMade, Op
<1>6. BoxesSound
  BY MailboxesAssumption DEF DataInit, BoxesSound, NoLetterWithoutBox, HandMine
<1> QED
  BY <1>3, <1>4, <1>5, <1>6 DEF IInv

\* Requests, accounts, invites and mailboxes stay in agreement (register, Create,
\* ChangePassword, Delete, SetKey, Put, Remove).
THEOREM Invariant == DataSpec => []IInv
<1>1. IInv /\ [DataNext]_dataVars => IInv'
  BY RequestsStep, AccountsStep, HolderStep, HashesStep, BoxesStep DEF IInv, AccountsSound
<1> QED
  BY <1>1, Initially, PTL DEF DataSpec

\* Every variable of Accounts and Mailboxes keeps its type.
THEOREM TypeCorrect == DataSpec => []MailboxesTypeOK
<1>1. IInv => MailboxesTypeOK
  BY DEF IInv, Requests, AccountsSound, BoxesSound, MailboxesTypeOK, AccountsTypeOK, OpRecord
<1> QED
  BY <1>1, Invariant, PTL

\* An invite is unused, in the hands of one registration or spent on one account
\* that was saved, answered or not, and no other account is made with it but by
\* a registration whose save failed, through every race, failed save and stop
\* (register, Consume, Create, Restore).
THEOREM InviteOnce == DataSpec => []InviteInOnePlace
<1>1. IInv => InviteInOnePlace
  BY InvitesCounted DEF IInv
<1> QED
  BY <1>1, Invariant, PTL

\* No request undoes a password that was confirmed (Create, LoginWithPassword,
\* ChangePassword).
THEOREM PasswordHolds == DataSpec => []PasswordInForce
  BY Invariant, PTL DEF IInv, AccountsSound

\* A confirmed account is on disk until it is deleted (saveLocked).
THEOREM ConfirmedKept == DataSpec => []ConfirmedIsOnDisk
<1>1. IInv => ConfirmedIsOnDisk
  BY DEF IInv, AccountsSound, OwedThere, ConfirmedIsOnDisk
<1> QED
  BY <1>1, Invariant, PTL

\* No race of a sender with logins and deletions leaves a letter in a folder
\* without a key (Put, SetKey, Remove).
THEOREM NoneStranded == DataSpec => []NoLetterWithoutBox
  BY Invariant, PTL DEF IInv, BoxesSound

\* While the server runs, only who knows the password in force changes an account
\* (LoginWithPassword, ChangePassword).
THEOREM OnlyItsOwner == DataSpec => ChangedByItsOwner
<1> DEFINE A == \A n \in Name :
         (mem[n] # None /\ mem'[n] # None /\ mem[n] # mem'[n] /\ ~Restarted)
           => \E o \in Hashing : op'[o] # op[o] /\ op[o].name = n /\ op[o].pass = mem[n].hash.pass
<1>1. ASSUME IInv, [DataNext]_dataVars PROVE [A]_accountVars
  <2> SUFFICES ASSUME NEW n \in Name, mem[n] # None, mem'[n] # None, mem[n] # mem'[n], ~Restarted
               PROVE  \E o \in Hashing : op'[o] # op[o] /\ op[o].name = n /\ op[o].pass = mem[n].hash.pass
    OBVIOUS
  <2>1. ASSUME NEW o \in Op, CreateCommits(o) PROVE FALSE
    BY <1>1, <2>1 DEF CreateCommits, IInv, AccountsSound, Accts
  <2>2. ASSUME NEW o \in Op, LoginCommits(o) \/ ChangeCommits(o)
        PROVE  o \in Hashing /\ op'[o] # op[o] /\ op[o].name = n /\ op[o].pass = mem[n].hash.pass
    <3>1. op[o].kind \in {"login", "change"} /\ op[o].step = "commit"
      BY <2>2 DEF LoginCommits, ChangeCommits, Is
    <3>2. Unchanged(o)
      BY <2>2 DEF LoginCommits, ChangeCommits
    <3>3. op[o].name = n
      BY <1>1, <2>2 DEF LoginCommits, ChangeCommits, IInv, AccountsSound, Accts
    <3>4. op[o].pass = mem[n].hash.pass
      BY <1>1, <3>1, <3>2, <3>3, KnowsPassword DEF IInv
    <3>5. op'[o].step # "commit"
      BY <1>1, <2>2 DEF LoginCommits, ChangeCommits, Go, IInv, Requests, OpRecord
    <3> QED
      BY <3>1, <3>3, <3>4, <3>5 DEF Hashing
  <2>3. ASSUME NEW o \in Op, DeleteCommits(o) PROVE FALSE
    BY <1>1, <2>3 DEF DeleteCommits, Delete, IInv, AccountsSound, Accts
  <2>4. ASSUME NEW m \in Name, ProcessDeletion(m) PROVE FALSE
    BY <1>1, <2>4 DEF ProcessDeletion, Delete, IInv, AccountsSound, Accts
  <2>5. ~RestartAll
    BY DEF RestartAll, Restart, diskVars, Restarted
  <2>6. ASSUME NEW o \in Op, Request(o) \/ Consume(o) \/ CreateHashes(o) \/ Restore(o) PROVE mem' = mem
    BY <2>6 DEF Request, RegisterBegins, KeyLogin, LoginChecks, DeleteChecks, ChangeChecks, Consume,
                CreateHashes, Restore
  <2>7. ASSUME NEW o \in Op, UpdateMailbox(o) \/ OwnerRemoves(o) \/ Fetch(o) \/ Ack(o) PROVE mem' = mem
    BY <2>7 DEF UpdateMailbox, OwnerRemoves, Fetch, Ack
  <2>8. ASSUME NEW s \in Sender, Put(s) \/ \E m \in Name, size \in {1, 2} : PutBegins(s, m, size)
        PROVE  mem' = mem
    BY <2>8 DEF Put, PutBegins, accountVars
  <2>9. ASSUME \/ \E m \in Name : RequestDeletion(m)
               \/ OperatorRemoves \/ Age \/ Expire \/ UNCHANGED dataVars
        PROVE  mem' = mem
    BY <2>9 DEF RequestDeletion, OperatorRemoves, DeletionDone, Age, Expire, accountVars, dataVars
  <2> QED
    BY <1>1, <2>1, <2>2, <2>3, <2>4, <2>5, <2>6, <2>7, <2>8, <2>9 DEF DataNext, Advance
<1>2. IInv /\ [DataNext]_dataVars => [A]_accountVars
  BY <1>1
<1> QED
  BY <1>2, Invariant, PTL DEF DataSpec, ChangedByItsOwner

\* A letter leaves its folder only in one of the three ways (Ack, Remove, Expire).
THEOREM LettersGo == DataSpec => LettersGoRightly
<1> DEFINE A == \A n \in Name : \A l \in letters[n] \ letters'[n] :
         \/ \E o \in Op : l \in hand[o] /\ op[o].name = n /\ op[o].key = l.key
         \/ box'[n] = None
         \/ l \in stale
<1>1. ASSUME IInv, [DataNext]_dataVars PROVE A
  <2> SUFFICES ASSUME NEW n \in Name, NEW l \in letters[n] \ letters'[n]
               PROVE  \/ \E o \in Op : l \in hand[o] /\ op[o].name = n /\ op[o].key = l.key
                      \/ box'[n] = None
                      \/ l \in stale
    OBVIOUS
  <2>1. ASSUME NEW m \in Name, Remove(m) PROVE box'[n] = None
    BY <1>1, <2>1 DEF Remove, IInv, BoxesSound
  <2>2. ASSUME NEW o \in Op, UpdateMailbox(o) \/ OwnerRemoves(o) PROVE box'[n] = None
    <3>1. op[o].name \in Name
      BY <1>1, <2>2 DEF UpdateMailbox, OwnerRemoves, Go, IInv, Requests, Shaped
    <3>2. Remove(op[o].name)
      BY <2>2 DEF UpdateMailbox, OwnerRemoves, SetKey, storeVars
    <3> QED
      BY <2>1, <3>1, <3>2
  <2>3. ASSUME OperatorRemoves PROVE box'[n] = None
    BY <1>1, <2>1, <2>3 DEF OperatorRemoves, DeletionDone, IInv, AccountsSound
  <2>4. ASSUME NEW o \in Op, Ack(o)
        PROVE  l \in hand[o] /\ op[o].name = n /\ op[o].key = l.key
    <3>1. PICK acked \in SUBSET hand[o] : letters' = [letters EXCEPT ![op[o].name] = @ \ acked]
      BY <2>4 DEF Ack
    <3>2. l \in hand[o] /\ op[o].name = n
      BY <1>1, <3>1 DEF IInv, BoxesSound
    <3> QED
      BY <1>1, <3>2 DEF IInv, BoxesSound, HandMine
  <2>5. ASSUME Expire PROVE l \in stale
    BY <2>5 DEF Expire
  <2>6. ASSUME NEW s \in Sender, Put(s) \/ \E m \in Name, size \in {1, 2} : PutBegins(s, m, size)
        PROVE  FALSE
    BY <1>1, <2>6 DEF Put, PutBegins, IInv, BoxesSound
  <2>7. ASSUME NEW o \in Op, Fetch(o) PROVE FALSE
    BY <2>7 DEF Fetch
  <2>8. ASSUME Age \/ RestartAll \/ UNCHANGED mailboxVars \/ UNCHANGED dataVars PROVE FALSE
    BY <2>8 DEF Age, RestartAll, mailboxVars, dataVars
  <2> QED
    BY <1>1, <2>2, <2>3, <2>4, <2>5, <2>6, <2>7, <2>8 DEF DataNext
<1>2. IInv /\ [DataNext]_dataVars => [A]_dataVars
  BY <1>1
<1> QED
  BY <1>2, Invariant, PTL DEF DataSpec, LettersGoRightly

-----------------------------------------------------------------------------
(* Accounts implements Registry.                                           *)

Inforce == Entries(mem)
Kept == Entries(file)
Asked == [o \in Op |-> AskOf(op[o])]
Fates == [o \in Op |-> FateOf(op[o])]

EntryOf(a) == [pass |-> a.hash.pass, key |-> a.key]

\* The step as the registry sees it.
Mapped == [Promised!RegistryNext]_(Promised!registryVars)

\* What the registry does not see.
LEMMA NotSeen == ASSUME UNCHANGED <<Inforce, Kept, Asked, Fates>> PROVE Mapped
  BY DEF Mapped, Promised!registryVars, Inforce, Kept, Asked, Fates

LEMMA SameAccounts ==
    /\ UNCHANGED mem => UNCHANGED Inforce
    /\ UNCHANGED file => UNCHANGED Kept
    /\ mem' = file => Inforce' = Kept
    /\ file' = mem' => Kept' = Inforce'
  BY DEF Inforce, Kept, Entries

LEMMA SameRequests == ASSUME UNCHANGED op PROVE UNCHANGED <<Asked, Fates>>
  BY DEF Asked, Fates, AskOf, FateOf

\* An account in memory has an entry, and only such.
LEMMA EntryThere ==
    ASSUME mem \in Accts, NEW n \in Name
    PROVE  /\ mem[n] # None => Inforce[n] # None /\ Inforce[n] = EntryOf(mem[n])
           /\ mem[n] = None => Inforce[n] = None
<1>1. ASSUME mem[n] # None PROVE Inforce[n] = EntryOf(mem[n]) /\ Inforce[n] # None
  <2>1. EntryOf(mem[n]) \in [pass : Pass, key : Key \union {None}]
    BY <1>1 DEF Accts, Account, Hash, EntryOf
  <2>2. Inforce[n] = EntryOf(mem[n])
    BY <1>1 DEF Inforce, Entries, EntryOf
  <2> QED
    BY <2>1, <2>2, NoneIsNoEntry
<1>2. ASSUME mem[n] = None PROVE Inforce[n] = None
  BY <1>2 DEF Inforce, Entries
<1> QED
  BY <1>1, <1>2

\* The account of a name changes, is made or goes.
LEMMA EntryMade ==
    ASSUME mem \in Accts, NEW n \in Name, NEW a \in Account, mem' = [mem EXCEPT ![n] = a]
    PROVE  Inforce' = [Inforce EXCEPT ![n] = EntryOf(a)]
  BY NoneIsNoAccount DEF Inforce, Entries, EntryOf, Accts

LEMMA EntryGone ==
    ASSUME mem \in Accts, NEW n \in Name, mem' = [mem EXCEPT ![n] = None]
    PROVE  Inforce' = [Inforce EXCEPT ![n] = None]
  BY DEF Inforce, Entries, Accts

\* A request moves on: it asks for what it asked for.
LEMMA GoSeen ==
    ASSUME Requests, NEW o \in Op, NEW to \in Step, op' = [op EXCEPT ![o].step = to]
    PROVE  /\ Asked' = Asked
           /\ Fates' = [Fates EXCEPT ![o] = FateOf([op[o] EXCEPT !.step = to])]
<1>1. op' = [op EXCEPT ![o] = [op[o] EXCEPT !.step = to]]
  OBVIOUS
<1> DEFINE r == [op[o] EXCEPT !.step = to]
<1>2. AskOf(r) = AskOf(op[o])
  BY DEF Requests, OpRecord, AskOf
<1> HIDE DEF r
<1>3. \A q \in Op : op'[q] = IF q = o THEN r ELSE op[q]
  BY <1>1 DEF Requests, r
<1>4. \A q \in Op : AskOf(op'[q]) = AskOf(op[q])
  BY <1>2, <1>3
<1>5. \A q \in Op : FateOf(op'[q]) = IF q = o THEN FateOf(r) ELSE FateOf(op[q])
  BY <1>3
<1>6. Asked' = [q \in Op |-> AskOf(op'[q])] /\ Fates' = [q \in Op |-> FateOf(op'[q])]
  BY DEF Asked, Fates, AskOf, FateOf
<1>7. Asked' = Asked
  BY <1>4, <1>6 DEF Asked
<1>8. Fates' = [Fates EXCEPT ![o] = FateOf(r)]
  BY <1>5, <1>6 DEF Fates
<1> QED
  BY <1>7, <1>8 DEF r

\* What has become of a request, by its step.
LEMMA FateIs ==
    ASSUME NEW r \in OpRecord
    PROVE  /\ r.step = "unused" => FateOf(r) = "new"
           /\ r.step \in {"invite", "create"} => FateOf(r) = "open"
           /\ r.step = "commit" => FateOf(r) = IF r.kind = "delete" THEN "checked" ELSE "open"
           /\ r.step \in {"restore", "failed", "giveback", "unsaved"} => FateOf(r) = "refused"
           /\ r.step \in {"lost", "unanswered"} => FateOf(r) = "lost"
           /\ r.step \in {"bind", "done", "ending", "online", "fetched"} => FateOf(r) = "granted"
  BY DEF FateOf

\* A request moves on, and what it has become is known from where it gets.
LEMMA GoBecomes ==
    ASSUME Requests, NEW o \in Op, NEW to \in Step, op' = [op EXCEPT ![o].step = to]
    PROVE  /\ Asked' = Asked
           /\ to \in {"bind", "done", "ending", "online", "fetched"} =>
                  Fates' = [Fates EXCEPT ![o] = "granted"]
           /\ to \in {"restore", "failed", "giveback", "unsaved"} => Fates' = [Fates EXCEPT ![o] = "refused"]
           /\ to \in {"invite", "create"} \/ (to = "commit" /\ op[o].kind # "delete") =>
                  Fates' = [Fates EXCEPT ![o] = "open"]
<1> DEFINE r == [op[o] EXCEPT !.step = to]
<1>1. r \in OpRecord /\ r.step = to /\ r.kind = op[o].kind
  BY DEF Requests, OpRecord
<1>2. Asked' = Asked /\ Fates' = [Fates EXCEPT ![o] = FateOf(r)]
  BY GoSeen
<1> HIDE DEF r
<1> QED
  BY <1>1, <1>2, FateIs

LEMMA FateHere ==
    ASSUME Requests, NEW o \in Op
    PROVE  /\ op[o] \in OpRecord /\ Fates[o] = FateOf(op[o]) /\ Asked[o] = AskOf(op[o])
           /\ Fates = [Fates EXCEPT ![o] = Fates[o]]
  BY DEF Requests, Fates, Asked

\* A request is refused and nothing else changes.
LEMMA RefusedSeen ==
    ASSUME Requests, NEW o \in Op, Fates[o] = "open", Asked' = Asked,
           Fates' = [Fates EXCEPT ![o] = "refused"], UNCHANGED <<mem, file>>
    PROVE  Mapped
<1>1. UNCHANGED <<Inforce, Kept>>
  BY SameAccounts
<1>2. Promised!Refuse(o)
  BY <1>1 DEF Promised!Refuse, Promised!Becomes, Inforce, Kept, Asked, Fates
<1> QED
  BY <1>2 DEF Mapped, Promised!RegistryNext

\* A request takes effect.
LEMMA TakesSeen ==
    ASSUME NEW o \in Op, NEW e, Inforce' = [Inforce EXCEPT ![op[o].name] = e], Asked' = Asked,
           \/ file' = mem' /\ Fates' = [Fates EXCEPT ![o] = "granted"]
           \/ UNCHANGED file /\ Fates' = [Fates EXCEPT ![o] = "refused"]
    PROVE  Promised!Takes(o, e)
<1>1. \/ Kept' = Inforce' /\ Fates' = [Fates EXCEPT ![o] = "granted"]
      \/ Kept' = Kept /\ Fates' = [Fates EXCEPT ![o] = "refused"]
  BY SameAccounts
<1>2. Asked[o].name = op[o].name
  BY DEF Asked, AskOf
<1>3. Inforce' = [Inforce EXCEPT ![Asked[o].name] = e]
  BY <1>2
<1> QED
  BY <1>1, <1>3 DEF Promised!Takes, Promised!Becomes, Inforce, Kept, Asked, Fates

\* A registration.
LEMMA CreateSeen == ASSUME Requests, AccountsSound, NEW o \in Op, CreateCommits(o) PROVE Mapped
<1> DEFINE n == op[o].name
           a == [hash |-> [pass |-> op[o].pass, by |-> o, old |-> FALSE], key |-> op[o].key]
<1>1. n \in Name /\ op[o].pass \in Pass /\ op[o].key \in Key /\ op[o].kind = "register" /\ op[o].step = "commit"
  <2>1. Shaped(op[o]) /\ op[o].kind = "register" /\ op[o].step = "commit"
    BY DEF Requests, CreateCommits, Is
  <2> QED
    BY <2>1 DEF Shaped
<1>2. a \in Account
  BY <1>1, AccountsAssumption DEF Account, Hash, Op
<1>3. /\ {"bind", "restore", "failed", "giveback", "unsaved"} \subseteq Step
      /\ GiveBack \in {"restore", "failed"} /\ GiveBackUnsaved \in {"giveback", "unsaved"}
  BY DEF Step, GiveBack, GiveBackUnsaved
<1>4. Fates[o] = "open"
  BY <1>1, FateHere, FateIs
<1>5. ASSUME Go(o, "commit", GiveBack) \/ Go(o, "commit", GiveBackUnsaved)
      PROVE  Asked' = Asked /\ Fates' = [Fates EXCEPT ![o] = "refused"]
  BY <1>3, <1>5, GoBecomes DEF Go
<1>6. CASE mem[n] # None
  BY <1>4, <1>5, <1>6, RefusedSeen DEF CreateCommits
<1>7. CASE mem[n] = None
  <2>1. mem' = [mem EXCEPT ![n] = a]
    BY <1>7 DEF CreateCommits
  <2>2. \/ Saved(mem') /\ Go(o, "commit", "bind")
        \/ SaveFails /\ Go(o, "commit", GiveBackUnsaved)
    BY <1>7 DEF CreateCommits
  <2> DEFINE e == EntryOf(a)
  <2>3. e = [pass |-> op[o].pass, key |-> op[o].key]
    BY DEF EntryOf
  <2> HIDE DEF a
  <2>4. Inforce' = [Inforce EXCEPT ![n] = e]
    BY <1>1, <1>2, <2>1, EntryMade DEF AccountsSound
  <2> HIDE DEF e
  <2>5. ASSUME Saved(mem'), Go(o, "commit", "bind") PROVE Promised!Takes(o, e)
    <3>1. Asked' = Asked /\ Fates' = [Fates EXCEPT ![o] = "granted"]
      BY <1>3, <2>5, GoBecomes DEF Go
    <3> QED
      BY <2>4, <2>5, <3>1, TakesSeen DEF Saved
  <2>6. ASSUME SaveFails, Go(o, "commit", GiveBackUnsaved) PROVE Promised!Takes(o, e)
    BY <1>5, <2>4, <2>6, TakesSeen DEF SaveFails
  <2>7. Promised!Takes(o, e)
    BY <2>2, <2>5, <2>6
  <2>8. Asked[o] = AskOf(op[o]) /\ Inforce[n] = None
    BY <1>1, <1>7, EntryThere, FateHere DEF AccountsSound
  <2>9. Promised!Open(o, "register") /\ ~Promised!There(op[o].name)
    BY <1>1, <1>4, <2>8 DEF Promised!Open, Promised!There, Asked, Fates, Inforce, AskOf
  <2>10. e = [pass |-> Asked[o].pass, key |-> Asked[o].key] /\ Asked[o].name = n
    BY <2>3, <2>8 DEF AskOf
  <2>11. Promised!Register(o)
    BY <2>7, <2>9, <2>10 DEF Promised!Register, Asked
  <2> QED
    BY <2>11 DEF Mapped, Promised!RegistryNext
<1> QED
  BY <1>6, <1>7

\* A request that knows the password in force does so in the registry.
LEMMA RightlySeen ==
    ASSUME mem \in Accts, NEW o \in Op, op[o].name \in Name,
           mem[op[o].name] # None, mem[op[o].name].hash.pass = op[o].pass
    PROVE  Promised!Rightly(Asked[o])
<1> DEFINE n == op[o].name
<1>0. n \in Name /\ mem[n] # None /\ mem[n].hash.pass = op[o].pass
  OBVIOUS
<1> HIDE DEF n
<1>1. Inforce[n] # None /\ Inforce[n].pass = op[o].pass
  <2>1. Inforce[n] # None /\ Inforce[n] = EntryOf(mem[n])
    BY <1>0, EntryThere
  <2>2. EntryOf(mem[n]).pass = op[o].pass
    BY <1>0 DEF EntryOf
  <2> QED
    BY <2>1, <2>2
<1>2. Asked[o].name = n /\ Asked[o].pass = op[o].pass
  BY DEF Asked, AskOf, n
<1>3. Inforce[Asked[o].name] # None /\ Inforce[Asked[o].name].pass = Asked[o].pass
  BY <1>1, <1>2
<1> QED
  BY <1>3 DEF Promised!Rightly, Promised!There, Inforce

\* A request is granted, and there was nothing to change.
LEMMA PassesSeen ==
    ASSUME NEW o \in Op, UNCHANGED <<mem, file>>, Asked' = Asked, Fates' = [Fates EXCEPT ![o] = "granted"]
    PROVE  Promised!Passes(o)
<1>1. UNCHANGED <<Inforce, Kept>>
  BY SameAccounts
<1> QED
  BY <1>1 DEF Promised!Passes, Promised!Becomes, Inforce, Kept, Asked, Fates

\* A login.
LEMMA LoginSeen == ASSUME Requests, AccountsSound, NEW o \in Op, LoginCommits(o) PROVE Mapped
<1> DEFINE n == op[o].name
           a == [hash |-> IF op[o].snap.hash.old THEN [pass |-> op[o].pass, by |-> o, old |-> FALSE]
                          ELSE mem[n].hash,
                 key |-> op[o].key]
           linked == [pass |-> Asked[o].pass, key |-> Asked[o].key]
<1>1. op[o].kind = "login" /\ op[o].step = "commit"
  BY DEF LoginCommits, Is
<1>2. {"bind", "failed"} \subseteq Step
  BY DEF Step
<1>3. Fates[o] = "open" /\ Asked[o] = AskOf(op[o])
  BY <1>1, FateHere, FateIs
<1>4. ASSUME Go(o, "commit", "failed") PROVE Asked' = Asked /\ Fates' = [Fates EXCEPT ![o] = "refused"]
  BY <1>2, <1>4, GoBecomes DEF Go
<1>5. ASSUME Go(o, "commit", "bind") PROVE Asked' = Asked /\ Fates' = [Fates EXCEPT ![o] = "granted"]
  BY <1>2, <1>5, GoBecomes DEF Go
<1>6. CASE ~Unchanged(o)
  BY <1>3, <1>4, <1>6, RefusedSeen DEF LoginCommits
<1>7. CASE Unchanged(o)
  <2>1. n \in Name /\ op[o].pass \in Pass /\ mem[n] \in Account /\ mem[n].hash.pass = op[o].pass
    BY <1>1, <1>7, KnowsPassword
  <2>2. op[o].key \in Key
    BY <1>1 DEF Requests, Shaped
  <2>3. mem[n].hash \in Hash /\ [pass |-> op[o].pass, by |-> o, old |-> FALSE] \in Hash
    BY <2>1, AccountsAssumption DEF Account, Hash, Op
  <2>4. a \in Account /\ a.hash.pass = op[o].pass /\ a.key = op[o].key
    BY <2>1, <2>2, <2>3 DEF Account
  <2>5. EntryOf(a) = linked
    BY <1>3, <2>4 DEF EntryOf, AskOf
  <2>6. Promised!Open(o, "login") /\ Promised!Rightly(Asked[o])
    <3>1. Promised!Open(o, "login")
      BY <1>1, <1>3 DEF Promised!Open, Asked, Fates, AskOf
    <3>2. Promised!Rightly(Asked[o])
      BY <1>7, <2>1, RightlySeen DEF Unchanged, AccountsSound
    <3> QED
      BY <3>1, <3>2
  <2>7. CASE a = mem[n]
    <3>1. UNCHANGED <<mem, file>> /\ Go(o, "commit", "bind")
      BY <1>7, <2>7 DEF LoginCommits
    <3>2. Promised!Passes(o)
      BY <1>5, <3>1, PassesSeen
    <3>3. Inforce[n] = linked /\ Asked[o].name = n
      BY <1>3, <1>7, <2>1, <2>5, <2>7, EntryThere DEF AccountsSound, Unchanged, AskOf
    <3>4. Promised!Login(o)
      BY <2>6, <3>2, <3>3 DEF Promised!Login, Asked, Inforce
    <3> QED
      BY <3>4 DEF Mapped, Promised!RegistryNext
  <2>8. CASE a # mem[n]
    <3>1. mem' = [mem EXCEPT ![n] = a]
      BY <1>7, <2>8 DEF LoginCommits
    <3>2. \/ Saved(mem') /\ Go(o, "commit", "bind")
          \/ SaveFails /\ Go(o, "commit", "failed")
      BY <1>7, <2>8 DEF LoginCommits
    <3> HIDE DEF a
    <3>3. Inforce' = [Inforce EXCEPT ![n] = linked]
      BY <2>1, <2>4, <2>5, <3>1, EntryMade DEF AccountsSound
    <3> HIDE DEF linked
    <3>4. Promised!Takes(o, linked)
      BY <1>4, <1>5, <3>2, <3>3, TakesSeen DEF Saved, SaveFails
    <3>5. Promised!Login(o)
      BY <2>6, <3>4 DEF Promised!Login, linked, Asked
    <3> QED
      BY <3>5 DEF Mapped, Promised!RegistryNext
  <2> QED
    BY <2>7, <2>8
<1> QED
  BY <1>6, <1>7

\* A change of the password.
LEMMA ChangeSeen == ASSUME Requests, AccountsSound, NEW o \in Op, ChangeCommits(o) PROVE Mapped
<1> DEFINE n == op[o].name
           a == [mem[n] EXCEPT !.hash = [pass |-> op[o].new, by |-> o, old |-> FALSE]]
           e == [Inforce[n] EXCEPT !.pass = Asked[o].new]
<1>1. op[o].kind = "change" /\ op[o].step = "commit"
  BY DEF ChangeCommits, Is
<1>2. {"done", "failed"} \subseteq Step
  BY DEF Step
<1>3. Fates[o] = "open" /\ Asked[o] = AskOf(op[o])
  BY <1>1, FateHere, FateIs
<1>4. ASSUME Go(o, "commit", "failed") PROVE Asked' = Asked /\ Fates' = [Fates EXCEPT ![o] = "refused"]
  BY <1>2, <1>4, GoBecomes DEF Go
<1>5. ASSUME Go(o, "commit", "done") PROVE Asked' = Asked /\ Fates' = [Fates EXCEPT ![o] = "granted"]
  BY <1>2, <1>5, GoBecomes DEF Go
<1>6. CASE ~Unchanged(o)
  BY <1>3, <1>4, <1>6, RefusedSeen DEF ChangeCommits
<1>7. CASE Unchanged(o)
  <2>1. n \in Name /\ mem[n] \in Account /\ mem[n].hash.pass = op[o].pass /\ mem[n] # None
    BY <1>1, <1>7, KnowsPassword DEF Unchanged
  <2>2. op[o].new \in Pass
    BY <1>1 DEF Requests, Shaped
  <2>3. a \in Account /\ a.hash.pass = op[o].new /\ a.key = mem[n].key
    <3> DEFINE h == [pass |-> op[o].new, by |-> o, old |-> FALSE]
    <3>1. h \in Hash /\ h.pass = op[o].new
      BY <2>2, AccountsAssumption DEF Hash, Op
    <3> HIDE DEF h
    <3>2. [mem[n] EXCEPT !.hash = h] \in Account
      BY <2>1, <3>1 DEF Account
    <3>3. [mem[n] EXCEPT !.hash = h].hash = h /\ [mem[n] EXCEPT !.hash = h].key = mem[n].key
      BY <2>1 DEF Account
    <3> QED
      BY <3>1, <3>2, <3>3 DEF h
  <2>4. Inforce[n] = EntryOf(mem[n])
    BY <2>1, EntryThere DEF AccountsSound
  <2>5. EntryOf(a) = e
    BY <1>3, <2>3, <2>4 DEF EntryOf, AskOf
  <2>6. Promised!Open(o, "change")
    BY <1>1, <1>3 DEF Promised!Open, Asked, Fates, AskOf
  <2>7. Promised!Rightly(Asked[o])
    BY <2>1, RightlySeen DEF AccountsSound
  <2>8. mem' = [mem EXCEPT ![n] = a]
    BY <1>7 DEF ChangeCommits
  <2>9. \/ Saved(mem') /\ Go(o, "commit", "done")
        \/ SaveFails /\ Go(o, "commit", "failed")
    BY <1>7 DEF ChangeCommits
  <2> HIDE DEF a
  <2>10. Inforce' = [Inforce EXCEPT ![n] = e]
    BY <2>1, <2>3, <2>5, <2>8, EntryMade DEF AccountsSound
  <2> HIDE DEF e
  <2>11. Promised!Takes(o, e)
    BY <1>4, <1>5, <2>9, <2>10, TakesSeen DEF Saved, SaveFails
  <2>12. e = [Inforce[Asked[o].name] EXCEPT !.pass = Asked[o].new]
    BY <1>3 DEF e, AskOf
  <2>13. Promised!Change(o)
    BY <2>6, <2>7, <2>11, <2>12 DEF Promised!Change, Asked, Inforce
  <2> QED
    BY <2>13 DEF Mapped, Promised!RegistryNext
<1> QED
  BY <1>6, <1>7

\* A deletion by the owner removes whatever account the name has by then.
LEMMA DeleteSeen == ASSUME Requests, AccountsSound, NEW o \in Op, DeleteCommits(o) PROVE Mapped
<1> DEFINE n == op[o].name
<1>1. op[o].kind = "delete" /\ op[o].step = "commit"
  BY DEF DeleteCommits, Is
<1>2. {"ending", "failed"} \subseteq Step
  BY DEF Step
<1>3. Fates[o] = "checked" /\ Asked[o] = AskOf(op[o])
  BY <1>1, FateHere, FateIs
<1>4. n \in Name
  BY <1>1 DEF Requests, Shaped
<1>5. ASSUME Go(o, "commit", "failed") PROVE Asked' = Asked /\ Fates' = [Fates EXCEPT ![o] = "refused"]
  BY <1>2, <1>5, GoBecomes DEF Go
<1>6. ASSUME Go(o, "commit", "ending") PROVE Asked' = Asked /\ Fates' = [Fates EXCEPT ![o] = "granted"]
  BY <1>2, <1>6, GoBecomes DEF Go
<1>7. mem' = [mem EXCEPT ![n] = None]
  BY DEF DeleteCommits, Delete
<1>8. CASE mem[n] = None
  <2>1. UNCHANGED <<mem, file>> /\ Go(o, "commit", "ending")
    BY <1>4, <1>7, <1>8 DEF DeleteCommits, AccountsSound, Accts
  <2>2. Promised!Passes(o)
    BY <1>6, <2>1, PassesSeen
  <2>3. Inforce[Asked[o].name] = None
    BY <1>3, <1>4, <1>8, EntryThere DEF AccountsSound, AskOf
  <2>4. Promised!Delete(o)
    BY <1>3, <2>2, <2>3 DEF Promised!Delete, Promised!There, Asked, Fates, Inforce
  <2> QED
    BY <2>4 DEF Mapped, Promised!RegistryNext
<1>9. CASE mem[n] # None
  <2>1. \/ Saved(mem') /\ Go(o, "commit", "ending")
        \/ SaveFails /\ Go(o, "commit", "failed")
    BY <1>9 DEF DeleteCommits
  <2>2. Inforce' = [Inforce EXCEPT ![n] = None]
    BY <1>4, <1>7, EntryGone DEF AccountsSound
  <2>3. Promised!Takes(o, None)
    BY <1>5, <1>6, <2>1, <2>2, TakesSeen DEF Saved, SaveFails
  <2>4. Promised!Delete(o)
    BY <1>3, <2>3 DEF Promised!Delete, Fates
  <2> QED
    BY <2>4 DEF Mapped, Promised!RegistryNext
<1> QED
  BY <1>8, <1>9

\* The steps of a registration that do not touch the accounts.
LEMMA RegisterSeen ==
    ASSUME Requests, NEW o \in Op, Consume(o) \/ CreateHashes(o) \/ Restore(o)
    PROVE  Mapped
<1>1. UNCHANGED <<mem, file>> /\ op[o].kind = "register"
  BY DEF Consume, CreateHashes, Restore, Is, diskVars
<1>2. {"create", "commit", "restore", "failed", "unsaved"} \subseteq Step
  BY DEF Step
<1>3. CASE \E to \in {"create", "commit"} :
               op[o].step \in {"invite", "create"} /\ op' = [op EXCEPT ![o].step = to]
  <2>1. Fates[o] = "open"
    BY <1>3, FateHere, FateIs
  <2>2. Asked' = Asked /\ Fates' = [Fates EXCEPT ![o] = "open"]
    BY <1>1, <1>2, <1>3, GoBecomes
  <2>3. UNCHANGED <<Asked, Fates>>
    BY <2>1, <2>2, FateHere
  <2> QED
    BY <1>1, <2>3, SameAccounts, NotSeen
<1>4. CASE \E to \in {"restore", "failed"} :
               op[o].step \in {"invite", "create"} /\ op' = [op EXCEPT ![o].step = to]
  <2>1. Fates[o] = "open"
    BY <1>4, FateHere, FateIs
  <2>2. Asked' = Asked /\ Fates' = [Fates EXCEPT ![o] = "refused"]
    BY <1>2, <1>4, GoBecomes
  <2> QED
    BY <1>1, <2>1, <2>2, RefusedSeen
<1>5. CASE \E to \in {"failed", "unsaved"} :
               op[o].step \in {"restore", "giveback"} /\ op' = [op EXCEPT ![o].step = to]
  <2>1. Fates[o] = "refused"
    BY <1>5, FateHere, FateIs
  <2>2. Asked' = Asked /\ Fates' = [Fates EXCEPT ![o] = "refused"]
    BY <1>2, <1>5, GoBecomes
  <2>3. UNCHANGED <<Asked, Fates>>
    BY <2>1, <2>2, FateHere
  <2> QED
    BY <1>1, <2>3, SameAccounts, NotSeen
<1>6. CASE Consume(o)
  BY <1>3, <1>4, <1>6 DEF Consume, Go
<1>7. CASE CreateHashes(o)
  BY <1>3, <1>4, <1>7 DEF CreateHashes, Go, GiveBack
<1>8. CASE Restore(o)
  BY <1>5, <1>8 DEF Restore, Go
<1> QED
  BY <1>6, <1>7, <1>8

\* A request arrives.
LEMMA AskSeen ==
    ASSUME Requests, NEW o \in Op, NEW kind \in Kind, NEW step \in Step, NEW n \in Name,
           NEW p \in Pass \union {None}, NEW new \in Pass \union {None},
           NEW k \in Key \union {None}, NEW c \in Code \union {None}, NEW snap \in Account \union {None},
           Arrives(o, kind, step, n, p, new, k, c, snap), UNCHANGED <<mem, file>>,
           \/ kind \in {"register", "login", "change"} /\ step \in {"invite", "create", "commit"}
           \/ kind = "keylogin" /\ step = "bind" /\ Inforce[n] # None /\ Inforce[n].key = k
           \/ kind = "delete" /\ step = "commit" /\ Inforce[n] # None /\ Inforce[n].pass = p
    PROVE  Mapped
<1> DEFINE r == [kind |-> kind, step |-> step, name |-> n, pass |-> p, new |-> new,
                 key |-> k, code |-> c, snap |-> snap]
           a == [kind |-> kind, name |-> n, pass |-> p, new |-> new, key |-> k]
           result == FateOf(r)
<1>1. r \in OpRecord /\ r.kind = kind /\ r.step = step /\ AskOf(r) = a
  BY DEF OpRecord, AskOf
<1>2. op' = [op EXCEPT ![o] = r] /\ o = begun + 1
  BY DEF Arrives
<1>3. a \in Promised!Ask /\ a.kind = kind /\ a.name = n /\ a.pass = p /\ a.key = k
  BY DEF Promised!Ask, Kind
<1> HIDE DEF r, a, result
<1>4. \A q \in Op : op'[q] = IF q = o THEN r ELSE op[q]
  BY <1>2 DEF Requests
<1>5. FateOf(r) = result
  BY DEF result
<1>6. /\ \A q \in Op : AskOf(op'[q]) = IF q = o THEN a ELSE AskOf(op[q])
      /\ \A q \in Op : FateOf(op'[q]) = IF q = o THEN result ELSE FateOf(op[q])
  BY <1>1, <1>4, <1>5
<1>7. Asked' = [q \in Op |-> AskOf(op'[q])] /\ Fates' = [q \in Op |-> FateOf(op'[q])]
  BY DEF Asked, Fates, AskOf, FateOf
<1>8. Asked' = [Asked EXCEPT ![o] = a] /\ Fates' = [Fates EXCEPT ![o] = result]
  BY <1>6, <1>7 DEF Asked, Fates
<1>9. op[o].step = "unused"
  BY <1>2 DEF Requests, Op
<1>10. Fates[o] = "new"
  BY <1>9, FateHere, FateIs
<1>11. UNCHANGED <<Inforce, Kept>>
  BY SameAccounts
<1>12. Promised!Becomes(o, result)
  BY <1>8 DEF Promised!Becomes, Fates
<1>13. \/ a.kind \in {"register", "login", "change"} /\ Promised!Becomes(o, "open")
       \/ a.kind = "keylogin" /\ Promised!There(a.name) /\ Inforce[a.name].key = a.key
          /\ Promised!Becomes(o, "granted")
       \/ a.kind = "delete" /\ Promised!Rightly(a) /\ Promised!Becomes(o, "checked")
  <2>1. /\ kind \in {"register", "login", "change"} => result = "open"
        /\ kind = "keylogin" => result = "granted"
        /\ kind = "delete" => result = "checked"
    BY <1>1, <1>5, FateIs
  <2> QED
    BY <1>3, <1>12, <2>1 DEF Promised!There, Promised!Rightly, Inforce
<1>14. Promised!Asks(o, a)
  BY <1>8, <1>10, <1>11, <1>13 DEF Promised!Asks, Inforce, Kept, Asked, Fates
<1> QED
  BY <1>3, <1>10, <1>14 DEF Mapped, Promised!RegistryNext, Fates

LEMMA RequestSeen == ASSUME Requests, AccountsSound, NEW o \in Op, Request(o) PROVE Mapped
<1>1. {"bind", "invite", "create", "commit"} \subseteq Step
  BY DEF Step
<1>2. {"register", "keylogin", "login", "change", "delete"} \subseteq Kind
  BY DEF Kind
<1>3. ASSUME NEW n \in Name, NEW p \in Pass, Matches(n, p)
      PROVE  mem[n] \in Account /\ Inforce[n] # None /\ Inforce[n].pass = p
  <2>1. mem[n] # None /\ mem[n].hash.pass = p
    BY <1>3 DEF Matches
  <2>2. Inforce[n] # None /\ Inforce[n] = EntryOf(mem[n])
    BY <2>1, EntryThere DEF AccountsSound
  <2> QED
    BY <2>1, <2>2 DEF EntryOf, AccountsSound, Accts
<1>4. ASSUME NEW n \in Name, NEW p \in Pass, NEW k \in Key, NEW c \in Code, RegisterBegins(o, n, p, k, c)
      PROVE  Mapped
  <2> DEFINE first == IF InviteOnly THEN "invite" ELSE "create"
  <2>1. first \in {"invite", "create"}
    OBVIOUS
  <2>2. Arrives(o, "register", first, n, p, None, k, c, None) /\ UNCHANGED <<mem, file>>
    BY <1>4 DEF RegisterBegins, diskVars
  <2> HIDE DEF first
  <2> QED
    BY <1>1, <1>2, <2>1, <2>2, AskSeen
<1>5. ASSUME NEW n \in Name, NEW k \in Key, KeyLogin(o, n, k) PROVE Mapped
  <2>1. Arrives(o, "keylogin", "bind", n, None, None, k, None, None) /\ UNCHANGED <<mem, file>>
    BY <1>5 DEF KeyLogin, diskVars
  <2>2. mem[n] # None /\ mem[n].key = k
    BY <1>5 DEF KeyLogin
  <2>3. Inforce[n] # None /\ Inforce[n] = EntryOf(mem[n])
    BY <2>2, EntryThere DEF AccountsSound
  <2>4. Inforce[n].key = k
    BY <2>2, <2>3 DEF EntryOf
  <2> QED
    BY <1>1, <1>2, <2>1, <2>3, <2>4, AskSeen
<1>6. ASSUME NEW n \in Name, NEW p \in Pass, NEW k \in Key, LoginChecks(o, n, p, k) PROVE Mapped
  <2>1. /\ Arrives(o, "login", "commit", n, p, None, k, None, mem[n]) /\ UNCHANGED <<mem, file>>
        /\ Matches(n, p)
    BY <1>6 DEF LoginChecks, diskVars
  <2>2. mem[n] \in Account
    BY <1>3, <2>1
  <2> QED
    BY <1>1, <1>2, <2>1, <2>2, AskSeen
<1>7. ASSUME NEW n \in Name, NEW p \in Pass, DeleteChecks(o, n, p) PROVE Mapped
  <2>1. /\ Arrives(o, "delete", "commit", n, p, None, None, None, None) /\ UNCHANGED <<mem, file>>
        /\ Matches(n, p)
    BY <1>7 DEF DeleteChecks, diskVars
  <2>2. Inforce[n] # None /\ Inforce[n].pass = p
    BY <1>3, <2>1
  <2> QED
    BY <1>1, <1>2, <2>1, <2>2, AskSeen
<1>8. ASSUME NEW n \in Name, NEW p \in Pass, NEW new \in Pass, ChangeChecks(o, n, p, new) PROVE Mapped
  <2>1. /\ Arrives(o, "change", "commit", n, p, new, None, None, mem[n]) /\ UNCHANGED <<mem, file>>
        /\ Matches(n, p)
    BY <1>8 DEF ChangeChecks, diskVars
  <2>2. mem[n] \in Account
    BY <1>3, <2>1
  <2> QED
    BY <1>1, <1>2, <2>1, <2>2, AskSeen
<1> QED
  BY <1>4, <1>5, <1>6, <1>7, <1>8 DEF Request

\* What a session does once its request was granted.
LEMMA SessionSeen ==
    ASSUME Requests, NEW o \in Op, UpdateMailbox(o) \/ OwnerRemoves(o) \/ Fetch(o) \/ Ack(o)
    PROVE  Mapped
<1>1. UNCHANGED <<mem, file>>
  BY DEF UpdateMailbox, OwnerRemoves, Fetch, Ack, diskVars
<1>2. PICK move \in {<<"bind", "online">>, <<"ending", "done">>, <<"online", "fetched">>, <<"fetched", "online">>} :
          op[o].step = move[1] /\ op' = [op EXCEPT ![o].step = move[2]]
  BY SessionGoes
<1>3. /\ op[o].step \in {"bind", "ending", "online", "fetched"}
      /\ move[2] \in {"online", "done", "fetched"} /\ move[2] \in Step
  BY <1>2 DEF Step
<1>4. Fates[o] = "granted"
  BY <1>3, FateHere, FateIs
<1>5. Asked' = Asked /\ Fates' = [Fates EXCEPT ![o] = "granted"]
  BY <1>2, <1>3, GoBecomes
<1>6. UNCHANGED <<Asked, Fates>>
  BY <1>4, <1>5, FateHere
<1> QED
  BY <1>1, <1>6, SameAccounts, NotSeen

\* The operator's deletion.
LEMMA ProcessSeen == ASSUME AccountsSound, NEW n \in Name, ProcessDeletion(n) PROVE Mapped
<1>1. mem' = [mem EXCEPT ![n] = None] /\ op' = op
  BY DEF ProcessDeletion, Delete
<1>2. file' = mem' \/ file' = file
  BY DEF ProcessDeletion, Saved, SaveFails
<1>3. Inforce' = [Inforce EXCEPT ![n] = None]
  BY <1>1, EntryGone DEF AccountsSound
<1>4. Kept' = Inforce' \/ Kept' = Kept
  BY <1>2, SameAccounts
<1>5. UNCHANGED <<Asked, Fates>>
  BY <1>1, SameRequests
<1>6. Promised!Operate(n)
  BY <1>3, <1>4, <1>5 DEF Promised!Operate, Inforce, Kept, Asked, Fates
<1> QED
  BY <1>6 DEF Mapped, Promised!RegistryNext

\* A stop: what was not answered is lost, and nothing else.
LEMMA RestartSeen == ASSUME Requests, Restart PROVE Mapped
<1> DEFINE lost == {o \in Op : op[o].step \in (InProgress \ {"giveback"}) \union {"lost", "unanswered"}}
<1>1. mem' = file /\ file' = file
  BY DEF Restart, diskVars
<1>2. Inforce' = Kept /\ Kept' = Kept
  BY <1>1, SameAccounts
<1>3. ASSUME NEW o \in Op
      PROVE  /\ AskOf(op'[o]) = AskOf(op[o])
             /\ FateOf(op'[o]) = IF o \in lost THEN "lost" ELSE FateOf(op[o])
             /\ o \in lost => FateOf(op[o]) # "new"
             /\ FateOf(op[o]) \in {"open", "checked"} => o \in lost
  <2>1. op[o] \in OpRecord /\ op[o].step \in Step
    BY DEF Requests, OpRecord
  <2>2. op'[o] \in OpRecord /\ op'[o].step = Cut(op[o]) /\ AskOf(op'[o]) = AskOf(op[o])
    BY CutGoes DEF AskOf
  <2>3. CASE op[o].step \in {"invite", "create", "commit", "restore", "ending", "bind"}
    <3>1. op'[o].step \in {"lost", "unanswered"} /\ o \in lost
      BY <2>1, <2>2, <2>3, CutIs DEF InProgress
    <3>2. FateOf(op'[o]) = "lost"
      BY <2>2, <3>1, FateIs
    <3>3. FateOf(op[o]) # "new"
      BY <2>1, <2>3, FateIs
    <3> QED
      BY <2>2, <3>1, <3>2, <3>3
  <2>4. CASE op[o].step = "giveback"
    <3>1. op'[o].step = "unsaved" /\ o \notin lost
      BY <2>1, <2>2, <2>4, CutIs DEF InProgress
    <3>2. FateOf(op'[o]) = "refused" /\ FateOf(op[o]) = "refused"
      BY <2>1, <2>2, <2>4, <3>1, FateIs
    <3> QED
      BY <2>2, <3>1, <3>2
  <2>5. CASE op[o].step \in {"online", "fetched"}
    <3>1. op'[o].step = "done" /\ o \notin lost
      BY <2>1, <2>2, <2>5, CutIs DEF InProgress
    <3>2. FateOf(op'[o]) = "granted" /\ FateOf(op[o]) = "granted"
      BY <2>1, <2>2, <2>5, <3>1, FateIs
    <3> QED
      BY <2>2, <3>1, <3>2
  <2>6. CASE op[o].step \in {"unused", "failed", "lost", "unsaved", "unanswered", "done"}
    <3>1. op'[o].step = op[o].step
      BY <2>1, <2>2, <2>6, CutIs
    <3>2. o \in lost <=> op[o].step \in {"lost", "unanswered"}
      BY <2>6 DEF InProgress
    <3>3. ASSUME NEW r \in OpRecord, r.step = op[o].step
          PROVE  FateOf(r) = IF op[o].step = "unused" THEN "new" ELSE
                             IF op[o].step \in {"failed", "unsaved"} THEN "refused" ELSE
                             IF op[o].step \in {"lost", "unanswered"} THEN "lost" ELSE "granted"
      BY <2>6, <3>3, FateIs
    <3>4. FateOf(op'[o]) = FateOf(op[o])
      BY <2>1, <2>2, <3>1, <3>3
    <3> QED
      BY <2>1, <2>2, <2>6, <3>2, <3>3, <3>4
  <2> QED
    BY <2>1, <2>3, <2>4, <2>5, <2>6 DEF Step
<1>4. Asked' = [o \in Op |-> AskOf(op'[o])] /\ Fates' = [o \in Op |-> FateOf(op'[o])]
  BY DEF Asked, Fates, AskOf, FateOf
<1>5. lost \subseteq Op
  OBVIOUS
<1> HIDE DEF lost
<1>6. Asked' = Asked
  BY <1>3, <1>4 DEF Asked
<1>7. Fates' = [o \in Op |-> IF o \in lost THEN "lost" ELSE Fates[o]]
  BY <1>3, <1>4 DEF Fates
<1>8. /\ lost \in SUBSET {o \in Op : Fates[o] # "new"}
      /\ {o \in Op : Fates[o] \in {"open", "checked"}} \subseteq lost
  BY <1>3, <1>5 DEF Fates
<1>9. Promised!Restart
  BY <1>2, <1>6, <1>7, <1>8 DEF Promised!Restart, Inforce, Kept, Asked, Fates
<1> QED
  BY <1>9 DEF Mapped, Promised!RegistryNext

LEMMA RegistryStep == ASSUME Requests, AccountsSound, [DataNext]_dataVars PROVE Mapped
<1>1. ASSUME NEW o \in Op, Advance(o) PROVE Mapped
  BY <1>1, RegisterSeen, CreateSeen, LoginSeen, ChangeSeen, DeleteSeen DEF Advance
<1>2. ASSUME UNCHANGED <<mem, file, op>> PROVE Mapped
  BY <1>2, SameAccounts, SameRequests, NotSeen
<1>3. ASSUME NEW n \in Name, RequestDeletion(n) PROVE UNCHANGED <<mem, file, op>>
  BY <1>3 DEF RequestDeletion
<1>4. ASSUME OperatorRemoves PROVE UNCHANGED <<mem, file, op>>
  BY <1>4 DEF OperatorRemoves, DeletionDone
<1>5. ASSUME NEW s \in Sender, Put(s) \/ \E n \in Name, size \in {1, 2} : PutBegins(s, n, size)
      PROVE  UNCHANGED <<mem, file, op>>
  BY <1>5 DEF Put, PutBegins, accountVars, diskVars
<1>6. ASSUME Age \/ Expire \/ UNCHANGED dataVars PROVE UNCHANGED <<mem, file, op>>
  BY <1>6 DEF Age, Expire, accountVars, diskVars, dataVars
<1>7. ASSUME RestartAll PROVE Mapped
  BY <1>7, RestartSeen DEF RestartAll
<1> QED
  BY <1>1, <1>2, <1>3, <1>4, <1>5, <1>6, <1>7, RequestSeen, SessionSeen, ProcessSeen DEF DataNext

LEMMA RegistryInitially == DataInit => Promised!RegistryInit
<1> SUFFICES ASSUME DataInit PROVE Promised!RegistryInit
  OBVIOUS
<1>1. AccountsInit /\ mem \in Accts
  BY Initially DEF DataInit, IInv, AccountsSound
<1>2. file = mem /\ op = [o \in Op |-> Idle]
  BY <1>1 DEF AccountsInit
<1>3. ASSUME NEW n \in Name PROVE Inforce[n] \in [pass : Pass, key : {None}] \union {None}
  <2>1. CASE mem[n] = None
    BY <1>1, <2>1, EntryThere
  <2>2. CASE mem[n] # None
    <3>1. PICK k \in 0..MaxLegacy : \E db \in [1..k -> [name : Name, pass : Pass]] : mem = Imported(db)
      BY <1>1 DEF AccountsInit
    <3>2. mem[n].key = None
      BY <2>2, <3>1 DEF Imported
    <3>3. mem[n] \in Account
      BY <1>1, <2>2 DEF Accts
    <3>4. mem[n].hash.pass \in Pass
      BY <3>3 DEF Account, Hash
    <3>5. Inforce[n] = EntryOf(mem[n])
      BY <1>1, <2>2, EntryThere
    <3> QED
      BY <3>2, <3>4, <3>5 DEF EntryOf
  <2> QED
    BY <2>1, <2>2
<1>4. Inforce \in [Name -> [pass : Pass, key : {None}] \union {None}]
  BY <1>3 DEF Inforce, Entries
<1>5. Kept = Inforce
  BY <1>2 DEF Kept, Inforce
<1>6. Asked = [o \in Op |-> Promised!NoAsk]
  BY <1>2 DEF Asked, AskOf, Idle, Promised!NoAsk
<1>7. Fates = [o \in Op |-> "new"]
  BY <1>2 DEF Fates, FateOf, Idle
<1> QED
  BY <1>4, <1>5, <1>6, <1>7 DEF Promised!RegistryInit, Inforce, Kept, Asked, Fates

\* Requests that race, fail to save and are cut off by stops implement accounts on
\* which each acts at one moment, once, and is granted what is kept (Create,
\* LoginWithPassword, ChangePassword, Delete).
THEOREM RegistryImplemented == DataSpec => RegistryKept
<1>1. IInv /\ [DataNext]_dataVars => [Promised!RegistryNext]_(Promised!registryVars)
  BY RegistryStep DEF IInv, Mapped
<1> QED
  BY <1>1, RegistryInitially, Invariant, PTL DEF DataSpec, RegistryKept, Promised!RegistrySpec
=============================================================================
