------------------------------- MODULE Accounts -------------------------------
(***************************************************************************)
(* The accounts of tariond: users.json and its copy in memory, invites and *)
(* the operator's requests for deletion (server/accounts.go, access.go).   *)
(*                                                                         *)
(* Requests are served side by side.  Each reads the account, hashes or    *)
(* checks a password without a lock, which takes a while, and then changes *)
(* the map and saves it under the lock.  A save replaces the file as a     *)
(* whole or fails; the map keeps the change in either case.  The server    *)
(* may stop between any two steps and starts again with what is on disk.   *)
(*                                                                         *)
(* Bans, rate limits and rules for new passwords refuse a request before   *)
(* it has any effect and are left out.                                     *)
(***************************************************************************)
EXTENDS Naturals, Sequences, FiniteSets

CONSTANTS
    Name,      \* account names, compared without regard to case
    Key,       \* device keys
    Pass,      \* passwords
    Code,      \* invite codes
    None,
    InviteOnly,  \* -registration invite, otherwise open
    Slots,     \* maxHashingAtOnce
    MaxOps,    \* bound: requests
    MaxLegacy, \* bound: records in the old users.db
    MaxFaults  \* bound: failed saves, stops, deletion requests

ASSUME AccountsAssumption ==
    /\ None \notin Name \union Key \union Pass \union Code
    /\ InviteOnly \in BOOLEAN
    /\ Slots \in Nat \ {0}
    /\ MaxOps \in Nat /\ MaxLegacy \in Nat /\ MaxFaults \in Nat

VARIABLES
    mem,       \* the accounts in memory
    file,      \* users.json
    invites,   \* unused codes, one file each
    pending,   \* names the operator wants deleted, one file each
    loop,      \* the account processDeletions has just deleted
    op,        \* the requests
    begun,     \* how many requests have begun
    faults,    \* how many of those bounded by MaxFaults have happened
    agreed,    \* passwords each account's owner may take to be in force: the
               \* one last confirmed, and later ones whose save failed
    owed       \* accounts the server confirmed and has not been told to delete
               \* (agreed and owed are history variables, which no action reads)

diskVars == <<file, invites, pending>>
accountVars == <<mem, file, invites, pending, loop, op, begun, faults, agreed, owed>>

Op == 1..MaxOps

\* A hash is known by the request that made it, since each has its own salt;
\* an imported one by 0.  It is old when the next login is to redo it.
Hash == [pass : Pass, by : 0..MaxOps, old : BOOLEAN]
Account == [hash : Hash, key : Key \union {None}]
Accts == [Name -> Account \union {None}]

ASSUME NoneIsNoAccount == None \notin Account

\* Where a request is: not sent, refused or failed, stopped with the server;
\* through the name check of register, holding an invite, holding a slot and
\* about to lock the map, giving the invite back, logged in, answered,
\* account deleted.  A registration whose save failed gives the invite back
\* while its account stays in memory ("giveback", then "unsaved"); one whose
\* account was saved may be stopped before the answer ("unanswered").
Step == {"unused", "failed", "lost", "invite", "create", "commit", "restore", "giveback",
         "unsaved", "bind", "unanswered", "done", "ending", "online", "fetched"}

Kind == {"register", "keylogin", "login", "change", "delete"}

Idle == [kind |-> "register", step |-> "unused", name |-> None, pass |-> None, new |-> None,
         key |-> None, code |-> None, snap |-> None]

-----------------------------------------------------------------------------
(* LoadAccounts.                                                           *)

\* importLegacy drops a name that appears more than once.
Imported(db) ==
    [n \in Name |->
        LET at == {i \in DOMAIN db : db[i].name = n} IN
        IF Cardinality(at) # 1 THEN None
        ELSE [hash |-> [pass |-> db[CHOOSE i \in at : TRUE].pass, by |-> 0, old |-> TRUE],
              key |-> None]]

\* The server's first start: what the old users.db held is imported and saved.
AccountsInit ==
    /\ \E k \in 0..MaxLegacy : \E db \in [1..k -> [name : Name, pass : Pass]] :
           mem = Imported(db)
    /\ file = mem
    /\ invites = Code
    /\ pending = {} /\ loop = None
    /\ op = [o \in Op |-> Idle]
    /\ begun = 0 /\ faults = 0
    /\ agreed = [n \in Name |-> IF mem[n] = None THEN {} ELSE {mem[n].hash.pass}]
    /\ owed = {n \in Name : mem[n] # None}

-----------------------------------------------------------------------------
Go(o, from, to) == op[o].step = from /\ op' = [op EXCEPT ![o].step = to]

Fault == faults < MaxFaults /\ faults' = faults + 1

\* The slots of Server.hashing that are taken.  A request keeps its slot until
\* it is through with the map.
Hashing == {o \in Op : op[o].step = "commit"}
SlotFree == Cardinality(Hashing) < Slots

\* Mutant: the error of a save is not looked at.
SavedOrNot(m) == file' \in {file, m} /\ UNCHANGED faults

\* saveLocked with the map m: users.json is replaced as a whole, or is not.
Saved(m) == file' = m /\ UNCHANGED faults
SaveFails == UNCHANGED file /\ Fault

\* The next request arrives, and is read up to the step given.
Arrives(o, kind, step, n, p, new, k, c, snap) ==
    /\ o = begun + 1 /\ o \in Op
    /\ begun' = o
    /\ op' = [op EXCEPT ![o] = [kind |-> kind, step |-> step, name |-> n, pass |-> p, new |-> new,
                                 key |-> k, code |-> c, snap |-> snap]]

Is(o, kind, step) == op[o].kind = kind /\ op[o].step = step

\* The password is the one of the account as it is now (verifyPassword).
Matches(n, p) == mem[n] # None /\ mem[n].hash.pass = p

-----------------------------------------------------------------------------
(* register.                                                               *)

\* The name is free, as far as accounts.get can tell.
RegisterBegins(o, n, p, k, c) ==
    /\ mem[n] = None
    /\ Arrives(o, "register", IF InviteOnly THEN "invite" ELSE "create", n, p, None, k, c, None)
    /\ UNCHANGED <<mem, diskVars, loop, faults, agreed, owed>>

\* Mutant: the code's file is looked at and removed later.
ConsumePeeks(o) ==
    /\ Is(o, "register", "invite")
    /\ op[o].code \in Code
    /\ Go(o, "invite", IF op[o].code \in invites THEN "create" ELSE "failed")
    /\ UNCHANGED <<mem, diskVars, loop, begun, faults, agreed, owed>>

\* invites.Consume removes the code's file, which succeeds for one caller.
Consume(o) ==
    /\ Is(o, "register", "invite")
    /\ Go(o, "invite", IF op[o].code \in invites THEN "create" ELSE "failed")
    /\ invites' = invites \ {op[o].code}
    /\ UNCHANGED <<mem, file, pending, loop, begun, faults, agreed, owed>>

\* register after Create failed: it found the name taken, or could not save.
GiveBack == IF InviteOnly THEN "restore" ELSE "failed"
GiveBackUnsaved == IF InviteOnly THEN "giveback" ELSE "unsaved"

\* Create: the name is still free, and the password is hashed.
CreateHashes(o) ==
    /\ Is(o, "register", "create")
    /\ SlotFree
    /\ Go(o, "create", IF mem[op[o].name] = None THEN "commit" ELSE GiveBack)
    /\ UNCHANGED <<mem, diskVars, loop, begun, faults, agreed, owed>>

\* Create, under the lock.  When the save fails the account stays in the map.
CreateCommits(o) ==
    LET n == op[o].name
        new == [hash |-> [pass |-> op[o].pass, by |-> o, old |-> FALSE], key |-> op[o].key] IN
    /\ Is(o, "register", "commit")
    /\ \/ /\ mem[n] # None
          /\ Go(o, "commit", GiveBack)
          /\ UNCHANGED <<mem, file, faults, agreed, owed>>
       \/ /\ mem[n] = None
          /\ mem' = [mem EXCEPT ![n] = new]
          /\ \/ /\ Saved(mem')
                /\ Go(o, "commit", "bind")
                /\ agreed' = [agreed EXCEPT ![n] = {op[o].pass}]
                /\ owed' = owed \union {n}
             \/ /\ SaveFails
                /\ Go(o, "commit", GiveBackUnsaved)
                /\ agreed' = [agreed EXCEPT ![n] = @ \union {op[o].pass}]
                /\ UNCHANGED owed
    /\ UNCHANGED <<invites, pending, loop, begun>>

\* invites.Restore.
Restore(o) ==
    /\ op[o].kind = "register"
    /\ Go(o, "restore", "failed") \/ Go(o, "giveback", "unsaved")
    /\ invites' = invites \union {op[o].code}
    /\ UNCHANGED <<mem, file, pending, loop, begun, faults, agreed, owed>>

-----------------------------------------------------------------------------
(* login.                                                                  *)

\* LoginWithKey.
KeyLogin(o, n, k) ==
    /\ mem[n] # None /\ mem[n].key = k
    /\ Arrives(o, "keylogin", "bind", n, None, None, k, None, None)
    /\ UNCHANGED <<mem, diskVars, loop, faults, agreed, owed>>

\* LoginWithPassword checks the password, and hashes it anew if it must.
LoginChecks(o, n, p, k) ==
    /\ SlotFree
    /\ Matches(n, p)
    /\ Arrives(o, "login", "commit", n, p, None, k, None, mem[n])
    /\ UNCHANGED <<mem, diskVars, loop, faults, agreed, owed>>

\* Mutant: the account is not compared with the one that was checked.
StillChecked(o) == mem[op[o].name] # None

\* The account is the one whose hash was checked.
Unchanged(o) == mem[op[o].name] # None /\ mem[op[o].name].hash = op[o].snap.hash

\* LoginWithPassword, under the lock: the account is linked to the device.
LoginCommits(o) ==
    LET n == op[o].name
        new == [hash |-> IF op[o].snap.hash.old THEN [pass |-> op[o].pass, by |-> o, old |-> FALSE]
                         ELSE mem[n].hash,
                key |-> op[o].key] IN
    /\ Is(o, "login", "commit")
    /\ \/ /\ ~Unchanged(o)
          /\ Go(o, "commit", "failed")
          /\ UNCHANGED <<mem, file, faults>>
       \/ /\ Unchanged(o) /\ new = mem[n]
          /\ Go(o, "commit", "bind")
          /\ UNCHANGED <<mem, file, faults>>
       \/ /\ Unchanged(o) /\ new # mem[n]
          /\ mem' = [mem EXCEPT ![n] = new]
          /\ \/ Saved(mem') /\ Go(o, "commit", "bind")
             \/ SaveFails /\ Go(o, "commit", "failed")
    /\ UNCHANGED <<invites, pending, loop, begun, agreed, owed>>

-----------------------------------------------------------------------------
(* changePassword and deleteAccount, by a client that is logged in.        *)

ChangeChecks(o, n, p, new) ==
    /\ SlotFree
    /\ Matches(n, p)
    /\ Arrives(o, "change", "commit", n, p, new, None, None, mem[n])
    /\ UNCHANGED <<mem, diskVars, loop, faults, agreed, owed>>

\* ChangePassword, under the lock.
ChangeCommits(o) ==
    LET n == op[o].name IN
    /\ Is(o, "change", "commit")
    /\ \/ /\ ~Unchanged(o)
          /\ Go(o, "commit", "failed")
          /\ UNCHANGED <<mem, file, faults, agreed>>
       \/ /\ Unchanged(o)
          /\ mem' = [mem EXCEPT ![n].hash = [pass |-> op[o].new, by |-> o, old |-> FALSE]]
          /\ \/ /\ Saved(mem')
                /\ Go(o, "commit", "done")
                /\ agreed' = [agreed EXCEPT ![n] = {op[o].new}]
             \/ /\ SaveFails
                /\ Go(o, "commit", "failed")
                /\ agreed' = [agreed EXCEPT ![n] = @ \union {op[o].new}]
    /\ UNCHANGED <<invites, pending, loop, begun, owed>>

\* deleteAccount: CheckPassword.
DeleteChecks(o, n, p) ==
    /\ SlotFree
    /\ Matches(n, p)
    /\ Arrives(o, "delete", "commit", n, p, None, None, None, None)
    /\ UNCHANGED <<mem, diskVars, loop, faults, agreed, owed>>

\* Delete takes whatever account the name has now out of the map.
Delete(n) ==
    /\ mem' = [mem EXCEPT ![n] = None]
    /\ owed' = owed \ {n}

\* deleteAccount: Delete, which finds nothing to do if the account is gone.
DeleteCommits(o) ==
    LET n == op[o].name IN
    /\ Is(o, "delete", "commit")
    /\ Delete(n)
    /\ \/ mem[n] = None /\ Go(o, "commit", "ending") /\ UNCHANGED <<file, faults>>
       \/ mem[n] # None /\ Saved(mem') /\ Go(o, "commit", "ending")
       \/ mem[n] # None /\ SaveFails /\ Go(o, "commit", "failed")
    /\ UNCHANGED <<invites, pending, loop, begun, agreed>>

-----------------------------------------------------------------------------
(* The operator, the background loop and restarts.                         *)

\* tariond delete.
RequestDeletion(n) ==
    /\ n \notin pending
    /\ Fault
    /\ pending' = pending \union {n}
    /\ UNCHANGED <<mem, file, invites, loop, op, begun, agreed, owed>>

\* processDeletions, for one name.  The request stays when the save fails, and
\* is dropped when there is no account of that name in memory.
ProcessDeletion(n) ==
    /\ loop = None /\ n \in pending
    /\ Delete(n)
    /\ \/ /\ mem[n] = None
          /\ pending' = pending \ {n}
          /\ UNCHANGED <<file, loop, faults>>
       \/ mem[n] # None /\ Saved(mem') /\ loop' = n /\ UNCHANGED pending
       \/ mem[n] # None /\ SaveFails /\ UNCHANGED <<loop, pending>>
    /\ UNCHANGED <<invites, op, begun, agreed>>

\* ... and Done.
DeletionDone ==
    /\ loop # None
    /\ pending' = pending \ {loop}
    /\ loop' = None
    /\ UNCHANGED <<mem, file, invites, op, begun, faults, agreed, owed>>

InProgress == {"invite", "create", "commit", "restore", "giveback", "bind", "ending"}

\* Where the server's stop leaves a request: whoever waits is not told.
Cut(r) ==
    CASE r.step = "giveback" -> "unsaved"
      [] r.kind = "register" /\ r.step = "bind" -> "unanswered"
      [] r.step \in {"invite", "create", "commit", "restore", "ending"} -> "lost"
      [] r.kind # "register" /\ r.step = "bind" -> "lost"
      [] r.step \in {"online", "fetched"} -> "done"
      [] OTHER -> r.step

\* The server stops and starts again.
Restart ==
    /\ Fault
    /\ mem' = file
    /\ loop' = None
    /\ op' = [o \in Op |-> [op[o] EXCEPT !.step = Cut(op[o])]]
    /\ UNCHANGED <<diskVars, begun, agreed, owed>>

-----------------------------------------------------------------------------
Request(o) ==
    \/ \E n \in Name, p \in Pass, k \in Key :
           \/ \E c \in Code : RegisterBegins(o, n, p, k, c)
           \/ KeyLogin(o, n, k)
           \/ LoginChecks(o, n, p, k)
           \/ DeleteChecks(o, n, p)
    \/ \E n \in Name, p, new \in Pass : ChangeChecks(o, n, p, new)

Advance(o) ==
    \/ Consume(o) \/ CreateHashes(o) \/ CreateCommits(o) \/ Restore(o)
    \/ LoginCommits(o) \/ ChangeCommits(o) \/ DeleteCommits(o)

Operate ==
    \/ \E n \in Name : RequestDeletion(n) \/ ProcessDeletion(n)
    \/ Restart

AccountsNext == (\E o \in Op : Request(o) \/ Advance(o)) \/ Operate \/ DeletionDone

AccountsSpec == AccountsInit /\ [][AccountsNext]_accountVars

-----------------------------------------------------------------------------
(* Properties.                                                             *)

\* The variables hold values of their types.
AccountsTypeOK ==
    /\ mem \in Accts /\ file \in Accts
    /\ invites \subseteq Code /\ pending \subseteq Name
    /\ loop \in Name \union {None}
    /\ op \in [Op -> [kind : Kind, step : Step, name : Name \union {None},
                      pass : Pass \union {None}, new : Pass \union {None},
                      key : Key \union {None}, code : Code \union {None},
                      snap : Account \union {None}]]
    /\ begun \in 0..MaxOps /\ faults \in 0..MaxFaults
    /\ agreed \in [Name -> SUBSET Pass] /\ owed \subseteq Name

\* The registrations whose account was made with a code and saved, whether or
\* not they were answered; those whose account a failed save left in memory;
\* and those that have the code in hand.
Registered(c, steps) == {o \in Op : op[o].kind = "register" /\ op[o].code = c /\ op[o].step \in steps}
Made(c) == Registered(c, {"bind", "online", "fetched", "done", "unanswered"})
LeftUnsaved(c) == Registered(c, {"giveback", "unsaved"})
Holding(c) == Registered(c, {"create", "commit", "restore", "giveback"})

\* An invite is in one place at a time: unused on disk, in the hands of one
\* registration, or spent on one account that was saved, also when the server
\* stopped before the answer.  Every account made with it is that one or one
\* whose own save failed (register, Consume, Create and Restore).  For such a
\* failure the invite is given back although the account stays in memory, so
\* that one invite makes two accounts then: CodeWorksOnce does not hold.
InviteInOnePlace ==
    InviteOnly =>
        \A c \in Code :
            /\ Cardinality(Made(c)) + Cardinality(Holding(c)) + (IF c \in invites THEN 1 ELSE 0) <= 1
            /\ \A n \in Name : \A a \in {mem[n], file[n]} \ {None} : \A o \in Op :
                   (a.hash.by = o /\ op[o].kind = "register" /\ op[o].code = c)
                       => o \in Made(c) \union LeftUnsaved(c)

\* Whatever requests meet, the password in force, in memory and after the next
\* restart, is the one last confirmed to the account's owner or one whose save
\* failed later: no login's new hash and no second change undoes it (Create,
\* LoginWithPassword and ChangePassword compare the hash they checked).
PasswordInForce ==
    \A n \in Name : \A a \in {mem[n], file[n]} : a # None => a.hash.pass \in agreed[n]

\* An account the server confirmed is in users.json until its deletion is
\* carried out, so that a restart at any moment keeps it (saveLocked).
ConfirmedIsOnDisk == \A n \in owed : file[n] # None

Restarted == mem' = file /\ UNCHANGED file

\* While the server runs, an account's password or device changes only by a
\* request that knew the password in force at that moment, however long ago it
\* was checked (LoginWithPassword, ChangePassword).
ChangedByItsOwner ==
    [][\A n \in Name :
         (mem[n] # None /\ mem'[n] # None /\ mem[n] # mem'[n] /\ ~Restarted)
           => \E o \in Hashing : op'[o] # op[o] /\ op[o].name = n /\ op[o].pass = mem[n].hash.pass]_accountVars

\* The accounts of a map, without what their hashes say of when they were made.
Entries(m) ==
    [n \in Name |-> IF m[n] = None THEN None ELSE [pass |-> m[n].hash.pass, key |-> m[n].key]]

ASSUME NoneIsNoEntry == None \notin [pass : Pass, key : Key \union {None}]

\* What a request asks for.
AskOf(r) == [kind |-> r.kind, name |-> r.name, pass |-> r.pass, new |-> r.new, key |-> r.key]

\* What has become of a request.
FateOf(r) ==
    CASE r.step = "unused" -> "new"
      [] r.step \in {"invite", "create"} -> "open"
      [] r.step = "commit" -> IF r.kind = "delete" THEN "checked" ELSE "open"
      [] r.step \in {"restore", "failed", "giveback", "unsaved"} -> "refused"
      [] r.step \in {"lost", "unanswered"} -> "lost"
      [] OTHER -> "granted"

Promised == INSTANCE Registry WITH
    Req <- Op,
    inforce <- Entries(mem),
    kept <- Entries(file),
    asked <- [o \in Op |-> AskOf(op[o])],
    fate <- [o \in Op |-> FateOf(op[o])]

\* Requests hash and check outside the lock, meet each other, fail to save and
\* are cut off by stops, and yet each takes effect at one moment, once, on the
\* account as it is then, and is granted only what is kept (module Registry;
\* Create, LoginWithPassword, ChangePassword, Delete).
RegistryKept == Promised!RegistrySpec

-----------------------------------------------------------------------------
(* What server/README.md says, which the code does not keep.               *)

\* "Each code works exactly once": with one code one account comes into
\* users.json (server/README.md:60).  An account left in memory by a failed
\* save is written by the next save, that of the account its code then makes.
CodeWorksOnce ==
    \A c \in Code : Cardinality({n \in Name : \E o \in Op :
        op[o].kind = "register" /\ op[o].code = c /\ file[n] # None /\ file[n].hash.by = o}) <= 1

\* "takes effect within about 2 seconds": when a request for deletion is
\* dropped, the account it was for is not in users.json any more.
DeletionTakesEffect == [][\A n \in pending \ pending' : file'[n] = None]_accountVars
=============================================================================
