------------------------------- MODULE Registry -------------------------------
(***************************************************************************)
(* What the accounts promise those who ask: every request takes effect at  *)
(* one moment, if at all, on the account as it is at that moment, knows    *)
(* the password in force then, and takes effect no second time.  What was  *)
(* granted is kept, or changed nothing.  A refused request may have taken  *)
(* effect without being kept; the next change that is kept keeps it too.   *)
(*                                                                         *)
(* A deletion is the exception: it is checked at one moment and removes,   *)
(* at a later one, whatever account has the name by then.                  *)
(*                                                                         *)
(* Accounts implements this with hashing outside the lock.                 *)
(***************************************************************************)
CONSTANTS Name, Key, Pass, Req, None

VARIABLES
    inforce, \* the accounts: the password and the device of each
    kept,    \* the accounts a restart brings back
    asked,   \* what each request asks for
    fate     \* what has become of it

registryVars == <<inforce, kept, asked, fate>>

Entry == [pass : Pass, key : Key \union {None}]
Ask == [kind : {"register", "keylogin", "login", "change", "delete"}, name : Name,
        pass : Pass \union {None}, new : Pass \union {None}, key : Key \union {None}]

NoAsk == [kind |-> "register", name |-> None, pass |-> None, new |-> None, key |-> None]

RegistryInit ==
    /\ inforce \in [Name -> [pass : Pass, key : {None}] \union {None}]
    /\ kept = inforce
    /\ asked = [r \in Req |-> NoAsk]
    /\ fate = [r \in Req |-> "new"]

-----------------------------------------------------------------------------
There(n) == inforce[n] # None

Rightly(a) == There(a.name) /\ inforce[a.name].pass = a.pass

Becomes(r, result) == fate' = [fate EXCEPT ![r] = result]

\* A login with the device's key is granted as it is asked, and a deletion is
\* asked by who knows the password.
Asks(r, a) ==
    /\ fate[r] = "new"
    /\ asked' = [asked EXCEPT ![r] = a]
    /\ \/ a.kind \in {"register", "login", "change"} /\ Becomes(r, "open")
       \/ a.kind = "keylogin" /\ There(a.name) /\ inforce[a.name].key = a.key /\ Becomes(r, "granted")
       \/ a.kind = "delete" /\ Rightly(a) /\ Becomes(r, "checked")
    /\ UNCHANGED <<inforce, kept>>

\* The account becomes e: the request is granted and all changes are kept, or
\* it is refused and what is kept stays as it is.
Takes(r, e) ==
    /\ inforce' = [inforce EXCEPT ![asked[r].name] = e]
    /\ \/ kept' = inforce' /\ Becomes(r, "granted")
       \/ kept' = kept /\ Becomes(r, "refused")
    /\ UNCHANGED asked

\* There is nothing to change.
Passes(r) == Becomes(r, "granted") /\ UNCHANGED <<inforce, kept, asked>>

Open(r, kind) == asked[r].kind = kind /\ fate[r] = "open"

Register(r) ==
    /\ Open(r, "register")
    /\ ~There(asked[r].name)
    /\ Takes(r, [pass |-> asked[r].pass, key |-> asked[r].key])

Login(r) ==
    LET linked == [pass |-> asked[r].pass, key |-> asked[r].key] IN
    /\ Open(r, "login")
    /\ Rightly(asked[r])
    /\ Takes(r, linked) \/ (inforce[asked[r].name] = linked /\ Passes(r))

Change(r) ==
    /\ Open(r, "change")
    /\ Rightly(asked[r])
    /\ Takes(r, [inforce[asked[r].name] EXCEPT !.pass = asked[r].new])

Delete(r) ==
    /\ fate[r] = "checked"
    /\ Takes(r, None) \/ (~There(asked[r].name) /\ Passes(r))

Refuse(r) ==
    /\ fate[r] = "open"
    /\ Becomes(r, "refused")
    /\ UNCHANGED <<inforce, kept, asked>>

\* The operator needs no password.
Operate(n) ==
    /\ inforce' = [inforce EXCEPT ![n] = None]
    /\ kept' = inforce' \/ kept' = kept
    /\ UNCHANGED <<asked, fate>>

\* Whoever waits for an answer is not told, and what waits takes no effect later.
Restart ==
    /\ inforce' = kept
    /\ \E lost \in SUBSET {r \in Req : fate[r] # "new"} :
           /\ {r \in Req : fate[r] \in {"open", "checked"}} \subseteq lost
           /\ fate' = [r \in Req |-> IF r \in lost THEN "lost" ELSE fate[r]]
    /\ UNCHANGED <<kept, asked>>

RegistryNext ==
    \/ \E r \in Req : fate[r] = "new" /\ \E a \in Ask : Asks(r, a)
    \/ \E r \in Req : Register(r) \/ Login(r) \/ Change(r) \/ Delete(r) \/ Refuse(r)
    \/ \E n \in Name : Operate(n)
    \/ Restart

RegistrySpec == RegistryInit /\ [][RegistryNext]_registryVars
=============================================================================
