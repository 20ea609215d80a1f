------------------------------ MODULE Directory ------------------------------
(***************************************************************************)
(* Who is online: the sessions of the directory server tariond.            *)
(*                                                                         *)
(* Every QUIC connection is served by handleConn, and every request on it  *)
(* by a goroutine of its own, which goes on when the connection ends       *)
(* (server/server.go).  login and register check the ban list and the      *)
(* account, hash the password without a lock, and bind makes the           *)
(* connection the account's live session; endSession takes it off the map  *)
(* when the connection ends.  Meanwhile a background loop looks every two  *)
(* seconds for a changed ban list and for accounts the operator wants      *)
(* deleted, and owners delete their own.                                   *)
(*                                                                         *)
(* A client sends one login (or register) per connection, and gives the    *)
(* connection up when it fails (internal/directory/client.go).  The        *)
(* account is reduced to the device key it is linked to: passwords, limits *)
(* and failures of the accounts file are left out.                         *)
(***************************************************************************)
EXTENDS Naturals

CONSTANTS
    Name,      \* account names, compared without regard to case
    Key,       \* device keys, proven by the TLS handshake
    Conn,      \* connections
    None,
    MaxEdits   \* bound: bans, unbans, deletion requests and restarts

ASSUME DirectoryAssumption ==
    /\ None \notin Name /\ None \notin Key /\ None \notin Conn
    /\ Name \intersect Key = {}
    /\ MaxEdits \in Nat

VARIABLES
    conn,      \* "unused", "open", "closed" (either end closed it, handleConn
               \* has not seen it yet) or "ended" (endSession has run)
    key,       \* the key of each connection's client
    step,      \* where the connection's request is
    want,      \* the name it asked for
    user,      \* session.user
    sessions,  \* the live session of each name
    closing,   \* connections some goroutine is about to close
    account,   \* the key each account is linked to
    banFile,   \* the ban list on disk
    bans,      \* the ban list in memory
    poll,      \* the background loop
    ending,    \* the account the loop has just deleted
    requests,  \* deletions the operator asked for
    edits,     \* how many of those bounded by MaxEdits have happened
    late       \* logins already past their ban check when an entry was added
               \* (a history variable, which no action reads)

connVars == <<conn, key, step, want, user>>
banVars  == <<banFile, bans, late>>
pollVars == <<poll, ending, requests, edits>>
vars == <<connVars, sessions, closing, account, banVars, pollVars>>

\* The steps of a request on a connection: none sent, refused, through the ban
\* check of login or register, through the account check, session.user set, in
\* the map, answered; and of deleteAccount, password checked, account deleted.
Step == {"idle", "failed", "login", "register", "bind", "named", "bound",
         "online", "delete", "ending"}

Online == {n \in Name : sessions[n] # None}

Init ==
    /\ conn = [c \in Conn |-> "unused"]
    /\ key = [c \in Conn |-> None]
    /\ step = [c \in Conn |-> "idle"]
    /\ want = [c \in Conn |-> None]
    /\ user = [c \in Conn |-> None]
    /\ sessions = [n \in Name |-> None]
    /\ closing = {}
    /\ account \in [Name -> Key \union {None}]
    /\ banFile = {} /\ bans = {}
    /\ poll = "idle" /\ ending = None
    /\ requests = {} /\ edits = 0
    /\ late = {}

-----------------------------------------------------------------------------
(* Connections.                                                            *)

Connect(c, k) ==
    /\ conn[c] = "unused"
    /\ conn' = [conn EXCEPT ![c] = "open"]
    /\ key' = [key EXCEPT ![c] = k]
    /\ UNCHANGED <<step, want, user, sessions, closing, account, banVars, pollVars>>

\* The client closes the connection, or is silent for MaxIdleTimeout.
Disconnect(c) ==
    /\ conn[c] = "open"
    /\ conn' = [conn EXCEPT ![c] = "closed"]
    /\ UNCHANGED <<key, step, want, user, sessions, closing, account, banVars, pollVars>>

\* A goroutine that was to close the connection gets to it.
Close(c) ==
    /\ c \in closing
    /\ closing' = closing \ {c}
    /\ conn' = [conn EXCEPT ![c] = IF @ = "open" THEN "closed" ELSE @]
    /\ UNCHANGED <<key, step, want, user, sessions, account, banVars, pollVars>>

\* Mutant: the name is taken offline whoever is bound to it by now.
EndSessionAny(c) ==
    /\ conn[c] = "closed"
    /\ conn' = [conn EXCEPT ![c] = "ended"]
    /\ sessions' = [n \in Name |-> IF n = user[c] THEN None ELSE sessions[n]]
    /\ UNCHANGED <<key, step, want, user, closing, account, banVars, pollVars>>

\* Mutant: endSession leaves the map to the next login.
EndSessionForgets(c) ==
    /\ conn[c] = "closed"
    /\ conn' = [conn EXCEPT ![c] = "ended"]
    /\ UNCHANGED <<key, step, want, user, sessions, closing, account, banVars, pollVars>>

\* handleConn returns: endSession, which does nothing for a connection whose
\* user is not set yet.
EndSession(c) ==
    /\ conn[c] = "closed"
    /\ conn' = [conn EXCEPT ![c] = "ended"]
    /\ sessions' = [n \in Name |-> IF n = user[c] /\ sessions[n] = c THEN None ELSE sessions[n]]
    /\ UNCHANGED <<key, step, want, user, closing, account, banVars, pollVars>>

-----------------------------------------------------------------------------
(* login and register.  Once a request is read its goroutine runs on,      *)
(* whatever becomes of the connection.                                     *)

At(c, from, to) == step[c] = from /\ step' = [step EXCEPT ![c] = to]

\* Mutant: Banned looks at the list in memory without refreshing it.
RefusedStale(c, n) == {n, key[c]} \intersect bans # {}

\* Banned refreshes the list and looks up the name and the key.
Refused(c, n) == {n, key[c]} \intersect banFile # {}
Refresh == bans' = banFile

LoginBegins(c, n) ==
    /\ conn[c] = "open"
    /\ IF Refused(c, n) THEN At(c, "idle", "failed") ELSE At(c, "idle", "login")
    /\ Refresh
    /\ want' = [want EXCEPT ![c] = n]
    /\ UNCHANGED <<conn, key, user, sessions, closing, account, banFile, late, pollVars>>

\* LoginWithKey.
KeyLogin(c) ==
    /\ At(c, "login", "bind")
    /\ account[want[c]] = key[c]
    /\ UNCHANGED <<conn, key, want, user, sessions, closing, account, banVars, pollVars>>

\* LoginWithPassword, with the right one: the account is linked to this key.
\* It fails if the account changed while the password was checked, so its
\* effect is that of its last step.
PasswordLogin(c) ==
    /\ At(c, "login", "bind")
    /\ account[want[c]] # None
    /\ account' = [account EXCEPT ![want[c]] = key[c]]
    /\ UNCHANGED <<conn, key, want, user, sessions, closing, banVars, pollVars>>

\* No such user: the client asks on the same connection to register the name.
RegisterBegins(c) ==
    /\ conn[c] = "open" /\ step[c] = "login"
    /\ account[want[c]] = None
    /\ IF Refused(c, want[c]) THEN At(c, "login", "failed") ELSE At(c, "login", "register")
    /\ Refresh
    /\ UNCHANGED <<conn, key, want, user, sessions, closing, account, banFile, late, pollVars>>

\* Accounts.Create, unless the name was taken meanwhile.
Register(c) ==
    /\ At(c, "register", "bind")
    /\ account[want[c]] = None
    /\ account' = [account EXCEPT ![want[c]] = key[c]]
    /\ UNCHANGED <<conn, key, want, user, sessions, closing, banVars, pollVars>>

\* A wrong password, a limit, an unknown or taken name.
LoginFails(c) ==
    /\ At(c, "login", "failed") \/ At(c, "register", "failed")
    /\ UNCHANGED <<conn, key, want, user, sessions, closing, account, banVars, pollVars>>

\* Mutant: bind forgets to set session.user.
BindUserSkips(c) ==
    /\ At(c, "bind", "named")
    /\ UNCHANGED <<conn, key, want, user, sessions, closing, account, banVars, pollVars>>

\* bind, under the session's lock.
BindUser(c) ==
    /\ At(c, "bind", "named")
    /\ user' = [user EXCEPT ![c] = want[c]]
    /\ UNCHANGED <<conn, key, want, sessions, closing, account, banVars, pollVars>>

\* Mutant: the older session is not closed.
BindSessionKeepsOld(c) ==
    /\ At(c, "named", "bound")
    /\ sessions' = [sessions EXCEPT ![want[c]] = c]
    /\ UNCHANGED <<conn, key, want, user, closing, account, banVars, pollVars>>

\* bind, under the server's lock; an older session is then closed.
BindSession(c) ==
    /\ At(c, "named", "bound")
    /\ sessions' = [sessions EXCEPT ![want[c]] = c]
    /\ closing' = closing \union ({sessions[want[c]]} \ {None, c})
    /\ UNCHANGED <<conn, key, want, user, account, banVars, pollVars>>

\* The answer carries the banned keys, for which the list is refreshed.
BindAnswers(c) ==
    /\ At(c, "bound", "online")
    /\ Refresh
    /\ UNCHANGED <<conn, key, want, user, sessions, closing, account, banFile, late, pollVars>>

\* lookup, openRelay, mailboxTarget: they check whether their target is banned.
Lookup(c, n) ==
    /\ conn[c] = "open" /\ step[c] = "online"
    /\ sessions[n] \notin {None, c}
    /\ Refresh
    /\ UNCHANGED <<connVars, sessions, closing, account, banFile, late, pollVars>>

-----------------------------------------------------------------------------
(* Deleting an account.                                                    *)

\* endAccount takes whatever session the name has off the map and has it closed.
EndAccount(n) ==
    /\ sessions' = [sessions EXCEPT ![n] = None]
    /\ closing' = closing \union ({sessions[n]} \ {None})

\* deleteAccount: CheckPassword, then Delete, then endAccount.
OwnerChecks(c) ==
    /\ conn[c] = "open"
    /\ At(c, "online", "delete")
    /\ account[user[c]] # None
    /\ UNCHANGED <<conn, key, want, user, sessions, closing, account, banVars, pollVars>>

OwnerDeletes(c) ==
    /\ At(c, "delete", "ending")
    /\ account' = [account EXCEPT ![user[c]] = None]
    /\ UNCHANGED <<conn, key, want, user, sessions, closing, banVars, pollVars>>

OwnerEnds(c) ==
    /\ At(c, "ending", "online")
    /\ EndAccount(user[c])
    /\ UNCHANGED <<conn, key, want, user, account, banVars, pollVars>>

-----------------------------------------------------------------------------
(* The background loop of Serve.                                           *)

\* refresh: only a change this very call sees leads to kickBanned.
PollBans ==
    /\ poll = "idle"
    /\ poll' = IF bans # banFile THEN "kick" ELSE "delete"
    /\ Refresh
    /\ UNCHANGED <<connVars, sessions, closing, account, banFile, late, ending, requests, edits>>

\* kickBanned.
KickBanned ==
    /\ poll = "kick"
    /\ poll' = "broadcast"
    /\ bans' = IF Online = {} THEN bans ELSE banFile
    /\ closing' = closing \union {sessions[n] : n \in {m \in Online : Refused(sessions[m], m)}}
    /\ UNCHANGED <<connVars, sessions, account, banFile, late, ending, requests, edits>>

\* broadcastRevoked takes a snapshot, which refreshes the list once more.
Broadcast ==
    /\ poll = "broadcast"
    /\ poll' = "delete"
    /\ Refresh
    /\ UNCHANGED <<connVars, sessions, closing, account, banFile, late, ending, requests, edits>>

\* Mutant: a request whose user is online is dropped.
DeletePendingOffline(n) ==
    /\ poll = "delete" /\ n \in requests
    /\ IF account[n] # None /\ sessions[n] = None
       THEN /\ account' = [account EXCEPT ![n] = None]
            /\ poll' = "end" /\ ending' = n
            /\ UNCHANGED requests
       ELSE /\ requests' = requests \ {n}
            /\ UNCHANGED <<account, poll, ending>>
    /\ UNCHANGED <<connVars, sessions, closing, banVars, edits>>

\* processDeletions: Accounts.Delete.
DeletePending(n) ==
    /\ poll = "delete" /\ n \in requests
    /\ IF account[n] # None
       THEN /\ account' = [account EXCEPT ![n] = None]
            /\ poll' = "end" /\ ending' = n
            /\ UNCHANGED requests
       ELSE /\ requests' = requests \ {n}
            /\ UNCHANGED <<account, poll, ending>>
    /\ UNCHANGED <<connVars, sessions, closing, banVars, edits>>

\* processDeletions: endAccount, and the request is done.
EndPending ==
    /\ poll = "end"
    /\ EndAccount(ending)
    /\ requests' = requests \ {ending}
    /\ poll' = "delete" /\ ending' = None
    /\ UNCHANGED <<connVars, account, banVars, edits>>

\* A request that appears during a pass may as well be part of it.
PollSleeps ==
    /\ poll = "delete" /\ requests = {}
    /\ poll' = "idle"
    /\ UNCHANGED <<connVars, sessions, closing, account, banVars, ending, requests, edits>>

-----------------------------------------------------------------------------
(* The operator.                                                           *)

Edit == edits < MaxEdits /\ edits' = edits + 1

\* tariond ban.
Ban(e) ==
    /\ Edit
    /\ e \notin banFile
    /\ banFile' = banFile \union {e}
    /\ late' = late \union {c \in Conn : step[c] \in {"login", "register", "bind", "named"}}
    /\ UNCHANGED <<connVars, sessions, closing, account, bans, poll, ending, requests>>

\* tariond unban.
Unban(e) ==
    /\ Edit
    /\ e \in banFile
    /\ banFile' = banFile \ {e}
    /\ UNCHANGED <<connVars, sessions, closing, account, bans, late, poll, ending, requests>>

\* tariond delete.
RequestDeletion(n) ==
    /\ Edit
    /\ requests' = requests \union {n}
    /\ UNCHANGED <<connVars, sessions, closing, account, banVars, poll, ending>>

\* The server stops and starts again, with what is on disk.
Restart ==
    /\ Edit
    /\ conn' = [c \in Conn |-> IF conn[c] = "unused" THEN "unused" ELSE "ended"]
    /\ step' = [c \in Conn |-> IF step[c] = "idle" THEN "idle" ELSE "failed"]
    /\ sessions' = [n \in Name |-> None]
    /\ closing' = {}
    /\ bans' = banFile
    /\ poll' = "idle" /\ ending' = None
    /\ UNCHANGED <<key, want, user, account, banFile, late, requests>>

-----------------------------------------------------------------------------
RequestStep(c) ==
    \/ KeyLogin(c) \/ PasswordLogin(c) \/ Register(c) \/ LoginFails(c)
    \/ BindUser(c) \/ BindSession(c) \/ BindAnswers(c)
    \/ OwnerDeletes(c) \/ OwnerEnds(c)

ClientStep(c) ==
    \/ \E k \in Key : Connect(c, k)
    \/ Disconnect(c)
    \/ \E n \in Name : LoginBegins(c, n) \/ Lookup(c, n)
    \/ RegisterBegins(c)
    \/ OwnerChecks(c)

PollStep ==
    \/ PollBans \/ KickBanned \/ Broadcast
    \/ \E n \in Name : DeletePending(n)
    \/ EndPending \/ PollSleeps

OperatorStep ==
    \/ \E e \in Name \union Key : Ban(e) \/ Unban(e)
    \/ \E n \in Name : RequestDeletion(n)
    \/ Restart

Next ==
    \/ \E c \in Conn : ClientStep(c) \/ RequestStep(c) \/ Close(c) \/ EndSession(c)
    \/ PollStep
    \/ OperatorStep

Spec == Init /\ [][Next]_vars

(* Fairness.  Goroutines run: a request that was read is worked off, a     *)
(* connection that is to be closed is, handleConn sees the end of its      *)
(* connection, and the background loop goes round.  Clients and the        *)
(* operator need not do anything.                                          *)
Fairness ==
    /\ \A c \in Conn : WF_vars(RequestStep(c)) /\ WF_vars(Close(c)) /\ WF_vars(EndSession(c))
    /\ WF_vars(PollStep)

FairSpec == Spec /\ Fairness

-----------------------------------------------------------------------------
(* Properties.                                                             *)

ConnTypes ==
    /\ conn \in [Conn -> {"unused", "open", "closed", "ended"}]
    /\ key \in [Conn -> Key \union {None}]
    /\ step \in [Conn -> Step]
    /\ want \in [Conn -> Name \union {None}]
    /\ user \in [Conn -> Name \union {None}]

MapTypes ==
    /\ sessions \in [Name -> Conn \union {None}]
    /\ closing \subseteq Conn
    /\ account \in [Name -> Key \union {None}]

OperatorTypes ==
    /\ banFile \subseteq Name \union Key /\ bans \subseteq Name \union Key
    /\ late \subseteq Conn
    /\ poll \in {"idle", "kick", "broadcast", "delete", "end"}
    /\ ending \in IF poll = "end" THEN Name ELSE {None}
    /\ requests \subseteq Name
    /\ edits \in 0..MaxEdits

\* The variables hold values of their types, and a name's live session is a
\* connection whose user it is (bind).
TypeOK ==
    /\ ConnTypes /\ MapTypes /\ OperatorTypes
    /\ \A n \in Online : user[sessions[n]] = n

\* The account is being deleted: endAccount is still to come for it.
Ending(n) == \/ poll = "end" /\ ending = n
             \/ \E c \in Conn : step[c] = "ending" /\ user[c] = n

\* The server has not lost track of a client: an open connection that was
\* bound is its user's live session, or is about to be closed.  Otherwise its
\* client would believe it is online for ever (bind, endAccount, endSession).
NoOrphan ==
    \A c \in Conn :
        conn[c] = "open" /\ step[c] \in {"bound", "online", "delete", "ending"}
        => sessions[user[c]] = c \/ c \in closing

\* A user with an open connection goes offline only when the account is being
\* deleted: the end of an older connection of theirs does not take them off
\* the map (endSession against bind).
StaysOnline ==
    [][\A n \in Online : sessions'[n] = None
           => conn[sessions[n]] # "open" \/ Ending(n) \/ conn'[sessions[n]] = "ended"]_vars

\* Once an entry is on the ban list, nobody it names comes online but through
\* a login that was past its check by then (Banned refreshes the list).
BanHolds ==
    [][\A n \in Name : LET c == sessions'[n] IN
           c \notin {sessions[n], None} /\ {n, key[c]} \intersect banFile # {} => c \in late]_vars

\* A session whose connection ends leaves the map (endSession).
PresenceEnds ==
    \A c \in Conn : (conn[c] = "closed" /\ step[c] \in {"bound", "online"})
                        ~> (\A n \in Name : sessions[n] # c)

\* An account the operator wants deleted is deleted, even if the server is
\* restarted half-way (processDeletions).
DeletionDone == \A n \in Name : (n \in requests /\ ~Ending(n)) ~> account[n] = None

-----------------------------------------------------------------------------
(* What the documentation says, which the code does not keep.              *)

\* server/README on presence: "A user is online while their connection is
\* open."  No name is held by a connection that has ended.
OnlineIsConnected == \A n \in Online : conn[sessions[n]] # "ended"

\* server/README on bans: they "take effect within about 2 seconds", "A banned
\* user is disconnected".  This leaves aside who was logging in just then.
BannedLeaves ==
    \A n \in Name :
        LET Here == n \in Online /\ conn[sessions[n]] = "open" /\ sessions[n] \notin late
        IN  (n \in banFile /\ Here) ~> (n \notin banFile \/ ~Here)

\* server/README on deleting: it "takes effect within about 2 seconds".  Nobody
\* is online under a name that has no account.
OnlineHasAccount == \A n \in Online : account[n] # None \/ Ending(n)
=============================================================================
