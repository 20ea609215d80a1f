--------------------------- MODULE DirectoryClient ---------------------------
(***************************************************************************)
(* The connection a client keeps to its server: Run, session, dial and     *)
(* login in internal/directory/client.go, with the configuration file that *)
(* OnServerID and OnLoggedIn write (main.go).                              *)
(*                                                                         *)
(* Several devices of one user, each with the password in its own file.    *)
(* A login with the password moves the account to the device's key and     *)
(* ends the session of the device that had it; once logged in, a device    *)
(* forgets the password, in memory and then in its file.  Connections      *)
(* break, answers are lost, processes stop, the account is deleted, its    *)
(* password changed, the server installed anew with another key.           *)
(***************************************************************************)
EXTENDS Naturals, FiniteSets

CONSTANTS
    Device,    \* devices of the user
    Nobody,    \* no device, not one of Device
    MaxEvents  \* bound: breaks, stops, failed writes, deletions, reinstalls, ...

ASSUME ClientAssumption == Nobody \notin Device /\ MaxEvents \in Nat

VARIABLES
    place,     \* where the client of each device is
    pass,      \* the password it holds in memory, or 0
    pin,       \* the server key it holds in memory, or 0
    file,      \* both, in the file
    account,   \* the account: the device whose key it has, and its password
    server,    \* the server's key
    session,   \* the device online at the server
    closing,   \* why the server closed the device's connection
    events,    \* how many of those bounded by MaxEvents have happened
    linked,    \* history: devices whose login is in their file
    told,      \* history: server keys each device sent a login to
    unpinned   \* history: devices that lost their pin, by the user or a failed write

clientVars == <<place, pass, pin, file, account, server, session, closing, events, linked, told, unpinned>>

Word == {1, 2}
ServerKey == {1, 2}
NoAccount == [key |-> Nobody, word |-> 0]

\* The user set the devices up with the password.
ClientInit ==
    /\ place = [d \in Device |-> "off"]
    /\ pass = [d \in Device |-> 0] /\ pin = [d \in Device |-> 0]
    /\ file = [d \in Device |-> [pass |-> 1, pin |-> 0]]
    /\ account = NoAccount /\ server = 1
    /\ session = Nobody
    /\ closing = [d \in Device |-> "no"]
    /\ events = 0 /\ linked = {}
    /\ told = [d \in Device |-> {}] /\ unpinned = {}

Event == events < MaxEvents /\ events' = events + 1
Moves(d, p) == place' = [place EXCEPT ![d] = p]

\* What does not concern the account leaves it alone.
accountVars == <<account, session, closing>>
fileVars == <<file, linked>>
toldVars == <<told, unpinned>>

-----------------------------------------------------------------------------
(* The process.                                                            *)

StartsUp(d) ==
    /\ place[d] = "off" /\ Moves(d, "dial")
    /\ pass' = [pass EXCEPT ![d] = file[d].pass]
    /\ pin' = [pin EXCEPT ![d] = file[d].pin]
    /\ UNCHANGED <<accountVars, fileVars, server, events, toldVars>>

\* The process ends, wherever it is.
StopsNow(d) ==
    /\ place[d] # "off" /\ Event
    /\ Moves(d, "off")
    /\ pass' = [pass EXCEPT ![d] = 0] /\ pin' = [pin EXCEPT ![d] = 0]
    /\ closing' = [closing EXCEPT ![d] = "no"]
    /\ UNCHANGED <<fileVars, account, session, server, toldVars>>

\* The user runs the client with -pass, or takes server_id out of the file.
UserGivesPassword(d) ==
    /\ place[d] = "off" /\ Event
    /\ file' = [file EXCEPT ![d].pass = 1]
    /\ linked' = linked \ {d}
    /\ UNCHANGED <<accountVars, place, pass, pin, server, toldVars>>

UserUnpins(d) ==
    /\ place[d] = "off" /\ Event
    /\ file' = [file EXCEPT ![d].pin = 0]
    /\ unpinned' = unpinned \union {d}
    /\ UNCHANGED <<accountVars, place, pass, pin, server, linked, told>>

-----------------------------------------------------------------------------
(* Client.session.                                                         *)

\* Mutant: the key of the server is pinned in memory only.
DialUnsaved(d) ==
    /\ place[d] = "dial"
    /\ IF pin[d] \in {0, server}
       THEN Moves(d, "login") /\ pin' = [pin EXCEPT ![d] = server]
       ELSE Moves(d, "stopped") /\ UNCHANGED pin
    /\ UNCHANGED <<accountVars, fileVars, pass, server, events, toldVars>>

\* dial: another key than the pinned one is fatal; the first one is pinned and
\* written to the file, unless that fails.
Dial(d) ==
    /\ place[d] = "dial"
    /\ \/ /\ pin[d] = 0
          /\ pin' = [pin EXCEPT ![d] = server]
          /\ \/ file' = [file EXCEPT ![d].pin = server] /\ UNCHANGED <<events, unpinned>>
             \/ Event /\ unpinned' = unpinned \union {d} /\ UNCHANGED file
          /\ Moves(d, "login")
       \/ /\ pin[d] # 0
          /\ Moves(d, IF pin[d] = server THEN "login" ELSE "stopped")
          /\ UNCHANGED <<pin, file, events, unpinned>>
    /\ UNCHANGED <<accountVars, linked, pass, server, told>>

\* The server binds the device, and closes the session there was (CodeReplaced).
Binds(d) ==
    /\ session' = d
    /\ closing' = [e \in Device |-> IF e = session /\ e # d THEN "replaced" ELSE closing[e]]

Refused(d) == Moves(d, "stopped") /\ UNCHANGED accountVars

\* Mutant: a device that is not linked any more keeps trying.
LogInRetries(d) ==
    /\ place[d] = "login"
    /\ told' = [told EXCEPT ![d] = @ \union {server}]
    /\ \/ /\ account = NoAccount
          /\ IF pass[d] = 0 THEN Refused(d) ELSE Moves(d, "register") /\ UNCHANGED accountVars
       \/ /\ account # NoAccount /\ pass[d] # 0
          /\ IF pass[d] = account.word
             THEN account' = [account EXCEPT !.key = d] /\ Binds(d) /\ Moves(d, "answer")
             ELSE Refused(d)
       \/ /\ account # NoAccount /\ pass[d] = 0
          /\ IF account.key = d
             THEN Binds(d) /\ Moves(d, "answer") /\ UNCHANGED account
             ELSE Moves(d, "dial") /\ UNCHANGED accountVars
    /\ UNCHANGED <<fileVars, pass, pin, server, events, unpinned>>

\* login: with the password if there is one, else with the key.
LogInOnce(d) ==
    /\ place[d] = "login"
    /\ told' = [told EXCEPT ![d] = @ \union {server}]
    /\ \/ /\ account = NoAccount
          /\ IF pass[d] = 0 THEN Refused(d) ELSE Moves(d, "register") /\ UNCHANGED accountVars
       \/ /\ account # NoAccount /\ pass[d] # 0
          /\ IF pass[d] = account.word
             THEN account' = [account EXCEPT !.key = d] /\ Binds(d) /\ Moves(d, "answer")
             ELSE Refused(d)
       \/ /\ account # NoAccount /\ pass[d] = 0
          /\ IF account.key = d
             THEN Binds(d) /\ Moves(d, "answer") /\ UNCHANGED account
             ELSE Refused(d)
    /\ UNCHANGED <<fileVars, pass, pin, server, events, unpinned>>

\* There was no account of the name, so the client makes it.
Register(d) ==
    /\ place[d] = "register"
    /\ IF account = NoAccount
       THEN account' = [key |-> d, word |-> pass[d]] /\ Binds(d) /\ Moves(d, "answer")
       ELSE Refused(d)
    /\ UNCHANGED <<fileVars, pass, pin, server, events, toldVars>>

\* Mutant: the password stays in memory.
LoggedInKeeps(d) ==
    /\ place[d] = "answer"
    /\ Moves(d, IF pass[d] # 0 THEN "linked" ELSE "up")
    /\ UNCHANGED <<accountVars, fileVars, pass, pin, server, events, toldVars>>

\* The answer: the password is not needed any more ...
LoggedIn(d) ==
    /\ place[d] = "answer"
    /\ Moves(d, IF pass[d] # 0 THEN "linked" ELSE "up")
    /\ pass' = [pass EXCEPT ![d] = 0]
    /\ UNCHANGED <<accountVars, fileVars, pin, server, events, toldVars>>

\* ... nor in the file (OnLoggedIn), whether that can be written or not.
OnLoggedIn(d) ==
    /\ place[d] = "linked" /\ Moves(d, "up")
    /\ \/ file' = [file EXCEPT ![d].pass = 0] /\ linked' = linked \union {d} /\ UNCHANGED events
       \/ Event /\ UNCHANGED fileVars
    /\ UNCHANGED <<accountVars, pass, pin, server, toldVars>>

\* The server closed the connection for a reason that retrying does not change.
ClosedForGood(d) ==
    /\ place[d] = "up" /\ closing[d] # "no"
    /\ Moves(d, "stopped")
    /\ closing' = [closing EXCEPT ![d] = "no"]
    /\ UNCHANGED <<fileVars, account, session, pass, pin, server, events, toldVars>>

\* The connection breaks, and with it whatever was on its way: Run dials again.
Breaks(d) ==
    /\ place[d] \in {"login", "register", "answer", "up"} /\ Event
    /\ Moves(d, "dial")
    /\ closing' = [closing EXCEPT ![d] = "no"]
    /\ UNCHANGED <<fileVars, account, session, pass, pin, server, toldVars>>

-----------------------------------------------------------------------------
(* The server.                                                             *)

\* The account is deleted, by its user or the operator (CodeDeleted).
AccountDeleted ==
    /\ account # NoAccount /\ Event
    /\ account' = NoAccount /\ session' = Nobody
    /\ closing' = [d \in Device |-> IF d = session THEN "deleted" ELSE closing[d]]
    /\ UNCHANGED <<fileVars, place, pass, pin, server, toldVars>>

\* Its password is changed, on some device.
PasswordChanged ==
    /\ account # NoAccount /\ Event
    /\ account' = [account EXCEPT !.word = 3 - @]
    /\ UNCHANGED <<fileVars, place, pass, pin, server, session, closing, toldVars>>

\* The server is installed anew: another key, and no accounts.
Reinstalled ==
    /\ \A d \in Device : place[d] # "linked"
    /\ Event
    /\ server' = 3 - server
    /\ account' = NoAccount /\ session' = Nobody
    /\ closing' = [d \in Device |-> "no"]
    /\ place' = [d \in Device |-> IF place[d] \in {"login", "register", "answer", "up"} THEN "dial" ELSE place[d]]
    /\ UNCHANGED <<fileVars, pass, pin, toldVars>>

-----------------------------------------------------------------------------
KeepsSession(d) == Dial(d) \/ LogInOnce(d) \/ Register(d) \/ LoggedIn(d) \/ OnLoggedIn(d) \/ ClosedForGood(d)

ClientStep(d) ==
    KeepsSession(d) \/ StartsUp(d) \/ StopsNow(d) \/ UserGivesPassword(d) \/ UserUnpins(d) \/ Breaks(d)

ClientNext == (\E d \in Device : ClientStep(d)) \/ AccountDeleted \/ PasswordChanged \/ Reinstalled

ClientSpec == ClientInit /\ [][ClientNext]_clientVars

\* Requests have timeouts, and Run does not stop by itself.
ClientFairSpec == ClientSpec /\ \A d \in Device : WF_clientVars(KeepsSession(d))

-----------------------------------------------------------------------------
(* Properties.                                                             *)

\* The variables hold values of their types.
ClientTypeOK ==
    /\ place \in [Device -> {"off", "dial", "login", "register", "answer", "linked", "up", "stopped"}]
    /\ pass \in [Device -> Word \union {0}] /\ pin \in [Device -> ServerKey \union {0}]
    /\ file \in [Device -> [pass : Word \union {0}, pin : ServerKey \union {0}]]
    /\ account \in [key : Device, word : Word] \union {NoAccount}
    /\ server \in ServerKey /\ session \in Device \union {Nobody}
    /\ closing \in [Device -> {"no", "replaced", "deleted"}]
    /\ events \in 0..MaxEvents /\ linked \subseteq Device
    /\ told \in [Device -> SUBSET ServerKey] /\ unpinned \subseteq Device

\* A device tells one server only who its user is and what the password is,
\* however often it stops and the server changes, until the user unpins it or the
\* key could not be written (dial, OnServerID).
OneServerTold == \A d \in Device \ unpinned : Cardinality(told[d]) <= 1

\* A device that was logged in does not make the account again after it was
\* deleted, and does not take it back from another device, whatever connections
\* break and processes restart: its user must give the password again (login,
\* OnLoggedIn).
NotTakenBack ==
    [][\A d \in Device : (account'.key = d /\ account.key # d) => d \notin linked]_clientVars

\* Every client ends up connected, or stops for good: two devices of one user do
\* not end each other's sessions for ever (Run, FatalError).
ClientSettles == <>[](\A d \in Device : place[d] \in {"up", "stopped", "off"})
=============================================================================
