--------------------------- MODULE DirectoryProofs ---------------------------
(* Proofs about Directory, for every value of its constants.                *)
EXTENDS Directory, TLAPS

(***************************************************************************)
(* The inductive invariant.  TypeOK and NoOrphan speak of the map and of   *)
(* session.user, which a login sets in several steps; what makes them      *)
(* inductive is how far a login must have come for its connection to be in *)
(* the map, and what it has set by then.                                   *)
(***************************************************************************)

\* The steps at which a login is past its ban check and not yet in the map,
\* and those at which its connection was put into the map.
Pending == {"login", "register", "bind", "named"}
Mapped  == {"bound", "online", "delete", "ending"}

\* A request was sent on a connection that was made, for some name.
Asked == \A c \in Conn : step[c] # "idle" => conn[c] # "unused" /\ want[c] \in Name

\* From BindUser on session.user is the name asked for.
UserSet == \A c \in Conn : step[c] \in Mapped \union {"named"} => user[c] = want[c]

\* Nothing is in the map before BindSession put it there.
MapSet == \A n \in Online : step[sessions[n]] \in Mapped

\* A login that is past its check passed it with the list as it was then.
Checked == \A c \in Conn :
    step[c] \in Pending /\ {want[c], key[c]} \intersect banFile # {} => c \in late

IInv == TypeOK /\ Asked /\ UserSet /\ MapSet /\ NoOrphan /\ Checked

-----------------------------------------------------------------------------
(* What a step can do to one connection and to one name.                   *)

\* How the request on a connection proceeds.
Proceeds(c) ==
    /\ conn[c] # "unused" => conn'[c] # "unused" /\ key'[c] = key[c]
    /\ conn'[c] = "open" => conn[c] = "open" \/ step'[c] = "idle"
    /\ step[c] = "idle" =>
         \/ step'[c] = "idle"
         \/ step'[c] = "failed" /\ conn[c] = "open" /\ want'[c] \in Name
         \/ /\ step'[c] = "login" /\ conn[c] = "open" /\ want'[c] \in Name
            /\ {want'[c], key[c]} \intersect banFile = {}
    /\ step[c] # "idle" => step'[c] # "idle" /\ want'[c] = want[c]
    /\ step'[c] \in Pending => step[c] \in Pending \union {"idle"}
    /\ step'[c] = "named" => \/ step[c] = "named" /\ user'[c] = user[c]
                             \/ step[c] = "bind" /\ user'[c] = want[c]
    /\ step'[c] \in Mapped => \/ step[c] \in Mapped /\ user'[c] = user[c]
                              \/ BindSession(c)
    /\ step[c] \in Mapped => user'[c] = user[c] /\ (step'[c] \in Mapped \/ Restart)
    /\ c \in closing => c \in closing' \/ conn'[c] # "open"

\* How the session of a name changes.
Remapped(n) ==
    \/ sessions'[n] = sessions[n]
    \/ sessions'[n] = None /\ conn[sessions[n]] = "closed"
    \/ sessions'[n] = None /\ Ending(n) /\ closing' = closing \union ({sessions[n]} \ {None})
    \/ Restart
    \/ \E c \in Conn : BindSession(c) /\ n = want[c]

LEMMA RequestsProceed ==
    ASSUME TypeOK, Asked, [Next]_vars, NEW c \in Conn
    PROVE  Proceeds(c)
  <1> USE DEF Pending, Mapped, TypeOK, ConnTypes
  <1>1. CASE UNCHANGED vars
    BY <1>1 DEF vars, connVars, Proceeds
  <1>2. ASSUME NEW d \in Conn, \/ \E k \in Key : Connect(d, k)
                               \/ Disconnect(d) \/ Close(d) \/ EndSession(d)
        PROVE  Proceeds(c)
    BY <1>2 DEF Connect, Disconnect, Close, EndSession, Asked, Proceeds
  <1>3. ASSUME NEW d \in Conn, NEW n \in Name, LoginBegins(d, n) PROVE Proceeds(c)
    BY <1>3 DEF LoginBegins, At, Refused, Proceeds
  <1>4. ASSUME NEW d \in Conn, NEW n \in Name, Lookup(d, n) PROVE Proceeds(c)
    BY <1>4 DEF Lookup, connVars, Proceeds
  <1>5. ASSUME NEW d \in Conn, \/ RegisterBegins(d) \/ KeyLogin(d) \/ PasswordLogin(d)
                               \/ Register(d) \/ LoginFails(d)
        PROVE  Proceeds(c)
    BY <1>5 DEF RegisterBegins, KeyLogin, PasswordLogin, Register, LoginFails, At, Proceeds
  <1>6. ASSUME NEW d \in Conn, BindUser(d) \/ BindSession(d) \/ BindAnswers(d) PROVE Proceeds(c)
    BY <1>6 DEF BindUser, BindSession, BindAnswers, At, Proceeds
  <1>7. ASSUME NEW d \in Conn, OwnerChecks(d) \/ OwnerDeletes(d) \/ OwnerEnds(d) PROVE Proceeds(c)
    BY <1>7 DEF OwnerChecks, OwnerDeletes, OwnerEnds, EndAccount, At, Proceeds
  <1>8. CASE PollStep
    BY <1>8 DEF PollStep, PollBans, KickBanned, Broadcast, DeletePending, EndPending, PollSleeps,
                EndAccount, connVars, Proceeds
  <1>9. CASE OperatorStep /\ ~Restart
    BY <1>9 DEF OperatorStep, Ban, Unban, RequestDeletion, connVars, Proceeds
  <1>10. CASE Restart
    BY <1>10 DEF Restart, Proceeds
  <1> QED
    BY <1>1, <1>2, <1>3, <1>4, <1>5, <1>6, <1>7, <1>8, <1>9, <1>10
    DEF Next, ClientStep, RequestStep, OperatorStep

LEMMA NamesRemapped ==
    ASSUME TypeOK, [Next]_vars, NEW n \in Name
    PROVE  Remapped(n)
  <1> USE DEF TypeOK, MapTypes
  <1>1. CASE UNCHANGED sessions
    BY <1>1 DEF Remapped
  <1>2. ASSUME NEW c \in Conn, EndSession(c) PROVE Remapped(n)
    BY <1>2 DEF EndSession, Remapped
  <1>3. ASSUME NEW c \in Conn, BindSession(c) PROVE Remapped(n)
    BY <1>3 DEF BindSession, Remapped
  <1>4. ASSUME NEW c \in Conn, OwnerEnds(c) PROVE Remapped(n)
    BY <1>4 DEF OwnerEnds, EndAccount, At, Ending, Remapped
  <1>5. CASE EndPending
    BY <1>5 DEF EndPending, EndAccount, Ending, Remapped
  <1>6. CASE Restart
    BY <1>6 DEF Remapped
  <1>7. ASSUME NEW c \in Conn, ClientStep(c) PROVE UNCHANGED sessions
    BY <1>7 DEF ClientStep, Connect, Disconnect, LoginBegins, Lookup, RegisterBegins, OwnerChecks
  <1>8. ASSUME NEW c \in Conn, RequestStep(c), ~BindSession(c), ~OwnerEnds(c)
        PROVE  UNCHANGED sessions
    BY <1>8 DEF RequestStep, KeyLogin, PasswordLogin, Register, LoginFails, BindUser, BindAnswers,
                OwnerDeletes
  <1>9. ASSUME NEW c \in Conn, Close(c) PROVE UNCHANGED sessions
    BY <1>9 DEF Close
  <1>10. ASSUME PollStep, ~EndPending PROVE UNCHANGED sessions
    BY <1>10 DEF PollStep, PollBans, KickBanned, Broadcast, DeletePending, PollSleeps
  <1>11. ASSUME OperatorStep, ~Restart PROVE UNCHANGED sessions
    BY <1>11 DEF OperatorStep, Ban, Unban, RequestDeletion
  <1> QED
    BY <1>1, <1>2, <1>3, <1>4, <1>5, <1>6, <1>7, <1>8, <1>9, <1>10, <1>11 DEF Next, vars

-----------------------------------------------------------------------------
(* Type correctness.                                                       *)

LEMMA ConnTypesStep == TypeOK /\ [Next]_vars => ConnTypes'
  <1> SUFFICES ASSUME TypeOK, [Next]_vars PROVE ConnTypes' OBVIOUS
  <1> USE DEF TypeOK, ConnTypes, Step
  <1>1. CASE UNCHANGED connVars
    BY <1>1 DEF connVars
  <1>2. ASSUME NEW c \in Conn, \/ \E k \in Key : Connect(c, k)
                               \/ Disconnect(c) \/ Close(c) \/ EndSession(c)
        PROVE  ConnTypes'
    BY <1>2 DEF Connect, Disconnect, Close, EndSession
  <1>3. ASSUME NEW c \in Conn, ClientStep(c), ~Disconnect(c), ~\E k \in Key : Connect(c, k)
        PROVE  ConnTypes'
    BY <1>3 DEF ClientStep, LoginBegins, RegisterBegins, Lookup, OwnerChecks, At, connVars
  <1>4. ASSUME NEW c \in Conn, RequestStep(c) PROVE ConnTypes'
    BY <1>4 DEF RequestStep, KeyLogin, PasswordLogin, Register, LoginFails, BindUser, BindSession,
                BindAnswers, OwnerDeletes, OwnerEnds, At
  <1>5. ASSUME PollStep PROVE UNCHANGED connVars
    BY <1>5 DEF PollStep, PollBans, KickBanned, Broadcast, DeletePending, EndPending, PollSleeps
  <1>6. ASSUME OperatorStep, ~Restart PROVE UNCHANGED connVars
    BY <1>6 DEF OperatorStep, Ban, Unban, RequestDeletion
  <1>7. CASE Restart
    BY <1>7 DEF Restart
  <1> QED BY <1>1, <1>2, <1>3, <1>4, <1>5, <1>6, <1>7 DEF Next, vars, ClientStep

LEMMA MapTypesStep == IInv /\ [Next]_vars => MapTypes'
  <1> SUFFICES ASSUME IInv, [Next]_vars PROVE MapTypes' OBVIOUS
  <1> USE DEF IInv, TypeOK, ConnTypes, MapTypes
  <1>1. CASE UNCHANGED <<sessions, closing, account>>
    BY <1>1
  <1>2. ASSUME NEW c \in Conn, ClientStep(c) PROVE UNCHANGED <<sessions, closing, account>>
    BY <1>2 DEF ClientStep, Connect, Disconnect, LoginBegins, Lookup, RegisterBegins, OwnerChecks
  <1>3. ASSUME NEW c \in Conn, BindSession(c) PROVE MapTypes'
    <2>1. want[c] \in Name BY <1>3 DEF BindSession, At, Asked
    <2> QED BY <1>3, <2>1 DEF BindSession
  <1>4. ASSUME NEW c \in Conn, OwnerEnds(c) PROVE MapTypes'
    <2>1. user[c] \in Name BY <1>4 DEF OwnerEnds, At, Asked, UserSet, Mapped
    <2> QED BY <1>4, <2>1 DEF OwnerEnds, EndAccount
  <1>5. ASSUME NEW c \in Conn, RequestStep(c), ~BindSession(c), ~OwnerEnds(c) PROVE MapTypes'
    BY <1>5 DEF RequestStep, KeyLogin, PasswordLogin, Register, LoginFails, BindUser, BindAnswers,
                OwnerDeletes
  <1>6. ASSUME NEW c \in Conn, Close(c) \/ EndSession(c) PROVE MapTypes'
    BY <1>6 DEF Close, EndSession
  <1>7. CASE EndPending
    <2>1. ending \in Name BY <1>7 DEF EndPending, OperatorTypes
    <2> QED BY <1>7, <2>1 DEF EndPending, EndAccount
  <1>8. CASE KickBanned
    BY <1>8 DEF KickBanned, Online
  <1>9. ASSUME PollStep, ~EndPending, ~KickBanned PROVE MapTypes'
    BY <1>9 DEF PollStep, PollBans, Broadcast, DeletePending, PollSleeps
  <1>10. CASE OperatorStep
    BY <1>10 DEF OperatorStep, Ban, Unban, RequestDeletion, Restart
  <1> QED BY <1>1, <1>2, <1>3, <1>4, <1>5, <1>6, <1>7, <1>8, <1>9, <1>10 DEF Next, vars

LEMMA OperatorTypesStep == TypeOK /\ [Next]_vars => OperatorTypes'
  <1> SUFFICES ASSUME TypeOK, [Next]_vars PROVE OperatorTypes' OBVIOUS
  <1> USE DirectoryAssumption DEF TypeOK, OperatorTypes, banVars, pollVars, Refresh
  <1>1. CASE UNCHANGED <<banVars, pollVars>>
    BY <1>1
  <1>2. ASSUME NEW c \in Conn, ClientStep(c) PROVE OperatorTypes'
    BY <1>2 DEF ClientStep, Connect, Disconnect, LoginBegins, Lookup, RegisterBegins, OwnerChecks
  <1>3. ASSUME NEW c \in Conn, RequestStep(c) PROVE OperatorTypes'
    BY <1>3 DEF RequestStep, KeyLogin, PasswordLogin, Register, LoginFails, BindUser, BindSession,
                BindAnswers, OwnerDeletes, OwnerEnds
  <1>4. ASSUME NEW c \in Conn, Close(c) \/ EndSession(c) PROVE UNCHANGED <<banVars, pollVars>>
    BY <1>4 DEF Close, EndSession
  <1>5. CASE PollStep
    BY <1>5 DEF PollStep, PollBans, KickBanned, Broadcast, DeletePending, EndPending, PollSleeps
  <1>6. CASE OperatorStep
    BY <1>6 DEF OperatorStep, Ban, Unban, RequestDeletion, Restart, Edit
  <1> QED BY <1>1, <1>2, <1>3, <1>4, <1>5, <1>6 DEF Next, vars

\* Who is in the map is there under its own name.
LEMMA OwnNameStep ==
    ASSUME IInv, [Next]_vars, NEW n \in Online'
    PROVE  user'[sessions'[n]] = n
  <1>1. n \in Name /\ sessions'[n] # None BY DEF Online
  <1>2. Remapped(n) BY <1>1, NamesRemapped DEF IInv
  <1>3. CASE sessions'[n] = sessions[n]
    <2>1. n \in Online /\ sessions[n] \in Conn BY <1>1, <1>3 DEF Online, IInv, TypeOK, MapTypes
    <2>2. step[sessions[n]] \in Mapped /\ user[sessions[n]] = n BY <2>1 DEF IInv, MapSet, TypeOK
    <2>3. Proceeds(sessions[n]) BY <2>1, RequestsProceed DEF IInv
    <2> QED BY <1>3, <2>2, <2>3 DEF Proceeds
  <1>4. CASE Restart BY <1>1, <1>4 DEF Restart
  <1>5. ASSUME NEW c \in Conn, BindSession(c), n = want[c] PROVE user'[sessions'[n]] = n
    <2>1. sessions'[n] = c BY <1>1, <1>5 DEF BindSession, IInv, TypeOK, MapTypes
    <2>2. user'[c] = want[c] BY <1>5 DEF BindSession, At, IInv, UserSet
    <2> QED BY <1>5, <2>1, <2>2
  <1> QED BY <1>1, <1>2, <1>3, <1>4, <1>5 DEF Remapped

LEMMA TypeStep == IInv /\ [Next]_vars => TypeOK'
  BY ConnTypesStep, MapTypesStep, OperatorTypesStep, OwnNameStep DEF IInv, TypeOK

-----------------------------------------------------------------------------
(* The other parts of the invariant.                                       *)

LEMMA AskedStep == IInv /\ [Next]_vars => Asked'
  <1> SUFFICES ASSUME IInv, [Next]_vars, NEW c \in Conn, step'[c] # "idle"
               PROVE  conn'[c] # "unused" /\ want'[c] \in Name
    BY DEF Asked
  <1>1. Proceeds(c) BY RequestsProceed DEF IInv
  <1> QED BY <1>1 DEF Proceeds, IInv, Asked

LEMMA UserSetStep == IInv /\ [Next]_vars => UserSet'
  <1> SUFFICES ASSUME IInv, [Next]_vars, NEW c \in Conn, step'[c] \in Mapped \union {"named"}
               PROVE  user'[c] = want'[c]
    BY DEF UserSet
  <1>1. Proceeds(c) BY RequestsProceed DEF IInv
  <1>2. step[c] # "idle" BY <1>1 DEF Proceeds, Mapped
  <1>3. CASE BindSession(c)
    BY <1>3 DEF BindSession, At, IInv, UserSet
  <1> QED BY <1>1, <1>2, <1>3 DEF Proceeds, IInv, UserSet

LEMMA MapSetStep == IInv /\ [Next]_vars => MapSet'
  <1> SUFFICES ASSUME IInv, [Next]_vars, NEW n \in Online'
               PROVE  step'[sessions'[n]] \in Mapped
    BY DEF MapSet
  <1>1. n \in Name /\ sessions'[n] # None BY DEF Online
  <1>2. Remapped(n) BY <1>1, NamesRemapped DEF IInv
  <1>3. ~Restart BY <1>1 DEF Restart
  <1>4. CASE sessions'[n] = sessions[n]
    <2>1. n \in Online /\ sessions[n] \in Conn BY <1>1, <1>4 DEF Online, IInv, TypeOK, MapTypes
    <2>2. step[sessions[n]] \in Mapped BY <2>1 DEF IInv, MapSet
    <2>3. Proceeds(sessions[n]) BY <2>1, RequestsProceed DEF IInv
    <2> QED BY <1>3, <1>4, <2>2, <2>3 DEF Proceeds
  <1>5. ASSUME NEW c \in Conn, BindSession(c), n = want[c] PROVE step'[sessions'[n]] \in Mapped
    <2>1. sessions'[n] = c BY <1>1, <1>5 DEF BindSession, IInv, TypeOK, MapTypes
    <2>2. step'[c] = "bound" BY <1>5 DEF BindSession, At, IInv, TypeOK, ConnTypes
    <2> QED BY <2>1, <2>2 DEF Mapped
  <1> QED BY <1>1, <1>2, <1>3, <1>4, <1>5 DEF Remapped

LEMMA NoOrphanStep == IInv /\ [Next]_vars => NoOrphan'
  <1> SUFFICES ASSUME IInv, [Next]_vars, NEW c \in Conn, conn'[c] = "open", step'[c] \in Mapped
               PROVE  sessions'[user'[c]] = c \/ c \in closing'
    BY DEF NoOrphan, Mapped
  <1>1. Proceeds(c) BY RequestsProceed DEF IInv
  <1>2. ~Restart BY DEF Restart, IInv, TypeOK, ConnTypes
  <1>3. conn[c] = "open" BY <1>1 DEF Proceeds, Mapped
  <1>4. CASE BindSession(c)
    BY <1>4 DEF BindSession, At, IInv, UserSet, Asked, TypeOK, MapTypes
  <1>5. CASE step[c] \in Mapped /\ c \in closing
    BY <1>1, <1>5 DEF Proceeds
  <1>6. CASE step[c] \in Mapped /\ user'[c] = user[c] /\ sessions[user[c]] = c
    <2>1. user[c] \in Name BY <1>6 DEF IInv, UserSet, Asked, Mapped
    <2>2. Remapped(user[c]) BY <2>1, NamesRemapped DEF IInv
    <2>3. ASSUME NEW d \in Conn, BindSession(d), user[c] = want[d]
          PROVE  sessions'[user[c]] = c \/ c \in closing'
      BY <1>6, <2>1, <2>3, DirectoryAssumption DEF BindSession, IInv, TypeOK, MapTypes
    <2>4. closing' = closing \union ({c} \ {None}) => c \in closing' BY DirectoryAssumption
    <2> QED BY <1>2, <1>3, <1>6, <2>2, <2>3, <2>4 DEF Remapped
  <1>7. step[c] \in Mapped => c \in closing \/ sessions[user[c]] = c
    BY <1>3 DEF IInv, NoOrphan, Mapped
  <1> QED BY <1>1, <1>4, <1>5, <1>6, <1>7 DEF Proceeds

LEMMA CheckedStep == IInv /\ [Next]_vars => Checked'
  <1> SUFFICES ASSUME IInv, [Next]_vars, NEW c \in Conn, step'[c] \in Pending,
                      {want'[c], key'[c]} \intersect banFile' # {}
               PROVE  c \in late'
    BY DEF Checked
  <1>1. Proceeds(c) BY RequestsProceed DEF IInv
  <1>2. step[c] \in Pending \union {"idle"} /\ key'[c] = key[c]
    BY <1>1 DEF Proceeds, Pending, IInv, Asked
  <1>3. ASSUME ~OperatorStep PROVE UNCHANGED <<banFile, late>>
    <2>1. ASSUME NEW d \in Conn, ClientStep(d) PROVE UNCHANGED <<banFile, late>>
      BY <2>1 DEF ClientStep, Connect, Disconnect, LoginBegins, Lookup, RegisterBegins, OwnerChecks,
                  banVars
    <2>2. ASSUME NEW d \in Conn, RequestStep(d) PROVE UNCHANGED <<banFile, late>>
      BY <2>2 DEF RequestStep, KeyLogin, PasswordLogin, Register, LoginFails, BindUser, BindSession,
                  BindAnswers, OwnerDeletes, OwnerEnds, banVars
    <2>3. ASSUME NEW d \in Conn, Close(d) \/ EndSession(d) PROVE UNCHANGED <<banFile, late>>
      BY <2>3 DEF Close, EndSession, banVars
    <2>4. ASSUME PollStep PROVE UNCHANGED <<banFile, late>>
      BY <2>4 DEF PollStep, PollBans, KickBanned, Broadcast, DeletePending, EndPending, PollSleeps,
                  banVars
    <2> QED BY <1>3, <2>1, <2>2, <2>3, <2>4 DEF Next, vars, banVars
  <1>4. CASE ~OperatorStep /\ step[c] = "idle"
    BY <1>1, <1>3, <1>4, <1>2 DEF Proceeds, Pending
  <1>5. CASE ~OperatorStep /\ step[c] \in Pending
    BY <1>1, <1>2, <1>3, <1>5 DEF Proceeds, Pending, IInv, Checked
  <1>6. ASSUME NEW x \in Name \union Key, Ban(x) PROVE c \in late'
    BY <1>6 DEF Ban, connVars, Pending
  <1>7. ASSUME NEW x \in Name \union Key, Unban(x) PROVE c \in late'
    BY <1>7 DEF Unban, connVars, IInv, Checked
  <1>8. ASSUME NEW n \in Name, RequestDeletion(n) PROVE c \in late'
    BY <1>8 DEF RequestDeletion, connVars, banVars, IInv, Checked
  <1>9. CASE Restart
    BY <1>9 DEF Restart, Pending, IInv, TypeOK, ConnTypes
  <1> QED BY <1>2, <1>4, <1>5, <1>6, <1>7, <1>8, <1>9 DEF OperatorStep

-----------------------------------------------------------------------------
(* The theorems.                                                           *)

LEMMA IInvInit == Init => IInv
  BY DirectoryAssumption
  DEF Init, IInv, TypeOK, ConnTypes, MapTypes, OperatorTypes, Online, Step, Asked, UserSet, MapSet,
      NoOrphan, Checked, Mapped, Pending

LEMMA IInvStep == IInv /\ [Next]_vars => IInv'
  BY TypeStep, AskedStep, UserSetStep, MapSetStep, NoOrphanStep, CheckedStep DEF IInv

\* The variables keep their types, and the map binds a name to a connection
\* of its own user (bind, endSession, endAccount).
THEOREM TypeCorrect == Spec => []TypeOK
  <1>1. IInv => TypeOK BY DEF IInv
  <1> QED BY <1>1, IInvInit, IInvStep, PTL DEF Spec

\* The server never loses track of an open connection that was bound: it is
\* its user's session, or is about to be closed (bind, endAccount, endSession).
THEOREM NoClientForgotten == Spec => []NoOrphan
  <1>1. IInv => NoOrphan BY DEF IInv
  <1> QED BY <1>1, IInvInit, IInvStep, PTL DEF Spec

\* Nobody with an open connection is taken offline but by the deletion of the
\* account or the end of the server (endSession against bind).
THEOREM StaysOnlineWhileOpen == Spec => StaysOnline
  <1> DEFINE Leaves == \A n \in Online : sessions'[n] = None
                 => conn[sessions[n]] # "open" \/ Ending(n) \/ conn'[sessions[n]] = "ended"
  <1>1. ASSUME IInv, [Next]_vars, NEW n \in Online, sessions'[n] = None
        PROVE  conn[sessions[n]] # "open" \/ Ending(n) \/ conn'[sessions[n]] = "ended"
    <2>1. n \in Name /\ sessions[n] \in Conn /\ sessions[n] # None
      BY <1>1 DEF Online, IInv, TypeOK, MapTypes
    <2>2. Remapped(n) BY <1>1, <2>1, NamesRemapped DEF IInv
    <2>3. CASE Restart
      <3>1. conn[sessions[n]] # "unused"
        BY <1>1, <2>1 DEF IInv, MapSet, Asked, Mapped
      <3> QED BY <2>1, <2>3, <3>1 DEF Restart
    <2>4. ASSUME NEW c \in Conn, BindSession(c), n = want[c] PROVE sessions'[n] # None
      BY <2>1, <2>4, DirectoryAssumption DEF BindSession, IInv, TypeOK, MapTypes
    <2> QED BY <1>1, <2>1, <2>2, <2>3, <2>4 DEF Remapped
  <1>2. IInv /\ [Next]_vars => [Leaves]_vars BY <1>1
  <1> HIDE DEF Leaves
  <1>3. Spec => [][Leaves]_vars BY <1>2, IInvInit, IInvStep, PTL DEF Spec
  <1> QED BY <1>3 DEF Leaves, StaysOnline

\* Once an entry is on the ban list, nobody it names comes online but through
\* a login that was past its check by then (Banned, login, register, bind).
THEOREM BansHold == Spec => BanHolds
  <1> DEFINE Holds == \A n \in Name : LET c == sessions'[n] IN
                 c \notin {sessions[n], None} /\ {n, key[c]} \intersect banFile # {} => c \in late
  <1>1. ASSUME IInv, [Next]_vars, NEW n \in Name, sessions'[n] \notin {sessions[n], None},
               {n, key[sessions'[n]]} \intersect banFile # {}
        PROVE  sessions'[n] \in late
    <2>1. Remapped(n) BY <1>1, NamesRemapped DEF IInv
    <2>2. ~Restart BY <1>1 DEF Restart
    <2>3. PICK c \in Conn : BindSession(c) /\ n = want[c] BY <1>1, <2>1, <2>2 DEF Remapped
    <2>4. sessions'[n] = c BY <1>1, <2>3 DEF BindSession, IInv, TypeOK, MapTypes
    <2>5. step[c] = "named" BY <2>3 DEF BindSession, At
    <2> QED BY <1>1, <2>3, <2>4, <2>5 DEF IInv, Checked, Pending
  <1>2. IInv /\ [Next]_vars => [Holds]_vars BY <1>1
  <1> HIDE DEF Holds
  <1>3. Spec => [][Holds]_vars BY <1>2, IInvInit, IInvStep, PTL DEF Spec
  <1> QED BY <1>3 DEF Holds, BanHolds
=============================================================================
