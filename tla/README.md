# Tarion: a TLA+ model

Tarion is a peer-to-peer chat: clients talk to each other over QUIC, and a
directory server (`tariond`) tells them who is online, where, and with which
key.  Messages to contacts that cannot be reached wait in the sender's outbox
or, if both ends want it, as sealed letters in the server's mailbox.

This directory holds a TLA+ model of it.  It was written from the source at the
commit it lives with; each definition's lines are listed in `PROJECT.json`
(`map`).  `tlc -config X.cfg M` runs a check, `tlapm M.tla` the proofs.

1. [The system](#the-system): components, state, interaction, what is hard
2. [The modules](#the-modules): what models what
3. [The checks](#the-checks): runs, bounds, fairness
4. [What the code does not keep](#what-the-code-does-not-keep)
5. [The proofs](#the-proofs)
6. [What is not modelled](#what-is-not-modelled)
7. [The plan](#the-plan)

## The system

Client (package `main` and `internal/`):

| Component | State | Operations | Correct when |
|---|---|---|---|
| Delivery and outbox (`main.go`, `storage/outbox.go`) | `outbox.json`, the result of each message, the pass in progress | `send`, `flushOutbox`, `deliverMsg`, `retryable`, `mailItem` | what the user is told of a message is true and final; nothing is lost without a trace; the oldest message goes first; nothing stays queued for ever |
| Client mailbox (`mailbox.go`, `internal/mailbox`) | the batch in hand, letters to acknowledge | `depositMail`, `mailWhenOffline`, `fetchMail`, `openLetter` | it has a letter deleted only when its message was taken or refused |
| Network endpoint (`network/quic.go`) | cached connections, `activeConns`, the duplicate filter `seen`, `MessageChan` | `SendMessage`, `handleStream`, `Deliver`, `markSeen`, `Close` | a message is handed over once; a full channel refuses it; the cap on connections holds |
| Directory client (`directory/client.go`) | the connection, the address seen, requests in flight | `Run`, `session`, `login`, `request`, `handlePush` | one session at a time; answers go to their requests; a fatal answer ends it |
| Relay client (`relay/relay.go`) | cached relay sessions, the server's address | `openRelay`, wrapping of packets | a session is not used after the server dropped it |
| Port mapping (`main.go`, `portmap/`) | the forwarding on the router, the advertised address | `mapPort`, probe, renewal, `removeMapping` | no forwarding is left behind; only a confirmed address is advertised |
| Peer pinning (`storage/peers.go`) | `peers.json`: names and keys | `PinOutgoing`, `ResolveIncoming`, rename, trust | a name never stands for two keys |
| Protected storage (`protect.go`, `storage/sealed.go`, `vault/`) | files in clear or sealed, the vault | turn on, turn off, append, reseal | no file becomes unreadable, whenever the process stops |
| Control interface, terminal (`main.go`) | the hub of events, the local socket | events, commands | – |

Server (`server/`):

| Component | State | Operations | Correct when |
|---|---|---|---|
| Sessions and presence (`server.go`) | the map of live sessions, `session.user`, counts of connections | `handleConn`, `login`, `register`, `bind`, `endSession`, `list`, `lookup`, `endAccount`, `kickBanned` | an open bound connection is its user's session or is being closed; the end of an older one takes nobody offline; who is gone leaves the map |
| Accounts (`accounts.go`) | accounts in memory and in `users.json` | `Create`, `LoginWithKey`, `LoginWithPassword`, `ChangePassword`, `Delete` | concurrent changes do not overwrite each other; memory and file agree |
| Access control (`access.go`) | `bans.txt` and its copy in memory, invites, pending deletions | `refresh`, `Banned`, `editBans`, `Consume`, `Restore`, `Request`, `Pending`, `Done` | a ban keeps its users out; an invite is used once; a deletion is carried out |
| Mailbox store (`mailbox.go`) | one folder per user: box key, letters | `SetKey`, `Put`, `Fetch`, `Ack`, `Expire`, `Remove` | limits hold; letters of another key are not handed out |
| Relay (`server.go`, `relay/`) | relay sessions, counts per user | `openRelay`, `ServeRelay`, `sweepRelays` | only members' packets are forwarded; counts return to zero |
| Rate limiter (`limiter.go`) | buckets | `AllowN`, `sweep` | sweeping forgets no spent allowance |

How they interact.  `send` (called by the user) and `flushOutbox` (a ticker)
both call `deliverMsg`, which opens a QUIC stream to the contact; there
`handleStream` runs in a goroutine of its own for every stream, marks the
message's ID in the duplicate filter and puts it into `MessageChan`, from which
the reader files it in the history.  A direct
attempt that fails is followed by one through a relay session, which the server
opens and both sockets have to accept.  The mailbox loop of the receiver fetches
letters from the server and puts their messages into the same channel through
the same filter.  On the server every connection is served by `handleConn`,
every request on it by a goroutine that goes on when the connection is gone, and
one background loop applies bans and deletions every two seconds, which the
operator writes as files with `tariond ban` and `tariond delete`.

What is hard about it is listed in `PROJECT.json` (`hazards`), each at its line:
copies of a message racing through two paths, a filter that forgets, processes
that stop between acknowledging and filing, a session bound after its connection
ended, a ban list whose change is seen by the wrong reader, a password hashed
while the account changes, a letter left while its box is removed or its reader
changes device, an address
advertised while the forward behind it goes, files sealed halfway.

## The modules

| Module | Models | What it shows |
|---|---|---|
| `Courier` | the promise made to the sender, abstractly | results are final and true, letters stay until they are taken or the server lets them go, nothing arrives unsent |
| `Delivery` | sender, receiver and letters for one contact | implements `Courier` (`PromiseKept`) |
| `Directory` | connections, sessions, bans and deletions on the server | who is shown online, and who may be |
| `Registry` | what the accounts promise, abstractly | every request acts at one moment, once, on the account as it is then; what is granted is kept |
| `Accounts` | accounts in memory and on disk, invites, deletions | implements `Registry` (`RegistryKept`); no request undoes another, no save or stop loses what was confirmed |
| `Mailboxes` | extends `Accounts` with the folders of letters | accounts and folders stay in agreement, letters go only as they should |
| `Relay` | the server's table, the two sockets, the caller's memory | four clocks that forget in the right order |
| `PortMapping` | the router, the client's address, the session's | an address is forwarded, kept and advertised, or none of these |
| `DirectoryClient` | several devices of one user and their files | one server is told, an account is not taken back, `Run` settles |
| `Endpoint` | the cache of connections, the cap on the other side | no connection is forgotten or counted twice |
| `TokenBuckets`, `Limiter` | a limiter with a bucket for every key; the one in the code | the second implements the first |
| `Vault` | files, lines and keys, and the commands that seal them | nothing is lost or left unreadable by a stop |
| `Peers` | pinned contacts and `tarion forget` | one name, one key |
| `MCDelivery`, `MCDirectory`, `MCMailboxes`, `MCParts` | – | what TLC needs: resting steps, symmetry, the choice of a part |
| `DeliveryProofs`, `DirectoryProofs`, `MailboxesProofs`, `VaultProofs`, `PeersProofs` | – | theorems about the module they are named for (`MailboxesProofs` about `Accounts` too) |
| `NetworkProofs` | – | theorems about `Endpoint` and `Limiter` |
| `ClientProofs` | – | theorems about `DirectoryClient`, `PortMapping` and `Relay` |
| `PartsProofs` | – | theorems about the composition `MCParts`, from those of its parts |

### Delivery

One sender and one receiver.  `told` is the result the user was given
(`sendOutcome`, or what `flushOutbox` writes later); `call` is the point a
message has reached in `send` or `flushOutbox`; a message is in the hands of a
pass when it is in `outbox`, of a call of `send` when it is not.

| Code | Actions |
|---|---|
| `send`, `deliverMsg`, `SendMessage` | `SendStart`, `Attempt`, `Reply`, `AttemptFails`, `DeliverFails`, `DeliverRefuses` |
| their results, `retryable`, `Enqueue` | `Delivered`, `GiveUp`, `Keep` |
| `useMailbox`, `depositMail`, the server's `Put` | `Deposit`, `MailboxPut`, `DepositFails`, `Mailed` |
| `flushOutbox` | `FlushStart`, `FlushExpired`, `FlushDeliver`, `FlushMail`, `FlushWait` |
| `handleStream` | `StreamArrives` (up to `markSeen`), `StreamHandsOver` (the `select`) |
| `serveIncoming` | `Record` |
| `fetchMail`, `openLetter`, `Deliver`, the server's `Fetch` and `Ack` | `MailboxFetch`, `OpenLetter`, `DeliverLetter`, `MailboxAck` |
| the server's `Expire`, `Remove`, `SetKey` | `LetterExpires`, `MailboxOff`, `MailboxOn`, `Moves` |
| `markSeen`'s `seenTTL` | `MarkExpires` |
| processes | `Start`, `Stop`, `SenderRestart`; `OneShotEnds` for `runAccountOp`, `runPortmap` |

Abstractions:

- Time.  A retry may fall due whenever a message is queued; `age` tells apart the
  two limits the code compares a message's age with (`mailboxGrace`,
  `outboxExpiry`); a mark expires when no copy is being handed over, as no stream
  lives for `seenTTL`.
- Paths.  Which address an attempt uses, and whether it goes through the relay,
  does not matter to what becomes of it: an attempt reaches the receiver or fails,
  at any moment, with its request still on the way.
- Letters are opened in any order (the server sorts them by second and then by
  a random ID) and fetched in one batch; sealing is reduced to whether the
  receiver refuses a letter, and to which device it is for.
- The receiver's mailbox is a set of `letters` and whether there is a key
  (`box`).  A letter also leaves it by age (`LetterExpires`: the server's
  `Expire` after `-mailbox-days`, 7 by default) and with the folder
  (`MailboxOff`: a login with the mailbox off, a deletion, the operator's switch).
  After a change of device (`Moves`) the letters there are kept for the old one
  and are not fetched (`stranded`), while a sender that had the old key in hand
  leaves one that the new device fetches and cannot open (`unreadable`).  A return
  to a former device, which would make its letters readable again, is left out.
- A letter grows too old when no call of `send` works on its message or an older
  one any more, and those in the outbox are over `mailboxGrace`: days against
  minutes.  Letters expire one by one.
- A request to the server is answered, or its answer is lost with the effect done.

`wiped`, `early`, `forgot` and `lapsed` are history variables; no action reads
them.  They name the four things that may go wrong with a message: it waited in
`MessageChan` when the process stopped, it was acknowledged as a duplicate of a
copy that then was not handed over, its mark was forgotten, the server let its
last letter go unfetched.

### Directory

Connections, each with one login or registration, as the client sends them
(`client.go`).  `step` is the point its request has reached: through the ban
check, through the account check, `session.user` set, in the map, answered.

| Code | Actions |
|---|---|
| `handleConn`, `endSession` | `Connect`, `Disconnect`, `Close`, `EndSession` |
| `login`, `LoginWithKey`, `LoginWithPassword` | `LoginBegins`, `KeyLogin`, `PasswordLogin`, `LoginFails` |
| `register`, `Create` | `RegisterBegins`, `Register` |
| `bind` | `BindUser` (under the session's lock), `BindSession` (under the server's), `BindAnswers` (`revokedKeys`) |
| `lookup`, `openRelay`, `mailboxTarget` | `Lookup`: they refresh the ban list |
| `deleteAccount`, `endAccount` | `OwnerChecks`, `OwnerDeletes`, `OwnerEnds` |
| the loop in `Serve` | `PollBans`, `KickBanned`, `Broadcast`, `DeletePending`, `EndPending`, `PollSleeps` |
| `tariond ban`, `unban`, `delete` | `Ban`, `Unban`, `RequestDeletion` |
| stopping and starting | `Restart` |

A goroutine that is to close a connection does so later (`closing`): `bind`
closes the older session after it released the lock, `endAccount` after a delay.

Abstractions: an account is the key it is linked to.  A password login that was
right has the effect of its last step, as `LoginWithPassword` fails if the
account changed since it was read; a failed one has none.  An edit of the ban
list always changes its modification time or size, and files are read and
written without errors.  The name and the key are the ones at the time of a
check.  A user is allowed one live request at a time, as the client behaves.

### Accounts and Mailboxes

`mem` is the map of accounts, `file` is `users.json`.  A request hashes or checks
a password without a lock between its first and its last action, and holds one
of `maxHashingAtOnce` slots meanwhile (`Hashing`, `SlotFree`).  A save succeeds
or fails (`Saved`, `SaveFails`); the map keeps the change in either case, as in
the code.

A registration whose save failed gives its invite back (`giveback`, `unsaved`)
while its account stays in memory; one whose account was saved may be stopped
before the answer (`unanswered`), and its invite stays spent.  `InviteInOnePlace`
counts both kinds: an invite makes one account that is saved, and no other but
those whose own save failed.

| Code | Actions |
|---|---|
| `LoadAccounts`, `importLegacy` | `AccountsInit` (any old `users.db` of at most `MaxLegacy` records), `Restart` |
| `register`, `Consume`, `Create`, `Restore` | `RegisterBegins`, `Consume`, `CreateHashes`, `CreateCommits`, `Restore` |
| `LoginWithKey`, `LoginWithPassword` | `KeyLogin`; `LoginChecks`, `LoginCommits` |
| `ChangePassword`, `CheckPassword`, `Delete` | `ChangeChecks`, `ChangeCommits`; `DeleteChecks`, `DeleteCommits` |
| `processDeletions`, `Request`, `Done` | `RequestDeletion`, `ProcessDeletion`, `DeletionDone` |
| `updateMailbox`, `SetKey`, `Remove` | `UpdateMailbox`, `OwnerRemoves`, `OperatorRemoves` |
| `mailboxTarget`, `mailboxPut`, `Put` | `PutBegins` (account and key looked up), `Put` (key and limits, under the store's lock) |
| `Fetch`, `Ack`, `Expire` | `Fetch`, `Ack`, `Age`, `Expire` |

`agreed` (the passwords an account's owner may take to be in force) and `owed`
(accounts confirmed to their owners) are history variables.  A hash is known by
the request that made it, for the code compares hashes, with their salt, to see
whether an account changed since it was read.  Bans, rate limits and the rules
for new passwords and names refuse a request before it has any effect.

`Registry` has accounts without hashes, slots or locks: a request is asked, takes
effect at one moment and is granted or refused.  `Promised` in `Accounts` maps
`mem` and `file` to the passwords and devices in them (`Entries`), a request's
step to what has become of it (`FateOf`).  `Registry` says plainly what the code
leaves open: a refused request may have taken effect unsaved, a deletion removes
whatever account has the name by then, a stop loses whatever waits.

### Relay

One pair of clients; `a` calls.  A tick is half a minute and passes between
calls, which take seconds.

| Code | Actions |
|---|---|
| `deliverMsg`, `relaySession`, `relayedRecently` | `Deliver`, `DirectArrives`, `DirectFails`, `Asked`, `AskFails`, `TimesOut`, `Answered` |
| `internal/relay` (`Allow`, `known`, `ReadFrom`, `WriteTo`) | `Allow`, `Known`, `Seen`, `Out` within `Asked`, `TakePush`, `TakePacket`, `Answered` |
| `openRelay`, `ServeRelay`, `sweepRelays` | `OpenRelay`, `ServeRelay`, `SweepRelays` |
| connections and processes | `LogIn`, `LoseConnection`, `Notice`, `NoticeServer`, `RestartClient`, `RestartServer`, `Lose` |

A packet stands for all packets of an attempt; QUIC sends it again once
(`Resend`, external).  The server's limits per address and on the whole refuse
at any time, as a fault.

### PortMapping

One client and its router (external).  `mapPort` takes one request at a time;
everything else may happen between two.

| Code | Actions |
|---|---|
| `mapPort` | `StartMap`, `MapRemoves`, `MapSets`, `MapTells`, `MapOpens`, `MapProbes`, `MapDrops` |
| `startPortMapping`, `runPortmap` | `LoopWaits`, `LoopReads`, `LoopRenews`; `UserAsks` |
| `SetPublicAddr` (its two halves), `advertise` | `SetsPublicAddr`, `Advertises` within `MapSets`, `MapTells` |
| `sendProbe` | `Reached` within `MapProbes` |
| `login`, `bind` | `LogInSends`, `LogInEnds`, `LinkLost` |
| `removeMapping`, `prepareExit`, `close` | `PrepareExit`, `ExitRemoves`, `Exits`, `Killed`, `Starts` |
| the router | `LeaseEnds`, `RouterRestarts` |

Whether a method finds the router, and which, is `MapOpens`'s choice; the
protocols (UPnP, NAT-PMP) are not modelled.  `AllOrNothing` speaks of attempts
that nothing disturbed; `upset` names what does disturb one.

### DirectoryClient

Devices of one user, each with the password and the server's key in memory and
in its file.

| Code | Actions |
|---|---|
| `NewClient`, `startNode`, `clientFlags.apply` | `StartsUp`, `StopsNow`, `UserGivesPassword`, `UserUnpins` |
| `dial`, `OnServerID` | `Dial` |
| `login`, `session`, `OnLoggedIn` | `LogInOnce`, `Register`, `LoggedIn`, `OnLoggedIn`, `ClosedForGood` |
| `Run` | `Breaks` and the return to `dial` |
| the server | `AccountDeleted`, `PasswordChanged`, `Reinstalled`; `Binds`, `Refused` within the login |

### Endpoint, Limiter

`Endpoint`: `BeginsSend`, `DialsNew`, `Caches`, `DialFails`, `DialsLate`,
`Verifies`, `VerifyRefuses`, `Acknowledged`, `StreamFails`, `Rejected` are the
steps of `SendMessage` around `conn` and `dropConn`; `Accepts` and `EndsServing`
those of `StartListener`; `Dies` and `Notices` are the network's (external).
`verify` looks at the certificate the connection was made with, dead or alive,
and a refusal ends the send; the other end's refusal (`Rejected`) needs a live
one.  A send is `brief` when its deadline is no longer than
`cachedAttemptTimeout`, and `late` when waiting on a cached connection has used
it up.  A connection has a state at each end,
and may be dead with neither knowing.

`Limiter`: `AllowN`, `Sweep`, and time in ticks of one token.  `TokenBuckets` is
what it promises; fractions of a token are left out.

### Vault

A file is a set of chunks, each plain or sealed with a key.  `Reseal` reads one
file after the other, writes its `.tmp` and renames it, in three steps, as do the
outbox and a first identity; a process may stop between any two and leave the
`.tmp` (`tmp`).  That of `vault.json`, which nothing reads, is left out, and a
`.tmp` is written as a whole or not at all.

| Code | Actions |
|---|---|
| `unlockData`, `turnOnProtection`, `NeedsSealing` | `Start`, `Unlock`, `Wrap` |
| `Reseal`, `writeFileAtomic` | `ResealReads`, `ResealWrites`, `ResealRenames` |
| `runProtect` | `ProtectOff`, `RemoveVault`, `SwitchProtector` |
| identity, histories, `dropped.log`, outbox | `NodeRuns`, `KeepsIdentity`, `AppendsLine`, `SendAppends`, `Loads`, `Saves`, `Saved` |
| any stop | `Stops` |

### Peers

`pins` is `peers.json`, in its order, for the code takes the first entry that
fits.  `ResolveIncoming` and `PinOutgoing` are one step each (they hold the
file's lock); `tarion forget` is another process, which reads (`ForgetReads`) and
writes (`ForgetWrites`).  `DeliverTo` looks a name up before, and `PinOutgoing`
pins it after, the handshake.  A name in use gets the mark of the key that
claims it.

### How they are composed

`Mailboxes` extends `Accounts`: logins, deletions, senders and sessions of both
interleave freely.  The other new modules share no state with each other, and
`MCParts` runs each of them behind a choice made at the start, so that one run
checks them all: its behaviours are those of each part, never a mixture.
Between modules, `Directory` reduces an account to its key, `Delivery` the
server's mailbox to the letters of one folder and the device each is for
(`Mailboxes` has the limits, and the requests that race for the folder) and an
address to whether an attempt arrives.  What `Delivery` leaves to chance, `Endpoint`, `Relay` and
`PortMapping` say more about.

## The checks

| Run | Properties | Shows | Bounds |
|---|---|---|---|
| `delivery_pair` | `TypeOK`, `NoSilentLoss`, `NoDuplicates` | two messages, each on a stream and in a letter at once, outbox full with one, filter full with one: results stay true, and only a mark thrown away lets a second copy through | 2 messages, 1 stream and 1 letter each, 1 mark, 1 outbox item, no faults |
| `delivery_faults` | `NoSilentLoss`, `NoDuplicates`, `LetterDeletedOnceTaken`, `PromiseKept`, `MailedArrives` | stops of either end at any point, expired marks, lost acknowledgements, one-shot commands, refusals, a mailbox removed and opened again, a change of device, letters too old; `Courier` is implemented; a mailed message does not stay on the server: it is filed or refused, or one of the named losses ends it, the server's expiry among them if nobody ever fetches it | 1 message, 2 streams and 2 letters but 3 of both, 2 faults |
| `delivery_outbox` | `OldestFirst`, `QueuedSettles` | passes over two queued messages: the oldest first, and each of them settles | 2 messages, no direct path, 1 letter each |
| `directory_sessions` | `TypeOK`, `NoOrphan`, `StaysOnline`, `BanHolds` | every order of logins, registrations, replacements, ends, deletions and bans | 2 names, 2 keys, 2 connections, 1 edit or restart |
| `directory_progress` | `PresenceEnds`, `DeletionDone` | sessions of ended connections leave the map; requested deletions happen, through restarts | 1 name, 1 key, 2 connections, 2 edits or restarts |
| `server_data` | `MailboxesTypeOK`, `InviteInOnePlace`, `PasswordInForce`, `ConfirmedIsOnDisk`, `NoLetterWithoutBox`, `RegistryKept`, `LettersGoRightly`, `LettersLeave` | two requests of any kind meet each other, a failed save, a stop or a deletion at every point, beside a sender of letters; `Registry` is implemented | 1 name, 2 keys, 2 passwords, 1 invite, 2 requests, 1 imported record, 1 fault, 1 sender of 2 letters; limits of 2 letters, 3 bytes, 1 letter a peer |
| `client_parts` | `PartsTypeOK` and, by part: `ReuseFindsSession`, `FreshSessionWorks`, `RelaysEnd` (`Relay`); `AllOrNothing`, `ForwardRepaired` (`PortMapping`); `OneServerTold`, `NotTakenBack`, `ClientSettles` (`DirectoryClient`); `NothingLeaks`, `StaleIsRetried` (`Endpoint`); `GrantsAsPromised` (`Limiter`); `KeyIsKept`, `NothingLost`, `SealedWhenReady` (`Vault`); `OneVoice` (`Peers`) | every race, fault and restart of each part | below |

Bounds of `client_parts`: `Relay` 1 session a user, times of 2 to 4 ticks (the
code's times in their order, shortened), 3 calls, 2 logins of each client, 1
fault; `PortMapping` 1 request of the user, 1 glitch, 2 processes;
`DirectoryClient` 2 devices, 3 events; `Endpoint` 2 senders with 3 sends, 3
connections, 1 place at the receiver, 2 deaths; `Limiter` 2 keys, a burst of 3,
requests of 1 and 2, 5 ticks; `Vault` 2 entries, 2 keys, 4 processes one after
the other; `Peers` 3 keys, 2 names, 5 steps.

Five more runs, one for each finding, are described
[below](#what-the-code-does-not-keep).

Why these bounds suffice. The races of `Delivery` are between copies of one
message (a stream and a letter, or two streams) and, for the channel, the filter
and the outbox, between two messages; `ChanCap`, `MaxSeen` and `MaxOutbox` are
100, 4096 and 500 in the code and 1 or 2 here so that each is full in most
states. Two faults allow a stop on top of an expired mark, a stop of both ends,
or a change of device on top of a removal. That the server deletes an old letter
no process can fetch is no fault and has no bound. `Directory` needs two
connections of one user to replace each other, a second name and key to tell a
ban of a name from one of a key, and one edit that falls between any two steps;
`MaxEdits` bounds bans, unbans, deletion requests and restarts together.

In `Accounts` whatever goes wrong does so between two requests on one name, with
a password or key each.  One name is enough because requests never look at two
accounts, while the map is locked and saved as a whole; the proofs hold for any
number of both.  The letters' limits are so low that the second letter meets each
of them.  In `Relay` three calls are one that opens a session, one that uses it
again and one after it was dropped.  `PortMapping` needs an attempt of the user
beside the loop's, and a life after the one that left a forward behind.  Two
devices take the account from each other, three events let it be deleted and
break a connection and a write.  `Endpoint` needs two senders to race for one
dial and a third connection for a retry.  Four processes in `Vault` are: seal,
stop halfway, go on, unseal.  Three keys in `Peers` are the pinned one, one that
claims its name and one that answers at its address.  The safety properties
hold without bounds, as [the proofs](#the-proofs) show.

Deadlock is checked in every run but `client_parts`: the sender that has no
message left may rest (`MCDelivery`), the server's loop never ends, and the data
of the server may rest only when every request is answered (`MCMailboxes`).  In
`client_parts` a part has nothing left to do when its bounds are used up.

Fairness. Every wait in `send` and `flushOutbox` ends by a timeout, the tickers
of `runOutbox` and `runMailbox` go on, a stream that was read is served by a
goroutine of its own: weak fairness for `SenderStep`, `FlushStep`, `FlushStart`,
`StreamHandsOver`, `MailStep`, `Record`. Time passes (`Grow`), one-shot commands
end, and the server's loop deletes old letters that no process can fetch
(`OldLetterExpires`), for then nothing else keeps them from growing old. No
fairness makes a user start the program or send, or a stream arrive; and none
makes a letter expire while a process can fetch it, which costs a fault. On the
server a request that was read is worked off, a connection that is to be closed
is, `handleConn` sees the end of its connection and the loop goes round; clients
and the operator need do nothing. Letters grow old and the loop expires them
(`DataFairness`); nobody need fetch. Time passes for the relay, the loop sweeps,
and calls have timeouts (`RelayFairness`). The requests of `mapPort` have
timeouts, its loop has a timer (`PortFairness`), and `Run` goes on until it is
told to stop (`KeepsSession`); what breaks does so a bounded number of times.

## What the code does not keep

Each of these runs checks one sentence of the documentation, and TLC finds a
behaviour of the code that breaks it (`findings` in `PROJECT.json` quotes it).

| Run | Property | What happens |
|---|---|---|
| `delivery_ack` | `AckedIsNotLost` | `handleStream` marks a message before `MessageChan` took it; a second copy is acknowledged as a duplicate, then the first is refused as busy |
| `delivery_stop` | `StopLosesNoLetter` | `fetchMail` acknowledges letters whose messages wait in `MessageChan`; the process stops |
| `directory_ghost` | `OnlineIsConnected` | `endSession` runs before `bind`: a user without a connection stays listed |
| `directory_swallow` | `BannedLeaves` | a login's or lookup's check refreshes the ban list; the loop sees no change and disconnects nobody |
| `directory_deleted` | `OnlineHasAccount` | a deletion passes between a login's account check and `bind`: a user without an account is online |

A login past its ban check when the entry is added escapes the loop as well;
`BannedLeaves` leaves it aside (`late`), `BanHolds` shows that there is no other
way in.

Further sentences that the models do not keep are stated in the modules as
properties, without a run of their own.  TLC finds each broken in seconds when it
is put in place of the properties of `delivery_faults`, `server_data` or
`client_parts` (`CodeWorksOnce` with two names):

| Module, property | Sentence | What happens |
|---|---|---|
| `Delivery`, `OneShotLeavesNothing` | README.md:26 | a command with a node of its own (`runAccountOp`, main.go:2116, and `runPortmap`) acknowledges a message that nobody reads |
| `Accounts`, `CodeWorksOnce` | server/README.md:60: "Each code works exactly once" | `Create` fails to save: the account stays in memory, the code is given back and makes another account, and the next save writes both |
| `Endpoint`, `RedialHasTime` | quic.go:38: "so the fresh attempt still has most of the deadline" | an attempt of 3 s (a LAN candidate, a relay session used before: main.go:846, 880) waits as long on a dead cached connection, and the redial fails at once |
| `Vault`, `NoPlainLeftOver` | README.md:209: "encrypted on disk" | `protect off` stops between the write of `identity.key.tmp` and its rename (peers.go:73): later nodes run with the plain key beside the sealed one, which `NeedsSealing` does not look at |
| `Accounts`, `DeletionTakesEffect` | server/README: "takes effect within about 2 seconds" | `Delete` fails to save; the next turn of the loop finds no account in memory and drops the request, and after a restart the account is back |
| `PortMapping`, `RemovedOnExit` | README.md:255 | the process ends between `Open` and `setPort` (main.go:709): nobody removes the forward |
| `PortMapping`, `GivenOutIsKept` | README.md:255 | the announcement's request breaks with the connection, the forward is dropped, but `publicAddr` stays and the next login announces it |
| `Vault`, `OffStaysOff` | protect.go:154 | without `TARION_NO_AUTO_PROTECT`, `unlockData` turns protection on again at the next start on Windows |

Seen while modelling, without a property:

- A cached connection whose certificate is not the one wanted ends the send
  without a second attempt, also when it is dead and the contact has moved
  (`StaleIsRetried` speaks of sends past that check).
- A sender is told `mailed` and never hears of a letter that grew too old, went
  with its folder, or was kept for a device no longer used (README.md:282-284 says
  as much; `NoSilentLoss` names the causes).
- A retry after its mark expired is filed a second time (`NoDuplicates` names the
  cause).  A pass that mails a message goes on to the contact's later ones and
  may deliver them first.  Of two logins at once the one bound last wins, which
  need not be the newer one.
- `CheckPassword` and `Delete` are two steps: an account deleted and made again in
  between is deleted by its former owner's request.
- After a failed save the map has what the file has not.  A login that repeats the
  one that failed finds its device linked already and is granted without a save
  (`changed` in accounts.go:265-272); so is one to an account whose `Create` failed
  to save.  A restart before the next save takes back what it was granted on
  (`Passes` in `Registry`).
- `SetPublicAddr` beside a login that has already read the old address: the
  session keeps the old one.  `removeMapping` without a connection leaves
  `publicAddr`.  A renewal does not look at a changed external address.
- With two processes that write at once (`Proc = {1, 2}`) `Vault` does not keep
  `KeyIsKept`, `NothingLost` and `SealedWhenReady`: the comment on `Reseal`
  (sealed.go:104-105) asks that nothing else writes, `tarion send` appends plain
  lines beside a node, and two first starts make two keys.  Where whoever rewrites
  the files is alone with them, they hold ([below](#the-proofs)).
- On Windows without a vault, `tarion protect off` turns protection on first.
- A name forgotten during a delivery can be pinned twice under the same mark, and
  `tarion forget` beside a running node drops what the node pinned meanwhile
  (`OneVoice` names the cause, `dropped`).
- Two first sends to one address: the second's dial closes the first's
  connection, whose message then fails without a retry (`StaleIsRetried` names
  the cause, `marred`).
- `probeLimit` and `relayTotal` are missing from the limiters that are swept
  (server.go:205).  `SaveConfig` does not write through a rename.

## The proofs

`tlapm M.tla` checks the eight modules of proofs.  Every safety property a run
checks is stated by a theorem.  They hold for all values of the constants that
satisfy the assumptions of the modules:

- `ConstantsAssumption`: a message, a channel, a mark and an outbox item at least.
- `DirectoryAssumption`: `None` is no name, key or connection, no name is a key.
- `AccountsAssumption`, `MailboxesAssumption`, `NoneIsNoAccount`: `None` is no
  name, key, password, code or account; slots and limits at least one.
  `NoneIsNoEntry`: nor an account as `Registry` sees it.
- `EndpointAssumption`: a connection may be dialed and served.
- `LimiterAssumption`: a burst and requests of at least one, `Absent` is no key.
- `RelayAssumption`: the order of the code's times, `relaySessionTTL` (90 seconds)
  below `relayIdle` (two minutes) and below `relayMemory`, `relayIdle` below the
  socket's `sessionIdle`; a session, a message and a login at least.
- `PortMappingAssumption`: a process at least.  `ClientAssumption`: `Nobody` is no
  device.  `PeersAssumption`: finitely many keys, `NoKey` is none, a name at least.

All bounds on what happens are numbers, otherwise free.

Three theorems about `Vault` have a hypothesis as well, `[]RewritesAlone`: while a
process makes the first key or seals, unseals or seals again the files, every
other has not unlocked them yet or is done with them; and no two replace the
outbox, or make the first identity, at once.  It is what `Reseal` asks for
(sealed.go:104-105, "Nothing else may write these files meanwhile") and little
more: any number of nodes and one-shot commands may append to the files and read
them side by side.  Without
it the properties are false ([above](#what-the-code-does-not-keep)).  It asks
nothing of a single process (`OneIsAlone`), as in `client_parts`; TLC checked the
invariant and the three properties with two processes under it as well.

| Theorem | States |
|---|---|
| `DeliveryProofs!TypeCorrect` | `Spec => []TypeOK` |
| `DeliveryProofs!NothingLostSilently` | `Spec => []NoSilentLoss` |
| `DeliveryProofs!DeletedOnceTaken` | `Spec => LetterDeletedOnceTaken` |
| `DeliveryProofs!KeepsPromise` | `Spec => PromiseKept`: `Delivery` implements `Courier` |
| `DeliveryProofs!OldestGoesFirst` | `Spec => []OldestFirst` |
| `DeliveryProofs!NoneFiledTwice` | `Spec => []NoDuplicates` |
| `DirectoryProofs!TypeCorrect` | `Spec => []TypeOK` |
| `DirectoryProofs!NoClientForgotten` | `Spec => []NoOrphan` |
| `DirectoryProofs!StaysOnlineWhileOpen` | `Spec => StaysOnline` |
| `DirectoryProofs!BansHold` | `Spec => BanHolds` |
| `MailboxesProofs!TypeCorrect` | `DataSpec => []MailboxesTypeOK` |
| `MailboxesProofs!InviteOnce` | `DataSpec => []InviteInOnePlace` |
| `MailboxesProofs!PasswordHolds` | `DataSpec => []PasswordInForce` |
| `MailboxesProofs!ConfirmedKept` | `DataSpec => []ConfirmedIsOnDisk` |
| `MailboxesProofs!NoneStranded` | `DataSpec => []NoLetterWithoutBox` |
| `MailboxesProofs!OnlyItsOwner` | `DataSpec => ChangedByItsOwner` |
| `MailboxesProofs!LettersGo` | `DataSpec => LettersGoRightly` |
| `MailboxesProofs!RegistryImplemented` | `DataSpec => RegistryKept`: `Accounts` implements `Registry` |
| `NetworkProofs!EndpointTypes` | `EndpointSpec => []EndpointTypeOK`: the receiver's cap among it |
| `NetworkProofs!NoneForgotten` | `EndpointSpec => []NothingLeaks` |
| `NetworkProofs!StaleRetried` | `EndpointSpec => StaleIsRetried` |
| `NetworkProofs!LimiterTypes` | `LimiterSpec => []LimiterTypeOK` |
| `NetworkProofs!GrantsRight` | `LimiterSpec => GrantsAsPromised`: `Limiter` implements `TokenBuckets` |
| `ClientProofs!ClientTypes` | `ClientSpec => []ClientTypeOK` |
| `ClientProofs!OneTold` | `ClientSpec => []OneServerTold` |
| `ClientProofs!NoneTakenBack` | `ClientSpec => NotTakenBack` |
| `ClientProofs!PortTypes` | `PortSpec => []PortTypeOK` |
| `ClientProofs!AllAgree` | `PortSpec => []AllOrNothing` |
| `ClientProofs!RelayTypes` | `RelaySpec => []RelayTypeOK` |
| `ClientProofs!ReuseFinds` | `RelaySpec => ReuseFindsSession` |
| `ClientProofs!FreshWorks` | `RelaySpec => FreshSessionWorks` |
| `VaultProofs!VaultTypes` | `VaultSpec => []VaultTypeOK` |
| `VaultProofs!KeyKept` | `VaultSpec /\ []RewritesAlone => []KeyIsKept` |
| `VaultProofs!NoneLost` | `VaultSpec /\ []RewritesAlone => NothingLost` |
| `VaultProofs!ReadySealed` | `VaultSpec /\ []RewritesAlone => SealedWhenReady` |
| `PeersProofs!PeersTypes` | `PeersSpec => []PeersTypeOK` |
| `PeersProofs!VoicesOne` | `PeersSpec => []OneVoice` |
| `PartsProofs!EachPart` | `MCSpec` implies the specification of each part |
| `PartsProofs!PartsTyped` | `MCSpec => []PartsTypeOK` |
| `PartsProofs!PartsPromise` | `MCSpec` implies the safety properties of `client_parts`, those of `Vault` under `[]RewritesAlone` |

*Delivery.*  `NoSilentLoss` speaks of the result; `IInv` follows a message to it.
A mark stands for a message that was taken or is being handed over
(`SeenTaken`), so an acknowledgement, given for a mark or for a place in the
channel, is for a taken message (`AcksTaken`; a duplicate acknowledged too early
counts through `early`), so is a call that read it (`CallsTaken`), and a letter
about to be acknowledged is for a taken or refused one (`DoneTaken`).  A mailed
message has a letter, or is taken or refused, or its last letter was let go
(`Kept`): what the server deletes by itself, `lapsed` remembers until another
letter of the message is stored.  `Unopened`
and `AwaitsStream` tie the streams to the attempts counted.  Lemmas such as
`TakenCases` and `StreamCases` state once what a step can do to one part of the
state; `TakenGrows` says that taken messages stay taken.

For the refinement the abstract variables are `has = {m : Taken(m)}`,
`box = {m : HasLetter(m)}`, `gone = refused` and `lapsed`.  `InHand` (a call works on a
message whose result is open; the outbox holds queued ones) makes results final,
`Unsent` (no stream and no letter before the user sends) makes every arrival one
of a message that was sent.  Each action then is one of `Courier`'s or changes
nothing it sees; `MailboxAck`, which deletes a batch, is `Discard` by
`DoneTaken`; `LetterExpires` and `MailboxOff` are `Lapse` of the messages that lose
their last letter.

`OldestFirst` needs to know of a pass (`PassHolds`): of the items it read, those
left in the outbox are in what it still has to do, unless it is over.  `NoDuplicates`
rests on `FilterSound`: unless the filter forgot a message, at most one copy of it
is being handed over, and then it is marked; once it has arrived it stays marked
and no copy is in hand.  A second copy that finds the mark is turned away, and one
that does not is the only one.  The lemmas `FiledIs`, `FiledEnqueued`, `FiledMoved`
and `FiledStopped` say what each step does to the sequence of filed and waiting
messages.

*Directory.*  A login sets `session.user` and the map in different steps.
`Asked`, `UserSet` and `MapSet` say what it has set by which step, which makes
`NoOrphan` inductive; `Checked` says that a login still on its way was checked
against the list as it is now, or began before an entry was added.  `Proceeds`
says what one step can do to one connection, `Remapped` what it can do to one
name; every part of the invariant follows from these two.

*Accounts and Mailboxes.*  `IInv` has five parts.  `Requests`: a request carries
what its kind needs, and a login or change that hashes knows the password of the
account it read (`Shaped`).  Since the map is changed only if the hash is still
that one, `PasswordInForce` and `ChangedByItsOwner` follow.  `AccountsSound`: what
a confirmed owner is owed is in memory as well as in the file (`OwedThere`), for
a later save writes the map as a whole.  `OneHolder`: a code that is unused is in
no request's hands, and no two requests hold or spent the same one;
`OneHolderCounts` makes it a statement of cardinalities.  `HashesMade`: an account
with a registration's hash is there only when that registration has committed
(`Commits`), with a save or without one, so that `InviteOnce` speaks of every
account in memory or on disk and not only of answers.  `BoxesSound`: a letter
in a folder has a key there, and what a session has fetched is sealed to its
device (`HandMine`), so that what it acknowledges is its own.  Each part is
preserved by lemmas of its own, one per group of actions.

`Registry` is implemented step by step.  A request takes effect when it changes
the map under the lock; everything before is `Asks` or a stutter, everything after
a stutter.  That it is the account as it is *then* which a login or change acts
on is `KnowsPassword`: the hash it checked, still there, is one of the password it
carries.  `EntryMade`, `EntryGone` and `GoBecomes` say what the registry sees of a
change of the map and of a request's step; each action has a lemma that names the
action of `Registry` it is (`CreateSeen`, `LoginSeen`, `RestartSeen`, ...).
`ChangedByItsOwner` is the part of it that speaks of hashes; it is proved
(`OnlyItsOwner`) and has no run of its own.

*Endpoint.*  `Fresh` (what was not dialed is unused), `InHand` (a sender has a
connection where it needs one) and `SentOnCached` (one that is sent on and open
is the one in the cache) make `NothingLeaks` inductive; `Spoilt` says why a
connection is of no more use, which is what `StaleIsRetried` asks, and `InHand`
that only a second attempt with a brief deadline is ever late; `CountIsServed`
ties the receiver's count to the connections it serves.

*Limiter.*  The refinement maps `level[k]` to `Looked(k)`, the tokens a request
would find: a sweep changes none of them, for a full bucket and none are the
same, and a tick adds one to each that is not full.

*DirectoryClient.*  `OneServerTold` needs that the pin in memory is the one in the
file, and the only key a login was sent to (`PinKept`); a login is sent only past
a handshake that compared it.  `NotTakenBack` needs that a device that was logged
in has no password in memory nor in its file (`PasswordGone`): without one it can
neither register nor move an account.

*PortMapping.*  `AllOrNothing` is about the end of an attempt, and the four places
change one after the other.  `Undisturbed` says by stage which of them have the
address already; `GoneLeavesNothing` says that a new process finds nothing of the
one before, unless that was disturbed; `PortSound` is what holds through every
disturbance, from which the other two start again.

*Relay.*  For `ReuseFindsSession`, a session in the table was used as recently as
the caller remembers (`UsedAsRemembered`): a packet that reaches the caller was
passed on by the server, which notes the time, at once.  The caller's memory ends
before the table's (`TTL < RelayIdle`), so what it would use is not swept.
`FreshSessionWorks` needs `AttemptSound`: while nothing hit the attempt, its
session is in the table for the logins both clients have now, and the callee knows
it or is about to; after the second sending one packet is on its way that no hop
turns away.  That is so because sessions have numbers (`Numbered`, `OncePerCall`):
what old sessions the sockets remember is of another number.

*Vault.*  `ResealSound` describes a sealing halfway: the files behind it have the
new key, those before it can be read with the old one, `vault.json` has both, and
the buffer is what its file holds.  `ProcSound` adds what a process knows of the
`.tmp` it is about to rename, and what one that is not sealing knows: that its key
is the vault's, and that nothing is sealed when it removes the vault.  What a stop
left in another `.tmp` matters to nobody, since a `.tmp` is written before it is
renamed.  What the others know has to survive the step of one:
`OthersKeep` says that it does, for by `RewritesAlone` a step that changes a file
or a key meets only processes that know nothing yet or any more (`WaitsOrDone`),
and one that appends to a file changes nothing the others rely on (`KeepsKey`).
Types need none of this (`TypedStep`).

*Peers.*  A key is in the list once (`KeysOnce`), and so is a name without a mark
(`NamesOnce`), also in the list that `tarion forget` has read, for it will write it
back.  `VoicesPinned` ties the keys heard under such a name to its one pin.

*The composition.*  A step of `MCParts` is a step of one part and leaves the
others alone, so its behaviours are behaviours of every part (`EachPart`), and
what is proved of the parts holds of it.

Each inductive invariant was checked by TLC, on the bounds of the component's run,
before it was proved.

Only model-checked: all liveness (`QueuedSettles`, `MailedArrives`,
`PresenceEnds`, `DeletionDone`, `LettersLeave`, `RelaysEnd`, `ForwardRepaired`,
`ClientSettles`), which is out of the prover's reach, as is ENABLED.  Every safety
property of the passing runs is a theorem.

## What is not modelled

- Cryptography, TLS, framing (`identity`, `wire`, sealing): a peer has the key it
  proves, a message arrives whole.
- The control interface: a hub copies events to whoever listens and drops them
  for a slow listener by design; no state of the protocol.  Terminal, flags,
  server start-up, firewall, process control: input and output.
- Of the endpoint: `SendPunch` and `Close` of the listener.  Of the directory
  client: lookups, the list of users a push brings, `Punch`.  Of the server:
  the answers of `list`, the limits on connections and handshakes (`admit`,
  `release`), rules for names and passwords; rate limits where they refuse a
  request before it has any effect.
- UPnP and NAT-PMP as protocols: whether a port is forwarded is a choice.
- Errors of files other than `users.json` and the client's configuration: the
  outbox (`RemoveOutbox`'s error is ignored by the code), letters, `peers.json`,
  sealed files; `fetchMail`'s paging.
- In `Delivery` the return of an account to a former device; the limits of the
  mailbox store, which `Mailboxes` has.
- `Vault` is checked for one process at a time (the proofs allow more), without a
  `.tmp` written by halves and that of `vault.json`; `Peers` without
  the addresses in the file; `Limiter` without fractions of a token.

## The plan

The components that keep state of the protocol have modules, and their safety
properties are proved.  What is left:

1. The errors of the outbox file; `admit` and `release` of the server.
2. A refinement of `Delivery`'s direct attempts by `Endpoint` and `Relay`.
