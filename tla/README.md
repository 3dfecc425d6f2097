# PassVault in TLA+

PassVault keeps one encrypted `.kdbx` file in step between a person's devices,
without a server that sees it. Each device stores every version of the file as a
*revision* in a DAG, devices exchange missing revisions over WebRTC, and a head
per vault says which revision is current. This directory models the parts of
that program whose correctness depends on order, concurrency and failure, checks
them with TLC, and proves the central ones with TLAPS.

Paths below are relative to `src/`.

## The system

| Component | State | Operations | Hard behaviour |
|---|---|---|---|
| Revision graph `packages/core/src/dag.ts` | none (pure) | ancestry, merge base, divergence verdict, request list, summary validation | partial, cyclic and criss-cross graphs |
| Lineage and heads `core/src/lineage.ts`, `revisions.ts` | none (pure) | which parents and which head a revision gets | - |
| Blob store `storage-node/src/blobStore.ts` | content-addressed files | put, get | crash between write and rename |
| Metadata store `storage-sql/src/sqliteMetadataStore.ts` | vaults, revisions, parents, head log, conflicts, devices | save, load, transaction | statements outside a transaction, joined transactions |
| Sync engine `sync/src/engine.ts` | none of its own | import, record, ingest, merge, promote, fast-forward, adopt | everything it read before a blob read or write is old afterwards |
| Sync session `sync/src/session.ts`, `controlInbox.ts` | one object per session | handshake, summaries, transfer, verdict | two streams, timeouts, a link that dies, saves in the middle |
| Link hub and bridge `transport/src` | links, held frames, sockets, connections | create, deliver, close, join, negotiate | frames that do not say which session they are of; a new hello against a session that is finishing |
| Application services `services/src/vaultServices.ts` | active vault, sessions in flight, watcher, pairing | run a session, resolve a conflict, combine, write back | the watcher, sessions and the person share the head and the file |
| Vault file `storage-node/src/vaultFile.ts` | watcher timers, the file | watch, read with retry, atomic write | echoes of its own writes, late reads |
| Trust and pairing `identity/src`, `services` | pinned keys, remembered rooms, the pending prompt | pair, verify, disconnect, forget | a prompt in the middle of a handshake, several peers at once |
| Conflicts `core/src/conflicts.ts`, `services` | open conflict rows | open, keep, switch, combine | rows that grow old, three devices that meet in pairs |
| Signaling server `apps/signaling` | rooms, short codes, rate limits | create, join, leave, relay, issue, redeem, sweep | a stale leave after a reconnect, expiry, caps |
| Android storage `apps/mobile` | database image in memory, app files, identity | flush, atomic write | kill inside the debounce window or between delete and rename |
| Interface `ui/src/App.tsx` | pairing mode, the session it waits for | run a sync, pair, rejoin, decide | its own idea of what is under way |
| KDBX codec, layout, build | - | decrypt, merge entries, draw | data transformation and presentation |

What makes each of them correct:

- revision graph: ancestry is reachability, verdicts on two devices mirror each
  other, a request list can be served and installs the peer's head;
- engine and stores: no row without its bytes or its parents, an acyclic history
  that only grows, a head that is one of its revisions, through any interleaving
  and crash;
- session: a device keeps a complete history however the session ends, never goes
  to an older head, both sides agree on the outcome, and every session ends;
- vault file and services: every save becomes a revision, the file follows the
  head, a write-back never puts another vault's versions into a file, nothing unrecorded
  is overwritten;
- bridge and signaling: a joined device is in its room, nobody meets itself, a code
  that can be redeemed has its room, two devices that are there connect;
- link hub: a hello to a free device is heard, and sessions do not breed;
- trust: only a person pins a key, a prompt and the handshake behind it go
  together, a forgotten device leaves nothing behind;
- conflicts: no session drops a change from the version in use, and somebody who
  combines what is offered brings every device to all changes;
- Android storage: no surviving row without its bytes, no older image over a newer
  one, changes reach the disk, the identity stays.

The engine calls the stores; a session calls the engine and talks to the peer's
session over a link; the services start sessions, feed the watcher's events to
the engine and act on verdicts. Everything on a device runs on one event loop,
so the concurrency is that of awaits.

**Grain of atomicity.** The SQLite store is synchronous behind its `async`
interface. A stretch of code that awaits only metadata calls therefore runs in
one turn of the event loop, and is one action. An operation is split exactly
where it waits for something real: blob reads and writes, key derivation and
decryption, the network, timers, the person. What it read before such a wait is
kept in its local variables and used after it, as in the code.

## Modules

| Module | Models |
|---|---|
| `RevisionDag` | `dag.ts`: ancestors, merge base, divergence, graph union; reference definitions (`Ancestry`, `Acyclic`) |
| `RevisionOrder` | `dag.ts`: the parents-first walk with its cycle assertion, `missingRevisions`, `validateRemoteGraph`; their reference definitions |
| `Summaries` | a peer's history summary, one node at a time; in each state the algorithms against their references |
| `MCRevisionDag` | `Summaries` for TLC |
| `RevisionHistory` | abstract specification of the metadata store: complete revisions appended one by one, heads that name them |
| `SyncEngine` | one device: the engine over both stores, any number of operations in flight, crashes |
| `SyncEngineProofs` | the theorems about `SyncEngine` |
| `MCSyncEngine` | a vault, a peer that extends this device's first revision |
| `AncestryProofs` | the theorems about `RevisionDag`, `RevisionOrder` and `Summaries`, and what the proofs about graphs share |
| `SyncSession` | two devices, one session each, over a control and a bulk stream |
| `SyncSessionProofs` | the theorems about `SyncSession` |
| `MCSyncSession` | a forked history and every standing of two devices towards it |
| `VaultFile` | one desktop's password file: editor, watcher, write-back, sessions as the file sees them, which file is tracked, restart |
| `VaultFileProofs` | the theorems about `VaultFile` |
| `MCVaultFile` | one file with two saves, two files, or no file yet |
| `Conflicts` | several devices: verdicts, conflict rows, decisions, the combined version; uses `RevisionDag` |
| `ConflictsProofs` | the theorems about `Conflicts` |
| `MCConflicts` | three devices in a row |
| `LinkHub` | session after session over one pair of channels: the hub, the session slots and how a session waits |
| `LinkHubProofs` | the theorems about `LinkHub` |
| `MCLinkHub` | two devices, three requests |
| `Pairing` | one device's way to trust: codes, rooms, prompts, pinned keys, the device list, and the interface that drives them |
| `PairingProofs` | the theorems about `Pairing`, `Rendezvous` and `Meeting` |
| `MCPairing` | two other devices over two connections |
| `Rendezvous` | the signaling room, its WebSockets and every device's bridge, up to open data channels |
| `MCRendezvous` | two paired devices |
| `Signaling` | the server's memory: rooms and short codes with their ages and limits |
| `Meeting` | `Rendezvous` and `Signaling` composed, from the pairing code to open channels |
| `MCMeeting` | a host, a guest, and strangers who fill the server |
| `AppStorage` | what a phone keeps: database image, revision bytes, identity |
| `AppStorageProofs` | the theorems about `AppStorage` |
| `MCAppStorage` | one revision stored by two operations, one setting |

No module is RECURSIVE; recursion is written as functions over `Nat`.

### SyncEngine

`blobs`, `revisions`, `head` and `logged` are the disk: blob files renamed into
place, rows of `revisions` with their `revision_parents`, `vaults.head_revision_id`
and the newest row of `head_events`. `task` holds the local variables of each
operation in flight. An operation is a chain of actions: `RecordLocalChange`
(read the head, compare hashes), `PutBlob`, `SaveLocalChange` (the transaction);
likewise import, ingest, and merge, which also waits for its inputs to be read
and decrypted (`StartMerge`, `MergeSucceeds`). `Fail` ends one at any wait.
`Promote`, `FastForward` and `AdoptVault` are one turn each. `Crash` forgets the
tasks; `CrashInSave` dies inside a `saveRevision` that no transaction covers.
Received revisions come from `PeerRevisions`, a constant that describes what the
peers hold.

### SyncSession

`store` is what each device keeps, `session` the `SyncSession` object and where
its code waits, `ctl` and `bulk` the two ordered streams. A phase that waits in
`inbox.expect` is named after the message it expects. A control message is
received only when the code released by an earlier one has run to its next
wait (`CanReceive`), since the continuation of a resolved promise precedes the
next delivery. `Conclude` is the end of `run` together with the fast-forward or
conflict of `runSession`, which follow in the same turn. Faults are switched on
by `Faults`: spontaneous timeouts, a closing link, a refused pairing, a failing
ingest, an unreadable blob. `parseMessage` refuses a summary or a request longer
than `MaxNodes`, the one way an honest peer's message fails to parse. The skip of
an unheld revision in `serve` is kept and shown unreachable
(`TransfersCompletable`). Left out: messages no peer running this code sends (oversized chunks,
`transfer-cancel`, malformed text). Two devices start with any stores whose
revisions come with their history and contain the head (`SessionAssumption`), which
is what the engine guarantees (`ParentsStored`, `HeadsNameRevisions`). With unrelated
histories `runSession` does nothing, so a session may end well although storing the
peer's head failed: `DoneMeansCaughtUp` says nothing of that verdict.
Backpressure and the next session over the same link are in `LinkHub`.

### VaultFile

`disk` and `locked` are the editor's side, `vaults`, `recorded`, `head` and
`bound` the database, `active` the tracked vault (in memory and in the settings
table), `watchers` every `VaultFileWatcher` of this run of the program, for a
stopped one may still be delivering. A write-back is a task that takes the
vault and its head with it and waits at the read, the lock check, the blob read,
the second lock check, the temporary file and the rename; `tracked` tells
`materializeCurrentVersion`, which clears the held-back flag, from `writeBack`,
which does not. `user` is the operation that changes what is tracked; the
interface runs one at a time. One session runs at a time; it begins with the
vault that is active or with none, adopts, and ends with a fast-forward (only
over something that was recorded before it began), with anything else, or badly.
`Uses` switches operations on; `Setups` says whether the device starts with a
tracked file or with none. A vault is named after its
path, and equal bytes are one content. Left out: deletion of the file by its
owner, I/O errors, a second path for one vault, Android, which has no watcher.

### Rendezvous

`sockets` are all WebSockets so far, each with its two queues and what each end
knows (`link` is the network and the client's side, `served` the server's);
`seat` is the map of the one room the devices share. `socket`, `wants`, `retry`,
`conn` and `ready` are the fields of each bridge. `Connect`, `Disconnect`,
`ClientNotices` and `Retry` are its methods and timers, `OnJoined` to `OnAnswer`
the branches of `handleSignal` and `applySignal`, `ServeJoin`, `ServeSignal` and
`ServeClose` the server's handlers. `late` is a history variable: it marks a join
served while an earlier socket of the same device was still open at the server,
and `EndsSeenInTime` says that there was none. WebRTC is
external: two connections open their channels once each has the other's
description; an offer that meets an offer may be rejected or roll ours back.
Left out: ICE candidates, a second join over one socket.

### Signaling and Meeting

`Signaling` has the two registries as values and their methods as operators:
`rooms` with members and age, `codes` by the room they lead to. Every method that
sweeps first does so here. `Meeting` extends both it and `Rendezvous`: its actions
are the HTTP requests of a host and a guest (each side's request is a step, since
it waits for the network), the actions of `Rendezvous` for one room with the
registry updated in the same step, `JoinRefused` where the registry throws, and
`FiveMinutes`. `CodeHasRoom` also checks that the two views of the room,
sockets and registry, never part.

### LinkHub

A session is its id, the phase it waits in, and the frames handed to it. What it
says is reduced to seven messages, but not how it waits: hello, auth, summary and
wants can fail by a timeout, an error or the end of the link, the transfer notices
none of them, the last message has a timeout only, and after `run` the files are
written (`wrapping`) before `runSession` gives its slot up. `link`, `waiting` and
`inFlight` are `links`, `waiting` and `sessionsInFlight`. `missed` marks a hello
that came to a session past its own.

### Pairing

One device runs this code; the others connect, greet and leave as they like.
`peerOf`, `online`, `room` are the bridge and `livePeers`; `making`, `uiPairing`,
`syncing` and `rejoined` the interface; `window`, `pending`, `session` and `prompt`
the services; `screen` the number the interface shows; `trust` and `meetAt` the tables.
`screen` follows `prompt` in a step of its own (`ShowSnapshot`), since snapshots are
pushed over IPC, and the answer is a bare yes or no that the services apply to the
prompt of the moment it arrives (`Answerable`): an answer under way is a screen that is
behind. A session is `hello` until the
verdict, `prompt` while a person is asked, `sync` after that. `End` is the `finally`
of `runSession` with what it does to a prompt that is not its own.

### Conflicts

`dag` is all revisions ever made, `held` and `head` what each device has. A session
keeps the heads it began with and ends separately on either side, so saves,
decisions and other sessions fall in between. `combining` is the wait for the
decryption. What a person can press follows the snapshot's conditions
(`canCombine`, `CardShown`).

### AppStorage

`db` is the database in memory, `writing` the chain of exported images, `file` and
`part` the files and their `.part` neighbours, `op` where each `writeAppFileAtomic`
is. Every call of the Filesystem plugin is a step; `Kill` may fall between any two.
A revision's row is written in a transaction (`CommitRow`, flushed at once) or
alone (`SaveRow`, flushed by the timer).

## Runs

| Run | Shows |
|---|---|
| `dag` (MCRevisionDag.cfg) | On every small history, complete or partial, the ancestry functions compute reachability, maximal common ancestors and mirror-image verdicts; on every small summary a peer could send, cycles and duplicates included, it is refused exactly when it should be, what is requested can be served and installs the peer's head. |
| `engine` (MCSyncEngine.cfg) | Two engine operations in flight at once, with crashes at every wait, keep the stored history sound and implement the abstract history. |
| `session` (MCSyncSession.cfg) | Two devices in any standing towards each other, one with a history at the parser's limit, with refusals, timeouts, a dying link, failing disks and a save in the middle: what a session leaves behind is always a complete history and never an older head, both sides agree, and it ends unless its link or its peer was lost. |
| `vault_file` (MCVaultFile.cfg) | One file or none yet, its watcher, a write-back, sessions, restores and the person's own writes: at rest, what is on disk has been recorded and is the current version or an update is known to wait, and such an update does not wait for ever once the file is closed. One write-back at a time; the editor opens the file in none of the millisecond windows of InGap. |
| `vault_switch` (MCVaultFileSwitch.cfg) | Two files, bound, stopped, reopened and restarted while write-backs are under way: a write-back puts only versions of a file's own vault into it, the only way from a file to another vault is a delivery read before the vault was changed, and the tracked file is watched. |
| `vault_discard` (MCVaultFileDiscard.cfg) | **violated.** A save made just before a fast-forward is written back, and not yet reported by the watcher, is overwritten without ever having been recorded. |
| `rendezvous` (MCRendezvous.cfg) | Sockets that break, hang up, overlap and are replaced, a server that restarts and connections that fail: the room never lists a socket the server has closed; as long as the server sees every end before the device's next join, a joined device is in the room and never meets itself. |
| `meeting` (MCMeeting.cfg) | From a pairing code to open channels, over the server's rooms and codes with their ages and limits: a code that can be redeemed has its room, and two devices that were told of the room, go to it once each and stay end up connected, however their requests, joins and offers cross, unless the server was full. |
| `hub` (MCLinkHub.cfg) | Session after session over one link, with stale frames, lost links, refusals and a full queue: links and held frames belong to the right session, a hello to a free device is never lost, and sessions do not breed. |
| `pairing` (MCPairing.cfg) | Two other devices connect, greet, drop and return while codes are shown and read and the device list is edited: a prompt and the handshake behind it go together, a session pins a key only by an answer and never takes it from a device that still waits for its own, and no handshake waits for ever. The screen may be behind the services. |
| `app_storage` (MCAppStorage.cfg) | On a phone that may be killed at any step, whose disk may refuse writes and whose key may be lost: no surviving database names bytes that are missing, images are put in place in order, changes reach the disk, and the identity stays. |
| `conflicts` (MCConflicts.cfg) | Three devices in a row save, meet and decide: open conflicts are forks and listed once, no session or combination drops a change from the version in use, and if the owner of the middle device combines what is offered, all end up with every save. |

Bounds, and why they are enough:

- `dag`: up to 5 ids whose nodes are announced after their parents, possibly with
  holes: enough for a criss-cross merge (two roots' children merged twice); and 3
  ids announced in any way, so that duplicates, self-parents and cycles of each
  length occur.
- `engine`: one vault, two ids to mint, one peer revision on top of a local one,
  two contents, two operations in flight: every pair of operations interleaves at
  every wait, and a revision can be received before, while and after its parent
  is.
- `session`: revisions 1 <- 2 <- {3, 4}, one more to save, two chunks per
  revision, every pair of {nothing, behind, either branch} (one way round: the
  code is the same on both sides), two unrelated vaults, a history at
  `MaxNodes = 4` that one save takes beyond it, all faults, two protocol versions.
- `vault_file`: two saves and one version from the peer, so that a save can fall
  before, into and after a write-back; one write-back at a time. `vault_switch`:
  two files, one save, every order of bind, stop, reopen and restart that starts
  at most two watchers in a run of the program.
- `rendezvous`: two devices and three sockets between them (one of them reconnects
  once, with both its sockets alive), three connections, all faults.
- `meeting`: two sockets, so that each device goes to the room once (a device that comes
  back is among the disagreements), four connections, no fault but hanging up; three room
  ids with room for two rooms and two codes, so that strangers can fill either
  list; time in units of five minutes, as in the code (a room 4, a code 2, a
  request at most 1: the HTTP client gives up after seconds).
- `hub`: three requests and at most seven sessions a device, more than three
  requests can start unless sessions breed; two held frames.
- `pairing`: two other devices over two connections, one room; both can ask for the
  prompt, one can come back under another connection, and the number on the screen may
  be that of a prompt that is over.
- `app_storage`: one revision stored by two operations at once, one setting, three
  identities, all faults.
- `conflicts`: three devices of which the middle one meets both others and combines,
  two saves, one decision otherwise, six revisions: a fork between the outer
  devices, met by the middle one in either order, combined, and forked again.

Deadlock checking is off everywhere: histories are finite here and sessions end.

Fairness. `SyncSession` (`FairSpec`): weak fairness of everything a device's
event loop does by itself, including the answer to a pairing prompt, and of its
timers. Faults, saves and disconnections are never fair. The code justifies it:
delivered messages, resolved promises and expired timers are run by the event
loop; nothing else is assumed of the network than that an open stream delivers.

`VaultFile`: weak fairness of each watcher's and each write-back's steps and of the
unlock poll (strong, because a slot for its write-back is a bound of the model
and not of the code): timers fire, file operations end. The editor, the person and the
sessions are not fair. `Meeting`: weak fairness of each device's and each
socket's server-side steps: an open WebSocket delivers, a retry timer fires; the
property asks only for devices that both stay. `LinkHub`: the sessions' own steps,
delivery, timers, the draining queue and the notice of a loss; nobody has to
reconnect. `Pairing`: time and the prompt's timer, and nothing else. `AppStorage`:
the flush timer and the file system. `Conflicts`: the devices meet again and again
and their sessions end, and the owner of `Resolver` combines what is offered: this
is an assumption on people, not on code, and the property says what the code makes
of it.

## What the violation run shows

It disagrees with a sentence of the repository; PROJECT.json quotes it.

- `vault_discard`: write-back compares the file with the head, not with what has
  been recorded. A save that the watcher has not reported yet is overwritten by
  the next fast-forward and is in no revision.

### Other disagreements the models show

These have no run of their own. Each is found by adding the named property, and
the named value of a constant, to the configuration in brackets.

Engine and session:

- `recordLocalChange` uses the head it read before the blob write; a session that
  fast-forwards during the write is undone. `docs/DATA_FLOW.md:14` says the parent
  is "the previous head" (`LocalChangeExtendsHead`, MCSyncEngine with a third local
  id).
- A crash inside an untransacted `saveRevision` leaves a received revision with
  fewer parents than its sender gave it, for good; `lineage.ts:71` says they are
  "copied verbatim" (`ReceivedVerbatim`, MCSyncEngine). `ParentsStored` and
  `HistoryAcyclic` survive it.
- `combineAndUse` promotes a merge of a head that may be old by then, and says "Both
  devices' changes are kept" (`CombineKeepsCurrent`, MCSyncEngine with a third
  local id).
- The transfer phase waits without a timer. When the link dies in it, or the peer's
  session fails, the session never ends, and `sessionsInFlight` refuses every later
  one with that peer; `docs/DATA_FLOW.md:296` says "Every wait in a session is
  bounded" (`SessionsEnd` without `Disturbed`, MCSyncSession).
- More chunks than the orphan list holds beat their header: the transfer never
  completes, on a healthy link (`SessionsEnd`, MCSyncSession with `MaxOrphans = 1`).
- An unparsable message during the transfer is noticed by nobody; and a vault that has
  grown beyond `maxHistoryNodes` can never be synced again.

File:

- A save made while the program is down is not recorded when it starts, because
  `start` never reads the file (`SavesNoticed`, MCVaultFile with `"restart"`). A save
  just before the person turns to another file, or stops tracking, is dropped with the
  debounce timer of the watcher that `stop` ends (MCVaultFileSwitch with `"bind"` or
  `"stop"`); one in a file that `saveVaultAs` has just placed comes before there is a
  watcher (MCVaultFile with `"reopen"` and `"save as"`). The unrecorded saves refute
  `AtRestInStep` in the same configurations (with `"stop"`, when a session makes the
  vault active again).
- The watcher reads the program's own write after the head has moved on, and
  records it as the person's (`RecordsOnlySaves`, MCVaultFile).
- KeePassXC opens the file between the two lock checks: the refused write is taken
  for a success and nothing tries again (`AtRestInStep`, MCVaultFile with
  `"reopen"`). An older write-back that finds the file equal to an older head
  cancels the update held back by a newer one (`AtRestInStep`, MCVaultFile with
  `Slots = {1, 2}`). So `AtRestInStep` of run `vault_file` is about one write-back
  at a time and an editor that does not open the file in that window.
- `saveVaultAs` reads the head, awaits the bytes and the write, and then binds the
  file (`vaultServices.ts:508`). A session that fast-forwards meanwhile finds no file
  to write to, so the new file keeps the older version and nothing brings it up to
  date (`AtRestInStep`, MCVaultFile with `Arrivals = {sent1, sent2}`,
  `Uses = {"sync", "save as"}` and `Setups = {"new"}`).
- A delivery under way survives `stop` and is recorded for whatever vault is active
  by then (`VaultsStayApart`, MCVaultFileSwitch); as one of that vault's versions it
  may later be written into that vault's file. `FilesKeepTheirVault` is that there is
  no other way across.
- A session activates a vault again without watching its file (`TrackedIsWatched`,
  MCVaultFileSwitch with `"sync"`); a restart undoes "Track nothing"
  (`RestartKeepsChoice`, MCVaultFileSwitch).

Signaling:

- The room is keyed by peer id alone: the late end of a device's old socket removes
  the entry of its new one, and the device waits in a room it is not in
  (`JoinedIsPresent`, MCRendezvous; `docs/DATA_FLOW.md:269` says a peer "finds it
  already there").
- A device that rejoins before its old socket is gone is listed to itself and
  offers itself a connection (`NotWithItself`, MCRendezvous).
- An offer or answer lost with its socket is never repeated, and an offer that is
  older than a reconnect is answered by the connection made after it, so a device that
  leaves and comes back may not be connected (`CodeLeadsToMeeting` without `OnceEach`,
  MCMeeting with three sockets; with `"drop"` a first offer can be lost as well).
  `CodeLeadsToMeeting` therefore speaks of devices that go to the room once.

Pairing and conflicts:

- A yes may pin a device whose number was never read. The answer names no device
  (`main/index.ts:192`, `App.tsx:663`); `answerVerification` gives it to whichever
  prompt is current (`vaultServices.ts:871`). While the number of A is on the screen, B
  greets and is refused because a prompt is up; the end of B's session settles A's
  prompt (`vaultServices.ts:1039`), B tries again and puts up its own, and the yes
  meant for A pins B. A second press after A was confirmed does the same. The comment
  at `vaultServices.ts:846` says the guard below it keeps a person from "confirming
  the wrong thing" (`AnswerIsForItsNumber`, MCPairing). What does hold is
  `PinnedByPerson`: while the handshake of the device on the screen waits, no answer
  goes to another.
- An open conflict may have nothing to combine left, when somebody combined
  elsewhere; Home still says "Combine them below" (`App.tsx:1217`) above nothing
  (`ForkIsOffered`, MCConflicts with `MaxChoices = 0`).
- Seen in the models without a named property: a version chosen with keep-current, or
  restored from History, is undone by the next sync if the other is ahead;
  switch-incoming with an old row may move the head backwards; two people who
  combine at once can make criss-cross merges for ever, which is why `Resolver` is
  one device; `pairingStartedAt` is never cleared, although `vaultServices.ts:142`
  says so, and `pairingMode` of the interface has no time limit; a prompt outlives
  the connection it is about, and the end of any session settles it
  (`vaultServices.ts:1037` speaks of "the session it belongs to"); disconnecting a
  device does not stop its running session; after the first pairing the
  interface rejoins its room and so drops the connection it has just made; a
  suggestion to sync that comes while a session runs is dropped.

Android:

- A kill between delete and rename leaves no database, and the next start makes an
  empty one; `appStorage.ts:47` says "a reader sees the whole old file or the whole
  new one".
- Two operations that store the same bytes at once share a `.part`, and the second
  deletes what the first put in place (`RowsHaveBytes` without `raced`,
  MCAppStorage).
- One failed write of the database is the last (`ChangesReachDisk` without `broken`,
  MCAppStorage).

## Proofs

`SyncEngineProofs` proves, for every set of vaults, ids, contents, peer
revisions and concurrent operations satisfying `EngineAssumption` (the
sentinels are not ids; minted ids are fresh; peer revisions are well typed and
not their own parents):

- `TypeCorrect`, `BlobsBackRevisionsAlways`, `ParentsStoredAlways`,
  `HeadsNameRevisionsAlways`, `HeadAgreesWithLogAlways`, `AcyclicAlways`: the
  invariants of run `engine`;
- `AppendOnly`: the action property;
- `Refinement`: the engine implements `RevisionHistory`.

The argument. None of the invariants is inductive alone, because what a commit
writes was decided before a wait. `TasksSound` closes the gap: an operation past
its blob write has its content on disk, the base of a local change and the
inputs of a merge are stored, and none of that can become false. `StepEffects`
then shows that under `EngineInv` every step, crashes included, is one of four
things: nothing visible, one new revision whose bytes and parents are there
(perhaps with the head), a head move to a stored revision, a new empty vault.
Everything else follows from `Effects` alone: the parts of the invariant,
append-only history, acyclicity (a node added on top of existing nodes closes no
cycle, `GrowAcyclic`), and the refinement step by step.

### AncestryProofs

`AncestorsOfRight` and `AncestryRightAlways` are about the operators of `RevisionDag`
and every finite graph: `ancestorsOf` and `isAncestor` are reachability, and without a
cycle `findMergeBase` returns the maximal common ancestors and `classifyDivergence`
gives mirrored verdicts. The functions are recursive; a recursive function is a CHOOSE, so
`Recursion` first shows, for a step that is a function, that a solution exists, from
the least-number principle (`LeastNumber`, `Counting`) and not from an induction rule
with an operator parameter. That `Cardinality(DOMAIN graph)` rounds are enough is
`RoundsProgress`: a round that is not closed has met one more node than its number.
`SameAncestors` and `SameVerdict` say that two graphs which agree on a parent-closed set
give the same answers about it; the session and conflict proofs rest on them.

`TopologicalOrderRight`, `RequestInstalls` and `ValidationRight` are about the
depth-first walk of `RevisionOrder`, for any finite set of ids and any order in which
the code's iterations meet them. `TurnIs` splits a turn of the two loops into five
cases (an id is started, a frame is skipped, finished, expanded, or the cycle assertion
fires); `WalkInv` is what they preserve: every id on the path has exactly one expanded
frame, an expanded frame's id is a parent of the expanded one below it (`FollowsPath`,
so a parent met on the path closes a cycle), every parent of an expanded id is listed
or has a frame above it (`ParentsPending`), and what is listed is listed once and after
its parents (`ParentsFirst`). `LeftShrinks` is the measure: a frame costs two turns at
most, an id is expanded once, so that `WalkFuel` turns finish any walk (`OrderEnds`).
An acyclic order is then complete and in order (`ListedNotCyclic` is the converse: a
full list with parents first excludes a cycle, by its earliest member).

`AncestryRightInSummaries` and `RequestsServableInSummaries` state both properties of
run `dag` for summaries of any length over any number of ids: `announced` stays a
sequence of nodes (`SummariesTyped`), and on such a sequence the theorems above apply.
The store on which a request is installed need not be parent-closed.

### SyncSessionProofs

For two devices, any acyclic history, stores, number of chunks, limits, versions and
faults: `HistoryKeptAlways`, `AcksMeanStoredAlways`, `TransfersCompletableAlways`,
`OutcomeRightAlways`, `HeadsOnlyAdvanceAlways`, all the safety properties of run
`session`. Four invariants:

- `SoundInv` types every message under way and everything a session remembers by what
  the *other* device holds at this moment: an announced history is a parent-closed
  part of it, a positive ack is about something in it, a request is for something in
  it. Stores only grow (`Grows`), so none of it can become false, however late it
  is read; this is why old summaries, queued ingests after a failure and saves in the
  middle do no harm.
- `TransferInv` follows one transfer through five states (idle, announced, assembling,
  storing, acknowledged) by what is in both streams and at both ends. The sender
  waits for its ack, so only one can be under way, and every frame comes once.
- `AnnouncedInv`: the head of the summary message is in the history message sent after
  it, although the person may have saved between the two.
- `DecidedInv`: while nobody saves, the heads at the start decide both verdicts, by
  `classifyDivergence` over the whole history. `UnionAgrees` and `SameVerdict` bridge the
  gap to what a device computes, over its own revisions and the peer's summary;
  `AncestryRightAlways` gives the mirrored verdicts, hence `DevicesAgree`.

### ConflictsProofs

For any devices, pairs that meet, saves and decisions: `ConflictsAreForksAlways` and
`HeadsKeepChangesAlways`. A conflict row was a fork when it was opened; it stays one
because both versions are held with their history and revisions added later change no
answer about them. Sessions and merges under way hold heads that may be old, and
`WorkSound` says what is still true of them.

### VaultFileProofs

For any files, contents and write-backs under way:

- `FilesKeepTheirVaultAlways`, without further hypothesis. A write-back and an
  operation of the person each carry bytes from before a wait; `VaultInv` says that they
  are versions of the vault they will be written to. `OwnJobs` says that what a watcher
  is about to record is the content of its own file, and `RecordedGrows` adds a step of
  each kind to what is recorded; what is left is a delivery whose vault is not that of
  its watcher (`Astray`).
- `TrackedIsWatchedAlways`, for `"sync" \notin Uses`: a session that makes its vault
  the active one does not start a watcher, and the property fails with it.
- `SavesNoticedAlways`, for a device that keeps to its file (`KeepsToItsFile`: no
  bind, stop, restart, and no editor that opens a new file before its watcher starts;
  each of them refutes it). The invariant says that what is on disk is recorded or that
  the watcher is still on its way to it (`Stirred`).
- `AtRestInStepAlways`, under `NoNewFile` (also no `saveVaultAs`, and no editor that
  opens the file inside a write-back) and with one slot for write-backs. All of these
  are needed: see the disagreements above.

The runs `vault_file` and `vault_switch` satisfy these hypotheses, except that
`vault_file` also has `saveVaultAs`, with one version from the peer: too few for the
disagreement about it.

### PairingProofs

`PromptIsAwaitedAlways`, `ForgottenEntirelyAlways` and `PinnedByPersonAlways` hold for
any devices, connections and rooms: `Awaited` ties the prompt to the one handshake
that waits for it and to a device without a pinned key. `AskedByPeer` adds that the
prompt is about the device at the other end of its connection, or nobody is there any
more; as at most one handshake waits, an answer given while the device on the screen
waits is given to it.

`MembersAreServedAlways` and `SeatIsOwnAlways` are about `Rendezvous` with any peers,
sockets, connections and faults. Neither is inductive. `SocketInv` adds what joins and
ends leave behind: only the newest of a device's sockets is its current one
(`SocketIsNewest`), a join is the first message of a socket and comes once
(`JoinsOnce`), and when a socket has joined in time, none of the same device's earlier
ones is still open at the server (`EarlierAreGone`). The end of a socket can then only
be that of the one in the seat. Most steps let sockets fade: links go down, messages are
taken, ends are seen, and nothing else (`FadeInv`). What is left is the join, which gives
the seat to the socket that joins, and the close (`ServeCloseInv`).
`OthersJoined` and `OthersPresent` say that a device is not told of itself while ends
are seen in time; hence `NotWithItself`.

`CodeHasRoomAlways` is about `Meeting`, with any limits that satisfy its assumptions
(a code and the request that asks for it live at most as long as a room does). `MeetInv`
adds ages to it: a room that is empty, and was never left empty by its last member, is
at most `RequestLimit` older than its code, and no older than the request that is about
to issue one (`CodesOutlived`). A sweep takes only rooms of age `RoomTTL`, and so none that
a code can still lead to
(`SweptNotAwaited`), although every creation and every issue sweeps. `SeatsAreMembers` is
the agreement of the sockets with the registry.

### LinkHubProofs, AppStorageProofs

`LinkOfTheSessionAlways` and `IdleHoldsNothingAlways` hold for any number of requests
and sessions and any limit of the queue: a link that is not closed is that of the
session in flight, and closing it empties the queue of the device.
`HellosHeardAlways`, under the same parameters, does not follow frames to their sessions
(which an old error, a refusal or an end between two hellos would break) but counts
(`HelloForEach`): every session sends one hello when it begins and takes at most one, so
at least as many hellos are under way, in whichever direction, as devices wait for one.
A hello is taken only by a session that waits or by the one it invites, whose own takes
its place; otherwise it is `missed`. `CutOff` is the same across a loss: when the
channels open again nobody waits.
`RowsHaveBytesAlways`, `IdentityStableAlways` and `DiskNeverOlderAlways` hold for any
revisions, settings and operations: `ChainSound` orders the images in the chain of
writes between the one on disk and the one in memory, `TaskSound` says that an
operation's row enters no image before its bytes are in place.

### Only model-checked

- Liveness, which is outside the prover's reach: `SessionsEnd`, `HeldBackEnds`,
  `CodeLeadsToMeeting`, `Settles`, `PromptSettles`, `ChangesReachDisk`, `Converges`.

`SavesNoticed`, `AtRestInStep` and `TrackedIsWatched` are proved under hypotheses on what
is switched on. None of these can be dropped: each is listed with its counterexample
among the disagreements above.

## Not modelled

- The KDBX codec and the merge of entries: data transformation by a library,
  without state. Cryptography: signatures and hashes are assumed to work.
- The rate limiter (a refused request changes nothing) and a token that does not
  match its room (ids and tokens travel together in a link).
- The parser's field checks, which only a peer that does not run this code fails;
  ICE candidates; the transport variants for tests and the demo; the demo.
- Layout, wording, tray, IPC plumbing and build files.
- Nesting of `transaction()`: its bodies await metadata calls only, so they run in
  one turn, and nesting never meets another operation. If `BEGIN IMMEDIATE` throws, because
  another process holds the database, the depth stays raised
  (`sqliteMetadataStore.ts:146`) and later transactions run without one; every
  module has one process per device.
- A second path for one vault: `saveVaultAs` during a `recordLocalChange` of the same
  vault is undone by the row read before the blob write (`engine.ts:141`).
- Bookmarks, pending transfers and peer heads: rows that nothing reads.

## Plan

Every safety property of the runs has its theorem, and the hypotheses of those that have
any are needed. What is left, liveness and the parts of the program listed above, is outside
the prover or the models.
