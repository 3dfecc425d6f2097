----------------------------- MODULE SyncSession -----------------------------
(***************************************************************************)
(* One synchronisation session between two devices: both run the same code *)
(* (packages/sync/src/session.ts, controlInbox.ts) over a link with two    *)
(* ordered streams, control and bulk, that are not ordered with respect to *)
(* each other (packages/transport), and act on the result as runSession of *)
(* packages/services does.                                                 *)
(*                                                                         *)
(* Grain of atomicity.  Metadata calls are synchronous, so the code after  *)
(* an awaited message runs to its next wait in the turn that delivered the *)
(* message; the waits are: the next message, the person who confirms a new *)
(* device, a blob read (before a revision is sent) and a blob write        *)
(* (before one is stored).                                                 *)
(*                                                                         *)
(* A phase that waits for a message has that message's name.  Revisions    *)
(* are immutable, so one function `parents' describes them on both sides.  *)
(***************************************************************************)
EXTENDS RevisionOrder

CONSTANTS
    Peers,         \* the two devices
    IdOrder,       \* every revision id, in the order maps iterate over them
    SharedHistory, \* the revisions that exist at the start: id -> parents
    StartStores,   \* what the devices may hold at the start
    VaultIds,
    NoVault,       \* EMPTY_VAULT_ID: the device tracks nothing
    NoHead,        \* headRevisionId === undefined
    Versions,      \* protocol versions that are in use
    Chunks,        \* chunks in a revision's bytes
    MaxOrphans,    \* MAX_ORPHAN_FRAMES
    MaxNodes,      \* LIMITS.maxHistoryNodes, maxWantedRevisions
    Faults         \* which of FaultKinds can happen

FaultKinds == {"timeout", "close", "refuse", "ingest", "read"}

Ids == Elems(IdOrder)
Store == [vault : VaultIds \cup {NoVault}, held : SUBSET Ids, head : Ids \cup {NoHead}]

ASSUME SessionAssumption ==
    /\ \E p, q \in Peers : p # q /\ Peers = {p, q}
    /\ IdOrder \in Seq(Ids)
    /\ NoHead \notin Ids /\ NoVault \notin VaultIds
    /\ SharedHistory \in [DOMAIN SharedHistory -> SUBSET DOMAIN SharedHistory]
    /\ DOMAIN SharedHistory \subseteq Ids /\ Acyclic(SharedHistory)
    /\ StartStores \subseteq [Peers -> Store]
    /\ \A start \in StartStores : \A p \in Peers :
          /\ start[p].held \subseteq DOMAIN SharedHistory
          /\ ParentClosed(SharedHistory, start[p].held)
          /\ start[p].head \in start[p].held \cup {NoHead}
    /\ Chunks \in Nat \ {0} /\ MaxOrphans \in Nat /\ MaxNodes \in Nat
    /\ Faults \subseteq FaultKinds

VARIABLES
    parents,  \* revision id -> its parents, for every revision that exists
    store,    \* per device: the vault it tracks, the revisions, the head
    session,  \* per device: the SyncSession object and its awaiting code
    ctl,      \* control messages on their way to a device
    bulk      \* chunk frames on their way to a device

vars == <<parents, store, session, ctl, bulk>>

Other(p) == CHOOSE q \in Peers : q # p

Expecting == {"hello", "auth", "summary", "history", "wants"}
Ended == {"done", "failed"}
Phases == {"start", "verifying", "transfer", "completing"} \cup Expecting \cup Ended

NewSession ==
    [phase |-> "start", version |-> 0, live |-> FALSE, failure |-> FALSE, mail |-> {},
     remoteHead |-> NoHead, remoteIds |-> {}, expected |-> {}, asked |-> {},
     serving |-> <<>>, awaiting |-> NoHead, transferSeq |-> 0, sent |-> {},
     assembling |-> {}, orphans |-> {}, ingests |-> <<>>,
     peerCompleted |-> FALSE, verdict |-> "none"]

Init ==
    /\ parents = SharedHistory
    /\ store \in StartStores
    /\ session = [p \in Peers |-> NewSession]
    /\ ctl = [p \in Peers |-> <<>>]
    /\ bulk = [p \in Peers |-> <<>>]

-----------------------------------------------------------------------------
(* The link.  A channel that is closed on this side drops what is sent.    *)
Sends(p, messages) ==
    ctl' = IF session[p].live THEN [ctl EXCEPT ![Other(p)] = @ \o messages] ELSE ctl

Becomes(p, s) == session' = [session EXCEPT ![p] = s]

(* run() throws: runSession reports the failure and closes its link, which *)
(* the other device does not hear of.                                      *)
Failed(s) == [s EXCEPT !.phase = "failed", !.live = FALSE]

HasMail(s, type) == \E m \in s.mail : m.type = type
Mail(s, type) == CHOOSE m \in s.mail : m.type = type

(* expect: a failure recorded earlier comes first, then a queued message.  *)
Answered(s, type) == s.phase = type /\ ~ s.failure /\ HasMail(s, type)

-----------------------------------------------------------------------------
(* run and the first half of handshake: hello is sent.  (A hello that came *)
(* before this side had a session is held for it by PeerLinkHub.)          *)
Start(p, version) ==
    /\ session[p].phase = "start"
    /\ Becomes(p, [NewSession EXCEPT !.phase = "hello", !.version = version, !.live = TRUE])
    /\ ctl' = [ctl EXCEPT ![Other(p)] = Append(@, [type |-> "hello", version |-> version])]
    /\ UNCHANGED <<parents, store, bulk>>

(* The peer speaks this version: its challenge is signed and answered.     *)
HelloAnswered(p) ==
    LET s == session[p]
    IN  /\ Answered(s, "hello")
        /\ Mail(s, "hello").version = s.version
        /\ Becomes(p, [s EXCEPT !.phase = "auth"])
        /\ Sends(p, << [type |-> "auth"] >>)
        /\ UNCHANGED <<parents, store, bulk>>

HelloRefused(p) ==
    LET s == session[p]
    IN  /\ Answered(s, "hello")
        /\ Mail(s, "hello").version # s.version
        /\ Becomes(p, Failed(s))
        /\ Sends(p, << [type |-> "error"] >>)
        /\ UNCHANGED <<parents, store, bulk>>

(* The signature arrived; verifyPeer may have to ask the person.           *)
Verify(p) ==
    /\ Answered(session[p], "auth")
    /\ Becomes(p, [session[p] EXCEPT !.phase = "verifying"])
    /\ UNCHANGED <<parents, store, ctl, bulk>>

(* Accepted: this device says where it stands.                             *)
PeerAccepted(p) ==
    LET s == session[p]
    IN  /\ s.phase = "verifying"
        /\ Becomes(p, [s EXCEPT !.phase = "summary"])
        /\ Sends(p, << [type |-> "summary", vault |-> store[p].vault, head |-> store[p].head] >>)
        /\ UNCHANGED <<parents, store, bulk>>

PeerRefused(p) ==
    LET s == session[p]
    IN  /\ "refuse" \in Faults
        /\ s.phase = "verifying"
        /\ Becomes(p, Failed(s))
        /\ Sends(p, << [type |-> "error"] >>)
        /\ UNCHANGED <<parents, store, bulk>>

(* Both mean the same vault, or one of them tracks none; a device that     *)
(* tracks none adopts the peer's.  Its history summary follows.            *)
VaultAgreed(p) ==
    LET s == session[p]
        m == Mail(s, "summary")
        mine == store[p].vault
    IN  /\ Answered(s, "summary")
        /\ mine # NoVault \/ m.vault # NoVault
        /\ mine = NoVault \/ m.vault = NoVault \/ mine = m.vault
        /\ store' = IF mine = NoVault THEN [store EXCEPT ![p].vault = m.vault] ELSE store
        /\ Becomes(p, [s EXCEPT !.phase = "history", !.remoteHead = m.head])
        /\ Sends(p, << [type |-> "history", revisions |-> store[p].held] >>)
        /\ UNCHANGED <<parents, bulk>>

(* Neither has a vault, or they are two imports of one file.               *)
VaultRefused(p) ==
    LET s == session[p]
        m == Mail(s, "summary")
        mine == store[p].vault
    IN  /\ Answered(s, "summary")
        /\ \/ mine = NoVault /\ m.vault = NoVault
           \/ mine # NoVault /\ m.vault # NoVault /\ mine # m.vault
        /\ Becomes(p, Failed(s))
        /\ UNCHANGED <<parents, store, ctl, bulk>>

RemoteGraph(s) == [r \in s.remoteIds |-> parents[r]]

(* computeWants: what is behind the peer's head and not held here, parents *)
(* first.                                                                  *)
Wants(p, s) ==
    IF s.remoteHead = NoHead THEN <<>>
    ELSE missingRevisions(RemoteGraph(s), IdOrder, s.remoteHead, store[p].held).ordered

RequestMissing(p) ==
    LET s == session[p]
        known == [s EXCEPT !.remoteIds = Mail(s, "history").revisions]
    IN  /\ Answered(s, "history")
        /\ \E wants \in {Wants(p, known)} :
              /\ Becomes(p, [known EXCEPT !.phase = "wants", !.expected = Elems(wants),
                                          !.asked = Elems(wants)])
              /\ Sends(p, << [type |-> "wants", order |-> wants] >>)
        /\ UNCHANGED <<parents, store, bulk>>

(* serve and drainInbound start together.                                  *)
BeginTransfer(p) ==
    LET s == session[p]
    IN  /\ Answered(s, "wants")
        /\ Becomes(p, [s EXCEPT !.phase = "transfer", !.serving = Mail(s, "wants").order])
        /\ UNCHANGED <<parents, store, ctl, bulk>>

ChunkFrames(seq) == [i \in 1..Chunks |-> [seq |-> seq, chunk |-> i]]

(* The next revision without waiting for the previous one's ack.           *)
mut_ServeNext(p) ==
    LET s == session[p]
        r == Head(s.serving)
    IN  /\ s.phase = "transfer" /\ s.serving # <<>>
        /\ Becomes(p, [s EXCEPT !.serving = Tail(@), !.awaiting = r, !.transferSeq = @ + 1])
        /\ Sends(p, << [type |-> "header", seq |-> s.transferSeq + 1, revision |-> r] >>)
        /\ bulk' = IF s.live THEN [bulk EXCEPT ![Other(p)] = @ \o ChunkFrames(s.transferSeq + 1)]
                   ELSE bulk
        /\ UNCHANGED <<parents, store>>

(* One revision of serve: its header, its chunks, then the wait for its    *)
(* ack.  A revision this device does not hold is skipped.                  *)
ServeNext(p) ==
    LET s == session[p]
        r == Head(s.serving)
    IN  /\ s.phase = "transfer" /\ s.awaiting = NoHead /\ s.serving # <<>>
        /\ IF r \notin store[p].held
           THEN Becomes(p, [s EXCEPT !.serving = Tail(@)]) /\ UNCHANGED <<ctl, bulk>>
           ELSE /\ Becomes(p, [s EXCEPT !.serving = Tail(@), !.awaiting = r, !.transferSeq = @ + 1])
                /\ Sends(p, << [type |-> "header", seq |-> s.transferSeq + 1, revision |-> r] >>)
                /\ bulk' = IF s.live
                           THEN [bulk EXCEPT ![Other(p)] = @ \o ChunkFrames(s.transferSeq + 1)]
                           ELSE bulk
        /\ UNCHANGED <<parents, store>>

(* The bytes of a revision cannot be read: serve throws, and run with it.  *)
ReadFails(p) ==
    LET s == session[p]
    IN  /\ "read" \in Faults
        /\ s.phase = "transfer" /\ s.awaiting = NoHead /\ s.serving # <<>>
        /\ Becomes(p, Failed(s))
        /\ UNCHANGED <<parents, store, ctl, bulk>>

-----------------------------------------------------------------------------
(* parseMessage: what this program sends has every field it should; a      *)
(* history or a request can be longer than the receiver admits.            *)
parseHistorySummary(m) == Cardinality(m.revisions) <= MaxNodes
parseWantRevisions(m) == Len(m.order) <= MaxNodes
parseMessage(m) ==
    /\ m.type = "history" => parseHistorySummary(m)
    /\ m.type = "wants" => parseWantRevisions(m)

(* A control message is handed to ControlInbox.accept, in a turn of its    *)
(* own: whatever an earlier message released has run to its next wait.     *)
Listens(p) == session[p].live /\ \A type \in Expecting : ~ Answered(session[p], type)

CanReceive(p, types) ==
    /\ Listens(p) /\ ctl[p] # <<>>
    /\ Head(ctl[p]).type \in types /\ parseMessage(Head(ctl[p]))

Received(p) == ctl' = [ctl EXCEPT ![p] = Tail(@)]

(* A message somebody awaits, now or later.                                *)
ReceiveReply(p) ==
    /\ CanReceive(p, Expecting)
    /\ Becomes(p, [session[p] EXCEPT !.mail = @ \cup {Head(ctl[p])}])
    /\ Received(p)
    /\ UNCHANGED <<parents, store, bulk>>

(* inbox.fail: rejects the expect that is waiting, and those to come.      *)
InboxFails(s) == IF s.phase \in Expecting THEN Failed(s) ELSE [s EXCEPT !.failure = TRUE]

ReceiveError(p) ==
    /\ CanReceive(p, {"error"})
    /\ Becomes(p, InboxFails(session[p]))
    /\ Received(p)
    /\ UNCHANGED <<parents, store, bulk>>

(* accept: what does not parse fails the session, like an error.           *)
ReceiveUnparsable(p) ==
    /\ Listens(p) /\ ctl[p] # <<>> /\ ~ parseMessage(Head(ctl[p]))
    /\ Becomes(p, InboxFails(session[p]))
    /\ Received(p)
    /\ UNCHANGED <<parents, store, bulk>>

(* A transfer whose chunks are all there leaves `assembling' for the queue *)
(* of ingests.                                                             *)
Assembled(s, entry) ==
    IF entry.got = 1..Chunks
    THEN [s EXCEPT !.assembling = {e \in @ : e.seq # entry.seq},
                   !.ingests = Append(@, entry.revision)]
    ELSE [s EXCEPT !.assembling = {e \in @ : e.seq # entry.seq} \cup {entry}]

(* The header's transfer starts empty: early chunks are forgotten.         *)
mut_ReceiveHeader(p) ==
    LET s == session[p]
        m == Head(ctl[p])
    IN  /\ CanReceive(p, {"header"})
        /\ Becomes(p, Assembled(s, [seq |-> m.seq, revision |-> m.revision, got |-> {}]))
        /\ Received(p)
        /\ UNCHANGED <<parents, store, bulk>>

(* onHeader: chunks that beat their header are replayed.                   *)
ReceiveHeader(p) ==
    LET s == session[p]
        m == Head(ctl[p])
        early == {f \in s.orphans : f.seq = m.seq}
    IN  /\ CanReceive(p, {"header"})
        /\ Becomes(p, Assembled([s EXCEPT !.orphans = @ \ early],
                                [seq |-> m.seq, revision |-> m.revision,
                                 got |-> {f.chunk : f \in early}]))
        /\ Received(p)
        /\ UNCHANGED <<parents, store, bulk>>

(* onFrame: to its transfer, or kept for a header still to come, or        *)
(* dropped when too many are kept already.                                 *)
ReceiveFrame(p) ==
    LET s == session[p]
        f == Head(bulk[p])
        entries == {e \in s.assembling : e.seq = f.seq}
    IN  /\ s.live /\ bulk[p] # <<>>
        /\ Becomes(p,
             IF entries # {}
             THEN LET e == CHOOSE e \in entries : TRUE
                  IN  Assembled(s, [e EXCEPT !.got = @ \cup {f.chunk}])
             ELSE IF Cardinality(s.orphans) < MaxOrphans
             THEN [s EXCEPT !.orphans = @ \cup {f}]
             ELSE s)
        /\ bulk' = [bulk EXCEPT ![p] = Tail(@)]
        /\ UNCHANGED <<parents, store, ctl>>

ReceiveAck(p) ==
    LET s == session[p]
        m == Head(ctl[p])
    IN  /\ CanReceive(p, {"ack"})
        /\ Becomes(p, [s EXCEPT !.awaiting = IF @ = m.revision THEN NoHead ELSE @,
                                !.sent = IF m.accepted THEN @ \cup {m.revision} ELSE @])
        /\ Received(p)
        /\ UNCHANGED <<parents, store, bulk>>

ReceiveComplete(p) ==
    /\ CanReceive(p, {"complete"})
    /\ Becomes(p, [session[p] EXCEPT !.peerCompleted = TRUE])
    /\ Received(p)
    /\ UNCHANGED <<parents, store, bulk>>

-----------------------------------------------------------------------------
(* The queue of ingests, one at a time, also after the session has ended.  *)
Settled(s, r) == [s EXCEPT !.ingests = Tail(@), !.expected = @ \ {r}]

Acks(p, r, accepted) ==
    Sends(p, << [type |-> "ack", revision |-> r, accepted |-> accepted] >>)

(* No look at the parents: whatever arrives is stored.                     *)
mut_ParentsHeld(p, r) == TRUE

ParentsHeld(p, r) == parents[r] \subseteq store[p].held

(* ingestReceivedRevision stored the revision, or had it already.          *)
Ingest(p) ==
    LET s == session[p]
        r == Head(s.ingests)
    IN  /\ s.ingests # <<>>
        /\ r \in store[p].held \/ ParentsHeld(p, r)
        /\ store' = [store EXCEPT ![p].held = @ \cup {r}]
        /\ Becomes(p, Settled(s, r))
        /\ Acks(p, r, TRUE)
        /\ UNCHANGED <<parents, bulk>>

(* A failed ingest acknowledged like any other.                            *)
mut_Reject(p) ==
    LET s == session[p]
        r == Head(s.ingests)
    IN  /\ s.ingests # <<>>
        /\ "ingest" \in Faults \/ (r \notin store[p].held /\ ~ ParentsHeld(p, r))
        /\ Becomes(p, Settled(s, r))
        /\ Acks(p, r, TRUE)
        /\ UNCHANGED <<parents, store, bulk>>

(* A parent is missing, or storing the bytes failed.                       *)
Reject(p) ==
    LET s == session[p]
        r == Head(s.ingests)
    IN  /\ s.ingests # <<>>
        /\ "ingest" \in Faults \/ (r \notin store[p].held /\ ~ ParentsHeld(p, r))
        /\ Becomes(p, Settled(s, r))
        /\ Acks(p, r, FALSE)
        /\ UNCHANGED <<parents, store, bulk>>

(* Everything requested was sent and acknowledged, and everything expected *)
(* has settled, or the peer says it will send no more.                     *)
FinishTransfer(p) ==
    LET s == session[p]
    IN  /\ s.phase = "transfer" /\ s.serving = <<>> /\ s.awaiting = NoHead
        /\ s.expected = {} \/ s.peerCompleted
        /\ Becomes(p, [s EXCEPT !.phase = "completing"])
        /\ Sends(p, << [type |-> "complete"] >>)
        /\ UNCHANGED <<parents, store, bulk>>

(* Whoever received something is behind.                                   *)
mut_Verdict(p) ==
    LET s == session[p]
    IN  IF s.asked # {} THEN "remote-ahead" ELSE "equal"

(* classify, over the local history and the peer's summary.                *)
Verdict(p) ==
    LET s == session[p]
        mine == store[p].head
        local == [r \in store[p].held |-> parents[r]]
    IN  IF mine = NoHead /\ s.remoteHead = NoHead THEN "equal"
        ELSE IF mine = NoHead THEN "remote-ahead"
        ELSE IF s.remoteHead = NoHead THEN "local-ahead"
        ELSE classifyDivergence(unionGraphs(local, RemoteGraph(s)), mine, s.remoteHead)

ReadyToConclude(p) ==
    session[p].phase = "completing" /\ session[p].peerCompleted /\ session[p].ingests = <<>>

(* The verdict acted on although the head it is about was rejected.        *)
mut_Conclude(p) ==
    LET s == session[p]
        verdict == Verdict(p)
    IN  /\ ReadyToConclude(p)
        /\ store' = IF verdict = "remote-ahead" THEN [store EXCEPT ![p].head = s.remoteHead]
                    ELSE store
        /\ Becomes(p, [s EXCEPT !.phase = "done", !.live = FALSE, !.verdict = verdict])
        /\ UNCHANGED <<parents, ctl, bulk>>

(* The session is over, and runSession acts on its verdict in the same     *)
(* turn: a device that is behind moves to the peer's head, a fork opens a  *)
(* conflict.                                                               *)
Conclude(p) ==
    LET s == session[p]
        verdict == Verdict(p)
    IN  /\ ReadyToConclude(p)
        /\ verdict \in {"remote-ahead", "diverged"} => s.remoteHead \in store[p].held
        /\ store' = IF verdict = "remote-ahead" THEN [store EXCEPT ![p].head = s.remoteHead]
                    ELSE store
        /\ Becomes(p, [s EXCEPT !.phase = "done", !.live = FALSE, !.verdict = verdict])
        /\ UNCHANGED <<parents, ctl, bulk>>

(* ... but its head was rejected on the way in: fastForward and            *)
(* openConflictFor throw.                                                  *)
ConcludeFails(p) ==
    LET s == session[p]
    IN  /\ ReadyToConclude(p)
        /\ Verdict(p) \in {"remote-ahead", "diverged"} /\ s.remoteHead \notin store[p].held
        /\ Becomes(p, Failed(s))
        /\ UNCHANGED <<parents, store, ctl, bulk>>

-----------------------------------------------------------------------------
(* The timers: one per expect, and one on the peer's sync-complete.        *)
Timeout(p) ==
    LET s == session[p]
    IN  /\ "timeout" \in Faults
        /\ \/ s.phase \in Expecting /\ ~ Answered(s, s.phase)
           \/ s.phase = "completing" /\ ~ s.peerCompleted
        /\ Becomes(p, Failed(s))
        /\ UNCHANGED <<parents, store, ctl, bulk>>

(* expect is called on an inbox that has failed.                           *)
ExpectRejected(p) ==
    LET s == session[p]
    IN  /\ s.phase \in Expecting /\ s.failure
        /\ Becomes(p, Failed(s))
        /\ UNCHANGED <<parents, store, ctl, bulk>>

(* The link to the other device goes down, as this device sees it.         *)
Close(p) ==
    LET s == session[p]
    IN  /\ "close" \in Faults
        /\ s.live
        /\ Becomes(p, [InboxFails(s) EXCEPT !.live = FALSE])
        /\ UNCHANGED <<parents, store, ctl, bulk>>

(* The person saves the vault while the session runs.  (A vault without a  *)
(* head was adopted and has no file to save yet.)                          *)
LocalSave(p, r) ==
    /\ store[p].vault # NoVault /\ store[p].head # NoHead
    /\ r \in Ids \ DOMAIN parents
    /\ parents' = [x \in DOMAIN parents \cup {r} |->
                      IF x = r THEN {store[p].head} ELSE parents[x]]
    /\ store' = [store EXCEPT ![p].held = @ \cup {r}, ![p].head = r]
    /\ UNCHANGED <<session, ctl, bulk>>

-----------------------------------------------------------------------------
(* What the event loop of a device does by itself.                         *)
Progress(p) ==
    \/ \E version \in Versions : Start(p, version)
    \/ HelloAnswered(p) \/ HelloRefused(p) \/ Verify(p) \/ PeerAccepted(p)
    \/ VaultAgreed(p) \/ VaultRefused(p) \/ RequestMissing(p)
    \/ BeginTransfer(p) \/ ServeNext(p)
    \/ ReceiveReply(p) \/ ReceiveError(p) \/ ReceiveUnparsable(p)
    \/ ReceiveHeader(p) \/ ReceiveFrame(p)
    \/ ReceiveAck(p) \/ ReceiveComplete(p)
    \/ Ingest(p) \/ Reject(p)
    \/ FinishTransfer(p) \/ Conclude(p) \/ ConcludeFails(p)
    \/ ExpectRejected(p)

Next ==
    \E p \in Peers :
        \/ Progress(p)
        \/ PeerRefused(p) \/ ReadFails(p) \/ Timeout(p) \/ Close(p)
        \/ \E r \in Ids : LocalSave(p, r)

Spec == Init /\ [][Next]_vars

(* The event loop runs, the person answers the pairing prompt, and timers  *)
(* fire.                                                                   *)
FairSpec == Spec /\ \A p \in Peers : WF_vars(Progress(p)) /\ WF_vars(Timeout(p))

-----------------------------------------------------------------------------
Message ==
    [type : {"auth", "error", "complete"}]
      \cup [type : {"hello"}, version : Versions]
      \cup [type : {"summary"}, vault : VaultIds \cup {NoVault}, head : Ids \cup {NoHead}]
      \cup [type : {"history"}, revisions : SUBSET Ids]
      \cup [type : {"header"}, seq : Nat, revision : Ids]
      \cup [type : {"ack"}, revision : Ids, accepted : BOOLEAN]

IsMessage(m) == m \in Message \/ (m.type = "wants" /\ Elems(m.order) \subseteq Ids)

(* Every variable keeps its type.                                          *)
TypeOK ==
    /\ DOMAIN parents \subseteq Ids /\ parents \in [DOMAIN parents -> SUBSET DOMAIN parents]
    /\ store \in [Peers -> Store]
    /\ \A p \in Peers :
          /\ session[p].phase \in Phases
          /\ session[p].verdict \in DivergenceKinds \cup {"none"}
          /\ session[p].expected \subseteq session[p].asked
          /\ \A m \in Elems(ctl[p]) \cup session[p].mail : IsMessage(m)

(* Whatever is rejected, cut short or saved meanwhile, no device ever      *)
(* stores a revision without its history (queueIngest,                     *)
(* ingestReceivedRevision).                                                *)
HeldClosed == \A p \in Peers : \A r \in store[p].held : parents[r] \subseteq store[p].held

(* The stores stay well formed, and complete.                              *)
HistoryKept == TypeOK /\ HeldClosed

(* A revision this device counts as sent is durable on the other one.      *)
AcksMeanStored == \A p \in Peers : session[p].sent \subseteq store[Other(p)].held

(* Serving never meets a revision it does not hold: the requests follow    *)
(* from this device's own summary, however old it is by then.              *)
RequestsHonoured == \A p \in Peers : Elems(session[p].serving) \subseteq store[p].held

(* Frames of at most one transfer are on their way to a device or parked   *)
(* there, so a revision of MaxOrphans chunks can always be reassembled     *)
(* whichever stream is faster.                                             *)
OneTransferAtATime ==
    \A p \in Peers :
        Cardinality({f.seq : f \in Elems(bulk[p]) \cup session[p].orphans}
                     \cup {e.seq : e \in session[p].assembling}) <= 1

(* What a device serves it holds, and a revision's chunks are never mixed  *)
(* with another's: every transfer that is begun can be completed.          *)
TransfersCompletable == RequestsHonoured /\ OneTransferAtATime

(* A session that ends well has the peer's head, unless the two histories  *)
(* have nothing in common, and the device's own head includes it unless    *)
(* the two forked, saves during the session or not.                        *)
DoneMeansCaughtUp ==
    \A p \in Peers :
        LET s == session[p]
        IN  s.phase = "done" /\ s.remoteHead # NoHead /\ s.verdict # "unrelated" =>
              /\ s.remoteHead \in store[p].held
              /\ s.verdict # "diverged" => isAncestor(parents, s.remoteHead, store[p].head)

(* When both sessions end well and nobody saved meanwhile, the devices are *)
(* on the same version, or both know that they are not.                    *)
DevicesAgree ==
    /\ \A p \in Peers : session[p].phase = "done"
    /\ parents = SharedHistory
    => \/ \A p, q \in Peers : store[p].head = store[q].head
       \/ \A p \in Peers : session[p].verdict \in {"diverged", "unrelated"}

(* However a session ends and whoever saved meanwhile, its verdict and     *)
(* what was done on it are right for this device and agree with the        *)
(* peer's (classify, runSession).                                          *)
OutcomeRight == DoneMeansCaughtUp /\ DevicesAgree

(* No step of a session takes a device to a version that does not contain  *)
(* the one it was on.                                                      *)
HeadsOnlyAdvance ==
    [][\A p \in Peers :
          store[p].head # NoHead => isAncestor(parents', store[p].head, store'[p].head)]_vars

(* A session goes down with its link, or with the session of the peer.     *)
Disturbed(p) ==
    \/ session[Other(p)].phase = "failed"
    \/ \E q \in Peers : ~ session[q].live /\ session[q].phase \notin {"start"} \cup Ended

(* "Every wait in a session is bounded" (docs/DATA_FLOW.md), as far as the *)
(* code keeps it: a session comes to an end, whatever is refused, rejected *)
(* or late, unless its link or the peer's session was lost under it.       *)
SessionsEnd == \A p \in Peers : <>(session[p].phase \in Ended \/ Disturbed(p))
=============================================================================
