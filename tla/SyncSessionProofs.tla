--------------------------- MODULE SyncSessionProofs ---------------------------
(***************************************************************************)
(* Theorems about SyncSession, for any history, stores, number of chunks,  *)
(* limits and faults, and whoever saves meanwhile.                         *)
(*                                                                         *)
(* The argument.  What a message of a device says stays true of it however *)
(* late the message is, because revisions are only added: SoundInv types   *)
(* every message, and everything a session remembers, by what the other    *)
(* device holds now.  TransferInv follows one transfer from its header to  *)
(* its ack; AnnouncedInv says that the head a device announced is in the   *)
(* history it announced later; DecidedInv that, while nobody saves, the    *)
(* heads at the start decide both verdicts.  That two devices with         *)
(* different parts of the history give the same answers is AncestryProofs. *)
(***************************************************************************)
EXTENDS SyncSession, AncestryProofs

(* The revisions that exist, each with its parents.                        *)
HistorySound ==
    /\ DOMAIN SharedHistory \subseteq DOMAIN parents /\ DOMAIN parents \subseteq Ids
    /\ parents \in [DOMAIN parents -> SUBSET DOMAIN parents]

(* A device holds its head, and the history of all it holds.               *)
StoresSound ==
    /\ store \in [Peers -> Store]
    /\ \A p \in Peers :
          /\ store[p].held \subseteq DOMAIN parents
          /\ ParentClosed(parents, store[p].held)
          /\ store[p].head \in store[p].held \cup {NoHead}

(* What the messages of a device say is true of it now, however old they   *)
(* are.                                                                    *)
Histories(q) == {ids \in SUBSET store[q].held : ParentClosed(parents, ids)}

SaidBy(q) ==
    [type : {"auth", "error", "complete"}]
      \cup [type : {"hello"}, version : Versions]
      \cup [type : {"summary"}, vault : VaultIds \cup {NoVault}, head : store[q].held \cup {NoHead}]
      \cup [type : {"history"}, revisions : Histories(q)]
      \cup [type : {"wants"}, order : Seq(store[Other(q)].held)]
      \cup [type : {"header"}, seq : Nat, revision : store[q].held]
      \cup [type : {"ack"}, revision : store[q].held, accepted : {TRUE}]
      \cup [type : {"ack"}, revision : DOMAIN parents, accepted : {FALSE}]

AllFrames == [seq : Nat, chunk : 1..Chunks]
Entries(q) == [seq : Nat, revision : store[q].held, got : SUBSET (1..Chunks)]

(* ... and so is what the other device's session remembers of them.        *)
SessionsWith(p, q) ==
    [phase : Phases, version : Versions \cup {0}, live : BOOLEAN, failure : BOOLEAN,
     mail : SUBSET SaidBy(q), remoteHead : store[q].held \cup {NoHead},
     remoteIds : Histories(q), expected : SUBSET Ids, asked : SUBSET Ids,
     serving : Seq(store[p].held), awaiting : store[p].held \cup {NoHead},
     transferSeq : Nat, sent : SUBSET store[q].held, assembling : SUBSET Entries(q),
     orphans : SUBSET AllFrames, ingests : Seq(store[q].held),
     peerCompleted : BOOLEAN, verdict : DivergenceKinds \cup {"none"}]

ControlSound == DOMAIN ctl = Peers /\ \A p \in Peers : ctl[p] \in Seq(SaidBy(Other(p)))
BulkSound == bulk \in [Peers -> Seq(AllFrames)]

SessionsSound ==
    /\ DOMAIN session = Peers
    /\ \A p \in Peers :
          /\ session[p] \in SessionsWith(p, Other(p))
          /\ session[p].expected \subseteq session[p].asked
          /\ session[p].phase = "start" => session[p] = NewSession

SoundInv == HistorySound /\ StoresSound /\ ControlSound /\ BulkSound /\ SessionsSound

-----------------------------------------------------------------------------
(* One transfer at a time, from q to p: idle, announced, being assembled,  *)
(* being stored, or acknowledged.                                          *)
None(seq, type) == \A i \in DOMAIN seq : seq[i].type # type
AtMostOne(seq, type) ==
    \A i, j \in DOMAIN seq : seq[i].type = type /\ seq[j].type = type => i = j

Idle(p, q) ==
    /\ None(ctl[p], "header") /\ None(ctl[q], "ack")
    /\ bulk[p] = <<>> /\ session[p].orphans = {}
    /\ session[p].assembling = {} /\ session[p].ingests = <<>>

Announced(p, q) ==
    /\ AtMostOne(ctl[p], "header") /\ None(ctl[q], "ack")
    /\ \A i \in DOMAIN ctl[p] :
          ctl[p][i].type = "header" => ctl[p][i].seq = session[q].transferSeq
    /\ session[p].assembling = {} /\ session[p].ingests = <<>>

Assembling(p, q) ==
    /\ None(ctl[p], "header") /\ None(ctl[q], "ack")
    /\ session[p].orphans = {} /\ session[p].ingests = <<>>
    /\ \E e \in session[p].assembling :
          /\ session[p].assembling = {e} /\ e.seq = session[q].transferSeq
          /\ \A i \in DOMAIN bulk[p] : bulk[p][i].chunk \notin e.got

Storing(p, q) ==
    /\ None(ctl[p], "header") /\ None(ctl[q], "ack")
    /\ bulk[p] = <<>> /\ session[p].orphans = {}
    /\ session[p].assembling = {} /\ Len(session[p].ingests) = 1

Acknowledged(p, q) ==
    /\ None(ctl[p], "header") /\ AtMostOne(ctl[q], "ack")
    /\ bulk[p] = <<>> /\ session[p].orphans = {}
    /\ session[p].assembling = {} /\ session[p].ingests = <<>>

(* Every frame is of the transfer that is under way, and comes once.       *)
FramesOnce(p, q) ==
    /\ \A i, j \in DOMAIN bulk[p] : bulk[p][i] = bulk[p][j] => i = j
    /\ \A i \in DOMAIN bulk[p] :
          bulk[p][i].seq = session[q].transferSeq /\ bulk[p][i] \notin session[p].orphans
    /\ \A f \in session[p].orphans : f.seq = session[q].transferSeq

Transfer(p, q) ==
    /\ FramesOnce(p, q)
    /\ \/ Idle(p, q)
       \/ /\ session[q].awaiting # NoHead
          /\ Announced(p, q) \/ Assembling(p, q) \/ Storing(p, q) \/ Acknowledged(p, q)

TransferInv == \A p \in Peers : Transfer(p, Other(p))

-----------------------------------------------------------------------------
(* What a device has heard or will hear.                                   *)
Heard(p) == Elems(ctl[p]) \cup session[p].mail

BeforeHistory == {"start", "hello", "auth", "verifying", "summary"}
AfterSummary == {"history", "wants", "transfer", "completing", "done"}
AfterHistory == AfterSummary \ {"history"}

(* The history a device announces contains the head it announced.          *)
AnnouncedInv ==
    \A p \in Peers :
        /\ \A m, n \in Heard(p) :
              m.type = "summary" /\ n.type = "history" => m.head \in n.revisions \cup {NoHead}
        /\ session[Other(p)].phase \in BeforeHistory => \A n \in Heard(p) : n.type # "history"
        /\ session[p].phase \in AfterSummary =>
              \E m \in session[p].mail : m.type = "summary" /\ m.head = session[p].remoteHead
        /\ session[p].phase \in AfterHistory =>
              \E n \in session[p].mail : n.type = "history" /\ n.revisions = session[p].remoteIds

(* classify over the whole history.                                        *)
RightVerdict(mine, theirs) ==
    IF mine = NoHead /\ theirs = NoHead THEN "equal"
    ELSE IF mine = NoHead THEN "remote-ahead"
    ELSE IF theirs = NoHead THEN "local-ahead"
    ELSE classifyDivergence(SharedHistory, mine, theirs)

(* While nobody saves: the heads at the start decide.                      *)
Decided(first) ==
    \A p \in Peers :
        LET q == Other(p)
            s == session[p]
        IN  /\ first[p] \in DOMAIN SharedHistory \cup {NoHead}
            /\ \A m \in Heard(p) : m.type = "summary" => m.head = first[q]
            /\ s.phase # "done" => store[p].head = first[p]
            /\ s.phase = "done" =>
                  /\ s.verdict = RightVerdict(first[p], first[q])
                  /\ store[p].head = IF s.verdict = "remote-ahead" THEN first[q] ELSE first[p]

DecidedInv ==
    parents = SharedHistory =>
        \E first \in [Peers -> DOMAIN SharedHistory \cup {NoHead}] : Decided(first)

-----------------------------------------------------------------------------
(* There are two devices, and each is the other's other.                   *)
LEMMA OtherIs ==
    ASSUME NEW p \in Peers
    PROVE  /\ Other(p) \in Peers /\ Other(p) # p /\ Other(Other(p)) = p
           /\ \A q \in Peers : q = p \/ q = Other(p)
<1>1. PICK x, y \in Peers : x # y /\ Peers = {x, y}
  BY SessionAssumption
<1>2. Other(x) = y /\ Other(y) = x
  BY <1>1 DEF Other
<1>3. QED
  BY <1>1, <1>2

(* There are finitely many revision ids.                                   *)
LEMMA IdsFinite == IsFiniteSet(Ids) /\ OrderOf(IdOrder)
<1>1. IdOrder \in Seq(Ids)
  BY SessionAssumption
<1>2. PICK n \in Nat : n = Len(IdOrder) /\ IdOrder \in [1..n -> Ids]
  BY <1>1
<1>3. IsFiniteSet(1..n)
  BY FS_Interval
<1>4. Ids = {IdOrder[i] : i \in 1..n}
  BY <1>2 DEF Ids, Elems
<1>5. IsFiniteSet({IdOrder[i] : i \in 1..n})
  <2>1. PICK S : S = 1..n
    OBVIOUS
  <2>2. IdOrder \in Surjection(S, Ids)
    BY <1>2, <1>4, <2>1 DEF Surjection
  <2>3. QED
    BY <1>3, <1>4, <2>1, <2>2, FS_Surjection
<1>6. QED
  BY <1>2, <1>4, <1>5 DEF OrderOf

(* Revisions are added, never changed or taken away.                       *)
Grows ==
    /\ DOMAIN parents \subseteq DOMAIN parents'
    /\ \A r \in DOMAIN parents : parents'[r] = parents[r]
    /\ \A p \in Peers : store[p].held \subseteq store'[p].held

(* A step that leaves the histories alone lets them grow.                  *)
LEMMA StillGrows ==
    ASSUME UNCHANGED <<parents, store>>, HistorySound, StoresSound
    PROVE  Grows /\ HistorySound' /\ StoresSound'
  BY DEF Grows, HistorySound, StoresSound

(* What was true of a device stays true as the histories grow.             *)
LEMMA SaidStays ==
    ASSUME StoresSound, Grows, NEW q \in Peers
    PROVE  /\ Histories(q) \subseteq Histories(q)'
           /\ SaidBy(q) \subseteq SaidBy(q)'
           /\ Entries(q) \subseteq Entries(q)'
<1>1. Histories(q) \subseteq Histories(q)'
  <2> SUFFICES ASSUME NEW ids \in SUBSET store[q].held, ParentClosed(parents, ids)
               PROVE  ids \in SUBSET store'[q].held /\ ParentClosed(parents', ids)
    BY DEF Histories
  <2>1. ids \subseteq DOMAIN parents /\ ids \subseteq store'[q].held
    BY DEF StoresSound, Grows
  <2>2. \A r \in ids : ParentsIn(parents', r) = ParentsIn(parents, r)
    BY <2>1 DEF ParentsIn, Grows
  <2>3. QED
    BY <2>1, <2>2 DEF ParentClosed
<1>2. Other(q) \in Peers
  BY OtherIs
<1>3. /\ store[q].held \subseteq store'[q].held
      /\ store[Other(q)].held \subseteq store'[Other(q)].held
      /\ DOMAIN parents \subseteq DOMAIN parents'
  BY <1>2 DEF Grows
<1>4. Seq(store[Other(q)].held) \subseteq Seq(store'[Other(q)].held)
  BY <1>3
<1>5. SaidBy(q) \subseteq SaidBy(q)'
  <2>1. PICK heads, new : heads = store[q].held \cup {NoHead} /\ new = store'[q].held \cup {NoHead}
    OBVIOUS
  <2>2. heads \subseteq new
    BY <1>3, <2>1
  <2>3. /\ [type : {"summary"}, vault : VaultIds \cup {NoVault}, head : heads]
            \subseteq [type : {"summary"}, vault : VaultIds \cup {NoVault}, head : new]
        /\ [type : {"history"}, revisions : Histories(q)]
            \subseteq [type : {"history"}, revisions : Histories(q)']
        /\ [type : {"wants"}, order : Seq(store[Other(q)].held)]
            \subseteq [type : {"wants"}, order : Seq(store'[Other(q)].held)]
    BY <1>1, <1>4, <2>2, Zenon
  <2>4. /\ [type : {"header"}, seq : Nat, revision : store[q].held]
            \subseteq [type : {"header"}, seq : Nat, revision : store'[q].held]
        /\ [type : {"ack"}, revision : store[q].held, accepted : {TRUE}]
            \subseteq [type : {"ack"}, revision : store'[q].held, accepted : {TRUE}]
        /\ [type : {"ack"}, revision : DOMAIN parents, accepted : {FALSE}]
            \subseteq [type : {"ack"}, revision : DOMAIN parents', accepted : {FALSE}]
    BY <1>3, Zenon
  <2>5. QED
    BY <2>1, <2>3, <2>4, ZenonT(60) DEF SaidBy
<1>6. QED
  BY <1>1, <1>3, <1>5 DEF Entries

(* ... and what a session remembers with it.                               *)
LEMMA SessionStays ==
    ASSUME StoresSound, Grows, NEW p \in Peers
    PROVE  SessionsWith(p, Other(p)) \subseteq SessionsWith(p, Other(p))'
<1>1. PICK q \in Peers : q = Other(p)
  BY OtherIs
<1>2. /\ Histories(q) \subseteq Histories(q)' /\ SaidBy(q) \subseteq SaidBy(q)'
      /\ Entries(q) \subseteq Entries(q)'
  BY SaidStays
<1>3. store[q].held \subseteq store'[q].held /\ store[p].held \subseteq store'[p].held
  BY DEF Grows
<1>4. /\ Seq(store[p].held) \subseteq Seq(store'[p].held)
      /\ Seq(store[q].held) \subseteq Seq(store'[q].held)
  BY <1>3
<1>5. SessionsWith(p, q) \subseteq SessionsWith(p, q)'
  BY <1>2, <1>3, <1>4 DEF SessionsWith
<1>6. QED
  BY <1>1, <1>5

(* The control stream after a message was sent.                            *)
LEMMA SentSound ==
    ASSUME SoundInv, Grows, NEW p \in Peers, NEW m \in SaidBy(p)', Sends(p, <<m>>)
    PROVE  ControlSound'
<1>1. DOMAIN ctl = Peers /\ \A x \in Peers : ctl[x] \in Seq(SaidBy(Other(x))')
  BY SaidStays, OtherIs DEF SoundInv, ControlSound
<1>2. PICK q \in Peers : q = Other(p) /\ p = Other(q)
  BY OtherIs
<1>3. ctl[q] \o <<m>> \in Seq(SaidBy(p)')
  <2>1. ctl[q] \in Seq(SaidBy(p)')
    BY <1>1, <1>2
  <2>2. QED
    BY <2>1
<1>4. ctl' = ctl \/ ctl' = [ctl EXCEPT ![q] = ctl[q] \o <<m>>]
  BY <1>2 DEF Sends
<1>5. QED
  BY <1>1, <1>2, <1>3, <1>4 DEF ControlSound

(* ... after one was received ...                                          *)
LEMMA ReceivedSound ==
    ASSUME SoundInv, Grows, NEW p \in Peers, ctl[p] # <<>>, Received(p)
    PROVE  ControlSound' /\ Head(ctl[p]) \in SaidBy(Other(p))
<1>1. DOMAIN ctl = Peers /\ \A x \in Peers : ctl[x] \in Seq(SaidBy(Other(x))')
  BY SaidStays, OtherIs DEF SoundInv, ControlSound
<1>2. PICK S : S = SaidBy(Other(p))'
  OBVIOUS
<1>3. ctl[p] \in Seq(S) /\ Tail(ctl[p]) \in Seq(S)
  BY <1>1, <1>2, HeadTailProperties
<1>4. PICK S0 : S0 = SaidBy(Other(p))
  OBVIOUS
<1>5. ctl[p] \in Seq(S0)
  BY <1>4 DEF SoundInv, ControlSound
<1>6. Head(ctl[p]) \in S0
  BY <1>5, HeadTailProperties
<1>7. ControlSound'
  BY <1>1, <1>2, <1>3 DEF ControlSound, Received
<1>8. QED
  BY <1>4, <1>6, <1>7

(* ... and when nothing was.                                               *)
LEMMA KeptSound ==
    ASSUME SoundInv, Grows, UNCHANGED ctl
    PROVE  ControlSound'
  BY SaidStays, OtherIs DEF SoundInv, ControlSound

(* One session changes.                                                    *)
LEMMA SessionSound ==
    ASSUME SoundInv, HistorySound', StoresSound', Grows, ControlSound', BulkSound',
           NEW p \in Peers, NEW s \in SessionsWith(p, Other(p))',
           s.expected \subseteq s.asked, s.phase # "start", Becomes(p, s)
    PROVE  SoundInv'
<1>1. ASSUME NEW x \in Peers PROVE session[x] \in SessionsWith(x, Other(x))'
  BY SessionStays DEF SoundInv, SessionsSound
<1>2. DOMAIN session = Peers /\ session' = [session EXCEPT ![p] = s]
  BY DEF SoundInv, SessionsSound, Becomes
<1>3. SessionsSound'
  <2>1. DOMAIN session' = Peers /\ session'[p] = s /\ \A x \in Peers \ {p} : session'[x] = session[x]
    BY <1>2
  <2>2. QED
    BY <1>1, <2>1 DEF SoundInv, SessionsSound
<1>4. QED
  BY <1>3 DEF SoundInv

(* The facts about a session that its steps start from.                    *)
LEMMA SessionFacts ==
    ASSUME SoundInv, Grows, NEW p \in Peers
    PROVE  /\ session[p] \in SessionsWith(p, Other(p))'
           /\ session[p] \in SessionsWith(p, Other(p))
           /\ session[p].expected \subseteq session[p].asked
           /\ \A type : HasMail(session[p], type) =>
                 /\ Mail(session[p], type) \in SaidBy(Other(p))
                 /\ Mail(session[p], type) \in session[p].mail
                 /\ Mail(session[p], type).type = type
<1>1. session[p] \in SessionsWith(p, Other(p)) /\ session[p].expected \subseteq session[p].asked
  BY DEF SoundInv, SessionsSound
<1>2. session[p].mail \subseteq SaidBy(Other(p))
  BY <1>1 DEF SessionsWith
<1>3. \A type : HasMail(session[p], type) =>
         Mail(session[p], type) \in session[p].mail /\ Mail(session[p], type).type = type
  BY DEF HasMail, Mail
<1>4. QED
  BY <1>1, <1>2, <1>3, SessionStays DEF SoundInv

-----------------------------------------------------------------------------
(* A session that fails, and an inbox that does.                           *)
LEMMA FailedSound ==
    ASSUME NEW p \in Peers, NEW s \in SessionsWith(p, Other(p))', s.expected \subseteq s.asked,
           s.phase # "start"
    PROVE  /\ Failed(s) \in SessionsWith(p, Other(p))'
           /\ Failed(s).expected \subseteq Failed(s).asked /\ Failed(s).phase # "start"
           /\ InboxFails(s) \in SessionsWith(p, Other(p))'
           /\ InboxFails(s).expected \subseteq InboxFails(s).asked /\ InboxFails(s).phase # "start"
<1>1. "failed" \in Phases /\ "failed" # "start"
  BY DEF Phases, Ended
<1>2. /\ Failed(s) \in SessionsWith(p, Other(p))'
      /\ Failed(s).expected \subseteq Failed(s).asked /\ Failed(s).phase # "start"
  BY <1>1 DEF Failed, SessionsWith
<1>3. PICK t \in SessionsWith(p, Other(p))' : t = [s EXCEPT !.failure = TRUE]
  BY DEF SessionsWith
<1>4. t.expected \subseteq t.asked /\ t.phase # "start"
  BY <1>3 DEF SessionsWith
<1>5. InboxFails(s) = Failed(s) \/ InboxFails(s) = t
  BY <1>3 DEF InboxFails
<1>6. QED
  BY <1>2, <1>3, <1>4, <1>5

(* The steps that only end a session or wait for something keep what is    *)
(* said and remembered true.                                               *)
LEMMA FailingSound ==
    ASSUME SoundInv, NEW p \in Peers,
           \/ HelloRefused(p) \/ PeerRefused(p) \/ VaultRefused(p) \/ ReadFails(p)
           \/ ConcludeFails(p) \/ Timeout(p) \/ ExpectRejected(p)
    PROVE  SoundInv'
<1> DEFINE s == session[p]
<1>0. UNCHANGED <<parents, store, bulk>> /\ Becomes(p, Failed(s))
  BY DEF HelloRefused, PeerRefused, VaultRefused, ReadFails, ConcludeFails, Timeout, ExpectRejected
<1>1. HistorySound /\ StoresSound /\ BulkSound
  BY DEF SoundInv
<1>2. Grows /\ HistorySound' /\ StoresSound' /\ BulkSound'
  BY <1>0, <1>1, StillGrows DEF BulkSound
<1>3. s.phase # "start"
  BY DEF HelloRefused, PeerRefused, VaultRefused, ReadFails, ConcludeFails, Timeout,
         ExpectRejected, Answered, ReadyToConclude, Expecting
<1>4. ControlSound'
  <2>1. [type |-> "error"] \in SaidBy(p)'
    BY DEF SaidBy
  <2>2. UNCHANGED ctl \/ Sends(p, << [type |-> "error"] >>)
    BY DEF HelloRefused, PeerRefused, VaultRefused, ReadFails, ConcludeFails, Timeout, ExpectRejected
  <2>3. QED
    BY <1>2, <2>1, <2>2, SentSound, KeptSound
<1>5. s \in SessionsWith(p, Other(p))' /\ s.expected \subseteq s.asked
  BY <1>2, SessionFacts
<1>6. QED
  BY <1>0, <1>2, <1>3, <1>4, <1>5, FailedSound, SessionSound

(* So do the steps of the handshake.                                       *)
LEMMA HandshakeSound ==
    ASSUME SoundInv, NEW p \in Peers,
           \/ \E version \in Versions : Start(p, version)
           \/ HelloAnswered(p) \/ Verify(p) \/ PeerAccepted(p)
    PROVE  SoundInv'
<1> DEFINE s == session[p]
<1>0. UNCHANGED <<parents, store, bulk>>
  BY DEF Start, HelloAnswered, Verify, PeerAccepted
<1>1. HistorySound /\ StoresSound /\ BulkSound
  BY DEF SoundInv
<1>2. Grows /\ HistorySound' /\ StoresSound' /\ BulkSound'
  BY <1>0, <1>1, StillGrows DEF BulkSound
<1>3. s \in SessionsWith(p, Other(p))' /\ s.expected \subseteq s.asked
  BY <1>2, SessionFacts
<1>4. {"hello", "auth", "verifying", "summary"} \subseteq Phases
  BY DEF Phases, Expecting
<1>5. CASE HelloAnswered(p)
  <2>1. [type |-> "auth"] \in SaidBy(p)'
    BY DEF SaidBy
  <2>2. ControlSound'
    BY <1>2, <1>5, <2>1, SentSound DEF HelloAnswered
  <2>3. PICK t \in SessionsWith(p, Other(p))' : t = [s EXCEPT !.phase = "auth"]
    BY <1>3, <1>4 DEF SessionsWith
  <2>4. t.expected \subseteq t.asked /\ t.phase # "start" /\ Becomes(p, t)
    BY <1>3, <1>5, <2>3 DEF HelloAnswered, SessionsWith
  <2>5. QED
    BY <1>2, <2>2, <2>4, SessionSound
<1>6. CASE Verify(p)
  <2>1. ControlSound'
    BY <1>2, <1>6, KeptSound DEF Verify
  <2>2. PICK t \in SessionsWith(p, Other(p))' : t = [s EXCEPT !.phase = "verifying"]
    BY <1>3, <1>4 DEF SessionsWith
  <2>3. t.expected \subseteq t.asked /\ t.phase # "start" /\ Becomes(p, t)
    BY <1>3, <1>6, <2>2 DEF Verify, SessionsWith
  <2>4. QED
    BY <1>2, <2>1, <2>3, SessionSound
<1>7. CASE PeerAccepted(p)
  <2>1. [type |-> "summary", vault |-> store[p].vault, head |-> store[p].head] \in SaidBy(p)'
    BY <1>0, <1>1 DEF SaidBy, StoresSound, Store
  <2>2. ControlSound'
    BY <1>2, <1>7, <2>1, SentSound DEF PeerAccepted
  <2>3. PICK t \in SessionsWith(p, Other(p))' : t = [s EXCEPT !.phase = "summary"]
    BY <1>3, <1>4 DEF SessionsWith
  <2>4. t.expected \subseteq t.asked /\ t.phase # "start" /\ Becomes(p, t)
    BY <1>3, <1>7, <2>3 DEF PeerAccepted, SessionsWith
  <2>5. QED
    BY <1>2, <2>2, <2>4, SessionSound
<1>8. CASE \E version \in Versions : Start(p, version)
  <2>1. PICK version \in Versions : Start(p, version)
    BY <1>8
  <2>2. [type |-> "hello", version |-> version] \in SaidBy(p)'
    BY DEF SaidBy
  <2>3. ControlSound'
    <3>1. DOMAIN ctl = Peers /\ \A x \in Peers : ctl[x] \in Seq(SaidBy(Other(x))')
      BY <1>2, SaidStays, OtherIs DEF SoundInv, ControlSound
    <3>2. PICK q \in Peers : q = Other(p) /\ p = Other(q)
      BY OtherIs
    <3>3. PICK S : S = SaidBy(p)'
      OBVIOUS
    <3>4. Append(ctl[q], [type |-> "hello", version |-> version]) \in Seq(S)
      BY <2>2, <3>1, <3>2, <3>3
    <3>5. QED
      BY <2>1, <3>1, <3>2, <3>3, <3>4 DEF ControlSound, Start
  <2>4. s = NewSession
    BY <2>1 DEF Start, SoundInv, SessionsSound
  <2>5. PICK t \in SessionsWith(p, Other(p))' :
          t = [s EXCEPT !.phase = "hello", !.version = version, !.live = TRUE]
    BY <1>3, <1>4 DEF SessionsWith
  <2>6. t.expected \subseteq t.asked /\ t.phase # "start"
    BY <1>3, <2>5 DEF SessionsWith
  <2>7. Becomes(p, t)
    BY <2>1, <2>4, <2>5 DEF Start
  <2>8. QED
    BY <1>2, <2>3, <2>6, <2>7, SessionSound
<1>9. QED
  BY <1>5, <1>6, <1>7, <1>8

(* So do the steps that compare the vaults and the histories: what is      *)
(* requested is what the other device announced (computeWants).            *)
LEMMA CompareSound ==
    ASSUME SoundInv, NEW p \in Peers,
           VaultAgreed(p) \/ RequestMissing(p) \/ BeginTransfer(p)
    PROVE  SoundInv'
<1> DEFINE s == session[p]
<1>0. UNCHANGED <<parents, bulk>>
  BY DEF VaultAgreed, RequestMissing, BeginTransfer
<1>1. HistorySound /\ StoresSound /\ BulkSound
  BY DEF SoundInv
<1>2. PICK q \in Peers : q = Other(p) /\ p = Other(q) /\ p # q
  BY OtherIs
<1>3. {"history", "wants", "transfer"} \subseteq Phases
  BY DEF Phases, Expecting
<1>4. CASE VaultAgreed(p)
  <2>1. HasMail(s, "summary")
    BY <1>4 DEF VaultAgreed, Answered
  <2>2. PICK m : m = Mail(s, "summary")
    OBVIOUS
  <2>3. s.mail \subseteq SaidBy(q) /\ m \in s.mail /\ m.type = "summary"
    BY <1>2, <2>1, <2>2 DEF HasMail, Mail, SoundInv, SessionsSound, SessionsWith
  <2>4. m.vault \in VaultIds \cup {NoVault} /\ m.head \in store[q].held \cup {NoHead}
    BY <2>3 DEF SaidBy
  <2>5. store' = store \/ store' = [store EXCEPT ![p].vault = m.vault]
    BY <1>4, <2>2 DEF VaultAgreed
  <2>6. \A x \in Peers : store'[x].held = store[x].held /\ store'[x].head = store[x].head
    BY <1>1, <2>5 DEF StoresSound, Store
  <2>7. store' \in [Peers -> Store]
    <3>1. store \in [Peers -> Store]
      BY <1>1 DEF StoresSound
    <3>2. [store[p] EXCEPT !.vault = m.vault] \in Store
      BY <2>4, <3>1 DEF Store
    <3>3. QED
      BY <2>5, <3>1, <3>2
  <2>8. Grows /\ HistorySound' /\ StoresSound' /\ BulkSound'
    BY <1>0, <1>1, <2>6, <2>7 DEF Grows, HistorySound, StoresSound, BulkSound
  <2>9. s \in SessionsWith(p, Other(p))' /\ s.expected \subseteq s.asked
    BY <2>8, SessionFacts
  <2>10. ControlSound'
    <3>1. store[p].held \in Histories(p)'
      BY <1>0, <1>1, <2>6 DEF Histories, StoresSound
    <3>2. PICK n \in SaidBy(p)' : n = [type |-> "history", revisions |-> store[p].held]
      BY <3>1 DEF SaidBy
    <3>3. QED
      BY <1>4, <2>8, <3>2, SentSound DEF VaultAgreed
  <2>11. PICK h \in (store'[q].held \cup {NoHead}) : h = m.head
    BY <2>4, <2>6
  <2>12. PICK t \in SessionsWith(p, q)' : t = [s EXCEPT !.phase = "history", !.remoteHead = h]
    BY <1>2, <1>3, <2>9, <2>11, ZenonT(60) DEF SessionsWith
  <2>13. t.expected \subseteq t.asked /\ t.phase # "start" /\ Becomes(p, t)
    BY <1>2, <1>4, <2>2, <2>9, <2>11, <2>12 DEF VaultAgreed, SessionsWith
  <2>14. QED
    BY <1>2, <2>8, <2>10, <2>12, <2>13, SessionSound
<1>5. CASE RequestMissing(p)
  <2>1. Grows /\ HistorySound' /\ StoresSound' /\ BulkSound' /\ UNCHANGED store
    BY <1>0, <1>1, <1>5, StillGrows DEF RequestMissing, BulkSound
  <2>2. s \in SessionsWith(p, q)' /\ s.expected \subseteq s.asked
    BY <1>2, <2>1, SessionFacts
  <2>3. HasMail(s, "history")
    BY <1>5 DEF RequestMissing, Answered
  <2>4. PICK m \in SaidBy(q) : m = Mail(s, "history") /\ m.type = "history"
    BY <1>2, <2>1, <2>3, SessionFacts
  <2>5. PICK ids \in Histories(q) : ids = m.revisions
    BY <2>4 DEF SaidBy
  <2>6. ids \subseteq store[q].held /\ ids \subseteq DOMAIN parents
    BY <1>1, <2>5 DEF Histories, StoresSound
  <2> DEFINE known == [s EXCEPT !.remoteIds = ids]
  <2>7. known.remoteIds = ids
    BY <2>2 DEF SessionsWith
  <2>8. PICK wants \in Seq(store[q].held) :
          /\ wants = Wants(p, known) /\ Elems(wants) \subseteq Ids
    <3>1. ids \subseteq Ids
      BY <1>1, <2>6 DEF HistorySound
    <3>2. CASE known.remoteHead = NoHead
      <4>1. Wants(p, known) = <<>> /\ <<>> \in Seq(store[q].held) /\ Elems(<<>>) \subseteq Ids
        BY <3>2, EmptySeq DEF Wants, Elems
      <4>2. QED
        BY <4>1
    <3>3. CASE known.remoteHead # NoHead
      <4>0. RemoteGraph(known) = [r \in ids |-> parents[r]]
        <5> HIDE DEF known
        <5>1. QED
          BY <2>7 DEF RemoteGraph
      <4>1. PICK graph : graph = RemoteGraph(known) /\ DOMAIN graph = ids
        <5> HIDE DEF known
        <5>1. QED
          BY <4>0
      <4>2. IsFiniteSet(DOMAIN graph) /\ DOMAIN graph \subseteq Elems(IdOrder) /\ OrderOf(IdOrder)
        BY <3>1, <4>1, IdsFinite, FS_Subset DEF Ids
      <4>3. Wants(p, known) =
              missingRevisions(graph, IdOrder, known.remoteHead, store[p].held).ordered
        BY <3>3, <4>1 DEF Wants
      <4>4. Wants(p, known) \in Seq(DOMAIN graph \ store[p].held)
        BY <4>2, <4>3, MissingWithin
      <4>5. PICK w \in Seq(ids) : w = Wants(p, known)
        BY <4>1, <4>4
      <4>6. w \in Seq(store[q].held) /\ Elems(w) \subseteq Ids
        BY <2>6, <3>1 DEF Elems
      <4>7. QED
        BY <4>5, <4>6
    <3>4. QED
      BY <3>2, <3>3
  <2>9. /\ Becomes(p, [known EXCEPT !.phase = "wants", !.expected = Elems(wants),
                                    !.asked = Elems(wants)])
        /\ Sends(p, << [type |-> "wants", order |-> wants] >>)
    BY <1>5, <2>4, <2>5, <2>8 DEF RequestMissing
  <2>10. ControlSound'
    <3>1. PICK n \in SaidBy(p)' : n = [type |-> "wants", order |-> wants]
      BY <1>2, <2>1, <2>8 DEF SaidBy
    <3>2. QED
      BY <2>1, <2>9, <3>1, SentSound
  <2>11. PICK new \in SUBSET Ids : new = Elems(wants)
    BY <2>8
  <2>12. ids \in Histories(q)'
    BY <2>1, <2>5, SaidStays, <1>1
  <2>13. PICK t \in SessionsWith(p, q)' :
           t = [s EXCEPT !.remoteIds = ids, !.phase = "wants", !.expected = new, !.asked = new]
    BY <1>3, <2>2, <2>12 DEF SessionsWith
  <2>14. t.expected \subseteq t.asked /\ t.phase # "start"
    BY <2>2, <2>13 DEF SessionsWith
  <2>15. Becomes(p, t)
    BY <2>9, <2>11, <2>13
  <2>16. QED
    BY <1>2, <2>1, <2>10, <2>14, <2>15, SessionSound
<1>6. CASE BeginTransfer(p)
  <2>1. Grows /\ HistorySound' /\ StoresSound' /\ BulkSound' /\ UNCHANGED store
    BY <1>0, <1>1, <1>6, StillGrows DEF BeginTransfer, BulkSound
  <2>2. s \in SessionsWith(p, q)' /\ s.expected \subseteq s.asked
    BY <1>2, <2>1, SessionFacts
  <2>3. HasMail(s, "wants")
    BY <1>6 DEF BeginTransfer, Answered
  <2>4. PICK m \in SaidBy(q) : m = Mail(s, "wants") /\ m.type = "wants"
    BY <1>2, <2>1, <2>3, SessionFacts
  <2>5. PICK order \in Seq(store'[p].held) : order = m.order
    BY <1>2, <2>1, <2>4 DEF SaidBy
  <2>6. ControlSound'
    BY <1>6, <2>1, KeptSound DEF BeginTransfer
  <2>7. PICK t \in SessionsWith(p, q)' : t = [s EXCEPT !.phase = "transfer", !.serving = order]
    BY <1>3, <2>2, <2>5 DEF SessionsWith
  <2>8. t.expected \subseteq t.asked /\ t.phase # "start" /\ Becomes(p, t)
    BY <1>6, <2>2, <2>4, <2>5, <2>7 DEF BeginTransfer, SessionsWith
  <2>9. QED
    BY <1>2, <2>1, <2>6, <2>8, SessionSound
<1>7. QED
  BY <1>4, <1>5, <1>6

(* A session that has not started yet is not connected and stores nothing. *)
LEMMA Started ==
    ASSUME SoundInv, NEW p \in Peers, session[p].live \/ session[p].ingests # <<>>
    PROVE  session[p].phase # "start"
  BY DEF SoundInv, SessionsSound, NewSession

(* A revision's chunks are put together.                                   *)
LEMMA AssembledSound ==
    ASSUME NEW p \in Peers, NEW q \in Peers, NEW s \in SessionsWith(p, q)',
           NEW entry \in Entries(q)'
    PROVE  /\ Assembled(s, entry) \in SessionsWith(p, q)'
           /\ Assembled(s, entry).expected = s.expected /\ Assembled(s, entry).asked = s.asked
           /\ Assembled(s, entry).phase = s.phase
<1>1. PICK rest \in SUBSET Entries(q)' : rest = {e \in s.assembling : e.seq # entry.seq}
  BY DEF SessionsWith
<1>2. rest \cup {entry} \in SUBSET Entries(q)'
  OBVIOUS
<1>3. PICK queue \in Seq(store'[q].held) : queue = Append(s.ingests, entry.revision)
  <2>1. PICK S : S = store'[q].held
    OBVIOUS
  <2>2. s.ingests \in Seq(S)
    BY <2>1 DEF SessionsWith
  <2>3. entry.revision \in S
    BY <2>1 DEF Entries
  <2>4. Append(s.ingests, entry.revision) \in Seq(S)
    BY <2>2, <2>3
  <2>5. QED
    BY <2>1, <2>4
<1>4. \/ Assembled(s, entry) = [s EXCEPT !.assembling = rest, !.ingests = queue]
      \/ Assembled(s, entry) = [s EXCEPT !.assembling = rest \cup {entry}]
  BY <1>1, <1>3 DEF Assembled
<1>5. CASE Assembled(s, entry) = [s EXCEPT !.assembling = rest, !.ingests = queue]
  BY <1>5, ZenonT(60) DEF SessionsWith
<1>6. CASE Assembled(s, entry) = [s EXCEPT !.assembling = rest \cup {entry}]
  BY <1>2, <1>6, ZenonT(60) DEF SessionsWith
<1>7. QED
  BY <1>4, <1>5, <1>6

(* Serving a revision keeps what is said true: the device holds it.        *)
LEMMA ServeSound ==
    ASSUME SoundInv, NEW p \in Peers, ServeNext(p) \/ FinishTransfer(p)
    PROVE  SoundInv'
<1> DEFINE s == session[p]
<1>0. UNCHANGED <<parents, store>>
  BY DEF ServeNext, FinishTransfer
<1>1. HistorySound /\ StoresSound /\ BulkSound
  BY DEF SoundInv
<1>2. Grows /\ HistorySound' /\ StoresSound'
  BY <1>0, <1>1, StillGrows
<1>3. PICK q \in Peers : q = Other(p) /\ p = Other(q) /\ p # q
  BY OtherIs
<1>4. s \in SessionsWith(p, q)' /\ s.expected \subseteq s.asked
  BY <1>2, <1>3, SessionFacts
<1>5. CASE FinishTransfer(p)
  <2>1. "completing" \in Phases
    BY DEF Phases
  <2>2. [type |-> "complete"] \in SaidBy(p)'
    BY DEF SaidBy
  <2>3. ControlSound' /\ BulkSound'
    BY <1>1, <1>2, <1>5, <2>2, SentSound DEF FinishTransfer, BulkSound
  <2>4. PICK t \in SessionsWith(p, q)' : t = [s EXCEPT !.phase = "completing"]
    BY <1>4, <2>1 DEF SessionsWith
  <2>5. t.expected \subseteq t.asked /\ t.phase # "start" /\ Becomes(p, t)
    BY <1>4, <1>5, <2>4 DEF FinishTransfer, SessionsWith
  <2>6. QED
    BY <1>2, <1>3, <2>3, <2>5, SessionSound
<1>6. CASE ServeNext(p)
  <2>1. PICK S : S = store[p].held
    OBVIOUS
  <2>2. s.serving \in Seq(S) /\ s.serving # <<>> /\ s.phase = "transfer"
    BY <1>0, <1>4, <1>6, <2>1 DEF ServeNext, SessionsWith
  <2>3. PICK r \in S, more \in Seq(S) : r = Head(s.serving) /\ more = Tail(s.serving)
    BY <2>2, HeadTailProperties
  <2>4. PICK n \in Nat : n = s.transferSeq + 1
    BY <1>4 DEF SessionsWith
  <2>5. PICK t \in SessionsWith(p, q)' :
          t = [s EXCEPT !.serving = more, !.awaiting = r, !.transferSeq = n]
    BY <1>0, <1>4, <2>1, ZenonT(60) DEF SessionsWith
  <2>6. t.expected \subseteq t.asked /\ t.phase # "start"
    BY <1>4, <2>2, <2>5 DEF SessionsWith
  <2>7. /\ Becomes(p, t)
        /\ Sends(p, << [type |-> "header", seq |-> n, revision |-> r] >>)
        /\ bulk' = bulk \/ bulk' = [bulk EXCEPT ![q] = @ \o ChunkFrames(n)]
    BY <1>3, <1>4, <1>6, <2>1, <2>3, <2>4, <2>5 DEF ServeNext, SessionsWith
  <2>8. PICK m \in SaidBy(p)' : m = [type |-> "header", seq |-> n, revision |-> r]
    BY <1>0, <2>1 DEF SaidBy
  <2>9. ControlSound'
    BY <1>2, <2>7, <2>8, SentSound
  <2>10. BulkSound'
    <3>1. \A i \in 1..Chunks : [seq |-> n, chunk |-> i] \in AllFrames
      BY DEF AllFrames
    <3>2. PICK F : F = AllFrames
      OBVIOUS
    <3>3. ChunkFrames(n) \in Seq(F)
      BY <3>1, <3>2, SessionAssumption DEF ChunkFrames
    <3>4. bulk \in [Peers -> Seq(F)]
      BY <1>1, <3>2 DEF BulkSound
    <3>5. bulk[q] \o ChunkFrames(n) \in Seq(F)
      BY <3>3, <3>4
    <3>6. QED
      BY <2>7, <3>2, <3>4, <3>5 DEF BulkSound
  <2>11. QED
    BY <1>2, <1>3, <2>6, <2>7, <2>9, <2>10, SessionSound
<1>7. QED
  BY <1>5, <1>6

(* So does receiving a message: what it says is remembered.                *)
LEMMA ReceiveSound ==
    ASSUME SoundInv, NEW p \in Peers,
           \/ ReceiveReply(p) \/ ReceiveError(p) \/ ReceiveUnparsable(p)
           \/ ReceiveHeader(p) \/ ReceiveAck(p) \/ ReceiveComplete(p)
    PROVE  SoundInv'
<1> DEFINE s == session[p]
<1>0. UNCHANGED <<parents, store, bulk>> /\ ctl[p] # <<>> /\ Received(p) /\ s.live
  BY DEF ReceiveReply, ReceiveError, ReceiveUnparsable, ReceiveHeader, ReceiveAck,
         ReceiveComplete, CanReceive, Listens
<1>1. HistorySound /\ StoresSound /\ BulkSound
  BY DEF SoundInv
<1>2. Grows /\ HistorySound' /\ StoresSound' /\ BulkSound'
  BY <1>0, <1>1, StillGrows DEF BulkSound
<1>3. PICK q \in Peers : q = Other(p) /\ p = Other(q) /\ p # q
  BY OtherIs
<1>4. s \in SessionsWith(p, q)' /\ s.expected \subseteq s.asked /\ s.phase # "start"
  BY <1>0, <1>2, <1>3, SessionFacts, Started
<1>5. ControlSound' /\ Head(ctl[p]) \in SaidBy(q)
  BY <1>0, <1>2, <1>3, ReceivedSound
<1>6. PICK m \in SaidBy(q)' : m = Head(ctl[p])
  BY <1>1, <1>2, <1>5, SaidStays
<1>7. ASSUME NEW t \in SessionsWith(p, q)', t.expected \subseteq t.asked, t.phase # "start",
             Becomes(p, t)
      PROVE  SoundInv'
  BY <1>2, <1>3, <1>5, <1>7, SessionSound
<1>8. CASE ReceiveReply(p)
  <2>1. PICK mail \in SUBSET SaidBy(q)' : mail = s.mail \cup {m}
    BY <1>4 DEF SessionsWith
  <2>2. PICK t \in SessionsWith(p, q)' : t = [s EXCEPT !.mail = mail]
    BY <1>4 DEF SessionsWith
  <2>3. t.expected \subseteq t.asked /\ t.phase # "start" /\ Becomes(p, t)
    BY <1>4, <1>6, <1>8, <2>1, <2>2 DEF ReceiveReply, SessionsWith
  <2>4. QED
    BY <1>7, <2>3
<1>9. CASE ReceiveError(p) \/ ReceiveUnparsable(p)
  <2>1. Becomes(p, InboxFails(s))
    BY <1>9 DEF ReceiveError, ReceiveUnparsable
  <2>2. QED
    BY <1>3, <1>4, <1>7, <2>1, FailedSound
<1>10. CASE ReceiveHeader(p)
  <2> DEFINE early == {f \in s.orphans : f.seq = m.seq}
  <2>1. m.type = "header"
    BY <1>6, <1>10 DEF ReceiveHeader, CanReceive
  <2>2. m.seq \in Nat /\ m.revision \in store'[q].held
    BY <2>1 DEF SaidBy
  <2>3. PICK got \in SUBSET (1..Chunks) : got = {f.chunk : f \in early}
    <3>1. \A f \in s.orphans : f \in AllFrames
      BY <1>4 DEF SessionsWith
    <3>2. \A f \in early : f.chunk \in 1..Chunks
      BY <3>1 DEF AllFrames
    <3> HIDE DEF early
    <3>3. {f.chunk : f \in early} \subseteq 1..Chunks
      BY <3>2
    <3>4. QED
      BY <3>3
  <2>4. PICK entry \in Entries(q)' :
          entry = [seq |-> m.seq, revision |-> m.revision, got |-> got]
    BY <2>2 DEF Entries
  <2>5. PICK left \in SUBSET AllFrames : left = s.orphans \ early
    BY <1>4 DEF SessionsWith
  <2>6. PICK u \in SessionsWith(p, q)' : u = [s EXCEPT !.orphans = left]
    BY <1>4 DEF SessionsWith
  <2>7. u.expected \subseteq u.asked /\ u.phase # "start"
    BY <1>4, <2>6 DEF SessionsWith
  <2>8. Becomes(p, Assembled(u, entry))
    BY <1>6, <1>10, <2>3, <2>4, <2>5, <2>6 DEF ReceiveHeader
  <2>9. QED
    BY <1>7, <2>7, <2>8, AssembledSound
<1>11. CASE ReceiveAck(p)
  <2>1. m.type = "ack"
    BY <1>6, <1>11 DEF ReceiveAck, CanReceive
  <2>2. m.accepted => m.revision \in store'[q].held
    BY <2>1 DEF SaidBy
  <2>3. PICK sent \in SUBSET store'[q].held :
          sent = IF m.accepted THEN s.sent \cup {m.revision} ELSE s.sent
    BY <1>4, <2>2 DEF SessionsWith
  <2>4. PICK awaiting \in store'[p].held \cup {NoHead} :
          awaiting = IF s.awaiting = m.revision THEN NoHead ELSE s.awaiting
    BY <1>4 DEF SessionsWith
  <2>5. PICK t \in SessionsWith(p, q)' : t = [s EXCEPT !.awaiting = awaiting, !.sent = sent]
    BY <1>4 DEF SessionsWith
  <2>6. t.expected \subseteq t.asked /\ t.phase # "start"
    BY <1>4, <2>5 DEF SessionsWith
  <2>7. Becomes(p, t)
    BY <1>6, <1>11, <2>3, <2>4, <2>5 DEF ReceiveAck
  <2>8. QED
    BY <1>7, <2>6, <2>7
<1>12. CASE ReceiveComplete(p)
  <2>1. PICK t \in SessionsWith(p, q)' : t = [s EXCEPT !.peerCompleted = TRUE]
    BY <1>4 DEF SessionsWith
  <2>2. t.expected \subseteq t.asked /\ t.phase # "start" /\ Becomes(p, t)
    BY <1>4, <1>12, <2>1 DEF ReceiveComplete, SessionsWith
  <2>3. QED
    BY <1>7, <2>2
<1>13. QED
  BY <1>8, <1>9, <1>10, <1>11, <1>12

(* So do a frame that arrives and a link that goes down.                   *)
LEMMA FrameSound ==
    ASSUME SoundInv, NEW p \in Peers, ReceiveFrame(p) \/ Close(p)
    PROVE  SoundInv'
<1> DEFINE s == session[p]
<1>0. UNCHANGED <<parents, store, ctl>> /\ s.live
  BY DEF ReceiveFrame, Close
<1>1. HistorySound /\ StoresSound /\ BulkSound
  BY DEF SoundInv
<1>2. Grows /\ HistorySound' /\ StoresSound'
  BY <1>0, <1>1, StillGrows
<1>3. PICK q \in Peers : q = Other(p) /\ p = Other(q) /\ p # q
  BY OtherIs
<1>4. s \in SessionsWith(p, q)' /\ s.expected \subseteq s.asked /\ s.phase # "start"
  BY <1>0, <1>2, <1>3, SessionFacts, Started
<1>5. ControlSound'
  BY <1>0, <1>2, KeptSound
<1>6. CASE Close(p)
  <2>1. PICK t \in SessionsWith(p, q)' : t = InboxFails(s) /\ t.expected \subseteq t.asked /\ t.phase # "start"
    BY <1>3, <1>4, FailedSound
  <2>2. PICK u \in SessionsWith(p, q)' : u = [t EXCEPT !.live = FALSE]
    BY DEF SessionsWith
  <2>3. u.expected \subseteq u.asked /\ u.phase # "start"
    BY <2>1, <2>2 DEF SessionsWith
  <2>4. Becomes(p, u) /\ BulkSound'
    BY <1>1, <1>6, <2>1, <2>2 DEF Close, BulkSound
  <2>5. QED
    BY <1>2, <1>3, <1>5, <2>3, <2>4, SessionSound
<1>7. CASE ReceiveFrame(p)
  <2>1. PICK F : F = AllFrames
    OBVIOUS
  <2>2. bulk \in [Peers -> Seq(F)] /\ bulk[p] # <<>>
    BY <1>1, <1>7, <2>1 DEF BulkSound, ReceiveFrame
  <2>3. PICK f \in F, more \in Seq(F) : f = Head(bulk[p]) /\ more = Tail(bulk[p])
    BY <2>2, HeadTailProperties
  <2>4. BulkSound'
    BY <1>7, <2>1, <2>2, <2>3 DEF BulkSound, ReceiveFrame
  <2> DEFINE entries == {e \in s.assembling : e.seq = f.seq}
             t == IF entries # {}
                  THEN Assembled(s, [(CHOOSE e \in entries : TRUE) EXCEPT !.got = @ \cup {f.chunk}])
                  ELSE IF Cardinality(s.orphans) < MaxOrphans
                  THEN [s EXCEPT !.orphans = @ \cup {f}]
                  ELSE s
  <2>5. Becomes(p, t)
    BY <1>7, <2>3 DEF ReceiveFrame
  <2>6. t \in SessionsWith(p, q)' /\ t.expected \subseteq t.asked /\ t.phase # "start"
    <3>1. CASE entries # {}
      <4>1. PICK e \in entries : e = CHOOSE x \in entries : TRUE
        BY <3>1
      <4>2. e \in Entries(q)'
        BY <1>4, <4>1 DEF SessionsWith
      <4>3. PICK got \in SUBSET (1..Chunks) : got = e.got \cup {f.chunk}
        BY <2>1, <4>2 DEF AllFrames, Entries
      <4>4. PICK entry \in Entries(q)' : entry = [e EXCEPT !.got = got]
        BY <4>2 DEF Entries
      <4>5. t = Assembled(s, entry)
        BY <3>1, <4>1, <4>3, <4>4
      <4>6. /\ Assembled(s, entry) \in SessionsWith(p, q)'
            /\ Assembled(s, entry).expected = s.expected /\ Assembled(s, entry).asked = s.asked
            /\ Assembled(s, entry).phase = s.phase
        BY <1>4, AssembledSound
      <4> HIDE DEF t
      <4>7. QED
        BY <1>4, <4>5, <4>6
    <3>2. CASE entries = {} /\ Cardinality(s.orphans) < MaxOrphans
      <4>1. PICK kept \in SUBSET AllFrames : kept = s.orphans \cup {f}
        BY <1>4, <2>1 DEF SessionsWith
      <4>2. t = [s EXCEPT !.orphans = kept]
        BY <3>2, <4>1
      <4> HIDE DEF t
      <4>3. QED
        BY <1>4, <4>2 DEF SessionsWith
    <3>3. CASE entries = {} /\ ~ (Cardinality(s.orphans) < MaxOrphans)
      <4>1. t = s
        BY <3>3
      <4> HIDE DEF t
      <4>2. QED
        BY <1>4, <4>1
    <3>4. QED
      BY <3>1, <3>2, <3>3
  <2> HIDE DEF t
  <2>7. QED
    BY <1>2, <1>3, <1>5, <2>4, <2>5, <2>6, SessionSound
<1>8. QED
  BY <1>6, <1>7

(* A revision is stored when its parents are (ingestReceivedRevision): the *)
(* history stays closed.                                                   *)
LEMMA IngestSound ==
    ASSUME SoundInv, NEW p \in Peers, Ingest(p) \/ Reject(p)
    PROVE  SoundInv' /\ Grows
<1> DEFINE s == session[p]
<1>0. UNCHANGED <<parents, bulk>> /\ s.ingests # <<>>
  BY DEF Ingest, Reject
<1>1. HistorySound /\ StoresSound /\ BulkSound
  BY DEF SoundInv
<1>2. PICK q \in Peers : q = Other(p) /\ p = Other(q) /\ p # q
  BY OtherIs
<1>3. PICK S : S = store[q].held
  OBVIOUS
<1>4. s.ingests \in Seq(S)
  BY <1>2, <1>3 DEF SoundInv, SessionsSound, SessionsWith
<1>5. PICK r \in S, more \in Seq(S) : r = Head(s.ingests) /\ more = Tail(s.ingests)
  BY <1>0, <1>4, HeadTailProperties
<1>6. r \in DOMAIN parents /\ r \in Ids
  BY <1>1, <1>3 DEF StoresSound, HistorySound
<1>7. Grows /\ HistorySound' /\ StoresSound' /\ BulkSound' /\ (Ingest(p) => r \in store'[p].held)
  <2>1. CASE Reject(p)
    <3>1. UNCHANGED <<parents, store>>
      BY <2>1 DEF Reject
    <3>2. Grows /\ HistorySound' /\ StoresSound' /\ BulkSound'
      BY <1>0, <1>1, <3>1, StillGrows DEF BulkSound
    <3>3. Ingest(p) => r \in store[p].held
      <4>1. Ingest(p) => store'[p].held = store[p].held \cup {r}
        BY <1>1, <1>5 DEF Ingest, StoresSound, Store
      <4>2. QED
        BY <3>1, <4>1
    <3>4. QED
      BY <3>1, <3>2, <3>3
  <2>2. CASE Ingest(p)
    <3>1. PICK held \in SUBSET Ids : held = store[p].held \cup {r}
      BY <1>1, <1>6 DEF StoresSound, Store
    <3>2. store' = [store EXCEPT ![p].held = held]
      BY <1>5, <2>2, <3>1 DEF Ingest
    <3>3. store \in [Peers -> Store]
      BY <1>1 DEF StoresSound
    <3>4. [store[p] EXCEPT !.held = held] \in Store
      BY <3>3 DEF Store
    <3>5. /\ store' \in [Peers -> Store]
          /\ store'[p].held = held /\ store'[q].held = store[q].held
          /\ \A x \in Peers : store'[x].head = store[x].head
      BY <1>2, <3>2, <3>3, <3>4 DEF Store
    <3>6. ParentClosed(parents, held)
      <4>1. r \in store[p].held \/ parents[r] \subseteq store[p].held
        BY <1>5, <2>2 DEF Ingest, ParentsHeld
      <4>2. ParentClosed(parents, store[p].held)
        BY <1>1 DEF StoresSound
      <4>3. QED
        BY <1>6, <3>1, <4>1, <4>2 DEF ParentClosed, ParentsIn
    <3>7. \A x \in Peers : x = p \/ x = q
      BY <1>2, OtherIs
    <3>8. Grows
      BY <1>0, <3>1, <3>5, <3>7 DEF Grows
    <3>9. StoresSound'
      BY <1>0, <1>1, <1>6, <3>1, <3>5, <3>6, <3>7 DEF StoresSound
    <3>10. QED
      BY <1>0, <1>1, <3>1, <3>5, <3>8, <3>9 DEF HistorySound, BulkSound
  <2>3. QED
    BY <2>1, <2>2
<1>8. s \in SessionsWith(p, q)' /\ s.expected \subseteq s.asked /\ s.phase # "start"
  BY <1>0, <1>2, <1>7, SessionFacts, Started
<1>9. ControlSound'
  <2>1. r \in DOMAIN parents'
    BY <1>6, <1>7 DEF Grows
  <2>2. [type |-> "ack", revision |-> r, accepted |-> FALSE] \in SaidBy(p)'
    BY <2>1 DEF SaidBy
  <2>3. Ingest(p) => [type |-> "ack", revision |-> r, accepted |-> TRUE] \in SaidBy(p)'
    BY <1>7 DEF SaidBy
  <2>4. CASE Ingest(p)
    <3>1. PICK m \in SaidBy(p)' : m = [type |-> "ack", revision |-> r, accepted |-> TRUE]
      BY <2>3, <2>4
    <3>2. Sends(p, <<m>>)
      BY <1>5, <2>4, <3>1 DEF Ingest, Acks
    <3>3. QED
      BY <1>7, <3>2, SentSound
  <2>5. CASE Reject(p)
    <3>1. PICK m \in SaidBy(p)' : m = [type |-> "ack", revision |-> r, accepted |-> FALSE]
      BY <2>2
    <3>2. Sends(p, <<m>>)
      BY <1>5, <2>5, <3>1 DEF Reject, Acks
    <3>3. QED
      BY <1>7, <3>2, SentSound
  <2>6. QED
    BY <2>4, <2>5
<1>10. more \in Seq(store'[q].held)
  <2>1. S \subseteq store'[q].held
    BY <1>3, <1>7 DEF Grows
  <2>2. QED
    BY <2>1
<1>11. PICK expected \in SUBSET Ids : expected = s.expected \ {r} /\ expected \subseteq s.asked
  <2>1. PICK old \in SUBSET Ids : old = s.expected
    BY <1>8 DEF SessionsWith
  <2>2. PICK asked : asked = s.asked /\ old \subseteq asked
    BY <1>8, <2>1
  <2>3. old \ {r} \in SUBSET Ids /\ old \ {r} \subseteq asked
    BY <2>1, <2>2
  <2>4. QED
    BY <2>1, <2>2, <2>3
<1>12. PICK t \in SessionsWith(p, q)' : t = [s EXCEPT !.ingests = more, !.expected = expected]
  BY <1>8, <1>10 DEF SessionsWith
<1>13. t.expected \subseteq t.asked /\ t.phase # "start"
  BY <1>8, <1>11, <1>12 DEF SessionsWith
<1>14. Becomes(p, t)
  BY <1>5, <1>11, <1>12 DEF Ingest, Reject, Settled
<1>15. QED
  BY <1>2, <1>7, <1>9, <1>13, <1>14, SessionSound

(* A device moves its head only to a revision it holds.                    *)
LEMMA ConcludeSound ==
    ASSUME SoundInv, NEW p \in Peers, Conclude(p)
    PROVE  SoundInv' /\ Grows
<1> DEFINE s == session[p]
<1>0. UNCHANGED <<parents, ctl, bulk>>
  BY DEF Conclude
<1>1. HistorySound /\ StoresSound /\ BulkSound
  BY DEF SoundInv
<1>2. PICK q \in Peers : q = Other(p) /\ p = Other(q) /\ p # q
  BY OtherIs
<1>3. PICK verdict \in DivergenceKinds : verdict = Verdict(p)
  BY DEF Verdict, classifyDivergence, DivergenceKinds
<1>4. \/ store' = store
      \/ s.remoteHead \in store[p].held /\ store' = [store EXCEPT ![p].head = s.remoteHead]
  BY <1>3 DEF Conclude
<1>5. Grows /\ HistorySound' /\ StoresSound' /\ BulkSound'
  <2>1. CASE store' = store
    BY <1>0, <1>1, <2>1, StillGrows DEF BulkSound
  <2>2. CASE s.remoteHead \in store[p].held /\ store' = [store EXCEPT ![p].head = s.remoteHead]
    <3>1. PICK h \in store[p].held : h = s.remoteHead
      BY <2>2
    <3>2. store \in [Peers -> Store] /\ h \in Ids
      BY <1>1, <3>1 DEF StoresSound, Store
    <3>3. [store[p] EXCEPT !.head = h] \in Store
      BY <3>2 DEF Store
    <3>4. /\ store' \in [Peers -> Store]
          /\ \A x \in Peers : store'[x].held = store[x].held
          /\ store'[p].head = h /\ store'[q].head = store[q].head
      BY <1>2, <2>2, <3>1, <3>2, <3>3 DEF Store
    <3>5. \A x \in Peers : x = p \/ x = q
      BY <1>2, OtherIs
    <3>6. StoresSound'
      BY <1>0, <1>1, <3>1, <3>4, <3>5 DEF StoresSound
    <3>7. QED
      BY <1>0, <1>1, <3>4, <3>6 DEF Grows, HistorySound, BulkSound
  <2>3. QED
    BY <1>4, <2>1, <2>2
<1>6. s \in SessionsWith(p, q)' /\ s.expected \subseteq s.asked
  BY <1>2, <1>5, SessionFacts
<1>7. "done" \in Phases
  BY DEF Phases, Ended
<1>8. PICK t \in SessionsWith(p, q)' :
        t = [s EXCEPT !.phase = "done", !.live = FALSE, !.verdict = verdict]
  BY <1>6, <1>7 DEF SessionsWith
<1>9. t.expected \subseteq t.asked /\ t.phase # "start"
  BY <1>6, <1>8 DEF SessionsWith
<1>10. Becomes(p, t) /\ ControlSound'
  BY <1>0, <1>3, <1>5, <1>8, KeptSound DEF Conclude
<1>11. QED
  BY <1>2, <1>5, <1>9, <1>10, SessionSound

(* A save adds a revision after the device's head.                         *)
LEMMA SaveSound ==
    ASSUME SoundInv, NEW p \in Peers, NEW r \in Ids, LocalSave(p, r)
    PROVE  SoundInv' /\ Grows
<1>0. UNCHANGED <<session, ctl, bulk>>
  BY DEF LocalSave
<1>1. HistorySound /\ StoresSound /\ BulkSound
  BY DEF SoundInv
<1>2. PICK q \in Peers : q = Other(p) /\ p = Other(q) /\ p # q
  BY OtherIs
<1>3. PICK h \in store[p].held : h = store[p].head
  BY <1>1 DEF LocalSave, StoresSound
<1>4. h \in DOMAIN parents /\ r \notin DOMAIN parents
  BY <1>1 DEF StoresSound, LocalSave
<1>5. /\ DOMAIN parents' = DOMAIN parents \cup {r}
      /\ parents'[r] = {h}
      /\ \A x \in DOMAIN parents : parents'[x] = parents[x]
  BY <1>3, <1>4 DEF LocalSave
<1>6. HistorySound'
  <2>1. parents' \in [DOMAIN parents' -> SUBSET DOMAIN parents']
    BY <1>1, <1>3, <1>4, <1>5 DEF HistorySound, LocalSave
  <2>2. QED
    BY <1>1, <1>5, <2>1 DEF HistorySound
<1>7. PICK held \in SUBSET Ids : held = store[p].held \cup {r}
  BY <1>1 DEF StoresSound, Store
<1>8. store' = [store EXCEPT ![p] = [store[p] EXCEPT !.held = held, !.head = r]]
  BY <1>1, <1>7 DEF LocalSave, StoresSound, Store
<1>9. store \in [Peers -> Store]
  BY <1>1 DEF StoresSound
<1>10. [store[p] EXCEPT !.held = held, !.head = r] \in Store
  BY <1>9 DEF Store
<1>11. /\ store' \in [Peers -> Store]
       /\ store'[p].held = held /\ store'[p].head = r /\ store'[q] = store[q]
  BY <1>2, <1>8, <1>9, <1>10 DEF Store
<1>12. \A x \in Peers : x = p \/ x = q
  BY <1>2, OtherIs
<1>13. Grows
  BY <1>5, <1>7, <1>11, <1>12 DEF Grows
<1>14. \A x \in Peers : store[x].held \subseteq DOMAIN parents /\ ParentClosed(parents', store[x].held)
  <2> SUFFICES ASSUME NEW x \in Peers
               PROVE  store[x].held \subseteq DOMAIN parents /\ ParentClosed(parents', store[x].held)
    OBVIOUS
  <2>1. store[x].held \subseteq DOMAIN parents /\ ParentClosed(parents, store[x].held)
    BY <1>1 DEF StoresSound
  <2>2. QED
    BY <1>5, <2>1 DEF ParentClosed, ParentsIn
<1>15. ParentClosed(parents', held)
  BY <1>3, <1>5, <1>7, <1>14 DEF ParentClosed, ParentsIn
<1>16. StoresSound'
  BY <1>1, <1>5, <1>7, <1>11, <1>12, <1>14, <1>15 DEF StoresSound
<1>17. ControlSound'
  BY <1>0, <1>13, KeptSound
<1>18. SessionsSound'
  <2>1. \A x \in Peers : session[x] \in SessionsWith(x, Other(x))'
    BY <1>13, SessionFacts
  <2>2. QED
    BY <1>0, <2>1 DEF SoundInv, SessionsSound
<1>19. QED
  BY <1>0, <1>1, <1>6, <1>13, <1>16, <1>17, <1>18 DEF SoundInv, BulkSound

-----------------------------------------------------------------------------
(* The invariant holds at the start.                                       *)
LEMMA SoundInit == Init => SoundInv
<1> SUFFICES ASSUME Init PROVE SoundInv
  OBVIOUS
<1>1. HistorySound
  BY SessionAssumption DEF Init, HistorySound
<1>2. StoresSound
  BY SessionAssumption DEF Init, StoresSound
<1>3. ControlSound
  BY EmptySeq, OtherIs DEF Init, ControlSound
<1>4. BulkSound
  BY EmptySeq DEF Init, BulkSound
<1>5. ASSUME NEW p \in Peers, NEW q \in Peers PROVE NewSession \in SessionsWith(p, q)
  <2>1. "start" \in Phases /\ {} \in Histories(q)
    BY DEF Phases, Histories, ParentClosed
  <2>2. <<>> \in Seq(store[p].held) /\ <<>> \in Seq(store[q].held)
    BY EmptySeq
  <2>3. QED
    BY <2>1, <2>2 DEF NewSession, SessionsWith
<1>6. SessionsSound
  <2>1. \A p \in Peers : session[p] = NewSession /\ session[p] \in SessionsWith(p, Other(p))
    BY <1>5, OtherIs DEF Init
  <2>2. QED
    BY <2>1 DEF Init, SessionsSound, NewSession
<1>7. QED
  BY <1>1, <1>2, <1>3, <1>4, <1>6 DEF SoundInv

(* Every step keeps it, and lets the histories grow.                       *)
LEMMA SoundStep == SoundInv /\ [Next]_vars => SoundInv' /\ Grows
<1> SUFFICES ASSUME SoundInv, [Next]_vars PROVE SoundInv' /\ Grows
  OBVIOUS
<1>1. HistorySound /\ StoresSound
  BY DEF SoundInv
<1>2. ASSUME UNCHANGED vars PROVE SoundInv' /\ Grows
  <2>1. UNCHANGED <<parents, store, session, ctl, bulk>>
    BY <1>2 DEF vars
  <2>2. Grows /\ HistorySound' /\ StoresSound'
    BY <1>1, <2>1, StillGrows
  <2>3. ControlSound'
    BY <2>1, <2>2, KeptSound
  <2>4. \A x \in Peers : session[x] \in SessionsWith(x, Other(x))'
    BY <2>2, SessionFacts
  <2>5. QED
    BY <2>1, <2>2, <2>3, <2>4 DEF SoundInv, SessionsSound, BulkSound
<1>3. ASSUME NEW p \in Peers, Progress(p) \/ PeerRefused(p) \/ ReadFails(p) \/ Timeout(p) \/ Close(p)
      PROVE  SoundInv' /\ Grows
  <2>1. CASE \/ HelloRefused(p) \/ PeerRefused(p) \/ VaultRefused(p) \/ ReadFails(p)
             \/ ConcludeFails(p) \/ Timeout(p) \/ ExpectRejected(p)
    <3>1. UNCHANGED <<parents, store>>
      BY <2>1 DEF HelloRefused, PeerRefused, VaultRefused, ReadFails, ConcludeFails, Timeout,
                  ExpectRejected
    <3>2. QED
      BY <1>1, <2>1, <3>1, FailingSound, StillGrows
  <2>2. CASE \/ \E version \in Versions : Start(p, version)
             \/ HelloAnswered(p) \/ Verify(p) \/ PeerAccepted(p)
    <3>1. UNCHANGED <<parents, store>>
      BY <2>2 DEF Start, HelloAnswered, Verify, PeerAccepted
    <3>2. QED
      BY <1>1, <2>2, <3>1, HandshakeSound, StillGrows
  <2>3. CASE VaultAgreed(p) \/ RequestMissing(p) \/ BeginTransfer(p)
    <3>1. UNCHANGED parents /\ \A x \in Peers : store'[x].held = store[x].held
      <4>1. store \in [Peers -> Store]
        BY <1>1 DEF StoresSound
      <4>2. VaultAgreed(p) => UNCHANGED parents /\ \A x \in Peers : store'[x].held = store[x].held
        BY <4>1 DEF VaultAgreed, Store
      <4>3. QED
        BY <2>3, <4>2 DEF RequestMissing, BeginTransfer
    <3>2. Grows
      BY <3>1 DEF Grows
    <3>3. QED
      BY <2>3, <3>2, CompareSound
  <2>4. CASE ServeNext(p) \/ FinishTransfer(p)
    <3>1. UNCHANGED <<parents, store>>
      BY <2>4 DEF ServeNext, FinishTransfer
    <3>2. QED
      BY <1>1, <2>4, <3>1, ServeSound, StillGrows
  <2>5. CASE \/ ReceiveReply(p) \/ ReceiveError(p) \/ ReceiveUnparsable(p)
             \/ ReceiveHeader(p) \/ ReceiveAck(p) \/ ReceiveComplete(p)
    <3>1. UNCHANGED <<parents, store>>
      BY <2>5 DEF ReceiveReply, ReceiveError, ReceiveUnparsable, ReceiveHeader, ReceiveAck,
                  ReceiveComplete
    <3>2. QED
      BY <1>1, <2>5, <3>1, ReceiveSound, StillGrows
  <2>6. CASE ReceiveFrame(p) \/ Close(p)
    <3>1. UNCHANGED <<parents, store>>
      BY <2>6 DEF ReceiveFrame, Close
    <3>2. QED
      BY <1>1, <2>6, <3>1, FrameSound, StillGrows
  <2>7. CASE Ingest(p) \/ Reject(p)
    BY <2>7, IngestSound
  <2>8. CASE Conclude(p)
    BY <2>8, ConcludeSound
  <2>9. QED
    BY <1>3, <2>1, <2>2, <2>3, <2>4, <2>5, <2>6, <2>7, <2>8 DEF Progress
<1>4. ASSUME Next PROVE SoundInv' /\ Grows
  BY <1>3, <1>4, SaveSound DEF Next
<1>5. QED
  BY <1>2, <1>4

(* In every state, what is under way between the devices is true of them:  *)
(* a message, however old, names revisions its sender holds and histories  *)
(* that are complete, and so does what a session remembers.                *)
THEOREM SessionSafe == Spec => []SoundInv
<1>1. SoundInv /\ [Next]_vars => SoundInv'
  BY SoundStep
<1>2. QED
  BY <1>1, SoundInit, PTL DEF Spec

(* HistoryKept and AcksMeanStored follow.                                  *)
LEMMA SoundImplies == SoundInv => HistoryKept /\ AcksMeanStored /\ RequestsHonoured
<1> SUFFICES ASSUME SoundInv PROVE HistoryKept /\ AcksMeanStored /\ RequestsHonoured
  OBVIOUS
<1>1. HistorySound /\ StoresSound
  BY DEF SoundInv
<1>2. ASSUME NEW p \in Peers
      PROVE  /\ session[p].phase \in Phases
             /\ session[p].verdict \in DivergenceKinds \cup {"none"}
             /\ session[p].expected \subseteq session[p].asked
             /\ session[p].mail \subseteq SaidBy(Other(p))
             /\ session[p].sent \subseteq store[Other(p)].held
             /\ session[p].serving \in Seq(store[p].held)
  BY DEF SoundInv, SessionsSound, SessionsWith
<1>3. ASSUME NEW p \in Peers, NEW m \in Elems(ctl[p]) \cup session[p].mail
      PROVE  IsMessage(m)
  <2>1. PICK q \in Peers : q = Other(p) /\ p = Other(q)
    BY OtherIs
  <2>2. m \in SaidBy(q)
    <3>1. PICK S : S = SaidBy(q)
      OBVIOUS
    <3>2. ctl[p] \in Seq(S)
      BY <2>1, <3>1 DEF SoundInv, ControlSound
    <3>3. Elems(ctl[p]) \subseteq S
      BY <3>2 DEF Elems
    <3>4. QED
      BY <1>2, <1>3, <2>1, <3>1, <3>3
  <2>3. store[q].held \subseteq Ids /\ store[p].held \subseteq Ids /\ DOMAIN parents \subseteq Ids
    BY <1>1 DEF StoresSound, Store, HistorySound
  <2>4. Histories(q) \subseteq SUBSET Ids
    BY <2>3 DEF Histories
  <2>5. CASE m.type = "wants"
    <3>1. PICK order \in Seq(store[p].held) : order = m.order
      BY <2>1, <2>2, <2>5 DEF SaidBy
    <3>2. Elems(order) \subseteq Ids
      BY <2>3 DEF Elems
    <3>3. QED
      BY <2>5, <3>1, <3>2 DEF IsMessage
  <2>6. CASE m.type # "wants"
    <3>1. m \in Message
      BY <2>2, <2>3, <2>4, <2>6, ZenonT(60) DEF SaidBy, Message
    <3>2. QED
      BY <3>1 DEF IsMessage
  <2>7. QED
    BY <2>5, <2>6
<1>4. TypeOK
  BY <1>1, <1>2, <1>3 DEF TypeOK, HistorySound, StoresSound
<1>5. HeldClosed
  BY <1>1 DEF HeldClosed, StoresSound, ParentClosed, ParentsIn
<1>6. AcksMeanStored
  BY <1>2 DEF AcksMeanStored
<1>7. RequestsHonoured
  <2> SUFFICES ASSUME NEW p \in Peers PROVE Elems(session[p].serving) \subseteq store[p].held
    BY DEF RequestsHonoured
  <2>1. PICK S : S = store[p].held /\ session[p].serving \in Seq(S)
    BY <1>2
  <2>2. QED
    BY <2>1 DEF Elems
<1>8. QED
  BY <1>4, <1>5, <1>6, <1>7 DEF HistoryKept

-----------------------------------------------------------------------------
(* A sequence without indices is empty.                                    *)
LEMMA NoDomain ==
    ASSUME NEW S, NEW seq \in Seq(S), DOMAIN seq = {}
    PROVE  seq = <<>>
<1>1. Len(seq) \in Nat /\ DOMAIN seq = 1..Len(seq)
  OBVIOUS
<1>2. 1 \notin 1..Len(seq)
  BY <1>1
<1>3. Len(seq) = 0
  BY <1>1, <1>2
<1>4. QED
  BY <1>3, EmptySeq

(* Messages of a type, when another is sent ...                            *)
LEMMA Appended ==
    ASSUME NEW S, NEW seq \in Seq(S), NEW m, NEW type
    PROVE  /\ m.type # type /\ None(seq, type) => None(seq \o <<m>>, type)
           /\ m.type # type /\ AtMostOne(seq, type) => AtMostOne(seq \o <<m>>, type)
           /\ None(seq, type) => AtMostOne(seq \o <<m>>, type)
           /\ \A i \in DOMAIN (seq \o <<m>>) :
                 (seq \o <<m>>)[i] = m \/ \E j \in DOMAIN seq : seq[j] = (seq \o <<m>>)[i]
<1> DEFINE new == seq \o <<m>>
<1>1. /\ Len(seq) \in Nat /\ DOMAIN seq = 1..Len(seq) /\ DOMAIN new = 1..(Len(seq) + 1)
      /\ \A i \in 1..Len(seq) : new[i] = seq[i]
      /\ new[Len(seq) + 1] = m
  <2>1. PICK T : T = S \cup {m}
    OBVIOUS
  <2>2. seq \in Seq(T) /\ <<m>> \in Seq(T) /\ Len(<<m>>) = 1 /\ <<m>>[1] = m
    BY <2>1
  <2>3. QED
    BY <2>2
<1> HIDE DEF new
<1>2. \A i \in DOMAIN new : i = Len(seq) + 1 \/ i \in DOMAIN seq
  BY <1>1
<1>3. /\ m.type # type /\ None(seq, type) => None(new, type)
      /\ \A i \in DOMAIN new : new[i] = m \/ \E j \in DOMAIN seq : seq[j] = new[i]
  BY <1>1, <1>2 DEF None
<1>4. m.type # type /\ AtMostOne(seq, type) => AtMostOne(new, type)
  BY <1>1, <1>2 DEF AtMostOne
<1>5. None(seq, type) => AtMostOne(new, type)
  BY <1>1, <1>2 DEF AtMostOne, None
<1>6. QED
  BY <1>3, <1>4, <1>5 DEF new

(* ... and when the first is received.                                     *)
LEMMA Dropped ==
    ASSUME NEW S, NEW seq \in Seq(S), seq # <<>>, NEW type
    PROVE  /\ None(seq, type) => None(Tail(seq), type)
           /\ AtMostOne(seq, type) => AtMostOne(Tail(seq), type)
           /\ AtMostOne(seq, type) /\ Head(seq).type = type => None(Tail(seq), type)
           /\ \A i \in DOMAIN Tail(seq) : \E j \in DOMAIN seq : seq[j] = Tail(seq)[i]
<1>1. /\ Len(seq) \in Nat /\ DOMAIN seq = 1..Len(seq) /\ 1 \in DOMAIN seq /\ Head(seq) = seq[1]
      /\ DOMAIN Tail(seq) = 1..(Len(seq) - 1)
      /\ \A i \in 1..(Len(seq) - 1) : i + 1 \in DOMAIN seq /\ i + 1 # 1 /\ Tail(seq)[i] = seq[i + 1]
  OBVIOUS
<1>2. None(seq, type) => None(Tail(seq), type)
  BY <1>1 DEF None
<1>3. AtMostOne(seq, type) => AtMostOne(Tail(seq), type)
  <2> SUFFICES ASSUME AtMostOne(seq, type), NEW i \in DOMAIN Tail(seq), NEW j \in DOMAIN Tail(seq),
                      Tail(seq)[i].type = type, Tail(seq)[j].type = type
               PROVE  i = j
    BY DEF AtMostOne
  <2>1. i + 1 = j + 1
    BY <1>1 DEF AtMostOne
  <2>2. QED
    BY <1>1, <2>1
<1>4. AtMostOne(seq, type) /\ Head(seq).type = type => None(Tail(seq), type)
  BY <1>1 DEF None, AtMostOne
<1>5. \A i \in DOMAIN Tail(seq) : \E j \in DOMAIN seq : seq[j] = Tail(seq)[i]
  BY <1>1
<1>6. QED
  BY <1>2, <1>3, <1>4, <1>5

(* No message of the type is added; neither a header nor an ack is.        *)
CalmOn(old, new, type) ==
    /\ None(old, type) => None(new, type)
    /\ AtMostOne(old, type) => AtMostOne(new, type)
    /\ \A i \in DOMAIN new : new[i].type = type => \E j \in DOMAIN old : old[j] = new[i]
Calm(old, new) == CalmOn(old, new, "header") /\ CalmOn(old, new, "ack")

(* The control streams when another message is sent, or any is received.   *)
LEMMA CalmControl ==
    ASSUME SoundInv, NEW p \in Peers,
           \/ UNCHANGED ctl
           \/ \E m : m.type \notin {"header", "ack"} /\ Sends(p, <<m>>)
           \/ ctl[p] # <<>> /\ Received(p)
    PROVE  \A x \in Peers : Calm(ctl[x], ctl'[x])
<1> SUFFICES ASSUME NEW x \in Peers PROVE Calm(ctl[x], ctl'[x])
  OBVIOUS
<1>1. PICK S : ctl[x] \in Seq(S)
  BY DEF SoundInv, ControlSound
<1>2. PICK q \in Peers : q = Other(p)
  BY OtherIs
<1>3. DOMAIN ctl = Peers
  BY DEF SoundInv, ControlSound
<1>4. CASE ctl'[x] = ctl[x]
  BY <1>4 DEF Calm, CalmOn
<1>5. ASSUME NEW m, m.type \notin {"header", "ack"}, ctl'[x] = ctl[x] \o <<m>> PROVE Calm(ctl[x], ctl'[x])
  <2>1. m.type # "header" /\ m.type # "ack"
    BY <1>5
  <2>2. /\ None(ctl[x], "header") => None(ctl'[x], "header")
        /\ AtMostOne(ctl[x], "header") => AtMostOne(ctl'[x], "header")
        /\ None(ctl[x], "ack") => None(ctl'[x], "ack")
        /\ AtMostOne(ctl[x], "ack") => AtMostOne(ctl'[x], "ack")
        /\ \A i \in DOMAIN ctl'[x] :
              ctl'[x][i] = m \/ \E j \in DOMAIN ctl[x] : ctl[x][j] = ctl'[x][i]
    BY <1>1, <1>5, <2>1, Appended
  <2>3. QED
    BY <2>1, <2>2 DEF Calm, CalmOn
<1>6. CASE ctl[x] # <<>> /\ ctl'[x] = Tail(ctl[x])
  <2>1. /\ None(ctl[x], "header") => None(ctl'[x], "header")
        /\ AtMostOne(ctl[x], "header") => AtMostOne(ctl'[x], "header")
        /\ None(ctl[x], "ack") => None(ctl'[x], "ack")
        /\ AtMostOne(ctl[x], "ack") => AtMostOne(ctl'[x], "ack")
        /\ \A i \in DOMAIN ctl'[x] : \E j \in DOMAIN ctl[x] : ctl[x][j] = ctl'[x][i]
    BY <1>1, <1>6, Dropped
  <2>2. QED
    BY <2>1 DEF Calm, CalmOn
<1>7. CASE UNCHANGED ctl
  BY <1>4, <1>7
<1>8. CASE \E m : m.type \notin {"header", "ack"} /\ Sends(p, <<m>>)
  <2>1. PICK m : m.type \notin {"header", "ack"} /\ Sends(p, <<m>>)
    BY <1>8
  <2>2. ctl'[x] = ctl[x] \/ ctl'[x] = ctl[x] \o <<m>>
    BY <1>2, <1>3, <2>1 DEF Sends
  <2>3. QED
    BY <1>4, <1>5, <2>1, <2>2
<1>9. CASE ctl[p] # <<>> /\ Received(p)
  <2>1. ctl'[x] = ctl[x] \/ (ctl[x] # <<>> /\ ctl'[x] = Tail(ctl[x]))
    BY <1>3, <1>9 DEF Received
  <2>2. QED
    BY <1>4, <1>6, <2>1
<1>10. QED
  BY <1>7, <1>8, <1>9

(* What a session knows about the transfers it receives and sends.         *)
SameReceiving(s, t) ==
    t.assembling = s.assembling /\ t.orphans = s.orphans /\ t.ingests = s.ingests
SameSending(s, t) == t.awaiting = s.awaiting /\ t.transferSeq = s.transferSeq
SameTransfer(s, t) == SameReceiving(s, t) /\ SameSending(s, t)

(* A step that does not touch the transfers from q to p.                   *)
LEMMA CalmDirection ==
    ASSUME NEW p \in Peers, NEW q \in Peers, Transfer(p, q), bulk'[p] = bulk[p],
           SameReceiving(session[p], session'[p]), SameSending(session[q], session'[q]),
           CalmOn(ctl[p], ctl'[p], "header"), CalmOn(ctl[q], ctl'[q], "ack")
    PROVE  Transfer(p, q)'
<1>1. FramesOnce(p, q)'
  BY DEF Transfer, FramesOnce, SameReceiving, SameSending
<1>2. Idle(p, q) => Idle(p, q)'
  BY DEF Idle, SameReceiving, CalmOn
<1>3. Announced(p, q) => Announced(p, q)'
  BY DEF Announced, SameReceiving, SameSending, CalmOn
<1>4. Assembling(p, q) => Assembling(p, q)'
  BY DEF Assembling, SameReceiving, SameSending, CalmOn
<1>5. Storing(p, q) => Storing(p, q)'
  BY DEF Storing, SameReceiving, CalmOn
<1>6. Acknowledged(p, q) => Acknowledged(p, q)'
  BY DEF Acknowledged, SameReceiving, CalmOn
<1>7. session'[q].awaiting = session[q].awaiting
  BY DEF SameSending
<1>8. QED
  BY <1>1, <1>2, <1>3, <1>4, <1>5, <1>6, <1>7 DEF Transfer

(* A step that touches no transfer.                                        *)
LEMMA CalmTransfer ==
    ASSUME TransferInv, UNCHANGED bulk,
           \A x \in Peers : SameTransfer(session[x], session'[x]) /\ Calm(ctl[x], ctl'[x])
    PROVE  TransferInv'
<1> SUFFICES ASSUME NEW p \in Peers, NEW q \in Peers, q = Other(p) PROVE Transfer(p, q)'
  BY OtherIs DEF TransferInv
<1>1. Transfer(p, q)
  BY DEF TransferInv
<1>2. /\ SameReceiving(session[p], session'[p]) /\ SameSending(session[q], session'[q])
      /\ CalmOn(ctl[p], ctl'[p], "header") /\ CalmOn(ctl[q], ctl'[q], "ack")
  BY DEF SameTransfer, Calm
<1>3. QED
  BY <1>1, <1>2, CalmDirection

(* The fields of a session that most steps leave alone.                    *)
LEMMA FieldsKept ==
    ASSUME SoundInv, NEW p \in Peers
    PROVE  LET s == session[p]
           IN  /\ SameTransfer(s, Failed(s)) /\ SameTransfer(s, InboxFails(s))
               /\ SameTransfer(s, [InboxFails(s) EXCEPT !.live = FALSE])
               /\ \A x : SameTransfer(s, [s EXCEPT !.phase = x])
               /\ \A x : SameTransfer(s, [s EXCEPT !.mail = x])
               /\ SameTransfer(s, [s EXCEPT !.peerCompleted = TRUE])
               /\ \A x : SameTransfer(s, [s EXCEPT !.phase = "history", !.remoteHead = x])
               /\ \A x : SameTransfer(s, [s EXCEPT !.phase = "transfer", !.serving = x])
               /\ \A x : SameTransfer(s, [s EXCEPT !.phase = "done", !.live = FALSE, !.verdict = x])
               /\ \A x, y : SameTransfer(s, [[s EXCEPT !.remoteIds = x] EXCEPT
                                !.phase = "wants", !.expected = y, !.asked = y])
               /\ \A x : SameTransfer(s, [s EXCEPT !.phase = "hello", !.version = x, !.live = TRUE])
<1>1. PICK s : s = session[p] /\ s \in SessionsWith(p, Other(p))
  BY DEF SoundInv, SessionsSound
<1>2. SameTransfer(s, Failed(s))
  BY <1>1 DEF SameTransfer, SameReceiving, SameSending, Failed, SessionsWith
<1>3. \A x : SameTransfer(s, [s EXCEPT !.phase = x]) /\ SameTransfer(s, [s EXCEPT !.mail = x])
  BY <1>1 DEF SameTransfer, SameReceiving, SameSending, SessionsWith
<1>4. SameTransfer(s, [s EXCEPT !.failure = TRUE]) /\ SameTransfer(s, [s EXCEPT !.peerCompleted = TRUE])
  BY <1>1 DEF SameTransfer, SameReceiving, SameSending, SessionsWith
<1>5. \A x : /\ SameTransfer(s, [s EXCEPT !.phase = "history", !.remoteHead = x])
             /\ SameTransfer(s, [s EXCEPT !.phase = "transfer", !.serving = x])
  BY <1>1 DEF SameTransfer, SameReceiving, SameSending, SessionsWith
<1>6. \A x : /\ SameTransfer(s, [s EXCEPT !.phase = "done", !.live = FALSE, !.verdict = x])
             /\ SameTransfer(s, [s EXCEPT !.phase = "hello", !.version = x, !.live = TRUE])
  BY <1>1 DEF SameTransfer, SameReceiving, SameSending, SessionsWith
<1>7. \A x, y : SameTransfer(s, [[s EXCEPT !.remoteIds = x] EXCEPT
                                   !.phase = "wants", !.expected = y, !.asked = y])
  BY <1>1 DEF SameTransfer, SameReceiving, SameSending, SessionsWith
<1>8. SameTransfer(s, InboxFails(s))
  BY <1>2, <1>4 DEF InboxFails
<1>9. SameTransfer(s, [InboxFails(s) EXCEPT !.live = FALSE])
  <2>1. SameTransfer(s, [Failed(s) EXCEPT !.live = FALSE])
    BY <1>1 DEF SameTransfer, SameReceiving, SameSending, Failed, SessionsWith
  <2>2. SameTransfer(s, [[s EXCEPT !.failure = TRUE] EXCEPT !.live = FALSE])
    BY <1>1 DEF SameTransfer, SameReceiving, SameSending, SessionsWith
  <2>3. QED
    BY <2>1, <2>2 DEF InboxFails
<1>10. QED
  BY <1>1, <1>2, <1>3, <1>4, <1>5, <1>6, <1>7, <1>8, <1>9

(* One session changes, and no transfer with it.                           *)
LEMMA CalmStep ==
    ASSUME SoundInv, TransferInv, NEW p \in Peers, NEW t, Becomes(p, t),
           SameTransfer(session[p], t), UNCHANGED bulk,
           \/ UNCHANGED ctl
           \/ \E m : m.type \notin {"header", "ack"} /\ Sends(p, <<m>>)
           \/ ctl[p] # <<>> /\ Received(p)
    PROVE  TransferInv'
<1>1. DOMAIN session = Peers
  BY DEF SoundInv, SessionsSound
<1>2. \A x \in Peers : SameTransfer(session[x], session[x])
  BY DEF SameTransfer, SameReceiving, SameSending
<1>3. \A x \in Peers : SameTransfer(session[x], session'[x])
  BY <1>1, <1>2 DEF Becomes
<1>4. \A x \in Peers : Calm(ctl[x], ctl'[x])
  BY CalmControl
<1>5. QED
  BY <1>3, <1>4, CalmTransfer

(* The steps that do not serve, receive, store or acknowledge a revision   *)
(* leave the transfers as they are.                                        *)
LEMMA CalmSteps ==
    ASSUME SoundInv, TransferInv, NEW p \in Peers,
           \/ \E version \in Versions : Start(p, version)
           \/ HelloAnswered(p) \/ HelloRefused(p) \/ Verify(p) \/ PeerAccepted(p) \/ PeerRefused(p)
           \/ VaultAgreed(p) \/ VaultRefused(p) \/ RequestMissing(p) \/ BeginTransfer(p)
           \/ ReadFails(p) \/ ReceiveReply(p) \/ ReceiveError(p) \/ ReceiveUnparsable(p)
           \/ ReceiveComplete(p) \/ FinishTransfer(p) \/ Conclude(p) \/ ConcludeFails(p)
           \/ Timeout(p) \/ ExpectRejected(p) \/ Close(p)
    PROVE  TransferInv'
<1> DEFINE s == session[p]
<1>1. CASE \/ HelloRefused(p) \/ PeerRefused(p) \/ VaultRefused(p) \/ ReadFails(p)
           \/ ConcludeFails(p) \/ Timeout(p) \/ ExpectRejected(p)
  <2>1. Becomes(p, Failed(s)) /\ UNCHANGED bulk
    BY <1>1 DEF HelloRefused, PeerRefused, VaultRefused, ReadFails, ConcludeFails, Timeout,
                ExpectRejected
  <2>2. PICK m \in { [type |-> "error"] } : m.type \notin {"header", "ack"}
    OBVIOUS
  <2>3. UNCHANGED ctl \/ Sends(p, <<m>>)
    BY <1>1, <2>2 DEF HelloRefused, PeerRefused, VaultRefused, ReadFails, ConcludeFails, Timeout,
                      ExpectRejected
  <2>4. QED
    BY <2>1, <2>2, <2>3, FieldsKept, CalmStep
<1>2. CASE ReceiveReply(p) \/ ReceiveError(p) \/ ReceiveUnparsable(p) \/ ReceiveComplete(p)
  <2>1. UNCHANGED bulk /\ ctl[p] # <<>> /\ Received(p)
    BY <1>2 DEF ReceiveReply, ReceiveError, ReceiveUnparsable, ReceiveComplete, CanReceive
  <2>2. PICK t : Becomes(p, t) /\ SameTransfer(s, t)
    <3>1. CASE ReceiveReply(p)
      <4>1. Becomes(p, [s EXCEPT !.mail = s.mail \cup {Head(ctl[p])}])
        BY <3>1 DEF ReceiveReply
      <4>2. QED
        BY <4>1, FieldsKept
    <3>2. CASE ReceiveError(p) \/ ReceiveUnparsable(p) \/ ReceiveComplete(p)
      BY <3>2, FieldsKept DEF ReceiveError, ReceiveUnparsable, ReceiveComplete
    <3>3. QED
      BY <1>2, <3>1, <3>2
  <2>3. QED
    BY <2>1, <2>2, CalmStep
<1>3. CASE Verify(p) \/ BeginTransfer(p) \/ Conclude(p) \/ Close(p)
  <2>1. UNCHANGED <<ctl, bulk>>
    BY <1>3 DEF Verify, BeginTransfer, Conclude, Close
  <2>2. PICK t : Becomes(p, t) /\ SameTransfer(s, t)
    BY <1>3, FieldsKept DEF Verify, BeginTransfer, Conclude, Close
  <2>3. QED
    BY <2>1, <2>2, CalmStep
<1>4. CASE HelloAnswered(p) \/ PeerAccepted(p) \/ FinishTransfer(p)
  <2>1. UNCHANGED bulk
    BY <1>4 DEF HelloAnswered, PeerAccepted, FinishTransfer
  <2>2. PICK t : Becomes(p, t) /\ SameTransfer(s, t)
    BY <1>4, FieldsKept DEF HelloAnswered, PeerAccepted, FinishTransfer
  <2>3. PICK m : m.type \in {"auth", "summary", "complete"} /\ Sends(p, <<m>>)
    <3>1. CASE HelloAnswered(p)
      BY <3>1 DEF HelloAnswered
    <3>2. CASE PeerAccepted(p)
      BY <3>2 DEF PeerAccepted
    <3>3. CASE FinishTransfer(p)
      BY <3>3 DEF FinishTransfer
    <3>4. QED
      BY <1>4, <3>1, <3>2, <3>3
  <2>4. QED
    BY <2>1, <2>2, <2>3, CalmStep
<1>5. CASE VaultAgreed(p)
  <2>1. UNCHANGED bulk
    BY <1>5 DEF VaultAgreed
  <2>2. PICK t : Becomes(p, t) /\ SameTransfer(s, t)
    BY <1>5, FieldsKept DEF VaultAgreed
  <2>3. PICK m : m.type = "history" /\ Sends(p, <<m>>)
    BY <1>5 DEF VaultAgreed
  <2>4. QED
    BY <2>1, <2>2, <2>3, CalmStep
<1>6. CASE RequestMissing(p)
  <2>1. UNCHANGED bulk
    BY <1>6 DEF RequestMissing
  <2>2. PICK t : Becomes(p, t) /\ SameTransfer(s, t)
    BY <1>6, FieldsKept DEF RequestMissing
  <2>3. PICK m : m.type = "wants" /\ Sends(p, <<m>>)
    BY <1>6 DEF RequestMissing
  <2>4. QED
    BY <2>1, <2>2, <2>3, CalmStep
<1>7. CASE \E version \in Versions : Start(p, version)
  <2>1. PICK version \in Versions : Start(p, version)
    BY <1>7
  <2>2. s = NewSession /\ DOMAIN ctl = Peers /\ DOMAIN session = Peers
    BY <2>1 DEF Start, SoundInv, SessionsSound, ControlSound
  <2>3. SameTransfer(s, [s EXCEPT !.phase = "hello", !.version = version, !.live = TRUE])
    BY FieldsKept
  <2>4. \A x \in Peers : SameTransfer(session[x], session'[x])
    <3>1. \A x \in Peers : SameTransfer(session[x], session[x])
      BY DEF SameTransfer, SameReceiving, SameSending
    <3>2. QED
      BY <2>1, <2>2, <2>3, <3>1 DEF Start, Becomes
  <2>5. \A x \in Peers : Calm(ctl[x], ctl'[x])
    <3> SUFFICES ASSUME NEW x \in Peers PROVE Calm(ctl[x], ctl'[x])
      OBVIOUS
    <3>1. PICK S : ctl[x] \in Seq(S)
      BY DEF SoundInv, ControlSound
    <3>2. PICK m \in { [type |-> "hello", version |-> version] } : m.type # "header" /\ m.type # "ack"
      OBVIOUS
    <3>3. ctl'[x] = ctl[x] \/ ctl'[x] = Append(ctl[x], m)
      BY <2>1, <2>2, <3>2 DEF Start
    <3>4. Append(ctl[x], m) = ctl[x] \o <<m>>
      <4>1. PICK T : T = S \cup {m}
        OBVIOUS
      <4>2. ctl[x] \in Seq(T) /\ m \in T
        BY <3>1, <4>1
      <4>3. QED
        BY <4>2
    <3>5. CASE ctl'[x] = ctl[x]
      BY <3>5 DEF Calm, CalmOn
    <3>6. CASE ctl'[x] = ctl[x] \o <<m>>
      <4>1. /\ None(ctl[x], "header") => None(ctl'[x], "header")
            /\ AtMostOne(ctl[x], "header") => AtMostOne(ctl'[x], "header")
            /\ None(ctl[x], "ack") => None(ctl'[x], "ack")
            /\ AtMostOne(ctl[x], "ack") => AtMostOne(ctl'[x], "ack")
            /\ \A i \in DOMAIN ctl'[x] :
                  ctl'[x][i] = m \/ \E j \in DOMAIN ctl[x] : ctl[x][j] = ctl'[x][i]
        BY <3>1, <3>2, <3>6, Appended
      <4>2. QED
        BY <3>2, <4>1 DEF Calm, CalmOn
    <3>7. QED
      BY <3>3, <3>4, <3>5, <3>6
  <2>6. UNCHANGED bulk
    BY <2>1 DEF Start
  <2>7. QED
    BY <2>4, <2>5, <2>6, CalmTransfer
<1>8. QED
  BY <1>1, <1>2, <1>3, <1>4, <1>5, <1>6, <1>7

(* The two directions are all there are.                                   *)
LEMMA Directions ==
    ASSUME NEW p \in Peers, NEW q \in Peers, q = Other(p), Transfer(p, q)', Transfer(q, p)'
    PROVE  TransferInv'
<1>1. p = Other(q) /\ \A x \in Peers : x = p \/ x = q
  BY OtherIs
<1>2. QED
  BY <1>1 DEF TransferInv

(* A transfer is begun only when none is under way in that direction.      *)
LEMMA ServeTransfer ==
    ASSUME SoundInv, TransferInv, NEW p \in Peers, ServeNext(p)
    PROVE  TransferInv'
<1> DEFINE s == session[p]
<1>1. PICK q \in Peers : q = Other(p) /\ p = Other(q) /\ p # q
  BY OtherIs
<1>2. Transfer(p, q) /\ Transfer(q, p)
  BY <1>1 DEF TransferInv
<1>3. /\ DOMAIN ctl = Peers /\ DOMAIN session = Peers /\ bulk \in [Peers -> Seq(AllFrames)]
      /\ s \in SessionsWith(p, q) /\ StoresSound
  BY <1>1 DEF SoundInv, ControlSound, SessionsSound, BulkSound
<1>4. PICK r \in store[p].held : r = Head(s.serving) /\ r # NoHead
  <2>1. PICK S : S = store[p].held
    OBVIOUS
  <2>2. s.serving \in Seq(S) /\ s.serving # <<>>
    BY <1>3, <2>1 DEF ServeNext, SessionsWith
  <2>3. Head(s.serving) \in S
    BY <2>2, HeadTailProperties
  <2>4. NoHead \notin store[p].held
    BY <1>3, SessionAssumption DEF StoresSound, Store
  <2>5. QED
    BY <2>1, <2>3, <2>4
<1>5. PICK n \in Nat : n = s.transferSeq + 1
  BY <1>3 DEF SessionsWith
<1>6. PICK more : more = Tail(s.serving)
  OBVIOUS
<1>7. PICK t : t = [s EXCEPT !.serving = more, !.awaiting = r, !.transferSeq = n]
  OBVIOUS
<1>8. t.awaiting = r /\ t.transferSeq = n /\ SameReceiving(s, t)
  BY <1>3, <1>7 DEF SessionsWith, SameReceiving
<1>9. PICK m \in { [type |-> "header", seq |-> n, revision |-> r] } :
        m.type = "header" /\ m.type # "ack" /\ m.seq = n
  OBVIOUS
<1>10. /\ session' = [session EXCEPT ![p] = t]
       /\ ctl' = IF s.live THEN [ctl EXCEPT ![q] = @ \o <<m>>] ELSE ctl
       /\ bulk' = IF s.live THEN [bulk EXCEPT ![q] = @ \o ChunkFrames(n)] ELSE bulk
  <2>1. /\ Becomes(p, [s EXCEPT !.serving = Tail(@), !.awaiting = r, !.transferSeq = @ + 1])
        /\ Sends(p, << [type |-> "header", seq |-> s.transferSeq + 1, revision |-> r] >>)
        /\ bulk' = IF s.live THEN [bulk EXCEPT ![Other(p)] = @ \o ChunkFrames(s.transferSeq + 1)]
                   ELSE bulk
    BY <1>4 DEF ServeNext
  <2>2. t = [s EXCEPT !.serving = Tail(@), !.awaiting = r, !.transferSeq = @ + 1]
    BY <1>5, <1>6, <1>7
  <2>3. <<m>> = << [type |-> "header", seq |-> s.transferSeq + 1, revision |-> r] >>
    BY <1>5, <1>9
  <2>4. Becomes(p, t) /\ Sends(p, <<m>>)
    BY <2>1, <2>2, <2>3
  <2>5. QED
    BY <1>1, <1>5, <2>1, <2>4 DEF Becomes, Sends
<1>11. /\ session'[p] = t /\ session'[q] = session[q] /\ ctl'[p] = ctl[p] /\ bulk'[p] = bulk[p]
       /\ ctl'[q] = IF s.live THEN ctl[q] \o <<m>> ELSE ctl[q]
       /\ bulk'[q] = IF s.live THEN bulk[q] \o ChunkFrames(n) ELSE bulk[q]
  BY <1>1, <1>3, <1>10
<1>12. PICK S : ctl[q] \in Seq(S)
  BY DEF SoundInv, ControlSound
<1>13. Transfer(p, q)'
  <2>1. CalmOn(ctl[q], ctl'[q], "ack")
    <3>1. CASE ~ s.live
      BY <1>11, <3>1 DEF CalmOn
    <3>2. CASE s.live
      <4>1. ctl'[q] = ctl[q] \o <<m>>
        BY <1>11, <3>2
      <4>2. QED
        BY <1>9, <1>12, <4>1, Appended DEF CalmOn
    <3>3. QED
      BY <3>1, <3>2
  <2>2. CalmOn(ctl[p], ctl'[p], "header") /\ SameSending(session[q], session'[q])
    BY <1>11 DEF CalmOn, SameSending
  <2>3. QED
    BY <1>2, <1>8, <1>11, <2>1, <2>2, CalmDirection
<1>14. Idle(q, p)
  BY <1>2 DEF ServeNext, Transfer
<1>15. Transfer(q, p)'
  <2>1. CASE ~ s.live
    <3>1. ctl'[q] = ctl[q] /\ bulk'[q] = bulk[q]
      BY <1>11, <2>1
    <3>2. Idle(q, p)'
      BY <1>11, <1>14, <3>1 DEF Idle
    <3>3. bulk'[q] = <<>> /\ session'[q].orphans = {}
      BY <3>2 DEF Idle
    <3>4. FramesOnce(q, p)'
      BY <3>3 DEF FramesOnce
    <3>5. QED
      BY <3>2, <3>4 DEF Transfer
  <2>2. CASE s.live
    <3>1. ctl'[q] = ctl[q] \o <<m>> /\ bulk'[q] = ChunkFrames(n)
      <4>1. Chunks \in Nat
        BY SessionAssumption
      <4>2. <<>> \o ChunkFrames(n) = ChunkFrames(n)
        BY <4>1 DEF ChunkFrames
      <4>3. QED
        BY <1>11, <1>14, <2>2, <4>2 DEF Idle
    <3>2. AtMostOne(ctl'[q], "header")
      BY <1>12, <1>14, <3>1, Appended DEF Idle
    <3>3. \A i \in DOMAIN ctl'[q] : ctl'[q][i].type = "header" => ctl'[q][i].seq = n
      <4>1. \A i \in DOMAIN ctl'[q] : ctl'[q][i] = m \/ \E j \in DOMAIN ctl[q] : ctl[q][j] = ctl'[q][i]
        BY <1>12, <3>1, Appended
      <4>2. QED
        BY <1>9, <1>14, <4>1 DEF Idle, None
    <3>4. Announced(q, p)'
      BY <1>8, <1>11, <1>14, <3>2, <3>3 DEF Announced, Idle
    <3>5. DOMAIN bulk'[q] = 1..Chunks /\ \A i \in 1..Chunks : bulk'[q][i] = [seq |-> n, chunk |-> i]
      BY <3>1 DEF ChunkFrames
    <3>6. session'[q].orphans = {}
      BY <1>11, <1>14 DEF Idle
    <3>7. FramesOnce(q, p)'
      <4>1. session'[p].transferSeq = n
        BY <1>8, <1>11
      <4>2. ASSUME NEW i \in 1..Chunks PROVE bulk'[q][i].seq = n /\ bulk'[q][i].chunk = i
        <5>1. bulk'[q][i] = [seq |-> n, chunk |-> i]
          BY <3>5
        <5>2. [seq |-> n, chunk |-> i].seq = n /\ [seq |-> n, chunk |-> i].chunk = i
          OBVIOUS
        <5>3. QED
          BY <5>1, <5>2
      <4>3. \A i, j \in DOMAIN bulk'[q] : bulk'[q][i] = bulk'[q][j] => i = j
        BY <3>5, <4>2
      <4>4. \A i \in DOMAIN bulk'[q] : bulk'[q][i].seq = n
        BY <3>5, <4>2
      <4>5. QED
        BY <3>6, <4>1, <4>3, <4>4 DEF FramesOnce
    <3>8. QED
      BY <1>4, <1>8, <1>11, <3>4, <3>7 DEF Transfer
  <2>3. QED
    BY <2>1, <2>2
<1>16. QED
  BY <1>1, <1>13, <1>15, Directions

(* The ack that ends a transfer is the only one on its way.                *)
LEMMA AckTransfer ==
    ASSUME SoundInv, TransferInv, NEW p \in Peers, ReceiveAck(p)
    PROVE  TransferInv'
<1> DEFINE s == session[p]
<1>1. PICK q \in Peers : q = Other(p) /\ p = Other(q) /\ p # q
  BY OtherIs
<1>2. Transfer(p, q) /\ Transfer(q, p)
  BY <1>1 DEF TransferInv
<1>3. DOMAIN ctl = Peers /\ DOMAIN session = Peers /\ s \in SessionsWith(p, q)
  BY <1>1 DEF SoundInv, ControlSound, SessionsSound
<1>4. PICK S : ctl[p] \in Seq(S)
  BY DEF SoundInv, ControlSound
<1>5. ctl[p] # <<>> /\ Head(ctl[p]).type = "ack" /\ UNCHANGED bulk
  BY DEF ReceiveAck, CanReceive
<1>6. /\ ctl'[p] = Tail(ctl[p]) /\ ctl'[q] = ctl[q] /\ session'[q] = session[q]
      /\ SameReceiving(s, session'[p])
  BY <1>1, <1>3 DEF ReceiveAck, Received, Becomes, SameReceiving, SessionsWith
<1>7. Transfer(p, q)'
  <2>1. CalmOn(ctl[p], ctl'[p], "header")
    BY <1>4, <1>5, <1>6, Dropped DEF CalmOn
  <2>2. CalmOn(ctl[q], ctl'[q], "ack") /\ SameSending(session[q], session'[q])
    BY <1>6 DEF CalmOn, SameSending
  <2>3. QED
    BY <1>2, <1>5, <1>6, <2>1, <2>2, CalmDirection
<1>8. Acknowledged(q, p)
  <2>1. 1 \in DOMAIN ctl[p] /\ ctl[p][1].type = "ack"
    BY <1>4, <1>5
  <2>2. ~ None(ctl[p], "ack")
    BY <2>1 DEF None
  <2>3. QED
    BY <1>2, <2>2 DEF Transfer, Idle, Announced, Assembling, Storing
<1>9. None(ctl'[p], "ack")
  BY <1>4, <1>5, <1>6, <1>8, Dropped DEF Acknowledged
<1>10. Idle(q, p)'
  BY <1>5, <1>6, <1>8, <1>9 DEF Idle, Acknowledged
<1>11. FramesOnce(q, p)'
  BY <1>10 DEF FramesOnce, Idle
<1>12. QED
  BY <1>1, <1>7, <1>10, <1>11, Directions DEF Transfer

(* Storing a revision, or refusing it, ends its transfer with one ack.     *)
LEMMA IngestTransfer ==
    ASSUME SoundInv, TransferInv, NEW p \in Peers, Ingest(p) \/ Reject(p)
    PROVE  TransferInv'
<1> DEFINE s == session[p]
<1>1. PICK q \in Peers : q = Other(p) /\ p = Other(q) /\ p # q
  BY OtherIs
<1>2. Transfer(p, q) /\ Transfer(q, p)
  BY <1>1 DEF TransferInv
<1>3. DOMAIN ctl = Peers /\ DOMAIN session = Peers /\ s \in SessionsWith(p, q)
  BY <1>1 DEF SoundInv, ControlSound, SessionsSound
<1>4. PICK S : ctl[q] \in Seq(S)
  BY DEF SoundInv, ControlSound
<1>5. s.ingests # <<>> /\ UNCHANGED bulk /\ Becomes(p, Settled(s, Head(s.ingests)))
  BY DEF Ingest, Reject
<1>6. Storing(p, q) /\ session[q].awaiting # NoHead
  BY <1>2, <1>5 DEF Transfer, Idle, Announced, Assembling, Acknowledged
<1>7. s.ingests \in Seq(store[q].held) /\ Len(s.ingests) = 1
  BY <1>3, <1>6 DEF SessionsWith, Storing
<1>8. Tail(s.ingests) = <<>>
  <2>0. PICK H : H = store[q].held
    OBVIOUS
  <2>1. PICK queue \in Seq(H) : queue = s.ingests /\ Len(queue) = 1
    BY <1>7, <2>0
  <2>2. Tail(queue) \in Seq(H) /\ Len(Tail(queue)) = 0
    BY <2>1, EmptySeq, HeadTailProperties, SMTT(30)
  <2>3. QED
    BY <2>1, <2>2, EmptySeq
<1>9. PICK t : t = Settled(s, Head(s.ingests))
  OBVIOUS
<1>10. /\ t.ingests = <<>> /\ t.orphans = s.orphans /\ t.assembling = s.assembling
       /\ SameSending(s, t)
  BY <1>3, <1>8, <1>9 DEF Settled, SameSending, SessionsWith
<1>11. session'[p] = t /\ session'[q] = session[q]
  BY <1>1, <1>3, <1>5, <1>9 DEF Becomes
<1>12. PICK m : m.type = "ack" /\ Sends(p, <<m>>)
  <2>1. CASE Ingest(p)
    BY <2>1 DEF Ingest, Acks
  <2>2. CASE Reject(p)
    BY <2>2 DEF Reject, Acks
  <2>3. QED
    BY <2>1, <2>2
<1>13. ctl'[p] = ctl[p] /\ ctl'[q] = IF s.live THEN ctl[q] \o <<m>> ELSE ctl[q]
  BY <1>1, <1>3, <1>12 DEF Sends
<1>14. m.type # "header"
  BY <1>12
<1>15. Transfer(q, p)'
  <2>1. CalmOn(ctl[q], ctl'[q], "header")
    <3>1. CASE ~ s.live
      BY <1>13, <3>1 DEF CalmOn
    <3>2. CASE s.live
      <4>1. ctl'[q] = ctl[q] \o <<m>>
        BY <1>13, <3>2
      <4>2. QED
        BY <1>4, <1>14, <4>1, Appended DEF CalmOn
    <3>3. QED
      BY <3>1, <3>2
  <2>2. /\ CalmOn(ctl[p], ctl'[p], "ack") /\ SameReceiving(session[q], session'[q])
        /\ SameSending(session[p], session'[p])
    BY <1>10, <1>11, <1>13 DEF CalmOn, SameReceiving
  <2>3. QED
    BY <1>2, <1>5, <2>1, <2>2, CalmDirection
<1>16. AtMostOne(ctl'[q], "ack")
  <2>1. None(ctl[q], "ack")
    BY <1>6 DEF Storing
  <2>2. CASE ~ s.live
    BY <1>13, <2>1, <2>2 DEF AtMostOne, None
  <2>3. CASE s.live
    BY <1>4, <1>13, <2>1, <2>3, Appended
  <2>4. QED
    BY <2>2, <2>3
<1>17. Acknowledged(p, q)'
  BY <1>5, <1>6, <1>10, <1>11, <1>13, <1>16 DEF Acknowledged, Storing
<1>18. FramesOnce(p, q)'
  BY <1>17 DEF FramesOnce, Acknowledged
<1>19. QED
  BY <1>1, <1>6, <1>11, <1>15, <1>17, <1>18, Directions DEF Transfer

(* A revision's chunks when its transfer is the only one: it is complete   *)
(* exactly when no frame is left.                                          *)
LEMMA AssembledAlone ==
    ASSUME NEW p \in Peers, NEW q \in Peers, NEW s \in SessionsWith(p, q),
           NEW entry \in Entries(q), s.ingests = <<>>,
           \A e \in s.assembling : e.seq = entry.seq
    PROVE  LET t == Assembled(s, entry)
           IN  /\ SameSending(s, t) /\ t.orphans = s.orphans
               /\ entry.got = 1..Chunks => t.assembling = {} /\ Len(t.ingests) = 1
               /\ entry.got # 1..Chunks => t.assembling = {entry} /\ t.ingests = <<>>
<1>1. {e \in s.assembling : e.seq # entry.seq} = {}
  OBVIOUS
<1>2. PICK queue : queue = Append(<<>>, entry.revision) /\ Len(queue) = 1
  <2>1. PICK S : S = {entry.revision}
    OBVIOUS
  <2>2. <<>> \in Seq(S) /\ entry.revision \in S /\ Len(<<>>) = 0
    BY <2>1, EmptySeq
  <2>3. Len(Append(<<>>, entry.revision)) = 1
    BY <2>2, AppendProperties
  <2>4. QED
    BY <2>3
<1>3. CASE entry.got = 1..Chunks
  <2>1. PICK t : t = [s EXCEPT !.assembling = {}, !.ingests = queue]
    OBVIOUS
  <2>2. Assembled(s, entry) = t
    BY <1>1, <1>2, <1>3, <2>1 DEF Assembled
  <2>3. SameSending(s, t) /\ t.orphans = s.orphans /\ t.assembling = {} /\ t.ingests = queue
    BY <2>1 DEF SameSending, SessionsWith
  <2>4. QED
    BY <1>2, <1>3, <2>2, <2>3
<1>4. CASE entry.got # 1..Chunks
  <2>1. PICK t : t = [s EXCEPT !.assembling = {entry}]
    OBVIOUS
  <2>2. Assembled(s, entry) = t
    BY <1>1, <1>4, <2>1 DEF Assembled
  <2>3. SameSending(s, t) /\ t.orphans = s.orphans /\ t.assembling = {entry} /\ t.ingests = <<>>
    BY <2>1 DEF SameSending, SessionsWith
  <2>4. QED
    BY <1>4, <2>2, <2>3
<1>5. QED
  BY <1>3, <1>4

(* A header finds the early frames of its transfer, and no others.         *)
LEMMA HeaderTransfer ==
    ASSUME SoundInv, TransferInv, NEW p \in Peers, ReceiveHeader(p)
    PROVE  TransferInv'
<1> DEFINE s == session[p]
           m == Head(ctl[p])
<1>1. PICK q \in Peers : q = Other(p) /\ p = Other(q) /\ p # q
  BY OtherIs
<1>2. Transfer(p, q) /\ Transfer(q, p)
  BY <1>1 DEF TransferInv
<1>3. /\ DOMAIN ctl = Peers /\ DOMAIN session = Peers /\ s \in SessionsWith(p, q)
      /\ bulk \in [Peers -> Seq(AllFrames)] /\ s.orphans \subseteq AllFrames
  BY <1>1 DEF SoundInv, ControlSound, SessionsSound, BulkSound, SessionsWith
<1>4. PICK S : S = SaidBy(q) /\ ctl[p] \in Seq(S)
  BY <1>1 DEF SoundInv, ControlSound
<1>5. ctl[p] # <<>> /\ m.type = "header" /\ UNCHANGED bulk
  BY DEF ReceiveHeader, CanReceive
<1>6. 1 \in DOMAIN ctl[p] /\ m = ctl[p][1] /\ m \in S
  BY <1>4, <1>5
<1>7. Announced(p, q) /\ session[q].awaiting # NoHead
  <2>1. ~ None(ctl[p], "header")
    BY <1>5, <1>6 DEF None
  <2>2. QED
    BY <1>2, <2>1 DEF Transfer, Idle, Assembling, Storing, Acknowledged
<1>8. m.seq = session[q].transferSeq /\ m.seq \in Nat /\ m.revision \in store[q].held
  <2>1. m.seq \in Nat /\ m.revision \in store[q].held
    BY <1>4, <1>5, <1>6 DEF SaidBy
  <2>2. QED
    BY <1>5, <1>6, <1>7, <2>1 DEF Announced
<1>9. /\ \A f \in s.orphans : f.seq = m.seq
      /\ \A i \in DOMAIN bulk[p] : bulk[p][i].seq = m.seq /\ bulk[p][i] \notin s.orphans
  BY <1>2, <1>8 DEF Transfer, FramesOnce
<1>10. PICK got : got = {f.chunk : f \in s.orphans}
  OBVIOUS
<1>11. got \subseteq 1..Chunks
  <2>1. \A f \in s.orphans : f.chunk \in 1..Chunks
    BY <1>3 DEF AllFrames
  <2>2. QED
    BY <1>10, <2>1
<1>12. PICK entry \in Entries(q) :
         /\ entry = [seq |-> m.seq, revision |-> m.revision, got |-> got]
         /\ entry.got = got /\ entry.seq = m.seq
  <2>1. PICK n \in Nat, r \in store[q].held : n = m.seq /\ r = m.revision
    BY <1>8
  <2>2. [seq |-> n, revision |-> r, got |-> got] \in Entries(q)
    BY <1>11 DEF Entries
  <2>3. [seq |-> n, revision |-> r, got |-> got].got = got
        /\ [seq |-> n, revision |-> r, got |-> got].seq = n
    OBVIOUS
  <2>4. QED
    BY <2>1, <2>2, <2>3
<1>13. PICK u \in SessionsWith(p, q) : u = [s EXCEPT !.orphans = {}]
  BY <1>3 DEF SessionsWith
<1>14. /\ u.orphans = {} /\ u.assembling = {} /\ u.ingests = <<>> /\ SameSending(s, u)
  BY <1>3, <1>7, <1>13 DEF SessionsWith, Announced, SameSending
<1>15. Becomes(p, Assembled(u, entry))
  <2>1. {f \in s.orphans : f.seq = m.seq} = s.orphans
    BY <1>9
  <2>2. u = [s EXCEPT !.orphans = @ \ {f \in s.orphans : f.seq = m.seq}]
    BY <1>13, <2>1
  <2>3. entry = [seq |-> m.seq, revision |-> m.revision,
                 got |-> {f.chunk : f \in {g \in s.orphans : g.seq = m.seq}}]
    BY <1>10, <1>12, <2>1
  <2>4. QED
    BY <2>2, <2>3 DEF ReceiveHeader
<1>16. PICK t : t = Assembled(u, entry)
  OBVIOUS
<1>17. /\ SameSending(s, t) /\ t.orphans = {}
       /\ entry.got = 1..Chunks => t.assembling = {} /\ Len(t.ingests) = 1
       /\ entry.got # 1..Chunks => t.assembling = {entry} /\ t.ingests = <<>>
  <2>1. \A e \in u.assembling : e.seq = entry.seq
    BY <1>14
  <2>2. /\ SameSending(u, t) /\ t.orphans = u.orphans
        /\ entry.got = 1..Chunks => t.assembling = {} /\ Len(t.ingests) = 1
        /\ entry.got # 1..Chunks => t.assembling = {entry} /\ t.ingests = <<>>
    BY <1>14, <1>16, <2>1, AssembledAlone
  <2>3. QED
    BY <1>14, <2>2 DEF SameSending
<1>18. /\ session'[p] = t /\ session'[q] = session[q]
       /\ ctl'[p] = Tail(ctl[p]) /\ ctl'[q] = ctl[q]
  BY <1>1, <1>3, <1>15, <1>16 DEF Becomes, ReceiveHeader, Received
<1>19. Transfer(q, p)'
  <2>1. CalmOn(ctl[p], ctl'[p], "ack")
    BY <1>4, <1>5, <1>18, Dropped DEF CalmOn
  <2>2. CalmOn(ctl[q], ctl'[q], "header") /\ SameReceiving(session[q], session'[q])
    BY <1>18 DEF CalmOn, SameReceiving
  <2>3. QED
    BY <1>2, <1>5, <1>17, <1>18, <2>1, <2>2, CalmDirection
<1>20. \A i \in DOMAIN bulk[p] : bulk[p][i].chunk \in 1..Chunks /\ bulk[p][i].chunk \notin got
  <2> SUFFICES ASSUME NEW i \in DOMAIN bulk[p], NEW f \in s.orphans, f.chunk = bulk[p][i].chunk
               PROVE  FALSE
    <3>1. \A i \in DOMAIN bulk[p] : bulk[p][i] \in AllFrames
      BY <1>3
    <3>2. \A i \in DOMAIN bulk[p] : bulk[p][i].chunk \in 1..Chunks
      BY <3>1 DEF AllFrames
    <3>3. QED
      BY <1>10, <3>2
  <2>1. bulk[p][i] \in AllFrames /\ f \in AllFrames /\ f.seq = bulk[p][i].seq
    BY <1>3, <1>9
  <2>2. f = bulk[p][i]
    BY <2>1 DEF AllFrames
  <2>3. QED
    BY <1>9, <2>2
<1>21. None(ctl'[p], "header") /\ None(ctl'[q], "ack")
  BY <1>4, <1>5, <1>7, <1>18, Dropped DEF Announced
<1>22. FramesOnce(p, q)'
  BY <1>2, <1>5, <1>17, <1>18 DEF Transfer, FramesOnce
<1>23. CASE got = 1..Chunks
  <2>1. bulk[p] = <<>>
    <3>1. DOMAIN bulk[p] = {}
      BY <1>20, <1>23
    <3>2. PICK F : F = AllFrames
      OBVIOUS
    <3>3. bulk[p] \in Seq(F)
      BY <1>3, <3>2
    <3>4. QED
      BY <3>1, <3>3, NoDomain
  <2>2. Storing(p, q)'
    BY <1>5, <1>12, <1>17, <1>18, <1>21, <1>23, <2>1 DEF Storing
  <2>3. QED
    BY <1>1, <1>7, <1>18, <1>19, <1>22, <2>2, Directions DEF Transfer
<1>24. CASE got # 1..Chunks
  <2>1. Assembling(p, q)'
    <3>1. t.assembling = {entry} /\ t.ingests = <<>>
      BY <1>12, <1>17, <1>24
    <3>2. entry.seq = session'[q].transferSeq
      BY <1>8, <1>12, <1>18
    <3>3. \A i \in DOMAIN bulk'[p] : bulk'[p][i].chunk \notin entry.got
      BY <1>5, <1>12, <1>20
    <3>4. QED
      BY <1>17, <1>18, <1>21, <3>1, <3>2, <3>3 DEF Assembling
  <2>2. QED
    BY <1>1, <1>7, <1>18, <1>19, <1>22, <2>1, Directions DEF Transfer
<1>25. QED
  BY <1>23, <1>24

(* A frame belongs to the transfer that is under way.                      *)
LEMMA FrameTransfer ==
    ASSUME SoundInv, TransferInv, NEW p \in Peers, ReceiveFrame(p)
    PROVE  TransferInv'
<1> DEFINE s == session[p]
<1>1. PICK q \in Peers : q = Other(p) /\ p = Other(q) /\ p # q
  BY OtherIs
<1>2. Transfer(p, q) /\ Transfer(q, p)
  BY <1>1 DEF TransferInv
<1>3. /\ DOMAIN session = Peers /\ s \in SessionsWith(p, q) /\ s.assembling \subseteq Entries(q)
      /\ bulk \in [Peers -> Seq(AllFrames)] /\ s.orphans \subseteq AllFrames
  BY <1>1 DEF SoundInv, SessionsSound, BulkSound, SessionsWith
<1>4. PICK F : F = AllFrames
  OBVIOUS
<1>5. bulk[p] \in Seq(F) /\ bulk[p] # <<>> /\ UNCHANGED ctl
  BY <1>3, <1>4 DEF ReceiveFrame
<1>6. PICK f \in F, more \in Seq(F) :
        /\ f = Head(bulk[p]) /\ more = Tail(bulk[p]) /\ 1 \in DOMAIN bulk[p] /\ f = bulk[p][1]
        /\ \A i \in DOMAIN more : i + 1 \in DOMAIN bulk[p] /\ i + 1 # 1 /\ more[i] = bulk[p][i + 1]
  <2>1. PICK seq \in Seq(F) : seq = bulk[p] /\ seq # <<>>
    BY <1>5
  <2>2. PICK n \in Nat : n = Len(seq) /\ DOMAIN seq = 1..n /\ n # 0
    BY <2>1
  <2>3. /\ Head(seq) \in F /\ Tail(seq) \in Seq(F) /\ DOMAIN Tail(seq) = 1..(n - 1)
        /\ \A i \in 1..(n - 1) : Tail(seq)[i] = seq[i + 1]
    BY <2>1, <2>2, HeadTailProperties
  <2>4. Head(seq) = seq[1] /\ 1 \in DOMAIN seq
    BY <2>1, <2>2
  <2>5. \A i \in 1..(n - 1) : i + 1 \in DOMAIN seq /\ i + 1 # 1
    BY <2>2
  <2>6. QED
    BY <2>1, <2>3, <2>4, <2>5
<1>7. /\ f.seq = session[q].transferSeq /\ f.chunk \in 1..Chunks /\ f \notin s.orphans
      /\ \A i \in DOMAIN more : /\ more[i] # f /\ more[i].seq = f.seq /\ more[i] \in F
                                /\ more[i] \notin s.orphans
      /\ \A i, j \in DOMAIN more : more[i] = more[j] => i = j
  <2>1. FramesOnce(p, q)
    BY <1>2 DEF Transfer
  <2>2. f.seq = session[q].transferSeq /\ f.chunk \in 1..Chunks /\ f \notin s.orphans
    BY <1>4, <1>6, <2>1 DEF FramesOnce, AllFrames
  <2>3. ASSUME NEW i \in DOMAIN more
        PROVE  more[i] # f /\ more[i].seq = f.seq /\ more[i] \in F /\ more[i] \notin s.orphans
    BY <1>6, <2>1, <2>2 DEF FramesOnce
  <2>4. ASSUME NEW i \in DOMAIN more, NEW j \in DOMAIN more, more[i] = more[j] PROVE i = j
    <3>1. i + 1 = j + 1
      BY <1>6, <2>1, <2>4 DEF FramesOnce
    <3>2. i \in Nat /\ j \in Nat
      BY <1>6
    <3>3. QED
      BY <3>1, <3>2
  <2>5. QED
    BY <2>2, <2>3, <2>4
<1>8. \A i \in DOMAIN more : more[i].chunk \in 1..Chunks /\ more[i].chunk # f.chunk
  <2> SUFFICES ASSUME NEW i \in DOMAIN more PROVE more[i].chunk \in 1..Chunks /\ more[i].chunk # f.chunk
    OBVIOUS
  <2>1. PICK g \in AllFrames : g = more[i] /\ g.seq = f.seq /\ g # f
    BY <1>4, <1>7
  <2>2. f \in AllFrames
    BY <1>4
  <2>3. QED
    BY <2>1, <2>2 DEF AllFrames
<1> DEFINE entries == {e \in s.assembling : e.seq = f.seq}
           t == IF entries # {}
                THEN Assembled(s, [(CHOOSE e \in entries : TRUE) EXCEPT !.got = @ \cup {f.chunk}])
                ELSE IF Cardinality(s.orphans) < MaxOrphans
                THEN [s EXCEPT !.orphans = @ \cup {f}]
                ELSE s
<1>9. /\ session'[p] = t /\ session'[q] = session[q]
      /\ bulk'[p] = more /\ bulk'[q] = bulk[q] /\ ctl'[p] = ctl[p] /\ ctl'[q] = ctl[q]
  <2>1. Becomes(p, t)
    BY <1>6, SMTT(30) DEF ReceiveFrame
  <2> HIDE DEF t
  <2>2. bulk' = [bulk EXCEPT ![p] = more]
    BY <1>6 DEF ReceiveFrame
  <2>3. QED
    BY <1>1, <1>3, <1>5, <2>1, <2>2 DEF Becomes
<1>10. session[q].awaiting # NoHead /\ (Announced(p, q) \/ Assembling(p, q))
  BY <1>2, <1>5 DEF Transfer, Idle, Storing, Acknowledged
<1>11. ASSUME SameSending(s, t) PROVE Transfer(q, p)'
  <2> HIDE DEF t
  <2>1. /\ CalmOn(ctl[p], ctl'[p], "ack") /\ CalmOn(ctl[q], ctl'[q], "header")
        /\ SameReceiving(session[q], session'[q])
    BY <1>9 DEF CalmOn, SameReceiving
  <2>2. QED
    BY <1>2, <1>9, <1>11, <2>1, CalmDirection
<1>12. CASE Announced(p, q)
  <2>1. entries = {}
    BY <1>12 DEF Announced
  <2>2. PICK kept : kept \in {s.orphans, s.orphans \cup {f}} /\ t = [s EXCEPT !.orphans = kept]
    <3>1. t = s \/ t = [s EXCEPT !.orphans = s.orphans \cup {f}]
      BY <2>1
    <3> HIDE DEF t
    <3>2. s = [s EXCEPT !.orphans = s.orphans]
      BY <1>3 DEF SessionsWith
    <3>3. QED
      BY <3>1, <3>2
  <2> HIDE DEF t
  <2>3. /\ t.orphans = kept /\ t.assembling = {} /\ t.ingests = <<>> /\ SameSending(s, t)
    BY <1>3, <1>12, <2>2 DEF SessionsWith, Announced, SameSending
  <2>4. Announced(p, q)'
    BY <1>9, <1>12, <2>3 DEF Announced
  <2>5. FramesOnce(p, q)'
    <3>1. \A g \in kept : g.seq = session'[q].transferSeq
      BY <1>2, <1>7, <1>9, <2>2 DEF Transfer, FramesOnce
    <3>2. \A i \in DOMAIN more : more[i].seq = session'[q].transferSeq /\ more[i] \notin kept
      BY <1>7, <1>9, <2>2
    <3>3. QED
      BY <1>7, <1>9, <2>3, <3>1, <3>2 DEF FramesOnce
  <2>6. QED
    BY <1>1, <1>9, <1>10, <1>11, <2>3, <2>4, <2>5, Directions DEF Transfer
<1>13. CASE Assembling(p, q)
  <2>1. PICK e \in s.assembling :
          /\ s.assembling = {e} /\ e.seq = session[q].transferSeq
          /\ \A i \in DOMAIN bulk[p] : bulk[p][i].chunk \notin e.got
    BY <1>13 DEF Assembling
  <2>2. entries = {e}
    BY <1>7, <2>1
  <2>3. e \in Entries(q)
    BY <1>3, <2>1
  <2>4. PICK got \in SUBSET (1..Chunks) : got = e.got \cup {f.chunk}
    BY <1>7, <2>3 DEF Entries
  <2>5. PICK entry \in Entries(q) : entry = [e EXCEPT !.got = got] /\ entry.got = got /\ entry.seq = e.seq
    <3>1. [e EXCEPT !.got = got] \in Entries(q)
      BY <2>3 DEF Entries
    <3>2. [e EXCEPT !.got = got].got = got /\ [e EXCEPT !.got = got].seq = e.seq
      BY <2>3 DEF Entries
    <3>3. QED
      BY <3>1, <3>2
  <2>6. t = Assembled(s, entry)
    <3>1. (CHOOSE x \in entries : TRUE) = e
      BY <2>2
    <3>2. QED
      BY <2>2, <2>4, <2>5, <3>1
  <2> HIDE DEF t
  <2>7. /\ SameSending(s, t) /\ t.orphans = {}
        /\ got = 1..Chunks => t.assembling = {} /\ Len(t.ingests) = 1
        /\ got # 1..Chunks => t.assembling = {entry} /\ t.ingests = <<>>
    <3>1. s.ingests = <<>> /\ s.orphans = {} /\ \A x \in s.assembling : x.seq = entry.seq
      BY <1>13, <2>1, <2>5 DEF Assembling
    <3>2. PICK u \in SessionsWith(p, q) : u = s
      BY <1>3
    <3>3. LET a == Assembled(u, entry)
          IN  /\ SameSending(u, a) /\ a.orphans = u.orphans
              /\ entry.got = 1..Chunks => a.assembling = {} /\ Len(a.ingests) = 1
              /\ entry.got # 1..Chunks => a.assembling = {entry} /\ a.ingests = <<>>
      BY <3>1, <3>2, AssembledAlone
    <3>4. QED
      BY <2>5, <2>6, <3>1, <3>2, <3>3
  <2>8. \A i \in DOMAIN more : more[i].chunk \in 1..Chunks /\ more[i].chunk \notin got
    BY <1>6, <1>8, <2>1, <2>4
  <2>9. FramesOnce(p, q)'
    BY <1>7, <1>9, <2>7 DEF FramesOnce
  <2>10. None(ctl'[p], "header") /\ None(ctl'[q], "ack")
    BY <1>9, <1>13 DEF Assembling
  <2>11. CASE got = 1..Chunks
    <3>1. DOMAIN more = {}
      BY <2>8, <2>11
    <3>2. more = <<>>
      BY <3>1, NoDomain
    <3>3. Storing(p, q)'
      BY <1>9, <2>7, <2>10, <2>11, <3>2 DEF Storing
    <3>4. QED
      BY <1>1, <1>9, <1>10, <1>11, <2>7, <2>9, <3>3, Directions DEF Transfer
  <2>12. CASE got # 1..Chunks
    <3>1. Assembling(p, q)'
      BY <1>9, <2>1, <2>5, <2>7, <2>8, <2>10, <2>12 DEF Assembling
    <3>2. QED
      BY <1>1, <1>9, <1>10, <1>11, <2>7, <2>9, <3>1, Directions DEF Transfer
  <2>13. QED
    BY <2>11, <2>12
<1>14. QED
  BY <1>10, <1>12, <1>13

(* Every step keeps to one transfer at a time.                             *)
LEMMA TransferStep == SoundInv /\ TransferInv /\ [Next]_vars => TransferInv'
<1> SUFFICES ASSUME SoundInv, TransferInv, [Next]_vars PROVE TransferInv'
  OBVIOUS
<1>1. ASSUME UNCHANGED <<session, ctl, bulk>> PROVE TransferInv'
  BY <1>1 DEF TransferInv, Transfer, FramesOnce, Idle, Announced, Assembling, Storing,
              Acknowledged, None, AtMostOne
<1>2. ASSUME UNCHANGED vars PROVE TransferInv'
  BY <1>1, <1>2 DEF vars
<1>3. ASSUME NEW p \in Peers, NEW r \in Ids, LocalSave(p, r) PROVE TransferInv'
  BY <1>1, <1>3 DEF LocalSave
<1>4. ASSUME NEW p \in Peers, Progress(p) \/ PeerRefused(p) \/ ReadFails(p) \/ Timeout(p) \/ Close(p)
      PROVE  TransferInv'
  BY <1>4, CalmSteps, ServeTransfer, HeaderTransfer, FrameTransfer, AckTransfer, IngestTransfer
     DEF Progress
<1>5. QED
  BY <1>2, <1>3, <1>4 DEF Next

(* At the start nothing is under way.                                      *)
LEMMA TransferInit == Init => TransferInv
<1> SUFFICES ASSUME Init, NEW p \in Peers, NEW q \in Peers PROVE Transfer(p, q)
  BY OtherIs DEF TransferInv
<1>1. session[p] = NewSession /\ ctl[p] = <<>> /\ ctl[q] = <<>> /\ bulk[p] = <<>>
  BY DEF Init
<1>2. session[p].orphans = {} /\ session[p].assembling = {} /\ session[p].ingests = <<>>
  BY <1>1 DEF NewSession
<1>3. Idle(p, q)
  BY <1>1, <1>2 DEF Idle, None
<1>4. FramesOnce(p, q)
  BY <1>1, <1>2 DEF FramesOnce
<1>5. QED
  BY <1>3, <1>4 DEF Transfer

(* One transfer at a time: all frames and entries are of one transfer.     *)
LEMMA TransferImplies == SoundInv /\ TransferInv => OneTransferAtATime
<1> SUFFICES ASSUME SoundInv, TransferInv, NEW p \in Peers
             PROVE  Cardinality({f.seq : f \in Elems(bulk[p]) \cup session[p].orphans}
                                  \cup {e.seq : e \in session[p].assembling}) <= 1
  BY DEF OneTransferAtATime
<1>1. PICK q \in Peers : q = Other(p)
  BY OtherIs
<1>2. PICK n : n = session[q].transferSeq
  OBVIOUS
<1>3. Transfer(p, q)
  BY <1>1 DEF TransferInv
<1>4. \A e \in session[p].assembling : e.seq = n
  BY <1>2, <1>3 DEF Transfer, Idle, Announced, Assembling, Storing, Acknowledged
<1>5. \A f \in Elems(bulk[p]) \cup session[p].orphans : f.seq = n
  BY <1>2, <1>3 DEF Transfer, FramesOnce, Elems
<1> DEFINE used == {f.seq : f \in Elems(bulk[p]) \cup session[p].orphans}
                     \cup {e.seq : e \in session[p].assembling}
<1>6. used \subseteq {n}
  BY <1>4, <1>5
<1>7. Cardinality({n}) = 1 /\ IsFiniteSet({n})
  BY FS_Singleton
<1> HIDE DEF used
<1>8. Cardinality(used) <= 1
  BY <1>6, <1>7, FS_Subset
<1>9. QED
  BY <1>8 DEF used

-----------------------------------------------------------------------------
(* A step of a session that learns nothing from the peer and does not      *)
(* conclude.                                                               *)
Onward(s, t) ==
    /\ t.remoteHead = s.remoteHead /\ t.remoteIds = s.remoteIds /\ t.verdict = s.verdict
    /\ t.mail = s.mail
    /\ \/ t.phase = s.phase
       \/ s.phase # "done" /\ t.phase = "failed"
       \/ s.phase \in BeforeHistory /\ t.phase \in BeforeHistory
       \/ s.phase \in AfterHistory \ {"done"} /\ t.phase \in AfterHistory \ {"done"}

(* The changes a step can make to a session, apart from the four that      *)
(* learn or conclude.                                                      *)
LEMMA OnwardForms ==
    ASSUME NEW p \in Peers, NEW q \in Peers, NEW s \in SessionsWith(p, q)
    PROVE  /\ Onward(s, s)
           /\ s.phase # "done" => Onward(s, Failed(s))
           /\ s.phase # "done" => Onward(s, InboxFails(s))
           /\ s.phase # "done" => Onward(s, [InboxFails(s) EXCEPT !.live = FALSE])
           /\ s.phase = "done" => Onward(s, InboxFails(s))
           /\ s.phase = "done" => Onward(s, [InboxFails(s) EXCEPT !.live = FALSE])
           /\ \A x \in BeforeHistory : s.phase \in BeforeHistory => Onward(s, [s EXCEPT !.phase = x])
           /\ s.phase = "transfer" => Onward(s, [s EXCEPT !.phase = "completing"])
           /\ \A x : s.phase = "wants" => Onward(s, [s EXCEPT !.phase = "transfer", !.serving = x])
           /\ \A x, y : Onward(s, [s EXCEPT !.ingests = x, !.expected = y])
           /\ \A x, y, z : Onward(s, [s EXCEPT !.serving = x, !.awaiting = y, !.transferSeq = z])
           /\ \A x, y : Onward(s, [s EXCEPT !.awaiting = x, !.sent = y])
           /\ \A x : Onward(s, [s EXCEPT !.peerCompleted = x])
           /\ \A x : Onward(s, [s EXCEPT !.orphans = x])
           /\ \A x, y : Onward(s, [s EXCEPT !.assembling = x, !.ingests = y])
           /\ \A x : Onward(s, [s EXCEPT !.assembling = x])
<1>1. Onward(s, s)
  BY DEF Onward
<1>2. s.phase # "done" => Onward(s, Failed(s))
  BY DEF Onward, Failed, SessionsWith
<1>3. Onward(s, [s EXCEPT !.failure = TRUE])
  BY DEF Onward, SessionsWith
<1>4. /\ s.phase # "done" => Onward(s, InboxFails(s))
      /\ s.phase = "done" => Onward(s, InboxFails(s))
  BY <1>2, <1>3 DEF InboxFails, Expecting
<1>5. /\ s.phase # "done" => Onward(s, [Failed(s) EXCEPT !.live = FALSE])
      /\ Onward(s, [[s EXCEPT !.failure = TRUE] EXCEPT !.live = FALSE])
  BY DEF Onward, Failed, SessionsWith
<1>6. /\ s.phase # "done" => Onward(s, [InboxFails(s) EXCEPT !.live = FALSE])
      /\ s.phase = "done" => Onward(s, [InboxFails(s) EXCEPT !.live = FALSE])
  BY <1>5 DEF InboxFails, Expecting
<1>7. \A x \in BeforeHistory : s.phase \in BeforeHistory => Onward(s, [s EXCEPT !.phase = x])
  BY DEF Onward, SessionsWith
<1>8. s.phase = "transfer" => Onward(s, [s EXCEPT !.phase = "completing"])
  BY DEF Onward, SessionsWith, AfterHistory, AfterSummary
<1>9. \A x : s.phase = "wants" => Onward(s, [s EXCEPT !.phase = "transfer", !.serving = x])
  BY DEF Onward, SessionsWith, AfterHistory, AfterSummary
<1>11. \A x, y, z : Onward(s, [s EXCEPT !.serving = x, !.awaiting = y, !.transferSeq = z])
  BY DEF Onward, SessionsWith
<1>12. \A x, y : /\ Onward(s, [s EXCEPT !.ingests = x, !.expected = y])
                 /\ Onward(s, [s EXCEPT !.awaiting = x, !.sent = y])
                 /\ Onward(s, [s EXCEPT !.assembling = x, !.ingests = y])
  BY DEF Onward, SessionsWith
<1>13. \A x : /\ Onward(s, [s EXCEPT !.peerCompleted = x])
              /\ Onward(s, [s EXCEPT !.orphans = x])
              /\ Onward(s, [s EXCEPT !.assembling = x])
  BY DEF Onward, SessionsWith
<1>14. QED
  BY <1>1, <1>2, <1>4, <1>6, <1>7, <1>8, <1>9, <1>11, <1>12, <1>13

(* ... among them the assembly of a revision.                              *)
LEMMA OnwardAssembled ==
    ASSUME NEW p \in Peers, NEW q \in Peers, NEW s \in SessionsWith(p, q), NEW entry
    PROVE  /\ Onward(s, Assembled(s, entry))
           /\ \A x : Onward(s, Assembled([s EXCEPT !.orphans = x], entry))
<1>1. Onward(s, Assembled(s, entry))
  BY OnwardForms DEF Assembled
<1>2. ASSUME NEW x PROVE Onward(s, Assembled([s EXCEPT !.orphans = x], entry))
  <2> DEFINE u == [s EXCEPT !.orphans = x]
  <2>1. \A y, z : Onward(s, [u EXCEPT !.assembling = y, !.ingests = z])
    BY DEF Onward, SessionsWith
  <2>2. \A y : Onward(s, [u EXCEPT !.assembling = y])
    BY DEF Onward, SessionsWith
  <2> HIDE DEF u
  <2>3. Onward(s, Assembled(u, entry))
    BY <2>1, <2>2 DEF Assembled
  <2>4. QED
    BY <2>3 DEF u
<1>3. QED
  BY <1>1, <1>2

(* Every step takes every session onward, or is one of the four.           *)
LEMMA Moves ==
    ASSUME SoundInv, [Next]_vars, NEW p \in Peers
    PROVE  \/ Onward(session[p], session'[p])
           \/ ReceiveReply(p) \/ VaultAgreed(p) \/ RequestMissing(p) \/ Conclude(p)
<1>1. PICK s \in SessionsWith(p, Other(p)) : s = session[p]
  BY DEF SoundInv, SessionsSound
<1>2. Other(p) \in Peers /\ DOMAIN session = Peers
  BY OtherIs DEF SoundInv, SessionsSound
<1>3. CASE session'[p] = session[p]
  BY <1>1, <1>2, <1>3, OnwardForms
<1>4. ASSUME NEW t, Becomes(p, t), Onward(s, t) PROVE Onward(session[p], session'[p])
  BY <1>1, <1>2, <1>4 DEF Becomes
<1>5. ASSUME NEW x \in Peers \ {p}, NEW t, Becomes(x, t) PROVE session'[p] = session[p]
  BY <1>2, <1>5 DEF Becomes
<1>6. ASSUME NEW x \in Peers, Progress(x) \/ PeerRefused(x) \/ ReadFails(x) \/ Timeout(x) \/ Close(x)
      PROVE  \E t : Becomes(x, t)
  BY <1>6 DEF Progress, PeerRefused, ReadFails, Timeout, Close, Start, HelloAnswered,
        HelloRefused, Verify, PeerAccepted, VaultAgreed, VaultRefused, RequestMissing,
        BeginTransfer, ServeNext, ReceiveReply, ReceiveError, ReceiveUnparsable, ReceiveHeader,
        ReceiveFrame, ReceiveAck, ReceiveComplete, Ingest, Reject, FinishTransfer, Conclude,
        ConcludeFails, ExpectRejected
<1>7. ASSUME Progress(p) \/ PeerRefused(p) \/ ReadFails(p) \/ Timeout(p) \/ Close(p)
      PROVE  \/ Onward(session[p], session'[p])
             \/ ReceiveReply(p) \/ VaultAgreed(p) \/ RequestMissing(p) \/ Conclude(p)
  <2>1. CASE \/ HelloRefused(p) \/ PeerRefused(p) \/ VaultRefused(p) \/ ReadFails(p)
             \/ ConcludeFails(p) \/ Timeout(p) \/ ExpectRejected(p)
    <3>1. Becomes(p, Failed(s)) /\ s.phase # "done"
      BY <1>1, <2>1 DEF HelloRefused, PeerRefused, VaultRefused, ReadFails, ConcludeFails,
            Timeout, ExpectRejected, Answered, ReadyToConclude, Expecting
    <3>2. QED
      BY <1>2, <1>4, <3>1, OnwardForms
  <2>2. CASE \/ \E version \in Versions : Start(p, version)
             \/ HelloAnswered(p) \/ Verify(p) \/ PeerAccepted(p)
    <3>1. CASE \E version \in Versions : Start(p, version)
      <4>1. PICK version \in Versions : Start(p, version)
        BY <3>1
      <4>2. s = NewSession
        BY <1>1, <4>1 DEF Start, SoundInv, SessionsSound
      <4>3. Onward(s, [s EXCEPT !.phase = "hello", !.version = version, !.live = TRUE])
        BY <4>2 DEF Onward, NewSession, BeforeHistory
      <4>4. QED
        BY <1>4, <4>1, <4>2, <4>3 DEF Start
    <3>2. CASE HelloAnswered(p) \/ Verify(p) \/ PeerAccepted(p)
      <4>1. s.phase \in BeforeHistory
        BY <1>1, <3>2 DEF HelloAnswered, Verify, PeerAccepted, Answered, BeforeHistory
      <4>2. PICK x \in BeforeHistory : Becomes(p, [s EXCEPT !.phase = x])
        BY <1>1, <3>2 DEF HelloAnswered, Verify, PeerAccepted, BeforeHistory
      <4>3. QED
        BY <1>2, <1>4, <4>1, <4>2, OnwardForms
    <3>3. QED
      BY <2>2, <3>1, <3>2
  <2>3. CASE ReceiveError(p) \/ ReceiveUnparsable(p) \/ Close(p)
    <3>1. Becomes(p, InboxFails(s)) \/ Becomes(p, [InboxFails(s) EXCEPT !.live = FALSE])
      BY <1>1, <2>3 DEF ReceiveError, ReceiveUnparsable, Close
    <3>2. QED
      BY <1>2, <1>4, <3>1, OnwardForms
  <2>4. CASE BeginTransfer(p) \/ FinishTransfer(p)
    <3>1. CASE BeginTransfer(p)
      <4>1. s.phase = "wants" /\ Becomes(p, [s EXCEPT !.phase = "transfer", !.serving = Mail(s, "wants").order])
        BY <1>1, <3>1 DEF BeginTransfer, Answered
      <4>2. Onward(s, [s EXCEPT !.phase = "transfer", !.serving = Mail(s, "wants").order])
        BY <1>2, <4>1, OnwardForms
      <4>3. QED
        BY <1>4, <4>1, <4>2
    <3>2. CASE FinishTransfer(p)
      <4>1. s.phase = "transfer" /\ Becomes(p, [s EXCEPT !.phase = "completing"])
        BY <1>1, <3>2 DEF FinishTransfer
      <4>2. Onward(s, [s EXCEPT !.phase = "completing"])
        BY <1>2, <4>1, OnwardForms
      <4>3. QED
        BY <1>4, <4>1, <4>2
    <3>3. QED
      BY <2>4, <3>1, <3>2
  <2>5. CASE ReceiveComplete(p)
    <3>1. Becomes(p, [s EXCEPT !.peerCompleted = TRUE])
      BY <1>1, <2>5 DEF ReceiveComplete
    <3>2. Onward(s, [s EXCEPT !.peerCompleted = TRUE])
      BY <1>2, OnwardForms
    <3>3. QED
      BY <1>4, <3>1, <3>2
  <2>6. CASE ReceiveAck(p)
    <3>1. PICK x, y : Becomes(p, [s EXCEPT !.awaiting = x, !.sent = y])
      BY <1>1, <2>6 DEF ReceiveAck
    <3>2. Onward(s, [s EXCEPT !.awaiting = x, !.sent = y])
      BY <1>2, OnwardForms
    <3>3. QED
      BY <1>4, <3>1, <3>2
  <2>7. CASE Ingest(p) \/ Reject(p)
    <3>1. PICK x, y : Becomes(p, [s EXCEPT !.ingests = x, !.expected = y])
      BY <1>1, <2>7 DEF Ingest, Reject, Settled
    <3>2. Onward(s, [s EXCEPT !.ingests = x, !.expected = y])
      BY <1>2, OnwardForms
    <3>3. QED
      BY <1>4, <3>1, <3>2
  <2>8. CASE ServeNext(p)
    <3>1. PICK r : r = Head(s.serving)
      OBVIOUS
    <3>2. \/ Becomes(p, [s EXCEPT !.serving = Tail(@)])
          \/ Becomes(p, [s EXCEPT !.serving = Tail(@), !.awaiting = r, !.transferSeq = @ + 1])
      BY <1>1, <2>8, <3>1 DEF ServeNext
    <3>3. Onward(s, [s EXCEPT !.serving = Tail(@)])
      BY DEF Onward, SessionsWith
    <3>4. Onward(s, [s EXCEPT !.serving = Tail(@), !.awaiting = r, !.transferSeq = @ + 1])
      BY <1>2, OnwardForms
    <3>5. QED
      BY <1>4, <3>2, <3>3, <3>4
  <2>9. CASE ReceiveHeader(p)
    <3>1. PICK x, entry : Becomes(p, Assembled([s EXCEPT !.orphans = x], entry))
      BY <1>1, <2>9 DEF ReceiveHeader
    <3>2. QED
      BY <1>2, <1>4, <3>1, OnwardAssembled
  <2>10. CASE ReceiveFrame(p)
    <3>1. PICK t : /\ Becomes(p, t)
                   /\ \/ \E entry : t = Assembled(s, entry)
                      \/ \E x : t = [s EXCEPT !.orphans = x]
                      \/ t = s
      BY <1>1, <2>10 DEF ReceiveFrame
    <3>2. Onward(s, t)
      <4>1. /\ \A entry : Onward(s, Assembled(s, entry))
            /\ \A x : Onward(s, [s EXCEPT !.orphans = x])
            /\ Onward(s, s)
        BY <1>2, OnwardAssembled, OnwardForms
      <4>2. QED
        BY <3>1, <4>1
    <3>3. QED
      BY <1>4, <3>1, <3>2
  <2>11. QED
    BY <1>7, <2>1, <2>2, <2>3, <2>4, <2>5, <2>6, <2>7, <2>8, <2>9, <2>10 DEF Progress
<1>8. CASE UNCHANGED vars
  BY <1>3, <1>8 DEF vars
<1>9. ASSUME NEW x \in Peers, NEW r \in Ids, LocalSave(x, r) PROVE session'[p] = session[p]
  BY <1>9 DEF LocalSave
<1>10. QED
  BY <1>3, <1>5, <1>6, <1>7, <1>8, <1>9 DEF Next

(* What the four do.                                                       *)
LEMMA FourMoves ==
    ASSUME SoundInv, NEW p \in Peers
    PROVE  LET s == session[p]
               t == session'[p]
           IN  /\ ReceiveReply(p) =>
                    /\ t.phase = s.phase /\ t.remoteHead = s.remoteHead
                    /\ t.remoteIds = s.remoteIds /\ t.verdict = s.verdict
                    /\ t.mail = s.mail \cup {Head(ctl[p])} /\ ctl[p] # <<>>
               /\ VaultAgreed(p) =>
                    /\ s.phase = "summary" /\ t.phase = "history" /\ t.remoteIds = s.remoteIds
                    /\ t.mail = s.mail /\ t.verdict = s.verdict
                    /\ \E m \in s.mail : m.type = "summary" /\ m.head = t.remoteHead
               /\ RequestMissing(p) =>
                    /\ s.phase = "history" /\ t.phase = "wants" /\ t.remoteHead = s.remoteHead
                    /\ t.mail = s.mail /\ t.verdict = s.verdict
                    /\ \E m \in s.mail : m.type = "history" /\ m.revisions = t.remoteIds
               /\ Conclude(p) =>
                    /\ s.phase = "completing" /\ t.phase = "done" /\ t.remoteHead = s.remoteHead
                    /\ t.remoteIds = s.remoteIds /\ t.mail = s.mail /\ t.verdict = Verdict(p)
<1>1. PICK s \in SessionsWith(p, Other(p)) : s = session[p]
  BY DEF SoundInv, SessionsSound
<1>2. \A t : Becomes(p, t) => session'[p] = t
  BY DEF SoundInv, SessionsSound, Becomes
<1>3. \A type : HasMail(s, type) => Mail(s, type) \in s.mail /\ Mail(s, type).type = type
  BY DEF HasMail, Mail
<1>4. ASSUME ReceiveReply(p)
      PROVE  LET t == session'[p]
             IN  /\ t.phase = s.phase /\ t.remoteHead = s.remoteHead
                 /\ t.remoteIds = s.remoteIds /\ t.verdict = s.verdict
                 /\ t.mail = s.mail \cup {Head(ctl[p])} /\ ctl[p] # <<>>
  <2>1. session'[p] = [s EXCEPT !.mail = @ \cup {Head(ctl[p])}] /\ ctl[p] # <<>>
    BY <1>1, <1>2, <1>4 DEF ReceiveReply, CanReceive
  <2>2. QED
    BY <2>1 DEF SessionsWith
<1>5. ASSUME VaultAgreed(p)
      PROVE  LET t == session'[p]
             IN  /\ s.phase = "summary" /\ t.phase = "history" /\ t.remoteIds = s.remoteIds
                 /\ t.mail = s.mail /\ t.verdict = s.verdict
                 /\ \E m \in s.mail : m.type = "summary" /\ m.head = t.remoteHead
  <2>1. PICK m \in s.mail : m = Mail(s, "summary") /\ m.type = "summary"
    BY <1>1, <1>3, <1>5 DEF VaultAgreed, Answered
  <2>2. s.phase = "summary" /\ session'[p] = [s EXCEPT !.phase = "history", !.remoteHead = m.head]
    BY <1>1, <1>2, <1>5, <2>1 DEF VaultAgreed, Answered
  <2>3. QED
    BY <2>1, <2>2 DEF SessionsWith
<1>6. ASSUME RequestMissing(p)
      PROVE  LET t == session'[p]
             IN  /\ s.phase = "history" /\ t.phase = "wants" /\ t.remoteHead = s.remoteHead
                 /\ t.mail = s.mail /\ t.verdict = s.verdict
                 /\ \E m \in s.mail : m.type = "history" /\ m.revisions = t.remoteIds
  <2>1. PICK m \in s.mail : m = Mail(s, "history") /\ m.type = "history"
    BY <1>1, <1>3, <1>6 DEF RequestMissing, Answered
  <2>2. PICK wants : wants = Elems(Wants(p, [s EXCEPT !.remoteIds = m.revisions]))
    OBVIOUS
  <2>3. /\ s.phase = "history"
        /\ session'[p] = [[s EXCEPT !.remoteIds = m.revisions] EXCEPT
                            !.phase = "wants", !.expected = wants, !.asked = wants]
    BY <1>1, <1>2, <1>6, <2>1, <2>2 DEF RequestMissing, Answered
  <2>4. QED
    BY <2>1, <2>3 DEF SessionsWith
<1>7. ASSUME Conclude(p)
      PROVE  LET t == session'[p]
             IN  /\ s.phase = "completing" /\ t.phase = "done" /\ t.remoteHead = s.remoteHead
                 /\ t.remoteIds = s.remoteIds /\ t.mail = s.mail /\ t.verdict = Verdict(p)
  <2>1. PICK verdict : verdict = Verdict(p)
    OBVIOUS
  <2>2. /\ s.phase = "completing"
        /\ session'[p] = [s EXCEPT !.phase = "done", !.live = FALSE, !.verdict = verdict]
    BY <1>1, <1>2, <1>7, <2>1 DEF Conclude, ReadyToConclude
  <2>3. QED
    BY <2>1, <2>2 DEF SessionsWith
<1>8. QED
  BY <1>1, <1>4, <1>5, <1>6, <1>7

(* A message that a step of x sends: a summary and a history say what x    *)
(* has at that moment.                                                     *)
Fresh(x, m) ==
    \/ m.type \notin {"summary", "history"}
    \/ PeerAccepted(x) /\ m.type = "summary" /\ m.head = store[x].head
    \/ VaultAgreed(x) /\ m.type = "history" /\ m.revisions = store[x].held

(* What a step of x does to the control streams.                           *)
LEMMA ControlMoves ==
    ASSUME SoundInv, NEW x \in Peers,
           Progress(x) \/ PeerRefused(x) \/ ReadFails(x) \/ Timeout(x) \/ Close(x)
    PROVE  \/ UNCHANGED ctl
           \/ ctl[x] # <<>> /\ Received(x)
           \/ \E m : Fresh(x, m) /\ Sends(x, <<m>>)
           \/ \E m : Fresh(x, m) /\ ctl' = [ctl EXCEPT ![Other(x)] = Append(@, m)]
<1>1. CASE \/ Verify(x) \/ VaultRefused(x) \/ BeginTransfer(x) \/ ReadFails(x) \/ ReceiveFrame(x)
           \/ Conclude(x) \/ ConcludeFails(x) \/ Timeout(x) \/ ExpectRejected(x) \/ Close(x)
  BY <1>1 DEF Verify, VaultRefused, BeginTransfer, ReadFails, ReceiveFrame, Conclude,
              ConcludeFails, Timeout, ExpectRejected, Close
<1>2. CASE \/ ReceiveReply(x) \/ ReceiveError(x) \/ ReceiveUnparsable(x)
           \/ ReceiveHeader(x) \/ ReceiveAck(x) \/ ReceiveComplete(x)
  BY <1>2 DEF ReceiveReply, ReceiveError, ReceiveUnparsable, ReceiveHeader, ReceiveAck,
              ReceiveComplete, CanReceive
<1>3. CASE HelloAnswered(x)
  BY <1>3 DEF HelloAnswered, Fresh
<1>4. CASE HelloRefused(x) \/ PeerRefused(x)
  BY <1>4 DEF HelloRefused, PeerRefused, Fresh
<1>5. CASE FinishTransfer(x)
  BY <1>5 DEF FinishTransfer, Fresh
<1>6. CASE Ingest(x)
  BY <1>6 DEF Ingest, Acks, Fresh
<1>7. CASE Reject(x)
  BY <1>7 DEF Reject, Acks, Fresh
<1>8. CASE RequestMissing(x)
  BY <1>8 DEF RequestMissing, Fresh
<1>9. CASE ServeNext(x)
  BY <1>9 DEF ServeNext, Fresh
<1>10. CASE PeerAccepted(x)
  <2>1. PICK m \in { [type |-> "summary", vault |-> store[x].vault, head |-> store[x].head] } :
          m.type = "summary" /\ m.head = store[x].head
    OBVIOUS
  <2>2. Sends(x, <<m>>)
    BY <1>10, <2>1 DEF PeerAccepted
  <2>3. QED
    BY <1>10, <2>1, <2>2 DEF Fresh
<1>11. CASE VaultAgreed(x)
  <2>1. PICK m \in { [type |-> "history", revisions |-> store[x].held] } :
          m.type = "history" /\ m.revisions = store[x].held
    OBVIOUS
  <2>2. Sends(x, <<m>>)
    BY <1>11, <2>1 DEF VaultAgreed
  <2>3. QED
    BY <1>11, <2>1, <2>2 DEF Fresh
<1>12. CASE \E version \in Versions : Start(x, version)
  BY <1>12 DEF Start, Fresh
<1>13. QED
  BY <1>1, <1>2, <1>3, <1>4, <1>5, <1>6, <1>7, <1>8, <1>9, <1>10, <1>11, <1>12 DEF Progress

(* What a device hears is what it heard, and what the other now says.      *)
LEMMA HeardMoves ==
    ASSUME SoundInv, [Next]_vars, NEW p \in Peers, NEW m \in Heard(p)'
    PROVE  m \in Heard(p) \/ Fresh(Other(p), m)
<1>1. PICK q \in Peers : q = Other(p) /\ p = Other(q) /\ p # q
  BY OtherIs
<1>2. PICK S : ctl[p] \in Seq(S)
  BY DEF SoundInv, ControlSound
<1>3. DOMAIN ctl = Peers
  BY DEF SoundInv, ControlSound
<1>4. session'[p].mail \subseteq Heard(p)
  <2>1. session'[p].mail \subseteq session[p].mail \cup Elems(ctl[p])
    <3>1. CASE Onward(session[p], session'[p])
      BY <3>1 DEF Onward
    <3>2. CASE ReceiveReply(p)
      <4>1. session'[p].mail = session[p].mail \cup {Head(ctl[p])} /\ ctl[p] # <<>>
        BY <3>2, FourMoves
      <4>2. Head(ctl[p]) \in Elems(ctl[p])
        <5>1. 1 \in DOMAIN ctl[p] /\ Head(ctl[p]) = ctl[p][1]
          BY <1>2, <4>1
        <5>2. QED
          BY <5>1 DEF Elems
      <4>3. QED
        BY <4>1, <4>2
    <3>3. CASE VaultAgreed(p) \/ RequestMissing(p) \/ Conclude(p)
      BY <3>3, FourMoves
    <3>4. QED
      BY <3>1, <3>2, <3>3, Moves
  <2>2. QED
    BY <2>1 DEF Heard
<1>5. \A i \in DOMAIN ctl'[p] : ctl'[p][i] \in Elems(ctl[p]) \/ Fresh(q, ctl'[p][i])
  <2>1. CASE ctl'[p] = ctl[p]
    BY <2>1 DEF Elems
  <2>2. CASE ctl[p] # <<>> /\ ctl'[p] = Tail(ctl[p])
    <3>1. \A i \in DOMAIN ctl'[p] : \E j \in DOMAIN ctl[p] : ctl[p][j] = ctl'[p][i]
      BY <1>2, <2>2, Dropped
    <3>2. QED
      BY <3>1 DEF Elems
  <2>3. ASSUME NEW n, Fresh(q, n), ctl'[p] = ctl[p] \o <<n>> \/ ctl'[p] = Append(ctl[p], n)
        PROVE  \A i \in DOMAIN ctl'[p] : ctl'[p][i] \in Elems(ctl[p]) \/ Fresh(q, ctl'[p][i])
    <3>1. PICK T : T = S \cup {n}
      OBVIOUS
    <3>2. ctl[p] \in Seq(T) /\ n \in T
      BY <1>2, <3>1
    <3>3. Append(ctl[p], n) = ctl[p] \o <<n>>
      BY <3>2
    <3>4. ctl'[p] = ctl[p] \o <<n>>
      BY <2>3, <3>3
    <3>5. \A i \in DOMAIN ctl'[p] : ctl'[p][i] = n \/ \E j \in DOMAIN ctl[p] : ctl[p][j] = ctl'[p][i]
      BY <1>2, <3>4, Appended
    <3>6. QED
      BY <2>3, <3>5 DEF Elems
  <2>4. CASE UNCHANGED ctl
    BY <2>1, <2>4
  <2>5. ASSUME NEW x \in Peers,
               Progress(x) \/ PeerRefused(x) \/ ReadFails(x) \/ Timeout(x) \/ Close(x)
        PROVE  \A i \in DOMAIN ctl'[p] : ctl'[p][i] \in Elems(ctl[p]) \/ Fresh(q, ctl'[p][i])
    <3>1. x = p \/ x = q
      BY <1>1, OtherIs
    <3>2. CASE ctl[x] # <<>> /\ Received(x)
      BY <1>1, <1>3, <2>1, <2>2, <3>1, <3>2 DEF Received
    <3>3. ASSUME NEW n, Fresh(x, n), Sends(x, <<n>>) \/ ctl' = [ctl EXCEPT ![Other(x)] = Append(@, n)]
          PROVE  \A i \in DOMAIN ctl'[p] : ctl'[p][i] \in Elems(ctl[p]) \/ Fresh(q, ctl'[p][i])
      <4>1. CASE x = p
        BY <1>1, <1>3, <2>1, <3>3, <4>1 DEF Sends
      <4>2. CASE x = q
        BY <1>1, <1>3, <2>1, <2>3, <3>3, <4>2 DEF Sends
      <4>3. QED
        BY <3>1, <4>1, <4>2
    <3>4. QED
      BY <2>4, <2>5, <3>2, <3>3, ControlMoves
  <2>6. QED
    BY <2>4, <2>5 DEF Next, vars, LocalSave
<1>6. QED
  BY <1>1, <1>4, <1>5 DEF Heard, Elems

-----------------------------------------------------------------------------
(* What is heard from a device is true of it.                              *)
LEMMA HeardSound ==
    ASSUME SoundInv, NEW p \in Peers
    PROVE  Heard(p) \subseteq SaidBy(Other(p))
<1>1. PICK S : S = SaidBy(Other(p)) /\ ctl[p] \in Seq(S)
  BY DEF SoundInv, ControlSound
<1>2. Elems(ctl[p]) \subseteq S
  BY <1>1 DEF Elems
<1>3. session[p].mail \subseteq S
  BY <1>1 DEF SoundInv, SessionsSound, SessionsWith
<1>4. QED
  BY <1>1, <1>2, <1>3 DEF Heard

(* The announced head stays in the announced history.                      *)
LEMMA AnnouncedStep == SoundInv /\ AnnouncedInv /\ [Next]_vars => AnnouncedInv'
<1> SUFFICES ASSUME SoundInv, AnnouncedInv, [Next]_vars, NEW p \in Peers,
                    NEW q \in Peers, q = Other(p)
             PROVE  /\ \A m, n \in Heard(p)' : m.type = "summary" /\ n.type = "history" =>
                                                  m.head \in n.revisions \cup {NoHead}
                    /\ session'[q].phase \in BeforeHistory => \A n \in Heard(p)' : n.type # "history"
                    /\ session'[p].phase \in AfterSummary =>
                          \E m \in session'[p].mail : m.type = "summary" /\ m.head = session'[p].remoteHead
                    /\ session'[p].phase \in AfterHistory =>
                          \E n \in session'[p].mail : n.type = "history" /\ n.revisions = session'[p].remoteIds
  BY OtherIs DEF AnnouncedInv
<1>1. /\ \A m, n \in Heard(p) : m.type = "summary" /\ n.type = "history" =>
                                   m.head \in n.revisions \cup {NoHead}
      /\ session[q].phase \in BeforeHistory => \A n \in Heard(p) : n.type # "history"
      /\ session[p].phase \in AfterSummary =>
            \E m \in session[p].mail : m.type = "summary" /\ m.head = session[p].remoteHead
      /\ session[p].phase \in AfterHistory =>
            \E n \in session[p].mail : n.type = "history" /\ n.revisions = session[p].remoteIds
  BY DEF AnnouncedInv
<1>2. /\ PeerAccepted(q) => session[q].phase = "verifying"
      /\ VaultAgreed(q) => session[q].phase = "summary" /\ session'[q].phase = "history"
  BY FourMoves DEF PeerAccepted
<1>3. ASSUME NEW m \in Heard(p)', NEW n \in Heard(p)', m.type = "summary", n.type = "history"
      PROVE  m.head \in n.revisions \cup {NoHead}
  <2>1. m \in Heard(p) \/ (PeerAccepted(q) /\ m.head = store[q].head)
    BY <1>3, HeardMoves DEF Fresh
  <2>2. n \in Heard(p) \/ (VaultAgreed(q) /\ n.revisions = store[q].held)
    BY <1>3, HeardMoves DEF Fresh
  <2>3. CASE n \in Heard(p)
    <3>1. session[q].phase \notin BeforeHistory
      BY <1>1, <1>3, <2>3
    <3>2. m \in Heard(p)
      BY <1>2, <2>1, <3>1 DEF BeforeHistory
    <3>3. QED
      BY <1>1, <1>3, <2>3, <3>2
  <2>4. CASE VaultAgreed(q) /\ n.revisions = store[q].held
    <3>1. m \in Heard(p)
      BY <1>2, <2>1, <2>4
    <3>2. m \in SaidBy(q)
      BY <3>1, HeardSound
    <3>3. m.head \in store[q].held \cup {NoHead}
      BY <1>3, <3>2 DEF SaidBy
    <3>4. QED
      BY <2>4, <3>3
  <2>5. QED
    BY <2>2, <2>3, <2>4
<1>4. ASSUME session'[q].phase \in BeforeHistory, NEW n \in Heard(p)', n.type = "history" PROVE FALSE
  <2>1. Onward(session[q], session'[q]) \/ ReceiveReply(q)
    BY <1>4, Moves, FourMoves DEF BeforeHistory
  <2>2. session[q].phase \in BeforeHistory
    BY <1>4, <2>1, FourMoves DEF Onward, BeforeHistory, AfterHistory, AfterSummary
  <2>3. ~ VaultAgreed(q)
    BY <1>2, <1>4 DEF BeforeHistory
  <2>4. n \in Heard(p)
    BY <1>4, <2>3, HeardMoves DEF Fresh
  <2>5. QED
    BY <1>1, <1>4, <2>2, <2>4
<1>5. ASSUME session'[p].phase \in AfterSummary
      PROVE  \E m \in session'[p].mail : m.type = "summary" /\ m.head = session'[p].remoteHead
  <2>1. CASE VaultAgreed(p)
    BY <2>1, FourMoves
  <2>2. CASE Onward(session[p], session'[p])
    <3>1. session[p].phase \in AfterSummary
      BY <1>5, <2>2 DEF Onward, AfterHistory, AfterSummary, BeforeHistory
    <3>2. QED
      BY <1>1, <2>2, <3>1 DEF Onward
  <2>3. CASE ReceiveReply(p) \/ RequestMissing(p) \/ Conclude(p)
    <3>1. /\ session[p].phase \in AfterSummary /\ session'[p].remoteHead = session[p].remoteHead
          /\ session[p].mail \subseteq session'[p].mail
      BY <1>5, <2>3, FourMoves DEF AfterSummary
    <3>2. QED
      BY <1>1, <3>1
  <2>4. QED
    BY <2>1, <2>2, <2>3, Moves
<1>6. ASSUME session'[p].phase \in AfterHistory
      PROVE  \E n \in session'[p].mail : n.type = "history" /\ n.revisions = session'[p].remoteIds
  <2>1. CASE RequestMissing(p)
    BY <2>1, FourMoves
  <2>2. CASE Onward(session[p], session'[p])
    <3>1. session[p].phase \in AfterHistory
      BY <1>6, <2>2 DEF Onward, AfterHistory, AfterSummary, BeforeHistory
    <3>2. QED
      BY <1>1, <2>2, <3>1 DEF Onward
  <2>3. CASE ReceiveReply(p) \/ Conclude(p)
    <3>1. /\ session[p].phase \in AfterHistory /\ session'[p].remoteIds = session[p].remoteIds
          /\ session[p].mail \subseteq session'[p].mail
      BY <1>6, <2>3, FourMoves DEF AfterHistory, AfterSummary
    <3>2. QED
      BY <1>1, <3>1
  <2>4. CASE VaultAgreed(p)
    BY <1>6, <2>4, FourMoves DEF AfterHistory, AfterSummary
  <2>5. QED
    BY <2>1, <2>2, <2>3, <2>4, Moves
<1>7. QED
  BY <1>3, <1>4, <1>5, <1>6

(* At the start nothing was announced.                                     *)
LEMMA AnnouncedInit == Init => AnnouncedInv
<1> SUFFICES ASSUME Init PROVE AnnouncedInv
  OBVIOUS
<1>1. \A p \in Peers : Heard(p) = {} /\ session[p].phase = "start"
  BY DEF Init, Heard, Elems, NewSession
<1>2. QED
  BY <1>1, OtherIs DEF AnnouncedInv, AfterSummary, AfterHistory

-----------------------------------------------------------------------------
(* New revisions change no answer about the old ones.                      *)
LEMMA AncestorsStay ==
    ASSUME SoundInv, SoundInv', Grows, NEW id \in DOMAIN parents
    PROVE  ancestorsOf(parents', id) = ancestorsOf(parents, id)
<1>1. IsFiniteSet(DOMAIN parents) /\ IsFiniteSet(DOMAIN parents')
  BY IdsFinite, FS_Subset DEF SoundInv, HistorySound
<1>2. PICK new : new = parents'
  OBVIOUS
<1>3. Agree(parents, new, DOMAIN parents)
  <2>1. parents \in [DOMAIN parents -> SUBSET DOMAIN parents]
    BY DEF SoundInv, HistorySound
  <2>2. \A x \in DOMAIN parents : ParentsIn(parents, x) = parents[x] /\ ParentsIn(new, x) = parents[x]
    BY <1>2 DEF ParentsIn, Grows
  <2>3. QED
    BY <2>1, <2>2 DEF Agree, ParentClosed
<1>4. ancestorsOf(parents, id) = ancestorsOf(new, id)
  BY <1>1, <1>2, <1>3, SameAncestors
<1>5. QED
  BY <1>2, <1>4

(* What a device computes over its own history and the peer's summary is   *)
(* what the whole history says.                                            *)
LEMMA UnionAgrees ==
    ASSUME SoundInv, NEW p \in Peers
    PROVE  LET known == unionGraphs([r \in store[p].held |-> parents[r]], RemoteGraph(session[p]))
           IN  /\ IsFiniteSet(DOMAIN known) /\ IsFiniteSet(DOMAIN parents)
               /\ Agree(known, parents, store[p].held)
               /\ Agree(known, parents, store[p].held \cup session[p].remoteIds)
<1>1. PICK q \in Peers : q = Other(p)
  BY OtherIs
<1>2. PICK mine, theirs : mine = store[p].held /\ theirs = session[p].remoteIds
  OBVIOUS
<1>3. theirs \in Histories(q)
  BY <1>1, <1>2 DEF SoundInv, SessionsSound, SessionsWith
<1>4. /\ mine \subseteq DOMAIN parents /\ theirs \subseteq DOMAIN parents
      /\ ParentClosed(parents, mine) /\ ParentClosed(parents, theirs)
  BY <1>2, <1>3 DEF SoundInv, StoresSound, Histories
<1>5. PICK known : known = unionGraphs([r \in mine |-> parents[r]], [r \in theirs |-> parents[r]])
  OBVIOUS
<1>6. DOMAIN known = mine \cup theirs /\ \A r \in mine \cup theirs : known[r] = parents[r]
  BY <1>5 DEF unionGraphs
<1>7. IsFiniteSet(DOMAIN known) /\ IsFiniteSet(DOMAIN parents)
  BY <1>4, <1>6, IdsFinite, FS_Subset DEF SoundInv, HistorySound
<1>8. \A r \in mine \cup theirs : ParentsIn(known, r) = ParentsIn(parents, r)
  BY <1>4, <1>6 DEF ParentsIn
<1>9. Agree(known, parents, mine) /\ Agree(known, parents, mine \cup theirs)
  <2>1. ParentClosed(parents, mine \cup theirs)
    BY <1>4 DEF ParentClosed
  <2>2. QED
    BY <1>4, <1>8, <2>1 DEF Agree, ParentClosed
<1>10. known = unionGraphs([r \in store[p].held |-> parents[r]], RemoteGraph(session[p]))
  BY <1>2, <1>5 DEF RemoteGraph
<1>11. QED
  BY <1>2, <1>7, <1>9, <1>10

(* What the verdict of a session says about the two heads.                 *)
LEMMA VerdictFacts ==
    ASSUME SoundInv, NEW p \in Peers, NEW mine, mine = store[p].head,
           NEW theirs, theirs = session[p].remoteHead
    PROVE  /\ theirs # NoHead /\ Verdict(p) = "equal" => theirs = mine
           /\ theirs # NoHead /\ Verdict(p) = "local-ahead" =>
                 mine # NoHead /\ theirs \in store[p].held /\ theirs \in ancestorsOf(parents, mine)
           /\ mine # NoHead /\ Verdict(p) = "remote-ahead" /\ theirs \in store[p].held =>
                 mine \in ancestorsOf(parents, theirs)
           /\ mine = NoHead /\ theirs = NoHead => Verdict(p) = "equal"
           /\ mine = NoHead /\ theirs # NoHead => Verdict(p) = "remote-ahead"
           /\ mine # NoHead /\ theirs = NoHead => Verdict(p) = "local-ahead"
           /\ mine # NoHead /\ theirs # NoHead /\ theirs \in store[p].held \cup session[p].remoteIds =>
                 Verdict(p) = classifyDivergence(parents, mine, theirs)
<1>1. PICK known : known = unionGraphs([r \in store[p].held |-> parents[r]], RemoteGraph(session[p]))
  OBVIOUS
<1>2. /\ IsFiniteSet(DOMAIN known) /\ IsFiniteSet(DOMAIN parents)
      /\ Agree(known, parents, store[p].held)
      /\ Agree(known, parents, store[p].held \cup session[p].remoteIds)
  BY <1>1, UnionAgrees
<1>3. mine \in store[p].held \cup {NoHead}
  BY DEF SoundInv, StoresSound
<1>4. /\ mine = NoHead /\ theirs = NoHead => Verdict(p) = "equal"
      /\ mine = NoHead /\ theirs # NoHead => Verdict(p) = "remote-ahead"
      /\ mine # NoHead /\ theirs = NoHead => Verdict(p) = "local-ahead"
      /\ mine # NoHead /\ theirs # NoHead => Verdict(p) = classifyDivergence(known, mine, theirs)
  BY <1>1 DEF Verdict
<1>5. CASE mine = NoHead \/ theirs = NoHead
  BY <1>4, <1>5
<1>6. CASE mine # NoHead /\ theirs # NoHead
  <2>1. Verdict(p) = classifyDivergence(known, mine, theirs) /\ mine \in store[p].held
    BY <1>3, <1>4, <1>6
  <2>2. Verdict(p) = "equal" => theirs = mine
    BY <2>1 DEF classifyDivergence
  <2>3. ASSUME Verdict(p) = "local-ahead"
        PROVE  theirs \in store[p].held /\ theirs \in ancestorsOf(parents, mine)
    <3>1. isAncestor(known, theirs, mine)
      BY <2>1, <2>3 DEF classifyDivergence
    <3>2. theirs \in ancestorsOf(known, mine)
      BY <1>2, <3>1, IsAncestorRight
    <3>3. /\ ancestorsOf(known, mine) = ancestorsOf(parents, mine)
          /\ ancestorsOf(known, mine) \subseteq store[p].held
      BY <1>2, <2>1, SameAncestors
    <3>4. QED
      BY <3>2, <3>3
  <2>4. ASSUME Verdict(p) = "remote-ahead", theirs \in store[p].held
        PROVE  mine \in ancestorsOf(parents, theirs)
    <3>1. isAncestor(known, mine, theirs)
      BY <2>1, <2>4 DEF classifyDivergence
    <3>2. mine \in ancestorsOf(known, theirs)
      BY <1>2, <3>1, IsAncestorRight
    <3>3. ancestorsOf(known, theirs) = ancestorsOf(parents, theirs)
      BY <1>2, <2>4, SameAncestors
    <3>4. QED
      BY <3>2, <3>3
  <2>5. ASSUME theirs \in store[p].held \cup session[p].remoteIds
        PROVE  Verdict(p) = classifyDivergence(parents, mine, theirs)
    <3>1. PICK ids : ids = store[p].held \cup session[p].remoteIds
      OBVIOUS
    <3>2. classifyDivergence(known, mine, theirs) = classifyDivergence(parents, mine, theirs)
      BY <1>2, <2>1, <2>5, <3>1, SameVerdict
    <3>3. QED
      BY <2>1, <3>2
  <2>6. QED
    BY <1>6, <2>1, <2>2, <2>3, <2>4, <2>5
<1>7. QED
  BY <1>5, <1>6

(* A head moves when a session concludes behind the peer, or with a save.  *)
LEMMA HeadsMove ==
    ASSUME SoundInv, [Next]_vars, NEW p \in Peers
    PROVE  \/ store'[p].head = store[p].head
           \/ /\ Conclude(p) /\ Verdict(p) = "remote-ahead"
              /\ session[p].remoteHead \in store[p].held /\ store'[p].head = session[p].remoteHead
           \/ \E r \in Ids : LocalSave(p, r) /\ store'[p].head = r /\ UNCHANGED session
<1>1. store \in [Peers -> Store] /\ store[p] \in Store
  BY DEF SoundInv, StoresSound
<1>2. CASE UNCHANGED store
  BY <1>2
<1>3. ASSUME NEW x \in Peers, NEW r \in Ids, LocalSave(x, r)
      PROVE  store'[p].head = store[p].head \/ (x = p /\ store'[p].head = r /\ UNCHANGED session)
  BY <1>1, <1>3 DEF LocalSave, Store
<1>4. ASSUME NEW x \in Peers, VaultAgreed(x) PROVE store'[p].head = store[p].head
  BY <1>1, <1>4 DEF VaultAgreed, Store
<1>5. ASSUME NEW x \in Peers, Ingest(x) PROVE store'[p].head = store[p].head
  BY <1>1, <1>5 DEF Ingest, Store
<1>6. ASSUME NEW x \in Peers, Conclude(x)
      PROVE  \/ store'[p].head = store[p].head
             \/ /\ x = p /\ Verdict(p) = "remote-ahead"
                /\ session[p].remoteHead \in store[p].held
                /\ store'[p].head = session[p].remoteHead
  <2>1. PICK verdict, theirs : verdict = Verdict(x) /\ theirs = session[x].remoteHead
    OBVIOUS
  <2>2. /\ verdict = "remote-ahead" => theirs \in store[x].held
        /\ store' = IF verdict = "remote-ahead" THEN [store EXCEPT ![x].head = theirs] ELSE store
    BY <1>6, <2>1 DEF Conclude
  <2>3. CASE verdict # "remote-ahead"
    BY <2>2, <2>3
  <2>4. CASE verdict = "remote-ahead"
    <3>1. store' = [store EXCEPT ![x].head = theirs] /\ theirs \in store[x].held
      BY <2>2, <2>4
    <3>2. CASE x = p
      <4>1. store'[p].head = theirs
        BY <1>1, <3>1, <3>2 DEF Store
      <4>2. QED
        BY <2>1, <2>4, <3>1, <3>2, <4>1
    <3>3. CASE x # p
      BY <1>1, <3>1, <3>3
    <3>4. QED
      BY <3>2, <3>3
  <2>5. QED
    BY <2>3, <2>4
<1>7. ASSUME NEW x \in Peers, Progress(x) \/ PeerRefused(x) \/ ReadFails(x) \/ Timeout(x) \/ Close(x)
      PROVE  UNCHANGED store \/ VaultAgreed(x) \/ Ingest(x) \/ Conclude(x)
  BY <1>7 DEF Progress, PeerRefused, ReadFails, Timeout, Close, Start, HelloAnswered,
        HelloRefused, Verify, PeerAccepted, VaultRefused, RequestMissing,
        BeginTransfer, ServeNext, ReceiveReply, ReceiveError, ReceiveUnparsable, ReceiveHeader,
        ReceiveFrame, ReceiveAck, ReceiveComplete, Reject, FinishTransfer,
        ConcludeFails, ExpectRejected
<1>8. QED
  BY <1>2, <1>3, <1>4, <1>5, <1>6, <1>7 DEF Next, vars

(* Every step leaves a device's head among the ancestors of its next one.  *)
LEMMA HeadsAdvance ==
    ASSUME SoundInv, [Next]_vars, NEW p \in Peers, store[p].head # NoHead
    PROVE  /\ store[p].head \in DOMAIN parents
           /\ store[p].head \in ancestorsOf(parents', store'[p].head)
<1>1. SoundInv' /\ Grows
  BY SoundStep
<1>2. IsFiniteSet(DOMAIN parents) /\ IsFiniteSet(DOMAIN parents')
  BY <1>1, IdsFinite, FS_Subset DEF SoundInv, HistorySound
<1>3. PICK new, head, next : new = parents' /\ head = store[p].head /\ next = store'[p].head
  OBVIOUS
<1>4. head \in DOMAIN parents
  BY <1>3 DEF SoundInv, StoresSound
<1>5. CASE next = head
  BY <1>2, <1>3, <1>4, <1>5, AncestorsClosed
<1>6. CASE /\ Conclude(p) /\ Verdict(p) = "remote-ahead"
           /\ session[p].remoteHead \in store[p].held /\ next = session[p].remoteHead
  <2>1. head \in ancestorsOf(parents, next)
    BY <1>3, <1>6, VerdictFacts
  <2>2. next \in DOMAIN parents
    BY <1>6 DEF SoundInv, StoresSound
  <2>3. ancestorsOf(parents', next) = ancestorsOf(parents, next)
    BY <1>1, <2>2, AncestorsStay
  <2>4. QED
    BY <1>3, <1>4, <2>1, <2>3
<1>7. ASSUME NEW r \in Ids, LocalSave(p, r), next = r
      PROVE  head \in ancestorsOf(new, next)
  <2>1. ParentsIn(new, next) = {head}
    BY <1>3, <1>7 DEF LocalSave, ParentsIn
  <2>2. next \in ancestorsOf(new, next) /\ ParentClosed(new, ancestorsOf(new, next))
    BY <1>2, <1>3, AncestorsClosed
  <2>3. QED
    BY <2>1, <2>2 DEF ParentClosed
<1>8. QED
  BY <1>3, <1>4, <1>5, <1>6, <1>7, HeadsMove

(* What was an ancestor of a device's head stays one.                      *)
LEMMA StaysBehind ==
    ASSUME SoundInv, [Next]_vars, NEW p \in Peers, store[p].head # NoHead,
           NEW a, isAncestor(parents, a, store[p].head)
    PROVE  isAncestor(parents', a, store'[p].head)
<1>1. SoundInv' /\ Grows
  BY SoundStep
<1>2. IsFiniteSet(DOMAIN parents) /\ IsFiniteSet(DOMAIN parents')
  BY <1>1, IdsFinite, FS_Subset DEF SoundInv, HistorySound
<1>3. PICK new, head, next : new = parents' /\ head = store[p].head /\ next = store'[p].head
  OBVIOUS
<1>4. head \in DOMAIN parents /\ head \in ancestorsOf(new, next)
  BY <1>3, HeadsAdvance
<1>5. a \in ancestorsOf(parents, head)
  BY <1>2, <1>3, IsAncestorRight
<1>6. ancestorsOf(parents', head) = ancestorsOf(parents, head)
  BY <1>1, <1>4, AncestorsStay
<1>7. ancestorsOf(new, head) \subseteq ancestorsOf(new, next)
  BY <1>2, <1>3, <1>4, AncestorsNest
<1>8. isAncestor(new, a, next)
  BY <1>2, <1>3, <1>5, <1>6, <1>7, IsAncestorRight
<1>9. QED
  BY <1>3, <1>8

(* A session that has ended well stays caught up.                          *)
LEMMA CaughtUpStep == SoundInv /\ DoneMeansCaughtUp /\ [Next]_vars => DoneMeansCaughtUp'
<1> SUFFICES ASSUME SoundInv, DoneMeansCaughtUp, [Next]_vars, NEW p \in Peers,
                    session'[p].phase = "done", session'[p].remoteHead # NoHead,
                    session'[p].verdict # "unrelated"
             PROVE  /\ session'[p].remoteHead \in store'[p].held
                    /\ session'[p].verdict # "diverged" =>
                          isAncestor(parents', session'[p].remoteHead, store'[p].head)
  BY DEF DoneMeansCaughtUp
<1>1. SoundInv' /\ Grows
  BY SoundStep
<1>2. store[p].held \subseteq store'[p].held
  BY <1>1 DEF Grows
<1>3. PICK head, theirs : head = store[p].head /\ theirs = session[p].remoteHead
  OBVIOUS
<1>4. head \in store[p].held \cup {NoHead} /\ NoHead \notin Ids /\ store[p].held \subseteq DOMAIN parents
  BY <1>3, SessionAssumption DEF SoundInv, StoresSound
<1>5. CASE Conclude(p)
  <2>1. session'[p].remoteHead = theirs /\ session'[p].verdict = Verdict(p) /\ theirs # NoHead
    BY <1>3, <1>5, FourMoves
  <2>2. PICK verdict : verdict = Verdict(p)
    OBVIOUS
  <2>3. /\ verdict \in {"remote-ahead", "diverged"} => theirs \in store[p].held
        /\ verdict # "remote-ahead" => store'[p].head = head
        /\ UNCHANGED parents
    BY <1>3, <1>5, <2>2 DEF Conclude
  <2>4. verdict \in DivergenceKinds
    <3>1. session'[p].verdict \in DivergenceKinds \cup {"none"}
      BY <1>1 DEF SoundInv, SessionsSound, SessionsWith
    <3>2. verdict # "none"
      BY <2>2 DEF Verdict, classifyDivergence
    <3>3. QED
      BY <2>1, <2>2, <3>1, <3>2
  <2>5. CASE verdict = "equal"
    <3>1. theirs = head
      BY <1>3, <2>1, <2>2, <2>5, VerdictFacts
    <3>2. store'[p].head = theirs
      BY <2>3, <2>5, <3>1
    <3>3. QED
      BY <1>2, <1>4, <2>1, <3>1, <3>2 DEF isAncestor
  <2>6. CASE verdict = "remote-ahead"
    <3>1. store'[p].head = theirs
      <4>1. store' = [store EXCEPT ![p].head = theirs]
        BY <1>3, <1>5, <2>2, <2>6 DEF Conclude
      <4>2. store \in [Peers -> Store]
        BY DEF SoundInv, StoresSound
      <4>3. QED
        BY <4>1, <4>2 DEF Store
    <3>2. QED
      BY <1>2, <2>1, <2>3, <2>6, <3>1 DEF isAncestor
  <2>7. CASE verdict = "local-ahead"
    <3>1. theirs \in store[p].held /\ theirs \in ancestorsOf(parents, head)
      BY <1>3, <2>1, <2>2, <2>7, VerdictFacts
    <3>2. IsFiniteSet(DOMAIN parents)
      BY IdsFinite, FS_Subset DEF SoundInv, HistorySound
    <3>3. isAncestor(parents, theirs, head)
      BY <3>1, <3>2, IsAncestorRight
    <3>4. parents' = parents /\ store'[p].head = head
      BY <2>3, <2>7
    <3>5. isAncestor(parents', theirs, store'[p].head)
      BY <3>3, <3>4
    <3>6. QED
      BY <1>2, <2>1, <3>1, <3>5
  <2>8. CASE verdict = "diverged"
    BY <1>2, <2>1, <2>2, <2>3, <2>8
  <2>9. QED
    BY <2>1, <2>2, <2>4, <2>5, <2>6, <2>7, <2>8 DEF DivergenceKinds
<1>6. CASE ~ Conclude(p)
  <2>1. /\ session[p].phase = "done" /\ session'[p].remoteHead = theirs
        /\ session'[p].verdict = session[p].verdict
    BY <1>3, <1>6, Moves, FourMoves DEF Onward, BeforeHistory, AfterHistory, AfterSummary
  <2>2. /\ theirs \in store[p].held
        /\ session[p].verdict # "diverged" => isAncestor(parents, theirs, head)
    BY <1>3, <2>1 DEF DoneMeansCaughtUp
  <2>3. ASSUME session[p].verdict # "diverged" PROVE isAncestor(parents', theirs, store'[p].head)
    <3>1. isAncestor(parents, theirs, head)
      BY <2>2, <2>3
    <3>2. CASE head # NoHead
      BY <1>3, <3>1, <3>2, StaysBehind
    <3>3. CASE head = NoHead
      <4>1. NoHead \notin DOMAIN parents
        BY <1>4 DEF SoundInv, HistorySound
      <4>2. theirs \in ancestorsOf(parents, NoHead)
        <5>1. IsFiniteSet(DOMAIN parents)
          BY IdsFinite, FS_Subset DEF SoundInv, HistorySound
        <5>2. QED
          BY <3>1, <3>3, <5>1, IsAncestorRight
      <4>3. theirs = NoHead
        <5>1. ParentClosed(parents, {NoHead})
          BY <4>1 DEF ParentClosed, ParentsIn
        <5>2. IsFiniteSet(DOMAIN parents)
          BY IdsFinite, FS_Subset DEF SoundInv, HistorySound
        <5>3. ancestorsOf(parents, NoHead) \subseteq {NoHead}
          BY <5>1, <5>2, AncestorsLeast
        <5>4. QED
          BY <4>2, <5>3
      <4>4. QED
        BY <2>1, <4>3
    <3>4. QED
      BY <3>2, <3>3
  <2>4. QED
    BY <1>2, <2>1, <2>2, <2>3
<1>7. QED
  BY <1>5, <1>6

-----------------------------------------------------------------------------
(* A step after which nobody has saved is not a save, and leaves the       *)
(* revisions alone.                                                        *)
LEMMA NobodySaved ==
    ASSUME SoundInv, [Next]_vars, parents' = SharedHistory
    PROVE  parents = SharedHistory /\ \A p \in Peers, r \in Ids : ~ LocalSave(p, r)
<1>1. Grows
  BY SoundStep
<1>2. PICK new : new = parents' /\ new = SharedHistory
  OBVIOUS
<1>3. DOMAIN parents = DOMAIN SharedHistory
  BY <1>1, <1>2 DEF Grows, SoundInv, HistorySound
<1>4. parents \in [DOMAIN parents -> SUBSET DOMAIN parents]
  BY DEF SoundInv, HistorySound
<1>5. SharedHistory \in [DOMAIN SharedHistory -> SUBSET DOMAIN SharedHistory]
  BY SessionAssumption
<1>6. \A r \in DOMAIN parents : parents[r] = SharedHistory[r]
  BY <1>1, <1>2 DEF Grows
<1>7. parents = SharedHistory
  BY <1>3, <1>4, <1>5, <1>6
<1>8. ASSUME NEW p \in Peers, NEW r \in Ids, LocalSave(p, r) PROVE FALSE
  BY <1>3, <1>8 DEF LocalSave
<1>9. QED
  BY <1>7, <1>8

(* A session that concludes knows the head the peer announced, and where   *)
(* it is in the history the peer announced.                                *)
LEMMA ConcludesInformed ==
    ASSUME SoundInv, AnnouncedInv, NEW p \in Peers, session[p].phase = "completing"
    PROVE  /\ session[p].remoteHead \in session[p].remoteIds \cup {NoHead}
           /\ \E m \in Heard(p) : m.type = "summary" /\ m.head = session[p].remoteHead
<1>1. session[p].phase \in AfterSummary /\ session[p].phase \in AfterHistory
  BY DEF AfterSummary, AfterHistory
<1>2. PICK m \in session[p].mail : m.type = "summary" /\ m.head = session[p].remoteHead
  BY <1>1 DEF AnnouncedInv
<1>3. PICK n \in session[p].mail : n.type = "history" /\ n.revisions = session[p].remoteIds
  BY <1>1 DEF AnnouncedInv
<1>4. m \in Heard(p) /\ n \in Heard(p)
  BY DEF Heard
<1>5. m.head \in n.revisions \cup {NoHead}
  BY <1>2, <1>3, <1>4 DEF AnnouncedInv
<1>6. QED
  BY <1>2, <1>3, <1>4, <1>5

(* While nobody saves, the heads at the start decide the verdicts and what *)
(* is done on them.                                                        *)
LEMMA DecidedStep == SoundInv /\ AnnouncedInv /\ DecidedInv /\ [Next]_vars => DecidedInv'
<1> SUFFICES ASSUME SoundInv, AnnouncedInv, DecidedInv, [Next]_vars, parents' = SharedHistory
             PROVE  \E first \in [Peers -> DOMAIN SharedHistory \cup {NoHead}] : Decided(first)'
  BY DEF DecidedInv
<1>1. parents = SharedHistory /\ \A p \in Peers, r \in Ids : ~ LocalSave(p, r)
  BY NobodySaved
<1>2. PICK first \in [Peers -> DOMAIN SharedHistory \cup {NoHead}] : Decided(first)
  BY <1>1 DEF DecidedInv
<1> SUFFICES ASSUME NEW p \in Peers, NEW q \in Peers, q = Other(p)
             PROVE  /\ first[p] \in DOMAIN SharedHistory \cup {NoHead}
                    /\ \A m \in Heard(p)' : m.type = "summary" => m.head = first[q]
                    /\ session'[p].phase # "done" => store'[p].head = first[p]
                    /\ session'[p].phase = "done" =>
                          /\ session'[p].verdict = RightVerdict(first[p], first[q])
                          /\ store'[p].head = IF session'[p].verdict = "remote-ahead"
                                              THEN first[q] ELSE first[p]
  <2>1. \A p \in Peers : Other(p) \in Peers
    BY OtherIs
  <2>2. QED
    BY <2>1 DEF Decided
<1>3. /\ \A m \in Heard(p) : m.type = "summary" => m.head = first[q]
      /\ session[p].phase # "done" => store[p].head = first[p]
      /\ session[q].phase # "done" => store[q].head = first[q]
      /\ session[p].phase = "done" =>
            /\ session[p].verdict = RightVerdict(first[p], first[q])
            /\ store[p].head = IF session[p].verdict = "remote-ahead" THEN first[q] ELSE first[p]
  BY <1>2 DEF Decided
<1>4. ASSUME NEW m \in Heard(p)', m.type = "summary" PROVE m.head = first[q]
  <2>1. m \in Heard(p) \/ (PeerAccepted(q) /\ m.head = store[q].head)
    BY <1>4, HeardMoves DEF Fresh
  <2>2. PeerAccepted(q) => session[q].phase = "verifying"
    BY DEF PeerAccepted
  <2>3. QED
    BY <1>3, <1>4, <2>1, <2>2
<1>5. CASE Conclude(p)
  <2>1. /\ session[p].phase = "completing" /\ session'[p].phase = "done"
        /\ session'[p].verdict = Verdict(p)
    BY <1>5, FourMoves
  <2>2. PICK verdict, theirs : verdict = Verdict(p) /\ theirs = session[p].remoteHead
    OBVIOUS
  <2>3. theirs \in session[p].remoteIds \cup {NoHead} /\ theirs = first[q]
    BY <1>3, <2>1, <2>2, ConcludesInformed
  <2>4. store[p].head = first[p]
    BY <1>3, <2>1
  <2>5. verdict = RightVerdict(first[p], first[q])
    <3>1. PICK mine : mine = first[p]
      OBVIOUS
    <3>2. /\ mine = NoHead /\ theirs = NoHead => verdict = "equal"
          /\ mine = NoHead /\ theirs # NoHead => verdict = "remote-ahead"
          /\ mine # NoHead /\ theirs = NoHead => verdict = "local-ahead"
          /\ mine # NoHead /\ theirs # NoHead => verdict = classifyDivergence(parents, mine, theirs)
      BY <2>2, <2>3, <2>4, <3>1, VerdictFacts
    <3>3. verdict = RightVerdict(mine, theirs)
      BY <1>1, <3>2 DEF RightVerdict
    <3>4. QED
      BY <2>3, <3>1, <3>3
  <2>6. store'[p].head = IF verdict = "remote-ahead" THEN theirs ELSE store[p].head
    <3>1. store' = IF verdict = "remote-ahead" THEN [store EXCEPT ![p].head = theirs] ELSE store
      BY <1>5, <2>2 DEF Conclude
    <3>2. store \in [Peers -> Store]
      BY DEF SoundInv, StoresSound
    <3>3. QED
      BY <3>1, <3>2 DEF Store
  <2>7. QED
    BY <1>2, <1>4, <2>1, <2>2, <2>3, <2>4, <2>5, <2>6
<1>6. CASE ~ Conclude(p)
  <2>1. store'[p].head = store[p].head
    BY <1>1, <1>6, HeadsMove
  <2>2. session'[p].phase = "done" <=> session[p].phase = "done"
    BY <1>6, Moves, FourMoves DEF Onward, BeforeHistory, AfterHistory, AfterSummary
  <2>3. session'[p].phase = "done" => session'[p].verdict = session[p].verdict
    BY <1>6, Moves, FourMoves DEF Onward
  <2>4. QED
    BY <1>2, <1>3, <1>4, <2>1, <2>2, <2>3
<1>7. QED
  BY <1>5, <1>6

(* The heads at the start.                                                 *)
LEMMA DecidedInit == Init => DecidedInv
<1> SUFFICES ASSUME Init
             PROVE  \E first \in [Peers -> DOMAIN SharedHistory \cup {NoHead}] : Decided(first)
  BY DEF DecidedInv
<1>1. PICK first : first = [p \in Peers |-> store[p].head]
  OBVIOUS
<1>2. \A p \in Peers : store[p].head \in DOMAIN SharedHistory \cup {NoHead}
  BY SessionAssumption DEF Init
<1>3. \A p \in Peers : Heard(p) = {} /\ session[p].phase = "start"
  BY DEF Init, Heard, Elems, NewSession
<1>4. Decided(first)
  BY <1>1, <1>2, <1>3 DEF Decided
<1>5. first \in [Peers -> DOMAIN SharedHistory \cup {NoHead}]
  BY <1>1, <1>2
<1>6. QED
  BY <1>4, <1>5

(* Opposite verdicts bring two heads together, or tell both devices apart. *)
LEMMA VerdictsMeet ==
    ASSUME NEW a \in DOMAIN SharedHistory \cup {NoHead}, NEW b \in DOMAIN SharedHistory \cup {NoHead},
           NEW x, x = (IF RightVerdict(a, b) = "remote-ahead" THEN b ELSE a),
           NEW y, y = (IF RightVerdict(b, a) = "remote-ahead" THEN a ELSE b)
    PROVE  \/ x = y
           \/ /\ RightVerdict(a, b) \in {"diverged", "unrelated"}
              /\ RightVerdict(b, a) \in {"diverged", "unrelated"}
<1>1. CASE a = NoHead \/ b = NoHead
  BY <1>1 DEF RightVerdict
<1>2. CASE a # NoHead /\ b # NoHead
  <2>1. IsFiniteSet(DOMAIN SharedHistory) /\ Acyclic(SharedHistory)
    BY SessionAssumption, IdsFinite, FS_Subset
  <2>2. VerdictsAgree(SharedHistory, DOMAIN SharedHistory)
    BY <2>1, AncestryRightAlways
  <2>3. PICK mine, theirs : /\ mine = classifyDivergence(SharedHistory, a, b)
                            /\ theirs = classifyDivergence(SharedHistory, b, a)
    OBVIOUS
  <2>4. RightVerdict(a, b) = mine /\ RightVerdict(b, a) = theirs
    BY <1>2, <2>3 DEF RightVerdict
  <2>5. mine \in DivergenceKinds /\ (mine = "equal" => a = b)
    BY <2>3 DEF classifyDivergence, DivergenceKinds
  <2>6. /\ mine = "remote-ahead" <=> theirs = "local-ahead"
        /\ mine = "local-ahead" <=> theirs = "remote-ahead"
        /\ mine \in {"equal", "diverged", "unrelated"} => theirs = mine
    BY <1>2, <2>2, <2>3 DEF VerdictsAgree
  <2>7. QED
    BY <2>4, <2>5, <2>6 DEF DivergenceKinds
<1>3. QED
  BY <1>1, <1>2

(* When both sessions ended well and nobody saved, the devices agree.      *)
LEMMA DecidedImplies == DecidedInv => DevicesAgree
<1> SUFFICES ASSUME DecidedInv, \A p \in Peers : session[p].phase = "done", parents = SharedHistory
             PROVE  \/ \A p, q \in Peers : store[p].head = store[q].head
                    \/ \A p \in Peers : session[p].verdict \in {"diverged", "unrelated"}
  BY DEF DevicesAgree
<1>1. PICK first \in [Peers -> DOMAIN SharedHistory \cup {NoHead}] : Decided(first)
  BY DEF DecidedInv
<1>2. PICK p \in Peers, q \in Peers : p # q /\ Peers = {p, q}
  BY SessionAssumption
<1>3. Other(p) = q /\ Other(q) = p
  BY <1>2 DEF Other
<1>4. /\ session[p].verdict = RightVerdict(first[p], first[q])
      /\ store[p].head = IF session[p].verdict = "remote-ahead" THEN first[q] ELSE first[p]
      /\ session[q].verdict = RightVerdict(first[q], first[p])
      /\ store[q].head = IF session[q].verdict = "remote-ahead" THEN first[p] ELSE first[q]
  BY <1>1, <1>3 DEF Decided
<1>5. \/ store[p].head = store[q].head
      \/ session[p].verdict \in {"diverged", "unrelated"} /\ session[q].verdict \in {"diverged", "unrelated"}
  <2>1. PICK a \in DOMAIN SharedHistory \cup {NoHead}, b \in DOMAIN SharedHistory \cup {NoHead} :
          a = first[p] /\ b = first[q]
    OBVIOUS
  <2>2. PICK x, y : x = store[p].head /\ y = store[q].head
    OBVIOUS
  <2>3. /\ x = IF RightVerdict(a, b) = "remote-ahead" THEN b ELSE a
        /\ y = IF RightVerdict(b, a) = "remote-ahead" THEN a ELSE b
    BY <1>4, <2>1, <2>2
  <2>4. \/ x = y
        \/ /\ RightVerdict(a, b) \in {"diverged", "unrelated"}
           /\ RightVerdict(b, a) \in {"diverged", "unrelated"}
    BY <2>3, VerdictsMeet
  <2>5. QED
    BY <1>4, <2>1, <2>2, <2>4
<1>6. QED
  BY <1>2, <1>5

-----------------------------------------------------------------------------
(* Whatever is rejected, cut short or saved meanwhile, every device keeps  *)
(* the whole history of every revision it stores.                          *)
THEOREM HistoryKeptAlways == Spec => []HistoryKept
  BY SessionSafe, SoundImplies, PTL

(* A revision that a device counts as sent is durable on the other one, in *)
(* every order of messages, failures and saves.                            *)
THEOREM AcksMeanStoredAlways == Spec => []AcksMeanStored
  BY SessionSafe, SoundImplies, PTL

(* A device serves only what it holds, and the chunks on their way to a    *)
(* device are of one transfer, however many chunks a revision has.         *)
THEOREM TransfersCompletableAlways == Spec => []TransfersCompletable
<1>1. SoundInv /\ TransferInv => TransfersCompletable
  BY SoundImplies, TransferImplies DEF TransfersCompletable
<1>2. QED
  BY <1>1, SessionSafe, TransferInit, TransferStep, PTL DEF Spec

(* A session that ends well has caught up, and two that end well with      *)
(* nobody saving leave the devices on one version or both aware that they  *)
(* are not.                                                                *)
THEOREM OutcomeRightAlways == Spec => []OutcomeRight
<1>1. Init => DoneMeansCaughtUp
  <2>1. Init => \A p \in Peers : session[p].phase = "start"
    BY DEF Init, NewSession
  <2>2. QED
    BY <2>1 DEF DoneMeansCaughtUp
<1>2. DoneMeansCaughtUp /\ DecidedInv => OutcomeRight
  BY DecidedImplies DEF OutcomeRight
<1>3. QED
  BY <1>1, <1>2, SessionSafe, CaughtUpStep, AnnouncedInit, AnnouncedStep, DecidedInit, DecidedStep, PTL
     DEF Spec

(* No step of a session takes a device to a version that does not contain  *)
(* the one it was on.                                                      *)
THEOREM HeadsOnlyAdvanceAlways == Spec => HeadsOnlyAdvance
<1> DEFINE Advance == \A p \in Peers :
                         store[p].head # NoHead => isAncestor(parents', store[p].head, store'[p].head)
<1>1. SoundInv /\ [Next]_vars => Advance
  <2> SUFFICES ASSUME SoundInv, [Next]_vars, NEW p \in Peers, store[p].head # NoHead
               PROVE  isAncestor(parents', store[p].head, store'[p].head)
    OBVIOUS
  <2>1. SoundInv'
    BY SoundStep
  <2>2. PICK new, next : new = parents' /\ next = store'[p].head
    OBVIOUS
  <2>3. IsFiniteSet(DOMAIN new)
    BY <2>1, <2>2, IdsFinite, FS_Subset DEF SoundInv, HistorySound
  <2>4. store[p].head \in ancestorsOf(new, next)
    BY <2>2, HeadsAdvance
  <2>5. isAncestor(new, store[p].head, next)
    BY <2>3, <2>4, IsAncestorRight
  <2>6. QED
    BY <2>2, <2>5
<1>2. QED
  BY <1>1, SessionSafe, PTL DEF Spec, HeadsOnlyAdvance
===============================================================================
