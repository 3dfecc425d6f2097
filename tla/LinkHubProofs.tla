----------------------------- MODULE LinkHubProofs -----------------------------
(***************************************************************************)
(* Proofs about LinkHub, for every bound on requests and sessions, every   *)
(* limit of the waiting queue and every choice of faults.                  *)
(***************************************************************************)
EXTENDS LinkHub, FiniteSetTheorems, SequenceTheorems, WellFoundedInduction, TLAPS

Sessions == [id : 0..MaxSessions, phase : Phases, mail : Seq(Frames)]

(* The part of the invariant that is about the sessions and the hubs ...   *)
HubSound ==
    /\ session \in [Peers -> Sessions]
    /\ inFlight \in [Peers -> BOOLEAN]
    /\ link \in [Peers -> 0..MaxSessions]
    /\ waiting \in [Peers -> Seq(Frames)]
    /\ \A p \in Peers : link[p] # 0 => inFlight[p] /\ link[p] = session[p].id
    /\ IdleHoldsNothing

(* ... and the part that is about the channels between them.               *)
NetSound ==
    /\ chan \in [Peers -> Seq(Frames)]
    /\ up \in BOOLEAN /\ closing \subseteq Peers /\ buffered \in [Peers -> BOOLEAN]
    /\ syncs \in 0..MaxSyncs /\ missed \in BOOLEAN

(* The inductive invariant.                                                *)
HubInv == HubSound /\ NetSound

(* The invariant contains both properties of the runs.                     *)
LEMMA HubInvMeans == HubInv => LinkOfTheSession /\ IdleHoldsNothing
  BY DEF HubInv, HubSound, NetSound, Sessions, LinkOfTheSession, TypeOK

-----------------------------------------------------------------------------
(* Every device has the other one as its peer.                             *)
LEMMA OtherIsPeer == \A p \in Peers : Other(p) \in Peers /\ Other(p) # p
<1> SUFFICES ASSUME NEW p \in Peers PROVE \E q \in Peers : q # p
  BY DEF Other
<1>1. Peers # {p}
  BY HubAssumption, FS_Singleton
<1>2. QED
  BY <1>1

(* Every non-empty set of numbers has a least one.                         *)
LEMMA LeastNumber == \A S \in SUBSET Nat : S # {} => \E n \in S : \A m \in S : n <= m
<1> SUFFICES ASSUME NEW S \in SUBSET Nat, S # {} PROVE \E n \in S : \A m \in S : n <= m
  OBVIOUS
<1>1. PICK n \in S : \A m \in S : ~ (<<m, n>> \in OpToRel(<, Nat))
  BY NatLessThanWellFounded, WFMin
<1>2. \A m \in S : ~ (m < n)
  BY <1>1 DEF OpToRel
<1>3. QED
  BY <1>2

(* The message a wait is for is found if there is one.                     *)
LEMMA FirstIsThere ==
    ASSUME HubSound, NEW p \in Peers, NEW type, Has(p, type)
    PROVE  First(p, type) \in Frames /\ First(p, type).type = type
<1> DEFINE mail == session[p].mail
           found == {i \in 1..Len(mail) : mail[i].type = type}
<1>1. mail \in Seq(Frames)
  BY DEF HubSound, Sessions
<1>2. found \in SUBSET Nat /\ found # {}
  BY <1>1 DEF Has
<1>3. \E i \in found : \A j \in found : i <= j
  BY <1>2, LeastNumber
<1>4. \E i \in found : First(p, type) = mail[i]
  BY <1>3 DEF First
<1>5. QED
  BY <1>1, <1>4

(* What the frames carry.                                                  *)
LEMMA FrameFields ==
    /\ \A i \in 1..MaxSessions : Hello(i) \in Frames /\ Auth(i) \in Frames
    /\ \A t \in {"summary", "wants", "bytes", "fin", "error"} : Says(t) \in Frames
    /\ \A frame \in Frames : frame.type = "hello" => frame.from \in 1..MaxSessions
<1>1. \A i \in 1..MaxSessions : Hello(i) \in Frames /\ Auth(i) \in Frames
  BY DEF Frames
<1>2. \A t \in {"summary", "wants", "bytes", "fin", "error"} : Says(t) \in Frames
  BY DEF Frames
<1>3. ASSUME NEW frame \in Frames, frame.type = "hello" PROVE frame.from \in 1..MaxSessions
  <2>1. CASE \E i \in 1..MaxSessions : frame = Hello(i)
    BY <2>1 DEF Hello
  <2>2. CASE \E i \in 1..MaxSessions : frame = Auth(i)
    BY <1>3, <2>2 DEF Auth
  <2>3. CASE \E t \in {"summary", "wants", "bytes", "fin", "error"} : frame = Says(t)
    BY <1>3, <2>3 DEF Says
  <2>4. QED
    BY <2>1, <2>2, <2>3 DEF Frames
<1>4. QED
  BY <1>1, <1>2, <1>3

(* A frame is put at the end of the peer's channel, or is not sent.        *)
LEMMA SendsKeeps ==
    ASSUME NetSound, NEW p \in Peers, NEW frame \in Frames, Sends(p, frame)
    PROVE  chan' \in [Peers -> Seq(Frames)]
  BY OtherIsPeer DEF NetSound, Sends

-----------------------------------------------------------------------------
(* runSession takes the slot and makes the link of its own session.        *)
LEMMA StartedKeeps ==
    ASSUME HubSound, NEW p \in Peers, NEW held \in Seq(Frames), Started(p, held)
    PROVE  HubSound' /\ session[p].id + 1 \in 1..MaxSessions
<1> USE HubAssumption
<1>1. session[p].id + 1 \in 1..MaxSessions
  BY DEF HubSound, Started, Sessions
<1>2. session' \in [Peers -> Sessions]
  BY <1>1 DEF HubSound, Started, createLink, Sessions, Phases, Awaited
<1>3. QED
  BY <1>1, <1>2, SMTT(30) DEF HubSound, Started, Sessions, IdleHoldsNothing

(* The finally of runSession gives back the slot, the link and the queue.  *)
LEMMA EndsKeeps ==
    ASSUME HubSound, NEW p \in Peers, Ends(p)
    PROVE  HubSound'
<1>1. session' \in [Peers -> Sessions] /\ \A q \in Peers \ {p} : session'[q] = session[q]
  BY DEF HubSound, Ends, Sessions, Phases
<1>2. QED
  BY <1>1, HubAssumption DEF HubSound, Ends, closeLink, IdleHoldsNothing

(* A session goes on to its next wait.                                     *)
LEMMA GoesKeeps ==
    ASSUME HubSound, NEW p \in Peers, NEW phase \in Phases, Goes(p, phase), UNCHANGED hubVars
    PROVE  HubSound'
<1>1. /\ session' \in [Peers -> Sessions]
      /\ \A q \in Peers : session'[q].id = session[q].id
  BY ZenonT(60) DEF HubSound, Goes, Sessions
<1>2. QED
  BY <1>1 DEF HubSound, hubVars, IdleHoldsNothing

(* Nothing of the sessions and the hubs changes.                           *)
LEMMA HubStays == HubSound /\ UNCHANGED <<session, hubVars>> => HubSound'
  BY DEF HubSound, hubVars, IdleHoldsNothing

(* The phases a step can lead to.                                          *)
LEMMA PhaseNames ==
    {"hello", "auth", "summary", "wants", "transfer", "completing", "none", "sending", "wrapping"}
        \subseteq Phases
  BY DEF Phases, Awaited

(* A frame leaves a channel.                                               *)
LEMMA TakenKeeps ==
    ASSUME NetSound, NEW p \in Peers, chan[p] # <<>>, Taken(p)
    PROVE  chan' \in [Peers -> Seq(Frames)] /\ Head(chan[p]) \in Frames
  BY DEF NetSound, Taken

-----------------------------------------------------------------------------
(* The session's own steps keep the invariant.                             *)
LEMMA ProceedsKeeps ==
    ASSUME HubInv, NEW p \in Peers, Proceeds(p)
    PROVE  HubInv'
<1> USE DEF HubInv
<1>1. CASE Greeted(p)
  <2>1. Auth(First(p, "hello").from) \in Frames
    BY <1>1, FirstIsThere, FrameFields DEF Greeted
  <2>2. HubSound'
    BY <1>1, GoesKeeps, PhaseNames DEF Greeted, Quietly
  <2>3. QED
    BY <1>1, <2>1, <2>2, SendsKeeps DEF Greeted, Quietly, netVars, NetSound
<1>2. CASE Verified(p)
  <2>1. HubSound'
    BY <1>2, GoesKeeps, PhaseNames DEF Verified, Quietly
  <2>2. QED
    BY <1>2, <2>1, SendsKeeps, FrameFields DEF Verified, Quietly, netVars, NetSound
<1>3. CASE Refused(p)
  <2>1. HubSound'
    BY <1>3, EndsKeeps DEF Refused
  <2>2. QED
    BY <1>3, <2>1, SendsKeeps, FrameFields DEF Refused, netVars, NetSound
<1>4. CASE GotSummary(p)
  <2>1. HubSound'
    BY <1>4, GoesKeeps, PhaseNames DEF GotSummary, Quietly
  <2>2. QED
    BY <1>4, <2>1, SendsKeeps, FrameFields DEF GotSummary, Quietly, netVars, NetSound
<1>5. CASE GotWants(p)
  <2>1. HubSound'
    BY <1>5, GoesKeeps, PhaseNames DEF GotWants, Quietly
  <2>2. QED
    BY <1>5, <2>1 DEF GotWants, Quietly, netVars, NetSound
<1>6. CASE SendBytes(p)
  <2>1. HubSound'
    BY <1>6, GoesKeeps, PhaseNames DEF SendBytes, Quietly
  <2>2. QED
    BY <1>6, <2>1, SendsKeeps, FrameFields DEF SendBytes, Quietly, netVars, NetSound
<1>7. CASE GotBytes(p)
  <2>1. HubSound'
    BY <1>7, GoesKeeps, PhaseNames DEF GotBytes, Quietly
  <2>2. QED
    BY <1>7, <2>1, SendsKeeps, FrameFields DEF GotBytes, Quietly, netVars, NetSound
<1>8. CASE GotFin(p)
  <2>1. HubSound'
    BY <1>8, GoesKeeps, PhaseNames DEF GotFin, Quietly
  <2>2. QED
    BY <1>8, <2>1 DEF GotFin, Quietly, netVars, NetSound
<1>9. CASE Wrapped(p)
  <2>1. HubSound'
    BY <1>9, EndsKeeps DEF Wrapped
  <2>2. QED
    BY <1>9, <2>1 DEF Wrapped, netVars, NetSound
<1>10. QED
  BY <1>1, <1>2, <1>3, <1>4, <1>5, <1>6, <1>7, <1>8, <1>9 DEF Proceeds

(* deliverInbound keeps it, to whomever the frame goes.                    *)
LEMMA HearsKeeps ==
    ASSUME HubInv, NEW p \in Peers, Hears(p)
    PROVE  HubInv'
<1> USE DEF HubInv
<1>1. chan[p] # <<>>
  BY DEF Hears, DeliverError, Deliver, Drop, Hold, Invite, Arrives
<1>2. Head(chan[p]) \in Frames
  BY <1>1 DEF NetSound
<1>3. Held(p) \in Seq(Frames) /\ (waiting[p] = <<>> => Len(Held(p)) = 1)
  <2>1. waiting[p] \in Seq(Frames)
    BY DEF HubSound
  <2>2. /\ Append(waiting[p], Head(chan[p])) \in Seq(Frames)
        /\ Len(Append(waiting[p], Head(chan[p]))) = Len(waiting[p]) + 1
    BY <1>2, <2>1, AppendProperties
  <2>3. Held(p) \in Seq(Frames)
    BY <2>1, <2>2 DEF Held
  <2>4. ASSUME waiting[p] = <<>> PROVE Len(Held(p)) = 1
    <3>1. Len(waiting[p]) = 0
      BY <2>4
    <3>2. Held(p) = Append(waiting[p], Head(chan[p]))
      BY <3>1, HubAssumption DEF Held
    <3>3. QED
      BY ONLY <2>2, <3>1, <3>2
  <2>5. QED
    BY <2>3, <2>4
<1>4. CASE DeliverError(p)
  <2>1. HubSound'
    BY <1>4, EndsKeeps, HubStays DEF DeliverError
  <2>2. QED
    BY <1>1, <1>4, <2>1, TakenKeeps DEF DeliverError, netVars, NetSound
<1>5. CASE Deliver(p)
  <2>0. Append(session[p].mail, Head(chan[p])) \in Seq(Frames)
    BY <1>2, AppendProperties DEF HubSound, Sessions
  <2>1. /\ session' \in [Peers -> Sessions]
        /\ \A q \in Peers : session'[q].id = session[q].id
    BY <2>0, <1>5, ZenonT(60) DEF Deliver, HubSound, Sessions
  <2>2. HubSound'
    BY <1>5, <2>1 DEF Deliver, HubSound, hubVars, IdleHoldsNothing
  <2>3. missed' \in BOOLEAN
    BY <1>5 DEF Deliver
  <2>4. QED
    BY <1>1, <1>5, <2>2, <2>3, TakenKeeps DEF Deliver, netVars, NetSound
<1>6. CASE Drop(p)
  <2>1. HubSound'
    BY <1>6, HubStays DEF Drop
  <2>2. QED
    BY <1>1, <1>6, <2>1, TakenKeeps DEF Drop, netVars, NetSound
<1>7. CASE Hold(p)
  <2>1. inFlight[p]
    <3>1. SUFFICES ASSUME ~ inFlight[p] PROVE FALSE
      BY DEF HubSound
    <3>2. waiting[p] = <<>>
      BY <3>1 DEF HubSound, IdleHoldsNothing
    <3>3. Len(Held(p)) = 1
      BY <1>3, <3>2
    <3>4. QED
      BY <1>7, <3>1, <3>3 DEF Hold
  <2>2. HubSound'
    BY <1>3, <1>7, <2>1 DEF Hold, HubSound, IdleHoldsNothing
  <2>3. missed' \in BOOLEAN
    BY <1>7 DEF Hold
  <2>4. QED
    BY <1>1, <1>7, <2>2, <2>3, TakenKeeps DEF Hold, netVars, NetSound
<1>8. CASE Invite(p)
  <2>1. HubSound' /\ Hello(session[p].id + 1) \in Frames
    BY <1>3, <1>8, StartedKeeps, FrameFields DEF Invite
  <2>2. chan' \in [Peers -> Seq(Frames)]
    <3>1. Tail(chan[p]) \in Seq(Frames) /\ HelloFrom(p) \in Seq(Frames)
      BY <1>1, <2>1, OtherIsPeer, AppendProperties, HeadTailProperties DEF HelloFrom, NetSound
    <3>2. QED
      BY <1>8, <3>1, OtherIsPeer DEF Invite, NetSound
  <2>3. QED
    BY <1>8, <2>1, <2>2 DEF Invite, netVars, NetSound
<1>9. QED
  BY <1>4, <1>5, <1>6, <1>7, <1>8 DEF Hears

(* Every step keeps the invariant.                                         *)
LEMMA HubInductive == HubInv /\ [Next]_vars => HubInv'
<1> SUFFICES ASSUME HubInv, [Next]_vars PROVE HubInv'
  OBVIOUS
<1> USE DEF HubInv
<1>1. ASSUME NEW p \in Peers, Request(p) PROVE HubInv'
  <2>1. waiting[p] \in Seq(Frames)
    BY DEF HubSound
  <2>2. HubSound' /\ Hello(session[p].id + 1) \in Frames
    BY <1>1, <2>1, StartedKeeps, FrameFields DEF Request
  <2>3. chan' \in [Peers -> Seq(Frames)]
    BY <1>1, <2>2, OtherIsPeer DEF Request, HelloFrom, NetSound
  <2>4. syncs' \in 0..MaxSyncs
    BY <1>1, HubAssumption DEF Request, NetSound
  <2>5. QED
    BY <1>1, <2>2, <2>3, <2>4 DEF Request, netVars, NetSound
<1>2. ASSUME NEW p \in Peers, Proceeds(p) PROVE HubInv'
  BY <1>2, ProceedsKeeps
<1>3. ASSUME NEW p \in Peers, Hears(p) PROVE HubInv'
  BY <1>3, HearsKeeps
<1>4. ASSUME NEW p \in Peers, Timeout(p) PROVE HubInv'
  <2>1. HubSound'
    BY <1>4, EndsKeeps DEF Timeout
  <2>2. QED
    BY <1>4, <2>1 DEF Timeout, netVars, NetSound
<1>5. ASSUME NEW p \in Peers, PeerClosed(p) PROVE HubInv'
  <2>1. CASE Ends(p)
    <3>1. HubSound'
      BY <2>1, EndsKeeps
    <3>2. QED
      BY <1>5, <3>1 DEF PeerClosed, NetSound
  <2>2. CASE closeLink(p) /\ UNCHANGED <<session, inFlight>>
    <3>1. HubSound'
      BY <2>2, HubAssumption DEF closeLink, HubSound, IdleHoldsNothing
    <3>2. QED
      BY <1>5, <3>1 DEF PeerClosed, NetSound
  <2>3. QED
    BY <1>5, <2>1, <2>2 DEF PeerClosed
<1>6. ASSUME NEW p \in Peers, Backlog(p) \/ reportBuffered(p) PROVE HubInv'
  <2>1. HubSound'
    BY <1>6, HubStays DEF Backlog, reportBuffered
  <2>2. QED
    BY <1>6, <2>1 DEF Backlog, reportBuffered, NetSound
<1>7. CASE Lost
  <2>1. HubSound'
    BY <1>7, HubStays DEF Lost
  <2>2. chan' \in [Peers -> Seq(Frames)]
    BY <1>7, EmptySeq DEF Lost
  <2>3. QED
    BY <1>7, <2>1, <2>2 DEF Lost, NetSound
<1>8. CASE Reconnect
  <2>1. HubSound'
    BY <1>8, HubStays DEF Reconnect
  <2>2. QED
    BY <1>8, <2>1 DEF Reconnect, NetSound
<1>9. CASE UNCHANGED vars
  <2>1. HubSound'
    BY <1>9, HubStays DEF vars, hubVars
  <2>2. QED
    BY <1>9, <2>1 DEF vars, NetSound
<1>10. QED
  BY <1>1, <1>2, <1>3, <1>4, <1>5, <1>6, <1>7, <1>8, <1>9 DEF Next

(* It holds before anybody connects.                                       *)
LEMMA InitHub == Init => HubInv
<1> SUFFICES ASSUME Init PROVE HubInv
  OBVIOUS
<1>1. session \in [Peers -> Sessions]
  BY HubAssumption, PhaseNames DEF Init, Sessions
<1>2. HubSound
  BY <1>1, HubAssumption DEF Init, HubSound, IdleHoldsNothing
<1>3. NetSound
  <2>1. chan \in [Peers -> Seq(Frames)]
    BY EmptySeq DEF Init
  <2>2. buffered \in [Peers -> BOOLEAN] /\ up \in BOOLEAN /\ missed \in BOOLEAN
    BY DEF Init
  <2>3. closing \subseteq Peers /\ syncs \in 0..MaxSyncs
    BY HubAssumption DEF Init
  <2>4. QED
    BY <2>1, <2>2, <2>3 DEF NetSound
<1>4. QED
  BY <1>2, <1>3 DEF HubInv

-----------------------------------------------------------------------------
(* The invariant holds throughout, however often sessions end and begin    *)
(* and whatever the channels do.                                           *)
THEOREM HubSafe == Spec => []HubInv
<1>1. QED
  BY InitHub, HubInductive, PTL DEF Spec

(* The hub's link is always the link of the session in flight: runSession  *)
(* never closes another session's link, deliverInbound never hands a frame *)
(* to a session that is over.                                              *)
THEOREM LinkOfTheSessionAlways == Spec => []LinkOfTheSession
<1>1. HubInv => LinkOfTheSession
  BY HubInvMeans
<1>2. QED
  BY <1>1, HubSafe, PTL

(* An idle device's queue is empty, so the next hello is the first one and *)
(* invites it (deliverInbound, closeLink).                                 *)
THEOREM IdleHoldsNothingAlways == Spec => []IdleHoldsNothing
<1>1. HubInv => IdleHoldsNothing
  BY HubInvMeans
<1>2. QED
  BY <1>1, HubSafe, PTL

-----------------------------------------------------------------------------
(* Hellos: a device that waits for one has sent one, and every hello that  *)
(* is taken is heard by a session that waits for it, unless one is missed. *)

Unheard(p) == session[p].phase = "hello" /\ ~ Has(p, "hello")
HelloAt(p, i) == i \in 1..Len(chan[p]) /\ chan[p][i].type = "hello"

(* As many hellos are under way, in whichever direction, as devices wait   *)
(* for one.                                                                *)
HelloForEach ==
    /\ (\E p \in Peers : Unheard(p)) => \E p \in Peers, i \in Nat : HelloAt(p, i)
    /\ (\A p \in Peers : Unheard(p)) =>
          \E p, q \in Peers, i, j \in Nat : HelloAt(p, i) /\ HelloAt(q, j) /\ (p # q \/ i # j)

(* While the channels are closed nothing is under way, and nobody who has  *)
(* heard of it waits for a hello.                                          *)
CutOff == ~ up => \A p \in Peers : chan[p] = <<>> /\ (p \in closing \/ session[p].phase # "hello")

HelloInv == CutOff /\ (up /\ ~ missed => HelloForEach)

(* There is nobody but a device and its peer.                              *)
LEMMA TwoPeers == \A p \in Peers : Peers = {p, Other(p)}
<1> SUFFICES ASSUME NEW p \in Peers PROVE Peers = {p, Other(p)}
  OBVIOUS
<1>1. IsFiniteSet(Peers \ {p}) /\ Cardinality(Peers \ {p}) = 1
  BY HubAssumption, FS_RemoveElement
<1>2. PICK q : Peers \ {p} = {q}
  BY <1>1, FS_Singleton
<1>3. QED
  BY <1>2, OtherIsPeer

(* What is sent leaves the hellos under way where they are.                *)
LEMMA SendsHellos ==
    ASSUME NetSound, NEW p \in Peers, NEW frame \in Frames, Sends(p, frame)
    PROVE  \A q \in Peers, i \in Nat : HelloAt(q, i) => HelloAt(q, i)'
<1> SUFFICES ASSUME NEW q \in Peers, NEW i \in Nat, HelloAt(q, i) PROVE HelloAt(q, i)'
  OBVIOUS
<1>1. chan[q] \in Seq(Frames) /\ i \in 1..Len(chan[q])
  BY DEF NetSound, HelloAt
<1>2. chan'[q] = chan[q] \/ chan'[q] = Append(chan[q], frame)
  BY OtherIsPeer DEF Sends, NetSound
<1>3. QED
  BY <1>1, <1>2, AppendProperties DEF HelloAt

(* When a frame is taken the hellos behind it move up.                     *)
LEMMA TakenHellos ==
    ASSUME NetSound, NEW p \in Peers, chan[p] # <<>>, Taken(p),
           NEW q \in Peers, NEW i \in Nat, HelloAt(q, i), q # p \/ i # 1
    PROVE  HelloAt(q, IF q = p THEN i - 1 ELSE i)'
<1>1. chan[p] \in Seq(Frames) /\ chan[q] \in Seq(Frames) /\ i \in 1..Len(chan[q])
  BY DEF NetSound, HelloAt
<1>2. CASE q # p
  BY <1>2 DEF Taken, NetSound, HelloAt
<1>3. CASE q = p
  <2>1. chan'[p] = Tail(chan[p])
    BY DEF Taken, NetSound
  <2>2. /\ Len(Tail(chan[p])) = Len(chan[p]) - 1
        /\ \A n \in 1..Len(Tail(chan[p])) : Tail(chan[p])[n] = chan[p][n + 1]
    BY <1>1, HeadTailProperties
  <2>3. i - 1 \in 1..Len(Tail(chan[p])) /\ Tail(chan[p])[i - 1] = chan[p][i]
    BY <1>1, <1>3, <2>2, LenProperties
  <2>4. QED
    BY <1>3, <2>1, <2>3 DEF HelloAt
<1>4. QED
  BY <1>2, <1>3

(* Nobody begins to wait and no hello is taken.                            *)
LEMMA NobodyNew ==
    ASSUME HelloForEach,
           \A p \in Peers : Unheard(p)' => Unheard(p),
           \A p \in Peers, i \in Nat : HelloAt(p, i) => HelloAt(p, i)'
    PROVE  HelloForEach'
  BY DEF HelloForEach

(* Nobody begins to wait and a frame that is no hello is taken.            *)
LEMMA OtherTaken ==
    ASSUME NetSound, HelloForEach, NEW p \in Peers, chan[p] # <<>>, Taken(p),
           Head(chan[p]).type # "hello",
           \A q \in Peers : Unheard(q)' => Unheard(q)
    PROVE  HelloForEach'
<1> DEFINE m(q, i) == IF q = p THEN i - 1 ELSE i
<1>1. ASSUME NEW q \in Peers, NEW i \in Nat, HelloAt(q, i)
      PROVE  /\ q # p \/ i # 1
             /\ HelloAt(q, m(q, i))' /\ m(q, i) \in Nat
  <2>1. chan[p] \in Seq(Frames) /\ chan[p][1] = Head(chan[p])
    BY DEF NetSound
  <2>2. q # p \/ i # 1
    BY <1>1, <2>1 DEF HelloAt
  <2>3. i >= 1
    BY <1>1 DEF HelloAt
  <2>4. QED
    BY <1>1, <2>2, <2>3, TakenHellos
<1>2. (\E q \in Peers : Unheard(q)') => \E q \in Peers, i \in Nat : HelloAt(q, i)'
  <2>1. SUFFICES ASSUME \E q \in Peers : Unheard(q)' PROVE \E q \in Peers, i \in Nat : HelloAt(q, i)'
    OBVIOUS
  <2>2. PICK q \in Peers, i \in Nat : HelloAt(q, i)
    BY <2>1 DEF HelloForEach
  <2>3. QED
    BY <1>1, <2>2
<1>3. (\A q \in Peers : Unheard(q)') =>
          \E q, r \in Peers, i, j \in Nat : HelloAt(q, i)' /\ HelloAt(r, j)' /\ (q # r \/ i # j)
  <2>1. SUFFICES ASSUME \A q \in Peers : Unheard(q)'
                 PROVE \E q, r \in Peers, i, j \in Nat : HelloAt(q, i)' /\ HelloAt(r, j)' /\ (q # r \/ i # j)
    OBVIOUS
  <2>2. PICK q \in Peers, r \in Peers, i \in Nat, j \in Nat :
            HelloAt(q, i) /\ HelloAt(r, j) /\ (q # r \/ i # j)
    BY <2>1 DEF HelloForEach
  <2>3. q # r \/ m(q, i) # m(r, j)
    BY <2>2
  <2>4. QED
    BY <1>1, <2>2, <2>3
<1>4. QED
  BY <1>2, <1>3 DEF HelloForEach

(* A device that waits takes the hello that has come.                      *)
LEMMA OneHeard ==
    ASSUME NetSound, HelloForEach, NEW p \in Peers, chan[p] # <<>>, Taken(p),
           ~ Unheard(p)', \A q \in Peers : Unheard(q)' => Unheard(q), Unheard(p)
    PROVE  HelloForEach'
<1>1. SUFFICES ASSUME NEW q \in Peers, Unheard(q)' PROVE \E r \in Peers, i \in Nat : HelloAt(r, i)'
  BY DEF HelloForEach
<1>2. \A r \in Peers : Unheard(r)
  BY <1>1, TwoPeers
<1>3. PICK r \in Peers, s \in Peers, i \in Nat, j \in Nat :
          HelloAt(r, i) /\ HelloAt(s, j) /\ (r # s \/ i # j)
  BY <1>2 DEF HelloForEach
<1>4. PICK t \in Peers, k \in Nat : HelloAt(t, k) /\ (t # p \/ k # 1)
  BY <1>3
<1>5. HelloAt(t, IF t = p THEN k - 1 ELSE k)' /\ (IF t = p THEN k - 1 ELSE k) \in Nat
  BY <1>4, TakenHellos DEF HelloAt
<1>6. QED
  BY <1>5

(* A session that begins has its hello at the end of the peer's channel.   *)
LEMMA HelloSent ==
    ASSUME NetSound, NEW p \in Peers, session[p].id + 1 \in 1..MaxSessions,
           NEW q \in Peers, q = Other(p), chan'[q] = HelloFrom(p),
           NEW n \in Nat, n = Len(chan[q]) + 1
    PROVE  /\ HelloAt(q, n)'
           /\ \A i \in Nat : HelloAt(q, i) => HelloAt(q, i)' /\ i # n
<1>1. PICK frame \in Frames : frame = Hello(session[p].id + 1)
  BY FrameFields
<1>2. chan[q] \in Seq(Frames) /\ chan'[q] = Append(chan[q], frame)
  BY <1>1 DEF HelloFrom, NetSound
<1>3. /\ Len(chan'[q]) = n /\ chan'[q][n] = frame
      /\ \A i \in 1..Len(chan[q]) : chan'[q][i] = chan[q][i]
  BY <1>2, AppendProperties
<1>4. frame.type = "hello" /\ n \in 1..n
  BY <1>1 DEF Hello
<1>5. HelloAt(q, n)'
  BY <1>3, <1>4 DEF HelloAt
<1>6. ASSUME NEW i \in Nat, HelloAt(q, i) PROVE HelloAt(q, i)' /\ i # n
  BY <1>2, <1>3, <1>6, LenProperties DEF HelloAt
<1>7. QED
  BY <1>5, <1>6

(* Who begins to wait has sent a hello.                                    *)
LEMMA RequestHellos ==
    ASSUME HubInv, HelloForEach, NEW p \in Peers, Request(p)
    PROVE  HelloForEach'
<1>0. PICK q \in Peers : q = Other(p)
  BY OtherIsPeer
<1>1. NetSound /\ HubSound /\ session[p].id + 1 \in 1..MaxSessions
  BY StartedKeeps DEF HubInv, HubSound, Request
<1>2. chan' = [chan EXCEPT ![q] = HelloFrom(p)] /\ q # p
  BY <1>0, OtherIsPeer DEF Request
<1>3. chan'[q] = HelloFrom(p) /\ chan'[p] = chan[p]
  BY <1>1, <1>2 DEF NetSound
<1> PICK n \in Nat : n = Len(chan[q]) + 1
  BY <1>1, LenProperties DEF NetSound
<1>4. HelloAt(q, n)' /\ \A i \in Nat : HelloAt(q, i) => HelloAt(q, i)' /\ i # n
  BY <1>0, <1>1, <1>3, HelloSent
<1>5. ASSUME NEW r \in Peers, NEW i \in Nat, HelloAt(r, i)
      PROVE  HelloAt(r, i)' /\ (r # q \/ i # n)
  <2>1. r = q \/ r = p
    BY <1>0, TwoPeers
  <2>2. QED
    BY <1>2, <1>3, <1>4, <1>5, <2>1 DEF HelloAt
<1>6. Unheard(q)' => Unheard(q)
  BY <1>1, <1>2 DEF Request, Started, HubSound, Unheard, Has
<1>7. ASSUME Unheard(q)
      PROVE  \E r, s \in Peers, i, j \in Nat : HelloAt(r, i)' /\ HelloAt(s, j)' /\ (r # s \/ i # j)
  <2>1. PICK r \in Peers, i \in Nat : HelloAt(r, i)
    BY <1>7 DEF HelloForEach
  <2>2. HelloAt(r, i)' /\ (r # q \/ i # n)
    BY <1>5, <2>1
  <2>3. QED
    BY <1>4, <2>2
<1>8. QED
  BY <1>4, <1>6, <1>7 DEF HelloForEach

(* An idle device holds the hello that invites it, and nothing else.       *)
LEMMA HeldFirst ==
    ASSUME HubInv, NEW p \in Peers, chan[p] # <<>>, ~ inFlight[p]
    PROVE  waiting[p] = <<>> /\ Held(p) = <<Head(chan[p])>>
<1>1. waiting[p] = <<>>
  BY DEF HubInv, HubSound, IdleHoldsNothing
<1>2. Len(waiting[p]) = 0
  BY <1>1
<1>3. QED
  BY <1>1, <1>2, HubAssumption DEF Held

(* An invited session has heard the hello that invited it, and its own     *)
(* takes that one's place.                                                 *)
LEMMA InviteHellos ==
    ASSUME HubInv, NEW p \in Peers, Invite(p)
    PROVE  HelloForEach'
<1>0. PICK q \in Peers : q = Other(p)
  BY OtherIsPeer
<1>1. chan[p] # <<>> /\ Head(chan[p]).type = "hello" /\ ~ inFlight[p] /\ NetSound /\ HubSound
  BY DEF Invite, Arrives, opensASession, HubInv
<1>2. Head(chan[p]) \in Frames
  BY <1>1 DEF NetSound
<1>3. Held(p) = <<Head(chan[p])>> /\ <<Head(chan[p])>> \in Seq(Frames)
  BY <1>1, <1>2, HeldFirst
<1>4. session[p].id + 1 \in 1..MaxSessions
  BY <1>1, <1>3, StartedKeeps DEF Invite
<1>5. q # p
  BY <1>0, OtherIsPeer
<1>6. chan'[q] = HelloFrom(p)
  BY <1>0, <1>1, <1>5 DEF Invite, HelloFrom, NetSound
<1> PICK n \in Nat : n = Len(chan[q]) + 1
  BY <1>1, LenProperties DEF NetSound
<1>7. HelloAt(q, n)'
  BY <1>0, <1>1, <1>4, <1>6, HelloSent
<1>8. session'[p].mail = Held(p)
  BY <1>1 DEF Invite, Started, createLink, HubSound
<1>9. ~ Unheard(p)'
  BY <1>1, <1>3, <1>8 DEF Unheard, Has
<1>10. QED
  BY <1>7, <1>9 DEF HelloForEach

(* No device begins to wait for a hello in the step.                       *)
NobodyBegins ==
    \A q \in Peers : /\ Unheard(q)' => Unheard(q)
                     /\ session'[q].phase = "hello" => session[q].phase = "hello"

(* A session that goes on or ends does not begin to wait for a hello.      *)
LEMMA NotBack ==
    ASSUME HubSound, NEW p \in Peers,
           Ends(p) \/ UNCHANGED session \/ \E phase \in Phases \ {"hello"} : Goes(p, phase)
    PROVE  NobodyBegins
<1>1. CASE UNCHANGED session
  BY <1>1 DEF NobodyBegins, Unheard, Has
<1>2. ASSUME Ends(p) \/ \E phase \in Phases \ {"hello"} : Goes(p, phase)
      PROVE  session'[p].phase # "hello" /\ \A q \in Peers \ {p} : session'[q] = session[q]
  <2>1. CASE Ends(p)
    BY <2>1 DEF Ends, HubSound
  <2>2. ASSUME NEW phase \in Phases \ {"hello"}, Goes(p, phase)
        PROVE  session'[p].phase # "hello" /\ \A q \in Peers \ {p} : session'[q] = session[q]
    <3>1. PICK s \in Sessions : s = session[p]
      BY DEF HubSound
    <3>2. /\ session'[p] = [s EXCEPT !.phase = phase]
          /\ \A q \in Peers \ {p} : session'[q] = session[q]
      BY <2>2, <3>1 DEF Goes, HubSound
    <3>3. [s EXCEPT !.phase = phase].phase = phase
      BY DEF Sessions
    <3>4. QED
      BY <3>2, <3>3
  <2>3. QED
    BY <1>2, <2>1, <2>2
<1>3. QED
  BY <1>1, <1>2 DEF NobodyBegins, Unheard, Has

(* What a session says while it goes on or ends takes no hello.            *)
LEMMA SaysKeeps ==
    ASSUME NetSound, HelloInv, NobodyBegins, UNCHANGED <<up, closing, missed>>, NEW p \in Peers,
           UNCHANGED chan \/ \E frame \in Frames : Sends(p, frame)
    PROVE  HelloInv'
<1>1. \A q \in Peers, i \in Nat : HelloAt(q, i) => HelloAt(q, i)'
  BY SendsHellos DEF HelloAt
<1>2. ~ up => chan' = chan
  BY DEF Sends
<1>3. CutOff'
  BY <1>2 DEF HelloInv, CutOff, NobodyBegins
<1>4. HelloForEach => HelloForEach'
  BY <1>1, NobodyNew DEF NobodyBegins
<1>5. QED
  BY <1>3, <1>4 DEF HelloInv

(* The session's own steps.                                                *)
LEMMA ProceedsHellos ==
    ASSUME HubInv, HelloInv, NEW p \in Peers, Proceeds(p)
    PROVE  HelloInv'
<1>1. HubSound /\ NetSound
  BY DEF HubInv
<1>2. UNCHANGED <<up, closing, missed>>
  BY DEF Proceeds, Greeted, Verified, Refused, GotSummary, GotWants, SendBytes, GotBytes, GotFin,
         Wrapped, Quietly, netVars
<1>3. Ends(p) \/ \E phase \in Phases \ {"hello"} : Goes(p, phase)
  BY PhaseNames DEF Proceeds, Greeted, Verified, Refused, GotSummary, GotWants, SendBytes, GotBytes,
         GotFin, Wrapped
<1>4. UNCHANGED chan \/ \E frame \in Frames : Sends(p, frame)
  <2>1. CASE Greeted(p)
    BY <1>1, <2>1, FirstIsThere, FrameFields DEF Greeted
  <2>2. CASE Verified(p) \/ Refused(p) \/ GotSummary(p) \/ SendBytes(p) \/ GotBytes(p)
    BY <2>2, FrameFields DEF Verified, Refused, GotSummary, SendBytes, GotBytes
  <2>3. CASE GotWants(p) \/ GotFin(p) \/ Wrapped(p)
    BY <2>3 DEF GotWants, GotFin, Wrapped
  <2>4. QED
    BY <2>1, <2>2, <2>3 DEF Proceeds
<1>5. NobodyBegins
  BY <1>1, <1>3, NotBack
<1>6. QED
  BY <1>1, <1>2, <1>4, <1>5, SaysKeeps

(* A delivery: the channels are open.                                      *)
LEMMA ArrivesUp ==
    ASSUME HelloInv, NEW p \in Peers, Arrives(p)
    PROVE  up /\ chan[p] # <<>>
  BY DEF HelloInv, CutOff, Arrives

(* deliverInbound.                                                         *)
LEMMA HearsHellos ==
    ASSUME HubInv, HelloInv, NEW p \in Peers, Hears(p)
    PROVE  HelloInv'
<1>1. HubSound /\ NetSound /\ Arrives(p) /\ UNCHANGED <<up, closing>>
  BY DEF HubInv, Hears, DeliverError, Deliver, Drop, Hold, Invite, netVars
<1>2. up /\ up' /\ chan[p] # <<>>
  BY <1>1, ArrivesUp
<1>3. CutOff'
  BY <1>2 DEF CutOff
<1>4. SUFFICES ASSUME ~ missed' PROVE HelloForEach'
  BY <1>3 DEF HelloInv
<1>5. ~ missed
  BY <1>1, <1>4 DEF NetSound, Hears, DeliverError, Deliver, Drop, Hold, Invite
<1>6. HelloForEach
  BY <1>2, <1>5 DEF HelloInv
<1>7. CASE DeliverError(p)
  <2>1. NobodyBegins
    BY <1>1, <1>7, NotBack DEF DeliverError
  <2>2. QED
    BY <1>1, <1>2, <1>6, <1>7, <2>1, OtherTaken DEF DeliverError, NobodyBegins
<1>8. CASE Deliver(p)
  <2>1. /\ session'[p].phase = session[p].phase
        /\ session'[p].mail = Append(session[p].mail, Head(chan[p]))
        /\ \A q \in Peers \ {p} : session'[q] = session[q]
        /\ session[p].mail \in Seq(Frames) /\ Head(chan[p]) \in Frames
    BY <1>1, <1>2, <1>8 DEF Deliver, HubSound, NetSound, Sessions
  <2>2. Has(p, "hello") => Has(p, "hello")'
    BY <2>1, AppendProperties DEF Has
  <2>3. \A q \in Peers : Unheard(q)' => Unheard(q)
    BY <2>1, <2>2 DEF Unheard, Has
  <2>4. CASE Head(chan[p]).type # "hello"
    BY <1>1, <1>2, <1>6, <1>8, <2>3, <2>4, OtherTaken DEF Deliver
  <2>5. CASE Head(chan[p]).type = "hello"
    <3>1. session[p].phase = "hello"
      BY <1>4, <1>8, <2>5 DEF Deliver
    <3>2. ~ Has(p, "hello")
      BY <1>1, <3>1 DEF Arrives, CanProceed, Awaited
    <3>3. Has(p, "hello")'
      <4>1. PICK n \in Nat : n = Len(session[p].mail)
        BY <2>1, LenProperties
      <4>2. Len(session'[p].mail) = n + 1 /\ session'[p].mail[n + 1] = Head(chan[p])
        BY <2>1, <4>1, AppendProperties
      <4>3. n + 1 \in 1..Len(session'[p].mail) /\ session'[p].mail[n + 1].type = "hello"
        BY <2>5, <4>2
      <4>4. QED
        BY <4>3 DEF Has
    <3>4. QED
      BY <1>1, <1>2, <1>6, <1>8, <2>3, <3>1, <3>2, <3>3, OneHeard DEF Deliver, Unheard
  <2>6. QED
    BY <2>4, <2>5
<1>9. CASE Drop(p)
  <2>1. NobodyBegins
    BY <1>1, <1>9, NotBack DEF Drop
  <2>2. QED
    BY <1>1, <1>2, <1>6, <1>9, <2>1, OtherTaken DEF Drop, NobodyBegins, opensASession
<1>10. CASE Hold(p)
  <2>1. inFlight[p]
    <3>1. SUFFICES ASSUME ~ inFlight[p] PROVE FALSE
      BY <1>1 DEF HubSound
    <3>2. Held(p) = <<Head(chan[p])>>
      BY <1>2, <3>1, HeldFirst
    <3>3. QED
      BY <1>10, <3>1, <3>2 DEF Hold
  <2>2. QED
    BY <1>4, <1>10, <2>1 DEF Hold
<1>11. CASE Invite(p)
  BY <1>11, InviteHellos
<1>12. QED
  BY <1>7, <1>8, <1>9, <1>10, <1>11 DEF Hears

(* The invariant is inductive.                                             *)
LEMMA HellosInductive == HubInv /\ HelloInv /\ [Next]_vars => HelloInv'
<1> SUFFICES ASSUME HubInv, HelloInv, [Next]_vars PROVE HelloInv'
  OBVIOUS
<1>0. HubSound /\ NetSound
  BY DEF HubInv
<1>1. ASSUME NEW p \in Peers, Request(p) PROVE HelloInv'
  <2>1. up /\ up' /\ missed' = missed
    BY <1>1 DEF Request, netVars
  <2>2. QED
    BY <1>1, <2>1, RequestHellos DEF HelloInv, CutOff
<1>2. ASSUME NEW p \in Peers, Proceeds(p) PROVE HelloInv'
  BY <1>2, ProceedsHellos
<1>3. ASSUME NEW p \in Peers, Hears(p) PROVE HelloInv'
  BY <1>3, HearsHellos
<1>4. ASSUME NEW p \in Peers, Timeout(p) PROVE HelloInv'
  BY <1>0, <1>4, NotBack, SaysKeeps DEF Timeout, netVars
<1>5. ASSUME NEW p \in Peers, PeerClosed(p) PROVE HelloInv'
  <2>1. NobodyBegins /\ UNCHANGED <<chan, up, missed>> /\ closing' = closing \ {p}
    BY <1>0, <1>5, NotBack DEF PeerClosed
  <2>2. session'[p].phase # "hello"
    BY <1>0, <1>5 DEF PeerClosed, Ends, HubSound, Expecting
  <2>3. CutOff'
    BY <2>1, <2>2 DEF HelloInv, CutOff, NobodyBegins
  <2>4. \A q \in Peers, i \in Nat : HelloAt(q, i) => HelloAt(q, i)'
    BY <2>1 DEF HelloAt
  <2>5. HelloForEach => HelloForEach'
    BY <2>1, <2>4, NobodyNew DEF NobodyBegins
  <2>6. QED
    BY <2>1, <2>3, <2>5 DEF HelloInv
<1>6. ASSUME NEW p \in Peers, Backlog(p) \/ reportBuffered(p) PROVE HelloInv'
  <2>1. UNCHANGED <<session, chan, up, closing, missed>>
    BY <1>6 DEF Backlog, reportBuffered
  <2>2. NobodyBegins
    BY <1>0, <2>1, NotBack
  <2>3. QED
    BY <1>0, <2>1, <2>2, SaysKeeps
<1>7. CASE Lost
  BY <1>7 DEF Lost, HelloInv, CutOff
<1>8. CASE Reconnect
  <2>1. /\ \A q \in Peers : session[q].phase # "hello"
        /\ UNCHANGED session /\ up'
    BY <1>8 DEF Reconnect, HelloInv, CutOff
  <2>2. (\A q \in Peers : ~ Unheard(q)') /\ Peers # {}
    BY <2>1, HubAssumption, FS_EmptySet DEF Unheard
  <2>3. QED
    BY <2>1, <2>2 DEF HelloInv, CutOff, HelloForEach
<1>9. CASE UNCHANGED vars
  <2>1. UNCHANGED <<session, chan, up, closing, missed>>
    BY <1>9 DEF vars
  <2>2. QED
    <3>1. PICK p \in Peers : TRUE
      BY HubAssumption, FS_EmptySet
    <3>2. NobodyBegins
      BY <1>0, <2>1, NotBack
    <3>3. QED
      BY <1>0, <2>1, <3>2, SaysKeeps
<1>10. QED
  BY <1>1, <1>2, <1>3, <1>4, <1>5, <1>6, <1>7, <1>8, <1>9 DEF Next

(* Nobody waits before the first session.                                  *)
LEMMA InitHellos == Init => HelloInv
<1> SUFFICES ASSUME Init PROVE HelloInv
  OBVIOUS
<1>1. \A p \in Peers : ~ Unheard(p)
  BY DEF Init, Unheard
<1>2. Peers # {}
  BY HubAssumption, FS_EmptySet
<1>3. QED
  BY <1>1, <1>2 DEF Init, HelloInv, CutOff, HelloForEach

(* A device that waits for a hello over open channels, with nothing on its *)
(* way, had its own come to a session that was past that point             *)
(* (deliverInbound, onPeerInitiated): otherwise its hello is heard or      *)
(* invites a session, whose own hello it hears.  However sessions end,     *)
(* begin again and cross.                                                  *)
THEOREM HellosHeardAlways == Spec => []HellosHeard
<1>1. HelloInv => HellosHeard
  <2> SUFFICES ASSUME HelloInv, NEW p \in Peers, Unheard(p), up, \A q \in Peers : chan[q] = <<>>
               PROVE  missed
    BY DEF HellosHeard, Unheard
  <2>1. \A q \in Peers, i \in Nat : ~ HelloAt(q, i)
    BY DEF HelloAt
  <2>2. QED
    BY <2>1 DEF HelloInv, HelloForEach
<1>2. Spec => []HelloInv
  BY HubSafe, InitHellos, HellosInductive, PTL DEF Spec
<1>3. QED
  BY <1>1, <1>2, PTL
===============================================================================
