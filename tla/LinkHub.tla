------------------------------- MODULE LinkHub -------------------------------
(***************************************************************************)
(* Session after session over one pair of data channels: PeerLinkHub       *)
(* (packages/transport), which hands what arrives to the session that is   *)
(* running or holds a hello until one is, and runSession of VaultServices, *)
(* which keeps at most one session per peer and answers a hello by         *)
(* starting one.  Two devices, each with the other as its peer.            *)
(*                                                                         *)
(* What a session says is reduced to a few messages (SyncSession has the   *)
(* whole exchange), but not how it waits: for hello, auth, the summary and *)
(* the wants it can fail by a timeout, an error or the closing of its      *)
(* link; the transfer notices none of these; the last message has a        *)
(* timeout only; and when run() has returned, files are written before the *)
(* session gives its slot up.  Frames do not say which session they are    *)
(* of: a new session hears what an old one still had on its way.           *)
(***************************************************************************)
EXTENDS Naturals, Sequences, FiniteSets

CONSTANTS
    Peers,        \* the two devices
    MaxSyncs,     \* bound: how often somebody asks for a sync
    MaxSessions,  \* bound: sessions a device starts
    MaxWaiting,   \* MAX_WAITING
    Faults        \* which of FaultKinds can happen

FaultKinds == {"lost", "refuse", "backlog"}

ASSUME HubAssumption ==
    /\ IsFiniteSet(Peers) /\ Cardinality(Peers) = 2
    /\ MaxSyncs \in Nat /\ MaxSessions \in Nat /\ MaxWaiting \in Nat \ {0}
    /\ Faults \subseteq FaultKinds

VARIABLES
    session,   \* the SyncSession a device runs, or ran last
    inFlight,  \* sessionsInFlight has the peer
    link,      \* the session whose link the hub has, or 0
    waiting,   \* frames held for a session that is not there yet
    chan,      \* frames on their way to a device
    up,        \* the data channels are open
    closing,   \* devices whose hub has not heard yet that they closed
    buffered,  \* the renderer reports a full queue
    syncs,     \* how often somebody asked for a sync
    missed     \* a hello came when the session in flight had had one already

vars == <<session, inFlight, link, waiting, chan, up, closing, buffered, syncs, missed>>
hubVars == <<inFlight, link, waiting>>
netVars == <<up, closing, buffered>>

Other(p) == CHOOSE q \in Peers : q # p

(* A phase and the message it waits for.                                   *)
Awaited == [hello |-> "hello", auth |-> "auth", summary |-> "summary", wants |-> "wants",
            transfer |-> "bytes", completing |-> "fin"]
Expecting == {"hello", "auth", "summary", "wants"}
Phases == DOMAIN Awaited \cup {"none", "sending", "wrapping"}

Init ==
    /\ session = [p \in Peers |-> [id |-> 0, phase |-> "none", mail |-> <<>>]]
    /\ inFlight = [p \in Peers |-> FALSE]
    /\ link = [p \in Peers |-> 0]
    /\ waiting = [p \in Peers |-> <<>>]
    /\ chan = [p \in Peers |-> <<>>]
    /\ up = TRUE /\ closing = {} /\ buffered = [p \in Peers |-> FALSE]
    /\ syncs = 0 /\ missed = FALSE

-----------------------------------------------------------------------------
(* HubChannel.send: nothing leaves through a closed channel, the hub's or  *)
(* the renderer's.                                                         *)
Sends(p, frame) ==
    chan' = IF up /\ link[p] # 0 THEN [chan EXCEPT ![Other(p)] = Append(@, frame)] ELSE chan

Hello(id) == [type |-> "hello", from |-> id]
Auth(id) == [type |-> "auth", answers |-> id]
Says(type) == [type |-> type]

(* The queue is cleared first, and the held frames with it.                *)
mut_createLink(p, held) == <<>>

(* createLink: the frames that were held are what the new session hears    *)
(* first, once it has attached its handlers.                               *)
createLink(p, held) == held

(* runSession up to its first wait: the slot is taken, the link made and   *)
(* hello sent.                                                             *)
Started(p, held) ==
    LET id == session[p].id + 1
    IN  /\ id <= MaxSessions
        /\ session' = [session EXCEPT ![p] = [id |-> id, phase |-> "hello",
                                              mail |-> createLink(p, held)]]
        /\ inFlight' = [inFlight EXCEPT ![p] = TRUE]
        /\ link' = [link EXCEPT ![p] = id]
        /\ waiting' = [waiting EXCEPT ![p] = <<>>]

HelloFrom(p) == Append(chan[Other(p)], Hello(session[p].id + 1))

(* Somebody asks for a sync: the button, a save, the channels opening.     *)
(* With a session under way the request comes to nothing.                  *)
Request(p) ==
    /\ syncs < MaxSyncs /\ up
    /\ ~ inFlight[p]
    /\ Started(p, waiting[p])
    /\ chan' = [chan EXCEPT ![Other(p)] = HelloFrom(p)]
    /\ syncs' = syncs + 1
    /\ UNCHANGED <<netVars, missed>>

(* The link goes, and what the hub held for the next one stays.            *)
mut_closeLink(p) ==
    /\ link' = [link EXCEPT ![p] = 0]
    /\ UNCHANGED waiting

closeLink(p) ==
    /\ link' = [link EXCEPT ![p] = 0]
    /\ waiting' = [waiting EXCEPT ![p] = <<>>]

(* The finally of runSession.                                              *)
Ends(p) ==
    /\ session' = [session EXCEPT ![p] = [id |-> @.id, phase |-> "none", mail |-> <<>>]]
    /\ inFlight' = [inFlight EXCEPT ![p] = FALSE]
    /\ closeLink(p)

-----------------------------------------------------------------------------
(* The session's own steps.                                                *)
Has(p, type) == \E i \in 1..Len(session[p].mail) : session[p].mail[i].type = type

First(p, type) ==
    LET mail == session[p].mail
        found == {i \in 1..Len(mail) : mail[i].type = type}
    IN  mail[CHOOSE i \in found : \A j \in found : i <= j]

CanProceed(p) ==
    /\ session[p].phase \in DOMAIN Awaited
    /\ Has(p, Awaited[session[p].phase])

Goes(p, phase) == session' = [session EXCEPT ![p].phase = phase]
Quietly == UNCHANGED <<hubVars, netVars, syncs, missed>>

(* Their challenge is answered before theirs is judged.                    *)
Greeted(p) ==
    /\ session[p].phase = "hello" /\ Has(p, "hello")
    /\ Goes(p, "auth") /\ Sends(p, Auth(First(p, "hello").from))
    /\ Quietly

(* The signature is over this session's nonce.                             *)
Verified(p) ==
    /\ session[p].phase = "auth" /\ Has(p, "auth")
    /\ First(p, "auth").answers = session[p].id
    /\ Goes(p, "summary") /\ Sends(p, Says("summary"))
    /\ Quietly

(* It is not, or the person says no.                                       *)
Refused(p) ==
    /\ session[p].phase = "auth" /\ Has(p, "auth")
    /\ "refuse" \in Faults \/ First(p, "auth").answers # session[p].id
    /\ Ends(p) /\ Sends(p, Says("error"))
    /\ UNCHANGED <<netVars, syncs, missed>>

GotSummary(p) ==
    /\ session[p].phase = "summary" /\ Has(p, "summary")
    /\ Goes(p, "wants") /\ Sends(p, Says("wants"))
    /\ Quietly

GotWants(p) ==
    /\ session[p].phase = "wants" /\ Has(p, "wants")
    /\ Goes(p, "sending")
    /\ UNCHANGED chan /\ Quietly

(* drain: a sender waits while the queue is full, unless the link closes.  *)
SendBytes(p) ==
    /\ session[p].phase = "sending"
    /\ ~ buffered[p] \/ link[p] = 0
    /\ Goes(p, "transfer") /\ Sends(p, Says("bytes"))
    /\ Quietly

GotBytes(p) ==
    /\ session[p].phase = "transfer" /\ Has(p, "bytes")
    /\ Goes(p, "completing") /\ Sends(p, Says("fin"))
    /\ Quietly

(* The slot is free as soon as run() returns.                              *)
mut_GotFin(p) ==
    /\ session[p].phase = "completing" /\ Has(p, "fin")
    /\ Goes(p, "wrapping")
    /\ inFlight' = [inFlight EXCEPT ![p] = FALSE]
    /\ UNCHANGED <<chan, link, waiting, netVars, syncs, missed>>

(* run() returns; what follows writes files.                               *)
GotFin(p) ==
    /\ session[p].phase = "completing" /\ Has(p, "fin")
    /\ Goes(p, "wrapping")
    /\ UNCHANGED chan /\ Quietly

Wrapped(p) ==
    /\ session[p].phase = "wrapping"
    /\ Ends(p)
    /\ UNCHANGED <<chan, netVars, syncs, missed>>

(* Thirty seconds without the message: long after whatever was on its way  *)
(* has arrived.                                                            *)
Timeout(p) ==
    /\ session[p].phase \in Expecting \cup {"completing"}
    /\ ~ CanProceed(p) /\ \A q \in Peers : chan[q] = <<>>
    /\ Ends(p)
    /\ UNCHANGED <<chan, netVars, syncs, missed>>

-----------------------------------------------------------------------------
(* deliverInbound.  A frame comes in a turn of its own: what the previous  *)
(* one released has run to its next wait.                                  *)
Arrives(p) == chan[p] # <<>> /\ ~ CanProceed(p)
Taken(p) == chan' = [chan EXCEPT ![p] = Tail(@)]

DeliverError(p) ==
    /\ Arrives(p) /\ link[p] # 0
    /\ Head(chan[p]).type = "error"
    /\ IF session[p].phase \in Expecting THEN Ends(p) ELSE UNCHANGED <<session, hubVars>>
    /\ Taken(p)
    /\ UNCHANGED <<netVars, syncs, missed>>

Deliver(p) ==
    LET frame == Head(chan[p])
    IN  /\ Arrives(p) /\ link[p] # 0
        /\ frame.type # "error"
        /\ session' = [session EXCEPT ![p].mail = Append(@, frame)]
        /\ missed' = (missed \/ (frame.type = "hello" /\ session[p].phase # "hello"))
        /\ Taken(p)
        /\ UNCHANGED <<hubVars, netVars, syncs>>

(* Any frame opens a session.                                              *)
mut_opensASession(frame) == TRUE

opensASession(frame) == frame.type = "hello"

(* A straggler of a session that has ended.                                *)
Drop(p) ==
    /\ Arrives(p) /\ link[p] = 0
    /\ ~ opensASession(Head(chan[p]))
    /\ Taken(p)
    /\ UNCHANGED <<session, hubVars, netVars, syncs, missed>>

Held(p) ==
    IF Len(waiting[p]) < MaxWaiting THEN Append(waiting[p], Head(chan[p])) ELSE waiting[p]

(* Nobody listens: the frame is held, and the first one is an invitation,  *)
(* which onPeerInitiated declines while a session is in flight.            *)
Hold(p) ==
    /\ Arrives(p) /\ link[p] = 0
    /\ opensASession(Head(chan[p]))
    /\ Len(Held(p)) # 1 \/ inFlight[p]
    /\ waiting' = [waiting EXCEPT ![p] = Held(p)]
    /\ missed' = (missed \/ inFlight[p])
    /\ Taken(p)
    /\ UNCHANGED <<session, inFlight, link, netVars, syncs>>

Invite(p) ==
    /\ Arrives(p) /\ link[p] = 0
    /\ opensASession(Head(chan[p]))
    /\ Len(Held(p)) = 1 /\ ~ inFlight[p]
    /\ Started(p, Held(p))
    /\ chan' = [chan EXCEPT ![p] = Tail(@), ![Other(p)] = HelloFrom(p)]
    /\ UNCHANGED <<netVars, syncs, missed>>

-----------------------------------------------------------------------------
(* The channels.                                                           *)
Lost ==
    /\ "lost" \in Faults
    /\ up
    /\ up' = FALSE /\ closing' = Peers
    /\ chan' = [p \in Peers |-> <<>>]
    /\ UNCHANGED <<session, hubVars, buffered, syncs, missed>>

(* peer:closed: the hub closes the link, and the close handler fails the   *)
(* wait of a session that is in one which can fail.                        *)
PeerClosed(p) ==
    /\ p \in closing /\ ~ CanProceed(p)
    /\ closing' = closing \ {p}
    /\ buffered' = [buffered EXCEPT ![p] = FALSE]
    /\ IF session[p].phase \in Expecting
       THEN Ends(p)
       ELSE closeLink(p) /\ UNCHANGED <<session, inFlight>>
    /\ UNCHANGED <<chan, up, syncs, missed>>

Reconnect ==
    /\ ~ up /\ closing = {}
    /\ up' = TRUE
    /\ UNCHANGED <<session, hubVars, chan, closing, buffered, syncs, missed>>

(* The renderer's queue fills, and is reported.                            *)
Backlog(p) ==
    /\ "backlog" \in Faults
    /\ up /\ ~ buffered[p] /\ session[p].phase = "wants"
    /\ buffered' = [buffered EXCEPT ![p] = TRUE]
    /\ UNCHANGED <<session, hubVars, chan, up, closing, syncs, missed>>

(* It empties, which releases whoever waits in drain.                      *)
reportBuffered(p) ==
    /\ up /\ buffered[p]
    /\ buffered' = [buffered EXCEPT ![p] = FALSE]
    /\ UNCHANGED <<session, hubVars, chan, up, closing, syncs, missed>>

-----------------------------------------------------------------------------
Proceeds(p) ==
    \/ Greeted(p) \/ Verified(p) \/ Refused(p) \/ GotSummary(p) \/ GotWants(p)
    \/ SendBytes(p) \/ GotBytes(p) \/ GotFin(p) \/ Wrapped(p)

Hears(p) == DeliverError(p) \/ Deliver(p) \/ Drop(p) \/ Hold(p) \/ Invite(p)

Next ==
    \/ \E p \in Peers :
          \/ Request(p) \/ Proceeds(p) \/ Hears(p) \/ Timeout(p)
          \/ PeerClosed(p) \/ Backlog(p) \/ reportBuffered(p)
    \/ Lost \/ Reconnect

(* The program's own steps and its timers; delivery while the channels are *)
(* open; the queue drains; a loss is noticed.  Nobody has to reconnect.    *)
Fairness ==
    \A p \in Peers :
        /\ WF_vars(Proceeds(p)) /\ WF_vars(Hears(p)) /\ WF_vars(Timeout(p))
        /\ WF_vars(PeerClosed(p)) /\ WF_vars(reportBuffered(p))

Spec == Init /\ [][Next]_vars /\ Fairness

-----------------------------------------------------------------------------
Frames ==
    {Says(t) : t \in {"summary", "wants", "bytes", "fin", "error"}}
    \cup {Hello(i) : i \in 1..MaxSessions} \cup {Auth(i) : i \in 1..MaxSessions}

TypeOK ==
    /\ session \in [Peers -> [id : 0..MaxSessions, phase : Phases, mail : Seq(Frames)]]
    /\ inFlight \in [Peers -> BOOLEAN] /\ buffered \in [Peers -> BOOLEAN]
    /\ link \in [Peers -> 0..MaxSessions]
    /\ waiting \in [Peers -> Seq(Frames)] /\ chan \in [Peers -> Seq(Frames)]
    /\ up \in BOOLEAN /\ closing \subseteq Peers
    /\ syncs \in 0..MaxSyncs /\ missed \in BOOLEAN

(* A link belongs to the session that is in flight: the finally of one     *)
(* session never closes the link of another, and no frame is handed to a   *)
(* session that has ended.                                                 *)
LinkOfTheSession ==
    /\ TypeOK
    /\ \A p \in Peers : link[p] # 0 => inFlight[p] /\ link[p] = session[p].id

(* A hello is held only while a session is in flight, whose end clears it: *)
(* an idle device starts from an empty queue, so that the next hello is    *)
(* the first one and invites it.                                           *)
IdleHoldsNothing ==
    \A p \in Peers : waiting[p] # <<>> => inFlight[p] /\ link[p] = 0

(* A device that waits for a hello over open channels, with nothing on its *)
(* way in either direction, had its own come to a peer whose session was   *)
(* past that point; a hello to an idle device, or to one that waits for    *)
(* it, is never lost.                                                      *)
HellosHeard ==
    \A p \in Peers :
        /\ session[p].phase = "hello" /\ ~ Has(p, "hello") /\ link[p] # 0
        /\ up /\ \A q \in Peers : chan[q] = <<>>
        => missed

(* However late frames arrive and whatever fails, finitely many requests   *)
(* make finitely many sessions: nothing is left on its way, and every slot *)
(* is free again, except one that is kept by a transfer, which nothing     *)
(* ends when its link or the peer's session has gone.  "Two devices        *)
(* volleying sessions at each other indefinitely" (peerLinkHub.ts) does    *)
(* not happen.  (A volley would run into MaxSessions and leave its last    *)
(* hello unheard.)                                                         *)
Settles ==
    <>[](\A p \in Peers : chan[p] = <<>> /\ (~ inFlight[p] \/ session[p].phase = "transfer"))
=============================================================================
