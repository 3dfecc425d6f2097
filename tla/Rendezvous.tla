----------------------------- MODULE Rendezvous ------------------------------
(***************************************************************************)
(* How paired devices find each other: the room of the signaling server    *)
(* (apps/signaling/src/index.ts, rooms.ts), the WebSockets to it and the   *)
(* PeerBridge of every device (packages/transport/src/peerBridge.ts), up   *)
(* to the moment the data channels are open.                               *)
(*                                                                         *)
(* The devices share one room and its token and keep their peer id for as  *)
(* long as they run.  A WebSocket delivers in order or breaks; its two     *)
(* ends notice that at different times.  WebRTC is external: a connection  *)
(* object is a number, and two of them open their channels once each has   *)
(* the other's description.  ICE candidates are left out.                  *)
(***************************************************************************)
EXTENDS Naturals, Sequences, FiniteSets, SequencesExt

CONSTANTS
    Peers,         \* device ids, used as peer ids
    MaxSockets,    \* WebSockets opened in a behaviour
    MaxConns,      \* RTCPeerConnections made in a behaviour
    NetworkFaults  \* of NetworkFaultKinds

NetworkFaultKinds == {"drop", "restart", "hangup", "rtc"}

ASSUME RendezvousAssumption ==
    /\ IsFiniteSet(Peers) /\ MaxSockets \in Nat /\ MaxConns \in Nat
    /\ NetworkFaults \subseteq NetworkFaultKinds

VARIABLES
    sockets, \* every WebSocket so far
    seat,    \* device -> the socket the room has for it, or 0
    socket,  \* device -> its current socket, or 0
    wants,   \* devices whose bridge has a room to sit in
    retry,   \* devices whose retry timer runs
    conn,    \* device -> peer -> its RTCPeerConnection
    ready,   \* device -> peers whose channels are open
    made     \* connections made so far

roomVars == <<sockets, seat, socket, wants, retry, conn, ready, made>>
bridge == <<socket, wants, retry>>
rtc == <<conn, ready, made>>

NoConn == [id |-> 0, offers |-> FALSE, sent |-> FALSE, with |-> 0]
NewConn(id, offers) == [id |-> id, offers |-> offers, sent |-> FALSE, with |-> 0]

RoomInit ==
    /\ sockets = <<>>
    /\ seat = [d \in Peers |-> 0]
    /\ socket = [d \in Peers |-> 0]
    /\ wants = {} /\ retry = {}
    /\ conn = [d \in Peers |-> [p \in Peers |-> NoConn]]
    /\ ready = [d \in Peers |-> {}]
    /\ made = 0

-----------------------------------------------------------------------------
(* A device's bridge.                                                      *)

(* openSocket: the join goes out when the socket opens.                    *)
Opened(s, d) ==
    Append(s, [owner |-> d, link |-> "up", served |-> TRUE, joined |-> FALSE, late |-> FALSE,
               up |-> << [type |-> "join"] >>, down |-> <<>>])

(* disconnect closes the socket; the server hears of it after what was     *)
(* sent before.                                                            *)
HungUp(d) ==
    IF socket[d] = 0 THEN sockets
    ELSE [sockets EXCEPT ![socket[d]].link = IF @ = "up" THEN "closing" ELSE @,
                         ![socket[d]].down = <<>>]

(* connect, which disconnects first and tears every connection down.       *)
Connect(d) ==
    /\ Len(sockets) < MaxSockets
    /\ d \in wants => "hangup" \in NetworkFaults
    /\ sockets' = Opened(HungUp(d), d)
    /\ socket' = [socket EXCEPT ![d] = Len(sockets) + 1]
    /\ wants' = wants \cup {d}
    /\ retry' = retry \ {d}
    /\ conn' = [conn EXCEPT ![d] = [p \in Peers |-> NoConn]]
    /\ ready' = [ready EXCEPT ![d] = {}]
    /\ UNCHANGED <<seat, made>>

Disconnect(d) ==
    /\ "hangup" \in NetworkFaults
    /\ d \in wants
    /\ sockets' = HungUp(d)
    /\ socket' = [socket EXCEPT ![d] = 0]
    /\ wants' = wants \ {d}
    /\ retry' = retry \ {d}
    /\ conn' = [conn EXCEPT ![d] = [p \in Peers |-> NoConn]]
    /\ ready' = [ready EXCEPT ![d] = {}]
    /\ UNCHANGED <<seat, made>>

(* The client's end of a broken socket: failed, then scheduleRetry.        *)
ClientNotices(d) ==
    /\ socket[d] # 0 /\ sockets[socket[d]].link = "broken"
    /\ socket' = [socket EXCEPT ![d] = 0]
    /\ retry' = retry \cup {d}
    /\ UNCHANGED <<sockets, seat, wants, rtc>>

(* The backoff ends, or the device wakes up.                               *)
Retry(d) ==
    /\ d \in retry
    /\ Len(sockets) < MaxSockets
    /\ sockets' = Opened(sockets, d)
    /\ socket' = [socket EXCEPT ![d] = Len(sockets) + 1]
    /\ retry' = retry \ {d}
    /\ UNCHANGED <<seat, wants, rtc>>

(* openConnection for each of a set of peers, unless there is one already. *)
(* The newcomer's loop waits for createOffer between two peers; with one   *)
(* peer to call there is no between, and SendOffer is that wait.           *)
Opens(d, peers, offers) ==
    LET new == SetToSeq({p \in peers : conn[d][p] = NoConn})
    IN  /\ made + Len(new) <= MaxConns
        /\ made' = made + Len(new)
        /\ conn' = [conn EXCEPT ![d] = [p \in Peers |->
               IF \E i \in DOMAIN new : new[i] = p
               THEN NewConn(made + (CHOOSE i \in DOMAIN new : new[i] = p), offers) ELSE @[p]]]
        /\ UNCHANGED ready

(* teardown.                                                               *)
Forgets(d, p) ==
    /\ conn' = [conn EXCEPT ![d][p] = NoConn]
    /\ ready' = [ready EXCEPT ![d] = @ \ {p}]
    /\ UNCHANGED made

HasMessage(d, type) ==
    /\ socket[d] # 0
    /\ sockets[socket[d]].link = "up"
    /\ sockets[socket[d]].down # <<>>
    /\ Head(sockets[socket[d]].down).type = type

Message(d) == Head(sockets[socket[d]].down)
Taken(d) == [sockets EXCEPT ![socket[d]].down = Tail(@)]

(* sendSignal: nothing happens without a socket.                           *)
Signalled(s, d, signal) ==
    IF socket[d] = 0 THEN s
    ELSE [s EXCEPT ![socket[d]].up = IF s[socket[d]].link = "up" THEN Append(@, signal) ELSE @]

(* Mutation: the newcomer leaves it to the peer that was there to offer.   *)
mut_OnJoined(d) ==
    /\ HasMessage(d, "joined")
    /\ Opens(d, Message(d).existing, FALSE)
    /\ sockets' = Taken(d)
    /\ UNCHANGED <<seat, bridge>>

(* handleSignal.                                                           *)
OnJoined(d) ==
    /\ HasMessage(d, "joined")
    /\ Opens(d, Message(d).existing, TRUE)
    /\ sockets' = Taken(d)
    /\ UNCHANGED <<seat, bridge>>

OnPeerJoined(d) ==
    /\ HasMessage(d, "peer-joined")
    /\ Opens(d, {Message(d).peer}, FALSE)
    /\ sockets' = Taken(d)
    /\ UNCHANGED <<seat, bridge>>

(* A connection that works outlives the peer's socket.                     *)
OnPeerLeft(d) ==
    /\ HasMessage(d, "peer-left")
    /\ IF Message(d).peer \in ready[d] THEN UNCHANGED rtc ELSE Forgets(d, Message(d).peer)
    /\ sockets' = Taken(d)
    /\ UNCHANGED <<seat, bridge>>

OnError(d) ==
    /\ HasMessage(d, "error")
    /\ sockets' = Taken(d)
    /\ UNCHANGED <<seat, bridge, rtc>>

(* createOffer is done: the offer is sent over the socket of the moment.   *)
SendOffer(d, p) ==
    LET c == conn[d][p]
    IN  /\ c # NoConn /\ c.offers /\ ~ c.sent
        /\ conn' = [conn EXCEPT ![d][p].sent = TRUE]
        /\ sockets' = Signalled(sockets, d, [type |-> "offer", target |-> p, id |-> c.id])
        /\ UNCHANGED <<seat, bridge, ready, made>>

(* applySignal with an offer: answered if the connection has neither       *)
(* offered nor been described before; otherwise setRemoteDescription       *)
(* rejects.                                                                *)
OnOffer(d) ==
    LET m == Message(d)
        c == conn[d][m.from]
    IN  /\ HasMessage(d, "offer")
        /\ IF c # NoConn /\ ~ c.offers /\ c.with = 0
           THEN /\ conn' = [conn EXCEPT ![d][m.from].with = m.id]
                /\ sockets' = Signalled(Taken(d), d, [type |-> "answer", target |-> m.from, id |-> c.id])
           ELSE UNCHANGED conn /\ sockets' = Taken(d)
        /\ UNCHANGED <<seat, bridge, ready, made>>

(* An offer that meets an offer of our own: setRemoteDescription may also  *)
(* take ours back and go on with the peer's.                               *)
RollBack(d) ==
    LET m == Message(d)
        c == conn[d][m.from]
    IN  /\ HasMessage(d, "offer")
        /\ c.offers /\ c.with = 0
        /\ conn' = [conn EXCEPT ![d][m.from] = [c EXCEPT !.offers = FALSE, !.sent = FALSE, !.with = m.id]]
        /\ sockets' = Signalled(Taken(d), d, [type |-> "answer", target |-> m.from, id |-> c.id])
        /\ UNCHANGED <<seat, bridge, ready, made>>

OnAnswer(d) ==
    LET m == Message(d)
        c == conn[d][m.from]
    IN  /\ HasMessage(d, "answer")
        /\ conn' = IF c # NoConn /\ c.sent /\ c.with = 0
                   THEN [conn EXCEPT ![d][m.from].with = m.id] ELSE conn
        /\ sockets' = Taken(d)
        /\ UNCHANGED <<seat, bridge, ready, made>>

-----------------------------------------------------------------------------
(* WebRTC.                                                                 *)

Paired(d, p) ==
    /\ conn[d][p] # NoConn /\ conn[p][d] # NoConn
    /\ conn[d][p].with = conn[p][d].id /\ conn[p][d].with = conn[d][p].id

(* Both channels are open: maybeReady.                                     *)
ChannelsOpen(d, p) ==
    /\ Paired(d, p) /\ p \notin ready[d]
    /\ ready' = [ready EXCEPT ![d] = @ \cup {p}]
    /\ UNCHANGED <<sockets, seat, bridge, conn, made>>

(* A channel closes, or the connection fails, because its other end is     *)
(* gone.                                                                   *)
ChannelsClose(d, p) ==
    /\ conn[d][p].with # 0 /\ conn[d][p].with # conn[p][d].id
    /\ Forgets(d, p)
    /\ UNCHANGED <<sockets, seat, bridge>>

(* The network between the devices fails for one of them first.            *)
ConnectionFails(d, p) ==
    /\ "rtc" \in NetworkFaults
    /\ conn[d][p].with # 0
    /\ Forgets(d, p)
    /\ UNCHANGED <<sockets, seat, bridge>>

-----------------------------------------------------------------------------
(* The server.                                                             *)

Others(d) == {p \in Peers \ {d} : seat[p] # 0}

(* A message for each of a set of peers, over the sockets the room has.    *)
Told(s, peers, message) ==
    [i \in DOMAIN s |->
        IF \E p \in peers : seat[p] = i
        THEN [s[i] EXCEPT !.down = IF s[i].link = "up" THEN Append(@, message) ELSE @]
        ELSE s[i]]

CanServe(i, type) ==
    /\ sockets[i].served /\ sockets[i].link # "broken"
    /\ sockets[i].up # <<>> /\ Head(sockets[i].up).type = type

Received(i) == [sockets EXCEPT ![i].up = Tail(@)]

(* Sockets of the same device whose end the server has still to see.       *)
Earlier(i) == {j \in 1..(i - 1) : sockets[j].owner = sockets[i].owner /\ sockets[j].served}

(* Mutation: the list is taken after the newcomer is in.                   *)
mut_Existing(d) == {d} \cup {p \in Peers : seat[p] # 0}

Existing(d) == {p \in Peers : seat[p] # 0}

(* RoomRegistry.join: whoever has this peer id is replaced.  late is a     *)
(* history variable: was one of the device's earlier sockets still there.  *)
ServeJoin(i) ==
    LET d == sockets[i].owner
        s == Told([Received(i) EXCEPT ![i].joined = TRUE, ![i].late = Earlier(i) # {}], Others(d),
                  [type |-> "peer-joined", peer |-> d])
    IN  /\ CanServe(i, "join")
        /\ seat' = [seat EXCEPT ![d] = i]
        /\ sockets' = [s EXCEPT ![i].down =
               IF s[i].link = "up" THEN Append(@, [type |-> "joined", existing |-> Existing(d)]) ELSE @]
        /\ UNCHANGED <<bridge, rtc>>

(* RoomRegistry.relay; an error goes back when the target is not there.    *)
ServeSignal(i) ==
    \E type \in {"offer", "answer"} :
        LET m == Head(sockets[i].up)
            to == IF seat[m.target] # 0 THEN seat[m.target] ELSE i
            out == IF seat[m.target] # 0
                   THEN [type |-> type, from |-> sockets[i].owner, id |-> m.id]
                   ELSE [type |-> "error"]
        IN  /\ CanServe(i, type)
            /\ sockets' = [Received(i) EXCEPT ![to].down =
                   IF sockets[to].link = "up" THEN Append(@, out) ELSE @]
            /\ UNCHANGED <<seat, bridge, rtc>>

(* Mutation: the close handler forgets to leave.                           *)
mut_Left(i) == seat

(* RoomRegistry.leave: the entry under the socket's peer id goes, and the  *)
(* room with its last one.                                                 *)
Left(i) == IF sockets[i].joined THEN [seat EXCEPT ![sockets[i].owner] = 0] ELSE seat

(* The socket's close event: the client hung up and everything it had sent *)
(* is served, or the heartbeat gave a broken socket up.                    *)
ServeClose(i) ==
    LET d == sockets[i].owner
        s == [sockets EXCEPT ![i].served = FALSE, ![i].up = <<>>, ![i].down = <<>>]
    IN  /\ sockets[i].served
        /\ \/ sockets[i].link = "broken"
           \/ sockets[i].link = "closing" /\ sockets[i].up = <<>>
        /\ seat' = Left(i)
        /\ sockets' = IF sockets[i].joined
                      THEN Told(s, Others(d), [type |-> "peer-left", peer |-> d]) ELSE s
        /\ UNCHANGED <<bridge, rtc>>

-----------------------------------------------------------------------------
(* Faults.                                                                 *)

Broken(s) == [s EXCEPT !.link = "broken", !.up = <<>>, !.down = <<>>]

Drop(i) ==
    /\ "drop" \in NetworkFaults
    /\ sockets[i].link = "up" /\ sockets[i].served
    /\ sockets' = [sockets EXCEPT ![i] = Broken(@)]
    /\ UNCHANGED <<seat, bridge, rtc>>

(* The server restarts with an empty memory.                               *)
ServerRestart ==
    /\ "restart" \in NetworkFaults
    /\ \E i \in DOMAIN sockets : sockets[i].served
    /\ sockets' = [i \in DOMAIN sockets |-> [Broken(sockets[i]) EXCEPT !.served = FALSE]]
    /\ seat' = [d \in Peers |-> 0]
    /\ UNCHANGED <<bridge, rtc>>

-----------------------------------------------------------------------------
DeviceStep(d) ==
    \/ ClientNotices(d) \/ Retry(d)
    \/ OnJoined(d) \/ OnPeerJoined(d) \/ OnPeerLeft(d) \/ OnError(d) \/ OnOffer(d)
    \/ RollBack(d) \/ OnAnswer(d)
    \/ \E p \in Peers : SendOffer(d, p) \/ ChannelsOpen(d, p) \/ ChannelsClose(d, p)

ServerStep(i) == ServeJoin(i) \/ ServeSignal(i) \/ ServeClose(i)

RoomNext ==
    \/ \E d \in Peers : Connect(d) \/ Disconnect(d) \/ DeviceStep(d)
    \/ \E d, p \in Peers : ConnectionFails(d, p)
    \/ \E i \in DOMAIN sockets : ServerStep(i) \/ Drop(i)
    \/ ServerRestart

(* Event loops run, open sockets deliver, broken ones are noticed.         *)
RoomFairness ==
    /\ \A d \in Peers : WF_roomVars(DeviceStep(d))
    /\ \A i \in 1..MaxSockets : WF_roomVars(i \in DOMAIN sockets /\ ServerStep(i))

RoomSpec == RoomInit /\ [][RoomNext]_roomVars /\ RoomFairness

-----------------------------------------------------------------------------
UpMessages ==
    [type : {"join"}] \cup [type : {"offer", "answer"}, target : Peers, id : 1..MaxConns]

DownMessages ==
    [type : {"error"}] \cup [type : {"joined"}, existing : SUBSET Peers]
    \cup [type : {"peer-joined", "peer-left"}, peer : Peers]
    \cup [type : {"offer", "answer"}, from : Peers, id : 1..MaxConns]

Sockets ==
    [owner : Peers, link : {"up", "closing", "broken"}, served : BOOLEAN, joined : BOOLEAN,
     late : BOOLEAN, up : Seq(UpMessages), down : Seq(DownMessages)]

Connections == [id : 0..MaxConns, offers : BOOLEAN, sent : BOOLEAN, with : 0..MaxConns]

(* Types of the state.                                                     *)
RendezvousTypeOK ==
    /\ sockets \in Seq(Sockets)
    /\ seat \in [Peers -> 0..Len(sockets)] /\ socket \in [Peers -> 0..Len(sockets)]
    /\ wants \subseteq Peers /\ retry \subseteq wants
    /\ conn \in [Peers -> [Peers -> Connections]]
    /\ ready \in [Peers -> SUBSET Peers] /\ made \in 0..MaxConns

(* The room never lists a socket the server has closed, however the join   *)
(* and the end of several sockets of one device follow each other: what is *)
(* relayed to a member has somewhere to go, and a room empties.            *)
MembersAreServed ==
    /\ RendezvousTypeOK
    /\ \A d \in Peers : seat[d] # 0 => sockets[seat[d]].served /\ sockets[seat[d]].owner = d

(* So far the server has seen the end of each of a device's sockets before *)
(* the join of the next.                                                   *)
EndsSeenInTime == \A i \in DOMAIN sockets : ~ sockets[i].late

(* A device whose socket has joined and still stands is in the room.       *)
JoinedIsPresent ==
    \A d \in Peers : socket[d] # 0 /\ sockets[socket[d]].joined /\ sockets[socket[d]].link = "up"
        => seat[d] = socket[d]

NotWithItself == \A d \in Peers : conn[d][d] = NoConn

(* As long as ends are seen in time, no order of joins, drops, hang-ups    *)
(* and restarts takes a joined device out of its room, or has it told of   *)
(* itself and negotiate a connection with itself.                          *)
SeatIsOwn == EndsSeenInTime => JoinedIsPresent /\ NotWithItself
=============================================================================
