------------------------------- MODULE Meeting -------------------------------
(***************************************************************************)
(* From a pairing code to a connection: the memory of the signaling server *)
(* (Signaling) together with its sockets and the bridges of two devices    *)
(* (Rendezvous).  A host asks for a room and a code; a guest redeems the   *)
(* code, or is given the link; both go to the room and come and go as they *)
(* like.  Strangers make rooms and codes of their own meanwhile.           *)
(***************************************************************************)
EXTENDS Rendezvous, Signaling

CONSTANTS
    Host,          \* the device that shows the code
    RequestLimit   \* after this long an HTTP request has failed

ASSUME MeetingAssumption ==
    /\ Host \in Peers /\ Clients = Peers
    /\ RequestLimit \in Nat /\ RequestLimit + CodeTTL <= RoomTTL

VARIABLES
    ours,    \* the room the host was given, or 0
    asking,  \* for how long the host has waited for the code, or Done
    told,    \* devices that know the room
    refused  \* devices that found the server full

meetVars == <<roomVars, server, ours, asking, told, refused>>
hostVars == <<ours, asking, told>>

Done == RequestLimit + 2

MeetInit ==
    /\ RoomInit /\ ServerInit
    /\ ours = 0 /\ asking = Done /\ told = {} /\ refused = {}

-----------------------------------------------------------------------------
(* Requests over HTTP.                                                     *)

(* POST /rooms of createPairingCode.  It also sets what the rest needs, so *)
(* the host goes on with the room whatever becomes of the code.            *)
HostAsksForRoom ==
    /\ ours = 0 /\ CanCreate
    /\ rooms' = createRoom(drawn + 1)
    /\ drawn' = drawn + 1 /\ ours' = drawn + 1
    /\ asking' = 0
    /\ UNCHANGED <<roomVars, codes, emptied, told, refused>>

(* issueShortCode: best effort.                                            *)
HostShowsCode ==
    /\ asking # Done
    /\ \/ CanIssue /\ asking <= RequestLimit /\ codes' = issue(ours)
       \/ ~ CanIssue /\ codes' = Fresh(codes)
       \/ UNCHANGED codes
    /\ asking' = Done /\ told' = {Host}
    /\ UNCHANGED <<roomVars, rooms, drawn, emptied, ours, refused>>

GuestRedeems(d) ==
    /\ told # {} /\ d \notin told
    /\ Redeemable(ours) /\ codes' = redeem(ours)
    /\ told' = told \cup {d}
    /\ UNCHANGED <<roomVars, rooms, drawn, emptied, ours, asking, refused>>

GuestReadsLink(d) ==
    /\ told # {} /\ d \notin told
    /\ told' = told \cup {d}
    /\ UNCHANGED <<roomVars, server, ours, asking, refused>>

(* Somebody else's room, with a code or, at the limit, without.            *)
StrangerAsks ==
    /\ drawn < MaxIds
    /\ IF CanCreate
       THEN /\ rooms' = createRoom(drawn + 1) /\ drawn' = drawn + 1
            /\ codes' = IF CanIssue THEN issue(drawn + 1) ELSE Fresh(codes)
       ELSE rooms' = sweep(rooms) /\ UNCHANGED <<drawn, codes>>
    /\ UNCHANGED <<roomVars, emptied, hostVars, refused>>

FiveMinutes ==
    /\ rooms' = Aged(rooms) /\ codes' = AgedCodes
    /\ asking' = IF asking <= RequestLimit THEN asking + 1 ELSE asking
    /\ UNCHANGED <<roomVars, drawn, emptied, ours, told, refused>>

-----------------------------------------------------------------------------
(* The room, seen from the sockets and from the registry.                  *)

Goes(d) ==
    /\ d \in told
    /\ Connect(d) \/ Disconnect(d)
    /\ UNCHANGED <<server, hostVars, refused>>

Device(d) == DeviceStep(d) /\ UNCHANGED <<server, hostVars, refused>>

Joins(i) ==
    /\ CanJoin(rooms, ours)
    /\ ServeJoin(i)
    /\ rooms' = join(rooms, ours, sockets[i].owner)
    /\ UNCHANGED <<codes, drawn, emptied, hostVars, refused>>

(* RoomFull: an error is all the device hears.                             *)
JoinRefused(i) ==
    /\ ~ CanJoin(rooms, ours)
    /\ CanServe(i, "join")
    /\ sockets' = [Received(i) EXCEPT ![i].down =
           IF sockets[i].link = "up" THEN Append(@, [type |-> "error"]) ELSE @]
    /\ refused' = refused \cup {sockets[i].owner}
    /\ UNCHANGED <<seat, bridge, rtc, server, hostVars>>

Signals(i) == ServeSignal(i) /\ UNCHANGED <<server, hostVars, refused>>

Leaves(i) ==
    /\ ServeClose(i)
    /\ rooms' = IF sockets[i].joined THEN leave(rooms, ours, sockets[i].owner) ELSE rooms
    /\ emptied' = emptied \cup (There(rooms) \ There(rooms'))
    /\ UNCHANGED <<codes, drawn, hostVars, refused>>

Server(i) == Joins(i) \/ JoinRefused(i) \/ Signals(i) \/ Leaves(i)

MeetNext ==
    \/ HostAsksForRoom \/ HostShowsCode \/ StrangerAsks \/ FiveMinutes
    \/ \E d \in Peers : GuestRedeems(d) \/ GuestReadsLink(d) \/ Goes(d) \/ Device(d)
    \/ \E i \in DOMAIN sockets : Server(i)

MeetFairness ==
    /\ \A d \in Peers : WF_meetVars(Device(d))
    /\ \A i \in 1..MaxSockets : WF_meetVars(i \in DOMAIN sockets /\ Server(i))

MeetSpec == MeetInit /\ [][MeetNext]_meetVars /\ MeetFairness

-----------------------------------------------------------------------------
(* The registry and the sockets agree on who is in the room; and the room  *)
(* outlives the code that leads to it: as long as a code can be redeemed   *)
(* its room is there, unless somebody was in it and left.                  *)
CodeHasRoom ==
    /\ RendezvousTypeOK /\ ServerTypeOK
    /\ \A d \in Peers : seat[d] # 0 <=> ours # 0 /\ d \in rooms[ours].peers
    /\ \A r \in RoomIds : Redeemable(r) /\ r \notin emptied => rooms[r].there

OnceEach == \A i, j \in DOMAIN sockets : sockets[i].owner = sockets[j].owner => i = j

(* Two devices that were told of the room, go to it once and stay are      *)
(* connected: by the code or by the link, in whatever order they come, at  *)
(* once or when the room has been swept, and however their joins, the news *)
(* of them and their offers cross; unless the server was full.  A device   *)
(* that leaves and comes back need not be (README).                        *)
CodeLeadsToMeeting ==
    <>[](wants = Peers) /\ []OnceEach /\ [](refused = {})
        => \A d, p \in Peers : d # p => <>[](p \in ready[d])
=============================================================================
