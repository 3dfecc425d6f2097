------------------------------ MODULE Signaling ------------------------------
(***************************************************************************)
(* The memory of the signaling server (apps/signaling/src): its rooms      *)
(* (rooms.ts) and the short codes that stand for a pairing link            *)
(* (shortCodes.ts).  Rendezvous has the WebSockets and what is relayed     *)
(* over them; this module has what is created, swept, refused and used     *)
(* up.  Every request is served in one step, by an operator that gives the *)
(* rooms or the codes after it.                                            *)
(*                                                                         *)
(* Time is counted in steps of five minutes.  A room id and its token are  *)
(* random and go together in a link, so they are one value here; an        *)
(* application asks for at most one code per link, so a code is named by   *)
(* the room it leads to.                                                   *)
(***************************************************************************)
EXTENDS Naturals, FiniteSets

CONSTANTS
    Clients,   \* the devices that talk to the server
    MaxIds,    \* bound: room ids that are drawn
    MaxRooms,  \* MAX_ROOMS
    MaxCodes,  \* MAX_ENTRIES
    RoomTTL,   \* EMPTY_ROOM_TTL_MS
    CodeTTL    \* TTL_MS of shortCodes.ts

ASSUME SignalingAssumption ==
    /\ MaxIds \in Nat /\ MaxRooms \in Nat /\ MaxCodes \in Nat
    /\ RoomTTL \in Nat /\ CodeTTL \in Nat /\ CodeTTL > 0

RoomIds == 1..MaxIds

VARIABLES
    rooms,   \* room id -> [there, peers, age]
    codes,   \* room id -> the age of the code that leads there, or Gone
    drawn,   \* room ids drawn so far
    emptied  \* rooms that were joined, left by everybody and so deleted

server == <<rooms, codes, drawn, emptied>>

Gone == CodeTTL + 1
NoRoom == [there |-> FALSE, peers |-> {}, age |-> 0]
Room(peers) == [there |-> TRUE, peers |-> peers, age |-> 0]

ServerInit ==
    /\ rooms = [r \in RoomIds |-> NoRoom]
    /\ codes = [r \in RoomIds |-> Gone]
    /\ drawn = 0 /\ emptied = {}

-----------------------------------------------------------------------------
There(rs) == {r \in RoomIds : rs[r].there}

(* Mutation: an empty room goes, however young.                            *)
mut_sweep(rs) == [r \in RoomIds |-> IF rs[r].there /\ rs[r].peers = {} THEN NoRoom ELSE rs[r]]

sweep(rs) ==
    [r \in RoomIds |-> IF rs[r].there /\ rs[r].peers = {} /\ rs[r].age >= RoomTTL
                       THEN NoRoom ELSE rs[r]]

(* createRoom sweeps first; at the limit it throws RoomFull.               *)
CanCreate == drawn < MaxIds /\ Cardinality(There(sweep(rooms))) < MaxRooms
createRoom(r) == [sweep(rooms) EXCEPT ![r] = Room({})]

(* join: a room that is not there is made, unless there are too many.      *)
CanJoin(rs, r) == rs[r].there \/ Cardinality(There(rs)) < MaxRooms
join(rs, r, c) ==
    [rs EXCEPT ![r] = IF rs[r].there THEN [rs[r] EXCEPT !.peers = @ \cup {c}] ELSE Room({c})]

(* leave: the last one out takes the room along.                           *)
leave(rs, r, c) ==
    [rs EXCEPT ![r] = IF ~ rs[r].there THEN @
                      ELSE IF rs[r].peers \ {c} = {} THEN NoRoom
                      ELSE [rs[r] EXCEPT !.peers = @ \ {c}]]

(* The sweep of the codes.                                                 *)
Fresh(cs) == [r \in RoomIds |-> IF cs[r] >= CodeTTL THEN Gone ELSE cs[r]]
Outstanding(cs) == {r \in RoomIds : cs[r] # Gone}

(* issue throws at the limit.                                              *)
CanIssue == Cardinality(Outstanding(Fresh(codes))) < MaxCodes
issue(r) == [Fresh(codes) EXCEPT ![r] = 0]

(* redeem: what has expired is swept before the code is looked up.         *)
Redeemable(r) == Fresh(codes)[r] # Gone
redeem(r) == [Fresh(codes) EXCEPT ![r] = Gone]

(* Five minutes pass.  Only an empty room's age is ever looked at.         *)
Aged(rs) ==
    [r \in RoomIds |-> IF rs[r].there /\ rs[r].peers = {} /\ rs[r].age < RoomTTL
                       THEN [rs[r] EXCEPT !.age = @ + 1] ELSE rs[r]]
AgedCodes == [r \in RoomIds |-> IF codes[r] < CodeTTL THEN codes[r] + 1 ELSE codes[r]]

ServerTypeOK ==
    /\ rooms \in [RoomIds -> [there : BOOLEAN, peers : SUBSET Clients, age : 0..RoomTTL]]
    /\ codes \in [RoomIds -> 0..Gone]
    /\ drawn \in 0..MaxIds /\ emptied \subseteq RoomIds
=============================================================================
