----------------------------- MODULE PairingProofs -----------------------------
(***************************************************************************)
(* Proofs about Pairing, for every set of devices, connections and rooms   *)
(* and every choice of faults; and about the ways that lead two devices to *)
(* each other, Rendezvous and Meeting, for every set of peers, every       *)
(* number of sockets, connections, rooms and codes.                        *)
(***************************************************************************)
EXTENDS Pairing, Meeting, FiniteSetTheorems, SequenceTheorems, TLAPS

(* What can be said about the sessions and the prompt once a device is     *)
(* typed: PromptIsAwaited without TypeOK, and ForgottenEntirely.           *)
Awaited ==
    /\ \A p \in Conns : session[p].phase = "prompt" <=> prompt.conn = p
    /\ prompt # NoPrompt => trust[prompt.device] = "none"
    /\ syncing # None => session[syncing] # Idle
    /\ \A p \in online : peerOf[p] # None

Sessions == [Conns -> [phase : {"none", "hello", "prompt", "sync"}, pairing : BOOLEAN]]
USE DEF Sessions

(* The inductive invariant.                                                *)
PairingInv == TypeOK /\ Awaited /\ ForgottenEntirely

(* Nothing is pinned, open or asked at the first start.                    *)
LEMMA InitPairing == Init => PairingInv
<1> SUFFICES ASSUME Init PROVE PairingInv
  OBVIOUS
<1> USE PairingAssumption DEF Init
<1>1. TypeOK
  BY DEF TypeOK, Idle
<1>2. NoPrompt.conn = None /\ \A p \in Conns : session[p].phase = "none"
  BY DEF NoPrompt, Idle
<1>3. Awaited
  BY <1>2 DEF Awaited
<1>4. QED
  BY <1>1, <1>3 DEF PairingInv, ForgottenEntirely

(* What a session's finally leaves behind (End): no prompt, and nobody     *)
(* waiting for one.                                                        *)
LEMMA EndSettles ==
    ASSUME PairingInv, NEW p \in Conns, End(p),
           UNCHANGED <<linkVars, making, rejoined, window, pending, screen, stored>>
    PROVE  PairingInv'
<1> USE PairingAssumption DEF PairingInv
<1>1. /\ session' \in Sessions
      /\ \A q \in Conns : q \in Ended(p) => session'[q] = Idle
      /\ \A q \in Conns : q \notin Ended(p) => session'[q] = session[q]
  BY DEF End, TypeOK, Idle
<1>2. TypeOK'
  BY <1>1 DEF TypeOK, End, NoPrompt, linkVars, stored
<1>3. \A q \in Conns : session'[q].phase # "prompt"
  BY <1>1 DEF Awaited, Ended, Idle
<1>4. Awaited'
  BY <1>1, <1>3 DEF Awaited, TypeOK, End, NoPrompt, linkVars, stored
<1>5. ForgottenEntirely'
  BY DEF ForgottenEntirely, stored
<1>6. QED
  BY <1>2, <1>4, <1>5

(* Going to a room tears down every connection, and nobody is online.      *)
LEMMA ConnectSettles ==
    ASSUME PairingInv, NEW r \in Rooms \cup {None}, connect(r),
           UNCHANGED <<session, prompt, screen, syncing, stored>>,
           {making', pending'} \subseteq Rooms \cup {None},
           {uiPairing', rejoined', window'} \subseteq BOOLEAN
    PROVE  PairingInv'
  BY PairingAssumption DEF PairingInv, TypeOK, Awaited, ForgottenEntirely, connect, stored

(* A session begins where there was none (runSync, onPeerInitiated).       *)
LEMMA BegunSettles ==
    ASSUME PairingInv, NEW p \in Conns, NEW b \in BOOLEAN, session[p] = Idle, Begun(p, b),
           syncing' \in {syncing, p},
           UNCHANGED <<prompt, stored>>
    PROVE  /\ session' \in Sessions
           /\ \A q \in Conns : session'[q].phase = "prompt" <=> prompt'.conn = q
           /\ prompt' # NoPrompt => trust'[prompt'.device] = "none"
           /\ syncing' # None => session'[syncing'] # Idle
  BY PairingAssumption DEF PairingInv, TypeOK, Awaited, Begun, Idle, stored

(* The person or the services ask for a session (runSync): whichever of    *)
(* its outcomes, what waits still waits.                                   *)
LEMMA RunSyncSettles ==
    ASSUME PairingInv, NEW p \in Conns, RunSync(p), UNCHANGED <<prompt, stored>>
    PROVE  /\ session' \in Sessions
           /\ \A q \in Conns : session'[q].phase = "prompt" <=> prompt'.conn = q
           /\ prompt' # NoPrompt => trust'[prompt'.device] = "none"
           /\ syncing' # None => session'[syncing'] # Idle
           /\ syncing' \in Conns \cup {None} /\ uiPairing' \in BOOLEAN
<1>1. CASE UNCHANGED <<syncing, session>> /\ uiPairing' \in BOOLEAN
  BY <1>1 DEF PairingInv, TypeOK, Awaited, stored
<1>2. CASE session[p] = Idle /\ syncing' = p /\ Begun(p, uiPairing) /\ UNCHANGED uiPairing
  <2>1. uiPairing \in BOOLEAN
    BY DEF PairingInv, TypeOK
  <2>2. QED
    BY <1>2, <2>1, BegunSettles
<1>3. QED
  BY <1>1, <1>2 DEF RunSync, PairingInv, TypeOK

(* The verdict is yes: the session goes on, the room is remembered for a   *)
(* device that is or becomes pinned (the "authenticated" event).           *)
LEMMA AuthenticatedSettles ==
    ASSUME PairingInv, NEW p \in Conns, NEW d \in Devices, Authenticated(p, d),
           trust' \in [Devices -> {"none", "paired", "revoked"}], trust'[d] = "paired",
           \A e \in Devices \ {d} : trust'[e] = trust[e],
           \/ session[p].phase = "hello" /\ UNCHANGED prompt /\ trust' = trust
           \/ prompt.conn = p /\ prompt' = NoPrompt,
           UNCHANGED <<peerOf, room, making, uiPairing, syncing, rejoined, window, pending, screen>>
    PROVE  PairingInv'
<1> USE PairingAssumption DEF PairingInv
<1>1. /\ session' \in Sessions
      /\ session'[p].phase = "sync"
      /\ \A q \in Conns \ {p} : session'[q] = session[q]
  BY DEF Authenticated, TypeOK
<1>2. meetAt' \in [Devices -> Rooms \cup {None}] /\ \A e \in Devices \ {d} : meetAt'[e] = meetAt[e]
  BY DEF Authenticated, TypeOK, rememberRendezvous
<1>3. TypeOK'
  BY <1>1, <1>2 DEF Authenticated, TypeOK, NoPrompt
<1>4. \A q \in Conns : session'[q].phase = "prompt" <=> prompt'.conn = q
  BY <1>1 DEF Awaited, NoPrompt
<1>5. prompt' # NoPrompt => trust'[prompt'.device] = "none"
  BY DEF Awaited
<1>6. syncing' # None => session'[syncing'] # Idle
  BY <1>1 DEF Awaited, Idle, TypeOK
<1>7. \A q \in online' : peerOf'[q] # None
  BY DEF Awaited, Authenticated
<1>8. ForgottenEntirely'
  BY <1>2 DEF ForgottenEntirely
<1>9. QED
  BY <1>3, <1>4, <1>5, <1>6, <1>7, <1>8 DEF Awaited

(* The device list changes a row of a device that is in it, hence none the *)
(* prompt is about (disconnect, reconnect, forget).                        *)
LEMMA ListsSettles ==
    ASSUME PairingInv, NEW d \in Devices, trust[d] # "none",
           NEW row \in {"none", "paired", "revoked"}, NEW where \in Rooms \cup {None},
           Lists(d, row, where), where # None => row # "none"
    PROVE  PairingInv'
<1>1. /\ trust' \in [Devices -> {"none", "paired", "revoked"}]
      /\ meetAt' \in [Devices -> Rooms \cup {None}]
  BY DEF Lists, PairingInv, TypeOK
<1>2. TypeOK'
  BY <1>1 DEF Lists, PairingInv, TypeOK, linkVars
<1>3. Awaited'
  BY DEF Lists, PairingInv, TypeOK, Awaited, linkVars
<1>4. ForgottenEntirely'
  BY DEF Lists, PairingInv, TypeOK, ForgottenEntirely
<1>5. QED
  BY <1>2, <1>3, <1>4 DEF PairingInv

(***************************************************************************)
(* Every step keeps the invariant, action by action.                       *)
(***************************************************************************)
LEMMA PairingInductive == PairingInv /\ [Next]_vars => PairingInv'
<1> SUFFICES ASSUME PairingInv, [Next]_vars PROVE PairingInv'
  OBVIOUS
<1> USE PairingAssumption
<1>T. TypeOK
  BY DEF PairingInv
<1>1. ASSUME NEW r \in Rooms, CreateRoom(r) PROVE PairingInv'
  BY <1>1 DEF CreateRoom, PairingInv, TypeOK, Awaited, ForgottenEntirely, linkVars, stored
<1>2. ASSUME NEW r \in Rooms, ReadCode(r) PROVE PairingInv'
  BY <1>2, <1>T, ConnectSettles DEF ReadCode, TypeOK
<1>3. CASE ShowCode
  BY <1>3, <1>T, ConnectSettles DEF ShowCode, TypeOK
<1>4. CASE Rejoin
  <2>1. CASE UNCHANGED <<linkVars, pending>>
    BY <1>4, <2>1 DEF Rejoin, PairingInv, TypeOK, Awaited, ForgottenEntirely, linkVars, stored
  <2>2. ASSUME NEW r \in standingRendezvous, GoesTo(r) PROVE PairingInv'
    <3>1. r \in Rooms
      BY <1>T DEF standingRendezvous, TypeOK
    <3>2. QED
      BY <1>4, <1>T, <2>2, <3>1, ConnectSettles DEF Rejoin, GoesTo, TypeOK
  <2>3. QED
    BY <1>4, <2>1, <2>2 DEF Rejoin
<1>5. ASSUME NEW d \in Devices, SyncWith(d) PROVE PairingInv'
  <2>1. rendezvousFor(d) \in Rooms
    BY <1>5, <1>T DEF SyncWith, rendezvousFor, TypeOK
  <2>2. QED
    BY <1>5, <1>T, <2>1, ConnectSettles DEF SyncWith, GoesTo, TypeOK
<1>6. ASSUME NEW d \in Devices, DisconnectDevice(d) PROVE PairingInv'
  BY <1>6, <1>T, ListsSettles DEF DisconnectDevice, TypeOK
<1>7. ASSUME NEW d \in Devices, ReconnectDevice(d) PROVE PairingInv'
  BY <1>7, <1>T, ListsSettles DEF ReconnectDevice, TypeOK
<1>8. ASSUME NEW d \in Devices, ForgetDevice(d) PROVE PairingInv'
  BY <1>8, ListsSettles DEF ForgetDevice
<1>9. ASSUME NEW p \in Conns, NEW d \in Devices, PeerOpens(p, d) PROVE PairingInv'
  <2>1. UNCHANGED <<prompt, stored>> /\ RunSync(p)
    BY <1>9 DEF PeerOpens
  <2>2. peerOf' \in [Conns -> Devices \cup {None}] /\ \A q \in online' : peerOf'[q] # None
    BY <1>9 DEF PeerOpens, PairingInv, TypeOK, Awaited
  <2>3. QED
    BY <1>9, <2>1, <2>2, RunSyncSettles
       DEF PeerOpens, PairingInv, TypeOK, Awaited, ForgottenEntirely, stored
<1>10. ASSUME NEW p \in Conns, SyncSuggested(p) PROVE PairingInv'
  <2>1. UNCHANGED <<prompt, stored>> /\ RunSync(p)
    BY <1>10 DEF SyncSuggested
  <2>2. QED
    BY <1>10, <2>1, RunSyncSettles
       DEF SyncSuggested, PairingInv, TypeOK, Awaited, ForgottenEntirely, linkVars, stored
<1>11. ASSUME NEW p \in Conns, PeerInitiated(p) PROVE PairingInv'
  <2>1. window \in BOOLEAN
    BY <1>T DEF TypeOK
  <2>2. QED
    BY <1>11, <2>1, BegunSettles
       DEF PeerInitiated, PairingInv, TypeOK, Awaited, ForgottenEntirely, linkVars, stored
<1>12. ASSUME NEW p \in Conns, PeerCloses(p) PROVE PairingInv'
  BY <1>12 DEF PeerCloses, PairingInv, TypeOK, Awaited, ForgottenEntirely, stored
<1>13. ASSUME NEW p \in Conns, SessionEnds(p) PROVE PairingInv'
  BY <1>13, EndSettles DEF SessionEnds
<1>14. ASSUME NEW p \in Conns, VerifyPeer(p) PROVE PairingInv'
  <2>1. PICK d \in Devices : d = peerOf[p] /\ session[p].phase = "hello"
    BY <1>14, <1>T DEF VerifyPeer, TypeOK
  <2>2. CASE /\ evaluateTrust(d) = "trusted" /\ Authenticated(p, d)
             /\ UNCHANGED <<prompt, syncing, uiPairing>>
    <3>1. trust[d] = "paired"
      BY <2>1, <2>2, <1>T DEF evaluateTrust, TypeOK
    <3>2. QED
      BY <1>14, <2>1, <2>2, <3>1, <1>T, AuthenticatedSettles DEF VerifyPeer, TypeOK
  <2>3. CASE /\ evaluateTrust(d) = "unknown-device" /\ CanPrompt
             /\ prompt' = [conn |-> p, device |-> d, old |-> FALSE]
             /\ session' = [session EXCEPT ![p].phase = "prompt"]
             /\ UNCHANGED <<online, meetAt, syncing, uiPairing>>
    <3>1. trust[d] = "none"
      BY <2>1, <2>3, <1>T DEF evaluateTrust, TypeOK
    <3>2. /\ session' \in Sessions
          /\ session'[p].phase = "prompt"
          /\ \A q \in Conns \ {p} : session'[q] = session[q] /\ session[q].phase # "prompt"
      BY <2>3, <1>T DEF TypeOK, CanPrompt, NoPrompt, PairingInv, Awaited
    <3>3. TypeOK'
      BY <1>14, <2>1, <2>3, <3>2, <1>T DEF VerifyPeer, TypeOK
    <3>4. prompt'.conn = p /\ prompt'.device = d
      BY <2>3
    <3>5. Awaited'
      BY <1>14, <2>3, <3>1, <3>2, <3>4, <1>T DEF VerifyPeer, TypeOK, PairingInv, Awaited, Idle
    <3>6. QED
      BY <1>14, <2>3, <3>3, <3>5 DEF VerifyPeer, PairingInv, ForgottenEntirely
  <2>4. CASE End(p) /\ UNCHANGED <<online, meetAt>>
    BY <1>14, <2>4, EndSettles DEF VerifyPeer, linkVars, stored
  <2>5. QED
    BY <1>14, <2>1, <2>2, <2>3, <2>4 DEF VerifyPeer
<1>15. CASE Confirm
  <2>1. PICK p \in Conns, d \in Devices : p = prompt.conn /\ d = prompt.device
    BY <1>15, <1>T DEF Confirm, Answerable, TypeOK
  <2>2. QED
    BY <1>15, <2>1, <1>T, AuthenticatedSettles DEF Confirm, TypeOK
<1>16. ASSUME NEW why, Refused(why) PROVE PairingInv'
  <2>1. PICK p \in Conns : p = prompt.conn
    BY <1>16, <1>T DEF Refused, TypeOK
  <2>2. QED
    BY <1>16, <2>1, EndSettles DEF Refused
<1>17. CASE Restart
  <2>1. TypeOK'
    BY <1>17, <1>T DEF Restart, connect, stored, TypeOK, Idle
  <2>2. NoPrompt.conn = None /\ \A p \in Conns : session'[p].phase = "none"
    BY <1>17 DEF Restart, NoPrompt, Idle
  <2>3. Awaited'
    BY <1>17, <2>2 DEF Restart, connect, stored, Awaited
  <2>4. QED
    BY <1>17, <2>1, <2>3 DEF Restart, stored, PairingInv, ForgottenEntirely
<1>18. CASE Tick
  <2>1. /\ prompt'.conn = prompt.conn /\ prompt'.device = prompt.device
        /\ prompt' # NoPrompt => prompt # NoPrompt
        /\ prompt' \in [conn : Conns, device : Devices, old : BOOLEAN] \cup {NoPrompt}
    BY <1>18, <1>T DEF Tick, TypeOK
  <2>2. QED
    BY <1>18, <2>1 DEF Tick, PairingInv, TypeOK, Awaited, ForgottenEntirely, linkVars, stored
<1>19. CASE ShowSnapshot
  <2>1. screen' \in Devices \cup {None}
    BY <1>19, <1>T DEF ShowSnapshot, TypeOK, NoPrompt
  <2>2. QED
    BY <1>19, <2>1 DEF ShowSnapshot, PairingInv, TypeOK, Awaited, ForgottenEntirely, linkVars, stored
<1>20. CASE UNCHANGED vars
  BY <1>20 DEF vars, PairingInv, TypeOK, Awaited, ForgottenEntirely
<1>21. QED
  BY <1>1, <1>2, <1>3, <1>4, <1>5, <1>6, <1>7, <1>8, <1>9, <1>10, <1>11, <1>12, <1>13, <1>14,
     <1>15, <1>16, <1>17, <1>18, <1>19, <1>20 DEF Next, Refuse, PromptTimesOut

-----------------------------------------------------------------------------
(* The invariant holds throughout, whatever the other devices, the network *)
(* and the person do.                                                      *)
THEOREM PairingSafe == Spec => []PairingInv
<1>1. QED
  BY InitPairing, PairingInductive, PTL DEF Spec

(* The prompt always belongs to the one handshake that waits for it, and   *)
(* is about a device with no key pinned yet (awaitPairingConfirmation,     *)
(* settleVerification).                                                    *)
THEOREM PromptIsAwaitedAlways == Spec => []PromptIsAwaited
<1>1. PairingInv => PromptIsAwaited
  BY DEF PairingInv, Awaited, PromptIsAwaited
<1>2. QED
  BY <1>1, PairingSafe, PTL

(* forgetDevice leaves no room behind, and no session brings one back      *)
(* without the key being pinned again (rememberRendezvous).                *)
THEOREM ForgottenEntirelyAlways == Spec => []ForgottenEntirely
<1>1. PairingInv => ForgottenEntirely
  BY DEF PairingInv
<1>2. QED
  BY <1>1, PairingSafe, PTL

(* Who is at the other end of the connection that asks: the device the     *)
(* prompt is about, or nobody any more.                                    *)
AskedByPeer == prompt # NoPrompt => peerOf[prompt.conn] \in {None, prompt.device}

(* Every step keeps that.  A connection under the peer id of the one that  *)
(* asks is to the same launch of the same device (peerOpened), and only a  *)
(* handshake with whoever is connected puts up a prompt (verifyPeer).      *)
LEMMA AskedInductive == PairingInv /\ AskedByPeer /\ [Next]_vars => AskedByPeer'
<1> SUFFICES ASSUME PairingInv, AskedByPeer, [Next]_vars, prompt' # NoPrompt
             PROVE  peerOf'[prompt'.conn] \in {None, prompt'.device}
  BY DEF AskedByPeer
<1> USE DEF PairingInv, TypeOK
<1>1. CASE UNCHANGED <<peerOf, prompt>>
  BY <1>1 DEF AskedByPeer
<1>2. ASSUME NEW r, connect(r), UNCHANGED prompt PROVE peerOf'[prompt'.conn] = None
  BY <1>2, PairingAssumption DEF connect
<1>3. ASSUME NEW p \in Conns, NEW d \in Devices, PeerOpens(p, d)
      PROVE  peerOf'[prompt'.conn] \in {None, prompt'.device}
  BY <1>3 DEF PeerOpens, AskedByPeer
<1>4. ASSUME NEW p \in Conns, PeerCloses(p)
      PROVE  peerOf'[prompt'.conn] \in {None, prompt'.device}
  BY <1>4 DEF PeerCloses, AskedByPeer
<1>5. ASSUME NEW p \in Conns, VerifyPeer(p)
      PROVE  peerOf'[prompt'.conn] \in {None, prompt'.device}
  <2>1. CASE UNCHANGED prompt
    BY <1>5, <2>1, <1>1 DEF VerifyPeer
  <2>2. CASE prompt' = [conn |-> p, device |-> peerOf[p], old |-> FALSE]
    BY <1>5, <2>2 DEF VerifyPeer
  <2>3. CASE End(p)
    BY <2>3 DEF End
  <2>4. QED
    BY <1>5, <2>1, <2>2, <2>3 DEF VerifyPeer
<1>6. CASE Tick
  <2>1. prompt # NoPrompt /\ prompt'.conn = prompt.conn /\ prompt'.device = prompt.device
    BY <1>6 DEF Tick
  <2>2. QED
    BY <1>6, <2>1 DEF Tick, linkVars, AskedByPeer
<1>7. ASSUME NEW r \in Rooms, ReadCode(r) PROVE connect(r) /\ UNCHANGED prompt
  BY <1>7 DEF ReadCode
<1>8. CASE ShowCode
  BY <1>2, <1>8 DEF ShowCode
<1>9. CASE Rejoin
  BY <1>1, <1>2, <1>9 DEF Rejoin, GoesTo, linkVars
<1>10. ASSUME NEW d \in Devices, SyncWith(d) PROVE connect(rendezvousFor(d)) /\ UNCHANGED prompt
  BY <1>10 DEF SyncWith, GoesTo
<1>11. CASE \/ \E p \in Conns : SessionEnds(p) \/ SyncSuggested(p) \/ PeerInitiated(p)
            \/ Confirm \/ Refuse \/ PromptTimesOut \/ Restart \/ ShowSnapshot
            \/ \E r \in Rooms : CreateRoom(r)
            \/ \E d \in Devices : DisconnectDevice(d) \/ ReconnectDevice(d) \/ ForgetDevice(d)
  BY <1>1, <1>11 DEF SessionEnds, SyncSuggested, PeerInitiated, Confirm, Refuse, PromptTimesOut,
     Refused, End, Restart, ShowSnapshot, CreateRoom, DisconnectDevice, ReconnectDevice,
     ForgetDevice, Lists, linkVars
<1>12. CASE UNCHANGED vars
  BY <1>1, <1>12 DEF vars
<1>13. QED
  BY <1>2, <1>3, <1>4, <1>5, <1>6, <1>7, <1>8, <1>9, <1>10, <1>11, <1>12 DEF Next

(* A session pins a key only by a yes to a number that is on the screen;   *)
(* and as long as the device whose number that is waits for the answer, it *)
(* is that device's, however late the screen is and whatever asks          *)
(* meanwhile (awaitPairingConfirmation, answerVerification).  A            *)
(* disconnected device comes back through the device list only             *)
(* (reconnectDevice).                                                      *)
THEOREM PinnedByPersonAlways == Spec => PinnedByPerson
<1> DEFINE Seen(d) == screen # None /\ (screen = d \/ ~ Waiting(screen))
           ByPerson == \A d \in Devices : trust'[d] = "paired" /\ trust[d] # "paired" =>
                          IF trust[d] = "none" THEN Seen(d) ELSE UNCHANGED <<session, prompt>>
<1>1. PairingInv /\ AskedByPeer /\ [Next]_vars => [ByPerson]_vars
  <2> SUFFICES ASSUME PairingInv, AskedByPeer, Next, NEW d \in Devices,
                      trust'[d] = "paired", trust[d] # "paired"
               PROVE  IF trust[d] = "none" THEN Seen(d) ELSE UNCHANGED <<session, prompt>>
    OBVIOUS
  <2> USE DEF PairingInv, TypeOK
  <2>1. CASE Confirm
    <3>1. prompt # NoPrompt /\ screen # None /\ prompt.device = d /\ prompt.conn \in Conns
      BY <2>1 DEF Confirm, Answerable
    <3>2. trust[d] = "none"
      BY <3>1 DEF Awaited
    <3>3. ASSUME NEW p \in Conns, peerOf[p] = screen, session[p].phase = "prompt"
          PROVE  screen = d
      <4>1. prompt.conn = p
        BY <3>3 DEF Awaited
      <4>2. QED
        BY <3>1, <3>3, <4>1 DEF AskedByPeer
    <3>4. QED
      BY <3>1, <3>2, <3>3 DEF Waiting
  <2>2. ASSUME NEW e \in Devices, ReconnectDevice(e)
        PROVE  e = d /\ trust[d] = "revoked" /\ UNCHANGED <<session, prompt>>
    BY <2>2 DEF ReconnectDevice, Lists
  <2>3. ASSUME NEW e \in Devices, DisconnectDevice(e) \/ ForgetDevice(e) PROVE FALSE
    BY <2>3 DEF DisconnectDevice, ForgetDevice, Lists
  <2>4. CASE trust' = trust
    BY <2>4
  <2>5. QED
    BY <2>1, <2>2, <2>3, <2>4 DEF Next, CreateRoom, ReadCode, ShowCode, Rejoin, SyncWith, PeerOpens,
       SyncSuggested, PeerInitiated, PeerCloses, SessionEnds, VerifyPeer, Refuse, PromptTimesOut,
       Refused, Restart, Tick, ShowSnapshot, stored
<1>2. Init => AskedByPeer
  BY DEF Init, AskedByPeer
<1>3. QED
  BY <1>1, <1>2, AskedInductive, PairingSafe, PTL DEF Spec, PinnedByPerson

-----------------------------------------------------------------------------
(* The room of Rendezvous.                                                 *)

(* A place in the room is a socket of that device, joined and served.      *)
SeatsAreServed ==
    \A d \in Peers : seat[d] # 0 =>
        LET s == sockets[seat[d]] IN s.served /\ s.joined /\ s.owner = d

(* The socket a bridge holds is its device's newest.                       *)
SocketIsNewest ==
    \A d \in Peers :
        /\ socket[d] # 0 => d \in wants /\ sockets[socket[d]].owner = d
        /\ \A j \in DOMAIN sockets : socket[d] # 0 /\ sockets[j].owner = d => j <= socket[d]
        /\ d \in retry => socket[d] = 0

(* A join is the first thing a socket sends, and the only one.             *)
JoinsOnce ==
    \A i \in DOMAIN sockets :
        /\ \A n \in DOMAIN sockets[i].up :
              sockets[i].up[n].type = "join" => n = 1 /\ ~ sockets[i].joined
        /\ sockets[i].late => sockets[i].joined

(* A socket that joined in time is the only one of its device and those    *)
(* after it that the server still has.                                     *)
EarlierAreGone ==
    \A i, j \in DOMAIN sockets :
        /\ j < i /\ sockets[j].owner = sockets[i].owner
        /\ sockets[i].joined /\ ~ sockets[i].late
        => ~ sockets[j].served

(* A connection has a number.                                              *)
ConnsNumbered == \A d, p \in Peers : conn[d][p] # NoConn => conn[d][p].id # 0

(* The server tells a device of others.                                    *)
OthersJoined ==
    \A i \in DOMAIN sockets : \A n \in DOMAIN sockets[i].down :
        sockets[i].down[n].type = "peer-joined" => sockets[i].down[n].peer # sockets[i].owner

OthersPresent ==
    \A i \in DOMAIN sockets : \A n \in DOMAIN sockets[i].down :
        sockets[i].down[n].type = "joined" => sockets[i].owner \notin sockets[i].down[n].existing

(* What the sockets, the seats and the bridges have to do with each other. *)
SocketsTyped ==
    /\ sockets \in Seq(Sockets)
    /\ seat \in [Peers -> 0..Len(sockets)] /\ socket \in [Peers -> 0..Len(sockets)]
    /\ wants \subseteq Peers /\ retry \subseteq wants

SocketInv ==
    /\ SocketsTyped
    /\ SeatsAreServed /\ SocketIsNewest /\ JoinsOnce /\ EarlierAreGone /\ OthersJoined
    /\ EndsSeenInTime => JoinedIsPresent /\ OthersPresent

(* ... and the connections.                                                *)
ConnInv ==
    /\ conn \in [Peers -> [Peers -> Connections]]
    /\ ready \in [Peers -> SUBSET Peers] /\ made \in 0..MaxConns
    /\ ConnsNumbered

RoomInv == SocketInv /\ ConnInv /\ (EndsSeenInTime => NotWithItself)

(* A socket as it was but for its link and what is under way on it, which  *)
(* holds no new join and no new word of somebody who joined; the server    *)
(* may have seen its end.                                                  *)
Fades(x, y) ==
    /\ y.owner = x.owner /\ y.joined = x.joined /\ y.late = x.late
    /\ y.served => x.served
    /\ y.link = "up" => x.link = "up"
    /\ \A n \in DOMAIN y.up : y.up[n].type = "join" =>
          \E k \in DOMAIN x.up : k >= n /\ x.up[k].type = "join"
    /\ \A n \in DOMAIN y.down : y.down[n].type \in {"joined", "peer-joined"} =>
          \E k \in DOMAIN x.down : x.down[k] = y.down[n]

Same(x, y) == Fades(x, y) /\ y.served = x.served

(* All sockets do.                                                         *)
Fade(s, t) ==
    t \in Seq(Sockets) /\ Len(t) = Len(s) /\ \A i \in 1..Len(s) : Fades(s[i], t[i])

Keeps(s, t) ==
    t \in Seq(Sockets) /\ Len(t) = Len(s) /\ \A i \in 1..Len(s) : Same(s[i], t[i])

(* A sequence of sockets, as a function.                                   *)
LEMMA TableIs ==
    ASSUME NEW s \in Seq(Sockets)
    PROVE  Len(s) \in Nat /\ DOMAIN s = 1..Len(s) /\ \A i \in 1..Len(s) : s[i] \in Sockets
<1>1. PICK S : S = Sockets
  OBVIOUS
<1>2. s \in Seq(S)
  BY <1>1
<1>3. Len(s) \in Nat /\ DOMAIN s = 1..Len(s) /\ \A i \in 1..Len(s) : s[i] \in S
  BY <1>2, LenProperties, ElementOfSeq
<1>4. QED
  BY <1>1, <1>3

(* A socket's parts.                                                       *)
LEMMA SocketIs ==
    ASSUME NEW x \in Sockets
    PROVE  /\ x.owner \in Peers /\ x.link \in {"up", "closing", "broken"}
           /\ x.served \in BOOLEAN /\ x.joined \in BOOLEAN /\ x.late \in BOOLEAN
           /\ x.up \in Seq(UpMessages) /\ x.down \in Seq(DownMessages)
<1>1. PICK U : U = Seq(UpMessages)
  OBVIOUS
<1>2. PICK D : D = Seq(DownMessages)
  OBVIOUS
<1>3. x \in [owner : Peers, link : {"up", "closing", "broken"}, served : BOOLEAN, joined : BOOLEAN,
             late : BOOLEAN, up : U, down : D]
  BY <1>1, <1>2 DEF Sockets
<1>4. QED
  BY <1>1, <1>2, <1>3

(* Nothing happened.                                                       *)
LEMMA SameSelf == ASSUME NEW x \in Sockets PROVE Same(x, x)
<1>1. DOMAIN x.up \subseteq Int
  <2>1. PICK U : U = UpMessages
    OBVIOUS
  <2>2. x.up \in Seq(U)
    BY <2>1, SocketIs
  <2>3. QED
    BY <2>2, LenProperties
<1>2. QED
  BY <1>1 DEF Same, Fades

(* No socket changed.                                                      *)
LEMMA KeepsSelf == ASSUME NEW s \in Seq(Sockets) PROVE Keeps(s, s)
  BY TableIs, SameSelf DEF Keeps

(* One socket is changed, no more than that.                               *)
LEMMA EditKeeps ==
    ASSUME NEW s \in Seq(Sockets), NEW i \in 1..Len(s), NEW y \in Sockets, Same(s[i], y)
    PROVE  Keeps(s, [s EXCEPT ![i] = y])
<1>1. Len(s) \in Nat /\ DOMAIN s = 1..Len(s) /\ \A j \in 1..Len(s) : s[j] \in Sockets
  BY TableIs
<1>2. PICK S : S = Sockets
  OBVIOUS
<1>3. PICK t : t = [s EXCEPT ![i] = y]
  OBVIOUS
<1>4. t \in Seq(S) /\ Len(t) = Len(s)
  BY <1>2, <1>3, ExceptSeq
<1>5. \A j \in 1..Len(s) : t[j] = IF j = i THEN y ELSE s[j]
  BY <1>1, <1>3
<1>6. \A j \in 1..Len(s) : Same(s[j], t[j])
  BY <1>1, <1>5, SameSelf
<1>7. QED
  BY <1>2, <1>3, <1>4, <1>6 DEF Keeps

(* Two changes of one socket.                                              *)
LEMMA FadesTwice ==
    ASSUME NEW x \in Sockets, NEW y \in Sockets, NEW z \in Sockets, Fades(x, y), Fades(y, z)
    PROVE  Fades(x, z)
<1>1. DOMAIN x.up \subseteq Int /\ DOMAIN y.up \subseteq Int /\ DOMAIN z.up \subseteq Int
  <2>1. PICK U : U = UpMessages
    OBVIOUS
  <2>2. x.up \in Seq(U) /\ y.up \in Seq(U) /\ z.up \in Seq(U)
    BY <2>1, SocketIs
  <2>3. QED
    BY <2>2, LenProperties
<1>2. \A n \in DOMAIN z.up : z.up[n].type = "join" =>
          \E k \in DOMAIN x.up : k >= n /\ x.up[k].type = "join"
  BY <1>1 DEF Fades
<1>3. \A n \in DOMAIN z.down : z.down[n].type \in {"joined", "peer-joined"} =>
          \E k \in DOMAIN x.down : x.down[k] = z.down[n]
  BY DEF Fades
<1>4. QED
  BY <1>2, <1>3 DEF Fades

(* Two changes in one step.                                                *)
LEMMA KeepsTwice ==
    ASSUME NEW s \in Seq(Sockets), NEW t, NEW u, Keeps(s, t), Keeps(t, u)
    PROVE  Keeps(s, u)
<1>1. Len(s) \in Nat /\ t \in Seq(Sockets) /\ u \in Seq(Sockets) /\ Len(t) = Len(s) /\ Len(u) = Len(s)
  BY TableIs DEF Keeps
<1>2. SUFFICES ASSUME NEW i \in 1..Len(s) PROVE Same(s[i], u[i])
  BY <1>1 DEF Keeps
<1>3. Same(s[i], t[i]) /\ Same(t[i], u[i])
  BY <1>1 DEF Keeps
<1>4. s[i] \in Sockets /\ t[i] \in Sockets /\ u[i] \in Sockets
  BY <1>1, TableIs
<1>5. QED
  BY <1>3, <1>4, FadesTwice DEF Same

(* A socket's record, from its parts.                                      *)
LEMMA SocketMade ==
    ASSUME NEW x \in Sockets, NEW l \in {"up", "closing", "broken"}, NEW sv \in BOOLEAN, NEW jn \in BOOLEAN,
           NEW lt \in BOOLEAN, NEW u \in Seq(UpMessages), NEW w \in Seq(DownMessages)
    PROVE  [owner |-> x.owner, link |-> l, served |-> sv, joined |-> jn, late |-> lt, up |-> u, down |-> w]
             \in Sockets
<1>1. PICK U : U = Seq(UpMessages)
  OBVIOUS
<1>2. PICK D : D = Seq(DownMessages)
  OBVIOUS
<1>3. x.owner \in Peers
  BY SocketIs
<1>4. QED
  BY <1>1, <1>2, <1>3 DEF Sockets

(* A record is its parts.                                                  *)
LEMMA SocketParts ==
    ASSUME NEW x \in Sockets
    PROVE  x = [owner |-> x.owner, link |-> x.link, served |-> x.served, joined |-> x.joined,
                late |-> x.late, up |-> x.up, down |-> x.down]
<1>1. PICK U : U = Seq(UpMessages)
  OBVIOUS
<1>2. PICK D : D = Seq(DownMessages)
  OBVIOUS
<1>3. x \in [owner : Peers, link : {"up", "closing", "broken"}, served : BOOLEAN, joined : BOOLEAN,
             late : BOOLEAN, up : U, down : D]
  BY <1>1, <1>2 DEF Sockets
<1>4. QED
  BY <1>3

(* The client takes a message.                                             *)
LEMMA TailSame ==
    ASSUME NEW x \in Sockets, x.down # <<>>
    PROVE  [x EXCEPT !.down = Tail(@)] \in Sockets /\ Same(x, [x EXCEPT !.down = Tail(@)])
<1>1. PICK D : D = DownMessages
  OBVIOUS
<1>2. PICK w \in Seq(D) : w = x.down
  BY <1>1, SocketIs
<1>3. PICK v \in Seq(D) : v = Tail(w) /\ Len(v) = Len(w) - 1 /\ \A n \in 1..Len(v) : v[n] = w[n + 1]
  BY <1>2, HeadTailProperties, ZenonT(60)
<1>4. DOMAIN v = 1..Len(v) /\ DOMAIN w = 1..Len(w) /\ Len(w) \in Nat /\ Len(v) \in Nat
  BY LenProperties
<1>5. PICK y : y = [x EXCEPT !.down = v]
  OBVIOUS
<1>6. y = [owner |-> x.owner, link |-> x.link, served |-> x.served, joined |-> x.joined,
           late |-> x.late, up |-> x.up, down |-> v]
  BY <1>5, SocketParts
<1>7. y \in Sockets
  BY <1>1, <1>6, SocketIs, SocketMade
<1>8. \A n \in DOMAIN v : \E k \in DOMAIN w : w[k] = v[n]
  BY <1>3, <1>4
<1>9. Same(x, y)
  BY <1>2, <1>6, <1>8, SameSelf DEF Same, Fades
<1>10. QED
  BY <1>2, <1>3, <1>5, <1>7, <1>9

(* The server takes a message.                                             *)
LEMMA ReceivedSame ==
    ASSUME NEW x \in Sockets, x.up # <<>>
    PROVE  [x EXCEPT !.up = Tail(@)] \in Sockets /\ Same(x, [x EXCEPT !.up = Tail(@)])
<1>1. PICK U : U = UpMessages
  OBVIOUS
<1>2. PICK w \in Seq(U) : w = x.up
  BY <1>1, SocketIs
<1>3. PICK v \in Seq(U) : v = Tail(w) /\ Len(v) = Len(w) - 1 /\ \A n \in 1..Len(v) : v[n] = w[n + 1]
  BY <1>2, HeadTailProperties, ZenonT(60)
<1>4. DOMAIN v = 1..Len(v) /\ DOMAIN w = 1..Len(w) /\ Len(w) \in Nat /\ Len(v) \in Nat
  BY LenProperties
<1>5. PICK y : y = [x EXCEPT !.up = v]
  OBVIOUS
<1>6. y = [owner |-> x.owner, link |-> x.link, served |-> x.served, joined |-> x.joined,
           late |-> x.late, up |-> v, down |-> x.down]
  BY <1>5, SocketParts
<1>7. y \in Sockets
  BY <1>1, <1>6, SocketIs, SocketMade
<1>8. \A n \in DOMAIN v : n + 1 \in DOMAIN w /\ n + 1 >= n /\ w[n + 1] = v[n]
  BY <1>3, <1>4
<1>9. Same(x, y)
  BY <1>2, <1>6, <1>8, SameSelf DEF Same, Fades
<1>10. QED
  BY <1>2, <1>3, <1>5, <1>7, <1>9

(* A message to the client, if the socket stands.                          *)
Put(x, m) == [x EXCEPT !.down = IF x.link = "up" THEN Append(@, m) ELSE @]

(* What a message to the client leaves as it was.                          *)
LEMMA PutIs ==
    ASSUME NEW x \in Sockets, NEW m \in DownMessages
    PROVE  LET y == Put(x, m)
           IN  /\ y \in Sockets /\ y.owner = x.owner /\ y.link = x.link /\ y.served = x.served
               /\ y.joined = x.joined /\ y.late = x.late /\ y.up = x.up
               /\ \A n \in DOMAIN y.down : (n \in DOMAIN x.down /\ x.down[n] = y.down[n]) \/ y.down[n] = m
<1>1. PICK D : D = DownMessages
  OBVIOUS
<1>2. PICK w \in Seq(D) : w = x.down
  BY <1>1, SocketIs
<1>3. PICK v \in Seq(D) : v = IF x.link = "up" THEN Append(w, m) ELSE w
  BY <1>1, AppendProperties
<1>4. \A n \in DOMAIN v : (n \in DOMAIN w /\ w[n] = v[n]) \/ v[n] = m
  <2>1. CASE x.link = "up"
    <3>1. DOMAIN v = 1..(Len(w) + 1) /\ DOMAIN w = 1..Len(w) /\ Len(w) \in Nat
      BY <1>1, <1>3, <2>1, AppendProperties, LenProperties
    <3>2. v[Len(w) + 1] = m /\ \A n \in 1..Len(w) : v[n] = w[n]
      BY <1>1, <1>3, <2>1, AppendProperties
    <3>3. QED
      BY <3>1, <3>2
  <2>2. CASE x.link # "up"
    BY <1>3, <2>2
  <2>3. QED
    BY <2>1, <2>2
<1>5. PICK y : y = [x EXCEPT !.down = v]
  OBVIOUS
<1>6. y = [owner |-> x.owner, link |-> x.link, served |-> x.served, joined |-> x.joined,
           late |-> x.late, up |-> x.up, down |-> v]
  BY <1>5, SocketParts
<1>7. y \in Sockets
  BY <1>1, <1>6, SocketIs, SocketMade
<1>8. y = Put(x, m)
  BY <1>2, <1>3, <1>5 DEF Put
<1>9. /\ y.owner = x.owner /\ y.link = x.link /\ y.served = x.served
      /\ y.joined = x.joined /\ y.late = x.late /\ y.up = x.up /\ y.down = v
  BY <1>6
<1>10. QED
  BY <1>2, <1>4, <1>7, <1>8, <1>9

(* It is no word of somebody who joined.                                   *)
LEMMA PutSame ==
    ASSUME NEW x \in Sockets, NEW m \in DownMessages, m.type \notin {"joined", "peer-joined"}
    PROVE  Put(x, m) \in Sockets /\ Same(x, Put(x, m))
<1>1. PICK y \in Sockets :
         /\ y = Put(x, m) /\ y.owner = x.owner /\ y.link = x.link /\ y.served = x.served
         /\ y.joined = x.joined /\ y.late = x.late /\ y.up = x.up
         /\ \A n \in DOMAIN y.down : (n \in DOMAIN x.down /\ x.down[n] = y.down[n]) \/ y.down[n] = m
  BY PutIs
<1>2. Fades(x, x)
  BY SameSelf DEF Same
<1>3. Same(x, y)
  BY <1>1, <1>2 DEF Same, Fades
<1>4. QED
  BY <1>1, <1>3

(* A message to the server, if the socket stands.                          *)
LEMMA SendSame ==
    ASSUME NEW x \in Sockets, NEW m \in UpMessages, m.type # "join"
    PROVE  LET y == [x EXCEPT !.up = IF x.link = "up" THEN Append(@, m) ELSE @]
           IN  y \in Sockets /\ Same(x, y)
<1>1. PICK U : U = UpMessages
  OBVIOUS
<1>2. PICK w \in Seq(U) : w = x.up
  BY <1>1, SocketIs
<1>3. PICK v \in Seq(U) : v = IF x.link = "up" THEN Append(w, m) ELSE w
  BY <1>1, AppendProperties
<1>4. DOMAIN w = 1..Len(w) /\ DOMAIN v = 1..Len(v) /\ Len(v) \in Nat
  BY LenProperties
<1>5. \A n \in DOMAIN v : (n \in DOMAIN w /\ n >= n /\ w[n] = v[n]) \/ v[n] = m
  <2>1. CASE x.link = "up"
    <3>1. DOMAIN v = 1..(Len(w) + 1) /\ DOMAIN w = 1..Len(w) /\ Len(w) \in Nat
      BY <1>1, <1>3, <2>1, AppendProperties, LenProperties
    <3>2. v[Len(w) + 1] = m /\ \A n \in 1..Len(w) : v[n] = w[n]
      BY <1>1, <1>3, <2>1, AppendProperties
    <3>3. QED
      BY <3>1, <3>2
  <2>2. CASE x.link # "up"
    BY <1>3, <1>4, <2>2
  <2>3. QED
    BY <2>1, <2>2
<1>6. PICK y : y = [x EXCEPT !.up = v]
  OBVIOUS
<1>7. y = [owner |-> x.owner, link |-> x.link, served |-> x.served, joined |-> x.joined,
           late |-> x.late, up |-> v, down |-> x.down]
  BY <1>6, SocketParts
<1>8. y \in Sockets
  BY <1>1, <1>7, SocketIs, SocketMade
<1>9. Same(x, y)
  BY <1>2, <1>5, <1>7, SameSelf DEF Same, Fades
<1>10. y = [x EXCEPT !.up = IF x.link = "up" THEN Append(@, m) ELSE @]
  BY <1>2, <1>3, <1>6
<1>11. QED
  BY <1>8, <1>9, <1>10

(* The socket breaks.                                                      *)
LEMMA BrokenSame ==
    ASSUME NEW x \in Sockets
    PROVE  Broken(x) \in Sockets /\ Same(x, Broken(x)) /\ Broken(x).link = "broken"
<1>1. Broken(x) = [owner |-> x.owner, link |-> "broken", served |-> x.served, joined |-> x.joined,
                   late |-> x.late, up |-> <<>>, down |-> <<>>]
  <2>1. PICK a : a = [x EXCEPT !.link = "broken"]
    OBVIOUS
  <2>2. a = [owner |-> x.owner, link |-> "broken", served |-> x.served, joined |-> x.joined,
             late |-> x.late, up |-> x.up, down |-> x.down]
    BY <2>1, SocketParts
  <2>3. PICK b : b = [a EXCEPT !.up = <<>>]
    OBVIOUS
  <2>4. b = [owner |-> x.owner, link |-> "broken", served |-> x.served, joined |-> x.joined,
             late |-> x.late, up |-> <<>>, down |-> x.down]
    BY <2>2, <2>3
  <2>5. PICK c : c = [b EXCEPT !.down = <<>>]
    OBVIOUS
  <2>6. c = [owner |-> x.owner, link |-> "broken", served |-> x.served, joined |-> x.joined,
             late |-> x.late, up |-> <<>>, down |-> <<>>]
    BY <2>4, <2>5
  <2>7. Broken(x) = c
    BY <2>1, <2>3, <2>5 DEF Broken
  <2>8. QED
    BY <2>6, <2>7
<1>2. <<>> \in Seq(UpMessages) /\ <<>> \in Seq(DownMessages)
  BY EmptySeq
<1>3. Broken(x) \in Sockets
  <2>1. PICK l \in {"up", "closing", "broken"} : l = "broken"
    OBVIOUS
  <2>2. /\ x.served \in BOOLEAN /\ x.joined \in BOOLEAN /\ x.late \in BOOLEAN
    BY SocketIs
  <2>3. [owner |-> x.owner, link |-> l, served |-> x.served, joined |-> x.joined, late |-> x.late,
         up |-> <<>>, down |-> <<>>] \in Sockets
    BY <1>2, <2>2, SocketMade, ZenonT(60)
  <2>4. QED
    BY <1>1, <2>1, <2>3
<1>4. QED
  BY <1>1, <1>3 DEF Same, Fades

(* The client hangs up.                                                    *)
LEMMA HungUpSame ==
    ASSUME NEW x \in Sockets
    PROVE  LET y == [x EXCEPT !.link = IF @ = "up" THEN "closing" ELSE @, !.down = <<>>]
           IN  y \in Sockets /\ Same(x, y) /\ y.link # "up"
<1>1. PICK l \in {"up", "closing", "broken"} : l = IF x.link = "up" THEN "closing" ELSE x.link
  BY SocketIs
<1>2. PICK y : y = [x EXCEPT !.link = IF @ = "up" THEN "closing" ELSE @, !.down = <<>>]
  OBVIOUS
<1>3. y = [owner |-> x.owner, link |-> l, served |-> x.served, joined |-> x.joined,
           late |-> x.late, up |-> x.up, down |-> <<>>]
  <2>1. PICK a : a = [x EXCEPT !.link = l]
    OBVIOUS
  <2>2. a = [owner |-> x.owner, link |-> l, served |-> x.served, joined |-> x.joined,
             late |-> x.late, up |-> x.up, down |-> x.down]
    BY <2>1, SocketParts
  <2>3. PICK b : b = [a EXCEPT !.down = <<>>]
    OBVIOUS
  <2>4. b = [owner |-> x.owner, link |-> l, served |-> x.served, joined |-> x.joined,
             late |-> x.late, up |-> x.up, down |-> <<>>]
    BY <2>2, <2>3
  <2>5. y = b
    BY <1>1, <1>2, <2>1, <2>3
  <2>6. QED
    BY <2>4, <2>5
<1>4. <<>> \in Seq(DownMessages)
  BY EmptySeq
<1>5. y \in Sockets
  BY <1>3, <1>4, SocketIs, SocketMade
<1>6. l # "up"
  BY <1>1
<1>7. Same(x, y)
  BY <1>3, <1>6, SameSelf DEF Same, Fades
<1>8. QED
  BY <1>2, <1>3, <1>5, <1>6, <1>7

(* A step that only lets messages, links and ends go on, and at most takes *)
(* sockets away from bridges and seats from closed sockets.                *)
LEMMA FadeInv ==
    ASSUME SocketInv, Fade(sockets, sockets'), seat' \in [Peers -> 0..Len(sockets)],
           \A d \in Peers : seat'[d] # 0 => seat'[d] = seat[d] /\ sockets'[seat[d]].served,
           EndsSeenInTime => \A d \in Peers :
               \/ seat'[d] = seat[d] \/ socket'[d] = 0
               \/ ~ (sockets'[socket'[d]].joined /\ sockets'[socket'[d]].link = "up"),
           socket' \in [Peers -> 0..Len(sockets)], wants' \subseteq Peers, retry' \subseteq wants',
           \A d \in Peers : socket'[d] = socket[d] \/ socket'[d] = 0,
           \A d \in Peers : socket'[d] # 0 => d \in wants',
           \A d \in retry' : socket'[d] = 0
    PROVE  SocketInv' /\ (EndsSeenInTime' <=> EndsSeenInTime)
<1>1. PICK n \in Nat : n = Len(sockets) /\ n = Len(sockets') /\ DOMAIN sockets = 1..n /\ DOMAIN sockets' = 1..n
  BY TableIs DEF SocketInv, SocketsTyped, Fade
<1>2. \A i \in 1..n : Fades(sockets[i], sockets'[i]) /\ sockets[i] \in Sockets /\ sockets'[i] \in Sockets
  BY <1>1, TableIs DEF SocketInv, SocketsTyped, Fade
<1>3. \A i \in 1..n : /\ sockets'[i].owner = sockets[i].owner /\ (sockets'[i].served => sockets[i].served)
                      /\ sockets'[i].joined = sockets[i].joined /\ sockets'[i].late = sockets[i].late
                      /\ (sockets'[i].link = "up" => sockets[i].link = "up")
  BY <1>2 DEF Fades
<1>4. SocketsTyped'
  BY <1>1 DEF SocketInv, SocketsTyped, Fade
<1>5. seat \in [Peers -> 0..n] /\ socket \in [Peers -> 0..n] /\ socket' \in [Peers -> 0..n]
  BY <1>1 DEF SocketInv, SocketsTyped
<1>6. SeatsAreServed'
  <2> SUFFICES ASSUME NEW d \in Peers, seat'[d] # 0
               PROVE  sockets'[seat'[d]].served /\ sockets'[seat'[d]].joined /\ sockets'[seat'[d]].owner = d
    BY DEF SeatsAreServed
  <2>1. seat'[d] = seat[d] /\ seat[d] \in 1..n /\ sockets'[seat[d]].served
    BY <1>5
  <2>2. QED
    BY <1>3, <2>1 DEF SocketInv, SeatsAreServed
<1>7. SocketIsNewest'
  <2> SUFFICES ASSUME NEW d \in Peers
               PROVE  /\ socket'[d] # 0 => d \in wants' /\ sockets'[socket'[d]].owner = d
                      /\ \A j \in 1..n : socket'[d] # 0 /\ sockets'[j].owner = d => j <= socket'[d]
                      /\ d \in retry' => socket'[d] = 0
    BY <1>1 DEF SocketIsNewest
  <2>1. socket'[d] # 0 => socket'[d] = socket[d] /\ socket[d] \in 1..n
    BY <1>5
  <2>2. QED
    BY <1>1, <1>3, <2>1 DEF SocketInv, SocketIsNewest
<1>8. JoinsOnce'
  <2> SUFFICES ASSUME NEW i \in 1..n
               PROVE  /\ \A k \in DOMAIN sockets'[i].up :
                            sockets'[i].up[k].type = "join" => k = 1 /\ ~ sockets'[i].joined
                      /\ sockets'[i].late => sockets'[i].joined
    BY <1>1 DEF JoinsOnce
  <2>1. sockets[i].late => sockets[i].joined
    BY <1>1 DEF SocketInv, JoinsOnce
  <2>2. ASSUME NEW k \in DOMAIN sockets'[i].up, sockets'[i].up[k].type = "join"
        PROVE  k = 1 /\ ~ sockets'[i].joined
    <3>1. PICK m \in DOMAIN sockets[i].up : m >= k /\ sockets[i].up[m].type = "join"
      BY <1>2, <2>2 DEF Fades
    <3>2. m = 1 /\ ~ sockets[i].joined
      BY <1>1, <3>1 DEF SocketInv, JoinsOnce
    <3>3. k \in Nat \ {0}
      <4>1. PICK U : U = UpMessages
        OBVIOUS
      <4>2. PICK q \in Seq(U) : q = sockets'[i].up
        BY <1>2, <4>1, SocketIs
      <4>3. QED
        BY <2>2, <4>2, LenProperties
    <3>4. QED
      BY <1>3, <3>1, <3>2, <3>3
  <2>3. QED
    BY <1>3, <2>1, <2>2
<1>9. EarlierAreGone'
  <2> SUFFICES ASSUME NEW i \in 1..n, NEW j \in 1..n, j < i, sockets'[j].owner = sockets'[i].owner,
                      sockets'[i].joined, ~ sockets'[i].late
               PROVE  ~ sockets'[j].served
    BY <1>1 DEF EarlierAreGone
  <2>1. QED
    BY <1>1, <1>3 DEF SocketInv, EarlierAreGone
<1>10. OthersJoined'
  <2> SUFFICES ASSUME NEW i \in 1..n, NEW k \in DOMAIN sockets'[i].down,
                      sockets'[i].down[k].type = "peer-joined"
               PROVE  sockets'[i].down[k].peer # sockets'[i].owner
    BY <1>1 DEF OthersJoined
  <2>1. PICK m \in DOMAIN sockets[i].down : sockets[i].down[m] = sockets'[i].down[k]
    BY <1>2 DEF Fades
  <2>2. sockets[i].down[m].peer # sockets[i].owner
    BY <1>1, <2>1 DEF SocketInv, OthersJoined
  <2>3. QED
    BY <1>3, <2>1, <2>2
<1>11. EndsSeenInTime' <=> EndsSeenInTime
  BY <1>1, <1>3 DEF EndsSeenInTime
<1>12. ASSUME EndsSeenInTime PROVE JoinedIsPresent'
  <2> SUFFICES ASSUME NEW d \in Peers, socket'[d] # 0, sockets'[socket'[d]].joined,
                      sockets'[socket'[d]].link = "up"
               PROVE  seat'[d] = socket'[d]
    BY DEF JoinedIsPresent
  <2>1. socket'[d] = socket[d] /\ socket[d] \in 1..n
    BY <1>5
  <2>2. sockets[socket[d]].joined /\ sockets[socket[d]].link = "up"
    BY <1>3, <2>1
  <2>3. seat'[d] = seat[d]
    BY <1>12
  <2>4. QED
    BY <1>12, <2>1, <2>2, <2>3 DEF SocketInv, JoinedIsPresent
<1>13. ASSUME EndsSeenInTime PROVE OthersPresent'
  <2> SUFFICES ASSUME NEW i \in 1..n, NEW k \in DOMAIN sockets'[i].down,
                      sockets'[i].down[k].type = "joined"
               PROVE  sockets'[i].owner \notin sockets'[i].down[k].existing
    BY <1>1 DEF OthersPresent
  <2>1. PICK m \in DOMAIN sockets[i].down : sockets[i].down[m] = sockets'[i].down[k]
    BY <1>2 DEF Fades
  <2>2. sockets[i].owner \notin sockets[i].down[m].existing
    BY <1>1, <1>13, <2>1 DEF SocketInv, OthersPresent
  <2>3. QED
    BY <1>3, <2>1, <2>2
<1>14. QED
  BY <1>4, <1>6, <1>7, <1>8, <1>9, <1>10, <1>11, <1>12, <1>13 DEF SocketInv

(* One that leaves the seats alone.                                        *)
LEMMA KeepsInv ==
    ASSUME SocketInv, Keeps(sockets, sockets'), seat' = seat,
           socket' \in [Peers -> 0..Len(sockets)], wants' \subseteq Peers, retry' \subseteq wants',
           \A d \in Peers : socket'[d] = socket[d] \/ socket'[d] = 0,
           \A d \in Peers : socket'[d] # 0 => d \in wants',
           \A d \in retry' : socket'[d] = 0
    PROVE  SocketInv' /\ (EndsSeenInTime' <=> EndsSeenInTime)
<1>1. Fade(sockets, sockets') /\ \A i \in 1..Len(sockets) : sockets'[i].served = sockets[i].served
  BY DEF Keeps, Fade, Same
<1>2. seat' \in [Peers -> 0..Len(sockets)]
  BY DEF SocketInv, SocketsTyped
<1>3. \A d \in Peers : seat'[d] # 0 => seat'[d] = seat[d] /\ sockets'[seat[d]].served
  <2> SUFFICES ASSUME NEW d \in Peers, seat[d] # 0 PROVE sockets'[seat[d]].served
    OBVIOUS
  <2>1. seat[d] \in 1..Len(sockets)
    BY TableIs DEF SocketInv, SocketsTyped
  <2>2. QED
    BY <1>1, <2>1 DEF SocketInv, SeatsAreServed
<1>4. QED
  BY <1>1, <1>2, <1>3, FadeInv

(* disconnect leaves the sockets as they were but for the one it closes.   *)
LEMMA HungUpKeeps ==
    ASSUME SocketsTyped, NEW d \in Peers
    PROVE  Keeps(sockets, HungUp(d))
<1>1. CASE socket[d] = 0
  BY <1>1, KeepsSelf DEF SocketsTyped, HungUp
<1>2. CASE socket[d] # 0
  <2>1. PICK i \in 1..Len(sockets) : i = socket[d]
    BY <1>2, TableIs DEF SocketsTyped
  <2>2. PICK x \in Sockets : x = sockets[i]
    BY TableIs DEF SocketsTyped
  <2>3. PICK y \in Sockets : y = [x EXCEPT !.link = IF @ = "up" THEN "closing" ELSE @, !.down = <<>>] /\ Same(x, y)
    BY HungUpSame
  <2>4. HungUp(d) = [sockets EXCEPT ![i] = y]
    <3>1. PICK a : a = [x EXCEPT !.link = IF @ = "up" THEN "closing" ELSE @]
      OBVIOUS
    <3>2. PICK s : s = [sockets EXCEPT ![i].link = IF @ = "up" THEN "closing" ELSE @]
      OBVIOUS
    <3>3. s = [sockets EXCEPT ![i] = a] /\ i \in DOMAIN sockets
      BY <2>1, <2>2, <3>1, <3>2, TableIs DEF SocketsTyped
    <3>4. HungUp(d) = [s EXCEPT ![i].down = <<>>]
      BY <1>2, <2>1, <3>2 DEF HungUp
    <3>5. y = [a EXCEPT !.down = <<>>]
      BY <2>3, <3>1
    <3>6. [s EXCEPT ![i].down = <<>>] = [s EXCEPT ![i] = y]
      BY <3>3, <3>5
    <3>7. DOMAIN s = DOMAIN sockets
      BY <3>3
    <3>8. [s EXCEPT ![i] = y] = [j \in DOMAIN s |-> IF j = i THEN y ELSE s[j]]
      OBVIOUS
    <3>9. [sockets EXCEPT ![i] = y] = [j \in DOMAIN sockets |-> IF j = i THEN y ELSE sockets[j]]
      OBVIOUS
    <3>10. \A j \in DOMAIN sockets : j # i => s[j] = sockets[j]
      BY <3>3
    <3>11. QED
      BY <3>4, <3>6, <3>7, <3>8, <3>9, <3>10
  <2>5. sockets \in Seq(Sockets) /\ Same(sockets[i], y)
    BY <2>2, <2>3 DEF SocketsTyped
  <2>6. Keeps(sockets, [sockets EXCEPT ![i] = y])
    BY <2>5, EditKeeps
  <2>7. QED
    BY <2>4, <2>6
<1>3. QED
  BY <1>1, <1>2

(* A new socket.                                                           *)
LEMMA OpenedIs ==
    ASSUME NEW t \in Seq(Sockets), NEW d \in Peers
    PROVE  /\ Opened(t, d) \in Seq(Sockets) /\ Len(Opened(t, d)) = Len(t) + 1
           /\ \A i \in 1..Len(t) : Opened(t, d)[i] = t[i]
           /\ Opened(t, d)[Len(t) + 1] =
                [owner |-> d, link |-> "up", served |-> TRUE, joined |-> FALSE, late |-> FALSE,
                 up |-> << [type |-> "join"] >>, down |-> <<>>]
<1>1. PICK S : S = Sockets
  OBVIOUS
<1>2. PICK x : x = [owner |-> d, link |-> "up", served |-> TRUE, joined |-> FALSE, late |-> FALSE,
                    up |-> << [type |-> "join"] >>, down |-> <<>>]
  OBVIOUS
<1>3. x \in S
  <2>1. PICK U : U = UpMessages
    OBVIOUS
  <2>2. PICK m \in U : m = [type |-> "join"]
    BY <2>1 DEF UpMessages
  <2>3. <<m>> \in Seq(U)
    OBVIOUS
  <2>4. PICK u \in Seq(UpMessages) : u = << [type |-> "join"] >>
    BY <2>1, <2>2, <2>3
  <2>5. PICK w \in Seq(DownMessages) : w = <<>>
    BY EmptySeq
  <2>6. PICK UU : UU = Seq(UpMessages)
    OBVIOUS
  <2>7. PICK DD : DD = Seq(DownMessages)
    OBVIOUS
  <2>8. x = [owner |-> d, link |-> "up", served |-> TRUE, joined |-> FALSE, late |-> FALSE, up |-> u, down |-> w]
    BY <1>2, <2>4, <2>5
  <2>9. u \in UU /\ w \in DD
    BY <2>6, <2>7
  <2>10. x \in [owner : Peers, link : {"up", "closing", "broken"}, served : BOOLEAN, joined : BOOLEAN,
                late : BOOLEAN, up : UU, down : DD]
    BY <2>8, <2>9
  <2>11. QED
    BY <1>1, <2>6, <2>7, <2>10 DEF Sockets
<1>4. t \in Seq(S)
  BY <1>1
<1>5. Opened(t, d) = Append(t, x)
  BY <1>2 DEF Opened
<1>6. /\ Append(t, x) \in Seq(S) /\ Len(Append(t, x)) = Len(t) + 1
      /\ \A i \in 1..Len(t) : Append(t, x)[i] = t[i]
      /\ Append(t, x)[Len(t) + 1] = x
  BY <1>3, <1>4, AppendProperties
<1>7. QED
  BY <1>1, <1>2, <1>5, <1>6

(* A device opens a socket after it let go of the one it had.              *)
LEMMA OpenedInv ==
    ASSUME SocketInv, NEW d \in Peers, NEW t, Keeps(sockets, t), sockets' = Opened(t, d), seat' = seat,
           socket' = [socket EXCEPT ![d] = Len(sockets) + 1],
           wants' = wants \cup {d}, retry' = retry \ {d}
    PROVE  SocketInv' /\ (EndsSeenInTime' <=> EndsSeenInTime)
<1>1. PICK n \in Nat : n = Len(sockets) /\ n = Len(t) /\ DOMAIN sockets = 1..n /\ DOMAIN t = 1..n
  BY TableIs DEF SocketInv, SocketsTyped, Keeps
<1>2. /\ sockets' \in Seq(Sockets) /\ Len(sockets') = n + 1 /\ DOMAIN sockets' = 1..(n + 1)
      /\ \A i \in 1..n : sockets'[i] = t[i]
  <2>1. t \in Seq(Sockets)
    BY DEF Keeps
  <2>2. sockets' \in Seq(Sockets) /\ Len(sockets') = n + 1 /\ \A i \in 1..n : sockets'[i] = t[i]
    BY <1>1, <2>1, OpenedIs, ZenonT(60)
  <2>3. DOMAIN sockets' = 1..(n + 1)
    BY <2>2, TableIs
  <2>4. QED
    BY <2>2, <2>3
<1>3. sockets'[n + 1] = [owner |-> d, link |-> "up", served |-> TRUE, joined |-> FALSE, late |-> FALSE,
                         up |-> << [type |-> "join"] >>, down |-> <<>>]
  BY <1>1, OpenedIs DEF Keeps
<1>4. PICK z : z = sockets'[n + 1] /\ z.owner = d /\ z.joined = FALSE /\ z.late = FALSE
               /\ z.up = << [type |-> "join"] >> /\ z.down = <<>>
  BY <1>3
<1>5. \A i \in 1..n : Same(sockets[i], sockets'[i]) /\ sockets[i] \in Sockets /\ sockets'[i] \in Sockets
  BY <1>1, <1>2, TableIs DEF SocketInv, SocketsTyped, Keeps
<1>6. \A i \in 1..n : /\ sockets'[i].owner = sockets[i].owner /\ sockets'[i].served = sockets[i].served
                      /\ sockets'[i].joined = sockets[i].joined /\ sockets'[i].late = sockets[i].late
                      /\ (sockets'[i].link = "up" => sockets[i].link = "up")
  BY <1>5 DEF Same, Fades
<1>7. seat \in [Peers -> 0..n] /\ socket \in [Peers -> 0..n]
  BY <1>1 DEF SocketInv, SocketsTyped
<1>8. socket' \in [Peers -> 0..(n + 1)] /\ socket'[d] = n + 1 /\ \A e \in Peers : e # d => socket'[e] = socket[e]
  BY <1>1, <1>7
<1>9. SocketsTyped'
  <2>1. seat' \in [Peers -> 0..(n + 1)]
    BY <1>7
  <2>2. QED
    BY <1>2, <1>8, <2>1 DEF SocketInv, SocketsTyped
<1>10. SeatsAreServed'
  <2> SUFFICES ASSUME NEW e \in Peers, seat[e] # 0
               PROVE  sockets'[seat[e]].served /\ sockets'[seat[e]].joined /\ sockets'[seat[e]].owner = e
    BY DEF SeatsAreServed
  <2>1. seat[e] \in 1..n
    BY <1>7
  <2>2. QED
    BY <1>6, <2>1 DEF SocketInv, SeatsAreServed
<1>11. SocketIsNewest'
  <2> SUFFICES ASSUME NEW e \in Peers
               PROVE  /\ socket'[e] # 0 => e \in wants' /\ sockets'[socket'[e]].owner = e
                      /\ \A j \in 1..(n + 1) : socket'[e] # 0 /\ sockets'[j].owner = e => j <= socket'[e]
                      /\ e \in retry' => socket'[e] = 0
    BY <1>2 DEF SocketIsNewest
  <2>1. CASE e = d
    BY <1>4, <1>8, <2>1
  <2>2. CASE e # d
    <3>1. socket'[e] = socket[e] /\ socket[e] \in 0..n
      BY <1>7, <1>8, <2>2
    <3>2. /\ socket[e] # 0 => e \in wants /\ sockets[socket[e]].owner = e
          /\ \A j \in 1..n : socket[e] # 0 /\ sockets[j].owner = e => j <= socket[e]
          /\ e \in retry => socket[e] = 0
      BY <1>1 DEF SocketInv, SocketIsNewest
    <3>3. QED
      BY <1>4, <1>6, <2>2, <3>1, <3>2
  <2>3. QED
    BY <2>1, <2>2
<1>12. JoinsOnce'
  <2> SUFFICES ASSUME NEW i \in 1..(n + 1)
               PROVE  /\ \A k \in DOMAIN sockets'[i].up :
                            sockets'[i].up[k].type = "join" => k = 1 /\ ~ sockets'[i].joined
                      /\ sockets'[i].late => sockets'[i].joined
    BY <1>2 DEF JoinsOnce
  <2>1. CASE i = n + 1
    <3>1. DOMAIN z.up = 1..1
      BY <1>4
    <3>2. QED
      BY <1>4, <2>1, <3>1
  <2>2. CASE i \in 1..n
    <3>1. sockets[i].late => sockets[i].joined
      BY <1>1, <2>2 DEF SocketInv, JoinsOnce
    <3>2. ASSUME NEW k \in DOMAIN sockets'[i].up, sockets'[i].up[k].type = "join"
          PROVE  k = 1 /\ ~ sockets'[i].joined
      <4>1. PICK m \in DOMAIN sockets[i].up : m >= k /\ sockets[i].up[m].type = "join"
        BY <1>5, <2>2, <3>2 DEF Same, Fades
      <4>2. m = 1 /\ ~ sockets[i].joined
        BY <1>1, <2>2, <4>1 DEF SocketInv, JoinsOnce
      <4>3. k \in Nat \ {0}
        <5>1. PICK U : U = UpMessages
          OBVIOUS
        <5>2. PICK q \in Seq(U) : q = sockets'[i].up
          BY <1>5, <2>2, <5>1, SocketIs
        <5>3. QED
          BY <3>2, <5>2, LenProperties
      <4>4. QED
        BY <1>6, <2>2, <4>1, <4>2, <4>3
    <3>3. QED
      BY <1>6, <2>2, <3>1, <3>2
  <2>3. QED
    BY <2>1, <2>2
<1>13. EarlierAreGone'
  <2> SUFFICES ASSUME NEW i \in 1..(n + 1), NEW j \in 1..(n + 1), j < i,
                      sockets'[j].owner = sockets'[i].owner, sockets'[i].joined, ~ sockets'[i].late
               PROVE  ~ sockets'[j].served
    BY <1>2 DEF EarlierAreGone
  <2>1. i \in 1..n /\ j \in 1..n
    BY <1>4
  <2>2. QED
    BY <1>1, <1>6, <2>1 DEF SocketInv, EarlierAreGone
<1>14. OthersJoined'
  <2> SUFFICES ASSUME NEW i \in 1..(n + 1), NEW k \in DOMAIN sockets'[i].down,
                      sockets'[i].down[k].type = "peer-joined"
               PROVE  sockets'[i].down[k].peer # sockets'[i].owner
    BY <1>2 DEF OthersJoined
  <2>1. i \in 1..n
    BY <1>4
  <2>2. PICK m \in DOMAIN sockets[i].down : sockets[i].down[m] = sockets'[i].down[k]
    BY <1>5, <2>1 DEF Same, Fades
  <2>3. sockets[i].down[m].peer # sockets[i].owner
    BY <1>1, <2>1, <2>2 DEF SocketInv, OthersJoined
  <2>4. QED
    BY <1>6, <2>1, <2>2, <2>3
<1>15. EndsSeenInTime' <=> EndsSeenInTime
  <2>1. \A i \in 1..(n + 1) : i \in 1..n \/ i = n + 1
    OBVIOUS
  <2>2. QED
    BY <1>1, <1>2, <1>4, <1>6, <2>1 DEF EndsSeenInTime
<1>16. ASSUME EndsSeenInTime PROVE JoinedIsPresent'
  <2> SUFFICES ASSUME NEW e \in Peers, socket'[e] # 0, sockets'[socket'[e]].joined,
                      sockets'[socket'[e]].link = "up"
               PROVE  seat[e] = socket'[e]
    BY DEF JoinedIsPresent
  <2>1. e # d /\ socket'[e] = socket[e] /\ socket[e] \in 1..n
    BY <1>4, <1>7, <1>8
  <2>2. sockets[socket[e]].joined /\ sockets[socket[e]].link = "up"
    BY <1>6, <2>1
  <2>3. QED
    BY <1>16, <2>1, <2>2 DEF SocketInv, JoinedIsPresent
<1>17. ASSUME EndsSeenInTime PROVE OthersPresent'
  <2> SUFFICES ASSUME NEW i \in 1..(n + 1), NEW k \in DOMAIN sockets'[i].down,
                      sockets'[i].down[k].type = "joined"
               PROVE  sockets'[i].owner \notin sockets'[i].down[k].existing
    BY <1>2 DEF OthersPresent
  <2>1. i \in 1..n
    BY <1>4
  <2>2. PICK m \in DOMAIN sockets[i].down : sockets[i].down[m] = sockets'[i].down[k]
    BY <1>5, <2>1 DEF Same, Fades
  <2>3. sockets[i].owner \notin sockets[i].down[m].existing
    BY <1>1, <1>17, <2>1, <2>2 DEF SocketInv, OthersPresent
  <2>4. QED
    BY <1>6, <2>1, <2>2, <2>3
<1>18. QED
  BY <1>9, <1>10, <1>11, <1>12, <1>13, <1>14, <1>15, <1>16, <1>17 DEF SocketInv

-----------------------------------------------------------------------------
(* A device takes the next message of its socket.                          *)
LEMMA TakenKeeps ==
    ASSUME SocketsTyped, NEW d \in Peers, NEW type, HasMessage(d, type)
    PROVE  /\ Keeps(sockets, Taken(d))
           /\ Message(d) \in DownMessages /\ Message(d).type = type
           /\ socket[d] \in 1..Len(sockets) /\ 1 \in DOMAIN sockets[socket[d]].down
           /\ Message(d) = sockets[socket[d]].down[1]
<1>1. PICK i \in 1..Len(sockets) : i = socket[d]
  BY TableIs DEF SocketsTyped, HasMessage
<1>2. PICK x \in Sockets : x = sockets[i] /\ x.down # <<>>
  BY <1>1, TableIs DEF SocketsTyped, HasMessage
<1>3. PICK y \in Sockets : y = [x EXCEPT !.down = Tail(@)] /\ Same(x, y)
  BY <1>2, TailSame
<1>4. Taken(d) = [sockets EXCEPT ![i] = y]
  BY <1>1, <1>2, <1>3 DEF Taken
<1>5. Keeps(sockets, Taken(d))
  <2>1. sockets \in Seq(Sockets) /\ Same(sockets[i], y)
    BY <1>2, <1>3 DEF SocketsTyped
  <2>2. Keeps(sockets, [sockets EXCEPT ![i] = y])
    BY <2>1, EditKeeps
  <2>3. QED
    BY <1>4, <2>2
<1>6. Message(d) \in DownMessages /\ Message(d) = x.down[1] /\ 1 \in DOMAIN x.down
  <2>1. PICK D : D = DownMessages
    OBVIOUS
  <2>2. PICK w \in Seq(D) : w = x.down /\ w # <<>>
    BY <1>2, <2>1, SocketIs
  <2>3. Head(w) \in D /\ Head(w) = w[1] /\ 1 \in DOMAIN w
    BY <2>2, HeadTailProperties, LenProperties, EmptySeq
  <2>4. QED
    BY <1>1, <1>2, <2>1, <2>2, <2>3 DEF Message
<1>7. QED
  BY <1>1, <1>2, <1>5, <1>6 DEF HasMessage, Message

(* What the messages to a device hold.                                     *)
LEMMA DownMessageIs ==
    ASSUME NEW m \in DownMessages
    PROVE  /\ m.type = "joined" => m.existing \in SUBSET Peers
           /\ m.type \in {"peer-joined", "peer-left"} => m.peer \in Peers
           /\ m.type \in {"offer", "answer"} => m.from \in Peers /\ m.id \in 1..MaxConns
<1>1. CASE m \in [type : {"error"}]
  BY <1>1
<1>2. CASE m \in [type : {"joined"}, existing : SUBSET Peers]
  BY <1>2
<1>3. CASE m \in [type : {"peer-joined", "peer-left"}, peer : Peers]
  BY <1>3
<1>4. CASE m \in [type : {"offer", "answer"}, from : Peers, id : 1..MaxConns]
  BY <1>4
<1>5. QED
  BY <1>1, <1>2, <1>3, <1>4 DEF DownMessages

(* ... and those to the server.                                            *)
LEMMA UpMessageIs ==
    ASSUME NEW m \in UpMessages
    PROVE  m.type \in {"offer", "answer"} => m.target \in Peers /\ m.id \in 1..MaxConns
<1>1. CASE m \in [type : {"join"}]
  BY <1>1
<1>2. CASE m \in [type : {"offer", "answer"}, target : Peers, id : 1..MaxConns]
  BY <1>2
<1>3. QED
  BY <1>1, <1>2 DEF UpMessages

(* A signal over the socket of the moment.                                 *)
LEMMA SignalledKeeps ==
    ASSUME SocketsTyped, NEW d \in Peers, NEW s, Keeps(sockets, s),
           NEW m \in UpMessages, m.type # "join"
    PROVE  Keeps(sockets, Signalled(s, d, m))
<1>1. s \in Seq(Sockets) /\ Len(s) = Len(sockets) /\ Len(s) \in Nat /\ DOMAIN s = 1..Len(s)
  BY TableIs DEF Keeps
<1>2. CASE socket[d] = 0
  BY <1>2 DEF Signalled
<1>3. CASE socket[d] # 0
  <2>1. PICK i \in 1..Len(s) : i = socket[d]
    BY <1>1, <1>3 DEF SocketsTyped
  <2>2. PICK x \in Sockets : x = s[i]
    BY <1>1, TableIs
  <2>3. PICK y \in Sockets : y = [x EXCEPT !.up = IF x.link = "up" THEN Append(@, m) ELSE @] /\ Same(x, y)
    BY SendSame
  <2>4. Signalled(s, d, m) = [s EXCEPT ![i] = y]
    BY <1>3, <2>1, <2>2, <2>3 DEF Signalled
  <2>5. Same(s[i], y)
    BY <2>2, <2>3
  <2>6. Keeps(s, [s EXCEPT ![i] = y])
    BY <1>1, <2>5, EditKeeps
  <2>7. Keeps(s, Signalled(s, d, m))
    BY <2>4, <2>6
  <2>8. QED
    BY <2>7, KeepsTwice DEF SocketsTyped
<1>4. QED
  BY <1>2, <1>3

(* A step of a device at its socket: what is under way goes on.            *)
LEMMA DeviceKeepsInv ==
    ASSUME SocketInv, Keeps(sockets, sockets'), UNCHANGED <<seat, bridge>>
    PROVE  SocketInv' /\ (EndsSeenInTime' <=> EndsSeenInTime)
<1>1. seat' = seat /\ socket' = socket /\ wants' = wants /\ retry' = retry
  BY DEF bridge
<1>2. \A d \in retry : socket[d] = 0
  BY DEF SocketInv, SocketsTyped, SocketIsNewest
<1>3. socket \in [Peers -> 0..Len(sockets)] /\ wants \subseteq Peers /\ retry \subseteq wants
  BY DEF SocketInv, SocketsTyped
<1>4. \A d \in Peers : socket[d] # 0 => d \in wants
  BY DEF SocketInv, SocketIsNewest
<1>5. QED
  BY <1>1, <1>2, <1>3, <1>4, KeepsInv

-----------------------------------------------------------------------------
(* The connections.                                                        *)

(* A connection's parts.                                                   *)
LEMMA ConnIs ==
    ASSUME ConnInv, NEW d \in Peers, NEW p \in Peers
    PROVE  /\ conn[d][p] \in Connections
           /\ conn[d][p].id \in 0..MaxConns /\ conn[d][p].with \in 0..MaxConns
           /\ conn[d][p].offers \in BOOLEAN /\ conn[d][p].sent \in BOOLEAN
           /\ conn[d][p] # NoConn => conn[d][p].id \in 1..MaxConns
<1>1. conn[d][p] \in Connections
  BY DEF ConnInv
<1>2. MaxConns \in Nat
  BY RendezvousAssumption
<1>3. conn[d][p] # NoConn => conn[d][p].id # 0
  BY DEF ConnInv, ConnsNumbered
<1>4. QED
  BY <1>1, <1>2, <1>3 DEF Connections

(* One connection is replaced by another with a number, or forgotten.      *)
LEMMA ConnEdit ==
    ASSUME ConnInv, NEW d \in Peers, NEW p \in Peers, NEW c \in Connections, c # NoConn => c.id # 0,
           conn' = [conn EXCEPT ![d][p] = c], ready' \in [Peers -> SUBSET Peers], made' = made
    PROVE  ConnInv' /\ (NotWithItself /\ (d = p => c = NoConn) => NotWithItself')
<1>1. \A e, q \in Peers : conn'[e][q] = IF e = d /\ q = p THEN c ELSE conn[e][q]
  BY DEF ConnInv
<1>2. conn' \in [Peers -> [Peers -> Connections]]
  BY DEF ConnInv
<1>3. ConnsNumbered'
  BY <1>1 DEF ConnInv, ConnsNumbered
<1>4. QED
  BY <1>1, <1>2, <1>3 DEF ConnInv, NotWithItself

(* A connection forgotten.                                                 *)
LEMMA ForgetsInv ==
    ASSUME ConnInv, NEW d \in Peers, NEW p \in Peers, Forgets(d, p)
    PROVE  ConnInv' /\ (NotWithItself => NotWithItself')
<1>1. PICK c \in Connections : c = NoConn
  <2>1. 0 \in 0..MaxConns
    BY RendezvousAssumption
  <2>2. NoConn \in Connections
    BY <2>1 DEF Connections, NoConn
  <2>3. QED
    BY <2>2
<1>2. conn' = [conn EXCEPT ![d][p] = c] /\ made' = made
  BY <1>1 DEF Forgets
<1>3. ready' \in [Peers -> SUBSET Peers]
  BY DEF Forgets, ConnInv
<1>4. QED
  BY <1>1, <1>2, <1>3, ConnEdit

(* Nothing happened to the connections.                                    *)
LEMMA RtcInv ==
    ASSUME ConnInv, UNCHANGED rtc
    PROVE  ConnInv' /\ (NotWithItself => NotWithItself')
  BY DEF ConnInv, rtc, ConnsNumbered, NotWithItself

(* SetToSeq lists a finite set.                                            *)
LEMMA SetListed ==
    ASSUME NEW S, IsFiniteSet(S)
    PROVE  /\ SetToSeq(S) \in [1..Cardinality(S) -> S] /\ Cardinality(S) \in Nat
           /\ Len(SetToSeq(S)) = Cardinality(S)
<1>1. PICK n \in Nat : n = Cardinality(S)
  BY FS_CardinalityType
<1>2. \E f \in [1..n -> S] : IsInjective(f)
  <2>1. ExistsBijection(1..n, S)
    BY <1>1, FS_CardinalityType
  <2>2. QED
    BY <2>1 DEF ExistsBijection, Bijection, Injection
<1>3. PICK f : f = SetToSeq(S)
  OBVIOUS
<1>4. f \in [1..n -> S]
  BY <1>1, <1>2, <1>3 DEF SetToSeq
<1>5. Len(f) = n
  BY <1>4
<1>6. QED
  BY <1>1, <1>3, <1>4, <1>5

(* openConnection: only peers that had no connection get one.              *)
LEMMA OpensInv ==
    ASSUME ConnInv, NEW d \in Peers, NEW peers \in SUBSET Peers, NEW offers \in BOOLEAN,
           Opens(d, peers, offers)
    PROVE  ConnInv' /\ (NotWithItself /\ d \notin peers => NotWithItself')
<1>1. PICK S : S = {p \in peers : conn[d][p] = NoConn}
  OBVIOUS
<1>2. IsFiniteSet(S) /\ S \subseteq peers
  BY <1>1, FS_Subset, RendezvousAssumption
<1>3. PICK n \in Nat : n = Cardinality(S)
  BY <1>2, SetListed
<1>4. PICK new \in [1..n -> S] : new = SetToSeq(S) /\ Len(new) = n
  BY <1>2, <1>3, SetListed
<1>5. /\ made + n <= MaxConns /\ made' = made + n /\ ready' = ready
      /\ conn' = [conn EXCEPT ![d] = [p \in Peers |->
               IF \E i \in DOMAIN new : new[i] = p
               THEN NewConn(made + (CHOOSE i \in DOMAIN new : new[i] = p), offers) ELSE @[p]]]
  BY <1>1, <1>4 DEF Opens
<1>6. PICK row : row = [p \in Peers |->
               IF \E i \in DOMAIN new : new[i] = p
               THEN NewConn(made + (CHOOSE i \in DOMAIN new : new[i] = p), offers) ELSE conn[d][p]]
  OBVIOUS
<1>7. conn' = [conn EXCEPT ![d] = row]
  BY <1>5, <1>6 DEF ConnInv
<1>8. MaxConns \in Nat /\ made \in 0..MaxConns
  BY RendezvousAssumption DEF ConnInv
<1>9. ASSUME NEW p \in Peers
      PROVE  /\ row[p] \in Connections /\ (row[p] # NoConn => row[p].id # 0)
             /\ p \notin peers => row[p] = conn[d][p]
  <2>1. CASE \E i \in DOMAIN new : new[i] = p
    <3>1. PICK i \in 1..n : i = CHOOSE k \in DOMAIN new : new[k] = p
      BY <2>1
    <3>2. row[p] = NewConn(made + i, offers)
      BY <1>6, <2>1, <3>1
    <3>3. made + i \in 1..MaxConns
      BY <1>5, <1>8
    <3>4. p \in peers
      BY <1>2, <2>1
    <3>5. NewConn(made + i, offers) \in Connections /\ NewConn(made + i, offers).id = made + i
      BY <1>8, <3>3 DEF NewConn, Connections
    <3>6. QED
      BY <3>2, <3>3, <3>4, <3>5
  <2>2. CASE ~ \E i \in DOMAIN new : new[i] = p
    <3>1. row[p] = conn[d][p]
      BY <1>6, <2>2
    <3>2. QED
      BY <3>1, ConnIs
  <2>3. QED
    BY <2>1, <2>2
<1>10. row \in [Peers -> Connections]
  BY <1>6, <1>9
<1>11. conn' \in [Peers -> [Peers -> Connections]]
  BY <1>7, <1>10 DEF ConnInv
<1>12. \A e, q \in Peers : conn'[e][q] = IF e = d THEN row[q] ELSE conn[e][q]
  BY <1>7 DEF ConnInv
<1>13. ConnsNumbered'
  BY <1>9, <1>12 DEF ConnInv, ConnsNumbered
<1>14. made' \in 0..MaxConns
  BY <1>5, <1>8
<1>15. ASSUME NotWithItself, d \notin peers PROVE NotWithItself'
  BY <1>9, <1>12, <1>15 DEF NotWithItself
<1>16. QED
  BY <1>5, <1>11, <1>13, <1>14, <1>15 DEF ConnInv

-----------------------------------------------------------------------------
(* The steps of a device.                                                  *)

(* A device goes to a room: its old socket is closing, and no connection   *)
(* is left over.                                                           *)
LEMMA ConnectInv == ASSUME RoomInv, NEW d \in Peers, Connect(d) PROVE RoomInv'
<1>1. SocketInv /\ ConnInv
  BY DEF RoomInv
<1>2. Keeps(sockets, HungUp(d))
  BY <1>1, HungUpKeeps DEF SocketInv
<1>3. SocketInv' /\ (EndsSeenInTime' <=> EndsSeenInTime)
  BY <1>1, <1>2, OpenedInv DEF Connect
<1>4. conn' = [conn EXCEPT ![d] = [p \in Peers |-> NoConn]] /\ ready' = [ready EXCEPT ![d] = {}] /\ made' = made
  BY DEF Connect
<1>5. NoConn \in Connections
  <2>1. 0 \in 0..MaxConns
    BY RendezvousAssumption
  <2>2. QED
    BY <2>1 DEF Connections, NoConn
<1>6. \A e, q \in Peers : conn'[e][q] = IF e = d THEN NoConn ELSE conn[e][q]
  BY <1>1, <1>4 DEF ConnInv
<1>7. conn' \in [Peers -> [Peers -> Connections]]
  BY <1>1, <1>4, <1>5 DEF ConnInv
<1>8. ConnInv' /\ (NotWithItself => NotWithItself')
  BY <1>1, <1>4, <1>6, <1>7 DEF ConnInv, ConnsNumbered, NotWithItself
<1>9. QED
  BY <1>3, <1>8 DEF RoomInv

(* It hangs up, and holds no socket.                                       *)
LEMMA DisconnectInv == ASSUME RoomInv, NEW d \in Peers, Disconnect(d) PROVE RoomInv'
<1>1. SocketInv /\ ConnInv
  BY DEF RoomInv
<1>2. Keeps(sockets, HungUp(d)) /\ sockets' = HungUp(d)
  BY <1>1, HungUpKeeps DEF SocketInv, Disconnect
<1>3. /\ seat' = seat /\ socket' = [socket EXCEPT ![d] = 0] /\ wants' = wants \ {d} /\ retry' = retry \ {d}
  BY DEF Disconnect
<1>4. SocketInv' /\ (EndsSeenInTime' <=> EndsSeenInTime)
  <2>1. socket' \in [Peers -> 0..Len(sockets)] /\ wants' \subseteq Peers /\ retry' \subseteq wants'
    BY <1>1, <1>3, TableIs DEF SocketInv, SocketsTyped
  <2>2. \A e \in Peers : socket'[e] = socket[e] \/ socket'[e] = 0
    BY <1>1, <1>3 DEF SocketInv, SocketsTyped
  <2>3. \A e \in retry' : socket'[e] = 0
    BY <1>1, <1>3 DEF SocketInv, SocketsTyped, SocketIsNewest
  <2>4. \A e \in Peers : socket'[e] # 0 => e \in wants'
    BY <1>1, <1>3 DEF SocketInv, SocketsTyped, SocketIsNewest
  <2>5. QED
    BY <1>1, <1>2, <1>3, <2>1, <2>2, <2>3, <2>4, KeepsInv
<1>5. conn' = [conn EXCEPT ![d] = [p \in Peers |-> NoConn]] /\ ready' = [ready EXCEPT ![d] = {}] /\ made' = made
  BY DEF Disconnect
<1>6. NoConn \in Connections
  <2>1. 0 \in 0..MaxConns
    BY RendezvousAssumption
  <2>2. QED
    BY <2>1 DEF Connections, NoConn
<1>7. \A e, q \in Peers : conn'[e][q] = IF e = d THEN NoConn ELSE conn[e][q]
  BY <1>1, <1>5 DEF ConnInv
<1>8. conn' \in [Peers -> [Peers -> Connections]]
  BY <1>1, <1>5, <1>6 DEF ConnInv
<1>9. ConnInv' /\ (NotWithItself => NotWithItself')
  BY <1>1, <1>5, <1>7, <1>8 DEF ConnInv, ConnsNumbered, NotWithItself
<1>10. QED
  BY <1>4, <1>9 DEF RoomInv

(* It finds its socket broken.                                             *)
LEMMA ClientNoticesInv == ASSUME RoomInv, NEW d \in Peers, ClientNotices(d) PROVE RoomInv'
<1>1. SocketInv /\ ConnInv
  BY DEF RoomInv
<1>2. /\ seat' = seat /\ socket' = [socket EXCEPT ![d] = 0] /\ wants' = wants /\ retry' = retry \cup {d}
      /\ sockets' = sockets /\ UNCHANGED rtc
  BY DEF ClientNotices
<1>3. SocketInv' /\ (EndsSeenInTime' <=> EndsSeenInTime)
  <2>1. d \in wants
    BY <1>1 DEF ClientNotices, SocketInv, SocketIsNewest
  <2>2. Keeps(sockets, sockets')
    BY <1>1, <1>2, KeepsSelf DEF SocketInv, SocketsTyped
  <2>3. socket' \in [Peers -> 0..Len(sockets)] /\ wants' \subseteq Peers /\ retry' \subseteq wants'
    BY <1>1, <1>2, <2>1, TableIs DEF SocketInv, SocketsTyped
  <2>4. \A e \in Peers : socket'[e] = socket[e] \/ socket'[e] = 0
    BY <1>1, <1>2 DEF SocketInv, SocketsTyped
  <2>5. \A e \in retry' : socket'[e] = 0
    BY <1>1, <1>2 DEF SocketInv, SocketsTyped, SocketIsNewest
  <2>6. \A e \in Peers : socket'[e] # 0 => e \in wants'
    BY <1>1, <1>2 DEF SocketInv, SocketsTyped, SocketIsNewest
  <2>7. QED
    BY <1>1, <1>2, <2>2, <2>3, <2>4, <2>5, <2>6, KeepsInv
<1>4. QED
  BY <1>1, <1>2, <1>3, RtcInv DEF RoomInv

(* It opens another one, the newest.                                       *)
LEMMA RetryInv == ASSUME RoomInv, NEW d \in Peers, Retry(d) PROVE RoomInv'
<1>1. SocketInv /\ ConnInv
  BY DEF RoomInv
<1>2. Keeps(sockets, sockets)
  BY <1>1, KeepsSelf DEF SocketInv, SocketsTyped
<1>3. /\ sockets' = Opened(sockets, d) /\ seat' = seat /\ UNCHANGED rtc
      /\ socket' = [socket EXCEPT ![d] = Len(sockets) + 1]
      /\ wants' = wants \cup {d} /\ retry' = retry \ {d}
  BY <1>1 DEF Retry, SocketInv, SocketsTyped
<1>4. SocketInv' /\ (EndsSeenInTime' <=> EndsSeenInTime)
  BY <1>1, <1>2, <1>3, OpenedInv
<1>5. QED
  BY <1>1, <1>3, <1>4, RtcInv DEF RoomInv

(* It is told who is in the room: others, if ends are seen in time, so it  *)
(* makes no connection with itself.                                        *)
LEMMA OnJoinedInv == ASSUME RoomInv, NEW d \in Peers, OnJoined(d) PROVE RoomInv'
<1>1. SocketInv /\ ConnInv /\ SocketsTyped
  BY DEF RoomInv, SocketInv
<1>2. HasMessage(d, "joined") /\ Opens(d, Message(d).existing, TRUE) /\ sockets' = Taken(d)
      /\ UNCHANGED <<seat, bridge>>
  BY DEF OnJoined
<1>3. SocketInv' /\ (EndsSeenInTime' <=> EndsSeenInTime)
  BY <1>1, <1>2, TakenKeeps, DeviceKeepsInv
<1>4. Message(d).existing \in SUBSET Peers
  BY <1>1, <1>2, TakenKeeps, DownMessageIs
<1>5. ConnInv' /\ (NotWithItself /\ d \notin Message(d).existing => NotWithItself')
  BY <1>1, <1>2, <1>4, OpensInv
<1>6. ASSUME EndsSeenInTime PROVE d \notin Message(d).existing
  <2>1. PICK i \in 1..Len(sockets) : i = socket[d] /\ 1 \in DOMAIN sockets[i].down
                                    /\ sockets[i].down[1] = Message(d) /\ Message(d).type = "joined"
    BY <1>1, <1>2, TakenKeeps
  <2>2. i \in DOMAIN sockets /\ sockets[i].owner = d
    BY <1>1, <1>2, <2>1, TableIs DEF SocketsTyped, SocketInv, SocketIsNewest, HasMessage
  <2>3. OthersPresent
    BY <1>1, <1>6 DEF SocketInv
  <2>4. QED
    BY <2>1, <2>2, <2>3 DEF OthersPresent
<1>7. QED
  BY <1>3, <1>5, <1>6 DEF RoomInv

(* It is told of a newcomer, which is another device.                      *)
LEMMA OnPeerJoinedInv == ASSUME RoomInv, NEW d \in Peers, OnPeerJoined(d) PROVE RoomInv'
<1>1. SocketInv /\ ConnInv /\ SocketsTyped
  BY DEF RoomInv, SocketInv
<1>2. HasMessage(d, "peer-joined") /\ Opens(d, {Message(d).peer}, FALSE) /\ sockets' = Taken(d)
      /\ UNCHANGED <<seat, bridge>>
  BY DEF OnPeerJoined
<1>3. SocketInv' /\ (EndsSeenInTime' <=> EndsSeenInTime)
  BY <1>1, <1>2, TakenKeeps, DeviceKeepsInv
<1>4. {Message(d).peer} \in SUBSET Peers
  BY <1>1, <1>2, TakenKeeps, DownMessageIs
<1>5. ConnInv' /\ (NotWithItself /\ d \notin {Message(d).peer} => NotWithItself')
  BY <1>1, <1>2, <1>4, OpensInv
<1>6. d # Message(d).peer
  <2>1. PICK i \in 1..Len(sockets) : i = socket[d] /\ 1 \in DOMAIN sockets[i].down
                                    /\ sockets[i].down[1] = Message(d) /\ Message(d).type = "peer-joined"
    BY <1>1, <1>2, TakenKeeps
  <2>2. i \in DOMAIN sockets /\ sockets[i].owner = d
    BY <1>1, <1>2, <2>1, TableIs DEF SocketsTyped, SocketInv, SocketIsNewest, HasMessage
  <2>3. QED
    BY <1>1, <2>1, <2>2 DEF SocketInv, OthersJoined
<1>7. QED
  BY <1>3, <1>5, <1>6 DEF RoomInv

(* It is told that somebody left.                                          *)
LEMMA OnPeerLeftInv == ASSUME RoomInv, NEW d \in Peers, OnPeerLeft(d) PROVE RoomInv'
<1>1. SocketInv /\ ConnInv /\ SocketsTyped
  BY DEF RoomInv, SocketInv
<1>2. HasMessage(d, "peer-left") /\ sockets' = Taken(d) /\ UNCHANGED <<seat, bridge>>
  BY DEF OnPeerLeft
<1>3. SocketInv' /\ (EndsSeenInTime' <=> EndsSeenInTime)
  BY <1>1, <1>2, TakenKeeps, DeviceKeepsInv
<1>4. Message(d).peer \in Peers
  BY <1>1, <1>2, TakenKeeps, DownMessageIs
<1>5. UNCHANGED rtc \/ Forgets(d, Message(d).peer)
  BY DEF OnPeerLeft
<1>6. ConnInv' /\ (NotWithItself => NotWithItself')
  BY <1>1, <1>4, <1>5, RtcInv, ForgetsInv
<1>7. QED
  BY <1>3, <1>6 DEF RoomInv

(* It is told that a signal went nowhere.                                  *)
LEMMA OnErrorInv == ASSUME RoomInv, NEW d \in Peers, OnError(d) PROVE RoomInv'
<1>1. SocketInv /\ ConnInv /\ SocketsTyped
  BY DEF RoomInv, SocketInv
<1>2. HasMessage(d, "error") /\ sockets' = Taken(d) /\ UNCHANGED <<seat, bridge, rtc>>
  BY DEF OnError
<1>3. SocketInv' /\ (EndsSeenInTime' <=> EndsSeenInTime)
  BY <1>1, <1>2, TakenKeeps, DeviceKeepsInv
<1>4. QED
  BY <1>1, <1>2, <1>3, RtcInv DEF RoomInv

(* A signal for a peer.                                                    *)
LEMMA SignalIs ==
    ASSUME NEW type \in {"offer", "answer"}, NEW p \in Peers, NEW id \in 1..MaxConns
    PROVE  /\ [type |-> type, target |-> p, id |-> id] \in UpMessages
           /\ [type |-> type, target |-> p, id |-> id].type # "join"
  BY DEF UpMessages

(* A connection's record, changed in part.                                 *)
LEMMA ConnChanged ==
    ASSUME NEW c \in Connections, NEW k \in 0..MaxConns
    PROVE  /\ [c EXCEPT !.sent = TRUE] \in Connections /\ [c EXCEPT !.sent = TRUE].id = c.id
           /\ [c EXCEPT !.with = k] \in Connections /\ [c EXCEPT !.with = k].id = c.id
           /\ [c EXCEPT !.offers = FALSE, !.sent = FALSE, !.with = k] \in Connections
           /\ [c EXCEPT !.offers = FALSE, !.sent = FALSE, !.with = k].id = c.id
<1>1. PICK N : N = 0..MaxConns
  OBVIOUS
<1>2. c \in [id : N, offers : BOOLEAN, sent : BOOLEAN, with : N] /\ k \in N
  BY <1>1 DEF Connections
<1>3. /\ [c EXCEPT !.sent = TRUE] \in [id : N, offers : BOOLEAN, sent : BOOLEAN, with : N]
      /\ [c EXCEPT !.sent = TRUE].id = c.id
  BY <1>2
<1>4. /\ [c EXCEPT !.with = k] \in [id : N, offers : BOOLEAN, sent : BOOLEAN, with : N]
      /\ [c EXCEPT !.with = k].id = c.id
  BY <1>2
<1>5. PICK a : a = [c EXCEPT !.offers = FALSE] /\ a \in [id : N, offers : BOOLEAN, sent : BOOLEAN, with : N] /\ a.id = c.id
  <2>1. [c EXCEPT !.offers = FALSE] \in [id : N, offers : BOOLEAN, sent : BOOLEAN, with : N]
    BY <1>2
  <2>2. [c EXCEPT !.offers = FALSE].id = c.id
    BY <1>2
  <2>3. QED
    BY <2>1, <2>2
<1>6. PICK b : b = [a EXCEPT !.sent = FALSE] /\ b \in [id : N, offers : BOOLEAN, sent : BOOLEAN, with : N] /\ b.id = a.id
  <2>1. [a EXCEPT !.sent = FALSE] \in [id : N, offers : BOOLEAN, sent : BOOLEAN, with : N]
    BY <1>5
  <2>2. [a EXCEPT !.sent = FALSE].id = a.id
    BY <1>5
  <2>3. QED
    BY <2>1, <2>2
<1>7. PICK e : e = [b EXCEPT !.with = k] /\ e \in [id : N, offers : BOOLEAN, sent : BOOLEAN, with : N] /\ e.id = b.id
  <2>1. [b EXCEPT !.with = k] \in [id : N, offers : BOOLEAN, sent : BOOLEAN, with : N]
    BY <1>2, <1>6
  <2>2. [b EXCEPT !.with = k].id = b.id
    BY <1>2, <1>6
  <2>3. QED
    BY <2>1, <2>2
<1>8. e = [c EXCEPT !.offers = FALSE, !.sent = FALSE, !.with = k]
  BY <1>5, <1>6, <1>7
<1>9. QED
  BY <1>1, <1>3, <1>4, <1>5, <1>6, <1>7, <1>8 DEF Connections

(* It sends an offer, which is no join.                                    *)
LEMMA SendOfferInv ==
    ASSUME RoomInv, NEW d \in Peers, NEW p \in Peers, SendOffer(d, p)
    PROVE  RoomInv'
<1>1. SocketInv /\ ConnInv /\ SocketsTyped
  BY DEF RoomInv, SocketInv
<1>2. PICK c \in Connections : c = conn[d][p]
  BY <1>1, ConnIs
<1>3. /\ c # NoConn /\ conn' = [conn EXCEPT ![d][p].sent = TRUE] /\ ready' = ready /\ made' = made
      /\ sockets' = Signalled(sockets, d, [type |-> "offer", target |-> p, id |-> c.id])
      /\ UNCHANGED <<seat, bridge>>
  BY <1>2 DEF SendOffer
<1>4. PICK id \in 1..MaxConns : id = c.id
  BY <1>1, <1>2, <1>3, ConnIs
<1>5. Keeps(sockets, sockets')
  <2>1. PICK m \in UpMessages : m = [type |-> "offer", target |-> p, id |-> id] /\ m.type # "join"
    BY SignalIs
  <2>2. sockets' = Signalled(sockets, d, m)
    BY <1>3, <1>4, <2>1
  <2>3. Keeps(sockets, sockets)
    BY <1>1, KeepsSelf DEF SocketsTyped
  <2>4. QED
    BY <1>1, <2>1, <2>2, <2>3, SignalledKeeps
<1>6. SocketInv' /\ (EndsSeenInTime' <=> EndsSeenInTime)
  BY <1>1, <1>3, <1>5, DeviceKeepsInv
<1>7. ConnInv' /\ (NotWithItself => NotWithItself')
  <2>1. PICK e \in Connections : e = [c EXCEPT !.sent = TRUE] /\ e.id = c.id
    <3>1. PICK k \in 0..MaxConns : k = c.with
      BY <1>1, <1>2, ConnIs
    <3>2. QED
      BY ConnChanged
  <2>2. conn' = [conn EXCEPT ![d][p] = e]
    BY <1>1, <1>2, <1>3, <2>1 DEF ConnInv
  <2>3. e.id # 0 /\ ready' \in [Peers -> SUBSET Peers]
    BY <1>1, <1>3, <1>4, <2>1 DEF ConnInv
  <2>4. ConnInv' /\ (NotWithItself /\ (d = p => e = NoConn) => NotWithItself')
    BY <1>1, <1>3, <2>2, <2>3, ConnEdit
  <2>5. NotWithItself => d # p
    BY <1>2, <1>3 DEF NotWithItself
  <2>6. QED
    BY <2>4, <2>5
<1>8. QED
  BY <1>6, <1>7 DEF RoomInv

(* What becomes of the connection an offer or an answer is about.          *)
LEMMA DescribedInv ==
    ASSUME ConnInv, NEW d \in Peers, NEW p \in Peers, NEW c \in Connections, c.id = conn[d][p].id,
           conn[d][p] # NoConn, conn' = [conn EXCEPT ![d][p] = c], ready' = ready, made' = made
    PROVE  ConnInv' /\ (NotWithItself => NotWithItself')
<1>1. c.id # 0 /\ ready' \in [Peers -> SUBSET Peers]
  BY ConnIs DEF ConnInv
<1>2. ConnInv' /\ (NotWithItself /\ (d = p => c = NoConn) => NotWithItself')
  BY <1>1, ConnEdit
<1>3. NotWithItself => d # p
  BY DEF NotWithItself
<1>4. QED
  BY <1>2, <1>3

(* It answers an offer, or the description is refused.                     *)
LEMMA OnOfferInv == ASSUME RoomInv, NEW d \in Peers, OnOffer(d) PROVE RoomInv'
<1>1. SocketInv /\ ConnInv /\ SocketsTyped
  BY DEF RoomInv, SocketInv
<1>2. HasMessage(d, "offer") /\ UNCHANGED <<seat, bridge>> /\ ready' = ready /\ made' = made
  BY DEF OnOffer
<1>3. PICK m \in DownMessages : m = Message(d) /\ m.type = "offer"
  BY <1>1, <1>2, TakenKeeps
<1>4. PICK p \in Peers : p = m.from
  BY <1>3, DownMessageIs
<1>5. PICK c \in Connections : c = conn[d][p]
  BY <1>1, ConnIs
<1>6. Keeps(sockets, Taken(d))
  BY <1>1, <1>2, TakenKeeps
<1>7. CASE c # NoConn /\ ~ c.offers /\ c.with = 0
  <2>1. /\ conn' = [conn EXCEPT ![d][p].with = m.id]
        /\ sockets' = Signalled(Taken(d), d, [type |-> "answer", target |-> p, id |-> c.id])
    BY <1>3, <1>4, <1>5, <1>7 DEF OnOffer
  <2>2. PICK id \in 1..MaxConns : id = c.id
    BY <1>1, <1>5, <1>7, ConnIs
  <2>3. Keeps(sockets, sockets')
    <3>1. PICK s \in UpMessages : s = [type |-> "answer", target |-> p, id |-> id] /\ s.type # "join"
      BY SignalIs
    <3>2. sockets' = Signalled(Taken(d), d, s)
      BY <2>1, <2>2, <3>1
    <3>3. QED
      BY <1>1, <1>6, <3>1, <3>2, SignalledKeeps
  <2>4. SocketInv' /\ (EndsSeenInTime' <=> EndsSeenInTime)
    BY <1>1, <1>2, <2>3, DeviceKeepsInv
  <2>5. ConnInv' /\ (NotWithItself => NotWithItself')
    <3>1. PICK k \in 0..MaxConns : k = m.id
      BY <1>3, DownMessageIs, RendezvousAssumption
    <3>2. PICK e \in Connections : e = [c EXCEPT !.with = k] /\ e.id = c.id
      BY ConnChanged
    <3>3. conn' = [conn EXCEPT ![d][p] = e]
      BY <1>1, <1>5, <2>1, <3>1, <3>2 DEF ConnInv
    <3>4. QED
      BY <1>1, <1>2, <1>5, <1>7, <3>2, <3>3, DescribedInv
  <2>6. QED
    BY <2>4, <2>5 DEF RoomInv
<1>8. CASE ~ (c # NoConn /\ ~ c.offers /\ c.with = 0)
  <2>1. sockets' = Taken(d) /\ UNCHANGED rtc
    BY <1>2, <1>3, <1>4, <1>5, <1>8 DEF OnOffer, rtc
  <2>2. SocketInv' /\ (EndsSeenInTime' <=> EndsSeenInTime)
    BY <1>1, <1>2, <1>6, <2>1, DeviceKeepsInv
  <2>3. QED
    BY <1>1, <2>1, <2>2, RtcInv DEF RoomInv
<1>9. QED
  BY <1>7, <1>8

(* It takes its own offer back and answers.                                *)
LEMMA RollBackInv == ASSUME RoomInv, NEW d \in Peers, RollBack(d) PROVE RoomInv'
<1>1. SocketInv /\ ConnInv /\ SocketsTyped
  BY DEF RoomInv, SocketInv
<1>2. HasMessage(d, "offer") /\ UNCHANGED <<seat, bridge>> /\ ready' = ready /\ made' = made
  BY DEF RollBack
<1>3. PICK m \in DownMessages : m = Message(d) /\ m.type = "offer"
  BY <1>1, <1>2, TakenKeeps
<1>4. PICK p \in Peers : p = m.from
  BY <1>3, DownMessageIs
<1>5. PICK c \in Connections : c = conn[d][p]
  BY <1>1, ConnIs
<1>6. /\ c.offers
      /\ conn' = [conn EXCEPT ![d][p] = [c EXCEPT !.offers = FALSE, !.sent = FALSE, !.with = m.id]]
      /\ sockets' = Signalled(Taken(d), d, [type |-> "answer", target |-> p, id |-> c.id])
  BY <1>3, <1>4, <1>5 DEF RollBack
<1>7. conn[d][p] # NoConn
  BY <1>5, <1>6 DEF NoConn
<1>8. PICK id \in 1..MaxConns : id = c.id
  BY <1>1, <1>5, <1>7, ConnIs
<1>9. Keeps(sockets, sockets')
  <2>1. PICK s \in UpMessages : s = [type |-> "answer", target |-> p, id |-> id] /\ s.type # "join"
    BY SignalIs
  <2>2. sockets' = Signalled(Taken(d), d, s)
    BY <1>6, <1>8, <2>1
  <2>3. Keeps(sockets, Taken(d))
    BY <1>1, <1>2, TakenKeeps
  <2>4. QED
    BY <1>1, <2>1, <2>2, <2>3, SignalledKeeps
<1>10. SocketInv' /\ (EndsSeenInTime' <=> EndsSeenInTime)
  BY <1>1, <1>2, <1>9, DeviceKeepsInv
<1>11. ConnInv' /\ (NotWithItself => NotWithItself')
  <2>1. PICK k \in 0..MaxConns : k = m.id
    BY <1>3, DownMessageIs, RendezvousAssumption
  <2>2. PICK e \in Connections : e = [c EXCEPT !.offers = FALSE, !.sent = FALSE, !.with = k] /\ e.id = c.id
    BY ConnChanged
  <2>3. conn' = [conn EXCEPT ![d][p] = e]
    BY <1>6, <2>1, <2>2
  <2>4. QED
    BY <1>1, <1>2, <1>5, <1>7, <2>2, <2>3, DescribedInv
<1>12. QED
  BY <1>10, <1>11 DEF RoomInv

(* It applies an answer.                                                   *)
LEMMA OnAnswerInv == ASSUME RoomInv, NEW d \in Peers, OnAnswer(d) PROVE RoomInv'
<1>1. SocketInv /\ ConnInv /\ SocketsTyped
  BY DEF RoomInv, SocketInv
<1>2. /\ HasMessage(d, "answer") /\ UNCHANGED <<seat, bridge>> /\ ready' = ready /\ made' = made
      /\ sockets' = Taken(d)
  BY DEF OnAnswer
<1>3. PICK m \in DownMessages : m = Message(d) /\ m.type = "answer"
  BY <1>1, <1>2, TakenKeeps
<1>4. PICK p \in Peers : p = m.from
  BY <1>3, DownMessageIs
<1>5. PICK c \in Connections : c = conn[d][p]
  BY <1>1, ConnIs
<1>6. SocketInv' /\ (EndsSeenInTime' <=> EndsSeenInTime)
  BY <1>1, <1>2, TakenKeeps, DeviceKeepsInv
<1>7. CASE c # NoConn /\ c.sent /\ c.with = 0
  <2>1. conn' = [conn EXCEPT ![d][p].with = m.id]
    BY <1>3, <1>4, <1>5, <1>7 DEF OnAnswer
  <2>2. PICK k \in 0..MaxConns : k = m.id
    BY <1>3, DownMessageIs, RendezvousAssumption
  <2>3. PICK e \in Connections : e = [c EXCEPT !.with = k] /\ e.id = c.id
    BY ConnChanged
  <2>4. conn' = [conn EXCEPT ![d][p] = e]
    BY <1>1, <1>5, <2>1, <2>2, <2>3 DEF ConnInv
  <2>5. ConnInv' /\ (NotWithItself => NotWithItself')
    BY <1>1, <1>2, <1>5, <1>7, <2>3, <2>4, DescribedInv
  <2>6. QED
    BY <1>6, <2>5 DEF RoomInv
<1>8. CASE ~ (c # NoConn /\ c.sent /\ c.with = 0)
  <2>1. UNCHANGED rtc
    BY <1>2, <1>3, <1>4, <1>5, <1>8 DEF OnAnswer, rtc
  <2>2. QED
    BY <1>1, <1>6, <2>1, RtcInv DEF RoomInv
<1>9. QED
  BY <1>7, <1>8

(* Channels open and close without the server.                             *)
LEMMA ChannelsInv ==
    ASSUME RoomInv, NEW d \in Peers, NEW p \in Peers,
           ChannelsOpen(d, p) \/ ChannelsClose(d, p) \/ ConnectionFails(d, p)
    PROVE  RoomInv'
<1>1. SocketInv /\ ConnInv
  BY DEF RoomInv
<1>2. sockets' = sockets /\ UNCHANGED <<seat, bridge>>
  BY DEF ChannelsOpen, ChannelsClose, ConnectionFails
<1>3. SocketInv' /\ (EndsSeenInTime' <=> EndsSeenInTime)
  BY <1>1, <1>2, KeepsSelf, DeviceKeepsInv DEF SocketInv, SocketsTyped
<1>4. ConnInv' /\ (NotWithItself => NotWithItself')
  <2>1. CASE ChannelsOpen(d, p)
    BY <1>1, <2>1 DEF ChannelsOpen, ConnInv, ConnsNumbered, NotWithItself
  <2>2. CASE ChannelsClose(d, p) \/ ConnectionFails(d, p)
    BY <1>1, <2>2, ForgetsInv DEF ChannelsClose, ConnectionFails
  <2>3. QED
    BY <2>1, <2>2
<1>5. QED
  BY <1>3, <1>4 DEF RoomInv

(* Every step of a bridge.                                                 *)
LEMMA DeviceStepInv == ASSUME RoomInv, NEW d \in Peers, DeviceStep(d) PROVE RoomInv'
  BY ClientNoticesInv, RetryInv, OnJoinedInv, OnPeerJoinedInv, OnPeerLeftInv, OnErrorInv, OnOfferInv,
     RollBackInv, OnAnswerInv, SendOfferInv, ChannelsInv DEF DeviceStep

(* A WebSocket breaks.                                                     *)
LEMMA DropInv == ASSUME RoomInv, NEW i \in DOMAIN sockets, Drop(i) PROVE RoomInv'
<1>1. SocketInv /\ ConnInv /\ SocketsTyped
  BY DEF RoomInv, SocketInv
<1>2. i \in 1..Len(sockets) /\ sockets[i] \in Sockets /\ sockets \in Seq(Sockets)
  BY <1>1, TableIs DEF SocketsTyped
<1>3. PICK y \in Sockets : y = Broken(sockets[i]) /\ Same(sockets[i], y)
  BY <1>2, BrokenSame
<1>4. sockets' = [sockets EXCEPT ![i] = y] /\ UNCHANGED <<seat, bridge, rtc>>
  BY <1>3 DEF Drop
<1>5. Keeps(sockets, sockets')
  BY <1>2, <1>3, <1>4, EditKeeps
<1>6. SocketInv' /\ (EndsSeenInTime' <=> EndsSeenInTime)
  BY <1>1, <1>4, <1>5, DeviceKeepsInv
<1>7. QED
  BY <1>1, <1>4, <1>6, RtcInv DEF RoomInv

-----------------------------------------------------------------------------
(* The steps of the server.                                                *)

(* A message over a socket that is as it was.                              *)
LEMMA PutKeeps ==
    ASSUME SocketsTyped, NEW s, Keeps(sockets, s), NEW j \in 1..Len(sockets),
           s[j].link = sockets[j].link,
           NEW m \in DownMessages, m.type \notin {"joined", "peer-joined"}
    PROVE  Keeps(sockets, [s EXCEPT ![j].down = IF sockets[j].link = "up" THEN Append(@, m) ELSE @])
<1>1. s \in Seq(Sockets) /\ Len(s) = Len(sockets) /\ j \in DOMAIN s /\ s[j] \in Sockets
  BY TableIs DEF Keeps
<1>2. PICK x \in Sockets : x = s[j]
  BY <1>1
<1>3. PICK y \in Sockets : y = Put(x, m) /\ Same(x, y)
  BY PutSame
<1>4. [s EXCEPT ![j].down = IF sockets[j].link = "up" THEN Append(@, m) ELSE @] = [s EXCEPT ![j] = y]
  BY <1>2, <1>3 DEF Put
<1>5. Same(s[j], y)
  BY <1>2, <1>3
<1>6. Keeps(s, [s EXCEPT ![j] = y])
  BY <1>1, <1>5, EditKeeps
<1>7. Keeps(s, [s EXCEPT ![j].down = IF sockets[j].link = "up" THEN Append(@, m) ELSE @])
  BY <1>4, <1>6
<1>8. QED
  BY <1>7, KeepsTwice DEF SocketsTyped

(* The server takes the next message of a socket.                          *)
LEMMA ReceivedKeeps ==
    ASSUME SocketsTyped, NEW i \in 1..Len(sockets), NEW type, CanServe(i, type)
    PROVE  /\ Keeps(sockets, Received(i))
           /\ Received(i) = [sockets EXCEPT ![i] = [sockets[i] EXCEPT !.up = Tail(@)]]
           /\ \A j \in 1..Len(sockets) : Received(i)[j].link = sockets[j].link
           /\ Head(sockets[i].up) \in UpMessages /\ Head(sockets[i].up).type = type
           /\ 1 \in DOMAIN sockets[i].up /\ sockets[i].up[1].type = type
<1>1. PICK x \in Sockets : x = sockets[i] /\ x.up # <<>>
  BY TableIs DEF SocketsTyped, CanServe
<1>2. PICK y \in Sockets : y = [x EXCEPT !.up = Tail(@)] /\ Same(x, y)
  BY <1>1, ReceivedSame
<1>3. Received(i) = [sockets EXCEPT ![i] = y]
  BY <1>1, <1>2 DEF Received
<1>4. Keeps(sockets, Received(i))
  <2>1. sockets \in Seq(Sockets) /\ Same(sockets[i], y)
    BY <1>1, <1>2 DEF SocketsTyped
  <2>2. Keeps(sockets, [sockets EXCEPT ![i] = y])
    BY <2>1, EditKeeps
  <2>3. QED
    BY <1>3, <2>2
<1>5. y.link = x.link
  BY <1>2
<1>6. \A j \in 1..Len(sockets) : Received(i)[j].link = sockets[j].link
  <2>1. DOMAIN sockets = 1..Len(sockets)
    BY TableIs DEF SocketsTyped
  <2>2. QED
    BY <1>1, <1>3, <1>5, <2>1
<1>7. Head(x.up) \in UpMessages /\ Head(x.up) = x.up[1] /\ 1 \in DOMAIN x.up
  <2>1. PICK U : U = UpMessages
    OBVIOUS
  <2>2. PICK w \in Seq(U) : w = x.up /\ w # <<>>
    BY <1>1, <2>1, SocketIs
  <2>3. Head(w) \in U /\ Head(w) = w[1] /\ 1 \in DOMAIN w
    BY <2>2, HeadTailProperties, LenProperties, EmptySeq
  <2>4. QED
    BY <2>1, <2>2, <2>3
<1>8. Received(i) = [sockets EXCEPT ![i] = [sockets[i] EXCEPT !.up = Tail(@)]]
  BY <1>1, <1>2, <1>3
<1>9. QED
  BY <1>1, <1>4, <1>6, <1>7, <1>8 DEF CanServe

(* The server passes an offer or an answer on, or says that it cannot.     *)
LEMMA ServeSignalInv == ASSUME RoomInv, NEW i \in DOMAIN sockets, ServeSignal(i) PROVE RoomInv'
<1>1. SocketInv /\ ConnInv /\ SocketsTyped /\ i \in 1..Len(sockets)
  BY TableIs DEF RoomInv, SocketInv, SocketsTyped
<1>2. PICK type \in {"offer", "answer"} :
         LET m == Head(sockets[i].up)
             to == IF seat[m.target] # 0 THEN seat[m.target] ELSE i
             out == IF seat[m.target] # 0
                    THEN [type |-> type, from |-> sockets[i].owner, id |-> m.id]
                    ELSE [type |-> "error"]
         IN  /\ CanServe(i, type)
             /\ sockets' = [Received(i) EXCEPT ![to].down =
                    IF sockets[to].link = "up" THEN Append(@, out) ELSE @]
             /\ UNCHANGED <<seat, bridge, rtc>>
  BY DEF ServeSignal
<1>3. PICK m \in UpMessages : m = Head(sockets[i].up) /\ m.type = type
  BY <1>1, <1>2, ReceivedKeeps
<1>4. m.target \in Peers /\ m.id \in 1..MaxConns
  BY <1>3, UpMessageIs
<1>5. PICK to \in 1..Len(sockets) : to = IF seat[m.target] # 0 THEN seat[m.target] ELSE i
  BY <1>1, <1>4, TableIs DEF SocketsTyped
<1>6. PICK out \in DownMessages :
         /\ out = (IF seat[m.target] # 0
                   THEN [type |-> type, from |-> sockets[i].owner, id |-> m.id]
                   ELSE [type |-> "error"])
         /\ out.type \notin {"joined", "peer-joined"}
  <2>1. PICK d \in Peers : d = sockets[i].owner
    BY <1>1, TableIs, SocketIs DEF SocketsTyped
  <2>2. PICK id \in 1..MaxConns : id = m.id
    BY <1>4
  <2>3. [type |-> type, from |-> d, id |-> id] \in DownMessages
    BY DEF DownMessages
  <2>4. [type |-> "error"] \in DownMessages
    BY DEF DownMessages
  <2>5. QED
    BY <2>1, <2>2, <2>3, <2>4
<1>7. sockets' = [Received(i) EXCEPT ![to].down = IF sockets[to].link = "up" THEN Append(@, out) ELSE @]
  BY <1>2, <1>3, <1>5, <1>6
<1>8. Keeps(sockets, sockets')
  <2>1. Keeps(sockets, Received(i)) /\ Received(i)[to].link = sockets[to].link
    BY <1>1, <1>2, ReceivedKeeps
  <2>2. QED
    BY <1>1, <1>6, <1>7, <2>1, PutKeeps
<1>9. SocketInv' /\ (EndsSeenInTime' <=> EndsSeenInTime)
  BY <1>1, <1>2, <1>8, DeviceKeepsInv
<1>10. QED
  BY <1>1, <1>2, <1>9, RtcInv DEF RoomInv

(* A message to some of the devices in the room.                           *)
LEMMA ToldIs ==
    ASSUME NEW s \in Seq(Sockets), NEW peers, NEW m \in DownMessages
    PROVE  /\ Told(s, peers, m) \in Seq(Sockets) /\ Len(Told(s, peers, m)) = Len(s)
           /\ \A j \in 1..Len(s) : (\E p \in peers : seat[p] = j) =>
                 Told(s, peers, m)[j] = Put(s[j], m)
           /\ \A j \in 1..Len(s) : (\A p \in peers : seat[p] # j) => Told(s, peers, m)[j] = s[j]
<1>1. PICK n \in Nat : n = Len(s) /\ DOMAIN s = 1..n /\ \A j \in 1..n : s[j] \in Sockets
  BY TableIs
<1>2. PICK t : t = Told(s, peers, m)
  OBVIOUS
<1>3. t = [j \in 1..n |-> IF \E p \in peers : seat[p] = j
                          THEN Put(s[j], m) ELSE s[j]]
  BY <1>1, <1>2 DEF Told, Put
<1>4. \A j \in 1..n : t[j] \in Sockets
  BY <1>1, <1>3, PutIs
<1>5. PICK S : S = Sockets
  OBVIOUS
<1>6. t \in [1..n -> S]
  BY <1>3, <1>4, <1>5
<1>7. t \in Seq(S) /\ Len(t) = n
  BY <1>6
<1>8. \A j \in 1..n : (\E p \in peers : seat[p] = j) =>
         t[j] = Put(s[j], m)
  BY <1>3
<1>9. \A j \in 1..n : (\A p \in peers : seat[p] # j) => t[j] = s[j]
  BY <1>3
<1>10. QED
  BY <1>1, <1>2, <1>5, <1>7, <1>8, <1>9

(* ... that says nothing of somebody who joined.                           *)
LEMMA ToldKeeps ==
    ASSUME NEW s \in Seq(Sockets), NEW peers, NEW m \in DownMessages,
           m.type \notin {"joined", "peer-joined"}
    PROVE  Keeps(s, Told(s, peers, m))
<1>1. PICK t : t = Told(s, peers, m)
  OBVIOUS
<1>2. /\ t \in Seq(Sockets) /\ Len(t) = Len(s)
      /\ \A j \in 1..Len(s) : (\E p \in peers : seat[p] = j) =>
            t[j] = Put(s[j], m)
      /\ \A j \in 1..Len(s) : (\A p \in peers : seat[p] # j) => t[j] = s[j]
  <2>1. Told(s, peers, m) \in Seq(Sockets) /\ Len(Told(s, peers, m)) = Len(s)
    BY ToldIs
  <2>2. ASSUME NEW j \in 1..Len(s), NEW p \in peers, seat[p] = j
        PROVE  Told(s, peers, m)[j] = Put(s[j], m)
    BY <2>2, ToldIs
  <2>3. ASSUME NEW j \in 1..Len(s), \A p \in peers : seat[p] # j
        PROVE  Told(s, peers, m)[j] = s[j]
    BY <2>3, ToldIs
  <2>4. QED
    BY <1>1, <2>1, <2>2, <2>3
<1>3. \A j \in 1..Len(s) : s[j] \in Sockets
  BY TableIs
<1>4. ASSUME NEW j \in 1..Len(s) PROVE Same(s[j], t[j])
  <2>1. PICK x \in Sockets : x = s[j]
    BY <1>3
  <2>2. CASE \E p \in peers : seat[p] = j
    <3>1. t[j] = Put(x, m)
      BY <1>2, <2>1, <2>2
    <3>2. QED
      BY <2>1, <3>1, PutSame
  <2>3. CASE ~ \E p \in peers : seat[p] = j
    <3>1. t[j] = x
      BY <1>2, <2>1, <2>3
    <3>2. QED
      BY <2>1, <3>1, SameSelf
  <2>4. QED
    BY <2>2, <2>3
<1>5. QED
  BY <1>1, <1>2, <1>4 DEF Keeps

(* A socket the server has done with.                                      *)
LEMMA EndedFades ==
    ASSUME NEW x \in Sockets
    PROVE  LET y == [x EXCEPT !.served = FALSE, !.up = <<>>, !.down = <<>>]
           IN  y \in Sockets /\ Fades(x, y) /\ y.served = FALSE /\ y.link = x.link
<1>1. PICK no \in BOOLEAN : no = FALSE
  OBVIOUS
<1>2. PICK y : y = [owner |-> x.owner, link |-> x.link, served |-> no, joined |-> x.joined,
                    late |-> x.late, up |-> <<>>, down |-> <<>>]
  OBVIOUS
<1>3. y = [x EXCEPT !.served = FALSE, !.up = <<>>, !.down = <<>>]
  <2>1. PICK a : a = [x EXCEPT !.served = no]
    OBVIOUS
  <2>2. a = [owner |-> x.owner, link |-> x.link, served |-> no, joined |-> x.joined,
             late |-> x.late, up |-> x.up, down |-> x.down]
    BY <2>1, SocketParts
  <2>3. PICK b : b = [a EXCEPT !.up = <<>>]
    OBVIOUS
  <2>4. b = [owner |-> x.owner, link |-> x.link, served |-> no, joined |-> x.joined,
             late |-> x.late, up |-> <<>>, down |-> x.down]
    BY <2>2, <2>3
  <2>5. PICK c : c = [b EXCEPT !.down = <<>>]
    OBVIOUS
  <2>6. c = y
    BY <1>2, <2>4, <2>5
  <2>7. QED
    BY <1>1, <2>1, <2>3, <2>5, <2>6
<1>4. y \in Sockets
  <2>1. <<>> \in Seq(UpMessages) /\ <<>> \in Seq(DownMessages)
    BY EmptySeq
  <2>2. x.link \in {"up", "closing", "broken"} /\ x.joined \in BOOLEAN /\ x.late \in BOOLEAN
    BY SocketIs
  <2>3. QED
    BY <1>2, <2>1, <2>2, SocketMade, ZenonT(60)
<1>5. Fades(x, y) /\ y.served = FALSE /\ y.link = x.link
  BY <1>1, <1>2 DEF Fades
<1>6. QED
  BY <1>3, <1>4, <1>5

(* The server restarts: it has done with every socket.                     *)
LEMMA ServerRestartInv == ASSUME RoomInv, ServerRestart PROVE RoomInv'
<1>1. SocketInv /\ ConnInv /\ SocketsTyped
  BY DEF RoomInv, SocketInv
<1>2. PICK n \in Nat : n = Len(sockets) /\ DOMAIN sockets = 1..n /\ \A i \in 1..n : sockets[i] \in Sockets
  BY <1>1, TableIs DEF SocketsTyped
<1>3. sockets' = [i \in 1..n |-> [Broken(sockets[i]) EXCEPT !.served = FALSE]]
      /\ seat' = [d \in Peers |-> 0] /\ UNCHANGED <<bridge, rtc>>
  BY <1>2 DEF ServerRestart
<1>4. ASSUME NEW i \in 1..n
      PROVE  sockets'[i] \in Sockets /\ Fades(sockets[i], sockets'[i]) /\ sockets'[i].link # "up"
  <2>1. PICK x \in Sockets : x = sockets[i]
    BY <1>2
  <2>2. PICK y \in Sockets : y = Broken(x) /\ Same(x, y) /\ y.link = "broken"
    BY BrokenSame
  <2>0. PICK no \in BOOLEAN : no = FALSE
    OBVIOUS
  <2>3. PICK z : z = [y EXCEPT !.served = no]
    OBVIOUS
  <2>4. z = [owner |-> y.owner, link |-> y.link, served |-> no, joined |-> y.joined,
             late |-> y.late, up |-> y.up, down |-> y.down]
    BY <2>3, SocketParts
  <2>5. z \in Sockets
    <3>1. /\ y.link \in {"up", "closing", "broken"} /\ y.joined \in BOOLEAN /\ y.late \in BOOLEAN
          /\ y.up \in Seq(UpMessages) /\ y.down \in Seq(DownMessages)
      BY SocketIs
    <3>2. QED
      BY <2>4, <3>1, SocketMade
  <2>6. Fades(y, z) /\ z.link = "broken"
    <3>1. Fades(y, y)
      BY SameSelf DEF Same
    <3>2. /\ z.owner = y.owner /\ z.link = y.link /\ z.served = FALSE /\ z.joined = y.joined
          /\ z.late = y.late /\ z.up = y.up /\ z.down = y.down
      BY <2>0, <2>4
    <3>3. QED
      BY <2>2, <3>1, <3>2 DEF Fades
  <2>7. sockets'[i] = z
    BY <1>3, <2>0, <2>1, <2>2, <2>3
  <2>8. Fades(x, z)
    BY <2>2, <2>5, <2>6, FadesTwice DEF Same
  <2>9. QED
    BY <2>1, <2>5, <2>6, <2>7, <2>8
<1>5. Fade(sockets, sockets')
  <2>1. PICK S : S = Sockets
    OBVIOUS
  <2>2. sockets' \in [1..n -> S]
    BY <1>3, <1>4, <2>1
  <2>3. sockets' \in Seq(S) /\ Len(sockets') = n
    BY <2>2
  <2>4. QED
    BY <1>2, <1>4, <2>1, <2>3 DEF Fade
<1>6. socket \in [Peers -> 0..n] /\ wants \subseteq Peers /\ retry \subseteq wants
  BY <1>1, <1>2 DEF SocketsTyped
<1>7. /\ \A d \in Peers : socket[d] # 0 => d \in wants
      /\ \A d \in retry : socket[d] = 0
  BY <1>1, <1>6 DEF SocketInv, SocketIsNewest
<1>8. /\ socket' = socket /\ wants' = wants /\ retry' = retry
      /\ seat' \in [Peers -> 0..n] /\ \A d \in Peers : seat'[d] = 0
  BY <1>2, <1>3 DEF bridge
<1>9. \A d \in Peers : socket[d] = 0 \/ ~ (sockets'[socket[d]].joined /\ sockets'[socket[d]].link = "up")
  BY <1>4, <1>6
<1>10. SocketInv' /\ (EndsSeenInTime' <=> EndsSeenInTime)
  BY <1>1, <1>2, <1>5, <1>6, <1>7, <1>8, <1>9, FadeInv
<1>11. QED
  BY <1>1, <1>3, <1>10, RtcInv DEF RoomInv

(* A change of one socket and then of all.                                 *)
LEMMA EndsKeeps ==
    ASSUME NEW s \in Seq(Sockets), NEW i \in 1..Len(s), NEW y \in Sockets, Fades(s[i], y),
           NEW t, Keeps([s EXCEPT ![i] = y], t)
    PROVE  /\ Fade(s, t)
           /\ \A j \in 1..Len(s) : j # i => t[j].served = s[j].served
<1>1. Len(s) \in Nat /\ DOMAIN s = 1..Len(s) /\ \A j \in 1..Len(s) : s[j] \in Sockets
  BY TableIs
<1>2. PICK S : S = Sockets
  OBVIOUS
<1>3. PICK u : u = [s EXCEPT ![i] = y]
  OBVIOUS
<1>4. u \in Seq(S) /\ Len(u) = Len(s)
  BY <1>2, <1>3, ExceptSeq
<1>5. \A j \in 1..Len(s) : u[j] = IF j = i THEN y ELSE s[j]
  BY <1>1, <1>3
<1>6. Keeps(u, t)
  BY <1>3
<1>7. t \in Seq(Sockets) /\ Len(t) = Len(s) /\ \A j \in 1..Len(s) : Same(u[j], t[j]) /\ t[j] \in Sockets
  BY <1>4, <1>6, TableIs DEF Keeps
<1>8. ASSUME NEW j \in 1..Len(s) PROVE Fades(s[j], t[j]) /\ (j # i => t[j].served = s[j].served)
  <2>1. Fades(u[j], t[j]) /\ t[j].served = u[j].served
    BY <1>7 DEF Same
  <2>2. CASE j = i
    <3>1. u[j] = y
      BY <1>5, <2>2
    <3>2. Fades(s[i], t[j])
      BY <1>1, <1>7, <2>1, <3>1, FadesTwice
    <3>3. QED
      BY <2>2, <3>2
  <2>3. CASE j # i
    <3>1. u[j] = s[j]
      BY <1>5, <2>3
    <3>2. QED
      BY <2>1, <3>1
  <2>4. QED
    BY <2>2, <2>3
<1>9. QED
  BY <1>7, <1>8 DEF Fade

(* What the close handler does to the sockets.                             *)
LEMMA ClosedFades ==
    ASSUME SocketsTyped, NEW i \in 1..Len(sockets), ServeClose(i)
    PROVE  /\ Fade(sockets, sockets')
           /\ \A j \in 1..Len(sockets) : j # i => sockets'[j].served = sockets[j].served
<1>1. PICK x \in Sockets : x = sockets[i]
  BY TableIs DEF SocketsTyped
<1>2. PICK y \in Sockets : y = [x EXCEPT !.served = FALSE, !.up = <<>>, !.down = <<>>] /\ Fades(x, y)
  BY EndedFades
<1>3. PICK s : s = [sockets EXCEPT ![i].served = FALSE, ![i].up = <<>>, ![i].down = <<>>]
  OBVIOUS
<1>4. s = [sockets EXCEPT ![i] = y]
  <2>1. PICK a : a = [x EXCEPT !.served = FALSE]
    OBVIOUS
  <2>2. PICK b : b = [a EXCEPT !.up = <<>>]
    OBVIOUS
  <2>3. y = [b EXCEPT !.down = <<>>]
    BY <1>2, <2>1, <2>2
  <2>4. PICK sa : sa = [sockets EXCEPT ![i].served = FALSE]
    OBVIOUS
  <2>5. PICK sb : sb = [sa EXCEPT ![i].up = <<>>]
    OBVIOUS
  <2>6. s = [sb EXCEPT ![i].down = <<>>]
    BY <1>3, <2>4, <2>5
  <2>7. i \in DOMAIN sockets
    BY TableIs DEF SocketsTyped
  <2>8. sa = [sockets EXCEPT ![i] = a]
    BY <1>1, <2>1, <2>4, <2>7
  <2>9. sb = [sockets EXCEPT ![i] = b]
    BY <2>2, <2>5, <2>7, <2>8
  <2>10. QED
    BY <2>3, <2>6, <2>7, <2>9
<1>5. s \in Seq(Sockets)
  <2>1. PICK S : S = Sockets
    OBVIOUS
  <2>2. sockets \in Seq(S)
    BY <2>1 DEF SocketsTyped
  <2>3. s \in Seq(S)
    BY <1>4, <2>1, <2>2, ExceptSeq
  <2>4. QED
    BY <2>1, <2>3
<1>6. PICK m \in DownMessages : m = [type |-> "peer-left", peer |-> x.owner]
  <2>1. PICK d \in Peers : d = x.owner
    BY SocketIs
  <2>2. [type |-> "peer-left", peer |-> d] \in DownMessages
    BY DEF DownMessages
  <2>3. QED
    BY <2>1, <2>2
<1>7. sockets' = IF x.joined THEN Told(s, Others(x.owner), m) ELSE s
  BY <1>1, <1>3, <1>6 DEF ServeClose
<1>8. Keeps(s, sockets')
  <2>1. CASE x.joined
    <3>1. m.type \notin {"joined", "peer-joined"}
      BY <1>6
    <3>2. Keeps(s, Told(s, Others(x.owner), m))
      BY <1>5, <3>1, ToldKeeps
    <3>3. QED
      BY <1>7, <2>1, <3>2
  <2>2. CASE ~ x.joined
    BY <1>5, <1>7, <2>2, KeepsSelf
  <2>3. QED
    BY <2>1, <2>2
<1>9. sockets \in Seq(Sockets) /\ Fades(sockets[i], y) /\ Keeps([sockets EXCEPT ![i] = y], sockets')
  BY <1>1, <1>2, <1>4, <1>8 DEF SocketsTyped
<1>10. QED
  BY <1>9, EndsKeeps

(* The close handler takes the seat of the socket that closed.  If ends    *)
(* are seen in time that is never the seat of a newer one.                 *)
LEMMA ServeCloseInv == ASSUME RoomInv, NEW i \in DOMAIN sockets, ServeClose(i) PROVE RoomInv'
<1>1. SocketInv /\ ConnInv /\ SocketsTyped
  BY DEF RoomInv, SocketInv
<1>2. PICK n \in Nat : n = Len(sockets) /\ DOMAIN sockets = 1..n /\ i \in 1..n
                       /\ \A j \in 1..n : sockets[j] \in Sockets
  BY <1>1, TableIs DEF SocketsTyped
<1>3. seat' = Left(i) /\ UNCHANGED <<bridge, rtc>> /\ sockets[i].served /\ sockets[i].link # "up"
  BY DEF ServeClose
<1>4. Fade(sockets, sockets') /\ \A j \in 1..n : j # i => sockets'[j].served = sockets[j].served
  BY <1>1, <1>2, ClosedFades
<1>5. /\ seat \in [Peers -> 0..n] /\ socket \in [Peers -> 0..n]
      /\ wants \subseteq Peers /\ retry \subseteq wants
      /\ socket' = socket /\ wants' = wants /\ retry' = retry
  BY <1>1, <1>2, <1>3 DEF SocketsTyped, bridge
<1>6. /\ \A d \in Peers : socket[d] # 0 => d \in wants
      /\ \A d \in retry : socket[d] = 0
  BY <1>1, <1>5 DEF SocketInv, SocketIsNewest
<1>7. PICK d \in Peers : d = sockets[i].owner
  BY <1>2, SocketIs
<1>8. seat' = IF sockets[i].joined THEN [seat EXCEPT ![d] = 0] ELSE seat
  BY <1>3, <1>7 DEF Left
<1>9. seat' \in [Peers -> 0..n]
  BY <1>5, <1>8
<1>10. ASSUME NEW e \in Peers, seat'[e] # 0
       PROVE  seat'[e] = seat[e] /\ sockets'[seat[e]].served
  <2>1. seat'[e] = seat[e] /\ (sockets[i].joined => e # d)
    BY <1>5, <1>8, <1>10
  <2>2. seat[e] \in 1..n
    BY <1>5, <1>10, <2>1
  <2>3. sockets[seat[e]].served /\ sockets[seat[e]].joined /\ sockets[seat[e]].owner = e
    BY <1>1, <1>10, <2>1 DEF SocketInv, SeatsAreServed
  <2>4. seat[e] # i
    BY <1>7, <2>1, <2>3
  <2>5. QED
    BY <1>4, <2>1, <2>2, <2>3, <2>4
<1>11. ASSUME EndsSeenInTime, NEW e \in Peers, seat'[e] # seat[e], socket[e] # 0,
              sockets'[socket[e]].joined, sockets'[socket[e]].link = "up"
       PROVE  FALSE
  <2>1. PICK k \in 1..n : k = socket[e]
    BY <1>5, <1>11
  <2>2. Fades(sockets[k], sockets'[k])
    BY <1>2, <1>4 DEF Fade
  <2>3. sockets[k].joined /\ sockets[k].link = "up"
    BY <1>11, <2>1, <2>2 DEF Fades
  <2>4. e = d /\ sockets[i].joined
    BY <1>5, <1>8, <1>11
  <2>5. sockets[k].owner = e /\ i <= k
    BY <1>1, <1>2, <1>7, <1>11, <2>1, <2>4 DEF SocketInv, SocketIsNewest
  <2>6. i < k
    BY <1>2, <1>3, <2>3, <2>5
  <2>7. ~ sockets[k].late
    BY <1>2, <1>11 DEF EndsSeenInTime
  <2>8. ~ sockets[i].served
    BY <1>1, <1>2, <1>7, <2>3, <2>4, <2>5, <2>6, <2>7 DEF SocketInv, EarlierAreGone
  <2>9. QED
    BY <1>3, <2>8
<1>12. SocketInv' /\ (EndsSeenInTime' <=> EndsSeenInTime)
  BY <1>1, <1>2, <1>4, <1>5, <1>6, <1>9, <1>10, <1>11, FadeInv
<1>13. QED
  BY <1>1, <1>3, <1>12, RtcInv DEF RoomInv

(* A socket as it was, but for the word that another device joined.        *)
HearsOf(x, y, d) ==
    /\ y.owner = x.owner /\ y.link = x.link /\ y.served = x.served
    /\ y.joined = x.joined /\ y.late = x.late /\ y.up = x.up
    /\ \A n \in DOMAIN y.down :
          \/ n \in DOMAIN x.down /\ y.down[n] = x.down[n]
          \/ y.down[n] = [type |-> "peer-joined", peer |-> d] /\ x.owner # d

(* What the join does to the sockets: the newcomer's has joined, and the   *)
(* others may have a word of it.                                           *)
LEMMA JoinedIs ==
    ASSUME SocketInv, NEW i \in 1..Len(sockets), NEW d \in Peers, d = sockets[i].owner, ServeJoin(i)
    PROVE  /\ sockets' \in Seq(Sockets) /\ Len(sockets') = Len(sockets)
           /\ sockets'[i].owner = d /\ sockets'[i].link = sockets[i].link
           /\ sockets'[i].served = TRUE /\ sockets'[i].joined = TRUE
           /\ sockets'[i].late = (Earlier(i) # {})
           /\ \A n \in DOMAIN sockets'[i].up : sockets'[i].up[n].type # "join"
           /\ \A n \in DOMAIN sockets'[i].down :
                 \/ n \in DOMAIN sockets[i].down /\ sockets'[i].down[n] = sockets[i].down[n]
                 \/ sockets'[i].down[n] = [type |-> "joined", existing |-> Existing(d)]
           /\ \A j \in 1..Len(sockets) : j # i => HearsOf(sockets[j], sockets'[j], d)
<1>1. PICK len \in Nat : len = Len(sockets) /\ DOMAIN sockets = 1..len /\ i \in 1..len
                         /\ \A j \in 1..len : sockets[j] \in Sockets
  BY TableIs DEF SocketInv, SocketsTyped
<1>2. PICK x \in Sockets : x = sockets[i] /\ x.owner = d /\ x.up # <<>> /\ Head(x.up).type = "join" /\ x.served = TRUE
  <2>1. PICK x \in Sockets : x = sockets[i]
    BY <1>1
  <2>2. x.up # <<>> /\ Head(x.up).type = "join" /\ x.served /\ x.served \in BOOLEAN
    BY <2>1, SocketIs DEF ServeJoin, CanServe
  <2>3. QED
    BY <2>1, <2>2
<1>3. PICK pj \in DownMessages : pj = [type |-> "peer-joined", peer |-> d]
  BY DEF DownMessages
<1>4. PICK jm \in DownMessages : jm = [type |-> "joined", existing |-> Existing(d)]
  <2>1. PICK E \in SUBSET Peers : E = Existing(d)
    BY DEF Existing
  <2>2. [type |-> "joined", existing |-> E] \in DownMessages
    BY DEF DownMessages
  <2>3. QED
    BY <2>1, <2>2
<1>5. PICK L \in BOOLEAN : L = (Earlier(i) # {})
  OBVIOUS
<1>6. PICK u \in Seq(UpMessages) : u = Tail(x.up) /\ \A n \in DOMAIN u : u[n].type # "join"
  <2>1. PICK U : U = UpMessages
    OBVIOUS
  <2>2. PICK w \in Seq(U) : w = x.up /\ w # <<>>
    BY <1>2, <2>1, SocketIs
  <2>3. PICK v \in Seq(U) : v = Tail(w) /\ Len(v) = Len(w) - 1 /\ \A n \in 1..Len(v) : v[n] = w[n + 1]
    BY <2>2, HeadTailProperties, ZenonT(60)
  <2>4. DOMAIN v = 1..Len(v) /\ DOMAIN w = 1..Len(w) /\ Len(w) \in Nat /\ Len(v) \in Nat
    BY LenProperties
  <2>5. \A n \in DOMAIN w : w[n].type = "join" => n = 1
    BY <1>1, <1>2, <2>2 DEF SocketInv, JoinsOnce
  <2>6. \A n \in DOMAIN v : v[n].type # "join"
    BY <2>3, <2>4, <2>5
  <2>7. QED
    BY <2>1, <2>2, <2>3, <2>6
<1>7. PICK yes \in BOOLEAN, z \in Sockets :
         yes = TRUE /\ z = [owner |-> x.owner, link |-> x.link, served |-> x.served, joined |-> yes,
                            late |-> L, up |-> u, down |-> x.down]
  <2>1. PICK yes \in BOOLEAN : yes = TRUE
    OBVIOUS
  <2>2. x.link \in {"up", "closing", "broken"} /\ x.served \in BOOLEAN /\ x.down \in Seq(DownMessages)
    BY SocketIs
  <2>3. [owner |-> x.owner, link |-> x.link, served |-> x.served, joined |-> yes,
         late |-> L, up |-> u, down |-> x.down] \in Sockets
    BY <2>2, SocketMade
  <2>4. QED
    BY <2>1, <2>3
<1>8. PICK s0 : s0 = [Received(i) EXCEPT ![i].joined = TRUE, ![i].late = Earlier(i) # {}]
  OBVIOUS
<1>9. s0 = [sockets EXCEPT ![i] = z]
  <2>1. PICK a : a = [x EXCEPT !.up = u]
    OBVIOUS
  <2>2. a = [owner |-> x.owner, link |-> x.link, served |-> x.served, joined |-> x.joined,
             late |-> x.late, up |-> u, down |-> x.down]
    BY <2>1, SocketParts
  <2>3. PICK b : b = [a EXCEPT !.joined = yes]
    OBVIOUS
  <2>4. b = [owner |-> x.owner, link |-> x.link, served |-> x.served, joined |-> yes,
             late |-> x.late, up |-> u, down |-> x.down]
    BY <2>2, <2>3
  <2>5. PICK c : c = [b EXCEPT !.late = L]
    OBVIOUS
  <2>6. c = z
    <3>1. c = [owner |-> x.owner, link |-> x.link, served |-> x.served, joined |-> yes,
               late |-> L, up |-> u, down |-> x.down]
      BY <2>4, <2>5
    <3>2. QED
      BY <1>7, <3>1
  <2>7. i \in DOMAIN sockets
    BY <1>1
  <2>8. PICK sa : sa = Received(i)
    OBVIOUS
  <2>9. sa = [sockets EXCEPT ![i] = a]
    BY <1>2, <1>6, <2>1, <2>7, <2>8 DEF Received
  <2>10. PICK sb : sb = [sa EXCEPT ![i].joined = TRUE]
    OBVIOUS
  <2>11. sb = [sockets EXCEPT ![i] = b]
    BY <1>7, <2>3, <2>7, <2>9, <2>10
  <2>12. s0 = [sb EXCEPT ![i].late = L]
    BY <1>5, <1>8, <2>8, <2>10
  <2>13. QED
    BY <2>5, <2>6, <2>7, <2>11, <2>12
<1>10. s0 \in Seq(Sockets) /\ Len(s0) = len
  <2>1. PICK S : S = Sockets
    OBVIOUS
  <2>2. sockets \in Seq(S)
    BY <2>1 DEF SocketInv, SocketsTyped
  <2>3. s0 \in Seq(S) /\ Len(s0) = len
    BY <1>1, <1>9, <2>1, <2>2, ExceptSeq
  <2>4. QED
    BY <2>1, <2>3
<1>11. \A j \in 1..len : s0[j] = IF j = i THEN z ELSE sockets[j]
  BY <1>1, <1>9
<1>12. PICK s : s = Told(s0, Others(d), pj)
  OBVIOUS
<1>13. s \in Seq(Sockets) /\ Len(s) = len /\ DOMAIN s = 1..len
  <2>1. s \in Seq(Sockets) /\ Len(s) = len
    BY <1>10, <1>12, ToldIs
  <2>2. QED
    BY <2>1, TableIs
<1>14. ASSUME NEW j \in 1..len, NEW p \in Others(d), seat[p] = j
       PROVE  s[j] = Put(s0[j], pj)
  BY <1>10, <1>12, <1>14, ToldIs
<1>15. ASSUME NEW j \in 1..len, \A p \in Others(d) : seat[p] # j
       PROVE  s[j] = s0[j]
  BY <1>10, <1>12, <1>15, ToldIs
<1>16. \A p \in Others(d) : p \in Peers /\ p # d /\ sockets[seat[p]].owner = p
  BY DEF Others, SocketInv, SeatsAreServed
<1>17. s[i] = z
  <2>1. \A p \in Others(d) : seat[p] # i
    BY <1>2, <1>16
  <2>2. QED
    BY <1>1, <1>11, <1>15, <2>1
<1>18. sockets' = [s EXCEPT ![i] = Put(z, jm)]
  <2>1. s = Told([Received(i) EXCEPT ![i].joined = TRUE, ![i].late = Earlier(i) # {}], Others(sockets[i].owner),
                 [type |-> "peer-joined", peer |-> sockets[i].owner])
    BY <1>3, <1>8, <1>12
  <2>2. jm = [type |-> "joined", existing |-> Existing(sockets[i].owner)]
    BY <1>4
  <2>3. sockets' = [s EXCEPT ![i].down = IF s[i].link = "up" THEN Append(@, jm) ELSE @]
    BY <2>1, <2>2, SMTT(30) DEF ServeJoin
  <2>4. QED
    BY <1>1, <1>13, <1>17, <2>3 DEF Put
<1>19. PICK y \in Sockets :
          /\ y = Put(z, jm) /\ y.owner = z.owner /\ y.link = z.link /\ y.served = z.served
          /\ y.joined = z.joined /\ y.late = z.late /\ y.up = z.up
          /\ \A n \in DOMAIN y.down : (n \in DOMAIN z.down /\ z.down[n] = y.down[n]) \/ y.down[n] = jm
  BY PutIs
<1>20. sockets' \in Seq(Sockets) /\ Len(sockets') = len
  <2>1. PICK S : S = Sockets
    OBVIOUS
  <2>2. s \in Seq(S) /\ y \in S
    BY <1>13, <2>1
  <2>3. sockets' = [s EXCEPT ![i] = y]
    BY <1>18, <1>19
  <2>4. sockets' \in Seq(S) /\ Len(sockets') = len
    BY <1>1, <1>13, <2>2, <2>3, ExceptSeq
  <2>5. QED
    BY <2>1, <2>4
<1>21. sockets'[i] = y /\ \A j \in 1..len : j # i => sockets'[j] = s[j]
  BY <1>1, <1>13, <1>18, <1>19
<1>22. /\ z.owner = d /\ z.link = x.link /\ z.served = TRUE /\ z.joined = TRUE /\ z.late = L
       /\ z.up = u /\ z.down = x.down
  BY <1>2, <1>7
<1>23. ASSUME NEW j \in 1..len, j # i
       PROVE  /\ sockets'[j].owner = sockets[j].owner /\ sockets'[j].link = sockets[j].link
              /\ sockets'[j].served = sockets[j].served /\ sockets'[j].joined = sockets[j].joined
              /\ sockets'[j].late = sockets[j].late /\ sockets'[j].up = sockets[j].up
              /\ \A n \in DOMAIN sockets'[j].down :
                    \/ n \in DOMAIN sockets[j].down /\ sockets'[j].down[n] = sockets[j].down[n]
                    \/ sockets'[j].down[n] = pj /\ sockets[j].owner # d
  <2>1. sockets'[j] = s[j] /\ s0[j] = sockets[j]
    BY <1>11, <1>21, <1>23
  <2>2. CASE \E p \in Others(d) : seat[p] = j
    <3>1. PICK p \in Others(d) : seat[p] = j
      BY <2>2
    <3>2. sockets'[j] = Put(sockets[j], pj) /\ sockets[j].owner # d
      BY <1>14, <1>16, <2>1, <3>1
    <3>3. PICK v \in Sockets : v = sockets[j]
      BY <1>1
    <3>4. PICK w \in Sockets :
             /\ w = Put(v, pj) /\ w.owner = v.owner /\ w.link = v.link /\ w.served = v.served
             /\ w.joined = v.joined /\ w.late = v.late /\ w.up = v.up
             /\ \A n \in DOMAIN w.down : (n \in DOMAIN v.down /\ v.down[n] = w.down[n]) \/ w.down[n] = pj
      BY PutIs
    <3>5. sockets'[j] = w
      BY <3>2, <3>3, <3>4
    <3>6. QED
      BY <3>2, <3>3, <3>4, <3>5
  <2>3. CASE \A p \in Others(d) : seat[p] # j
    <3>1. sockets'[j] = sockets[j]
      BY <1>15, <2>1, <2>3
    <3>2. QED
      BY <3>1
  <2>4. QED
    BY <2>2, <2>3
<1>24. /\ sockets'[i].owner = d /\ sockets'[i].link = sockets[i].link
       /\ sockets'[i].served = TRUE /\ sockets'[i].joined = TRUE
       /\ sockets'[i].late = (Earlier(i) # {})
  BY <1>2, <1>5, <1>19, <1>21, <1>22
<1>25. /\ \A n \in DOMAIN sockets'[i].up : sockets'[i].up[n].type # "join"
       /\ \A n \in DOMAIN sockets'[i].down :
             \/ n \in DOMAIN sockets[i].down /\ sockets'[i].down[n] = sockets[i].down[n]
             \/ sockets'[i].down[n] = jm
  BY <1>2, <1>6, <1>19, <1>21, <1>22, ZenonT(60)
<1>26. QED
  <2>1. \A j \in 1..len : j # i => HearsOf(sockets[j], sockets'[j], d)
    BY <1>3, <1>23 DEF HearsOf
  <2>2. QED
    BY <1>1, <1>4, <1>20, <1>24, <1>25, <2>1

(* Who had a seat, or an earlier socket, when a device joined in time: not *)
(* the device itself.                                                      *)
LEMMA FirstToJoin ==
    ASSUME SocketInv, EndsSeenInTime, NEW i \in 1..Len(sockets), NEW d \in Peers, d = sockets[i].owner,
           sockets[i].served, ~ sockets[i].joined, Earlier(i) = {}
    PROVE  /\ \A k \in 1..Len(sockets) : sockets[k].owner = d /\ sockets[k].joined => ~ sockets[k].served /\ k < i
           /\ seat[d] = 0
<1>1. Len(sockets) \in Nat /\ DOMAIN sockets = 1..Len(sockets)
  BY TableIs DEF SocketInv, SocketsTyped
<1>2. ASSUME NEW k \in 1..Len(sockets), sockets[k].owner = d, sockets[k].joined
      PROVE  ~ sockets[k].served /\ k < i
  <2>1. k # i
    BY <1>2
  <2>2. ~ (k > i)
    <3>1. ~ sockets[k].late
      BY <1>1 DEF EndsSeenInTime
    <3>2. QED
      BY <1>1, <1>2, <3>1 DEF SocketInv, EarlierAreGone
  <2>3. k < i
    BY <1>1, <2>1, <2>2
  <2>4. k \in 1..(i - 1)
    BY <1>1, <2>3
  <2>5. QED
    BY <1>2, <2>3, <2>4 DEF Earlier
<1>3. seat[d] = 0
  <2>1. SUFFICES ASSUME seat[d] # 0 PROVE FALSE
    OBVIOUS
  <2>2. seat[d] \in 1..Len(sockets)
    BY <1>1, <2>1 DEF SocketInv, SocketsTyped
  <2>3. sockets[seat[d]].served /\ sockets[seat[d]].joined /\ sockets[seat[d]].owner = d
    BY <2>1 DEF SocketInv, SeatsAreServed
  <2>4. QED
    BY <1>2, <2>2, <2>3
<1>4. QED
  BY <1>2, <1>3

(* The join.                                                               *)
LEMMA ServeJoinInv == ASSUME RoomInv, NEW i \in DOMAIN sockets, ServeJoin(i) PROVE RoomInv'
<1>1. SocketInv /\ ConnInv /\ SocketsTyped
  BY DEF RoomInv, SocketInv
<1>2. PICK n \in Nat : n = Len(sockets) /\ DOMAIN sockets = 1..n /\ i \in 1..n
                       /\ \A j \in 1..n : sockets[j] \in Sockets
  BY <1>1, TableIs DEF SocketsTyped
<1>3. PICK d \in Peers : d = sockets[i].owner
  BY <1>2, SocketIs
<1>4. /\ sockets' \in Seq(Sockets) /\ Len(sockets') = n
      /\ sockets'[i].owner = d /\ sockets'[i].link = sockets[i].link
      /\ sockets'[i].served = TRUE /\ sockets'[i].joined = TRUE
      /\ sockets'[i].late = (Earlier(i) # {})
      /\ \A k \in DOMAIN sockets'[i].up : sockets'[i].up[k].type # "join"
      /\ \A k \in DOMAIN sockets'[i].down :
            \/ k \in DOMAIN sockets[i].down /\ sockets'[i].down[k] = sockets[i].down[k]
            \/ sockets'[i].down[k] = [type |-> "joined", existing |-> Existing(d)]
  BY <1>1, <1>2, <1>3, JoinedIs
<1>5. ASSUME NEW j \in 1..n, j # i
      PROVE  /\ sockets'[j].owner = sockets[j].owner /\ sockets'[j].link = sockets[j].link
             /\ sockets'[j].served = sockets[j].served /\ sockets'[j].joined = sockets[j].joined
             /\ sockets'[j].late = sockets[j].late /\ sockets'[j].up = sockets[j].up
             /\ \A k \in DOMAIN sockets'[j].down :
                   \/ k \in DOMAIN sockets[j].down /\ sockets'[j].down[k] = sockets[j].down[k]
                   \/ sockets'[j].down[k] = [type |-> "peer-joined", peer |-> d] /\ sockets[j].owner # d
  <2>1. HearsOf(sockets[j], sockets'[j], d)
    BY <1>1, <1>2, <1>3, <1>5, JoinedIs
  <2>2. QED
    BY <2>1 DEF HearsOf
<1>6. DOMAIN sockets' = 1..n
  BY <1>4, TableIs
<1>7. /\ seat \in [Peers -> 0..n] /\ socket \in [Peers -> 0..n]
      /\ seat' = [seat EXCEPT ![d] = i] /\ UNCHANGED <<bridge, rtc>>
      /\ socket' = socket /\ wants' = wants /\ retry' = retry
  BY <1>1, <1>2, <1>3 DEF SocketsTyped, ServeJoin, bridge
<1>8. seat' \in [Peers -> 0..n] /\ seat'[d] = i /\ \A e \in Peers : e # d => seat'[e] = seat[e]
  BY <1>2, <1>7
<1>9. sockets[i].served /\ ~ sockets[i].joined
  <2>1. sockets[i].served /\ CanServe(i, "join")
    BY DEF ServeJoin, CanServe
  <2>2. 1 \in DOMAIN sockets[i].up /\ sockets[i].up[1].type = "join"
    BY <1>1, <1>2, <2>1, ReceivedKeeps
  <2>3. QED
    BY <1>1, <1>2, <2>1, <2>2 DEF SocketInv, JoinsOnce
<1>10. SocketsTyped'
  BY <1>1, <1>4, <1>7, <1>8 DEF SocketsTyped
<1>11. SeatsAreServed'
  <2> SUFFICES ASSUME NEW e \in Peers, seat'[e] # 0
               PROVE  sockets'[seat'[e]].served /\ sockets'[seat'[e]].joined /\ sockets'[seat'[e]].owner = e
    BY DEF SeatsAreServed
  <2>1. CASE e = d
    BY <1>4, <1>8, <2>1
  <2>2. CASE e # d
    <3>1. seat'[e] = seat[e] /\ seat[e] \in 1..n
      BY <1>7, <1>8, <2>2
    <3>2. sockets[seat[e]].served /\ sockets[seat[e]].joined /\ sockets[seat[e]].owner = e
      BY <1>1, <3>1 DEF SocketInv, SeatsAreServed
    <3>3. seat[e] # i
      BY <1>3, <2>2, <3>2
    <3>4. QED
      BY <1>5, <3>1, <3>2, <3>3
  <2>3. QED
    BY <2>1, <2>2
<1>12. \A j \in 1..n : sockets'[j].owner = sockets[j].owner /\ sockets'[j].served = sockets[j].served
  <2>1. sockets[i].served = TRUE
    BY <1>2, <1>9, SocketIs
  <2>2. QED
    BY <1>3, <1>4, <1>5, <2>1, ZenonT(60)
<1>13. SocketIsNewest'
  <2> SUFFICES ASSUME NEW e \in Peers
               PROVE  /\ socket'[e] # 0 => e \in wants' /\ sockets'[socket'[e]].owner = e
                      /\ \A j \in 1..n : socket'[e] # 0 /\ sockets'[j].owner = e => j <= socket'[e]
                      /\ e \in retry' => socket'[e] = 0
    BY <1>6 DEF SocketIsNewest
  <2>1. socket[e] # 0 => socket[e] \in 1..n
    BY <1>7
  <2>2. QED
    BY <1>1, <1>2, <1>7, <1>12, <2>1 DEF SocketInv, SocketIsNewest
<1>14. JoinsOnce'
  <2> SUFFICES ASSUME NEW j \in 1..n
               PROVE  /\ \A k \in DOMAIN sockets'[j].up :
                            sockets'[j].up[k].type = "join" => k = 1 /\ ~ sockets'[j].joined
                      /\ sockets'[j].late => sockets'[j].joined
    BY <1>6 DEF JoinsOnce
  <2>1. CASE j = i
    BY <1>4, <2>1
  <2>2. CASE j # i
    <3>1. sockets'[j].up = sockets[j].up /\ sockets'[j].joined = sockets[j].joined /\ sockets'[j].late = sockets[j].late
      BY <1>5, <2>2
    <3>2. QED
      BY <1>1, <1>2, <3>1 DEF SocketInv, JoinsOnce
  <2>3. QED
    BY <2>1, <2>2
<1>15. EarlierAreGone'
  <2> SUFFICES ASSUME NEW k \in 1..n, NEW j \in 1..n, j < k,
                      sockets'[j].owner = sockets'[k].owner, sockets'[k].joined, ~ sockets'[k].late
               PROVE  ~ sockets'[j].served
    BY <1>6 DEF EarlierAreGone
  <2>1. sockets[j].owner = sockets[k].owner /\ sockets'[j].served = sockets[j].served
    BY <1>12
  <2>2. CASE k = i
    <3>1. j \in 1..(i - 1)
      BY <1>2, <2>2
    <3>2. sockets'[i].late = (Earlier(i) # {}) /\ ~ sockets'[i].late
      BY <1>4, <2>2
    <3>3. Earlier(i) = {}
      BY <3>2, Zenon
    <3>4. QED
      BY <2>1, <2>2, <3>1, <3>3 DEF Earlier
  <2>3. CASE k # i
    <3>1. sockets'[k].joined = sockets[k].joined /\ sockets'[k].late = sockets[k].late
      BY <1>5, <2>3
    <3>2. QED
      BY <1>1, <1>2, <2>1, <3>1 DEF SocketInv, EarlierAreGone
  <2>4. QED
    BY <2>2, <2>3
<1>16. OthersJoined'
  <2> SUFFICES ASSUME NEW j \in 1..n, NEW k \in DOMAIN sockets'[j].down,
                      sockets'[j].down[k].type = "peer-joined"
               PROVE  sockets'[j].down[k].peer # sockets'[j].owner
    BY <1>6 DEF OthersJoined
  <2>1. CASE k \in DOMAIN sockets[j].down /\ sockets'[j].down[k] = sockets[j].down[k]
    <3>1. sockets[j].down[k].peer # sockets[j].owner
      BY <1>1, <1>2, <2>1 DEF SocketInv, OthersJoined
    <3>2. QED
      BY <1>12, <2>1, <3>1
  <2>2. CASE sockets'[j].down[k] = [type |-> "peer-joined", peer |-> d] /\ sockets[j].owner # d
    BY <1>12, <2>2
  <2>3. CASE sockets'[j].down[k] = [type |-> "joined", existing |-> Existing(d)]
    BY <2>3
  <2>4. QED
    BY <1>4, <1>5, <2>1, <2>2, <2>3
<1>17. ASSUME EndsSeenInTime' PROVE EndsSeenInTime /\ Earlier(i) = {}
  <2>1. \A j \in 1..n : ~ sockets'[j].late
    BY <1>6, <1>17 DEF EndsSeenInTime
  <2>2. Earlier(i) = {}
    BY <1>2, <1>4, <2>1
  <2>3. ~ sockets[i].late
    BY <1>1, <1>2, <1>9 DEF SocketInv, JoinsOnce
  <2>4. \A j \in 1..n : j # i => ~ sockets[j].late
    BY <1>5, <2>1
  <2>5. QED
    BY <1>2, <2>2, <2>3, <2>4 DEF EndsSeenInTime
<1>18. ASSUME EndsSeenInTime' PROVE JoinedIsPresent'
  <2> SUFFICES ASSUME NEW e \in Peers, socket'[e] # 0, sockets'[socket'[e]].joined,
                      sockets'[socket'[e]].link = "up"
               PROVE  seat'[e] = socket'[e]
    BY DEF JoinedIsPresent
  <2>1. EndsSeenInTime /\ Earlier(i) = {}
    BY <1>17, <1>18
  <2>2. PICK k \in 1..n : k = socket[e] /\ k = socket'[e]
    BY <1>7
  <2>3. sockets[k].owner = e /\ \A j \in 1..n : sockets[j].owner = e => j <= k
    BY <1>1, <1>2, <1>7, <2>2 DEF SocketInv, SocketIsNewest
  <2>4. CASE k = i
    BY <1>3, <1>8, <2>2, <2>3, <2>4
  <2>5. CASE k # i
    <3>1. sockets[k].joined /\ sockets[k].link = "up"
      BY <1>5, <2>2, <2>5
    <3>2. e # d
      <4>1. SUFFICES ASSUME e = d PROVE FALSE
        OBVIOUS
      <4>2. i <= k
        BY <1>2, <1>3, <2>3, <4>1
      <4>3. k < i
        BY <1>1, <1>2, <1>3, <1>9, <2>1, <2>3, <3>1, <4>1, FirstToJoin
      <4>4. QED
        BY <1>2, <4>2, <4>3
    <3>3. seat[e] = k
      BY <1>1, <2>1, <2>2, <3>1 DEF SocketInv, JoinedIsPresent
    <3>4. QED
      BY <1>8, <2>2, <3>2, <3>3
  <2>6. QED
    BY <2>4, <2>5
<1>19. ASSUME EndsSeenInTime' PROVE OthersPresent'
  <2> SUFFICES ASSUME NEW j \in 1..n, NEW k \in DOMAIN sockets'[j].down,
                      sockets'[j].down[k].type = "joined"
               PROVE  sockets'[j].owner \notin sockets'[j].down[k].existing
    BY <1>6 DEF OthersPresent
  <2>1. EndsSeenInTime /\ Earlier(i) = {}
    BY <1>17, <1>19
  <2>2. CASE k \in DOMAIN sockets[j].down /\ sockets'[j].down[k] = sockets[j].down[k]
    <3>1. sockets[j].owner \notin sockets[j].down[k].existing
      BY <1>1, <1>2, <2>1, <2>2 DEF SocketInv, OthersPresent
    <3>2. QED
      BY <1>12, <2>2, <3>1
  <2>3. CASE sockets'[j].down[k] = [type |-> "peer-joined", peer |-> d]
    BY <2>3
  <2>4. CASE j = i /\ sockets'[j].down[k] = [type |-> "joined", existing |-> Existing(d)]
    <3>1. seat[d] = 0
      BY <1>1, <1>2, <1>3, <1>9, <2>1, FirstToJoin
    <3>2. d \notin Existing(d)
      BY <3>1 DEF Existing
    <3>3. sockets'[j].owner = d
      BY <1>4, <2>4
    <3>4. QED
      BY <2>4, <3>2, <3>3
  <2>5. QED
    BY <1>4, <1>5, <2>2, <2>3, <2>4
<1>20. SocketInv'
  BY <1>10, <1>11, <1>13, <1>14, <1>15, <1>16, <1>18, <1>19 DEF SocketInv
<1>21. EndsSeenInTime' => NotWithItself
  BY <1>17 DEF RoomInv
<1>22. QED
  BY <1>1, <1>7, <1>20, <1>21, RtcInv DEF RoomInv

(* The empty room.                                                         *)
LEMMA InitRoom == ASSUME RoomInit PROVE RoomInv
<1>1. sockets \in Seq(Sockets) /\ Len(sockets) = 0 /\ DOMAIN sockets = {}
  <2>1. PICK S : S = Sockets
    OBVIOUS
  <2>2. sockets \in Seq(S) /\ Len(sockets) = 0
    BY EmptySeq DEF RoomInit
  <2>3. QED
    BY <2>1, <2>2, TableIs
<1>2. SocketsTyped
  BY <1>1 DEF RoomInit, SocketsTyped
<1>3. SeatsAreServed /\ SocketIsNewest /\ JoinedIsPresent
  BY <1>1 DEF RoomInit, SeatsAreServed, SocketIsNewest, JoinedIsPresent
<1>4. JoinsOnce /\ EarlierAreGone /\ OthersJoined /\ OthersPresent
  BY <1>1 DEF JoinsOnce, EarlierAreGone, OthersJoined, OthersPresent
<1>5. MaxConns \in Nat
  BY RendezvousAssumption
<1>6. NoConn \in Connections
  BY <1>5 DEF NoConn, Connections
<1>7. ConnInv /\ NotWithItself
  BY <1>5, <1>6 DEF RoomInit, ConnInv, ConnsNumbered, NotWithItself
<1>8. QED
  BY <1>2, <1>3, <1>4, <1>7 DEF RoomInv, SocketInv

(* Every step of the room.                                                 *)
LEMMA NextRoom == ASSUME RoomInv, [RoomNext]_roomVars PROVE RoomInv'
<1>1. CASE \E d \in Peers : Connect(d) \/ Disconnect(d) \/ DeviceStep(d)
  BY <1>1, ConnectInv, DisconnectInv, DeviceStepInv
<1>2. CASE \E d, p \in Peers : ConnectionFails(d, p)
  BY <1>2, ChannelsInv
<1>3. CASE \E i \in DOMAIN sockets : ServerStep(i) \/ Drop(i)
  BY <1>3, ServeJoinInv, ServeSignalInv, ServeCloseInv, DropInv DEF ServerStep
<1>4. CASE ServerRestart
  BY <1>4, ServerRestartInv
<1>5. CASE UNCHANGED roomVars
  <2>1. /\ sockets' = sockets /\ seat' = seat /\ UNCHANGED bridge /\ UNCHANGED rtc
    BY <1>5 DEF roomVars, bridge, rtc
  <2>2. Keeps(sockets, sockets')
    BY <2>1, KeepsSelf DEF RoomInv, SocketInv, SocketsTyped
  <2>3. SocketInv' /\ (EndsSeenInTime' <=> EndsSeenInTime)
    BY <2>1, <2>2, DeviceKeepsInv DEF RoomInv
  <2>4. QED
    BY <2>1, <2>3, RtcInv DEF RoomInv
<1>6. QED
  BY <1>1, <1>2, <1>3, <1>4, <1>5 DEF RoomNext

(* The sockets, the seats and the bridges fit together at every moment.    *)
THEOREM RoomsFit == RoomSpec => []RoomInv
<1>1. RoomInit => RoomInv
  BY InitRoom
<1>2. RoomInv /\ [RoomNext]_roomVars => RoomInv'
  BY NextRoom
<1>3. QED
  BY <1>1, <1>2, PTL DEF RoomSpec

(* MembersAreServed: the room lists no socket that the server has closed.  *)
THEOREM MembersAreServedAlways == RoomSpec => []MembersAreServed
<1>1. RoomInv => MembersAreServed
  BY DEF RoomInv, SocketInv, SocketsTyped, SeatsAreServed, ConnInv, MembersAreServed, RendezvousTypeOK
<1>2. QED
  BY <1>1, RoomsFit, PTL

(* SeatIsOwn: as long as the server sees the end of each socket before the *)
(* join of the next, a joined device is in its room and never meets        *)
(* itself.                                                                 *)
THEOREM SeatIsOwnAlways == RoomSpec => []SeatIsOwn
<1>1. RoomInv => SeatIsOwn
  BY DEF RoomInv, SocketInv, SeatIsOwn
<1>2. QED
  BY <1>1, RoomsFit, PTL

-----------------------------------------------------------------------------
(* Meeting: the room and the registry.                                     *)

(* The registry's rooms.  One that is not there is forgotten.              *)
RoomRecords == [there : BOOLEAN, peers : SUBSET Clients, age : 0..RoomTTL]

RoomsKept(rs) ==
    /\ rs \in [RoomIds -> RoomRecords]
    /\ \A r \in RoomIds : ~ rs[r].there => rs[r] = NoRoom

(* Nobody comes before the host has a room.                                *)
HostFirst ==
    /\ ours \in 0..drawn /\ asking \in 0..Done
    /\ ours = 0 => told = {} /\ asking = Done /\ sockets = <<>> /\ wants = {}

(* The registry and the sockets agree on who is in the room.               *)
SeatsAreMembers == \A d \in Peers : seat[d] # 0 <=> ours # 0 /\ d \in rooms[ours].peers

(* A room nobody is in is hardly older than the code that leads to it:     *)
(* what the code was asked after is that room, and asking took no longer   *)
(* than a request may take.                                                *)
RoomOutlives(r, age) ==
    r \in emptied \/ (rooms[r].there /\ (rooms[r].peers = {} => rooms[r].age <= age + RequestLimit))

CodesOutlived ==
    /\ \A r \in RoomIds : codes[r] < CodeTTL => RoomOutlives(r, codes[r])
    /\ asking <= RequestLimit =>
          ours \in emptied \/ (rooms[ours].there /\ rooms[ours].age <= asking)

MeetInv ==
    /\ RoomInv /\ ServerTypeOK /\ RoomsKept(rooms)
    /\ HostFirst /\ SeatsAreMembers /\ CodesOutlived

(* The sweep takes empty rooms of the full age.                            *)
LEMMA SweepKeeps ==
    ASSUME NEW rs, RoomsKept(rs)
    PROVE  /\ RoomsKept(sweep(rs))
           /\ \A r \in RoomIds : sweep(rs)[r].peers = rs[r].peers
           /\ \A r \in RoomIds : rs[r].there /\ (rs[r].peers = {} => rs[r].age < RoomTTL) => sweep(rs)[r] = rs[r]
<1>1. PICK s : s = sweep(rs)
  OBVIOUS
<1>2. s = [r \in RoomIds |-> IF rs[r].there /\ rs[r].peers = {} /\ rs[r].age >= RoomTTL THEN NoRoom ELSE rs[r]]
  BY <1>1 DEF sweep
<1>3. NoRoom \in RoomRecords /\ NoRoom.peers = {}
  BY SignalingAssumption DEF NoRoom, RoomRecords
<1>4. \A r \in RoomIds : rs[r] \in RoomRecords /\ rs[r].age \in 0..RoomTTL
  BY DEF RoomsKept, RoomRecords
<1>5. \A r \in RoomIds : s[r] = NoRoom \/ s[r] = rs[r]
  BY <1>2
<1>6. s \in [RoomIds -> RoomRecords]
  BY <1>2, <1>3, <1>4
<1>7. \A r \in RoomIds : ~ s[r].there => s[r] = NoRoom
  BY <1>5 DEF RoomsKept
<1>8. \A r \in RoomIds : s[r].peers = rs[r].peers
  BY <1>2, <1>3
<1>9. ASSUME NEW r \in RoomIds, rs[r].peers = {} => rs[r].age < RoomTTL PROVE s[r] = rs[r]
  <2>1. ~ (rs[r].peers = {} /\ rs[r].age >= RoomTTL)
    BY <1>4, <1>9, SignalingAssumption
  <2>2. QED
    BY <1>2, <2>1
<1>10. QED
  BY <1>1, <1>6, <1>7, <1>8, <1>9 DEF RoomsKept

(* A new room.                                                             *)
LEMMA CreateKeeps ==
    ASSUME RoomsKept(rooms), NEW n \in RoomIds
    PROVE  /\ RoomsKept(createRoom(n)) /\ createRoom(n)[n] = Room({})
           /\ \A r \in RoomIds : r # n => createRoom(n)[r] = sweep(rooms)[r]
<1>1. PICK s : s = sweep(rooms) /\ RoomsKept(s)
  BY SweepKeeps
<1>2. Room({}) \in RoomRecords /\ Room({}).there
  BY SignalingAssumption DEF Room, RoomRecords
<1>3. createRoom(n) = [s EXCEPT ![n] = Room({})]
  BY <1>1 DEF createRoom
<1>4. s \in [RoomIds -> RoomRecords]
  BY <1>1 DEF RoomsKept
<1>5. PICK t : t = createRoom(n)
  OBVIOUS
<1>6. t \in [RoomIds -> RoomRecords] /\ t[n] = Room({}) /\ \A r \in RoomIds : r # n => t[r] = s[r]
  BY <1>2, <1>3, <1>4, <1>5
<1>7. \A r \in RoomIds : ~ t[r].there => t[r] = NoRoom
  BY <1>1, <1>2, <1>6 DEF RoomsKept
<1>8. QED
  BY <1>1, <1>5, <1>6, <1>7 DEF RoomsKept

(* Five minutes.                                                           *)
LEMMA AgedKeeps ==
    ASSUME RoomsKept(rooms)
    PROVE  /\ RoomsKept(Aged(rooms))
           /\ \A r \in RoomIds : /\ Aged(rooms)[r].there = rooms[r].there
                                 /\ Aged(rooms)[r].peers = rooms[r].peers
                                 /\ Aged(rooms)[r].age <= rooms[r].age + 1
<1>1. PICK t : t = Aged(rooms)
  OBVIOUS
<1>2. t = [r \in RoomIds |-> IF rooms[r].there /\ rooms[r].peers = {} /\ rooms[r].age < RoomTTL
                             THEN [rooms[r] EXCEPT !.age = @ + 1] ELSE rooms[r]]
  BY <1>1 DEF Aged
<1>3. ASSUME NEW r \in RoomIds
      PROVE  /\ t[r] \in RoomRecords /\ t[r].there = rooms[r].there /\ t[r].peers = rooms[r].peers
             /\ t[r].age <= rooms[r].age + 1 /\ (~ t[r].there => t[r] = NoRoom)
  <2>1. PICK q \in RoomRecords : q = rooms[r]
    BY DEF RoomsKept
  <2>2. q.age \in 0..RoomTTL /\ RoomTTL \in Nat
    BY SignalingAssumption DEF RoomRecords
  <2>3. CASE q.there /\ q.peers = {} /\ q.age < RoomTTL
    <3>1. PICK a \in 0..RoomTTL : a = q.age + 1
      BY <2>2, <2>3
    <3>2. t[r] = [q EXCEPT !.age = a]
      BY <1>2, <2>1, <2>3, <3>1
    <3>3. [q EXCEPT !.age = a] \in RoomRecords
      BY DEF RoomRecords
    <3>4. [q EXCEPT !.age = a].there = q.there /\ [q EXCEPT !.age = a].peers = q.peers /\ [q EXCEPT !.age = a].age = a
      BY DEF RoomRecords
    <3>5. a <= q.age + 1
      BY <2>2, <3>1
    <3>6. QED
      BY <2>1, <2>3, <3>2, <3>3, <3>4, <3>5
  <2>4. CASE ~ (q.there /\ q.peers = {} /\ q.age < RoomTTL)
    <3>1. t[r] = q
      BY <1>2, <2>1, <2>4
    <3>2. q.age <= q.age + 1
      BY <2>2
    <3>3. QED
      BY <2>1, <3>1, <3>2 DEF RoomsKept
  <2>5. QED
    BY <2>3, <2>4
<1>4. t \in [RoomIds -> RoomRecords]
  BY <1>2, <1>3
<1>5. QED
  BY <1>1, <1>3, <1>4 DEF RoomsKept

(* Somebody joins.                                                         *)
LEMMA JoinRoomKeeps ==
    ASSUME RoomsKept(rooms), NEW n \in RoomIds, NEW c \in Clients
    PROVE  /\ RoomsKept(join(rooms, n, c))
           /\ \A r \in RoomIds : r # n => join(rooms, n, c)[r] = rooms[r]
           /\ join(rooms, n, c)[n].there /\ join(rooms, n, c)[n].peers = rooms[n].peers \cup {c}
           /\ join(rooms, n, c)[n].age = rooms[n].age
<1>1. PICK q \in RoomRecords : q = rooms[n]
  BY DEF RoomsKept
<1>2. PICK y : y = IF q.there THEN [q EXCEPT !.peers = @ \cup {c}] ELSE Room({c})
  OBVIOUS
<1>3. y \in RoomRecords /\ y.there /\ y.peers = q.peers \cup {c} /\ y.age = q.age
  <2>1. CASE q.there
    <3>1. PICK P \in SUBSET Clients : P = q.peers \cup {c}
      BY DEF RoomRecords
    <3>2. y = [q EXCEPT !.peers = P]
      BY <1>2, <2>1, <3>1
    <3>3. [q EXCEPT !.peers = P] \in RoomRecords
      BY DEF RoomRecords
    <3>4. [q EXCEPT !.peers = P].there = q.there /\ [q EXCEPT !.peers = P].peers = P /\ [q EXCEPT !.peers = P].age = q.age
      BY DEF RoomRecords
    <3>5. QED
      BY <2>1, <3>1, <3>2, <3>3, <3>4
  <2>2. CASE ~ q.there
    <3>1. q = NoRoom
      BY <1>1, <2>2 DEF RoomsKept
    <3>2. q.peers = {} /\ q.age = 0
      BY <3>1 DEF NoRoom
    <3>3. y = Room({c})
      BY <1>2, <2>2
    <3>4. QED
      BY <3>2, <3>3, SignalingAssumption DEF Room, RoomRecords
  <2>3. QED
    BY <2>1, <2>2
<1>4. PICK t : t = join(rooms, n, c)
  OBVIOUS
<1>5. t = [rooms EXCEPT ![n] = y] /\ rooms \in [RoomIds -> RoomRecords]
  <2>1. t = [rooms EXCEPT ![n] = IF rooms[n].there THEN [rooms[n] EXCEPT !.peers = rooms[n].peers \cup {c}]
                                 ELSE Room({c})]
    BY <1>4 DEF join
  <2>2. y = IF rooms[n].there THEN [rooms[n] EXCEPT !.peers = rooms[n].peers \cup {c}] ELSE Room({c})
    BY <1>1, <1>2
  <2>3. QED
    BY <2>1, <2>2 DEF RoomsKept
<1>6. t \in [RoomIds -> RoomRecords] /\ t[n] = y /\ \A r \in RoomIds : r # n => t[r] = rooms[r]
  BY <1>3, <1>5
<1>7. \A r \in RoomIds : ~ t[r].there => t[r] = NoRoom
  BY <1>3, <1>6 DEF RoomsKept
<1>8. QED
  BY <1>1, <1>3, <1>4, <1>6, <1>7 DEF RoomsKept

(* Somebody leaves.                                                        *)
LEMMA LeaveRoomKeeps ==
    ASSUME RoomsKept(rooms), NEW n \in RoomIds, NEW c \in Clients
    PROVE  /\ RoomsKept(leave(rooms, n, c))
           /\ \A r \in RoomIds : r # n => leave(rooms, n, c)[r] = rooms[r]
           /\ leave(rooms, n, c)[n].peers = rooms[n].peers \ {c}
           /\ leave(rooms, n, c)[n].there => rooms[n].there /\ leave(rooms, n, c)[n].age = rooms[n].age
                                             /\ leave(rooms, n, c)[n].peers # {}
<1>1. PICK q \in RoomRecords : q = rooms[n]
  BY DEF RoomsKept
<1>2. PICK y : y = IF ~ q.there THEN q ELSE IF q.peers \ {c} = {} THEN NoRoom ELSE [q EXCEPT !.peers = @ \ {c}]
  OBVIOUS
<1>3. /\ y \in RoomRecords /\ y.peers = q.peers \ {c} /\ (~ y.there => y = NoRoom)
      /\ y.there => q.there /\ y.age = q.age /\ y.peers # {}
  <2>1. CASE ~ q.there
    <3>1. q = NoRoom /\ y = q
      BY <1>1, <1>2, <2>1 DEF RoomsKept
    <3>2. q.peers = {} /\ q.there = FALSE
      BY <3>1 DEF NoRoom
    <3>3. QED
      BY <3>1, <3>2
  <2>2. CASE q.there /\ q.peers \ {c} = {}
    <3>1. y = NoRoom
      BY <1>2, <2>2
    <3>2. QED
      BY <2>2, <3>1, SignalingAssumption DEF NoRoom, RoomRecords
  <2>3. CASE q.there /\ q.peers \ {c} # {}
    <3>1. PICK P \in SUBSET Clients : P = q.peers \ {c}
      BY DEF RoomRecords
    <3>2. y = [q EXCEPT !.peers = P]
      BY <1>2, <2>3, <3>1
    <3>3. [q EXCEPT !.peers = P] \in RoomRecords
      BY DEF RoomRecords
    <3>4. [q EXCEPT !.peers = P].there = q.there /\ [q EXCEPT !.peers = P].peers = P /\ [q EXCEPT !.peers = P].age = q.age
      BY DEF RoomRecords
    <3>5. QED
      BY <2>3, <3>1, <3>2, <3>3, <3>4
  <2>4. QED
    BY <2>1, <2>2, <2>3
<1>4. PICK t : t = leave(rooms, n, c)
  OBVIOUS
<1>5. t = [rooms EXCEPT ![n] = y] /\ rooms \in [RoomIds -> RoomRecords]
  <2>1. t = [rooms EXCEPT ![n] = IF ~ rooms[n].there THEN rooms[n]
                                 ELSE IF rooms[n].peers \ {c} = {} THEN NoRoom
                                 ELSE [rooms[n] EXCEPT !.peers = rooms[n].peers \ {c}]]
    BY <1>4 DEF leave
  <2>2. y = IF ~ rooms[n].there THEN rooms[n]
            ELSE IF rooms[n].peers \ {c} = {} THEN NoRoom
            ELSE [rooms[n] EXCEPT !.peers = rooms[n].peers \ {c}]
    BY <1>1, <1>2
  <2>3. QED
    BY <2>1, <2>2 DEF RoomsKept
<1>6. t \in [RoomIds -> RoomRecords] /\ t[n] = y /\ \A r \in RoomIds : r # n => t[r] = rooms[r]
  BY <1>3, <1>5
<1>7. \A r \in RoomIds : ~ t[r].there => t[r] = NoRoom
  BY <1>3, <1>6 DEF RoomsKept
<1>8. QED
  BY <1>1, <1>3, <1>4, <1>6, <1>7 DEF RoomsKept

(* The numbers.                                                            *)
LEMMA MeetNumbers ==
    /\ CodeTTL \in Nat /\ CodeTTL > 0 /\ RoomTTL \in Nat /\ RequestLimit \in Nat /\ MaxIds \in Nat
    /\ RequestLimit + CodeTTL <= RoomTTL /\ Gone = CodeTTL + 1 /\ Done = RequestLimit + 2 /\ Clients = Peers
  BY SignalingAssumption, MeetingAssumption DEF Gone, Done

(* The types of what the invariant speaks of.                              *)
LEMMA MeetTypes ==
    ASSUME MeetInv
    PROVE  /\ rooms \in [RoomIds -> RoomRecords] /\ codes \in [RoomIds -> 0..Gone]
           /\ drawn \in 0..MaxIds /\ emptied \subseteq RoomIds
           /\ ours \in 0..drawn /\ asking \in 0..Done /\ (ours # 0 => ours \in RoomIds)
           /\ \A r \in RoomIds : rooms[r].age \in 0..RoomTTL /\ codes[r] \in 0..Gone
<1>1. rooms \in [RoomIds -> RoomRecords] /\ codes \in [RoomIds -> 0..Gone]
      /\ drawn \in 0..MaxIds /\ emptied \subseteq RoomIds /\ ours \in 0..drawn /\ asking \in 0..Done
  BY DEF MeetInv, RoomsKept, ServerTypeOK, HostFirst
<1>2. ours # 0 => ours \in RoomIds
  BY <1>1, MeetNumbers DEF RoomIds
<1>3. \A r \in RoomIds : rooms[r].age \in 0..RoomTTL
  BY <1>1 DEF RoomRecords
<1>4. QED
  BY <1>1, <1>2, <1>3

(* The invariant, put together from its parts.                             *)
LEMMA MeetMade ==
    ASSUME RoomInv', RoomsKept(rooms'), codes' \in [RoomIds -> 0..Gone], drawn' \in 0..MaxIds,
           emptied' \subseteq RoomIds, HostFirst', SeatsAreMembers', CodesOutlived'
    PROVE  MeetInv'
<1>1. rooms' \in [RoomIds -> [there : BOOLEAN, peers : SUBSET Clients, age : 0..RoomTTL]]
  BY DEF RoomsKept, RoomRecords
<1>2. ServerTypeOK'
  BY <1>1 DEF ServerTypeOK
<1>3. RoomsKept(rooms)'
  BY DEF RoomsKept
<1>4. QED
  BY <1>2, <1>3 DEF MeetInv

(* Nothing happened on the sockets.                                        *)
LEMMA RoomStays == ASSUME RoomInv, UNCHANGED roomVars PROVE RoomInv' /\ seat' = seat /\ sockets' = sockets /\ wants' = wants
  BY NextRoom DEF roomVars

(* The sweep of the codes.                                                 *)
LEMMA FreshKeeps ==
    ASSUME MeetInv
    PROVE  /\ Fresh(codes) \in [RoomIds -> 0..Gone]
           /\ \A r \in RoomIds : Fresh(codes)[r] < CodeTTL => Fresh(codes)[r] = codes[r]
<1>1. PICK t : t = Fresh(codes)
  OBVIOUS
<1>2. t = [r \in RoomIds |-> IF codes[r] >= CodeTTL THEN Gone ELSE codes[r]]
  BY <1>1 DEF Fresh
<1>3. \A r \in RoomIds : codes[r] \in 0..Gone
  BY MeetTypes
<1>4. Gone \in 0..Gone /\ ~ (Gone < CodeTTL)
  BY MeetNumbers
<1>5. \A r \in RoomIds : t[r] = Gone \/ t[r] = codes[r]
  BY <1>2
<1>6. t \in [RoomIds -> 0..Gone]
  BY <1>2, <1>3, <1>4, <1>5
<1>7. \A r \in RoomIds : t[r] < CodeTTL => t[r] = codes[r]
  BY <1>4, <1>5
<1>8. QED
  BY <1>1, <1>6, <1>7

(* No room that somebody may still come to is swept.                       *)
LEMMA SweptNotAwaited ==
    ASSUME MeetInv
    PROVE  /\ \A r \in RoomIds : codes[r] < CodeTTL /\ r \notin emptied =>
                 rooms[r].there /\ sweep(rooms)[r] = rooms[r]
           /\ asking <= RequestLimit /\ ours \notin emptied => sweep(rooms)[ours] = rooms[ours]
<1>1. RoomsKept(rooms) /\ CodesOutlived /\ HostFirst
  BY DEF MeetInv
<1>2. ASSUME NEW r \in RoomIds, codes[r] < CodeTTL, r \notin emptied
      PROVE  rooms[r].there /\ sweep(rooms)[r] = rooms[r]
  <2>1. rooms[r].there /\ (rooms[r].peers = {} => rooms[r].age <= codes[r] + RequestLimit)
    BY <1>1, <1>2 DEF CodesOutlived, RoomOutlives
  <2>2. rooms[r].age \in 0..RoomTTL /\ codes[r] \in 0..Gone
    BY MeetTypes
  <2>3. rooms[r].peers = {} => rooms[r].age < RoomTTL
    BY <1>2, <2>1, <2>2, MeetNumbers
  <2>4. QED
    BY <1>1, <2>1, <2>3, SweepKeeps
<1>3. ASSUME asking <= RequestLimit, ours \notin emptied PROVE sweep(rooms)[ours] = rooms[ours]
  <2>1. ours # 0
    BY <1>1, <1>3, MeetNumbers DEF HostFirst
  <2>2. ours \in RoomIds /\ rooms[ours].there /\ rooms[ours].age <= asking
    BY <1>1, <1>3, <2>1, MeetTypes DEF CodesOutlived
  <2>3. rooms[ours].age \in 0..RoomTTL /\ asking \in 0..Done
    BY <2>2, MeetTypes
  <2>4. rooms[ours].age < RoomTTL
    BY <1>3, <2>2, <2>3, MeetNumbers
  <2>5. QED
    BY <1>1, <2>2, <2>4, SweepKeeps
<1>4. QED
  BY <1>2, <1>3

(* A room is made, with a code if there is one to be had.                  *)
LEMMA CreateMeets ==
    ASSUME MeetInv, NEW n \in RoomIds, n = drawn + 1, rooms' = createRoom(n), drawn' = n,
           UNCHANGED <<roomVars, emptied, told>>,
           codes' \in [RoomIds -> 0..Gone],
           \A r \in RoomIds : r # n /\ codes'[r] < CodeTTL => codes'[r] = codes[r],
           \/ ours' = ours /\ asking' = asking
           \/ ours = 0 /\ ours' = n /\ asking' = 0
    PROVE  MeetInv'
<1>1. RoomsKept(rooms) /\ HostFirst /\ SeatsAreMembers /\ CodesOutlived /\ RoomInv
  BY DEF MeetInv
<1>2. /\ RoomsKept(rooms') /\ rooms'[n] = Room({})
      /\ \A r \in RoomIds : r # n => rooms'[r] = sweep(rooms)[r]
  BY <1>1, CreateKeeps
<1>3. rooms'[n].there /\ rooms'[n].peers = {} /\ rooms'[n].age = 0
  BY <1>2 DEF Room
<1>4. RoomInv' /\ seat' = seat /\ sockets' = sockets /\ wants' = wants
  BY <1>1, RoomStays
<1>5. ours \in 0..drawn /\ drawn \in 0..MaxIds /\ asking \in 0..Done /\ n \in 1..MaxIds /\ n # ours
      /\ (ours # 0 => ours \in RoomIds)
  BY MeetTypes, MeetNumbers DEF RoomIds
<1>6. HostFirst'
  <2>1. CASE ours' = ours /\ asking' = asking
    <3>1. ours \in 0..n
      BY <1>5, MeetNumbers
    <3>2. Done' = Done
      BY DEF Done
    <3>3. QED
      BY <1>1, <1>4, <1>5, <2>1, <3>1, <3>2 DEF HostFirst
  <2>2. CASE ours = 0 /\ ours' = n /\ asking' = 0
    <3>1. n \in 0..n /\ 0 \in 0..Done /\ n # 0
      BY <1>5, MeetNumbers
    <3>2. Done' = Done
      BY DEF Done
    <3>3. QED
      BY <2>2, <3>1, <3>2 DEF HostFirst
  <2>3. QED
    BY <2>1, <2>2
<1>7. SeatsAreMembers'
  <2>1. CASE ours' = ours
    <3>1. ours # 0 => rooms'[ours].peers = rooms[ours].peers
      BY <1>1, <1>2, <1>5, SweepKeeps
    <3>2. QED
      BY <1>1, <1>4, <2>1, <3>1 DEF SeatsAreMembers
  <2>2. CASE ours = 0 /\ ours' = n
    BY <1>1, <1>3, <1>4, <2>2 DEF SeatsAreMembers
  <2>3. QED
    BY <2>1, <2>2
<1>8. ASSUME NEW r \in RoomIds, codes'[r] < CodeTTL PROVE RoomOutlives(r, codes[r])'
  <2>1. CASE r = n
    <3>1. codes'[r] \in 0..Gone
      OBVIOUS
    <3>2. rooms'[r].age <= codes'[r] + RequestLimit
      BY <1>3, <2>1, <3>1, MeetNumbers
    <3>3. QED
      BY <1>3, <2>1, <3>2 DEF RoomOutlives
  <2>2. CASE r # n
    <3>1. codes'[r] = codes[r] /\ codes[r] < CodeTTL
      BY <1>8, <2>2
    <3>2. RoomOutlives(r, codes[r])
      BY <1>1, <3>1 DEF CodesOutlived
    <3>3. r \notin emptied => rooms'[r] = rooms[r]
      BY <1>2, <2>2, <3>1, SweptNotAwaited
    <3>4. QED
      BY <3>1, <3>2, <3>3 DEF RoomOutlives
  <2>3. QED
    BY <2>1, <2>2
<1>9. ASSUME asking' <= RequestLimit
      PROVE  ours' \in emptied' \/ (rooms'[ours'].there /\ rooms'[ours'].age <= asking')
  <2>1. CASE ours' = ours /\ asking' = asking
    <3>1. ours # 0
      BY <1>1, <1>5, <1>9, <2>1, MeetNumbers DEF HostFirst
    <3>2. ours \notin emptied => rooms'[ours] = rooms[ours]
      BY <1>2, <1>5, <1>9, <2>1, <3>1, SweptNotAwaited
    <3>3. QED
      BY <1>1, <1>9, <2>1, <3>2 DEF CodesOutlived
  <2>2. CASE ours' = n /\ asking' = 0
    BY <1>3, <2>2
  <2>3. QED
    BY <2>1, <2>2
<1>10. CodesOutlived'
  BY <1>8, <1>9 DEF CodesOutlived
<1>11. drawn' \in 0..MaxIds /\ emptied' \subseteq RoomIds
  BY <1>5, MeetTypes, MeetNumbers
<1>12. QED
  BY <1>2, <1>4, <1>6, <1>7, <1>10, <1>11, MeetMade

(* The host asks for a room.                                               *)
LEMMA HostAsksInv == ASSUME MeetInv, HostAsksForRoom PROVE MeetInv'
<1>1. PICK n : n = drawn + 1
  OBVIOUS
<1>2. n \in RoomIds
  BY <1>1, MeetTypes, MeetNumbers DEF HostAsksForRoom, CanCreate, RoomIds
<1>3. rooms' = createRoom(n) /\ drawn' = n /\ ours = 0 /\ ours' = n /\ asking' = 0
      /\ UNCHANGED <<roomVars, codes, emptied, told>>
  BY <1>1 DEF HostAsksForRoom
<1>4. codes' \in [RoomIds -> 0..Gone]
  BY <1>3, MeetTypes
<1>5. QED
  BY <1>1, <1>2, <1>3, <1>4, CreateMeets

(* The registry as it was.                                                 *)
LEMMA RequestMeets ==
    ASSUME MeetInv, UNCHANGED <<roomVars, drawn, emptied, ours>>, RoomsKept(rooms'),
           \A r \in RoomIds : rooms'[r].peers = rooms[r].peers,
           codes' \in [RoomIds -> 0..Gone], asking' \in 0..Done,
           ours = 0 => told' = {} /\ asking' = Done,
           CodesOutlived'
    PROVE  MeetInv'
<1>1. RoomsKept(rooms) /\ HostFirst /\ SeatsAreMembers /\ RoomInv
  BY DEF MeetInv
<1>2. RoomInv' /\ seat' = seat /\ sockets' = sockets /\ wants' = wants
  BY <1>1, RoomStays
<1>3. HostFirst'
  <2>1. Done' = Done
    BY DEF Done
  <2>2. QED
    BY <1>1, <1>2, <2>1 DEF HostFirst
<1>4. SeatsAreMembers'
  BY <1>1, <1>2, MeetTypes DEF SeatsAreMembers
<1>5. drawn' \in 0..MaxIds /\ emptied' \subseteq RoomIds
  BY MeetTypes
<1>6. QED
  BY <1>2, <1>3, <1>4, <1>5, MeetMade

(* The code is shown, or there is none.                                    *)
LEMMA HostShowsInv == ASSUME MeetInv, HostShowsCode PROVE MeetInv'
<1>1. /\ asking # Done /\ asking' = Done /\ told' = {Host}
      /\ rooms' = rooms /\ UNCHANGED <<roomVars, drawn, emptied, ours>>
  BY DEF HostShowsCode
<1>2. RoomsKept(rooms) /\ HostFirst /\ CodesOutlived
  BY DEF MeetInv
<1>3. ours # 0 /\ ours \in RoomIds
  BY <1>1, <1>2, MeetTypes DEF HostFirst
<1>4. /\ codes' \in [RoomIds -> 0..Gone]
      /\ \A r \in RoomIds : codes'[r] < CodeTTL =>
            codes'[r] = codes[r] \/ (r = ours /\ codes'[r] = 0 /\ asking <= RequestLimit)
  <2>1. CASE asking <= RequestLimit /\ codes' = issue(ours)
    <3>1. PICK f \in [RoomIds -> 0..Gone] : f = Fresh(codes) /\ \A r \in RoomIds : f[r] < CodeTTL => f[r] = codes[r]
      BY FreshKeeps
    <3>2. codes' = [f EXCEPT ![ours] = 0]
      BY <2>1, <3>1 DEF issue
    <3>3. 0 \in 0..Gone
      BY MeetNumbers
    <3>4. codes' \in [RoomIds -> 0..Gone]
      BY <3>2, <3>3
    <3>5. codes'[ours] = 0 /\ \A r \in RoomIds : r # ours => codes'[r] = f[r]
      BY <1>3, <3>2
    <3>6. QED
      BY <2>1, <3>1, <3>4, <3>5
  <2>2. CASE codes' = Fresh(codes)
    BY <2>2, FreshKeeps
  <2>3. CASE codes' = codes
    BY <2>3, MeetTypes
  <2>4. QED
    BY <2>1, <2>2, <2>3 DEF HostShowsCode
<1>5. ASSUME NEW r \in RoomIds, codes'[r] < CodeTTL PROVE RoomOutlives(r, codes[r])'
  <2>1. CASE codes'[r] = codes[r]
    <3>1. RoomOutlives(r, codes[r])
      BY <1>2, <1>5, <2>1 DEF CodesOutlived
    <3>2. QED
      BY <1>1, <2>1, <3>1 DEF RoomOutlives
  <2>2. CASE r = ours /\ codes'[r] = 0 /\ asking <= RequestLimit
    <3>1. r \in emptied \/ (rooms[r].there /\ rooms[r].age <= asking)
      BY <1>2, <2>2 DEF CodesOutlived
    <3>2. rooms[r].age \in 0..RoomTTL /\ asking \in 0..Done
      BY MeetTypes
    <3>3. r \notin emptied => rooms[r].there /\ rooms[r].age <= 0 + RequestLimit
      BY <2>2, <3>1, <3>2, MeetNumbers
    <3>4. QED
      BY <1>1, <2>2, <3>3 DEF RoomOutlives
  <2>3. QED
    BY <1>4, <1>5, <2>1, <2>2
<1>6. CodesOutlived'
  BY <1>1, <1>5, MeetNumbers DEF CodesOutlived
<1>7. asking' \in 0..Done
  BY <1>1, MeetNumbers
<1>8. QED
  BY <1>1, <1>2, <1>3, <1>4, <1>6, <1>7, RequestMeets

(* A device learns of the room.                                            *)
LEMMA GuestInv == ASSUME MeetInv, NEW d \in Peers, GuestRedeems(d) \/ GuestReadsLink(d) PROVE MeetInv'
<1>1. RoomsKept(rooms) /\ HostFirst /\ CodesOutlived
  BY DEF MeetInv
<1>2. told # {} /\ rooms' = rooms /\ asking' = asking /\ UNCHANGED <<roomVars, drawn, emptied, ours>>
  BY DEF GuestRedeems, GuestReadsLink, server
<1>3. ours # 0 /\ ours \in RoomIds
  BY <1>1, <1>2, MeetTypes DEF HostFirst
<1>4. codes' \in [RoomIds -> 0..Gone] /\ \A r \in RoomIds : codes'[r] < CodeTTL => codes'[r] = codes[r]
  <2>1. CASE codes' = redeem(ours)
    <3>1. PICK f \in [RoomIds -> 0..Gone] : f = Fresh(codes) /\ \A r \in RoomIds : f[r] < CodeTTL => f[r] = codes[r]
      BY FreshKeeps
    <3>2. codes' = [f EXCEPT ![ours] = Gone]
      BY <2>1, <3>1 DEF redeem
    <3>3. Gone \in 0..Gone /\ ~ (Gone < CodeTTL)
      BY MeetNumbers
    <3>4. codes' \in [RoomIds -> 0..Gone]
      BY <3>2, <3>3
    <3>5. codes'[ours] = Gone /\ \A r \in RoomIds : r # ours => codes'[r] = f[r]
      BY <1>3, <3>2
    <3>6. QED
      BY <3>1, <3>3, <3>4, <3>5
  <2>2. CASE codes' = codes
    BY <2>2, MeetTypes
  <2>3. QED
    BY <2>1, <2>2 DEF GuestRedeems, GuestReadsLink, server
<1>5. CodesOutlived'
  BY <1>1, <1>2, <1>4 DEF CodesOutlived, RoomOutlives
<1>6. asking' \in 0..Done
  BY <1>2, MeetTypes
<1>7. QED
  BY <1>1, <1>2, <1>3, <1>4, <1>5, <1>6, RequestMeets

(* Somebody else asks.                                                     *)
LEMMA StrangerInv == ASSUME MeetInv, StrangerAsks PROVE MeetInv'
<1>1. PICK n : n = drawn + 1
  OBVIOUS
<1>2. n \in RoomIds
  BY <1>1, MeetTypes, MeetNumbers DEF StrangerAsks, RoomIds
<1>3. UNCHANGED <<roomVars, emptied, ours, asking, told>>
  BY DEF StrangerAsks, hostVars
<1>4. PICK f \in [RoomIds -> 0..Gone] : f = Fresh(codes) /\ \A r \in RoomIds : f[r] < CodeTTL => f[r] = codes[r]
  BY FreshKeeps
<1>5. CASE CanCreate
  <2>1. rooms' = createRoom(n) /\ drawn' = n /\ codes' = IF CanIssue THEN issue(n) ELSE f
    BY <1>1, <1>4, <1>5 DEF StrangerAsks
  <2>2. CASE CanIssue
    <3>1. codes' = [f EXCEPT ![n] = 0]
      BY <1>4, <2>1, <2>2 DEF issue
    <3>2. 0 \in 0..Gone
      BY MeetNumbers
    <3>3. codes' \in [RoomIds -> 0..Gone]
      BY <3>1, <3>2
    <3>4. \A r \in RoomIds : r # n /\ codes'[r] < CodeTTL => codes'[r] = codes[r]
      BY <1>4, <3>1
    <3>5. QED
      BY <1>1, <1>2, <1>3, <2>1, <3>3, <3>4, CreateMeets
  <2>3. CASE ~ CanIssue
    <3>1. codes' = f
      BY <2>1, <2>3
    <3>2. codes' \in [RoomIds -> 0..Gone] /\ \A r \in RoomIds : r # n /\ codes'[r] < CodeTTL => codes'[r] = codes[r]
      BY <1>4, <3>1
    <3>3. QED
      BY <1>1, <1>2, <1>3, <2>1, <3>2, CreateMeets
  <2>4. QED
    BY <2>2, <2>3
<1>6. CASE ~ CanCreate
  <2>1. rooms' = sweep(rooms) /\ drawn' = drawn /\ codes' = codes
    BY <1>6 DEF StrangerAsks
  <2>2. RoomsKept(rooms) /\ CodesOutlived /\ HostFirst
    BY DEF MeetInv
  <2>3. RoomsKept(rooms') /\ \A r \in RoomIds : rooms'[r].peers = rooms[r].peers
    BY <2>1, <2>2, SweepKeeps
  <2>4. ASSUME NEW r \in RoomIds, codes'[r] < CodeTTL PROVE RoomOutlives(r, codes[r])'
    <3>1. RoomOutlives(r, codes[r])
      BY <2>1, <2>2, <2>4 DEF CodesOutlived
    <3>2. r \notin emptied => rooms'[r] = rooms[r]
      BY <2>1, <2>4, SweptNotAwaited
    <3>3. QED
      BY <1>3, <2>1, <3>1, <3>2 DEF RoomOutlives
  <2>5. CodesOutlived'
    <3>1. asking <= RequestLimit /\ ours \notin emptied => rooms'[ours] = rooms[ours]
      BY <2>1, SweptNotAwaited
    <3>2. QED
      BY <1>3, <2>2, <2>4, <3>1 DEF CodesOutlived
  <2>6. codes' \in [RoomIds -> 0..Gone] /\ asking' \in 0..Done
    BY <1>3, <2>1, MeetTypes
  <2>7. QED
    BY <1>3, <2>1, <2>2, <2>3, <2>5, <2>6, RequestMeets DEF HostFirst
<1>7. QED
  BY <1>5, <1>6

(* Five minutes pass: a code, its room and a request grow old together.    *)
LEMMA FiveMinutesInv == ASSUME MeetInv, FiveMinutes PROVE MeetInv'
<1>1. /\ rooms' = Aged(rooms) /\ codes' = AgedCodes
      /\ asking' = IF asking <= RequestLimit THEN asking + 1 ELSE asking
      /\ UNCHANGED <<roomVars, drawn, emptied, ours, told>>
  BY DEF FiveMinutes
<1>2. RoomsKept(rooms) /\ CodesOutlived /\ HostFirst
  BY DEF MeetInv
<1>3. /\ RoomsKept(rooms')
      /\ \A r \in RoomIds : rooms'[r].there = rooms[r].there /\ rooms'[r].peers = rooms[r].peers
                            /\ rooms'[r].age <= rooms[r].age + 1
  BY <1>1, <1>2, AgedKeeps
<1>4. \A r \in RoomIds : rooms[r].age \in 0..RoomTTL /\ codes[r] \in 0..Gone
  BY MeetTypes
<1>5. \A r \in RoomIds : rooms'[r].age \in 0..RoomTTL
  BY <1>3 DEF RoomsKept, RoomRecords
<1>6. codes' = [r \in RoomIds |-> IF codes[r] < CodeTTL THEN codes[r] + 1 ELSE codes[r]]
  BY <1>1 DEF AgedCodes
<1>7. codes' \in [RoomIds -> 0..Gone] /\ \A r \in RoomIds : codes'[r] < CodeTTL => codes'[r] = codes[r] + 1 /\ codes[r] < CodeTTL
  <2>1. \A r \in RoomIds : /\ (IF codes[r] < CodeTTL THEN codes[r] + 1 ELSE codes[r]) \in 0..Gone
                           /\ codes[r] < CodeTTL => codes'[r] = codes[r] + 1
                           /\ ~ (codes[r] < CodeTTL) => codes'[r] = codes[r]
    BY <1>4, <1>6, MeetNumbers
  <2>2. codes' \in [RoomIds -> 0..Gone]
    BY <1>6, <2>1
  <2>3. QED
    BY <2>1, <2>2
<1>8. ASSUME NEW r \in RoomIds, codes'[r] < CodeTTL PROVE RoomOutlives(r, codes[r])'
  <2>1. codes'[r] = codes[r] + 1 /\ RoomOutlives(r, codes[r])
    BY <1>2, <1>7, <1>8 DEF CodesOutlived
  <2>2. r \notin emptied => rooms'[r].there /\ (rooms'[r].peers = {} => rooms[r].age <= codes[r] + RequestLimit)
    BY <1>3, <2>1 DEF RoomOutlives
  <2>3. rooms[r].age <= codes[r] + RequestLimit => rooms'[r].age <= codes'[r] + RequestLimit
    BY <1>3, <1>4, <1>5, <2>1, MeetNumbers
  <2>4. QED
    BY <1>1, <2>2, <2>3 DEF RoomOutlives
<1>9. ASSUME asking' <= RequestLimit
      PROVE  ours' \in emptied' \/ (rooms'[ours'].there /\ rooms'[ours'].age <= asking')
  <2>1. asking \in 0..Done
    BY MeetTypes
  <2>2. asking <= RequestLimit /\ asking' = asking + 1
    BY <1>1, <1>9, <2>1, MeetNumbers
  <2>3. ours # 0 /\ ours \in RoomIds
    BY <1>2, <2>1, <2>2, MeetNumbers, MeetTypes DEF HostFirst
  <2>4. ours \in emptied \/ (rooms[ours].there /\ rooms[ours].age <= asking)
    BY <1>2, <2>2 DEF CodesOutlived
  <2>5. rooms'[ours].there = rooms[ours].there /\ (rooms[ours].age <= asking => rooms'[ours].age <= asking + 1)
    BY <1>3, <1>4, <1>5, <2>1, <2>3
  <2>6. QED
    BY <1>1, <2>2, <2>4, <2>5
<1>10. CodesOutlived'
  BY <1>8, <1>9 DEF CodesOutlived
<1>11. asking' \in 0..Done /\ (ours = 0 => asking' = Done)
  <2>1. asking \in 0..Done /\ (ours = 0 => asking = Done)
    BY <1>2, MeetTypes DEF HostFirst
  <2>2. QED
    BY <1>1, <2>1, MeetNumbers
<1>12. QED
  BY <1>1, <1>2, <1>3, <1>7, <1>10, <1>11, RequestMeets DEF HostFirst

(* The sockets and the bridges go on; the registry is as it was.           *)
LEMMA SocketsMeet ==
    ASSUME MeetInv, RoomInv', seat' = seat, UNCHANGED <<server, hostVars>>,
           ours = 0 => sockets' = <<>> /\ wants' = {}
    PROVE  MeetInv'
<1>1. RoomsKept(rooms) /\ HostFirst /\ SeatsAreMembers /\ CodesOutlived
  BY DEF MeetInv
<1>2. /\ rooms' = rooms /\ codes' = codes /\ drawn' = drawn /\ emptied' = emptied
      /\ ours' = ours /\ asking' = asking /\ told' = told
  BY DEF server, hostVars
<1>3. HostFirst'
  BY <1>1, <1>2 DEF HostFirst, Done
<1>4. SeatsAreMembers' /\ CodesOutlived'
  BY <1>1, <1>2 DEF SeatsAreMembers, CodesOutlived, RoomOutlives
<1>5. QED
  BY <1>1, <1>2, <1>3, <1>4, MeetTypes, MeetMade

(* Before the host has a room no device has a socket.                      *)
LEMMA NobodyThere ==
    ASSUME MeetInv, ours = 0
    PROVE  sockets = <<>> /\ DOMAIN sockets = {} /\ Len(sockets) = 0 /\ wants = {} /\ retry = {}
           /\ \A d \in Peers : socket[d] = 0
<1>1. sockets = <<>> /\ wants = {} /\ SocketsTyped
  BY DEF MeetInv, HostFirst, RoomInv, SocketInv
<1>2. Len(sockets) = 0 /\ DOMAIN sockets = {}
  <2>1. Len(sockets) = 0
    BY <1>1, EmptySeq
  <2>2. QED
    BY <1>1, <2>1, TableIs DEF SocketsTyped
<1>3. QED
  BY <1>1, <1>2 DEF SocketsTyped

(* A device goes to the room or leaves it.                                 *)
LEMMA GoesInv == ASSUME MeetInv, NEW d \in Peers, Goes(d) PROVE MeetInv'
<1>1. RoomInv'
  BY ConnectInv, DisconnectInv DEF Goes, MeetInv
<1>2. seat' = seat /\ UNCHANGED <<server, hostVars>> /\ d \in told
  BY DEF Goes, Connect, Disconnect
<1>3. ours # 0
  BY <1>2 DEF MeetInv, HostFirst
<1>4. QED
  BY <1>1, <1>2, <1>3, SocketsMeet

(* A device's step takes nobody's place.                                   *)
LEMMA DeviceSeats == ASSUME NEW d \in Peers, DeviceStep(d) PROVE seat' = seat
<1>1. \A p \in Peers : SendOffer(d, p) \/ ChannelsOpen(d, p) \/ ChannelsClose(d, p) => seat' = seat
  BY DEF SendOffer, ChannelsOpen, ChannelsClose
<1>2. ClientNotices(d) \/ Retry(d) \/ OnJoined(d) \/ OnPeerJoined(d) \/ OnPeerLeft(d) \/ OnError(d) => seat' = seat
  BY DEF ClientNotices, Retry, OnJoined, OnPeerJoined, OnPeerLeft, OnError
<1>3. OnOffer(d) \/ RollBack(d) \/ OnAnswer(d) => seat' = seat
  BY DEF OnOffer, RollBack, OnAnswer
<1>4. QED
  BY <1>1, <1>2, <1>3 DEF DeviceStep

(* A bridge takes a step.                                                  *)
LEMMA DeviceInv == ASSUME MeetInv, NEW d \in Peers, Device(d) PROVE MeetInv'
<1>1. RoomInv' /\ seat' = seat /\ UNCHANGED <<server, hostVars>>
  BY DeviceStepInv, DeviceSeats DEF Device, MeetInv
<1>2. ASSUME ours = 0 PROVE sockets' = <<>> /\ wants' = {}
  <2>1. sockets = <<>> /\ wants = {} /\ retry = {} /\ socket[d] = 0
    BY <1>2, NobodyThere
  <2>2. ~ ClientNotices(d) /\ ~ Retry(d)
    BY <2>1 DEF ClientNotices, Retry
  <2>3. \A type : ~ HasMessage(d, type)
    BY <2>1 DEF HasMessage
  <2>4. /\ ~ OnJoined(d) /\ ~ OnPeerJoined(d) /\ ~ OnPeerLeft(d) /\ ~ OnError(d)
        /\ ~ OnOffer(d) /\ ~ RollBack(d) /\ ~ OnAnswer(d)
    BY <2>3 DEF OnJoined, OnPeerJoined, OnPeerLeft, OnError, OnOffer, RollBack, OnAnswer
  <2>5. PICK p \in Peers : SendOffer(d, p) \/ ChannelsOpen(d, p) \/ ChannelsClose(d, p)
    BY <2>2, <2>4 DEF Device, DeviceStep
  <2>6. sockets' = sockets /\ wants' = wants
    BY <2>1, <2>5 DEF SendOffer, Signalled, ChannelsOpen, ChannelsClose, bridge
  <2>7. QED
    BY <2>1, <2>6
<1>3. QED
  BY <1>1, <1>2, SocketsMeet

(* The server serves a socket only once the host has a room.               *)
LEMMA ServesLater == ASSUME MeetInv, NEW i \in DOMAIN sockets PROVE ours # 0 /\ ours \in RoomIds
  BY NobodyThere, MeetTypes

(* The server passes a signal on.                                          *)
LEMMA SignalsInv == ASSUME MeetInv, NEW i \in DOMAIN sockets, Signals(i) PROVE MeetInv'
<1>1. RoomInv' /\ seat' = seat /\ UNCHANGED <<server, hostVars>>
  BY ServeSignalInv DEF Signals, MeetInv, ServeSignal
<1>2. QED
  BY <1>1, ServesLater, SocketsMeet

(* The server is full.                                                     *)
LEMMA JoinRefusedInv == ASSUME MeetInv, NEW i \in DOMAIN sockets, JoinRefused(i) PROVE MeetInv'
<1>1. RoomInv /\ SocketInv /\ ConnInv /\ SocketsTyped /\ i \in 1..Len(sockets)
  BY TableIs DEF MeetInv, RoomInv, SocketInv, SocketsTyped
<1>2. PICK m \in DownMessages : m = [type |-> "error"]
  BY DEF DownMessages
<1>3. m.type \notin {"joined", "peer-joined"}
  BY <1>2
<1>4. CanServe(i, "join") /\ UNCHANGED <<seat, bridge, rtc, server, hostVars>>
      /\ sockets' = [Received(i) EXCEPT ![i].down = IF sockets[i].link = "up" THEN Append(@, m) ELSE @]
  BY <1>2 DEF JoinRefused
<1>5. Keeps(sockets, Received(i)) /\ Received(i)[i].link = sockets[i].link
  BY <1>1, <1>4, ReceivedKeeps
<1>6. Keeps(sockets, sockets')
  BY <1>1, <1>3, <1>4, <1>5, PutKeeps
<1>7. SocketInv' /\ (EndsSeenInTime' <=> EndsSeenInTime)
  BY <1>1, <1>4, <1>6, DeviceKeepsInv
<1>8. RoomInv'
  BY <1>1, <1>4, <1>7, RtcInv DEF RoomInv
<1>9. QED
  BY <1>4, <1>8, ServesLater, SocketsMeet

(* Somebody joins the host's room, which is made again if it was gone.     *)
LEMMA JoinsInv == ASSUME MeetInv, NEW i \in DOMAIN sockets, Joins(i) PROVE MeetInv'
<1>1. RoomInv /\ SocketsTyped /\ i \in 1..Len(sockets) /\ sockets[i] \in Sockets
  BY TableIs DEF MeetInv, RoomInv, SocketInv, SocketsTyped
<1>2. PICK d \in Peers : d = sockets[i].owner
  BY <1>1, SocketIs
<1>3. PICK n \in RoomIds : n = ours
  BY ServesLater
<1>4. RoomInv'
  BY <1>1, ServeJoinInv DEF Joins
<1>5. /\ seat' = [seat EXCEPT ![d] = i] /\ rooms' = join(rooms, n, d)
      /\ UNCHANGED <<codes, drawn, emptied, hostVars>> /\ UNCHANGED bridge
  BY <1>2, <1>3 DEF Joins, ServeJoin
<1>6. RoomsKept(rooms) /\ HostFirst /\ SeatsAreMembers /\ CodesOutlived /\ d \in Clients
  BY MeetNumbers DEF MeetInv
<1>7. /\ RoomsKept(rooms') /\ \A r \in RoomIds : r # n => rooms'[r] = rooms[r]
      /\ rooms'[n].there /\ rooms'[n].peers = rooms[n].peers \cup {d} /\ rooms'[n].age = rooms[n].age
  BY <1>5, <1>6, JoinRoomKeeps
<1>8. n # 0 /\ ours' = n /\ asking' = asking /\ told' = told /\ emptied' = emptied /\ codes' = codes /\ drawn' = drawn
  BY <1>3, <1>5 DEF RoomIds, hostVars
<1>9. HostFirst'
  BY <1>3, <1>6, <1>8 DEF HostFirst, Done
<1>10. SeatsAreMembers'
  <2>1. seat \in [Peers -> 0..Len(sockets)] /\ i # 0
    BY <1>1, TableIs DEF SocketsTyped
  <2>2. seat'[d] = i /\ \A e \in Peers : e # d => seat'[e] = seat[e]
    BY <1>5, <2>1
  <2>3. QED
    BY <1>3, <1>6, <1>7, <1>8, <2>1, <2>2 DEF SeatsAreMembers
<1>11. ASSUME NEW r \in RoomIds, codes'[r] < CodeTTL PROVE RoomOutlives(r, codes[r])'
  <2>1. RoomOutlives(r, codes[r])
    BY <1>6, <1>8, <1>11 DEF CodesOutlived
  <2>2. CASE r = n
    BY <1>7, <2>2 DEF RoomOutlives
  <2>3. CASE r # n
    BY <1>7, <1>8, <2>1, <2>3 DEF RoomOutlives
  <2>4. QED
    BY <2>2, <2>3
<1>12. CodesOutlived'
  BY <1>3, <1>6, <1>7, <1>8, <1>11 DEF CodesOutlived
<1>13. QED
  BY <1>4, <1>7, <1>8, <1>9, <1>10, <1>12, MeetTypes, MeetMade

(* Somebody leaves it, and the last one out takes it along.                *)
LEMMA LeavesInv == ASSUME MeetInv, NEW i \in DOMAIN sockets, Leaves(i) PROVE MeetInv'
<1>1. RoomInv /\ SocketsTyped /\ i \in 1..Len(sockets) /\ sockets[i] \in Sockets
  BY TableIs DEF MeetInv, RoomInv, SocketInv, SocketsTyped
<1>2. PICK d \in Peers : d = sockets[i].owner
  BY <1>1, SocketIs
<1>3. PICK n \in RoomIds : n = ours /\ n # 0
  BY ServesLater
<1>4. RoomInv'
  BY <1>1, ServeCloseInv DEF Leaves
<1>5. /\ seat' = IF sockets[i].joined THEN [seat EXCEPT ![d] = 0] ELSE seat
      /\ rooms' = IF sockets[i].joined THEN leave(rooms, n, d) ELSE rooms
      /\ emptied' = emptied \cup (There(rooms) \ There(rooms'))
      /\ UNCHANGED <<codes, drawn, hostVars>> /\ UNCHANGED bridge
  BY <1>2, <1>3 DEF Leaves, ServeClose, Left
<1>6. RoomsKept(rooms) /\ HostFirst /\ SeatsAreMembers /\ CodesOutlived /\ d \in Clients
  BY MeetNumbers DEF MeetInv
<1>7. /\ ours' = n /\ asking' = asking /\ told' = told /\ codes' = codes /\ drawn' = drawn
  BY <1>3, <1>5 DEF hostVars
<1>8. HostFirst'
  BY <1>3, <1>6, <1>7 DEF HostFirst, Done
<1>9. RoomsKept(rooms') /\ emptied' \subseteq RoomIds /\ emptied \subseteq emptied'
  BY <1>5, <1>6, LeaveRoomKeeps, MeetTypes DEF There
<1>10. SeatsAreMembers'
  <2>1. CASE sockets[i].joined
    <3>1. rooms'[n].peers = rooms[n].peers \ {d}
      BY <1>5, <1>6, <2>1, LeaveRoomKeeps
    <3>2. seat \in [Peers -> 0..Len(sockets)]
      BY <1>1 DEF SocketsTyped
    <3>3. seat'[d] = 0 /\ \A e \in Peers : e # d => seat'[e] = seat[e]
      BY <1>5, <2>1, <3>2
    <3>4. QED
      BY <1>3, <1>6, <1>7, <3>1, <3>3 DEF SeatsAreMembers
  <2>2. CASE ~ sockets[i].joined
    BY <1>3, <1>5, <1>6, <1>7, <2>2 DEF SeatsAreMembers
  <2>3. QED
    BY <2>1, <2>2
<1>11. ASSUME NEW r \in RoomIds, rooms[r].there
       PROVE  \/ r \in emptied' \/ rooms'[r] = rooms[r]
              \/ rooms'[r].there /\ rooms'[r].peers # {} /\ rooms'[r].age = rooms[r].age
  <2>1. CASE sockets[i].joined /\ r = n
    <3>1. rooms'[n].there => rooms'[n].peers # {} /\ rooms'[n].age = rooms[n].age
      BY <1>5, <1>6, <2>1, LeaveRoomKeeps
    <3>2. ~ rooms'[n].there => n \in emptied'
      BY <1>5, <1>11, <2>1 DEF There
    <3>3. QED
      BY <2>1, <3>1, <3>2
  <2>2. CASE sockets[i].joined /\ r # n
    BY <1>5, <1>6, <2>2, LeaveRoomKeeps
  <2>3. CASE ~ sockets[i].joined
    BY <1>5, <2>3
  <2>4. QED
    BY <2>1, <2>2, <2>3
<1>12. ASSUME NEW r \in RoomIds, codes'[r] < CodeTTL PROVE RoomOutlives(r, codes[r])'
  <2>1. RoomOutlives(r, codes[r])
    BY <1>6, <1>7, <1>12 DEF CodesOutlived
  <2>2. QED
    BY <1>7, <1>9, <1>11, <2>1 DEF RoomOutlives
<1>13. ASSUME asking <= RequestLimit
       PROVE  n \in emptied' \/ (rooms'[n].there /\ rooms'[n].age <= asking)
  BY <1>3, <1>6, <1>9, <1>11, <1>13 DEF CodesOutlived
<1>14. CodesOutlived'
  BY <1>7, <1>12, <1>13 DEF CodesOutlived
<1>15. QED
  BY <1>4, <1>7, <1>8, <1>9, <1>10, <1>14, MeetTypes, MeetMade

(* At first there is nothing.                                              *)
LEMMA InitMeet == ASSUME MeetInit PROVE MeetInv
<1>1. RoomInv /\ sockets = <<>> /\ wants = {} /\ \A d \in Peers : seat[d] = 0
  BY InitRoom DEF MeetInit, RoomInit
<1>2. NoRoom \in RoomRecords /\ NoRoom.peers = {}
  BY MeetNumbers DEF NoRoom, RoomRecords
<1>3. rooms = [r \in RoomIds |-> NoRoom] /\ codes = [r \in RoomIds |-> Gone] /\ drawn = 0 /\ emptied = {}
      /\ ours = 0 /\ asking = Done /\ told = {}
  BY DEF MeetInit, ServerInit
<1>4. RoomsKept(rooms)
  BY <1>2, <1>3 DEF RoomsKept
<1>5. ServerTypeOK
  BY <1>3, <1>4, MeetNumbers DEF ServerTypeOK, RoomsKept, RoomRecords
<1>6. HostFirst /\ SeatsAreMembers /\ CodesOutlived
  BY <1>1, <1>3, MeetNumbers DEF HostFirst, SeatsAreMembers, CodesOutlived
<1>7. QED
  BY <1>1, <1>4, <1>5, <1>6 DEF MeetInv

(* Every step of the meeting.                                              *)
LEMMA NextMeet == ASSUME MeetInv, [MeetNext]_meetVars PROVE MeetInv'
<1>1. CASE HostAsksForRoom \/ HostShowsCode \/ StrangerAsks \/ FiveMinutes
  BY <1>1, HostAsksInv, HostShowsInv, StrangerInv, FiveMinutesInv
<1>2. CASE \E d \in Peers : GuestRedeems(d) \/ GuestReadsLink(d) \/ Goes(d) \/ Device(d)
  BY <1>2, GuestInv, GoesInv, DeviceInv
<1>3. CASE \E i \in DOMAIN sockets : Server(i)
  BY <1>3, JoinsInv, JoinRefusedInv, SignalsInv, LeavesInv DEF Server
<1>4. CASE UNCHANGED meetVars
  <2>1. RoomInv' /\ seat' = seat /\ sockets' = sockets /\ wants' = wants /\ UNCHANGED <<server, hostVars>>
    BY <1>4, RoomStays DEF meetVars, hostVars, MeetInv
  <2>2. QED
    BY <2>1, NobodyThere, SocketsMeet
<1>5. QED
  BY <1>1, <1>2, <1>3, <1>4 DEF MeetNext

(* CodeHasRoom: the registry and the sockets agree on who is in the room,  *)
(* and as long as a code can be redeemed its room is there, unless         *)
(* somebody was in it and left.                                            *)
THEOREM CodeHasRoomAlways == MeetSpec => []CodeHasRoom
<1>1. MeetInit => MeetInv
  BY InitMeet
<1>2. MeetInv /\ [MeetNext]_meetVars => MeetInv'
  BY NextMeet
<1>3. MeetInv => CodeHasRoom
  <2>1. ASSUME MeetInv PROVE CodeHasRoom
    <3>1. RendezvousTypeOK
      BY <2>1 DEF MeetInv, RoomInv, SocketInv, SocketsTyped, ConnInv, RendezvousTypeOK
    <3>2. ASSUME NEW r \in RoomIds, Redeemable(r), r \notin emptied PROVE rooms[r].there
      <4>1. codes[r] < CodeTTL
        <5>1. codes[r] \in 0..Gone /\ ~ (codes[r] >= CodeTTL)
          BY <2>1, <3>2, MeetTypes DEF Redeemable, Fresh
        <5>2. QED
          BY <5>1, MeetNumbers
      <4>2. QED
        BY <2>1, <3>2, <4>1, SweptNotAwaited
    <3>3. QED
      BY <2>1, <3>1, <3>2 DEF MeetInv, SeatsAreMembers, CodeHasRoom
  <2>2. QED
    BY <2>1
<1>4. QED
  BY <1>1, <1>2, <1>3, PTL DEF MeetSpec
===============================================================================
