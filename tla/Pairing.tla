------------------------------- MODULE Pairing -------------------------------
(***************************************************************************)
(* How a device comes to know another: the code it shows or reads, the     *)
(* room it sits in, the handshake of a session up to the verdict on the    *)
(* peer (packages/identity), the question to the person in the middle of   *)
(* it, the pinned keys and rooms, and the device list (VaultServices), as  *)
(* the interface drives them (App.tsx).                                    *)
(*                                                                         *)
(* One device, Me, runs this code.  The others do as they like: join and   *)
(* leave rooms, connect, greet, fail.  A device id is the hash of its key, *)
(* so an id and a key are one value, and the verdict key-mismatch needs    *)
(* two keys with one hash.  A session past its handshake is one phase      *)
(* here; SyncSession has what it does.                                     *)
(***************************************************************************)
EXTENDS Naturals, FiniteSets

CONSTANTS
    Devices,  \* the other devices
    Conns,    \* peer ids of connections: a relaunched device has a new one
    Rooms,    \* rooms, each with its token and its server
    None,
    Faults    \* which of FaultKinds can happen

(* close: a connection is lost.  fail: a session fails before its verdict. *)
(* restart: this device restarts.                                          *)
FaultKinds == {"close", "fail", "restart"}

ASSUME PairingAssumption ==
    /\ None \notin Devices \cup Conns \cup Rooms
    /\ Faults \subseteq FaultKinds

VARIABLES
    peerOf,    \* connection -> the device at its other end, or None
    online,    \* connections that livePeers attributes to a device
    room,      \* the room the bridge is in, or None
    making,    \* the room of a createPairingCode under way, or None
    uiPairing, \* pairingMode of the interface
    syncing,   \* the connection the interface runs a session on, or None
    rejoined,  \* the interface has gone to the standing rendezvous
    window,    \* pairingStartedAt is less than five minutes ago
    pending,   \* pendingRendezvous, or None
    session,   \* connection -> the session in flight on it
    prompt,    \* verification: the connection asking, for which device, how long
    screen,    \* the device whose number the interface shows, or None
    trust,     \* the devices table
    meetAt     \* the device_rendezvous table

vars == <<peerOf, online, room, making, uiPairing, syncing, rejoined, window, pending, session,
          prompt, screen, trust, meetAt>>
linkVars == <<peerOf, online, room>>
stored == <<trust, meetAt>>

Idle == [phase |-> "none", pairing |-> FALSE]
NoPrompt == [conn |-> None, device |-> None, old |-> FALSE]

Init ==
    /\ peerOf = [p \in Conns |-> None] /\ online = {} /\ room = None
    /\ making = None /\ uiPairing = FALSE /\ syncing = None /\ rejoined = FALSE
    /\ window = FALSE /\ pending = None
    /\ session = [p \in Conns |-> Idle] /\ prompt = NoPrompt /\ screen = None
    /\ trust = [d \in Devices |-> "none"] /\ meetAt = [d \in Devices |-> None]

-----------------------------------------------------------------------------
(* Rooms.                                                                  *)

(* PeerBridge.connect: whatever was connected is torn down first.          *)
connect(r) ==
    /\ room' = r
    /\ peerOf' = [p \in Conns |-> None]
    /\ online' = {}

(* createPairingCode up to the answer of POST /rooms.  A server that has   *)
(* no room to give changes nothing.                                        *)
CreateRoom(r) ==
    /\ making = None
    /\ making' = r /\ pending' = r /\ window' = TRUE
    /\ UNCHANGED <<linkVars, uiPairing, syncing, rejoined, session, prompt, screen, stored>>

(* The rest of it, with a short code or with the link only; then           *)
(* startPairing goes to the room.                                          *)
ShowCode ==
    /\ making # None
    /\ connect(making)
    /\ uiPairing' = TRUE /\ making' = None
    /\ UNCHANGED <<syncing, rejoined, window, pending, session, prompt, screen, stored>>

(* readPairingCode, with a link or with a code that is good; then          *)
(* acceptPairing goes to the room.  One that is not good changes nothing.  *)
ReadCode(r) ==
    /\ making = None
    /\ pending' = r /\ window' = TRUE /\ uiPairing' = TRUE
    /\ connect(r)
    /\ UNCHANGED <<making, syncing, rejoined, session, prompt, screen, stored>>

(* rendezvousFor, and standingRendezvous: the room of a paired device.     *)
(* Which of several is the latest is left open.                            *)
rendezvousFor(d) == meetAt[d]
standingRendezvous == {meetAt[d] : d \in {e \in Devices : trust[e] = "paired"}} \ {None}

(* Both leave the room in pendingRendezvous.                               *)
GoesTo(r) == pending' = r /\ connect(r)

(* syncWith, offered for a device that is paired and has a room.           *)
SyncWith(d) ==
    /\ trust[d] = "paired" /\ rendezvousFor(d) # None
    /\ uiPairing' = FALSE
    /\ GoesTo(rendezvousFor(d))
    /\ UNCHANGED <<making, syncing, rejoined, window, session, prompt, screen, stored>>

(* The interface's effect on the first snapshot with a device in it.       *)
Rejoin ==
    /\ ~ rejoined /\ \E d \in Devices : trust[d] # "none"
    /\ rejoined' = TRUE
    /\ IF standingRendezvous = {} THEN UNCHANGED <<linkVars, pending>>
       ELSE \E r \in standingRendezvous : GoesTo(r)
    /\ UNCHANGED <<making, uiPairing, syncing, window, session, prompt, screen, stored>>

-----------------------------------------------------------------------------
(* Sessions.                                                               *)

Begun(p, pairing) == session' = [session EXCEPT ![p] = [phase |-> "hello", pairing |-> pairing]]

(* runSync.  If the services have a session with that peer already, they   *)
(* say so at once, and the interface is out of pairing mode.               *)
RunSync(p) ==
    IF syncing # None THEN UNCHANGED <<syncing, session, uiPairing>>
    ELSE IF session[p] # Idle THEN uiPairing' = FALSE /\ UNCHANGED <<syncing, session>>
    ELSE syncing' = p /\ Begun(p, uiPairing) /\ UNCHANGED uiPairing

(* Both channels to a member of the room are open: peerOpened, onPeer.     *)
(* What comes back under the same peer id is the same launch of a device.  *)
PeerOpens(p, d) ==
    /\ peerOf[p] = None
    /\ prompt.conn = p => prompt.device = d
    /\ room # None
    /\ peerOf' = [peerOf EXCEPT ![p] = d]
    /\ RunSync(p)
    /\ UNCHANGED <<online, room, making, rejoined, window, pending, prompt, screen, stored>>

(* onSyncSuggested, after a save.                                          *)
SyncSuggested(p) ==
    /\ peerOf[p] # None
    /\ RunSync(p)
    /\ UNCHANGED <<linkVars, making, rejoined, window, pending, prompt, screen, stored>>

(* onPeerInitiated: a hello starts a session, in pairing mode if a code    *)
(* was made or read not long ago.                                          *)
PeerInitiated(p) ==
    /\ peerOf[p] # None /\ session[p] = Idle
    /\ Begun(p, window)
    /\ UNCHANGED <<linkVars, making, uiPairing, syncing, rejoined, window, pending, prompt,
                   screen, stored>>

PeerCloses(p) ==
    /\ "close" \in Faults
    /\ peerOf[p] # None
    /\ peerOf' = [peerOf EXCEPT ![p] = None]
    /\ online' = online \ {p}
    /\ UNCHANGED <<room, making, uiPairing, syncing, rejoined, window, pending, session,
                   prompt, screen, stored>>

(* settleVerification(false) in the finally of runSession: the prompt of   *)
(* the moment is withdrawn, whosever it is, and its handshake rejects.     *)
Ended(p) == {p} \cup {q \in Conns : prompt.conn = q}

(* The finally of runSession, and of runSync.                              *)
End(p) ==
    /\ session' = [q \in Conns |-> IF q \in Ended(p) THEN Idle ELSE session[q]]
    /\ prompt' = NoPrompt
    /\ syncing' = IF syncing \in Ended(p) THEN None ELSE syncing
    /\ uiPairing' = (uiPairing /\ syncing \notin Ended(p))

(* A session ends, well or badly.  The one that waits for a person does    *)
(* not: nothing but the answer, the timer or the end of another ends it.   *)
SessionEnds(p) ==
    /\ session[p].phase = "sync" \/ (session[p].phase = "hello" /\ "fail" \in Faults)
    /\ End(p)
    /\ UNCHANGED <<linkVars, making, rejoined, window, pending, screen, stored>>

rememberRendezvous(d, r) == [meetAt EXCEPT ![d] = r]

(* The "authenticated" event: the room is remembered, and the connection   *)
(* is attributed if it still stands.                                       *)
Authenticated(p, d) ==
    /\ session' = [session EXCEPT ![p].phase = "sync"]
    /\ meetAt' = IF pending = None THEN meetAt ELSE rememberRendezvous(d, pending)
    /\ online' = IF peerOf[p] = None THEN online ELSE online \cup {p}

(* Mutation: a second peer replaces the number on the screen.              *)
mut_CanPrompt == TRUE

(* awaitPairingConfirmation turns a second peer down.                      *)
CanPrompt == prompt = NoPrompt

evaluateTrust(d) ==
    CASE trust[d] = "none" -> "unknown-device"
      [] trust[d] = "revoked" -> "revoked"
      [] trust[d] = "paired" -> "trusted"

(* verifyPeer, once the peer's hello and its signature are there.          *)
VerifyPeer(p) ==
    LET d == peerOf[p]
        verdict == evaluateTrust(d)
    IN  /\ session[p].phase = "hello" /\ d # None
        /\ \/ /\ verdict = "trusted"
              /\ Authenticated(p, d)
              /\ UNCHANGED <<prompt, syncing, uiPairing>>
           \/ /\ verdict = "unknown-device" /\ session[p].pairing /\ CanPrompt
              /\ prompt' = [conn |-> p, device |-> d, old |-> FALSE]
              /\ session' = [session EXCEPT ![p].phase = "prompt"]
              /\ UNCHANGED <<online, meetAt, syncing, uiPairing>>
           \/ /\ \/ verdict = "revoked"
                 \/ verdict = "unknown-device" /\ ~ (session[p].pairing /\ CanPrompt)
              /\ End(p)
              /\ UNCHANGED <<online, meetAt>>
        /\ UNCHANGED <<peerOf, room, making, rejoined, window, pending, screen, trust>>

(* A snapshot brings the interface up to date with the prompt.  It comes    *)
(* when it comes: pushSnapshot waits for the database, and the channel to  *)
(* the interface for both.  An answer on its way back is one not given     *)
(* yet, to a screen that has not changed since.                            *)
ShowSnapshot ==
    /\ screen # prompt.device
    /\ screen' = prompt.device
    /\ UNCHANGED <<linkVars, making, uiPairing, syncing, rejoined, window, pending, session,
                   prompt, stored>>

(* The buttons of VerifyCard, as long as it is on the screen.  What they   *)
(* send is a yes or a no, without the number it is for: answerVerification *)
(* takes it for the prompt of the moment, and does nothing if there is     *)
(* none.                                                                   *)
Answerable == screen # None /\ prompt # NoPrompt

(* With yes the key of the prompt's device is pinned, whether or not the   *)
(* peer is still there, and the session goes on.                           *)
Confirm ==
    /\ Answerable
    /\ trust' = [trust EXCEPT ![prompt.device] = "paired"]
    /\ Authenticated(prompt.conn, prompt.device)
    /\ prompt' = NoPrompt
    /\ UNCHANGED <<peerOf, room, making, uiPairing, syncing, rejoined, window, pending, screen>>

(* With no, or the five minutes are over: the handshake rejects.           *)
Refused(why) ==
    /\ prompt # NoPrompt /\ why
    /\ End(prompt.conn)
    /\ UNCHANGED <<linkVars, making, rejoined, window, pending, screen, stored>>

Refuse == Refused(Answerable)

(* Mutation: the timer is not set.                                         *)
mut_PromptTimesOut == Refused(FALSE)

PromptTimesOut == Refused(prompt.old)

-----------------------------------------------------------------------------
(* The device list.                                                        *)

Lists(d, row, where) ==
    /\ trust' = [trust EXCEPT ![d] = row]
    /\ meetAt' = [meetAt EXCEPT ![d] = where]
    /\ UNCHANGED <<linkVars, making, uiPairing, syncing, rejoined, window, pending, session,
                   prompt, screen>>

DisconnectDevice(d) == trust[d] = "paired" /\ Lists(d, "revoked", meetAt[d])

ReconnectDevice(d) == trust[d] = "revoked" /\ Lists(d, "paired", meetAt[d])

(* Mutation: the key goes, the room stays.                                 *)
mut_ForgetDevice(d) == trust[d] # "none" /\ Lists(d, "none", meetAt[d])

ForgetDevice(d) == trust[d] # "none" /\ Lists(d, "none", None)

(* The process ends and starts again with what it has stored.              *)
Restart ==
    /\ "restart" \in Faults
    /\ making' = None /\ uiPairing' = FALSE /\ syncing' = None /\ rejoined' = FALSE
    /\ window' = FALSE /\ pending' = None
    /\ session' = [p \in Conns |-> Idle] /\ prompt' = NoPrompt /\ screen' = None
    /\ connect(None)
    /\ UNCHANGED <<stored>>

-----------------------------------------------------------------------------
(* Five minutes pass.                                                      *)
Tick ==
    /\ window' = FALSE
    /\ prompt' = IF prompt = NoPrompt THEN prompt ELSE [prompt EXCEPT !.old = TRUE]
    /\ UNCHANGED <<linkVars, making, uiPairing, syncing, rejoined, pending, session, screen,
                   stored>>

Next ==
    \/ \E r \in Rooms : CreateRoom(r) \/ ReadCode(r)
    \/ ShowCode \/ Rejoin
    \/ \E d \in Devices : SyncWith(d) \/ DisconnectDevice(d) \/ ReconnectDevice(d) \/ ForgetDevice(d)
    \/ \E p \in Conns :
          \/ \E d \in Devices : PeerOpens(p, d)
          \/ SyncSuggested(p) \/ PeerInitiated(p) \/ PeerCloses(p) \/ SessionEnds(p) \/ VerifyPeer(p)
    \/ ShowSnapshot \/ Confirm \/ Refuse \/ PromptTimesOut
    \/ Restart
    \/ Tick

(* Time passes and timers fire.                                            *)
Fairness == WF_vars(Tick) /\ WF_vars(PromptTimesOut)

Spec == Init /\ [][Next]_vars /\ Fairness

-----------------------------------------------------------------------------
TypeOK ==
    /\ peerOf \in [Conns -> Devices \cup {None}] /\ online \subseteq Conns
    /\ {room, making, pending} \subseteq Rooms \cup {None}
    /\ {uiPairing, rejoined, window} \subseteq BOOLEAN
    /\ syncing \in Conns \cup {None}
    /\ session \in [Conns -> [phase : {"none", "hello", "prompt", "sync"}, pairing : BOOLEAN]]
    /\ prompt \in [conn : Conns, device : Devices, old : BOOLEAN] \cup {NoPrompt}
    /\ screen \in Devices \cup {None}
    /\ trust \in [Devices -> {"none", "paired", "revoked"}]
    /\ meetAt \in [Devices -> Rooms \cup {None}]

(* The prompt belongs to a handshake that waits for it, and no handshake   *)
(* waits without one; it is never about a device that has a key pinned     *)
(* already, or that was disconnected.  The interface does not wait for a   *)
(* session that is over, and shows nobody as online who is not connected.  *)
PromptIsAwaited ==
    /\ TypeOK
    /\ \A p \in Conns : session[p].phase = "prompt" <=> prompt.conn = p
    /\ prompt # NoPrompt => trust[prompt.device] = "none"
    /\ syncing # None => session[syncing] # Idle
    /\ \A p \in online : peerOf[p] # None

Waiting(d) == \E p \in Conns : peerOf[p] = d /\ session[p].phase = "prompt"

(* A session pins a key only by an answer to a number on the screen, and   *)
(* never another device's as long as the one whose number that is waits:   *)
(* nothing replaces a prompt under the eyes of a person whose screen is    *)
(* behind.  A device that was disconnected comes back from the device list *)
(* only, never by a session.                                               *)
PinnedByPerson ==
    [][\A d \in Devices : trust'[d] = "paired" /\ trust[d] # "paired" =>
          IF trust[d] = "none" THEN screen # None /\ (screen = d \/ ~ Waiting(screen))
          ELSE UNCHANGED <<session, prompt>>]_vars

(* A forgotten device leaves no room behind that the device would go to.   *)
ForgottenEntirely == \A d \in Devices : meetAt[d] # None => trust[d] # "none"

(* A handshake that waits for a person does not wait for ever, whatever    *)
(* the other device, the network and the person do.                        *)
PromptSettles == \A p \in Conns : prompt.conn = p ~> prompt.conn # p

-----------------------------------------------------------------------------
(* A statement of the code that it does not keep.                          *)

(* awaitPairingConfirmation on a number in the place of another: this "is  *)
(* precisely how a person is tricked into confirming the wrong thing".  A  *)
(* yes pins the device whose number was read.                              *)
AnswerIsForItsNumber ==
    [][\A d \in Devices : trust[d] = "none" /\ trust'[d] = "paired" => screen = d]_vars
=============================================================================
