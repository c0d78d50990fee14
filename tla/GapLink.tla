------------------------------ MODULE GapLink -------------------------------
(***************************************************************************)
(* When the device can be found and connected to (main/ble.c). The         *)
(* controller keeps the links and the advertisement; the NimBLE host       *)
(* learns of them from a queue of events, which ble_gap_event and the GATT *)
(* callbacks answer, one after the other, by ble_app_advertise. Module     *)
(* Provisioning models what these callbacks do to the variable table.      *)
(***************************************************************************)
EXTENDS Naturals, Sequences, FiniteSets

CONSTANTS
    Handles,    \* connection handles
    MaxConns,   \* CONFIG_BT_NIMBLE_MAX_CONNECTIONS
    MaxErrors   \* bound on hardware errors of the controller

ASSUME ConnsAssumption == MaxConns \in Nat \ {0} /\ MaxErrors \in Nat

VARIABLES
    ctrlAdv,    \* the controller advertises
    links,      \* the links the controller has
    queue,      \* events on their way to the host task
    synced,     \* host and controller are in sync
    hostAdv,    \* NimBLE's advertising operation is under way
    conns,      \* the connections the host knows
    pc,         \* where the host task is
    errors      \* hardware errors so far

controller == <<ctrlAdv, links>>
vars == <<ctrlAdv, links, queue, synced, hostAdv, conns, pc, errors>>

Event == [kind : {"connected", "disconnected", "write"}, conn : Handles]
         \cup [kind : {"failed", "error"}]

TypeOK ==
    /\ ctrlAdv \in BOOLEAN /\ links \subseteq Handles
    /\ queue \in Seq(Event)
    /\ synced \in BOOLEAN /\ hostAdv \in BOOLEAN /\ conns \subseteq Handles
    /\ pc \in {"idle", "delay", "advertise", "reset"}
    /\ errors \in 0 .. MaxErrors

-----------------------------------------------------------------------------
(* The controller and the centrals. Events reach the host in order.        *)

Notify(e) == queue' = Append(queue, e)
Pending(e) == \E i \in 1 .. Len(queue) : queue[i] = e
LinkedNoHandle(h) == [kind |-> "connected"]
Linked(h) == [kind |-> "connected", conn |-> h]
Unlinked(h) == [kind |-> "disconnected", conn |-> h]
Written(h) == [kind |-> "write", conn |-> h]
Failed == [kind |-> "failed"]
Error == [kind |-> "error"]

\* A link ends the advertisement. A handle is used again when nobody
\* remembers it.
Connect(h) ==
    /\ ctrlAdv /\ h \notin links \cup conns
    /\ ~Pending(Linked(h)) /\ ~Pending(Unlinked(h))
    /\ ctrlAdv' = FALSE
    /\ links' = links \cup {h}
    /\ Notify(Linked(h))
    /\ UNCHANGED <<synced, hostAdv, conns, pc, errors>>

ConnectFails ==
    /\ ctrlAdv
    /\ ctrlAdv' = FALSE
    /\ Notify(Failed)
    /\ UNCHANGED <<links, synced, hostAdv, conns, pc, errors>>

Disconnect(h) ==
    /\ h \in links
    /\ links' = links \ {h}
    /\ Notify(Unlinked(h))
    /\ UNCHANGED <<ctrlAdv, synced, hostAdv, conns, pc, errors>>

\* A client has one GATT request under way at a time.
Write(h) ==
    /\ h \in links /\ ~Pending(Written(h))
    /\ Notify(Written(h))
    /\ UNCHANGED <<controller, synced, hostAdv, conns, pc, errors>>

\* The controller fails and is mute until the host resets it.
HardwareError ==
    /\ errors < MaxErrors /\ synced /\ ~Pending(Error)
    /\ errors' = errors + 1
    /\ ctrlAdv' = FALSE
    /\ links' = {}
    /\ Notify(Error)
    /\ UNCHANGED <<synced, hostAdv, conns, pc>>

Environment ==
    \/ \E h \in Handles : Connect(h) \/ Disconnect(h) \/ Write(h)
    \/ ConnectFails
    \/ HardwareError

-----------------------------------------------------------------------------
(* The host task, which serves one event at a time.                        *)

Serve(e) ==
    /\ pc = "idle" /\ queue # <<>>
    /\ Head(queue) = e
    /\ queue' = Tail(queue)

\* BLE_GAP_EVENT_CONNECT with status 0: ble_gap_event only logs it.
OnConnectLost(h) ==
    /\ Serve(Linked(h))
    /\ conns' = conns \cup {h}
    /\ UNCHANGED <<controller, synced, hostAdv, pc, errors>>
OnConnect(h) ==
    /\ Serve(Linked(h))
    /\ hostAdv' = FALSE
    /\ conns' = conns \cup {h}
    /\ UNCHANGED <<controller, synced, pc, errors>>

\* BLE_GAP_EVENT_CONNECT with another status.
OnConnectFailedDrop ==
    /\ Serve(Failed)
    /\ hostAdv' = FALSE
    /\ UNCHANGED <<controller, synced, conns, pc, errors>>
OnConnectFailed ==
    /\ Serve(Failed)
    /\ hostAdv' = FALSE
    /\ pc' = "advertise"
    /\ UNCHANGED <<controller, synced, conns, errors>>

\* BLE_GAP_EVENT_DISCONNECT: the callback sleeps, and the host task with it.
OnDisconnect(h) ==
    /\ Serve(Unlinked(h))
    /\ conns' = conns \ {h}
    /\ pc' = "delay"
    /\ UNCHANGED <<controller, synced, hostAdv, errors>>

DelayForever == pc = "delay" /\ UNCHANGED vars
DelayEnds ==
    /\ pc = "delay"
    /\ pc' = "advertise"
    /\ UNCHANGED <<controller, queue, synced, hostAdv, conns, errors>>

\* A GATT write ends in ble_app_advertise, though the writer is connected.
OnWrite(h) ==
    /\ Serve(Written(h))
    /\ pc' = IF h \in conns THEN "advertise" ELSE "idle"
    /\ UNCHANGED <<controller, synced, hostAdv, conns, errors>>

\* The host resets: it drops the connections and the advertisement, and tells
\* ble_gap_event of each.
OnError ==
    /\ Serve(Error)
    /\ synced' = FALSE
    /\ pc' = "reset"
    /\ UNCHANGED <<controller, hostAdv, conns, errors>>

ResetConn(h) ==
    /\ pc = "reset" /\ h \in conns
    /\ conns' = conns \ {h}
    /\ pc' = "delay"
    /\ UNCHANGED <<controller, queue, synced, hostAdv, errors>>

\* BLE_GAP_EVENT_ADV_COMPLETE
ResetAdv ==
    /\ pc = "reset" /\ conns = {} /\ hostAdv
    /\ hostAdv' = FALSE
    /\ pc' = "advertise"
    /\ UNCHANGED <<controller, queue, synced, conns, errors>>

\* ble_app_on_sync
OnSync ==
    /\ pc = "reset" /\ conns = {} /\ ~hostAdv
    /\ synced' = TRUE
    /\ pc' = "advertise"
    /\ UNCHANGED <<controller, queue, hostAdv, conns, errors>>

\* ble_gap_adv_start is refused while the host is out of sync, while it
\* advertises, and while no connection is free; ble_app_advertise ignores it.
StartAcceptedFull == synced /\ ~hostAdv
StartAccepted == synced /\ ~hostAdv /\ Cardinality(conns) < MaxConns

AdvStart ==
    /\ pc = "advertise"
    /\ hostAdv' = IF StartAccepted THEN TRUE ELSE hostAdv
    /\ ctrlAdv' = IF StartAccepted /\ ~Pending(Error) THEN TRUE ELSE ctrlAdv
    /\ pc' = IF synced THEN "idle" ELSE "reset"
    /\ UNCHANGED <<links, queue, synced, conns, errors>>

Host ==
    \/ \E h \in Handles : OnConnect(h) \/ OnDisconnect(h) \/ OnWrite(h) \/ ResetConn(h)
    \/ OnConnectFailed \/ OnError \/ ResetAdv \/ OnSync \/ DelayEnds \/ AdvStart

-----------------------------------------------------------------------------
Init ==
    /\ ctrlAdv = FALSE /\ links = {} /\ queue = <<>>
    /\ synced = FALSE /\ hostAdv = FALSE /\ conns = {}
    /\ pc = "reset" /\ errors = 0

Next == Environment \/ Host

Spec == Init /\ [][Next]_vars

\* The scheduler runs the host task, and the controller comes up.
FairSpec == Spec /\ WF_vars(Host)

-----------------------------------------------------------------------------
\* A device that nobody is linked to can be found: when the host task has
\* served every event and there is no link, the advertisement is on the air
\* (main/ble.c:129-153, 191-195).
NeverDark ==
    synced /\ pc = "idle" /\ queue = <<>> /\ links = {} => ctrlAdv

\* Every link the advertisement brings finds a free connection in the host,
\* though a write starts to advertise while others are connected
\* (main/ble.c:38, 79, 188).
LinkFits ==
    queue # <<>> /\ (\E h \in Handles : Head(queue) = Linked(h)) =>
        Cardinality(conns) < MaxConns

\* When every event is served, host and controller agree on the links and on
\* the advertisement, whatever overtook what (main/ble.c:129-153).
SidesAgree == synced /\ pc = "idle" /\ queue = <<>> => hostAdv = ctrlAdv /\ conns = links

\* A device without a link comes to advertise or to be linked
\* (main/ble.c:144-147, 191-195).
Relit == links = {} ~> ctrlAdv \/ links # {}
=============================================================================
