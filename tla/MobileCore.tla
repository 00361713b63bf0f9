----------------------------- MODULE MobileCore -----------------------------
(***************************************************************************)
(* The locks of the mobile core (cdus-ffi) and of the mDNS manager it      *)
(* starts (mdns.rs).  The application calls the core from any thread, and  *)
(* the core has threads of its own: one in the background handles the      *)
(* messages of the agent, and one scans.  What they share are statics,     *)
(* each behind a lock that is not reentrant.                               *)
(*                                                                         *)
(* A call is the way it takes through the locks.  `if let Some(x) =        *)
(* LOCK.lock()...` keeps the lock up to the end of its block.  A lock that *)
(* is given back before another is taken is one step.  What is done with   *)
(* the store, the peers and the transfers is in the modules about them.    *)
(***************************************************************************)
EXTENDS Naturals, Sequences, FiniteSets

CONSTANTS
  Callers,  \* threads of the application, and those that forward the progress of
            \* transfers, take what mDNS finds or send a file
  Scanners, \* the threads that scan; a discovery is started while enough are spare
  None

ASSUME ConstantsAssumption ==
  /\ None \notin Scanners \cup Callers \cup {"background"}
  /\ IsFiniteSet(Scanners) /\ Scanners # {} /\ IsFiniteSet(Callers)
  /\ Scanners \cap (Callers \cup {"background"}) = {}

Locks ==
  {"STORE", "PAIRING_MANAGER", "DISCOVERED", "PEER_MAP", "LOCAL_NODE_ID", "AGENT_TX",
   "TRANSFER_MANAGER", "LIBP2P_MANAGER", "RELAY_MANAGER", "ACTIVE_PAIRING",
   "RECV_THREAD_STARTED", "CLIPBOARD_LISTENER", "FILE_TRANSFER_LISTENER",
   "NOTE_LISTENER", "NOTIFICATION_LISTENER",
   "registered_services", "is_scanning", "discovery_thread"}

Threads == Callers \cup {"background"}

-----------------------------------------------------------------------------
(* Ways through the locks.                                                 *)

Uses(lock) == <<[does |-> "use", lock |-> lock]>>
Holding(lock, way) ==
  <<[does |-> "lock", lock |-> lock]>> \o way \o <<[does |-> "unlock", lock |-> lock]>>

\* Either of two ways, after and before others.
Maybe(before, way, after) == {before \o way \o after, before \o after}

-----------------------------------------------------------------------------
(* The messages of the agent.                                              *)

SetClipboard == Maybe(Uses("STORE"), Uses("CLIPBOARD_LISTENER"), <<>>)

\* The device itself, one that is in the list or one that is not.
DeviceDiscovered ==
  {Uses("LOCAL_NODE_ID")}
    \cup {Uses("LOCAL_NODE_ID") \o Uses("PEER_MAP") \o Uses("STORE") \o Holding("DISCOVERED", way) :
            way \in {<<>>, Uses("STORE")}}

DeviceLost == {Uses("DISCOVERED")}

PeerConnected ==
  {Uses("DISCOVERED") \o Uses("FILE_TRANSFER_LISTENER")
     \o Holding("STORE", Uses("PAIRING_MANAGER"))}

PeerDisconnected ==
  {Uses("TRANSFER_MANAGER") \o Uses("LIBP2P_MANAGER") \o Uses("FILE_TRANSFER_LISTENER")}

PairingResult == Maybe(<<>>, Uses("DISCOVERED"), Uses("FILE_TRANSFER_LISTENER"))

Reports == {Uses("FILE_TRANSFER_LISTENER"), Uses("NOTIFICATION_LISTENER")}

RevokeDevice ==
  {Uses("STORE") \o Uses("TRANSFER_MANAGER") \o Uses("LIBP2P_MANAGER")
     \o Uses("FILE_TRANSFER_LISTENER")}

ApplyNoteSync ==
  {Holding("STORE", way) :
     way \in {<<>>} \cup Maybe(Uses("NOTE_LISTENER"), Uses("PAIRING_MANAGER"), <<>>)}

ApplyNoteDelete == {Holding("STORE", Uses("NOTE_LISTENER"))}

NoteUpdated == {Uses("NOTE_LISTENER")}

ProgressEvent == {Uses("FILE_TRANSFER_LISTENER")}

spawn_mdns_receiver == {Uses("PEER_MAP") \o Uses("DISCOVERED")}

-----------------------------------------------------------------------------
(* Calls of the application.                                               *)

set_listener ==
  {Uses(l) : l \in {"NOTE_LISTENER", "NOTIFICATION_LISTENER", "CLIPBOARD_LISTENER",
                    "FILE_TRANSFER_LISTENER"}}

transfer_calls == {Uses("TRANSFER_MANAGER"), Uses("AGENT_TX")}

\* The locks of the manager are taken together; the file is read by a new thread.
send_file ==
  {Uses("PAIRING_MANAGER") \o Uses("TRANSFER_MANAGER"),
   Uses("PAIRING_MANAGER")
     \o Holding("STORE", Holding("LIBP2P_MANAGER", Uses("TRANSFER_MANAGER")))}
send_file_thread == {Uses("FILE_TRANSFER_LISTENER")}

accept_file_transfer == {Uses("TRANSFER_MANAGER")}

get_clipboard_history == {Uses("STORE")}

set_clipboard_item_local_only ==
  {Holding("STORE", way) : way \in {<<>>, Uses("PAIRING_MANAGER")}}

delete_clipboard_item == {Uses("STORE")}

disconnect_device ==
  {Uses("PAIRING_MANAGER") \o Uses("TRANSFER_MANAGER") \o Uses("LIBP2P_MANAGER")}

broadcast_clipboard == {Uses("STORE") \o Uses("PAIRING_MANAGER")}

save_clipboard_local == {Uses("STORE")}

get_file_transfer_history == {Uses("STORE")}

clear_finished_transfers == {Uses("STORE")}

get_paired_devices == {Holding("STORE", Uses("PAIRING_MANAGER"))}

unpair_device == {Uses("STORE")}

\* mutant: the device is removed from the store and the map together.
RevokeTogether ==
  {Uses("RELAY_MANAGER") \o Holding("PAIRING_MANAGER", Uses("STORE"))
     \o Uses("TRANSFER_MANAGER") \o Uses("LIBP2P_MANAGER") \o Uses("FILE_TRANSFER_LISTENER")}

revoke_device ==
  {Uses("RELAY_MANAGER") \o Uses("STORE") \o Uses("PAIRING_MANAGER")
     \o Uses("TRANSFER_MANAGER") \o Uses("LIBP2P_MANAGER") \o Uses("FILE_TRANSFER_LISTENER")}

is_local_device_revoked == {Holding("STORE", Uses("PAIRING_MANAGER"))}

active_pairing_calls == {Uses("ACTIVE_PAIRING")}

initiate_pairing ==
  {Holding("PAIRING_MANAGER", Holding("DISCOVERED", Uses("PEER_MAP")))}

get_qr_pairing_payload == {Uses("PAIRING_MANAGER")}

\* mutant: the pairing is initiated before PAIRING_MANAGER is given back.
PairInside ==
  {Uses("PAIRING_MANAGER"), Holding("PAIRING_MANAGER", Uses("AGENT_TX"))}
    \cup {Holding("PAIRING_MANAGER", Uses("PEER_MAP") \o w) : w \in initiate_pairing}

\* The payload is wrong, or of a paired device, or of one to pair with.
pair_with_qr ==
  {Uses("PAIRING_MANAGER"), Holding("PAIRING_MANAGER", Uses("AGENT_TX"))}
    \cup {Holding("PAIRING_MANAGER", Uses("PEER_MAP")) \o way : way \in initiate_pairing}

discovered_devices == {Uses("DISCOVERED")}

send_notification == {Uses("PAIRING_MANAGER")}

get_audit_logs == {Uses("STORE")}

search == {Uses("STORE")}

\* With the logs or without; the feedback is sent by a new thread.
submit_feedback == Maybe(Uses("RELAY_MANAGER"), Uses("STORE"), Uses("STORE"))

update_setting == {Holding("STORE", Uses("PAIRING_MANAGER"))}

get_notes == {Uses("STORE")}

save_note == {Holding("STORE", Uses("PAIRING_MANAGER"))}

delete_note == {Holding("STORE", Uses("PAIRING_MANAGER"))}

-----------------------------------------------------------------------------
(* The mDNS manager.  start_discovery holds is_scanning up to its end;     *)
(* stop_discovery waits for the thread while it holds discovery_thread.    *)

MdnsManager_register == Uses("registered_services")
MdnsManager_start ==
  Holding("is_scanning", <<[does |-> "scan"], [does |-> "keep", lock |-> "discovery_thread"]>>)
MdnsManager_stop ==
  <<[does |-> "halt", lock |-> "is_scanning"]>> \o Holding("discovery_thread", <<[does |-> "join"]>>)

register_device == {MdnsManager_register}

start_discovery ==
  {Holding("STORE", Uses("LOCAL_NODE_ID") \o MdnsManager_register)
     \o Uses("LOCAL_NODE_ID") \o Uses("RECV_THREAD_STARTED") \o MdnsManager_start}

stop_discovery == {MdnsManager_stop}

-----------------------------------------------------------------------------
Handlers ==
  SetClipboard \cup DeviceDiscovered \cup DeviceLost \cup PeerConnected \cup PeerDisconnected
    \cup PairingResult \cup Reports \cup RevokeDevice \cup ApplyNoteSync \cup ApplyNoteDelete
    \cup NoteUpdated

Calls ==
  set_listener \cup transfer_calls \cup send_file \cup send_file_thread
    \cup accept_file_transfer \cup get_clipboard_history \cup set_clipboard_item_local_only
    \cup delete_clipboard_item \cup disconnect_device \cup broadcast_clipboard
    \cup save_clipboard_local \cup get_file_transfer_history \cup clear_finished_transfers
    \cup get_paired_devices \cup unpair_device \cup revoke_device \cup is_local_device_revoked
    \cup active_pairing_calls \cup initiate_pairing \cup get_qr_pairing_payload \cup pair_with_qr
    \cup discovered_devices \cup send_notification \cup get_audit_logs \cup search
    \cup submit_feedback \cup update_setting \cup get_notes \cup save_note \cup delete_note
    \cup register_device \cup start_discovery \cup stop_discovery
    \cup ProgressEvent \cup spawn_mdns_receiver

Ways(t) == IF t = "background" THEN Handlers ELSE Calls

VARIABLES
  way,      \* what is left of each thread's call
  owner,    \* who holds a lock
  scanning, \* *is_scanning
  running,  \* the scanners that run
  latest,   \* the one that was started last
  handle    \* *discovery_thread

mdns == <<scanning, running, latest, handle>>
vars == <<way, owner, mdns>>

Steps ==
  [does : {"use", "lock", "unlock", "keep", "halt"}, lock : Locks] \cup [does : {"scan", "join"}]

\* A thread whose call has returned holds no lock.
TypeOK ==
  /\ way \in [Threads -> Seq(Steps)]
  /\ owner \in [Locks -> Threads \cup {None}]
  /\ \A l \in Locks : owner[l] # None => way[owner[l]] # <<>>
  /\ scanning \in BOOLEAN
  /\ running \subseteq Scanners
  /\ latest \in Scanners /\ handle \in Scanners \cup {None}

\* init_core has run.
Init ==
  /\ way = [t \in Threads |-> <<>>]
  /\ owner = [l \in Locks |-> None]
  /\ latest = CHOOSE s \in Scanners : TRUE
  /\ scanning = TRUE /\ running = {latest} /\ handle = latest

Free(lock)  == owner[lock] = None
Does(t, what) == way[t] # <<>> /\ Head(way[t]).does = what
GoesOn(t)   == way' = [way EXCEPT ![t] = Tail(@)]

Spare == Cardinality(running) + Cardinality(Callers) < Cardinality(Scanners)

Call(t) ==
  /\ way[t] = <<>>
  /\ \E w \in IF Spare THEN Ways(t) ELSE Ways(t) \ start_discovery :
       way' = [way EXCEPT ![t] = w]
  /\ UNCHANGED <<owner, mdns>>

Use(t) ==
  /\ Does(t, "use") /\ Free(Head(way[t]).lock) /\ GoesOn(t)
  /\ UNCHANGED <<owner, mdns>>

Lock(t) ==
  /\ Does(t, "lock") /\ Free(Head(way[t]).lock) /\ GoesOn(t)
  /\ owner' = [owner EXCEPT ![Head(way[t]).lock] = t]
  /\ UNCHANGED mdns

Unlock(t) ==
  /\ Does(t, "unlock") /\ GoesOn(t)
  /\ owner' = [owner EXCEPT ![Head(way[t]).lock] = None]
  /\ UNCHANGED mdns

\* mutant: the early return keeps is_scanning.
ScanKeepsLock(t) ==
  /\ Does(t, "scan")
  /\ IF scanning
     THEN way' = [way EXCEPT ![t] = Tail(Tail(Tail(@)))] /\ UNCHANGED <<scanning, running, latest>>
     ELSE /\ GoesOn(t) /\ scanning' = TRUE
          /\ latest' = CHOOSE s \in Scanners : s \notin running \cup {handle}
          /\ running' = running \cup {latest'}
  /\ UNCHANGED <<owner, handle>>

\* Nothing more is done when a scan runs already.
Scan(t) ==
  /\ Does(t, "scan")
  /\ IF scanning
     THEN way' = [way EXCEPT ![t] = Tail(Tail(@))] /\ UNCHANGED <<scanning, running, latest>>
     ELSE /\ GoesOn(t) /\ scanning' = TRUE
          /\ latest' = CHOOSE s \in Scanners : s \notin running \cup {handle}
          /\ running' = running \cup {latest'}
  /\ UNCHANGED <<owner, handle>>

Keep(t) ==
  /\ Does(t, "keep") /\ Free("discovery_thread") /\ GoesOn(t)
  /\ handle' = latest
  /\ UNCHANGED <<owner, scanning, running, latest>>

Halt(t) ==
  /\ Does(t, "halt") /\ Free("is_scanning") /\ GoesOn(t)
  /\ scanning' = FALSE
  /\ UNCHANGED <<owner, running, latest, handle>>

Join(t) ==
  /\ Does(t, "join") /\ handle \notin running /\ GoesOn(t)
  /\ handle' = None
  /\ UNCHANGED <<owner, scanning, running, latest>>

\* A scanner looks at the flag every half second.
ScannerEnds(s) ==
  /\ s \in running /\ Free("is_scanning") /\ ~scanning
  /\ running' = running \ {s}
  /\ UNCHANGED <<way, owner, scanning, latest, handle>>

Next ==
  \/ \E t \in Threads :
       \/ Call(t) \/ Use(t) \/ Lock(t) \/ Unlock(t)
       \/ Scan(t) \/ Keep(t) \/ Halt(t) \/ Join(t)
  \/ \E s \in Scanners : ScannerEnds(s)

Spec == Init /\ [][Next]_vars

-----------------------------------------------------------------------------
(* Who waits for whom.                                                     *)

\* a, a thread or a scanner, cannot go on before b does.
WaitsFor(a, b) ==
  \/ /\ a \in Threads /\ way[a] # <<>>
     /\ \/ /\ Head(way[a]).does \in {"use", "lock", "keep", "halt"}
           /\ owner[Head(way[a]).lock] = b
        \/ Head(way[a]).does = "join" /\ handle = b /\ b \in running
  \/ a \in running /\ owner["is_scanning"] = b

CircularWaits ==
  {W \in (SUBSET (Threads \cup running)) \ {{}} : \A a \in W : \E b \in W : WaitsFor(a, b)}

Waits(t, lock) == Does(t, "lock") /\ Head(way[t]).lock = lock

\* No thread waits for a lock it holds, and no two for each other, whatever the
\* application calls: the locks are taken and kept in orders that a third must
\* close to a circle (cdus-ffi lib.rs; mdns.rs).
NoTwoWait ==
  \A a, b \in Threads : ~(WaitsFor(a, b) /\ WaitsFor(b, a))

\* There are two ways into a circular wait.  In one the pairing that is being
\* initiated holds PAIRING_MANAGER and waits for DISCOVERED, which the handler of
\* DeviceDiscovered holds while it waits for STORE.  In the other a discovery is
\* started while another is being stopped.
KnownCircularWaits ==
  \A W \in CircularWaits :
    \/ \E t \in W : owner["PAIRING_MANAGER"] = t /\ Waits(t, "DISCOVERED")
    \/ \E t \in W : owner["is_scanning"] = t /\ Does(t, "keep")

\* The calls and the threads of the core never wait for each other in a circle.
NoDeadlock == CircularWaits = {}
=============================================================================
