------------------------------ MODULE RelayHub ------------------------------
(***************************************************************************)
(* The way of a signal from one agent to another: the queue and the loop   *)
(* of the agent's relay client (relay.rs), the pumps of its connection at  *)
(* the server, and the hub between the connections (relay/internal).       *)
(*                                                                         *)
(* The hub is one goroutine that takes from four channels, in any order.   *)
(* Two of them have a buffer; an unregistration is handed over directly,   *)
(* so that a pump or an HTTP handler that has one waits until it is taken. *)
(* An agent may connect again while the server still serves its older      *)
(* connection, whose end it has not noticed.                               *)
(***************************************************************************)
EXTENDS Naturals, Sequences, FiniteSets, SequencesExt

CONSTANTS
  Devices,
  Conns,      \* connections to the server, numbered in the order they are made
  Buffer,     \* the room of a connection's channel, 256
  QueueCap,   \* the room of the hub's two queues, 256
  MaxSignals, \* how many signals are sent
  Pairings,   \* the pairs of devices <<d, e>> of which d signals to e
  Revocable,  \* devices that are revoked
  None        \* no connection

ASSUME ConstantsAssumption ==
  /\ Conns \subseteq Nat /\ None \notin Conns \cup Devices
  /\ Buffer \in Nat \ {0} /\ QueueCap \in Nat \ {0} /\ MaxSignals \in Nat
  /\ Revocable \subseteq Devices
  /\ Pairings \subseteq Devices \X Devices

SignalMessage   == [id : 1..MaxSignals, from : Devices, to : Devices]
RevocationEvent == [revoked : Devices]
Frame == SignalMessage \cup RevocationEvent

VARIABLES
  short,     \* the devices whose name has fewer than 8 bytes
  \* the relay client of an agent
  sent,      \* history: the signals that were queued
  outgoing,  \* its queue of signals
  socket,    \* its connection
  got,       \* history: the signals that the daemon was handed
  \* connections
  owner,     \* the device that made it
  up,        \* the signals under way to the server
  reader,    \* where its readPump is
  send, ended,     \* its channel, and whether that is closed
  \* the hub
  clients,   \* the connection of a device
  broadcast, broadcastRevocation,  \* its queues
  revoked,   \* the revocations in the database
  revoking,  \* where the handler of POST /v1/revoke is
  panicked,  \* the hub has panicked, which ends the server
  overlapped \* history: devices that had two connections at the server at a time

agents == <<short, sent, outgoing, socket, got>>
wires  == <<owner, up>>
pumps  == <<reader, send, ended>>
queues == <<broadcast, broadcastRevocation>>
rest   == <<revoked, revoking, panicked, overlapped>>
vars == <<agents, wires, pumps, clients, queues, rest>>

Idle == [at |-> "idle"]

TypeOK ==
  /\ short \subseteq Devices
  /\ sent \subseteq SignalMessage
  /\ outgoing \in [Devices -> Seq(SignalMessage)]
  /\ socket \in [Devices -> Conns \cup {None}]
  /\ got \in [Devices -> Seq(SignalMessage)]
  /\ owner \in [Conns -> Devices \cup {None}]
  /\ up \in [Conns -> Seq(SignalMessage)]
  /\ reader \in [Conns -> {"none", "joining", "reading", "leaving", "gone"}]
  /\ send \in [Conns -> Seq(Frame)] /\ \A c \in Conns : Len(send[c]) <= Buffer
  /\ ended \in [Conns -> BOOLEAN]
  /\ clients \in [Devices -> Conns \cup {None}]
  /\ broadcast \in Seq(SignalMessage) /\ Len(broadcast) <= QueueCap
  /\ broadcastRevocation \in Seq(Devices) /\ Len(broadcastRevocation) <= QueueCap
  /\ revoked \subseteq Devices
  /\ revoking \in {Idle} \cup [at : {"announcing", "looking"}, uuid : Devices]
                  \cup [at : {"kicking"}, uuid : Devices, conn : Conns]
  /\ panicked \in BOOLEAN
  /\ overlapped \subseteq Devices

Init ==
  /\ short \in SUBSET Devices
  /\ sent = {} /\ outgoing = [d \in Devices |-> <<>>] /\ got = outgoing
  /\ socket = [d \in Devices |-> None] /\ clients = socket
  /\ owner = [c \in Conns |-> None]
  /\ ended = [c \in Conns |-> FALSE]
  /\ up = [c \in Conns |-> <<>>] /\ send = up
  /\ reader = [c \in Conns |-> "none"]
  /\ broadcast = <<>> /\ broadcastRevocation = <<>>
  /\ revoked = {} /\ revoking = Idle
  /\ panicked = FALSE /\ overlapped = {}

-----------------------------------------------------------------------------
(* The relay client.                                                       *)

\* Queued whether there is a connection or not.
send_signal(d, e) ==
  /\ <<d, e>> \in Pairings /\ Cardinality(sent) < MaxSignals
  /\ LET m == [id |-> Cardinality(sent) + 1, from |-> d, to |-> e] IN
       /\ sent' = sent \cup {m}
       /\ outgoing' = [outgoing EXCEPT ![d] = Append(@, m)]
  /\ UNCHANGED <<short, socket, got, wires, pumps, clients, queues, rest>>

\* The server gives the device a connection, which waits for the hub to take it.
ServeWs(d, c) ==
  /\ owner[c] = None /\ \A b \in Conns : b < c => owner[b] # None
  /\ owner' = [owner EXCEPT ![c] = d]
  /\ reader' = [reader EXCEPT ![c] = "joining"]

IsDeviceRevoked(d) == d \in revoked

handleSignaling(d, c) == ~IsDeviceRevoked(d) /\ ServeWs(d, c)

\* A refusal is a 401, which the loop takes for any other failure and tries again.
Connect(d, c) ==
  /\ socket[d] = None /\ ~panicked
  /\ handleSignaling(d, c)
  /\ socket' = [socket EXCEPT ![d] = c]
  /\ UNCHANGED <<short, sent, outgoing, got, up, send, ended, clients, queues, rest>>

\* A signal that is taken from the queue is lost when it cannot be sent.
SendSignal(d) ==
  /\ socket[d] # None /\ outgoing[d] # <<>>
  /\ outgoing' = [outgoing EXCEPT ![d] = Tail(@)]
  /\ \/ UNCHANGED up
     \/ /\ reader[socket[d]] \in {"joining", "reading"}
        /\ up' = [up EXCEPT ![socket[d]] = Append(@, Head(outgoing[d]))]
  /\ UNCHANGED <<short, sent, socket, got, owner, pumps, clients, queues, rest>>

\* A connection fails at any time, and each end notices when it does.  The loop
\* leaves it and the queue waits for the next one; an agent that is stopped leaves
\* its queue, too.
LoseConnection(d) ==
  /\ socket[d] # None
  /\ socket' = [socket EXCEPT ![d] = None]
  /\ outgoing' \in {outgoing, [outgoing EXCEPT ![d] = <<>>]}
  /\ UNCHANGED <<short, sent, got, owner, up, pumps, clients, queues, rest>>

-----------------------------------------------------------------------------
(* The pumps of a connection.                                              *)

\* The source is the device of the connection, whatever the signal says.
ReadAgain(c) ==  \* mutant: the frame is not consumed
  /\ reader[c] = "reading" /\ up[c] # <<>> /\ Len(broadcast) < QueueCap
  /\ broadcast' = Append(broadcast, [Head(up[c]) EXCEPT !.from = owner[c]])
  /\ UNCHANGED <<agents, wires, pumps, clients, broadcastRevocation, rest>>
readPump(c) ==
  /\ reader[c] = "reading" /\ up[c] # <<>> /\ Len(broadcast) < QueueCap
  /\ broadcast' = Append(broadcast, [Head(up[c]) EXCEPT !.from = owner[c]])
  /\ up' = [up EXCEPT ![c] = Tail(@)]
  /\ UNCHANGED <<agents, owner, pumps, clients, broadcastRevocation, rest>>

\* ReadMessage fails, or the deadline of the pongs passes.
ReadFails(c) ==
  /\ reader[c] = "reading"
  /\ reader' = [reader EXCEPT ![c] = "leaving"]
  /\ up' = [up EXCEPT ![c] = <<>>]
  /\ UNCHANGED <<agents, owner, send, ended, clients, queues, rest>>

\* The daemon of the agent gets the frame as a RelayMessage or a RevokeDevice.
ReadSocket(c) ==
  /\ socket[owner[c]] = c /\ Head(send[c]) \in SignalMessage
  /\ got' = [got EXCEPT ![owner[c]] = Append(@, Head(send[c]))]

\* What is written may be lost.  A writePump that has ended writes no more.
writePump(c) ==
  /\ reader[c] \in {"reading", "leaving"} /\ send[c] # <<>>
  /\ send' = [send EXCEPT ![c] = Tail(@)]
  /\ ReadSocket(c) \/ UNCHANGED got
  /\ UNCHANGED <<short, sent, outgoing, socket, wires, reader, ended, clients, queues, rest>>

-----------------------------------------------------------------------------
(* The hub.                                                                *)

\* To close a closed channel, or to send to one, is a panic and the end of the server.
Close(c) ==
  /\ panicked' = (panicked \/ ended[c])
  /\ ended' = [ended EXCEPT ![c] = TRUE]

Serving(c, d) == owner[c] = d /\ reader[c] \in {"reading", "leaving"}

\* The map holds the newest connection; the one before goes on without it.  The name
\* is then cut at 8 bytes for a line of the activity log, which a short one has not.
\* (So does unregister, for a name that was cut here before.)
Register(c) ==
  /\ reader[c] = "joining"
  /\ clients' = [clients EXCEPT ![owner[c]] = c]
  /\ overlapped' = IF \/ \E b \in Conns \ {c} : Serving(b, owner[c])
                      \/ revoking.at = "kicking" /\ revoking.uuid = owner[c]
                   THEN overlapped \cup {owner[c]} ELSE overlapped
  /\ reader' = [reader EXCEPT ![c] = "reading"]
  /\ panicked' = (panicked \/ owner[c] \in short)
  /\ UNCHANGED <<agents, wires, send, ended, queues, revoked, revoking>>

\* The map is asked for the device, not for the connection.
CloseAlways(c) ==  \* mutant: without a look at the map
  clients' = [clients EXCEPT ![owner[c]] = None] /\ Close(c)
unregister(c) ==
  IF clients[owner[c]] # None
  THEN clients' = [clients EXCEPT ![owner[c]] = None] /\ Close(c)
  ELSE UNCHANGED <<clients, ended, panicked>>

Unregister(c) ==
  /\ reader[c] = "leaving"
  /\ unregister(c)
  /\ reader' = [reader EXCEPT ![c] = "gone"]
  /\ send' = [send EXCEPT ![c] = <<>>]
  /\ UNCHANGED <<agents, wires, queues, revoked, revoking, overlapped>>

\* A connection that does not keep up is dropped.
Forget(c) ==  \* mutant: the channel stays open
  /\ clients' = [clients EXCEPT ![owner[c]] = None]
  /\ UNCHANGED <<ended, panicked>>
Drop(c) == clients' = [clients EXCEPT ![owner[c]] = None] /\ Close(c)

Overfill(c) == Len(send[c]) <= Buffer  \* mutant: one more than there is room for
HasRoom(c) == Len(send[c]) < Buffer

Route ==
  /\ broadcast # <<>>
  /\ LET m == Head(broadcast)
         c == clients[m.to]
     IN \/ c = None /\ UNCHANGED <<clients, send, ended, panicked>>
        \/ /\ c # None /\ HasRoom(c)
           /\ send' = [send EXCEPT ![c] = Append(@, m)]
           /\ panicked' = (panicked \/ ended[c])
           /\ UNCHANGED <<clients, ended>>
        \/ c # None /\ ~HasRoom(c) /\ Drop(c) /\ UNCHANGED send
  /\ broadcast' = Tail(broadcast)
  /\ UNCHANGED <<agents, wires, reader, broadcastRevocation, revoked, revoking, overlapped>>

\* A connection without room misses it.
RouteRevocation ==
  /\ broadcastRevocation # <<>>
  /\ send' = [c \in Conns |->
       IF (\E d \in Devices : clients[d] = c) /\ HasRoom(c)
       THEN Append(send[c], [revoked |-> Head(broadcastRevocation)]) ELSE send[c]]
  /\ broadcastRevocation' = Tail(broadcastRevocation)
  /\ panicked' = (panicked \/ \E d \in Devices : clients[d] # None /\ ended[clients[d]])
  /\ UNCHANGED <<agents, wires, reader, ended, clients, broadcast, revoked, revoking, overlapped>>

-----------------------------------------------------------------------------
(* POST /v1/revoke: the row is written, the revocation queued, and the     *)
(* device's connection, as the map has it now, handed to the hub.  Bound:  *)
(* one handler at a time, and each device once.                            *)

RevokeDevice(d) == revoked' = revoked \cup {d}

handleRevoke(d) ==
  /\ revoking = Idle /\ d \in Revocable \ revoked
  /\ RevokeDevice(d)
  /\ revoking' = [at |-> "announcing", uuid |-> d]
  /\ UNCHANGED <<agents, wires, pumps, clients, queues, panicked, overlapped>>

BroadcastRevocation ==
  /\ revoking.at = "announcing" /\ Len(broadcastRevocation) < QueueCap
  /\ broadcastRevocation' = Append(broadcastRevocation, revoking.uuid)
  /\ revoking' = [revoking EXCEPT !.at = "looking"]
  /\ UNCHANGED <<agents, wires, pumps, clients, broadcast, revoked, panicked, overlapped>>

DisconnectClient ==
  /\ revoking.at = "looking"
  /\ revoking' = IF clients[revoking.uuid] = None THEN Idle
                 ELSE [at |-> "kicking", uuid |-> revoking.uuid, conn |-> clients[revoking.uuid]]
  /\ UNCHANGED <<agents, wires, pumps, clients, queues, revoked, panicked, overlapped>>

Kick ==
  /\ revoking.at = "kicking"
  /\ unregister(revoking.conn)
  /\ revoking' = Idle
  /\ UNCHANGED <<agents, wires, reader, send, queues, revoked, overlapped>>

AgentStep(d) ==
  \/ \E e \in Devices : send_signal(d, e)
  \/ \E c \in Conns : Connect(d, c)
  \/ SendSignal(d) \/ LoseConnection(d)

PumpStep(c) == readPump(c) \/ ReadFails(c) \/ writePump(c)

HubStep ==
  \/ Route \/ RouteRevocation \/ Kick
  \/ \E c \in Conns : Register(c) \/ Unregister(c)

ServerStep ==
  \/ HubStep \/ BroadcastRevocation \/ DisconnectClient
  \/ \E c \in Conns : PumpStep(c)
  \/ \E d \in Devices : handleRevoke(d)

Next ==
  \/ \E d \in Devices : AgentStep(d)
  \/ ~panicked /\ ServerStep

Spec == Init /\ [][Next]_vars

-----------------------------------------------------------------------------
\* A signal is handed to the daemon of the device it is for, once at most, over
\* whatever connections it and the two agents go.
Network == INSTANCE RelayNetwork WITH Signals <- SignalMessage
ImplementsNetwork == Network!Spec

\* A connection whose channel is open is the one the hub routes to, unless its
\* device has connected while the server still had another: the end of the older
\* one then takes the newer out of the map, and signals for the device are lost
\* although it is connected.
Routed ==
  \A c \in Conns :
    reader[c] = "reading" /\ ~ended[c] /\ owner[c] \notin overlapped =>
      clients[owner[c]] = c

\* The server stops only when a device whose name is too short for the activity log is
\* taken into the map, or when a closed channel is used; and the latter takes a device
\* that has connected while the server still had its older connection.
PanicHasCause == panicked => overlapped # {} \/ \E d \in short : clients[d] # None
=============================================================================
