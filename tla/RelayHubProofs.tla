--------------------------- MODULE RelayHubProofs ---------------------------
(***************************************************************************)
(* Theorems about RelayHub, for any number of devices, connections and     *)
(* signals and any room of the channels: the map of the hub and the end of *)
(* a connection first, then the way of a signal.                           *)
(***************************************************************************)
EXTENDS RelayHub, SequenceTheorems, FiniteSetTheorems, TLAPS

-----------------------------------------------------------------------------
(* Sequences and functions.                                                *)

LEMMA Put ==
  ASSUME NEW S, NEW T, NEW f \in [S -> T], NEW x \in S, NEW v \in T
  PROVE  /\ [f EXCEPT ![x] = v] \in [S -> T]
         /\ [f EXCEPT ![x] = v][x] = v
         /\ \A y \in S : y # x => [f EXCEPT ![x] = v][y] = f[y]
  OBVIOUS

LEMMA Queues ==
  ASSUME NEW S, NEW s \in Seq(S)
  PROVE  /\ Len(s) \in Nat
         /\ s # <<>> => Head(s) \in S /\ Tail(s) \in Seq(S) /\ Len(Tail(s)) = Len(s) - 1
         /\ \A e \in S : Append(s, e) \in Seq(S) /\ Len(Append(s, e)) = Len(s) + 1
  BY LenProperties, HeadTailProperties, AppendProperties

-----------------------------------------------------------------------------
(* Types.                                                                  *)

InChannels(f) == f \in [Conns -> Seq(Frame)] /\ \A c \in Conns : Len(f[c]) <= Buffer

Stages == {"none", "joining", "reading", "leaving", "gone"}

\* A connection whose pumps run has an owner.
OwnersKnown == \A c \in Conns : owner[c] = None => reader[c] = "none"

Typed == TypeOK /\ IsFiniteSet(sent) /\ OwnersKnown

LEMMA InitTyped == Init => Typed
<1> SUFFICES ASSUME Init PROVE Typed
  OBVIOUS
<1> USE ConstantsAssumption DEF Init
<1>1. \A S : <<>> \in Seq(S) /\ Len(<<>>) = 0
  BY EmptySeq
<1>2. InChannels(send)
  BY <1>1 DEF InChannels
<1>3. /\ outgoing \in [Devices -> Seq(SignalMessage)] /\ got \in [Devices -> Seq(SignalMessage)]
      /\ up \in [Conns -> Seq(SignalMessage)]
  BY <1>1
<1>4. /\ broadcast \in Seq(SignalMessage) /\ Len(broadcast) <= QueueCap
      /\ broadcastRevocation \in Seq(Devices) /\ Len(broadcastRevocation) <= QueueCap
  BY <1>1
<1>5. /\ socket \in [Devices -> Conns \cup {None}] /\ clients \in [Devices -> Conns \cup {None}]
      /\ owner \in [Conns -> Devices \cup {None}] /\ ended \in [Conns -> BOOLEAN]
      /\ reader \in [Conns -> {"none", "joining", "reading", "leaving", "gone"}]
  OBVIOUS
<1>6. IsFiniteSet(sent)
  BY FS_EmptySet
<1> QED BY <1>2, <1>3, <1>4, <1>5, <1>6 DEF Typed, OwnersKnown, TypeOK, InChannels, Idle

\* A channel has the room that was found before a frame was put into it.
LEMMA ChannelTyped ==
  ASSUME InChannels(send), NEW f \in Frame, NEW C \in SUBSET Conns, \A c \in C : HasRoom(c)
  PROVE  InChannels([c \in Conns |-> IF c \in C THEN Append(send[c], f) ELSE send[c]])
<1>1. \A c \in Conns : /\ send[c] \in Seq(Frame) /\ Len(send[c]) \in Nat
                       /\ Append(send[c], f) \in Seq(Frame)
                       /\ Len(Append(send[c], f)) = Len(send[c]) + 1
  BY Queues DEF InChannels
<1> QED BY <1>1, ConstantsAssumption DEF InChannels, HasRoom

\* The number of the signal that is queued next.
LEMMA NextSignal ==
  ASSUME Typed, NEW d \in Devices, NEW e \in Devices, Cardinality(sent) < MaxSignals
  PROVE  LET m == [id |-> Cardinality(sent) + 1, from |-> d, to |-> e]
         IN  /\ m \in SignalMessage
             /\ IsFiniteSet(sent \cup {m})
             /\ \A n \in sent \cup {m} : Cardinality(sent) <= Cardinality(sent \cup {m})
<1> DEFINE m == [id |-> Cardinality(sent) + 1, from |-> d, to |-> e]
<1>1. Cardinality(sent) \in Nat
  BY FS_CardinalityType DEF Typed
<1>2. Cardinality(sent) + 1 \in 1..MaxSignals
  BY <1>1, ConstantsAssumption
<1>3. m \in SignalMessage
  BY <1>2 DEF SignalMessage
<1>4. IsFiniteSet(sent \cup {m}) /\ Cardinality(sent) <= Cardinality(sent \cup {m})
  <2> HIDE DEF m
  <2>1. IsFiniteSet(sent)
    BY DEF Typed
  <2>2. /\ IsFiniteSet(sent \cup {m})
        /\ Cardinality(sent \cup {m}) = IF m \in sent THEN Cardinality(sent)
                                        ELSE Cardinality(sent) + 1
    BY <2>1, FS_AddElement
  <2> QED BY <1>1, <2>2
<1> QED BY <1>3, <1>4

LEMMA AgentTyped ==
  ASSUME Typed, NEW d \in Devices, AgentStep(d)
  PROVE  Typed'
<1> USE DEF Typed, TypeOK, OwnersKnown
<1>1. ASSUME NEW e \in Devices, send_signal(d, e) PROVE Typed'
  <2> DEFINE m == [id |-> Cardinality(sent) + 1, from |-> d, to |-> e]
  <2>1. /\ m \in SignalMessage /\ IsFiniteSet(sent \cup {m})
        /\ sent' = sent \cup {m} /\ outgoing' = [outgoing EXCEPT ![d] = Append(@, m)]
        /\ UNCHANGED <<short, socket, got, wires, pumps, clients, queues, rest>>
    BY <1>1, NextSignal DEF send_signal
  <2> HIDE DEF m
  <2>2. outgoing' \in [Devices -> Seq(SignalMessage)]
    BY <2>1, Queues, Put
  <2>3. sent' \subseteq SignalMessage /\ IsFiniteSet(sent')
    BY <2>1
  <2>4. UNCHANGED <<short, socket, got, owner, up, reader, send, ended, clients, broadcast,
                    broadcastRevocation, revoked, revoking, panicked, overlapped>>
    BY <2>1 DEF wires, pumps, queues, rest
  <2> QED BY <2>2, <2>3, <2>4
<1>2. ASSUME NEW c \in Conns, Connect(d, c) PROVE Typed'
  <2>1. /\ owner' \in [Conns -> Devices \cup {None}]
        /\ reader' \in [Conns -> {"none", "joining", "reading", "leaving", "gone"}]
        /\ socket' \in [Devices -> Conns \cup {None}]
    BY <1>2 DEF Connect, handleSignaling, ServeWs
  <2>2. OwnersKnown'
    BY <1>2, ConstantsAssumption DEF Connect, handleSignaling, ServeWs
  <2>3. UNCHANGED <<short, sent, outgoing, got, up, send, ended, clients, broadcast,
                    broadcastRevocation, revoked, revoking, panicked, overlapped>>
    BY <1>2 DEF Connect, queues, rest
  <2> QED BY <2>1, <2>2, <2>3
<1>3. ASSUME SendSignal(d) PROVE Typed'
  <2>1. outgoing[d] \in Seq(SignalMessage) /\ outgoing[d] # <<>> /\ socket[d] \in Conns
    BY <1>3 DEF SendSignal
  <2>2. Head(outgoing[d]) \in SignalMessage /\ Tail(outgoing[d]) \in Seq(SignalMessage)
    BY <2>1, Queues
  <2>3. outgoing' \in [Devices -> Seq(SignalMessage)]
    BY <1>3, <2>2, Put DEF SendSignal
  <2>4. Append(up[socket[d]], Head(outgoing[d])) \in Seq(SignalMessage)
    BY <2>1, <2>2, Queues
  <2>5. up' \in [Conns -> Seq(SignalMessage)]
    <3>1. CASE UNCHANGED up
      BY <3>1
    <3>2. CASE up' = [up EXCEPT ![socket[d]] = Append(@, Head(outgoing[d]))]
      BY <2>1, <2>4, <3>2
    <3> QED BY <1>3, <3>1, <3>2 DEF SendSignal
  <2>6. UNCHANGED <<short, sent, socket, got, owner, reader, send, ended, clients, broadcast,
                    broadcastRevocation, revoked, revoking, panicked, overlapped>>
    BY <1>3 DEF SendSignal, pumps, queues, rest
  <2> QED BY <2>3, <2>5, <2>6
<1>4. ASSUME LoseConnection(d) PROVE Typed'
  <2>1. socket' \in [Devices -> Conns \cup {None}] /\ outgoing' \in [Devices -> Seq(SignalMessage)]
    <3>1. <<>> \in Seq(SignalMessage)
      BY EmptySeq
    <3>2. outgoing' \in {outgoing, [outgoing EXCEPT ![d] = <<>>]}
      BY <1>4 DEF LoseConnection
    <3>3. [outgoing EXCEPT ![d] = <<>>] \in [Devices -> Seq(SignalMessage)]
      BY <3>1
    <3> QED BY <1>4, <3>2, <3>3 DEF LoseConnection
  <2>2. UNCHANGED <<short, sent, got, owner, up, reader, send, ended, clients, broadcast,
                    broadcastRevocation, revoked, revoking, panicked, overlapped>>
    BY <1>4 DEF LoseConnection, wires, pumps, queues, rest
  <2> QED BY <2>1, <2>2
<1> QED BY <1>1, <1>2, <1>3, <1>4 DEF AgentStep

LEMMA PumpTyped ==
  ASSUME Typed, NEW c \in Conns, PumpStep(c)
  PROVE  Typed'
<1> USE DEF Typed, TypeOK, OwnersKnown
<1>1. ASSUME readPump(c) PROVE Typed'
  <2> DEFINE m == [Head(up[c]) EXCEPT !.from = owner[c]]
  <2>1. up[c] \in Seq(SignalMessage) /\ up[c] # <<>> /\ owner[c] \in Devices
    BY <1>1 DEF readPump
  <2>2. Head(up[c]) \in SignalMessage /\ Tail(up[c]) \in Seq(SignalMessage)
    BY <2>1, Queues
  <2>3. m \in SignalMessage
    BY <2>1, <2>2 DEF SignalMessage
  <2>4. up' \in [Conns -> Seq(SignalMessage)]
    BY <1>1, <2>2, Put DEF readPump
  <2>5. broadcast' = Append(broadcast, m) /\ Len(broadcast) < QueueCap
    BY <1>1 DEF readPump
  <2> HIDE DEF m
  <2>6. broadcast' \in Seq(SignalMessage) /\ Len(broadcast') <= QueueCap
    BY <2>3, <2>5, Queues, ConstantsAssumption
  <2> QED BY <1>1, <2>4, <2>6 DEF readPump, agents, pumps, rest
<1>2. ASSUME ReadFails(c) PROVE Typed'
  BY <1>2, EmptySeq DEF ReadFails, agents, queues, rest
<1>3. ASSUME writePump(c) PROVE Typed'
  <2>1. send[c] \in Seq(Frame) /\ send[c] # <<>> /\ Len(send[c]) <= Buffer /\ owner[c] \in Devices
    BY <1>3 DEF writePump
  <2>2. /\ Head(send[c]) \in Frame /\ Tail(send[c]) \in Seq(Frame)
        /\ Len(Tail(send[c])) <= Buffer
    BY <2>1, Queues, ConstantsAssumption
  <2>3. send' \in [Conns -> Seq(Frame)] /\ \A b \in Conns : Len(send'[b]) <= Buffer
    BY <1>3, <2>2, Put DEF writePump
  <2>4. got' \in [Devices -> Seq(SignalMessage)]
    <3>1. CASE ReadSocket(c)
      BY <2>1, <3>1, Queues, Put DEF ReadSocket
    <3> QED BY <1>3, <3>1 DEF writePump
  <2> QED BY <1>3, <2>3, <2>4 DEF writePump, wires, queues, rest
<1> QED BY <1>1, <1>2, <1>3 DEF PumpStep

\* Whatever connection is closed.
LEMMA CloseTyped ==
  ASSUME Typed, NEW c \in Conns
  PROVE  /\ Close(c) => ended' \in [Conns -> BOOLEAN] /\ panicked' \in BOOLEAN
         /\ unregister(c) \/ Drop(c) =>
              /\ clients' \in [Devices -> Conns \cup {None}]
              /\ ended' \in [Conns -> BOOLEAN] /\ panicked' \in BOOLEAN
  BY DEF Typed, TypeOK, Close, unregister, Drop

LEMMA HubTyped ==
  ASSUME Typed, HubStep
  PROVE  Typed'
<1> USE DEF Typed, TypeOK, OwnersKnown
<1>1. ASSUME Route PROVE Typed'
  <2>1. broadcast \in Seq(SignalMessage) /\ broadcast # <<>> /\ Len(broadcast) <= QueueCap
    BY <1>1 DEF Route
  <2>2. /\ Head(broadcast) \in SignalMessage /\ Tail(broadcast) \in Seq(SignalMessage)
        /\ Len(Tail(broadcast)) <= QueueCap
    BY <2>1, Queues, ConstantsAssumption
  <2> DEFINE m == Head(broadcast)
             c == clients[m.to]
  <2>3. c \in Conns \cup {None} /\ m \in Frame
    BY <2>2 DEF SignalMessage, Frame
  <2>4. CASE c = None /\ UNCHANGED <<clients, send, ended, panicked>>
    BY <1>1, <2>2, <2>4 DEF Route, agents, wires
  <2>5. CASE /\ c # None /\ HasRoom(c) /\ send' = [send EXCEPT ![c] = Append(@, m)]
             /\ panicked' = (panicked \/ ended[c]) /\ UNCHANGED <<clients, ended>>
    <3>1. InChannels([b \in Conns |-> IF b \in {c} THEN Append(send[b], m) ELSE send[b]])
      <4>1. {c} \in SUBSET Conns /\ \A b \in {c} : HasRoom(b)
        BY <2>3, <2>5
      <4>2. InChannels(send)
        BY DEF InChannels
      <4> HIDE DEF c, m
      <4> QED BY <2>3, <4>1, <4>2, ChannelTyped
    <3>2. send' = [b \in Conns |-> IF b \in {c} THEN Append(send[b], m) ELSE send[b]]
      BY <2>5
    <3> QED BY <1>1, <2>2, <2>5, <3>1, <3>2 DEF Route, agents, wires, InChannels
  <2>6. CASE c # None /\ Drop(c) /\ UNCHANGED send
    BY <1>1, <2>2, <2>3, <2>6, CloseTyped DEF Route, agents, wires
  <2> QED BY <1>1, <2>4, <2>5, <2>6 DEF Route
<1>2. ASSUME RouteRevocation PROVE Typed'
  <2>1. /\ broadcastRevocation \in Seq(Devices) /\ broadcastRevocation # <<>>
        /\ Len(broadcastRevocation) <= QueueCap
    BY <1>2 DEF RouteRevocation
  <2>2. /\ Head(broadcastRevocation) \in Devices /\ Tail(broadcastRevocation) \in Seq(Devices)
        /\ Len(Tail(broadcastRevocation)) <= QueueCap
    BY <2>1, Queues, ConstantsAssumption
  <2> DEFINE C == {c \in Conns : (\E d \in Devices : clients[d] = c) /\ HasRoom(c)}
             f == [revoked |-> Head(broadcastRevocation)]
  <2>3. f \in Frame
    BY <2>2 DEF Frame, RevocationEvent
  <2>4. send' = [c \in Conns |-> IF c \in C THEN Append(send[c], f) ELSE send[c]]
    BY <1>2 DEF RouteRevocation
  <2>5. \A c \in C : HasRoom(c)
    OBVIOUS
  <2> HIDE DEF f, C
  <2>6. C \subseteq Conns
    BY DEF C
  <2>7. InChannels(send')
    BY <2>3, <2>4, <2>5, <2>6, ChannelTyped DEF InChannels
  <2> QED BY <1>2, <2>2, <2>7 DEF RouteRevocation, InChannels, agents, wires
<1>3. ASSUME Kick PROVE Typed'
  <2>1. revoking.conn \in Conns
    BY <1>3 DEF Kick, Idle
  <2> QED BY <1>3, <2>1, CloseTyped DEF Kick, agents, wires, queues, Idle
<1>4. ASSUME NEW c \in Conns, Register(c) PROVE Typed'
  BY <1>4 DEF Register, agents, wires, queues
<1>5. ASSUME NEW c \in Conns, Unregister(c) PROVE Typed'
  <2>1. send' \in [Conns -> Seq(Frame)] /\ \A b \in Conns : Len(send'[b]) <= Buffer
    BY <1>5, EmptySeq, ConstantsAssumption DEF Unregister
  <2> QED BY <1>5, <2>1, CloseTyped DEF Unregister, agents, wires, queues
<1> QED BY <1>1, <1>2, <1>3, <1>4, <1>5 DEF HubStep

LEMMA StepTyped ==
  ASSUME Typed, [Next]_vars
  PROVE  Typed'
<1>1. ASSUME BroadcastRevocation PROVE Typed'
  <2>1. /\ broadcastRevocation \in Seq(Devices) /\ revoking.uuid \in Devices
        /\ Len(broadcastRevocation) < QueueCap /\ revoking.at = "announcing"
    BY <1>1 DEF BroadcastRevocation, Typed, TypeOK, Idle
  <2>2. broadcastRevocation' \in Seq(Devices) /\ Len(broadcastRevocation') <= QueueCap
    BY <1>1, <2>1, Queues, ConstantsAssumption DEF BroadcastRevocation
  <2>3. revoking' \in [at : {"announcing", "looking"}, uuid : Devices]
    <3>1. revoking \in [at : {"announcing", "looking"}, uuid : Devices]
      BY <2>1 DEF Typed, TypeOK, Idle
    <3>2. revoking' = [revoking EXCEPT !.at = "looking"]
      BY <1>1 DEF BroadcastRevocation
    <3> QED BY <3>1, <3>2
  <2> QED BY <1>1, <2>2, <2>3
          DEF BroadcastRevocation, Typed, TypeOK, OwnersKnown, agents, wires, pumps
<1>2. ASSUME DisconnectClient PROVE Typed'
  <2>1. revoking.uuid \in Devices
    BY <1>2 DEF DisconnectClient, Typed, TypeOK, Idle
  <2> QED BY <1>2, <2>1
          DEF DisconnectClient, Typed, TypeOK, OwnersKnown, agents, wires, pumps, queues, Idle
<1>3. ASSUME NEW d \in Devices, handleRevoke(d) PROVE Typed'
  BY <1>3 DEF handleRevoke, RevokeDevice, Typed, TypeOK, OwnersKnown, agents, wires, pumps,
              queues
<1>4. CASE UNCHANGED vars
  BY <1>4 DEF vars, agents, wires, pumps, queues, rest, Typed, TypeOK, OwnersKnown
<1> QED BY <1>1, <1>2, <1>3, <1>4, AgentTyped, PumpTyped, HubTyped DEF Next, ServerStep

\* Every variable keeps its type, and so no channel and no queue of the hub ever holds
\* more than its room (relay/internal/signaling/hub.go).
THEOREM TypeCorrect == Spec => []TypeOK
<1>1. Typed => TypeOK
  BY DEF Typed
<1> QED BY <1>1, InitTyped, StepTyped, PTL DEF Spec

-----------------------------------------------------------------------------
(* The map of the hub.                                                     *)

Began(c) == reader[c] \notin {"none", "joining"}

\* The map holds connections that are served, by the name of their owner, and whose
\* channel is open.
MapServes ==
  \A d \in Devices : clients[d] # None => Serving(clients[d], d) /\ ~ended[clients[d]]

\* What the history "overlapped" says.
OneServes ==
  \A b, c \in Conns, d \in Devices : Serving(b, d) /\ Serving(c, d) /\ b # c => d \in overlapped

FreshOpen == \A c \in Conns : ended[c] => Began(c)

\* What the handler of a revocation hands to the hub is still what the map holds, if it
\* holds any connection of the device.
KickKnows ==
  revoking.at = "kicking" =>
    /\ revoking.uuid \in Devices /\ revoking.conn \in Conns
    /\ owner[revoking.conn] = revoking.uuid /\ Began(revoking.conn)
    /\ revoking.uuid \in overlapped \/ clients[revoking.uuid] \in {None, revoking.conn}

IInv == /\ Typed /\ MapServes /\ OneServes /\ FreshOpen /\ KickKnows
        /\ Routed /\ PanicHasCause

LEMMA InitHolds == Init => IInv
<1> SUFFICES ASSUME Init PROVE IInv
  OBVIOUS
<1>1. Typed
  BY InitTyped
<1> QED BY <1>1 DEF Init, IInv, MapServes, OneServes, FreshOpen, KickKnows, Routed,
                    PanicHasCause, Serving, Idle

\* What happens elsewhere.
LEMMA Elsewhere ==
  ASSUME IInv, Typed',
         UNCHANGED <<short, owner, reader, ended, clients, revoking, panicked, overlapped>>
  PROVE  IInv'
  BY DEF IInv, MapServes, OneServes, FreshOpen, KickKnows, Routed, PanicHasCause, Serving,
         Began

\* A connection is closed that the map holds, or whose device the map holds another of.
LEMMA CloseKeeps ==
  ASSUME IInv, ~panicked, NEW c \in Conns, owner[c] \in Devices, Began(c),
         clients' = [clients EXCEPT ![owner[c]] = None], Close(c),
         clients[owner[c]] = c \/ owner[c] \in overlapped,
         UNCHANGED <<owner, overlapped>>,
         UNCHANGED reader \/ reader' = [reader EXCEPT ![c] = "gone"]
  PROVE  /\ MapServes' /\ OneServes' /\ FreshOpen' /\ Routed' /\ PanicHasCause'
         /\ UNCHANGED revoking => KickKnows'
<1> USE DEF IInv, Typed, TypeOK
<1>1. MapServes'
  BY DEF MapServes, Close, Serving
<1>2. OneServes'
  BY DEF OneServes, Serving
<1>3. FreshOpen'
  BY DEF FreshOpen, Began, Close
<1>4. Routed'
  BY DEF Routed, Close
<1>5. PanicHasCause'
  <2>1. panicked' => panicked \/ ended[c]
    BY DEF Close
  <2>2. ended[c] => overlapped # {}
    BY ConstantsAssumption DEF MapServes
  <2> QED BY <2>1, <2>2 DEF PanicHasCause
<1>6. UNCHANGED revoking => KickKnows'
  BY DEF KickKnows, Began
<1> QED BY <1>1, <1>2, <1>3, <1>4, <1>5, <1>6

LEMMA UnregisterKeeps ==
  ASSUME IInv, Typed', ~panicked, NEW c \in Conns, Unregister(c)
  PROVE  IInv'
<1>1. owner[c] \in Devices /\ Began(c) /\ Serving(c, owner[c])
  BY DEF Unregister, IInv, Typed, TypeOK, OwnersKnown, Began, Serving
<1>2. /\ UNCHANGED <<owner, overlapped, revoking>>
      /\ reader' = [reader EXCEPT ![c] = "gone"]
  BY DEF Unregister, wires
<1>3. CASE clients[owner[c]] # None
  <2>1. clients' = [clients EXCEPT ![owner[c]] = None] /\ Close(c)
    BY <1>3 DEF Unregister, unregister
  <2>2. clients[owner[c]] = c \/ owner[c] \in overlapped
    BY <1>1, <1>3 DEF IInv, Typed, TypeOK, MapServes, OneServes
  <2> QED BY <1>1, <1>2, <2>1, <2>2, CloseKeeps DEF IInv
<1>4. CASE clients[owner[c]] = None
  <2>1. UNCHANGED <<clients, ended, panicked>>
    BY <1>4 DEF Unregister, unregister
  <2> USE DEF IInv, Typed, TypeOK
  <2>2. MapServes'
    <3>1. ASSUME NEW d \in Devices, clients[d] = c PROVE FALSE
      <4>1. clients[d] # None
        BY <3>1, ConstantsAssumption
      <4>2. owner[c] = d
        BY <3>1, <4>1 DEF MapServes, Serving
      <4> QED BY <1>4, <3>1, <4>1, <4>2
    <3> QED BY <1>2, <2>1, <3>1 DEF MapServes, Serving
  <2>5. OneServes'
    BY <1>2 DEF OneServes, Serving
  <2>3. FreshOpen' /\ KickKnows'
    BY <1>2, <2>1 DEF FreshOpen, KickKnows, Began
  <2>4. Routed' /\ PanicHasCause'
    BY <1>2, <2>1 DEF Routed, PanicHasCause
  <2> QED BY <2>2, <2>3, <2>4, <2>5
<1> QED BY <1>3, <1>4

LEMMA RouteKeeps ==
  ASSUME IInv, Typed', ~panicked, Route
  PROVE  IInv'
<1> DEFINE m == Head(broadcast)
           c == clients[m.to]
<1>1. m.to \in Devices
  <2>1. m \in SignalMessage
    BY Queues DEF Route, IInv, Typed, TypeOK
  <2> QED BY <2>1 DEF SignalMessage
<1>2. UNCHANGED <<short, owner, reader, revoking, overlapped>>
  BY DEF Route, agents, wires
<1>3. CASE UNCHANGED <<clients, send, ended, panicked>>
  BY <1>2, <1>3, Elsewhere
<1>4. CASE /\ c # None /\ UNCHANGED <<clients, ended>>
           /\ panicked' = (panicked \/ ended[c])
  <2>1. ~ended[c]
    BY <1>1, <1>4 DEF IInv, MapServes
  <2>2. panicked' = panicked
    BY <1>4, <2>1 DEF IInv, Typed, TypeOK
  <2> QED BY <1>2, <1>4, <2>2, Elsewhere
<1>5. CASE c # None /\ Drop(c)
  <2>1. c \in Conns /\ owner[c] = m.to /\ Began(c) /\ clients[owner[c]] = c
    <3> HIDE DEF m
    <3>1. c \in Conns
      BY <1>1, <1>5 DEF IInv, Typed, TypeOK
    <3>2. Serving(c, m.to)
      BY <1>1, <1>5 DEF IInv, MapServes
    <3> QED BY <3>1, <3>2 DEF Serving, Began
  <2>2. clients' = [clients EXCEPT ![owner[c]] = None] /\ Close(c)
    BY <1>5 DEF Drop
  <2> HIDE DEF c, m
  <2> QED BY <1>1, <1>2, <2>1, <2>2, CloseKeeps DEF IInv
<1> QED BY <1>3, <1>4, <1>5 DEF Route

LEMMA KickKeeps ==
  ASSUME IInv, Typed', ~panicked, Kick
  PROVE  IInv'
<1> DEFINE c == revoking.conn
<1>1. /\ c \in Conns /\ owner[c] \in Devices /\ Began(c) /\ owner[c] = revoking.uuid
      /\ owner[c] \in overlapped \/ clients[owner[c]] \in {None, c}
  BY DEF Kick, IInv, KickKnows
<1>2. UNCHANGED <<owner, reader, overlapped>> /\ revoking' = Idle /\ unregister(c)
  BY DEF Kick, wires
<1>3. KickKnows'
  BY <1>2 DEF KickKnows, Idle
<1>4. CASE clients[owner[c]] # None
  <2>1. clients' = [clients EXCEPT ![owner[c]] = None] /\ Close(c)
    BY <1>2, <1>4 DEF unregister
  <2> HIDE DEF c
  <2> QED BY <1>1, <1>2, <1>3, <1>4, <2>1, CloseKeeps DEF IInv
<1>5. CASE clients[owner[c]] = None
  <2>1. UNCHANGED <<clients, ended, panicked>>
    BY <1>2, <1>5 DEF unregister
  <2> QED BY <1>2, <1>3, <2>1
          DEF IInv, MapServes, OneServes, FreshOpen, Routed, PanicHasCause, Serving, Began
<1> QED BY <1>4, <1>5

LEMMA RegisterKeeps ==
  ASSUME IInv, Typed', ~panicked, NEW c \in Conns, Register(c)
  PROVE  IInv'
<1> USE DEF IInv, Typed, TypeOK
<1>1. /\ owner[c] \in Devices /\ reader[c] = "joining" /\ ~ended[c]
      /\ clients' = [clients EXCEPT ![owner[c]] = c]
      /\ reader' = [reader EXCEPT ![c] = "reading"]
      /\ UNCHANGED <<short, owner, ended, revoking>>
  BY DEF Register, OwnersKnown, FreshOpen, Began, agents, wires
<1>2. overlapped \subseteq overlapped'
  BY DEF Register
<1>3. MapServes'
  <2> SUFFICES ASSUME NEW d \in Devices, clients'[d] # None
               PROVE  Serving(clients[d], d)' /\ ~ended'[clients'[d]]
    BY DEF MapServes
  <2>1. CASE d = owner[c]
    BY <1>1, <2>1 DEF Serving
  <2>2. CASE d # owner[c]
    <3>1. clients'[d] = clients[d]
      BY <1>1, <2>2
    <3>2. Serving(clients[d], d) /\ ~ended[clients[d]] /\ clients[d] \in Conns
      BY <3>1 DEF MapServes
    <3>3. clients[d] # c
      BY <2>2, <3>2 DEF Serving
    <3> QED BY <1>1, <3>1, <3>2, <3>3 DEF Serving
  <2> QED BY <2>1, <2>2
<1>4. OneServes'
  <2> SUFFICES ASSUME NEW a \in Conns, NEW b \in Conns, NEW d \in Devices,
                      Serving(a, d)', Serving(b, d)', a # b
               PROVE  d \in overlapped'
    BY DEF OneServes
  <2>1. CASE a # c /\ b # c
    BY <1>1, <1>2, <2>1 DEF OneServes, Serving
  <2>2. ASSUME NEW e \in Conns \ {c}, Serving(e, owner[c]) PROVE owner[c] \in overlapped'
    BY <2>2 DEF Register
  <2>3. CASE a = c
    BY <1>1, <2>2, <2>3 DEF Serving
  <2>4. CASE b = c
    BY <1>1, <2>2, <2>4 DEF Serving
  <2> QED BY <2>1, <2>3, <2>4
<1>5. FreshOpen'
  BY <1>1 DEF FreshOpen, Began
<1>6. KickKnows'
  <2> SUFFICES ASSUME revoking.at = "kicking" PROVE KickKnows'
    BY <1>1 DEF KickKnows
  <2>1. CASE revoking.uuid = owner[c]
    BY <1>1, <2>1 DEF Register, KickKnows, Began
  <2>2. CASE revoking.uuid # owner[c]
    BY <1>1, <1>2, <2>2 DEF KickKnows, Began
  <2> QED BY <2>1, <2>2
<1>7. Routed'
  <2> SUFFICES ASSUME NEW b \in Conns, reader'[b] = "reading", ~ended[b],
                      owner[b] \notin overlapped'
               PROVE  clients'[owner[b]] = b
    BY <1>1 DEF Routed
  <2>1. CASE b = c
    BY <1>1, <2>1
  <2>2. CASE b # c /\ owner[b] # owner[c]
    <3>1. owner[b] \in Devices
      BY <1>1, <2>2 DEF OwnersKnown
    <3>2. clients[owner[b]] = b
      BY <1>1, <1>2, <2>2 DEF Routed
    <3> QED BY <1>1, <2>2, <3>1, <3>2
  <2>3. CASE b # c /\ owner[b] = owner[c]
    <3>1. Serving(b, owner[c])
      BY <1>1, <2>3 DEF Serving
    <3>2. overlapped' = overlapped \cup {owner[c]}
      BY <2>3, <3>1 DEF Register
    <3> QED BY <2>3, <3>2
  <2> QED BY <2>1, <2>2, <2>3
<1>8. PanicHasCause'
  <2>1. panicked' => owner[c] \in short'
    BY <1>1 DEF Register
  <2>2. clients'[owner[c]] # None
    BY <1>1, ConstantsAssumption
  <2> QED BY <2>1, <2>2 DEF PanicHasCause
<1> QED BY <1>3, <1>4, <1>5, <1>6, <1>7, <1>8

LEMMA ConnectKeeps ==
  ASSUME IInv, Typed', NEW d \in Devices, NEW c \in Conns, Connect(d, c)
  PROVE  IInv'
<1> USE DEF IInv, Typed, TypeOK
<1>1. /\ reader[c] = "none" /\ owner[c] = None
      /\ owner' = [owner EXCEPT ![c] = d] /\ reader' = [reader EXCEPT ![c] = "joining"]
      /\ UNCHANGED <<short, ended, clients, revoking, panicked, overlapped>>
  BY DEF Connect, handleSignaling, ServeWs, OwnersKnown, rest
<1>6. \A b \in Conns, e \in Devices : Serving(b, e)' <=> Serving(b, e)
  <2> TAKE b \in Conns, e \in Devices
  <2>1. CASE b = c
    BY <1>1, <2>1 DEF Serving
  <2>2. CASE b # c
    BY <1>1, <2>2 DEF Serving
  <2> QED BY <2>1, <2>2
<1>2. MapServes'
  <2> SUFFICES ASSUME NEW e \in Devices, clients[e] # None
               PROVE  Serving(clients[e], e)' /\ ~ended[clients[e]]
    BY <1>1 DEF MapServes, Serving
  <2>1. clients[e] \in Conns /\ Serving(clients[e], e) /\ ~ended[clients[e]]
    BY DEF MapServes
  <2> QED BY <1>1, <1>6, <2>1 DEF Serving
<1>5. OneServes'
  <2> HIDE DEF IInv, Typed, TypeOK
  <2>1. OneServes
    BY DEF IInv
  <2> QED BY <1>1, <1>6, <2>1 DEF OneServes
<1>3. FreshOpen' /\ KickKnows'
  BY <1>1 DEF FreshOpen, KickKnows, Began
<1>4. Routed' /\ PanicHasCause'
  BY <1>1 DEF Routed, PanicHasCause
<1> QED BY <1>2, <1>3, <1>4, <1>5

LEMMA ReadFailsKeeps ==
  ASSUME IInv, Typed', NEW c \in Conns, ReadFails(c)
  PROVE  IInv'
<1> USE DEF IInv, Typed, TypeOK
<1>1. /\ reader[c] = "reading" /\ reader' = [reader EXCEPT ![c] = "leaving"]
      /\ UNCHANGED <<short, owner, ended, clients, revoking, panicked, overlapped>>
  BY DEF ReadFails, agents, rest
<1>6. \A b \in Conns, e \in Devices : Serving(b, e)' <=> Serving(b, e)
  <2> TAKE b \in Conns, e \in Devices
  <2>1. CASE b = c
    BY <1>1, <2>1 DEF Serving
  <2>2. CASE b # c
    BY <1>1, <2>2 DEF Serving
  <2> QED BY <2>1, <2>2
<1>2. MapServes'
  <2> SUFFICES ASSUME NEW e \in Devices, clients[e] # None
               PROVE  Serving(clients[e], e)' /\ ~ended[clients[e]]
    BY <1>1 DEF MapServes, Serving
  <2>1. clients[e] \in Conns /\ Serving(clients[e], e) /\ ~ended[clients[e]]
    BY DEF MapServes
  <2> QED BY <1>1, <1>6, <2>1 DEF Serving
<1>5. OneServes'
  <2> HIDE DEF IInv, Typed, TypeOK
  <2>1. OneServes
    BY DEF IInv
  <2> QED BY <1>1, <1>6, <2>1 DEF OneServes
<1>3. FreshOpen' /\ KickKnows'
  BY <1>1 DEF FreshOpen, KickKnows, Began
<1>4. Routed' /\ PanicHasCause'
  BY <1>1 DEF Routed, PanicHasCause
<1> QED BY <1>2, <1>3, <1>4, <1>5

\* The handler of a revocation looks at the map.
LEMMA RevokeKeeps ==
  ASSUME IInv, Typed', \/ BroadcastRevocation \/ DisconnectClient
                       \/ \E d \in Devices : handleRevoke(d)
  PROVE  IInv'
<1>1. UNCHANGED <<short, owner, reader, ended, clients, panicked, overlapped>>
  BY DEF BroadcastRevocation, DisconnectClient, handleRevoke, agents, wires, pumps
<1>2. /\ revoking'.at = "kicking"
      => /\ revoking'.uuid \in Devices /\ revoking'.conn = clients[revoking'.uuid]
         /\ clients[revoking'.uuid] # None
  <2>1. ASSUME BroadcastRevocation PROVE revoking'.at = "looking"
    <3>1. revoking \in [at : {"announcing", "looking"}, uuid : Devices]
      BY <2>1 DEF BroadcastRevocation, IInv, Typed, TypeOK, Idle
    <3> QED BY <2>1, <3>1 DEF BroadcastRevocation
  <2>2. ASSUME DisconnectClient, revoking'.at = "kicking"
        PROVE  /\ revoking'.uuid \in Devices /\ revoking'.conn = clients[revoking'.uuid]
               /\ clients[revoking'.uuid] # None
    <3>1. revoking \in [at : {"announcing", "looking"}, uuid : Devices]
      BY <2>2 DEF DisconnectClient, IInv, Typed, TypeOK, Idle
    <3> QED BY <2>2, <3>1 DEF DisconnectClient, Idle
  <2>3. ASSUME NEW d \in Devices, handleRevoke(d) PROVE revoking'.at = "announcing"
    BY <2>3 DEF handleRevoke
  <2> QED BY <2>1, <2>2, <2>3
<1>3. KickKnows'
  <2> SUFFICES ASSUME revoking'.at = "kicking" PROVE KickKnows'
    BY DEF KickKnows
  <2> DEFINE u == revoking'.uuid
  <2>1. /\ u \in Devices /\ revoking'.conn = clients[u] /\ clients[u] # None
    BY <1>2
  <2> HIDE DEF u
  <2>2. clients[u] \in Conns /\ Serving(clients[u], u)
    BY <2>1 DEF IInv, Typed, TypeOK, MapServes
  <2> QED BY <1>1, <2>1, <2>2 DEF KickKnows, Serving, Began, u
<1> QED BY <1>1, <1>3 DEF IInv, MapServes, OneServes, FreshOpen, Routed, PanicHasCause,
                          Serving, Began

LEMMA StepHolds ==
  ASSUME IInv, [Next]_vars
  PROVE  IInv'
<1>1. Typed'
  BY StepTyped DEF IInv
<1>2. ASSUME NEW d \in Devices, NEW e \in Devices, send_signal(d, e) PROVE IInv'
  BY <1>1, <1>2, Elsewhere DEF send_signal, wires, pumps, rest
<1>3. ASSUME NEW d \in Devices, SendSignal(d) \/ LoseConnection(d) PROVE IInv'
  BY <1>1, <1>3, Elsewhere DEF SendSignal, LoseConnection, pumps, rest
<1>4. ASSUME NEW c \in Conns, readPump(c) \/ writePump(c) PROVE IInv'
  BY <1>1, <1>4, Elsewhere DEF readPump, writePump, agents, pumps, wires, rest
<1>5. ASSUME RouteRevocation PROVE IInv'
  <2>1. ~(\E d \in Devices : clients[d] # None /\ ended[clients[d]])
    BY DEF IInv, MapServes
  <2>2. panicked' = panicked
    BY <1>5, <2>1 DEF RouteRevocation, IInv, Typed, TypeOK
  <2> QED BY <1>1, <1>5, <2>2, Elsewhere DEF RouteRevocation, agents, wires
<1>6. CASE UNCHANGED vars
  BY <1>1, <1>6, Elsewhere DEF vars, agents, wires, pumps, rest
<1> QED BY <1>1, <1>2, <1>3, <1>4, <1>5, <1>6, ConnectKeeps, ReadFailsKeeps, RouteKeeps,
           KickKeeps, RegisterKeeps, UnregisterKeeps, RevokeKeeps
        DEF Next, AgentStep, ServerStep, PumpStep, HubStep

\* Unless a device had two connections at a time, the hub routes to every connection
\* whose channel is open (Hub.Run, readPump and handleRevoke).
THEOREM OpenIsRouted == Spec => []Routed
<1>1. IInv => Routed
  BY DEF IInv
<1> QED BY <1>1, InitHolds, StepHolds, PTL DEF Spec

\* The server stops only when a device with a short name registers, or after a device had
\* two connections, so that a closed channel may be used (Hub.Run).
THEOREM ServerStopsWithCause == Spec => []PanicHasCause
<1>1. IInv => PanicHasCause
  BY DEF IInv
<1> QED BY <1>1, InitHolds, StepHolds, PTL DEF Spec

-----------------------------------------------------------------------------
(* Sequences in places: a signal is in one of them at most, and there once.  *)

Once(L) ==
  \A p, q \in DOMAIN L : \A i \in 1..Len(L[p]), j \in 1..Len(L[q]) :
    L[p][i] = L[q][j] /\ L[p][i] \in SignalMessage => p = q /\ i = j

LEMMA Positions ==
  ASSUME NEW S, NEW s \in Seq(S)
  PROVE  /\ s # <<>> => /\ 1 \in 1..Len(s) /\ Head(s) = s[1]
                        /\ \A i \in 1..Len(Tail(s)) : i + 1 \in 1..Len(s) /\ Tail(s)[i] = s[i + 1]
         /\ \A e \in S : \A i \in 1..Len(Append(s, e)) :
              \/ i \in 1..Len(s) /\ Append(s, e)[i] = s[i]
              \/ i = Len(s) + 1 /\ Append(s, e)[i] = e
<1>1. Len(s) \in Nat
  BY LenProperties
<1>2. ASSUME s # <<>>
      PROVE  /\ 1 \in 1..Len(s) /\ Head(s) = s[1]
             /\ \A i \in 1..Len(Tail(s)) : i + 1 \in 1..Len(s) /\ Tail(s)[i] = s[i + 1]
  <2>1. Len(Tail(s)) = Len(s) - 1 /\ \A i \in 1..Len(Tail(s)) : Tail(s)[i] = s[i + 1]
    BY <1>2, HeadTailProperties
  <2>2. Len(s) # 0 /\ Head(s) = s[1]
    BY <1>2, EmptySeq, LenProperties
  <2> QED BY <1>1, <2>1, <2>2
<1>3. ASSUME NEW e \in S
      PROVE  \A i \in 1..Len(Append(s, e)) :
               \/ i \in 1..Len(s) /\ Append(s, e)[i] = s[i]
               \/ i = Len(s) + 1 /\ Append(s, e)[i] = e
  <2>1. /\ Len(Append(s, e)) = Len(s) + 1 /\ Append(s, e)[Len(s) + 1] = e
        /\ \A i \in 1..Len(s) : Append(s, e)[i] = s[i]
    BY AppendProperties
  <2> QED BY <1>1, <2>1
<1> QED BY <1>2, <1>3

\* Every signal of K comes from the same place of L, by a shift of its sequence, except
\* that the signal e may be new at the end of the place r.
Shifted(P, L, K, o, e, r) ==
  \A p \in P : \A i \in 1..Len(K[p]) : K[p][i] \in SignalMessage =>
    \/ i + o[p] \in 1..Len(L[p]) /\ K[p][i] = L[p][i + o[p]] /\ K[p][i] # e
    \/ p = r /\ i = Len(K[p]) /\ K[p][i] = e

LEMMA Origins ==
  ASSUME NEW P, NEW L, NEW K, DOMAIN L = P, DOMAIN K = P, Once(L),
         NEW e, NEW r, NEW o \in [P -> {0, 1}], Shifted(P, L, K, o, e, r)
  PROVE  Once(K)
<1> SUFFICES ASSUME NEW p \in P, NEW q \in P, NEW i \in 1..Len(K[p]), NEW j \in 1..Len(K[q]),
                    K[p][i] = K[q][j], K[p][i] \in SignalMessage
             PROVE  p = q /\ i = j
  BY DEF Once
<1>1. CASE p = r /\ i = Len(K[p]) /\ K[p][i] = e
  BY <1>1 DEF Shifted
<1>2. CASE /\ i + o[p] \in 1..Len(L[p]) /\ K[p][i] = L[p][i + o[p]]
           /\ K[p][i] # e
  <2>1. j + o[q] \in 1..Len(L[q]) /\ K[q][j] = L[q][j + o[q]]
    BY <1>2 DEF Shifted
  <2>2. \A a, b : /\ a \in 1..Len(L[p]) /\ b \in 1..Len(L[q])
                  /\ L[p][a] = K[p][i] /\ L[q][b] = K[p][i]
                  => p = q /\ a = b
    BY DEF Once
  <2>3. p = q /\ i + o[p] = j + o[q]
    BY <1>2, <2>1, <2>2
  <2>4. i \in Int /\ j \in Int /\ o[p] \in Int
    OBVIOUS
  <2> QED BY <2>3, <2>4
<1> QED BY <1>1, <1>2 DEF Shifted

LEMMA NoSignal ==
  ASSUME NEW d
  PROVE  [revoked |-> d] \notin SignalMessage
<1>1. \A m \in SignalMessage : "id" \in DOMAIN m
  BY DEF SignalMessage
<1>2. "id" \notin DOMAIN [revoked |-> d]
  OBVIOUS
<1> QED BY <1>1, <1>2

\* Frames are taken from the front, or lost altogether.
TakesOut(P, L, K) ==
  \A p \in P : K[p] \in {L[p], <<>>} \/ (L[p] # <<>> /\ K[p] = Tail(L[p]))

LEMMA TakenOut ==
  ASSUME NEW P, NEW L \in [P -> Seq(Frame)], NEW K \in [P -> Seq(Frame)], Once(L),
         TakesOut(P, L, K)
  PROVE  Once(K)
<1> USE DEF TakesOut
<1> DEFINE o == [p \in P |-> IF K[p] = L[p] THEN 0 ELSE 1]
<1>1. \A p \in P : \A i \in 1..Len(K[p]) :
        i + o[p] \in 1..Len(L[p]) /\ K[p][i] = L[p][i + o[p]]
  <2> TAKE p \in P
  <2> TAKE i \in 1..Len(K[p])
  <2>1. CASE K[p] = L[p]
    <3>1. o[p] = 0 /\ i + 0 = i
      BY <2>1
    <3> QED BY <2>1, <3>1
  <2>2. CASE K[p] # L[p]
    <3>1. o[p] = 1
      BY <2>2
    <3>2. L[p] # <<>> /\ K[p] = Tail(L[p])
      BY <2>2, EmptySeq
    <3>3. i + 1 \in 1..Len(L[p]) /\ K[p][i] = L[p][i + 1]
      BY <3>2, Positions
    <3> HIDE DEF o
    <3> QED BY <3>1, <3>3
  <2> QED BY <2>1, <2>2
<1>2. o \in [P -> {0, 1}]
  OBVIOUS
<1>3. DOMAIN L = P /\ DOMAIN K = P
  OBVIOUS
<1> HIDE DEF o
<1> DEFINE e == [revoked |-> None]
<1>4. e \notin SignalMessage
  BY NoSignal
<1> HIDE DEF e
<1>5. Shifted(P, L, K, o, e, e)
  BY <1>1, <1>4 DEF Shifted
<1> QED BY <1>2, <1>3, <1>5, Origins

\* The first frame of one place goes to the end of another.
Moves(P, L, K, p, r) ==
  /\ p \in P /\ r \in P /\ p # r /\ L[p] # <<>>
  /\ K[p] = Tail(L[p]) /\ K[r] = Append(L[r], Head(L[p]))
  /\ \A x \in P \ {p, r} : K[x] = L[x]

LEMMA Moved ==
  ASSUME NEW P, NEW L \in [P -> Seq(Frame)], NEW K \in [P -> Seq(Frame)], Once(L),
         NEW p, NEW r, Moves(P, L, K, p, r)
  PROVE  Once(K)
<1> USE DEF Moves
<1> DEFINE e == Head(L[p])
           o == [x \in P |-> IF x = p THEN 1 ELSE 0]
<1>1. /\ e = L[p][1] /\ 1 \in 1..Len(L[p]) /\ e \in Frame
      /\ \A i \in 1..Len(K[p]) : i + 1 \in 1..Len(L[p]) /\ K[p][i] = L[p][i + 1]
  BY Positions, HeadTailProperties
<1>2. \A i \in 1..Len(K[r]) : \/ i \in 1..Len(L[r]) /\ K[r][i] = L[r][i]
                              \/ i = Len(K[r]) /\ K[r][i] = e
  BY <1>1, Positions, AppendProperties
<1>3. \A x \in P : \A i \in 1..Len(L[x]) :
        L[x][i] = e /\ e \in SignalMessage => x = p /\ i = 1
  BY <1>1 DEF Once
<1>4. /\ o \in [P -> {0, 1}] /\ o[p] = 1 /\ \A x \in P \ {p} : o[x] = 0
      /\ DOMAIN L = P /\ DOMAIN K = P
  OBVIOUS
<1> HIDE DEF e, o
<1>5. Shifted(P, L, K, o, e, r)
  <2> SUFFICES ASSUME NEW x \in P, NEW i \in 1..Len(K[x]), K[x][i] \in SignalMessage
               PROVE  \/ i + o[x] \in 1..Len(L[x]) /\ K[x][i] = L[x][i + o[x]] /\ K[x][i] # e
                      \/ x = r /\ i = Len(K[x]) /\ K[x][i] = e
    BY DEF Shifted
  <2>1. CASE x = p
    <3>1. i + 1 \in 1..Len(L[p]) /\ K[p][i] = L[p][i + 1]
      BY <1>1, <2>1
    <3>2. i + 1 # 1
      OBVIOUS
    <3>3. K[x][i] # e
      BY <1>3, <2>1, <3>1, <3>2
    <3> QED BY <1>4, <2>1, <3>1, <3>3
  <2>2. CASE x # p
    <3>1. o[x] = 0 /\ i + 0 = i
      BY <1>4, <2>2
    <3>2. \/ i \in 1..Len(L[x]) /\ K[x][i] = L[x][i]
          \/ x = r /\ i = Len(K[x]) /\ K[x][i] = e
      BY <1>2, <2>2
    <3>3. i \in 1..Len(L[x]) /\ K[x][i] = L[x][i] => K[x][i] # e
      BY <1>3, <2>2
    <3> QED BY <3>1, <3>2, <3>3
  <2> QED BY <2>1, <2>2
<1> QED BY <1>4, <1>5, Origins

\* A frame that is no signal, or a signal that was nowhere and goes to one place.
Adds(P, L, K, e, r) ==
  /\ e \in Frame
  /\ \A x \in P : K[x] = L[x] \/ (K[x] = Append(L[x], e) /\ (e \in SignalMessage => x = r))
  /\ \A x \in P : \A i \in 1..Len(L[x]) : e \in SignalMessage => L[x][i] # e

LEMMA Added ==
  ASSUME NEW P, NEW L \in [P -> Seq(Frame)], NEW K \in [P -> Seq(Frame)], Once(L),
         NEW e, NEW r, Adds(P, L, K, e, r)
  PROVE  Once(K)
<1> USE DEF Adds
<1> DEFINE o == [x \in P |-> 0]
<1>1. o \in [P -> {0, 1}] /\ (\A x \in P : o[x] = 0) /\ DOMAIN L = P /\ DOMAIN K = P
  OBVIOUS
<1> HIDE DEF o
<1>2. Shifted(P, L, K, o, e, r)
  <2> SUFFICES ASSUME NEW x \in P, NEW i \in 1..Len(K[x]), K[x][i] \in SignalMessage
               PROVE  \/ i + o[x] \in 1..Len(L[x]) /\ K[x][i] = L[x][i + o[x]] /\ K[x][i] # e
                      \/ x = r /\ i = Len(K[x]) /\ K[x][i] = e
    BY DEF Shifted
  <2>1. o[x] = 0 /\ i + 0 = i
    BY <1>1
  <2>2. CASE K[x] = L[x]
    BY <2>1, <2>2
  <2>3. CASE K[x] = Append(L[x], e) /\ (e \in SignalMessage => x = r)
    <3>1. \/ i \in 1..Len(L[x]) /\ K[x][i] = L[x][i]
          \/ i = Len(K[x]) /\ K[x][i] = e
      BY <2>3, Positions, AppendProperties
    <3> QED BY <2>1, <2>3, <3>1
  <2> QED BY <2>2, <2>3
<1> QED BY <1>1, <1>2, Origins

-----------------------------------------------------------------------------
(* The way of a signal.                                                    *)

Places == ({"outgoing", "got"} \X Devices) \cup ({"up", "send"} \X Conns)
          \cup {<<"broadcast", None>>}

Layout(o, g, u, s, b) ==
  [p \in Places |->
     CASE p[1] = "outgoing" -> o[p[2]]
       [] p[1] = "got"      -> g[p[2]]
       [] p[1] = "up"       -> u[p[2]]
       [] p[1] = "send"     -> s[p[2]]
       [] OTHER             -> b]

At == Layout(outgoing, got, up, send, broadcast)

LEMMA LayoutIs ==
  ASSUME NEW L, NEW o, NEW g, NEW u, NEW s, NEW b, L = Layout(o, g, u, s, b)
  PROVE  /\ DOMAIN L = Places
         /\ \A d \in Devices : L[<<"outgoing", d>>] = o[d] /\ L[<<"got", d>>] = g[d]
         /\ \A c \in Conns : L[<<"up", c>>] = u[c] /\ L[<<"send", c>>] = s[c]
         /\ L[<<"broadcast", None>>] = b
  BY DEF Layout, Places

AtAll ==
  /\ DOMAIN At = Places
  /\ \A d \in Devices : At[<<"outgoing", d>>] = outgoing[d] /\ At[<<"got", d>>] = got[d]
  /\ \A c \in Conns : At[<<"up", c>>] = up[c] /\ At[<<"send", c>>] = send[c]
  /\ At[<<"broadcast", None>>] = broadcast

LEMMA AtIs == AtAll
  BY LayoutIs DEF At, AtAll

LEMMA AtIsNext == AtAll'
  BY AtIs, PTL

AtSequences == At \in [Places -> Seq(Frame)]

LEMMA PlaceKinds ==
  ASSUME NEW p \in Places
  PROVE  \/ \E d \in Devices : p = <<"outgoing", d>> \/ p = <<"got", d>>
         \/ \E c \in Conns : p = <<"up", c>> \/ p = <<"send", c>>
         \/ p = <<"broadcast", None>>
  BY DEF Places

LEMMA Widen ==
  ASSUME NEW s \in Seq(SignalMessage)
  PROVE  s \in Seq(Frame)
  BY SeqDef DEF Frame

LEMMA AtTyped == TypeOK => AtSequences
<1> SUFFICES ASSUME TypeOK PROVE At \in [Places -> Seq(Frame)]
  BY DEF AtSequences
<1>1. ASSUME NEW d \in Devices
      PROVE  outgoing[d] \in Seq(SignalMessage) /\ got[d] \in Seq(SignalMessage)
  BY DEF TypeOK
<1>2. ASSUME NEW c \in Conns
      PROVE  up[c] \in Seq(SignalMessage) /\ send[c] \in Seq(Frame)
  BY DEF TypeOK
<1>3. broadcast \in Seq(Frame)
  BY Widen DEF TypeOK
<1>4. ASSUME NEW p \in Places PROVE At[p] \in Seq(Frame)
  <2>1. ASSUME NEW d \in Devices
        PROVE  At[<<"outgoing", d>>] \in Seq(Frame) /\ At[<<"got", d>>] \in Seq(Frame)
    BY <1>1, AtIs, Widen DEF AtAll
  <2>2. ASSUME NEW c \in Conns
        PROVE  At[<<"up", c>>] \in Seq(Frame) /\ At[<<"send", c>>] \in Seq(Frame)
    BY <1>2, AtIs, Widen DEF AtAll
  <2>3. At[<<"broadcast", None>>] \in Seq(Frame)
    BY <1>3, AtIs DEF AtAll
  <2> QED BY <2>1, <2>2, <2>3, PlaceKinds
<1> QED BY <1>4 DEF At, Layout

Signals(s) == {s[i] : i \in 1..Len(s)} \cap SignalMessage

LEMMA SignalsOf ==
  ASSUME NEW s \in Seq(Frame)
  PROVE  /\ s # <<>> => /\ Head(s) \in Frame /\ Tail(s) \in Seq(Frame)
                        /\ Signals(Tail(s)) \subseteq Signals(s)
                        /\ Head(s) \in SignalMessage => Head(s) \in Signals(s)
         /\ \A e \in Frame : Signals(Append(s, e)) \subseteq Signals(s) \cup {e}
         /\ Signals(<<>>) = {}
<1>1. Signals(<<>>) = {}
  BY EmptySeq DEF Signals
<1>2. ASSUME s # <<>>
      PROVE  /\ Signals(Tail(s)) \subseteq Signals(s)
             /\ Head(s) \in SignalMessage => Head(s) \in Signals(s)
  BY <1>2, Positions DEF Signals
<1>3. ASSUME NEW e \in Frame PROVE Signals(Append(s, e)) \subseteq Signals(s) \cup {e}
  BY Positions DEF Signals
<1> QED BY <1>1, <1>2, <1>3, Queues

\* A signal is where its sender, or the device it is for, is.
Belongs ==
  /\ \A d \in Devices : \A m \in Signals(outgoing[d]) : m \in sent /\ m.from = d
  /\ \A c \in Conns : \A m \in Signals(up[c]) : m \in sent /\ m.from = owner[c]
  /\ \A m \in Signals(broadcast) : m \in sent
  /\ \A c \in Conns : \A m \in Signals(send[c]) : m \in sent /\ m.to = owner[c]
  /\ \A d \in Devices : \A m \in Signals(got[d]) : m \in sent
  /\ \A d \in Devices : socket[d] # None => owner[socket[d]] = d

Numbered == \A m \in sent : m.id <= Cardinality(sent)

WayInv == IInv /\ Belongs /\ Numbered /\ Once(At)

\* What is in some place has been sent.
LEMMA EverywhereSent ==
  ASSUME Belongs, NEW p \in Places, NEW i \in 1..Len(At[p]), At[p][i] \in SignalMessage
  PROVE  At[p][i] \in sent
<1>1. \A s : \A k \in 1..Len(s) : s[k] \in SignalMessage => s[k] \in Signals(s)
  BY DEF Signals
<1>2. /\ \A d \in Devices : /\ Signals(At[<<"outgoing", d>>]) \subseteq sent
                            /\ Signals(At[<<"got", d>>]) \subseteq sent
      /\ \A c \in Conns : /\ Signals(At[<<"up", c>>]) \subseteq sent
                          /\ Signals(At[<<"send", c>>]) \subseteq sent
      /\ Signals(At[<<"broadcast", None>>]) \subseteq sent
  BY AtIs DEF Belongs, AtAll
<1>3. Signals(At[p]) \subseteq sent
  BY <1>2, PlaceKinds
<1> QED BY <1>1, <1>3

LEMMA InitWay == Init => WayInv
<1> SUFFICES ASSUME Init PROVE WayInv
  OBVIOUS
<1>1. Signals(<<>>) = {} /\ Len(<<>>) = 0
  BY EmptySeq DEF Signals
<1>2. Belongs
  BY <1>1 DEF Init, Belongs
<1>3. Numbered
  BY DEF Init, Numbered
<1>4. ASSUME NEW p \in Places PROVE At[p] = <<>>
  <2>1. /\ \A d \in Devices : At[<<"outgoing", d>>] = <<>> /\ At[<<"got", d>>] = <<>>
        /\ \A c \in Conns : At[<<"up", c>>] = <<>> /\ At[<<"send", c>>] = <<>>
        /\ At[<<"broadcast", None>>] = <<>>
    BY AtIs DEF Init, AtAll
  <2> QED BY <2>1, PlaceKinds
<1>5. Once(At)
  BY <1>1, <1>4, AtIs DEF Once, AtAll
<1> QED BY <1>2, <1>3, <1>5, InitHolds DEF WayInv

LEMMA AtTypedNext == (TypeOK => AtSequences)'
  BY AtTyped, PTL

\* What frames a change of the places leaves.
LEMMA PlaceByPlace ==
  ASSUME NEW p \in Places
  PROVE  /\ \A d \in Devices : p = <<"outgoing", d>> /\ outgoing'[d] = outgoing[d] => At'[p] = At[p]
         /\ \A d \in Devices : p = <<"got", d>> /\ got'[d] = got[d] => At'[p] = At[p]
         /\ \A c \in Conns : p = <<"up", c>> /\ up'[c] = up[c] => At'[p] = At[p]
         /\ \A c \in Conns : p = <<"send", c>> /\ send'[c] = send[c] => At'[p] = At[p]
         /\ p = <<"broadcast", None>> /\ UNCHANGED broadcast => At'[p] = At[p]
  BY AtIs, AtIsNext DEF AtAll

LEMMA TakenHere ==
  ASSUME WayInv, Typed', TakesOut(Places, At, At')
  PROVE  Once(At')
<1>1. At \in [Places -> Seq(Frame)] /\ At' \in [Places -> Seq(Frame)]
  BY AtTyped, AtTypedNext DEF AtSequences, WayInv, IInv, Typed
<1> QED BY <1>1, TakenOut DEF WayInv

LEMMA MovedHere ==
  ASSUME WayInv, Typed', NEW p, NEW r, Moves(Places, At, At', p, r)
  PROVE  Once(At')
<1>1. At \in [Places -> Seq(Frame)] /\ At' \in [Places -> Seq(Frame)]
  BY AtTyped, AtTypedNext DEF AtSequences, WayInv, IInv, Typed
<1> QED BY <1>1, Moved DEF WayInv

LEMMA AddedHere ==
  ASSUME WayInv, Typed', NEW e, NEW r, Adds(Places, At, At', e, r)
  PROVE  Once(At')
<1>1. At \in [Places -> Seq(Frame)] /\ At' \in [Places -> Seq(Frame)]
  BY AtTyped, AtTypedNext DEF AtSequences, WayInv, IInv, Typed
<1> QED BY <1>1, Added DEF WayInv

\* The signals of a place are the ones that were there, and others that belong there.
LEMMA BelongsKept ==
  ASSUME Belongs, UNCHANGED owner, sent \subseteq sent',
         \A d \in Devices : \A m \in Signals(outgoing'[d]) :
           m \in Signals(outgoing[d]) \/ (m \in sent' /\ m.from = d),
         \A c \in Conns : \A m \in Signals(up'[c]) :
           m \in Signals(up[c]) \/ (m \in sent' /\ m.from = owner[c]),
         \A m \in Signals(broadcast') : m \in Signals(broadcast) \/ m \in sent',
         \A c \in Conns : \A m \in Signals(send'[c]) :
           m \in Signals(send[c]) \/ (m \in sent' /\ m.to = owner[c]),
         \A d \in Devices : \A m \in Signals(got'[d]) : m \in Signals(got[d]) \/ m \in sent',
         \A d \in Devices : socket'[d] \in {socket[d], None}
  PROVE  Belongs'
<1>1. /\ \A d \in Devices : \A m \in Signals(outgoing'[d]) : m \in sent' /\ m.from = d
      /\ \A c \in Conns : \A m \in Signals(up'[c]) : m \in sent' /\ m.from = owner[c]
  BY DEF Belongs
<1>2. /\ \A m \in Signals(broadcast') : m \in sent'
      /\ \A c \in Conns : \A m \in Signals(send'[c]) : m \in sent' /\ m.to = owner[c]
  BY DEF Belongs
<1>3. /\ \A d \in Devices : \A m \in Signals(got'[d]) : m \in sent'
      /\ \A d \in Devices : socket'[d] # None => owner[socket'[d]] = d
  BY DEF Belongs
<1> QED BY <1>1, <1>2, <1>3 DEF Belongs

LEMMA SendSignalWay ==
  ASSUME WayInv, Typed', NEW d \in Devices, SendSignal(d)
  PROVE  Belongs' /\ Once(At')
<1> USE DEF WayInv, IInv, Typed, TypeOK
<1> DEFINE c == socket[d]
           s == outgoing[d]
           m == Head(s)
<1>1. c \in Conns /\ owner[c] = d /\ s # <<>> /\ s \in Seq(SignalMessage)
  BY DEF SendSignal, Belongs
<1>2. m \in SignalMessage /\ s \in Seq(Frame)
  <2> HIDE DEF s, c
  <2> QED BY <1>1, Queues, Widen
<1>3. m \in Signals(s) /\ Signals(Tail(s)) \subseteq Signals(s)
  <2> HIDE DEF s, c
  <2> QED BY <1>1, <1>2, SignalsOf
<1>4. m \in sent /\ m.from = d
  BY <1>3 DEF Belongs
<1>5. /\ outgoing' = [outgoing EXCEPT ![d] = Tail(s)]
      /\ UNCHANGED <<sent, socket, got, owner, send, broadcast>>
  BY DEF SendSignal, pumps, queues
<1>6. UNCHANGED up \/ up' = [up EXCEPT ![c] = Append(@, m)]
  BY DEF SendSignal
<1>7. Signals(Append(up[c], m)) \subseteq Signals(up[c]) \cup {m}
  <2>1. up[c] \in Seq(Frame) /\ m \in Frame
    BY <1>1, <1>2, Widen DEF Frame
  <2> HIDE DEF c, m
  <2> QED BY <2>1, SignalsOf
<1>8. Belongs'
  <2>1. \A b \in Devices : Signals(outgoing'[b]) \subseteq Signals(outgoing[b])
    BY <1>3, <1>5
  <2>2. \A b \in Conns : \A x \in Signals(up'[b]) : x \in Signals(up[b]) \/ (b = c /\ x = m)
    <3> HIDE DEF c, s, m
    <3>1. CASE UNCHANGED up
      BY <3>1
    <3>2. CASE up' = [up EXCEPT ![c] = Append(@, m)]
      BY <1>7, <3>2
    <3> QED BY <1>6, <3>1, <3>2
  <2> HIDE DEF c, s, m
  <2> QED BY <1>1, <1>4, <1>5, <2>1, <2>2, BelongsKept
<1>9. Once(At')
  <2> DEFINE p == <<"outgoing", d>>
             r == <<"up", c>>
  <2>1. p \in Places /\ r \in Places /\ p # r /\ At[p] = s
    BY <1>1, AtIs DEF Places, AtAll
  <2>2. At'[p] = Tail(s)
    <3>1. At'[p] = outgoing'[d]
      BY AtIsNext DEF AtAll
    <3> QED BY <1>5, <3>1
  <2>6. At'[r] = up'[c] /\ At[r] = up[c]
    <3> HIDE DEF c
    <3> QED BY <1>1, AtIs, AtIsNext DEF AtAll
  <2>7. UNCHANGED up \/ At'[r] = Append(At[r], m)
    <3>1. up \in [Conns -> Seq(SignalMessage)]
      OBVIOUS
    <3> HIDE DEF c, m, s, r
    <3> QED BY <1>1, <1>6, <2>6, <3>1
  <2>3. \A x \in Places \ {p, r} : At'[x] = At[x]
    BY <1>1, <1>5, <1>6, PlaceKinds, PlaceByPlace
  <2>4. UNCHANGED up => At'[r] = At[r]
    BY <2>6
  <2>8. ASSUME UNCHANGED up PROVE TakesOut(Places, At, At')
    <3> HIDE DEF p, r, s
    <3> QED BY <1>1, <2>1, <2>2, <2>3, <2>4, <2>8 DEF TakesOut
  <2>9. ASSUME At'[r] = Append(At[r], m) PROVE Moves(Places, At, At', p, r)
    <3> HIDE DEF p, r
    <3> QED BY <1>1, <2>1, <2>2, <2>3, <2>9 DEF Moves
  <2> HIDE DEF p, r, s, m
  <2> QED BY <2>7, <2>8, <2>9, TakenHere, MovedHere
<1> QED BY <1>8, <1>9

\* What moves no signal.
LEMMA StillWay ==
  ASSUME WayInv, UNCHANGED <<sent, outgoing, socket, got, owner, up, send, broadcast>>
  PROVE  Belongs' /\ Once(At') /\ Numbered'
<1>1. Belongs' /\ Numbered'
  BY DEF WayInv, Belongs, Numbered
<1>2. At' = At
  BY DEF At
<1> QED BY <1>1, <1>2 DEF WayInv

LEMMA ConnectWay ==
  ASSUME WayInv, Typed', NEW d \in Devices, NEW c \in Conns, Connect(d, c)
  PROVE  Belongs' /\ Once(At')
<1> USE DEF WayInv, IInv, Typed, TypeOK
<1>1. /\ owner[c] = None /\ owner' = [owner EXCEPT ![c] = d]
      /\ socket' = [socket EXCEPT ![d] = c]
      /\ UNCHANGED <<sent, outgoing, got, up, send, broadcast>>
  BY DEF Connect, handleSignaling, ServeWs, queues
<1>2. Once(At')
  BY <1>1 DEF At
<1>3. \A m \in SignalMessage : m.from # None /\ m.to # None
  BY ConstantsAssumption DEF SignalMessage
<1>4. Signals(up[c]) = {} /\ Signals(send[c]) = {}
  BY <1>1, <1>3 DEF Belongs, Signals
<1>5. ASSUME NEW e \in Devices, socket[e] = c PROVE FALSE
  <2>1. c # None /\ e # None
    BY ConstantsAssumption
  <2>2. owner[c] = e
    BY <1>5, <2>1 DEF Belongs
  <2> QED BY <1>1, <2>1, <2>2
<1>6. Belongs'
  <2>1. \A e \in Devices : socket'[e] # None => owner'[socket'[e]] = e
    BY <1>1, <1>5 DEF Belongs
  <2>2. /\ \A b \in Conns : \A m \in Signals(up[b]) : m \in sent /\ m.from = owner'[b]
        /\ \A b \in Conns : \A m \in Signals(send[b]) : m \in sent /\ m.to = owner'[b]
    BY <1>1, <1>4 DEF Belongs
  <2> QED BY <1>1, <2>1, <2>2 DEF Belongs
<1> QED BY <1>2, <1>6

LEMMA SignalsGone == Signals(<<>>) = {}
  BY EmptySeq DEF Signals

LEMMA LoseWay ==
  ASSUME WayInv, Typed', NEW d \in Devices, LoseConnection(d)
  PROVE  Belongs' /\ Once(At')
<1> USE DEF WayInv, IInv, Typed, TypeOK
<1>1. /\ socket' = [socket EXCEPT ![d] = None]
      /\ \A b \in Devices : outgoing'[b] \in {outgoing[b], <<>>}
      /\ UNCHANGED <<sent, got, owner, up, send, broadcast>>
  BY DEF LoseConnection, wires, pumps, queues
<1>2. Belongs'
  <2>1. \A b \in Devices : Signals(outgoing'[b]) \subseteq Signals(outgoing[b])
    BY <1>1, SignalsGone
  <2>2. \A b \in Devices : socket'[b] \in {socket[b], None}
    BY <1>1
  <2> QED BY <1>1, <2>1, <2>2, BelongsKept
<1>3. TakesOut(Places, At, At')
  <2> HIDE DEF WayInv, IInv, Typed, TypeOK
  <2> SUFFICES ASSUME NEW p \in Places PROVE At'[p] \in {At[p], <<>>}
    BY DEF TakesOut
  <2>1. ASSUME NEW b \in Devices, p = <<"outgoing", b>> PROVE At'[p] \in {At[p], <<>>}
    <3>1. At'[p] = outgoing'[b] /\ At[p] = outgoing[b]
      BY <2>1, AtIs, AtIsNext DEF AtAll
    <3> QED BY <1>1, <2>1, <3>1
  <2>2. ASSUME \A b \in Devices : p # <<"outgoing", b>> PROVE At'[p] = At[p]
    BY <1>1, <2>2, PlaceKinds, PlaceByPlace
  <2> QED BY <2>1, <2>2
<1> QED BY <1>2, <1>3, TakenHere

LEMMA ReadFailsWay ==
  ASSUME WayInv, Typed', NEW c \in Conns, ReadFails(c)
  PROVE  Belongs' /\ Once(At')
<1> USE DEF WayInv, IInv, Typed, TypeOK
<1>1. /\ \A b \in Conns : up'[b] \in {up[b], <<>>}
      /\ UNCHANGED <<sent, outgoing, socket, got, owner, send, broadcast>>
  BY DEF ReadFails, agents, queues
<1>2. Belongs'
  <2>1. \A b \in Conns : Signals(up'[b]) \subseteq Signals(up[b])
    BY <1>1, SignalsGone
  <2> QED BY <1>1, <2>1, BelongsKept
<1>3. TakesOut(Places, At, At')
  <2> HIDE DEF WayInv, IInv, Typed, TypeOK
  <2> SUFFICES ASSUME NEW p \in Places PROVE At'[p] \in {At[p], <<>>}
    BY DEF TakesOut
  <2>1. ASSUME NEW b \in Conns, p = <<"up", b>> PROVE At'[p] \in {At[p], <<>>}
    <3>1. At'[p] = up'[b] /\ At[p] = up[b]
      BY <2>1, AtIs, AtIsNext DEF AtAll
    <3> QED BY <1>1, <2>1, <3>1
  <2>2. ASSUME \A b \in Conns : p # <<"up", b>> PROVE At'[p] = At[p]
    BY <1>1, <2>2, PlaceKinds, PlaceByPlace
  <2> QED BY <2>1, <2>2
<1> QED BY <1>2, <1>3, TakenHere

LEMMA UnregisterWay ==
  ASSUME WayInv, Typed', NEW c \in Conns, Unregister(c)
  PROVE  Belongs' /\ Once(At')
<1> USE DEF WayInv, IInv, Typed, TypeOK
<1>1. /\ \A b \in Conns : send'[b] \in {send[b], <<>>}
      /\ UNCHANGED <<sent, outgoing, socket, got, owner, up, broadcast>>
  BY DEF Unregister, agents, wires, queues
<1>2. Belongs'
  <2>1. \A b \in Conns : Signals(send'[b]) \subseteq Signals(send[b])
    BY <1>1, SignalsGone
  <2> QED BY <1>1, <2>1, BelongsKept
<1>3. TakesOut(Places, At, At')
  <2> HIDE DEF WayInv, IInv, Typed, TypeOK
  <2> SUFFICES ASSUME NEW p \in Places PROVE At'[p] \in {At[p], <<>>}
    BY DEF TakesOut
  <2>1. ASSUME NEW b \in Conns, p = <<"send", b>> PROVE At'[p] \in {At[p], <<>>}
    <3>1. At'[p] = send'[b] /\ At[p] = send[b]
      BY <2>1, AtIs, AtIsNext DEF AtAll
    <3> QED BY <1>1, <2>1, <3>1
  <2>2. ASSUME \A b \in Conns : p # <<"send", b>> PROVE At'[p] = At[p]
    BY <1>1, <2>2, PlaceKinds, PlaceByPlace
  <2> QED BY <2>1, <2>2
<1> QED BY <1>2, <1>3, TakenHere

LEMMA ReadPumpWay ==
  ASSUME WayInv, Typed', NEW c \in Conns, readPump(c)
  PROVE  Belongs' /\ Once(At')
<1> USE DEF WayInv, IInv, Typed, TypeOK
<1> DEFINE s == up[c]
           m == Head(s)
<1>1. s # <<>> /\ s \in Seq(SignalMessage)
  BY DEF readPump
<1>2. m \in SignalMessage /\ s \in Seq(Frame)
  <2> HIDE DEF s
  <2> QED BY <1>1, Queues, Widen
<1>3. m \in Signals(s) /\ Signals(Tail(s)) \subseteq Signals(s)
  <2> HIDE DEF s
  <2> QED BY <1>1, <1>2, SignalsOf
<1>4. m \in sent /\ m.from = owner[c]
  BY <1>3 DEF Belongs
<1>5. [m EXCEPT !.from = owner[c]] = m
  <2> HIDE DEF m
  <2> QED BY <1>2, <1>4 DEF SignalMessage
<1>6. /\ up' = [up EXCEPT ![c] = Tail(s)] /\ broadcast' = Append(broadcast, m)
      /\ UNCHANGED <<sent, outgoing, socket, got, owner, send>>
  BY <1>5 DEF readPump, agents, pumps
<1>7. Signals(Append(broadcast, m)) \subseteq Signals(broadcast) \cup {m}
  <2>1. broadcast \in Seq(Frame) /\ m \in Frame
    BY <1>2, Widen DEF Frame
  <2> HIDE DEF m
  <2> QED BY <2>1, SignalsOf
<1>8. Belongs'
  <2>1. \A b \in Conns : Signals(up'[b]) \subseteq Signals(up[b])
    BY <1>3, <1>6
  <2> HIDE DEF s, m
  <2> QED BY <1>4, <1>6, <1>7, <2>1, BelongsKept
<1>9. Once(At')
  <2> DEFINE p == <<"up", c>>
             r == <<"broadcast", None>>
  <2>1. p \in Places /\ r \in Places /\ p # r /\ At[p] = s
    BY AtIs DEF Places, AtAll
  <2>2. At'[p] = Tail(s) /\ At'[r] = Append(At[r], m)
    BY <1>6, AtIs, AtIsNext DEF AtAll
  <2>3. \A x \in Places \ {p, r} : At'[x] = At[x]
    BY <1>6, PlaceKinds, PlaceByPlace
  <2> HIDE DEF p, r
  <2>4. Moves(Places, At, At', p, r)
    BY <1>1, <2>1, <2>2, <2>3 DEF Moves
  <2> QED BY <2>4, MovedHere
<1> QED BY <1>8, <1>9

\* A signal that a device is handed was not handed to it before.
LEMMA WritePumpWay ==
  ASSUME WayInv, Typed', NEW c \in Conns, writePump(c)
  PROVE  /\ Belongs' /\ Once(At')
         /\ UNCHANGED <<sent, got>> \/ Network!Deliver
<1> USE DEF WayInv, IInv, Typed, TypeOK
<1> DEFINE s == send[c]
           m == Head(s)
           d == owner[c]
<1>1. s # <<>> /\ s \in Seq(Frame) /\ d \in Devices
  BY DEF writePump, OwnersKnown
<1>2. Signals(Tail(s)) \subseteq Signals(s) /\ (m \in SignalMessage => m \in Signals(s))
  <2> HIDE DEF s
  <2> QED BY <1>1, SignalsOf
<1>3. m \in SignalMessage => m \in sent /\ m.to = d
  BY <1>2 DEF Belongs
<1>4. /\ send' = [send EXCEPT ![c] = Tail(s)]
      /\ UNCHANGED <<sent, outgoing, socket, owner, up, broadcast>>
  BY DEF writePump, wires, queues
<1>5. \A b \in Conns : Signals(send'[b]) \subseteq Signals(send[b])
  BY <1>2, <1>4
<1> DEFINE p == <<"send", c>>
           r == <<"got", d>>
<1>6. p \in Places /\ r \in Places /\ p # r /\ At[p] = s /\ At[r] = got[d]
  BY <1>1, AtIs DEF Places, AtAll
<1>7. At'[p] = Tail(s)
  BY <1>4, AtIsNext DEF AtAll
<1>8. CASE UNCHANGED got
  <2>1. Belongs'
    BY <1>4, <1>5, <1>8, BelongsKept
  <2>2. \A x \in Places \ {p} : At'[x] = At[x]
    BY <1>4, <1>8, PlaceKinds, PlaceByPlace
  <2> HIDE DEF p, r
  <2>3. TakesOut(Places, At, At')
    BY <1>1, <1>6, <1>7, <2>2 DEF TakesOut
  <2> QED BY <1>4, <1>8, <2>1, <2>3, TakenHere
<1>9. CASE m \in SignalMessage /\ got' = [got EXCEPT ![d] = Append(@, m)]
  <2>1. Signals(Append(got[d], m)) \subseteq Signals(got[d]) \cup {m}
    <3>1. got[d] \in Seq(Frame) /\ m \in Frame
      BY <1>1, <1>9, Widen DEF Frame
    <3> HIDE DEF m, d
    <3> QED BY <3>1, SignalsOf
  <2>2. Belongs'
    <3>1. \A b \in Devices : Signals(got'[b]) \subseteq Signals(got[b]) \cup {m}
      <4> HIDE DEF m, d
      <4> QED BY <1>1, <1>9, <2>1
    <3> HIDE DEF m, d
    <3> QED BY <1>3, <1>4, <1>5, <1>9, <3>1, BelongsKept
  <2>3. At'[r] = Append(At[r], m)
    <3>1. got'[d] = Append(got[d], m)
      BY <1>1, <1>9
    <3>2. At'[r] = got'[d]
      BY <1>1, AtIsNext DEF AtAll
    <3> HIDE DEF m, d, r
    <3> QED BY <1>6, <3>1, <3>2
  <2>4. \A x \in Places \ {p, r} : At'[x] = At[x]
    BY <1>1, <1>4, <1>9, PlaceKinds, PlaceByPlace
  <2>5. Moves(Places, At, At', p, r)
    <3> HIDE DEF p, r
    <3> QED BY <1>1, <1>6, <1>7, <2>3, <2>4 DEF Moves
  <2>6. ~Contains(got[d], m)
    <3>1. s[1] = m /\ 1 \in 1..Len(s)
      <4> HIDE DEF s
      <4> QED BY <1>1, Positions
    <3> SUFFICES ASSUME NEW i \in 1..Len(got[d]), got[d][i] = m PROVE FALSE
      BY DEF Contains
    <3> HIDE DEF p, r, s, m, d
    <3> QED BY <1>6, <1>9, <3>1, AtIs DEF Once, AtAll
  <2>7. Network!Deliver
    <3> HIDE DEF m, d
    <3>1. /\ m \in sent /\ ~Contains(got[m.to], m) /\ UNCHANGED sent
          /\ got' = [got EXCEPT ![m.to] = Append(@, m)]
      BY <1>3, <1>4, <1>9, <2>6
    <3> HIDE DEF WayInv, IInv, Typed, TypeOK
    <3> QED BY <3>1 DEF Network!Deliver, Network!Contains, Contains
  <2> QED BY <2>2, <2>5, <2>7, MovedHere
<1> QED BY <1>8, <1>9 DEF writePump, ReadSocket

LEMMA RouteWay ==
  ASSUME WayInv, Typed', Route
  PROVE  Belongs' /\ Once(At')
<1> USE DEF WayInv, IInv, Typed, TypeOK
<1> DEFINE s == broadcast
           m == Head(s)
           c == clients[m.to]
           p == <<"broadcast", None>>
           r == <<"send", c>>
<1>1. s # <<>> /\ s \in Seq(SignalMessage)
  BY DEF Route
<1>2. m \in SignalMessage /\ m.to \in Devices /\ s \in Seq(Frame)
  <2>1. m \in SignalMessage /\ s \in Seq(Frame)
    BY <1>1, Queues, Widen
  <2> QED BY <2>1 DEF SignalMessage
<1>3. m \in sent /\ Signals(Tail(s)) \subseteq Signals(s)
  BY <1>1, <1>2, SignalsOf DEF Belongs
<1>4. broadcast' = Tail(s) /\ UNCHANGED <<sent, outgoing, socket, got, owner, up>>
  BY DEF Route, agents, wires
<1>5. p \in Places /\ At[p] = s /\ At'[p] = Tail(s)
  BY <1>4, AtIs, AtIsNext DEF Places, AtAll
<1>6. CASE UNCHANGED send
  <2> HIDE DEF c, m, r
  <2>1. Belongs'
    BY <1>3, <1>4, <1>6, BelongsKept
  <2>2. \A x \in Places \ {p} : At'[x] = At[x]
    BY <1>4, <1>6, PlaceKinds, PlaceByPlace
  <2> HIDE DEF p
  <2>3. TakesOut(Places, At, At')
    BY <1>1, <1>5, <2>2 DEF TakesOut
  <2> QED BY <2>1, <2>3, TakenHere
<1>7. CASE c # None /\ send' = [send EXCEPT ![c] = Append(@, m)]
  <2>1. c \in Conns /\ owner[c] = m.to
    <3> HIDE DEF m
    <3> QED BY <1>2, <1>7 DEF MapServes, Serving
  <2>2. Signals(Append(send[c], m)) \subseteq Signals(send[c]) \cup {m}
    <3>1. send[c] \in Seq(Frame) /\ m \in Frame
      BY <1>2, <2>1 DEF Frame
    <3> HIDE DEF m, c
    <3> QED BY <3>1, SignalsOf
  <2>3. \A b \in Conns : \A x \in Signals(send'[b]) : x \in Signals(send[b]) \/ (b = c /\ x = m)
    <3> HIDE DEF m, c
    <3> QED BY <1>7, <2>1, <2>2
  <2>4. Belongs'
    <3> HIDE DEF m, c
    <3> QED BY <1>3, <1>4, <2>1, <2>3, BelongsKept
  <2>5. r \in Places /\ p # r /\ At[r] = send[c] /\ At'[r] = send'[c]
    <3> HIDE DEF c, m
    <3> QED BY <2>1, AtIs, AtIsNext DEF Places, AtAll
  <2>6. At'[r] = Append(At[r], m)
    <3> HIDE DEF r, c, m
    <3> QED BY <1>7, <2>1, <2>5
  <2>7. \A x \in Places \ {p, r} : At'[x] = At[x]
    <3> HIDE DEF c, m
    <3> QED BY <1>4, <1>7, <2>1, PlaceKinds, PlaceByPlace
  <2>8. Moves(Places, At, At', p, r)
    <3> HIDE DEF p, r, c
    <3> QED BY <1>1, <1>5, <2>5, <2>6, <2>7 DEF Moves
  <2> QED BY <2>4, <2>8, MovedHere
<1> QED BY <1>6, <1>7 DEF Route

LEMMA RevocationWay ==
  ASSUME WayInv, Typed', RouteRevocation
  PROVE  Belongs' /\ Once(At')
<1> USE DEF WayInv, IInv, Typed, TypeOK
<1> DEFINE e == [revoked |-> Head(broadcastRevocation)]
<1>1. e \in Frame /\ e \notin SignalMessage
  <2>1. Head(broadcastRevocation) \in Devices
    BY Queues DEF RouteRevocation
  <2> QED BY <2>1, NoSignal DEF Frame, RevocationEvent
<1>2. /\ \A c \in Conns : send'[c] \in {send[c], Append(send[c], e)}
      /\ UNCHANGED <<sent, outgoing, socket, got, owner, up, broadcast>>
  BY DEF RouteRevocation, agents, wires
<1> HIDE DEF e
<1>3. \A c \in Conns : Signals(send'[c]) \subseteq Signals(send[c])
  <2> TAKE c \in Conns
  <2>1. Signals(Append(send[c], e)) \subseteq Signals(send[c]) \cup {e}
    BY <1>1, SignalsOf
  <2>2. e \notin Signals(Append(send[c], e))
    BY <1>1 DEF Signals
  <2> QED BY <1>2, <2>1, <2>2
<1>4. Belongs'
  BY <1>2, <1>3, BelongsKept
<1>5. Adds(Places, At, At', e, None)
  <2> SUFFICES ASSUME NEW p \in Places PROVE At'[p] \in {At[p], Append(At[p], e)}
    BY <1>1 DEF Adds
  <2>1. ASSUME NEW c \in Conns, p = <<"send", c>> PROVE At'[p] \in {At[p], Append(At[p], e)}
    <3>1. At'[p] = send'[c] /\ At[p] = send[c]
      BY <2>1, AtIs, AtIsNext DEF AtAll
    <3> QED BY <1>2, <3>1
  <2>2. ASSUME \A c \in Conns : p # <<"send", c>> PROVE At'[p] = At[p]
    BY <1>2, <2>2, PlaceKinds, PlaceByPlace
  <2> QED BY <2>1, <2>2
<1> QED BY <1>4, <1>5, AddedHere

LEMMA SendWay ==
  ASSUME WayInv, Typed', NEW d \in Devices, NEW e \in Devices, send_signal(d, e)
  PROVE  Belongs' /\ Once(At') /\ Numbered' /\ Network!Send
<1> USE DEF WayInv, IInv, Typed, TypeOK
<1> DEFINE m == [id |-> Cardinality(sent) + 1, from |-> d, to |-> e]
           r == <<"outgoing", d>>
<1>1. /\ m \in SignalMessage /\ m.id = Cardinality(sent) + 1 /\ m.from = d
      /\ Cardinality(sent) \in Nat
  BY NextSignal, FS_CardinalityType DEF send_signal
<1>2. /\ sent' = sent \cup {m} /\ outgoing' = [outgoing EXCEPT ![d] = Append(@, m)]
      /\ UNCHANGED <<socket, got, owner, up, send, broadcast>>
  BY DEF send_signal, wires, pumps, queues
<1> HIDE DEF m
<1>3. m \notin sent
  BY <1>1 DEF Numbered
<1>4. Numbered'
  <2>1. Cardinality(sent \cup {m}) = Cardinality(sent) + 1
    BY <1>3, FS_AddElement
  <2>2. \A n \in sent : n.id \in Nat
    BY DEF SignalMessage
  <2> SUFFICES ASSUME NEW n \in sent' PROVE n.id <= Cardinality(sent')
    BY DEF Numbered
  <2>3. Cardinality(sent') = Cardinality(sent) + 1
    BY <1>2, <2>1
  <2>4. CASE n = m
    BY <1>1, <2>3, <2>4
  <2>5. CASE n \in sent
    <3>1. n.id \in Nat /\ n.id <= Cardinality(sent)
      BY <2>2, <2>5 DEF Numbered
    <3> QED BY <1>1, <2>3, <3>1
  <2> QED BY <1>2, <2>4, <2>5
<1>5. Belongs'
  <2>1. Signals(Append(outgoing[d], m)) \subseteq Signals(outgoing[d]) \cup {m}
    <3>1. outgoing[d] \in Seq(Frame) /\ m \in Frame
      BY <1>1, Widen DEF Frame
    <3> QED BY <3>1, SignalsOf
  <2>2. \A b \in Devices : \A x \in Signals(outgoing'[b]) :
          x \in Signals(outgoing[b]) \/ (b = d /\ x = m)
    BY <1>2, <2>1
  <2> QED BY <1>1, <1>2, <2>2, BelongsKept
<1>6. Adds(Places, At, At', m, r)
  <2>1. \A p \in Places : \A i \in 1..Len(At[p]) : At[p][i] # m
    <3> SUFFICES ASSUME NEW p \in Places, NEW i \in 1..Len(At[p]), At[p][i] = m PROVE FALSE
      OBVIOUS
    <3> HIDE DEF IInv, Typed, TypeOK
    <3> QED BY <1>1, <1>3, EverywhereSent
  <2>2. At'[r] = Append(At[r], m)
    <3>1. At'[r] = outgoing'[d] /\ At[r] = outgoing[d]
      BY AtIs, AtIsNext DEF AtAll
    <3> HIDE DEF r
    <3> QED BY <1>2, <3>1
  <2>3. \A p \in Places \ {r} : At'[p] = At[p]
    BY <1>2, PlaceKinds, PlaceByPlace
  <2>4. m \in Frame
    BY <1>1 DEF Frame
  <2> HIDE DEF r
  <2> QED BY <2>1, <2>2, <2>3, <2>4 DEF Adds
<1>7. Network!Send
  BY <1>1, <1>2, <1>3 DEF Network!Send
<1> QED BY <1>4, <1>5, <1>6, <1>7, AddedHere

LEMMA StepWay ==
  ASSUME WayInv, [Next]_vars
  PROVE  WayInv' /\ [Network!Send \/ Network!Deliver]_<<sent, got>>
<1>1. IInv' /\ Typed'
  BY StepHolds DEF WayInv, IInv
<1>2. ASSUME UNCHANGED sent PROVE Numbered'
  BY <1>2 DEF WayInv, Numbered
<1>3. ASSUME NEW d \in Devices, AgentStep(d)
      PROVE  /\ Belongs' /\ Once(At') /\ Numbered'
             /\ UNCHANGED <<sent, got>> \/ Network!Send
  <2>1. ASSUME NEW e \in Devices, send_signal(d, e)
        PROVE  Belongs' /\ Once(At') /\ Numbered' /\ Network!Send
    BY <1>1, <2>1, SendWay
  <2>2. ASSUME NEW c \in Conns, Connect(d, c)
        PROVE  Belongs' /\ Once(At') /\ UNCHANGED <<sent, got>>
    BY <1>1, <2>2, ConnectWay DEF Connect
  <2>3. ASSUME SendSignal(d) PROVE Belongs' /\ Once(At') /\ UNCHANGED <<sent, got>>
    BY <1>1, <2>3, SendSignalWay DEF SendSignal
  <2>4. ASSUME LoseConnection(d) PROVE Belongs' /\ Once(At') /\ UNCHANGED <<sent, got>>
    BY <1>1, <2>4, LoseWay DEF LoseConnection
  <2> QED BY <1>2, <1>3, <2>1, <2>2, <2>3, <2>4 DEF AgentStep
<1>4. ASSUME NEW c \in Conns, PumpStep(c)
      PROVE  /\ Belongs' /\ Once(At') /\ Numbered'
             /\ UNCHANGED <<sent, got>> \/ Network!Deliver
  <2>1. ASSUME readPump(c) PROVE Belongs' /\ Once(At') /\ UNCHANGED <<sent, got>>
    BY <1>1, <2>1, ReadPumpWay DEF readPump, agents
  <2>2. ASSUME ReadFails(c) PROVE Belongs' /\ Once(At') /\ UNCHANGED <<sent, got>>
    BY <1>1, <2>2, ReadFailsWay DEF ReadFails, agents
  <2>3. ASSUME writePump(c)
        PROVE  /\ Belongs' /\ Once(At') /\ UNCHANGED sent
               /\ UNCHANGED <<sent, got>> \/ Network!Deliver
    BY <1>1, <2>3, WritePumpWay DEF writePump
  <2> QED BY <1>2, <1>4, <2>1, <2>2, <2>3 DEF PumpStep
<1>5. ASSUME HubStep
      PROVE  Belongs' /\ Once(At') /\ Numbered' /\ UNCHANGED <<sent, got>>
  <2>1. ASSUME Route PROVE Belongs' /\ Once(At') /\ UNCHANGED <<sent, got>>
    BY <1>1, <2>1, RouteWay DEF Route, agents
  <2>2. ASSUME RouteRevocation PROVE Belongs' /\ Once(At') /\ UNCHANGED <<sent, got>>
    BY <1>1, <2>2, RevocationWay DEF RouteRevocation, agents
  <2>3. ASSUME NEW c \in Conns, Unregister(c)
        PROVE  Belongs' /\ Once(At') /\ UNCHANGED <<sent, got>>
    BY <1>1, <2>3, UnregisterWay DEF Unregister, agents
  <2>4. ASSUME Kick \/ \E c \in Conns : Register(c)
        PROVE  Belongs' /\ Once(At') /\ UNCHANGED <<sent, got>>
    <3>1. UNCHANGED <<sent, outgoing, socket, got, owner, up, send, broadcast>>
      BY <2>4 DEF Kick, Register, agents, wires, queues
    <3> QED BY <3>1, StillWay
  <2> QED BY <1>2, <1>5, <2>1, <2>2, <2>3, <2>4 DEF HubStep
<1>6. ASSUME \/ BroadcastRevocation \/ DisconnectClient
             \/ \E d \in Devices : handleRevoke(d)
             \/ UNCHANGED vars
      PROVE  Belongs' /\ Once(At') /\ Numbered' /\ UNCHANGED <<sent, got>>
  <2>1. UNCHANGED <<sent, outgoing, socket, got, owner, up, send, broadcast>>
    BY <1>6 DEF BroadcastRevocation, DisconnectClient, handleRevoke, vars, agents, wires, pumps,
                queues
  <2> QED BY <2>1, StillWay
<1>7. /\ Belongs' /\ Once(At') /\ Numbered'
      /\ UNCHANGED <<sent, got>> \/ Network!Send \/ Network!Deliver
  BY <1>3, <1>4, <1>5, <1>6 DEF Next, ServerStep
<1> QED BY <1>1, <1>7 DEF WayInv

\* Whatever connections a signal goes over, a device is handed it once at most, and only
\* if it is for that device: the client, the pumps and the hub implement the network
\* (relay.rs: run; client.go; hub.go).
THEOREM HubImplementsNetwork == Spec => ImplementsNetwork
<1>1. Init => Network!Init
  BY DEF Init, Network!Init
<1> QED BY <1>1, InitWay, StepWay, PTL DEF Spec, ImplementsNetwork, Network!Spec
=============================================================================
