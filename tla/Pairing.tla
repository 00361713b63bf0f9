------------------------------ MODULE Pairing ------------------------------
(***************************************************************************)
(* The pairing of devices over the local network (pairing.rs).  A          *)
(* connection is dialled once and has a handler thread at each end.  After *)
(* the handshake a handler that finds the other device among the paired    *)
(* ones greets it; any other handler shows its user a PIN and waits until  *)
(* both users have confirmed.  The handlers of a device share its table of *)
(* paired devices and one slot, active_pairing: whichever pairing put      *)
(* itself there last is the one that the user sees and answers.            *)
(*                                                                         *)
(* A message is the first byte of a frame: 1 is Yes, 0 is No, 0xFF says    *)
(* that the pairing is stale.                                              *)
(***************************************************************************)
EXTENDS Naturals, Sequences, FiniteSets

CONSTANTS
  Devices,
  Connections,
  Topologies,   \* which device may dial which on the connections
  MaxChanges,   \* how many connections break, agents restart, pairings are
                \* removed and answers changed
  None          \* no pairing is in the slot; no answer yet

ASSUME ConstantsAssumption ==
  /\ Topologies \subseteq [Connections -> [from : Devices, to : Devices]]
  /\ \A l \in Topologies : \A c \in Connections : l[c].from # l[c].to
  /\ MaxChanges \in Nat
  /\ None \notin Connections \cup {"yes", "no"}

Yes == "yes"
No  == "no"
Stale == "stale"
Message == {Yes, No, Stale}

\* Where a handler is.  It asks its user while "asking" and has left the loop of
\* confirmations when "closing"; "paired" and "resumed" are in a sync session.
Asked == {"asking", "closing", "paired", "rejected"}
Over  == {"rejected", "failed", "gone"}
Phase == {"idle", "met", "trusting", "greeting", "resumed", "doubting"} \cup Asked \cup Over

VARIABLES
  link,            \* which device dials which on a connection
  paired,          \* the devices in each device's table
  active_pairing,  \* the slot of each device
  at,              \* where each end of a connection is
  reconnecting,    \* connections whose dialler announced HandshakeIntent::Reconnect
  confirmed,       \* what the user of an end has answered
  said, heard,     \* local_confirmed and remote_confirmed; the ends that wrote and read a Yes
  wire,            \* the messages under way to each end
  cut,             \* connections that broke
  changes,         \* how many so far
  disturbed        \* history: connections that broke, whose agent was stopped, or
                   \* whose user had a change of mind
troubles == <<cut, changes, disturbed>>
vars == <<link, paired, active_pairing, at, reconnecting, confirmed, said, heard,
          wire, troubles>>

Ends(c) == {link[c].from, link[c].to}
Peer(c, d) == IF d = link[c].from THEN link[c].to ELSE link[c].from
ForEnds(v) == [c \in Connections |-> [d \in Devices |-> v]]

TypeOK ==
  /\ link \in Topologies
  /\ paired \in [Devices -> SUBSET Devices]
  /\ \A d \in Devices : d \notin paired[d]
  /\ active_pairing \in [Devices -> Connections \cup {None}]
  /\ at \in [Connections -> [Devices -> Phase]]
  /\ reconnecting \in [Connections -> BOOLEAN]
  /\ confirmed \in [Connections -> [Devices -> {None, Yes, No}]]
  /\ said \in [Connections -> [Devices -> BOOLEAN]]
  /\ heard \in [Connections -> [Devices -> BOOLEAN]]
  /\ wire \in [Connections -> [Devices -> Seq(Message)]]
  /\ cut \in [Connections -> BOOLEAN]
  /\ changes \in 0..MaxChanges
  /\ disturbed \in [Connections -> BOOLEAN]

Linked(d) == {e \in Devices : \E c \in Connections : Ends(c) = {d, e}} \ {d}

\* Any devices with a connection between them may be paired already.
Init ==
  /\ link \in Topologies
  /\ paired \in {p \in [Devices -> SUBSET Devices] :
                  \A d \in Devices : p[d] \subseteq Linked(d) /\ \A e \in p[d] : d \in p[e]}
  /\ active_pairing = [d \in Devices |-> None]
  /\ at = ForEnds("idle")
  /\ reconnecting = [c \in Connections |-> FALSE]
  /\ confirmed = ForEnds(None)
  /\ said = ForEnds(FALSE) /\ heard = ForEnds(FALSE)
  /\ wire = ForEnds(<<>>)
  /\ cut = [c \in Connections |-> FALSE]
  /\ changes = 0 /\ disturbed = cut

-----------------------------------------------------------------------------
(* What a handler does to the connection and to what it shares.            *)

Goes(c, d, phase) == at' = [at EXCEPT ![c][d] = phase]

\* A frame that is written reaches the other handler if there still is one.
Write(c, d, m) ==
  LET e == Peer(c, d) IN
  wire' = IF cut[c] \/ at[c][e] \in Over THEN wire
          ELSE [wire EXCEPT ![c][e] = Append(@, m)]

Reads(c, d, m) == wire[c][d] # <<>> /\ Head(wire[c][d]) = m
Consume(c, d)  == wire' = [wire EXCEPT ![c][d] = Tail(@)]

\* The other end is gone.  What it had sent is read first, unless it left
\* frames unread, which resets the connection.
Closed(c, d) ==
  LET e == Peer(c, d) IN
  \/ cut[c]
  \/ at[c][e] \in Over /\ (wire[c][d] = <<>> \/ wire[c][e] # <<>>)

AnyByte(m)  == m # Stale  \* mutant: a refusal is taken for a confirmation
Confirms(m) == m = Yes

EitherConfirmed(c, d) == said[c][d] \/ heard[c][d]  \* mutant: one is enough
BothConfirmed(c, d) == said[c][d] /\ heard[c][d]

Changes == changes < MaxChanges /\ changes' = changes + 1

add_own_id(d, e) == paired' = [paired EXCEPT ![d] = @ \cup {d}]  \* mutant: its own id
add_paired_device(d, e) == paired' = [paired EXCEPT ![d] = @ \cup {e}]

\* The end of the loop of confirmations: the slot is emptied, whoever is in it.
LeaveLoop(c, d) ==
  /\ Goes(c, d, "closing")
  /\ active_pairing' = [active_pairing EXCEPT ![d] = None]

-----------------------------------------------------------------------------
(* The handshake.  The dialler looks the other device up before the first  *)
(* message if it was named, and both ends look again after the last.       *)

initiate_pairing(c, named) ==
  /\ \A d \in Ends(c) : at[c][d] = "idle"
  /\ at' = [at EXCEPT ![c] = [d \in Devices |-> IF d \in Ends(c) THEN "met" ELSE @[d]]]
  /\ reconnecting' =
       [reconnecting EXCEPT ![c] = named /\ link[c].to \in paired[link[c].from]]
  /\ UNCHANGED <<link, paired, active_pairing, confirmed, said, heard, wire,
                 troubles>>

HandshakeFails(c, d) ==
  /\ at[c][d] = "met"
  /\ cut[c] \/ at[c][Peer(c, d)] \in Over
  /\ Goes(c, d, "failed")
  /\ UNCHANGED <<link, paired, active_pairing, reconnecting, confirmed, said,
                 heard, wire, troubles>>

RejectStale(c, d) ==
  /\ at[c][d] = "met" /\ d = link[c].to /\ reconnecting[c]
  /\ Peer(c, d) \notin paired[d]
  /\ Write(c, d, Stale)
  /\ Goes(c, d, "failed")
  /\ UNCHANGED <<link, paired, active_pairing, reconnecting, confirmed, said,
                 heard, troubles>>

Recognise(c, d) ==
  /\ at[c][d] = "met" /\ Peer(c, d) \in paired[d]
  /\ Goes(c, d, "trusting")
  /\ UNCHANGED <<link, paired, active_pairing, reconnecting, confirmed, said,
                 heard, wire, troubles>>

Doubt(c, d) ==
  /\ at[c][d] = "met" /\ Peer(c, d) \notin paired[d]
  /\ ~(d = link[c].to /\ reconnecting[c])
  /\ Goes(c, d, "doubting")
  /\ UNCHANGED <<link, paired, active_pairing, reconnecting, confirmed, said,
                 heard, wire, troubles>>

-----------------------------------------------------------------------------
(* A device that is paired already.                                        *)

\* Its row is written again, for its key may be new, and it is sent a Yes.
Greet(c, d) ==
  /\ at[c][d] = "trusting"
  /\ add_paired_device(d, Peer(c, d))
  /\ Write(c, d, Yes)
  /\ said' = [said EXCEPT ![c][d] = TRUE]
  /\ Goes(c, d, "greeting")
  /\ UNCHANGED <<link, active_pairing, reconnecting, confirmed, heard, troubles>>

Greeted(c, d) ==
  /\ at[c][d] = "greeting"
  /\ \E m \in Message : Reads(c, d, m) /\ Confirms(m)
  /\ Consume(c, d)
  /\ heard' = [heard EXCEPT ![c][d] = TRUE]
  /\ Goes(c, d, "resumed")
  /\ UNCHANGED <<link, paired, active_pairing, reconnecting, confirmed, said,
                 troubles>>

NotGreetedClears(c, d) ==  \* mutant: the failure empties the slot as well
  /\ at[c][d] = "greeting"
  /\ Goes(c, d, "failed")
  /\ active_pairing' = [active_pairing EXCEPT ![d] = None]
  /\ UNCHANGED <<link, paired, reconnecting, confirmed, said, heard, wire, troubles>>

\* Another answer, an error, or none within two seconds.
NotGreeted(c, d) ==
  /\ at[c][d] = "greeting"
  /\ Goes(c, d, "failed")
  /\ UNCHANGED <<link, paired, active_pairing, reconnecting, confirmed, said,
                 heard, wire, troubles>>

-----------------------------------------------------------------------------
(* A device that is not paired: the loop of confirmations.  The responder  *)
(* looks for its user's answer, reads, and asks whether both confirmed;    *)
(* the dialler reads first.                                                *)

Ask(c, d) ==
  /\ at[c][d] = "doubting"
  /\ active_pairing' = [active_pairing EXCEPT ![d] = c]
  /\ Goes(c, d, "asking")
  /\ UNCHANGED <<link, paired, reconnecting, confirmed, said, heard, wire,
                 troubles>>

\* The user answers, maybe not for the first time; the pairing in the slot gets it.
ConfirmPairing(d, answer) ==
  /\ active_pairing[d] # None
  /\ LET c == active_pairing[d] IN
     /\ confirmed[c][d] # answer
     /\ confirmed' = [confirmed EXCEPT ![c][d] = answer]
     /\ IF confirmed[c][d] = None THEN UNCHANGED <<changes, disturbed>>
        ELSE Changes /\ disturbed' = [disturbed EXCEPT ![c] = TRUE]
  /\ UNCHANGED <<link, paired, active_pairing, at, reconnecting, said, heard,
                 wire, cut>>

SayAndLeave(c, d) ==  \* mutant: the handler does not wait for the other user
  /\ at[c][d] = "asking" /\ confirmed[c][d] = Yes /\ ~said[c][d]
  /\ Write(c, d, Yes)
  /\ said' = [said EXCEPT ![c][d] = TRUE]
  /\ LeaveLoop(c, d)
  /\ UNCHANGED <<link, paired, reconnecting, confirmed, heard, troubles>>

\* The dialler that has read a Yes before ends the loop in the same turn.
Say(c, d) ==
  /\ at[c][d] = "asking" /\ confirmed[c][d] = Yes /\ ~said[c][d]
  /\ Write(c, d, Yes)
  /\ said' = [said EXCEPT ![c][d] = TRUE]
  /\ IF d = link[c].from /\ heard[c][d] THEN LeaveLoop(c, d)
     ELSE UNCHANGED <<at, active_pairing>>
  /\ UNCHANGED <<link, paired, reconnecting, confirmed, heard, troubles>>

\* The Yes cannot be written: the handler returns and leaves the slot as it is.
SayFails(c, d) ==
  /\ at[c][d] = "asking" /\ confirmed[c][d] = Yes /\ ~said[c][d]
  /\ cut[c] \/ at[c][Peer(c, d)] \in Over
  /\ Goes(c, d, "rejected")
  /\ UNCHANGED <<link, paired, active_pairing, reconnecting, confirmed, said,
                 heard, wire, troubles>>

\* The dialler looks at the answer once more after it has read the other's Yes.
Refuse(c, d) ==
  /\ at[c][d] = "asking" /\ confirmed[c][d] = No
  /\ BothConfirmed(c, d) => d = link[c].from
  /\ Write(c, d, No)
  /\ LeaveLoop(c, d)
  /\ UNCHANGED <<link, paired, reconnecting, confirmed, said, heard, troubles>>

Hear(c, d) ==
  /\ at[c][d] = "asking" /\ ~BothConfirmed(c, d)
  /\ \E m \in Message :
       /\ Reads(c, d, m)
       /\ IF Confirms(m)
          THEN /\ heard' = [heard EXCEPT ![c][d] = TRUE]
               /\ IF said[c][d] /\ d = link[c].to THEN LeaveLoop(c, d)
                  ELSE UNCHANGED <<at, active_pairing>>
          ELSE LeaveLoop(c, d) /\ UNCHANGED heard
  /\ Consume(c, d)
  /\ UNCHANGED <<link, paired, reconnecting, confirmed, said, troubles>>

HangUp(c, d) ==
  /\ at[c][d] = "asking" /\ Closed(c, d)
  /\ LeaveLoop(c, d)
  /\ UNCHANGED <<link, paired, reconnecting, confirmed, said, heard, wire,
                 troubles>>

Finish(c, d) ==
  /\ at[c][d] = "asking" /\ BothConfirmed(c, d)
  /\ LeaveLoop(c, d)
  /\ UNCHANGED <<link, paired, reconnecting, confirmed, said, heard, wire,
                 troubles>>

\* However the loop was left, both confirmations make a pair.
Settle(c, d) ==
  /\ at[c][d] = "closing"
  /\ IF BothConfirmed(c, d)
     THEN add_paired_device(d, Peer(c, d)) /\ Goes(c, d, "paired")
     ELSE Goes(c, d, "rejected") /\ UNCHANGED paired
  /\ UNCHANGED <<link, active_pairing, reconnecting, confirmed, said, heard,
                 wire, troubles>>

-----------------------------------------------------------------------------
(* Users and misfortunes.                                                  *)

UnpairDevice(d, e) ==
  /\ e \in paired[d]
  /\ Changes
  /\ paired' = [paired EXCEPT ![d] = @ \ {e}]
  /\ UNCHANGED <<link, active_pairing, at, reconnecting, confirmed, said, heard,
                 wire, cut, disturbed>>

Cut(c) ==
  /\ ~cut[c] /\ \E d \in Ends(c) : at[c][d] \notin {"idle"} \cup Over
  /\ Changes
  /\ cut' = [cut EXCEPT ![c] = TRUE]
  /\ wire' = [wire EXCEPT ![c] = [d \in Devices |-> <<>>]]
  /\ disturbed' = [disturbed EXCEPT ![c] = TRUE]
  /\ UNCHANGED <<link, paired, active_pairing, at, reconnecting, confirmed, said,
                 heard>>

\* The agent stops and starts again; only the table of devices is kept.
Restart(d) ==
  LET lost == {c \in Connections : at[c][d] \notin {"idle"} \cup Over} IN
  /\ lost # {}
  /\ Changes
  /\ at' = [c \in Connections |->
              [e \in Devices |-> IF c \in lost /\ e = d THEN "gone" ELSE at[c][e]]]
  /\ active_pairing' = [active_pairing EXCEPT ![d] = None]
  /\ disturbed' = [c \in Connections |-> disturbed[c] \/ c \in lost]
  /\ UNCHANGED <<link, paired, reconnecting, confirmed, said, heard, wire,
                 cut>>

-----------------------------------------------------------------------------
HandlerStep(c, d) ==
  \/ HandshakeFails(c, d) \/ RejectStale(c, d) \/ Recognise(c, d) \/ Doubt(c, d)
  \/ Greet(c, d) \/ Greeted(c, d) \/ NotGreeted(c, d)
  \/ Ask(c, d) \/ Say(c, d) \/ SayFails(c, d) \/ Refuse(c, d) \/ Hear(c, d)
  \/ HangUp(c, d) \/ Finish(c, d) \/ Settle(c, d)

Next ==
  \/ \E c \in Connections :
       \/ \E named \in BOOLEAN : initiate_pairing(c, named)
       \/ \E d \in Ends(c) : HandlerStep(c, d)
       \/ Cut(c)
  \/ \E d \in Devices :
       \/ \E answer \in {Yes, No} : ConfirmPairing(d, answer)
       \/ \E e \in Devices : UnpairDevice(d, e)
       \/ Restart(d)

Spec == Init /\ [][Next]_vars

-----------------------------------------------------------------------------
(* Properties                                                              *)

\* A Yes that was read, or is under way, was written by the other end: neither
\* silence nor a refusal or a stale pairing is taken for a confirmation.
HeardWasSaid ==
  \A c \in Connections : \A d \in Ends(c) :
    /\ heard[c][d] => said[c][Peer(c, d)]
    /\ \A i \in 1..Len(wire[c][d]) : wire[c][d][i] = Yes => said[c][Peer(c, d)]

\* A device comes into the table of paired devices only after both ends of a
\* connection to it have confirmed, or when it was there when the handler looked
\* (and its user removed it meanwhile).
PairedByBoth ==
  [][\A d, e \in Devices : e \in paired'[d] /\ e \notin paired[d] =>
       \E c \in Connections :
         /\ Ends(c) = {d, e}
         /\ (said[c][d] /\ said[c][e]) \/ at[c][d] = "trusting"]_vars

\* Two users who are asked about the same connection, and do not change what they
\* answer, end with the same outcome unless it broke or an agent was stopped:
\* never is one device paired and the other not.
SameOutcome ==
  \A c \in Connections : \A d \in Ends(c) :
    ~disturbed[c] /\ at[c][d] = "paired" => at[c][Peer(c, d)] # "rejected"

\* A pairing that waits for its user is in the slot, where the user can answer
\* it, unless another pairing of this device took the slot.
CanBeAnswered ==
  \A c \in Connections : \A d \in Ends(c) :
    at[c][d] = "asking" /\ active_pairing[d] # c =>
      \E other \in Connections \ {c} : d \in Ends(other) /\ at[other][d] \in Asked
=============================================================================
