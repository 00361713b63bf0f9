---------------------------- MODULE RelayPairing ----------------------------
(***************************************************************************)
(* Pairing, and the reconnection of devices that are paired, over the      *)
(* relay (pairing.rs).  A Noise handshake of three messages (XX), or of    *)
(* two between paired devices (IK), goes through the relay and is kept in  *)
(* the slot active_pairing.  Each end then waits until its pairing is      *)
(* confirmed, and sends a TURN candidate; the candidate of the other end   *)
(* makes the pair.  Every message has a thread of its own.                 *)
(*                                                                         *)
(* The lock of the slot is not reentrant.  A handler that takes it while   *)
(* it holds it waits for ever, and so does whatever needs the slot then:   *)
(* the device is stuck until its agent is started again.                   *)
(***************************************************************************)
EXTENDS Naturals, Sequences, FiniteSets

CONSTANTS
  Devices,
  MaxAttempts, \* how many handshakes are begun
  MaxChanges,  \* how many QR codes are shown and, with them, how many agents
               \* restart, slots are emptied by a pairing over the LAN, answers
               \* changed and pairings removed
  None         \* no answer yet

ASSUME ConstantsAssumption ==
  /\ MaxAttempts \in Nat /\ MaxChanges \in Nat
  /\ None \notin {"yes", "no"}

Attempts == 1..MaxAttempts
Junk     == 0  \* the handshake of a responder that took another message for a first one
NoSecret == 0

\* The messages of a handshake, the report of a stale pairing, and candidates: a
\* monitor's or the reply to one.  Two of a kind that are under way at once are one.
Message1 == [step : {1}, hs : Attempts, from : Devices, to : Devices, ik : BOOLEAN]
Message2 == [step : {2}, hs : {Junk} \cup Attempts, from : Devices, to : Devices]
Message3 == [step : {3}, hs : Attempts, from : Devices, to : Devices, reconnect : BOOLEAN,
             secret : 0..MaxChanges]
Noise == Message1 \cup Message2 \cup Message3
PairingError  == [stale : {TRUE}, hs : Attempts, from : Devices, to : Devices]
TurnCandidate == [reply : BOOLEAN, from : Devices, to : Devices]
Signal == Noise \cup PairingError \cup TurnCandidate

Free == [state |-> "free"]
ActivePairingState ==
  [state : {"initiator", "responder"}, remote : Devices, hs : {Junk} \cup Attempts,
   ik : BOOLEAN, finished : BOOLEAN, confirmed : {None, "yes", "no"}]

VARIABLES
  paired,      \* the devices in each device's table
  slot,        \* active_pairing
  stuck,       \* devices with a handler that waits for the lock it holds
  starting,    \* pairings whose first message is sent and that are not in the slot yet
  monitors,    \* whom the monitors of a device watch
  secret,      \* active_oob_secret
  secrets,     \* how many secrets were made
  target,      \* target_oob_secret: secrets that were scanned
  sessions,    \* the sessions over TURN of a device
  net,         \* signals under way
  begun,       \* history: who began a handshake
  troubles,    \* how many of the other changes there were
  said         \* history: <<d, e>> if d's user accepted e
pairing == <<slot, starting, monitors>>
codes   == <<secret, secrets, target>>
counts  == <<begun, troubles>>
vars == <<paired, pairing, stuck, codes, sessions, net, counts, said>>

TypeOK ==
  /\ paired \in [Devices -> SUBSET Devices]
  /\ slot \in [Devices -> {Free} \cup ActivePairingState]
  /\ stuck \subseteq Devices
  /\ starting \in [Devices -> SUBSET ActivePairingState]
  /\ monitors \in [Devices -> SUBSET Devices]
  /\ secret \in [Devices -> 0..MaxChanges] /\ secrets \in 0..MaxChanges
  /\ target \in [Devices -> {Free} \cup [remote : Devices, secret : 1..MaxChanges]]
  /\ sessions \in [Devices -> SUBSET [remote : Devices, hs : Attempts]]
  /\ net \subseteq Signal
  /\ begun \in Seq(Devices) /\ Len(begun) <= MaxAttempts
  /\ troubles \in 0..MaxChanges
  /\ said \subseteq Devices \X Devices

Init ==
  /\ paired \in {p \in [Devices -> SUBSET Devices] :
                   \A d \in Devices : d \notin p[d] /\ \A e \in p[d] : d \in p[e]}
  /\ slot = [d \in Devices |-> Free] /\ target = slot
  /\ stuck = {}
  /\ starting = [d \in Devices |-> {}] /\ monitors = starting /\ sessions = starting
  /\ secret = [d \in Devices |-> NoSecret] /\ secrets = 0
  /\ net = {}
  /\ begun = <<>> /\ troubles = 0
  /\ said = {p \in Devices \X Devices : p[2] \in paired[p[1]]}

-----------------------------------------------------------------------------
Busy(d, e) == slot[d] # Free /\ slot[d].remote = e
Accepted(d, e) == Busy(d, e) /\ slot[d].confirmed = "yes"

\* An answer of its user, or what stands for one.
Answer(yes) == IF yes THEN "yes" ELSE None

\* The lock is free, and the signals m leave the queue for those in replies.
Handles(d, m, replies) == d \notin stuck /\ m \in net /\ net' = (net \ {m}) \cup replies

MayChange == secrets + troubles < MaxChanges

Trouble == MayChange /\ troubles' = troubles + 1

\* A monitor watches the slot for whom the pairing in it is with.
monitor_relay_pairing(d, e) == monitors' = [monitors EXCEPT ![d] = @ \cup {e}]

HasSecretOf(d, e) == target[d] # Free /\ target[d].remote = e

-----------------------------------------------------------------------------
(* The initiator.  It sends the first message before it takes the lock.    *)

\* A device that is paired needs no confirmation; that of another is the scan of
\* its code.
Begin(d, e, ik) ==
  /\ starting[d] = {} /\ Len(begun) < MaxAttempts /\ begun' = Append(begun, d)
  /\ net' = net \cup {[step |-> 1, hs |-> Len(begun'), from |-> d, to |-> e, ik |-> ik]}
  /\ starting' = [starting EXCEPT ![d] = @ \cup
       {[state |-> "initiator", remote |-> e, hs |-> Len(begun'), ik |-> ik,
         finished |-> FALSE, confirmed |-> Answer(e \in paired[d] \/ HasSecretOf(d, e))]}]
  /\ UNCHANGED <<paired, slot, stuck, monitors, codes, sessions, troubles, said>>

initiate_remote_pairing(d, e) == e \notin paired[d] /\ Begin(d, e, FALSE)

\* It is greeted by IK, or by XX if its row is of the time before keys were kept.
reconnect_known_device(d, e) == e \in paired[d] /\ \E ik \in BOOLEAN : Begin(d, e, ik)

\* Whatever is in the slot gives way.
TakeSlot(d, s) ==
  /\ s \in starting[d] /\ d \notin stuck
  /\ slot' = [slot EXCEPT ![d] = s]
  /\ starting' = [starting EXCEPT ![d] = @ \ {s}]
  /\ monitor_relay_pairing(d, s.remote)
  /\ UNCHANGED <<paired, stuck, codes, sessions, net, counts, said>>

generate_qr_payload(d) ==
  /\ MayChange
  /\ secrets' = secrets + 1
  /\ secret' = [secret EXCEPT ![d] = secrets']
  /\ UNCHANGED <<paired, pairing, stuck, target, sessions, net, counts, said>>

\* The pairing is initiated next, by the user or by pair_with_qr.
pair_with_qr(d, e) ==
  /\ e \notin paired[d] /\ secret[e] # NoSecret
  /\ target' = [target EXCEPT ![d] = [remote |-> e, secret |-> secret[e]]]
  /\ said' = said \cup {<<d, e>>}
  /\ UNCHANGED <<paired, pairing, stuck, secret, secrets, sessions, net, counts>>

-----------------------------------------------------------------------------
(* A message of a handshake arrives.                                       *)

Reply2(m) == [step |-> 2, hs |-> m.hs, from |-> m.to, to |-> m.from]
StaleTo(m) == [stale |-> TRUE, hs |-> m.hs, from |-> m.to, to |-> m.from]

GivesWay(d, m) == slot[d] = Free \/ Busy(d, m.from)  \* mutant: to a newer one of that device
Vacant(d, m) == slot[d] = Free

Respond(d, m, hs, ik) ==
  LET s == [state |-> "responder", remote |-> m.from, hs |-> hs, ik |-> ik,
            finished |-> ik, confirmed |-> Answer(ik \/ m.from \in paired[d])]
  IN slot' = [slot EXCEPT ![d] = s] /\ monitor_relay_pairing(d, m.from)

FirstMessage(d, m) ==
  /\ m \in Noise /\ m.step = 1 /\ m.to = d /\ Vacant(d, m)
  /\ m.ik => m.from \in paired[d]
  /\ Handles(d, m, {Reply2(m)})
  /\ Respond(d, m, m.hs, m.ik)
  /\ UNCHANGED <<paired, stuck, starting, codes, sessions, counts, said>>

\* A reconnection of a device that was removed here is refused.
StaleFirstMessage(d, m) ==
  /\ m \in Noise /\ m.step = 1 /\ m.to = d /\ Vacant(d, m)
  /\ m.ik /\ m.from \notin paired[d]
  /\ Handles(d, m, {StaleTo(m)})
  /\ UNCHANGED <<paired, stuck, pairing, codes, sessions, counts, said>>

\* With an empty slot any message is read as a first one.  It fails, or passes for
\* the XX message that begins with anything.
UnexpectedMessage(d, m) ==
  /\ m \in Noise /\ m.step # 1 /\ m.to = d /\ slot[d] = Free
  /\ \/ Handles(d, m, {}) /\ UNCHANGED <<slot, monitors>>
     \/ Handles(d, m, {Reply2([m EXCEPT !.hs = Junk])}) /\ Respond(d, m, Junk, FALSE)
  /\ UNCHANGED <<paired, stuck, starting, codes, sessions, counts, said>>

Expected(d, m) ==
  /\ Busy(d, m.from) /\ ~slot[d].finished /\ m.hs = slot[d].hs
  /\ m.step = (IF slot[d].state = "initiator" THEN 2 ELSE 3)

\* The initiator has the payload of the other end, and sends the third message of XX.
SecondMessage(d, m) ==
  LET e == m.from IN
  /\ m \in Noise /\ m.step = 2 /\ m.to = d /\ Expected(d, m)
  /\ Handles(d, m, IF slot[d].ik THEN {}
       ELSE {[step |-> 3, hs |-> m.hs, from |-> d, to |-> e, reconnect |-> e \in paired[d],
              secret |-> IF HasSecretOf(d, e) THEN target[d].secret ELSE NoSecret]})
  /\ slot' = [slot EXCEPT ![d].finished = TRUE,
                          ![d].confirmed = IF e \in paired[d] THEN "yes" ELSE @]
  /\ UNCHANGED <<paired, stuck, starting, monitors, codes, sessions, counts, said>>

AnySecret(d, m) == secret[d] # NoSecret  \* mutant: the secrets are not compared
Matches(d, m) == secret[d] # NoSecret /\ m.secret = secret[d]

\* The responder compares the secrets and forgets its own.
ThirdMessage(d, m) ==
  /\ m \in Noise /\ m.step = 3 /\ m.to = d /\ Expected(d, m)
  /\ m.reconnect => m.from \in paired[d]
  /\ Handles(d, m, {})
  /\ slot' = [slot EXCEPT ![d].finished = TRUE,
       ![d].confirmed = IF Matches(d, m) \/ m.from \in paired[d] THEN "yes" ELSE @]
  /\ secret' = [secret EXCEPT ![d] = NoSecret]
  /\ said' = IF m.secret # NoSecret /\ m.secret = secret[d]
             THEN said \cup {<<d, m.from>>} ELSE said
  /\ UNCHANGED <<paired, stuck, starting, monitors, secrets, target, sessions, counts>>

StaleThirdMessage(d, m) ==
  /\ m \in Noise /\ m.step = 3 /\ m.to = d /\ Expected(d, m)
  /\ m.reconnect /\ m.from \notin paired[d]
  /\ Handles(d, m, {StaleTo(m)})
  /\ slot' = [slot EXCEPT ![d] = Free]
  /\ UNCHANGED <<paired, stuck, starting, monitors, codes, sessions, counts, said>>

\* A message of another device is ignored.  Any other message of the device in the
\* slot is an error, upon which the handler takes the lock again to empty the slot.
UnreadableMessage(d, m) ==
  /\ m \in Noise /\ m.to = d /\ slot[d] # Free /\ ~Expected(d, m)
  /\ Handles(d, m, {})
  /\ stuck' = IF Busy(d, m.from) THEN stuck \cup {d} ELSE stuck
  /\ UNCHANGED <<paired, pairing, codes, sessions, counts, said>>

\* The slot is emptied whichever pairing is in it.
StaleReported(d, m) ==
  /\ m \in PairingError /\ m.to = d
  /\ Handles(d, m, {})
  /\ slot' = [slot EXCEPT ![d] = Free]
  /\ UNCHANGED <<paired, stuck, starting, monitors, codes, sessions, counts, said>>

-----------------------------------------------------------------------------
(* The confirmation, the monitor and the candidates.                       *)

ConfirmPairing(d, answer) ==
  /\ slot[d] # Free /\ d \notin stuck
  /\ IF slot[d].confirmed = None THEN UNCHANGED troubles
     ELSE slot[d].confirmed # answer /\ Trouble
  /\ slot' = [slot EXCEPT ![d].confirmed = answer]
  /\ said' = IF answer = "yes" THEN said \cup {<<d, slot[d].remote>>} ELSE said
  /\ UNCHANGED <<paired, stuck, starting, monitors, codes, sessions, net, begun>>

\* A failure of the TURN server is the same as the loss of the candidate.
SendsAnyway(d, e) == Busy(d, e)  \* mutant: before the answer is known
MayOffer(d, e) == Accepted(d, e)

MonitorOffers(d, e) ==
  /\ d \notin stuck /\ MayOffer(d, e)
  /\ monitors' = [monitors EXCEPT ![d] = @ \ {e}]
  /\ net' = net \cup {[reply |-> FALSE, from |-> d, to |-> e]}
  /\ UNCHANGED <<paired, slot, stuck, starting, codes, sessions, counts, said>>

MonitorEndsEarly(d, e) ==  \* mutant: with the first look at the slot
  /\ d \notin stuck
  /\ monitors' = [monitors EXCEPT ![d] = @ \ {e}]
  /\ UNCHANGED <<paired, slot, stuck, starting, codes, sessions, net, counts, said>>
MonitorEnds(d, e) ==
  /\ d \notin stuck
  /\ Busy(d, e) => slot[d].confirmed = "no"
  /\ monitors' = [monitors EXCEPT ![d] = @ \ {e}]
  /\ UNCHANGED <<paired, slot, stuck, starting, codes, sessions, net, counts, said>>

add_paired_device(d, e) == paired' = [paired EXCEPT ![d] = @ \cup {e}]

AcceptPending(d, m) == Busy(d, m.from)  \* mutant: whatever the user says
TakesCandidate(d, m) == Accepted(d, m.from)

Regardless(d) == TRUE  \* mutant: whatever the state of the handshake
into_transport_mode(d) == slot[d].finished

LockAgain(d) == stuck' = stuck \cup {d}

\* The candidate of the other end is answered, and makes a pair if the handshake is
\* finished.  Then the handler takes the lock again, to empty the slot.
handle_turn_candidate(d, m) ==
  LET e == m.from IN
  /\ m \in TurnCandidate /\ m.to = d
  /\ LockAgain(d)
  /\ \/ Handles(d, m, {}) /\ UNCHANGED <<paired, sessions>>
     \/ /\ TakesCandidate(d, m)
        /\ Handles(d, m, {[reply |-> TRUE, from |-> d, to |-> e]})
        /\ IF into_transport_mode(d)
           THEN /\ add_paired_device(d, e)
                /\ sessions' = [sessions EXCEPT ![d] = @ \cup {[remote |-> e, hs |-> slot[d].hs]}]
           ELSE UNCHANGED <<paired, sessions>>
  /\ UNCHANGED <<pairing, codes, counts, said>>

-----------------------------------------------------------------------------
(* Users and misfortunes.                                                  *)

UnpairDevice(d, e) ==
  /\ e \in paired[d] /\ Trouble
  /\ paired' = [paired EXCEPT ![d] = @ \ {e}]
  /\ UNCHANGED <<pairing, stuck, codes, sessions, net, begun, said>>

\* A pairing over the LAN ends, and empties the slot.
LanPairingEnds(d) ==
  /\ slot[d] # Free /\ d \notin stuck /\ Trouble
  /\ slot' = [slot EXCEPT ![d] = Free]
  /\ UNCHANGED <<paired, stuck, starting, monitors, codes, sessions, net, begun, said>>

Restart(d) ==
  /\ slot[d] # Free \/ d \in stuck \/ starting[d] # {}
  /\ Trouble
  /\ stuck' = stuck \ {d}
  /\ slot' = [slot EXCEPT ![d] = Free] /\ target' = [target EXCEPT ![d] = Free]
  /\ starting' = [starting EXCEPT ![d] = {}] /\ monitors' = [monitors EXCEPT ![d] = {}]
  /\ sessions' = [sessions EXCEPT ![d] = {}]
  /\ secret' = [secret EXCEPT ![d] = NoSecret]
  /\ UNCHANGED <<paired, secrets, net, begun, said>>

Receive(d, m) ==
  \/ FirstMessage(d, m) \/ StaleFirstMessage(d, m) \/ UnexpectedMessage(d, m)
  \/ SecondMessage(d, m) \/ ThirdMessage(d, m)
  \/ StaleThirdMessage(d, m) \/ UnreadableMessage(d, m) \/ StaleReported(d, m)
  \/ handle_turn_candidate(d, m)

Start(d) ==
  \/ \E e \in Devices \ {d} :
       initiate_remote_pairing(d, e) \/ reconnect_known_device(d, e) \/ pair_with_qr(d, e)
  \/ \E s \in starting[d] : TakeSlot(d, s)
  \/ generate_qr_payload(d)

Next ==
  \E d \in Devices :
    \/ Start(d)
    \/ \E m \in net : Receive(d, m)
    \/ \E answer \in {"yes", "no"} : ConfirmPairing(d, answer)
    \/ \E e \in monitors[d] : MonitorOffers(d, e) \/ MonitorEnds(d, e)
    \/ \E e \in Devices : UnpairDevice(d, e)
    \/ LanPairingEnds(d) \/ Restart(d)

Spec == Init /\ [][Next]_vars

-----------------------------------------------------------------------------
(* Properties                                                              *)

\* A device comes into the table of another only when the users of both have
\* accepted the other device: by the PIN, by a QR code shown or scanned, or by an
\* earlier pairing.
PairedByBoth ==
  \A d \in Devices : \A e \in paired[d] : <<d, e>> \in said /\ <<e, d>> \in said

\* A pairing in the slot that is not answered yet is watched, so that the answer
\* of the user has an effect.
AnswerIsHeard ==
  \A d \in Devices :
    slot[d] # Free /\ slot[d].confirmed = None =>
      slot[d].remote \in monitors[d]

\* Two devices with sessions to each other derived their keys from the same handshake,
\* unless each began one and took the other's for a new one.
SessionsMatch ==
  \A d, e \in Devices : \A s \in sessions[d], t \in sessions[e] :
    troubles = 0 /\ s.remote = e /\ t.remote = d =>
      s.hs = t.hs \/ begun[s.hs] # begun[t.hs]

\* "Clear active pairing on error to prevent infinite loop", "Clear UI state if it
\* matches this source" (pairing.rs): a handler gets to empty the slot.
SlotIsReleased == stuck = {}
=============================================================================
