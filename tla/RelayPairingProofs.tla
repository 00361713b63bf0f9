------------------------- MODULE RelayPairingProofs -------------------------
(***************************************************************************)
(* Theorems about RelayPairing, for any number of devices, handshakes,     *)
(* QR codes and troubles.  That only devices come into a table whose users *)
(* accepted each other follows from an invariant that says so of all that  *)
(* stands for an acceptance on the way there (AcceptancesAreTrue).         *)
(***************************************************************************)
EXTENDS RelayPairing, SequenceTheorems, TLAPS

SlotType == {Free} \cup ActivePairingState

-----------------------------------------------------------------------------
(* Types.                                                                  *)

LEMMA SetTyped ==
  ASSUME NEW S, NEW T, NEW f \in [S -> T], NEW d \in S, NEW v \in T
  PROVE  [f EXCEPT ![d] = v] \in [S -> T]
  OBVIOUS

\* What an arriving message says of itself.
LEMMA MessageTyped ==
  ASSUME TypeOK, NEW m \in net
  PROVE  /\ m.from \in Devices /\ m.to \in Devices
         /\ m \in Noise => m.hs \in {Junk} \cup Attempts
         /\ m \in Noise /\ m.step # 2 => m.hs \in Attempts
<1>1. m \in Noise \cup PairingError \cup TurnCandidate
  BY DEF TypeOK, Signal
<1>2. ASSUME m \in PairingError \cup TurnCandidate PROVE m.from \in Devices /\ m.to \in Devices
  BY <1>2 DEF PairingError, TurnCandidate
<1>3. ASSUME m \in Noise
      PROVE  /\ m.from \in Devices /\ m.to \in Devices /\ m.hs \in {Junk} \cup Attempts
             /\ m.step # 2 => m.hs \in Attempts
  <2>1. CASE m \in Message1
    BY <2>1 DEF Message1
  <2>2. CASE m \in Message2
    BY <2>2 DEF Message2
  <2>3. CASE m \in Message3
    BY <2>3 DEF Message3
  <2> QED BY <1>3, <2>1, <2>2, <2>3 DEF Noise
<1> QED BY <1>1, <1>2, <1>3

\* A change of one field leaves a pairing well typed.
LEMMA FieldTyped ==
  ASSUME NEW s \in ActivePairingState
  PROVE  /\ \A a \in {None, "yes", "no"} : [s EXCEPT !.confirmed = a] \in ActivePairingState
         /\ \A a \in {None, "yes", "no"} :
              [s EXCEPT !.finished = TRUE, !.confirmed = a] \in ActivePairingState
         /\ s.confirmed \in {None, "yes", "no"} /\ s.remote \in Devices
         /\ s.hs \in {Junk} \cup Attempts
  BY DEF ActivePairingState

\* A handshake that was begun here, or is finished, is one of the attempts.
HandshakesBegan ==
  \A d \in Devices :
    /\ slot[d] # Free /\ (slot[d].state = "initiator" \/ slot[d].finished) => slot[d].hs \in Attempts
    /\ \A s \in starting[d] : s.hs \in Attempts

Typed == TypeOK /\ HandshakesBegan

LEMMA InitTyped == Init => TypeOK
<1> SUFFICES ASSUME Init PROVE TypeOK
  OBVIOUS
<1> USE ConstantsAssumption DEF Init, TypeOK, NoSecret
<1>1. begun \in Seq(Devices) /\ Len(begun) <= MaxAttempts
  BY EmptySeq
<1> QED BY <1>1

\* The signals that leave the queue and come into it.
LEMMA HandlesTyped ==
  ASSUME TypeOK, NEW d, NEW m, NEW replies \in SUBSET Signal, Handles(d, m, replies)
  PROVE  m \in net /\ net' \subseteq Signal
  BY DEF Handles, TypeOK

LEMMA BeginTyped ==
  ASSUME Typed, NEW d \in Devices, NEW e \in Devices, NEW ik \in BOOLEAN, Begin(d, e, ik)
  PROVE  Typed'
<1> DEFINE n == Len(begun')
           s == [state |-> "initiator", remote |-> e, hs |-> n, ik |-> ik,
                 finished |-> FALSE, confirmed |-> Answer(e \in paired[d] \/ HasSecretOf(d, e))]
           m == [step |-> 1, hs |-> n, from |-> d, to |-> e, ik |-> ik]
<1> TypeOK
  BY DEF Typed
<1>1. begun' \in Seq(Devices) /\ n \in Attempts
  <2>1. begun \in Seq(Devices) /\ Len(begun) \in Nat /\ Len(begun) < MaxAttempts
    BY LenProperties DEF Begin, TypeOK
  <2>2. begun' \in Seq(Devices) /\ n = Len(begun) + 1
    BY AppendProperties, <2>1 DEF Begin
  <2> QED BY <2>1, <2>2, ConstantsAssumption DEF Attempts
<1>2. s \in ActivePairingState
  BY <1>1 DEF ActivePairingState, Answer
<1>3. m \in Signal
  BY <1>1 DEF Signal, Noise, Message1
<1>4. starting' = [starting EXCEPT ![d] = @ \cup {s}] /\ net' = net \cup {m}
  BY DEF Begin
<1>5. starting' \in [Devices -> SUBSET ActivePairingState]
  BY <1>2, <1>4 DEF TypeOK
<1>6. net' \subseteq Signal
  BY <1>3, <1>4 DEF TypeOK
<1>7. Len(begun') <= MaxAttempts
  BY <1>1, ConstantsAssumption DEF Attempts
<1>8. TypeOK'
  BY <1>1, <1>5, <1>6, <1>7 DEF Begin, TypeOK, codes
<1>9. s.hs = n
  OBVIOUS
<1>10. HandshakesBegan'
  <2> HIDE DEF s, n
  <2> QED BY <1>1, <1>4, <1>9 DEF Begin, TypeOK, Typed, HandshakesBegan, Attempts
<1> QED BY <1>8, <1>10 DEF Typed

\* A responder comes into the slot.
LEMMA RespondTyped ==
  ASSUME TypeOK, NEW d \in Devices, NEW m, m.from \in Devices, NEW hs \in {Junk} \cup Attempts,
         NEW ik \in BOOLEAN, Respond(d, m, hs, ik)
  PROVE  slot' \in [Devices -> SlotType] /\ monitors' \in [Devices -> SUBSET Devices]
<1> DEFINE s == [state |-> "responder", remote |-> m.from, hs |-> hs, ik |-> ik,
                 finished |-> ik, confirmed |-> Answer(ik \/ m.from \in paired[d])]
<1>1. s \in SlotType
  BY DEF SlotType, ActivePairingState, Answer
<1>2. slot' = [slot EXCEPT ![d] = s]
  BY DEF Respond
<1>3. slot' \in [Devices -> SlotType]
  BY <1>1, <1>2 DEF TypeOK, SlotType
<1>4. monitors' \in [Devices -> SUBSET Devices]
  BY DEF Respond, monitor_relay_pairing, TypeOK
<1> QED BY <1>3, <1>4

LEMMA RepliesTyped ==
  ASSUME TypeOK, NEW m \in net
  PROVE  /\ m \in Noise => Reply2(m) \in Signal /\ Reply2([m EXCEPT !.hs = Junk]) \in Signal
         /\ m \in Noise /\ m.step # 2 => StaleTo(m) \in Signal
<1>1. ASSUME m \in Noise PROVE Reply2(m) \in Message2
  BY <1>1, MessageTyped DEF Reply2, Message2
<1>2. ASSUME m \in Noise PROVE Reply2([m EXCEPT !.hs = Junk]) \in Message2
  <2> DEFINE j == [m EXCEPT !.hs = Junk]
  <2>1. j.from = m.from /\ j.to = m.to /\ j.hs = Junk
    <3>1. CASE m \in Message1
      BY <3>1 DEF Message1
    <3>2. CASE m \in Message2
      BY <3>2 DEF Message2
    <3>3. CASE m \in Message3
      BY <3>3 DEF Message3
    <3> QED BY <1>2, <3>1, <3>2, <3>3 DEF Noise
  <2> HIDE DEF j
  <2>2. Reply2(j) \in Message2
    BY <2>1, MessageTyped DEF Reply2, Message2
  <2> QED BY <2>2 DEF j
<1>3. ASSUME m \in Noise, m.step # 2 PROVE StaleTo(m) \in PairingError
  BY <1>3, MessageTyped DEF StaleTo, PairingError
<1> QED BY <1>1, <1>2, <1>3 DEF Signal, Noise

\* The handshake that a device, paired or not, answers.
LEMMA FirstTyped ==
  ASSUME Typed, NEW d \in Devices, NEW m \in net, FirstMessage(d, m)
  PROVE  Typed'
<1> TypeOK
  BY DEF Typed
<1> DEFINE s == [state |-> "responder", remote |-> m.from, hs |-> m.hs, ik |-> m.ik,
                 finished |-> m.ik, confirmed |-> Answer(m.ik \/ m.from \in paired[d])]
<1>1. m.hs \in Attempts /\ m.ik \in BOOLEAN /\ m.from \in Devices
  <2>1. m \in Message1
    BY DEF FirstMessage, Noise, Message1, Message2, Message3
  <2> QED BY <2>1 DEF Message1
<1>2. slot' \in [Devices -> SlotType] /\ monitors' \in [Devices -> SUBSET Devices]
  BY <1>1, RespondTyped DEF FirstMessage
<1>3. net' \subseteq Signal
  BY HandlesTyped, RepliesTyped DEF FirstMessage
<1>4. TypeOK'
  BY <1>2, <1>3 DEF FirstMessage, TypeOK, SlotType, codes, counts
<1>5. slot' = [slot EXCEPT ![d] = s] /\ s.hs = m.hs
  BY DEF FirstMessage, Respond
<1>6. HandshakesBegan'
  <2> HIDE DEF s
  <2> QED BY <1>1, <1>5 DEF FirstMessage, TypeOK, Typed, HandshakesBegan, Attempts
<1> QED BY <1>4, <1>6 DEF Typed

LEMMA StaleFirstTyped ==
  ASSUME Typed, NEW d \in Devices, NEW m \in net, StaleFirstMessage(d, m)
  PROVE  Typed'
<1> TypeOK
  BY DEF Typed
<1>1. StaleTo(m) \in Signal
  <2>1. m \in Noise /\ m.step # 2
    BY DEF StaleFirstMessage
  <2> QED BY <2>1, RepliesTyped
<1>2. net' \subseteq Signal
  <2>1. Handles(d, m, {StaleTo(m)})
    BY DEF StaleFirstMessage
  <2> QED BY <1>1, <2>1, HandlesTyped
<1> QED BY <1>2 DEF StaleFirstMessage, Typed, HandshakesBegan, Attempts, TypeOK, pairing, codes, counts

\* A handshake that begins with something else has no number and is not finished.
LEMMA UnexpectedTyped ==
  ASSUME Typed, NEW d \in Devices, NEW m \in net, UnexpectedMessage(d, m)
  PROVE  Typed'
<1> TypeOK
  BY DEF Typed
<1> DEFINE j == Reply2([m EXCEPT !.hs = Junk])
           s == [state |-> "responder", remote |-> m.from, hs |-> Junk, ik |-> FALSE,
                 finished |-> FALSE, confirmed |-> Answer(FALSE \/ m.from \in paired[d])]
<1>1. j \in Signal
  BY RepliesTyped DEF UnexpectedMessage
<1>2. CASE Handles(d, m, {}) /\ UNCHANGED <<slot, monitors>>
  <2>1. net' \subseteq Signal
    BY <1>2, HandlesTyped
  <2> QED BY <1>2, <2>1 DEF UnexpectedMessage, Typed, HandshakesBegan, Attempts, TypeOK, codes, counts
<1>3. CASE Handles(d, m, {j}) /\ Respond(d, m, Junk, FALSE)
  <2> HIDE DEF j
  <2>1. net' \subseteq Signal
    BY <1>1, <1>3, HandlesTyped
  <2>2. slot' \in [Devices -> SlotType] /\ monitors' \in [Devices -> SUBSET Devices]
    BY <1>3, MessageTyped, RespondTyped
  <2>3. TypeOK'
    BY <2>1, <2>2 DEF UnexpectedMessage, TypeOK, SlotType, codes, counts
  <2>4. slot' = [slot EXCEPT ![d] = s] /\ s.state = "responder" /\ s.finished = FALSE
    BY <1>3 DEF Respond
  <2>5. HandshakesBegan'
    <3> HIDE DEF s
    <3> QED BY <2>4 DEF UnexpectedMessage, TypeOK, Typed, HandshakesBegan, Attempts
  <2> QED BY <2>3, <2>5 DEF Typed
<1> QED BY <1>2, <1>3 DEF UnexpectedMessage

\* An expected message finishes the pairing in the slot.
LEMMA FinishTyped ==
  ASSUME Typed, NEW d \in Devices, slot[d] # Free, slot[d].hs \in Attempts,
         NEW a \in {None, "yes", "no"},
         slot' = [slot EXCEPT ![d].finished = TRUE, ![d].confirmed = a], UNCHANGED starting
  PROVE  slot' \in [Devices -> SlotType] /\ HandshakesBegan'
<1> DEFINE s == [slot[d] EXCEPT !.finished = TRUE, !.confirmed = a]
<1>1. slot[d] \in ActivePairingState
  BY DEF Typed, TypeOK
<1>2. s \in ActivePairingState /\ s.hs \in Attempts
  BY <1>1, FieldTyped DEF ActivePairingState
<1>3. slot' = [slot EXCEPT ![d] = s]
  BY DEF Typed, TypeOK
<1> HIDE DEF s
<1>4. slot' \in [Devices -> SlotType]
  BY <1>2, <1>3 DEF Typed, TypeOK, SlotType
<1>5. HandshakesBegan'
  BY <1>2, <1>3 DEF Typed, TypeOK, HandshakesBegan, Attempts
<1> QED BY <1>4, <1>5

LEMMA SecondTyped ==
  ASSUME Typed, NEW d \in Devices, NEW m \in net, SecondMessage(d, m)
  PROVE  Typed'
<1> TypeOK
  BY DEF Typed
<1> DEFINE third == [step |-> 3, hs |-> m.hs, from |-> d, to |-> m.from,
                     reconnect |-> m.from \in paired[d],
                     secret |-> IF HasSecretOf(d, m.from) THEN target[d].secret ELSE NoSecret]
           a == IF m.from \in paired[d] THEN "yes" ELSE slot[d].confirmed
<1>1. slot[d] # Free /\ slot[d] \in ActivePairingState /\ m.hs = slot[d].hs /\ m.hs \in Attempts
  BY DEF SecondMessage, Expected, Busy, TypeOK, Typed, HandshakesBegan
<1>2. third \in Signal
  <2>1. third.secret \in 0..MaxChanges
    BY ConstantsAssumption DEF HasSecretOf, TypeOK, NoSecret
  <2>2. third \in Message3
    BY <1>1, <2>1, MessageTyped DEF Message3
  <2> QED BY <2>2 DEF Signal, Noise
<1>3. net' \subseteq Signal
  <2>1. Handles(d, m, IF slot[d].ik THEN {} ELSE {third})
    BY DEF SecondMessage
  <2> HIDE DEF third
  <2> QED BY <1>2, <2>1, HandlesTyped
<1>4. a \in {None, "yes", "no"}
  BY <1>1, FieldTyped
<1>5. slot' = [slot EXCEPT ![d].finished = TRUE, ![d].confirmed = a]
  BY DEF SecondMessage
<1> HIDE DEF a
<1>6. slot' \in [Devices -> SlotType] /\ HandshakesBegan'
  BY <1>1, <1>4, <1>5, FinishTyped DEF SecondMessage
<1> QED BY <1>3, <1>6 DEF SecondMessage, Typed, TypeOK, SlotType, codes, counts

LEMMA ThirdTyped ==
  ASSUME Typed, NEW d \in Devices, NEW m \in net, ThirdMessage(d, m)
  PROVE  Typed'
<1> TypeOK
  BY DEF Typed
<1> DEFINE a == IF Matches(d, m) \/ m.from \in paired[d] THEN "yes" ELSE slot[d].confirmed
<1>1. slot[d] # Free /\ slot[d] \in ActivePairingState /\ slot[d].hs \in Attempts
  BY MessageTyped DEF ThirdMessage, Expected, Busy, TypeOK
<1>2. net' \subseteq Signal
  BY HandlesTyped DEF ThirdMessage
<1>3. a \in {None, "yes", "no"}
  BY <1>1, FieldTyped
<1>4. slot' = [slot EXCEPT ![d].finished = TRUE, ![d].confirmed = a]
  BY DEF ThirdMessage
<1> HIDE DEF a
<1>5. slot' \in [Devices -> SlotType] /\ HandshakesBegan'
  BY <1>1, <1>3, <1>4, FinishTyped DEF ThirdMessage
<1>6. secret' \in [Devices -> 0..MaxChanges]
  BY ConstantsAssumption DEF ThirdMessage, TypeOK, NoSecret
<1>7. said' \subseteq Devices \X Devices
  BY MessageTyped DEF ThirdMessage, TypeOK
<1> QED BY <1>2, <1>5, <1>6, <1>7 DEF ThirdMessage, Typed, TypeOK, SlotType, counts

\* The slot is emptied.
LEMMA FreeTyped ==
  ASSUME Typed, NEW d \in Devices, slot' = [slot EXCEPT ![d] = Free],
         \/ UNCHANGED starting \/ starting' = [starting EXCEPT ![d] = {}]
  PROVE  slot' \in [Devices -> SlotType] /\ HandshakesBegan'
  BY DEF Typed, TypeOK, HandshakesBegan, SlotType, Attempts

LEMMA StaleThirdTyped ==
  ASSUME Typed, NEW d \in Devices, NEW m \in net, StaleThirdMessage(d, m)
  PROVE  Typed'
<1> TypeOK
  BY DEF Typed
<1>1. StaleTo(m) \in Signal
  <2>1. m \in Noise /\ m.step # 2
    BY DEF StaleThirdMessage
  <2> QED BY <2>1, RepliesTyped
<1>2. net' \subseteq Signal
  <2>1. Handles(d, m, {StaleTo(m)})
    BY DEF StaleThirdMessage
  <2> QED BY <1>1, <2>1, HandlesTyped
<1>3. slot' \in [Devices -> SlotType] /\ HandshakesBegan'
  BY FreeTyped DEF StaleThirdMessage
<1> QED BY <1>2, <1>3 DEF StaleThirdMessage, Typed, TypeOK, SlotType, codes, counts

LEMMA UnreadableTyped ==
  ASSUME Typed, NEW d \in Devices, NEW m \in net, UnreadableMessage(d, m)
  PROVE  Typed'
<1> TypeOK
  BY DEF Typed
<1>1. net' \subseteq Signal
  BY HandlesTyped DEF UnreadableMessage
<1>2. stuck' \subseteq Devices
  BY DEF UnreadableMessage, TypeOK
<1> QED BY <1>1, <1>2 DEF UnreadableMessage, Typed, HandshakesBegan, Attempts, TypeOK, pairing, codes, counts

LEMMA StaleReportedTyped ==
  ASSUME Typed, NEW d \in Devices, NEW m \in net, StaleReported(d, m)
  PROVE  Typed'
<1> TypeOK
  BY DEF Typed
<1>1. net' \subseteq Signal
  BY HandlesTyped DEF StaleReported
<1>2. slot' \in [Devices -> SlotType] /\ HandshakesBegan'
  BY FreeTyped DEF StaleReported
<1> QED BY <1>1, <1>2 DEF StaleReported, Typed, TypeOK, SlotType, codes, counts

\* A session has the number of a finished handshake.
LEMMA CandidateTyped ==
  ASSUME Typed, NEW d \in Devices, NEW m \in net, handle_turn_candidate(d, m)
  PROVE  Typed'
<1> TypeOK
  BY DEF Typed
<1> DEFINE reply == [reply |-> TRUE, from |-> d, to |-> m.from]
           x == [remote |-> m.from, hs |-> slot[d].hs]
<1>1. reply \in Signal
  BY MessageTyped DEF Signal, TurnCandidate
<1>2. net' \subseteq Signal
  <2>1. Handles(d, m, {}) \/ Handles(d, m, {reply})
    BY DEF handle_turn_candidate
  <2> HIDE DEF reply
  <2> QED BY <1>1, <2>1, HandlesTyped
<1>3. stuck' \subseteq Devices
  BY DEF handle_turn_candidate, LockAgain, TypeOK
<1>4. paired' \in [Devices -> SUBSET Devices] /\ sessions' \in [Devices -> SUBSET [remote : Devices, hs : Attempts]]
  <2>1. CASE UNCHANGED <<paired, sessions>>
    BY <2>1 DEF TypeOK
  <2>2. CASE /\ TakesCandidate(d, m) /\ into_transport_mode(d) /\ add_paired_device(d, m.from)
             /\ sessions' = [sessions EXCEPT ![d] = @ \cup {x}]
    <3>1. x \in [remote : Devices, hs : Attempts]
      BY <2>2, MessageTyped
         DEF Typed, HandshakesBegan, TakesCandidate, Accepted, Busy, into_transport_mode
    <3> HIDE DEF x
    <3> QED BY <2>2, <3>1, MessageTyped DEF TypeOK, add_paired_device
  <2> QED BY <2>1, <2>2 DEF handle_turn_candidate
<1> QED BY <1>2, <1>3, <1>4
        DEF handle_turn_candidate, Typed, HandshakesBegan, Attempts, TypeOK, pairing, codes, counts

LEMMA ReceiveTyped ==
  ASSUME Typed, NEW d \in Devices, NEW m \in net, Receive(d, m)
  PROVE  Typed'
  BY FirstTyped, StaleFirstTyped, UnexpectedTyped, SecondTyped, ThirdTyped, StaleThirdTyped,
     UnreadableTyped, StaleReportedTyped, CandidateTyped DEF Receive

LEMMA StartTyped ==
  ASSUME Typed, NEW d \in Devices, Start(d)
  PROVE  Typed'
<1> TypeOK
  BY DEF Typed
<1>1. ASSUME NEW e \in Devices, initiate_remote_pairing(d, e) \/ reconnect_known_device(d, e)
      PROVE  Typed'
  BY <1>1, BeginTyped DEF initiate_remote_pairing, reconnect_known_device
<1>2. ASSUME NEW e \in Devices, pair_with_qr(d, e)
      PROVE  Typed'
  <2> DEFINE t == [remote |-> e, secret |-> secret[e]]
  <2>1. t \in [remote : Devices, secret : 1..MaxChanges]
    BY <1>2, ConstantsAssumption DEF pair_with_qr, TypeOK, NoSecret
  <2>2. target' = [target EXCEPT ![d] = t]
    BY <1>2 DEF pair_with_qr
  <2> HIDE DEF t
  <2> QED BY <1>2, <2>1, <2>2
          DEF pair_with_qr, Typed, HandshakesBegan, Attempts, TypeOK, pairing, counts
<1>3. ASSUME NEW s \in starting[d], TakeSlot(d, s)
      PROVE  Typed'
  <2>1. s \in ActivePairingState /\ s.remote \in Devices /\ s.hs \in Attempts
    BY FieldTyped DEF Typed, TypeOK, HandshakesBegan
  <2>2. slot' \in [Devices -> SlotType] /\ starting' \in [Devices -> SUBSET ActivePairingState]
    BY <1>3, <2>1 DEF TakeSlot, TypeOK, SlotType
  <2>3. monitors' \in [Devices -> SUBSET Devices]
    BY <1>3, <2>1 DEF TakeSlot, monitor_relay_pairing, TypeOK
  <2>4. HandshakesBegan'
    BY <1>3, <2>1 DEF TakeSlot, Typed, TypeOK, HandshakesBegan, Attempts
  <2> QED BY <1>3, <2>2, <2>3, <2>4 DEF TakeSlot, Typed, TypeOK, SlotType, codes, counts
<1>4. CASE generate_qr_payload(d)
  <2>1. secrets' \in 1..MaxChanges
    BY <1>4, ConstantsAssumption DEF generate_qr_payload, MayChange, TypeOK
  <2> QED BY <1>4, <2>1
          DEF generate_qr_payload, Typed, HandshakesBegan, Attempts, TypeOK, pairing, counts
<1> QED BY <1>1, <1>2, <1>3, <1>4 DEF Start

LEMMA TroubleTyped == TypeOK /\ Trouble => troubles' \in 0..MaxChanges
  BY ConstantsAssumption DEF TypeOK, Trouble, MayChange

\* What users and misfortunes do.
LEMMA OthersTyped ==
  ASSUME Typed, NEW d \in Devices,
         \/ \E answer \in {"yes", "no"} : ConfirmPairing(d, answer)
         \/ \E e \in monitors[d] : MonitorOffers(d, e) \/ MonitorEnds(d, e)
         \/ \E e \in Devices : UnpairDevice(d, e)
         \/ LanPairingEnds(d) \/ Restart(d)
  PROVE  Typed'
<1> TypeOK
  BY DEF Typed
<1>1. ASSUME NEW answer \in {"yes", "no"}, ConfirmPairing(d, answer)
      PROVE  Typed'
  <2> DEFINE s == [slot[d] EXCEPT !.confirmed = answer]
  <2>1. slot[d] \in ActivePairingState /\ slot[d] # Free
    BY <1>1 DEF ConfirmPairing, TypeOK
  <2>2. /\ s \in ActivePairingState
        /\ s.hs = slot[d].hs /\ s.state = slot[d].state /\ s.finished = slot[d].finished
    BY <2>1, FieldTyped DEF ActivePairingState
  <2>3. slot' = [slot EXCEPT ![d] = s]
    BY <1>1 DEF ConfirmPairing, TypeOK
  <2> HIDE DEF s
  <2>4. slot' \in [Devices -> SlotType]
    BY <2>2, <2>3 DEF TypeOK, SlotType
  <2>5. HandshakesBegan'
    BY <1>1, <2>1, <2>2, <2>3 DEF ConfirmPairing, Typed, TypeOK, HandshakesBegan, Attempts
  <2>6. troubles' \in 0..MaxChanges
    BY <1>1, TroubleTyped DEF ConfirmPairing, TypeOK
  <2>7. said' \subseteq Devices \X Devices
    <3>1. slot[d].remote \in Devices
      BY <2>1, FieldTyped
    <3>2. said' = said \/ said' = said \cup {<<d, slot[d].remote>>}
      BY <1>1 DEF ConfirmPairing
    <3> QED BY <3>1, <3>2 DEF TypeOK
  <2> QED BY <1>1, <2>4, <2>5, <2>6, <2>7 DEF ConfirmPairing, Typed, TypeOK, SlotType, codes
<1>2. ASSUME NEW e \in monitors[d], MonitorOffers(d, e)
      PROVE  Typed'
  <2> DEFINE m == [reply |-> FALSE, from |-> d, to |-> e]
  <2>1. m \in Signal
    BY DEF Signal, TurnCandidate, TypeOK
  <2>2. net' \subseteq Signal
    BY <1>2, <2>1 DEF MonitorOffers, TypeOK
  <2>3. monitors' \in [Devices -> SUBSET Devices]
    BY <1>2 DEF MonitorOffers, TypeOK
  <2> QED BY <1>2, <2>2, <2>3
          DEF MonitorOffers, Typed, HandshakesBegan, Attempts, TypeOK, codes, counts
<1>3. ASSUME NEW e \in monitors[d], MonitorEnds(d, e)
      PROVE  Typed'
  <2>1. monitors' \in [Devices -> SUBSET Devices]
    BY <1>3 DEF MonitorEnds, TypeOK
  <2> QED BY <1>3, <2>1 DEF MonitorEnds, Typed, HandshakesBegan, Attempts, TypeOK, codes, counts
<1>4. ASSUME NEW e \in Devices, UnpairDevice(d, e)
      PROVE  Typed'
  <2>1. paired' \in [Devices -> SUBSET Devices]
    BY <1>4 DEF UnpairDevice, TypeOK
  <2>2. troubles' \in 0..MaxChanges
    BY <1>4, TroubleTyped DEF UnpairDevice
  <2> QED BY <1>4, <2>1, <2>2 DEF UnpairDevice, Typed, HandshakesBegan, Attempts, TypeOK, pairing, codes
<1>5. CASE LanPairingEnds(d)
  <2>1. slot' \in [Devices -> SlotType] /\ HandshakesBegan'
    BY <1>5, FreeTyped DEF LanPairingEnds
  <2>2. troubles' \in 0..MaxChanges
    BY <1>5, TroubleTyped DEF LanPairingEnds
  <2> QED BY <1>5, <2>1, <2>2 DEF LanPairingEnds, Typed, TypeOK, SlotType, codes
<1>6. CASE Restart(d)
  <2>1. slot' \in [Devices -> SlotType] /\ HandshakesBegan'
    BY <1>6, FreeTyped DEF Restart
  <2>2. troubles' \in 0..MaxChanges
    BY <1>6, TroubleTyped DEF Restart
  <2>3. /\ target' \in [Devices -> {Free} \cup [remote : Devices, secret : 1..MaxChanges]]
        /\ starting' \in [Devices -> SUBSET ActivePairingState]
        /\ monitors' \in [Devices -> SUBSET Devices]
        /\ sessions' \in [Devices -> SUBSET [remote : Devices, hs : Attempts]]
    BY <1>6 DEF Restart, TypeOK
  <2>4. secret' \in [Devices -> 0..MaxChanges] /\ stuck' \subseteq Devices
    BY <1>6, ConstantsAssumption DEF Restart, TypeOK, NoSecret
  <2> QED BY <1>6, <2>1, <2>2, <2>3, <2>4 DEF Restart, Typed, TypeOK, SlotType
<1> QED BY <1>1, <1>2, <1>3, <1>4, <1>5, <1>6

LEMMA StepTyped == Typed /\ [Next]_vars => Typed'
<1> SUFFICES ASSUME Typed, [Next]_vars PROVE Typed'
  OBVIOUS
<1>1. CASE UNCHANGED vars
  BY <1>1 DEF vars, pairing, codes, counts, Typed, TypeOK, HandshakesBegan, Attempts
<1>2. ASSUME NEW d \in Devices, Start(d) PROVE Typed'
  BY <1>2, StartTyped
<1>3. ASSUME NEW d \in Devices, NEW m \in net, Receive(d, m) PROVE Typed'
  BY <1>3, ReceiveTyped
<1> QED BY <1>1, <1>2, <1>3, OthersTyped DEF Next

-----------------------------------------------------------------------------
(* Acceptances.                                                            *)

\* Whatever stands for an acceptance of a user: an answer in the slot or in a pairing
\* that is being started, a scanned code, and a candidate, which is sent upon one.
SlotIsTrue ==
  \A d \in Devices : slot[d] # Free /\ slot[d].confirmed = "yes" => <<d, slot[d].remote>> \in said
StartingIsTrue ==
  \A d \in Devices : \A s \in starting[d] : s.confirmed = "yes" => <<d, s.remote>> \in said
TargetIsTrue ==
  \A d \in Devices : target[d] # Free => <<d, target[d].remote>> \in said
CandidatesAreTrue ==
  \A m \in net : m \in TurnCandidate => <<m.from, m.to>> \in said

AcceptancesAreTrue == SlotIsTrue /\ StartingIsTrue /\ TargetIsTrue /\ CandidatesAreTrue

IInv == Typed /\ AcceptancesAreTrue /\ PairedByBoth /\ AnswerIsHeard

LEMMA InitEstablishes == Init => IInv
<1> SUFFICES ASSUME Init PROVE IInv
  OBVIOUS
<1>1. Typed
  BY InitTyped DEF Init, Typed, HandshakesBegan
<1>2. AcceptancesAreTrue /\ AnswerIsHeard
  BY DEF Init, AcceptancesAreTrue, SlotIsTrue, StartingIsTrue, TargetIsTrue, CandidatesAreTrue,
         AnswerIsHeard
<1>3. PairedByBoth
  <2> SUFFICES ASSUME NEW d \in Devices, NEW e \in paired[d]
               PROVE  <<d, e>> \in said /\ <<e, d>> \in said
    BY DEF PairedByBoth
  <2>1. e \in Devices /\ d \in paired[e]
    BY DEF Init
  <2> QED BY <2>1 DEF Init
<1> QED BY <1>1, <1>2, <1>3 DEF IInv

\* The other replies are no candidates.
LEMMA NoCandidates ==
  ASSUME NEW m
  PROVE  Reply2(m) \notin TurnCandidate /\ StaleTo(m) \notin TurnCandidate
  BY DEF Reply2, StaleTo, TurnCandidate

\* A pairing comes into the slot, or the one there changes.
LEMMA SlotKeeps ==
  ASSUME IInv, NEW d \in Devices, NEW s, slot' = [slot EXCEPT ![d] = s], said \subseteq said',
         s # Free /\ s.confirmed = "yes" => <<d, s.remote>> \in said',
         \A x \in Devices : monitors[x] \subseteq monitors'[x],
         s # Free /\ s.confirmed = None => s.remote \in monitors'[d]
  PROVE  SlotIsTrue' /\ AnswerIsHeard'
  BY DEF IInv, Typed, TypeOK, AcceptancesAreTrue, SlotIsTrue, AnswerIsHeard

\* A message is handled.
LEMMA NetKeeps ==
  ASSUME IInv, NEW d, NEW m, NEW replies, Handles(d, m, replies), said \subseteq said',
         \A r \in replies : r \in TurnCandidate => <<r.from, r.to>> \in said'
  PROVE  CandidatesAreTrue'
  BY DEF IInv, AcceptancesAreTrue, CandidatesAreTrue, Handles

\* What the rest does not touch.
LEMMA RestKeeps ==
  ASSUME IInv, said \subseteq said'
  PROVE  /\ UNCHANGED slot => SlotIsTrue'
         /\ UNCHANGED starting => StartingIsTrue'
         /\ UNCHANGED target => TargetIsTrue'
         /\ UNCHANGED net => CandidatesAreTrue'
         /\ UNCHANGED paired => PairedByBoth'
         /\ UNCHANGED <<slot, monitors>> => AnswerIsHeard'
  BY DEF IInv, AcceptancesAreTrue, SlotIsTrue, StartingIsTrue, TargetIsTrue, CandidatesAreTrue,
         PairedByBoth, AnswerIsHeard

\* A responder confirms by itself a device that is in its table only.
LEMMA RespondKeeps ==
  ASSUME IInv, NEW d \in Devices, NEW m, m.from \in Devices, NEW hs, NEW ik,
         ik => m.from \in paired[d], Respond(d, m, hs, ik), UNCHANGED said
  PROVE  SlotIsTrue' /\ AnswerIsHeard'
<1> DEFINE s == [state |-> "responder", remote |-> m.from, hs |-> hs, ik |-> ik,
                 finished |-> ik, confirmed |-> Answer(ik \/ m.from \in paired[d])]
<1>1. slot' = [slot EXCEPT ![d] = s] /\ monitors' = [monitors EXCEPT ![d] = @ \cup {m.from}]
  BY DEF Respond, monitor_relay_pairing
<1>2. s.remote = m.from /\ (s.confirmed = "yes" => m.from \in paired[d])
  BY ConstantsAssumption DEF Answer
<1>3. \A x \in Devices : monitors[x] \subseteq monitors'[x]
  BY <1>1 DEF IInv, Typed, TypeOK
<1>4. m.from \in monitors'[d]
  BY <1>1 DEF IInv, Typed, TypeOK
<1> HIDE DEF s
<1> QED BY <1>1, <1>2, <1>3, <1>4, SlotKeeps DEF IInv, PairedByBoth

LEMMA FirstKeeps ==
  ASSUME IInv, NEW d \in Devices, NEW m \in net, FirstMessage(d, m)
  PROVE  AcceptancesAreTrue' /\ PairedByBoth' /\ AnswerIsHeard'
<1>1. m.from \in Devices
  BY MessageTyped DEF IInv, Typed
<1>2. SlotIsTrue' /\ AnswerIsHeard'
  BY <1>1, RespondKeeps DEF FirstMessage
<1>3. CandidatesAreTrue'
  BY NetKeeps, NoCandidates DEF FirstMessage
<1> QED BY <1>2, <1>3, RestKeeps DEF FirstMessage, AcceptancesAreTrue, codes

LEMMA UnexpectedKeeps ==
  ASSUME IInv, NEW d \in Devices, NEW m \in net, UnexpectedMessage(d, m)
  PROVE  AcceptancesAreTrue' /\ PairedByBoth' /\ AnswerIsHeard'
<1>1. m.from \in Devices
  BY MessageTyped DEF IInv, Typed
<1>2. SlotIsTrue' /\ AnswerIsHeard'
  BY <1>1, RespondKeeps, RestKeeps DEF UnexpectedMessage
<1>3. CandidatesAreTrue'
  <2> DEFINE j == [m EXCEPT !.hs = Junk]
  <2>1. Handles(d, m, {}) \/ Handles(d, m, {Reply2(j)})
    BY DEF UnexpectedMessage
  <2> HIDE DEF j
  <2> QED BY <2>1, NetKeeps, NoCandidates DEF UnexpectedMessage
<1> QED BY <1>2, <1>3, RestKeeps DEF UnexpectedMessage, AcceptancesAreTrue, codes

\* An expected message changes the answer in the slot only to one that was given.
LEMMA FinishKeeps ==
  ASSUME IInv, NEW d \in Devices, slot[d] # Free, said \subseteq said', UNCHANGED monitors,
         NEW a \in {None, "yes", "no"},
         a = "yes" => <<d, slot[d].remote>> \in said',
         a = None => slot[d].confirmed = None,
         slot' = [slot EXCEPT ![d].finished = TRUE, ![d].confirmed = a]
  PROVE  SlotIsTrue' /\ AnswerIsHeard'
<1> DEFINE s == [slot[d] EXCEPT !.finished = TRUE, !.confirmed = a]
<1>1. slot[d] \in ActivePairingState
  BY DEF IInv, Typed, TypeOK
<1>2. s.remote = slot[d].remote /\ s.confirmed = a
  BY <1>1 DEF ActivePairingState
<1>3. slot' = [slot EXCEPT ![d] = s]
  BY DEF IInv, Typed, TypeOK
<1>4. a = None => slot[d].remote \in monitors[d]
  BY DEF IInv, AnswerIsHeard
<1> HIDE DEF s
<1> QED BY <1>2, <1>3, <1>4, SlotKeeps

LEMMA SecondKeeps ==
  ASSUME IInv, NEW d \in Devices, NEW m \in net, SecondMessage(d, m)
  PROVE  AcceptancesAreTrue' /\ PairedByBoth' /\ AnswerIsHeard'
<1> DEFINE third == [step |-> 3, hs |-> m.hs, from |-> d, to |-> m.from,
                     reconnect |-> m.from \in paired[d],
                     secret |-> IF HasSecretOf(d, m.from) THEN target[d].secret ELSE NoSecret]
           a == IF m.from \in paired[d] THEN "yes" ELSE slot[d].confirmed
<1>1. slot[d] # Free /\ slot[d] \in ActivePairingState /\ slot[d].remote = m.from
  BY DEF SecondMessage, Expected, Busy, IInv, Typed, TypeOK
<1>2. a \in {None, "yes", "no"}
  BY <1>1, FieldTyped
<1>3. a = "yes" => <<d, slot[d].remote>> \in said
  BY <1>1 DEF IInv, PairedByBoth, AcceptancesAreTrue, SlotIsTrue
<1>4. a = None => slot[d].confirmed = None
  BY ConstantsAssumption
<1>5. slot' = [slot EXCEPT ![d].finished = TRUE, ![d].confirmed = a]
  BY DEF SecondMessage
<1>6. CandidatesAreTrue'
  <2>1. third \notin TurnCandidate
    BY DEF TurnCandidate
  <2>2. Handles(d, m, IF slot[d].ik THEN {} ELSE {third})
    BY DEF SecondMessage
  <2> HIDE DEF third
  <2> QED BY <2>1, <2>2, NetKeeps DEF SecondMessage
<1> HIDE DEF a
<1>7. SlotIsTrue' /\ AnswerIsHeard'
  BY <1>1, <1>2, <1>3, <1>4, <1>5, FinishKeeps DEF SecondMessage
<1> QED BY <1>6, <1>7, RestKeeps DEF SecondMessage, AcceptancesAreTrue, codes

\* The secret that a responder showed stands for its acceptance of who scanned it.
LEMMA ThirdKeeps ==
  ASSUME IInv, NEW d \in Devices, NEW m \in net, ThirdMessage(d, m)
  PROVE  AcceptancesAreTrue' /\ PairedByBoth' /\ AnswerIsHeard'
<1> DEFINE a == IF Matches(d, m) \/ m.from \in paired[d] THEN "yes" ELSE slot[d].confirmed
<1>1. slot[d] # Free /\ slot[d] \in ActivePairingState /\ slot[d].remote = m.from
  BY DEF ThirdMessage, Expected, Busy, IInv, Typed, TypeOK
<1>2. a \in {None, "yes", "no"}
  BY <1>1, FieldTyped
<1>3. said \subseteq said' /\ (Matches(d, m) => <<d, m.from>> \in said')
  BY DEF ThirdMessage, Matches
<1>4. a = "yes" => <<d, slot[d].remote>> \in said'
  BY <1>1, <1>3 DEF IInv, PairedByBoth, AcceptancesAreTrue, SlotIsTrue
<1>5. a = None => slot[d].confirmed = None
  BY ConstantsAssumption
<1>6. slot' = [slot EXCEPT ![d].finished = TRUE, ![d].confirmed = a]
  BY DEF ThirdMessage
<1>7. CandidatesAreTrue'
  BY <1>3, NetKeeps DEF ThirdMessage
<1> HIDE DEF a
<1>8. SlotIsTrue' /\ AnswerIsHeard'
  BY <1>1, <1>2, <1>3, <1>4, <1>5, <1>6, FinishKeeps DEF ThirdMessage
<1> QED BY <1>3, <1>7, <1>8, RestKeeps DEF ThirdMessage, AcceptancesAreTrue

\* Both candidates of a pairing that comes into a table stand for acceptances.
LEMMA CandidateKeeps ==
  ASSUME IInv, NEW d \in Devices, NEW m \in net, handle_turn_candidate(d, m)
  PROVE  AcceptancesAreTrue' /\ PairedByBoth' /\ AnswerIsHeard'
<1> DEFINE reply == [reply |-> TRUE, from |-> d, to |-> m.from]
<1>1. <<m.from, d>> \in said
  BY DEF handle_turn_candidate, IInv, AcceptancesAreTrue, CandidatesAreTrue
<1>2. TakesCandidate(d, m) => <<d, m.from>> \in said
  BY DEF TakesCandidate, Accepted, Busy, IInv, AcceptancesAreTrue, SlotIsTrue
<1>3. UNCHANGED said
  BY DEF handle_turn_candidate
<1>4. CandidatesAreTrue'
  <2>1. CASE Handles(d, m, {})
    BY <1>3, <2>1, NetKeeps
  <2>2. CASE TakesCandidate(d, m) /\ Handles(d, m, {reply})
    <3>1. reply.from = d /\ reply.to = m.from
      OBVIOUS
    <3> HIDE DEF reply
    <3> QED BY <1>2, <1>3, <2>2, <3>1, NetKeeps
  <2> QED BY <2>1, <2>2 DEF handle_turn_candidate
<1>5. PairedByBoth'
  <2>1. CASE UNCHANGED paired
    BY <1>3, <2>1, RestKeeps
  <2>2. CASE TakesCandidate(d, m) /\ paired' = [paired EXCEPT ![d] = @ \cup {m.from}]
    BY <1>1, <1>2, <1>3, <2>2 DEF IInv, Typed, TypeOK, PairedByBoth
  <2> QED BY <2>1, <2>2 DEF handle_turn_candidate, add_paired_device
<1> QED BY <1>3, <1>4, <1>5, RestKeeps DEF handle_turn_candidate, AcceptancesAreTrue, pairing, codes

\* The slot is emptied.
LEMMA FreeKeeps ==
  ASSUME IInv, NEW d \in Devices, slot' = [slot EXCEPT ![d] = Free], UNCHANGED said,
         \/ UNCHANGED monitors \/ monitors' = [monitors EXCEPT ![d] = {}]
  PROVE  SlotIsTrue' /\ AnswerIsHeard'
  BY DEF IInv, Typed, TypeOK, AcceptancesAreTrue, SlotIsTrue, AnswerIsHeard

LEMMA ReceiveKeeps ==
  ASSUME IInv, NEW d \in Devices, NEW m \in net, Receive(d, m)
  PROVE  AcceptancesAreTrue' /\ PairedByBoth' /\ AnswerIsHeard'
<1>1. CASE StaleFirstMessage(d, m)
  BY <1>1, NetKeeps, NoCandidates, RestKeeps DEF StaleFirstMessage, AcceptancesAreTrue, pairing, codes
<1>2. CASE StaleThirdMessage(d, m)
  BY <1>2, NetKeeps, NoCandidates, FreeKeeps, RestKeeps DEF StaleThirdMessage, AcceptancesAreTrue, codes
<1>3. CASE UnreadableMessage(d, m)
  BY <1>3, NetKeeps, RestKeeps DEF UnreadableMessage, AcceptancesAreTrue, pairing, codes
<1>4. CASE StaleReported(d, m)
  <2>1. Handles(d, m, {}) /\ said \subseteq said' /\ UNCHANGED <<said, monitors>>
    BY <1>4 DEF StaleReported
  <2>2. CandidatesAreTrue'
    BY <2>1, NetKeeps
  <2>3. SlotIsTrue' /\ AnswerIsHeard'
    BY <1>4, <2>1, FreeKeeps DEF StaleReported
  <2>4. UNCHANGED <<starting, paired, target>>
    BY <1>4 DEF StaleReported, codes
  <2> QED BY <2>1, <2>2, <2>3, <2>4, RestKeeps DEF AcceptancesAreTrue
<1> QED BY <1>1, <1>2, <1>3, <1>4, FirstKeeps, UnexpectedKeeps, SecondKeeps, ThirdKeeps,
           CandidateKeeps DEF Receive

-----------------------------------------------------------------------------
LEMMA StartKeeps ==
  ASSUME IInv, NEW d \in Devices, Start(d)
  PROVE  AcceptancesAreTrue' /\ PairedByBoth' /\ AnswerIsHeard'
<1>1. ASSUME NEW e \in Devices, NEW ik \in BOOLEAN, ik => e \in paired[d], Begin(d, e, ik)
      PROVE  AcceptancesAreTrue' /\ PairedByBoth' /\ AnswerIsHeard'
  <2> DEFINE s == [state |-> "initiator", remote |-> e, hs |-> Len(begun'), ik |-> ik,
                   finished |-> FALSE, confirmed |-> Answer(e \in paired[d] \/ HasSecretOf(d, e))]
             m == [step |-> 1, hs |-> Len(begun'), from |-> d, to |-> e, ik |-> ik]
  <2>1. starting' = [starting EXCEPT ![d] = @ \cup {s}] /\ net' = net \cup {m}
    BY <1>1 DEF Begin
  <2>2. s.remote = e /\ (s.confirmed = "yes" => <<d, e>> \in said)
    BY <1>1, ConstantsAssumption
       DEF Answer, HasSecretOf, IInv, PairedByBoth, AcceptancesAreTrue, TargetIsTrue
  <2>3. m \notin TurnCandidate
    BY DEF TurnCandidate
  <2> HIDE DEF s, m
  <2>4. UNCHANGED said
    BY <1>1 DEF Begin
  <2>5. StartingIsTrue'
    BY <2>1, <2>2, <2>4 DEF IInv, Typed, TypeOK, AcceptancesAreTrue, StartingIsTrue
  <2>6. CandidatesAreTrue'
    BY <2>1, <2>3, <2>4 DEF IInv, AcceptancesAreTrue, CandidatesAreTrue
  <2> QED BY <1>1, <2>4, <2>5, <2>6, RestKeeps DEF Begin, AcceptancesAreTrue, codes
<1>2. ASSUME NEW e \in Devices, initiate_remote_pairing(d, e) \/ reconnect_known_device(d, e)
      PROVE  AcceptancesAreTrue' /\ PairedByBoth' /\ AnswerIsHeard'
  BY <1>1, <1>2 DEF initiate_remote_pairing, reconnect_known_device
<1>3. ASSUME NEW e \in Devices, pair_with_qr(d, e)
      PROVE  AcceptancesAreTrue' /\ PairedByBoth' /\ AnswerIsHeard'
  <2> DEFINE t == [remote |-> e, secret |-> secret[e]]
  <2>1. target' = [target EXCEPT ![d] = t] /\ said' = said \cup {<<d, e>>} /\ t.remote = e
    BY <1>3 DEF pair_with_qr
  <2> HIDE DEF t
  <2>2. TargetIsTrue'
    BY <2>1 DEF IInv, Typed, TypeOK, AcceptancesAreTrue, TargetIsTrue
  <2> QED BY <1>3, <2>1, <2>2, RestKeeps DEF pair_with_qr, AcceptancesAreTrue, pairing
<1>4. ASSUME NEW s \in starting[d], TakeSlot(d, s)
      PROVE  AcceptancesAreTrue' /\ PairedByBoth' /\ AnswerIsHeard'
  <2>1. /\ slot' = [slot EXCEPT ![d] = s] /\ UNCHANGED said
        /\ starting' = [starting EXCEPT ![d] = @ \ {s}]
        /\ monitors' = [monitors EXCEPT ![d] = @ \cup {s.remote}]
    BY <1>4 DEF TakeSlot, monitor_relay_pairing
  <2>2. s.confirmed = "yes" => <<d, s.remote>> \in said
    BY DEF IInv, AcceptancesAreTrue, StartingIsTrue
  <2>3. (\A x \in Devices : monitors[x] \subseteq monitors'[x]) /\ s.remote \in monitors'[d]
    BY <2>1 DEF IInv, Typed, TypeOK
  <2>4. SlotIsTrue' /\ AnswerIsHeard'
    BY <2>1, <2>2, <2>3, SlotKeeps
  <2>5. StartingIsTrue'
    BY <2>1 DEF IInv, Typed, TypeOK, AcceptancesAreTrue, StartingIsTrue
  <2> QED BY <1>4, <2>4, <2>5, RestKeeps DEF TakeSlot, AcceptancesAreTrue, codes
<1>5. CASE generate_qr_payload(d)
  BY <1>5, RestKeeps DEF generate_qr_payload, AcceptancesAreTrue, pairing
<1> QED BY <1>2, <1>3, <1>4, <1>5 DEF Start

LEMMA OthersKeep ==
  ASSUME IInv, NEW d \in Devices,
         \/ \E answer \in {"yes", "no"} : ConfirmPairing(d, answer)
         \/ \E e \in monitors[d] : MonitorOffers(d, e) \/ MonitorEnds(d, e)
         \/ \E e \in Devices : UnpairDevice(d, e)
         \/ LanPairingEnds(d) \/ Restart(d)
  PROVE  AcceptancesAreTrue' /\ PairedByBoth' /\ AnswerIsHeard'
<1>1. ASSUME NEW answer \in {"yes", "no"}, ConfirmPairing(d, answer)
      PROVE  AcceptancesAreTrue' /\ PairedByBoth' /\ AnswerIsHeard'
  <2> DEFINE s == [slot[d] EXCEPT !.confirmed = answer]
  <2>1. slot[d] # Free /\ slot[d] \in ActivePairingState
    BY <1>1 DEF ConfirmPairing, IInv, Typed, TypeOK
  <2>2. s.confirmed = answer /\ s.remote = slot[d].remote
    BY <2>1 DEF ActivePairingState
  <2>3. slot' = [slot EXCEPT ![d] = s]
    BY <1>1 DEF ConfirmPairing, IInv, Typed, TypeOK
  <2>4. said \subseteq said' /\ (answer = "yes" => <<d, slot[d].remote>> \in said')
    BY <1>1 DEF ConfirmPairing
  <2> HIDE DEF s
  <2>5. answer # None
    BY ConstantsAssumption
  <2>6. UNCHANGED monitors
    BY <1>1 DEF ConfirmPairing
  <2>7. SlotIsTrue' /\ AnswerIsHeard'
    BY <2>2, <2>3, <2>4, <2>5, <2>6, SlotKeeps
  <2> QED BY <1>1, <2>4, <2>7, RestKeeps DEF ConfirmPairing, AcceptancesAreTrue, codes
<1>2. ASSUME NEW e \in monitors[d], MonitorOffers(d, e)
      PROVE  AcceptancesAreTrue' /\ PairedByBoth' /\ AnswerIsHeard'
  <2> DEFINE m == [reply |-> FALSE, from |-> d, to |-> e]
  <2>1. net' = net \cup {m} /\ m.from = d /\ m.to = e
    BY <1>2 DEF MonitorOffers
  <2> HIDE DEF m
  <2>2. <<d, e>> \in said
    BY <1>2 DEF MonitorOffers, MayOffer, Accepted, Busy, IInv, AcceptancesAreTrue, SlotIsTrue
  <2>3. UNCHANGED said
    BY <1>2 DEF MonitorOffers
  <2>4. CandidatesAreTrue'
    BY <2>1, <2>2, <2>3 DEF IInv, AcceptancesAreTrue, CandidatesAreTrue
  <2>5. slot[d].confirmed # None /\ slot[d].remote = e
    BY <1>2, ConstantsAssumption DEF MonitorOffers, MayOffer, Accepted, Busy
  <2>6. AnswerIsHeard'
    BY <1>2, <2>5 DEF MonitorOffers, IInv, Typed, TypeOK, AnswerIsHeard
  <2> QED BY <1>2, <2>3, <2>4, <2>6, RestKeeps DEF MonitorOffers, AcceptancesAreTrue, codes
<1>3. ASSUME NEW e \in monitors[d], MonitorEnds(d, e)
      PROVE  AcceptancesAreTrue' /\ PairedByBoth' /\ AnswerIsHeard'
  <2>1. slot[d] # Free /\ slot[d].remote = e => slot[d].confirmed # None
    BY <1>3, ConstantsAssumption DEF MonitorEnds, Busy
  <2>2. AnswerIsHeard'
    BY <1>3, <2>1 DEF MonitorEnds, IInv, Typed, TypeOK, AnswerIsHeard
  <2> QED BY <1>3, <2>2, RestKeeps DEF MonitorEnds, AcceptancesAreTrue, codes
<1>4. ASSUME NEW e \in Devices, UnpairDevice(d, e)
      PROVE  AcceptancesAreTrue' /\ PairedByBoth' /\ AnswerIsHeard'
  <2>1. PairedByBoth'
    BY <1>4 DEF UnpairDevice, IInv, Typed, TypeOK, PairedByBoth
  <2> QED BY <1>4, <2>1, RestKeeps DEF UnpairDevice, AcceptancesAreTrue, pairing, codes
<1>5. CASE LanPairingEnds(d)
  <2>1. SlotIsTrue' /\ AnswerIsHeard'
    BY <1>5, FreeKeeps DEF LanPairingEnds
  <2> QED BY <1>5, <2>1, RestKeeps DEF LanPairingEnds, AcceptancesAreTrue, codes
<1>6. CASE Restart(d)
  <2>1. SlotIsTrue' /\ AnswerIsHeard'
    BY <1>6, FreeKeeps DEF Restart
  <2>2. StartingIsTrue' /\ TargetIsTrue'
    BY <1>6 DEF Restart, IInv, Typed, TypeOK, AcceptancesAreTrue, StartingIsTrue, TargetIsTrue
  <2> QED BY <1>6, <2>1, <2>2, RestKeeps DEF Restart, AcceptancesAreTrue
<1> QED BY <1>1, <1>2, <1>3, <1>4, <1>5, <1>6

LEMMA StepKeeps == IInv /\ [Next]_vars => IInv'
<1> SUFFICES ASSUME IInv, [Next]_vars PROVE IInv'
  OBVIOUS
<1>1. Typed'
  BY StepTyped DEF IInv
<1>2. AcceptancesAreTrue' /\ PairedByBoth' /\ AnswerIsHeard'
  <2>1. CASE UNCHANGED vars
    BY <2>1, RestKeeps DEF vars, pairing, codes, counts, AcceptancesAreTrue
  <2>2. ASSUME NEW d \in Devices, Start(d)
        PROVE  AcceptancesAreTrue' /\ PairedByBoth' /\ AnswerIsHeard'
    BY <2>2, StartKeeps
  <2>3. ASSUME NEW d \in Devices, NEW m \in net, Receive(d, m)
        PROVE  AcceptancesAreTrue' /\ PairedByBoth' /\ AnswerIsHeard'
    BY <2>3, ReceiveKeeps
  <2> QED BY <2>1, <2>2, <2>3, OthersKeep DEF Next
<1> QED BY <1>1, <1>2 DEF IInv

-----------------------------------------------------------------------------
(* Sessions.  Without a restart, a removal or a change of mind no slot is  *)
(* emptied, so that a device answers one handshake at most.                *)

\* What a signal says of who began the handshake and of the tables is so, and a
\* stale pairing is reported only to a device that is stuck.
SignalIsTrue(m) ==
  /\ m \in Noise => m.from # m.to
  /\ m \in Noise /\ m.step = 1 =>
       /\ m.hs \in DOMAIN begun /\ begun[m.hs] = m.from
       /\ m.ik => m.to \in paired[m.from]
  /\ m \in Noise /\ m.step = 3 /\ m.reconnect => m.from \in paired[m.to]
  /\ m \in PairingError => m.to \in stuck

\* A pairing of d with another device, in a handshake that its initiator began.
PairingIsTrue(d, s) ==
  /\ s.remote # d
  /\ s.state = "initiator" => s.hs \in DOMAIN begun /\ begun[s.hs] = d
  /\ s.state = "responder" /\ s.hs # Junk => s.hs \in DOMAIN begun /\ begun[s.hs] = s.remote

SignalsAreTrue == \A m \in net : SignalIsTrue(m)
SlotsAreTrue   == \A d \in Devices : slot[d] # Free => PairingIsTrue(d, slot[d])
StartsAreTrue ==
  \A d \in Devices : \A s \in starting[d] :
    PairingIsTrue(d, s) /\ s.state = "initiator" /\ ~s.finished

\* Who is in the table of a device that can still act has that device in its own.
TablesMatch == \A d \in Devices \ stuck : \A e \in paired[d] : d \in paired[e]

\* r's second message of handshake hs is under way or was taken.
AnswerUnderWay(r, hs) == \E m \in net : m \in Noise /\ m.step = 2 /\ m.from = r /\ m.hs = hs
AnswerTaken(r, hs) ==
  \E d \in Devices :
    /\ slot[d] # Free /\ slot[d].state = "initiator" /\ slot[d].finished
    /\ slot[d].remote = r /\ slot[d].hs = hs

AnswersOnce ==
  \A r \in Devices : \A hs \in {Junk} \cup Attempts :
    AnswerUnderWay(r, hs) \/ AnswerTaken(r, hs) =>
      slot[r] # Free /\ (slot[r].state = "responder" => slot[r].hs = hs)

\* The device of a session is stuck, with the handshake of the session in its slot.
SessionsAreLast ==
  \A d \in Devices : \A s \in sessions[d] :
    /\ d \in stuck /\ slot[d] # Free /\ slot[d].finished
    /\ s.remote = slot[d].remote /\ s.hs = slot[d].hs

Calm == SignalsAreTrue /\ SlotsAreTrue /\ StartsAreTrue /\ TablesMatch /\ AnswersOnce /\ SessionsAreLast

Undisturbed == troubles = 0 => Calm

-----------------------------------------------------------------------------
\* A candidate is no other signal, a report is no message of a handshake.
LEMMA KindsDiffer ==
  ASSUME NEW m
  PROVE  /\ m \in TurnCandidate => m \notin Noise /\ m \notin PairingError
         /\ m \in PairingError => m \notin Noise
<1>1. m \in TurnCandidate => DOMAIN m = {"reply", "from", "to"}
  BY DEF TurnCandidate
<1>2. m \in PairingError => DOMAIN m = {"stale", "hs", "from", "to"}
  BY DEF PairingError
<1>3. m \in Noise => "step" \in DOMAIN m
  <2>1. m \in Message1 => "step" \in DOMAIN m
    BY DEF Message1
  <2>2. m \in Message2 => "step" \in DOMAIN m
    BY DEF Message2
  <2>3. m \in Message3 => "step" \in DOMAIN m
    BY DEF Message3
  <2> QED BY <2>1, <2>2, <2>3 DEF Noise
<1>4. ~(m \in TurnCandidate /\ m \in PairingError)
  <2>1. m \in PairingError => "stale" \in DOMAIN m
    BY <1>2
  <2>2. m \in TurnCandidate => "stale" \notin DOMAIN m
    BY <1>1
  <2> QED BY <2>1, <2>2
<1>5. m \in TurnCandidate => "step" \notin DOMAIN m
  BY <1>1
<1>6. m \in PairingError => "step" \notin DOMAIN m
  BY <1>2
<1> QED BY <1>3, <1>4, <1>5, <1>6

\* A record with a step is no report.
LEMMA StepsAreNoReports ==
  ASSUME NEW m, "step" \in DOMAIN m
  PROVE  m \notin PairingError
<1>1. m \in PairingError => DOMAIN m = {"stale", "hs", "from", "to"}
  BY DEF PairingError
<1>2. m \in PairingError => "step" \notin DOMAIN m
  BY <1>1
<1> QED BY <1>2

\* What is true of a signal stays so.
LEMMA SignalStaysTrue ==
  ASSUME NEW m, SignalIsTrue(m),
         \A h \in DOMAIN begun : h \in DOMAIN begun' /\ begun'[h] = begun[h],
         m \in Noise => m.from \in Devices /\ m.to \in Devices,
         \A d \in Devices : paired[d] \subseteq paired'[d],
         stuck \subseteq stuck'
  PROVE  SignalIsTrue(m)'
  BY DEF SignalIsTrue

\* The steps that leave the slots and the tables alone; only candidates are new.
LEMMA AsideKeepsCalm ==
  ASSUME Typed, Calm, UNCHANGED <<slot, starting, paired, begun, sessions>>,
         stuck \subseteq stuck', \A m \in net' : m \in net \/ m \in TurnCandidate
  PROVE  Calm'
<1>1. SignalsAreTrue'
  <2> SUFFICES ASSUME NEW m \in net' PROVE SignalIsTrue(m)'
    BY DEF SignalsAreTrue
  <2>1. CASE m \in TurnCandidate
    BY <2>1, KindsDiffer DEF SignalIsTrue
  <2>2. CASE m \in net
    BY <2>2, SignalStaysTrue, MessageTyped DEF Calm, SignalsAreTrue, Typed
  <2> QED BY <2>1, <2>2
<1>2. SlotsAreTrue' /\ StartsAreTrue'
  BY DEF Calm, SlotsAreTrue, StartsAreTrue, PairingIsTrue
<1>3. TablesMatch'
  BY DEF Calm, TablesMatch
<1>4. AnswersOnce'
  <2>1. ASSUME NEW r, NEW hs, AnswerUnderWay(r, hs)' PROVE AnswerUnderWay(r, hs)
    BY <2>1, KindsDiffer DEF AnswerUnderWay
  <2>2. ASSUME NEW r, NEW hs, AnswerTaken(r, hs)' PROVE AnswerTaken(r, hs)
    BY <2>2 DEF AnswerTaken
  <2> QED BY <2>1, <2>2 DEF Calm, AnswersOnce
<1>5. SessionsAreLast'
  BY DEF Calm, SessionsAreLast
<1> QED BY <1>1, <1>2, <1>3, <1>4, <1>5 DEF Calm

LEMMA BeginKeepsCalm ==
  ASSUME Typed, Calm, NEW d \in Devices, NEW e \in Devices \ {d}, NEW ik \in BOOLEAN,
         ik => e \in paired[d], Begin(d, e, ik)
  PROVE  Calm'
<1> DEFINE n == Len(begun')
           s == [state |-> "initiator", remote |-> e, hs |-> n, ik |-> ik,
                 finished |-> FALSE, confirmed |-> Answer(e \in paired[d] \/ HasSecretOf(d, e))]
           m == [step |-> 1, hs |-> n, from |-> d, to |-> e, ik |-> ik]
<1>1. n \in DOMAIN begun' /\ begun'[n] = d
      /\ \A h \in DOMAIN begun : h \in DOMAIN begun' /\ begun'[h] = begun[h]
  <2>1. begun \in Seq(Devices) /\ begun' = Append(begun, d)
    BY DEF Begin, Typed, TypeOK
  <2> QED BY <2>1
<1>2. /\ starting' = [starting EXCEPT ![d] = @ \cup {s}] /\ net' = net \cup {m}
      /\ UNCHANGED <<paired, slot, stuck, sessions>>
  BY DEF Begin
<1>3. s.remote = e /\ s.state = "initiator" /\ s.hs = n /\ ~s.finished
  OBVIOUS
<1>4. m.step = 1 /\ m.hs = n /\ m.from = d /\ m.to = e /\ (m.ik => e \in paired[d])
      /\ m \notin PairingError
  <2>1. "step" \in DOMAIN m
    OBVIOUS
  <2> QED BY <2>1, StepsAreNoReports
<1> HIDE DEF s, m, n
<1>5. SignalsAreTrue'
  <2> SUFFICES ASSUME NEW x \in net' PROVE SignalIsTrue(x)'
    BY DEF SignalsAreTrue
  <2>1. CASE x = m
    BY <1>1, <1>2, <1>4, <2>1 DEF SignalIsTrue
  <2>2. CASE x \in net
    BY <1>1, <1>2, <2>2, SignalStaysTrue, MessageTyped DEF Calm, SignalsAreTrue, Typed
  <2> QED BY <1>2, <2>1, <2>2
<1>6. SlotsAreTrue'
  BY <1>1, <1>2 DEF Calm, SlotsAreTrue, PairingIsTrue
<1>7. StartsAreTrue'
  <2> SUFFICES ASSUME NEW x \in Devices, NEW t \in starting'[x]
               PROVE  (PairingIsTrue(x, t) /\ t.state = "initiator" /\ ~t.finished)'
    BY DEF StartsAreTrue
  <2>1. t \in starting[x] \/ (x = d /\ t = s)
    BY <1>2 DEF Typed, TypeOK
  <2>2. CASE t \in starting[x]
    BY <1>1, <2>2 DEF Calm, StartsAreTrue, PairingIsTrue
  <2>3. CASE x = d /\ t = s
    BY <1>1, <1>3, <2>3 DEF PairingIsTrue
  <2> QED BY <2>1, <2>2, <2>3
<1>8. AnswersOnce'
  <2>1. ASSUME NEW r, NEW hs, AnswerUnderWay(r, hs)' PROVE AnswerUnderWay(r, hs)
    BY <1>2, <1>4, <2>1 DEF AnswerUnderWay
  <2>2. ASSUME NEW r, NEW hs, AnswerTaken(r, hs)' PROVE AnswerTaken(r, hs)
    BY <1>2, <2>2 DEF AnswerTaken
  <2> QED BY <1>2, <2>1, <2>2 DEF Calm, AnswersOnce
<1>9. TablesMatch' /\ SessionsAreLast'
  BY <1>2 DEF Calm, TablesMatch, SessionsAreLast
<1> QED BY <1>5, <1>6, <1>7, <1>8, <1>9 DEF Calm

\* What is in the slot gives way to a pairing that has no answer yet.
LEMMA TakeSlotKeepsCalm ==
  ASSUME Typed, Calm, NEW d \in Devices, NEW s \in starting[d], TakeSlot(d, s)
  PROVE  Calm'
<1>1. /\ slot' = [slot EXCEPT ![d] = s] /\ starting' = [starting EXCEPT ![d] = @ \ {s}]
      /\ UNCHANGED <<paired, stuck, sessions, net, begun>> /\ d \notin stuck
  BY DEF TakeSlot, codes, counts
<1>2. slot \in [Devices -> SlotType] /\ starting \in [Devices -> SUBSET ActivePairingState]
  BY DEF Typed, TypeOK, SlotType
<1>3. s # Free
  BY <1>2 DEF ActivePairingState, Free
<1>4. PairingIsTrue(d, s) /\ s.state = "initiator" /\ ~s.finished
  BY DEF Calm, StartsAreTrue
<1>5. SlotsAreTrue' /\ StartsAreTrue' /\ SignalsAreTrue' /\ TablesMatch'
  BY <1>1, <1>2, <1>4
     DEF Calm, SlotsAreTrue, StartsAreTrue, SignalsAreTrue, TablesMatch, PairingIsTrue, SignalIsTrue
<1>6. AnswersOnce'
  <2>1. ASSUME NEW r \in Devices, NEW hs, AnswerTaken(r, hs)' PROVE AnswerTaken(r, hs)
    BY <1>1, <1>2, <1>4, <2>1 DEF AnswerTaken
  <2>2. ASSUME NEW r \in Devices, NEW hs, AnswerUnderWay(r, hs)' PROVE AnswerUnderWay(r, hs)
    BY <1>1, <2>2 DEF AnswerUnderWay
  <2> QED BY <1>1, <1>2, <1>3, <1>4, <2>1, <2>2 DEF Calm, AnswersOnce
<1>7. SessionsAreLast'
  BY <1>1, <1>2 DEF Calm, SessionsAreLast
<1> QED BY <1>5, <1>6, <1>7 DEF Calm

\* A device whose slot is empty has not answered anything; its answer is the first.
LEMMA RespondKeepsCalm ==
  ASSUME Typed, Calm, NEW d \in Devices, slot[d] = Free, NEW m \in net, m.from # d,
         NEW hs \in {Junk} \cup Attempts, NEW ik \in BOOLEAN,
         hs # Junk => hs \in DOMAIN begun /\ begun[hs] = m.from,
         Respond(d, m, hs, ik),
         NEW r, net' = (net \ {m}) \cup {r}, r \in Noise => r.step = 2, r \notin PairingError,
         r.from = d, r.to = m.from, r.hs = hs,
         UNCHANGED <<paired, stuck, starting, sessions, begun>>
  PROVE  Calm'
<1> DEFINE s == [state |-> "responder", remote |-> m.from, hs |-> hs, ik |-> ik,
                 finished |-> ik, confirmed |-> Answer(ik \/ m.from \in paired[d])]
<1>1. slot' = [slot EXCEPT ![d] = s]
  BY DEF Respond
<1>2. s.state = "responder" /\ s.remote = m.from /\ s.hs = hs /\ s # Free
  BY DEF Free
<1>3. slot \in [Devices -> SlotType]
  BY DEF Typed, TypeOK, SlotType
<1> HIDE DEF s
<1>4. SignalsAreTrue'
  <2> SUFFICES ASSUME NEW x \in net' PROVE SignalIsTrue(x)'
    BY DEF SignalsAreTrue
  <2>1. CASE x = r
    BY <2>1 DEF SignalIsTrue
  <2>2. CASE x \in net
    BY <2>2 DEF Calm, SignalsAreTrue, SignalIsTrue
  <2> QED BY <2>1, <2>2
<1>5. SlotsAreTrue' /\ StartsAreTrue' /\ TablesMatch'
  BY <1>1, <1>2, <1>3 DEF Calm, SlotsAreTrue, StartsAreTrue, TablesMatch, PairingIsTrue
<1>6. AnswersOnce'
  <2>1. ASSUME NEW x \in Devices, NEW h, AnswerUnderWay(x, h)'
        PROVE  AnswerUnderWay(x, h) \/ (x = d /\ h = hs)
    BY <2>1 DEF AnswerUnderWay
  <2>2. ASSUME NEW x \in Devices, NEW h, AnswerTaken(x, h)' PROVE AnswerTaken(x, h)
    BY <1>1, <1>2, <1>3, <2>2 DEF AnswerTaken
  <2> QED BY <1>1, <1>2, <1>3, <2>1, <2>2 DEF Calm, AnswersOnce
<1>7. SessionsAreLast'
  BY <1>1, <1>3 DEF Calm, SessionsAreLast
<1> QED BY <1>4, <1>5, <1>6, <1>7 DEF Calm

LEMMA FirstKeepsCalm ==
  ASSUME Typed, Calm, NEW d \in Devices, NEW m \in net, FirstMessage(d, m)
  PROVE  Calm'
<1>1. m \in Noise /\ m.step = 1 /\ m.to = d /\ slot[d] = Free /\ Respond(d, m, m.hs, m.ik)
      /\ UNCHANGED <<paired, stuck, starting, sessions, begun>>
  BY DEF FirstMessage, Vacant, counts
<1>2. m \in Message1
  BY <1>1 DEF Noise, Message2, Message3
<1>3. m.hs \in Attempts /\ m.ik \in BOOLEAN
  BY <1>2 DEF Message1
<1>4. m.from # d /\ m.hs \in DOMAIN begun /\ begun[m.hs] = m.from
  BY <1>1 DEF Calm, SignalsAreTrue, SignalIsTrue
<1> DEFINE r == Reply2(m)
<1>5. net' = (net \ {m}) \cup {r}
  BY DEF FirstMessage, Handles
<1>6. r.step = 2 /\ r.from = d /\ r.to = m.from /\ r.hs = m.hs /\ r \notin PairingError
  BY <1>1 DEF Reply2, PairingError
<1> HIDE DEF r
<1> QED BY <1>1, <1>3, <1>4, <1>5, <1>6, RespondKeepsCalm

LEMMA UnexpectedKeepsCalm ==
  ASSUME Typed, Calm, NEW d \in Devices, NEW m \in net, UnexpectedMessage(d, m)
  PROVE  Calm'
<1>1. m \in Noise /\ m.to = d /\ slot[d] = Free
      /\ UNCHANGED <<paired, stuck, starting, sessions, begun>>
  BY DEF UnexpectedMessage, counts
<1>2. m.from # d
  BY <1>1 DEF Calm, SignalsAreTrue, SignalIsTrue
<1> DEFINE r == Reply2([m EXCEPT !.hs = Junk])
<1>3. r.step = 2 /\ r.from = d /\ r.to = m.from /\ r.hs = Junk /\ r \notin PairingError
  <2>1. [m EXCEPT !.hs = Junk].from = m.from /\ [m EXCEPT !.hs = Junk].to = m.to
        /\ [m EXCEPT !.hs = Junk].hs = Junk
    <3>1. CASE m \in Message1
      BY <3>1 DEF Message1
    <3>2. CASE m \in Message2
      BY <3>2 DEF Message2
    <3>3. CASE m \in Message3
      BY <3>3 DEF Message3
    <3> QED BY <1>1, <3>1, <3>2, <3>3 DEF Noise
  <2> QED BY <1>1, <2>1 DEF Reply2, PairingError
<1>4. CASE Handles(d, m, {r}) /\ Respond(d, m, Junk, FALSE)
  <2>1. net' = (net \ {m}) \cup {r}
    BY <1>4 DEF Handles
  <2> HIDE DEF r
  <2> QED BY <1>1, <1>2, <1>3, <1>4, <2>1, RespondKeepsCalm
<1>5. CASE Handles(d, m, {}) /\ UNCHANGED <<slot, monitors>>
  BY <1>1, <1>5, AsideKeepsCalm DEF Handles
<1> QED BY <1>4, <1>5 DEF UnexpectedMessage

\* Who removed the sender from its table, or did not take it in yet, has a sender
\* that is stuck.
LEMMA StaleFirstKeepsCalm ==
  ASSUME Typed, Calm, NEW d \in Devices, NEW m \in net, StaleFirstMessage(d, m)
  PROVE  Calm'
<1>1. m \in Noise /\ m.step = 1 /\ m.to = d /\ m.ik /\ m.from \notin paired[d]
      /\ UNCHANGED <<slot, paired, stuck, starting, sessions, begun>>
  BY DEF StaleFirstMessage, counts, pairing
<1>2. m.from \in stuck
  BY <1>1, MessageTyped DEF Calm, SignalsAreTrue, SignalIsTrue, TablesMatch, Typed
<1> DEFINE r == StaleTo(m)
<1>3. net' = (net \ {m}) \cup {r}
  BY DEF StaleFirstMessage, Handles
<1>4. r \notin Noise /\ r.to = m.from
  BY <1>1, MessageTyped, KindsDiffer DEF StaleTo, Typed, PairingError, Noise, Message1, Message2, Message3
<1> HIDE DEF r
<1>5. SignalsAreTrue'
  BY <1>1, <1>2, <1>3, <1>4 DEF Calm, SignalsAreTrue, SignalIsTrue
<1>6. AnswersOnce'
  <2>1. ASSUME NEW x, NEW h, AnswerUnderWay(x, h)' PROVE AnswerUnderWay(x, h)
    BY <1>3, <1>4, <2>1 DEF AnswerUnderWay
  <2>2. ASSUME NEW x, NEW h, AnswerTaken(x, h)' PROVE AnswerTaken(x, h)
    BY <1>1, <2>2 DEF AnswerTaken
  <2> QED BY <1>1, <2>1, <2>2 DEF Calm, AnswersOnce
<1> QED BY <1>1, <1>5, <1>6
        DEF Calm, SlotsAreTrue, StartsAreTrue, PairingIsTrue, TablesMatch, SessionsAreLast

\* The pairing in the slot goes on: its handshake and its devices stay.
LEMMA SlotGoesOn ==
  ASSUME Typed, Calm, NEW d \in Devices, d \notin stuck, slot[d] # Free,
         NEW s \in ActivePairingState, slot' = [slot EXCEPT ![d] = s],
         s.state = slot[d].state, s.remote = slot[d].remote, s.hs = slot[d].hs,
         s.finished => slot[d].finished \/ s.state = "responder" \/ AnswerUnderWay(s.remote, s.hs),
         \A m \in net' : m \in Noise /\ m.step = 2 => m \in net,
         UNCHANGED <<paired, stuck, starting, sessions, begun>>
  PROVE  SlotsAreTrue' /\ StartsAreTrue' /\ TablesMatch' /\ AnswersOnce' /\ SessionsAreLast'
<1>1. slot \in [Devices -> SlotType] /\ s # Free
  BY DEF Typed, TypeOK, SlotType, ActivePairingState, Free
<1>2. SlotsAreTrue' /\ StartsAreTrue' /\ TablesMatch' /\ SessionsAreLast'
  BY <1>1 DEF Calm, SlotsAreTrue, StartsAreTrue, TablesMatch, SessionsAreLast, PairingIsTrue
<1>3. AnswersOnce'
  <2>1. ASSUME NEW x \in Devices, NEW h, AnswerUnderWay(x, h)' PROVE AnswerUnderWay(x, h)
    BY <2>1 DEF AnswerUnderWay
  <2>2. ASSUME NEW x \in Devices, NEW h, AnswerTaken(x, h)'
        PROVE  AnswerTaken(x, h) \/ AnswerUnderWay(x, h)
    BY <1>1, <2>2 DEF AnswerTaken
  <2> QED BY <1>1, <2>1, <2>2 DEF Calm, AnswersOnce
<1> QED BY <1>2, <1>3

LEMMA SecondKeepsCalm ==
  ASSUME Typed, Calm, NEW d \in Devices, NEW m \in net, SecondMessage(d, m)
  PROVE  Calm'
<1> DEFINE third == [step |-> 3, hs |-> m.hs, from |-> d, to |-> m.from,
                     reconnect |-> m.from \in paired[d],
                     secret |-> IF HasSecretOf(d, m.from) THEN target[d].secret ELSE NoSecret]
           a == IF m.from \in paired[d] THEN "yes" ELSE slot[d].confirmed
           s == [slot[d] EXCEPT !.finished = TRUE, !.confirmed = a]
<1>1. /\ m \in Noise /\ m.step = 2 /\ m.to = d /\ d \notin stuck
      /\ slot[d] # Free /\ slot[d].remote = m.from /\ slot[d].hs = m.hs
      /\ UNCHANGED <<paired, stuck, starting, sessions, begun>>
      /\ net' = (net \ {m}) \cup (IF slot[d].ik THEN {} ELSE {third})
  BY DEF SecondMessage, Expected, Busy, Handles, counts
<1>2. slot[d] \in ActivePairingState
  BY <1>1 DEF Typed, TypeOK
<1>3. a \in {None, "yes", "no"}
  BY <1>2, FieldTyped
<1>4. s \in ActivePairingState /\ s.state = slot[d].state /\ s.remote = m.from /\ s.hs = m.hs
  BY <1>1, <1>2, <1>3 DEF ActivePairingState
<1>5. slot' = [slot EXCEPT ![d] = s]
  <2>1. slot' = [slot EXCEPT ![d].finished = TRUE,
                             ![d].confirmed = IF m.from \in paired[d] THEN "yes" ELSE @]
    BY DEF SecondMessage
  <2>2. slot \in [Devices -> {Free} \cup ActivePairingState]
    BY DEF Typed, TypeOK
  <2> QED BY <1>2, <2>1, <2>2, Zenon DEF ActivePairingState
<1>6. AnswerUnderWay(m.from, m.hs)
  BY <1>1 DEF AnswerUnderWay
<1>7. third \notin PairingError /\ third.step = 3 /\ third.from = d /\ third.to = m.from
      /\ (third.reconnect <=> m.from \in paired[d])
  <2>1. "step" \in DOMAIN third /\ third.step = 3 /\ third.from = d /\ third.to = m.from
    OBVIOUS
  <2>2. third.reconnect <=> m.from \in paired[d]
    BY Zenon
  <2>3. third \notin PairingError
    BY <2>1, StepsAreNoReports
  <2> QED BY <2>1, <2>2, <2>3, Zenon
<1> HIDE DEF third, s, a
<1>8. SlotsAreTrue' /\ StartsAreTrue' /\ TablesMatch' /\ AnswersOnce' /\ SessionsAreLast'
  <2>1. AnswerUnderWay(s.remote, s.hs)
    BY <1>4, <1>6
  <2>2. \A x \in net' : x \in Noise /\ x.step = 2 => x \in net
    BY <1>1, <1>7
  <2>3. s.state = slot[d].state /\ s.remote = slot[d].remote /\ s.hs = slot[d].hs
    BY <1>1, <1>4
  <2> QED BY <1>1, <1>4, <1>5, <2>1, <2>2, <2>3, SlotGoesOn
<1>9. SignalsAreTrue'
  <2> SUFFICES ASSUME NEW x \in net' PROVE SignalIsTrue(x)'
    BY DEF SignalsAreTrue
  <2>1. CASE x = third
    <3>1. m.from # d
      BY <1>1 DEF Calm, SignalsAreTrue, SignalIsTrue
    <3>2. m.from \in paired[d] => d \in paired[m.from]
      BY <1>1 DEF Calm, TablesMatch
    <3> QED BY <1>1, <1>7, <2>1, <3>1, <3>2 DEF SignalIsTrue
  <2>2. CASE x \in net
    BY <1>1, <2>2 DEF Calm, SignalsAreTrue, SignalIsTrue
  <2> QED BY <1>1, <2>1, <2>2
<1> QED BY <1>8, <1>9 DEF Calm

LEMMA ThirdKeepsCalm ==
  ASSUME Typed, Calm, NEW d \in Devices, NEW m \in net, ThirdMessage(d, m)
  PROVE  Calm'
<1> DEFINE a == IF Matches(d, m) \/ m.from \in paired[d] THEN "yes" ELSE slot[d].confirmed
           s == [slot[d] EXCEPT !.finished = TRUE, !.confirmed = a]
<1>1. /\ d \notin stuck /\ slot[d] # Free /\ slot[d].state # "initiator"
      /\ UNCHANGED <<paired, stuck, starting, sessions, begun>> /\ net' = net \ {m}
  BY DEF ThirdMessage, Expected, Busy, Handles, counts
<1>2. slot[d] \in ActivePairingState
  BY <1>1 DEF Typed, TypeOK
<1>3. a \in {None, "yes", "no"}
  BY <1>2, FieldTyped
<1>4. /\ s \in ActivePairingState /\ s.state = "responder" /\ s.state = slot[d].state
      /\ s.remote = slot[d].remote /\ s.hs = slot[d].hs
  BY <1>1, <1>2, <1>3 DEF ActivePairingState
<1>5. slot' = [slot EXCEPT ![d] = s]
  BY <1>2 DEF ThirdMessage, Typed, TypeOK
<1> HIDE DEF s, a
<1>6. SlotsAreTrue' /\ StartsAreTrue' /\ TablesMatch' /\ AnswersOnce' /\ SessionsAreLast'
  BY <1>1, <1>4, <1>5, SlotGoesOn
<1>7. SignalsAreTrue'
  BY <1>1 DEF Calm, SignalsAreTrue, SignalIsTrue
<1> QED BY <1>6, <1>7 DEF Calm

\* No pairing is stale between devices that can act, and a stuck one takes no report.
LEMMA NoneIsStale ==
  ASSUME Typed, Calm, NEW d \in Devices, NEW m \in net
  PROVE  ~StaleThirdMessage(d, m) /\ ~StaleReported(d, m)
  BY DEF Calm, SignalsAreTrue, SignalIsTrue, StaleThirdMessage, StaleReported, Handles

\* A session is made with the handshake in the slot, and the device is stuck then.
LEMMA CandidateKeepsCalm ==
  ASSUME Typed, Calm, NEW d \in Devices, NEW m \in net, handle_turn_candidate(d, m)
  PROVE  Calm'
<1> DEFINE reply == [reply |-> TRUE, from |-> d, to |-> m.from]
           x == [remote |-> m.from, hs |-> slot[d].hs]
<1>1. stuck' = stuck \cup {d} /\ UNCHANGED <<slot, starting, begun>>
  BY DEF handle_turn_candidate, LockAgain, pairing, counts
<1>2. reply \in TurnCandidate
  BY MessageTyped DEF TurnCandidate, Typed
<1>3. \A r \in net' : r \in net \/ r \in TurnCandidate
  <2>1. Handles(d, m, {}) \/ Handles(d, m, {reply})
    BY DEF handle_turn_candidate
  <2> HIDE DEF reply
  <2> QED BY <1>2, <2>1 DEF Handles
<1>4. CASE UNCHANGED <<paired, sessions>>
  BY <1>1, <1>3, <1>4, AsideKeepsCalm
<1>5. CASE /\ TakesCandidate(d, m) /\ into_transport_mode(d) /\ add_paired_device(d, m.from)
           /\ sessions' = [sessions EXCEPT ![d] = @ \cup {x}]
  <2>1. \A e \in Devices : paired[e] \subseteq paired'[e]
    BY <1>5 DEF add_paired_device, Typed, TypeOK
  <2>2. SignalsAreTrue'
    <3> SUFFICES ASSUME NEW r \in net' PROVE SignalIsTrue(r)'
      BY DEF SignalsAreTrue
    <3>1. CASE r \in TurnCandidate
      BY <3>1, KindsDiffer DEF SignalIsTrue
    <3>2. CASE r \in net
      BY <1>1, <2>1, <3>2, SignalStaysTrue, MessageTyped DEF Calm, SignalsAreTrue, Typed
    <3> QED BY <1>3, <3>1, <3>2
  <2>3. TablesMatch'
    <3> SUFFICES ASSUME NEW b \in Devices \ stuck', NEW e \in paired'[b] PROVE b \in paired'[e]
      BY DEF TablesMatch
    <3>1. b # d /\ b \notin stuck
      BY <1>1
    <3>2. e \in paired[b] /\ e \in Devices
      BY <1>5, <3>1 DEF add_paired_device, Typed, TypeOK
    <3> QED BY <2>1, <3>1, <3>2 DEF Calm, TablesMatch
  <2>4. SessionsAreLast'
    <3> SUFFICES ASSUME NEW e \in Devices, NEW t \in sessions'[e]
                 PROVE  /\ e \in stuck' /\ slot[e] # Free /\ slot[e].finished
                        /\ t.remote = slot[e].remote /\ t.hs = slot[e].hs
      BY <1>1 DEF SessionsAreLast
    <3>1. t \in sessions[e] \/ (e = d /\ t = x)
      BY <1>5 DEF Typed, TypeOK
    <3>2. CASE t \in sessions[e]
      BY <1>1, <3>2 DEF Calm, SessionsAreLast
    <3>3. CASE e = d /\ t = x
      BY <1>1, <1>5, <3>3 DEF TakesCandidate, Accepted, Busy, into_transport_mode
    <3> QED BY <3>1, <3>2, <3>3
  <2>5. AnswersOnce'
    <3>1. ASSUME NEW r, NEW hs, AnswerUnderWay(r, hs)' PROVE AnswerUnderWay(r, hs)
      BY <1>3, <3>1, KindsDiffer DEF AnswerUnderWay
    <3>2. ASSUME NEW r, NEW hs, AnswerTaken(r, hs)' PROVE AnswerTaken(r, hs)
      BY <1>1, <3>2 DEF AnswerTaken
    <3> QED BY <1>1, <3>1, <3>2 DEF Calm, AnswersOnce
  <2> QED BY <1>1, <2>2, <2>3, <2>4, <2>5 DEF Calm, SlotsAreTrue, StartsAreTrue, PairingIsTrue
<1> QED BY <1>4, <1>5 DEF handle_turn_candidate

LEMMA ConfirmKeepsCalm ==
  ASSUME Typed, Calm, NEW d \in Devices, NEW answer \in {"yes", "no"}, ConfirmPairing(d, answer)
  PROVE  Calm'
<1> DEFINE s == [slot[d] EXCEPT !.confirmed = answer]
<1>1. /\ d \notin stuck /\ slot[d] # Free
      /\ UNCHANGED <<paired, stuck, starting, sessions, net, begun>>
  BY DEF ConfirmPairing
<1>2. slot[d] \in ActivePairingState
  BY <1>1 DEF Typed, TypeOK
<1>3. /\ s \in ActivePairingState /\ s.state = slot[d].state /\ s.remote = slot[d].remote
      /\ s.hs = slot[d].hs /\ s.finished = slot[d].finished
  BY <1>2 DEF ActivePairingState
<1>4. slot' = [slot EXCEPT ![d] = s]
  BY <1>2 DEF ConfirmPairing, Typed, TypeOK
<1> HIDE DEF s
<1>5. SlotsAreTrue' /\ StartsAreTrue' /\ TablesMatch' /\ AnswersOnce' /\ SessionsAreLast'
  BY <1>1, <1>3, <1>4, SlotGoesOn
<1>6. SignalsAreTrue'
  BY <1>1 DEF Calm, SignalsAreTrue, SignalIsTrue
<1> QED BY <1>5, <1>6 DEF Calm

LEMMA InitIsCalm == Init => Calm
<1> SUFFICES ASSUME Init PROVE Calm
  OBVIOUS
<1>1. SignalsAreTrue /\ SlotsAreTrue /\ StartsAreTrue /\ SessionsAreLast
  BY DEF Init, SignalsAreTrue, SlotsAreTrue, StartsAreTrue, SessionsAreLast
<1>2. TablesMatch
  BY DEF Init, TablesMatch
<1>3. AnswersOnce
  BY DEF Init, AnswersOnce, AnswerUnderWay, AnswerTaken
<1> QED BY <1>1, <1>2, <1>3 DEF Calm

\* A step that is no trouble.
LEMMA StepKeepsCalm ==
  ASSUME Typed, Calm, [Next]_vars, troubles = 0, troubles' = 0
  PROVE  Calm'
<1>1. CASE UNCHANGED vars
  BY <1>1, AsideKeepsCalm DEF vars, pairing, counts
<1>2. ASSUME NEW d \in Devices, Start(d) PROVE Calm'
  <2>1. ASSUME NEW e \in Devices \ {d}, initiate_remote_pairing(d, e) \/ reconnect_known_device(d, e)
        PROVE  Calm'
    BY <2>1, BeginKeepsCalm DEF initiate_remote_pairing, reconnect_known_device
  <2>2. ASSUME NEW e \in Devices \ {d}, pair_with_qr(d, e) PROVE Calm'
    BY <2>2, AsideKeepsCalm DEF pair_with_qr, pairing, counts
  <2>3. CASE generate_qr_payload(d)
    BY <2>3, AsideKeepsCalm DEF generate_qr_payload, pairing, counts
  <2> QED BY <1>2, <2>1, <2>2, <2>3, TakeSlotKeepsCalm DEF Start
<1>3. ASSUME NEW d \in Devices, NEW m \in net, Receive(d, m) PROVE Calm'
  <2>1. CASE UnreadableMessage(d, m)
    BY <2>1, AsideKeepsCalm DEF UnreadableMessage, Handles, pairing, counts
  <2> QED BY <1>3, <2>1, FirstKeepsCalm, StaleFirstKeepsCalm, UnexpectedKeepsCalm, SecondKeepsCalm,
             ThirdKeepsCalm, NoneIsStale, CandidateKeepsCalm DEF Receive
<1>4. ASSUME NEW d \in Devices, NEW e \in monitors[d], MonitorOffers(d, e) \/ MonitorEnds(d, e)
      PROVE  Calm'
  <2>1. [reply |-> FALSE, from |-> d, to |-> e] \in TurnCandidate
    BY DEF TurnCandidate, Typed, TypeOK
  <2>2. \A m \in net' : m \in net \/ m \in TurnCandidate
    BY <1>4, <2>1 DEF MonitorOffers, MonitorEnds
  <2> QED BY <1>4, <2>2, AsideKeepsCalm DEF MonitorOffers, MonitorEnds, counts
<1>5. ASSUME NEW d \in Devices,
             (\E e \in Devices : UnpairDevice(d, e)) \/ LanPairingEnds(d) \/ Restart(d)
      PROVE  FALSE
  BY <1>5 DEF UnpairDevice, LanPairingEnds, Restart, Trouble
<1>6. ASSUME NEW d \in Devices, NEW answer \in {"yes", "no"}, ConfirmPairing(d, answer)
      PROVE  Calm'
  BY <1>6, ConfirmKeepsCalm
<1> QED BY <1>1, <1>2, <1>3, <1>4, <1>5, <1>6 DEF Next

\* Troubles are only counted up.
LEMMA TroublesRemain ==
  ASSUME Typed, [Next]_vars
  PROVE  troubles \in Nat /\ (troubles' = troubles \/ troubles' = troubles + 1)
<1>1. troubles \in Nat
  BY ConstantsAssumption DEF Typed, TypeOK
<1>2. CASE UNCHANGED vars
  BY <1>1, <1>2 DEF vars, counts
<1>3. ASSUME NEW d \in Devices, Start(d) PROVE UNCHANGED troubles
  BY <1>3 DEF Start, Begin, initiate_remote_pairing, reconnect_known_device, TakeSlot,
              generate_qr_payload, pair_with_qr, counts
<1>4. ASSUME NEW d \in Devices, NEW m \in net, Receive(d, m) PROVE UNCHANGED troubles
  BY <1>4 DEF Receive, FirstMessage, StaleFirstMessage, UnexpectedMessage, SecondMessage,
              ThirdMessage, StaleThirdMessage, UnreadableMessage, StaleReported,
              handle_turn_candidate, counts
<1>5. ASSUME NEW d \in Devices, NEW answer \in {"yes", "no"}, ConfirmPairing(d, answer)
      PROVE  troubles' = troubles \/ troubles' = troubles + 1
  BY <1>5 DEF ConfirmPairing, Trouble
<1>6. ASSUME NEW d \in Devices, NEW e \in monitors[d], MonitorOffers(d, e) \/ MonitorEnds(d, e)
      PROVE  UNCHANGED troubles
  BY <1>6 DEF MonitorOffers, MonitorEnds, counts
<1>7. ASSUME NEW d \in Devices,
             (\E e \in Devices : UnpairDevice(d, e)) \/ LanPairingEnds(d) \/ Restart(d)
      PROVE  troubles' = troubles + 1
  BY <1>7 DEF UnpairDevice, LanPairingEnds, Restart, Trouble
<1> QED BY <1>1, <1>2, <1>3, <1>4, <1>5, <1>6, <1>7 DEF Next

\* In a calm state one of two devices with sessions began the handshake, if it is the
\* same one for both, and the other answered it once.
LEMMA CalmSessionsMatch == Typed /\ Undisturbed => SessionsMatch
<1> SUFFICES ASSUME Typed, Calm, NEW d \in Devices, NEW e \in Devices,
                    NEW s \in sessions[d], NEW t \in sessions[e],
                    s.remote = e, t.remote = d, begun[s.hs] = begun[t.hs]
             PROVE  s.hs = t.hs
  BY DEF Undisturbed, SessionsMatch
<1>1. s.hs \in Attempts /\ t.hs \in Attempts
  BY DEF Typed, TypeOK
<1>2. /\ slot[d] # Free /\ slot[d].finished /\ slot[d].remote = e /\ slot[d].hs = s.hs
      /\ slot[e] # Free /\ slot[e].finished /\ slot[e].remote = d /\ slot[e].hs = t.hs
  BY DEF Calm, SessionsAreLast
<1>3. slot[d].state \in {"initiator", "responder"} /\ slot[e].state \in {"initiator", "responder"}
  BY <1>2 DEF Typed, TypeOK, ActivePairingState
<1>4. PairingIsTrue(d, slot[d]) /\ PairingIsTrue(e, slot[e]) /\ s.hs # Junk /\ t.hs # Junk
  BY <1>1, <1>2 DEF Calm, SlotsAreTrue, Attempts, Junk
<1>5. CASE slot[d].state = "initiator"
  <2>1. slot[e].state = "responder"
    BY <1>2, <1>3, <1>4, <1>5 DEF PairingIsTrue
  <2>2. AnswerTaken(e, s.hs)
    BY <1>2, <1>5 DEF AnswerTaken
  <2> QED BY <1>1, <1>2, <2>1, <2>2 DEF Calm, AnswersOnce
<1>6. CASE slot[e].state = "initiator"
  <2>1. slot[d].state = "responder"
    BY <1>2, <1>3, <1>4, <1>6 DEF PairingIsTrue
  <2>2. AnswerTaken(d, t.hs)
    BY <1>2, <1>6 DEF AnswerTaken
  <2> QED BY <1>1, <1>2, <2>1, <2>2 DEF Calm, AnswersOnce
<1>7. CASE slot[d].state = "responder" /\ slot[e].state = "responder"
  BY <1>2, <1>4, <1>7 DEF PairingIsTrue
<1> QED BY <1>3, <1>5, <1>6, <1>7

-----------------------------------------------------------------------------
(* What the specification promises.                                        *)

\* Every reachable state is well typed; in particular a session has the number of
\* a handshake that was begun, whatever messages are taken for a first one
\* (pairing.rs, handle_noise_signal).
THEOREM TypeCorrect == Spec => []TypeOK
<1>1. IInv => TypeOK
  BY DEF IInv, Typed
<1> QED BY <1>1, InitEstablishes, StepKeeps, PTL DEF Spec

\* A device comes into a table only when the users of both have accepted the other
\* device, however many handshakes, codes and restarts there are
\* (pairing.rs, handle_turn_candidate).
THEOREM NoneIsPairedAlone == Spec => []PairedByBoth
<1>1. IInv => PairedByBoth
  BY DEF IInv
<1> QED BY <1>1, InitEstablishes, StepKeeps, PTL DEF Spec

\* An unanswered pairing in the slot has a monitor that hears its answer
\* (pairing.rs, monitor_relay_pairing).
THEOREM AnswersAreHeard == Spec => []AnswerIsHeard
<1>1. IInv => AnswerIsHeard
  BY DEF IInv
<1> QED BY <1>1, InitEstablishes, StepKeeps, PTL DEF Spec

\* As long as no agent restarts, no pairing is removed and no slot is emptied by another
\* pairing, two devices with sessions to each other have the keys of one handshake,
\* unless each began one: the responder answers one handshake at most, whatever is
\* lost, overtaken or taken for another (pairing.rs, handle_noise_signal).
THEOREM KeysMatch == Spec => []SessionsMatch
<1>1. Init => IInv /\ Undisturbed
  BY InitEstablishes, InitIsCalm DEF Undisturbed
<1>2. IInv /\ Undisturbed /\ [Next]_vars => (IInv /\ Undisturbed)'
  <2> SUFFICES ASSUME IInv, Undisturbed, [Next]_vars, troubles' = 0 PROVE Calm'
    BY StepKeeps DEF Undisturbed
  <2>1. Typed /\ troubles = 0
    BY TroublesRemain DEF IInv
  <2> QED BY <2>1, StepKeepsCalm DEF Undisturbed
<1>3. IInv /\ Undisturbed => SessionsMatch
  BY CalmSessionsMatch DEF IInv
<1> QED BY <1>1, <1>2, <1>3, PTL DEF Spec
=============================================================================
