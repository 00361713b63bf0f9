--------------------------- MODULE PairingProofs ---------------------------
(***************************************************************************)
(* Theorems about Pairing, for any devices, connections and topologies,    *)
(* and any number of misfortunes.                                          *)
(***************************************************************************)
EXTENDS Pairing, TLAPS

\* What a message that is under way says about the end that wrote it.
Truthful(c, e, m) ==
  /\ m = Yes => said[c][e]
  /\ m = No /\ ~disturbed[c] => confirmed[c][e] = No
  /\ m = Stale => at[c][e] \in Over

TruthfulNext(c, e, m) ==
  /\ m = Yes => said'[c][e]
  /\ m = No /\ ~disturbed'[c] => confirmed'[c][e] = No
  /\ m = Stale => at'[c][e] \in Over

MessagesAreTrue ==
  \A c \in Connections : \A d \in Ends(c) :
    \A i \in 1..Len(wire[c][d]) : Truthful(c, Peer(c, d), wire[c][d][i])

ConfirmationsAreTrue ==
  \A c \in Connections : \A d \in Ends(c) : heard[c][d] => said[c][Peer(c, d)]

\* An end of an undisturbed connection that confirmed, and gave up nevertheless,
\* did so because the other end was over or had refused.
Faithful(c, d) ==
  ~disturbed[c] =>
    /\ ~cut[c]
    /\ said[c][d] => at[c][d] \notin {"idle", "met", "trusting", "doubting"}
    /\ said[c][d] /\ at[c][d] \in Asked => confirmed[c][d] = Yes
    /\ at[c][d] \in {"closing", "rejected"} /\ said[c][d] /\ ~heard[c][d] =>
         at[c][Peer(c, d)] \in Over \/ confirmed[c][Peer(c, d)] = No
    /\ at[c][d] = "paired" => BothConfirmed(c, d)
    /\ at[c][d] = "rejected" => ~BothConfirmed(c, d)

EndsAreFaithful == \A c \in Connections : \A d \in Ends(c) : Faithful(c, d)

IInv == TypeOK /\ MessagesAreTrue /\ ConfirmationsAreTrue /\ EndsAreFaithful

\* What no step takes back.
Lasts ==
  /\ link' = link
  /\ \A c \in Connections : \A d \in Devices :
       /\ said[c][d] => said'[c][d]
       /\ at[c][d] \in Over => at'[c][d] \in Over
       /\ disturbed[c] => disturbed'[c]
       /\ confirmed[c][d] # None /\ ~disturbed'[c] => confirmed'[c][d] = confirmed[c][d]

-----------------------------------------------------------------------------
(* Connections and their queues.                                           *)

LEMMA Peers ==
  ASSUME link \in Topologies, NEW c \in Connections, NEW d \in Ends(c)
  PROVE  /\ d \in Devices /\ Peer(c, d) \in Devices /\ Peer(c, d) # d
         /\ Peer(c, d) \in Ends(c) /\ Peer(c, Peer(c, d)) = d
         /\ Ends(c) = {d, Peer(c, d)}
<1>1. link[c].from \in Devices /\ link[c].to \in Devices /\ link[c].from # link[c].to
  BY ConstantsAssumption DEF ConstantsAssumption
<1>. QED
  BY <1>1 DEF Ends, Peer

\* The other end keeps being the other end.
LEMMA PeersStay ==
  ASSUME link' = link, NEW c, NEW d
  PROVE  Ends(c)' = Ends(c) /\ Peer(c, d)' = Peer(c, d)
  BY DEF Ends, Peer

LEMMA SetTyped ==
  ASSUME NEW A, NEW B, NEW S, NEW f \in [A -> [B -> S]], NEW a, NEW b, NEW v \in S
  PROVE  [f EXCEPT ![a][b] = v] \in [A -> [B -> S]]
  OBVIOUS

LEMMA SetTrueTyped ==
  ASSUME NEW A, NEW B, NEW f \in [A -> [B -> BOOLEAN]], NEW a, NEW b
  PROVE  [f EXCEPT ![a][b] = TRUE] \in [A -> [B -> BOOLEAN]]
  OBVIOUS

LEMMA AppendTyped ==
  ASSUME NEW S, NEW q \in Seq(S), NEW x \in S
  PROVE  /\ Append(q, x) \in Seq(S)
         /\ Len(Append(q, x)) = Len(q) + 1 /\ Len(q) \in Nat
         /\ \A i \in 1..Len(q) : Append(q, x)[i] = q[i]
         /\ Append(q, x)[Len(q) + 1] = x
  OBVIOUS

LEMMA TailTyped ==
  ASSUME NEW S, NEW q \in Seq(S), q # <<>>
  PROVE  /\ Head(q) \in S /\ Tail(q) \in Seq(S)
         /\ Len(q) \in Nat /\ Len(q) > 0 /\ Len(Tail(q)) = Len(q) - 1 /\ Head(q) = q[1]
         /\ \A i \in 1..Len(Tail(q)) : Tail(q)[i] = q[i + 1]
  OBVIOUS

LEMMA InWhole ==
  ASSUME NEW n \in Nat, n > 0, NEW i \in 1..(n - 1)
  PROVE  i + 1 \in 1..n /\ 1 \in 1..n
  OBVIOUS

LEMMA InAppended ==
  ASSUME NEW n \in Nat, NEW i \in 1..(n + 1)
  PROVE  i \in 1..n \/ i = n + 1
  OBVIOUS

-----------------------------------------------------------------------------
(* Types.                                                                  *)

\* Writing and reading a message.
LEMMA WriteTyped ==
  ASSUME TypeOK, NEW c \in Connections, NEW d \in Ends(c), NEW m \in Message, Write(c, d, m)
  PROVE  wire' \in [Connections -> [Devices -> Seq(Message)]]
<1>1. wire \in [Connections -> [Devices -> Seq(Message)]] /\ Peer(c, d) \in Devices
  BY Peers DEF TypeOK
<1>2. Append(wire[c][Peer(c, d)], m) \in Seq(Message)
  BY <1>1, AppendTyped
<1>. QED
  BY <1>1, <1>2, SetTyped DEF Write

LEMMA ConsumeTyped ==
  ASSUME TypeOK, NEW c \in Connections, NEW d \in Ends(c), NEW m, Reads(c, d, m), Consume(c, d)
  PROVE  wire' \in [Connections -> [Devices -> Seq(Message)]]
<1>1. wire \in [Connections -> [Devices -> Seq(Message)]] /\ d \in Devices
  BY Peers DEF TypeOK
<1>2. Tail(wire[c][d]) \in Seq(Message)
  BY <1>1, TailTyped DEF Reads
<1>. QED
  BY <1>1, <1>2, SetTyped DEF Consume

\* A handler moves, and maybe empties the slot or puts its pairing there.
LEMMA GoesTyped ==
  ASSUME TypeOK, NEW c \in Connections, NEW d \in Devices, NEW phase \in Phase, Goes(c, d, phase)
  PROVE  at' \in [Connections -> [Devices -> Phase]]
  BY SetTyped DEF TypeOK, Goes

LEMMA LeaveTyped ==
  ASSUME TypeOK, NEW c \in Connections, NEW d \in Devices, LeaveLoop(c, d)
  PROVE  /\ at' \in [Connections -> [Devices -> Phase]]
         /\ active_pairing' \in [Devices -> Connections \cup {None}]
<1>1. "closing" \in Phase
  BY DEF Phase, Asked
<1>2. Goes(c, d, "closing")
  BY DEF LeaveLoop
<1>. QED
  BY <1>1, <1>2, GoesTyped DEF TypeOK, LeaveLoop

LEMMA AddTyped ==
  ASSUME TypeOK, NEW d \in Devices, NEW e \in Devices, e # d, add_paired_device(d, e)
  PROVE  paired' \in [Devices -> SUBSET Devices] /\ \A f \in Devices : f \notin paired'[f]
  BY DEF TypeOK, add_paired_device

\* Handlers that read and write nothing.
Silent(c, d) ==
  \/ HandshakeFails(c, d) \/ Recognise(c, d) \/ Doubt(c, d) \/ NotGreeted(c, d)
  \/ Ask(c, d) \/ SayFails(c, d) \/ HangUp(c, d) \/ Finish(c, d) \/ Settle(c, d)

LEMMA SilentTyped ==
  ASSUME TypeOK, NEW c \in Connections, NEW d \in Ends(c), Silent(c, d)
  PROVE  TypeOK'
<1>1. /\ link \in Topologies
      /\ d \in Devices /\ Peer(c, d) \in Devices /\ Peer(c, d) # d
  BY Peers DEF TypeOK
<1>2. UNCHANGED <<link, reconnecting, confirmed, said, heard, wire, cut, changes, disturbed>>
  BY DEF Silent, HandshakeFails, Recognise, Doubt, NotGreeted, Ask, SayFails, HangUp,
         Finish, Settle, troubles
<1>3. \E phase \in Phase : Goes(c, d, phase)
  BY DEF Silent, HandshakeFails, Recognise, Doubt, NotGreeted, Ask, SayFails, HangUp,
         Finish, Settle, LeaveLoop, Phase, Asked, Over
<1>4. at' \in [Connections -> [Devices -> Phase]]
  BY <1>1, <1>3, GoesTyped
<1>5. active_pairing' \in [Devices -> Connections \cup {None}]
  <2>1. \/ active_pairing' = active_pairing
        \/ active_pairing' = [active_pairing EXCEPT ![d] = c]
        \/ active_pairing' = [active_pairing EXCEPT ![d] = None]
    BY DEF Silent, HandshakeFails, Recognise, Doubt, NotGreeted, Ask, SayFails, HangUp,
           Finish, Settle, LeaveLoop
  <2>. QED
    BY <1>1, <2>1 DEF TypeOK
<1>6. paired' \in [Devices -> SUBSET Devices] /\ \A f \in Devices : f \notin paired'[f]
  <2>1. paired' = paired \/ add_paired_device(d, Peer(c, d))
    BY DEF Silent, HandshakeFails, Recognise, Doubt, NotGreeted, Ask, SayFails, HangUp,
           Finish, Settle
  <2>2. CASE paired' = paired
    BY <1>1, <2>2 DEF TypeOK
  <2>3. CASE add_paired_device(d, Peer(c, d))
    BY <1>1, <2>3, AddTyped
  <2>. QED
    BY <2>1, <2>2, <2>3
<1>. QED
  BY <1>1, <1>2, <1>4, <1>5, <1>6 DEF TypeOK

\* Handlers that write, and what they write.
LEMMA Writers ==
  ASSUME NEW c, NEW d, RejectStale(c, d) \/ Greet(c, d) \/ Say(c, d) \/ Refuse(c, d)
  PROVE  /\ UNCHANGED <<link, reconnecting, confirmed, heard, cut, changes, disturbed>>
         /\ \/ said' = said
            \/ said' = [said EXCEPT ![c][d] = TRUE]
         /\ \/ RejectStale(c, d) /\ Write(c, d, Stale)
            \/ Greet(c, d) /\ Write(c, d, Yes)
            \/ Say(c, d) /\ Write(c, d, Yes)
            \/ Refuse(c, d) /\ Write(c, d, No)
  BY DEF RejectStale, Greet, Say, Refuse, troubles

LEMMA WritersTyped ==
  ASSUME TypeOK, NEW c \in Connections, NEW d \in Ends(c),
         RejectStale(c, d) \/ Greet(c, d) \/ Say(c, d) \/ Refuse(c, d)
  PROVE  TypeOK'
<1>1. /\ link \in Topologies
      /\ d \in Devices /\ Peer(c, d) \in Devices /\ Peer(c, d) # d
  BY Peers DEF TypeOK
<1>2. UNCHANGED <<link, reconnecting, confirmed, heard, cut, changes, disturbed>>
  BY Writers
<1>3. said' \in [Connections -> [Devices -> BOOLEAN]]
  <2>1. said \in [Connections -> [Devices -> BOOLEAN]]
    BY DEF TypeOK
  <2>2. [said EXCEPT ![c][d] = TRUE] \in [Connections -> [Devices -> BOOLEAN]]
    BY <2>1, SetTrueTyped
  <2>. QED
    BY <2>1, <2>2, Writers
<1>4. wire' \in [Connections -> [Devices -> Seq(Message)]]
  <2>1. Stale \in Message /\ No \in Message /\ Yes \in Message
    BY DEF Message
  <2>. QED
    BY <2>1, Writers, WriteTyped
<1>5. /\ at' \in [Connections -> [Devices -> Phase]]
      /\ active_pairing' \in [Devices -> Connections \cup {None}]
  <2>1. CASE LeaveLoop(c, d)
    BY <1>1, <2>1, LeaveTyped
  <2>2. CASE UNCHANGED <<at, active_pairing>>
    BY <1>1, <2>2 DEF TypeOK
  <2>3. CASE active_pairing' = active_pairing /\ \E phase \in {"failed", "greeting"} : Goes(c, d, phase)
    <3>1. \A phase \in {"failed", "greeting"} : phase \in Phase
      BY DEF Phase, Over
    <3>. QED
      BY <1>1, <2>3, <3>1, GoesTyped DEF TypeOK
  <2>. QED
    BY <2>1, <2>2, <2>3 DEF RejectStale, Greet, Say, Refuse
<1>6. paired' \in [Devices -> SUBSET Devices] /\ \A f \in Devices : f \notin paired'[f]
  <2>1. paired' = paired \/ add_paired_device(d, Peer(c, d))
    BY DEF RejectStale, Greet, Say, Refuse
  <2>2. CASE paired' = paired
    BY <1>1, <2>2 DEF TypeOK
  <2>3. CASE add_paired_device(d, Peer(c, d))
    BY <1>1, <2>3, AddTyped
  <2>. QED
    BY <2>1, <2>2, <2>3
<1>. QED
  BY <1>1, <1>2, <1>3, <1>4, <1>5, <1>6 DEF TypeOK

\* Handlers that read, and what they do with what they read.
LEMMA Readers ==
  ASSUME NEW c, NEW d, Greeted(c, d) \/ Hear(c, d)
  PROVE  /\ UNCHANGED <<link, paired, reconnecting, confirmed, said, cut, changes, disturbed>>
         /\ \E m \in Message :
              /\ Reads(c, d, m) /\ Consume(c, d)
              /\ \/ heard' = heard
                 \/ heard' = [heard EXCEPT ![c][d] = TRUE] /\ m = Yes
  BY DEF Greeted, Hear, Confirms, troubles

LEMMA ReadersTyped ==
  ASSUME TypeOK, NEW c \in Connections, NEW d \in Ends(c), Greeted(c, d) \/ Hear(c, d)
  PROVE  TypeOK'
<1>1. d \in Devices
  BY Peers DEF TypeOK
<1>2. UNCHANGED <<link, paired, reconnecting, confirmed, said, cut, changes, disturbed>>
  BY Readers
<1>3. wire' \in [Connections -> [Devices -> Seq(Message)]]
  BY Readers, ConsumeTyped
<1>4. heard' \in [Connections -> [Devices -> BOOLEAN]]
  <2>1. heard \in [Connections -> [Devices -> BOOLEAN]]
    BY DEF TypeOK
  <2>2. [heard EXCEPT ![c][d] = TRUE] \in [Connections -> [Devices -> BOOLEAN]]
    BY <2>1, SetTrueTyped
  <2>. QED
    BY <2>1, <2>2, Readers
<1>5. /\ at' \in [Connections -> [Devices -> Phase]]
      /\ active_pairing' \in [Devices -> Connections \cup {None}]
  <2>1. CASE LeaveLoop(c, d)
    BY <1>1, <2>1, LeaveTyped
  <2>2. CASE UNCHANGED <<at, active_pairing>>
    BY <1>1, <2>2 DEF TypeOK
  <2>3. CASE active_pairing' = active_pairing /\ Goes(c, d, "resumed")
    <3>1. "resumed" \in Phase
      BY DEF Phase
    <3>. QED
      BY <1>1, <2>3, <3>1, GoesTyped DEF TypeOK
  <2>. QED
    BY <2>1, <2>2, <2>3 DEF Greeted, Hear
<1>. QED
  BY <1>1, <1>2, <1>3, <1>4, <1>5 DEF TypeOK

\* A change that is still within its bound.
LEMMA ChangesTyped ==
  ASSUME changes \in 0..MaxChanges, Changes
  PROVE  changes' \in 0..MaxChanges
  BY ConstantsAssumption DEF ConstantsAssumption, Changes

LEMMA DialTyped ==
  ASSUME TypeOK, NEW c \in Connections, NEW named \in BOOLEAN, initiate_pairing(c, named)
  PROVE  TypeOK'
<1>1. at \in [Connections -> [Devices -> Phase]] /\ "met" \in Phase
  BY DEF TypeOK, Phase
<1>2. at' \in [Connections -> [Devices -> Phase]]
  <2>1. [d \in Devices |-> IF d \in Ends(c) THEN "met" ELSE at[c][d]] \in [Devices -> Phase]
    BY <1>1
  <2>. QED
    BY <1>1, <2>1 DEF initiate_pairing
<1>3. reconnecting' \in [Connections -> BOOLEAN]
  <2>1. (named /\ link[c].to \in paired[link[c].from]) \in BOOLEAN
    OBVIOUS
  <2>. QED
    BY <2>1 DEF initiate_pairing, TypeOK
<1>4. UNCHANGED <<link, paired, active_pairing, confirmed, said, heard, wire, cut, changes, disturbed>>
  BY DEF initiate_pairing, troubles
<1>. QED
  BY <1>2, <1>3, <1>4 DEF TypeOK

LEMMA CutTyped ==
  ASSUME TypeOK, NEW c \in Connections, Cut(c)
  PROVE  TypeOK'
<1>1. UNCHANGED <<link, paired, active_pairing, at, reconnecting, confirmed, said, heard>>
  BY DEF Cut
<1>2. wire' \in [Connections -> [Devices -> Seq(Message)]]
  <2>1. wire \in [Connections -> [Devices -> Seq(Message)]] /\ <<>> \in Seq(Message)
    BY DEF TypeOK
  <2>2. wire' = [wire EXCEPT ![c] = [d \in Devices |-> <<>>]]
    BY DEF Cut
  <2>. QED
    BY <2>1, <2>2
<1>3. cut' \in [Connections -> BOOLEAN] /\ disturbed' \in [Connections -> BOOLEAN]
  BY DEF Cut, TypeOK
<1>4. changes' \in 0..MaxChanges
  BY ChangesTyped DEF Cut, TypeOK
<1>. QED
  BY <1>1, <1>2, <1>3, <1>4 DEF TypeOK

\* What users and restarts do.
Outside(d) ==
  \/ \E answer \in {Yes, No} : ConfirmPairing(d, answer)
  \/ \E e \in Devices : UnpairDevice(d, e)
  \/ Restart(d)

LEMMA OutsideTyped ==
  ASSUME TypeOK, NEW d \in Devices, Outside(d)
  PROVE  TypeOK'
<1>1. UNCHANGED <<link, reconnecting, said, heard, wire, cut>>
  BY DEF Outside, ConfirmPairing, UnpairDevice, Restart
<1>2. ASSUME NEW answer \in {Yes, No}, ConfirmPairing(d, answer) PROVE TypeOK'
  <2>1. PICK c \in Connections :
          /\ confirmed' = [confirmed EXCEPT ![c][d] = answer]
          /\ \/ UNCHANGED <<changes, disturbed>>
             \/ Changes /\ disturbed' = [disturbed EXCEPT ![c] = TRUE]
    BY <1>2 DEF ConfirmPairing, TypeOK
  <2>2. confirmed' \in [Connections -> [Devices -> {None, Yes, No}]]
    BY <2>1, SetTyped DEF TypeOK
  <2>3. changes' \in 0..MaxChanges /\ disturbed' \in [Connections -> BOOLEAN]
    BY <2>1, ChangesTyped DEF TypeOK
  <2>4. UNCHANGED <<paired, active_pairing, at>>
    BY <1>2 DEF ConfirmPairing
  <2>. QED
    BY <1>1, <2>2, <2>3, <2>4 DEF TypeOK
<1>3. ASSUME NEW e \in Devices, UnpairDevice(d, e) PROVE TypeOK'
  <2>1. paired' \in [Devices -> SUBSET Devices] /\ \A f \in Devices : f \notin paired'[f]
    BY <1>3 DEF UnpairDevice, TypeOK
  <2>2. changes' \in 0..MaxChanges
    BY <1>3, ChangesTyped DEF UnpairDevice, TypeOK
  <2>. QED
    BY <1>1, <1>3, <2>1, <2>2 DEF UnpairDevice, TypeOK
<1>4. ASSUME Restart(d) PROVE TypeOK'
  <2>1. at \in [Connections -> [Devices -> Phase]] /\ "gone" \in Phase
    BY DEF TypeOK, Phase, Over
  <2>2. at' \in [Connections -> [Devices -> Phase]]
    BY <1>4, <2>1 DEF Restart
  <2>3. disturbed' \in [Connections -> BOOLEAN]
    BY <1>4 DEF Restart, TypeOK
  <2>4. changes' \in 0..MaxChanges /\ active_pairing' \in [Devices -> Connections \cup {None}]
    BY <1>4, ChangesTyped DEF Restart, TypeOK
  <2>. QED
    BY <1>1, <1>4, <2>2, <2>3, <2>4 DEF Restart, TypeOK
<1>. QED
  BY <1>2, <1>3, <1>4 DEF Outside

LEMMA NextTyped == TypeOK /\ [Next]_vars => TypeOK'
<1>. SUFFICES ASSUME TypeOK, [Next]_vars PROVE TypeOK'
  OBVIOUS
<1>1. CASE UNCHANGED vars
  BY <1>1 DEF vars, troubles, TypeOK
<1>2. CASE Next
  <2>1. ASSUME NEW c \in Connections, NEW d \in Ends(c), HandlerStep(c, d) PROVE TypeOK'
    BY <2>1, SilentTyped, WritersTyped, ReadersTyped DEF HandlerStep, Silent
  <2>. QED
    BY <1>2, <2>1, DialTyped, CutTyped, OutsideTyped DEF Next, Outside
<1>. QED
  BY <1>1, <1>2

-----------------------------------------------------------------------------
(* What lasts.                                                             *)

\* A handler that runs is not over, and leaves the other ends alone.
LEMMA OneEndMoves ==
  ASSUME TypeOK, NEW c \in Connections, NEW d \in Ends(c), HandlerStep(c, d)
  PROVE  /\ UNCHANGED <<link, confirmed, cut, disturbed>>
         /\ at[c][d] \notin Over \cup {"idle"}
         /\ said[c][d] => said'[c][d]
         /\ \A k \in Connections : \A f \in Devices :
              ~(k = c /\ f = d) => /\ at'[k][f] = at[k][f]
                                   /\ said'[k][f] = said[k][f]
                                   /\ heard'[k][f] = heard[k][f]
<1>1. /\ at \in [Connections -> [Devices -> Phase]]
      /\ said \in [Connections -> [Devices -> BOOLEAN]]
      /\ heard \in [Connections -> [Devices -> BOOLEAN]]
      /\ d \in Devices
  BY Peers DEF TypeOK
<1>2. /\ UNCHANGED <<link, confirmed, cut, disturbed>>
      /\ at[c][d] \notin Over \cup {"idle"}
  BY DEF HandlerStep, HandshakeFails, RejectStale, Recognise, Doubt, Greet, Greeted,
       NotGreeted, Ask, Say, SayFails, Refuse, Hear, HangUp, Finish, Settle, troubles, Over
<1>3. at' = at \/ \E phase \in Phase : Goes(c, d, phase)
  BY DEF HandlerStep, HandshakeFails, RejectStale, Recognise, Doubt, Greet, Greeted,
       NotGreeted, Ask, Say, SayFails, Refuse, Hear, HangUp, Finish, Settle, LeaveLoop,
       Phase, Asked, Over
<1>4. said' = said \/ said' = [said EXCEPT ![c][d] = TRUE]
  BY DEF HandlerStep, HandshakeFails, RejectStale, Recognise, Doubt, Greet, Greeted,
       NotGreeted, Ask, Say, SayFails, Refuse, Hear, HangUp, Finish, Settle
<1>5. heard' = heard \/ heard' = [heard EXCEPT ![c][d] = TRUE]
  BY DEF HandlerStep, HandshakeFails, RejectStale, Recognise, Doubt, Greet, Greeted,
       NotGreeted, Ask, Say, SayFails, Refuse, Hear, HangUp, Finish, Settle
<1>6. \A k \in Connections : \A f \in Devices : ~(k = c /\ f = d) => at'[k][f] = at[k][f]
  BY <1>1, <1>3 DEF Goes
<1>7. \A k \in Connections : \A f \in Devices : ~(k = c /\ f = d) => said'[k][f] = said[k][f]
  BY <1>1, <1>4
<1>8. \A k \in Connections : \A f \in Devices : ~(k = c /\ f = d) => heard'[k][f] = heard[k][f]
  BY <1>1, <1>5
<1>9. said[c][d] => said'[c][d]
  BY <1>1, <1>4
<1>. QED
  BY <1>2, <1>6, <1>7, <1>8, <1>9

LEMMA DialMoves ==
  ASSUME TypeOK, NEW c \in Connections, NEW named \in BOOLEAN, initiate_pairing(c, named)
  PROVE  /\ UNCHANGED <<link, said, heard, confirmed, wire, cut, disturbed>>
         /\ \A k \in Connections : \A f \in Devices :
              at'[k][f] = at[k][f] \/ (at[k][f] = "idle" /\ at'[k][f] = "met")
<1>1. at \in [Connections -> [Devices -> Phase]]
  BY DEF TypeOK
<1>2. UNCHANGED <<link, said, heard, confirmed, wire, cut, disturbed>>
  BY DEF initiate_pairing, troubles
<1>3. \A f \in Ends(c) : at[c][f] = "idle"
  BY DEF initiate_pairing
<1>4. at' = [at EXCEPT ![c] = [d \in Devices |-> IF d \in Ends(c) THEN "met" ELSE at[c][d]]]
  BY DEF initiate_pairing
<1>. QED
  BY <1>1, <1>2, <1>3, <1>4

LEMMA CutMoves ==
  ASSUME TypeOK, NEW c \in Connections, Cut(c)
  PROVE  /\ UNCHANGED <<link, at, said, heard, confirmed>>
         /\ disturbed'[c]
         /\ \A k \in Connections : disturbed[k] => disturbed'[k]
         /\ \A k \in Connections \ {c} : cut'[k] = cut[k] /\ disturbed'[k] = disturbed[k]
         /\ \A k \in Connections : \A f \in Devices : wire'[k][f] = wire[k][f] \/ wire'[k][f] = <<>>
<1>1. /\ cut \in [Connections -> BOOLEAN] /\ disturbed \in [Connections -> BOOLEAN]
      /\ wire \in [Connections -> [Devices -> Seq(Message)]]
  BY DEF TypeOK
<1>2. wire' = [wire EXCEPT ![c] = [d \in Devices |-> <<>>]]
  BY DEF Cut
<1>3. \A k \in Connections : \A f \in Devices : wire'[k][f] = wire[k][f] \/ wire'[k][f] = <<>>
  BY <1>1, <1>2
<1>4. cut' = [cut EXCEPT ![c] = TRUE] /\ disturbed' = [disturbed EXCEPT ![c] = TRUE]
  BY DEF Cut
<1>. QED
  BY <1>1, <1>3, <1>4 DEF Cut

LEMMA OutsideMoves ==
  ASSUME TypeOK, NEW d \in Devices, Outside(d)
  PROVE  /\ UNCHANGED <<link, said, heard, wire, cut>>
         /\ \A k \in Connections : \A f \in Devices :
              /\ disturbed[k] => disturbed'[k]
              /\ at'[k][f] = at[k][f] \/ (disturbed'[k] /\ at[k][f] \notin Over /\ at'[k][f] = "gone")
              /\ confirmed[k][f] # None /\ ~disturbed'[k] => confirmed'[k][f] = confirmed[k][f]
<1>1. /\ at \in [Connections -> [Devices -> Phase]] /\ disturbed \in [Connections -> BOOLEAN]
      /\ confirmed \in [Connections -> [Devices -> {None, Yes, No}]]
      /\ active_pairing \in [Devices -> Connections \cup {None}]
  BY DEF TypeOK
<1>2. UNCHANGED <<link, said, heard, wire, cut>>
  BY DEF Outside, ConfirmPairing, UnpairDevice, Restart
<1>3. ASSUME NEW answer \in {Yes, No}, ConfirmPairing(d, answer)
      PROVE  /\ at' = at
             /\ \A k \in Connections : \A f \in Devices :
                  /\ disturbed[k] => disturbed'[k]
                  /\ confirmed[k][f] # None /\ ~disturbed'[k] => confirmed'[k][f] = confirmed[k][f]
  <2>1. PICK c \in Connections :
          /\ confirmed' = [confirmed EXCEPT ![c][d] = answer]
          /\ \/ confirmed[c][d] = None /\ disturbed' = disturbed
             \/ disturbed' = [disturbed EXCEPT ![c] = TRUE]
    BY <1>1, <1>3 DEF ConfirmPairing
  <2>. QED
    BY <1>1, <1>3, <2>1 DEF ConfirmPairing
<1>4. ASSUME NEW e \in Devices, UnpairDevice(d, e) PROVE UNCHANGED <<at, confirmed, disturbed>>
  BY <1>4 DEF UnpairDevice
<1>5. ASSUME Restart(d)
      PROVE  /\ confirmed' = confirmed
             /\ \A k \in Connections : \A f \in Devices :
                  /\ disturbed[k] => disturbed'[k]
                  /\ at'[k][f] = at[k][f] \/ (disturbed'[k] /\ at[k][f] \notin Over /\ at'[k][f] = "gone")
  BY <1>1, <1>5 DEF Restart
<1>. QED
  BY <1>2, <1>3, <1>4, <1>5 DEF Outside

LEMMA NextLasts == TypeOK /\ [Next]_vars => Lasts
<1>. SUFFICES ASSUME TypeOK, [Next]_vars PROVE Lasts
  OBVIOUS
<1>1. CASE UNCHANGED vars
  BY <1>1 DEF vars, troubles, Lasts
<1>2. ASSUME NEW c \in Connections, NEW d \in Ends(c), HandlerStep(c, d) PROVE Lasts
  <2>1. /\ UNCHANGED <<link, confirmed, disturbed>>
        /\ at[c][d] \notin Over
        /\ said[c][d] => said'[c][d]
        /\ \A k \in Connections : \A f \in Devices :
             ~(k = c /\ f = d) => at'[k][f] = at[k][f] /\ said'[k][f] = said[k][f]
    BY <1>2, OneEndMoves
  <2>. QED
    BY <2>1 DEF Lasts
<1>3. ASSUME NEW c \in Connections, NEW named \in BOOLEAN, initiate_pairing(c, named) PROVE Lasts
  BY <1>3, DialMoves DEF Lasts, Over
<1>4. ASSUME NEW c \in Connections, Cut(c) PROVE Lasts
  BY <1>4, CutMoves DEF Lasts
<1>5. ASSUME NEW d \in Devices, Outside(d) PROVE Lasts
  BY <1>5, OutsideMoves DEF Lasts
<1>. QED
  BY <1>1, <1>2, <1>3, <1>4, <1>5 DEF Next, Outside

\* So what a message says remains true.
LEMMA TruthLasts ==
  ASSUME TypeOK, Lasts, NEW c \in Connections, NEW e \in Devices, NEW STATE m, Truthful(c, e, m)
  PROVE  TruthfulNext(c, e, m)
<1>1. No # None
  BY ConstantsAssumption DEF ConstantsAssumption, No
<1>2. m = Yes => said'[c][e]
  BY DEF Lasts, Truthful
<1>3. m = No /\ ~disturbed'[c] => confirmed'[c][e] = No
  BY <1>1 DEF Lasts, Truthful
<1>4. m = Stale => at'[c][e] \in Over
  BY DEF Lasts, Truthful
<1>. QED
  BY <1>2, <1>3, <1>4 DEF TruthfulNext

-----------------------------------------------------------------------------
(* Messages.                                                               *)

\* It is enough that the next messages of each queue are true.
LEMMA TrueNext ==
  ASSUME Lasts,
         \A k \in Connections : \A f \in Ends(k) : \A i \in 1..Len(wire'[k][f]) :
           TruthfulNext(k, Peer(k, f), wire'[k][f][i])
  PROVE  MessagesAreTrue'
  BY DEF MessagesAreTrue, Truthful, TruthfulNext, Lasts, Ends, Peer

\* A step that writes nothing.
LEMMA SilenceKeeps ==
  ASSUME TypeOK, MessagesAreTrue, Lasts,
         \A k \in Connections : \A f \in Devices : wire'[k][f] = wire[k][f] \/ wire'[k][f] = <<>>
  PROVE  MessagesAreTrue'
<1>1. ASSUME NEW k \in Connections, NEW f \in Ends(k), NEW i \in 1..Len(wire'[k][f])
      PROVE  TruthfulNext(k, Peer(k, f), wire'[k][f][i])
  <2>1. f \in Devices /\ Peer(k, f) \in Devices
    BY Peers DEF TypeOK
  <2>2. wire'[k][f] = wire[k][f]
    <3>1. Len(<<>>) = 0
      OBVIOUS
    <3>. QED
      BY <2>1, <3>1
  <2>3. Truthful(k, Peer(k, f), wire[k][f][i])
    BY <2>2 DEF MessagesAreTrue
  <2>. QED
    BY <2>1, <2>2, <2>3, TruthLasts
<1>. QED
  BY <1>1, TrueNext

\* A step that writes one message, which is true.
LEMMA WriteKeeps ==
  ASSUME TypeOK, MessagesAreTrue, Lasts, NEW c \in Connections, NEW d \in Ends(c),
         NEW m \in Message, Write(c, d, m), TruthfulNext(c, d, m)
  PROVE  MessagesAreTrue'
<1> DEFINE e == Peer(c, d)
           q == wire[c][e]
<1>1. d \in Devices /\ e \in Devices /\ e \in Ends(c) /\ Peer(c, e) = d
  BY Peers DEF TypeOK
<1>2. wire \in [Connections -> [Devices -> Seq(Message)]] /\ q \in Seq(Message)
  BY <1>1 DEF TypeOK
<1>3. CASE wire' = wire
  BY <1>3, SilenceKeeps
<1>4. CASE wire' = [wire EXCEPT ![c][e] = Append(q, m)]
  <2>1. ASSUME NEW i \in 1..Len(Append(q, m))
        PROVE  TruthfulNext(c, d, Append(q, m)[i])
    <3>1. Len(Append(q, m)) = Len(q) + 1 /\ Len(q) \in Nat
          /\ Append(q, m)[Len(q) + 1] = m /\ \A j \in 1..Len(q) : Append(q, m)[j] = q[j]
      BY <1>2, AppendTyped
    <3>2. i \in 1..(Len(q) + 1)
      BY <3>1
    <3>3. i \in 1..Len(q) \/ i = Len(q) + 1
      BY <3>1, <3>2, InAppended
    <3>4. CASE i = Len(q) + 1
      BY <3>1, <3>4
    <3>5. CASE i \in 1..Len(q)
      <4>1. Truthful(c, d, wire[c][e][i])
        BY <1>1, <3>5 DEF MessagesAreTrue
      <4>2. TruthfulNext(c, d, wire[c][e][i])
        BY <1>1, <4>1, TruthLasts
      <4>. QED
        BY <3>1, <3>5, <4>2
    <3>. QED
      BY <3>3, <3>4, <3>5
  <2>2. ASSUME NEW k \in Connections, NEW f \in Ends(k), NEW i \in 1..Len(wire'[k][f])
        PROVE  TruthfulNext(k, Peer(k, f), wire'[k][f][i])
    <3>1. f \in Devices /\ Peer(k, f) \in Devices
      BY Peers DEF TypeOK
    <3>2. CASE k = c /\ f = e
      <4>1. wire'[k][f] = Append(q, m)
        BY <1>1, <1>2, <1>4, <3>2
      <4>. HIDE DEF q
      <4>. QED
        BY <1>1, <2>1, <3>2, <4>1
    <3>3. CASE ~(k = c /\ f = e)
      <4>1. wire'[k][f] = wire[k][f]
        BY <1>1, <1>2, <1>4, <3>1, <3>3
      <4>2. Truthful(k, Peer(k, f), wire[k][f][i])
        BY <4>1 DEF MessagesAreTrue
      <4>. QED
        BY <3>1, <4>1, <4>2, TruthLasts
    <3>. QED
      BY <3>2, <3>3
  <2>. QED
    BY <2>2, TrueNext
<1>. QED
  BY <1>3, <1>4 DEF Write

\* A step that reads one.
LEMMA ConsumeKeeps ==
  ASSUME TypeOK, MessagesAreTrue, Lasts, NEW c \in Connections, NEW d \in Ends(c),
         NEW m, Reads(c, d, m), Consume(c, d)
  PROVE  MessagesAreTrue' /\ Truthful(c, Peer(c, d), m)
<1> DEFINE q == wire[c][d]
<1>1. d \in Devices
  BY Peers DEF TypeOK
<1>2. wire \in [Connections -> [Devices -> Seq(Message)]]
  BY DEF TypeOK
<1>3. q \in Seq(Message) /\ q # <<>> /\ wire' = [wire EXCEPT ![c][d] = Tail(q)] /\ Head(q) = m
  BY <1>1, <1>2 DEF Reads, Consume
<1>4. \A i \in 1..Len(q) : Truthful(c, Peer(c, d), q[i])
  BY DEF MessagesAreTrue
<1>. HIDE DEF q
<1>5. /\ Len(q) \in Nat /\ Len(q) > 0 /\ Len(Tail(q)) = Len(q) - 1 /\ q[1] = m
      /\ \A i \in 1..Len(Tail(q)) : Tail(q)[i] = q[i + 1]
  BY <1>3, TailTyped
<1>6. 1 \in 1..Len(q)
  BY <1>5
<1>7. Truthful(c, Peer(c, d), m)
  BY <1>4, <1>5, <1>6
<1>8. ASSUME NEW i \in 1..Len(Tail(q))
      PROVE  Truthful(c, Peer(c, d), Tail(q)[i])
  <2>1. i \in 1..(Len(q) - 1)
    BY <1>5
  <2>2. i + 1 \in 1..Len(q)
    BY <1>5, <2>1, InWhole
  <2>. QED
    BY <1>4, <1>5, <2>2
<1>9. ASSUME NEW k \in Connections, NEW f \in Ends(k), NEW i \in 1..Len(wire'[k][f])
      PROVE  TruthfulNext(k, Peer(k, f), wire'[k][f][i])
  <2>1. f \in Devices /\ Peer(k, f) \in Devices
    BY Peers DEF TypeOK
  <2>2. CASE k = c /\ f = d
    <3>1. wire'[k][f] = Tail(q)
      BY <1>1, <1>2, <1>3, <2>2
    <3>2. Truthful(c, Peer(c, d), Tail(q)[i])
      BY <1>8, <3>1
    <3>. QED
      BY <2>1, <2>2, <3>1, <3>2, TruthLasts
  <2>3. CASE ~(k = c /\ f = d)
    <3>1. wire'[k][f] = wire[k][f]
      BY <1>1, <1>2, <1>3, <2>1, <2>3
    <3>2. Truthful(k, Peer(k, f), wire[k][f][i])
      BY <3>1 DEF MessagesAreTrue
    <3>. QED
      BY <2>1, <3>1, <3>2, TruthLasts
  <2>. QED
    BY <2>2, <2>3
<1>. QED
  BY <1>7, <1>9, TrueNext

\* A handler writes No when its user refused, and Stale when it gives up.
LEMMA WritersAreTruthful ==
  ASSUME TypeOK, NEW c \in Connections, NEW d \in Ends(c),
         RejectStale(c, d) \/ Greet(c, d) \/ Say(c, d) \/ Refuse(c, d)
  PROVE  \E m \in Message : Write(c, d, m) /\ TruthfulNext(c, d, m)
<1>1. /\ d \in Devices
      /\ said \in [Connections -> [Devices -> BOOLEAN]]
      /\ at \in [Connections -> [Devices -> Phase]]
  BY Peers DEF TypeOK
<1>2. /\ Yes \in Message /\ No \in Message /\ Stale \in Message
      /\ Yes # No /\ No # Stale /\ Stale # Yes
  BY DEF Message, Yes, No, Stale
<1>3. CASE RejectStale(c, d)
  <2>1. Write(c, d, Stale) /\ at'[c][d] = "failed"
    BY <1>1, <1>3 DEF RejectStale, Goes
  <2>2. TruthfulNext(c, d, Stale)
    BY <1>2, <2>1 DEF TruthfulNext, Over
  <2>. QED
    BY <1>2, <2>1, <2>2
<1>4. CASE Greet(c, d) \/ Say(c, d)
  <2>1. Write(c, d, Yes) /\ said'[c][d]
    BY <1>1, <1>4 DEF Greet, Say
  <2>2. TruthfulNext(c, d, Yes)
    BY <1>2, <2>1 DEF TruthfulNext
  <2>. QED
    BY <1>2, <2>1, <2>2
<1>5. CASE Refuse(c, d)
  <2>1. Write(c, d, No) /\ confirmed'[c][d] = No
    BY <1>5 DEF Refuse
  <2>2. TruthfulNext(c, d, No)
    BY <1>2, <2>1 DEF TruthfulNext
  <2>. QED
    BY <1>2, <2>1, <2>2
<1>. QED
  BY <1>3, <1>4, <1>5

LEMMA NextMessages ==
  ASSUME TypeOK, MessagesAreTrue, Lasts, [Next]_vars
  PROVE  MessagesAreTrue'
<1>1. ASSUME wire' = wire PROVE MessagesAreTrue'
  BY <1>1, SilenceKeeps
<1>2. ASSUME NEW c \in Connections, NEW d \in Ends(c), HandlerStep(c, d) PROVE MessagesAreTrue'
  <2>1. CASE Silent(c, d)
    <3>1. wire' = wire
      BY <2>1 DEF Silent, HandshakeFails, Recognise, Doubt, NotGreeted, Ask, SayFails, HangUp,
           Finish, Settle
    <3>. QED
      BY <1>1, <3>1
  <2>2. CASE RejectStale(c, d) \/ Greet(c, d) \/ Say(c, d) \/ Refuse(c, d)
    BY <2>2, WritersAreTruthful, WriteKeeps
  <2>3. CASE Greeted(c, d) \/ Hear(c, d)
    BY <2>3, Readers, ConsumeKeeps
  <2>. QED
    BY <1>2, <2>1, <2>2, <2>3 DEF HandlerStep, Silent
<1>3. ASSUME NEW c \in Connections, Cut(c) PROVE MessagesAreTrue'
  BY <1>3, CutMoves, SilenceKeeps
<1>4. ASSUME NEW c \in Connections, NEW named \in BOOLEAN, initiate_pairing(c, named)
      PROVE  MessagesAreTrue'
  BY <1>1, <1>4, DialMoves
<1>5. ASSUME NEW d \in Devices, Outside(d) PROVE MessagesAreTrue'
  BY <1>1, <1>5, OutsideMoves
<1>6. ASSUME UNCHANGED vars PROVE MessagesAreTrue'
  BY <1>1, <1>6 DEF vars
<1>. QED
  BY <1>2, <1>3, <1>4, <1>5, <1>6 DEF Next, Outside

\* Only a Yes that was read makes an end believe that the other confirmed.
LEMMA NextConfirmations ==
  ASSUME TypeOK, MessagesAreTrue, ConfirmationsAreTrue, Lasts, [Next]_vars
  PROVE  ConfirmationsAreTrue'
<1>1. \A k \in Connections : \A f \in Ends(k) : f \in Devices /\ Peer(k, f) \in Devices
  BY Peers DEF TypeOK
<1>2. ASSUME \A k \in Connections : \A f \in Ends(k) :
               heard'[k][f] => heard[k][f] \/ said[k][Peer(k, f)]
      PROVE  ConfirmationsAreTrue'
  BY <1>1, <1>2 DEF ConfirmationsAreTrue, Lasts, Ends, Peer
<1>3. CASE heard' = heard
  BY <1>2, <1>3
<1>4. ASSUME NEW c \in Connections, NEW d \in Ends(c), Greeted(c, d) \/ Hear(c, d)
      PROVE  ConfirmationsAreTrue'
  <2>1. PICK m \in Message :
          /\ Reads(c, d, m) /\ Consume(c, d)
          /\ \/ heard' = heard
             \/ heard' = [heard EXCEPT ![c][d] = TRUE] /\ m = Yes
    BY <1>4, Readers
  <2>2. Truthful(c, Peer(c, d), m)
    BY <2>1, ConsumeKeeps
  <2>3. CASE heard' = [heard EXCEPT ![c][d] = TRUE] /\ m = Yes
    <3>1. said[c][Peer(c, d)]
      BY <2>2, <2>3 DEF Truthful
    <3>2. heard \in [Connections -> [Devices -> BOOLEAN]]
      BY DEF TypeOK
    <3>3. \A k \in Connections : \A f \in Devices : ~(k = c /\ f = d) => heard'[k][f] = heard[k][f]
      BY <2>3, <3>2
    <3>. QED
      BY <1>1, <1>2, <3>1, <3>3
  <2>. QED
    BY <1>3, <2>1, <2>3
<1>5. CASE heard' # heard
  <2>1. ASSUME NEW c \in Connections, NEW d \in Ends(c), HandlerStep(c, d)
        PROVE  Greeted(c, d) \/ Hear(c, d)
    BY <1>5, <2>1 DEF HandlerStep, HandshakeFails, RejectStale, Recognise, Doubt, Greet,
       NotGreeted, Ask, Say, SayFails, Refuse, HangUp, Finish, Settle
  <2>2. ASSUME UNCHANGED vars PROVE FALSE
    BY <1>5, <2>2 DEF vars
  <2>. QED
    BY <1>4, <1>5, <2>1, <2>2, DialMoves, CutMoves, OutsideMoves DEF Next, Outside
<1>. QED
  BY <1>3, <1>5

-----------------------------------------------------------------------------
(* The ends of a connection.                                               *)

LEMMA AnswersDiffer == Yes # No /\ Yes # None /\ No # None
  BY ConstantsAssumption DEF ConstantsAssumption, Yes, No

\* An end that does not move stays faithful: what it relies on lasts.
LEMMA UnmovedFaithful ==
  ASSUME TypeOK, Lasts, NEW k \in Connections, NEW f \in Ends(k), Faithful(k, f),
         at'[k][f] = at[k][f] \/ disturbed'[k],
         said'[k][f] = said[k][f], heard'[k][f] = heard[k][f],
         cut'[k] = cut[k] \/ disturbed'[k]
  PROVE  Faithful(k, f)'
<1> DEFINE e == Peer(k, f)
<1>1. f \in Devices /\ e \in Devices /\ Peer(k, f)' = e
  BY Peers, PeersStay DEF TypeOK, Lasts
<1>2. CASE disturbed'[k]
  BY <1>2 DEF Faithful
<1>3. CASE ~disturbed'[k]
  <2>1. /\ ~disturbed[k]
        /\ at[k][e] \in Over => at'[k][e] \in Over
        /\ confirmed[k][f] = Yes => confirmed'[k][f] = Yes
        /\ confirmed[k][e] = No => confirmed'[k][e] = No
    BY <1>1, <1>3, AnswersDiffer DEF Lasts
  <2>2. /\ ~cut'[k]
        /\ said[k][f] => at'[k][f] \notin {"idle", "met", "trusting", "doubting"}
        /\ said[k][f] /\ at'[k][f] \in Asked => confirmed'[k][f] = Yes
        /\ at'[k][f] \in {"closing", "rejected"} /\ said[k][f] /\ ~heard[k][f] =>
             at'[k][e] \in Over \/ confirmed'[k][e] = No
        /\ at'[k][f] = "paired" => said[k][f] /\ heard[k][f]
        /\ at'[k][f] = "rejected" => ~(said[k][f] /\ heard[k][f])
    BY <1>3, <2>1 DEF Faithful, BothConfirmed
  <2>. HIDE DEF e
  <2>. QED
    BY <1>1, <2>2 DEF Faithful, BothConfirmed
<1>. QED
  BY <1>2, <1>3

\* An end that moves relies on what it has answered, said and read.
LEMMA MovedFaithful ==
  ASSUME TypeOK, MessagesAreTrue, Lasts,
         NEW c \in Connections, NEW d \in Ends(c), Faithful(c, d), HandlerStep(c, d)
  PROVE  Faithful(c, d)'
<1> DEFINE e == Peer(c, d)
<1>1. /\ d \in Devices /\ e \in Devices /\ e # d /\ Peer(c, d)' = e
      /\ UNCHANGED <<confirmed, cut, disturbed>>
      /\ at'[c][e] = at[c][e]
  <2>1. d \in Devices /\ e \in Devices /\ e # d /\ Peer(c, d)' = e
    BY Peers, PeersStay DEF TypeOK, Lasts
  <2>2. UNCHANGED <<confirmed, cut, disturbed>>
    BY OneEndMoves
  <2>. QED
    BY <2>1, <2>2, OneEndMoves
<1>2. /\ at \in [Connections -> [Devices -> Phase]]
      /\ said \in [Connections -> [Devices -> BOOLEAN]]
      /\ heard \in [Connections -> [Devices -> BOOLEAN]]
  BY DEF TypeOK
<1>3. Yes # No /\ Yes # None /\ No # None
  BY AnswersDiffer
<1>. SUFFICES ASSUME ~disturbed[c] PROVE Faithful(c, d)'
  BY <1>1 DEF Faithful
<1>4. /\ ~cut[c]
      /\ said[c][d] => at[c][d] \notin {"idle", "met", "trusting", "doubting"}
      /\ said[c][d] /\ at[c][d] \in Asked => confirmed[c][d] = Yes
      /\ at[c][d] \in {"closing", "rejected"} /\ said[c][d] /\ ~heard[c][d] =>
           at[c][e] \in Over \/ confirmed[c][e] = No
  BY DEF Faithful
<1>5. Closed(c, d) => at[c][e] \in Over
  BY <1>4 DEF Closed
<1>. HIDE DEF e
\* What is to be shown of the end when it has moved.
<1> DEFINE Kept ==
      /\ said'[c][d] => at'[c][d] \notin {"idle", "met", "trusting", "doubting"}
      /\ said'[c][d] /\ at'[c][d] \in Asked => confirmed[c][d] = Yes
      /\ at'[c][d] \in {"closing", "rejected"} /\ said'[c][d] /\ ~heard'[c][d] =>
           at[c][e] \in Over \/ confirmed[c][e] = No
      /\ at'[c][d] = "paired" => said'[c][d] /\ heard'[c][d]
      /\ at'[c][d] = "rejected" => ~(said'[c][d] /\ heard'[c][d])
<1>6. ASSUME Kept PROVE Faithful(c, d)'
  BY <1>1, <1>4, <1>6 DEF Faithful, BothConfirmed
<1>7. CASE HandshakeFails(c, d) \/ RejectStale(c, d) \/ Recognise(c, d) \/ Doubt(c, d) \/ Ask(c, d)
  <2>1. ~said'[c][d] /\ at'[c][d] \in {"failed", "trusting", "doubting", "asking"}
    BY <1>1, <1>2, <1>4, <1>7 DEF HandshakeFails, RejectStale, Recognise, Doubt, Ask, Goes
  <2>. QED
    BY <1>6, <2>1
<1>8. CASE Greet(c, d) \/ Greeted(c, d) \/ NotGreeted(c, d)
  <2>1. at'[c][d] \in {"greeting", "resumed", "failed"}
    BY <1>1, <1>2, <1>8 DEF Greet, Greeted, NotGreeted, Goes
  <2>. QED
    BY <1>6, <2>1 DEF Asked
<1>9. CASE Say(c, d)
  <2>1. /\ said'[c][d] /\ heard'[c][d] = heard[c][d] /\ confirmed[c][d] = Yes
        /\ at'[c][d] = "asking" \/ (at'[c][d] = "closing" /\ heard[c][d])
    BY <1>1, <1>2, <1>9 DEF Say, LeaveLoop, Goes
  <2>. QED
    BY <1>6, <2>1
<1>10. CASE SayFails(c, d) \/ Refuse(c, d)
  <2>1. /\ ~said'[c][d]
        /\ at'[c][d] \in {"closing", "rejected"}
    BY <1>1, <1>2, <1>3, <1>4, <1>10 DEF SayFails, Refuse, LeaveLoop, Goes, Asked
  <2>. QED
    BY <1>6, <2>1
<1>11. CASE Hear(c, d)
  <2>1. PICK m \in Message :
          /\ Reads(c, d, m) /\ Consume(c, d)
          /\ \/ m = Yes /\ heard'[c][d] /\ at'[c][d] \in {"asking", "closing"}
             \/ m # Yes /\ heard' = heard /\ at'[c][d] = "closing"
    BY <1>1, <1>2, <1>11 DEF Hear, Confirms, LeaveLoop, Goes
  <2>2. Truthful(c, e, m)
    BY <2>1, ConsumeKeeps DEF e
  <2>3. m # Yes => at[c][e] \in Over \/ confirmed[c][e] = No
    BY <2>1, <2>2 DEF Truthful, Message
  <2>4. said' = said /\ at[c][d] = "asking"
    BY <1>11 DEF Hear
  <2>. QED
    BY <1>4, <1>6, <2>1, <2>3, <2>4 DEF Asked
<1>12. CASE HangUp(c, d) \/ Finish(c, d)
  <2>1. /\ said' = said /\ heard' = heard /\ at[c][d] = "asking" /\ at'[c][d] = "closing"
        /\ at[c][e] \in Over \/ BothConfirmed(c, d)
    BY <1>1, <1>2, <1>5, <1>12 DEF HangUp, Finish, LeaveLoop, Goes
  <2>. QED
    BY <1>4, <1>6, <2>1 DEF Asked, BothConfirmed
<1>13. CASE Settle(c, d)
  <2>1. /\ said' = said /\ heard' = heard /\ at[c][d] = "closing"
        /\ at'[c][d] = IF BothConfirmed(c, d) THEN "paired" ELSE "rejected"
    BY <1>1, <1>2, <1>13 DEF Settle, Goes
  <2>. QED
    BY <1>4, <1>6, <2>1 DEF Asked, BothConfirmed
<1>. QED
  BY <1>7, <1>8, <1>9, <1>10, <1>11, <1>12, <1>13 DEF HandlerStep

LEMMA NextFaithful ==
  ASSUME TypeOK, MessagesAreTrue, EndsAreFaithful, Lasts, [Next]_vars
  PROVE  EndsAreFaithful'
<1>1. \A k \in Connections : \A f \in Ends(k) : f \in Devices
  BY Peers DEF TypeOK
<1>2. ASSUME \A k \in Connections : \A f \in Ends(k) : Faithful(k, f)'
      PROVE  EndsAreFaithful'
  BY <1>2 DEF EndsAreFaithful, Lasts, Ends
<1>3. ASSUME NEW c \in Connections, NEW d \in Ends(c), HandlerStep(c, d)
      PROVE  EndsAreFaithful'
  <2>1. ASSUME NEW k \in Connections, NEW f \in Ends(k) PROVE Faithful(k, f)'
    <3>1. Faithful(k, f)
      BY DEF EndsAreFaithful
    <3>2. CASE k = c /\ f = d
      BY <1>3, <3>1, <3>2, MovedFaithful
    <3>3. CASE ~(k = c /\ f = d)
      <4>1. /\ at'[k][f] = at[k][f] /\ said'[k][f] = said[k][f]
            /\ heard'[k][f] = heard[k][f] /\ cut'[k] = cut[k]
        BY <1>1, <1>3, <3>3, OneEndMoves
      <4>. QED
        BY <3>1, <4>1, UnmovedFaithful
    <3>. QED
      BY <3>2, <3>3
  <2>. QED
    BY <1>2, <2>1
<1>4. ASSUME \/ UNCHANGED vars
             \/ \E c \in Connections : Cut(c)
             \/ \E d \in Devices : Outside(d)
      PROVE  EndsAreFaithful'
  <2>1. ASSUME NEW k \in Connections, NEW f \in Ends(k) PROVE Faithful(k, f)'
    <3>1. Faithful(k, f)
      BY DEF EndsAreFaithful
    <3>2. /\ at'[k][f] = at[k][f] \/ disturbed'[k]
          /\ said'[k][f] = said[k][f] /\ heard'[k][f] = heard[k][f]
          /\ cut'[k] = cut[k] \/ disturbed'[k]
      <4>1. CASE UNCHANGED vars
        BY <4>1 DEF vars, troubles
      <4>2. ASSUME NEW c \in Connections, Cut(c)
            PROVE  /\ UNCHANGED <<at, said, heard>>
                   /\ cut'[k] = cut[k] \/ disturbed'[k]
        BY <4>2, CutMoves
      <4>3. ASSUME NEW d \in Devices, Outside(d)
            PROVE  /\ UNCHANGED <<said, heard, cut>>
                   /\ at'[k][f] = at[k][f] \/ disturbed'[k]
        BY <1>1, <4>3, OutsideMoves
      <4>. QED
        BY <1>4, <4>1, <4>2, <4>3
    <3>. QED
      BY <3>1, <3>2, UnmovedFaithful
  <2>. QED
    BY <1>2, <2>1
<1>5. ASSUME NEW c \in Connections, NEW named \in BOOLEAN, initiate_pairing(c, named)
      PROVE  EndsAreFaithful'
  <2>1. ASSUME NEW k \in Connections, NEW f \in Ends(k) PROVE Faithful(k, f)'
    <3>1. Faithful(k, f)
      BY DEF EndsAreFaithful
    <3>2. UNCHANGED <<said, heard, cut, disturbed>>
      BY <1>5, DialMoves
    <3>3. CASE at'[k][f] = at[k][f]
      BY <3>1, <3>2, <3>3, UnmovedFaithful
    <3>4. CASE at[k][f] = "idle" /\ at'[k][f] = "met"
      BY <3>1, <3>2, <3>4 DEF Faithful, BothConfirmed, Asked
    <3>. QED
      BY <1>1, <1>5, <3>3, <3>4, DialMoves
  <2>. QED
    BY <1>2, <2>1
<1>. QED
  BY <1>3, <1>4, <1>5 DEF Next, Outside

-----------------------------------------------------------------------------
(* The inductive invariant.                                                *)

LEMMA InitHolds == Init => IInv
<1>. SUFFICES ASSUME Init PROVE IInv
  OBVIOUS
<1>1. link \in Topologies
  BY DEF Init
<1>2. paired \in [Devices -> SUBSET Devices] /\ \A d \in Devices : d \notin paired[d]
  BY DEF Init, Linked
<1>3. <<>> \in Seq(Message) /\ 0 \in 0..MaxChanges
  BY ConstantsAssumption DEF ConstantsAssumption
<1>4. TypeOK
  BY <1>1, <1>2, <1>3 DEF Init, TypeOK, ForEnds, Phase
<1>5. \A c \in Connections : \A d \in Ends(c) :
        Len(wire[c][d]) = 0 /\ ~said[c][d] /\ ~heard[c][d] /\ at[c][d] = "idle" /\ ~cut[c]
  BY <1>1, Peers DEF Init, ForEnds
<1>6. MessagesAreTrue /\ ConfirmationsAreTrue
  BY <1>5 DEF MessagesAreTrue, ConfirmationsAreTrue
<1>7. EndsAreFaithful
  BY <1>5 DEF EndsAreFaithful, Faithful, Asked
<1>. QED
  BY <1>4, <1>6, <1>7 DEF IInv

LEMMA NextKeeps == IInv /\ [Next]_vars => IInv'
<1>. SUFFICES ASSUME IInv, [Next]_vars PROVE IInv'
  OBVIOUS
<1>1. TypeOK' /\ Lasts
  BY NextTyped, NextLasts DEF IInv
<1>2. MessagesAreTrue' /\ ConfirmationsAreTrue' /\ EndsAreFaithful'
  BY <1>1, NextMessages, NextConfirmations, NextFaithful DEF IInv
<1>. QED
  BY <1>1, <1>2 DEF IInv

LEMMA Invariance == Spec => []IInv
  BY InitHolds, NextKeeps, PTL DEF Spec

-----------------------------------------------------------------------------
(* What the specification promises.                                        *)

\* Every reachable state is well typed; in particular no device is paired with itself.
THEOREM TypeCorrect == Spec => []TypeOK
<1>1. IInv => TypeOK
  BY DEF IInv
<1>. QED
  BY Invariance, <1>1, PTL

\* A confirmation that was read was written by the other end of the connection.
THEOREM ConfirmationsAreReal == Spec => []HeardWasSaid
<1>1. IInv => HeardWasSaid
  BY DEF IInv, MessagesAreTrue, ConfirmationsAreTrue, Truthful, HeardWasSaid
<1>. QED
  BY Invariance, <1>1, PTL

\* Only Greet and Settle write to a table of paired devices.
LEMMA OnlyConfirmedArePaired ==
  ASSUME IInv, [Next]_vars, NEW d \in Devices, NEW e \in Devices,
         e \in paired'[d], e \notin paired[d]
  PROVE  \E c \in Connections :
           /\ Ends(c) = {d, e}
           /\ (said[c][d] /\ said[c][e]) \/ at[c][d] = "trusting"
<1>1. TypeOK /\ link \in Topologies /\ paired \in [Devices -> SUBSET Devices]
  BY DEF IInv, TypeOK
<1>2. ASSUME NEW f \in Devices, NEW g \in Devices, UnpairDevice(f, g) PROVE FALSE
  BY <1>1, <1>2 DEF UnpairDevice
<1> DEFINE Adds(c, f) == Greet(c, f) \/ (Settle(c, f) /\ BothConfirmed(c, f))
<1>3. \E c \in Connections : \E f \in Ends(c) : Adds(c, f)
  <2>1. paired' # paired
    OBVIOUS
  <2>2. ASSUME NEW c \in Connections, NEW f \in Ends(c), HandlerStep(c, f)
        PROVE  Adds(c, f)
    BY <2>1, <2>2 DEF HandlerStep, HandshakeFails, RejectStale, Recognise, Doubt, Greeted,
         NotGreeted, Ask, Say, SayFails, Refuse, Hear, HangUp, Finish, Settle
  <2>3. ASSUME \/ \E c \in Connections : Cut(c) \/ \E named \in BOOLEAN : initiate_pairing(c, named)
               \/ \E f \in Devices : Restart(f) \/ \E answer \in {Yes, No} : ConfirmPairing(f, answer)
               \/ UNCHANGED vars
        PROVE  FALSE
    BY <2>1, <2>3 DEF Cut, initiate_pairing, Restart, ConfirmPairing, vars
  <2>. HIDE DEF Adds
  <2>. QED
    BY <1>2, <2>2, <2>3 DEF Next
<1>4. PICK c \in Connections : \E f \in Ends(c) : Adds(c, f)
  BY <1>3
<1>5. PICK f \in Ends(c) : Adds(c, f)
  BY <1>4
<1>6. /\ f \in Devices /\ Ends(c) = {f, Peer(c, f)} /\ add_paired_device(f, Peer(c, f))
      /\ Peer(c, f) \in Devices
  BY <1>1, <1>5, Peers DEF Greet, Settle
<1>7. d = f /\ e = Peer(c, f)
  BY <1>1, <1>6 DEF add_paired_device
<1>8. CASE Greet(c, f)
  BY <1>6, <1>7, <1>8 DEF Greet
<1>9. CASE BothConfirmed(c, f)
  BY <1>6, <1>7, <1>9 DEF BothConfirmed, IInv, ConfirmationsAreTrue
<1>. QED
  BY <1>5, <1>8, <1>9

\* No device is paired by less than the confirmation of both ends.
THEOREM NoneIsPairedAlone == Spec => PairedByBoth
<1>1. ASSUME IInv, [Next]_vars
      PROVE  [\A d, e \in Devices : e \in paired'[d] /\ e \notin paired[d] =>
                \E c \in Connections :
                  /\ Ends(c) = {d, e}
                  /\ (said[c][d] /\ said[c][e]) \/ at[c][d] = "trusting"]_vars
  BY <1>1, OnlyConfirmedArePaired
<1>. QED
  BY <1>1, Invariance, PTL DEF Spec, PairedByBoth

\* The users of an undisturbed connection never end with one device paired and the
\* other not: who is paired has heard a Yes, and who wrote it and gave up relied on a
\* refusal, or on an end that was over.
THEOREM SameForBoth == Spec => []SameOutcome
<1>1. ASSUME IInv, NEW c \in Connections, NEW d \in Ends(c), ~disturbed[c],
             at[c][d] = "paired", at[c][Peer(c, d)] = "rejected"
      PROVE  FALSE
  <2> DEFINE e == Peer(c, d)
  <2>1. e \in Ends(c) /\ Peer(c, e) = d
    BY <1>1, Peers DEF IInv, TypeOK
  <2>2. said[c][d] /\ heard[c][d] /\ confirmed[c][d] = Yes
    BY <1>1 DEF IInv, EndsAreFaithful, Faithful, BothConfirmed, Asked
  <2>3. said[c][e]
    BY <1>1, <2>2 DEF IInv, ConfirmationsAreTrue
  <2>4. Faithful(c, e)
    BY <1>1, <2>1 DEF IInv, EndsAreFaithful
  <2>. HIDE DEF e
  <2>5. at[c][e] = "rejected"
    BY <1>1 DEF e
  <2>6. at[c][d] \in Over \/ confirmed[c][d] = No
    BY <1>1, <2>1, <2>3, <2>4, <2>5 DEF Faithful, BothConfirmed
  <2>. QED
    BY <1>1, <2>2, <2>6, AnswersDiffer DEF Over
<1>2. IInv => SameOutcome
  BY <1>1 DEF SameOutcome
<1>. QED
  BY <1>2, Invariance, PTL

-----------------------------------------------------------------------------
(* The slot.                                                               *)

\* A handler that has asked its user has done so ever after, unless its agent
\* stops; and who starts to ask takes the slot.
LEMMA AskedStays ==
  ASSUME TypeOK, [Next]_vars, NEW k \in Connections, NEW f \in Devices, ~Restart(f)
  PROVE  /\ at[k][f] \in Asked => at'[k][f] \in Asked
         /\ at'[k][f] = "asking" /\ at[k][f] # "asking" => active_pairing'[f] = k
<1>1. at \in [Connections -> [Devices -> Phase]] /\ link \in Topologies
      /\ active_pairing \in [Devices -> Connections \cup {None}]
  BY DEF TypeOK
<1>2. ASSUME NEW c \in Connections, NEW d \in Ends(c), HandlerStep(c, d)
      PROVE  \E phase \in Phase \ {"idle"} :
               /\ at' = at \/ Goes(c, d, phase)
               /\ at[c][d] \in Asked => phase \in Asked
               /\ phase = "asking" => active_pairing' = [active_pairing EXCEPT ![d] = c]
  BY <1>2 DEF HandlerStep, HandshakeFails, RejectStale, Recognise, Doubt, Greet, Greeted,
       NotGreeted, Ask, Say, SayFails, Refuse, Hear, HangUp, Finish, Settle, LeaveLoop,
       Phase, Asked, Over
<1>3. ASSUME NEW c \in Connections, NEW d \in Ends(c), HandlerStep(c, d)
      PROVE  /\ at[k][f] \in Asked => at'[k][f] \in Asked
             /\ at'[k][f] = "asking" /\ at[k][f] # "asking" => active_pairing'[f] = k
  <2>1. d \in Devices
    BY <1>1, Peers
  <2>. QED
    BY <1>1, <1>2, <1>3, <2>1 DEF Goes
<1>4. ASSUME NEW c \in Connections, NEW named \in BOOLEAN, initiate_pairing(c, named)
      PROVE  /\ at[k][f] \in Asked => at'[k][f] \in Asked
             /\ at'[k][f] = "asking" => at[k][f] = "asking"
  <2>1. \A d \in Ends(c) : at[c][d] \notin Asked
    BY <1>4 DEF initiate_pairing, Asked
  <2>2. at'[k][f] = IF k = c /\ f \in Ends(c) THEN "met" ELSE at[k][f]
    BY <1>1, <1>4 DEF initiate_pairing
  <2>. QED
    BY <2>1, <2>2
<1>5. ASSUME NEW d \in Devices, Restart(d)
      PROVE  at'[k][f] = at[k][f]
  BY <1>5 DEF Restart
<1>6. ASSUME \/ \E c \in Connections : Cut(c)
             \/ \E d \in Devices : \/ \E answer \in {Yes, No} : ConfirmPairing(d, answer)
                                   \/ \E e \in Devices : UnpairDevice(d, e)
             \/ UNCHANGED vars
      PROVE  at' = at
  BY <1>6 DEF Cut, ConfirmPairing, UnpairDevice, vars
<1>. QED
  BY <1>3, <1>4, <1>5, <1>6 DEF Next

\* The slot changes hands only when a pairing starts to ask or ends, or with a
\* restart.
LEMMA SlotChanges ==
  ASSUME TypeOK, [Next]_vars, NEW f \in Devices, active_pairing'[f] # active_pairing[f], ~Restart(f)
  PROVE  \E k \in Connections :
           /\ f \in Ends(k)
           /\ \/ at'[k][f] = "asking" /\ active_pairing'[f] = k
              \/ at'[k][f] = "closing"
<1>1. at \in [Connections -> [Devices -> Phase]] /\ link \in Topologies
      /\ active_pairing \in [Devices -> Connections \cup {None}]
  BY DEF TypeOK
<1>2. ASSUME NEW d \in Devices, Restart(d) PROVE FALSE
  BY <1>1, <1>2 DEF Restart
<1>3. ASSUME NEW c \in Connections, NEW d \in Ends(c), HandlerStep(c, d)
      PROVE  \/ active_pairing' = active_pairing
             \/ active_pairing' = [active_pairing EXCEPT ![d] = c] /\ Goes(c, d, "asking")
             \/ active_pairing' = [active_pairing EXCEPT ![d] = None] /\ Goes(c, d, "closing")
  BY <1>3 DEF HandlerStep, HandshakeFails, RejectStale, Recognise, Doubt, Greet, Greeted,
       NotGreeted, Ask, Say, SayFails, Refuse, Hear, HangUp, Finish, Settle, LeaveLoop
<1>4. ASSUME \/ \E c \in Connections : Cut(c) \/ \E named \in BOOLEAN : initiate_pairing(c, named)
             \/ \E d \in Devices : \/ \E answer \in {Yes, No} : ConfirmPairing(d, answer)
                                   \/ \E e \in Devices : UnpairDevice(d, e)
             \/ UNCHANGED vars
      PROVE  FALSE
  BY <1>4 DEF Cut, initiate_pairing, ConfirmPairing, UnpairDevice, vars
<1>5. ASSUME NEW c \in Connections, NEW d \in Ends(c), HandlerStep(c, d)
      PROVE  /\ d = f
             /\ \/ at'[c][f] = "asking" /\ active_pairing'[f] = c
                \/ at'[c][f] = "closing"
  <2>1. d \in Devices
    BY <1>1, Peers
  <2>. QED
    BY <1>1, <1>3, <1>5, <2>1 DEF Goes
<1>. QED
  BY <1>2, <1>4, <1>5 DEF Next

LEMMA AnswerableNext ==
  ASSUME TypeOK, CanBeAnswered, [Next]_vars
  PROVE  CanBeAnswered'
<1>1. link' = link /\ link \in Topologies /\ at \in [Connections -> [Devices -> Phase]]
  BY NextLasts DEF Lasts, TypeOK
<1>. SUFFICES ASSUME NEW c \in Connections, NEW d \in Ends(c),
                     at'[c][d] = "asking", active_pairing'[d] # c
              PROVE \E other \in Connections \ {c} : d \in Ends(other) /\ at'[other][d] \in Asked
  BY <1>1 DEF CanBeAnswered, Ends
<1>2. d \in Devices
  BY <1>1, Peers
<1>3. ~Restart(d)
  <2>1. ASSUME Restart(d) PROVE at'[c][d] \in {"gone", "idle"} \cup Over
    BY <1>1, <1>2, <2>1 DEF Restart
  <2>. QED
    BY <2>1 DEF Over
<1>4. at[c][d] = "asking"
  BY <1>2, <1>3, AskedStays
<1>5. CASE active_pairing'[d] = active_pairing[d]
  <2>1. PICK other \in Connections \ {c} : d \in Ends(other) /\ at[other][d] \in Asked
    BY <1>4, <1>5 DEF CanBeAnswered
  <2>2. at'[other][d] \in Asked
    BY <1>2, <1>3, <2>1, AskedStays
  <2>. QED
    BY <2>1, <2>2
<1>6. CASE active_pairing'[d] # active_pairing[d]
  <2>1. PICK k \in Connections :
          /\ d \in Ends(k)
          /\ \/ at'[k][d] = "asking" /\ active_pairing'[d] = k
             \/ at'[k][d] = "closing"
    BY <1>2, <1>3, <1>6, SlotChanges
  <2>. QED
    BY <2>1 DEF Asked
<1>. QED
  BY <1>5, <1>6

\* A user can answer every pairing that asks, unless the device is asked twice.
THEOREM AlwaysAnswerable == Spec => []CanBeAnswered
<1>1. Init => CanBeAnswered
  <2>1. ASSUME Init, NEW c \in Connections, NEW d \in Ends(c) PROVE at[c][d] = "idle"
    BY <2>1, Peers DEF Init, ForEnds
  <2>. QED
    BY <2>1 DEF CanBeAnswered
<1>2. IInv /\ CanBeAnswered /\ [Next]_vars => CanBeAnswered'
  BY AnswerableNext DEF IInv
<1>. QED
  BY <1>1, <1>2, Invariance, PTL DEF Spec
=============================================================================
