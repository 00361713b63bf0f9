--------------------------- MODULE PeerSyncProofs ---------------------------
(***************************************************************************)
(* Theorems about PeerSync, for any number of devices, times, changes and  *)
(* acts: what a revocation leaves in the maps of peers, of what kinds the  *)
(* state is, and that settings agree and no text is lost when all are      *)
(* connected and quiet.                                                    *)
(*                                                                         *)
(* The last two follow one argument.  Something that gets to everyone has  *)
(* a device that keeps it, and for every other device with which that one  *)
(* is linked it is already there, or a message is under way after which it *)
(* will be: the thing itself, a greeting that is due, or a document that   *)
(* will be answered.  Messages stay until they are handled as long as the  *)
(* two are linked, and being linked anew comes with a greeting.            *)
(***************************************************************************)
EXTENDS PeerSync, SequenceTheorems, WellFoundedInduction, TLAPS

\* The maps are functions on the devices, and no device is in its own.
MapsInStep ==
  /\ peers \in [Devices -> SUBSET Devices]
  /\ revoked = [d \in Devices |-> revoked[d]]
  /\ \A d \in Devices : d \notin peers[d]

IInv == MapsInStep /\ NothingForRevoked

LEMMA InitEstablishes == Init => IInv
  BY DEF Init, IInv, MapsInStep, NothingForRevoked

\* Most actions touch neither the maps nor the revocations.
LEMMA UntouchedKeeps == IInv /\ UNCHANGED <<revoked, peers, late>> => IInv'
  BY DEF IInv, MapsInStep, NothingForRevoked

\* Who is recorded as revoked leaves the map with it.
LEMMA RevokeOtherKeeps ==
  ASSUME IInv, NEW d \in Devices, NEW e, NEW links, RevokeOther(d, e, links), UNCHANGED late
  PROVE  IInv'
<1>1. /\ revoked' = [revoked EXCEPT ![d] = @ \cup {e}]
      /\ peers' = [peers EXCEPT ![d] = @ \ {e}]
  BY DEF RevokeOther, record_revoked_device, remove_peer
<1>2. MapsInStep'
  BY <1>1 DEF IInv, MapsInStep
<1>3. NothingForRevoked'
  BY <1>1 DEF IInv, MapsInStep, NothingForRevoked
<1> QED BY <1>2, <1>3 DEF IInv

\* A device that is locked out records itself, whom its map does not have.
LEMMA LockOutKeeps ==
  ASSUME IInv, NEW d \in Devices, NEW links, LockOut(d, links), UNCHANGED late
  PROVE  IInv'
<1>1. revoked' = [revoked EXCEPT ![d] = @ \cup {d}] /\ UNCHANGED peers
  BY DEF LockOut, record_revoked_device
<1> QED BY <1>1 DEF IInv, MapsInStep, NothingForRevoked

LEMMA OnRevocationKeeps ==
  ASSUME IInv, NEW d \in Devices, NEW x, NEW links, OnRevocation(d, x, links)
  PROVE  IInv'
<1>1. UNCHANGED late
  BY DEF OnRevocation
<1>2. CASE UNCHANGED <<revoked, peers>>
  BY <1>1, <1>2, UntouchedKeeps
<1>3. CASE RevokeOther(d, x, links)
  BY <1>1, <1>3, RevokeOtherKeeps
<1>4. CASE LockOut(d, links)
  BY <1>1, <1>4, LockOutKeeps
<1> QED BY <1>2, <1>3, <1>4 DEF OnRevocation

\* A session that begins brings its two devices into each other's map, and is
\* remembered if one had recorded that the other is revoked.
LEMMA JoinKeeps ==
  ASSUME IInv, NEW p \in Pairs, NEW kind, Join(p, kind)
  PROVE  IInv'
<1>1. /\ peers' = [d \in Devices |-> IF d \in p THEN peers[d] \cup (p \ {d}) ELSE peers[d]]
      /\ late' = late \cup {q \in p \X p : is_device_revoked(q[1], q[2])}
      /\ UNCHANGED revoked
  BY DEF Join
<1>2. p \subseteq Devices
  BY DEF Pairs
<1>3. MapsInStep'
  BY <1>1, <1>2 DEF IInv, MapsInStep
<1>4. ASSUME NEW d \in Devices, NEW e, e \in peers'[d], e \in revoked'[d]
      PROVE  <<d, e>> \in late'
  <2>1. CASE e \in peers[d]
    BY <1>1, <1>4, <2>1 DEF IInv, NothingForRevoked
  <2>2. CASE d \in p /\ e \in p \ {d}
    <3>1. <<d, e>> \in p \X p /\ is_device_revoked(d, e)
      BY <1>1, <1>4, <2>2 DEF is_device_revoked
    <3> QED BY <1>1, <3>1
  <2> QED BY <1>1, <1>4, <2>1, <2>2
<1> QED BY <1>3, <1>4 DEF IInv, NothingForRevoked

LEMMA BreakShrinks ==
  ASSUME peers \in [Devices -> SUBSET Devices],
         NEW d \in Devices, NEW e \in Devices \ {d}, Break(d, e)
  PROVE  /\ peers' \in [Devices -> SUBSET Devices]
         /\ \A x \in Devices : peers'[x] \subseteq peers[x]
<1>1. PICK left : peers' = [a \in Devices |->
                            IF a \in {d, e} \ left THEN peers[a] \ {d, e} ELSE peers[a]]
  BY DEF Break
<1> QED BY <1>1

\* The ends of a session that breaks leave each other's map, if they do.
LEMMA BreakKeeps ==
  ASSUME IInv, NEW d \in Devices, NEW e \in Devices \ {d}, Break(d, e)
  PROVE  IInv'
<1>1. UNCHANGED <<revoked, late>>
  BY DEF Break, tables
<1>2. MapsInStep'
  BY <1>1, BreakShrinks DEF IInv, MapsInStep
<1>3. \A x \in Devices : peers'[x] \subseteq peers[x]
  BY BreakShrinks DEF IInv, MapsInStep
<1>4. NothingForRevoked'
  BY <1>1, <1>3 DEF IInv, NothingForRevoked
<1> QED BY <1>2, <1>4 DEF IInv

LEMMA StepKeeps == IInv /\ [Next]_vars => IInv'
<1> SUFFICES ASSUME IInv, [Next]_vars PROVE IInv'
  OBVIOUS
<1>1. ASSUME NEW d \in Devices, NEW t \in Times, SetState(d, t) \/ UpdateSetting(d, t)
      PROVE  IInv'
  BY <1>1, UntouchedKeeps DEF SetState, UpdateSetting, Write, tables, sessions
<1>2. ASSUME NEW d \in Devices, SaveNote(d) \/ DeleteNote(d)
      PROVE  IInv'
  BY <1>2, UntouchedKeeps DEF SaveNote, DeleteNote, tables, sessions
<1>3. ASSUME NEW d \in Devices, NEW e \in Devices \ {d},
             SettingChanged(d, e) \/ ApplyNoteSync(d, e) \/ ApplyNoteDelete(d, e) \/ Greet(d, e)
      PROVE  IInv'
  BY <1>3, UntouchedKeeps DEF SettingChanged, ApplyNoteSync, ApplyNoteDelete, Greet, tables, sessions
<1>4. ASSUME NEW d \in Devices, NEW e \in Devices \ {d}, RevokeDevice(d, e)
      PROVE  IInv'
  BY <1>4, RevokeOtherKeeps DEF RevokeDevice
<1>5. ASSUME NEW d \in Devices, NEW e, DeviceRevocation(d, e) \/ RelayedRevocation(d, e)
      PROVE  IInv'
  BY <1>5, OnRevocationKeeps DEF DeviceRevocation, RelayedRevocation
<1>6. ASSUME NEW d \in Devices, NEW e \in Devices \ {d}, Break(d, e)
      PROVE  IInv'
  BY <1>6, BreakKeeps
<1>7. ASSUME NEW p \in Pairs, Handshake(p)
      PROVE  IInv'
  BY <1>7, UntouchedKeeps DEF Handshake, tables
<1>8. ASSUME NEW p \in Pairs, NEW kind, Join(p, kind)
      PROVE  IInv'
  BY <1>8, JoinKeeps
<1>9. CASE UNCHANGED vars
  BY <1>9, UntouchedKeeps DEF vars, tables, sessions
<1> QED BY <1>1, <1>2, <1>3, <1>4, <1>5, <1>6, <1>7, <1>8, <1>9 DEF Next

\* A device has one that it knows to be revoked in its map of peers only when their
\* session was being opened as the revocation was recorded, for any number of devices
\* and whatever revocations, sessions and messages cross (lib.rs, RevokeDevice).
THEOREM RevokedLeaveTheMap == Spec => []NothingForRevoked
<1>1. IInv => NothingForRevoked
  BY DEF IInv
<1> QED BY <1>1, InitEstablishes, StepKeeps, PTL DEF Spec
-----------------------------------------------------------------------------
(* Types.  A counter is 1 more than the greatest of those it follows, so   *)
(* that it stays below the number of its change.  That numbers below a     *)
(* bound have a greatest one is well-founded induction on the gaps to it.  *)

LEMMA LeastExists ==
  ASSUME NEW T, T \subseteq Nat, T # {}
  PROVE  \E x \in T : \A y \in T : x <= y
<1> DEFINE Less == OpToRel(<, Nat)
<1>1. IsWellFoundedOn(Less, Nat)
  BY NatLessThanWellFounded
<1>2. ASSUME NEW x \in Nat, NEW y \in Nat, y < x PROVE <<y, x>> \in Less
  BY <1>2 DEF OpToRel
<1> HIDE DEF Less
<1>3. PICK x \in T : \A y \in T : <<y, x>> \notin Less
  BY <1>1, WFMin
<1>4. ASSUME NEW y \in T PROVE x <= y
  <2>1. x \in Nat /\ y \in Nat
    OBVIOUS
  <2>2. ~(y < x)
    BY <1>2, <1>3, <2>1
  <2> QED BY <2>1, <2>2
<1> QED BY <1>4

LEMMA MaxIsGreatest ==
  ASSUME NEW n \in Nat, NEW T, T \subseteq 0..n, T # {}
  PROVE  Max(T) \in T /\ \A y \in T : y <= Max(T)
<1> DEFINE Gap == {g \in 0..n : n - g \in T}
<1>1. ASSUME NEW y \in T PROVE n - y \in Gap
  <2>1. y \in 0..n /\ n - y \in 0..n
    OBVIOUS
  <2>2. n - (n - y) = y
    BY <2>1
  <2> QED BY <2>1, <2>2
<1>2. Gap \subseteq Nat /\ Gap # {}
  <2>1. PICK y \in T : TRUE
    OBVIOUS
  <2>2. n - y \in Gap
    BY <1>1
  <2>3. Gap \subseteq Nat
    OBVIOUS
  <2> HIDE DEF Gap
  <2> QED BY <2>2, <2>3
<1>3. PICK g \in Gap : \A h \in Gap : g <= h
  <2> HIDE DEF Gap
  <2> QED BY <1>2, LeastExists
<1>4. n - g \in T
  OBVIOUS
<1>5. ASSUME NEW y \in T PROVE n - g >= y
  <2>1. n - y >= g
    BY <1>1, <1>3
  <2>2. y \in Nat /\ g \in Nat
    OBVIOUS
  <2> QED BY <2>1, <2>2
<1>6. Max(T) \in T /\ \A y \in T : Max(T) >= y
  BY <1>4, <1>5 DEF Max
<1>7. \A y \in T : y \in Nat
  OBVIOUS
<1> HIDE DEF Gap
<1> QED BY <1>6, <1>7

\* What is in a sequence after the steps that sequences take.
LEMMA RangeOfAppend ==
  ASSUME NEW S, NEW s \in Seq(S), NEW m \in S
  PROVE  Append(s, m) \in Seq(S) /\ Range(Append(s, m)) = Range(s) \cup {m}
<1>1. /\ Len(Append(s, m)) = Len(s) + 1 /\ Append(s, m)[Len(s) + 1] = m
      /\ \A i \in 1..Len(s) : Append(s, m)[i] = s[i]
  OBVIOUS
<1>2. DOMAIN s = 1..Len(s) /\ DOMAIN Append(s, m) = 1..Len(s) + 1 /\ Len(s) \in Nat
  OBVIOUS
<1>3. ASSUME NEW x \in Range(Append(s, m)) PROVE x \in Range(s) \cup {m}
  <2>1. PICK i \in 1..Len(s) + 1 : x = Append(s, m)[i]
    BY <1>2 DEF Range
  <2> QED BY <1>1, <1>2, <2>1 DEF Range
<1>4. ASSUME NEW x \in Range(s) PROVE x \in Range(Append(s, m))
  BY <1>1, <1>2, <1>4 DEF Range
<1>5. m \in Range(Append(s, m))
  BY <1>1, <1>2 DEF Range
<1> QED BY <1>3, <1>4, <1>5

LEMMA RangeOfTail ==
  ASSUME NEW S, NEW s \in Seq(S), s # <<>>
  PROVE  Tail(s) \in Seq(S) /\ Head(s) \in S /\ Range(s) = {Head(s)} \cup Range(Tail(s))
<1>1. /\ Head(s) \in S /\ Tail(s) \in Seq(S) /\ Len(Tail(s)) = Len(s) - 1 /\ Head(s) = s[1]
      /\ \A i \in 1..Len(Tail(s)) : Tail(s)[i] = s[i + 1]
  BY HeadTailProperties
<1>2. /\ DOMAIN s = 1..Len(s) /\ DOMAIN Tail(s) = 1..Len(Tail(s))
      /\ Len(s) \in Nat /\ Len(s) # 0
  BY <1>1, EmptySeq
<1>3. ASSUME NEW x \in Range(s) PROVE x \in {Head(s)} \cup Range(Tail(s))
  <2>1. PICK i \in 1..Len(s) : x = s[i]
    BY <1>2 DEF Range
  <2>2. CASE i # 1
    <3>1. i - 1 \in 1..Len(Tail(s)) /\ (i - 1) + 1 = i
      BY <1>1, <1>2, <2>2
    <3> QED BY <1>1, <1>2, <2>1, <3>1 DEF Range
  <2> QED BY <1>1, <2>1, <2>2
<1>4. ASSUME NEW x \in Range(Tail(s)) PROVE x \in Range(s)
  <2>1. PICK i \in 1..Len(Tail(s)) : x = Tail(s)[i]
    BY <1>2 DEF Range
  <2> QED BY <1>1, <1>2, <2>1 DEF Range
<1>5. Head(s) \in Range(s)
  BY <1>1, <1>2 DEF Range
<1> QED BY <1>1, <1>3, <1>4, <1>5

LEMMA RangeOfPrefix ==
  ASSUME NEW S, NEW s \in Seq(S), NEW n \in 0..Len(s)
  PROVE  SubSeq(s, 1, n) \in Seq(S) /\ Range(SubSeq(s, 1, n)) \subseteq Range(s)
<1>1. /\ SubSeq(s, 1, n) \in Seq(S) /\ Len(SubSeq(s, 1, n)) = n
      /\ \A i \in 1..n : SubSeq(s, 1, n)[i] = s[i]
  OBVIOUS
<1>2. DOMAIN s = 1..Len(s) /\ DOMAIN SubSeq(s, 1, n) = 1..n /\ Len(s) \in Nat
  BY <1>1
<1> QED BY <1>1, <1>2 DEF Range

LEMMA RangeOfInsertAt ==
  ASSUME NEW S, NEW s \in Seq(S), NEW e \in S, NEW place \in 1..Len(s) + 1
  PROVE  InsertAt(s, place, e) \in Seq(S) /\ Range(InsertAt(s, place, e)) = Range(s) \cup {e}
<1> DEFINE a == SubSeq(s, 1, place - 1)
           b == SubSeq(s, place, Len(s))
           t == (a \o <<e>>) \o b
<1>1. Len(s) \in Nat /\ place \in Nat /\ DOMAIN s = 1..Len(s) /\ place - 1 \in 0..Len(s)
  OBVIOUS
<1>2. /\ a \in Seq(S) /\ Len(a) = place - 1
      /\ \A i \in 1..place - 1 : a[i] = s[i]
  BY <1>1
<1>3. /\ b \in Seq(S) /\ Len(b) = Len(s) - place + 1
      /\ \A i \in 1..Len(s) - place + 1 : b[i] = s[place + i - 1]
  <2>1. \A i \in place..Len(s) : s[i] \in S
    BY <1>1
  <2> QED BY <1>1, <2>1, SubSeqProperties
<1>4. InsertAt(s, place, e) = t
  BY DEF InsertAt
<1> HIDE DEF a, b
<1>5. /\ a \o <<e>> \in Seq(S) /\ Len(a \o <<e>>) = place
      /\ \A i \in 1..place : (a \o <<e>>)[i] = IF i < place THEN s[i] ELSE e
  <2>1. <<e>> \in Seq(S) /\ Len(<<e>>) = 1 /\ <<e>>[1] = e
    OBVIOUS
  <2> QED BY <1>1, <1>2, <2>1, ConcatProperties
<1> DEFINE c == a \o <<e>>
<1>5a. /\ c \in Seq(S) /\ Len(c) = place /\ t = c \o b
      /\ \A i \in 1..place : c[i] = IF i < place THEN s[i] ELSE e
  BY <1>5
<1> HIDE DEF c, t
<1>6. /\ t \in Seq(S) /\ Len(t) = Len(s) + 1
      /\ \A i \in 1..Len(s) + 1 : t[i] = IF i < place THEN s[i] ELSE IF i = place THEN e ELSE s[i - 1]
  <2>1. /\ c \o b \in Seq(S) /\ Len(c \o b) = Len(c) + Len(b)
        /\ \A i \in 1..Len(c) + Len(b) : (c \o b)[i] = IF i <= Len(c) THEN c[i] ELSE b[i - Len(c)]
    BY <1>3, <1>5a, ConcatProperties
  <2>2. Len(c) = place /\ Len(c) + Len(b) = Len(s) + 1 /\ t = c \o b
    BY <1>1, <1>3, <1>5a
  <2>3. ASSUME NEW i \in 1..Len(s) + 1
        PROVE  t[i] = IF i < place THEN s[i] ELSE IF i = place THEN e ELSE s[i - 1]
    <3>1. CASE i <= place
      BY <1>1, <1>5a, <2>1, <2>2, <3>1
    <3>2. CASE i > place
      <4>1. i - place \in 1..Len(s) - place + 1 /\ place + (i - place) - 1 = i - 1
        BY <1>1, <3>2
      <4>2. t[i] = b[i - place]
        BY <1>1, <2>1, <2>2, <3>2
      <4>3. b[i - place] = s[place + (i - place) - 1]
        BY <1>3, <4>1
      <4> QED BY <4>1, <4>2, <4>3, <3>2, <1>1
    <3> QED BY <1>1, <3>1, <3>2
  <2> QED BY <2>1, <2>2, <2>3
<1>7. DOMAIN t = 1..Len(s) + 1
  BY <1>6
<1>8. ASSUME NEW x \in Range(t) PROVE x \in Range(s) \cup {e}
  <2>1. PICK i \in 1..Len(s) + 1 : x = t[i]
    BY <1>7 DEF Range
  <2>2. i < place => i \in 1..Len(s)
    BY <1>1
  <2>3. i > place => i - 1 \in 1..Len(s)
    BY <1>1
  <2>4. CASE i < place
    BY <1>1, <1>6, <2>1, <2>2, <2>4 DEF Range
  <2>5. CASE i > place
    BY <1>1, <1>6, <2>1, <2>3, <2>5 DEF Range
  <2> QED BY <1>1, <1>6, <2>1, <2>4, <2>5
<1>9. ASSUME NEW x \in Range(s) PROVE x \in Range(t)
  <2>1. PICK i \in 1..Len(s) : x = s[i]
    BY <1>1 DEF Range
  <2>2. CASE i < place
    <3>1. i \in 1..Len(s) + 1 /\ t[i] = x
      BY <1>1, <1>6, <2>1, <2>2
    <3> QED BY <1>7, <3>1 DEF Range
  <2>3. CASE i >= place
    <3>1. i + 1 \in 1..Len(s) + 1 /\ ~(i + 1 < place) /\ i + 1 # place /\ (i + 1) - 1 = i
      BY <1>1, <2>3
    <3>2. t[i + 1] = x
      BY <1>6, <2>1, <3>1
    <3> QED BY <1>7, <3>1, <3>2 DEF Range
  <2> QED BY <1>1, <2>2, <2>3
<1>10. e \in Range(t)
  <2>1. place \in 1..Len(s) + 1 /\ t[place] = e
    BY <1>1, <1>6
  <2> QED BY <1>7, <2>1 DEF Range
<1> QED BY <1>4, <1>6, <1>8, <1>9, <1>10

-----------------------------------------------------------------------------
Message  == SyncMessage \cup {PeerConnected}
LinkType == [Devices -> [Devices -> Seq(Message)]]

\* What is under way from x to y.
InLink(x, y) == Range(link[x][y])

\* A change is numbered below its place among all.
CountersFit == \A v \in DOMAIN changes : changes[v].counter <= v

\* Messages speak of changes that were made.
Known(m, cs) == m.type = "NoteSync" => m.doc \subseteq DOMAIN cs /\ m.news \subseteq DOMAIN cs
MessagesKnown == \A x, y \in Devices : \A m \in InLink(x, y) : Known(m, changes)

Typed == TypeOK /\ link \in LinkType /\ IInv /\ CountersFit /\ MessagesKnown

LEMMA UpdateTyped ==
  ASSUME NEW t \in Times
  PROVE  [type |-> "SettingsUpdate", time |-> t] \in Message
  BY DEF Message, SyncMessage
LEMMA NoteTyped ==
  ASSUME NEW doc, NEW news, doc \subseteq Versions, news \subseteq Versions
  PROVE  [type |-> "NoteSync", doc |-> doc, news |-> news] \in Message
  BY DEF Message, SyncMessage
LEMMA RevocationTyped ==
  ASSUME NEW d \in Devices
  PROVE  [type |-> "DeviceRevocation", device |-> d] \in Message
  BY DEF Message, SyncMessage
LEMMA BareTyped ==
  /\ [type |-> "NoteDelete"] \in Message /\ [type |-> "Disconnect"] \in Message
  /\ PeerConnected \in Message
  BY DEF Message, SyncMessage

LEMMA MessageTyped ==
  ASSUME NEW m \in Message
  PROVE  /\ m.type = "SettingsUpdate" => m.time \in Times
         /\ m.type = "NoteSync" => m.doc \subseteq Versions /\ m.news \subseteq Versions
         /\ m.type = "DeviceRevocation" => m.device \in Devices
         /\ m = PeerConnected <=> m.type = "PeerConnected"
<1>1. CASE m \in [type : {"SettingsUpdate"}, time : Times]
  BY <1>1 DEF PeerConnected
<1>2. CASE m \in [type : {"NoteSync"}, doc : SUBSET Versions, news : SUBSET Versions]
  BY <1>2 DEF PeerConnected
<1>3. CASE m \in [type : {"DeviceRevocation"}, device : Devices]
  BY <1>3 DEF PeerConnected
<1>4. CASE m \in [type : {"NoteDelete", "Disconnect"}]
  BY <1>4 DEF PeerConnected
<1>5. CASE m = PeerConnected
  BY <1>5 DEF PeerConnected
<1> QED BY <1>1, <1>2, <1>3, <1>4, <1>5 DEF Message, SyncMessage

\* A message that is sent comes behind the others.
LEMMA SentIs ==
  ASSUME NEW links \in LinkType, NEW d \in Devices, NEW tos, NEW m \in Message
  PROVE  /\ Sent(links, d, tos, m) \in LinkType
         /\ \A x, y \in Devices :
              /\ Range(links[x][y]) \subseteq Range(Sent(links, d, tos, m)[x][y])
              /\ Range(Sent(links, d, tos, m)[x][y]) \subseteq Range(links[x][y]) \cup {m}
              /\ x = d /\ y \in tos /\ Hears(y, d) => m \in Range(Sent(links, d, tos, m)[x][y])
              /\ x # d \/ y \notin peers[d] => Sent(links, d, tos, m)[x][y] = links[x][y]
<1> DEFINE row == [e \in Devices |-> IF e \in tos /\ Hears(e, d) THEN Append(links[d][e], m) ELSE links[d][e]]
<1>1. Sent(links, d, tos, m) = [links EXCEPT ![d] = row]
  BY DEF Sent
<1>2. \A y \in Devices : links[d][y] \in Seq(Message)
  BY DEF LinkType
<1>3. \A y \in Devices : row[y] \in Seq(Message)
  BY <1>2, RangeOfAppend
<1>4. row \in [Devices -> Seq(Message)]
  BY <1>3
<1>5. \A y \in Devices : Range(row[y]) = IF y \in tos /\ Hears(y, d) THEN Range(links[d][y]) \cup {m}
                                                                   ELSE Range(links[d][y])
  BY <1>2, RangeOfAppend
<1>6. \A y \in Devices : y \notin peers[d] => row[y] = links[d][y]
  BY DEF Hears
<1> HIDE DEF row
<1>7. \A x, y \in Devices : Sent(links, d, tos, m)[x][y] = IF x = d THEN row[y] ELSE links[x][y]
  BY <1>1, <1>4 DEF LinkType
<1>8. Sent(links, d, tos, m) \in LinkType
  BY <1>1, <1>4 DEF LinkType
<1> QED BY <1>5, <1>6, <1>7, <1>8

\* The first message leaves.
LEMMA TakenIs ==
  ASSUME link \in LinkType, NEW d \in Devices, NEW e \in Devices, NEW type, Receives(d, e, type)
  PROVE  /\ Taken(d, e) \in LinkType
         /\ Head(link[e][d]) \in Message /\ Head(link[e][d]).type = type
         /\ Head(link[e][d]) \in InLink(e, d)
         /\ \A x, y \in Devices :
              /\ Range(Taken(d, e)[x][y]) \subseteq InLink(x, y)
              /\ \A m \in InLink(x, y) :
                   m \in Range(Taken(d, e)[x][y]) \/ (x = e /\ y = d /\ m = Head(link[e][d]))
<1>1. link[e][d] \in Seq(Message) /\ link[e][d] # <<>> /\ Head(link[e][d]).type = type
  BY DEF LinkType, Receives
<1>2. /\ Tail(link[e][d]) \in Seq(Message) /\ Head(link[e][d]) \in Message
      /\ InLink(e, d) = {Head(link[e][d])} \cup Range(Tail(link[e][d]))
  BY <1>1, RangeOfTail DEF InLink
<1>3. Taken(d, e) \in LinkType
  BY <1>2 DEF Taken, LinkType
<1>4. \A x, y \in Devices : Taken(d, e)[x][y] = IF x = e /\ y = d THEN Tail(link[e][d]) ELSE link[x][y]
  BY DEF Taken, LinkType
<1>5. ASSUME NEW x \in Devices, NEW y \in Devices
      PROVE  /\ Range(Taken(d, e)[x][y]) \subseteq InLink(x, y)
             /\ \A m \in InLink(x, y) :
                  m \in Range(Taken(d, e)[x][y]) \/ (x = e /\ y = d /\ m = Head(link[e][d]))
  <2>1. CASE x = e /\ y = d
    <3>1. Range(Taken(d, e)[x][y]) = Range(Tail(link[e][d]))
      BY <1>4, <2>1
    <3> QED BY <1>2, <2>1, <3>1
  <2>2. CASE ~(x = e /\ y = d)
    BY <1>4, <2>2 DEF InLink
  <2> QED BY <2>1, <2>2
<1> QED BY <1>1, <1>2, <1>3, <1>5

\* A session that ends leaves a part of what was under way.
LEMMA BreakLeaves ==
  ASSUME link \in LinkType, NEW d \in Devices, NEW e \in Devices, Break(d, e)
  PROVE  link' \in LinkType /\ \A x, y \in Devices : InLink(x, y)' \subseteq InLink(x, y)
<1>1. PICK to \in Read(link[d][e]), from \in Read(link[e][d]) :
        link' = [link EXCEPT ![d][e] = to, ![e][d] = from]
  BY DEF Break
<1>2. link[d][e] \in Seq(Message) /\ link[e][d] \in Seq(Message)
  BY DEF LinkType
<1>3. ASSUME NEW s \in Seq(Message), NEW t \in Read(s)
      PROVE  t \in Seq(Message) /\ Range(t) \subseteq Range(s)
  <2>1. PICK n \in 0..Len(s) : t = SubSeq(s, 1, n)
    BY DEF Read
  <2> QED BY <2>1, RangeOfPrefix
<1>4. /\ to \in Seq(Message) /\ Range(to) \subseteq Range(link[d][e])
      /\ from \in Seq(Message) /\ Range(from) \subseteq Range(link[e][d])
  BY <1>2, <1>3
<1>5. link' \in LinkType
  BY <1>1, <1>4 DEF LinkType
<1>6. ASSUME NEW x \in Devices, NEW y \in Devices PROVE Range(link'[x][y]) \subseteq Range(link[x][y])
  <2>1. CASE x = e /\ y = d
    <3>1. link'[x][y] = from
      BY <1>1, <2>1 DEF LinkType
    <3> QED BY <1>4, <2>1, <3>1
  <2>2. CASE x = d /\ y = e /\ d # e
    <3>1. link'[x][y] = to
      BY <1>1, <2>2 DEF LinkType
    <3> QED BY <1>4, <2>2, <3>1
  <2>3. CASE ~(x = e /\ y = d) /\ ~(x = d /\ y = e)
    <3>1. link'[x][y] = link[x][y]
      BY <1>1, <2>3 DEF LinkType
    <3> QED BY <3>1
  <2> QED BY <2>1, <2>2, <2>3
<1> QED BY <1>5, <1>6 DEF InLink

\* Two devices make a pair.
LEMMA PairIs ==
  ASSUME NEW d \in Devices, NEW e \in Devices, d # e
  PROVE  {d, e} \in Pairs
  BY DEF Pairs

LEMMA PeersArePairs ==
  ASSUME IInv, NEW x \in Devices, NEW y \in peers[x]
  PROVE  {x, y} \in Pairs
  BY PairIs DEF IInv, MapsInStep

LEMMA PairOf ==
  ASSUME NEW p \in Pairs
  PROVE  p \subseteq Devices /\ \A x \in p : \A y \in p \ {x} : {x, y} = p
<1>1. PICK d \in Devices, e \in Devices : p = {d, e}
  BY DEF Pairs
<1> QED BY <1>1

-----------------------------------------------------------------------------
LEMMA ChangesTyped ==
  ASSUME Typed
  PROVE  /\ changes \in Seq(Change) /\ Len(changes) \in Nat /\ DOMAIN changes = 1..Len(changes)
         /\ DOMAIN changes \subseteq Versions
         /\ \A v \in DOMAIN changes :
              /\ changes[v] \in Change /\ changes[v].deps \subseteq Versions
              /\ changes[v].counter \in Nat /\ changes[v].counter <= v
<1>1. changes \in Seq(Change) /\ Len(changes) <= MaxVersions
  BY DEF Typed, TypeOK
<1>2. Len(changes) \in Nat /\ DOMAIN changes = 1..Len(changes)
  BY <1>1
<1>3. \A v \in DOMAIN changes : changes[v] \in Change
  BY <1>1, <1>2
<1>4. \A c \in Change : c.deps \subseteq Versions /\ c.counter \in Nat
  BY DEF Change
<1> QED BY <1>1, <1>2, <1>3, <1>4, ConstantsAssumption DEF Typed, CountersFit, Versions

LEMMA NewChangeIs ==
  ASSUME Typed, NEW text \in BOOLEAN, NEW deps, deps \subseteq DOMAIN changes, NewChange(text, deps)
  PROVE  /\ changes' \in Seq(Change) /\ Len(changes') = Len(changes) + 1
         /\ Len(changes') <= MaxVersions /\ Len(changes') \in DOMAIN changes'
         /\ DOMAIN changes' = DOMAIN changes \cup {Len(changes')} /\ DOMAIN changes' \subseteq Versions
         /\ \A v \in DOMAIN changes : changes'[v] = changes[v] /\ v # Len(changes')
         /\ changes'[Len(changes')].text = text /\ changes'[Len(changes')].deps = deps
         /\ order' \in Seq(Versions) /\ Range(order') = DOMAIN changes'
         /\ CountersFit'
<1> DEFINE counters == {changes[v].counter : v \in deps}
           c == 1 + Max({0} \cup counters)
           new == [text |-> text, deps |-> deps, counter |-> c]
           n == Len(changes)
<1>1. n \in Nat /\ DOMAIN changes = 1..n /\ n < MaxVersions /\ MaxVersions \in Nat
      /\ changes \in Seq(Change) /\ DOMAIN changes \subseteq Versions
  BY ChangesTyped, ConstantsAssumption DEF NewChange
<1>2. counters \subseteq 0..n
  BY <1>1, ChangesTyped
<1>3. Max({0} \cup counters) \in 0..n
  <2> DEFINE T == {0} \cup counters
  <2>1. T \subseteq 0..n /\ T # {}
    BY <1>1, <1>2
  <2> HIDE DEF T
  <2>2. Max(T) \in T
    BY <1>1, <2>1, MaxIsGreatest
  <2> QED BY <2>1, <2>2 DEF T
<1>4. c \in 1..n + 1
  <2> DEFINE x == Max({0} \cup counters)
  <2>1. x \in 0..n
    BY <1>3
  <2> HIDE DEF x
  <2>2. 1 + x \in 1..n + 1
    BY <1>1, <2>1
  <2> QED BY <2>2 DEF x
<1>5. /\ changes' = Append(changes, new)
      /\ \E place \in 1..Len(order) + 1 : order' = InsertAt(order, place, Len(changes'))
  BY DEF NewChange
<1> HIDE DEF c
<1>6. new \in Change /\ new.text = text /\ new.deps = deps /\ new.counter = c
  BY <1>1, <1>4 DEF Change, Versions
<1> HIDE DEF new
<1>7. /\ changes' \in Seq(Change) /\ Len(changes') = n + 1 /\ changes'[n + 1] = new
      /\ \A v \in 1..n : changes'[v] = changes[v]
  BY <1>1, <1>5, <1>6
<1>8. DOMAIN changes' = 1..n + 1
  BY <1>7
<1>9. order \in Seq(Versions) /\ Range(order) = DOMAIN changes /\ n + 1 \in Versions
  BY <1>1 DEF Typed, TypeOK, Versions
<1>10. order' \in Seq(Versions) /\ Range(order') = DOMAIN changes \cup {n + 1}
  BY <1>5, <1>7, <1>9, RangeOfInsertAt
<1>11. DOMAIN changes' = DOMAIN changes \cup {n + 1}
  BY <1>1, <1>8
<1>12. CountersFit'
  <2> SUFFICES ASSUME NEW v \in DOMAIN changes' PROVE changes'[v].counter <= v
    BY DEF CountersFit
  <2>1. CASE v \in DOMAIN changes
    BY <1>1, <1>7, <2>1, ChangesTyped
  <2>2. CASE v = n + 1
    BY <1>1, <1>4, <1>6, <1>7, <2>2
  <2> QED BY <1>11, <2>1, <2>2
<1>13. \A v \in DOMAIN changes : v # n + 1
  BY <1>1
<1>14. DOMAIN changes' \subseteq Versions
  BY <1>9, <1>1, <1>11
<1> QED BY <1>1, <1>6, <1>7, <1>8, <1>10, <1>11, <1>12, <1>13, <1>14

\* No change is made: what is said of changes stays so.
LEMMA SameChanges ==
  ASSUME Typed, UNCHANGED <<changes, order>>
  PROVE  /\ changes' \in Seq(Change) /\ Len(changes') <= MaxVersions
         /\ order' \in Seq(Versions) /\ Range(order') = DOMAIN changes'
         /\ CountersFit' /\ DOMAIN changes' = DOMAIN changes
  BY DEF Typed, TypeOK, CountersFit

LEMMA StayKnown ==
  ASSUME Typed, DOMAIN changes \subseteq DOMAIN changes',
         \A x, y \in Devices : \A m \in InLink(x, y)' : m \in InLink(x, y) \/ Known(m, changes')
  PROVE  MessagesKnown'
<1>1. \A m : Known(m, changes) => Known(m, changes')
  BY DEF Known
<1> QED BY <1>1 DEF Typed, MessagesKnown

\* The messages of a step that takes none or one and sends one.
LEMMA SendTyped ==
  ASSUME Typed, NEW links \in LinkType, NEW d \in Devices, NEW tos, NEW m \in Message,
         \A x, y \in Devices : Range(links[x][y]) \subseteq InLink(x, y),
         link' = Sent(links, d, tos, m), DOMAIN changes \subseteq DOMAIN changes', Known(m, changes')
  PROVE  link' \in LinkType /\ MessagesKnown'
<1>1. /\ link' \in LinkType
      /\ \A x, y \in Devices : InLink(x, y)' \subseteq InLink(x, y) \cup {m}
  <2>1. /\ Sent(links, d, tos, m) \in LinkType
        /\ \A x, y \in Devices :
             Range(Sent(links, d, tos, m)[x][y]) \subseteq Range(links[x][y]) \cup {m}
    BY SentIs
  <2> QED BY <2>1 DEF InLink
<1> QED BY <1>1, StayKnown

LEMMA TakeTyped ==
  ASSUME Typed, NEW d \in Devices, NEW e \in Devices, NEW type, Receives(d, e, type),
         link' = Taken(d, e), DOMAIN changes \subseteq DOMAIN changes'
  PROVE  link' \in LinkType /\ MessagesKnown'
<1>1. Taken(d, e) \in LinkType /\ \A x, y \in Devices : InLink(x, y)' \subseteq InLink(x, y)
  BY TakenIs DEF Typed, InLink
<1> QED BY <1>1, StayKnown

LEMMA SameLinks ==
  ASSUME Typed, UNCHANGED link, DOMAIN changes \subseteq DOMAIN changes'
  PROVE  link' \in LinkType /\ MessagesKnown'
<1>1. link' \in LinkType /\ \A x, y \in Devices : InLink(x, y)' = InLink(x, y)
  BY DEF Typed, InLink
<1> QED BY <1>1, StayKnown

\* Sets of versions that are documents.
LEMMA AppliedIs ==
  ASSUME NEW cs, NEW doc
  PROVE  Applied(cs, doc) \subseteq doc
  BY DEF Applied

-----------------------------------------------------------------------------
(* The type invariant, by the groups of variables that actions change.     *)

NotesTyped ==
  /\ note \in [Devices -> SUBSET Versions]
  /\ changes \in Seq(Change) /\ Len(changes) <= MaxVersions
  /\ order \in Seq(Versions) /\ Range(order) = DOMAIN changes
  /\ \A d \in Devices : note[d] \subseteq DOMAIN changes
TablesTyped ==
  revoked \in [Devices -> SUBSET Devices] /\ paired \in [Devices -> SUBSET Devices]
SessionsTyped ==
  /\ phase \in [Pairs -> {"none", "opening", "lan", "turn"}]
  /\ peers \in [Devices -> SUBSET Devices]
  /\ late \subseteq Devices \X Devices
CountsTyped == acts \in 0..MaxActs /\ writes \in 0..MaxWrites /\ deleted \in BOOLEAN
ValuesTyped == mobile \subseteq Devices /\ setting \in [Devices -> 0..MaxTime] /\ used \subseteq Times

LEMMA TypesOf ==
  TypeOK <=> /\ NotesTyped /\ TablesTyped /\ SessionsTyped /\ CountsTyped /\ ValuesTyped
             /\ \A d, e \in Devices : link[d][e] \in Seq(SyncMessage \cup {PeerConnected})
  BY DEF TypeOK, NotesTyped, TablesTyped, SessionsTyped, CountsTyped, ValuesTyped

LEMMA TypesTogether ==
  ASSUME NotesTyped', TablesTyped', SessionsTyped', CountsTyped', ValuesTyped', link' \in LinkType,
         CountersFit', MessagesKnown', IInv'
  PROVE  Typed'
  BY DEF Typed, TypeOK, NotesTyped, TablesTyped, SessionsTyped, CountsTyped, ValuesTyped, LinkType,
         Message

LEMMA InitTyped == Init => Typed
<1> SUFFICES ASSUME Init PROVE Typed
  OBVIOUS
<1>1. NotesTyped
  BY ConstantsAssumption DEF Init, NotesTyped, Range
<1>2. TablesTyped /\ SessionsTyped
  BY DEF Init, TablesTyped, SessionsTyped
<1>2a. CountsTyped /\ ValuesTyped
  <2>1. 0 \in 0..MaxActs /\ 0 \in 0..MaxWrites /\ 0 \in 0..MaxTime
    BY ConstantsAssumption
  <2> QED BY <2>1 DEF Init, CountsTyped, ValuesTyped
<1>3. link \in LinkType
  BY DEF Init, LinkType
<1>4. MessagesKnown
  BY DEF Init, MessagesKnown, InLink, Range
<1>5. CountersFit
  BY DEF Init, CountersFit
<1> QED BY <1>1, <1>2, <1>3, <1>4, <1>5, <1>2a, InitEstablishes, TypesOf DEF Typed, LinkType, Message

\* Groups that an action leaves alone.
LEMMA GroupsStay ==
  ASSUME Typed
  PROVE  /\ UNCHANGED notes => NotesTyped' /\ CountersFit' /\ DOMAIN changes' = DOMAIN changes
         /\ UNCHANGED tables => TablesTyped'
         /\ UNCHANGED sessions => SessionsTyped'
         /\ UNCHANGED counts => CountsTyped'
         /\ UNCHANGED <<mobile, setting, used>> => ValuesTyped'
  BY TypesOf DEF Typed, notes, tables, sessions, counts, NotesTyped, TablesTyped, SessionsTyped,
                 CountsTyped, ValuesTyped, CountersFit

LEMMA ActTyped ==
  ASSUME Typed, Act, UNCHANGED <<writes, deleted>>
  PROVE  CountsTyped'
  BY TypesOf, ConstantsAssumption DEF Typed, CountsTyped, Act

LEMMA SettingTyped ==
  ASSUME Typed, NEW d \in Devices, NEW t \in Times, set_setting(d, t),
         UNCHANGED mobile, UNCHANGED used \/ used' = used \cup {t}
  PROVE  ValuesTyped'
  BY TypesOf, ConstantsAssumption DEF Typed, ValuesTyped, set_setting, Times

LEMMA WriteTyped ==
  ASSUME Typed, IInv', NEW d \in Devices, NEW t \in Times, SetState(d, t) \/ UpdateSetting(d, t)
  PROVE  Typed'
<1>1. Act /\ set_setting(d, t) /\ used' = used \cup {t} /\ UNCHANGED <<mobile, notes, tables, sessions, writes, deleted>>
  BY DEF SetState, UpdateSetting, Write
<1>2. ValuesTyped' /\ CountsTyped'
  BY <1>1, SettingTyped, ActTyped
<1>3. NotesTyped' /\ CountersFit' /\ TablesTyped' /\ SessionsTyped' /\ DOMAIN changes' = DOMAIN changes
  BY <1>1, GroupsStay
<1>4. link' \in LinkType /\ MessagesKnown'
  <2> DEFINE m == [type |-> "SettingsUpdate", time |-> t]
  <2>1. m \in Message /\ Known(m, changes')
    BY UpdateTyped DEF Known
  <2> HIDE DEF m
  <2>2. CASE link' = Sent(link, d, Devices, m)
    BY <1>3, <2>1, <2>2, SendTyped DEF Typed, InLink
  <2>3. CASE UNCHANGED link
    BY <1>3, <2>3, SameLinks
  <2> QED BY <2>2, <2>3 DEF SetState, UpdateSetting, broadcast, m
<1> QED BY <1>2, <1>3, <1>4, TypesTogether

LEMMA SettingChangedTyped ==
  ASSUME Typed, IInv', NEW d \in Devices, NEW e \in Devices, SettingChanged(d, e)
  PROVE  Typed'
<1>1. /\ Receives(d, e, "SettingsUpdate") /\ link' = Taken(d, e)
      /\ UNCHANGED <<mobile, notes, tables, sessions, used, counts>>
      /\ UNCHANGED setting \/ set_setting(d, Head(link[e][d]).time)
  BY DEF SettingChanged, Take
<1>2. Head(link[e][d]).time \in Times
  BY <1>1, TakenIs, MessageTyped DEF Typed
<1>3. ValuesTyped'
  BY <1>1, <1>2, SettingTyped, GroupsStay
<1>4. /\ NotesTyped' /\ CountersFit' /\ TablesTyped' /\ SessionsTyped' /\ CountsTyped'
      /\ DOMAIN changes' = DOMAIN changes
  BY <1>1, GroupsStay
<1>5. link' \in LinkType /\ MessagesKnown'
  BY <1>1, <1>4, TakeTyped
<1> QED BY <1>3, <1>4, <1>5, TypesTogether

LEMMA SaveTyped ==
  ASSUME Typed, IInv', NEW d \in Devices, SaveNote(d)
  PROVE  Typed'
<1> DEFINE doc == Applied(changes', note'[d])
           m == FirstMessage(doc)
<1>1. /\ Act /\ writes < MaxWrites /\ writes' = writes + 1
      /\ NewChange(TRUE, Applied(changes, note[d]))
      /\ note' = [note EXCEPT ![d] = @ \cup {Len(changes')}]
      /\ link' = Sent(link, d, Devices, m)
      /\ UNCHANGED <<mobile, setting, tables, sessions, used, deleted>>
  BY DEF SaveNote, broadcast
<1>2. note \in [Devices -> SUBSET Versions] /\ \A x \in Devices : note[x] \subseteq DOMAIN changes
  BY TypesOf DEF Typed, NotesTyped
<1>3. Applied(changes, note[d]) \subseteq DOMAIN changes
  BY <1>2, AppliedIs
<1>4. /\ changes' \in Seq(Change) /\ Len(changes') <= MaxVersions /\ Len(changes') \in DOMAIN changes'
      /\ DOMAIN changes' = DOMAIN changes \cup {Len(changes')}
      /\ order' \in Seq(Versions) /\ Range(order') = DOMAIN changes' /\ CountersFit'
  BY <1>1, <1>3, NewChangeIs
<1>5. DOMAIN changes' \subseteq Versions
  BY <1>1, <1>3, NewChangeIs
<1>6. NotesTyped'
  BY <1>1, <1>2, <1>4, <1>5 DEF NotesTyped
<1>7. CountsTyped'
  BY <1>1, TypesOf, ConstantsAssumption DEF Typed, CountsTyped, Act
<1>8. ValuesTyped' /\ TablesTyped' /\ SessionsTyped'
  BY <1>1, GroupsStay
<1>9. doc \subseteq DOMAIN changes'
  BY <1>6, AppliedIs DEF NotesTyped
<1>10. m \in Message /\ Known(m, changes')
  <2>1. doc \subseteq Versions /\ {} \subseteq Versions
    BY <1>5, <1>9
  <2> HIDE DEF doc
  <2> QED BY <1>9, <2>1, NoteTyped DEF FirstMessage, Known
<1> HIDE DEF m, doc
<1>11. link' \in LinkType /\ MessagesKnown'
  BY <1>1, <1>4, <1>10, SendTyped DEF Typed, InLink
<1> QED BY <1>4, <1>6, <1>7, <1>8, <1>11, TypesTogether

LEMMA DeleteTyped ==
  ASSUME Typed, IInv', NEW d \in Devices, DeleteNote(d)
  PROVE  Typed'
<1> DEFINE m == [type |-> "NoteDelete"]
<1>1. /\ Act /\ deleted' = TRUE /\ note' = [note EXCEPT ![d] = {}] /\ link' = Sent(link, d, Devices, m)
      /\ UNCHANGED <<mobile, setting, changes, order, tables, sessions, used, writes>>
  BY DEF DeleteNote, broadcast
<1>2. CountsTyped'
  BY <1>1, TypesOf, ConstantsAssumption DEF Typed, CountsTyped, Act
<1>3. ValuesTyped' /\ TablesTyped' /\ SessionsTyped'
  BY <1>1, GroupsStay
<1>4. NotesTyped' /\ CountersFit' /\ DOMAIN changes' = DOMAIN changes
  BY <1>1, TypesOf, SameChanges DEF Typed, NotesTyped
<1>5. m \in Message /\ Known(m, changes')
  BY BareTyped DEF Known
<1> HIDE DEF m
<1>6. link' \in LinkType /\ MessagesKnown'
  BY <1>1, <1>4, <1>5, SendTyped DEF Typed, InLink
<1> QED BY <1>2, <1>3, <1>4, <1>6, TypesTogether

LEMMA ApplyNoteSyncTyped ==
  ASSUME Typed, IInv', NEW d \in Devices, NEW e \in Devices, ApplyNoteSync(d, e)
  PROVE  Typed'
<1> DEFINE m == Head(link[e][d])
           doc == Applied(changes', note'[d])
           reply == [type |-> "NoteSync", doc |-> doc, news |-> doc \ m.doc]
<1>1. /\ Receives(d, e, "NoteSync")
      /\ UNCHANGED <<mobile, setting, tables, sessions, used, counts>>
  BY DEF ApplyNoteSync
<1>2. ValuesTyped' /\ TablesTyped' /\ SessionsTyped' /\ CountsTyped'
  BY <1>1, GroupsStay
<1>3. m \in Message /\ m.type = "NoteSync" /\ m.news \subseteq DOMAIN changes
  BY <1>1, TakenIs DEF Typed, MessagesKnown, Known
<1>4. Taken(d, e) \in LinkType /\ \A x, y \in Devices : Range(Taken(d, e)[x][y]) \subseteq InLink(x, y)
  BY <1>1, TakenIs DEF Typed
<1>5. CASE Take(d, e) /\ UNCHANGED notes
  <2>1. NotesTyped' /\ CountersFit' /\ DOMAIN changes' = DOMAIN changes
    BY <1>5, GroupsStay
  <2>2. link' \in LinkType /\ MessagesKnown'
    BY <1>1, <1>5, <2>1, TakeTyped DEF Take
  <2> QED BY <1>2, <2>1, <2>2, TypesTogether
<1>6. ASSUME NotesTyped', CountersFit', DOMAIN changes \subseteq DOMAIN changes',
             link' = Sent(Taken(d, e), d, {e}, reply) \/ Take(d, e)
      PROVE  Typed'
  <2>1. doc \subseteq DOMAIN changes' /\ DOMAIN changes' \subseteq Versions
    <3>1. DOMAIN changes' = 1..Len(changes') /\ Len(changes') <= MaxVersions
      BY <1>6 DEF NotesTyped
    <3>2. note'[d] \subseteq DOMAIN changes'
      BY <1>6 DEF NotesTyped
    <3> QED BY <3>1, <3>2, AppliedIs, ConstantsAssumption DEF Versions, NotesTyped
  <2>2. reply \in Message /\ Known(reply, changes')
    <3> HIDE DEF doc, m
    <3>1. doc \ m.doc \subseteq Versions /\ doc \subseteq Versions /\ doc \ m.doc \subseteq DOMAIN changes'
      BY <2>1
    <3> QED BY <2>1, <3>1, NoteTyped DEF Known
  <2> HIDE DEF reply, m, doc
  <2>3. link' \in LinkType /\ MessagesKnown'
    <3>1. CASE link' = Sent(Taken(d, e), d, {e}, reply)
      BY <1>4, <1>6, <2>2, <3>1, SendTyped
    <3>2. CASE Take(d, e)
      BY <1>1, <1>6, <3>2, TakeTyped DEF Take
    <3> QED BY <1>6, <3>1, <3>2
  <2> QED BY <1>2, <1>6, <2>3, TypesTogether
<1>7. link' = Sent(Taken(d, e), d, {e}, reply) \/ Take(d, e)
  BY DEF ApplyNoteSync
<1>8. note \in [Devices -> SUBSET Versions] /\ \A x \in Devices : note[x] \subseteq DOMAIN changes
  BY TypesOf DEF Typed, NotesTyped
<1>9. CASE NewChange(FALSE, {}) /\ note' = [note EXCEPT ![d] = {Len(changes')} \cup m.news]
  <2>1. /\ changes' \in Seq(Change) /\ Len(changes') <= MaxVersions /\ Len(changes') \in DOMAIN changes'
        /\ DOMAIN changes' = DOMAIN changes \cup {Len(changes')} /\ DOMAIN changes' \subseteq Versions
        /\ order' \in Seq(Versions) /\ Range(order') = DOMAIN changes' /\ CountersFit'
    BY <1>9, NewChangeIs
  <2> HIDE DEF m
  <2>2. NotesTyped'
    BY <1>3, <1>8, <1>9, <2>1 DEF NotesTyped
  <2> QED BY <1>6, <1>7, <2>1, <2>2
<1>10. CASE UNCHANGED <<changes, order>> /\ note' = [note EXCEPT ![d] = @ \cup m.news]
  <2>1. /\ changes' \in Seq(Change) /\ Len(changes') <= MaxVersions
        /\ order' \in Seq(Versions) /\ Range(order') = DOMAIN changes'
        /\ CountersFit' /\ DOMAIN changes' = DOMAIN changes /\ DOMAIN changes \subseteq Versions
    BY <1>10, SameChanges, ChangesTyped
  <2> HIDE DEF m
  <2>2. NotesTyped'
    BY <1>3, <1>8, <1>10, <2>1 DEF NotesTyped
  <2> QED BY <1>6, <1>7, <2>1, <2>2
<1> QED BY <1>5, <1>9, <1>10 DEF ApplyNoteSync

LEMMA ApplyNoteDeleteTyped ==
  ASSUME Typed, IInv', NEW d \in Devices, NEW e \in Devices, ApplyNoteDelete(d, e)
  PROVE  Typed'
<1>1. /\ Receives(d, e, "NoteDelete") /\ link' = Taken(d, e)
      /\ note' = [note EXCEPT ![d] = @] \/ note' = [note EXCEPT ![d] = {}]
      /\ UNCHANGED <<mobile, setting, changes, order, tables, sessions, used, counts>>
  BY DEF ApplyNoteDelete, Take
<1>2. ValuesTyped' /\ TablesTyped' /\ SessionsTyped' /\ CountsTyped'
  BY <1>1, GroupsStay
<1>3. NotesTyped' /\ CountersFit' /\ DOMAIN changes' = DOMAIN changes
  BY <1>1, TypesOf, SameChanges DEF Typed, NotesTyped
<1>4. link' \in LinkType /\ MessagesKnown'
  BY <1>1, <1>3, TakeTyped
<1> QED BY <1>2, <1>3, <1>4, TypesTogether

\* A revocation is recorded and passed on.
LEMMA RevocationKeepsTypes ==
  ASSUME Typed, IInv', NEW d \in Devices, NEW e \in Devices, NEW links \in LinkType,
         \A x, y \in Devices : Range(links[x][y]) \subseteq InLink(x, y),
         RevokeOther(d, e, links) \/ (e = d /\ LockOut(d, links)),
         UNCHANGED <<mobile, setting, notes, phase, late, used>>, CountsTyped'
  PROVE  Typed'
<1> DEFINE revocation == [type |-> "DeviceRevocation", device |-> e]
           disconnect == [type |-> "Disconnect"]
<1>1. /\ revoked' = [revoked EXCEPT ![d] = @ \cup {e}]
      /\ paired' = [paired EXCEPT ![d] = @ \ {e}] \/ paired' = [paired EXCEPT ![d] = {}]
      /\ UNCHANGED peers \/ peers' = [peers EXCEPT ![d] = @ \ {e}]
      /\ link' = Sent(links, d, Devices, revocation) \/ link' = Sent(links, d, Devices, disconnect)
  BY DEF RevokeOther, LockOut, record_revoked_device, remove_paired_device, remove_peer
<1>2. TablesTyped'
  BY <1>1, TypesOf DEF Typed, TablesTyped
<1>3. SessionsTyped'
  <2>1. SessionsTyped /\ UNCHANGED <<phase, late>>
    BY TypesOf DEF Typed
  <2>2. peers' \in [Devices -> SUBSET Devices] /\ \A x \in Devices : peers'[x] \subseteq peers[x]
    BY <1>1, <2>1 DEF SessionsTyped
  <2> QED BY <2>1, <2>2 DEF SessionsTyped
<1>4. ValuesTyped' /\ NotesTyped' /\ CountersFit' /\ DOMAIN changes' = DOMAIN changes
  BY GroupsStay
<1>5. /\ revocation \in Message /\ Known(revocation, changes')
      /\ disconnect \in Message /\ Known(disconnect, changes')
  BY RevocationTyped, BareTyped DEF Known
<1> HIDE DEF revocation, disconnect
<1>6. link' \in LinkType /\ MessagesKnown'
  BY <1>1, <1>4, <1>5, SendTyped
<1> QED BY <1>2, <1>3, <1>4, <1>6, TypesTogether

LEMMA OnRevocationTyped ==
  ASSUME Typed, IInv', NEW d \in Devices, NEW x \in Devices, NEW links \in LinkType,
         \A a, b \in Devices : Range(links[a][b]) \subseteq InLink(a, b),
         OnRevocation(d, x, links), CountsTyped'
  PROVE  Typed'
<1>1. UNCHANGED <<mobile, setting, notes, phase, late, used>>
  BY DEF OnRevocation
<1>2. CASE remove_paired_device(d, x) /\ link' = links /\ UNCHANGED <<revoked, peers>>
  <2>1. TablesTyped'
    BY <1>2, TypesOf DEF Typed, TablesTyped, remove_paired_device
  <2>2. /\ ValuesTyped' /\ NotesTyped' /\ CountersFit' /\ DOMAIN changes' = DOMAIN changes
        /\ SessionsTyped'
    BY <1>1, <1>2, GroupsStay DEF sessions
  <2>3. link' \in LinkType /\ MessagesKnown'
    BY <1>2, <2>2, StayKnown DEF InLink
  <2> QED BY <2>1, <2>2, <2>3, TypesTogether
<1>3. CASE RevokeOther(d, x, links) \/ (x = d /\ LockOut(d, links))
  BY <1>1, <1>3, RevocationKeepsTypes
<1> QED BY <1>2, <1>3 DEF OnRevocation

LEMMA RevocationsTyped ==
  ASSUME Typed, IInv', NEW d \in Devices, NEW e \in Devices,
         RevokeDevice(d, e) \/ DeviceRevocation(d, e) \/ RelayedRevocation(d, e)
  PROVE  Typed'
<1>1. link \in LinkType /\ \A x, y \in Devices : Range(link[x][y]) \subseteq InLink(x, y)
  BY DEF Typed, InLink
<1>2. CASE RevokeDevice(d, e)
  <2>1. CountsTyped'
    BY <1>2, ActTyped DEF RevokeDevice
  <2> QED BY <1>1, <1>2, <2>1, RevocationKeepsTypes DEF RevokeDevice
<1>3. CASE RelayedRevocation(d, e)
  <2>1. CountsTyped'
    BY <1>3, ActTyped DEF RelayedRevocation, OnRevocation
  <2> QED BY <1>1, <1>3, <2>1, OnRevocationTyped DEF RelayedRevocation
<1>4. CASE DeviceRevocation(d, e)
  <2> DEFINE x == Head(link[e][d]).device
  <2>1. /\ Receives(d, e, "DeviceRevocation") /\ OnRevocation(d, x, Taken(d, e))
        /\ UNCHANGED <<acts, writes, deleted>>
    BY <1>4 DEF DeviceRevocation, OnRevocation
  <2>2. x \in Devices
    BY <2>1, TakenIs, MessageTyped DEF Typed
  <2>3. Taken(d, e) \in LinkType /\ \A a, b \in Devices : Range(Taken(d, e)[a][b]) \subseteq InLink(a, b)
    BY <2>1, TakenIs DEF Typed
  <2>4. CountsTyped'
    BY <2>1, GroupsStay DEF counts
  <2> HIDE DEF x
  <2> QED BY <2>1, <2>2, <2>3, <2>4, OnRevocationTyped
<1> QED BY <1>2, <1>3, <1>4

LEMMA HandshakeTyped ==
  ASSUME Typed, IInv', NEW p \in Pairs, Handshake(p)
  PROVE  Typed'
<1>1. /\ phase[p] = "none" /\ phase' = [phase EXCEPT ![p] = "opening"]
      /\ UNCHANGED <<mobile, setting, notes, tables, peers, late, link, used, counts>>
  BY DEF Handshake, Becomes
<1>2. /\ ValuesTyped' /\ NotesTyped' /\ CountersFit' /\ DOMAIN changes' = DOMAIN changes
      /\ TablesTyped' /\ CountsTyped'
  BY <1>1, GroupsStay
<1>3. SessionsTyped'
  BY <1>1, TypesOf DEF Typed, SessionsTyped
<1>4. link' \in LinkType /\ MessagesKnown'
  BY <1>1, <1>2, SameLinks
<1> QED BY <1>2, <1>3, <1>4, TypesTogether

\* A session over the LAN is reported to both.
LEMMA JoinIs ==
  ASSUME Typed, NEW p, NEW kind, Join(p, kind)
  PROVE  /\ link' \in LinkType
         /\ \A x, y \in Devices : InLink(x, y)' \subseteq InLink(x, y) \cup {PeerConnected}
<1>1. link' = [d \in Devices |-> [e \in Devices |->
        IF kind = "lan" /\ {d, e} = p THEN Append(link[d][e], PeerConnected) ELSE link[d][e]]]
  BY DEF Join
<1>2. ASSUME NEW x \in Devices, NEW y \in Devices
      PROVE  link'[x][y] \in Seq(Message) /\ InLink(x, y)' \subseteq InLink(x, y) \cup {PeerConnected}
  <2>1. link[x][y] \in Seq(Message)
    BY DEF Typed, LinkType
  <2>2. /\ Append(link[x][y], PeerConnected) \in Seq(Message)
        /\ Range(Append(link[x][y], PeerConnected)) = Range(link[x][y]) \cup {PeerConnected}
    BY <2>1, BareTyped, RangeOfAppend
  <2>3. link'[x][y] \in {link[x][y], Append(link[x][y], PeerConnected)}
    BY <1>1
  <2> QED BY <2>1, <2>2, <2>3 DEF InLink
<1>3. link' \in LinkType
  BY <1>1, <1>2 DEF LinkType
<1> QED BY <1>2, <1>3

LEMMA JoinTyped ==
  ASSUME Typed, IInv', NEW p \in Pairs, NEW kind \in {"lan", "turn"}, Join(p, kind)
  PROVE  Typed'
<1>1. /\ phase[p] = "opening" /\ phase' = [phase EXCEPT ![p] = kind]
      /\ peers' = [d \in Devices |-> IF d \in p THEN peers[d] \cup (p \ {d}) ELSE peers[d]]
      /\ late' = late \cup {q \in p \X p : is_device_revoked(q[1], q[2])}
      /\ UNCHANGED <<mobile, setting, notes, revoked, used, counts>>
      /\ UNCHANGED paired \/ \E d \in p : \E e \in p \ {d} : add_paired_device(d, e)
  BY DEF Join, Becomes
<1>2. /\ ValuesTyped' /\ NotesTyped' /\ CountersFit' /\ DOMAIN changes' = DOMAIN changes
      /\ CountsTyped'
  BY <1>1, GroupsStay
<1>3. p \subseteq Devices
  BY PairOf
<1>4. TablesTyped'
  BY <1>1, <1>3, TypesOf DEF Typed, TablesTyped, add_paired_device
<1>5. SessionsTyped'
  BY <1>1, <1>3, TypesOf DEF Typed, SessionsTyped
<1>6. link' \in LinkType /\ MessagesKnown'
  <2>1. Known(PeerConnected, changes')
    BY DEF Known, PeerConnected
  <2> QED BY <1>2, <2>1, JoinIs, StayKnown
<1> QED BY <1>2, <1>4, <1>5, <1>6, TypesTogether

\* The messages with which a device greets another.
GreetingSetting(d) == [type |-> "SettingsUpdate", time |-> setting[d]]
GreetingNote(d)    == FirstMessage(Applied(changes, note[d]))

LEMMA GreetingTyped ==
  ASSUME Typed, NEW d \in Devices
  PROVE  /\ setting[d] # 0 => GreetingSetting(d) \in Message
         /\ Known(GreetingSetting(d), changes)
         /\ GreetingNote(d) \in Message /\ Known(GreetingNote(d), changes)
<1>1. setting[d] # 0 => setting[d] \in Times
  BY TypesOf, ConstantsAssumption DEF Typed, ValuesTyped, Times
<1>2. setting[d] # 0 => GreetingSetting(d) \in Message
  BY <1>1, UpdateTyped DEF GreetingSetting
<1>3. Known(GreetingSetting(d), changes)
  BY DEF GreetingSetting, Known
<1>4. Applied(changes, note[d]) \subseteq DOMAIN changes /\ DOMAIN changes \subseteq Versions
  BY TypesOf, ChangesTyped, AppliedIs DEF Typed, NotesTyped
<1>5. GreetingNote(d) \in Message /\ Known(GreetingNote(d), changes)
  <2>1. Applied(changes, note[d]) \subseteq Versions /\ {} \subseteq Versions
    BY <1>4
  <2> QED BY <1>4, <2>1, NoteTyped DEF GreetingNote, FirstMessage, Known
<1> QED BY <1>2, <1>3, <1>5

\* after differs from before in that d may have sent m, and has if e is in its map.
Adds(before, after, d, e, m) ==
  /\ after \in LinkType
  /\ \A x, y \in Devices :
       /\ Range(before[x][y]) \subseteq Range(after[x][y])
       /\ Range(after[x][y]) \subseteq Range(before[x][y]) \cup {m}
       /\ x # d => after[x][y] = before[x][y]
  /\ Hears(e, d) => m \in Range(after[d][e])

LEMMA SentTo ==
  ASSUME NEW links \in LinkType, NEW d \in Devices, NEW e \in Devices, NEW m \in Message
  PROVE  Adds(links, Sent(links, d, {e}, m), d, e, m)
<1> DEFINE tos == {e}
<1>0. e \in tos
  OBVIOUS
<1> HIDE DEF tos
<1>1. Sent(links, d, tos, m) \in LinkType
  BY SentIs
<1>2. ASSUME NEW x \in Devices, NEW y \in Devices
      PROVE  /\ Range(links[x][y]) \subseteq Range(Sent(links, d, tos, m)[x][y])
             /\ Range(Sent(links, d, tos, m)[x][y]) \subseteq Range(links[x][y]) \cup {m}
             /\ x = d /\ y \in tos /\ Hears(y, d) => m \in Range(Sent(links, d, tos, m)[x][y])
             /\ x # d => Sent(links, d, tos, m)[x][y] = links[x][y]
  <2>1. Range(links[x][y]) \subseteq Range(Sent(links, d, tos, m)[x][y])
    BY SentIs
  <2>2. Range(Sent(links, d, tos, m)[x][y]) \subseteq Range(links[x][y]) \cup {m}
    BY SentIs
  <2>3. x = d /\ y \in tos /\ Hears(y, d) => m \in Range(Sent(links, d, tos, m)[x][y])
    BY SentIs
  <2>4. x # d => Sent(links, d, tos, m)[x][y] = links[x][y]
    BY SentIs
  <2> QED BY <2>1, <2>2, <2>3, <2>4
<1>3. Hears(e, d) => m \in Range(Sent(links, d, tos, m)[d][e])
  BY <1>0, <1>2
<1>4. Adds(links, Sent(links, d, tos, m), d, e, m)
  BY <1>1, <1>2, <1>3 DEF Adds
<1> QED BY <1>4 DEF tos

\* What is under way when a device has greeted another.
LEMMA GreetIs ==
  ASSUME Typed, NEW d \in Devices, NEW e \in Devices, Greet(d, e)
  PROVE  /\ link' \in LinkType
         /\ \A x, y \in Devices :
              /\ InLink(x, y)' \subseteq InLink(x, y) \cup {m \in {GreetingSetting(d)} : d \notin mobile /\ setting[d] # 0}
                                                \cup {GreetingNote(d)}
              /\ x # d => InLink(x, y)' \subseteq InLink(x, y)
              /\ \A m \in InLink(x, y) :
                   m \in InLink(x, y)' \/ (x = e /\ y = d /\ m = PeerConnected)
         /\ Hears(e, d) /\ d \notin mobile /\ setting[d] # 0 => GreetingSetting(d) \in InLink(d, e)'
         /\ Hears(e, d) /\ note[d] # {} => GreetingNote(d) \in InLink(d, e)'
<1> DEFINE settings == IF d \in mobile \/ setting[d] = 0 THEN Taken(d, e)
                       ELSE Sent(Taken(d, e), d, {e}, GreetingSetting(d))
<1>1. /\ Receives(d, e, "PeerConnected")
      /\ link' = IF note[d] = {} THEN settings ELSE Sent(settings, d, {e}, GreetingNote(d))
  BY DEF Greet, GreetingSetting, GreetingNote
<1>2. /\ Taken(d, e) \in LinkType
      /\ \A x, y \in Devices :
           /\ Range(Taken(d, e)[x][y]) \subseteq InLink(x, y)
           /\ \A m \in InLink(x, y) :
                m \in Range(Taken(d, e)[x][y]) \/ (x = e /\ y = d /\ m = PeerConnected)
  BY <1>1, TakenIs, MessageTyped DEF Typed
<1>3. /\ settings \in LinkType
      /\ \A x, y \in Devices :
           /\ Range(Taken(d, e)[x][y]) \subseteq Range(settings[x][y])
           /\ Range(settings[x][y]) \subseteq
                Range(Taken(d, e)[x][y]) \cup {m \in {GreetingSetting(d)} : d \notin mobile /\ setting[d] # 0}
           /\ x # d => settings[x][y] = Taken(d, e)[x][y]
      /\ Hears(e, d) /\ d \notin mobile /\ setting[d] # 0 => GreetingSetting(d) \in Range(settings[d][e])
  <2>1. CASE d \in mobile \/ setting[d] = 0
    BY <1>2, <2>1
  <2>2. CASE d \notin mobile /\ setting[d] # 0
    <3>1. GreetingSetting(d) \in Message /\ settings = Sent(Taken(d, e), d, {e}, GreetingSetting(d))
      BY <2>2, GreetingTyped
    <3> HIDE DEF settings
    <3>2. Adds(Taken(d, e), settings, d, e, GreetingSetting(d))
      BY <1>2, <3>1, SentTo
    <3> QED BY <2>2, <3>2 DEF Adds
  <2> QED BY <2>1, <2>2
<1> HIDE DEF settings
<1>4. CASE note[d] = {}
  BY <1>1, <1>2, <1>3, <1>4 DEF InLink
<1>5. CASE note[d] # {}
  <2> DEFINE all == Sent(settings, d, {e}, GreetingNote(d))
  <2>1. /\ all \in LinkType
        /\ \A x, y \in Devices :
             /\ Range(settings[x][y]) \subseteq Range(all[x][y])
             /\ Range(all[x][y]) \subseteq Range(settings[x][y]) \cup {GreetingNote(d)}
             /\ x # d => all[x][y] = settings[x][y]
        /\ Hears(e, d) => GreetingNote(d) \in Range(all[d][e])
    <3>1. GreetingNote(d) \in Message
      BY GreetingTyped
    <3> HIDE DEF all
    <3>2. all = Sent(settings, d, {e}, GreetingNote(d))
      BY DEF all
    <3>3. Adds(settings, all, d, e, GreetingNote(d))
      BY <1>3, <3>1, <3>2, SentTo
    <3> QED BY <3>3 DEF Adds
  <2> HIDE DEF all
  <2>2. link' = all
    BY <1>1, <1>5 DEF all
  <2>3. /\ link' \in LinkType
        /\ \A x, y \in Devices :
             /\ Range(Taken(d, e)[x][y]) \subseteq InLink(x, y)'
             /\ InLink(x, y)' \subseteq Range(Taken(d, e)[x][y])
                    \cup {m \in {GreetingSetting(d)} : d \notin mobile /\ setting[d] # 0} \cup {GreetingNote(d)}
             /\ x # d => InLink(x, y)' = Range(Taken(d, e)[x][y])
    BY <1>3, <2>1, <2>2 DEF InLink
  <2>4. /\ Hears(e, d) /\ d \notin mobile /\ setting[d] # 0 => GreetingSetting(d) \in InLink(d, e)'
        /\ Hears(e, d) => GreetingNote(d) \in InLink(d, e)'
    BY <1>3, <2>1, <2>2 DEF InLink
  <2> QED BY <1>2, <2>3, <2>4
<1> QED BY <1>4, <1>5

LEMMA GreetTyped ==
  ASSUME Typed, IInv', NEW d \in Devices, NEW e \in Devices, Greet(d, e)
  PROVE  Typed'
<1>1. UNCHANGED <<mobile, setting, notes, tables, sessions, used, counts>>
  BY DEF Greet
<1>2. /\ ValuesTyped' /\ NotesTyped' /\ CountersFit' /\ DOMAIN changes' = DOMAIN changes
      /\ TablesTyped' /\ CountsTyped' /\ SessionsTyped' /\ changes' = changes
  BY <1>1, GroupsStay DEF notes
<1>3. link' \in LinkType /\ MessagesKnown'
  BY <1>2, GreetIs, GreetingTyped, StayKnown
<1> QED BY <1>2, <1>3, TypesTogether

LEMMA BreakTyped ==
  ASSUME Typed, IInv', NEW d \in Devices, NEW e \in Devices \ {d}, Break(d, e)
  PROVE  Typed'
<1>1. /\ UNCHANGED <<mobile, setting, notes, tables, late, used, writes, deleted>>
      /\ Act \/ UNCHANGED acts
      /\ phase' = [phase EXCEPT ![{d, e}] = "none"]
  BY DEF Break, Becomes
<1>2. /\ ValuesTyped' /\ NotesTyped' /\ CountersFit' /\ DOMAIN changes' = DOMAIN changes
      /\ TablesTyped'
  BY <1>1, GroupsStay
<1>3. CountsTyped'
  BY <1>1, ActTyped, GroupsStay DEF counts
<1>4. SessionsTyped'
  <2>1. SessionsTyped
    BY TypesOf DEF Typed
  <2>2. peers' \in [Devices -> SUBSET Devices]
    BY <2>1, BreakShrinks DEF SessionsTyped
  <2> QED BY <1>1, <2>1, <2>2 DEF SessionsTyped
<1>5. link' \in LinkType /\ MessagesKnown'
  BY <1>2, BreakLeaves, StayKnown DEF Typed
<1> QED BY <1>2, <1>3, <1>4, <1>5, TypesTogether

LEMMA StepTyped == Typed /\ [Next]_vars => Typed'
<1> SUFFICES ASSUME Typed, [Next]_vars PROVE Typed'
  OBVIOUS
<1>1. IInv'
  BY StepKeeps DEF Typed
<1>2. ASSUME NEW d \in Devices, NEW t \in Times, SetState(d, t) \/ UpdateSetting(d, t)
      PROVE  Typed'
  BY <1>1, <1>2, WriteTyped
<1>3. ASSUME NEW d \in Devices, SaveNote(d) \/ DeleteNote(d)
      PROVE  Typed'
  BY <1>1, <1>3, SaveTyped, DeleteTyped
<1>4. ASSUME NEW d \in Devices, NEW e \in Devices \ {d},
             SettingChanged(d, e) \/ ApplyNoteSync(d, e) \/ ApplyNoteDelete(d, e)
      PROVE  Typed'
  BY <1>1, <1>4, SettingChangedTyped, ApplyNoteSyncTyped, ApplyNoteDeleteTyped
<1>5. ASSUME NEW d \in Devices, NEW e \in Devices,
             RevokeDevice(d, e) \/ DeviceRevocation(d, e) \/ RelayedRevocation(d, e)
      PROVE  Typed'
  BY <1>1, <1>5, RevocationsTyped
<1>6. ASSUME NEW d \in Devices, NEW e \in Devices \ {d}, Greet(d, e) \/ Break(d, e)
      PROVE  Typed'
  BY <1>1, <1>6, GreetTyped, BreakTyped
<1>7. ASSUME NEW p \in Pairs, Handshake(p) \/ \E kind \in {"lan", "turn"} : Join(p, kind)
      PROVE  Typed'
  BY <1>1, <1>7, HandshakeTyped, JoinTyped
<1>8. CASE UNCHANGED vars
  <2>1. /\ ValuesTyped' /\ NotesTyped' /\ CountersFit' /\ DOMAIN changes' = DOMAIN changes
        /\ TablesTyped' /\ CountsTyped' /\ SessionsTyped'
    BY <1>8, GroupsStay DEF vars
  <2>2. link' \in LinkType /\ MessagesKnown'
    BY <1>8, <2>1, SameLinks DEF vars
  <2> QED BY <1>1, <2>1, <2>2, TypesTogether
<1> QED BY <1>2, <1>3, <1>4, <1>5, <1>6, <1>7, <1>8 DEF Next

\* Settings, documents, maps, sessions and everything under way are of their kinds, and
\* no change is numbered beyond the changes there are, for any devices and bounds
\* (lib.rs, PeerConnected, SettingChanged and ApplyNoteSync).
THEOREM TypeCorrect == Spec => []TypeOK
<1>1. Typed => TypeOK
  BY DEF Typed
<1> QED BY <1>1, InitTyped, StepTyped, PTL DEF Spec

-----------------------------------------------------------------------------
(* What becomes of a message.  It stays under way until it is handled, as  *)
(* long as the session lasts.                                              *)

\* Each of two devices has the other in its map, over the LAN.
Linked(w, f) == f \in peers[w] /\ w \in peers[f] /\ phase[{w, f}] = "lan"

\* d handles e's message m.
Handles(d, e, m) ==
  /\ m = Head(link[e][d])
  /\ \/ m.type = "SettingsUpdate" /\ SettingChanged(d, e)
     \/ m.type = "NoteSync" /\ ApplyNoteSync(d, e)
     \/ m.type = "NoteDelete" /\ ApplyNoteDelete(d, e)
     \/ m.type = "DeviceRevocation" /\ DeviceRevocation(d, e)
     \/ m.type = "PeerConnected" /\ Greet(d, e)

\* All messages from x to y are still there, or the first of them is handled.
GoesOn(x, y) == \A m \in InLink(x, y) : m \in InLink(x, y)' \/ Handles(y, x, m)

LEMMA SentGoesOn ==
  ASSUME Typed, NEW d \in Devices, NEW tos, NEW m \in Message, link' = Sent(link, d, tos, m)
  PROVE  \A x, y \in Devices : GoesOn(x, y)
<1>1. \A x, y \in Devices : Range(link[x][y]) \subseteq Range(link'[x][y])
  BY SentIs DEF Typed
<1> QED BY <1>1 DEF GoesOn, InLink

LEMMA TakenGoesOn ==
  ASSUME Typed, NEW d \in Devices, NEW e \in Devices, NEW type, Receives(d, e, type),
         Head(link[e][d]).type = type => Handles(d, e, Head(link[e][d])),
         \/ link' = Taken(d, e)
         \/ \E tos : \E m \in Message : link' = Sent(Taken(d, e), d, tos, m)
  PROVE  \A x, y \in Devices : GoesOn(x, y)
<1>1. /\ Taken(d, e) \in LinkType
      /\ \A x, y \in Devices : \A m \in InLink(x, y) :
           m \in Range(Taken(d, e)[x][y]) \/ (x = e /\ y = d /\ m = Head(link[e][d]))
  BY TakenIs DEF Typed
<1>2. \A x, y \in Devices : Range(Taken(d, e)[x][y]) \subseteq Range(link'[x][y])
  <2>1. CASE \E tos : \E m \in Message : link' = Sent(Taken(d, e), d, tos, m)
    <3>1. PICK tos : \E m \in Message : link' = Sent(Taken(d, e), d, tos, m)
      BY <2>1
    <3>2. PICK m \in Message : link' = Sent(Taken(d, e), d, tos, m)
      BY <3>1
    <3> QED BY <1>1, <3>2, SentIs
  <2> QED BY <2>1
<1>3. Handles(d, e, Head(link[e][d]))
  BY TakenIs DEF Typed
<1> QED BY <1>1, <1>2, <1>3 DEF GoesOn, InLink

LEMMA SettingChangedGoesOn ==
  ASSUME Typed, NEW d \in Devices, NEW e \in Devices, SettingChanged(d, e)
  PROVE  \A x, y \in Devices : GoesOn(x, y)
<1>1. Receives(d, e, "SettingsUpdate") /\ link' = Taken(d, e)
  BY DEF SettingChanged, Take
<1> QED BY <1>1, TakenGoesOn DEF Handles

LEMMA ApplyNoteDeleteGoesOn ==
  ASSUME Typed, NEW d \in Devices, NEW e \in Devices, ApplyNoteDelete(d, e)
  PROVE  \A x, y \in Devices : GoesOn(x, y)
<1>1. Receives(d, e, "NoteDelete") /\ link' = Taken(d, e)
  BY DEF ApplyNoteDelete, Take
<1> QED BY <1>1, TakenGoesOn DEF Handles

LEMMA GreetGoesOn ==
  ASSUME Typed, NEW d \in Devices, NEW e \in Devices, Greet(d, e)
  PROVE  \A x, y \in Devices : GoesOn(x, y)
<1>1. /\ Receives(d, e, "PeerConnected") /\ Head(link[e][d]) = PeerConnected
      /\ Head(link[e][d]).type = "PeerConnected"
  BY TakenIs, MessageTyped DEF Greet, Typed
<1>2. Handles(d, e, Head(link[e][d]))
  BY <1>1 DEF Handles
<1> QED BY <1>1, <1>2, GreetIs DEF GoesOn

\* The reply of ApplyNoteSync.
Reply(d, e) ==
  LET doc == Applied(changes', note'[d])
  IN  [type |-> "NoteSync", doc |-> doc, news |-> doc \ Head(link[e][d]).doc]

LEMMA ReplyTyped ==
  ASSUME Typed, Typed', NEW d \in Devices, NEW e
  PROVE  Reply(d, e) \in Message
<1>1. note'[d] \subseteq Versions
  BY DEF Typed, TypeOK
<1>2. Applied(changes', note'[d]) \subseteq Versions
  BY <1>1, AppliedIs
<1> QED BY <1>2, NoteTyped DEF Reply

LEMMA ApplyNoteSyncGoesOn ==
  ASSUME Typed, Typed', NEW d \in Devices, NEW e \in Devices, ApplyNoteSync(d, e)
  PROVE  \A x, y \in Devices : GoesOn(x, y)
<1>1. /\ Receives(d, e, "NoteSync")
      /\ link' = Taken(d, e) \/ link' = Sent(Taken(d, e), d, {e}, Reply(d, e))
  BY DEF ApplyNoteSync, Take, Reply
<1> QED BY <1>1, ReplyTyped, TakenGoesOn DEF Handles

LEMMA RevocationsGoOn ==
  ASSUME Typed, NEW d \in Devices, NEW e \in Devices,
         RevokeDevice(d, e) \/ DeviceRevocation(d, e) \/ RelayedRevocation(d, e)
  PROVE  \A x, y \in Devices : GoesOn(x, y)
<1> DEFINE disconnect == [type |-> "Disconnect"]
           revocation(x) == [type |-> "DeviceRevocation", device |-> x]
<1>1. disconnect \in Message /\ \A x \in Devices : revocation(x) \in Message
  BY RevocationTyped, BareTyped
<1>2. ASSUME NEW x, NEW links, OnRevocation(d, x, links)
      PROVE  \/ link' = links \/ link' = Sent(links, d, Devices, revocation(x))
             \/ link' = Sent(links, d, Devices, disconnect)
  BY <1>2 DEF OnRevocation, RevokeOther, LockOut
<1> HIDE DEF disconnect, revocation
<1>3. CASE RevokeDevice(d, e)
  BY <1>1, <1>3, SentGoesOn DEF RevokeDevice, RevokeOther, revocation
<1>4. CASE RelayedRevocation(d, e)
  <2>1. \/ UNCHANGED link \/ link' = Sent(link, d, Devices, revocation(e))
        \/ link' = Sent(link, d, Devices, disconnect)
    BY <1>2, <1>4 DEF RelayedRevocation
  <2>2. UNCHANGED link => \A x, y \in Devices : GoesOn(x, y)
    BY DEF GoesOn, InLink
  <2> QED BY <1>1, <2>1, <2>2, SentGoesOn
<1>5. CASE DeviceRevocation(d, e)
  <2> DEFINE x == Head(link[e][d]).device
  <2>1. /\ Receives(d, e, "DeviceRevocation")
        /\ \/ link' = Taken(d, e) \/ link' = Sent(Taken(d, e), d, Devices, revocation(x))
           \/ link' = Sent(Taken(d, e), d, Devices, disconnect)
    BY <1>2, <1>5 DEF DeviceRevocation
  <2>2. x \in Devices
    BY <2>1, TakenIs, MessageTyped DEF Typed
  <2> QED BY <1>1, <1>5, <2>1, <2>2, TakenGoesOn DEF Handles
<1> QED BY <1>3, <1>4, <1>5

\* The actions that leave the sessions as they are, but may take peers out of a map.
LEMMA StaysLinked ==
  ASSUME Typed, UNCHANGED phase, \A x \in Devices : peers'[x] \subseteq peers[x],
         NEW w \in Devices, NEW f \in Devices, Linked(w, f)'
  PROVE  Linked(w, f)
  BY DEF Linked

LEMMA JoinLinks ==
  ASSUME Typed, NEW p \in Pairs, NEW kind, Join(p, kind), NEW w \in Devices, NEW f \in Devices,
         Linked(w, f)'
  PROVE  \/ PeerConnected \in InLink(f, w)' /\ PeerConnected \in InLink(w, f)'
         \/ Linked(w, f) /\ GoesOn(w, f) /\ GoesOn(f, w)
<1>1. /\ phase' = [phase EXCEPT ![p] = kind]
      /\ peers' = [x \in Devices |-> IF x \in p THEN peers[x] \cup (p \ {x}) ELSE peers[x]]
      /\ link' = [x \in Devices |-> [y \in Devices |->
           IF kind = "lan" /\ {x, y} = p THEN Append(link[x][y], PeerConnected) ELSE link[x][y]]]
  BY DEF Join, Becomes
<1>2. phase \in [Pairs -> {"none", "opening", "lan", "turn"}]
  BY DEF Typed, TypeOK
<1>3. link[w][f] \in Seq(Message) /\ link[f][w] \in Seq(Message)
  BY DEF Typed, LinkType
<1>4. CASE {w, f} = p
  <2>1. kind = "lan"
    BY <1>1, <1>2, <1>4 DEF Linked
  <2>2. link'[w][f] = Append(link[w][f], PeerConnected) /\ link'[f][w] = Append(link[f][w], PeerConnected)
    BY <1>1, <1>4, <2>1
  <2> QED BY <1>3, <2>2, BareTyped, RangeOfAppend DEF InLink
<1>5. CASE {w, f} # p
  <2>1. link'[w][f] = link[w][f] /\ link'[f][w] = link[f][w]
    BY <1>1, <1>5
  <2>2. ~(w \in p /\ f \in p \ {w}) /\ ~(f \in p /\ w \in p \ {f})
    BY <1>5, PairOf
  <2>3. f \in peers[w] /\ w \in peers[f]
    BY <1>1, <2>2 DEF Linked
  <2>4. phase'[{w, f}] = phase[{w, f}]
    BY <1>1, <1>2, <1>5, <2>3, PeersArePairs DEF Typed
  <2> QED BY <2>1, <2>3, <2>4 DEF Linked, GoesOn, InLink
<1> QED BY <1>4, <1>5

LEMMA HandshakeLinks ==
  ASSUME Typed, NEW p \in Pairs, Handshake(p), NEW w \in Devices, NEW f \in Devices, Linked(w, f)'
  PROVE  Linked(w, f) /\ GoesOn(w, f) /\ GoesOn(f, w)
<1>1. phase' = [phase EXCEPT ![p] = "opening"] /\ UNCHANGED <<peers, link>>
  BY DEF Handshake, Becomes
<1>2. phase \in [Pairs -> {"none", "opening", "lan", "turn"}]
  BY DEF Typed, TypeOK
<1>3. {w, f} \in Pairs
  BY <1>1, PeersArePairs DEF Typed, Linked
<1>4. {w, f} # p
  BY <1>1, <1>2, <1>3 DEF Linked
<1> QED BY <1>1, <1>2, <1>3, <1>4 DEF Linked, GoesOn, InLink

LEMMA BreakKeepsLinks ==
  ASSUME Typed, NEW d \in Devices, NEW e \in Devices \ {d}, Break(d, e),
         NEW w \in Devices, NEW f \in Devices, Linked(w, f)'
  PROVE  Linked(w, f) /\ GoesOn(w, f) /\ GoesOn(f, w)
<1>1. PICK to \in Read(link[d][e]), from \in Read(link[e][d]) :
        link' = [link EXCEPT ![d][e] = to, ![e][d] = from]
  BY DEF Break
<1>2. phase' = [phase EXCEPT ![{d, e}] = "none"]
  BY DEF Break, Becomes
<1>3. /\ phase \in [Pairs -> {"none", "opening", "lan", "turn"}]
      /\ peers \in [Devices -> SUBSET Devices]
  BY DEF Typed, TypeOK
<1>4. f \in peers[w] /\ w \in peers[f]
  BY <1>3, BreakShrinks DEF Linked
<1>5. {d, e} \in Pairs /\ {w, f} \in Pairs
  BY <1>4, PairIs, PeersArePairs DEF Typed
<1>6. {w, f} # {d, e}
  BY <1>2, <1>3, <1>5 DEF Linked
<1>7. link'[w][f] = link[w][f] /\ link'[f][w] = link[f][w]
  BY <1>1, <1>6 DEF Typed, LinkType
<1>8. phase'[{w, f}] = phase[{w, f}]
  BY <1>2, <1>3, <1>5, <1>6
<1> QED BY <1>4, <1>7, <1>8 DEF Linked, GoesOn, InLink

LEMMA LinksGoOn ==
  ASSUME Typed, [Next]_vars, NEW w \in Devices, NEW f \in Devices, Linked(w, f)'
  PROVE  \/ PeerConnected \in InLink(f, w)' /\ PeerConnected \in InLink(w, f)'
         \/ Linked(w, f) /\ GoesOn(w, f) /\ GoesOn(f, w)
<1>1. ASSUME NEW d \in Devices, NEW t \in Times, SetState(d, t) \/ UpdateSetting(d, t)
      PROVE  Linked(w, f) /\ GoesOn(w, f) /\ GoesOn(f, w)
  <2>1. UNCHANGED <<phase, peers>>
    BY <1>1 DEF SetState, UpdateSetting, Write, sessions
  <2>2. link' = Sent(link, d, Devices, [type |-> "SettingsUpdate", time |-> t]) \/ UNCHANGED link
    BY <1>1 DEF SetState, UpdateSetting, broadcast
  <2>3. UNCHANGED link => GoesOn(w, f) /\ GoesOn(f, w)
    BY DEF GoesOn, InLink
  <2> QED BY <2>1, <2>2, <2>3, StaysLinked, UpdateTyped, SentGoesOn
<1>2. ASSUME NEW d \in Devices, SaveNote(d) \/ DeleteNote(d)
      PROVE  Linked(w, f) /\ GoesOn(w, f) /\ GoesOn(f, w)
  <2>1. UNCHANGED <<phase, peers>>
    BY <1>2 DEF SaveNote, DeleteNote, sessions
  <2>2. \/ link' = Sent(link, d, Devices, FirstMessage(Applied(changes', note'[d])))
        \/ link' = Sent(link, d, Devices, [type |-> "NoteDelete"])
    BY <1>2 DEF SaveNote, DeleteNote, broadcast
  <2>3. FirstMessage(Applied(changes', note'[d])) \in Message
    <3>1. note'[d] \subseteq Versions
      BY StepTyped DEF Typed, TypeOK
    <3>2. Applied(changes', note'[d]) \subseteq Versions /\ {} \subseteq Versions
      BY <3>1, AppliedIs
    <3> QED BY <3>2, NoteTyped DEF FirstMessage
  <2> QED BY <2>1, <2>2, <2>3, StaysLinked, BareTyped, SentGoesOn
<1>3. ASSUME NEW d \in Devices, NEW e \in Devices \ {d},
             SettingChanged(d, e) \/ ApplyNoteSync(d, e) \/ ApplyNoteDelete(d, e) \/ Greet(d, e)
      PROVE  Linked(w, f) /\ GoesOn(w, f) /\ GoesOn(f, w)
  <2>1. UNCHANGED <<phase, peers>>
    BY <1>3 DEF SettingChanged, ApplyNoteSync, ApplyNoteDelete, Greet, sessions
  <2> QED BY <1>3, <2>1, StaysLinked, StepTyped, SettingChangedGoesOn, ApplyNoteSyncGoesOn,
             ApplyNoteDeleteGoesOn, GreetGoesOn
<1>4. ASSUME NEW d \in Devices, NEW e \in Devices,
             RevokeDevice(d, e) \/ DeviceRevocation(d, e) \/ RelayedRevocation(d, e)
      PROVE  Linked(w, f) /\ GoesOn(w, f) /\ GoesOn(f, w)
  <2>1. UNCHANGED phase /\ \A x \in Devices : peers'[x] \subseteq peers[x]
    BY <1>4 DEF RevokeDevice, DeviceRevocation, RelayedRevocation, OnRevocation, RevokeOther, LockOut,
                remove_peer, Typed, TypeOK
  <2> QED BY <1>4, <2>1, StaysLinked, RevocationsGoOn
<1>5. ASSUME NEW d \in Devices, NEW e \in Devices \ {d}, Break(d, e)
      PROVE  Linked(w, f) /\ GoesOn(w, f) /\ GoesOn(f, w)
  BY <1>5, BreakKeepsLinks
<1>6. ASSUME NEW p \in Pairs, Handshake(p)
      PROVE  Linked(w, f) /\ GoesOn(w, f) /\ GoesOn(f, w)
  BY <1>6, HandshakeLinks
<1>7. CASE UNCHANGED vars
  BY <1>7 DEF vars, sessions, Linked, GoesOn, InLink
<1> QED BY <1>1, <1>2, <1>3, <1>4, <1>5, <1>6, <1>7, JoinLinks DEF Next

-----------------------------------------------------------------------------
(* Settings.  Every value that a device has, or that is under way, has a   *)
(* device from which it gets to whatever is linked with that one.          *)

Gets(w, f, t) ==
  \/ setting[f] >= t \/ LockedOut(f)
  \/ \E m \in InLink(w, f) : m.type = "SettingsUpdate" /\ m.time >= t
  \/ PeerConnected \in InLink(f, w)
Spreads(w, t) == setting[w] >= t /\ \A f \in Devices : Linked(w, f) => Gets(w, f, t)

ValuesSpread ==
  \A d \in Devices : \A t \in Times : setting[d] = t => \E w \in Devices : Spreads(w, t)
MessagesSpread ==
  \A x, y \in Devices : \A m \in InLink(x, y) :
    m.type = "SettingsUpdate" => \E w \in Devices : Spreads(w, m.time)
SettingsSpread == mobile = {} => ValuesSpread /\ MessagesSpread

\* What was recorded is not taken back.
LEMMA Grow ==
  ASSUME Typed, [Next]_vars
  PROVE  /\ UNCHANGED mobile
         /\ \A x \in Devices : /\ setting[x] \in 0..MaxTime /\ setting'[x] \in 0..MaxTime
                               /\ setting'[x] >= setting[x]
                               /\ revoked[x] \subseteq revoked'[x]
                               /\ LockedOut(x) => LockedOut(x)'
<1>1. setting \in [Devices -> 0..MaxTime] /\ revoked \in [Devices -> SUBSET Devices]
  BY DEF Typed, TypeOK
<1>2. ASSUME NEW d \in Devices, NEW t, set_setting(d, t)
      PROVE  \A x \in Devices : setting'[x] = setting[x] \/ (setting'[x] = t /\ t > setting[x])
  BY <1>1, <1>2 DEF set_setting
<1>3. ASSUME NEW d \in Devices, NEW x, record_revoked_device(d, x)
      PROVE  \A y \in Devices : revoked[y] \subseteq revoked'[y]
  BY <1>1, <1>3 DEF record_revoked_device
<1>4. \A x \in Devices : setting'[x] \in 0..MaxTime
  BY StepTyped DEF Typed, TypeOK
<1>5. UNCHANGED mobile /\ (UNCHANGED setting \/ \E d \in Devices : \E t : set_setting(d, t))
  <2>1. ASSUME NEW d \in Devices, NEW t \in Times, SetState(d, t) \/ UpdateSetting(d, t)
        PROVE  UNCHANGED mobile /\ set_setting(d, t)
    BY <2>1 DEF SetState, UpdateSetting, Write
  <2>2. ASSUME NEW d \in Devices, NEW e, SettingChanged(d, e)
        PROVE  UNCHANGED mobile /\ (UNCHANGED setting \/ \E t : set_setting(d, t))
    BY <2>2 DEF SettingChanged
  <2>3. ASSUME NEW d, NEW e, SaveNote(d) \/ DeleteNote(d) \/ ApplyNoteSync(d, e) \/ ApplyNoteDelete(d, e)
                             \/ RevokeDevice(d, e) \/ DeviceRevocation(d, e) \/ RelayedRevocation(d, e)
                             \/ Greet(d, e) \/ Break(d, e)
        PROVE  UNCHANGED <<mobile, setting>>
    BY <2>3 DEF SaveNote, DeleteNote, ApplyNoteSync, ApplyNoteDelete, RevokeDevice, DeviceRevocation,
                RelayedRevocation, OnRevocation, Greet, Break
  <2>4. ASSUME NEW p, NEW kind, Handshake(p) \/ Join(p, kind) PROVE UNCHANGED <<mobile, setting>>
    BY <2>4 DEF Handshake, Join
  <2>5. CASE UNCHANGED vars
    BY <2>5 DEF vars
  <2> QED BY <2>1, <2>2, <2>3, <2>4, <2>5 DEF Next
<1>6. UNCHANGED revoked \/ \E d \in Devices : \E x : record_revoked_device(d, x)
  <2>1. ASSUME NEW d \in Devices, NEW e,
               RevokeDevice(d, e) \/ DeviceRevocation(d, e) \/ RelayedRevocation(d, e)
        PROVE  UNCHANGED revoked \/ \E x : record_revoked_device(d, x)
    BY <2>1 DEF RevokeDevice, DeviceRevocation, RelayedRevocation, OnRevocation, RevokeOther, LockOut
  <2>2. ASSUME NEW d, NEW t, SetState(d, t) \/ UpdateSetting(d, t) PROVE UNCHANGED revoked
    BY <2>2 DEF SetState, UpdateSetting, Write, tables
  <2>3. ASSUME NEW d, NEW e, SaveNote(d) \/ DeleteNote(d) \/ SettingChanged(d, e) \/ ApplyNoteSync(d, e)
                             \/ ApplyNoteDelete(d, e) \/ Greet(d, e) \/ Break(d, e)
        PROVE  UNCHANGED revoked
    BY <2>3 DEF SaveNote, DeleteNote, SettingChanged, ApplyNoteSync, ApplyNoteDelete, Greet, Break, tables
  <2>4. ASSUME NEW p, NEW kind, Handshake(p) \/ Join(p, kind) PROVE UNCHANGED revoked
    BY <2>4 DEF Handshake, Join, tables
  <2>5. CASE UNCHANGED vars
    BY <2>5 DEF vars, tables
  <2> QED BY <2>1, <2>2, <2>3, <2>4, <2>5 DEF Next
<1>7. \A x \in Devices : setting'[x] >= setting[x]
  <2>1. CASE UNCHANGED setting
    BY <1>1, <2>1, ConstantsAssumption
  <2>2. ASSUME NEW d \in Devices, NEW t, set_setting(d, t), NEW x \in Devices
        PROVE  setting'[x] >= setting[x]
    BY <1>1, <1>2, <1>4, <2>2, ConstantsAssumption
  <2> QED BY <1>5, <2>1, <2>2
<1>8. \A x \in Devices : revoked[x] \subseteq revoked'[x]
  BY <1>3, <1>6
<1> QED BY <1>1, <1>4, <1>5, <1>7, <1>8 DEF LockedOut, is_device_revoked

LEMMA SpreadsOn ==
  ASSUME Typed, [Next]_vars, mobile = {}, NEW w \in Devices, NEW t \in Times, Spreads(w, t)
  PROVE  Spreads(w, t)'
<1>1. setting'[w] >= t /\ setting[w] # 0
  BY Grow, ConstantsAssumption DEF Spreads, Times
<1>2. ASSUME NEW f \in Devices, Linked(w, f)' PROVE Gets(w, f, t)'
  <2>1. CASE PeerConnected \in InLink(f, w)'
    BY <2>1 DEF Gets
  <2>2. CASE Linked(w, f) /\ GoesOn(w, f) /\ GoesOn(f, w)
    <3>1. CASE setting[f] >= t \/ LockedOut(f)
      BY <3>1, Grow, ConstantsAssumption DEF Gets, Times
    <3>2. ASSUME NEW m \in InLink(w, f), m.type = "SettingsUpdate", m.time >= t
          PROVE  Gets(w, f, t)'
      <4>1. CASE m \in InLink(w, f)'
        BY <3>2, <4>1 DEF Gets
      <4>2. CASE Handles(f, w, m)
        <5>1. SettingChanged(f, w) /\ m = Head(link[w][f])
          BY <3>2, <4>2 DEF Handles
        <5>2. CASE LockedOut(f)
          BY <5>2, Grow DEF Gets
        <5>3. CASE set_setting(f, m.time)
          <6>1. m \in Message
            BY <5>1, TakenIs DEF SettingChanged, Typed
          <6>2. m.time \in Times
            BY <3>2, <6>1, MessageTyped
          <6>3. setting'[f] >= m.time
            BY <5>3, <6>2, ConstantsAssumption DEF set_setting, Typed, TypeOK, Times
          <6> QED BY <3>2, <6>2, <6>3, Grow, ConstantsAssumption DEF Gets, Times
        <5> QED BY <5>1, <5>2, <5>3 DEF SettingChanged
      <4> QED BY <2>2, <4>1, <4>2 DEF GoesOn
    <3>3. CASE PeerConnected \in InLink(f, w)
      <4>1. CASE PeerConnected \in InLink(f, w)'
        BY <4>1 DEF Gets
      <4>2. CASE Handles(w, f, PeerConnected)
        <5>1. Greet(w, f)
          BY <4>2 DEF Handles, PeerConnected
        <5>2. GreetingSetting(w) \in InLink(w, f)'
          BY <1>1, <2>2, <5>1, GreetIs DEF Linked, IsOpen, Hears
        <5>3. GreetingSetting(w).type = "SettingsUpdate" /\ GreetingSetting(w).time >= t
          BY DEF GreetingSetting, Spreads
        <5> QED BY <5>2, <5>3 DEF Gets
      <4> QED BY <2>2, <3>3, <4>1, <4>2 DEF GoesOn
    <3> QED BY <2>2, <3>1, <3>2, <3>3 DEF Spreads, Gets
  <2> QED BY <1>2, <2>1, <2>2, LinksGoOn
<1> QED BY <1>1, <1>2 DEF Spreads

\* What gets to the others takes less with it.
LEMMA SpreadsLess ==
  ASSUME Typed', NEW w \in Devices, NEW t \in Times, NEW u \in Times, u <= t, Spreads(w, t)'
  PROVE  Spreads(w, u)'
<1>1. \A x \in Devices : setting'[x] \in Nat
  BY ConstantsAssumption DEF Typed, TypeOK
<1>2. t \in Nat /\ u \in Nat
  BY DEF Times
<1>3. \A x, y \in Devices : \A m \in InLink(x, y)' : m.type = "SettingsUpdate" => m.time \in Nat
  <2>1. \A x, y \in Devices : link'[x][y] \in Seq(Message)
    BY DEF Typed, LinkType
  <2>2. \A x, y \in Devices : InLink(x, y)' \subseteq Message
    BY <2>1 DEF InLink, Range
  <2> QED BY <2>2, MessageTyped DEF Times
<1>4. ASSUME NEW f \in Devices, Gets(w, f, t)' PROVE Gets(w, f, u)'
  BY <1>1, <1>2, <1>3, <1>4 DEF Gets
<1> QED BY <1>1, <1>2, <1>4 DEF Spreads

\* A write that is taken is told to all who are linked.
LEMMA WriteSpreads ==
  ASSUME Typed, [Next]_vars, NEW d \in Devices, NEW t \in Times, SetState(d, t) \/ UpdateSetting(d, t),
         t > setting[d]
  PROVE  Spreads(d, t)'
<1> DEFINE m == [type |-> "SettingsUpdate", time |-> t]
<1>1. link' = Sent(link, d, Devices, m) /\ setting' = [setting EXCEPT ![d] = t] /\ UNCHANGED <<peers, phase>>
  BY DEF SetState, UpdateSetting, Write, set_setting, broadcast, sessions
<1>2. m.type = "SettingsUpdate" /\ m.time >= t /\ m \in Message
  BY UpdateTyped DEF Times
<1> HIDE DEF m
<1>3. \A f \in Devices : Hears(f, d) => m \in InLink(d, f)'
  BY <1>1, <1>2, SentIs DEF Typed, InLink
<1>4. setting'[d] >= t
  BY <1>1 DEF Typed, TypeOK, Times
<1> QED BY <1>1, <1>2, <1>3, <1>4 DEF Spreads, Gets, Linked, IsOpen, Hears

\* Where the values of a next state come from.
LEMMA NewValues ==
  ASSUME Typed, [Next]_vars, NEW x \in Devices
  PROVE  \/ setting'[x] = setting[x] \/ \E t \in Times : setting'[x] = t /\ Spreads(x, t)'
         \/ \E y \in Devices : \E m \in InLink(y, x) : m.type = "SettingsUpdate" /\ setting'[x] = m.time
<1>1. setting \in [Devices -> 0..MaxTime]
  BY DEF Typed, TypeOK
<1>2. ASSUME NEW d \in Devices, NEW t \in Times, SetState(d, t) \/ UpdateSetting(d, t)
      PROVE  setting'[x] = setting[x] \/ \E u \in Times : setting'[x] = u /\ Spreads(x, u)'
  <2>1. setting' = [setting EXCEPT ![d] = IF t > @ THEN t ELSE @]
    BY <1>2 DEF SetState, UpdateSetting, Write, set_setting
  <2>2. setting'[x] = setting[x] \/ (x = d /\ setting'[x] = t /\ t > setting[x])
    BY <1>1, <2>1
  <2> QED BY <1>2, <2>2, WriteSpreads
<1>3. ASSUME NEW d \in Devices, NEW e \in Devices \ {d}, SettingChanged(d, e)
      PROVE  \/ setting'[x] = setting[x]
             \/ \E y \in Devices : \E m \in InLink(y, x) : m.type = "SettingsUpdate" /\ setting'[x] = m.time
  <2>1. /\ Receives(d, e, "SettingsUpdate")
        /\ UNCHANGED setting \/ set_setting(d, Head(link[e][d]).time)
    BY <1>3 DEF SettingChanged
  <2>2. Head(link[e][d]) \in InLink(e, d) /\ Head(link[e][d]).type = "SettingsUpdate"
    BY <2>1, TakenIs DEF Typed
  <2> QED BY <1>1, <2>1, <2>2 DEF set_setting
<1>4. ASSUME NEW d, NEW e, SaveNote(d) \/ DeleteNote(d) \/ ApplyNoteSync(d, e) \/ ApplyNoteDelete(d, e)
                           \/ RevokeDevice(d, e) \/ DeviceRevocation(d, e) \/ RelayedRevocation(d, e)
                           \/ Greet(d, e) \/ Break(d, e)
      PROVE  UNCHANGED setting
  BY <1>4 DEF SaveNote, DeleteNote, ApplyNoteSync, ApplyNoteDelete, RevokeDevice, DeviceRevocation,
              RelayedRevocation, OnRevocation, Greet, Break
<1>5. ASSUME NEW p, NEW kind, Handshake(p) \/ Join(p, kind) PROVE UNCHANGED setting
  BY <1>5 DEF Handshake, Join
<1>6. CASE UNCHANGED vars
  BY <1>6 DEF vars
<1> QED BY <1>2, <1>3, <1>4, <1>5, <1>6 DEF Next

\* Where the messages of a next state come from.
Fresh(x, m) ==
  \/ m.type = "SettingsUpdate" /\ \E z \in Devices : m.time <= setting'[z]
  \/ m.type = "NoteSync" /\ m.doc = Applied(changes', note'[x])
  \/ m.type = "NoteDelete" /\ deleted'
  \/ m.type \in {"DeviceRevocation", "Disconnect", "PeerConnected"}
AllFresh == \A x, y \in Devices : \A m \in InLink(x, y)' : m \in InLink(x, y) \/ Fresh(x, m)

LEMMA SentFresh ==
  ASSUME NEW links \in LinkType, \A x, y \in Devices : Range(links[x][y]) \subseteq InLink(x, y),
         NEW d \in Devices, NEW tos, NEW m \in Message, link' = Sent(links, d, tos, m),
         Fresh(d, m)
  PROVE  AllFresh
<1>1. \A x, y \in Devices :
        /\ InLink(x, y)' \subseteq Range(links[x][y]) \cup {m}
        /\ x # d \/ y \notin peers[d] => InLink(x, y)' = Range(links[x][y])
  BY SentIs DEF InLink
<1>2. ASSUME NEW x \in Devices, NEW y \in Devices, NEW n \in InLink(x, y)', n \notin InLink(x, y)
      PROVE  Fresh(x, n)
  <2>1. x = d /\ n = m
    BY <1>1, <1>2
  <2> QED BY <2>1
<1> QED BY <1>2 DEF AllFresh

LEMMA LessIsFresh ==
  ASSUME \A x, y \in Devices : InLink(x, y)' \subseteq InLink(x, y)
  PROVE  AllFresh
  BY DEF AllFresh

LEMMA TakenFresh ==
  ASSUME Typed, NEW d \in Devices, NEW e \in Devices, NEW type, Receives(d, e, type), link' = Taken(d, e)
  PROVE  AllFresh
  BY TakenIs, LessIsFresh DEF Typed, InLink

LEMMA RevocationsAreFresh ==
  ASSUME Typed, NEW d \in Devices, NEW e \in Devices,
         RevokeDevice(d, e) \/ DeviceRevocation(d, e) \/ RelayedRevocation(d, e)
  PROVE  AllFresh
<1>1. ASSUME NEW links \in LinkType, \A x, y \in Devices : Range(links[x][y]) \subseteq InLink(x, y),
             NEW m \in Message, m.type \in {"DeviceRevocation", "Disconnect"},
             link' = Sent(links, d, Devices, m)
      PROVE  AllFresh
  <2>1. Fresh(d, m)
    BY <1>1 DEF Fresh
  <2> QED BY <1>1, <2>1, SentFresh
<1>2. ASSUME NEW links \in LinkType, \A x, y \in Devices : Range(links[x][y]) \subseteq InLink(x, y),
             NEW x \in Devices,
             link' = links \/ RevokeOther(d, x, links) \/ LockOut(d, links)
      PROVE  AllFresh
  <2> DEFINE revocation == [type |-> "DeviceRevocation", device |-> x]
             disconnect == [type |-> "Disconnect"]
  <2>1. /\ revocation \in Message /\ revocation.type = "DeviceRevocation"
        /\ disconnect \in Message /\ disconnect.type = "Disconnect"
    BY RevocationTyped, BareTyped
  <2>2. \/ link' = links \/ link' = Sent(links, d, Devices, revocation)
        \/ link' = Sent(links, d, Devices, disconnect)
    BY <1>2 DEF RevokeOther, LockOut
  <2> HIDE DEF revocation, disconnect
  <2>3. CASE link' = links
    BY <1>2, <2>3, LessIsFresh DEF InLink
  <2> QED BY <1>1, <1>2, <2>1, <2>2, <2>3
<1>3. link \in LinkType /\ \A x, y \in Devices : Range(link[x][y]) \subseteq InLink(x, y)
  BY DEF Typed, InLink
<1>4. CASE RevokeDevice(d, e) \/ RelayedRevocation(d, e)
  BY <1>2, <1>3, <1>4 DEF RevokeDevice, RelayedRevocation, OnRevocation
<1>5. CASE DeviceRevocation(d, e)
  <2> DEFINE x == Head(link[e][d]).device
  <2>1. Receives(d, e, "DeviceRevocation") /\ OnRevocation(d, x, Taken(d, e))
    BY <1>5 DEF DeviceRevocation
  <2>2. x \in Devices
    BY <2>1, TakenIs, MessageTyped DEF Typed
  <2>3. Taken(d, e) \in LinkType /\ \A a, b \in Devices : Range(Taken(d, e)[a][b]) \subseteq InLink(a, b)
    BY <2>1, TakenIs DEF Typed
  <2> HIDE DEF x
  <2> QED BY <1>2, <2>1, <2>2, <2>3 DEF OnRevocation
<1> QED BY <1>4, <1>5

LEMMA StepIsFresh ==
  ASSUME Typed, [Next]_vars
  PROVE  AllFresh
<1>1. Typed'
  BY StepTyped
<1>2. link \in LinkType /\ \A x, y \in Devices : Range(link[x][y]) \subseteq InLink(x, y)
  BY DEF Typed, InLink
<1>3. UNCHANGED link => AllFresh
  BY LessIsFresh DEF InLink
<1>4. ASSUME NEW d \in Devices, NEW t \in Times, SetState(d, t) \/ UpdateSetting(d, t)
      PROVE  AllFresh
  <2> DEFINE m == [type |-> "SettingsUpdate", time |-> t]
  <2>1. m.type = "SettingsUpdate" /\ m.time = t /\ m \in Message
    BY UpdateTyped
  <2>2. UNCHANGED link \/ link' = Sent(link, d, Devices, m)
    BY <1>4 DEF SetState, UpdateSetting, broadcast
  <2>3. setting' = [setting EXCEPT ![d] = IF t > @ THEN t ELSE @]
    BY <1>4 DEF SetState, UpdateSetting, Write, set_setting
  <2>4. t <= setting'[d]
    BY <2>3, ConstantsAssumption DEF Typed, TypeOK, Times
  <2> HIDE DEF m
  <2>5. Fresh(d, m)
    BY <2>1, <2>4 DEF Fresh
  <2> QED BY <1>2, <1>3, <2>1, <2>2, <2>5, SentFresh
<1>5. ASSUME NEW d \in Devices, SaveNote(d)
      PROVE  AllFresh
  <2> DEFINE doc == Applied(changes', note'[d])
             m   == FirstMessage(doc)
  <2>1. doc \subseteq Versions /\ {} \subseteq Versions
    BY <1>1, AppliedIs DEF Typed, TypeOK
  <2>2. m.type = "NoteSync" /\ m.doc = doc /\ m \in Message
    BY <2>1, NoteTyped DEF FirstMessage
  <2>3. link' = Sent(link, d, Devices, m)
    BY <1>5 DEF SaveNote, broadcast
  <2> HIDE DEF m
  <2>4. Fresh(d, m)
    BY <2>2 DEF Fresh
  <2> QED BY <1>2, <2>2, <2>3, <2>4, SentFresh
<1>6. ASSUME NEW d \in Devices, DeleteNote(d)
      PROVE  AllFresh
  <2> DEFINE m == [type |-> "NoteDelete"]
  <2>1. m.type = "NoteDelete" /\ m \in Message
    BY BareTyped
  <2>2. link' = Sent(link, d, Devices, m) /\ deleted'
    BY <1>6 DEF DeleteNote, broadcast
  <2> HIDE DEF m
  <2>3. Fresh(d, m)
    BY <2>1, <2>2 DEF Fresh
  <2> QED BY <1>2, <2>1, <2>2, <2>3, SentFresh
<1>7. ASSUME NEW d \in Devices, NEW e \in Devices \ {d}, SettingChanged(d, e) \/ ApplyNoteDelete(d, e)
      PROVE  AllFresh
  <2>1. \E type : Receives(d, e, type) /\ link' = Taken(d, e)
    BY <1>7 DEF SettingChanged, ApplyNoteDelete, Take
  <2> QED BY <2>1, TakenFresh
<1>8. ASSUME NEW d \in Devices, NEW e \in Devices \ {d}, ApplyNoteSync(d, e)
      PROVE  AllFresh
  <2>1. /\ Receives(d, e, "NoteSync")
        /\ link' = Taken(d, e) \/ link' = Sent(Taken(d, e), d, {e}, Reply(d, e))
    BY <1>8 DEF ApplyNoteSync, Take, Reply
  <2>2. Reply(d, e) \in Message /\ Reply(d, e).type = "NoteSync"
        /\ Reply(d, e).doc = Applied(changes', note'[d])
    BY <1>1, ReplyTyped DEF Reply
  <2>3. Taken(d, e) \in LinkType /\ \A a, b \in Devices : Range(Taken(d, e)[a][b]) \subseteq InLink(a, b)
    BY <2>1, TakenIs DEF Typed
  <2>4. Fresh(d, Reply(d, e))
    BY <2>2 DEF Fresh
  <2> QED BY <2>1, <2>2, <2>3, <2>4, TakenFresh, SentFresh
<1>9. ASSUME NEW d \in Devices, NEW e \in Devices \ {d}, Greet(d, e)
      PROVE  AllFresh
  <2>1. UNCHANGED <<setting, note, changes>>
    BY <1>9 DEF Greet, notes
  <2>2. GreetingSetting(d).type = "SettingsUpdate" /\ GreetingSetting(d).time <= setting'[d]
    BY <2>1, ConstantsAssumption DEF GreetingSetting, Typed, TypeOK
  <2>3. GreetingNote(d).type = "NoteSync" /\ GreetingNote(d).doc = Applied(changes', note'[d])
    BY <2>1 DEF GreetingNote, FirstMessage
  <2>4. ASSUME NEW x \in Devices, NEW y \in Devices, NEW m \in InLink(x, y)', m \notin InLink(x, y)
        PROVE  Fresh(x, m)
    <3>1. x = d /\ (m = GreetingSetting(d) \/ m = GreetingNote(d))
      BY <1>9, <2>4, GreetIs
    <3> QED BY <2>2, <2>3, <3>1 DEF Fresh
  <2> QED BY <2>4 DEF AllFresh
<1>10. ASSUME NEW d \in Devices, NEW e \in Devices,
              RevokeDevice(d, e) \/ DeviceRevocation(d, e) \/ RelayedRevocation(d, e)
      PROVE  AllFresh
  BY <1>10, RevocationsAreFresh
<1>11. ASSUME NEW d \in Devices, NEW e \in Devices \ {d}, Break(d, e)
      PROVE  AllFresh
  BY <1>11, BreakLeaves, LessIsFresh DEF Typed
<1>12. ASSUME NEW p \in Pairs, NEW kind \in {"lan", "turn"}, Join(p, kind)
      PROVE  AllFresh
  BY <1>12, JoinIs DEF AllFresh, Fresh, PeerConnected
<1>13. ASSUME NEW p \in Pairs, Handshake(p)
      PROVE  AllFresh
  BY <1>3, <1>13 DEF Handshake
<1>14. CASE UNCHANGED vars
  BY <1>3, <1>14 DEF vars
<1> QED BY <1>4, <1>5, <1>6, <1>7, <1>8, <1>9, <1>10, <1>11, <1>12, <1>13, <1>14 DEF Next

-----------------------------------------------------------------------------
LEMMA SettingsSpreadOn ==
  ASSUME Typed, [Next]_vars, SettingsSpread
  PROVE  SettingsSpread'
<1> SUFFICES ASSUME mobile = {}, ValuesSpread, MessagesSpread PROVE (ValuesSpread /\ MessagesSpread)'
  BY Grow DEF SettingsSpread
<1>1. Typed'
  BY StepTyped
<1>2. ASSUME NEW m \in Message, m.type = "SettingsUpdate" PROVE m.time \in Times
  BY <1>2, MessageTyped
<1>3. \A x, y \in Devices : InLink(x, y) \subseteq Message /\ InLink(x, y)' \subseteq Message
  <2>1. \A x, y \in Devices : link[x][y] \in Seq(Message) /\ link'[x][y] \in Seq(Message)
    BY <1>1 DEF Typed, LinkType
  <2> QED BY <2>1 DEF InLink, Range
<1>4. \A x \in Devices : /\ setting[x] \in 0..MaxTime /\ setting'[x] \in 0..MaxTime
                         /\ setting[x] > 0 => setting[x] \in Times
                         /\ setting'[x] > 0 => setting'[x] \in Times
  BY Grow, ConstantsAssumption DEF Times
<1>5. ASSUME NEW x \in Devices, NEW y \in Devices, NEW m \in InLink(x, y), m.type = "SettingsUpdate"
      PROVE  m.time \in Times /\ \E w \in Devices : Spreads(w, m.time)'
  <2> DEFINE t == m.time
  <2>1. t \in Times /\ \E w \in Devices : Spreads(w, t)
    BY <1>2, <1>3, <1>5 DEF MessagesSpread
  <2> HIDE DEF t
  <2>2. \E w \in Devices : Spreads(w, t)'
    BY <2>1, SpreadsOn
  <2> QED BY <2>1, <2>2 DEF t
<1>6. ValuesSpread'
  <2> SUFFICES ASSUME NEW d \in Devices, NEW t \in Times, setting'[d] = t
               PROVE  \E w \in Devices : Spreads(w, t)'
    BY DEF ValuesSpread
  <2>1. CASE setting'[d] = setting[d]
    BY <2>1, SpreadsOn DEF ValuesSpread
  <2>2. CASE \E u \in Times : setting'[d] = u /\ Spreads(d, u)'
    BY <2>2
  <2>3. CASE \E y \in Devices : \E m \in InLink(y, d) : m.type = "SettingsUpdate" /\ setting'[d] = m.time
    BY <1>5, <2>3
  <2> QED BY <2>1, <2>2, <2>3, NewValues
<1>7. MessagesSpread'
  <2> SUFFICES ASSUME NEW x \in Devices, NEW y \in Devices, NEW m \in InLink(x, y)',
                      m.type = "SettingsUpdate"
               PROVE  \E w \in Devices : Spreads(w, m.time)'
    BY DEF MessagesSpread
  <2>1. CASE m \in InLink(x, y)
    BY <1>5, <2>1
  <2>2. CASE \E z \in Devices : m.time <= setting'[z]
    <3>1. PICK z \in Devices : m.time <= setting'[z]
      BY <2>2
    <3> DEFINE u == m.time
               t == setting'[z]
    <3>2. u \in Times
      BY <1>2, <1>3
    <3>3. t \in Times /\ u <= t
      BY <1>4, <3>1, <3>2 DEF Times
    <3> HIDE DEF u
    <3>4. PICK v \in Times : v = setting'[z]
      BY <3>3
    <3>5. PICK w \in Devices : Spreads(w, v)'
      BY <1>6, <3>4 DEF ValuesSpread
    <3>6. Spreads(w, u)'
      BY <1>1, <3>2, <3>3, <3>4, <3>5, SpreadsLess
    <3> QED BY <3>6 DEF u
  <2>3. m \in InLink(x, y) \/ Fresh(x, m)
    BY StepIsFresh DEF AllFresh
  <2> QED BY <2>1, <2>2, <2>3 DEF Fresh
<1> QED BY <1>6, <1>7

LEMMA SpreadSettingsAgree == Typed /\ SettingsSpread => SettingsAgree
<1> SUFFICES ASSUME Typed, ValuesSpread, Connected, Quiet, mobile = {},
                    NEW d \in Devices, NEW e \in Devices, ~LockedOut(d), ~LockedOut(e)
             PROVE  setting[d] = setting[e]
  BY DEF SettingsSpread, SettingsAgree
<1>1. ASSUME NEW x \in Devices, NEW y \in Devices, NEW m \in InLink(x, y)
      PROVE  m.type = "NoteSync"
  BY <1>1 DEF Quiet, InLink, Range
<1>2. setting \in [Devices -> 0..MaxTime] /\ MaxTime \in Nat
  BY ConstantsAssumption DEF Typed, TypeOK
<1>3. ASSUME NEW w \in Devices, NEW f \in Devices, w # f PROVE Linked(w, f)
  BY <1>3, PairIs DEF Connected, Linked
<1>4. PeerConnected.type # "NoteSync"
  BY DEF PeerConnected
<1>5. ASSUME NEW x \in Devices, NEW y \in Devices, ~LockedOut(y) PROVE setting[y] >= setting[x]
  <2>1. CASE setting[x] = 0
    BY <1>2, <2>1
  <2>2. CASE setting[x] # 0
    <3>1. PICK t \in Times : t = setting[x]
      BY <1>2, <2>2 DEF Times
    <3>2. PICK w \in Devices : Spreads(w, t)
      BY <3>1 DEF ValuesSpread
    <3>3. w # y => Gets(w, y, t)
      BY <1>3, <3>2 DEF Spreads
    <3>4. setting[y] >= t
      BY <1>1, <1>4, <1>5, <3>2, <3>3 DEF Spreads, Gets
    <3> QED BY <3>1, <3>4
  <2> QED BY <2>1, <2>2
<1> QED BY <1>2, <1>5

-----------------------------------------------------------------------------
Converges == Typed /\ SettingsSpread

LEMMA InitConverges == Init => Converges
<1> SUFFICES ASSUME Init PROVE Converges
  OBVIOUS
<1>1. \A x, y \in Devices : InLink(x, y) = {}
  BY DEF Init, InLink, Range
<1>2. \A d \in Devices : setting[d] = 0 /\ ~LockedOut(d)
  BY DEF Init, LockedOut, is_device_revoked
<1>3. SettingsSpread
  BY <1>1, <1>2 DEF SettingsSpread, ValuesSpread, MessagesSpread, Times
<1> QED BY <1>3, InitTyped DEF Converges

\* Computers that are connected, have nothing more to tell each other and are not locked
\* out have the same value of a setting, whatever was lost before with sessions that broke
\* and whoever was revoked: each value that any of them ever had got from a device to those
\* linked with it, or is still on its way (lib.rs, PeerConnected and SettingChanged).
THEOREM SettingsConverge == Spec => []SettingsAgree
<1>1. Converges /\ [Next]_vars => Converges'
  BY StepTyped, SettingsSpreadOn DEF Converges
<1>2. Converges => SettingsAgree
  BY SpreadSettingsAgree DEF Converges
<1> QED BY <1>1, <1>2, InitConverges, PTL DEF Spec

-----------------------------------------------------------------------------
(* Notes.                                                                  *)

DepsClosed ==
  \A v \in DOMAIN changes :
    /\ changes[v].deps \subseteq DOMAIN changes
    /\ \A u \in changes[v].deps : changes[u].deps \subseteq changes[v].deps
Closed(doc) == \A v \in doc : changes[v].deps \subseteq doc
DocsAreHad ==
  ~deleted => \A x, y \in Devices : \A m \in InLink(x, y) :
    /\ m.type # "NoteDelete"
    /\ m.type = "NoteSync" => m.doc \subseteq note[x] /\ Closed(m.doc)
Has(d, v) == v \in Applied(changes, note[d])
Reaches(w, f, v) ==
  \/ Has(f, v) \/ LockedOut(f) \/ LockedOut(w)
  \/ PeerConnected \in InLink(f, w)
  \/ \E m \in InLink(w, f) : m.type = "NoteSync" /\ v \in m.doc
  \/ \E m \in InLink(f, w) : m.type = "NoteSync"
Keeps(w, v) == Has(w, v) /\ \A f \in Devices : Linked(w, f) => Reaches(w, f, v)
TextsSpread ==
  ~deleted => \A v \in DOMAIN changes : changes[v].text => \E w \in Devices : Keeps(w, v)

NotesSpread == DepsClosed /\ DocsAreHad /\ TextsSpread

LEMMA HadTyped ==
  ASSUME Typed
  PROVE  /\ \A d \in Devices : note[d] \subseteq DOMAIN changes
         /\ \A x, y \in Devices : InLink(x, y) \subseteq Message
<1>1. \A x, y \in Devices : link[x][y] \in Seq(Message)
  BY DEF Typed, LinkType
<1> QED BY <1>1 DEF Typed, TypeOK, InLink, Range

\* The changes that are applied wait for no others.
LEMMA AppliedIsClosed ==
  ASSUME NEW cs, NEW doc, doc \subseteq DOMAIN cs,
         \A v \in DOMAIN cs : \A u \in cs[v].deps : cs[u].deps \subseteq cs[v].deps
  PROVE  \A v \in Applied(cs, doc) : cs[v].deps \subseteq Applied(cs, doc)
<1> SUFFICES ASSUME NEW v \in Applied(cs, doc), NEW u \in cs[v].deps
             PROVE  u \in Applied(cs, doc)
  OBVIOUS
<1>1. v \in DOMAIN cs /\ cs[v].deps \subseteq doc
  BY DEF Applied
<1>2. cs[u].deps \subseteq cs[v].deps
  BY <1>1
<1> QED BY <1>1, <1>2 DEF Applied

\* The changes that an action makes.
LEMMA ChangesGoOn ==
  ASSUME Typed, [Next]_vars
  PROVE  \/ UNCHANGED changes
         \/ \E d \in Devices : SaveNote(d) /\ NewChange(TRUE, Applied(changes, note[d]))
         \/ NewChange(FALSE, {})
<1>1. ASSUME NEW d \in Devices, SaveNote(d) PROVE NewChange(TRUE, Applied(changes, note[d]))
  BY <1>1 DEF SaveNote
<1>2. ASSUME NEW d, NEW e, ApplyNoteSync(d, e) PROVE UNCHANGED changes \/ NewChange(FALSE, {})
  BY <1>2 DEF ApplyNoteSync, notes
<1>3. ASSUME NEW d, NEW t, SetState(d, t) \/ UpdateSetting(d, t) PROVE UNCHANGED changes
  BY <1>3 DEF SetState, UpdateSetting, Write, notes
<1>4. ASSUME NEW d, NEW e, DeleteNote(d) \/ SettingChanged(d, e) \/ ApplyNoteDelete(d, e)
                           \/ RevokeDevice(d, e) \/ DeviceRevocation(d, e) \/ RelayedRevocation(d, e)
                           \/ Greet(d, e) \/ Break(d, e)
      PROVE  UNCHANGED changes
  BY <1>4 DEF DeleteNote, SettingChanged, ApplyNoteDelete, RevokeDevice, DeviceRevocation,
              RelayedRevocation, OnRevocation, Greet, Break, notes
<1>5. ASSUME NEW p, NEW kind, Handshake(p) \/ Join(p, kind) PROVE UNCHANGED changes
  BY <1>5 DEF Handshake, Join, notes
<1>6. CASE UNCHANGED vars
  BY <1>6 DEF vars, notes
<1> QED BY <1>1, <1>2, <1>3, <1>4, <1>5, <1>6 DEF Next

LEMMA ChangesStay ==
  ASSUME Typed, [Next]_vars
  PROVE  DOMAIN changes \subseteq DOMAIN changes' /\ \A v \in DOMAIN changes : changes'[v] = changes[v]
<1>1. ASSUME NEW text \in BOOLEAN, NEW deps, deps \subseteq DOMAIN changes, NewChange(text, deps)
      PROVE  DOMAIN changes \subseteq DOMAIN changes' /\ \A v \in DOMAIN changes : changes'[v] = changes[v]
  BY <1>1, NewChangeIs
<1>2. \A d \in Devices : Applied(changes, note[d]) \subseteq DOMAIN changes
  BY HadTyped, AppliedIs
<1> QED BY <1>1, <1>2, ChangesGoOn

LEMMA DepsStayClosed ==
  ASSUME Typed, [Next]_vars, DepsClosed
  PROVE  DepsClosed'
<1>1. ASSUME NEW text \in BOOLEAN, NEW deps, deps \subseteq DOMAIN changes, Closed(deps),
             NewChange(text, deps)
      PROVE  DepsClosed'
  <2> DEFINE n == Len(changes')
  <2>1. /\ DOMAIN changes' = DOMAIN changes \cup {n} /\ changes'[n].deps = deps
        /\ \A v \in DOMAIN changes : changes'[v] = changes[v]
    BY <1>1, NewChangeIs
  <2> HIDE DEF n
  <2> SUFFICES ASSUME NEW v \in DOMAIN changes'
               PROVE  /\ changes'[v].deps \subseteq DOMAIN changes'
                      /\ \A u \in changes'[v].deps : changes'[u].deps \subseteq changes'[v].deps
    BY DEF DepsClosed
  <2>2. CASE v \in DOMAIN changes
    <3>1. changes[v].deps \subseteq DOMAIN changes
      BY <2>2 DEF DepsClosed
    <3> QED BY <2>1, <2>2, <3>1 DEF DepsClosed
  <2>3. CASE v = n
    BY <1>1, <2>1, <2>3 DEF Closed
  <2> QED BY <2>1, <2>2, <2>3
<1>2. \A d \in Devices : /\ Applied(changes, note[d]) \subseteq DOMAIN changes
                         /\ Closed(Applied(changes, note[d]))
  BY HadTyped, AppliedIs, AppliedIsClosed DEF DepsClosed, Closed
<1>3. {} \subseteq DOMAIN changes /\ Closed({})
  BY DEF Closed
<1>4. CASE UNCHANGED changes
  BY <1>4 DEF DepsClosed
<1> QED BY <1>1, <1>2, <1>3, <1>4, ChangesGoOn

\* As long as no note is deleted, documents only grow.
LEMMA NotesGrow ==
  ASSUME Typed, [Next]_vars, DocsAreHad, ~deleted'
  PROVE  ~deleted /\ \A d \in Devices : note[d] \subseteq note'[d]
<1>1. note \in [Devices -> SUBSET Versions]
  BY DEF Typed, TypeOK
<1>2. UNCHANGED deleted
  <2>1. ASSUME NEW d, NEW t, SetState(d, t) \/ UpdateSetting(d, t) PROVE UNCHANGED deleted
    BY <2>1 DEF SetState, UpdateSetting, Write
  <2>2. ASSUME NEW d, NEW e, SaveNote(d) \/ SettingChanged(d, e) \/ ApplyNoteSync(d, e)
                             \/ ApplyNoteDelete(d, e) \/ RevokeDevice(d, e) \/ DeviceRevocation(d, e)
                             \/ RelayedRevocation(d, e)
                             \/ Greet(d, e) \/ Break(d, e)
        PROVE  UNCHANGED deleted
    BY <2>2 DEF SaveNote, SettingChanged, ApplyNoteSync, ApplyNoteDelete, RevokeDevice, DeviceRevocation,
                RelayedRevocation, OnRevocation, Greet, Break, counts
  <2>3. ASSUME NEW d, DeleteNote(d) PROVE FALSE
    BY <2>3 DEF DeleteNote
  <2>4. ASSUME NEW p, NEW kind, Handshake(p) \/ Join(p, kind) PROVE UNCHANGED deleted
    BY <2>4 DEF Handshake, Join, counts
  <2>5. CASE UNCHANGED vars
    BY <2>5 DEF vars, counts
  <2> QED BY <2>1, <2>2, <2>3, <2>4, <2>5 DEF Next
<1>4. ASSUME NEW d \in Devices, SaveNote(d) PROVE \A x \in Devices : note[x] \subseteq note'[x]
  <2>1. note' = [note EXCEPT ![d] = @ \cup {Len(changes')}]
    BY <1>4 DEF SaveNote
  <2> QED BY <1>1, <2>1
<1>5. ASSUME NEW d \in Devices, NEW e \in Devices, ApplyNoteSync(d, e)
      PROVE  \A x \in Devices : note[x] \subseteq note'[x]
  <2>1. \/ UNCHANGED note \/ note' = [note EXCEPT ![d] = @ \cup Head(link[e][d]).news]
        \/ note[d] = {} /\ note' = [note EXCEPT ![d] = {Len(changes')} \cup Head(link[e][d]).news]
    BY <1>5 DEF ApplyNoteSync, notes
  <2> QED BY <1>1, <2>1
<1>6. ASSUME NEW d \in Devices, NEW e \in Devices, ApplyNoteDelete(d, e) PROVE FALSE
  <2>1. Head(link[e][d]) \in InLink(e, d) /\ Head(link[e][d]).type = "NoteDelete"
    BY <1>6, TakenIs DEF ApplyNoteDelete, Typed
  <2> QED BY <1>2, <2>1 DEF DocsAreHad
<1>7. ASSUME NEW d \in Devices, DeleteNote(d) PROVE FALSE
  BY <1>7 DEF DeleteNote
<1>8. ASSUME NEW d, NEW t, SetState(d, t) \/ UpdateSetting(d, t) PROVE UNCHANGED note
  BY <1>8 DEF SetState, UpdateSetting, Write, notes
<1>9. ASSUME NEW d, NEW e, SettingChanged(d, e) \/ RevokeDevice(d, e) \/ DeviceRevocation(d, e)
                           \/ RelayedRevocation(d, e) \/ Greet(d, e) \/ Break(d, e)
      PROVE  UNCHANGED note
  BY <1>9 DEF SettingChanged, RevokeDevice, DeviceRevocation, RelayedRevocation, OnRevocation, Greet,
              Break, notes
<1>10. ASSUME NEW p, NEW kind, Handshake(p) \/ Join(p, kind) PROVE UNCHANGED note
  BY <1>10 DEF Handshake, Join, notes
<1>11. UNCHANGED vars => UNCHANGED note
  BY DEF vars, notes
<1> QED BY <1>2, <1>4, <1>5, <1>6, <1>7, <1>8, <1>9, <1>10, <1>11 DEF Next

LEMMA HasStays ==
  ASSUME Typed, [Next]_vars, DocsAreHad, ~deleted', NEW d \in Devices, NEW v, Has(d, v)
  PROVE  Has(d, v)'
<1>1. v \in DOMAIN changes /\ v \in note[d] /\ changes[v].deps \subseteq note[d]
  BY HadTyped DEF Has, Applied
<1>2. note[d] \subseteq note'[d] /\ changes'[v] = changes[v]
  BY <1>1, NotesGrow, ChangesStay
<1> QED BY <1>1, <1>2 DEF Has, Applied

LEMMA DocsStayHad ==
  ASSUME Typed, [Next]_vars, DepsClosed, DocsAreHad
  PROVE  DocsAreHad'
<1> SUFFICES ASSUME ~deleted', NEW x \in Devices, NEW y \in Devices, NEW m \in InLink(x, y)'
             PROVE  /\ m.type # "NoteDelete"
                    /\ m.type = "NoteSync" => m.doc \subseteq note'[x] /\ Closed(m.doc)'
  BY DEF DocsAreHad
<1>1. Typed' /\ DepsClosed' /\ ~deleted /\ note[x] \subseteq note'[x]
  BY StepTyped, DepsStayClosed, NotesGrow
<1>2. CASE m \in InLink(x, y)
  <2>1. /\ m.type # "NoteDelete"
        /\ m.type = "NoteSync" => m.doc \subseteq note[x] /\ Closed(m.doc)
    BY <1>1, <1>2 DEF DocsAreHad
  <2>2. m.type = "NoteSync" => m.doc \subseteq DOMAIN changes
    BY <1>2 DEF Typed, MessagesKnown, Known
  <2>3. m.type = "NoteSync" => Closed(m.doc)'
    BY <2>1, <2>2, ChangesStay DEF Closed
  <2> QED BY <1>1, <2>1, <2>3
<1>3. CASE Fresh(x, m)
  <2>1. m.type # "NoteDelete" /\ (m.type = "NoteSync" => m.doc = Applied(changes', note'[x]))
    BY <1>3 DEF Fresh
  <2>2. note'[x] \subseteq DOMAIN changes'
    BY <1>1 DEF Typed, TypeOK
  <2>3. Closed(Applied(changes, note[x]))'
    BY <1>1, <2>2, AppliedIsClosed DEF DepsClosed, Closed
  <2> QED BY <2>1, <2>3, AppliedIs
<1> QED BY <1>2, <1>3, StepIsFresh DEF AllFresh

\* What a device answers, and to whom: a locked out computer to nobody, others to the
\* sender, unless both have the same.
LEMMA AnswerIs ==
  ASSUME Typed, [Next]_vars, NEW d \in Devices, NEW e \in Devices, ApplyNoteSync(d, e),
         Hears(e, d)
  PROVE  \/ LockedOut(d)
         \/ \E m \in InLink(d, e)' : m.type = "NoteSync" /\ m.doc = Applied(changes', note'[d])
         \/ Applied(changes', note'[d]) = Head(link[e][d]).doc
<1>1. Receives(d, e, "NoteSync")
  BY DEF ApplyNoteSync
<1>2. Taken(d, e) \in LinkType
  BY <1>1, TakenIs DEF Typed
<1>3. ASSUME link' = Sent(Taken(d, e), d, {e}, Reply(d, e))
      PROVE  \E m \in InLink(d, e)' : m.type = "NoteSync" /\ m.doc = Applied(changes', note'[d])
  <2>1. Reply(d, e) \in Message /\ Reply(d, e).type = "NoteSync"
        /\ Reply(d, e).doc = Applied(changes', note'[d])
    BY StepTyped, ReplyTyped DEF Reply
  <2>2. Adds(Taken(d, e), Sent(Taken(d, e), d, {e}, Reply(d, e)), d, e, Reply(d, e))
    BY <1>2, <2>1, SentTo
  <2>3. Reply(d, e) \in InLink(d, e)'
    BY <1>3, <2>2 DEF Adds, InLink
  <2> QED BY <2>1, <2>3
<1> QED BY <1>3 DEF ApplyNoteSync, Reply

LEMMA KeepsOn ==
  ASSUME Typed, [Next]_vars, DepsClosed, DocsAreHad, ~deleted', NEW w \in Devices, NEW v, Keeps(w, v)
  PROVE  Keeps(w, v)'
<1>1. Has(w, v) /\ Has(w, v)' /\ note[w] # {} /\ ~deleted
  BY HasStays, NotesGrow DEF Keeps, Has, Applied
<1> SUFFICES ASSUME NEW f \in Devices, Linked(w, f)' PROVE Reaches(w, f, v)'
  BY <1>1 DEF Keeps
<1>2. CASE PeerConnected \in InLink(f, w)'
  BY <1>2 DEF Reaches
<1>3. CASE Linked(w, f) /\ GoesOn(w, f) /\ GoesOn(f, w)
  <2>1. Reaches(w, f, v) /\ Hears(f, w) /\ Hears(w, f)
    <3>1. {w, f} = {f, w}
      OBVIOUS
    <3> QED BY <1>3, <3>1 DEF Keeps, Linked, IsOpen, Hears
  <2>2. CASE Has(f, v) \/ LockedOut(f) \/ LockedOut(w)
    BY <2>2, HasStays, Grow DEF Reaches
  <2>3. CASE PeerConnected \in InLink(f, w)
    <3>1. CASE PeerConnected \in InLink(f, w)'
      BY <3>1 DEF Reaches
    <3>2. CASE Handles(w, f, PeerConnected)
      <4>1. Greet(w, f)
        BY <3>2 DEF Handles, PeerConnected
      <4>2. GreetingNote(w) \in InLink(w, f)'
        BY <1>1, <2>1, <4>1, GreetIs
      <4>3. GreetingNote(w).type = "NoteSync" /\ v \in GreetingNote(w).doc
        BY <1>1 DEF GreetingNote, FirstMessage, Has
      <4> QED BY <4>2, <4>3 DEF Reaches
    <3> QED BY <1>3, <2>3, <3>1, <3>2 DEF GoesOn
  <2>4. ASSUME NEW m \in InLink(w, f), m.type = "NoteSync", v \in m.doc
        PROVE  Reaches(w, f, v)'
    <3>1. CASE m \in InLink(w, f)'
      BY <2>4, <3>1 DEF Reaches
    <3>2. CASE Handles(f, w, m)
      <4>1. ApplyNoteSync(f, w) /\ m = Head(link[w][f])
        BY <2>4, <3>2 DEF Handles
      <4>2. CASE LockedOut(f)
        BY <4>2, Grow DEF Reaches
      <4>3. CASE \E n \in InLink(f, w)' : n.type = "NoteSync" /\ n.doc = Applied(changes', note'[f])
        BY <4>3 DEF Reaches
      <4>4. CASE Applied(changes', note'[f]) = m.doc
        BY <2>4, <4>4 DEF Reaches, Has
      <4> QED BY <2>1, <4>1, <4>2, <4>3, <4>4, AnswerIs
    <3> QED BY <1>3, <2>4, <3>1, <3>2 DEF GoesOn
  <2>5. ASSUME NEW m \in InLink(f, w), m.type = "NoteSync"
        PROVE  Reaches(w, f, v)'
    <3>1. CASE m \in InLink(f, w)'
      BY <2>5, <3>1 DEF Reaches
    <3>2. CASE Handles(w, f, m)
      <4>1. ApplyNoteSync(w, f) /\ m = Head(link[f][w])
        BY <2>5, <3>2 DEF Handles
      <4>2. CASE LockedOut(w)
        BY <4>2, Grow DEF Reaches
      <4>3. CASE \E n \in InLink(w, f)' : n.type = "NoteSync" /\ n.doc = Applied(changes', note'[w])
        BY <1>1, <4>3 DEF Reaches, Has
      <4>4. CASE Applied(changes', note'[w]) = m.doc
        <5>1. v \in m.doc /\ m.doc \subseteq note[f] /\ Closed(m.doc)
          BY <1>1, <2>5, <4>4 DEF DocsAreHad, Has
        <5>2. Has(f, v)
          BY <5>1 DEF Closed, Has, Applied
        <5> QED BY <5>2, HasStays DEF Reaches
      <4> QED BY <2>1, <4>1, <4>2, <4>3, <4>4, AnswerIs
    <3> QED BY <1>3, <2>5, <3>1, <3>2 DEF GoesOn
  <2> QED BY <2>1, <2>2, <2>3, <2>4, <2>5 DEF Reaches
<1> QED BY <1>2, <1>3, LinksGoOn

\* A text that is saved is told to all who are linked.
LEMMA SaveSpreads ==
  ASSUME Typed, [Next]_vars, NEW d \in Devices, SaveNote(d), NEW n, n = Len(changes')
  PROVE  Keeps(d, n)'
<1> DEFINE doc == Applied(changes', note'[d])
           m   == FirstMessage(doc)
<1>1. /\ NewChange(TRUE, Applied(changes, note[d])) /\ note' = [note EXCEPT ![d] = @ \cup {n}]
      /\ link' = Sent(link, d, Devices, m) /\ UNCHANGED <<peers, phase>>
  BY DEF SaveNote, broadcast, sessions
<1>2. changes'[n].deps = Applied(changes, note[d])
  BY <1>1, HadTyped, AppliedIs, NewChangeIs
<1>3. n \in note'[d] /\ note[d] \subseteq note'[d]
  BY <1>1 DEF Typed, TypeOK
<1>4. n \in doc
  BY <1>2, <1>3 DEF Applied
<1>5. m \in Message /\ m.type = "NoteSync" /\ m.doc = doc
  <2>1. note'[d] \subseteq Versions
    BY StepTyped DEF Typed, TypeOK
  <2>2. doc \subseteq Versions /\ {} \subseteq Versions
    BY <2>1, AppliedIs
  <2> QED BY <2>2, NoteTyped DEF FirstMessage
<1> HIDE DEF m
<1>6. \A f \in Devices : Hears(f, d) => m \in InLink(d, f)'
  BY <1>1, <1>5, SentIs DEF Typed, InLink
<1> QED BY <1>1, <1>4, <1>5, <1>6 DEF Keeps, Has, Reaches, Linked, IsOpen, Hears

LEMMA TextsSpreadOn ==
  ASSUME Typed, [Next]_vars, DepsClosed, DocsAreHad, TextsSpread
  PROVE  TextsSpread'
<1> SUFFICES ASSUME ~deleted', NEW v \in DOMAIN changes', changes'[v].text
             PROVE  \E w \in Devices : Keeps(w, v)'
  BY DEF TextsSpread
<1>1. CASE v \in DOMAIN changes
  <2>1. changes[v].text /\ ~deleted
    BY <1>1, ChangesStay, NotesGrow
  <2>2. PICK w \in Devices : Keeps(w, v)
    BY <1>1, <2>1 DEF TextsSpread
  <2> QED BY <2>2, KeepsOn
<1>2. CASE v \notin DOMAIN changes
  <2>1. CASE UNCHANGED changes
    BY <1>2, <2>1
  <2>2. ASSUME NEW d \in Devices, SaveNote(d), NewChange(TRUE, Applied(changes, note[d]))
        PROVE  \E w \in Devices : Keeps(w, v)'
    <3>1. v = Len(changes')
      BY <1>2, <2>2, HadTyped, AppliedIs, NewChangeIs
    <3> QED BY <2>2, <3>1, SaveSpreads
  <2>3. ASSUME NewChange(FALSE, {}) PROVE FALSE
    <3>1. v = Len(changes') /\ changes'[Len(changes')].text = FALSE
      BY <1>2, <2>3, NewChangeIs
    <3> QED BY <3>1
  <2> QED BY <2>1, <2>2, <2>3, ChangesGoOn
<1> QED BY <1>1, <1>2

LEMMA SpreadTextsReachAll == Typed /\ NotesSpread => WritesReachAll
<1> SUFFICES ASSUME Typed, DocsAreHad, TextsSpread, Connected, Quiet, ~deleted,
                    \A x \in Devices : ~LockedOut(x), NEW v \in DOMAIN changes, changes[v].text, NEW d \in Devices
             PROVE  Has(d, v)
  BY DEF NotesSpread, WritesReachAll, Has
<1>1. PICK w \in Devices : Keeps(w, v)
  BY DEF TextsSpread
<1>2. ASSUME NEW x \in Devices, NEW y \in Devices, NEW m \in InLink(x, y)
      PROVE  m.type = "NoteSync" /\ m.doc = note[y] /\ m.doc \subseteq note[x] /\ Closed(m.doc)
  <2>1. m.type = "NoteSync" /\ m.doc = note[y]
    BY <1>2 DEF Quiet, InLink, Range
  <2> QED BY <1>2, <2>1 DEF DocsAreHad
<1>3. CASE d = w
  BY <1>1, <1>3 DEF Keeps
<1>4. CASE d # w
  <2>1. Linked(w, d)
    BY <1>4, PairIs DEF Connected, Linked
  <2>2. Reaches(w, d, v) /\ Has(w, v)
    BY <1>1, <2>1 DEF Keeps
  <2>3. ~LockedOut(d) /\ ~LockedOut(w)
    OBVIOUS
  <2>4. PeerConnected \notin InLink(d, w)
    BY <1>2 DEF PeerConnected
  <2>5. ASSUME NEW m, v \in m.doc, m.doc \subseteq note[d], Closed(m.doc) PROVE Has(d, v)
    BY <2>5 DEF Closed, Has, Applied
  <2>6. ASSUME NEW m \in InLink(w, d), v \in m.doc PROVE Has(d, v)
    BY <1>2, <2>5, <2>6
  <2>7. ASSUME NEW m \in InLink(d, w) PROVE Has(d, v)
    <3>1. v \in note[w]
      BY <2>2 DEF Has, Applied
    <3> QED BY <1>2, <2>5, <3>1
  <2> QED BY <2>2, <2>3, <2>4, <2>6, <2>7 DEF Reaches
<1> QED BY <1>3, <1>4

LEMMA InitNotesSpread == Init => NotesSpread
<1> SUFFICES ASSUME Init PROVE NotesSpread
  OBVIOUS
<1>1. \A x, y \in Devices : InLink(x, y) = {}
  BY DEF Init, InLink, Range
<1>2. DOMAIN changes = {}
  BY DEF Init
<1> QED BY <1>1, <1>2 DEF NotesSpread, DepsClosed, DocsAreHad, TextsSpread

\* A text that any device saved is part of the document of all, when they are connected
\* and have nothing more to tell each other, no note was deleted and nobody is locked out:
\* each text is kept by a device from which it gets to those linked with it, or whose
\* document is asked for by what is under way (lib.rs, ApplyNoteSync; ffi.rs, NoteSync).
THEOREM SavesAreKept == Spec => []WritesReachAll
<1>1. Converges /\ NotesSpread /\ [Next]_vars => (Converges /\ NotesSpread)'
  BY StepTyped, SettingsSpreadOn, DepsStayClosed, DocsStayHad, TextsSpreadOn
     DEF Converges, NotesSpread
<1>2. Converges /\ NotesSpread => WritesReachAll
  BY SpreadTextsReachAll DEF Converges
<1> QED BY <1>1, <1>2, InitConverges, InitNotesSpread, PTL DEF Spec
=============================================================================
