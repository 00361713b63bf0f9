------------------------ MODULE ClipboardSyncProofs ------------------------
(***************************************************************************)
(* Theorems about ClipboardSync, for any devices, contents, sessions and   *)
(* bounds.  Agreement needs to know where an update is while it is under   *)
(* way: Spread(t) says that some device has one of that time or later, and *)
(* that it gets from there to whatever is linked with that device.         *)
(***************************************************************************)
EXTENDS ClipboardSync, Functions, SequenceTheorems, FiniteSetTheorems, TLAPS

\* The first update of a session has a time.
GreetsWithTime ==
  \A s \in Sessions, d \in Devices : phase[s][d] = "greeting" => draft[s][d] > 0

\* Where no item was marked local-only only the daemon writes the stored timestamp,
\* which is then the one it claimed.
StampIsClaimed ==
  \A d \in Devices \ everMarked : marked[d] = {} /\ toggling[d] = Idle /\ last[d] = stamp[d]

IInv == TypeOK /\ GreetsWithTime /\ StampIsClaimed

-----------------------------------------------------------------------------
(* Queues.                                                                 *)

\* What leaves a queue is one of its members, and the rest is still a queue.
LEMMA HeadAndTail ==
  ASSUME NEW S, NEW q \in Seq(S), q # <<>>
  PROVE  Head(q) \in S /\ Tail(q) \in Seq(S)
  OBVIOUS

\* What a broken session leaves of a queue is still a queue.
LEMMA PrefixIsSeq ==
  ASSUME NEW S, NEW q \in Seq(S), NEW n \in 0..Len(q)
  PROVE  SubSeq(q, 1, n) \in Seq(S)
  OBVIOUS

\* An update written at the front of a queue.
LEMMA FrontIsSeq ==
  ASSUME NEW S, NEW q \in Seq(S), NEW x \in S
  PROVE  <<x>> \o q \in Seq(S)
  OBVIOUS

LEMMA EmptyIsSeq == ASSUME NEW S PROVE <<>> \in Seq(S)
  OBVIOUS

\* The other end of a session is a device.
LEMMA PeerIsDevice ==
  ASSUME NEW s \in Sessions, NEW d \in Ends[s]
  PROVE  d \in Devices /\ Peer(s, d) \in Devices
<1>1. PICK e, f \in Devices : e # f /\ Ends[s] = {e, f}
  BY ConstantsAssumption DEF ConstantsAssumption
<1>2. \E x \in Ends[s] : x # d
  BY <1>1
<1>3. Peer(s, d) \in Ends[s]
  BY <1>2 DEF Peer
<1>. QED
  BY <1>1, <1>3

\* A message for the daemon is one more in its queue.
LEMMA DeliverTyped ==
  ASSUME TypeOK, NEW d \in Devices, NEW kind \in {"changed", "set"}, NEW u \in Update,
         Deliver(d, kind, u)
  PROVE  inbox' \in [Devices -> Seq(Message)]
<1> DEFINE m == [kind |-> kind, content |-> u.content, time |-> u.time]
<1>1. m \in Message
  BY DEF Update, Message
<1>2. Append(inbox[d], m) \in Seq(Message)
  BY <1>1 DEF TypeOK
<1>3. inbox' = [inbox EXCEPT ![d] = Append(inbox[d], m)]
  BY DEF Deliver
<1>. HIDE DEF m
<1>. QED
  BY <1>2, <1>3 DEF TypeOK

\* A broadcast appends an update to the queues of some sessions.
LEMMA BroadcastTyped ==
  ASSUME TypeOK, NEW d \in Devices, NEW u \in Update, broadcast(d, u)
  PROVE  link' \in [Sessions -> [Devices -> Seq(Update)]]
<1>1. ASSUME NEW s \in Sessions
      PROVE  [link[s] EXCEPT ![d] = IF \E e \in Devices : peers[d][e] = s
                                    THEN Append(link[s][d], u) ELSE link[s][d]]
               \in [Devices -> Seq(Update)]
  <2>1. link[s] \in [Devices -> Seq(Update)]
    BY DEF TypeOK
  <2>2. Append(link[s][d], u) \in Seq(Update)
    BY <2>1
  <2>. QED
    BY <2>1, <2>2
<1>. QED
  BY <1>1 DEF broadcast

-----------------------------------------------------------------------------
(* The invariant.                                                          *)

LEMMA InitHolds == Init => IInv
<1>. SUFFICES ASSUME Init PROVE IInv
  OBVIOUS
<1>1. \A S : <<>> \in Seq(S)
  BY EmptyIsSeq
<1>2. 0 \in 0..MaxTime /\ 0 \in 0..MaxAnnounced /\ 0 \in 0..MaxEvents
  BY ConstantsAssumption DEF ConstantsAssumption
<1>3. TypeOK
  BY <1>1, <1>2 DEF Init, TypeOK
<1>. QED
  BY <1>3 DEF Init, IInv, GreetsWithTime, StampIsClaimed

LEMMA ReportKeeps ==
  ASSUME IInv, NEW d \in Devices, NEW c \in Contents, NEW t \in Times, Report(d, c, t)
  PROVE  IInv'
<1> DEFINE u == [content |-> c, time |-> t]
<1>1. u \in Update
  BY DEF Update
<1>2. TypeOK /\ Deliver(d, "changed", u)
  BY DEF IInv, Report
<1>. HIDE DEF u
<1>3. inbox' \in [Devices -> Seq(Message)]
  BY <1>1, <1>2, DeliverTyped
<1>4. announced' \in 0..MaxAnnounced /\ clock' \in [Devices -> 0..MaxTime]
  BY <1>2, ConstantsAssumption DEF ConstantsAssumption, Report, Stamps, TypeOK, Times
<1>5. sent' \in [Times -> SUBSET (Contents \cup {None})]
  BY <1>2 DEF Report, Sends, TypeOK
<1>6. UNCHANGED <<doing, last, state, events, toggling, sessions, locked, happened, everMarked>>
  BY DEF Report
<1>7. TypeOK'
  BY <1>2, <1>3, <1>4, <1>5, <1>6 DEF TypeOK, state, events, sessions
<1>. QED
  BY <1>6, <1>7 DEF IInv, GreetsWithTime, StampIsClaimed, state, events, sessions

LEMMA TakeKeeps ==
  ASSUME IInv, NEW d \in Devices, Take(d)
  PROVE  IInv' /\ last'[d] >= last[d] /\ \A e \in Devices \ {d} : last'[e] = last[e]
<1> DEFINE m == Head(inbox[d])
<1>1. TypeOK /\ inbox[d] \in Seq(Message) /\ inbox[d] # <<>>
  BY DEF IInv, TypeOK, Take
<1>2. m \in Message /\ Tail(inbox[d]) \in Seq(Message)
  BY <1>1, HeadAndTail
<1>3. m.time \in 0..MaxTime
  BY <1>2, ConstantsAssumption DEF Message, Times, ConstantsAssumption
<1>4. inbox' = [inbox EXCEPT ![d] = Tail(inbox[d])]
  BY DEF Take
<1>5. inbox' \in [Devices -> Seq(Message)]
  BY <1>1, <1>2, <1>4 DEF TypeOK
<1>6. UNCHANGED <<clock, latest, events, toggling, sessions, locked, counts, sent, everMarked>>
  BY DEF Take
<1>7. \/ /\ m.time > last[d]
         /\ last' = [last EXCEPT ![d] = m.time]
         /\ stamp' = [stamp EXCEPT ![d] = m.time]
         /\ doing' = [doing EXCEPT ![d] = [at |-> "storing", msg |-> m]]
      \/ UNCHANGED <<last, stamp, doing>>
  BY DEF Take, Accepts, claim_newer_timestamp
<1>. HIDE DEF m
<1>8. last' \in [Devices -> 0..MaxTime] /\ stamp' \in [Devices -> 0..MaxTime]
  BY <1>1, <1>3, <1>7 DEF TypeOK
<1>9. doing' \in [Devices -> {Idle} \cup [at : {"storing", "announcing"}, msg : Message]]
  <2> DEFINE D == {Idle} \cup [at : {"storing", "announcing"}, msg : Message]
  <2>1. [at |-> "storing", msg |-> m] \in D
    BY <1>2
  <2>2. doing \in [Devices -> D]
    BY <1>1 DEF TypeOK
  <2>. HIDE DEF D
  <2>3. doing' \in [Devices -> D]
    BY <1>7, <2>1, <2>2
  <2>. QED
    BY <2>3 DEF D
<1>10. TypeOK'
  BY <1>1, <1>5, <1>6, <1>8, <1>9 DEF TypeOK, events, sessions, counts
<1>11. GreetsWithTime'
  BY <1>6 DEF IInv, GreetsWithTime, sessions
<1>12. StampIsClaimed'
  <2>1. last \in [Devices -> 0..MaxTime] /\ stamp \in [Devices -> 0..MaxTime]
    BY <1>1 DEF TypeOK
  <2>2. \A e \in Devices : last[e] = stamp[e] => last'[e] = stamp'[e]
    BY <1>7, <2>1
  <2>3. UNCHANGED <<marked, toggling, everMarked>>
    BY <1>6 DEF events
  <2>. QED
    BY <2>2, <2>3 DEF IInv, StampIsClaimed
<1>13. last'[d] >= last[d] /\ \A e \in Devices \ {d} : last'[e] = last[e]
  BY <1>1, <1>3, <1>7 DEF TypeOK
<1>. QED
  BY <1>10, <1>11, <1>12, <1>13 DEF IInv

LEMMA StoreContentKeeps ==
  ASSUME IInv, NEW d \in Devices, StoreContent(d)
  PROVE  IInv'
<1>1. TypeOK /\ doing[d] # Idle
  BY DEF IInv, StoreContent, At, Idle
<1>2. doing[d] \in [at : {"storing", "announcing"}, msg : Message]
  BY <1>1 DEF TypeOK
<1>3. doing[d].msg.content \in Contents
  BY <1>2 DEF Message
<1>4. /\ latest' \in [Devices -> Contents \cup {None}]
      /\ current' \in [Devices -> Contents \cup {None}]
      /\ history' \in [Devices -> SUBSET Contents]
  BY <1>1, <1>3 DEF TypeOK, StoreContent, append_event
<1>5. /\ marked' \in [Devices -> SUBSET Contents]
      /\ \A e \in Devices : marked'[e] \subseteq marked[e]
  BY <1>1, <1>3 DEF TypeOK, StoreContent, append_event
<1>6. doing' \in [Devices -> {Idle} \cup [at : {"storing", "announcing"}, msg : Message]]
  <2>1. doing' = [doing EXCEPT ![d].at = "announcing"] \/ doing' = [doing EXCEPT ![d] = Idle]
    BY DEF StoreContent, GoOn, Done
  <2>2. [doing[d] EXCEPT !.at = "announcing"] \in [at : {"storing", "announcing"}, msg : Message]
    BY <1>2
  <2>. QED
    BY <1>1, <2>1, <2>2 DEF TypeOK
<1>7. UNCHANGED <<clock, inbox, last, stamp, toggling, sessions, locked, counts, sent, everMarked>>
  BY DEF StoreContent
<1>8. TypeOK'
  BY <1>1, <1>4, <1>5, <1>6, <1>7 DEF TypeOK, sessions, counts
<1>9. StampIsClaimed'
  BY <1>5, <1>7 DEF IInv, StampIsClaimed
<1>. QED
  BY <1>7, <1>8, <1>9 DEF IInv, GreetsWithTime, sessions

LEMMA AnnounceKeeps ==
  ASSUME IInv, NEW d \in Devices, Announce(d)
  PROVE  IInv'
<1>1. TypeOK /\ doing[d] # Idle
  BY DEF IInv, Announce, At, Idle
<1>2. doing[d] \in [at : {"storing", "announcing"}, msg : Message]
  BY <1>1 DEF TypeOK
<1>3. UpdateAt(doing[d]) \in Update
  BY <1>2 DEF UpdateAt, Update, Message
<1>4. link' \in [Sessions -> [Devices -> Seq(Update)]]
  <2>1. CASE UNCHANGED link
    BY <1>1, <2>1 DEF TypeOK
  <2>2. CASE broadcast(d, UpdateAt(doing[d]))
    BY <1>1, <1>3, <2>2, BroadcastTyped
  <2>. QED
    BY <2>1, <2>2 DEF Announce
<1>5. doing' \in [Devices -> {Idle} \cup [at : {"storing", "announcing"}, msg : Message]]
  BY <1>1 DEF Announce, Done, TypeOK
<1>6. UNCHANGED <<clock, inbox, last, state, events, toggling, phase, draft, peers, locked,
                  counts, sent, everMarked>>
  BY DEF Announce
<1>7. TypeOK'
  BY <1>1, <1>4, <1>5, <1>6 DEF TypeOK, state, events, counts
<1>. QED
  BY <1>6, <1>7 DEF IInv, GreetsWithTime, StampIsClaimed, state, events

LEMMA MarkKeeps ==
  ASSUME IInv, NEW d \in Devices, NEW c \in Contents, Mark(d, c)
  PROVE  IInv'
<1>1. TypeOK
  BY DEF IInv
<1>2. marked' \in [Devices -> SUBSET Contents] /\ happened' \in 0..MaxEvents
  BY <1>1, ConstantsAssumption DEF ConstantsAssumption, TypeOK, Mark, Happens
<1>3. /\ everMarked' = everMarked \cup {d}
      /\ UNCHANGED <<clock, daemon, state, current, history, toggling, sessions, locked, announced, sent>>
  BY DEF Mark
<1>4. TypeOK'
  BY <1>1, <1>2, <1>3 DEF TypeOK, daemon, state, sessions
<1>5. \A x \in Devices \ {d} : marked'[x] = marked[x]
  BY <1>1 DEF Mark, TypeOK
<1>. QED
  BY <1>3, <1>4, <1>5 DEF IInv, GreetsWithTime, StampIsClaimed, daemon, state, sessions

\* An item is shared again only if one was marked before.
LEMMA UnmarkKeeps ==
  ASSUME IInv, NEW d \in Devices, NEW c \in Contents, NEW t \in Times, Unmark(d, c, t)
  PROVE  IInv'
<1> DEFINE T == {Idle} \cup [at : {"stamping", "storing", "announcing"}, msg : Update]
           x == [at |-> "stamping", msg |-> [content |-> c, time |-> t]]
<1>1. TypeOK /\ d \in everMarked
  BY DEF IInv, StampIsClaimed, Unmark
<1>2. x \in T
  BY DEF Update
<1>3. toggling' \in [Devices -> T]
  <2>1. toggling \in [Devices -> T]
    BY <1>1 DEF TypeOK
  <2>2. toggling' = [toggling EXCEPT ![d] = x]
    BY DEF Unmark
  <2>. HIDE DEF T, x
  <2>. QED
    BY <1>2, <2>1, <2>2
<1>4. marked' \in [Devices -> SUBSET Contents]
  BY <1>1 DEF Unmark, TypeOK
<1>5. announced' \in 0..MaxAnnounced /\ clock' \in [Devices -> 0..MaxTime]
  BY <1>1, ConstantsAssumption DEF ConstantsAssumption, Unmark, Stamps, TypeOK, Times
<1>6. sent' \in [Times -> SUBSET (Contents \cup {None})]
  BY <1>1 DEF Unmark, Sends, TypeOK
<1>7. UNCHANGED <<daemon, state, current, history, sessions, locked, happened, everMarked>>
  BY DEF Unmark
<1>8. TypeOK'
  BY <1>1, <1>3, <1>4, <1>5, <1>6, <1>7 DEF TypeOK, daemon, state, sessions
<1>9. \A y \in Devices \ {d} : marked'[y] = marked[y] /\ toggling'[y] = toggling[y] /\ last'[y] = last[y] /\ stamp'[y] = stamp[y]
  BY <1>1 DEF Unmark, TypeOK, daemon, state
<1>. QED
  BY <1>1, <1>7, <1>8, <1>9 DEF IInv, GreetsWithTime, StampIsClaimed, sessions

\* What the IPC thread is at, once it is not idle.
LEMMA TogglingTyped ==
  ASSUME TypeOK, NEW d \in Devices, toggling[d] # Idle
  PROVE  /\ toggling[d] \in [at : {"stamping", "storing", "announcing"}, msg : Update]
         /\ toggling[d].msg.content \in Contents
         /\ toggling[d].msg.time \in Times
         /\ UpdateAt(toggling[d]) \in Update
<1>1. toggling[d] \in [at : {"stamping", "storing", "announcing"}, msg : Update]
  BY DEF TypeOK
<1>. QED
  BY <1>1 DEF Update, UpdateAt

LEMMA ToggleStampKeeps ==
  ASSUME IInv, NEW d \in Devices, ToggleStamp(d)
  PROVE  IInv'
<1> DEFINE T == {Idle} \cup [at : {"stamping", "storing", "announcing"}, msg : Update]
<1>1. TypeOK /\ toggling[d] # Idle
  BY DEF IInv, ToggleStamp, Idle
<1>2. d \in everMarked
  BY <1>1 DEF IInv, StampIsClaimed
<1>3. [toggling[d] EXCEPT !.at = "storing"] \in T
  BY <1>1, TogglingTyped
<1>4. toggling' \in [Devices -> T]
  <2>1. toggling \in [Devices -> T]
    BY <1>1 DEF TypeOK
  <2>2. toggling' = [toggling EXCEPT ![d] = [toggling[d] EXCEPT !.at = "storing"]]
    BY DEF ToggleStamp
  <2>. HIDE DEF T
  <2>. QED
    BY <1>3, <2>1, <2>2
<1>5. stamp' \in [Devices -> 0..MaxTime]
  <2>1. toggling[d].msg.time \in 0..MaxTime
    BY <1>1, TogglingTyped, ConstantsAssumption DEF ConstantsAssumption, Times
  <2>. QED
    BY <1>1, <2>1 DEF TypeOK, ToggleStamp
<1>6. UNCHANGED <<clock, daemon, latest, events, sessions, locked, counts, sent, everMarked>>
  BY DEF ToggleStamp
<1>7. TypeOK'
  BY <1>1, <1>4, <1>5, <1>6 DEF TypeOK, daemon, events, sessions, counts
<1>8. \A x \in Devices \ {d} : stamp'[x] = stamp[x] /\ toggling'[x] = toggling[x]
  BY <1>1 DEF ToggleStamp, TypeOK
<1>. QED
  BY <1>2, <1>6, <1>7, <1>8 DEF IInv, GreetsWithTime, StampIsClaimed, daemon, events, sessions

LEMMA ToggleContentKeeps ==
  ASSUME IInv, NEW d \in Devices, ToggleContent(d)
  PROVE  IInv'
<1> DEFINE T == {Idle} \cup [at : {"stamping", "storing", "announcing"}, msg : Update]
<1>1. TypeOK /\ toggling[d] # Idle
  BY DEF IInv, ToggleContent, Idle
<1>2. d \in everMarked
  BY <1>1 DEF IInv, StampIsClaimed
<1>3. [toggling[d] EXCEPT !.at = "announcing"] \in T
  BY <1>1, TogglingTyped
<1>4. toggling' \in [Devices -> T]
  <2>1. toggling \in [Devices -> T]
    BY <1>1 DEF TypeOK
  <2>2. toggling' = [toggling EXCEPT ![d] = [toggling[d] EXCEPT !.at = "announcing"]]
    BY DEF ToggleContent
  <2>. HIDE DEF T
  <2>. QED
    BY <1>3, <2>1, <2>2
<1>5. latest' \in [Devices -> Contents \cup {None}]
  BY <1>1, TogglingTyped DEF TypeOK, ToggleContent
<1>6. UNCHANGED <<clock, daemon, stamp, events, sessions, locked, counts, sent, everMarked>>
  BY DEF ToggleContent
<1>7. TypeOK'
  BY <1>1, <1>4, <1>5, <1>6 DEF TypeOK, daemon, events, sessions, counts
<1>8. \A x \in Devices \ {d} : toggling'[x] = toggling[x]
  BY <1>1 DEF ToggleContent, TypeOK
<1>. QED
  BY <1>2, <1>6, <1>7, <1>8 DEF IInv, GreetsWithTime, StampIsClaimed, daemon, events, sessions

LEMMA ToggleAnnounceKeeps ==
  ASSUME IInv, NEW d \in Devices, ToggleAnnounce(d)
  PROVE  IInv'
<1>1. TypeOK /\ toggling[d] # Idle
  BY DEF IInv, ToggleAnnounce, Idle
<1>2. d \in everMarked
  BY <1>1 DEF IInv, StampIsClaimed
<1>3. link' \in [Sessions -> [Devices -> Seq(Update)]]
  BY <1>1, TogglingTyped, BroadcastTyped DEF ToggleAnnounce
<1>4. toggling' \in [Devices -> {Idle} \cup
                                 [at : {"stamping", "storing", "announcing"}, msg : Update]]
  BY <1>1 DEF TypeOK, ToggleAnnounce
<1>5. UNCHANGED <<clock, daemon, state, events, phase, draft, peers, locked, counts, sent, everMarked>>
  BY DEF ToggleAnnounce
<1>6. TypeOK'
  BY <1>1, <1>3, <1>4, <1>5 DEF TypeOK, daemon, state, events, counts
<1>7. \A x \in Devices \ {d} : toggling'[x] = toggling[x]
  BY <1>1 DEF ToggleAnnounce, TypeOK
<1>. QED
  BY <1>2, <1>5, <1>6, <1>7 DEF IInv, GreetsWithTime, StampIsClaimed, daemon, state, events

LEMMA ConnectKeeps ==
  ASSUME IInv, NEW s \in Sessions, NEW d \in Devices, Connect(s, d)
  PROVE  IInv'
<1>1. TypeOK
  BY DEF IInv
<1>2. /\ phase' \in [Sessions -> [Devices -> {"none", "joining", "greeting", "open", "broken", "closed"}]]
      /\ \A r \in Sessions, e \in Devices :
           phase'[r][e] = "greeting" => phase[r][e] = "greeting"
  BY <1>1 DEF TypeOK, Connect
<1>3. UNCHANGED <<clock, daemon, state, events, toggling, draft, link, peers, locked, counts, sent, everMarked>>
  BY DEF Connect
<1>4. TypeOK'
  BY <1>1, <1>2, <1>3 DEF TypeOK, daemon, state, events, counts
<1>. QED
  BY <1>2, <1>3, <1>4 DEF IInv, GreetsWithTime, StampIsClaimed, daemon, state, events

\* What is written was in the queue.
LEMMA WrittenIsThere ==
  ASSUME TypeOK, NEW s \in Sessions, NEW d \in Devices, Written(s, d, 1)
  PROVE  link[s][d] # <<>>
<1>1. link[s][d] \in Seq(Update) /\ 1 \in 0..Len(link[s][d])
  BY DEF TypeOK, Written
<1>. QED
  BY <1>1

LEMMA BreaksTyped ==
  ASSUME TypeOK, NEW s, Breaks(s)
  PROVE  happened' \in 0..MaxEvents
  BY ConstantsAssumption DEF ConstantsAssumption, TypeOK, Breaks, Happens

\* A session that enters a phase leaves the other ends where they are.
LEMMA EntersTyped ==
  ASSUME TypeOK, NEW s \in Sessions, NEW d \in Devices,
         NEW where \in {"none", "joining", "greeting", "open", "broken", "closed"},
         Enters(s, d, where)
  PROVE  /\ phase' \in [Sessions -> [Devices -> {"none", "joining", "greeting", "open", "broken", "closed"}]]
         /\ phase'[s][d] = where
         /\ \A r \in Sessions, e \in Devices :
              r # s \/ e # d => phase'[r][e] = phase[r][e]
  BY DEF TypeOK, Enters

LEMMA add_peerKeeps ==
  ASSUME IInv, NEW s \in Sessions, NEW d \in Ends[s], add_peer(s, d)
  PROVE  IInv'
<1>1. TypeOK /\ d \in Devices /\ Peer(s, d) \in Devices
  BY PeerIsDevice DEF IInv
<1>2. peers' \in [Devices -> [Devices -> Sessions \cup {None, Dead}]]
  BY <1>1 DEF TypeOK, add_peer
<1>3. /\ draft' \in [Sessions -> [Devices -> 0..MaxTime]]
      /\ draft'[s][d] = stamp[d]
      /\ \A r \in Sessions, e \in Devices : r # s \/ e # d => draft'[r][e] = draft[r][e]
  BY <1>1 DEF TypeOK, add_peer
<1> DEFINE where == IF stamp[d] = 0 THEN "open" ELSE "greeting"
<1>4. where \in {"none", "joining", "greeting", "open", "broken", "closed"} /\ Enters(s, d, where)
  BY DEF add_peer
<1>5. where = "greeting" => stamp[d] > 0
  <2>1. stamp[d] \in Nat
    BY <1>1, ConstantsAssumption DEF TypeOK, ConstantsAssumption
  <2>. QED
    BY <2>1
<1>. HIDE DEF where
<1>6. /\ phase' \in [Sessions -> [Devices -> {"none", "joining", "greeting", "open", "broken", "closed"}]]
      /\ phase'[s][d] = where
      /\ \A r \in Sessions, e \in Devices : r # s \/ e # d => phase'[r][e] = phase[r][e]
  BY <1>1, <1>4, EntersTyped
<1>7. UNCHANGED <<clock, daemon, state, events, toggling, link, locked, counts, sent, everMarked>>
  BY DEF add_peer
<1>8. TypeOK'
  BY <1>1, <1>2, <1>3, <1>6, <1>7 DEF TypeOK, daemon, state, events, counts
<1>9. GreetsWithTime'
  BY <1>3, <1>5, <1>6 DEF IInv, GreetsWithTime
<1>. QED
  BY <1>7, <1>8, <1>9 DEF IInv, StampIsClaimed, daemon, state, events

LEMMA SendInitialKeeps ==
  ASSUME IInv, NEW s \in Sessions, NEW d \in Devices, SendInitial(s, d)
  PROVE  IInv'
<1> DEFINE u == [content |-> latest[d], time |-> draft[s][d]]
<1>1. TypeOK /\ phase[s][d] = "greeting" /\ Enters(s, d, "open")
  BY DEF IInv, SendInitial
<1>2. u.time \in Times
  <2>1. draft[s][d] > 0
    BY <1>1 DEF IInv, GreetsWithTime
  <2>2. draft[s][d] \in 0..MaxTime
    BY <1>1 DEF TypeOK
  <2>. QED
    BY <2>1, <2>2, ConstantsAssumption DEF Times, ConstantsAssumption
<1>3. latest[d] # None => u \in Update
  BY <1>1, <1>2 DEF TypeOK, Update
<1>4. link' \in [Sessions -> [Devices -> Seq(Update)]]
  <2>1. link[s][d] \in Seq(Update)
    BY <1>1 DEF TypeOK
  <2> DEFINE q == IF latest[d] = None THEN link[s][d] ELSE <<u>> \o link[s][d]
  <2>2. q \in Seq(Update)
    BY <1>3, <2>1, FrontIsSeq
  <2>3. link' = [link EXCEPT ![s][d] = q] \/ link' = link
    BY DEF SendInitial
  <2>. HIDE DEF q
  <2>4. CASE link' = link
    BY <1>1, <2>4 DEF TypeOK
  <2>5. CASE link' = [link EXCEPT ![s][d] = q]
    BY <1>1, <2>2, <2>5 DEF TypeOK
  <2>. QED
    BY <2>3, <2>4, <2>5
<1>5. sent' \in [Times -> SUBSET (Contents \cup {None})]
  <2>1. u.content \in Contents \cup {None}
    BY <1>1 DEF TypeOK
  <2>2. Sends(u) \/ sent' = sent
    BY DEF SendInitial
  <2>. HIDE DEF u
  <2>3. CASE sent' = sent
    BY <1>1, <2>3 DEF TypeOK
  <2>4. CASE Sends(u)
    BY <1>1, <1>2, <2>1, <2>4 DEF TypeOK, Sends
  <2>. QED
    BY <2>2, <2>3, <2>4
<1>6. /\ draft' \in [Sessions -> [Devices -> 0..MaxTime]]
      /\ \A r \in Sessions, e \in Devices : r # s \/ e # d => draft'[r][e] = draft[r][e]
  <2>1. 0 \in 0..MaxTime
    BY ConstantsAssumption DEF ConstantsAssumption
  <2>2. draft' = [draft EXCEPT ![s][d] = 0] /\ draft \in [Sessions -> [Devices -> 0..MaxTime]]
    BY <1>1 DEF TypeOK, SendInitial
  <2>. QED
    BY <2>1, <2>2
<1>7. /\ phase' \in [Sessions -> [Devices -> {"none", "joining", "greeting", "open", "broken", "closed"}]]
      /\ phase'[s][d] = "open"
      /\ \A r \in Sessions, e \in Devices : r # s \/ e # d => phase'[r][e] = phase[r][e]
  BY <1>1, EntersTyped
<1>8. UNCHANGED <<clock, daemon, state, events, toggling, peers, locked, counts, everMarked>>
  BY DEF SendInitial
<1>9. TypeOK'
  BY <1>1, <1>4, <1>5, <1>6, <1>7, <1>8 DEF TypeOK, daemon, state, events, counts
<1>10. GreetsWithTime'
  BY <1>6, <1>7 DEF IInv, GreetsWithTime
<1>. QED
  BY <1>8, <1>9, <1>10 DEF IInv, StampIsClaimed, daemon, state, events

LEMMA SendInitialFailsKeeps ==
  ASSUME IInv, NEW s \in Sessions, NEW d \in Devices, SendInitialFails(s, d)
  PROVE  IInv'
<1>1. TypeOK /\ Enters(s, d, "broken")
  BY DEF IInv, SendInitialFails
<1>2. /\ phase' \in [Sessions -> [Devices -> {"none", "joining", "greeting", "open", "broken", "closed"}]]
      /\ phase'[s][d] = "broken"
      /\ \A r \in Sessions, e \in Devices : r # s \/ e # d => phase'[r][e] = phase[r][e]
  BY <1>1, EntersTyped
<1>3. /\ draft' \in [Sessions -> [Devices -> 0..MaxTime]]
      /\ \A r \in Sessions, e \in Devices : r # s \/ e # d => draft'[r][e] = draft[r][e]
  <2>1. 0 \in 0..MaxTime
    BY ConstantsAssumption DEF ConstantsAssumption
  <2>2. draft' = [draft EXCEPT ![s][d] = 0] /\ draft \in [Sessions -> [Devices -> 0..MaxTime]]
    BY <1>1 DEF TypeOK, SendInitialFails
  <2>. QED
    BY <2>1, <2>2
<1>4. happened' \in 0..MaxEvents
  BY <1>1, BreaksTyped DEF SendInitialFails
<1>5. UNCHANGED <<clock, daemon, state, events, toggling, link, peers, locked, announced, sent, everMarked>>
  BY DEF SendInitialFails
<1>6. TypeOK'
  BY <1>1, <1>2, <1>3, <1>4, <1>5 DEF TypeOK, daemon, state, events
<1>7. GreetsWithTime'
  BY <1>2, <1>3 DEF IInv, GreetsWithTime
<1>. QED
  BY <1>5, <1>6, <1>7 DEF IInv, StampIsClaimed, daemon, state, events

LEMMA LockOutKeeps ==
  ASSUME IInv, NEW d \in Devices, LockOut(d)
  PROVE  IInv'
<1>1. TypeOK
  BY DEF IInv
<1>2. happened' \in 0..MaxEvents /\ locked' \subseteq Devices
  BY <1>1, ConstantsAssumption DEF ConstantsAssumption, TypeOK, LockOut, Happens
<1>3. UNCHANGED <<clock, daemon, state, events, toggling, sessions, announced, sent, everMarked>>
  BY DEF LockOut
<1>4. TypeOK'
  BY <1>1, <1>2, <1>3 DEF TypeOK, daemon, state, events, sessions
<1>. QED
  BY <1>3, <1>4 DEF IInv, GreetsWithTime, StampIsClaimed, daemon, state, events, sessions

LEMMA ReceiveKeeps ==
  ASSUME IInv, NEW s \in Sessions, NEW d \in Ends[s], Receive(s, d)
  PROVE  IInv'
<1> DEFINE e == Peer(s, d)
<1>1. TypeOK /\ d \in Devices /\ e \in Devices
  BY PeerIsDevice DEF IInv
<1>2. link[s][e] \in Seq(Update) /\ link[s][e] # <<>>
  BY <1>1, WrittenIsThere DEF TypeOK, Receive
<1>3. Head(link[s][e]) \in Update /\ Tail(link[s][e]) \in Seq(Update)
  BY <1>2, HeadAndTail
<1>4. Deliver(d, "set", Head(link[s][e])) /\ link' = [link EXCEPT ![s][e] = Tail(link[s][e])]
  BY DEF Receive
<1>. HIDE DEF e
<1>5. inbox' \in [Devices -> Seq(Message)]
  BY <1>1, <1>3, <1>4, DeliverTyped
<1>6. link' \in [Sessions -> [Devices -> Seq(Update)]]
  BY <1>1, <1>3, <1>4 DEF TypeOK
<1>7. UNCHANGED <<clock, doing, last, state, events, toggling, phase, draft, peers, locked,
                  counts, sent, everMarked>>
  BY DEF Receive
<1>8. TypeOK'
  BY <1>1, <1>5, <1>6, <1>7 DEF TypeOK, state, events, counts
<1>. QED
  BY <1>7, <1>8 DEF IInv, GreetsWithTime, StampIsClaimed, state, events

\* An end of a session that is over.
LEMMA EndedTyped ==
  ASSUME TypeOK, GreetsWithTime, NEW s \in Sessions, NEW d \in Ends[s],
         NEW n \in 0..Len(link[s][d]), Ended(s, d, n), UNCHANGED draft
  PROVE  /\ phase' \in [Sessions -> [Devices -> {"none", "joining", "greeting", "open", "broken", "closed"}]]
         /\ link' \in [Sessions -> [Devices -> Seq(Update)]]
         /\ happened' \in 0..MaxEvents
         /\ GreetsWithTime'
<1>1. d \in Devices /\ Peer(s, d) \in Devices
  BY PeerIsDevice
<1>2. /\ phase' \in [Sessions -> [Devices -> {"none", "joining", "greeting", "open", "broken", "closed"}]]
      /\ phase'[s][d] = "closed"
      /\ \A r \in Sessions, e \in Devices : r # s \/ e # d => phase'[r][e] = phase[r][e]
  BY <1>1, EntersTyped DEF Ended
<1>3. link[s] \in [Devices -> Seq(Update)] /\ link[s][d] \in Seq(Update)
  BY <1>1 DEF TypeOK
<1>4. SubSeq(link[s][d], 1, n) \in Seq(Update) /\ <<>> \in Seq(Update)
  BY <1>3, PrefixIsSeq, EmptyIsSeq
<1> DEFINE left == [e \in Devices |-> IF e = d THEN SubSeq(link[s][d], 1, n) ELSE <<>>]
<1>5. left \in [Devices -> Seq(Update)]
  BY <1>4
<1>6. link' = [link EXCEPT ![s] = left]
  BY DEF Ended
<1>. HIDE DEF left
<1>7. link' \in [Sessions -> [Devices -> Seq(Update)]]
  BY <1>5, <1>6 DEF TypeOK
<1>8. happened' \in 0..MaxEvents
  BY BreaksTyped DEF Ended
<1>9. GreetsWithTime'
  BY <1>2 DEF GreetsWithTime
<1>. QED
  BY <1>2, <1>7, <1>8, <1>9

LEMMA remove_peerKeeps ==
  ASSUME IInv, NEW s \in Sessions, NEW d \in Ends[s], NEW n, remove_peer(s, d, n)
  PROVE  IInv'
<1>1. TypeOK /\ GreetsWithTime /\ d \in Devices /\ Peer(s, d) \in Devices
  BY PeerIsDevice DEF IInv
<1>2. n \in 0..Len(link[s][d]) /\ Ended(s, d, n)
  BY DEF remove_peer, Written
<1>3. UNCHANGED <<clock, daemon, state, events, toggling, draft, locked, announced, sent, everMarked>>
  BY DEF remove_peer
<1>4. /\ phase' \in [Sessions -> [Devices -> {"none", "joining", "greeting", "open", "broken", "closed"}]]
      /\ link' \in [Sessions -> [Devices -> Seq(Update)]]
      /\ happened' \in 0..MaxEvents
      /\ GreetsWithTime'
  BY <1>1, <1>2, <1>3, EndedTyped
<1>5. peers' \in [Devices -> [Devices -> Sessions \cup {None, Dead}]]
  BY <1>1 DEF TypeOK, remove_peer
<1>6. TypeOK'
  BY <1>1, <1>3, <1>4, <1>5 DEF TypeOK, daemon, state, events
<1>. QED
  BY <1>3, <1>4, <1>6 DEF IInv, StampIsClaimed, daemon, state, events

LEMMA LeaveInMapKeeps ==
  ASSUME IInv, NEW s \in Sessions, NEW d \in Ends[s], NEW n, LeaveInMap(s, d, n)
  PROVE  IInv'
<1>1. TypeOK /\ GreetsWithTime /\ d \in Devices
  BY PeerIsDevice DEF IInv
<1>2. n \in 0..Len(link[s][d]) /\ Ended(s, d, n)
  BY DEF LeaveInMap, Written
<1>3. UNCHANGED <<clock, daemon, state, events, toggling, draft, locked, announced, sent, everMarked>>
  BY DEF LeaveInMap
<1>4. /\ phase' \in [Sessions -> [Devices -> {"none", "joining", "greeting", "open", "broken", "closed"}]]
      /\ link' \in [Sessions -> [Devices -> Seq(Update)]]
      /\ happened' \in 0..MaxEvents
      /\ GreetsWithTime'
  BY <1>1, <1>2, <1>3, EndedTyped
<1>5. peers' \in [Devices -> [Devices -> Sessions \cup {None, Dead}]]
  BY <1>1 DEF TypeOK, LeaveInMap
<1>6. TypeOK'
  BY <1>1, <1>3, <1>4, <1>5 DEF TypeOK, daemon, state, events
<1>. QED
  BY <1>3, <1>4, <1>6 DEF IInv, StampIsClaimed, daemon, state, events

LEMMA JoinFailsKeeps ==
  ASSUME IInv, NEW s \in Sessions, NEW d \in Ends[s], JoinFails(s, d)
  PROVE  IInv'
<1>1. TypeOK /\ GreetsWithTime /\ d \in Devices
  BY PeerIsDevice DEF IInv
<1>2. 0 \in 0..Len(link[s][d])
  <2>1. link[s][d] \in Seq(Update)
    BY <1>1 DEF TypeOK
  <2>2. Len(link[s][d]) \in Nat
    BY <2>1
  <2>. QED
    BY <2>2
<1>3. UNCHANGED <<clock, daemon, state, events, toggling, draft, peers, locked, announced,
                  sent, everMarked>>
  BY DEF JoinFails
<1>4. /\ phase' \in [Sessions -> [Devices -> {"none", "joining", "greeting", "open", "broken", "closed"}]]
      /\ link' \in [Sessions -> [Devices -> Seq(Update)]]
      /\ happened' \in 0..MaxEvents
      /\ GreetsWithTime'
  BY <1>1, <1>2, <1>3, EndedTyped DEF JoinFails
<1>5. TypeOK'
  BY <1>1, <1>3, <1>4 DEF TypeOK, daemon, state, events
<1>. QED
  BY <1>3, <1>4, <1>5 DEF IInv, StampIsClaimed, daemon, state, events

\* The time an agent starts with is the one it had claimed.
LEMMA RestartKeeps ==
  ASSUME IInv, NEW d \in Devices, NEW wrote \in BOOLEAN, Restart(d, wrote)
  PROVE  /\ IInv'
         /\ last'[d] = stamp[d]
         /\ \A e \in Devices \ {d} : last'[e] = last[e]
<1>1. TypeOK
  BY DEF IInv
<1>2. <<>> \in Seq(Message) /\ <<>> \in Seq(Update)
  BY EmptyIsSeq
<1>3. UNCHANGED <<clock, state, events, locked, announced, sent, everMarked>>
  BY DEF Restart
<1>4. /\ last' = [last EXCEPT ![d] = stamp[d]]
      /\ last' \in [Devices -> 0..MaxTime]
  BY <1>1 DEF TypeOK, Restart
<1>5. inbox' \in [Devices -> Seq(Message)]
  BY <1>1, <1>2 DEF TypeOK, Restart
<1>6. doing' \in [Devices -> {Idle} \cup [at : {"storing", "announcing"}, msg : Message]]
  BY <1>1 DEF TypeOK, Restart
<1>7. /\ toggling' \in [Devices -> {Idle} \cup
                          [at : {"stamping", "storing", "announcing"}, msg : Update]]
      /\ \A e \in Devices : toggling[e] = Idle => toggling'[e] = Idle
  BY <1>1 DEF TypeOK, Restart
<1>8. peers' \in [Devices -> [Devices -> Sessions \cup {None, Dead}]]
  BY <1>1 DEF TypeOK, Restart
<1>9. happened' \in 0..MaxEvents
  BY <1>1, ConstantsAssumption DEF ConstantsAssumption, Restart, Happens, TypeOK
<1> DEFINE mine(s) == d \in Ends[s] /\ phase[s][d] # "none"
<1>10. /\ phase' \in [Sessions -> [Devices -> {"none", "joining", "greeting", "open", "broken", "closed"}]]
       /\ draft' \in [Sessions -> [Devices -> 0..MaxTime]]
       /\ \A s \in Sessions, e \in Devices :
            phase'[s][e] = "greeting" => phase[s][e] = "greeting" /\ draft'[s][e] = draft[s][e]
  <2>1. /\ phase' = [s \in Sessions |->
                       IF mine(s) THEN [phase[s] EXCEPT ![d] = "closed"] ELSE phase[s]]
        /\ draft' = [s \in Sessions |->
                       IF mine(s) THEN [draft[s] EXCEPT ![d] = 0] ELSE draft[s]]
    BY DEF Restart
  <2>2. 0 \in 0..MaxTime
    BY ConstantsAssumption DEF ConstantsAssumption
  <2>3. /\ phase \in [Sessions -> [Devices -> {"none", "joining", "greeting", "open", "broken", "closed"}]]
        /\ draft \in [Sessions -> [Devices -> 0..MaxTime]]
    BY <1>1 DEF TypeOK
  <2>. HIDE DEF mine
  <2>. QED
    BY <2>1, <2>2, <2>3
<1>11. link' \in [Sessions -> [Devices -> Seq(Update)]]
  <2>1. link' = [s \in Sessions |->
                   IF ~mine(s) THEN link[s]
                   ELSE [e \in Devices |->
                           IF e = d /\ wrote /\ phase[s][d] # "broken" THEN link[s][d] ELSE <<>>]]
    BY DEF Restart
  <2>2. link \in [Sessions -> [Devices -> Seq(Update)]]
    BY <1>1 DEF TypeOK
  <2>. HIDE DEF mine
  <2>. QED
    BY <1>2, <2>1, <2>2
<1>12. TypeOK'
  BY <1>1, <1>3, <1>4, <1>5, <1>6, <1>7, <1>8, <1>9, <1>10, <1>11 DEF TypeOK, state, events
<1>13. GreetsWithTime'
  BY <1>10 DEF IInv, GreetsWithTime
<1>14. last'[d] = stamp[d] /\ \A e \in Devices \ {d} : last'[e] = last[e]
  BY <1>1, <1>4 DEF TypeOK
<1>15. StampIsClaimed'
  BY <1>3, <1>7, <1>14 DEF IInv, StampIsClaimed, state, events
<1>. QED
  BY <1>12, <1>13, <1>14, <1>15 DEF IInv

-----------------------------------------------------------------------------
(* The theorems.                                                           *)

\* Only the daemon's claim and a restart write last_processed_timestamp.
LEMMA OthersKeepLast ==
  ASSUME Next,
         ~\E d \in Devices : Take(d),
         ~\E d \in Devices, wrote \in BOOLEAN : Restart(d, wrote)
  PROVE  last' = last
<1>1. PICK d \in Devices :
        \/ DaemonStep(d) \/ ToggleStep(d) \/ LockOut(d) \/ \E wrote \in BOOLEAN : Restart(d, wrote)
        \/ \E c \in Contents : Mark(d, c)
        \/ \E c \in Contents, t \in Times : Report(d, c, t) \/ Unmark(d, c, t)
        \/ \E s \in Sessions :
             /\ d \in Ends[s]
             /\ \/ Connect(s, d) \/ add_peer(s, d) \/ SendInitial(s, d)
                \/ SendInitialFails(s, d) \/ Receive(s, d) \/ JoinFails(s, d)
                \/ \E n \in 0..Len(link[s][d]) : remove_peer(s, d, n) \/ LeaveInMap(s, d, n)
  BY DEF Next
<1>2. CASE DaemonStep(d) \/ ToggleStep(d) \/ LockOut(d)
  BY <1>2 DEF DaemonStep, ToggleStep, StoreContent, Announce, ToggleStamp, ToggleContent,
              ToggleAnnounce, LockOut, daemon
<1>3. CASE \E c \in Contents : Mark(d, c)
  BY <1>3 DEF Mark, daemon
<1>4. CASE \E c \in Contents, t \in Times : Report(d, c, t) \/ Unmark(d, c, t)
  BY <1>4 DEF Report, Unmark, daemon
<1>5. ASSUME NEW s \in Sessions,
             \/ Connect(s, d) \/ add_peer(s, d) \/ SendInitial(s, d)
             \/ SendInitialFails(s, d) \/ Receive(s, d) \/ JoinFails(s, d)
             \/ \E n \in 0..Len(link[s][d]) : remove_peer(s, d, n) \/ LeaveInMap(s, d, n)
      PROVE  last' = last
  BY <1>5 DEF Connect, add_peer, SendInitial, SendInitialFails, Receive, JoinFails, remove_peer,
              LeaveInMap, daemon
<1>. QED
  BY <1>1, <1>2, <1>3, <1>4, <1>5

LEMMA StutterKeeps ==
  ASSUME IInv, UNCHANGED vars
  PROVE  IInv'
  BY DEF IInv, TypeOK, GreetsWithTime, StampIsClaimed, vars, daemon, state, events,
         sessions, counts

LEMMA NextKeeps ==
  ASSUME IInv, Next
  PROVE  IInv'
<1>1. PICK d \in Devices :
        \/ DaemonStep(d) \/ ToggleStep(d) \/ LockOut(d) \/ \E wrote \in BOOLEAN : Restart(d, wrote)
        \/ \E c \in Contents : Mark(d, c)
        \/ \E c \in Contents, t \in Times : Report(d, c, t) \/ Unmark(d, c, t)
        \/ \E s \in Sessions :
             /\ d \in Ends[s]
             /\ \/ Connect(s, d) \/ add_peer(s, d) \/ SendInitial(s, d)
                \/ SendInitialFails(s, d) \/ Receive(s, d) \/ JoinFails(s, d)
                \/ \E n \in 0..Len(link[s][d]) : remove_peer(s, d, n) \/ LeaveInMap(s, d, n)
  BY DEF Next
<1>2. CASE DaemonStep(d)
  BY <1>2, TakeKeeps, StoreContentKeeps, AnnounceKeeps DEF DaemonStep
<1>3. CASE ToggleStep(d) \/ LockOut(d)
  BY <1>3, ToggleStampKeeps, ToggleContentKeeps, ToggleAnnounceKeeps, LockOutKeeps DEF ToggleStep
<1>4. CASE \E wrote \in BOOLEAN : Restart(d, wrote)
  BY <1>4, RestartKeeps
<1>5. CASE \E c \in Contents : Mark(d, c)
  BY <1>5, MarkKeeps
<1>6. CASE \E c \in Contents, t \in Times : Report(d, c, t) \/ Unmark(d, c, t)
  BY <1>6, ReportKeeps, UnmarkKeeps
<1>7. ASSUME NEW s \in Sessions, d \in Ends[s],
             \/ Connect(s, d) \/ add_peer(s, d) \/ SendInitial(s, d)
             \/ SendInitialFails(s, d) \/ Receive(s, d) \/ JoinFails(s, d)
             \/ \E n \in 0..Len(link[s][d]) : remove_peer(s, d, n) \/ LeaveInMap(s, d, n)
      PROVE  IInv'
  BY <1>7, ConnectKeeps, add_peerKeeps, SendInitialKeeps, SendInitialFailsKeeps, ReceiveKeeps,
     JoinFailsKeeps, remove_peerKeeps, LeaveInMapKeeps
<1>. QED
  BY <1>1, <1>2, <1>3, <1>4, <1>5, <1>6, <1>7

LEMMA Invariance == Spec => []IInv
<1>1. IInv /\ [Next]_vars => IInv'
  BY NextKeeps, StutterKeeps
<1>. QED
  BY <1>1, InitHolds, PTL DEF Spec

\* Every update that is under way or stored, of whichever part of the agent,
\* has a content that was copied and the time of an announcement: the first
\* update of a session (run_sync_session) is never sent half empty.
THEOREM TypeCorrect == Spec => []TypeOK
<1>1. IInv => TypeOK
  BY DEF IInv
<1>. QED
  BY <1>1, Invariance, PTL

\* What a device claims is later than what it had, and it starts with what it had.
LEMMA LastGrows ==
  ASSUME IInv, Next, NEW e \in Devices \ everMarked'
  PROVE  last'[e] >= last[e]
<1>1. last[e] \in Nat
  BY ConstantsAssumption DEF IInv, TypeOK, ConstantsAssumption
<1>2. CASE \E d \in Devices : Take(d)
  BY <1>1, <1>2, TakeKeeps
<1>3. CASE \E d \in Devices, wrote \in BOOLEAN : Restart(d, wrote)
  <2>1. PICK d \in Devices, wrote \in BOOLEAN : Restart(d, wrote)
    BY <1>3
  <2>2. /\ last'[d] = stamp[d] /\ \A f \in Devices \ {d} : last'[f] = last[f]
    BY <2>1, RestartKeeps
  <2>3. d = e => last[d] = stamp[d]
    BY <2>1 DEF Restart, IInv, StampIsClaimed
  <2> QED BY <1>1, <2>2, <2>3
<1>4. CASE /\ ~\E d \in Devices : Take(d)
           /\ ~\E d \in Devices, wrote \in BOOLEAN : Restart(d, wrote)
  <2>1. last' = last
    BY <1>4, OthersKeepLast
  <2> QED BY <1>1, <2>1
<1> QED BY <1>2, <1>3, <1>4

\* claim_newer_timestamp and the start of the agent: the time of the update a
\* device holds never decreases as long as its own user marks no item local-only.
THEOREM NeverGoesBack == Spec => LastWriterWins
<1>1. ASSUME IInv, [Next]_vars
      PROVE  [\A d \in Devices \ everMarked' : last'[d] >= last[d]]_vars
  BY <1>1, LastGrows
<1>. QED
  BY <1>1, Invariance, PTL DEF Spec, LastWriterWins
-----------------------------------------------------------------------------
(* Agreement.  What any device holds, or is under way, has a device from    *)
(* which it gets to whatever is linked with that one.                      *)

\* w has f in its map, and the session that it has there has not ended.
Linked(w, f, s) ==
  /\ peers[w][f] = s
  /\ phase[s][w] \in {"greeting", "open"} /\ phase[s][f] \in {"joining", "greeting", "open"}

\* f has an update of this time or later, or there is one for it: under way, as the
\* first update of the session, or with w's daemon, which has not announced it yet.
Gets(w, f, s, t) ==
  \/ last[f] >= t
  \/ \E u \in Range(link[s][w]) : u.time >= t
  \/ \E m \in Range(inbox[f]) : m.time >= t
  \/ phase[s][w] = "greeting" /\ draft[s][w] >= t
  \/ doing[w] # Idle /\ doing[w].msg.kind = "changed" /\ doing[w].msg.time >= t

\* A device with a content that is too long to be sent keeps what it has until it gets
\* another one, which is then elsewhere as well.
Keeps(w) == latest[w] \in Large /\ ~(At(w, "storing") /\ doing[w].msg.kind = "set")
AllGet(w, t) == \A f \in Devices \ {w} : \A s \in Sessions : Linked(w, f, s) => Gets(w, f, s, t)
Spreads(w, t) ==
  /\ latest[w] # None /\ last[w] >= t
  /\ Keeps(w) \/ (latest[w] \notin Large /\ AllGet(w, t))
Spread(t) == \E w \in Devices : Spreads(w, t)

\* What another device announced gets to all.
UnderWaySpread ==
  \A d \in Devices :
    /\ \A s \in Sessions : \A u \in Range(link[s][d]) : Spread(u.time)
    /\ \A m \in Range(inbox[d]) : m.kind = "set" => Spread(m.time)
    /\ doing[d] # Idle /\ doing[d].msg.kind = "set" => Spread(doing[d].msg.time)

\* What a device claimed gets to all, unless its first content was not stored when the
\* agent died, or is not stored yet.
Blank(d) ==
  latest[d] = None /\ (doing[d] = Idle \/ (At(d, "storing") /\ doing[d].msg.kind = "changed"))
HeldSpread == \A d \in Devices : last[d] > 0 => Spread(last[d]) \/ Blank(d)

ClaimsHold ==
  \A d \in Devices :
    /\ doing[d] # Idle => last[d] = doing[d].msg.time
    /\ At(d, "announcing") => latest[d] # None /\ doing[d].msg.kind = "changed"
    /\ last[d] = 0 => latest[d] = None
    /\ last[d] > 0 => sent[last[d]] \cap Contents # {}
    /\ \A s \in Sessions : draft[s][d] <= last[d]

\* No content is under way with a time that it was not announced with.
ContentsSent ==
  \A d \in Devices :
    /\ \A s \in Sessions : \A u \in Range(link[s][d]) : u.content \in sent[u.time]
    /\ \A m \in Range(inbox[d]) : m.content \in sent[m.time]
    /\ doing[d] # Idle => doing[d].msg.content \in sent[doing[d].msg.time]

\* A device that died between the claim and the content pairs the new time with the
\* old content, and announces the two together before it is in a session again.
ContentHeld(d) ==
  \/ At(d, "storing")
  \/ latest[d] \in Large
  \/ latest[d] \in sent[last[d]]
  \/ \A s \in Sessions : phase[s][d] # "open" /\ (phase[s][d] = "greeting" => draft[s][d] = last[d])
ContentsHeld == \A d \in Devices : last[d] > 0 => ContentHeld(d)

Calm == UnderWaySpread /\ HeldSpread /\ ClaimsHold /\ ContentsSent /\ ContentsHeld

\* A session is between its two ends.
EndsMeet ==
  /\ \A d, e \in Devices : peers[d][e] \in Sessions => Ends[peers[d][e]] = {d, e} /\ d # e
  /\ \A s \in Sessions, d \in Devices : phase[s][d] # "none" => d \in Ends[s]
SentFinite == \A t \in Times : IsFiniteSet(sent[t])

AInv == IInv /\ (Undisturbed => EndsMeet /\ SentFinite /\ Calm)

-----------------------------------------------------------------------------
(* What is in a queue.                                                     *)

LEMMA RangeOfAppend ==
  ASSUME NEW S, NEW q \in Seq(S), NEW x \in S
  PROVE  Range(Append(q, x)) = Range(q) \cup {x}
<1>1. /\ Len(q) \in Nat /\ DOMAIN q = 1..Len(q) /\ DOMAIN Append(q, x) = 1..Len(q) + 1
      /\ Append(q, x)[Len(q) + 1] = x /\ \A i \in 1..Len(q) : Append(q, x)[i] = q[i]
  OBVIOUS
<1>2. \A i \in 1..Len(q) + 1 : i \in 1..Len(q) \/ i = Len(q) + 1
  BY <1>1
<1>3. 1..Len(q) \subseteq 1..Len(q) + 1 /\ Len(q) + 1 \in 1..Len(q) + 1
  BY <1>1
<1>4. Range(Append(q, x)) \subseteq Range(q) \cup {x}
  BY <1>1, <1>2 DEF Range
<1>5. Range(q) \cup {x} \subseteq Range(Append(q, x))
  BY <1>1, <1>3 DEF Range
<1> QED BY <1>4, <1>5

LEMMA RangeOfTail ==
  ASSUME NEW S, NEW q \in Seq(S), q # <<>>
  PROVE  Range(q) = {Head(q)} \cup Range(Tail(q))
<1>1. /\ Len(Tail(q)) = Len(q) - 1 /\ Head(q) = q[1] /\ Tail(q) \in Seq(S)
      /\ \A i \in 1..Len(Tail(q)) : Tail(q)[i] = q[i + 1]
  BY HeadTailProperties
<1>2. /\ DOMAIN q = 1..Len(q) /\ DOMAIN Tail(q) = 1..Len(Tail(q)) /\ Len(q) \in Nat /\ Len(q) # 0
  BY <1>1, EmptySeq
<1>3. ASSUME NEW x \in Range(q) PROVE x \in {Head(q)} \cup Range(Tail(q))
  <2>1. PICK i \in 1..Len(q) : x = q[i]
    BY <1>2 DEF Range
  <2>2. i # 1 => i - 1 \in 1..Len(Tail(q)) /\ (i - 1) + 1 = i
    BY <1>1, <1>2
  <2>3. CASE i # 1
    BY <1>1, <1>2, <2>1, <2>2, <2>3 DEF Range
  <2> QED BY <1>1, <2>1, <2>3
<1>4. \A i \in 1..Len(Tail(q)) : i + 1 \in 1..Len(q)
  BY <1>1, <1>2
<1>5. Range(Tail(q)) \subseteq Range(q)
  BY <1>1, <1>2, <1>4 DEF Range
<1>6. Head(q) \in Range(q)
  BY <1>1, <1>2 DEF Range
<1> QED BY <1>3, <1>5, <1>6

LEMMA RangeOfPrefix ==
  ASSUME NEW S, NEW q \in Seq(S), NEW n \in 0..Len(q)
  PROVE  Range(SubSeq(q, 1, n)) \subseteq Range(q)
<1>1. /\ Len(SubSeq(q, 1, n)) = n /\ SubSeq(q, 1, n) \in Seq(S)
      /\ \A i \in 1..n : SubSeq(q, 1, n)[i] = q[i]
  OBVIOUS
<1>2. DOMAIN q = 1..Len(q) /\ DOMAIN SubSeq(q, 1, n) = 1..n /\ 1..n \subseteq 1..Len(q)
  BY <1>1
<1> QED BY <1>1, <1>2 DEF Range

LEMMA RangeOfFront ==
  ASSUME NEW S, NEW q \in Seq(S), NEW x \in S
  PROVE  Range(<<x>> \o q) = {x} \cup Range(q)
<1> DEFINE t == <<x>> \o q
<1>1. /\ Len(q) \in Nat /\ Len(<<x>>) = 1 /\ <<x>>[1] = x /\ <<x>> \in Seq(S) /\ DOMAIN q = 1..Len(q)
  OBVIOUS
<1>2. /\ t \in Seq(S) /\ Len(t) = 1 + Len(q)
      /\ \A i \in 1..1 + Len(q) : t[i] = IF i <= 1 THEN <<x>>[i] ELSE q[i - 1]
  BY <1>1, ConcatProperties
<1> HIDE DEF t
<1>3. DOMAIN t = 1..1 + Len(q)
  BY <1>2
<1>4. t[1] = x /\ 1 \in 1..1 + Len(q)
  BY <1>1, <1>2
<1>5. ASSUME NEW i \in 1..Len(q) PROVE i + 1 \in 1..1 + Len(q) /\ t[i + 1] = q[i]
  <2>1. i + 1 \in 1..1 + Len(q) /\ ~(i + 1 <= 1) /\ (i + 1) - 1 = i
    BY <1>1
  <2> QED BY <1>2, <2>1
<1>6. ASSUME NEW i \in 1..1 + Len(q), i # 1 PROVE i - 1 \in 1..Len(q) /\ t[i] = q[i - 1]
  <2>1. i - 1 \in 1..Len(q) /\ ~(i <= 1)
    BY <1>1, <1>6
  <2> QED BY <1>2, <2>1
<1>7. Range(t) \subseteq {x} \cup Range(q)
  BY <1>1, <1>3, <1>4, <1>6 DEF Range
<1>8. {x} \cup Range(q) \subseteq Range(t)
  BY <1>1, <1>3, <1>4, <1>5 DEF Range
<1> QED BY <1>7, <1>8 DEF t

LEMMA RangeOfEmpty == Range(<<>>) = {}
  BY DEF Range

-----------------------------------------------------------------------------
LEMMA Kinds ==
  ASSUME TypeOK, NEW d \in Devices
  PROVE  /\ last[d] \in Nat /\ stamp[d] \in Nat
         /\ doing[d] # Idle => /\ doing[d] \in [at : {"storing", "announcing"}, msg : Message]
                               /\ doing[d].msg \in Message /\ doing[d].msg.content \in Contents
                               /\ doing[d].msg.kind \in {"changed", "set"}
                               /\ doing[d].msg.time \in Times /\ UpdateAt(doing[d]) \in Update
                               /\ doing[d].at \in {"storing", "announcing"}
         /\ At(d, "idle") <=> doing[d] = Idle
         /\ \A s \in Sessions : draft[s][d] \in Nat /\ link[s][d] \in Seq(Update)
                                /\ Range(link[s][d]) \subseteq Update
         /\ inbox[d] \in Seq(Message) /\ Range(inbox[d]) \subseteq Message
<1>1. MaxTime \in Nat
  BY ConstantsAssumption
<1>2. /\ last[d] \in 0..MaxTime /\ stamp[d] \in 0..MaxTime
      /\ inbox[d] \in Seq(Message)
      /\ doing[d] \in {Idle} \cup [at : {"storing", "announcing"}, msg : Message]
  BY DEF TypeOK
<1>3. \A s \in Sessions : draft[s][d] \in 0..MaxTime /\ link[s][d] \in Seq(Update)
  BY DEF TypeOK
<1>4. ASSUME doing[d] # Idle
      PROVE  /\ doing[d] \in [at : {"storing", "announcing"}, msg : Message]
             /\ doing[d].msg \in Message /\ doing[d].msg.content \in Contents
             /\ doing[d].msg.kind \in {"changed", "set"}
             /\ doing[d].msg.time \in Times /\ UpdateAt(doing[d]) \in Update
             /\ doing[d].at \in {"storing", "announcing"}
  <2>1. doing[d] \in [at : {"storing", "announcing"}, msg : Message]
    BY <1>2, <1>4
  <2>2. doing[d].msg \in Message /\ doing[d].at \in {"storing", "announcing"}
    BY <2>1
  <2> QED BY <2>1, <2>2 DEF Message, UpdateAt, Update
<1>5. At(d, "idle") <=> doing[d] = Idle
  BY <1>4 DEF At, Idle
<1>6. ASSUME NEW S, NEW q \in Seq(S) PROVE Range(q) \subseteq S
  BY DEF Range
<1> QED BY <1>1, <1>2, <1>3, <1>4, <1>5, <1>6

LEMMA UpdateIs ==
  /\ \A u \in Update : u.content \in Contents /\ u.time \in Times
  /\ \A m \in Message : m.kind \in {"changed", "set"} /\ m.content \in Contents /\ m.time \in Times
  /\ \A t \in Times : t \in Nat /\ t > 0
  BY DEF Update, Message, Times

\* Nothing that f waits for has left.
LEMMA GetsStays ==
  ASSUME IInv, IInv', NEW w \in Devices, NEW f \in Devices, NEW s \in Sessions, NEW t \in Times,
         Gets(w, f, s, t),
         last'[f] >= last[f], Range(link[s][w]) \subseteq Range(link'[s][w]),
         Range(inbox[f]) \subseteq Range(inbox'[f]),
         phase[s][w] = "greeting" /\ draft[s][w] >= t =>
           \/ phase'[s][w] = "greeting" /\ draft'[s][w] = draft[s][w]
           \/ \E u \in Range(link'[s][w]) : u.time >= t,
         doing[w] # Idle /\ doing[w].msg.kind = "changed" /\ doing[w].msg.time >= t =>
           \/ doing'[w] # Idle /\ doing'[w].msg = doing[w].msg
           \/ \E u \in Range(link'[s][w]) : u.time >= t
  PROVE  Gets(w, f, s, t)'
<1>1. last[f] >= t => last'[f] >= t
  <2>1. last[f] \in Nat
    BY Kinds DEF IInv
  <2>2. last'[f] \in Nat
    BY ConstantsAssumption DEF IInv, TypeOK
  <2> QED BY <2>1, <2>2 DEF Times
<1> QED BY <1>1 DEF Gets

\* What a step that stores nothing leaves to show.
LEMMA SpreadsStays ==
  ASSUME IInv, IInv', NEW w \in Devices, NEW t \in Times, Spreads(w, t),
         latest'[w] = latest[w], last'[w] >= last[w],
         Keeps(w) => Keeps(w)',
         latest[w] \notin Large /\ AllGet(w, t) => AllGet(w, t)'
  PROVE  Spreads(w, t)'
<1>1. last'[w] >= t
  <2>1. t \in Nat /\ last[w] \in Nat /\ last[w] >= t
    BY UpdateIs, Kinds DEF Spreads, IInv
  <2>2. last'[w] \in 0..MaxTime /\ MaxTime \in Nat
    BY ConstantsAssumption DEF IInv, TypeOK
  <2> QED BY <2>1, <2>2
<1> QED BY <1>1 DEF Spreads

LEMMA ReportSpreads ==
  ASSUME IInv, IInv', NEW d \in Devices, NEW c \in Contents, NEW y \in Times, Report(d, c, y),
         NEW w \in Devices, NEW t \in Times, Spreads(w, t)
  PROVE  Spreads(w, t)'
<1> DEFINE m == [kind |-> "changed", content |-> c, time |-> y]
<1>1. UNCHANGED <<doing, last, latest, phase, draft, link, peers>>
  BY DEF Report, state, sessions
<1>2. inbox' = [inbox EXCEPT ![d] = Append(inbox[d], m)] /\ m \in Message
  BY DEF Report, Deliver, Message
<1> HIDE DEF m
<1>3. \A f \in Devices : Range(inbox[f]) \subseteq Range(inbox'[f])
  <2>1. Range(Append(inbox[d], m)) = Range(inbox[d]) \cup {m}
    BY <1>2, Kinds, RangeOfAppend DEF IInv
  <2> QED BY <1>2, <2>1 DEF IInv, TypeOK
<1>4. \A f \in Devices : last'[f] >= last[f]
  BY <1>1, Kinds DEF IInv
<1>5. ASSUME AllGet(w, t), NEW f \in Devices \ {w}, NEW s \in Sessions, Linked(w, f, s)' PROVE Gets(w, f, s, t)'
  <2>1. Gets(w, f, s, t)
    BY <1>1, <1>5 DEF AllGet, Linked
  <2> QED BY <1>1, <1>3, <1>4, <2>1, GetsStays
<1>6. Keeps(w) => Keeps(w)'
  BY <1>1 DEF Keeps, At
<1>7. AllGet(w, t) => AllGet(w, t)'
  BY <1>5 DEF AllGet
<1> QED BY <1>1, <1>4, <1>6, <1>7, SpreadsStays

\* A device that holds a content that is too long takes another device's.
Replaces(w) ==
  Take(w) /\ Keeps(w) /\ Head(inbox[w]).kind = "set" /\ Accepts(w, Head(inbox[w]))

LEMMA TakeSpreads ==
  ASSUME IInv, IInv', Undisturbed, NEW d \in Devices, Take(d),
         NEW w \in Devices, NEW t \in Times, Spreads(w, t),
         ~Replaces(w)
  PROVE  Spreads(w, t)'
<1> DEFINE m == Head(inbox[d])
<1>1. UNCHANGED <<latest, phase, draft, link, peers, marked, everMarked>>
  BY DEF Take, events, sessions
<1>2. /\ doing[d] = Idle /\ inbox[d] # <<>> /\ inbox' = [inbox EXCEPT ![d] = Tail(inbox[d])]
      /\ inbox[d] \in Seq(Message)
  BY Kinds DEF Take, IInv
<1>9. \A f \in Devices : last[f] \in Nat /\ last'[f] \in Nat
  <2>1. \A f \in Devices : last[f] \in Nat
    BY Kinds DEF IInv
  <2>2. last' \in [Devices -> 0..MaxTime] /\ MaxTime \in Nat
    BY ConstantsAssumption DEF IInv, TypeOK
  <2> QED BY <2>1, <2>2
<1>3. \A f \in Devices : last'[f] >= last[f]
  BY <1>9, TakeKeeps
<1>4. m \in Message /\ Range(inbox[d]) = {m} \cup Range(Tail(inbox[d]))
  BY <1>2, RangeOfTail, HeadAndTail
<1>5. last'[d] >= m.time
  <2>1. marked[d] = {} /\ d \notin locked
    BY DEF IInv, StampIsClaimed, Undisturbed
  <2>2. m.time \in Nat /\ last[d] \in Nat
    BY <1>4, UpdateIs, Kinds DEF IInv
  <2>3. CASE Accepts(d, m)
    <3>1. last' = [last EXCEPT ![d] = m.time]
      BY <2>3 DEF Take
    <3>2. last \in [Devices -> 0..MaxTime]
      BY DEF IInv, TypeOK
    <3> HIDE DEF m
    <3>3. last'[d] = m.time
      BY <3>1, <3>2
    <3> QED BY <2>2, <3>3
  <2>4. CASE ~Accepts(d, m)
    <3>1. UNCHANGED last
      BY <2>4 DEF Take
    <3>2. ~(m.time > last[d])
      BY <2>1, <2>4 DEF Accepts, claim_newer_timestamp
    <3> QED BY <2>2, <3>1, <3>2
  <2> QED BY <2>3, <2>4
<1> HIDE DEF m
<1>6. \A x \in Devices : doing[x] # Idle => doing'[x] = doing[x]
  <2>1. UNCHANGED doing \/ \E y : doing' = [doing EXCEPT ![d] = y]
    BY DEF Take
  <2> QED BY <1>2, <2>1 DEF IInv, TypeOK
<1>7. ASSUME AllGet(w, t), NEW f \in Devices \ {w}, NEW s \in Sessions, Linked(w, f, s)' PROVE Gets(w, f, s, t)'
  <2>1. Gets(w, f, s, t)
    BY <1>1, <1>7 DEF AllGet, Linked
  <2>2. CASE f = d /\ m.time >= t
    <3>1. m.time \in Nat /\ t \in Nat
      BY <1>4, UpdateIs
    <3>2. last'[f] >= t
      BY <1>5, <1>9, <2>2, <3>1
    <3> QED BY <3>2 DEF Gets
  <2>3. CASE f # d
    <3>1. Range(inbox[f]) \subseteq Range(inbox'[f])
      BY <1>2, <2>3 DEF IInv, TypeOK
    <3> QED BY <1>1, <1>3, <1>6, <2>1, <3>1, GetsStays
  <2>4. CASE f = d /\ ~(m.time >= t)
    <3>1. inbox'[d] = Tail(inbox[d])
      BY <1>2 DEF IInv, TypeOK
    <3>2. \A n \in Range(inbox[f]) : n.time >= t => n \in Range(inbox'[f])
      BY <1>4, <2>4, <3>1
    <3>4. t \in Nat
      BY UpdateIs
    <3>3. last[f] >= t => last'[f] >= t
      BY <1>3, <1>9, <3>4
    <3> QED BY <1>1, <1>6, <2>1, <3>2, <3>3 DEF Gets
  <2> QED BY <2>2, <2>3, <2>4
<1>8. ASSUME Keeps(w) PROVE Keeps(w)'
  <2>1. CASE w = d /\ Accepts(d, m)
    <3>1. m.kind # "set"
      BY <1>8, <2>1 DEF m, Replaces
    <3>2. doing' = [doing EXCEPT ![d] = [at |-> "storing", msg |-> m]]
      BY <2>1 DEF Take, m
    <3>3. doing'[d] = [at |-> "storing", msg |-> m]
      BY <3>2 DEF IInv, TypeOK
    <3> QED BY <1>1, <1>8, <2>1, <3>1, <3>3 DEF Keeps
  <2>2. CASE ~(w = d /\ Accepts(d, m))
    <3>1. UNCHANGED doing \/ (w # d /\ \E y : doing' = [doing EXCEPT ![d] = y])
      BY <2>2 DEF Take, m
    <3>2. doing'[w] = doing[w]
      BY <3>1 DEF IInv, TypeOK
    <3> QED BY <1>1, <1>8, <3>2 DEF Keeps, At
  <2> QED BY <2>1, <2>2
<1>10. AllGet(w, t) => AllGet(w, t)'
  BY <1>7 DEF AllGet
<1> QED BY <1>1, <1>3, <1>8, <1>10, SpreadsStays

LEMMA StoreContentSpreads ==
  ASSUME IInv, IInv', ClaimsHold, NEW d \in Devices, StoreContent(d),
         NEW w \in Devices, NEW t \in Times, Spreads(w, t)
  PROVE  Spreads(w, t)'
<1>1. UNCHANGED <<inbox, last, phase, draft, link, peers>>
  BY DEF StoreContent, sessions
<1>2. doing[d] # Idle /\ latest' = [latest EXCEPT ![d] = doing[d].msg.content]
  BY DEF StoreContent, At, Idle
<1>3. latest'[w] # None
  <2>1. doing[d].msg.content \in Contents /\ None \notin Contents
    BY <1>2, Kinds, ConstantsAssumption DEF IInv
  <2>2. latest[w] # None
    BY DEF Spreads
  <2> QED BY <1>2, <2>1, <2>2 DEF IInv, TypeOK
<1>4. \A x \in Devices : doing[x] # Idle /\ doing[x].msg.kind = "changed" =>
                           doing'[x] # Idle /\ doing'[x].msg = doing[x].msg
  <2>1. CASE doing[d].msg.kind = "changed"
    <3>1. doing' = [doing EXCEPT ![d] = [doing[d] EXCEPT !.at = "announcing"]]
      BY <2>1 DEF StoreContent, GoOn
    <3>2. /\ doing[d] \in [at : {"storing", "announcing"}, msg : Message]
          /\ doing \in [Devices -> {Idle} \cup [at : {"storing", "announcing"}, msg : Message]]
      BY <1>2, Kinds DEF IInv, TypeOK
    <3>3. [doing[d] EXCEPT !.at = "announcing"].msg = doing[d].msg
          /\ [doing[d] EXCEPT !.at = "announcing"].at = "announcing"
      BY <3>2
    <3>4. [doing[d] EXCEPT !.at = "announcing"] # Idle
      BY <3>3 DEF Idle
    <3> QED BY <3>1, <3>2, <3>3, <3>4
  <2>2. CASE doing[d].msg.kind # "changed"
    <3>1. doing' = [doing EXCEPT ![d] = Idle]
      BY <2>2 DEF StoreContent, Done
    <3> QED BY <2>2, <3>1 DEF IInv, TypeOK
  <2> QED BY <2>1, <2>2
<1>5. \A f \in Devices : last'[f] >= last[f]
  BY <1>1, Kinds DEF IInv
<1>6. ASSUME AllGet(w, t), NEW f \in Devices \ {w}, NEW s \in Sessions, Linked(w, f, s)' PROVE Gets(w, f, s, t)'
  <2>1. Gets(w, f, s, t)
    BY <1>1, <1>6 DEF AllGet, Linked
  <2> QED BY <1>1, <1>4, <1>5, <2>1, GetsStays
<1>7. latest'[w] # None /\ last'[w] >= t
  BY <1>1, <1>3 DEF Spreads
<1>8. CASE w # d
  <2>1. latest'[w] = latest[w] /\ doing'[w] = doing[w]
    BY <1>2, <1>8 DEF StoreContent, GoOn, Done, IInv, TypeOK
  <2> QED BY <1>6, <1>7, <2>1 DEF Spreads, AllGet, Keeps, At
<1>9. CASE w = d /\ latest'[d] \in Large
  <2>1. doing'[d].at # "storing"
    <3>1. CASE doing[d].msg.kind = "changed"
      <4>1. doing'[d] = [doing[d] EXCEPT !.at = "announcing"]
        BY <3>1 DEF StoreContent, GoOn, IInv, TypeOK
      <4>2. doing[d] \in [at : {"storing", "announcing"}, msg : Message]
        BY <1>2, Kinds DEF IInv
      <4> QED BY <4>1, <4>2
    <3>2. CASE doing[d].msg.kind # "changed"
      BY <3>2 DEF StoreContent, Done, Idle, IInv, TypeOK
    <3> QED BY <3>1, <3>2
  <2> QED BY <1>7, <1>9, <2>1 DEF Spreads, Keeps, At
<1>10. CASE w = d /\ latest'[d] \notin Large
  <2>1. CASE Keeps(d)
    <3>1. doing[d].msg.kind = "changed"
      BY <1>2, <2>1, Kinds DEF Keeps, StoreContent, IInv
    <3>2. doing[d].msg.time >= t
      BY <1>2, <1>10 DEF ClaimsHold, Spreads
    <3>3. doing'[d] # Idle /\ doing'[d].msg = doing[d].msg
      BY <1>2, <1>4, <3>1
    <3> QED BY <1>7, <1>10, <3>1, <3>2, <3>3 DEF Spreads, AllGet, Gets
  <2>2. CASE AllGet(d, t)
    BY <1>6, <1>7, <1>10, <2>2 DEF Spreads, AllGet
  <2> QED BY <1>10, <2>1, <2>2 DEF Spreads
<1> QED BY <1>8, <1>9, <1>10

LEMMA AnnounceSpreads ==
  ASSUME IInv, IInv', everMarked' = {}, NEW d \in Devices, Announce(d),
         NEW w \in Devices, NEW t \in Times, Spreads(w, t)
  PROVE  Spreads(w, t)'
<1> DEFINE u == UpdateAt(doing[d])
<1>1. UNCHANGED <<inbox, last, latest, phase, draft, peers, marked, everMarked>>
  BY DEF Announce, state, events
<1>2. doing[d] # Idle /\ doing' = [doing EXCEPT ![d] = Idle]
  BY DEF Announce, At, Idle, Done
<1>3. u \in Update /\ u.time = doing[d].msg.time
  BY <1>2, Kinds DEF IInv, UpdateAt
<1>4. broadcast(d, u)
  BY <1>1 DEF Announce, IInv, StampIsClaimed
<1> HIDE DEF u
<1>5. ASSUME NEW s \in Sessions, NEW x \in Devices
      PROVE  /\ Range(link[s][x]) \subseteq Range(link'[s][x])
             /\ x = d /\ (\E e \in Devices : peers[d][e] = s) => u \in Range(link'[s][x])
  <2>1. link[s][x] \in Seq(Update) /\ link[s][d] \in Seq(Update) /\ link[s] \in [Devices -> Seq(Update)]
    BY Kinds DEF IInv, TypeOK
  <2>2. link'[s][x] = IF x = d /\ \E e \in Devices : peers[d][e] = s THEN Append(link[s][x], u)
                                                                    ELSE link[s][x]
    BY <1>4, <2>1 DEF broadcast
  <2> QED BY <1>3, <2>1, <2>2, RangeOfAppend
<1>6. \A f \in Devices : last'[f] >= last[f]
  BY <1>1, Kinds DEF IInv
<1>7. ASSUME AllGet(w, t), NEW f \in Devices \ {w}, NEW s \in Sessions, Linked(w, f, s)' PROVE Gets(w, f, s, t)'
  <2>1. Gets(w, f, s, t) /\ peers[w][f] = s
    BY <1>1, <1>7 DEF AllGet, Linked
  <2>2. doing[w] # Idle /\ doing[w].msg.time >= t =>
           \/ doing'[w] # Idle /\ doing'[w].msg = doing[w].msg
           \/ \E v \in Range(link'[s][w]) : v.time >= t
    BY <1>2, <1>3, <1>5, <2>1 DEF IInv, TypeOK
  <2> QED BY <1>1, <1>5, <1>6, <2>1, <2>2, GetsStays
<1>8. ASSUME Keeps(w) PROVE Keeps(w)'
  <2>1. doing'[w] = doing[w] \/ doing'[w] = Idle
    BY <1>2 DEF IInv, TypeOK
  <2> QED BY <1>1, <1>8, <2>1 DEF Keeps, At, Idle
<1>9. AllGet(w, t) => AllGet(w, t)'
  BY <1>7 DEF AllGet
<1> QED BY <1>1, <1>6, <1>8, <1>9, SpreadsStays

\* A step of a session.
LEMMA SessionSpreads ==
  ASSUME IInv, IInv', UNCHANGED <<last, latest, inbox, doing>>,
         NEW w \in Devices, NEW t \in Times, Spreads(w, t),
         latest[w] \notin Large => \A f \in Devices \ {w}, r \in Sessions : Linked(w, f, r)' =>
           /\ Linked(w, f, r) /\ Range(link[r][w]) \subseteq Range(link'[r][w])
           /\ phase[r][w] = "greeting" /\ draft[r][w] >= t =>
                \/ phase'[r][w] = "greeting" /\ draft'[r][w] = draft[r][w]
                \/ \E u \in Range(link'[r][w]) : u.time >= t
  PROVE  Spreads(w, t)'
<1>1. \A f \in Devices : last'[f] >= last[f]
  BY Kinds DEF IInv
<1>2. ASSUME latest[w] \notin Large, AllGet(w, t), NEW f \in Devices \ {w}, NEW r \in Sessions, Linked(w, f, r)' PROVE Gets(w, f, r, t)'
  <2>1. Gets(w, f, r, t)
    BY <1>2 DEF AllGet
  <2> QED BY <1>1, <1>2, <2>1, GetsStays
<1>3. Keeps(w) => Keeps(w)'
  BY DEF Keeps, At
<1>4. latest[w] \notin Large /\ AllGet(w, t) => AllGet(w, t)'
  BY <1>2 DEF AllGet
<1> QED BY <1>1, <1>3, <1>4, SpreadsStays

LEMMA PeerIs ==
  ASSUME NEW s \in Sessions, NEW d \in Ends[s]
  PROVE  Peer(s, d) # d /\ Ends[s] = {d, Peer(s, d)}
<1>1. PICK e, f \in Devices : e # f /\ Ends[s] = {e, f}
  BY ConstantsAssumption
<1>2. Peer(s, d) \in Ends[s] /\ Peer(s, d) # d
  BY <1>1 DEF Peer
<1> QED BY <1>1, <1>2

LEMMA ConnectSpreads ==
  ASSUME IInv, IInv', NEW s \in Sessions, NEW d \in Devices, Connect(s, d),
         NEW w \in Devices, NEW t \in Times, Spreads(w, t)
  PROVE  Spreads(w, t)'
<1>1. UNCHANGED <<last, latest, inbox, doing, draft, link, peers>>
  BY DEF Connect, daemon, state
<1>2. \A r \in Sessions, x \in Devices :
        /\ r # s => phase'[r] = phase[r]
        /\ phase'[s][x] \in {"joining", "none"}
  BY DEF Connect, IInv, TypeOK
<1>3. ASSUME NEW f \in Devices \ {w}, NEW r \in Sessions, Linked(w, f, r)'
      PROVE  Linked(w, f, r) /\ phase'[r] = phase[r]
  <2>1. r # s
    BY <1>2, <1>3 DEF Linked
  <2> QED BY <1>1, <1>2, <1>3, <2>1 DEF Linked
<1> QED BY <1>1, <1>3, SessionSpreads

LEMMA add_peerSpreads ==
  ASSUME IInv, IInv', everMarked' = {}, NEW s \in Sessions, NEW d \in Ends[s], add_peer(s, d),
         NEW w \in Devices, NEW t \in Times, Spreads(w, t)
  PROVE  Spreads(w, t)'
<1>1. UNCHANGED <<last, latest, inbox, doing, link, stamp, everMarked>>
  BY DEF add_peer, daemon, state
<1>2. d \in Devices /\ TypeOK
  BY PeerIsDevice DEF IInv
<1>3. /\ phase[s][d] = "joining"
      /\ phase'[s][d] = IF stamp[d] = 0 THEN "open" ELSE "greeting"
      /\ \A r \in Sessions, e \in Devices : r # s \/ e # d => phase'[r][e] = phase[r][e]
  BY <1>2 DEF add_peer, Enters, TypeOK
<1>4. /\ draft'[s][d] = stamp[d]
      /\ \A r \in Sessions, e \in Devices : r # s \/ e # d => draft'[r][e] = draft[r][e]
  BY <1>2 DEF add_peer, TypeOK
<1>5. \A r \in Sessions, e, f \in Devices : peers'[e][f] = r /\ (r # s \/ e # d) => peers[e][f] = r
  BY <1>2, PeerIsDevice DEF add_peer, TypeOK
<1>6. \A f \in Devices : last'[f] >= last[f]
  BY <1>1, Kinds DEF IInv
<1>7. ASSUME AllGet(w, t), NEW f \in Devices \ {w}, NEW r \in Sessions, Linked(w, f, r)' PROVE Gets(w, f, r, t)'
  <2>1. CASE r = s /\ w = d
    <3>1. stamp[d] = last[d] /\ last[d] >= t /\ t \in Nat /\ t > 0
      BY <1>1, <2>1, UpdateIs DEF IInv, StampIsClaimed, Spreads
    <3>2. phase'[s][d] = "greeting" /\ draft'[s][d] >= t
      BY <1>3, <1>4, <3>1
    <3> QED BY <2>1, <3>2 DEF Gets
  <2>2. CASE r # s \/ w # d
    <3>1. Linked(w, f, r)
      BY <1>3, <1>5, <1>7, <2>2 DEF Linked
    <3>2. Gets(w, f, r, t)
      BY <1>7, <3>1 DEF AllGet
    <3> QED BY <1>1, <1>3, <1>4, <1>6, <2>2, <3>2, GetsStays
  <2> QED BY <2>1, <2>2
<1>8. Keeps(w) => Keeps(w)'
  BY <1>1 DEF Keeps, At
<1>9. AllGet(w, t) => AllGet(w, t)'
  BY <1>7 DEF AllGet
<1> QED BY <1>1, <1>6, <1>8, <1>9, SpreadsStays

LEMMA SendInitialSpreads ==
  ASSUME IInv, IInv', NEW s \in Sessions, NEW d \in Ends[s], SendInitial(s, d),
         NEW w \in Devices, NEW t \in Times, Spreads(w, t)
  PROVE  Spreads(w, t)'
<1> DEFINE u == [content |-> latest[d], time |-> draft[s][d]]
<1>1. UNCHANGED <<last, latest, inbox, doing, peers>>
  BY DEF SendInitial, daemon, state
<1>2. d \in Devices /\ TypeOK
  BY PeerIsDevice DEF IInv
<1>3. /\ phase[s][d] = "greeting" /\ phase'[s][d] = "open"
      /\ \A r \in Sessions, e \in Devices : r # s \/ e # d => phase'[r][e] = phase[r][e]
  BY <1>2 DEF SendInitial, Enters, TypeOK
<1>4. \A r \in Sessions, e \in Devices : r # s \/ e # d => draft'[r][e] = draft[r][e]
  BY <1>2 DEF SendInitial, TypeOK
<1>5. /\ latest[d] \notin Large => link' = [link EXCEPT ![s][d] = IF latest[d] = None THEN link[s][d] ELSE <<u>> \o link[s][d]]
      /\ link \in [Sessions -> [Devices -> Seq(Update)]]
  BY DEF SendInitial, IInv, TypeOK
<1>6. latest[d] # None => u \in Update
  <2>1. draft[s][d] \in 0..MaxTime /\ draft[s][d] > 0 /\ latest[d] \in Contents \cup {None} /\ MaxTime \in Nat
    BY <1>2, <1>3, ConstantsAssumption DEF IInv, TypeOK, GreetsWithTime
  <2> QED BY <2>1 DEF Update, Times
<1>7. u.time = draft[s][d]
  OBVIOUS
<1> HIDE DEF u
<1>8. ASSUME NEW r \in Sessions, r # s \/ w # d PROVE link'[r][w] = link[r][w]
  <2>1. CASE latest[d] \notin Large
    BY <1>2, <1>5, <1>8, <2>1
  <2>2. CASE latest[d] \in Large
    BY <2>2 DEF SendInitial
  <2> QED BY <2>1, <2>2
<1>9. ASSUME w = d, latest[w] \notin Large PROVE Range(link'[s][w]) = {u} \cup Range(link[s][w])
  <2>1. latest[d] # None
    BY <1>9 DEF Spreads
  <2>2. link'[s][d] = <<u>> \o link[s][d]
    BY <1>2, <1>5, <1>9, <2>1
  <2> QED BY <1>2, <1>5, <1>6, <1>9, <2>1, <2>2, RangeOfFront
<1>10. ASSUME NEW f \in Devices \ {w}, NEW r \in Sessions, Linked(w, f, r)'
       PROVE  Linked(w, f, r)
  BY <1>1, <1>3, <1>10 DEF Linked
<1>11. ASSUME latest[w] \notin Large, NEW r \in Sessions
       PROVE  /\ Range(link[r][w]) \subseteq Range(link'[r][w])
              /\ phase[r][w] = "greeting" /\ draft[r][w] >= t =>
                   \/ phase'[r][w] = "greeting" /\ draft'[r][w] = draft[r][w]
                   \/ \E v \in Range(link'[r][w]) : v.time >= t
  <2>1. CASE r = s /\ w = d
    BY <1>7, <1>9, <1>11, <2>1
  <2>2. CASE r # s \/ w # d
    BY <1>3, <1>4, <1>8, <2>2
  <2> QED BY <2>1, <2>2
<1> QED BY <1>1, <1>10, <1>11, SessionSpreads

LEMMA SendInitialFailsSpreads ==
  ASSUME IInv, IInv', NEW s \in Sessions, NEW d \in Ends[s], SendInitialFails(s, d),
         NEW w \in Devices, NEW t \in Times, Spreads(w, t)
  PROVE  Spreads(w, t)'
<1>1. UNCHANGED <<last, latest, inbox, doing, link, peers>>
  BY DEF SendInitialFails, daemon, state
<1>2. d \in Devices /\ TypeOK
  BY PeerIsDevice DEF IInv
<1>3. /\ phase'[s][d] = "broken"
      /\ \A r \in Sessions, e \in Devices : r # s \/ e # d => phase'[r][e] = phase[r][e]
  BY <1>2 DEF SendInitialFails, Enters, TypeOK
<1>4. \A r \in Sessions, e \in Devices : r # s \/ e # d => draft'[r][e] = draft[r][e]
  BY <1>2 DEF SendInitialFails, TypeOK
<1>5. ASSUME NEW f \in Devices \ {w}, NEW r \in Sessions, Linked(w, f, r)'
      PROVE  Linked(w, f, r) /\ phase'[r][w] = phase[r][w] /\ draft'[r][w] = draft[r][w]
  <2>1. (r # s \/ w # d) /\ (r # s \/ f # d)
    BY <1>3, <1>5 DEF Linked
  <2> QED BY <1>1, <1>3, <1>4, <1>5, <2>1 DEF Linked
<1> QED BY <1>1, <1>5, SessionSpreads

LEMMA ReceiveSpreads ==
  ASSUME IInv, IInv', EndsMeet, NEW s \in Sessions, NEW d \in Ends[s], Receive(s, d),
         NEW w \in Devices, NEW t \in Times, Spreads(w, t)
  PROVE  Spreads(w, t)'
<1> DEFINE e == Peer(s, d)
           u == Head(link[s][e])
           m == [kind |-> "set", content |-> u.content, time |-> u.time]
<1>1. UNCHANGED <<last, latest, doing, phase, draft, peers>>
  BY DEF Receive, state
<1>2. d \in Devices /\ e \in Devices /\ e # d /\ Ends[s] = {d, e}
  BY PeerIsDevice, PeerIs
<1>3. /\ link[s][e] \in Seq(Update) /\ link[s][e] # <<>>
      /\ link' = [link EXCEPT ![s][e] = Tail(link[s][e])]
      /\ inbox' = [inbox EXCEPT ![d] = Append(inbox[d], m)]
  <2>1. Written(s, e, 1)
    BY DEF Receive
  <2>2. link[s][e] \in Seq(Update)
    BY <1>2 DEF IInv, TypeOK
  <2>3. link[s][e] # <<>>
    BY <1>2, <2>1, WrittenIsThere DEF IInv
  <2> QED BY <1>2, <2>2, <2>3 DEF Receive, Deliver, IInv, TypeOK
<1> HIDE DEF e
<1>4. u \in Update /\ Range(link[s][e]) = {u} \cup Range(Tail(link[s][e]))
  BY <1>3, HeadAndTail, RangeOfTail
<1> HIDE DEF u
<1>5. m \in Message /\ m.time = u.time
  BY <1>4 DEF Message, Update
<1> HIDE DEF m
<1>6. Range(Append(inbox[d], m)) = Range(inbox[d]) \cup {m}
  BY <1>2, <1>5, Kinds, RangeOfAppend DEF IInv
<1>7. /\ \A f \in Devices : Range(inbox[f]) \subseteq Range(inbox'[f])
      /\ m \in Range(inbox'[d])
  BY <1>2, <1>3, <1>6 DEF IInv, TypeOK
<1>8. \A f \in Devices : last'[f] >= last[f]
  BY <1>1, Kinds DEF IInv
<1>9. ASSUME AllGet(w, t), NEW f \in Devices \ {w}, NEW r \in Sessions, Linked(w, f, r)' PROVE Gets(w, f, r, t)'
  <2>1. Linked(w, f, r)
    BY <1>1, <1>9 DEF Linked
  <2>2. Gets(w, f, r, t)
    BY <1>9, <2>1 DEF AllGet
  <2>3. CASE r # s \/ w # e
    <3>1. link'[r][w] = link[r][w]
      BY <1>2, <1>3, <2>3 DEF IInv, TypeOK
    <3> QED BY <1>1, <1>7, <1>8, <2>2, <3>1, GetsStays
  <2>4. CASE r = s /\ w = e
    <3>1. f = d
      BY <1>2, <2>1, <2>4 DEF Linked, EndsMeet
    <3>2. link'[r][w] = Tail(link[s][e])
      BY <1>2, <1>3, <2>4 DEF IInv, TypeOK
    <3>3. ASSUME NEW v \in Range(link[r][w]), v.time >= t
          PROVE  Gets(w, f, r, t)'
      <4>1. v = u \/ v \in Range(link'[r][w])
        BY <1>4, <2>4, <3>2, <3>3
      <4> QED BY <1>5, <1>7, <3>1, <3>3, <4>1 DEF Gets
    <3>4. CASE ~\E v \in Range(link[r][w]) : v.time >= t
      BY <1>1, <1>7, <2>2, <3>4 DEF Gets
    <3> QED BY <3>3, <3>4
  <2> QED BY <2>3, <2>4
<1>10. Keeps(w) => Keeps(w)'
  BY <1>1 DEF Keeps, At
<1>11. AllGet(w, t) => AllGet(w, t)'
  BY <1>9 DEF AllGet
<1> QED BY <1>1, <1>8, <1>10, <1>11, SpreadsStays

\* Nobody is linked by the session that ends.
LEMMA EndedSpreads ==
  ASSUME IInv, IInv', EndsMeet, NEW s \in Sessions, NEW d \in Ends[s], NEW n, Ended(s, d, n),
         UNCHANGED <<last, latest, inbox, doing, draft>>,
         \A e, f \in Devices : peers'[e][f] \in Sessions => peers'[e][f] = peers[e][f],
         NEW w \in Devices, NEW t \in Times, Spreads(w, t)
  PROVE  Spreads(w, t)'
<1>1. d \in Devices
  BY PeerIsDevice
<1>2. /\ phase'[s][d] = "closed"
      /\ \A r \in Sessions, x \in Devices : r # s => phase'[r][x] = phase[r][x] /\ link'[r] = link[r]
  BY <1>1 DEF Ended, Enters, IInv, TypeOK
<1>3. ASSUME NEW f \in Devices \ {w}, NEW r \in Sessions, Linked(w, f, r)'
      PROVE  Linked(w, f, r) /\ phase'[r][w] = phase[r][w] /\ link'[r] = link[r]
  <2>1. peers[w][f] = r
    BY <1>3 DEF Linked
  <2>2. Ends[r] = {w, f}
    BY <2>1 DEF EndsMeet
  <2>3. r # s
    BY <1>2, <1>3, <2>2 DEF Linked
  <2> QED BY <1>2, <1>3, <2>1, <2>3 DEF Linked
<1> QED BY <1>3, SessionSpreads

LEMMA remove_peerSpreads ==
  ASSUME IInv, IInv', EndsMeet, NEW s \in Sessions, NEW d \in Ends[s], NEW n, remove_peer(s, d, n),
         NEW w \in Devices, NEW t \in Times, Spreads(w, t)
  PROVE  Spreads(w, t)'
<1>1. d \in Devices /\ Peer(s, d) \in Devices
  BY PeerIsDevice
<1>2. \A e, f \in Devices : peers'[e][f] \in Sessions => peers'[e][f] = peers[e][f]
  BY <1>1, ConstantsAssumption DEF remove_peer, IInv, TypeOK
<1>3. Ended(s, d, n) /\ UNCHANGED <<last, latest, inbox, doing, draft>>
  BY DEF remove_peer, daemon, state
<1> QED BY <1>2, <1>3, EndedSpreads

LEMMA LeaveInMapSpreads ==
  ASSUME IInv, IInv', EndsMeet, NEW s \in Sessions, NEW d \in Ends[s], NEW n, LeaveInMap(s, d, n),
         NEW w \in Devices, NEW t \in Times, Spreads(w, t)
  PROVE  Spreads(w, t)'
<1>1. d \in Devices
  BY PeerIsDevice
<1>2. \A e, f \in Devices : peers'[e][f] \in Sessions => peers'[e][f] = peers[e][f]
  BY <1>1, ConstantsAssumption DEF LeaveInMap, IInv, TypeOK
<1>3. Ended(s, d, n) /\ UNCHANGED <<last, latest, inbox, doing, draft>>
  BY DEF LeaveInMap, daemon, state
<1> QED BY <1>2, <1>3, EndedSpreads

LEMMA JoinFailsSpreads ==
  ASSUME IInv, IInv', EndsMeet, NEW s \in Sessions, NEW d \in Ends[s], JoinFails(s, d),
         NEW w \in Devices, NEW t \in Times, Spreads(w, t)
  PROVE  Spreads(w, t)'
<1>1. /\ Ended(s, d, 0) /\ UNCHANGED <<last, latest, inbox, doing, draft, peers>>
  BY DEF JoinFails, daemon, state
<1> QED BY <1>1, EndedSpreads

\* Nobody is linked with a device that starts.
LEMMA RestartSpreads ==
  ASSUME IInv, IInv', EndsMeet, everMarked' = {}, NEW d \in Devices, NEW wrote \in BOOLEAN,
         Restart(d, wrote), NEW w \in Devices, NEW t \in Times, Spreads(w, t)
  PROVE  Spreads(w, t)'
<1> DEFINE mine(r) == d \in Ends[r] /\ phase[r][d] # "none"
<1>1. /\ UNCHANGED <<latest, everMarked>> /\ last' = [last EXCEPT ![d] = stamp[d]]
      /\ inbox' = [inbox EXCEPT ![d] = <<>>] /\ doing' = [doing EXCEPT ![d] = Idle]
      /\ peers' = [peers EXCEPT ![d] = [e \in Devices |-> None]]
  BY DEF Restart, state
<1>2. last' = last
  BY <1>1 DEF IInv, TypeOK, StampIsClaimed
<1>3. \A r \in Sessions : mine(r) => phase'[r][d] = "closed"
  BY DEF Restart, IInv, TypeOK
<1>4. \A r \in Sessions : ~mine(r) => phase'[r] = phase[r] /\ link'[r] = link[r] /\ draft'[r] = draft[r]
  BY DEF Restart, IInv, TypeOK
<1> HIDE DEF mine
<1>5. \A x \in Devices \ {d} : inbox'[x] = inbox[x] /\ doing'[x] = doing[x] /\ peers'[x] = peers[x]
  BY <1>1 DEF IInv, TypeOK
<1>6. \A f \in Devices : peers'[d][f] \notin Sessions
  BY <1>1, ConstantsAssumption DEF IInv, TypeOK
<1>7. \A f \in Devices : last'[f] >= last[f]
  BY <1>2, Kinds DEF IInv
<1>8. ASSUME AllGet(w, t), NEW f \in Devices \ {w}, NEW r \in Sessions, Linked(w, f, r)' PROVE Gets(w, f, r, t)'
  <2>1. w # d
    BY <1>6, <1>8 DEF Linked
  <2>2. peers[w][f] = r
    BY <1>5, <1>8, <2>1 DEF Linked
  <2>3. Ends[r] = {w, f}
    BY <2>2 DEF EndsMeet
  <2>4. ~mine(r)
    BY <1>3, <1>8, <2>1, <2>3 DEF Linked, mine
  <2>5. f # d
    BY <1>4, <1>8, <2>3, <2>4 DEF Linked, mine
  <2>6. Linked(w, f, r)
    BY <1>4, <1>8, <2>2, <2>4 DEF Linked
  <2>7. Gets(w, f, r, t)
    BY <1>8, <2>6 DEF AllGet
  <2> QED BY <1>2, <1>4, <1>5, <2>1, <2>4, <2>5, <2>7 DEF Gets
<1>9. ASSUME Keeps(w) PROVE Keeps(w)'
  <2>1. doing'[w] = doing[w] \/ doing'[w] = Idle
    BY <1>1 DEF IInv, TypeOK
  <2> QED BY <1>1, <1>9, <2>1 DEF Keeps, At, Idle
<1>10. AllGet(w, t) => AllGet(w, t)'
  BY <1>8 DEF AllGet
<1> QED BY <1>1, <1>7, <1>9, <1>10, SpreadsStays

\* Without local-only items the IPC thread has nothing to do.
LEMMA CalmStep ==
  ASSUME IInv, Undisturbed', Next
  PROVE  /\ Undisturbed
         /\ \E d \in Devices :
              \/ Take(d) \/ StoreContent(d) \/ Announce(d)
              \/ \E wrote \in BOOLEAN : Restart(d, wrote)
              \/ \E c \in Contents, t \in Times : Report(d, c, t)
              \/ \E s \in Sessions :
                   /\ d \in Ends[s]
                   /\ \/ Connect(s, d) \/ add_peer(s, d) \/ SendInitial(s, d)
                      \/ SendInitialFails(s, d) \/ Receive(s, d) \/ JoinFails(s, d)
                      \/ \E n \in 0..Len(link[s][d]) : remove_peer(s, d, n) \/ LeaveInMap(s, d, n)
<1>1. PICK d \in Devices :
        \/ DaemonStep(d) \/ ToggleStep(d) \/ LockOut(d) \/ \E wrote \in BOOLEAN : Restart(d, wrote)
        \/ \E c \in Contents : Mark(d, c)
        \/ \E c \in Contents, t \in Times : Report(d, c, t) \/ Unmark(d, c, t)
        \/ \E s \in Sessions :
             /\ d \in Ends[s]
             /\ \/ Connect(s, d) \/ add_peer(s, d) \/ SendInitial(s, d)
                \/ SendInitialFails(s, d) \/ Receive(s, d) \/ JoinFails(s, d)
                \/ \E n \in 0..Len(link[s][d]) : remove_peer(s, d, n) \/ LeaveInMap(s, d, n)
  BY DEF Next
<1>2. \A c \in Contents : ~Mark(d, c)
  BY DEF Mark, Undisturbed
<1>6. ~LockOut(d)
  BY DEF LockOut, Undisturbed
<1>3. Undisturbed
  <2>1. DaemonStep(d) \/ ToggleStep(d) \/ (\E wrote \in BOOLEAN : Restart(d, wrote)) => UNCHANGED <<everMarked, locked>>
    BY DEF DaemonStep, ToggleStep, Take, StoreContent, Announce, Restart,
           ToggleStamp, ToggleContent, ToggleAnnounce
  <2>2. (\E c \in Contents, t \in Times : Report(d, c, t) \/ Unmark(d, c, t)) => UNCHANGED <<everMarked, locked>>
    BY DEF Report, Unmark
  <2>3. ASSUME NEW s \in Sessions,
               \/ Connect(s, d) \/ add_peer(s, d) \/ SendInitial(s, d)
               \/ SendInitialFails(s, d) \/ Receive(s, d) \/ JoinFails(s, d)
               \/ \E n \in 0..Len(link[s][d]) : remove_peer(s, d, n) \/ LeaveInMap(s, d, n)
        PROVE  UNCHANGED <<everMarked, locked>>
    BY <2>3 DEF Connect, add_peer, SendInitial, SendInitialFails, Receive, JoinFails, remove_peer, LeaveInMap
  <2> QED BY <1>1, <1>2, <1>6, <2>1, <2>2, <2>3 DEF Undisturbed
<1>4. marked[d] = {} /\ toggling[d] = Idle
  BY <1>3 DEF IInv, StampIsClaimed, Undisturbed
<1>5. ~ToggleStep(d) /\ \A c \in Contents, t \in Times : ~Unmark(d, c, t)
  BY <1>4 DEF ToggleStep, ToggleStamp, ToggleContent, ToggleAnnounce, Unmark, Idle
<1> QED BY <1>1, <1>2, <1>3, <1>5, <1>6 DEF DaemonStep

LEMMA NextSpreads ==
  ASSUME IInv, IInv', EndsMeet, ClaimsHold, Undisturbed', Next,
         NEW w \in Devices, NEW t \in Times, Spreads(w, t), ~Replaces(w)
  PROVE  Spreads(w, t)'
<1>1. PICK d \in Devices :
        \/ Take(d) \/ StoreContent(d) \/ Announce(d)
        \/ \E wrote \in BOOLEAN : Restart(d, wrote)
        \/ \E c \in Contents, y \in Times : Report(d, c, y)
        \/ \E s \in Sessions :
             /\ d \in Ends[s]
             /\ \/ Connect(s, d) \/ add_peer(s, d) \/ SendInitial(s, d)
                \/ SendInitialFails(s, d) \/ Receive(s, d) \/ JoinFails(s, d)
                \/ \E n \in 0..Len(link[s][d]) : remove_peer(s, d, n) \/ LeaveInMap(s, d, n)
  BY CalmStep
<1>6. Undisturbed /\ everMarked' = {}
  BY CalmStep DEF Undisturbed
<1>2. CASE Take(d) \/ StoreContent(d) \/ Announce(d)
  BY <1>2, <1>6, TakeSpreads, StoreContentSpreads, AnnounceSpreads
<1>3. CASE \E wrote \in BOOLEAN : Restart(d, wrote)
  BY <1>3, <1>6, RestartSpreads
<1>4. CASE \E c \in Contents, y \in Times : Report(d, c, y)
  BY <1>4, ReportSpreads
<1>5. ASSUME NEW s \in Sessions, d \in Ends[s],
             \/ Connect(s, d) \/ add_peer(s, d) \/ SendInitial(s, d)
             \/ SendInitialFails(s, d) \/ Receive(s, d) \/ JoinFails(s, d)
             \/ \E n \in 0..Len(link[s][d]) : remove_peer(s, d, n) \/ LeaveInMap(s, d, n)
      PROVE  Spreads(w, t)'
  BY <1>5, <1>6, ConnectSpreads, add_peerSpreads, SendInitialSpreads, SendInitialFailsSpreads, ReceiveSpreads, JoinFailsSpreads,
     remove_peerSpreads, LeaveInMapSpreads
<1> QED BY <1>1, <1>2, <1>3, <1>4, <1>5

\* What gets to all at one time gets to all at an earlier one.
LEMMA SpreadsLess ==
  ASSUME TypeOK, NEW w \in Devices, NEW t \in Times, Spreads(w, t), NEW y \in Times, y <= t
  PROVE  Spreads(w, y)
<1>2. y \in Nat /\ t \in Nat /\ \A n \in Nat : n >= t => n >= y
  BY UpdateIs
<1>3. \A x \in Devices : last[x] \in Nat
  BY Kinds
<1>4. ASSUME AllGet(w, t), NEW f \in Devices \ {w}, NEW s \in Sessions, Linked(w, f, s) PROVE Gets(w, f, s, y)
  <2>1. Gets(w, f, s, t)
    BY <1>4 DEF AllGet
  <2>2. \A u \in Range(link[s][w]) : u.time \in Nat
    BY Kinds, UpdateIs
  <2>3. \A m \in Range(inbox[f]) : m.time \in Nat
    BY Kinds, UpdateIs
  <2>4. draft[s][w] \in Nat /\ (doing[w] # Idle => doing[w].msg.time \in Nat)
    BY Kinds, UpdateIs
  <2> QED BY <1>2, <1>3, <2>1, <2>2, <2>3, <2>4 DEF Gets
<1>5. AllGet(w, t) => AllGet(w, y)
  BY <1>4 DEF AllGet
<1> QED BY <1>2, <1>3, <1>5 DEF Spreads

LEMMA SpreadLess ==
  ASSUME TypeOK, NEW t \in Times, Spread(t), NEW y \in Times, y <= t
  PROVE  Spread(y)
  BY SpreadsLess DEF Spread


-----------------------------------------------------------------------------
(* Where what a step adds comes from, without local-only items.            *)

LinksGo ==
  \A s \in Sessions, d \in Devices : \A u \in Range(link'[s][d]) :
    \/ u \in Range(link[s][d])
    \/ At(d, "announcing") /\ u = UpdateAt(doing[d])
    \/ phase[s][d] = "greeting" /\ latest[d] # None /\ u.time = draft[s][d] /\ u.content \in sent'[u.time]

InboxGoes ==
  \A d \in Devices : \A m \in Range(inbox'[d]) :
    \/ m \in Range(inbox[d])
    \/ m.kind = "changed" /\ m.content \in sent'[m.time]
    \/ \E s \in Sessions, e \in Devices : \E u \in Range(link[s][e]) :
         m.kind = "set" /\ m.content = u.content /\ m.time = u.time

DaemonRests(d) ==
  /\ last'[d] = last[d] /\ latest'[d] = latest[d]
  /\ \/ doing'[d] = doing[d]
     \/ doing'[d] = Idle /\ At(d, "announcing")
     \/ doing'[d] = Idle /\ \A s \in Sessions : phase'[s][d] \notin {"greeting", "open"}
DaemonClaims(d) ==
  /\ doing[d] = Idle /\ latest'[d] = latest[d]
  /\ \E m \in Range(inbox[d]) : last'[d] = m.time /\ doing'[d] = [at |-> "storing", msg |-> m]
DaemonStores(d) ==
  /\ At(d, "storing") /\ last'[d] = last[d] /\ latest'[d] = doing[d].msg.content
  /\ \/ doing'[d] = Idle /\ doing[d].msg.kind = "set"
     \/ doing'[d] = [at |-> "announcing", msg |-> doing[d].msg] /\ doing[d].msg.kind = "changed"
DaemonGoes == \A d \in Devices : DaemonRests(d) \/ DaemonClaims(d) \/ DaemonStores(d)

EndGoes(s, d) ==
  /\ draft'[s][d] \in {draft[s][d], 0, last[d]}
  /\ phase'[s][d] = "greeting" =>
       (phase[s][d] = "greeting" /\ draft'[s][d] = draft[s][d]) \/ draft'[s][d] = last[d]
  /\ phase'[s][d] = "open" =>
       \/ phase[s][d] = "open"
       \/ last[d] = 0
       \/ phase[s][d] = "greeting" /\ draft[s][d] > 0 /\ latest[d] \in sent'[draft[s][d]]
       \/ latest[d] \in Large
  /\ phase'[s][d] # "none" => phase[s][d] # "none" \/ d \in Ends[s]
EndsGo == \A s \in Sessions, d \in Devices : EndGoes(s, d)

MapsGo ==
  \A d, e \in Devices : peers'[d][e] \in Sessions =>
    peers'[d][e] = peers[d][e] \/ (Ends[peers'[d][e]] = {d, e} /\ d # e)
SentGrows ==
  \A t \in Times : sent[t] \subseteq sent'[t] /\ \E x : sent'[t] \subseteq sent[t] \cup {x}

Goes == LinksGo /\ InboxGoes /\ DaemonGoes /\ EndsGo /\ MapsGo /\ SentGrows

\* What a step leaves alone.
LEMMA SameGoes ==
  /\ UNCHANGED link => LinksGo
  /\ UNCHANGED inbox => InboxGoes
  /\ UNCHANGED <<last, latest, doing>> => DaemonGoes
  /\ UNCHANGED <<phase, draft>> => EndsGo
  /\ UNCHANGED peers => MapsGo
  /\ UNCHANGED sent => SentGrows
<1>1. UNCHANGED link => LinksGo
  BY DEF LinksGo
<1>2. UNCHANGED inbox => InboxGoes
  BY DEF InboxGoes
<1>3. UNCHANGED <<last, latest, doing>> => DaemonGoes
  BY DEF DaemonGoes, DaemonRests
<1>4. UNCHANGED <<phase, draft>> => EndsGo
  BY DEF EndsGo, EndGoes
<1>5. UNCHANGED peers => MapsGo
  BY DEF MapsGo
<1>6. UNCHANGED sent => SentGrows
  BY DEF SentGrows
<1> QED BY <1>1, <1>2, <1>3, <1>4, <1>5, <1>6

LEMMA SendsGrows ==
  ASSUME TypeOK, NEW x, NEW t \in Times, sent' = [sent EXCEPT ![t] = sent[t] \cup {x}]
  PROVE  SentGrows /\ x \in sent'[t]
  BY DEF SentGrows, TypeOK

LEMMA ReportGoes ==
  ASSUME IInv, NEW d \in Devices, NEW c \in Contents, NEW y \in Times, Report(d, c, y)
  PROVE  Goes
<1> DEFINE m == [kind |-> "changed", content |-> c, time |-> y]
<1>1. UNCHANGED <<doing, last, latest, phase, draft, link, peers>>
  BY DEF Report, state, sessions
<1>2. SentGrows /\ c \in sent'[y]
  BY SendsGrows DEF Report, Sends, IInv
<1>3. inbox' = [inbox EXCEPT ![d] = Append(inbox[d], m)]
  BY DEF Report, Deliver
<1>4. m \in Message /\ m.kind = "changed" /\ m.content = c /\ m.time = y
  BY DEF Message
<1> HIDE DEF m
<1>5. Range(Append(inbox[d], m)) = Range(inbox[d]) \cup {m}
  BY <1>4, Kinds, RangeOfAppend DEF IInv
<1>6. InboxGoes
  BY <1>2, <1>3, <1>4, <1>5 DEF InboxGoes, IInv, TypeOK
<1> QED BY <1>1, <1>2, <1>6, SameGoes DEF Goes

LEMMA TakeGoes ==
  ASSUME IInv, NEW d \in Devices, Take(d)
  PROVE  Goes
<1> DEFINE m == Head(inbox[d])
<1>1. UNCHANGED <<latest, phase, draft, link, peers, sent>>
  BY DEF Take, sessions
<1>2. /\ doing[d] = Idle /\ inbox[d] # <<>> /\ inbox[d] \in Seq(Message)
      /\ inbox' = [inbox EXCEPT ![d] = Tail(inbox[d])]
  BY Kinds DEF Take, IInv
<1>3. Range(inbox[d]) = {m} \cup Range(Tail(inbox[d]))
  BY <1>2, RangeOfTail
<1>4. \/ UNCHANGED <<last, doing>>
      \/ /\ last' = [last EXCEPT ![d] = m.time]
         /\ doing' = [doing EXCEPT ![d] = [at |-> "storing", msg |-> m]]
  BY DEF Take
<1> HIDE DEF m
<1>5. InboxGoes
  <2>1. \A x \in Devices : Range(inbox'[x]) \subseteq Range(inbox[x])
    BY <1>2, <1>3 DEF IInv, TypeOK
  <2> QED BY <2>1 DEF InboxGoes
<1>6. DaemonGoes
  <2>1. CASE UNCHANGED <<last, doing>>
    BY <1>1, <2>1 DEF DaemonGoes, DaemonRests
  <2>2. CASE /\ last' = [last EXCEPT ![d] = m.time]
             /\ doing' = [doing EXCEPT ![d] = [at |-> "storing", msg |-> m]]
    <3>1. DaemonClaims(d)
      BY <1>1, <1>2, <1>3, <2>2 DEF DaemonClaims, IInv, TypeOK
    <3>2. ASSUME NEW x \in Devices \ {d} PROVE DaemonRests(x)
      BY <1>1, <2>2 DEF DaemonRests, IInv, TypeOK
    <3> QED BY <3>1, <3>2 DEF DaemonGoes
  <2> QED BY <1>4, <2>1, <2>2
<1> QED BY <1>1, <1>5, <1>6, SameGoes DEF Goes

LEMMA StoreContentGoes ==
  ASSUME IInv, NEW d \in Devices, StoreContent(d)
  PROVE  Goes
<1>1. UNCHANGED <<inbox, last, phase, draft, link, peers, sent>>
  BY DEF StoreContent, sessions
<1>2. /\ doing[d] # Idle /\ At(d, "storing")
      /\ latest' = [latest EXCEPT ![d] = doing[d].msg.content]
  BY DEF StoreContent, At, Idle
<1>3. /\ doing[d] \in [at : {"storing", "announcing"}, msg : Message]
      /\ doing[d].msg.kind \in {"changed", "set"}
  BY <1>2, Kinds DEF IInv
<1>4. [doing[d] EXCEPT !.at = "announcing"] = [at |-> "announcing", msg |-> doing[d].msg]
  BY <1>3
<1>5. \/ doing' = [doing EXCEPT ![d] = Idle] /\ doing[d].msg.kind = "set"
      \/ /\ doing' = [doing EXCEPT ![d] = [at |-> "announcing", msg |-> doing[d].msg]]
         /\ doing[d].msg.kind = "changed"
  BY <1>3, <1>4 DEF StoreContent, GoOn, Done
<1>6. DaemonStores(d)
  BY <1>1, <1>2, <1>5 DEF DaemonStores, IInv, TypeOK
<1>7. ASSUME NEW x \in Devices \ {d} PROVE DaemonRests(x)
  BY <1>1, <1>2, <1>5 DEF DaemonRests, IInv, TypeOK
<1>8. DaemonGoes
  BY <1>6, <1>7 DEF DaemonGoes
<1> QED BY <1>1, <1>8, SameGoes DEF Goes

LEMMA AnnounceGoes ==
  ASSUME IInv, NEW d \in Devices, Announce(d)
  PROVE  Goes
<1> DEFINE u == UpdateAt(doing[d])
<1>1. UNCHANGED <<inbox, last, latest, phase, draft, peers, sent>>
  BY DEF Announce, state
<1>2. doing[d] # Idle /\ doing' = [doing EXCEPT ![d] = Idle] /\ At(d, "announcing")
  BY DEF Announce, At, Idle, Done
<1>3. u \in Update
  BY <1>2, Kinds DEF IInv
<1>4. UNCHANGED link \/ broadcast(d, u)
  BY DEF Announce
<1>5. u = UpdateAt(doing[d])
  OBVIOUS
<1> HIDE DEF u
<1>6. ASSUME NEW s \in Sessions, NEW x \in Devices, NEW v \in Range(link'[s][x])
      PROVE  v \in Range(link[s][x]) \/ (x = d /\ v = u)
  <2>1. link[s][x] \in Seq(Update) /\ link[s] \in [Devices -> Seq(Update)]
    BY Kinds DEF IInv, TypeOK
  <2>2. CASE broadcast(d, u)
    <3>1. link'[s][x] = IF x = d /\ \E e \in Devices : peers[d][e] = s THEN Append(link[s][x], u)
                                                                      ELSE link[s][x]
      BY <2>1, <2>2 DEF broadcast
    <3> QED BY <1>3, <1>6, <2>1, <3>1, RangeOfAppend
  <2> QED BY <1>4, <1>6, <2>2
<1>7. LinksGo
  BY <1>2, <1>5, <1>6 DEF LinksGo
<1>8. DaemonGoes
  BY <1>1, <1>2 DEF DaemonGoes, DaemonRests, IInv, TypeOK
<1> QED BY <1>1, <1>7, <1>8, SameGoes DEF Goes

LEMMA ConnectGoes ==
  ASSUME IInv, NEW s \in Sessions, NEW d \in Devices, Connect(s, d)
  PROVE  Goes
<1>1. UNCHANGED <<last, latest, inbox, doing, draft, link, peers, sent>>
  BY DEF Connect, daemon, state
<1>2. phase' = [phase EXCEPT ![s] = [e \in Devices |-> IF e \in Ends[s] THEN "joining" ELSE "none"]]
  BY DEF Connect
<1>3. EndsGo
  BY <1>1, <1>2 DEF EndsGo, EndGoes, IInv, TypeOK
<1> QED BY <1>1, <1>3, SameGoes DEF Goes

LEMMA add_peerGoes ==
  ASSUME IInv, everMarked' = {}, NEW s \in Sessions, NEW d \in Ends[s], add_peer(s, d)
  PROVE  Goes
<1>1. UNCHANGED <<last, latest, inbox, doing, link, stamp, sent, everMarked>>
  BY DEF add_peer, daemon, state
<1>2. d \in Devices /\ TypeOK /\ Peer(s, d) # d /\ Ends[s] = {d, Peer(s, d)}
  BY PeerIsDevice, PeerIs DEF IInv
<1>3. stamp[d] = last[d]
  BY <1>1, <1>2 DEF IInv, StampIsClaimed
<1>4. EndsGo
  <2>1. /\ phase[s][d] = "joining"
        /\ phase' = [phase EXCEPT ![s][d] = IF stamp[d] = 0 THEN "open" ELSE "greeting"]
        /\ draft' = [draft EXCEPT ![s][d] = stamp[d]]
    BY DEF add_peer, Enters
  <2>2. ASSUME NEW r \in Sessions, NEW x \in Devices, r # s \/ x # d PROVE EndGoes(r, x)
    <3>1. phase'[r][x] = phase[r][x] /\ draft'[r][x] = draft[r][x]
      BY <1>2, <2>1, <2>2 DEF TypeOK
    <3> QED BY <3>1 DEF EndGoes
  <2>3. EndGoes(s, d)
    <3>1. phase'[s][d] = (IF stamp[d] = 0 THEN "open" ELSE "greeting") /\ draft'[s][d] = stamp[d]
      BY <1>2, <2>1 DEF TypeOK
    <3> QED BY <1>3, <2>1, <3>1 DEF EndGoes
  <2> QED BY <2>2, <2>3 DEF EndsGo
<1>5. MapsGo
  <2>1. peers' = [peers EXCEPT ![d][Peer(s, d)] = s]
    BY DEF add_peer
  <2>2. ASSUME NEW e \in Devices, NEW f \in Devices
        PROVE  peers'[e][f] = peers[e][f] \/ (e = d /\ f = Peer(s, d) /\ peers'[e][f] = s)
    BY <1>2, <2>1 DEF TypeOK
  <2> QED BY <1>2, <2>2 DEF MapsGo
<1> QED BY <1>1, <1>4, <1>5, SameGoes DEF Goes

LEMMA SendInitialGoes ==
  ASSUME IInv, NEW s \in Sessions, NEW d \in Ends[s], SendInitial(s, d)
  PROVE  Goes
<1> DEFINE u == [content |-> latest[d], time |-> draft[s][d]]
<1>1. UNCHANGED <<last, latest, inbox, doing, peers>>
  BY DEF SendInitial, daemon, state
<1>2. d \in Devices /\ TypeOK
  BY PeerIsDevice DEF IInv
<1>3. /\ phase[s][d] = "greeting" /\ phase'[s][d] = "open"
      /\ \A r \in Sessions, e \in Devices : r # s \/ e # d => phase'[r][e] = phase[r][e]
  BY <1>2 DEF SendInitial, Enters, TypeOK
<1>4. /\ draft'[s][d] = 0
      /\ \A r \in Sessions, e \in Devices : r # s \/ e # d => draft'[r][e] = draft[r][e]
  BY <1>2 DEF SendInitial, TypeOK
<1>5. /\ link[s][d] \in Seq(Update)
      /\ latest[d] \notin Large =>
           /\ link' = [link EXCEPT ![s][d] = IF latest[d] = None THEN link[s][d] ELSE <<u>> \o link[s][d]]
           /\ sent' = [sent EXCEPT ![u.time] = sent[u.time] \cup {u.content}]
      /\ latest[d] \in Large => UNCHANGED <<link, sent>>
  BY <1>2, Kinds DEF SendInitial, Sends
<1>6. draft[s][d] > 0 /\ draft[s][d] \in Times /\ latest[d] \in Contents \cup {None}
  <2>1. draft[s][d] \in 0..MaxTime /\ draft[s][d] > 0 /\ MaxTime \in Nat
    BY <1>2, <1>3, ConstantsAssumption DEF IInv, TypeOK, GreetsWithTime
  <2> QED BY <1>2, <2>1 DEF Times, TypeOK
<1>7. u.time = draft[s][d] /\ u.content = latest[d] /\ (latest[d] # None => u \in Update)
  BY <1>6 DEF Update
<1> HIDE DEF u
<1>8. SentGrows /\ (latest[d] \in Large \/ latest[d] \in sent'[draft[s][d]])
  <2>1. CASE latest[d] \notin Large
    BY <1>2, <1>5, <1>6, <1>7, <2>1, SendsGrows
  <2>2. CASE latest[d] \in Large
    BY <1>5, <2>2, SameGoes
  <2> QED BY <2>1, <2>2
<1>9. EndsGo
  <2>1. ASSUME NEW r \in Sessions, NEW x \in Devices PROVE EndGoes(r, x)
    <3>1. CASE r = s /\ x = d
      BY <1>3, <1>4, <1>6, <1>8, <3>1 DEF EndGoes
    <3>2. CASE r # s \/ x # d
      BY <1>3, <1>4, <3>2 DEF EndGoes
    <3> QED BY <3>1, <3>2
  <2> QED BY <2>1 DEF EndsGo
<1>10. LinksGo
  <2>1. ASSUME NEW r \in Sessions, NEW x \in Devices, NEW v \in Range(link'[r][x])
        PROVE  v \in Range(link[r][x]) \/ (r = s /\ x = d /\ latest[d] \notin Large \cup {None} /\ v = u)
    <3>1. CASE r # s \/ x # d \/ latest[d] = None \/ latest[d] \in Large
      <4>1. link'[r][x] = link[r][x]
        <5>1. CASE latest[d] \in Large
          BY <1>5, <5>1
        <5>2. CASE latest[d] \notin Large
          BY <1>2, <1>5, <3>1, <5>2 DEF TypeOK
        <5> QED BY <5>1, <5>2
      <4> QED BY <2>1, <4>1
    <3>2. CASE r = s /\ x = d /\ latest[d] \notin Large \cup {None}
      <4>1. link'[r][x] = <<u>> \o link[s][d]
        BY <1>2, <1>5, <3>2 DEF TypeOK
      <4>2. Range(link'[r][x]) = {u} \cup Range(link[s][d])
        BY <1>5, <1>7, <3>2, <4>1, RangeOfFront
      <4> QED BY <2>1, <3>2, <4>2
    <3> QED BY <3>1, <3>2
  <2> QED BY <1>3, <1>7, <1>8, <2>1 DEF LinksGo
<1> QED BY <1>1, <1>8, <1>9, <1>10, SameGoes DEF Goes

LEMMA SendInitialFailsGoes ==
  ASSUME IInv, NEW s \in Sessions, NEW d \in Ends[s], SendInitialFails(s, d)
  PROVE  Goes
<1>1. UNCHANGED <<last, latest, inbox, doing, link, peers, sent>>
  BY DEF SendInitialFails, daemon, state
<1>2. d \in Devices /\ TypeOK
  BY PeerIsDevice DEF IInv
<1>3. /\ phase[s][d] = "greeting" /\ phase'[s][d] = "broken" /\ draft'[s][d] = 0
      /\ \A r \in Sessions, e \in Devices : r # s \/ e # d =>
           phase'[r][e] = phase[r][e] /\ draft'[r][e] = draft[r][e]
  BY <1>2 DEF SendInitialFails, Enters, TypeOK
<1>4. ASSUME NEW r \in Sessions, NEW x \in Devices PROVE EndGoes(r, x)
  <2>1. CASE r = s /\ x = d
    BY <1>3, <2>1 DEF EndGoes
  <2>2. CASE r # s \/ x # d
    BY <1>3, <2>2 DEF EndGoes
  <2> QED BY <2>1, <2>2
<1>5. EndsGo
  BY <1>4 DEF EndsGo
<1> QED BY <1>1, <1>5, SameGoes DEF Goes

LEMMA ReceiveGoes ==
  ASSUME IInv, NEW s \in Sessions, NEW d \in Ends[s], Receive(s, d)
  PROVE  Goes
<1> DEFINE e == Peer(s, d)
           u == Head(link[s][e])
           m == [kind |-> "set", content |-> u.content, time |-> u.time]
<1>1. UNCHANGED <<last, latest, doing, phase, draft, peers, sent>>
  BY DEF Receive, state
<1>2. d \in Devices /\ e \in Devices
  BY PeerIsDevice
<1>3. /\ link[s][e] \in Seq(Update) /\ link[s][e] # <<>>
      /\ link' = [link EXCEPT ![s][e] = Tail(link[s][e])]
      /\ inbox' = [inbox EXCEPT ![d] = Append(inbox[d], m)]
  <2>1. Written(s, e, 1)
    BY DEF Receive
  <2>2. link[s][e] # <<>>
    BY <1>2, <2>1, WrittenIsThere DEF IInv
  <2> QED BY <1>2, <2>2 DEF Receive, Deliver, IInv, TypeOK
<1> HIDE DEF e
<1>4. u \in Update /\ Range(link[s][e]) = {u} \cup Range(Tail(link[s][e]))
  BY <1>3, HeadAndTail, RangeOfTail
<1> HIDE DEF u
<1>5. m \in Message /\ m.kind = "set" /\ m.content = u.content /\ m.time = u.time
  BY <1>4 DEF Message, Update
<1> HIDE DEF m
<1>6. Range(Append(inbox[d], m)) = Range(inbox[d]) \cup {m}
  BY <1>2, <1>5, Kinds, RangeOfAppend DEF IInv
<1>7. InboxGoes
  <2>1. ASSUME NEW x \in Devices, NEW n \in Range(inbox'[x]) PROVE n \in Range(inbox[x]) \/ n = m
    BY <1>2, <1>3, <1>6, <2>1 DEF IInv, TypeOK
  <2>2. u \in Range(link[s][e])
    BY <1>4
  <2> QED BY <1>2, <1>5, <2>1, <2>2 DEF InboxGoes
<1>8. LinksGo
  <2>1. \A r \in Sessions, x \in Devices : Range(link'[r][x]) \subseteq Range(link[r][x])
    BY <1>2, <1>3, <1>4 DEF IInv, TypeOK
  <2> QED BY <2>1 DEF LinksGo
<1> QED BY <1>1, <1>7, <1>8, SameGoes DEF Goes

LEMMA EndedGoes ==
  ASSUME IInv, NEW s \in Sessions, NEW d \in Ends[s], NEW n \in 0..Len(link[s][d]), Ended(s, d, n),
         UNCHANGED <<last, latest, inbox, doing, draft, sent>>,
         \A e, f \in Devices : peers'[e][f] \in Sessions => peers'[e][f] = peers[e][f]
  PROVE  Goes
<1>1. d \in Devices
  BY PeerIsDevice
<1>2. EndsGo
  <2>1. /\ phase'[s][d] = "closed"
        /\ \A r \in Sessions, e \in Devices : r # s \/ e # d => phase'[r][e] = phase[r][e]
    BY <1>1 DEF Ended, Enters, IInv, TypeOK
  <2> QED BY <2>1 DEF EndsGo, EndGoes
<1>3. LinksGo
  <2>1. link[s][d] \in Seq(Update)
    BY <1>1, Kinds DEF IInv
  <2>2. Range(SubSeq(link[s][d], 1, n)) \subseteq Range(link[s][d])
    BY <2>1, RangeOfPrefix
  <2>3. \A x \in Devices : link'[s][x] = IF x = d THEN SubSeq(link[s][d], 1, n) ELSE <<>>
    BY DEF Ended, IInv, TypeOK
  <2>4. \A r \in Sessions : r # s => link'[r] = link[r]
    BY DEF Ended, IInv, TypeOK
  <2>5. \A r \in Sessions, x \in Devices : Range(link'[r][x]) \subseteq Range(link[r][x])
    BY <2>2, <2>3, <2>4, RangeOfEmpty
  <2> QED BY <2>5 DEF LinksGo
<1>4. MapsGo
  BY DEF MapsGo
<1> QED BY <1>2, <1>3, <1>4, SameGoes DEF Goes

LEMMA remove_peerGoes ==
  ASSUME IInv, NEW s \in Sessions, NEW d \in Ends[s], NEW n, remove_peer(s, d, n)
  PROVE  Goes
<1>1. d \in Devices /\ Peer(s, d) \in Devices
  BY PeerIsDevice
<1>2. \A e, f \in Devices : peers'[e][f] \in Sessions => peers'[e][f] = peers[e][f]
  BY <1>1, ConstantsAssumption DEF remove_peer, IInv, TypeOK
<1>3. /\ n \in 0..Len(link[s][d]) /\ Ended(s, d, n)
      /\ UNCHANGED <<last, latest, inbox, doing, draft, sent>>
  BY DEF remove_peer, Written, daemon, state
<1> QED BY <1>2, <1>3, EndedGoes

LEMMA LeaveInMapGoes ==
  ASSUME IInv, NEW s \in Sessions, NEW d \in Ends[s], NEW n, LeaveInMap(s, d, n)
  PROVE  Goes
<1>1. d \in Devices
  BY PeerIsDevice
<1>2. \A e, f \in Devices : peers'[e][f] \in Sessions => peers'[e][f] = peers[e][f]
  BY <1>1, ConstantsAssumption DEF LeaveInMap, IInv, TypeOK
<1>3. /\ n \in 0..Len(link[s][d]) /\ Ended(s, d, n)
      /\ UNCHANGED <<last, latest, inbox, doing, draft, sent>>
  BY DEF LeaveInMap, Written, daemon, state
<1> QED BY <1>2, <1>3, EndedGoes

LEMMA JoinFailsGoes ==
  ASSUME IInv, NEW s \in Sessions, NEW d \in Ends[s], JoinFails(s, d)
  PROVE  Goes
<1>1. d \in Devices
  BY PeerIsDevice
<1>2. Ended(s, d, 0) /\ UNCHANGED <<last, latest, inbox, doing, draft, peers, sent>>
  BY DEF JoinFails, daemon, state
<1>3. Len(link[s][d]) \in Nat
  BY <1>1, Kinds DEF IInv
<1>4. 0 \in 0..Len(link[s][d])
  BY <1>3
<1> QED BY <1>2, <1>4, EndedGoes

\* A device that starts is in no session.
LEMMA RestartGoes ==
  ASSUME IInv, EndsMeet, everMarked' = {}, NEW d \in Devices, NEW wrote \in BOOLEAN, Restart(d, wrote)
  PROVE  Goes
<1> DEFINE mine(r) == d \in Ends[r] /\ phase[r][d] # "none"
<1>1. /\ UNCHANGED <<latest, everMarked, sent>> /\ last' = [last EXCEPT ![d] = stamp[d]]
      /\ inbox' = [inbox EXCEPT ![d] = <<>>] /\ doing' = [doing EXCEPT ![d] = Idle]
      /\ peers' = [peers EXCEPT ![d] = [e \in Devices |-> None]]
  BY DEF Restart, state
<1>2. last' = last
  BY <1>1 DEF IInv, TypeOK, StampIsClaimed
<1>3. \A r \in Sessions : mine(r) =>
        /\ phase'[r][d] = "closed" /\ draft'[r][d] = 0
        /\ \A x \in Devices : /\ link'[r][x] \in {link[r][x], <<>>}
                              /\ x # d => phase'[r][x] = phase[r][x] /\ draft'[r][x] = draft[r][x]
  BY DEF Restart, IInv, TypeOK
<1>4. \A r \in Sessions : ~mine(r) => phase'[r] = phase[r] /\ link'[r] = link[r] /\ draft'[r] = draft[r]
  BY DEF Restart, IInv, TypeOK
<1> HIDE DEF mine
<1>5. \A r \in Sessions : phase'[r][d] \in {"none", "closed"}
  <2>1. \A r \in Sessions : mine(r) => phase'[r][d] = "closed"
    BY <1>3
  <2>2. \A r \in Sessions : ~mine(r) => phase'[r][d] = "none"
    BY <1>4 DEF EndsMeet, mine
  <2> QED BY <2>1, <2>2
<1>6. InboxGoes
  BY <1>1, RangeOfEmpty DEF InboxGoes, IInv, TypeOK
<1>7. LinksGo
  <2>1. \A r \in Sessions, x \in Devices : Range(link'[r][x]) \subseteq Range(link[r][x])
    BY <1>3, <1>4, RangeOfEmpty
  <2> QED BY <2>1 DEF LinksGo
<1>8. DaemonGoes
  <2>1. DaemonRests(d)
    BY <1>1, <1>2, <1>5 DEF DaemonRests, IInv, TypeOK
  <2>2. \A x \in Devices \ {d} : DaemonRests(x)
    BY <1>1, <1>2 DEF DaemonRests, IInv, TypeOK
  <2> QED BY <2>1, <2>2 DEF DaemonGoes
<1>9. EndsGo
  <2>1. ASSUME NEW r \in Sessions, NEW x \in Devices PROVE EndGoes(r, x)
    <3>1. CASE mine(r) /\ x = d
      BY <1>3, <3>1 DEF EndGoes, mine
    <3>2. CASE ~mine(r) \/ x # d
      <4>1. phase'[r][x] = phase[r][x] /\ draft'[r][x] = draft[r][x]
        BY <1>3, <1>4, <3>2
      <4> QED BY <4>1 DEF EndGoes
    <3> QED BY <3>1, <3>2
  <2> QED BY <2>1 DEF EndsGo
<1>10. MapsGo
  BY <1>1, ConstantsAssumption DEF MapsGo, IInv, TypeOK
<1> QED BY <1>1, <1>6, <1>7, <1>8, <1>9, <1>10, SameGoes DEF Goes

LEMMA NextGoes ==
  ASSUME IInv, EndsMeet, Undisturbed', Next
  PROVE  Goes
<1>1. PICK d \in Devices :
        \/ Take(d) \/ StoreContent(d) \/ Announce(d)
        \/ \E wrote \in BOOLEAN : Restart(d, wrote)
        \/ \E c \in Contents, y \in Times : Report(d, c, y)
        \/ \E s \in Sessions :
             /\ d \in Ends[s]
             /\ \/ Connect(s, d) \/ add_peer(s, d) \/ SendInitial(s, d)
                \/ SendInitialFails(s, d) \/ Receive(s, d) \/ JoinFails(s, d)
                \/ \E n \in 0..Len(link[s][d]) : remove_peer(s, d, n) \/ LeaveInMap(s, d, n)
  BY CalmStep
<1>6. everMarked' = {}
  BY DEF Undisturbed
<1>2. CASE Take(d) \/ StoreContent(d) \/ Announce(d)
  BY <1>2, TakeGoes, StoreContentGoes, AnnounceGoes
<1>3. CASE \E wrote \in BOOLEAN : Restart(d, wrote)
  BY <1>3, <1>6, RestartGoes
<1>4. CASE \E c \in Contents, y \in Times : Report(d, c, y)
  BY <1>4, ReportGoes
<1>5. ASSUME NEW s \in Sessions, d \in Ends[s],
             \/ Connect(s, d) \/ add_peer(s, d) \/ SendInitial(s, d)
             \/ SendInitialFails(s, d) \/ Receive(s, d) \/ JoinFails(s, d)
             \/ \E n \in 0..Len(link[s][d]) : remove_peer(s, d, n) \/ LeaveInMap(s, d, n)
      PROVE  Goes
  BY <1>5, <1>6, ConnectGoes, add_peerGoes, SendInitialGoes, SendInitialFailsGoes, ReceiveGoes, JoinFailsGoes,
     remove_peerGoes, LeaveInMapGoes
<1> QED BY <1>1, <1>2, <1>3, <1>4, <1>5

-----------------------------------------------------------------------------
(* The steps keep what Agreement needs.                                    *)

\* What a device has that goes on to another update, another device has as well.
LEMMA SpreadGoes ==
  ASSUME IInv, IInv', EndsMeet, Undisturbed', Next, Calm, NEW t \in Times, Spread(t)
  PROVE  Spread(t)'
<1>1. PICK w \in Devices : Spreads(w, t)
  BY DEF Spread
<1>2. ClaimsHold /\ UnderWaySpread /\ Undisturbed
  BY CalmStep DEF Calm
<1>3. CASE ~Replaces(w)
  BY <1>1, <1>2, <1>3, NextSpreads DEF Spread
<1>4. CASE Replaces(w)
  <2> DEFINE m == Head(inbox[w])
  <2>1. inbox[w] \in Seq(Message) /\ inbox[w] # <<>>
    BY <1>4, Kinds DEF Replaces, Take, IInv
  <2>2. m \in Message /\ m \in Range(inbox[w])
    BY <2>1, HeadAndTail, RangeOfTail
  <2>3. m.kind = "set" /\ m.time > last[w] /\ Take(w)
    BY <1>4 DEF Replaces, Accepts, claim_newer_timestamp
  <2> HIDE DEF m
  <2>4. PICK x \in Devices : Spreads(x, m.time)
    BY <1>2, <2>2, <2>3 DEF UnderWaySpread, Spread
  <2>5. m.time \in Times /\ m.time \in Nat /\ t \in Nat /\ last[w] \in Nat /\ last[x] \in Nat
    BY <2>2, UpdateIs, Kinds DEF IInv
  <2>6. last[w] >= t /\ last[x] >= m.time
    BY <1>1, <2>4 DEF Spreads
  <2>7. x # w /\ t <= m.time
    BY <2>3, <2>5, <2>6
  <2>8. Spreads(x, t)
    BY <2>4, <2>5, <2>7, SpreadsLess DEF IInv
  <2>9. Spreads(x, t)'
    <3>1. CASE ~Replaces(x)
      BY <1>2, <2>8, <3>1, NextSpreads
    <3>2. CASE Replaces(x)
      <4>1. inbox' = [inbox EXCEPT ![x] = Tail(inbox[x])] /\ inbox' = [inbox EXCEPT ![w] = Tail(inbox[w])]
        BY <2>3, <3>2 DEF Replaces, Take
      <4>2. inbox'[w] = inbox[w] /\ inbox'[w] = Tail(inbox[w])
        BY <2>7, <4>1 DEF IInv, TypeOK
      <4>3. Len(Tail(inbox[w])) = Len(inbox[w]) - 1 /\ Len(inbox[w]) \in Nat
        BY <2>1, HeadTailProperties
      <4>4. Len(inbox[w]) = Len(inbox[w]) - 1
        BY <4>2, <4>3, Zenon
      <4> QED BY <4>3, <4>4
    <3> QED BY <3>1, <3>2
  <2> QED BY <2>9 DEF Spread
<1> QED BY <1>3, <1>4

\* Where the times are.
Timed(d) ==
  /\ last[d] \in Nat /\ (last[d] > 0 => last[d] \in Times)
  /\ \A s \in Sessions : /\ draft[s][d] > 0 => draft[s][d] \in Times
                         /\ \A u \in Range(link[s][d]) : u.time \in Times
  /\ \A m \in Range(inbox[d]) : m.time \in Times /\ m.content \in Contents
  /\ doing[d] # Idle => doing[d].msg.time \in Times /\ doing[d].msg.content \in Contents

LEMMA TimesAre ==
  ASSUME TypeOK, NEW d \in Devices
  PROVE  Timed(d)
<1>1. last[d] \in 0..MaxTime /\ \A s \in Sessions : draft[s][d] \in 0..MaxTime
  BY DEF TypeOK
<1>2. \A s \in Sessions : \A u \in Range(link[s][d]) : u.time \in Times
  BY Kinds, UpdateIs
<1>3. \A m \in Range(inbox[d]) : m.time \in Times /\ m.content \in Contents
  BY Kinds, UpdateIs
<1>4. last[d] \in Nat /\ (doing[d] # Idle => doing[d].msg.time \in Times /\ doing[d].msg.content \in Contents)
  BY Kinds
<1> QED BY <1>1, <1>2, <1>3, <1>4, ConstantsAssumption DEF Times, Timed

LEMMA NextTimesAre ==
  ASSUME NEW d \in Devices
  PROVE  TypeOK' => Timed(d)'
<1>1. TypeOK => Timed(d)
  BY TimesAre
<1> QED BY <1>1, PTL

LEMMA ContentsSentGoes ==
  ASSUME IInv, IInv', Calm, Goes
  PROVE  ContentsSent'
<1>1. SentGrows /\ ContentsSent
  BY DEF Goes, Calm
<1>2. ASSUME NEW s \in Sessions, NEW d \in Devices, NEW u \in Range(link'[s][d])
      PROVE  u.content \in sent'[u.time]
  <2>1. u.time \in Times
    BY NextTimesAre DEF IInv, Timed
  <2>2. CASE u \in Range(link[s][d])
    BY <1>1, <2>1, <2>2 DEF ContentsSent, SentGrows
  <2>3. CASE At(d, "announcing") /\ u = UpdateAt(doing[d])
    <3>1. doing[d] # Idle /\ u.content = doing[d].msg.content /\ u.time = doing[d].msg.time
      BY <2>3 DEF At, Idle, UpdateAt
    <3> QED BY <1>1, <2>1, <3>1 DEF ContentsSent, SentGrows
  <2> QED BY <2>2, <2>3 DEF Goes, LinksGo
<1>3. ASSUME NEW d \in Devices, NEW m \in Range(inbox'[d])
      PROVE  m.content \in sent'[m.time]
  <2>1. m.time \in Times
    BY NextTimesAre DEF IInv, Timed
  <2> QED BY <1>1, <2>1 DEF ContentsSent, SentGrows, Goes, InboxGoes
<1>4. ASSUME NEW d \in Devices, doing'[d] # Idle
      PROVE  doing'[d].msg.content \in sent'[doing'[d].msg.time]
  <2>1. doing'[d].msg.time \in Times
    BY <1>4, NextTimesAre DEF IInv, Timed
  <2>2. CASE doing'[d] = doing[d]
    BY <1>1, <1>4, <2>1, <2>2 DEF ContentsSent, SentGrows
  <2>3. CASE \E m \in Range(inbox[d]) : doing'[d] = [at |-> "storing", msg |-> m]
    BY <1>1, <2>1, <2>3 DEF ContentsSent, SentGrows
  <2>4. CASE At(d, "storing") /\ doing'[d] = [at |-> "announcing", msg |-> doing[d].msg]
    <3>1. doing[d] # Idle /\ doing'[d].msg = doing[d].msg
      BY <2>4 DEF At, Idle
    <3> QED BY <1>1, <2>1, <3>1 DEF ContentsSent, SentGrows
  <2> QED BY <1>4, <2>2, <2>3, <2>4 DEF Goes, DaemonGoes, DaemonRests, DaemonClaims, DaemonStores
<1> QED BY <1>2, <1>3, <1>4 DEF ContentsSent

\* What the daemon does in a step, with what it was at.
LEMMA DaemonSteps ==
  ASSUME IInv, Calm, Goes, NEW d \in Devices
  PROVE  \/ DaemonRests(d)
         \/ /\ doing[d] = Idle /\ latest'[d] = latest[d]
            /\ \E m \in Message : /\ m \in Range(inbox[d]) /\ last'[d] = m.time
                                  /\ doing'[d] = [at |-> "storing", msg |-> m]
         \/ /\ doing[d] # Idle /\ At(d, "storing") /\ last'[d] = last[d] /\ last[d] \in Times
            /\ last[d] = doing[d].msg.time
            /\ latest'[d] = doing[d].msg.content /\ latest'[d] \in Contents
            /\ latest'[d] \in sent[last[d]]
            /\ \/ doing'[d] = Idle /\ doing[d].msg.kind = "set"
               \/ doing'[d] = [at |-> "announcing", msg |-> doing[d].msg] /\ doing[d].msg.kind = "changed"
<1>1. CASE DaemonRests(d)
  BY <1>1
<1>2. CASE DaemonClaims(d)
  <2>1. Range(inbox[d]) \subseteq Message
    BY Kinds DEF IInv
  <2> QED BY <1>2, <2>1 DEF DaemonClaims
<1>3. CASE DaemonStores(d)
  <2>1. doing[d] # Idle
    BY <1>3 DEF DaemonStores, At, Idle
  <2>2. doing[d].msg.time \in Times /\ doing[d].msg.content \in Contents
    BY <2>1, Kinds DEF IInv
  <2>3. last[d] = doing[d].msg.time
    BY <2>1 DEF Calm, ClaimsHold
  <2>4. doing[d].msg.content \in sent[last[d]]
    BY <2>1, <2>3 DEF Calm, ContentsSent
  <2> QED BY <1>3, <2>1, <2>2, <2>3, <2>4 DEF DaemonStores
<1> QED BY <1>1, <1>2, <1>3 DEF Goes, DaemonGoes

LEMMA ClaimsHoldGoes ==
  ASSUME IInv, IInv', Calm, Goes, \A d \in Devices : last'[d] >= last[d]
  PROVE  ClaimsHold'
<1>1. SentGrows /\ ClaimsHold
  BY DEF Goes, Calm
<1>2. ASSUME NEW d \in Devices
      PROVE  /\ doing'[d] # Idle => last'[d] = doing'[d].msg.time
             /\ At(d, "announcing")' => latest'[d] # None /\ doing'[d].msg.kind = "changed"
             /\ last'[d] = 0 => latest'[d] = None
             /\ last'[d] > 0 => sent'[last'[d]] \cap Contents # {}
  <2>1. last'[d] > 0 => last'[d] \in Times
    BY NextTimesAre DEF IInv, Timed
  <2>2. CASE DaemonRests(d)
    BY <1>1, <2>1, <2>2 DEF DaemonRests, ClaimsHold, SentGrows, At, Idle
  <2>3. ASSUME latest'[d] = latest[d], NEW m \in Message, m \in Range(inbox[d]), last'[d] = m.time,
               doing'[d] = [at |-> "storing", msg |-> m]
        PROVE  /\ doing'[d] # Idle => last'[d] = doing'[d].msg.time
               /\ At(d, "announcing")' => latest'[d] # None /\ doing'[d].msg.kind = "changed"
               /\ last'[d] = 0 => latest'[d] = None
               /\ last'[d] > 0 => sent'[last'[d]] \cap Contents # {}
    <3>1. m.time \in Times /\ m.time > 0 /\ m.content \in Contents
      BY UpdateIs
    <3>2. m.content \in sent'[m.time]
      BY <1>1, <2>3, <3>1 DEF Calm, ContentsSent, SentGrows
    <3> QED BY <2>3, <3>1, <3>2 DEF At
  <2>4. CASE /\ doing[d] # Idle /\ At(d, "storing") /\ last'[d] = last[d] /\ last[d] \in Times
             /\ last[d] = doing[d].msg.time
             /\ latest'[d] = doing[d].msg.content /\ latest'[d] \in Contents
             /\ latest'[d] \in sent[last[d]]
             /\ \/ doing'[d] = Idle /\ doing[d].msg.kind = "set"
                \/ doing'[d] = [at |-> "announcing", msg |-> doing[d].msg] /\ doing[d].msg.kind = "changed"
    <3>1. latest'[d] \in sent'[last'[d]] /\ latest'[d] # None /\ last'[d] > 0
      BY <1>1, <2>4, UpdateIs, ConstantsAssumption DEF SentGrows
    <3> QED BY <2>4, <3>1 DEF At, Idle
  <2> QED BY <2>2, <2>3, <2>4, DaemonSteps
<1>3. ASSUME NEW d \in Devices, NEW s \in Sessions PROVE draft'[s][d] <= last'[d]
  <2>1. draft'[s][d] \in {draft[s][d], 0, last[d]}
    BY DEF Goes, EndsGo, EndGoes
  <2>2. last[d] \in Nat /\ draft[s][d] \in Nat /\ last'[d] \in Nat
    BY Kinds, NextTimesAre DEF IInv, Timed
  <2>3. draft[s][d] <= last[d]
    BY <1>1 DEF ClaimsHold
  <2> QED BY <2>1, <2>2, <2>3
<1> QED BY <1>2, <1>3 DEF ClaimsHold

LEMMA ContentsHeldGoes ==
  ASSUME IInv, IInv', Calm, Goes
  PROVE  ContentsHeld'
<1>1. SentGrows
  BY DEF Goes
<1>2. ASSUME NEW d \in Devices, last'[d] > 0 PROVE ContentHeld(d)'
  <2>1. last'[d] \in Times
    BY <1>2, NextTimesAre DEF IInv, Timed
  <2>2. CASE DaemonRests(d)
    <3>1. last'[d] = last[d] /\ latest'[d] = latest[d] /\ last[d] \in Times /\ last[d] > 0
      BY <1>2, <2>1, <2>2 DEF DaemonRests
    <3>2. ContentHeld(d)
      BY <3>1 DEF Calm, ContentsHeld
    <3>3. CASE doing'[d] = Idle /\ \A s \in Sessions : phase'[s][d] \notin {"greeting", "open"}
      BY <3>3 DEF ContentHeld
    <3>4. CASE At(d, "storing") /\ doing'[d] = doing[d]
      BY <3>4 DEF ContentHeld, At
    <3>7. CASE latest[d] \in Large
      BY <3>1, <3>7 DEF ContentHeld
    <3>5. CASE latest[d] \in sent[last[d]]
      BY <1>1, <3>1, <3>5 DEF ContentHeld, SentGrows
    <3>6. CASE \A s \in Sessions : phase[s][d] # "open" /\ (phase[s][d] = "greeting" => draft[s][d] = last[d])
      <4>1. CASE latest[d] \in sent'[last[d]]
        BY <3>1, <4>1 DEF ContentHeld
      <4>2. ASSUME latest[d] \notin sent'[last[d]], latest[d] \notin Large, NEW s \in Sessions
            PROVE  phase'[s][d] # "open" /\ (phase'[s][d] = "greeting" => draft'[s][d] = last'[d])
        BY <3>1, <3>6, <4>2 DEF Goes, EndsGo, EndGoes
      <4> QED BY <3>7, <4>1, <4>2 DEF ContentHeld
    <3> QED BY <2>2, <3>2, <3>3, <3>4, <3>5, <3>6, <3>7 DEF ContentHeld, DaemonRests, At
  <2>3. CASE \E m \in Message : doing'[d] = [at |-> "storing", msg |-> m]
    BY <2>3 DEF ContentHeld, At
  <2>4. CASE last'[d] = last[d] /\ last[d] \in Times /\ latest'[d] \in sent[last[d]]
    BY <1>1, <2>4 DEF ContentHeld, SentGrows
  <2> QED BY <2>2, <2>3, <2>4, DaemonSteps
<1> QED BY <1>2 DEF ContentsHeld

LEMMA EndsMeetGoes ==
  ASSUME EndsMeet, Goes
  PROVE  EndsMeet'
  BY DEF EndsMeet, Goes, MapsGo, EndsGo, EndGoes

LEMMA SentFiniteGoes ==
  ASSUME SentFinite, Goes
  PROVE  SentFinite'
<1>1. ASSUME NEW t \in Times PROVE IsFiniteSet(sent'[t])
  <2>1. PICK x : sent'[t] \subseteq sent[t] \cup {x}
    BY DEF Goes, SentGrows
  <2>2. IsFiniteSet(sent[t] \cup {x})
    BY FS_AddElement DEF SentFinite
  <2> QED BY <2>1, <2>2, FS_Subset
<1> QED BY <1>1 DEF SentFinite

LEMMA UnderWaySpreadGoes ==
  ASSUME IInv, IInv', EndsMeet, Undisturbed', Next, Calm, Goes
  PROVE  UnderWaySpread'
<1>1. UnderWaySpread /\ HeldSpread /\ ClaimsHold
  BY DEF Calm
\* A device that holds a content knows that what it claimed gets to all.
<1>2. ASSUME NEW d \in Devices, latest[d] # None, NEW t \in Times, t <= last[d] PROVE Spread(t)
  <2>1. last[d] \in Nat /\ t \in Nat /\ t > 0
    BY Kinds, UpdateIs DEF IInv
  <2>2. last[d] > 0 /\ last[d] \in Times
    BY <1>2, <2>1, TimesAre DEF IInv, Timed
  <2>3. Spread(last[d])
    BY <1>1, <1>2, <2>2 DEF HeldSpread, Blank
  <2> QED BY <1>2, <2>2, <2>3, SpreadLess DEF IInv
<1>3. ASSUME NEW s \in Sessions, NEW d \in Devices, NEW u \in Range(link'[s][d])
      PROVE  Spread(u.time)'
  <2>1. u.time \in Times
    BY NextTimesAre DEF IInv, Timed
  <2>2. Spread(u.time)
    <3>1. CASE u \in Range(link[s][d])
      BY <1>1, <3>1 DEF UnderWaySpread
    <3>2. CASE At(d, "announcing") /\ u = UpdateAt(doing[d])
      <4>1. doing[d] # Idle /\ u.time = doing[d].msg.time
        BY <3>2 DEF At, Idle, UpdateAt
      <4>2. latest[d] # None /\ last[d] = u.time
        BY <1>1, <3>2, <4>1 DEF ClaimsHold
      <4>3. u.time <= last[d]
        BY <2>1, <4>2, UpdateIs
      <4> QED BY <1>2, <2>1, <4>2, <4>3
    <3>3. CASE latest[d] # None /\ u.time = draft[s][d]
      BY <1>1, <1>2, <2>1, <3>3 DEF ClaimsHold
    <3> QED BY <3>1, <3>2, <3>3 DEF Goes, LinksGo
  <2> QED BY <2>1, <2>2, SpreadGoes
<1>4. ASSUME NEW d \in Devices, NEW m \in Range(inbox'[d]), m.kind = "set"
      PROVE  Spread(m.time)'
  <2>1. m.time \in Times
    BY NextTimesAre DEF IInv, Timed
  <2>2. Spread(m.time)
    BY <1>1, <1>4 DEF UnderWaySpread, Goes, InboxGoes
  <2> QED BY <2>1, <2>2, SpreadGoes
<1>5. ASSUME NEW d \in Devices, NEW m, doing'[d] # Idle, doing'[d].msg = m, m.kind = "set"
      PROVE  Spread(m.time)'
  <2>1. m.time \in Times
    BY <1>5, NextTimesAre DEF IInv, Timed
  <2>2. Spread(m.time)
    <3>1. CASE doing'[d] = doing[d]
      BY <1>1, <1>5, <3>1 DEF UnderWaySpread
    <3>2. CASE \E n \in Range(inbox[d]) : doing'[d] = [at |-> "storing", msg |-> n]
      BY <1>1, <1>5, <3>2 DEF UnderWaySpread
    <3>3. CASE doing'[d] = [at |-> "announcing", msg |-> doing[d].msg] /\ doing[d].msg.kind = "changed"
      BY <1>5, <3>3
    <3> QED BY <1>5, <3>1, <3>2, <3>3 DEF Goes, DaemonGoes, DaemonRests, DaemonClaims, DaemonStores
  <2> QED BY <2>1, <2>2, SpreadGoes
<1> QED BY <1>3, <1>4, <1>5 DEF UnderWaySpread

\* A device that has a new update of its own gives it to all it is linked with.
LEMMA OwnSpreads ==
  ASSUME NEW d \in Devices, NEW t, last'[d] >= t, latest'[d] # None,
         doing'[d] # Idle, doing'[d].msg.kind = "changed", doing'[d].msg.time >= t
  PROVE  Spread(t)'
<1>1. latest'[d] \in Large => Keeps(d)'
  BY DEF Keeps
<1>2. AllGet(d, t)'
  BY DEF AllGet, Gets
<1>3. Spreads(d, t)'
  BY <1>1, <1>2 DEF Spreads
<1> QED BY <1>3 DEF Spread

LEMMA HeldSpreadGoes ==
  ASSUME IInv, IInv', EndsMeet, Undisturbed', Next, Calm, Goes
  PROVE  HeldSpread'
<1>1. UnderWaySpread /\ HeldSpread /\ ClaimsHold
  BY DEF Calm
<1>2. ASSUME NEW d \in Devices, NEW t \in Times, t = last'[d] PROVE Spread(t)' \/ Blank(d)'
  <2>1. t \in Nat /\ t >= t /\ t > 0
    BY UpdateIs
  <2>2. ASSUME last[d] = t PROVE Spread(t)' \/ Blank(d)
    <3>1. Spread(t) \/ Blank(d)
      BY <1>1, <2>1, <2>2 DEF HeldSpread
    <3> QED BY <3>1, SpreadGoes
  <2>3. CASE DaemonRests(d)
    <3>1. Blank(d) => Blank(d)'
      BY <2>3 DEF DaemonRests, Blank, At, Idle
    <3> QED BY <1>2, <2>2, <2>3, <3>1 DEF DaemonRests
  <2>4. ASSUME latest'[d] = latest[d], NEW m \in Message, m \in Range(inbox[d]), t = m.time,
               doing'[d] = [at |-> "storing", msg |-> m]
        PROVE  Spread(t)' \/ Blank(d)'
    <3>1. doing'[d] # Idle /\ doing'[d].msg = m /\ At(d, "storing")'
      BY <2>4 DEF Idle, At
    <3>2. CASE m.kind = "set"
      <4>1. Spread(t)
        BY <1>1, <2>4, <3>2 DEF UnderWaySpread
      <4> QED BY <4>1, SpreadGoes
    <3>3. CASE m.kind = "changed" /\ latest[d] = None
      BY <2>4, <3>1, <3>3 DEF Blank
    <3>4. CASE m.kind = "changed" /\ latest[d] # None
      BY <1>2, <2>1, <2>4, <3>1, <3>4, OwnSpreads
    <3> QED BY <3>2, <3>3, <3>4, UpdateIs
  <2>5. CASE /\ doing[d] # Idle /\ At(d, "storing") /\ last'[d] = last[d]
             /\ last[d] = doing[d].msg.time /\ latest'[d] \in Contents
             /\ \/ doing'[d] = Idle /\ doing[d].msg.kind = "set"
                \/ doing'[d] = [at |-> "announcing", msg |-> doing[d].msg] /\ doing[d].msg.kind = "changed"
    <3>1. CASE ~Blank(d)
      BY <1>2, <2>2, <2>5, <3>1
    <3>2. CASE Blank(d)
      <4>1. doing[d].msg.kind = "changed"
        BY <2>5, <3>2 DEF Blank
      <4>2. doing'[d].at = "announcing" /\ doing'[d].msg = doing[d].msg /\ doing'[d] # Idle
        BY <2>5, <4>1 DEF Idle
      <4> QED BY <1>2, <2>1, <2>5, <4>1, <4>2, ConstantsAssumption, OwnSpreads
    <3> QED BY <3>1, <3>2
  <2> QED BY <1>2, <2>3, <2>4, <2>5, DaemonSteps
<1>3. ASSUME NEW d \in Devices, last'[d] > 0 PROVE last'[d] \in Times
  BY <1>3, NextTimesAre DEF IInv, Timed
<1> QED BY <1>2, <1>3 DEF HeldSpread

LEMMA NextKeepsAgreed ==
  ASSUME AInv, Next
  PROVE  AInv'
<1>1. IInv /\ IInv'
  BY NextKeeps DEF AInv
<1>2. ASSUME Undisturbed' PROVE EndsMeet' /\ SentFinite' /\ Calm'
  <2>1. Undisturbed
    BY <1>1, <1>2, CalmStep
  <2>2. EndsMeet /\ SentFinite /\ Calm
    BY <2>1 DEF AInv
  <2>3. Goes
    BY <1>1, <1>2, <2>2, NextGoes
  <2>4. \A d \in Devices : last'[d] >= last[d]
    BY <1>1, <1>2, LastGrows DEF Undisturbed
  <2>5. UnderWaySpread' /\ HeldSpread'
    BY <1>1, <1>2, <2>2, <2>3, UnderWaySpreadGoes, HeldSpreadGoes
  <2>6. ClaimsHold' /\ ContentsSent' /\ ContentsHeld'
    BY <1>1, <2>2, <2>3, <2>4, ClaimsHoldGoes, ContentsSentGoes, ContentsHeldGoes
  <2> QED BY <2>2, <2>3, <2>5, <2>6, EndsMeetGoes, SentFiniteGoes DEF Calm
<1> QED BY <1>1, <1>2 DEF AInv

LEMMA StutterKeepsAgreed ==
  ASSUME AInv, UNCHANGED vars
  PROVE  AInv'
<1>1. IInv'
  BY StutterKeeps DEF AInv
<1>2. UNCHANGED <<inbox, doing, last, latest, phase, draft, link, peers, locked, sent, everMarked>>
  BY DEF vars, daemon, state, sessions
<1>3. (EndsMeet => EndsMeet') /\ (SentFinite => SentFinite')
  BY <1>2 DEF EndsMeet, SentFinite
<1>4. (UnderWaySpread => UnderWaySpread') /\ (HeldSpread => HeldSpread')
  BY <1>2 DEF UnderWaySpread, HeldSpread, Spread, Spreads, Keeps, AllGet, Gets, Linked, Blank, At
<1>5. (ClaimsHold => ClaimsHold') /\ (ContentsSent => ContentsSent') /\ (ContentsHeld => ContentsHeld')
  BY <1>2 DEF ClaimsHold, ContentsSent, ContentsHeld, ContentHeld, At
<1> QED BY <1>1, <1>2, <1>3, <1>4, <1>5 DEF AInv, Calm, Undisturbed

LEMMA InitAgreed == Init => AInv
<1> SUFFICES ASSUME Init PROVE AInv
  OBVIOUS
<1>1. /\ \A d \in Devices : inbox[d] = <<>> /\ doing[d] = Idle /\ last[d] = 0 /\ latest[d] = None
      /\ \A s \in Sessions, d \in Devices : link[s][d] = <<>> /\ draft[s][d] = 0 /\ phase[s][d] = "none"
      /\ \A d, e \in Devices : peers[d][e] = None
      /\ \A t \in Times : sent[t] = {}
  BY DEF Init
<1>2. EndsMeet /\ SentFinite
  BY <1>1, ConstantsAssumption, FS_EmptySet DEF EndsMeet, SentFinite
<1>3. UnderWaySpread /\ HeldSpread
  BY <1>1, RangeOfEmpty DEF UnderWaySpread, HeldSpread
<1>4. ClaimsHold /\ ContentsSent /\ ContentsHeld
  BY <1>1, RangeOfEmpty DEF ClaimsHold, ContentsSent, ContentsHeld, At, Idle
<1> QED BY <1>2, <1>3, <1>4, InitHolds DEF AInv, Calm

LEMMA AgreedInvariance == Spec => []AInv
<1>1. AInv /\ [Next]_vars => AInv'
  BY NextKeepsAgreed, StutterKeepsAgreed
<1> QED BY <1>1, InitAgreed, PTL DEF Spec

\* Two contents under one time are more than one.
LEMMA TwoAreAmbiguous ==
  ASSUME SentFinite, NEW t \in Times, NEW x \in sent[t], NEW y \in sent[t], ~Ambiguous(t)
  PROVE  x = y
<1> SUFFICES ASSUME x # y PROVE FALSE
  OBVIOUS
<1>1. IsFiniteSet(sent[t]) /\ {x, y} \subseteq sent[t]
  BY DEF SentFinite
<1>2. Cardinality({x, y}) = 2
  <2>1. IsFiniteSet({x}) /\ Cardinality({x}) = 1
    BY FS_Singleton
  <2>2. Cardinality({x} \cup {y}) = Cardinality({x}) + 1
    BY <2>1, FS_AddElement
  <2>3. {x} \cup {y} = {x, y}
    OBVIOUS
  <2> QED BY <2>1, <2>2, <2>3
<1>3. Cardinality({x, y}) <= Cardinality(sent[t])
  BY <1>1, FS_Subset
<1>4. Cardinality(sent[t]) \in Nat
  BY <1>1, FS_CardinalityType
<1> QED BY <1>2, <1>3, <1>4, UpdateIs DEF Ambiguous

\* Of two devices one is as new as the other.
LEMMA QuietAreAsNew ==
  ASSUME IInv, EndsMeet, SentFinite, Calm, Quiet, NEW d \in Devices, NEW e \in Devices,
         ~Ambiguous(last[d]), \A x \in Devices : latest[x] \notin Large
  PROVE  last[e] >= last[d]
<1>1. last[d] \in Nat /\ last[e] \in Nat
  BY Kinds DEF IInv
<1>2. CASE last[d] > 0 /\ Spread(last[d])
  <2>1. PICK w \in Devices : Spreads(w, last[d])
    BY <1>2 DEF Spread
  <2>2. CASE w = e
    BY <2>1, <2>2 DEF Spreads
  <2>3. CASE w # e
    <3>1. PICK s \in Sessions : peers[w][e] = s /\ phase[s][w] = "open" /\ phase[s][e] = "open"
      BY <2>3 DEF Quiet
    <3>2. Gets(w, e, s, last[d])
      BY <2>1, <2>3, <3>1 DEF Spreads, Keeps, AllGet, Linked
    <3> QED BY <3>1, <3>2, RangeOfEmpty DEF Gets, Quiet
  <2> QED BY <2>2, <2>3
<1>3. CASE last[d] > 0 /\ ~Spread(last[d])
  <2>1. latest[d] = None /\ last[d] \in Times
    BY <1>3, TimesAre DEF Calm, HeldSpread, Blank, IInv, Timed
  <2>2. CASE e = d
    BY <1>1, <2>2
  <2>3. CASE e # d
    <3>1. \E s \in Sessions : phase[s][d] = "open"
      BY <2>3 DEF Quiet
    <3>2. ~At(d, "storing")
      BY DEF Quiet, At, Idle
    <3>3. None \in sent[last[d]]
      BY <1>3, <2>1, <3>1, <3>2 DEF Calm, ContentsHeld, ContentHeld
    <3>4. PICK c \in Contents : c \in sent[last[d]]
      BY <1>3 DEF Calm, ClaimsHold
    <3>5. c = None
      BY <2>1, <3>3, <3>4, TwoAreAmbiguous
    <3> QED BY <3>4, <3>5, ConstantsAssumption
  <2> QED BY <2>2, <2>3
<1> QED BY <1>1, <1>2, <1>3

\* Devices that are connected and have nothing under way hold the same, newest
\* update, unless two contents were announced under its time: what the daemon
\* broadcasts and what run_sync_session sends first reach every peer that is in
\* the map, and no update is lost between the two.  Agreement leaves out that a
\* device holds a content that is too long to be sent, for then it keeps it to
\* itself (run_sync_session does not look at the error of its first write), and that
\* an item is local-only or a device locked out.
THEOREM DevicesAgree == Spec => []Agreement
<1>1. ASSUME AInv, Quiet, Undisturbed, \A x \in Devices : latest[x] \notin Large,
             NEW d \in Devices, NEW e \in Devices, ~Ambiguous(last[d]), ~Ambiguous(last[e])
      PROVE  last[d] = last[e] /\ latest[d] = latest[e]
  <2>1. IInv /\ EndsMeet /\ SentFinite /\ Calm
    BY <1>1 DEF AInv
  <2>2. last[d] \in Nat /\ last[e] \in Nat
    BY <2>1, Kinds DEF IInv
  <2>3. last[d] = last[e]
    BY <1>1, <2>1, <2>2, QuietAreAsNew
  <2>4. CASE last[d] = 0
    BY <2>1, <2>3, <2>4 DEF Calm, ClaimsHold
  <2>5. CASE last[d] > 0 /\ d # e
    <3>1. \A x \in {d, e} : \E s \in Sessions : phase[s][x] = "open"
      BY <1>1, <2>5 DEF Quiet
    <3>2. ~At(d, "storing") /\ ~At(e, "storing")
      BY <1>1 DEF Quiet, At, Idle
    <3>3. latest[d] \in sent[last[d]] /\ latest[e] \in sent[last[e]]
      BY <1>1, <2>1, <2>3, <2>5, <3>1, <3>2 DEF Calm, ContentsHeld, ContentHeld
    <3>4. last[d] \in Times
      BY <2>1, <2>5, TimesAre DEF IInv, Timed
    <3> QED BY <1>1, <2>1, <2>3, <3>3, <3>4, TwoAreAmbiguous
  <2> QED BY <2>2, <2>3, <2>4, <2>5
<1>2. AInv => Agreement
  BY <1>1 DEF Agreement
<1> QED BY <1>2, AgreedInvariance, PTL
=============================================================================
