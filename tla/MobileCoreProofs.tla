-------------------------- MODULE MobileCoreProofs --------------------------
(***************************************************************************)
(* Theorems about MobileCore, for any finite number of threads and of      *)
(* scans.  Every call takes its locks in the same order, but for the two   *)
(* that KnownCircularWaits names; what is left of a call is in order for   *)
(* the locks that its thread holds.                                        *)
(***************************************************************************)
EXTENDS MobileCore, SequenceTheorems, FiniteSetTheorems, TLAPS

\* The locks that are held while another is taken.
Kept == {"STORE", "PAIRING_MANAGER", "DISCOVERED", "LIBP2P_MANAGER", "is_scanning", "discovery_thread"}

\* Those of them that are taken while this one is held.
Under(l) ==
  CASE l = "STORE" -> {"PAIRING_MANAGER", "LIBP2P_MANAGER"}
    [] l = "DISCOVERED" -> {"STORE"}
    [] l = "PAIRING_MANAGER" -> {"DISCOVERED"}
    [] l = "is_scanning" -> {"discovery_thread"}
    [] OTHER -> {}

\* What a thread holds is locks, and the right to one more scan.
Held == SUBSET (Locks \cup {"scan"})

\* A thread that holds H may do this.
May(step, H) ==
  /\ step.does \in {"use", "lock", "keep", "halt"} =>
       /\ step.lock \notin H
       /\ step.lock \in Kept => \A h \in H \ {"scan"} : step.lock \in Under(h)
       /\ step.lock = "DISCOVERED" /\ "PAIRING_MANAGER" \in H => step.does = "lock"
       /\ step.lock = "discovery_thread" /\ "is_scanning" \in H => step.does = "keep"
  /\ step.does = "lock" => step.lock \in Kept
  /\ step.does = "unlock" => step.lock \in H
  /\ step.does = "scan" => H = {"is_scanning", "scan"}
  /\ step.does = "join" => H = {"discovery_thread"}
After(H, step) ==
  CASE step.does = "lock"   -> H \cup {step.lock}
    [] step.does = "unlock" -> H \ {step.lock}
    [] step.does = "scan"   -> H \ {"scan"}
    [] OTHER -> H

\* The largest set of ways, each with what is held at its start, of which every step
\* is one that may be done and leads to another of the set.
Closed(R) ==
  \A w \in Seq(Steps), H \in Held : <<w, H>> \in R =>
    /\ w = <<>> => H \subseteq {"scan"}
    /\ w # <<>> => /\ May(Head(w), H) /\ <<Tail(w), After(H, Head(w))>> \in R
                   /\ Head(w).does = "scan" =>
                        Tail(w) # <<>> /\ <<Tail(Tail(w)), After(H, Head(w))>> \in R
InOrder == UNION {R \in SUBSET (Seq(Steps) \X Held) : Closed(R)}

\* A way after which H is held again.
Through(w, H) == w \in Seq(Steps) /\ \A rest \in Seq(Steps) : <<rest, H>> \in InOrder => <<w \o rest, H>> \in InOrder

Owned(t) == {l \in Locks : owner[l] = t}
Holds(t, C) == Owned(t) \cup (IF t \in C THEN {"scan"} ELSE {})

Typed ==
  /\ way \in [Threads -> Seq(Steps)]
  /\ owner \in [Locks -> Threads \cup {None}]
  /\ scanning \in BOOLEAN
  /\ running \subseteq Scanners
  /\ latest \in Scanners /\ handle \in Scanners \cup {None}
KeptAreOwned == \A l \in Locks : owner[l] # None => l \in Kept

\* The calls in C may start a scan, and there is one for each of them.
GoOnInOrder(C) ==
  /\ C # {} => Cardinality(running) + Cardinality(C) < Cardinality(Scanners)
  /\ \A t \in Threads : <<way[t], Holds(t, C)>> \in InOrder

IInv == Typed /\ KeptAreOwned /\ \E C \in SUBSET Callers : GoOnInOrder(C)

-----------------------------------------------------------------------------
(* Ways in order.                                                          *)

LEMMA StepFields ==
  ASSUME NEW step \in Steps
  PROVE  /\ step.does \in {"use", "lock", "unlock", "keep", "halt", "scan", "join"}
         /\ step.does \notin {"scan", "join"} => step.lock \in Locks
  BY DEF Steps

LEMMA HeldAfter ==
  ASSUME NEW H \in Held, NEW step \in Steps
  PROVE  After(H, step) \in Held
  BY StepFields DEF After, Held

LEMMA InOrderIsClosed == InOrder \subseteq Seq(Steps) \X Held /\ Closed(InOrder)
<1>1. InOrder \subseteq Seq(Steps) \X Held
  BY DEF InOrder
<1>2. ASSUME NEW w \in Seq(Steps), NEW H \in Held, <<w, H>> \in InOrder
      PROVE  /\ w = <<>> => H \subseteq {"scan"}
             /\ w # <<>> => /\ May(Head(w), H) /\ <<Tail(w), After(H, Head(w))>> \in InOrder
                            /\ Head(w).does = "scan" =>
                                 Tail(w) # <<>> /\ <<Tail(Tail(w)), After(H, Head(w))>> \in InOrder
  <2>1. PICK R \in SUBSET (Seq(Steps) \X Held) : Closed(R) /\ <<w, H>> \in R
    BY <1>2 DEF InOrder
  <2>2. R \subseteq InOrder
    BY <2>1 DEF InOrder
  <2>3. /\ w = <<>> => H \subseteq {"scan"}
        /\ w # <<>> => /\ May(Head(w), H) /\ <<Tail(w), After(H, Head(w))>> \in R
                       /\ Head(w).does = "scan" =>
                            Tail(w) # <<>> /\ <<Tail(Tail(w)), After(H, Head(w))>> \in R
    BY <2>1 DEF Closed
  <2> QED BY <2>2, <2>3
<1> QED BY <1>1, <1>2 DEF Closed

\* What is left of a way in order.
LEMMA InOrderGoesOn ==
  ASSUME NEW w, NEW H, <<w, H>> \in InOrder
  PROVE  /\ w \in Seq(Steps) /\ H \in Held
         /\ w = <<>> => H \subseteq {"scan"}
         /\ w # <<>> => /\ Head(w) \in Steps /\ May(Head(w), H) /\ <<Tail(w), After(H, Head(w))>> \in InOrder
                        /\ Head(w).does = "scan" =>
                             Tail(w) # <<>> /\ <<Tail(Tail(w)), After(H, Head(w))>> \in InOrder
<1>1. w \in Seq(Steps) /\ H \in Held
  BY InOrderIsClosed
<1>2. w # <<>> => Head(w) \in Steps
  BY <1>1
<1> QED BY <1>1, <1>2, InOrderIsClosed DEF Closed

\* A step before one.
LEMMA InOrderBefore ==
  ASSUME NEW w, NEW H \in Held, NEW step \in Steps, May(step, H), <<w, After(H, step)>> \in InOrder,
         step.does = "scan" => w # <<>> /\ <<Tail(w), After(H, step)>> \in InOrder
  PROVE  <<<<step>> \o w, H>> \in InOrder
<1> DEFINE v == <<step>> \o w
           R == InOrder \cup {<<v, H>>}
<1>1. w \in Seq(Steps)
  BY InOrderIsClosed
<1>2. v \in Seq(Steps) /\ v # <<>> /\ Head(v) = step /\ Tail(v) = w
  BY <1>1
<1> HIDE DEF v
<1>3. R \in SUBSET (Seq(Steps) \X Held)
  BY <1>2, InOrderIsClosed
<1>4. Closed(R)
  <2>1. ASSUME NEW u \in Seq(Steps), NEW G \in Held, <<u, G>> \in R
        PROVE  /\ u = <<>> => G \subseteq {"scan"}
               /\ u # <<>> => /\ May(Head(u), G) /\ <<Tail(u), After(G, Head(u))>> \in R
                              /\ Head(u).does = "scan" =>
                                   Tail(u) # <<>> /\ <<Tail(Tail(u)), After(G, Head(u))>> \in R
    <3>1. CASE <<u, G>> \in InOrder
      BY <3>1, InOrderGoesOn
    <3>2. CASE u = v /\ G = H
      BY <1>2, <3>2
    <3> QED BY <2>1, <3>1, <3>2
  <2> QED BY <2>1 DEF Closed
<1>5. R \subseteq InOrder
  BY <1>3, <1>4 DEF InOrder
<1> QED BY <1>5 DEF v

LEMMA JoinedIsSeq ==
  ASSUME NEW S, NEW v \in Seq(S), NEW w \in Seq(S)
  PROVE  v \o w \in Seq(S)
  OBVIOUS

LEMMA EmptyInOrder == <<<<>>, {}>> \in InOrder
<1> DEFINE R == {<<<<>>, {}>>}
<1>3. <<>> \in Seq(Steps) /\ {} \in Held
  BY DEF Held
<1>4. ASSUME NEW A, NEW B, NEW a \in A, NEW b \in B PROVE {<<a, b>>} \in SUBSET (A \X B)
  OBVIOUS
<1>1. R \in SUBSET (Seq(Steps) \X Held)
  BY <1>3, <1>4
<1>2. Closed(R)
  BY DEF Closed
<1> QED BY <1>1, <1>2 DEF InOrder

LEMMA ThroughAll ==
  ASSUME NEW w, Through(w, {})
  PROVE  <<w, {}>> \in InOrder
<1>1. w \in Seq(Steps) /\ <<>> \in Seq(Steps) /\ w \o <<>> = w
  BY DEF Through
<1> QED BY <1>1, EmptyInOrder DEF Through

LEMMA EmptyThrough == ASSUME NEW H PROVE Through(<<>>, H)
<1>1. <<>> \in Seq(Steps) /\ \A rest \in Seq(Steps) : <<>> \o rest = rest
  OBVIOUS
<1> QED BY <1>1 DEF Through

LEMMA ThenThrough ==
  ASSUME NEW v, NEW w, NEW H, Through(v, H), Through(w, H)
  PROVE  Through(v \o w, H)
<1>1. v \in Seq(Steps) /\ w \in Seq(Steps) /\ v \o w \in Seq(Steps)
  BY DEF Through
<1>2. ASSUME NEW rest \in Seq(Steps), <<rest, H>> \in InOrder PROVE <<(v \o w) \o rest, H>> \in InOrder
  <2>1. w \o rest \in Seq(Steps) /\ <<w \o rest, H>> \in InOrder
    BY <1>1, <1>2, JoinedIsSeq DEF Through
  <2>2. <<v \o (w \o rest), H>> \in InOrder
    BY <2>1 DEF Through
  <2>3. (v \o w) \o rest = v \o (w \o rest)
    BY <1>1, <1>2, ConcatAssociative
  <2> QED BY <2>2, <2>3
<1> QED BY <1>1, <1>2 DEF Through

LEMMA UsesThrough ==
  ASSUME NEW H \in Held, NEW l \in Locks, l \notin H,
         l \in Kept => (\A h \in H \ {"scan"} : l \in Under(h)) /\ "PAIRING_MANAGER" \notin H /\ "is_scanning" \notin H
  PROVE  Through(Uses(l), H)
<1> DEFINE step == [does |-> "use", lock |-> l]
<1>1. step \in Steps /\ step.does = "use" /\ step.lock = l
  BY DEF Steps
<1>2. Uses(l) = <<step>>
  BY DEF Uses
<1> HIDE DEF step
<1>3. May(step, H) /\ After(H, step) = H
  BY <1>1 DEF May, After, Kept
<1>4. Uses(l) \in Seq(Steps)
  BY <1>1, <1>2
<1> QED BY <1>1, <1>2, <1>3, <1>4, InOrderBefore DEF Through

LEMMA HoldingThrough ==
  ASSUME NEW H \in Held, NEW l \in Kept, l \notin H, NEW w, Through(w, H \cup {l}),
         \A h \in H \ {"scan"} : l \in Under(h), "is_scanning" \notin H
  PROVE  Through(Holding(l, w), H)
<1> DEFINE lock == [does |-> "lock", lock |-> l]
           unlock == [does |-> "unlock", lock |-> l]
<1>1. /\ lock \in Steps /\ lock.does = "lock" /\ lock.lock = l
      /\ unlock \in Steps /\ unlock.does = "unlock" /\ unlock.lock = l
      /\ l # "scan"
  BY DEF Steps, Kept, Locks
<1>2. Holding(l, w) = (<<lock>> \o w) \o <<unlock>>
  BY DEF Holding
<1> HIDE DEF lock, unlock
<1>3. w \in Seq(Steps) /\ <<lock>> \in Seq(Steps) /\ <<unlock>> \in Seq(Steps) /\ Holding(l, w) \in Seq(Steps)
  BY <1>1, <1>2 DEF Through
<1>4. H \cup {l} \in Held
  BY <1>1, StepFields DEF Held
<1>5. May(lock, H) /\ After(H, lock) = H \cup {l} /\ May(unlock, H \cup {l}) /\ After(H \cup {l}, unlock) = H
  BY <1>1 DEF May, After
<1>6. ASSUME NEW rest \in Seq(Steps), <<rest, H>> \in InOrder PROVE <<Holding(l, w) \o rest, H>> \in InOrder
  <2>1. <<<<unlock>> \o rest, H \cup {l}>> \in InOrder /\ <<unlock>> \o rest \in Seq(Steps)
    <3>1. <<rest, After(H \cup {l}, unlock)>> \in InOrder /\ unlock.does # "scan"
      BY <1>1, <1>5, <1>6
    <3> QED BY <1>1, <1>3, <1>4, <1>5, <1>6, <3>1, InOrderBefore, JoinedIsSeq
  <2>2. <<w \o (<<unlock>> \o rest), H \cup {l}>> \in InOrder
    BY <2>1 DEF Through
  <2>3. <<<<lock>> \o (w \o (<<unlock>> \o rest)), H>> \in InOrder
    BY <1>1, <1>5, <2>2, InOrderBefore
  <2>4. Holding(l, w) \o rest = <<lock>> \o (w \o (<<unlock>> \o rest))
    <3>1. Holding(l, w) \o rest = (<<lock>> \o w) \o (<<unlock>> \o rest)
      <4>1. <<lock>> \o w \in Seq(Steps)
        BY <1>3, JoinedIsSeq
      <4> QED BY <1>2, <1>3, <1>6, <4>1, ConcatAssociative
    <3>2. \A x \in Seq(Steps) : (<<lock>> \o w) \o x = <<lock>> \o (w \o x)
      BY <1>3, ConcatAssociative
    <3> QED BY <2>1, <3>1, <3>2
  <2> QED BY <2>3, <2>4
<1> QED BY <1>3, <1>6 DEF Through

-----------------------------------------------------------------------------
(* The messages and the calls are in order.                                *)

LEMMA Alone ==
  /\ \A l \in Locks : Through(Uses(l), {})
  /\ Through(<<>>, {})
  /\ \A v, w : Through(v, {}) /\ Through(w, {}) => Through(v \o w, {})
  /\ \A l \in Kept : \A w : Through(w, {l}) => Through(Holding(l, w), {})
<1>1. {} \in Held
  BY DEF Held
<1>2. \A l \in Locks : Through(Uses(l), {})
  BY <1>1, UsesThrough
<1>3. \A l \in Kept : \A w : Through(w, {l}) => Through(Holding(l, w), {})
  BY <1>1, HoldingThrough
<1> QED BY <1>2, <1>3, EmptyThrough, ThenThrough

LEMMA UnderStore ==
  /\ \A l \in {"PAIRING_MANAGER", "NOTE_LISTENER", "LOCAL_NODE_ID", "registered_services"} :
       Through(Uses(l), {"STORE"})
  /\ Through(<<>>, {"STORE"})
  /\ \A v, w : Through(v, {"STORE"}) /\ Through(w, {"STORE"}) => Through(v \o w, {"STORE"})
  /\ Through(Holding("LIBP2P_MANAGER", Uses("TRANSFER_MANAGER")), {"STORE"})
<1>1. {"STORE"} \in Held /\ {"STORE", "LIBP2P_MANAGER"} \in Held
  BY DEF Held, Locks
<1>2. \A l \in {"PAIRING_MANAGER", "NOTE_LISTENER", "LOCAL_NODE_ID", "registered_services"} :
        /\ l \in Locks /\ l \notin {"STORE"}
        /\ l \in Kept => \A h \in {"STORE"} \ {"scan"} : l \in Under(h)
  BY DEF Locks, Kept, Under
<1>3. \A l \in {"PAIRING_MANAGER", "NOTE_LISTENER", "LOCAL_NODE_ID", "registered_services"} :
        Through(Uses(l), {"STORE"})
  BY <1>1, <1>2, UsesThrough
<1>4. Through(Uses("TRANSFER_MANAGER"), {"STORE", "LIBP2P_MANAGER"})
  BY <1>1, UsesThrough DEF Locks, Kept
<1>5. Through(Uses("TRANSFER_MANAGER"), {"STORE"} \cup {"LIBP2P_MANAGER"})
  <2>1. {"STORE"} \cup {"LIBP2P_MANAGER"} = {"STORE", "LIBP2P_MANAGER"}
    OBVIOUS
  <2> QED BY <1>4, <2>1
<1>6. Through(Holding("LIBP2P_MANAGER", Uses("TRANSFER_MANAGER")), {"STORE"})
  <2>1. "LIBP2P_MANAGER" \in Kept /\ "LIBP2P_MANAGER" \in Under("STORE")
    BY DEF Kept, Under
  <2> QED BY <1>1, <1>5, <2>1, HoldingThrough
<1> QED BY <1>3, <1>6, EmptyThrough, ThenThrough

LEMMA UnderOthers ==
  /\ Through(<<>>, {"DISCOVERED"}) /\ Through(Uses("STORE"), {"DISCOVERED"})
  /\ \A l \in {"PEER_MAP", "AGENT_TX"} : Through(Uses(l), {"PAIRING_MANAGER"})
  /\ Through(Holding("DISCOVERED", Uses("PEER_MAP")), {"PAIRING_MANAGER"})
<1>1. {"DISCOVERED"} \in Held /\ {"PAIRING_MANAGER"} \in Held /\ {"PAIRING_MANAGER", "DISCOVERED"} \in Held
  BY DEF Held, Locks
<1>2. Through(Uses("STORE"), {"DISCOVERED"})
  <2>1. \A h \in {"DISCOVERED"} \ {"scan"} : "STORE" \in Under(h)
    BY DEF Under
  <2> QED BY <1>1, <2>1, UsesThrough DEF Locks
<1>3. \A l \in {"PEER_MAP", "AGENT_TX"} :
        l \in Locks /\ l \notin Kept /\ l \notin {"PAIRING_MANAGER", "DISCOVERED"}
  BY DEF Locks, Kept
<1>4. \A l \in {"PEER_MAP", "AGENT_TX"} : Through(Uses(l), {"PAIRING_MANAGER"})
  BY <1>1, <1>3, UsesThrough
<1>5. Through(Uses("PEER_MAP"), {"PAIRING_MANAGER"} \cup {"DISCOVERED"})
  <2>1. {"PAIRING_MANAGER"} \cup {"DISCOVERED"} = {"PAIRING_MANAGER", "DISCOVERED"}
    OBVIOUS
  <2> QED BY <1>1, <1>3, <2>1, UsesThrough
<1>6. Through(Holding("DISCOVERED", Uses("PEER_MAP")), {"PAIRING_MANAGER"})
  <2>1. "DISCOVERED" \in Kept /\ "DISCOVERED" \in Under("PAIRING_MANAGER")
    BY DEF Kept, Under
  <2> QED BY <1>1, <1>5, <2>1, HoldingThrough
<1> QED BY <1>2, <1>4, <1>6, EmptyThrough

Fits(ways) == \A w \in ways : Through(w, {})

\* Of two ways with and without a part.
LEMMA MaybeFits ==
  ASSUME NEW v, NEW w, NEW u, NEW H, Through(v, H), Through(w, H), Through(u, H)
  PROVE  \A x \in Maybe(v, w, u) : Through(x, H)
<1>1. Through(v \o w, H)
  BY ThenThrough
<1>2. Through((v \o w) \o u, H) /\ Through(v \o u, H)
  BY <1>1, ThenThrough
<1> QED BY <1>2 DEF Maybe

LEMMA HandlersFit == Fits(Handlers)
<1> USE DEF Fits
<1>1. Fits(SetClipboard)
  BY Alone, MaybeFits DEF SetClipboard, Locks
<1>2. Fits(DeviceDiscovered)
  BY Alone, UnderOthers DEF DeviceDiscovered, Locks, Kept
<1>3. Fits(DeviceLost \cup PeerDisconnected \cup Reports \cup RevokeDevice \cup NoteUpdated)
  BY Alone DEF DeviceLost, PeerDisconnected, Reports, RevokeDevice, NoteUpdated, Locks
<1>4. Fits(PeerConnected)
  BY Alone, UnderStore DEF PeerConnected, Locks, Kept
<1>5. Fits(PairingResult)
  BY Alone, MaybeFits DEF PairingResult, Locks
<1>6. Fits(ApplyNoteSync)
  <2>1. \A x \in Maybe(Uses("NOTE_LISTENER"), Uses("PAIRING_MANAGER"), <<>>) : Through(x, {"STORE"})
    BY UnderStore, MaybeFits
  <2> QED BY <2>1, Alone, UnderStore DEF ApplyNoteSync, Kept
<1>7. Fits(ApplyNoteDelete)
  BY Alone, UnderStore DEF ApplyNoteDelete, Kept
<1> QED BY <1>1, <1>2, <1>3, <1>4, <1>5, <1>6, <1>7 DEF Handlers

LEMMA MdnsFits == Fits(stop_discovery \cup register_device)
<1> DEFINE halt == [does |-> "halt", lock |-> "is_scanning"]
           join == [does |-> "join"]
<1>1. /\ halt \in Steps /\ halt.does = "halt" /\ halt.lock = "is_scanning"
      /\ join \in Steps /\ join.does = "join"
  BY DEF Steps, Locks
<1>2. {} \in Held /\ {"discovery_thread"} \in Held /\ "discovery_thread" \in Kept
  BY DEF Held, Locks, Kept
<1>3. MdnsManager_stop = <<halt>> \o Holding("discovery_thread", <<join>>)
  BY DEF MdnsManager_stop
<1> HIDE DEF halt, join
<1>4. May(halt, {}) /\ After({}, halt) = {}
  BY <1>1 DEF May, After
<1>5. May(join, {"discovery_thread"}) /\ After({"discovery_thread"}, join) = {"discovery_thread"}
  BY <1>1 DEF May, After
<1>6. Through(<<halt>>, {})
  <2>1. <<halt>> \in Seq(Steps)
    BY <1>1
  <2> QED BY <1>1, <1>2, <1>4, <2>1, InOrderBefore DEF Through
<1>7. Through(<<join>>, {"discovery_thread"})
  <2>1. <<join>> \in Seq(Steps)
    BY <1>1
  <2> QED BY <1>1, <1>2, <1>5, <2>1, InOrderBefore DEF Through
<1>8. Through(MdnsManager_stop, {})
  BY <1>2, <1>3, <1>6, <1>7, Alone
<1>9. Through(MdnsManager_register, {})
  BY Alone DEF MdnsManager_register, Locks
<1> QED BY <1>8, <1>9 DEF Fits, stop_discovery, register_device

LEMMA CallsFit == Fits(Calls \ start_discovery)
<1> USE DEF Fits
<1>1. Fits(set_listener \cup transfer_calls \cup send_file_thread \cup accept_file_transfer
             \cup get_clipboard_history \cup delete_clipboard_item \cup save_clipboard_local
             \cup get_file_transfer_history \cup clear_finished_transfers \cup unpair_device)
  BY Alone DEF set_listener, transfer_calls, send_file_thread, accept_file_transfer,
       get_clipboard_history, delete_clipboard_item, save_clipboard_local,
       get_file_transfer_history, clear_finished_transfers, unpair_device, Locks
<1>2. Fits(active_pairing_calls \cup get_qr_pairing_payload \cup discovered_devices
             \cup send_notification \cup get_audit_logs \cup search \cup get_notes \cup ProgressEvent)
  BY Alone DEF active_pairing_calls, get_qr_pairing_payload, discovered_devices,
       send_notification, get_audit_logs, search, get_notes, ProgressEvent, Locks
<1>3. Fits(disconnect_device \cup broadcast_clipboard \cup revoke_device \cup spawn_mdns_receiver)
  BY Alone DEF disconnect_device, broadcast_clipboard, revoke_device, spawn_mdns_receiver, Locks
<1>4. Fits(send_file)
  <2>1. Through(Uses("PAIRING_MANAGER") \o Uses("TRANSFER_MANAGER"), {})
    BY Alone DEF Locks
  <2>2. Through(Holding("STORE", Holding("LIBP2P_MANAGER", Uses("TRANSFER_MANAGER"))), {})
    BY Alone, UnderStore DEF Kept
  <2>3. Through(Uses("PAIRING_MANAGER"), {})
    BY Alone DEF Locks
  <2> QED BY <2>1, <2>2, <2>3, Alone DEF send_file
<1>5. Fits(set_clipboard_item_local_only \cup get_paired_devices \cup is_local_device_revoked
             \cup update_setting \cup save_note \cup delete_note)
  BY Alone, UnderStore DEF set_clipboard_item_local_only, get_paired_devices,
       is_local_device_revoked, update_setting, save_note, delete_note, Kept
<1>6. Fits(initiate_pairing)
  BY Alone, UnderOthers DEF initiate_pairing, Kept
<1>7. Fits(pair_with_qr)
  <2>1. Through(Uses("PAIRING_MANAGER"), {})
    BY Alone DEF Locks
  <2>2. Through(Holding("PAIRING_MANAGER", Uses("AGENT_TX")), {})
    BY Alone, UnderOthers DEF Kept
  <2>3. Through(Holding("PAIRING_MANAGER", Uses("PEER_MAP")), {})
    BY Alone, UnderOthers DEF Kept
  <2> QED BY <1>6, <2>1, <2>2, <2>3, Alone DEF pair_with_qr
<1>8. Fits(submit_feedback)
  BY Alone, MaybeFits DEF submit_feedback, Locks
<1> QED BY <1>1, <1>2, <1>3, <1>4, <1>5, <1>6, <1>7, <1>8, MdnsFits DEF Calls

LEMMA PairIsJoined ==
  ASSUME NEW S, NEW x \in S, NEW y \in S
  PROVE  <<x, y>> = <<x>> \o <<y>>
<1> DEFINE p == <<x, y>>
           q == <<x>> \o <<y>>
<1>1. p \in Seq(S) /\ Len(p) = 2 /\ p[1] = x /\ p[2] = y
  OBVIOUS
<1>2. q \in Seq(S) /\ Len(q) = 2 /\ q[1] = x /\ q[2] = y
  <2>1. <<x>> \in Seq(S) /\ Len(<<x>>) = 1 /\ <<x>>[1] = x /\ <<y>> \in Seq(S) /\ Len(<<y>>) = 1 /\ <<y>>[1] = y
    OBVIOUS
  <2> QED BY <2>1, ConcatProperties
<1> HIDE DEF p, q
<1>3. Len(p) = Len(q) /\ \A i \in 1..Len(p) : p[i] = q[i]
  <2>1. \A i \in 1..2 : i = 1 \/ i = 2
    OBVIOUS
  <2> QED BY <1>1, <1>2, <2>1
<1>4. p = q
  BY <1>1, <1>2, <1>3, SeqEqual
<1> QED BY <1>4 DEF p, q

LEMMA FrontAndRest ==
  ASSUME NEW S, NEW x \in S, NEW w \in Seq(S)
  PROVE  <<x>> \o w # <<>> /\ Tail(<<x>> \o w) = w
  OBVIOUS

\* A discovery that may start a scan ends without that right.
LEMMA StartInOrder == \A w \in start_discovery : <<w, {"scan"}>> \in InOrder
<1> DEFINE lock == [does |-> "lock", lock |-> "is_scanning"]
           scan == [does |-> "scan"]
           keep == [does |-> "keep", lock |-> "discovery_thread"]
           unlock == [does |-> "unlock", lock |-> "is_scanning"]
           S == {"scan"}
           H == {"is_scanning"}
           HS == {"is_scanning", "scan"}
<1>1. /\ lock \in Steps /\ lock.does = "lock" /\ lock.lock = "is_scanning"
      /\ scan \in Steps /\ scan.does = "scan"
      /\ keep \in Steps /\ keep.does = "keep" /\ keep.lock = "discovery_thread"
      /\ unlock \in Steps /\ unlock.does = "unlock" /\ unlock.lock = "is_scanning"
  BY DEF Steps, Locks
<1>2. MdnsManager_start = (<<lock>> \o <<scan, keep>>) \o <<unlock>>
  BY DEF MdnsManager_start, Holding
<1> HIDE DEF lock, scan, keep, unlock
<1>3. {} \in Held /\ S \in Held /\ H \in Held /\ HS \in Held
  BY DEF Held, Locks
<1>4. May(unlock, H) /\ After(H, unlock) = {}
  BY <1>1 DEF May, After
<1>5. May(keep, H) /\ After(H, keep) = H
  BY <1>1 DEF May, After, Under
<1>6. May(scan, HS) /\ After(HS, scan) = H
  BY <1>1 DEF May, After
<1>7. May(lock, S) /\ After(S, lock) = HS
  BY <1>1 DEF May, After, Kept
<1>8. MdnsManager_start = <<lock>> \o (<<scan>> \o (<<keep>> \o <<unlock>>))
  <2>1. <<lock>> \in Seq(Steps) /\ <<scan>> \in Seq(Steps) /\ <<keep>> \in Seq(Steps) /\ <<unlock>> \in Seq(Steps)
    BY <1>1
  <2>2. <<scan, keep>> = <<scan>> \o <<keep>> /\ <<scan>> \o <<keep>> \in Seq(Steps)
    BY <1>1, <2>1, PairIsJoined, JoinedIsSeq
  <2>3. (<<lock>> \o (<<scan>> \o <<keep>>)) \o <<unlock>> = <<lock>> \o ((<<scan>> \o <<keep>>) \o <<unlock>>)
    BY <2>1, <2>2, ConcatAssociative
  <2>4. (<<scan>> \o <<keep>>) \o <<unlock>> = <<scan>> \o (<<keep>> \o <<unlock>>)
    BY <2>1, ConcatAssociative
  <2> QED BY <1>2, <2>2, <2>3, <2>4
<1> DEFINE k == <<keep>> \o <<unlock>>
           c == <<scan>> \o k
<1>9. <<<<unlock>>, H>> \in InOrder
  <2>1. <<unlock>> \o <<>> = <<unlock>>
    OBVIOUS
  <2> QED BY <1>1, <1>3, <1>4, <2>1, EmptyInOrder, InOrderBefore
<1>10. <<k, H>> \in InOrder
  BY <1>1, <1>3, <1>5, <1>9, InOrderBefore
<1>11. k # <<>> /\ Tail(k) = <<unlock>>
  <2>1. <<unlock>> \in Seq(Steps)
    BY <1>1
  <2> QED BY <1>1, <2>1, FrontAndRest
<1> HIDE DEF k
<1>12. <<c, HS>> \in InOrder
  BY <1>1, <1>3, <1>6, <1>9, <1>10, <1>11, InOrderBefore
<1> HIDE DEF c
<1>13. <<<<lock>> \o c, S>> \in InOrder
  BY <1>1, <1>3, <1>7, <1>12, InOrderBefore
<1>14. <<MdnsManager_start, S>> \in InOrder
  BY <1>8, <1>13 DEF c, k
<1>15. Through(Holding("STORE", Uses("LOCAL_NODE_ID") \o MdnsManager_register), S)
  <2>1. {"scan", "STORE"} \in Held
    BY DEF Held, Locks
  <2>2. \A l \in {"LOCAL_NODE_ID", "registered_services"} : Through(Uses(l), {"scan", "STORE"})
    BY <2>1, UsesThrough DEF Locks, Kept
  <2>3. Through(Uses("LOCAL_NODE_ID") \o MdnsManager_register, {"scan", "STORE"})
    BY <2>2, ThenThrough DEF MdnsManager_register
  <2>4. S \cup {"STORE"} = {"scan", "STORE"} /\ "STORE" \in Kept
    BY DEF Kept
  <2> QED BY <1>3, <2>3, <2>4, HoldingThrough
<1>16. \A l \in {"LOCAL_NODE_ID", "RECV_THREAD_STARTED"} : Through(Uses(l), S)
  BY <1>3, UsesThrough DEF Locks, Kept
<1> DEFINE before == (Holding("STORE", Uses("LOCAL_NODE_ID") \o MdnsManager_register)
                        \o Uses("LOCAL_NODE_ID")) \o Uses("RECV_THREAD_STARTED")
<1>17. Through(before, S)
  <2>1. Through(Holding("STORE", Uses("LOCAL_NODE_ID") \o MdnsManager_register) \o Uses("LOCAL_NODE_ID"), S)
    BY <1>15, <1>16, ThenThrough
  <2> QED BY <1>16, <2>1, ThenThrough
<1>18. start_discovery = {before \o MdnsManager_start}
  BY DEF start_discovery
<1> HIDE DEF before
<1>19. MdnsManager_start \in Seq(Steps)
  BY <1>14, InOrderGoesOn
<1> QED BY <1>14, <1>17, <1>18, <1>19 DEF Through

-----------------------------------------------------------------------------
(* The invariant.                                                          *)

LEMMA InitHolds == Init => IInv
<1> SUFFICES ASSUME Init PROVE IInv
  OBVIOUS
<1>1. latest \in Scanners
  BY ConstantsAssumption DEF Init
<1>2. Typed
  <2>1. <<>> \in Seq(Steps)
    OBVIOUS
  <2> QED BY <1>1, <2>1 DEF Init, Typed
<1>3. KeptAreOwned
  BY DEF Init, KeptAreOwned
<1>4. GoOnInOrder({})
  <2>1. ASSUME NEW t \in Threads PROVE <<way[t], Holds(t, {})>> \in InOrder
    <3>1. Holds(t, {}) = {}
      BY <2>1, ConstantsAssumption DEF Init, Holds, Owned, Threads
    <3> QED BY <2>1, <3>1, EmptyInOrder DEF Init
  <2> QED BY <2>1 DEF GoOnInOrder
<1> QED BY <1>2, <1>3, <1>4 DEF IInv

\* There are finitely many scans and calls.
LEMMA Counts ==
  ASSUME Typed, NEW C \in SUBSET Callers
  PROVE  /\ IsFiniteSet(running) /\ Cardinality(running) \in Nat
         /\ IsFiniteSet(C) /\ Cardinality(C) \in Nat /\ Cardinality(C) <= Cardinality(Callers)
         /\ Cardinality(Callers) \in Nat /\ Cardinality(Scanners) \in Nat
<1>1. running \subseteq Scanners
  BY DEF Typed
<1> QED BY <1>1, ConstantsAssumption, FS_Subset, FS_CardinalityType

\* A thread that goes on with its call, and takes or gives back a lock.
LEMMA GoingOn ==
  ASSUME IInv, NEW t \in Threads, NEW C \in SUBSET Callers, GoOnInOrder(C), way[t] # <<>>, GoesOn(t),
         Head(way[t]).does # "scan", UNCHANGED running,
         \A u \in Threads \ {t} : Owned(u)' = Owned(u),
         Owned(t)' \cup {"scan"} = After(Owned(t), Head(way[t])) \cup {"scan"}
  PROVE  GoOnInOrder(C)' /\ way' \in [Threads -> Seq(Steps)]
<1>1. <<way[t], Holds(t, C)>> \in InOrder
  BY DEF GoOnInOrder
<1>2. /\ way[t] \in Seq(Steps) /\ Head(way[t]) \in Steps
      /\ <<Tail(way[t]), After(Holds(t, C), Head(way[t]))>> \in InOrder
  BY <1>1, InOrderGoesOn
<1>3. Tail(way[t]) \in Seq(Steps)
  BY <1>2, InOrderGoesOn
<1>4. way' = [way EXCEPT ![t] = Tail(way[t])] /\ way \in [Threads -> Seq(Steps)]
  BY DEF GoesOn, IInv, Typed
<1>5. After(Holds(t, C), Head(way[t])) = Holds(t, C)'
  <2>1. "scan" \notin Owned(t) /\ "scan" \notin Owned(t)'
    BY DEF Owned, Locks
  <2>2. Head(way[t]).does \in {"lock", "unlock"} => Head(way[t]).lock # "scan"
    BY <1>2, StepFields DEF Locks
  <2>3. Owned(t)' = After(Owned(t), Head(way[t]))
    BY <2>1, <2>2 DEF After
  <2> QED BY <2>2, <2>3 DEF Holds, After
<1>6. ASSUME NEW u \in Threads PROVE <<way'[u], Holds(u, C)'>> \in InOrder
  <2>1. CASE u = t
    BY <1>2, <1>4, <1>5, <2>1
  <2>2. CASE u # t
    <3>1. way'[u] = way[u] /\ Holds(u, C)' = Holds(u, C)
      BY <1>4, <2>2 DEF Holds
    <3> QED BY <3>1 DEF GoOnInOrder
  <2> QED BY <2>1, <2>2
<1> QED BY <1>3, <1>4, <1>6 DEF GoOnInOrder

LEMMA CallKeeps ==
  ASSUME IInv, NEW t \in Threads, Call(t)
  PROVE  IInv'
<1>1. PICK C \in SUBSET Callers : GoOnInOrder(C)
  BY DEF IInv
<1>2. PICK w \in (IF Spare THEN Ways(t) ELSE Ways(t) \ start_discovery) : way' = [way EXCEPT ![t] = w]
  BY DEF Call
<1>3. way[t] = <<>> /\ UNCHANGED <<owner, mdns>>
  BY DEF Call
<1>4. Owned(t) = {}
  <2>1. Holds(t, C) \subseteq {"scan"}
    BY <1>1, <1>3, InOrderGoesOn DEF GoOnInOrder
  <2> QED BY <2>1 DEF Holds, Owned, Locks
<1>5. \A u \in Threads : Owned(u)' = Owned(u)
  BY <1>3 DEF Owned
<1>6. ASSUME NEW D \in SUBSET Callers, <<w, IF t \in D THEN {"scan"} ELSE {}>> \in InOrder,
             D # {} => Cardinality(running) + Cardinality(D) < Cardinality(Scanners),
             \A u \in Threads \ {t} : u \in D <=> u \in C
      PROVE  IInv'
  <2>1. w \in Seq(Steps)
    BY <1>6, InOrderGoesOn
  <2>2. way \in [Threads -> Seq(Steps)]
    BY DEF IInv, Typed
  <2>3. Typed' /\ KeptAreOwned'
    BY <1>2, <1>3, <2>1, <2>2 DEF IInv, Typed, KeptAreOwned, mdns
  <2>4. ASSUME NEW u \in Threads PROVE <<way'[u], Holds(u, D)'>> \in InOrder
    <3>1. CASE u = t
      <4>1. Holds(u, D)' = IF t \in D THEN {"scan"} ELSE {}
        BY <1>4, <1>5, <3>1 DEF Holds
      <4>2. way'[u] = w
        BY <1>2, <2>2, <3>1
      <4> QED BY <1>6, <4>1, <4>2
    <3>2. CASE u # t
      <4>1. way'[u] = way[u]
        BY <1>2, <2>2, <3>2
      <4>2. Holds(u, D)' = Holds(u, C)
        BY <1>5, <1>6, <3>2 DEF Holds
      <4> QED BY <1>1, <4>1, <4>2 DEF GoOnInOrder
    <3> QED BY <3>1, <3>2
  <2>5. GoOnInOrder(D)'
    BY <1>3, <1>6, <2>4 DEF GoOnInOrder, mdns
  <2> QED BY <2>3, <2>5 DEF IInv
<1>7. CASE w \in start_discovery /\ t # "background"
  <2>1. t \in Callers /\ Spare
    BY <1>2, <1>7 DEF Threads
  <2>2. Cardinality(running) + Cardinality(C \cup {t}) < Cardinality(Scanners)
    <3>1. C \cup {t} \in SUBSET Callers
      BY <2>1
    <3> QED BY <2>1, <3>1, Counts DEF Spare, IInv
  <2>3. <<w, {"scan"}>> \in InOrder
    BY <1>7, StartInOrder
  <2> QED BY <1>6, <2>1, <2>2, <2>3
<1>8. CASE w \notin start_discovery \/ t = "background"
  <2>1. w \in Handlers \cup (Calls \ start_discovery)
    BY <1>2, <1>8 DEF Ways
  <2>2. Through(w, {})
    BY <2>1, HandlersFit, CallsFit DEF Fits
  <2>3. <<w, {}>> \in InOrder
    BY <2>2, ThroughAll
  <2>4. ASSUME C \ {t} # {} PROVE Cardinality(running) + Cardinality(C \ {t}) < Cardinality(Scanners)
    <3>1. Cardinality(C \ {t}) <= Cardinality(C) /\ Cardinality(C \ {t}) \in Nat
      BY Counts, FS_Subset, FS_CardinalityType DEF IInv
    <3> QED BY <1>1, <2>4, <3>1, Counts DEF GoOnInOrder, IInv
  <2> QED BY <1>6, <2>3, <2>4
<1> QED BY <1>7, <1>8

LEMMA StepsKeep ==
  ASSUME IInv, NEW t \in Threads, Use(t) \/ Lock(t) \/ Unlock(t) \/ Keep(t) \/ Halt(t) \/ Join(t)
  PROVE  IInv'
<1> DEFINE step == Head(way[t])
<1>1. PICK C \in SUBSET Callers : GoOnInOrder(C)
  BY DEF IInv
<1>2. way[t] # <<>> /\ GoesOn(t) /\ UNCHANGED <<running, latest>>
  BY DEF Use, Lock, Unlock, Keep, Halt, Join, Does, mdns
<1>3. step \in Steps /\ May(step, Holds(t, C))
  BY <1>1, <1>2, InOrderGoesOn DEF GoOnInOrder
<1> HIDE DEF step
<1>4. /\ step.does # "scan" /\ KeptAreOwned' /\ owner' \in [Locks -> Threads \cup {None}]
      /\ \A u \in Threads \ {t} : Owned(u)' = Owned(u)
      /\ Owned(t)' = After(Owned(t), step)
  <2>1. owner \in [Locks -> Threads \cup {None}] /\ KeptAreOwned /\ None \notin Threads
    BY ConstantsAssumption DEF IInv, Typed, Threads
  <2>2. CASE Lock(t)
    <3>1. step.does = "lock" /\ owner[step.lock] = None /\ owner' = [owner EXCEPT ![step.lock] = t]
      BY <2>2 DEF Lock, Does, Free, step
    <3>2. step.lock \in Locks /\ step.lock \in Kept
      BY <1>3, <3>1, StepFields DEF May
    <3> QED BY <2>1, <3>1, <3>2 DEF KeptAreOwned, Owned, After
  <2>3. CASE Unlock(t)
    <3>1. step.does = "unlock" /\ owner' = [owner EXCEPT ![step.lock] = None]
      BY <2>3 DEF Unlock, Does, step
    <3>2. step.lock \in Locks /\ owner[step.lock] = t
      <4>1. step.lock \in Locks /\ step.lock \in Holds(t, C) /\ step.lock # "scan"
        BY <1>3, <3>1, StepFields DEF May, Locks
      <4> QED BY <4>1 DEF Holds, Owned
    <3> QED BY <2>1, <3>1, <3>2 DEF KeptAreOwned, Owned, After
  <2>4. CASE Use(t) \/ Keep(t) \/ Halt(t) \/ Join(t)
    <3>1. step.does \in {"use", "keep", "halt", "join"} /\ UNCHANGED owner
      BY <2>4 DEF Use, Keep, Halt, Join, Does, step
    <3> QED BY <2>1, <3>1 DEF KeptAreOwned, Owned, After
  <2> QED BY <2>2, <2>3, <2>4
<1>5. GoOnInOrder(C)' /\ way' \in [Threads -> Seq(Steps)]
  BY <1>1, <1>2, <1>4, GoingOn DEF step
<1>6. scanning' \in BOOLEAN /\ handle' \in Scanners \cup {None}
  BY DEF Use, Lock, Unlock, Keep, Halt, Join, mdns, IInv, Typed
<1>7. Typed'
  BY <1>2, <1>4, <1>5, <1>6 DEF IInv, Typed
<1> QED BY <1>4, <1>5, <1>7 DEF IInv

\* There is a scanner for a scan that starts.
LEMMA ScanKeeps ==
  ASSUME IInv, NEW t \in Threads, Scan(t)
  PROVE  IInv'
<1> DEFINE s == CHOOSE x \in Scanners : x \notin running \cup {handle}
<1>1. PICK C \in SUBSET Callers : GoOnInOrder(C)
  BY DEF IInv
<1>2. way[t] # <<>> /\ Head(way[t]).does = "scan" /\ UNCHANGED <<owner, handle>>
  BY DEF Scan, Does
<1>3. /\ Head(way[t]) \in Steps /\ May(Head(way[t]), Holds(t, C))
      /\ <<Tail(way[t]), After(Holds(t, C), Head(way[t]))>> \in InOrder
      /\ <<Tail(Tail(way[t])), After(Holds(t, C), Head(way[t]))>> \in InOrder
  BY <1>1, <1>2, InOrderGoesOn DEF GoOnInOrder
<1>4. Holds(t, C) = {"is_scanning", "scan"}
  BY <1>2, <1>3 DEF May
<1>5. t \in C /\ Owned(t) = {"is_scanning"}
  BY <1>4 DEF Holds, Owned, Locks
<1>6. After(Holds(t, C), Head(way[t])) = {"is_scanning"}
  BY <1>2, <1>4 DEF After
<1>7. \A u \in Threads : Owned(u)' = Owned(u)
  BY <1>2 DEF Owned
<1>8. Holds(t, C \ {t})' = {"is_scanning"} /\ \A u \in Threads \ {t} : Holds(u, C \ {t})' = Holds(u, C)
  BY <1>5, <1>7 DEF Holds
<1>9. way \in [Threads -> Seq(Steps)] /\ running \subseteq Scanners /\ handle \in Scanners \cup {None}
  BY DEF IInv, Typed
<1>10. way' = [way EXCEPT ![t] = Tail(way[t])] \/ way' = [way EXCEPT ![t] = Tail(Tail(way[t]))]
  BY DEF Scan, GoesOn
<1>11. Tail(way[t]) \in Seq(Steps) /\ Tail(Tail(way[t])) \in Seq(Steps)
  BY <1>3, InOrderGoesOn
<1>12. way' \in [Threads -> Seq(Steps)] /\ \A u \in Threads : <<way'[u], Holds(u, C \ {t})'>> \in InOrder
  BY <1>1, <1>3, <1>6, <1>8, <1>9, <1>10, <1>11 DEF GoOnInOrder
<1>13. /\ Cardinality(running) + Cardinality(C) < Cardinality(Scanners)
       /\ Cardinality(C \ {t}) = Cardinality(C) - 1 /\ Cardinality(C) \in Nat /\ Cardinality(C) >= 1
       /\ Cardinality(running) \in Nat /\ Cardinality(Scanners) \in Nat /\ IsFiniteSet(running)
  <2>1. IsFiniteSet(C) /\ Cardinality(C) \in Nat
    BY Counts DEF IInv
  <2>2. Cardinality(C \ {t}) = Cardinality(C) - 1
    BY <1>5, <2>1, FS_RemoveElement
  <2>3. Cardinality(C \ {t}) \in Nat
    BY <2>1, FS_RemoveElement, FS_CardinalityType
  <2> QED BY <1>1, <1>5, <2>1, <2>2, <2>3, Counts DEF GoOnInOrder, IInv
<1>14. CASE scanning
  <2>1. UNCHANGED <<scanning, running, latest>>
    BY <1>14 DEF Scan
  <2>2. Cardinality(running) + Cardinality(C \ {t}) < Cardinality(Scanners)
    BY <1>13
  <2>3. GoOnInOrder(C \ {t})'
    BY <1>12, <2>1, <2>2 DEF GoOnInOrder
  <2>4. Typed' /\ KeptAreOwned'
    BY <1>2, <1>12, <2>1 DEF IInv, Typed, KeptAreOwned
  <2> QED BY <2>3, <2>4 DEF IInv
<1>15. CASE ~scanning
  <2>1. scanning' = TRUE /\ latest' = s /\ running' = running \cup {latest'}
    BY <1>15 DEF Scan
  <2>2. s \in Scanners /\ s \notin running \cup {handle}
    <3>1. IsFiniteSet(running \cup {handle}) /\ Cardinality(running \cup {handle}) <= Cardinality(running) + 1
      BY <1>13, FS_AddElement
    <3>2. Cardinality(running \cup {handle}) \in Nat
      BY <3>1, FS_CardinalityType
    <3>3. ~(Scanners \subseteq running \cup {handle})
      <4>1. SUFFICES ASSUME Scanners \subseteq running \cup {handle} PROVE FALSE
        OBVIOUS
      <4>2. Cardinality(Scanners) <= Cardinality(running \cup {handle})
        BY <3>1, <4>1, FS_Subset
      <4> QED BY <1>13, <3>1, <3>2, <4>2
    <3> QED BY <3>3
  <2> HIDE DEF s
  <2>3. Cardinality(running') = Cardinality(running) + 1
    BY <1>13, <2>1, <2>2, FS_AddElement
  <2>4. Cardinality(running') + Cardinality(C \ {t}) < Cardinality(Scanners)
    BY <1>13, <2>3
  <2>5. GoOnInOrder(C \ {t})'
    BY <1>12, <2>4 DEF GoOnInOrder
  <2>6. Typed' /\ KeptAreOwned'
    BY <1>2, <1>9, <1>12, <2>1, <2>2 DEF IInv, Typed, KeptAreOwned
  <2> QED BY <2>5, <2>6 DEF IInv
<1> QED BY <1>14, <1>15

LEMMA ScannerEndsKeeps ==
  ASSUME IInv, NEW s \in Scanners, ScannerEnds(s)
  PROVE  IInv'
<1>1. PICK C \in SUBSET Callers : GoOnInOrder(C)
  BY DEF IInv
<1>2. running' = running \ {s} /\ UNCHANGED <<way, owner, scanning, latest, handle>>
  BY DEF ScannerEnds
<1>3. Cardinality(running') <= Cardinality(running) /\ Cardinality(running') \in Nat
  BY <1>2, Counts, FS_Subset, FS_CardinalityType DEF IInv
<1>4. GoOnInOrder(C)'
  BY <1>1, <1>2, <1>3, Counts DEF GoOnInOrder, Holds, Owned, IInv
<1>5. Typed' /\ KeptAreOwned'
  BY <1>2 DEF IInv, Typed, KeptAreOwned
<1> QED BY <1>4, <1>5 DEF IInv

LEMMA StutterKeeps ==
  ASSUME IInv, UNCHANGED vars
  PROVE  IInv'
<1>1. PICK C \in SUBSET Callers : GoOnInOrder(C)
  BY DEF IInv
<1>2. UNCHANGED <<way, owner, scanning, running, latest, handle>>
  BY DEF vars, mdns
<1>3. GoOnInOrder(C)'
  BY <1>1, <1>2 DEF GoOnInOrder, Holds, Owned
<1> QED BY <1>2, <1>3 DEF IInv, Typed, KeptAreOwned

LEMMA Invariance == Spec => []IInv
<1>1. ASSUME IInv, Next PROVE IInv'
  BY <1>1, CallKeeps, StepsKeep, ScanKeeps, ScannerEndsKeeps DEF Next
<1>2. IInv /\ [Next]_vars => IInv'
  BY <1>1, StutterKeeps
<1> QED BY <1>2, InitHolds, PTL DEF Spec

-----------------------------------------------------------------------------
(* The theorems.                                                           *)

\* A call that has returned holds no lock, and there is a thread for every scan
\* that start_discovery begins: for any number of calls at a time.
THEOREM TypeCorrect == Spec => []TypeOK
<1>1. ASSUME IInv PROVE TypeOK
  <2>1. PICK C \in SUBSET Callers : GoOnInOrder(C)
    BY <1>1 DEF IInv
  <2>2. ASSUME NEW l \in Locks, owner[l] # None PROVE way[owner[l]] # <<>>
    <3>1. PICK t \in Threads : owner[l] = t
      BY <1>1, <2>2 DEF IInv, Typed
    <3>2. l \in Holds(t, C) /\ l # "scan"
      BY <2>2, <3>1 DEF Holds, Owned, Locks
    <3>3. <<way[t], Holds(t, C)>> \in InOrder
      BY <2>1 DEF GoOnInOrder
    <3>4. way[t] = <<>> => Holds(t, C) \subseteq {"scan"}
      BY <3>3, InOrderGoesOn
    <3> QED BY <3>1, <3>2, <3>4
  <2> QED BY <1>1, <2>2 DEF IInv, Typed, TypeOK
<1> QED BY <1>1, Invariance, PTL

\* What a thread holds while it waits.
LEMMA Waiting ==
  ASSUME IInv, NEW a \in Threads, NEW b, b # None, WaitsFor(a, b)
  PROVE  \/ b \in running /\ Owned(a) = {"discovery_thread"}
         \/ \E l \in Kept : /\ owner[l] = b /\ l \notin Owned(a)
                            /\ \A h \in Owned(a) : l \in Under(h)
                            /\ l = "DISCOVERED" /\ "PAIRING_MANAGER" \in Owned(a) => Waits(a, "DISCOVERED")
                            /\ l = "discovery_thread" /\ "is_scanning" \in Owned(a) => Does(a, "keep")
<1> DEFINE step == Head(way[a])
<1>1. PICK C \in SUBSET Callers : GoOnInOrder(C)
  BY DEF IInv
<1>2. /\ way[a] # <<>>
      /\ \/ step.does \in {"use", "lock", "keep", "halt"} /\ owner[step.lock] = b
         \/ step.does = "join" /\ b \in running
  <2>1. a \notin running
    BY ConstantsAssumption DEF IInv, Typed, Threads
  <2> QED BY <2>1 DEF WaitsFor
<1>3. step \in Steps /\ May(step, Holds(a, C))
  BY <1>1, <1>2, InOrderGoesOn DEF GoOnInOrder
<1>4. Owned(a) = Holds(a, C) \ {"scan"} /\ "scan" \notin Owned(a)
  BY DEF Holds, Owned, Locks
<1>5. CASE step.does = "join" /\ b \in running
  BY <1>3, <1>4, <1>5 DEF May
<1>6. CASE step.does \in {"use", "lock", "keep", "halt"} /\ owner[step.lock] = b
  <2>1. step.lock \in Locks /\ step.lock \in Kept
    BY <1>3, <1>6, StepFields DEF IInv, KeptAreOwned
  <2>2. /\ step.lock \notin Owned(a) /\ \A h \in Owned(a) : step.lock \in Under(h)
        /\ step.lock = "DISCOVERED" /\ "PAIRING_MANAGER" \in Owned(a) => step.does = "lock"
        /\ step.lock = "discovery_thread" /\ "is_scanning" \in Owned(a) => step.does = "keep"
    BY <1>3, <1>4, <1>6, <2>1 DEF May
  <2> QED BY <1>2, <1>6, <2>1, <2>2 DEF Waits, Does
<1> QED BY <1>2, <1>5, <1>6

\* No two calls wait for each other, and none for itself, however many there are.
THEOREM TwoNeverWait == Spec => []NoTwoWait
<1>1. ASSUME IInv, NEW a \in Threads, NEW b \in Threads, WaitsFor(a, b), WaitsFor(b, a)
      PROVE  FALSE
  <2>1. a # None /\ b # None /\ a \notin running /\ b \notin running
    BY <1>1, ConstantsAssumption DEF IInv, Typed, Threads
  <2>2. PICK l \in Kept : owner[l] = b /\ l \notin Owned(a) /\ \A h \in Owned(a) : l \in Under(h)
    BY <1>1, <2>1, Waiting
  <2>3. PICK k \in Kept : owner[k] = a /\ \A h \in Owned(b) : k \in Under(h)
    BY <1>1, <2>1, Waiting
  <2>4. l \in Owned(b) /\ k \in Owned(a)
    BY <2>2, <2>3 DEF Owned, Kept, Locks
  <2>5. l \in Under(k) /\ k \in Under(l)
    BY <2>2, <2>3, <2>4
  <2> QED BY <2>5 DEF Under, Kept
<1>2. IInv => NoTwoWait
  BY <1>1 DEF NoTwoWait
<1> QED BY <1>2, Invariance, PTL

\* Whatever is called by however many threads, a circle of waits has one of the two
\* causes: a pairing that is initiated takes DISCOVERED under PAIRING_MANAGER, or a
\* discovery that is started waits for stop_discovery (cdus-ffi lib.rs; mdns.rs).
THEOREM CirclesAreKnown == Spec => []KnownCircularWaits
<1>1. ASSUME IInv, NEW W \in CircularWaits,
             ~\E t \in W : owner["PAIRING_MANAGER"] = t /\ Waits(t, "DISCOVERED"),
             ~\E t \in W : owner["is_scanning"] = t /\ Does(t, "keep")
      PROVE  FALSE
  <2> DEFINE Holder(l) == \E a \in W : a \in Threads /\ l \in Owned(a)
  <2>1. W \subseteq Threads \cup running /\ W # {} /\ \A a \in W : \E b \in W : WaitsFor(a, b)
    BY <1>1 DEF CircularWaits
  <2>2. \A b \in W : b # None
    BY <1>1, <2>1, ConstantsAssumption DEF IInv, Typed, Threads
  <2>3. running \cap Threads = {}
    BY <1>1, ConstantsAssumption DEF IInv, Typed, Threads
  \* Each in W waits for a scan in W, or for a lock that another in W holds.
  <2>4. ASSUME NEW a \in W, a \in Threads
        PROVE  \/ (\E b \in W : b \in running) /\ Owned(a) = {"discovery_thread"}
               \/ \E l \in Kept : /\ Holder(l) /\ \A h \in Owned(a) : l \in Under(h)
                                  /\ l = "DISCOVERED" => "PAIRING_MANAGER" \notin Owned(a)
                                  /\ l = "discovery_thread" => "is_scanning" \notin Owned(a)
    <3>1. PICK b \in W : WaitsFor(a, b)
      BY <2>1
    <3>2. CASE b \in running /\ Owned(a) = {"discovery_thread"}
      BY <3>2
    <3>3. ASSUME NEW l \in Kept, owner[l] = b, \A h \in Owned(a) : l \in Under(h),
                 l = "DISCOVERED" /\ "PAIRING_MANAGER" \in Owned(a) => Waits(a, "DISCOVERED"),
                 l = "discovery_thread" /\ "is_scanning" \in Owned(a) => Does(a, "keep")
          PROVE  /\ Holder(l) /\ \A h \in Owned(a) : l \in Under(h)
                 /\ l = "DISCOVERED" => "PAIRING_MANAGER" \notin Owned(a)
                 /\ l = "discovery_thread" => "is_scanning" \notin Owned(a)
      <4>1. l \in Locks
        BY DEF Kept, Locks
      <4>2. b \in Threads /\ l \in Owned(b)
        BY <1>1, <2>2, <3>3, <4>1 DEF IInv, Typed, Owned
      <4>3. "PAIRING_MANAGER" \in Owned(a) => owner["PAIRING_MANAGER"] = a
        BY DEF Owned
      <4>4. "is_scanning" \in Owned(a) => owner["is_scanning"] = a
        BY DEF Owned
      <4> QED BY <1>1, <3>3, <4>2, <4>3, <4>4
    <3> QED BY <1>1, <2>2, <2>4, <3>1, <3>2, <3>3, Waiting
  <2>5. ASSUME NEW a \in W, a \in running PROVE Holder("is_scanning")
    <3>1. PICK b \in W : WaitsFor(a, b)
      BY <2>1
    <3>2. owner["is_scanning"] = b
      BY <2>3, <2>5, <3>1 DEF WaitsFor
    <3> QED BY <1>1, <2>2, <3>2 DEF IInv, Typed, Owned, Locks
  <2> HIDE DEF Holder
  <2>6. \A l : Holder(l) =>
          \/ (\E b \in W : b \in running) /\ l = "discovery_thread"
          \/ \E k \in Kept : /\ Holder(k) /\ k \in Under(l)
                             /\ k = "DISCOVERED" => l # "PAIRING_MANAGER"
                             /\ k = "discovery_thread" => l # "is_scanning"
    BY <2>4 DEF Holder
  <2>7. ~Holder("is_scanning")
    BY <2>6 DEF Under
  <2>8. \A b \in W : b \notin running
    BY <2>5, <2>7
  <2>9. ~Holder("discovery_thread") /\ ~Holder("PAIRING_MANAGER") /\ ~Holder("LIBP2P_MANAGER")
    BY <2>6, <2>8 DEF Under
  <2>10. ~Holder("STORE")
    BY <2>6, <2>9 DEF Under
  <2>11. ~Holder("DISCOVERED")
    BY <2>6, <2>10 DEF Under
  <2> QED BY <2>1, <2>4, <2>7, <2>8, <2>9, <2>10, <2>11 DEF Kept
<1>2. IInv => KnownCircularWaits
  BY <1>1 DEF KnownCircularWaits
<1> QED BY <1>2, Invariance, PTL
=============================================================================
