----------------------- MODULE TransferManagerProofs -----------------------
(***************************************************************************)
(* Theorems about TransferManager, for every set of transfers and handlers *)
(* and every size of the pool.  TLC's invariants become inductive with     *)
(* InStep: which phases a handler can be in while a map names it, which    *)
(* keeps its channels from being sent to twice.                            *)
(***************************************************************************)
EXTENDS TransferManager, FiniteSetTheorems, SequenceTheorems, TLAPS

Early == {"idle", "queued", "reading"}

\* Streams wait once each, and nothing has happened to them.
PoolInStep ==
  /\ \A i \in 1..Len(file_pool) : pc[file_pool[i]] = "queued"
  /\ \A i, j \in 1..Len(file_pool) : file_pool[i] = file_pool[j] => i = j

IdsInStep == \A h \in Handlers :
  /\ pc[h] \in Early => id[h] = None
  /\ pc[h] \in Engaged => id[h] \in Transfers
  /\ pc[h] \in {"queued", "reading", "asking", "deciding"} => h \in Incoming

DecisionsInStep ==
  /\ \A t \in Transfers : pending_decisions[t] # None =>
       /\ id[pending_decisions[t]] = t
       /\ answer[pending_decisions[t]] = "none"
       /\ pc[pending_decisions[t]] \notin Early \cup {"asking"}
  /\ \A h \in Handlers : pc[h] \in Early \cup {"asking"} => answer[h] = "none"

TokensInStep ==
  /\ \A t \in Transfers : cancel_tokens[t] # None =>
       /\ id[cancel_tokens[t]] = t
       /\ cancel_tokens[t] \notin signalled
       /\ pc[cancel_tokens[t]] \notin Early \cup {"asking", "enrolling"}
  /\ \A h \in signalled : pc[h] \notin Early \cup {"asking", "enrolling"}

\* Two live handlers of a transfer both know that it is shared.
Unique ==
  \A g, h \in Handlers :
    g # h /\ id[g] = id[h] /\ id[h] # None =>
      \/ pc[g] \in {"done", "leaked"} \/ pc[h] \in {"done", "leaked"}
      \/ {g, h} \subseteq shared

\* A receiving handler that has its transfer for itself and has no answer yet
\* can be sent one, and is about to be if it was cancelled.
AnswersInStep ==
  \A h \in Incoming \ shared :
    pc[h] \in {"enrolling", "tokened", "deciding"} /\ answer[h] = "none" =>
      /\ pending_decisions[id[h]] = h
      /\ h \in signalled => id[h] \in cancelling

InStep == PoolInStep /\ IdsInStep /\ DecisionsInStep /\ TokensInStep

CountedHandlers == {h \in Handlers : pc[h] \in Counted}

Typed ==
  /\ pc \in [Handlers -> Phase]
  /\ id \in [Handlers -> Transfers \cup {None}]
  /\ file_pool \in Seq(Incoming)
  /\ pending_decisions \in [Transfers -> Incoming \cup {None}]
  /\ answer \in [Handlers -> {"none", "accept", "reject"}]
  /\ cancel_tokens \in [Transfers -> Handlers \cup {None}]
  /\ signalled \subseteq Handlers
  /\ active_transfers \in Nat
  /\ power_lock \in BOOLEAN
  /\ cancelling \subseteq Transfers
  /\ shared \subseteq Handlers

IInv == Typed /\ InStep /\ Unique /\ CanBeCancelled /\ AnswersInStep /\ CountIsExact /\ AwakeWhileTransferring

-----------------------------------------------------------------------------
(* The count.                                                              *)

LEMMA CountedFinite == IsFiniteSet(CountedHandlers)
  BY FS_Subset, ConstantsAssumption DEF CountedHandlers

\* A step that leaves the phases and the count alone, or moves a handler without
\* crossing the border of Counted, keeps the count exact.
LEMMA CountKept ==
  ASSUME Typed, CountIsExact, AwakeWhileTransferring, UNCHANGED count,
         \A h \in Handlers : pc'[h] \in Counted <=> pc[h] \in Counted
  PROVE  CountIsExact' /\ AwakeWhileTransferring'
<1>1. {h \in Handlers : pc'[h] \in Counted} = {h \in Handlers : pc[h] \in Counted}
  OBVIOUS
<1>2. CountIsExact'
  BY <1>1 DEF CountIsExact, count
<1>3. AwakeWhileTransferring'
  BY <1>1 DEF AwakeWhileTransferring, count
<1> QED BY <1>2, <1>3

LEMMA CountInExact ==
  ASSUME Typed, CountIsExact, AwakeWhileTransferring, NEW h \in Handlers, CountIn(h)
  PROVE  CountIsExact' /\ AwakeWhileTransferring' /\ active_transfers' \in Nat
<1> DEFINE C == {g \in Handlers : pc[g] \in Counted}
           D == {g \in Handlers : pc'[g] \in Counted}
<1>1. IsFiniteSet(C) /\ active_transfers = Cardinality(C) /\ active_transfers \in Nat
  BY CountedFinite DEF CountIsExact, CountedHandlers, Typed
<1>2. h \notin C /\ D = C \cup {h}
  BY DEF CountIn, Goto, Counted, Typed
<1>3. active_transfers' = active_transfers + 1
  BY DEF CountIn
<1> HIDE DEF C, D
<1>4. Cardinality(D) = Cardinality(C) + 1
  BY <1>1, <1>2, FS_AddElement
<1>5. CountIsExact'
  <2>1. active_transfers' = Cardinality(D)
    BY <1>1, <1>3, <1>4
  <2> QED BY <2>1 DEF CountIsExact, D
<1>6. AwakeWhileTransferring'
  <2>1. C = {} => active_transfers' = 1
    BY <1>1, <1>3, FS_EmptySet
  <2>2. power_lock <=> (KeepAwake /\ C # {})
    BY DEF AwakeWhileTransferring, C
  <2>3. power_lock' = (power_lock \/ (KeepAwake /\ active_transfers' = 1))
    BY DEF CountIn
  <2>4. power_lock' <=> (KeepAwake /\ D # {})
    BY <1>2, <2>1, <2>2, <2>3, Zenon
  <2> QED BY <2>4 DEF AwakeWhileTransferring, D
<1> QED BY <1>1, <1>3, <1>5, <1>6

LEMMA CountOutExact ==
  ASSUME Typed, CountIsExact, AwakeWhileTransferring, NEW h \in Handlers, CountOut(h)
  PROVE  CountIsExact' /\ AwakeWhileTransferring' /\ active_transfers' \in Nat
<1> DEFINE C == {g \in Handlers : pc[g] \in Counted}
           D == {g \in Handlers : pc'[g] \in Counted}
<1>1. IsFiniteSet(C) /\ active_transfers = Cardinality(C) /\ active_transfers \in Nat
  BY CountedFinite DEF CountIsExact, CountedHandlers, Typed
<1>2. h \in C /\ D = C \ {h}
  BY DEF CountOut, Goto, Counted, Typed
<1> HIDE DEF C, D
<1>3. Cardinality(D) = Cardinality(C) - 1 /\ IsFiniteSet(D)
  BY <1>1, <1>2, FS_RemoveElement
<1>4. active_transfers > 0
  BY <1>1, <1>2, FS_EmptySet
<1>5. active_transfers' = active_transfers - 1
  BY <1>4 DEF CountOut
<1>6. CountIsExact'
  <2>1. active_transfers' = Cardinality(D)
    BY <1>1, <1>3, <1>5
  <2> QED BY <2>1 DEF CountIsExact, D
<1>7. AwakeWhileTransferring'
  <2>1. active_transfers' = 0 <=> D = {}
    BY <1>1, <1>3, <1>5, FS_EmptySet
  <2>2. power_lock <=> (KeepAwake /\ C # {})
    BY DEF AwakeWhileTransferring, C
  <2>3. power_lock' = (power_lock /\ ~(active_transfers > 0 /\ active_transfers' = 0))
    BY DEF CountOut
  <2>4. power_lock' <=> (KeepAwake /\ D # {})
    BY <1>2, <1>4, <2>1, <2>2, <2>3, Zenon
  <2> QED BY <2>4 DEF AwakeWhileTransferring, D
<1> QED BY <1>1, <1>4, <1>5, <1>6, <1>7

-----------------------------------------------------------------------------
(* The steps.                                                              *)

LEMMA InitIInv == Init => IInv
<1> SUFFICES ASSUME Init PROVE IInv
  OBVIOUS
<1>1. Typed
  <2>1. file_pool \in Seq(Incoming)
    BY DEF Init
  <2>2. pc \in [Handlers -> Phase] /\ id \in [Handlers -> Transfers \cup {None}]
        /\ answer \in [Handlers -> {"none", "accept", "reject"}]
    BY DEF Init, Phase
  <2>3. /\ pending_decisions \in [Transfers -> Incoming \cup {None}]
        /\ cancel_tokens \in [Transfers -> Handlers \cup {None}]
    BY DEF Init
  <2> QED BY <2>1, <2>2, <2>3 DEF Init, Typed
<1>2. InStep
  BY ConstantsAssumption DEF Init, InStep, PoolInStep, IdsInStep, Engaged, DecisionsInStep, TokensInStep
<1>3. Unique /\ CanBeCancelled /\ AnswersInStep
  BY DEF Init, Unique, CanBeCancelled, AnswersInStep, Handlers, Registered
<1>4. CountedHandlers = {}
  BY DEF Init, CountedHandlers, Counted
<1>5. CountIsExact
  BY <1>4, FS_EmptySet DEF Init, CountIsExact, CountedHandlers
<1>6. AwakeWhileTransferring
  BY <1>4 DEF Init, AwakeWhileTransferring, CountedHandlers
<1> QED BY <1>1, <1>2, <1>3, <1>5, <1>6 DEF IInv

\* The invariant but for the count.
Maps == Typed /\ InStep /\ Unique /\ CanBeCancelled

LEMMA ArrivesKeepsMaps ==
  ASSUME Maps, NEW h \in Handlers, StreamArrives(h) PROVE Maps'
<1>1. file_pool' \in Seq(Incoming) /\ Len(file_pool') = Len(file_pool) + 1
      /\ file_pool'[Len(file_pool) + 1] = h
      /\ \A i \in 1..Len(file_pool) : file_pool'[i] = file_pool[i]
  BY DEF StreamArrives, Maps, Typed
<1>2. pc' = [pc EXCEPT ![h] = "queued"] /\ pc[h] = "idle" /\ h \in Incoming
      /\ UNCHANGED <<id, channels, count, cancelling, shared>>
  BY DEF StreamArrives, Goto
<1>3. Typed'
  BY <1>1, <1>2 DEF Maps, Typed, Phase, channels, count
<1>4. PoolInStep'
  <2>1. \A i \in 1..Len(file_pool) : pc[file_pool[i]] = "queued" /\ file_pool[i] # h
                                     /\ file_pool[i] \in Handlers
    BY <1>2 DEF Maps, Typed, InStep, PoolInStep, Handlers
  <2>2. \A i \in 1..Len(file_pool') : i \in 1..Len(file_pool) \/ i = Len(file_pool) + 1
    BY <1>1
  <2>3. \A i \in 1..Len(file_pool') : pc'[file_pool'[i]] = "queued"
    BY <1>1, <1>2, <2>1, <2>2 DEF Maps, Typed
  <2>4. \A i, j \in 1..Len(file_pool') : file_pool'[i] = file_pool'[j] => i = j
    BY <1>1, <2>1, <2>2 DEF Maps, InStep, PoolInStep
  <2> QED BY <2>3, <2>4 DEF PoolInStep
<1>5. IdsInStep' /\ DecisionsInStep' /\ TokensInStep'
  BY <1>2, ConstantsAssumption DEF Maps, Typed, InStep, IdsInStep, Engaged, DecisionsInStep, TokensInStep,
     Early, channels, Handlers
<1>6. Unique' /\ CanBeCancelled'
  BY <1>2 DEF Maps, Typed, Unique, CanBeCancelled, Registered, channels
<1> QED BY <1>3, <1>4, <1>5, <1>6 DEF Maps, InStep

LEMMA TakesKeepsMaps ==
  ASSUME Maps, WorkerTakes PROVE Maps'
<1> DEFINE h == Head(file_pool)
<1>1. file_pool \in Seq(Incoming) /\ file_pool # <<>>
  BY DEF WorkerTakes, Maps, Typed
<1>2. h = file_pool[1] /\ 1 \in 1..Len(file_pool) /\ h \in Incoming
  BY <1>1
<1>3. h \in Handlers /\ pc[h] = "queued"
  BY <1>2 DEF Maps, InStep, PoolInStep, Handlers
<1>4. file_pool' \in Seq(Incoming) /\ Len(file_pool') = Len(file_pool) - 1
      /\ \A i \in 1..Len(file_pool') : file_pool'[i] = file_pool[i + 1] /\ i + 1 \in 1..Len(file_pool)
  BY <1>1 DEF WorkerTakes
<1>5. pc' = [pc EXCEPT ![h] = "reading"] /\ UNCHANGED <<id, channels, count, cancelling, shared>>
  BY DEF WorkerTakes, Goto
<1> HIDE DEF h
<1>6. Typed'
  BY <1>3, <1>4, <1>5 DEF Maps, Typed, Phase, channels, count
<1>7. PoolInStep'
  <2>1. \A i \in 1..Len(file_pool') : i \in Nat /\ file_pool[i + 1] # h
    BY <1>2, <1>4 DEF Maps, InStep, PoolInStep
  <2>2. \A i \in 1..Len(file_pool') : file_pool[i + 1] \in Handlers /\ pc[file_pool[i + 1]] = "queued"
    BY <1>1, <1>4 DEF Maps, InStep, PoolInStep, Handlers
  <2>3. \A i \in 1..Len(file_pool') : pc'[file_pool'[i]] = "queued"
    BY <1>3, <1>4, <1>5, <2>1, <2>2 DEF Maps, Typed
  <2>4. \A i, j \in 1..Len(file_pool') : file_pool'[i] = file_pool'[j] => i + 1 = j + 1
    BY <1>4 DEF Maps, InStep, PoolInStep
  <2>5. \A i, j \in 1..Len(file_pool') : i + 1 = j + 1 => i = j
    OBVIOUS
  <2> QED BY <2>3, <2>4, <2>5 DEF PoolInStep
<1>8. IdsInStep' /\ DecisionsInStep' /\ TokensInStep'
  BY <1>3, <1>5, ConstantsAssumption DEF Maps, Typed, InStep, IdsInStep, Engaged, DecisionsInStep, TokensInStep,
     Early, channels, Handlers
<1>9. Unique' /\ CanBeCancelled'
  BY <1>3, <1>5 DEF Maps, Typed, Unique, CanBeCancelled, Registered, channels
<1> QED BY <1>6, <1>7, <1>8, <1>9 DEF Maps, InStep

\* The pool is untouched by a handler that is past it.
LEMMA PoolKept ==
  ASSUME Maps, NEW h \in Handlers, NEW p, UNCHANGED file_pool,
         pc' = [pc EXCEPT ![h] = p], pc[h] # "queued"
  PROVE  PoolInStep'
<1>1. \A i \in 1..Len(file_pool) : file_pool[i] \in Handlers
  BY DEF Maps, Typed, Handlers
<1> QED BY <1>1 DEF Maps, Typed, InStep, PoolInStep

LEMMA RequestKeepsMaps ==
  ASSUME Maps, NEW h \in Handlers, NEW t \in Transfers, ReadRequest(h, t) PROVE Maps'
<1>1. Typed'
  BY ConstantsAssumption DEF ReadRequest, TakeOn, Serving, Maps, Typed, Phase, channels, count, Goto
<1>2. PoolInStep'
  BY PoolKept DEF ReadRequest, TakeOn, Serving, RemoveToken, Goto, Early, Maps, Typed
<1>3. IdsInStep' /\ DecisionsInStep'
  BY ConstantsAssumption DEF ReadRequest, TakeOn, Serving, Maps, Typed, InStep, IdsInStep, Engaged, DecisionsInStep, Early, channels, Handlers, Goto
<1>4. TokensInStep'
  BY ConstantsAssumption DEF ReadRequest, TakeOn, Serving, Maps, Typed, InStep, TokensInStep, Early, channels, Handlers, Goto
<1>5. Unique'
  BY ConstantsAssumption DEF ReadRequest, TakeOn, Serving, Maps, Typed, InStep, IdsInStep, Unique, Early, channels, Goto
<1>6. CanBeCancelled'
  BY ConstantsAssumption DEF ReadRequest, TakeOn, Serving, Maps, Typed, InStep, TokensInStep, Unique, CanBeCancelled, Registered, channels, Goto
<1> QED BY <1>1, <1>2, <1>3, <1>4, <1>5, <1>6 DEF Maps, InStep

LEMMA NoRequestKeepsMaps ==
  ASSUME Maps, NEW h \in Handlers, NoRequest(h) PROVE Maps'
<1>1. Typed'
  BY ConstantsAssumption DEF NoRequest, Maps, Typed, Phase, channels, count, Goto
<1>2. PoolInStep'
  BY PoolKept DEF NoRequest, RemoveToken, Goto, Early, Maps, Typed
<1>3. IdsInStep' /\ DecisionsInStep'
  BY ConstantsAssumption DEF NoRequest, Maps, Typed, InStep, IdsInStep, Engaged, DecisionsInStep, Early, channels, Handlers, Goto
<1>4. TokensInStep'
  BY ConstantsAssumption DEF NoRequest, Maps, Typed, InStep, TokensInStep, Early, channels, Handlers, Goto
<1>5. Unique'
  BY ConstantsAssumption DEF NoRequest, Maps, Typed, InStep, IdsInStep, Unique, Early, channels, Goto
<1>6. CanBeCancelled'
  BY ConstantsAssumption DEF NoRequest, Maps, Typed, InStep, TokensInStep, Unique, CanBeCancelled, Registered, channels, Goto
<1> QED BY <1>1, <1>2, <1>3, <1>4, <1>5, <1>6 DEF Maps, InStep

LEMMA DecisionAddedKeepsMaps ==
  ASSUME Maps, NEW h \in Handlers, add_pending_decision(h) PROVE Maps'
<1>1. Typed'
  BY ConstantsAssumption DEF add_pending_decision, Maps, Typed, InStep, IdsInStep, Phase, channels, count, Goto
<1>2. PoolInStep'
  BY PoolKept DEF add_pending_decision, RemoveToken, Goto, Early, Maps, Typed
<1>3. IdsInStep' /\ DecisionsInStep'
  BY ConstantsAssumption DEF add_pending_decision, Maps, Typed, InStep, IdsInStep, Engaged, DecisionsInStep, Early, channels, Handlers, Goto
<1>4. TokensInStep'
  BY ConstantsAssumption DEF add_pending_decision, Maps, Typed, InStep, TokensInStep, Early, channels, Handlers, Goto
<1>5. Unique'
  BY ConstantsAssumption DEF add_pending_decision, Maps, Typed, InStep, IdsInStep, Unique, Early, channels, Goto
<1>6. CanBeCancelled'
  BY ConstantsAssumption DEF add_pending_decision, Maps, Typed, InStep, TokensInStep, Unique, CanBeCancelled, Registered, channels, Goto
<1> QED BY <1>1, <1>2, <1>3, <1>4, <1>5, <1>6 DEF Maps, InStep

LEMMA StartKeepsMaps ==
  ASSUME Maps, NEW h \in Handlers, NEW t \in Transfers, StartOutgoing(h, t) PROVE Maps'
<1>1. Typed'
  BY ConstantsAssumption DEF StartOutgoing, TakeOn, Serving, Maps, Typed, Phase, channels, count, Goto
<1>2. PoolInStep'
  BY PoolKept DEF StartOutgoing, TakeOn, Serving, RemoveToken, Goto, Early, Maps, Typed
<1>3. IdsInStep' /\ DecisionsInStep'
  BY ConstantsAssumption DEF StartOutgoing, TakeOn, Serving, Maps, Typed, InStep, IdsInStep, Engaged, DecisionsInStep, Early, channels, Handlers, Goto
<1>4. TokensInStep'
  BY ConstantsAssumption DEF StartOutgoing, TakeOn, Serving, Maps, Typed, InStep, TokensInStep, Early, channels, Handlers, Goto
<1>5. Unique'
  BY ConstantsAssumption DEF StartOutgoing, TakeOn, Serving, Maps, Typed, InStep, IdsInStep, Unique, Early, channels, Goto
<1>6. CanBeCancelled'
  BY ConstantsAssumption DEF StartOutgoing, TakeOn, Serving, Maps, Typed, InStep, TokensInStep, Unique, CanBeCancelled, Registered, channels, Goto
<1> QED BY <1>1, <1>2, <1>3, <1>4, <1>5, <1>6 DEF Maps, InStep

LEMMA InsertKeepsMaps ==
  ASSUME Maps, NEW h \in Handlers, InsertToken(h) PROVE Maps'
<1>1. Typed'
  BY ConstantsAssumption DEF InsertToken, Maps, Typed, Phase, channels, count, Goto
<1>2. PoolInStep'
  BY PoolKept DEF InsertToken, RemoveToken, Goto, Early, Maps, Typed
<1>3. IdsInStep' /\ DecisionsInStep'
  BY ConstantsAssumption DEF InsertToken, Maps, Typed, InStep, IdsInStep, Engaged, DecisionsInStep, Early, channels, Handlers, Goto
<1>4. TokensInStep'
  BY ConstantsAssumption DEF InsertToken, Maps, Typed, InStep, TokensInStep, Early, channels, Handlers, Goto
<1>5. Unique'
  BY ConstantsAssumption DEF InsertToken, Maps, Typed, InStep, IdsInStep, Unique, Early, channels, Goto
<1>6. CanBeCancelled'
  <2> SUFFICES ASSUME NEW g \in Handlers, g \notin shared', pc'[g] \in Registered
               PROVE  cancel_tokens'[id'[g]] = g \/ g \in signalled'
    BY DEF CanBeCancelled
  <2>1. /\ pc[h] = "enrolling" /\ pc' = [pc EXCEPT ![h] = "tokened"]
        /\ cancel_tokens' = [cancel_tokens EXCEPT ![id[h]] = h] /\ UNCHANGED <<id, signalled, shared>>
    BY DEF InsertToken, Goto
  <2>2. id[h] \in Transfers
    BY <2>1 DEF Maps, InStep, IdsInStep, Engaged
  <2>3. CASE g = h
    BY <2>1, <2>2, <2>3 DEF Maps, Typed
  <2>4. CASE g # h
    <3>1. pc[g] \in Registered /\ id[g] \in Transfers
      BY <2>1, <2>4 DEF Maps, Typed, InStep, IdsInStep, Engaged, Registered
    <3>2. id[g] # id[h]
      BY <2>1, <2>2, <2>4, <3>1, ConstantsAssumption DEF Maps, Unique, Registered
    <3>3. cancel_tokens'[id[g]] = cancel_tokens[id[g]]
      BY <2>1, <3>1, <3>2 DEF Maps, Typed
    <3> QED BY <2>1, <3>1, <3>3 DEF Maps, CanBeCancelled
  <2> QED BY <2>3, <2>4
<1> QED BY <1>1, <1>2, <1>3, <1>4, <1>5, <1>6 DEF Maps, InStep

LEMMA CountInKeepsMaps ==
  ASSUME Maps, NEW h \in Handlers, CountIn(h) PROVE Maps'
<1>1. Typed'
  BY ConstantsAssumption DEF CountIn, Maps, Typed, Phase, channels, count, Goto
<1>2. PoolInStep'
  BY PoolKept DEF CountIn, RemoveToken, Goto, Early, Maps, Typed
<1>3. IdsInStep' /\ DecisionsInStep'
  BY ConstantsAssumption DEF CountIn, Maps, Typed, InStep, IdsInStep, Engaged, DecisionsInStep, Early, channels, Handlers, Goto
<1>4. TokensInStep'
  BY ConstantsAssumption DEF CountIn, Maps, Typed, InStep, TokensInStep, Early, channels, Handlers, Goto
<1>5. Unique'
  BY ConstantsAssumption DEF CountIn, Maps, Typed, InStep, IdsInStep, Unique, Early, channels, Goto
<1>6. CanBeCancelled'
  BY ConstantsAssumption DEF CountIn, Maps, Typed, InStep, TokensInStep, Unique, CanBeCancelled, Registered, channels, Goto
<1> QED BY <1>1, <1>2, <1>3, <1>4, <1>5, <1>6 DEF Maps, InStep

LEMMA CountOutKeepsMaps ==
  ASSUME Maps, NEW h \in Handlers, CountOut(h) PROVE Maps'
<1>1. Typed'
  BY ConstantsAssumption DEF CountOut, Maps, Typed, Phase, channels, count, Goto
<1>2. PoolInStep'
  BY PoolKept DEF CountOut, RemoveToken, Goto, Early, Maps, Typed
<1>3. IdsInStep' /\ DecisionsInStep'
  BY ConstantsAssumption DEF CountOut, Maps, Typed, InStep, IdsInStep, Engaged, DecisionsInStep, Early, channels, Handlers, Goto
<1>4. TokensInStep'
  BY ConstantsAssumption DEF CountOut, Maps, Typed, InStep, TokensInStep, Early, channels, Handlers, Goto
<1>5. Unique'
  BY ConstantsAssumption DEF CountOut, Maps, Typed, InStep, IdsInStep, Unique, Early, channels, Goto
<1>6. CanBeCancelled'
  BY ConstantsAssumption DEF CountOut, Maps, Typed, InStep, TokensInStep, Unique, CanBeCancelled, Registered, channels, Goto
<1> QED BY <1>1, <1>2, <1>3, <1>4, <1>5, <1>6 DEF Maps, InStep

\* Unregistering one handler does not touch the token of another.
LEMMA OthersKeepTokens ==
  ASSUME Maps, NEW h \in Handlers, pc[h] \in Registered, RemoveToken(h), UNCHANGED <<id, pending_decisions, shared>>,
         signalled' \in {signalled, signalled \ {h}}
  PROVE  CanBeCancelled'
<1> SUFFICES ASSUME NEW g \in Handlers, g \notin shared', pc'[g] \in Registered
             PROVE  cancel_tokens'[id'[g]] = g \/ g \in signalled'
  BY DEF CanBeCancelled
<1>1. pc' = [pc EXCEPT ![h] = "leaving"] /\ cancel_tokens' = [cancel_tokens EXCEPT ![id[h]] = None]
  BY DEF RemoveToken, Goto
<1>2. g # h /\ pc[g] \in Registered
  BY <1>1 DEF Maps, Typed, Registered
<1>3. id[g] # id[h] /\ id[g] \in Transfers
  BY <1>2, ConstantsAssumption DEF Maps, InStep, IdsInStep, Unique, Registered, Engaged
<1>4. cancel_tokens'[id[g]] = cancel_tokens[id[g]]
  BY <1>1, <1>3 DEF Maps, Typed
<1> QED BY <1>2, <1>4 DEF Maps, CanBeCancelled

LEMMA AnswerKeepsMaps ==
  ASSUME Maps, NEW h \in Handlers, ReceiveAnswer(h) PROVE Maps'
<1>1. Typed'
  BY ConstantsAssumption DEF ReceiveAnswer, Maps, Typed, Phase, channels, count, Goto, RemoveToken
<1>2. PoolInStep'
  BY PoolKept DEF ReceiveAnswer, RemoveToken, Goto, Early, Maps, Typed
<1>3. IdsInStep' /\ DecisionsInStep'
  BY ConstantsAssumption DEF ReceiveAnswer, Maps, Typed, InStep, IdsInStep, Engaged, DecisionsInStep, Early, channels, Handlers, Goto, RemoveToken
<1>4. TokensInStep'
  BY ConstantsAssumption DEF ReceiveAnswer, Maps, Typed, InStep, TokensInStep, Early, channels, Handlers, Goto, RemoveToken
<1>5. Unique'
  BY ConstantsAssumption DEF ReceiveAnswer, Maps, Typed, Unique, Goto, RemoveToken
<1>6. CanBeCancelled'
  <2>1. CASE answer[h] = "accept"
    BY <2>1 DEF ReceiveAnswer, Goto, Maps, Typed, CanBeCancelled, Registered
  <2>2. CASE answer[h] # "accept"
    BY <2>2, OthersKeepTokens DEF ReceiveAnswer, Registered
  <2> QED BY <2>1, <2>2
<1> QED BY <1>1, <1>2, <1>3, <1>4, <1>5, <1>6 DEF Maps, InStep

LEMMA TimeoutKeepsMaps ==
  ASSUME Maps, NEW h \in Handlers, DecisionTimeout(h) PROVE Maps'
<1>1. Typed'
  BY ConstantsAssumption DEF DecisionTimeout, Maps, Typed, Phase, channels, count, Goto, RemoveToken
<1>2. PoolInStep'
  BY PoolKept DEF DecisionTimeout, RemoveToken, Goto, Early, Maps, Typed
<1>3. IdsInStep' /\ DecisionsInStep'
  BY ConstantsAssumption DEF DecisionTimeout, Maps, Typed, InStep, IdsInStep, Engaged, DecisionsInStep, Early, channels, Handlers, Goto, RemoveToken
<1>4. TokensInStep'
  BY ConstantsAssumption DEF DecisionTimeout, Maps, Typed, InStep, TokensInStep, Early, channels, Handlers, Goto, RemoveToken
<1>5. Unique'
  BY ConstantsAssumption DEF DecisionTimeout, Maps, Typed, InStep, IdsInStep, Unique, Early, channels, Goto, RemoveToken
<1>6. CanBeCancelled'
  BY ConstantsAssumption DEF DecisionTimeout, Maps, Typed, InStep, TokensInStep, Unique, CanBeCancelled, Registered, channels, Goto, RemoveToken
<1> QED BY <1>1, <1>2, <1>3, <1>4, <1>5, <1>6 DEF Maps, InStep

LEMMA NoticeKeepsMaps ==
  ASSUME Maps, NEW h \in Handlers, NoticeCancel(h) PROVE Maps'
<1>1. Typed'
  BY ConstantsAssumption DEF NoticeCancel, Maps, Typed, Phase, channels, count, Goto, RemoveToken
<1>2. PoolInStep'
  BY PoolKept DEF NoticeCancel, RemoveToken, Goto, Early, Maps, Typed
<1>3. IdsInStep' /\ DecisionsInStep'
  BY ConstantsAssumption DEF NoticeCancel, Maps, Typed, InStep, IdsInStep, Engaged, DecisionsInStep, Early, channels, Handlers, Goto, RemoveToken
<1>4. TokensInStep'
  BY ConstantsAssumption DEF NoticeCancel, Maps, Typed, InStep, TokensInStep, Early, channels, Handlers, Goto, RemoveToken
<1>5. Unique'
  BY ConstantsAssumption DEF NoticeCancel, Maps, Typed, InStep, IdsInStep, Unique, Early, channels, Goto, RemoveToken
<1>6. CanBeCancelled'
  BY ConstantsAssumption DEF NoticeCancel, Maps, Typed, InStep, TokensInStep, Unique, CanBeCancelled, Registered, channels, Goto, RemoveToken
<1> QED BY <1>1, <1>2, <1>3, <1>4, <1>5, <1>6 DEF Maps, InStep

LEMMA FinishKeepsMaps ==
  ASSUME Maps, NEW h \in Handlers, Finish(h) PROVE Maps'
<1>1. Typed'
  BY ConstantsAssumption DEF Finish, Maps, Typed, Phase, channels, count, Goto, RemoveToken
<1>2. PoolInStep'
  BY PoolKept DEF Finish, RemoveToken, Goto, Early, Maps, Typed
<1>3. IdsInStep' /\ DecisionsInStep'
  BY ConstantsAssumption DEF Finish, Maps, Typed, InStep, IdsInStep, Engaged, DecisionsInStep, Early, channels, Handlers, Goto, RemoveToken
<1>4. TokensInStep'
  BY ConstantsAssumption DEF Finish, Maps, Typed, InStep, TokensInStep, Early, channels, Handlers, Goto, RemoveToken
<1>5. Unique'
  BY ConstantsAssumption DEF Finish, Maps, Typed, InStep, IdsInStep, Unique, Early, channels, Goto, RemoveToken
<1>6. CanBeCancelled'
  BY ConstantsAssumption DEF Finish, Maps, Typed, InStep, TokensInStep, Unique, CanBeCancelled, Registered, channels, Goto, RemoveToken
<1> QED BY <1>1, <1>2, <1>3, <1>4, <1>5, <1>6 DEF Maps, InStep

LEMMA LeakKeepsMaps ==
  ASSUME Maps, NEW h \in Handlers, Leak(h) PROVE Maps'
<1>1. Typed'
  BY ConstantsAssumption DEF Leak, Maps, Typed, Phase, channels, count, Goto
<1>2. PoolInStep'
  BY PoolKept DEF Leak, RemoveToken, Goto, Early, Maps, Typed
<1>3. IdsInStep' /\ DecisionsInStep'
  BY ConstantsAssumption DEF Leak, Maps, Typed, InStep, IdsInStep, Engaged, DecisionsInStep, Early, channels, Handlers, Goto
<1>4. TokensInStep'
  BY ConstantsAssumption DEF Leak, Maps, Typed, InStep, TokensInStep, Early, channels, Handlers, Goto
<1>5. Unique'
  BY ConstantsAssumption DEF Leak, Maps, Typed, InStep, IdsInStep, Unique, Early, channels, Goto
<1>6. CanBeCancelled'
  BY ConstantsAssumption DEF Leak, Maps, Typed, InStep, TokensInStep, Unique, CanBeCancelled, Registered, channels, Goto
<1> QED BY <1>1, <1>2, <1>3, <1>4, <1>5, <1>6 DEF Maps, InStep

LEMMA DecideKeepsMaps ==
  ASSUME Maps, NEW t \in Transfers, NEW a \in {"accept", "reject"}, handle_decision(t, a),
         UNCHANGED <<pc, id, file_pool, cancel_tokens, signalled, count, shared>>, cancelling' \subseteq Transfers
  PROVE  Maps'
<1> DEFINE h == pending_decisions[t]
<1>1. CASE h = None
  <2>1. UNCHANGED <<pending_decisions, answer>>
    BY <1>1 DEF handle_decision
  <2> QED BY <2>1 DEF Maps, Typed, count, InStep, PoolInStep, IdsInStep, DecisionsInStep, TokensInStep,
          Unique, CanBeCancelled
<1>2. CASE h # None
  <2>1. h \in Handlers /\ id[h] = t
    BY <1>2 DEF Maps, Typed, InStep, DecisionsInStep, Handlers
  <2>2. pending_decisions' = [pending_decisions EXCEPT ![t] = None]
        /\ \/ answer' = [answer EXCEPT ![h] = a] /\ pc[h] \in {"enrolling", "tokened", "deciding"}
           \/ answer' = answer
    BY <1>2, <2>1 DEF handle_decision, Maps, Typed
  <2> HIDE DEF h
  <2>3. Typed'
    BY <2>1, <2>2 DEF Maps, Typed, count
  <2>4. DecisionsInStep'
    BY <2>1, <2>2 DEF Maps, Typed, InStep, DecisionsInStep, Early, Handlers
  <2> QED BY <2>3, <2>4 DEF Maps, Typed, InStep, PoolInStep, IdsInStep, TokensInStep, Unique, CanBeCancelled
<1> QED BY <1>1, <1>2

LEMMA CancelKeepsMaps ==
  ASSUME Maps, NEW t \in Transfers, CancelToken(t) PROVE Maps'
<1> DEFINE h == cancel_tokens[t]
<1>1. /\ cancel_tokens' = [cancel_tokens EXCEPT ![t] = None]
      /\ signalled' = IF h # None /\ pc[h] \in Registered THEN signalled \cup {h} ELSE signalled
      /\ cancelling' = cancelling \cup {t}
      /\ UNCHANGED <<pc, id, file_pool, pending_decisions, answer, count, shared>>
  BY DEF CancelToken
<1>2. h # None => h \in Handlers /\ id[h] = t /\ pc[h] \notin Early \cup {"asking", "enrolling"}
  BY DEF Maps, Typed, InStep, TokensInStep
<1> HIDE DEF h
<1>3. Typed'
  BY <1>1, <1>2 DEF Maps, Typed, count
<1>4. TokensInStep'
  <2>1. \A u \in Transfers : cancel_tokens'[u] # None =>
          u # t /\ cancel_tokens'[u] = cancel_tokens[u] /\ id[cancel_tokens[u]] = u
    BY <1>1 DEF Maps, Typed, InStep, TokensInStep
  <2> QED BY <1>1, <1>2, <2>1 DEF Maps, InStep, TokensInStep
<1>5. CanBeCancelled'
  <2> SUFFICES ASSUME NEW g \in Handlers, g \notin shared', pc[g] \in Registered
               PROVE  cancel_tokens'[id[g]] = g \/ g \in signalled'
    BY <1>1 DEF CanBeCancelled
  <2>1. cancel_tokens[id[g]] = g \/ g \in signalled
    BY <1>1 DEF Maps, CanBeCancelled
  <2>2. CASE id[g] = t
    BY <1>1, <2>1, <2>2, ConstantsAssumption DEF h
  <2>3. CASE id[g] # t
    BY <1>1, <2>1, <2>3 DEF Maps, Typed
  <2> QED BY <2>2, <2>3
<1> QED BY <1>1, <1>3, <1>4, <1>5 DEF Maps, InStep, PoolInStep, IdsInStep, DecisionsInStep, Unique

LEMMA NextKeepsMaps ==
  ASSUME Maps, [Next]_vars PROVE Maps'
<1>1. CASE WorkerTakes
  BY <1>1, TakesKeepsMaps
<1>2. ASSUME NEW h \in Handlers, StreamArrives(h) \/ NoRequest(h) PROVE Maps'
  BY <1>2, ArrivesKeepsMaps, NoRequestKeepsMaps
<1>3. ASSUME NEW h \in Handlers, NEW t \in Transfers, ReadRequest(h, t) \/ StartOutgoing(h, t) PROVE Maps'
  BY <1>3, RequestKeepsMaps, StartKeepsMaps
<1>4. ASSUME NEW h \in Handlers, HandlerStep(h) PROVE Maps'
  BY <1>4, DecisionAddedKeepsMaps, InsertKeepsMaps, CountInKeepsMaps, CountOutKeepsMaps, AnswerKeepsMaps,
     NoticeKeepsMaps, TimeoutKeepsMaps DEF HandlerStep
<1>5. ASSUME NEW h \in Handlers, DecisionTimeout(h) \/ Finish(h) \/ Leak(h) PROVE Maps'
  BY <1>5, TimeoutKeepsMaps, FinishKeepsMaps, LeakKeepsMaps
<1>6. ASSUME NEW t \in Transfers, NEW a \in {"accept", "reject"}, Decide(t, a) PROVE Maps'
  <2>1. cancelling' \subseteq Transfers
    BY <1>6 DEF Decide, Maps, Typed
  <2> QED BY <1>6, <2>1, DecideKeepsMaps DEF Decide
<1>7. ASSUME NEW t \in Transfers, CancelToken(t) PROVE Maps'
  BY <1>7, CancelKeepsMaps
<1>8. ASSUME NEW t \in Transfers, CancelDecision(t) PROVE Maps'
  <2>1. cancelling' \subseteq Transfers
    BY <1>8 DEF CancelDecision, Maps, Typed
  <2> QED BY <1>8, <2>1, DecideKeepsMaps DEF CancelDecision
<1>9. CASE UNCHANGED vars
  BY <1>9 DEF vars, channels, count, Maps, Typed, InStep, PoolInStep, IdsInStep, DecisionsInStep,
     TokensInStep, Unique, CanBeCancelled
<1> QED BY <1>1, <1>2, <1>3, <1>4, <1>5, <1>6, <1>7, <1>8, <1>9 DEF Next

LEMMA NextKeepsAnswers ==
  ASSUME Maps, AnswersInStep, [Next]_vars PROVE AnswersInStep'
<1> USE DEF AnswersInStep
<1>1. CASE WorkerTakes
  <2>1. Head(file_pool) \in Handlers
    BY <1>1 DEF WorkerTakes, Maps, Typed, Handlers
  <2> QED BY <1>1, <2>1 DEF WorkerTakes, Goto, channels, Maps, Typed, Handlers
<1>2. ASSUME NEW h \in Handlers, StreamArrives(h) \/ NoRequest(h) PROVE AnswersInStep'
  BY <1>2 DEF StreamArrives, NoRequest, Goto, channels, Maps, Typed, Handlers
<1>3. ASSUME NEW h \in Handlers, NEW t \in Transfers, ReadRequest(h, t) \/ StartOutgoing(h, t)
      PROVE  AnswersInStep'
  <2>1. \A g \in Incoming : pc'[g] \in {"enrolling", "tokened", "deciding"} =>
          g # h /\ pc'[g] = pc[g] /\ id'[g] = id[g]
    BY <1>3, ConstantsAssumption DEF ReadRequest, StartOutgoing, TakeOn, Goto, Maps, Typed, Handlers
  <2>2. UNCHANGED <<pending_decisions, answer, signalled, cancelling>> /\ shared \subseteq shared'
    BY <1>3 DEF ReadRequest, StartOutgoing, TakeOn, channels
  <2> QED BY <2>1, <2>2
<1>4. ASSUME NEW h \in Handlers, add_pending_decision(h) PROVE AnswersInStep'
  <2>1. /\ pc[h] = "asking" /\ pc' = [pc EXCEPT ![h] = "enrolling"]
        /\ pending_decisions' = [pending_decisions EXCEPT ![id[h]] = h]
        /\ UNCHANGED <<id, answer, signalled, cancelling, shared>>
    BY <1>4 DEF add_pending_decision, Goto
  <2>2. id[h] \in Transfers /\ h \notin signalled
    BY <2>1 DEF Maps, InStep, IdsInStep, Engaged, TokensInStep
  <2>3. ASSUME NEW g \in Incoming \ shared, g # h, pc[g] \in {"enrolling", "tokened", "deciding"}
        PROVE  id[g] # id[h]
    BY <2>1, <2>2, <2>3, ConstantsAssumption DEF Maps, Unique, Handlers
  <2> QED BY <2>1, <2>2, <2>3 DEF Maps, Typed, Handlers
<1>5. ASSUME NEW h \in Handlers, InsertToken(h) \/ CountIn(h) PROVE AnswersInStep'
  BY <1>5 DEF InsertToken, CountIn, Goto, channels, Maps, Typed, Handlers
<1>6. ASSUME NEW h \in Handlers,
             \/ CountOut(h) \/ ReceiveAnswer(h) \/ NoticeCancel(h) \/ DecisionTimeout(h) \/ Finish(h) \/ Leak(h)
      PROVE  AnswersInStep'
  <2>1. \A g \in Incoming : pc'[g] \in {"enrolling", "tokened", "deciding"} =>
          g # h /\ pc'[g] = pc[g]
    BY <1>6 DEF CountOut, ReceiveAnswer, NoticeCancel, DecisionTimeout, Finish, Leak, RemoveToken, Goto,
       Maps, Typed, Handlers
  <2>2. /\ UNCHANGED <<id, pending_decisions, cancelling, shared>> /\ signalled' \subseteq signalled
        /\ \A g \in Handlers : g # h => answer'[g] = answer[g]
    BY <1>6 DEF CountOut, ReceiveAnswer, NoticeCancel, DecisionTimeout, Finish, Leak, channels, Maps, Typed
  <2> QED BY <2>1, <2>2 DEF Handlers
<1>7. ASSUME NEW t \in Transfers, NEW a \in {"accept", "reject"}, handle_decision(t, a),
             UNCHANGED <<pc, id, signalled, shared>>,
             cancelling' \in {cancelling, cancelling \ {t}}
      PROVE  AnswersInStep'
  <2> SUFFICES ASSUME NEW g \in Incoming \ shared, pc[g] \in {"enrolling", "tokened", "deciding"},
                      answer'[g] = "none"
               PROVE  /\ pending_decisions'[id[g]] = g
                      /\ g \in signalled => id[g] \in cancelling'
    BY <1>7
  <2>1. g \in Handlers /\ g # None
    BY ConstantsAssumption DEF Handlers
  <2>2. answer[g] = "none"
    BY <1>7, <2>1 DEF handle_decision, HasRoomForAnswer, Maps, Typed
  <2>3. pending_decisions[id[g]] = g /\ (g \in signalled => id[g] \in cancelling)
    BY <2>2
  <2>4. id[g] # t
    <3>1. ASSUME id[g] = t PROVE FALSE
      <4>1. answer' = [answer EXCEPT ![g] = a]
        BY <1>7, <2>1, <2>3, <3>1 DEF handle_decision
      <4>2. answer'[g] = a
        BY <2>1, <4>1 DEF Maps, Typed
      <4> QED BY <4>2
    <3> QED BY <3>1
  <2>5. pending_decisions'[id[g]] = pending_decisions[id[g]]
    <3>1. id[g] \in Transfers
      BY <2>1 DEF Maps, InStep, IdsInStep, Engaged
    <3>2. CASE pending_decisions' = pending_decisions
      BY <3>2
    <3>3. CASE pending_decisions' = [pending_decisions EXCEPT ![t] = None]
      BY <2>4, <3>1, <3>3 DEF Maps, Typed
    <3> QED BY <1>7, <3>2, <3>3 DEF handle_decision
  <2> QED BY <1>7, <2>3, <2>4, <2>5
<1>8. ASSUME NEW t \in Transfers, NEW a \in {"accept", "reject"}, Decide(t, a) PROVE AnswersInStep'
  BY <1>7, <1>8 DEF Decide
<1>9. ASSUME NEW t \in Transfers, CancelToken(t) PROVE AnswersInStep'
  <2>1. /\ signalled' \in {signalled, signalled \cup {cancel_tokens[t]}}
        /\ cancelling' = cancelling \cup {t}
        /\ UNCHANGED <<pc, id, pending_decisions, answer, shared>>
    BY <1>9 DEF CancelToken
  <2>2. cancel_tokens[t] # None => id[cancel_tokens[t]] = t
    BY DEF Maps, InStep, TokensInStep
  <2>3. \A g \in Incoming : g # None
    BY ConstantsAssumption DEF Handlers
  <2> SUFFICES ASSUME NEW g \in Incoming \ shared, pc[g] \in {"enrolling", "tokened", "deciding"},
                      answer[g] = "none"
               PROVE  /\ pending_decisions[id[g]] = g
                      /\ g \in signalled' => id[g] \in cancelling'
    BY <2>1
  <2>4. pending_decisions[id[g]] = g /\ (g \in signalled => id[g] \in cancelling)
    OBVIOUS
  <2>5. g = cancel_tokens[t] => id[g] = t
    BY <2>2, <2>3
  <2> QED BY <2>1, <2>4, <2>5
<1>10. ASSUME NEW t \in Transfers, CancelDecision(t) PROVE AnswersInStep'
  BY <1>7, <1>10 DEF CancelDecision
<1>11. CASE UNCHANGED vars
  BY <1>11 DEF vars, channels
<1> QED BY <1>1, <1>2, <1>3, <1>4, <1>5, <1>6, <1>8, <1>9, <1>10, <1>11 DEF Next, HandlerStep

\* Only CountIn and CountOut move a handler across the border of Counted.
LEMMA NextKeepsCount ==
  ASSUME Typed, PoolInStep, CountIsExact, AwakeWhileTransferring, [Next]_vars
  PROVE  CountIsExact' /\ AwakeWhileTransferring'
<1>1. ASSUME NEW h \in Handlers, CountIn(h) \/ CountOut(h) PROVE CountIsExact' /\ AwakeWhileTransferring'
  BY <1>1, CountInExact, CountOutExact
<1>2. CASE WorkerTakes
  <2>1. Head(file_pool) \in Handlers /\ pc[Head(file_pool)] = "queued"
    BY <1>2 DEF WorkerTakes, Typed, PoolInStep, Handlers
  <2>2. \A h \in Handlers : pc'[h] \in Counted <=> pc[h] \in Counted
    BY <1>2, <2>1 DEF WorkerTakes, Goto, Counted, Typed
  <2> QED BY <1>2, <2>2, CountKept DEF WorkerTakes
<1>3. ASSUME NEW h \in Handlers, StreamArrives(h) \/ NoRequest(h) PROVE CountIsExact' /\ AwakeWhileTransferring'
  <2>1. \A g \in Handlers : pc'[g] \in Counted <=> pc[g] \in Counted
    BY <1>3 DEF StreamArrives, NoRequest, Goto, Counted, Typed
  <2> QED BY <1>3, <2>1, CountKept DEF StreamArrives, NoRequest
<1>4. ASSUME NEW h \in Handlers, NEW t \in Transfers, ReadRequest(h, t) \/ StartOutgoing(h, t)
      PROVE  CountIsExact' /\ AwakeWhileTransferring'
  <2>1. \A g \in Handlers : pc'[g] \in Counted <=> pc[g] \in Counted
    BY <1>4 DEF ReadRequest, StartOutgoing, Goto, Counted, Typed
  <2> QED BY <1>4, <2>1, CountKept DEF ReadRequest, StartOutgoing
<1>5. ASSUME NEW h \in Handlers,
             \/ add_pending_decision(h) \/ InsertToken(h) \/ ReceiveAnswer(h)
             \/ NoticeCancel(h) \/ DecisionTimeout(h) \/ Finish(h) \/ Leak(h)
      PROVE  CountIsExact' /\ AwakeWhileTransferring'
  <2>1. \A g \in Handlers : pc'[g] \in Counted <=> pc[g] \in Counted
    BY <1>5 DEF add_pending_decision, InsertToken, ReceiveAnswer, NoticeCancel, DecisionTimeout, Finish, Leak,
       RemoveToken, Goto, Counted, Typed
  <2>2. UNCHANGED count
    BY <1>5 DEF add_pending_decision, InsertToken, ReceiveAnswer, NoticeCancel, DecisionTimeout, Finish, Leak
  <2> QED BY <2>1, <2>2, CountKept
<1>6. ASSUME NEW t \in Transfers,
             (\E a \in {"accept", "reject"} : Decide(t, a)) \/ CancelToken(t) \/ CancelDecision(t)
      PROVE  CountIsExact' /\ AwakeWhileTransferring'
  BY <1>6, CountKept DEF Decide, CancelToken, CancelDecision
<1>7. CASE UNCHANGED vars
  BY <1>7, CountKept DEF vars
<1> QED BY <1>1, <1>2, <1>3, <1>4, <1>5, <1>6, <1>7 DEF Next, HandlerStep

LEMMA Inductive == IInv /\ [Next]_vars => IInv'
<1> SUFFICES ASSUME IInv, [Next]_vars PROVE IInv'
  OBVIOUS
<1>1. Maps' BY NextKeepsMaps DEF IInv, Maps
<1>2. CountIsExact' /\ AwakeWhileTransferring' BY NextKeepsCount DEF IInv, InStep
<1>3. AnswersInStep' BY NextKeepsAnswers DEF IInv, Maps
<1> QED BY <1>1, <1>2, <1>3 DEF IInv, Maps

LEMMA SpecIInv == Spec => []IInv
  BY InitIInv, Inductive, PTL DEF Spec

-----------------------------------------------------------------------------
(* The theorems.                                                           *)

\* Every state of a manager is well typed; its count stays within the handlers.
THEOREM TypeCorrect == Spec => []TypeOK
<1>1. IInv => TypeOK
  <2> SUFFICES ASSUME IInv PROVE TypeOK
    OBVIOUS
  <2>1. active_transfers \in 0..Cardinality(Handlers)
    <3>1. CountedHandlers \in SUBSET Handlers
      BY DEF CountedHandlers
    <3>2. Cardinality(CountedHandlers) <= Cardinality(Handlers) /\ Cardinality(Handlers) \in Nat
      BY <3>1, FS_Subset, FS_CardinalityType, ConstantsAssumption
    <3> QED BY <3>2 DEF IInv, Typed, CountIsExact, CountedHandlers
  <2> QED BY <2>1 DEF IInv, Typed, TypeOK
<1> QED BY <1>1, SpecIInv, PTL

\* active_transfers counts the registered handlers, for any interleaving.
THEOREM CountingIsExact == Spec => []CountIsExact
<1>1. IInv => CountIsExact BY DEF IInv
<1> QED BY <1>1, SpecIInv, PTL

\* The power lock is held exactly while a handler is counted.
THEOREM StaysAwake == Spec => []AwakeWhileTransferring
<1>1. IInv => AwakeWhileTransferring BY DEF IInv
<1> QED BY <1>1, SpecIInv, PTL

\* handle_decision and cancel_transfer never wait for room in a channel while
\* they hold up the users of the map.
THEOREM NoBlockedSend == Spec => []SendsNeverBlock
<1>1. IInv => SendsNeverBlock
  BY ConstantsAssumption DEF IInv, Typed, InStep, DecisionsInStep, TokensInStep, SendsNeverBlock, HasRoomForAnswer
<1> QED BY <1>1, SpecIInv, PTL

\* A cancelled handler is not left waiting for its user.
THEOREM CancelledAreAnswered == Spec => []CancelAnswers
<1>1. IInv => CancelAnswers
  BY DEF IInv, Typed, InStep, IdsInStep, AnswersInStep, CancelAnswers
<1> QED BY <1>1, SpecIInv, PTL

\* No handler that has its transfer for itself is out of the user's reach.
THEOREM AlwaysCancellable == Spec => []CanBeCancelled
<1>1. IInv => CanBeCancelled BY DEF IInv
<1> QED BY <1>1, SpecIInv, PTL
=============================================================================
