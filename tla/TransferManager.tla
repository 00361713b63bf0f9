-------------------------- MODULE TransferManager --------------------------
(***************************************************************************)
(* FileTransferManager of one agent (file_transfer.rs): what the handler   *)
(* threads of all transfers share.  Each handler registers a cancellation  *)
(* channel under its transfer's id and is counted in active_transfers,     *)
(* which holds the power lock; a receiving handler first leaves a decision *)
(* channel, so that the user's answer finds it.  Incoming streams are      *)
(* served by a pool of Workers threads in the order of their arrival,      *)
(* outgoing ones by a thread each.                                         *)
(*                                                                         *)
(* The maps have a lock each, and a call of register_transfer,             *)
(* unregister_transfer or cancel_transfer takes them one after another:    *)
(* every such critical section is an action.  The crash tokens (which only *)
(* test builds use) go the way of the cancellation tokens and are left out.*)
(***************************************************************************)
EXTENDS Naturals, Sequences, FiniteSets

CONSTANTS
  Transfers,   \* transfer ids
  Incoming,    \* the handlers of incoming streams, one per stream
  Outgoing,    \* the handlers of outgoing streams
  Silent,      \* incoming streams whose peer sends no request and stays connected
  Workers,     \* threads of the pool for incoming streams (4)
  KeepAwake,   \* does the platform grant the power lock?
  None

Handlers == Incoming \cup Outgoing

ASSUME ConstantsAssumption ==
  /\ IsFiniteSet(Handlers) /\ Incoming \cap Outgoing = {}
  /\ Silent \subseteq Incoming
  /\ Workers \in Nat \ {0}
  /\ KeepAwake \in BOOLEAN
  /\ None \notin Handlers \cup Transfers

VARIABLES
  pc,                \* where each handler is
  id,                \* its transfer
  file_pool,         \* incoming streams that wait for a worker
  pending_decisions, \* for a transfer, the handler whose answer is awaited
  answer,            \* what a handler's decision channel holds
  cancel_tokens,     \* for a transfer, the handler a cancellation is sent to
  signalled,         \* the handlers whose cancellation channel holds a message
  active_transfers,
  power_lock,
  cancelling,        \* transfers whose cancel_transfer has sent its token only
  shared             \* history: handlers whose transfer had a second handler meanwhile

channels == <<pending_decisions, answer, cancel_tokens, signalled>>
count    == <<active_transfers, power_lock>>
vars == <<pc, id, file_pool, channels, count, cancelling, shared>>

Phase == {"idle", "queued", "reading", "asking", "enrolling", "tokened",
          "deciding", "running", "leaving", "done", "leaked"}

\* Phases in which a handler has its token in the map, or has used it up.
Registered == {"tokened", "deciding", "running"}

\* Phases in which a handler is counted in active_transfers.
Counted == {"deciding", "running", "leaving", "leaked"}

\* Phases in which a handler has a transfer and has not ended.
Engaged == {"asking", "enrolling", "tokened", "deciding", "running", "leaving"}

Init ==
  /\ pc = [h \in Handlers |-> "idle"]
  /\ id = [h \in Handlers |-> None]
  /\ file_pool = <<>>
  /\ pending_decisions = [t \in Transfers |-> None]
  /\ answer = [h \in Handlers |-> "none"]
  /\ cancel_tokens = [t \in Transfers |-> None]
  /\ signalled = {}
  /\ active_transfers = 0 /\ power_lock = FALSE
  /\ cancelling = {} /\ shared = {}

Goto(h, phase) == pc' = [pc EXCEPT ![h] = phase]

\* Handlers that serve transfer t and have not ended.  A user may resume what
\* still runs, and a peer may send a request twice.
Serving(t) == {g \in Handlers : id[g] = t /\ pc[g] \notin {"done", "leaked"}}

TakeOn(h, t) ==
  /\ id' = [id EXCEPT ![h] = t]
  /\ shared' = IF Serving(t) = {} THEN shared ELSE shared \cup Serving(t) \cup {h}

-----------------------------------------------------------------------------
(* The threads of a stream.                                                *)

StreamArrives(h) ==
  /\ pc[h] = "idle" /\ h \in Incoming
  /\ Goto(h, "queued")
  /\ file_pool' = Append(file_pool, h)
  /\ UNCHANGED <<id, channels, count, cancelling, shared>>

BusyOrLeaked ==  \* mutant: a worker that failed is not returned to the pool
  {h \in Incoming : pc[h] \in Engaged \cup {"reading", "leaked"}}
Busy == {h \in Incoming : pc[h] \in Engaged \cup {"reading"}}

WorkerTakes ==
  /\ file_pool # <<>> /\ Cardinality(Busy) < Workers
  /\ Goto(Head(file_pool), "reading")
  /\ file_pool' = Tail(file_pool)
  /\ UNCHANGED <<id, channels, count, cancelling, shared>>

\* The first read has no time-out: it ends with a request or with the stream.
ReadRequest(h, t) ==
  /\ pc[h] = "reading" /\ h \notin Silent
  /\ Goto(h, "asking")
  /\ TakeOn(h, t)
  /\ UNCHANGED <<file_pool, channels, count, cancelling>>

NoRequest(h) ==
  /\ pc[h] = "reading" /\ h \notin Silent
  /\ Goto(h, "done")
  /\ UNCHANGED <<id, file_pool, channels, count, cancelling, shared>>

add_pending_decision(h) ==
  /\ pc[h] = "asking"
  /\ Goto(h, "enrolling")
  /\ pending_decisions' = [pending_decisions EXCEPT ![id[h]] = h]
  /\ UNCHANGED <<id, file_pool, answer, cancel_tokens, signalled, count, cancelling, shared>>

StartOutgoing(h, t) ==
  /\ pc[h] = "idle" /\ h \in Outgoing
  /\ Goto(h, "enrolling")
  /\ TakeOn(h, t)
  /\ UNCHANGED <<file_pool, channels, count, cancelling>>

-----------------------------------------------------------------------------
(* register_transfer and unregister_transfer.                              *)

InsertToken(h) ==
  /\ pc[h] = "enrolling"
  /\ Goto(h, "tokened")
  /\ cancel_tokens' = [cancel_tokens EXCEPT ![id[h]] = h]
  /\ UNCHANGED <<id, file_pool, pending_decisions, answer, signalled, count, cancelling, shared>>

CountInTwice(h) ==  \* mutant: the registration is counted by caller and callee
  /\ pc[h] = "tokened"
  /\ Goto(h, IF h \in Incoming THEN "deciding" ELSE "running")
  /\ active_transfers' = active_transfers + 2
  /\ power_lock' = (power_lock \/ (KeepAwake /\ active_transfers' = 1))
  /\ UNCHANGED <<id, file_pool, channels, cancelling, shared>>
CountInFirst(h) ==  \* mutant: the lock is taken by the second transfer
  /\ pc[h] = "tokened"
  /\ Goto(h, IF h \in Incoming THEN "deciding" ELSE "running")
  /\ active_transfers' = active_transfers + 1
  /\ power_lock' = (power_lock \/ (KeepAwake /\ active_transfers = 1))
  /\ UNCHANGED <<id, file_pool, channels, cancelling, shared>>
CountIn(h) ==
  /\ pc[h] = "tokened"
  /\ Goto(h, IF h \in Incoming THEN "deciding" ELSE "running")
  /\ active_transfers' = active_transfers + 1
  /\ power_lock' = (power_lock \/ (KeepAwake /\ active_transfers' = 1))
  /\ UNCHANGED <<id, file_pool, channels, cancelling, shared>>

\* The token under the id goes, whoever put it there.
RemoveToken(h) ==
  /\ Goto(h, "leaving")
  /\ cancel_tokens' = [cancel_tokens EXCEPT ![id[h]] = None]

CountOutLate(h) ==  \* mutant: the test for an empty count is off by one
  /\ pc[h] = "leaving"
  /\ Goto(h, "done")
  /\ active_transfers' = IF active_transfers > 1 THEN active_transfers - 1 ELSE active_transfers
  /\ power_lock' = (power_lock /\ ~(active_transfers > 0 /\ active_transfers' = 0))
  /\ UNCHANGED <<id, file_pool, channels, cancelling, shared>>
CountOut(h) ==
  /\ pc[h] = "leaving"
  /\ Goto(h, "done")
  /\ active_transfers' = IF active_transfers > 0 THEN active_transfers - 1 ELSE 0
  /\ power_lock' = (power_lock /\ ~(active_transfers > 0 /\ active_transfers' = 0))
  /\ UNCHANGED <<id, file_pool, channels, cancelling, shared>>

-----------------------------------------------------------------------------
(* A registered handler.                                                   *)

TokenForAnswer(h) ==  \* mutant: the token is dropped with the decision
  /\ pc[h] = "deciding" /\ answer[h] # "none"
  /\ answer' = [answer EXCEPT ![h] = "none"]
  /\ IF answer[h] = "accept"
     THEN Goto(h, "running") /\ cancel_tokens' = [cancel_tokens EXCEPT ![id[h]] = None]
     ELSE RemoveToken(h)
  /\ UNCHANGED <<id, file_pool, pending_decisions, signalled, count, cancelling, shared>>
ReceiveAnswer(h) ==
  /\ pc[h] = "deciding" /\ answer[h] # "none"
  /\ answer' = [answer EXCEPT ![h] = "none"]
  /\ IF answer[h] = "accept"
     THEN Goto(h, "running") /\ UNCHANGED cancel_tokens
     ELSE RemoveToken(h)
  /\ UNCHANGED <<id, file_pool, pending_decisions, signalled, count, cancelling, shared>>

\* After 120 s, or as soon as its channel was replaced in the map.
DecisionTimeout(h) ==
  /\ pc[h] = "deciding" /\ answer[h] = "none"
  /\ RemoveToken(h)
  /\ UNCHANGED <<id, file_pool, pending_decisions, answer, signalled, count, cancelling, shared>>

Replaced(h) == pending_decisions[id[h]] # h

NoticeCancel(h) ==
  /\ pc[h] = "running" /\ h \in signalled
  /\ signalled' = signalled \ {h}
  /\ RemoveToken(h)
  /\ UNCHANGED <<id, file_pool, pending_decisions, answer, count, cancelling, shared>>

\* The transfer completes, or fails in one of the ways that are seen to.
Finish(h) ==
  /\ pc[h] = "running"
  /\ RemoveToken(h)
  /\ UNCHANGED <<id, file_pool, pending_decisions, answer, signalled, count, cancelling, shared>>

\* `?' leaves a receiving handler without unregister_transfer.
Leak(h) ==
  /\ pc[h] \in {"deciding", "running"} /\ h \in Incoming
  /\ Goto(h, "leaked")
  /\ UNCHANGED <<id, file_pool, channels, count, cancelling, shared>>

-----------------------------------------------------------------------------
(* The user, and the daemon for a peer that went away.                     *)

\* The sender leaves the map before it is used, so that its channel, which has
\* room for one message, is never full: the map's lock is held meanwhile.
HasRoomForAnswer(h) == answer[h] = "none"

KeepDecision(t, a) ==  \* mutant: the sender stays in the map
  LET h == pending_decisions[t] IN
  IF h = None THEN UNCHANGED <<pending_decisions, answer>>
  ELSE /\ HasRoomForAnswer(h)
       /\ answer' = [answer EXCEPT ![h] = IF pc[h] \in {"enrolling", "tokened", "deciding"}
                                          THEN a ELSE @]
       /\ UNCHANGED pending_decisions
handle_decision(t, a) ==
  LET h == pending_decisions[t] IN
  IF h = None THEN UNCHANGED <<pending_decisions, answer>>
  ELSE /\ HasRoomForAnswer(h)
       /\ answer' = [answer EXCEPT ![h] = IF pc[h] \in {"enrolling", "tokened", "deciding"}
                                          THEN a ELSE @]
       /\ pending_decisions' = [pending_decisions EXCEPT ![t] = None]

Decide(t, a) ==
  /\ handle_decision(t, a)
  /\ UNCHANGED <<pc, id, file_pool, cancel_tokens, signalled, count, cancelling, shared>>

\* cancel_transfer: the token is sent ...
CancelToken(t) ==
  /\ t \notin cancelling
  /\ LET h == cancel_tokens[t] IN
       signalled' = IF h # None /\ pc[h] \in Registered THEN signalled \cup {h} ELSE signalled
  /\ cancel_tokens' = [cancel_tokens EXCEPT ![t] = None]
  /\ cancelling' = cancelling \cup {t}
  /\ UNCHANGED <<pc, id, file_pool, pending_decisions, answer, count, shared>>

\* ... and then the decision, if one is awaited.
OnlyToken(t) ==  \* mutant: cancel_transfer does not answer a pending decision
  /\ t \in cancelling
  /\ cancelling' = cancelling \ {t}
  /\ UNCHANGED <<pc, id, file_pool, channels, count, shared>>
CancelDecision(t) ==
  /\ t \in cancelling
  /\ handle_decision(t, "reject")
  /\ cancelling' = cancelling \ {t}
  /\ UNCHANGED <<pc, id, file_pool, cancel_tokens, signalled, count, shared>>

-----------------------------------------------------------------------------
HandlerStep(h) ==
  \/ add_pending_decision(h) \/ InsertToken(h) \/ CountIn(h) \/ CountOut(h)
  \/ ReceiveAnswer(h) \/ NoticeCancel(h) \/ (DecisionTimeout(h) /\ Replaced(h))

Next ==
  \/ WorkerTakes
  \/ \E h \in Handlers :
       \/ StreamArrives(h) \/ NoRequest(h)
       \/ \E t \in Transfers : ReadRequest(h, t) \/ StartOutgoing(h, t)
       \/ HandlerStep(h) \/ DecisionTimeout(h) \/ Finish(h) \/ Leak(h)
  \/ \E t \in Transfers :
       \/ \E a \in {"accept", "reject"} : Decide(t, a)
       \/ CancelToken(t) \/ CancelDecision(t)

Spec == Init /\ [][Next]_vars

\* Threads run and so does a worker while streams wait; peers that are not
\* silent send a request or close the stream; decisions time out after 120 s;
\* an incoming transfer completes or, after 60 s without a message, fails.
\* Nobody need answer, cancel, or finish what is sent.
FairSpec ==
  /\ Spec
  /\ WF_vars(WorkerTakes)
  /\ \A h \in Handlers : WF_vars(HandlerStep(h))
  /\ \A h \in Incoming : /\ WF_vars(NoRequest(h) \/ \E t \in Transfers : ReadRequest(h, t))
                         /\ WF_vars(DecisionTimeout(h)) /\ WF_vars(Finish(h))

-----------------------------------------------------------------------------
TypeOK ==
  /\ pc \in [Handlers -> Phase]
  /\ id \in [Handlers -> Transfers \cup {None}]
  /\ file_pool \in Seq(Incoming)
  /\ pending_decisions \in [Transfers -> Incoming \cup {None}]
  /\ answer \in [Handlers -> {"none", "accept", "reject"}]
  /\ cancel_tokens \in [Transfers -> Handlers \cup {None}]
  /\ signalled \subseteq Handlers
  /\ active_transfers \in 0..Cardinality(Handlers)
  /\ power_lock \in BOOLEAN
  /\ cancelling \subseteq Transfers
  /\ shared \subseteq Handlers

\* The count is exact over any interleaving of registrations and ends, those
\* that went through `?' counting for ever.
CountIsExact ==
  active_transfers = Cardinality({h \in Handlers : pc[h] \in Counted})

\* The machine is kept awake exactly while a registered handler is counted.
AwakeWhileTransferring ==
  power_lock <=> (KeepAwake /\ \E h \in Handlers : pc[h] \in Counted)

\* A decision or a cancellation is sent while other threads may wait for the
\* same map, on channels with room for one message: they are never full.
SendsNeverBlock ==
  /\ \A t \in Transfers : LET h == pending_decisions[t] IN h # None => HasRoomForAnswer(h)
  /\ \A t \in Transfers : cancel_tokens[t] \notin signalled

\* A handler that has registered, has not ended and never shared its transfer
\* can be cancelled, or has been already: no other handler's end or answer
\* takes its token away.
CanBeCancelled ==
  \A h \in Handlers \ shared : pc[h] \in Registered =>
    cancel_tokens[id[h]] = h \/ h \in signalled

\* Once cancel_transfer has returned, a handler it found does not go on waiting
\* for the user: it has an answer, or its decision was replaced.
CancelAnswers ==
  \A h \in signalled : pc[h] = "deciding" /\ id[h] \notin cancelling =>
    answer[h] # "none" \/ h \in shared

\* As long as fewer streams than workers are held open by silent peers, every
\* stream that arrives is served.
EveryStreamServed ==
  \A h \in Incoming \ Silent : (pc[h] = "queued") ~> (pc[h] \in {"done", "leaked"})
=============================================================================
