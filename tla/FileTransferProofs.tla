------------------------- MODULE FileTransferProofs -------------------------
(***************************************************************************)
(* Theorems about FileTransfer, for every number of chunks, window, number *)
(* of attempts and set of faults.  The inductive invariant is TypeOK with  *)
(* StreamsInStep and CompleteMeansDelivered itself: a sender's record is   *)
(* complete only after an Ack read in the final wait, and StreamsInStep    *)
(* says that no other Ack than the one sent after the rename can be there. *)
(***************************************************************************)
EXTENDS FileTransfer, SequenceTheorems, FiniteSetTheorems, TLAPS

-----------------------------------------------------------------------------
(* Messages and queues.                                                    *)

LEMMA MessageFields ==
  ASSUME NEW m \in Message
  PROVE  /\ m.type = "Chunk" => m.chunk \in Chunks /\ m.data \in 0..MaxEdits
         /\ m.type = "Ack" => m.chunk \in 0..N /\ m.bytes \in 0..N
         /\ m.type = "Acceptance" => m.ok \in BOOLEAN /\ m.from \in 0..N /\ m.missing \in SUBSET Chunks
  BY DEF Message, Request, Complete, Cancel, Error

\* Every message the two handlers write is one.
LEMMA MessagesWritten ==
  ASSUME TypeOK
  PROVE  /\ {Request, Complete, Cancel, Error} \subseteq Message
         /\ \A c \in Chunks : Chunk(c) \in Message
         /\ \A c \in 0..N, b \in 0..N : Ack(c, b) \in Message
         /\ \A ok \in BOOLEAN, f \in 0..N, ms \in SUBSET Chunks : Acceptance(ok, f, ms) \in Message
         /\ AcceptanceNow \in Message
<1>1. \A ok \in BOOLEAN, f \in 0..N, ms \in SUBSET Chunks : Acceptance(ok, f, ms) \in Message
  BY DEF Message, Acceptance
<1>2. AcceptanceNow \in Message
  <2>1. rBytes \in 0..N /\ Chunks \ verified \in SUBSET Chunks /\ 0 \in 0..N /\ {} \in SUBSET Chunks
    BY ConstantsAssumption DEF TypeOK
  <2> QED BY <1>1, <2>1 DEF AcceptanceNow
<1>3. \A c \in Chunks : Chunk(c) \in Message
  BY DEF Message, Chunk, TypeOK
<1>4. \A c \in 0..N, b \in 0..N : Ack(c, b) \in Message
  BY DEF Message, Ack
<1>5. {Request, Complete, Cancel, Error} \subseteq Message
  BY DEF Message
<1> QED BY <1>1, <1>2, <1>3, <1>4, <1>5

\* The first message of a queue, and what is left of it.
LEMMA QueueOps ==
  ASSUME NEW ch \in [Attempts -> Seq(Message)], NEW a \in Attempts, ch[a] # <<>>
  PROVE  /\ Head(ch[a]) \in Message
         /\ [ch EXCEPT ![a] = Tail(@)] \in [Attempts -> Seq(Message)]
         /\ LoseLast(ch, a) \in [Attempts -> Seq(Message)]
<1>1. ch[a] \in Seq(Message) /\ Len(ch[a]) >= 1
  OBVIOUS
<1>2. Tail(ch[a]) \in Seq(Message) /\ Head(ch[a]) \in Message
  BY <1>1
<1>3. SubSeq(ch[a], 1, Len(ch[a]) - 1) \in Seq(Message)
  BY <1>1
<1> QED BY <1>2, <1>3 DEF LoseLast

\* Reading or discarding keeps a family of queues one.
LEMMA ReadKeepsType ==
  ASSUME TypeOK, NEW a \in Attempts
  PROVE  /\ Discard(s2r, a) => s2r' \in [Attempts -> Seq(Message)]
         /\ Discard(r2s, a) => r2s' \in [Attempts -> Seq(Message)]
         /\ s2r[a] # <<>> /\ Consume(s2r, a) => s2r' \in [Attempts -> Seq(Message)]
         /\ r2s[a] # <<>> /\ Consume(r2s, a) => r2s' \in [Attempts -> Seq(Message)]
<1>1. s2r \in [Attempts -> Seq(Message)] /\ r2s \in [Attempts -> Seq(Message)]
  BY DEF TypeOK
<1>2. <<>> \in Seq(Message)
  OBVIOUS
<1>3. s2r[a] # <<>> => [s2r EXCEPT ![a] = Tail(@)] \in [Attempts -> Seq(Message)]
  BY <1>1, QueueOps
<1>4. r2s[a] # <<>> => [r2s EXCEPT ![a] = Tail(@)] \in [Attempts -> Seq(Message)]
  BY <1>1, QueueOps
<1>5. /\ [s2r EXCEPT ![a] = <<>>] \in [Attempts -> Seq(Message)]
      /\ [r2s EXCEPT ![a] = <<>>] \in [Attempts -> Seq(Message)]
  BY <1>1, <1>2
<1> QED BY <1>3, <1>4, <1>5 DEF Discard, Consume

LEMMA WriteKeepsType ==
  ASSUME TypeOK, NEW a \in Attempts, NEW m \in Message
  PROVE  /\ ToReceiver(a, m) => s2r' \in [Attempts -> Seq(Message)]
         /\ ToSender(a, m) => r2s' \in [Attempts -> Seq(Message)]
<1>1. s2r \in [Attempts -> Seq(Message)] /\ r2s \in [Attempts -> Seq(Message)]
  BY DEF TypeOK
<1>2. Append(s2r[a], m) \in Seq(Message) /\ Append(r2s[a], m) \in Seq(Message)
  BY <1>1
<1> QED BY <1>1, <1>2 DEF ToReceiver, ToSender

-----------------------------------------------------------------------------
(* Type correctness.                                                       *)

LEMMA TypeInit == Init => TypeOK
<1> SUFFICES ASSUME Init PROVE TypeOK
  OBVIOUS
<1>1. 0 \in 0..N /\ 0 \in 0..Window /\ 0 \in 0..MaxEdits
  BY ConstantsAssumption
<1>2. Empty \in [Chunks -> Content]
  BY DEF Empty, Content, Hole
<1>3. <<>> \in Seq(Message)
  OBVIOUS
<1> QED BY <1>1, <1>2, <1>3 DEF Init, TypeOK, Status

\* What the end of a handler leaves.
LEMMA SenderEndsType ==
  ASSUME TypeOK, NEW a \in Attempts, NEW st \in Status, NEW ok \in BOOLEAN, SenderEnds(a, st, ok)
  PROVE  /\ sStatus' \in Status
         /\ spc' \in [Attempts -> {"idle", "done", "dead"} \cup SenderLive \cup Closing]
         /\ next' \in [Attempts -> 0..N] /\ wanted' \in [Attempts -> SUBSET Chunks]
         /\ pending' \in [Attempts -> 0..Window] /\ sCancel' \in [Attempts -> BOOLEAN]
         /\ r2s' \in [Attempts -> Seq(Message)]
<1>1. 0 \in 0..N /\ 0 \in 0..Window
  BY ConstantsAssumption
<1>2. r2s' \in [Attempts -> Seq(Message)]
  BY ReadKeepsType DEF SenderEnds
<1>3. End(ok) \in Closing
  BY DEF End, Closing
<1> QED BY <1>1, <1>2, <1>3 DEF TypeOK, SenderEnds, SenderForgets

LEMMA ReceiverReturnsType ==
  ASSUME TypeOK, NEW a \in Attempts, NEW st \in Status, NEW pc \in {"done"} \cup Closing,
         ReceiverReturns(a, pc, st)
  PROVE  /\ rStatus' \in Status
         /\ rpc' \in [Attempts -> {"idle", "done", "dead", "leaked"} \cup ReceiverLive \cup Closing]
         /\ rCancel' \in [Attempts -> BOOLEAN]
         /\ s2r' \in [Attempts -> Seq(Message)]
<1>1. s2r' \in [Attempts -> Seq(Message)]
  BY ReadKeepsType DEF ReceiverReturns
<1> QED BY <1>1 DEF TypeOK, ReceiverReturns, Update

LEMMA ReceiverEndsType ==
  ASSUME TypeOK, NEW a \in Attempts, NEW st \in Status, NEW ok \in BOOLEAN, ReceiverEnds(a, st, ok)
  PROVE  /\ rStatus' \in Status
         /\ rpc' \in [Attempts -> {"idle", "done", "dead", "leaked"} \cup ReceiverLive \cup Closing]
         /\ rCancel' \in [Attempts -> BOOLEAN]
         /\ s2r' \in [Attempts -> Seq(Message)]
<1>1. End(ok) \in Closing
  BY DEF End, Closing
<1> QED BY <1>1, ReceiverReturnsType DEF ReceiverEnds

LEMMA Terminal == {"complete", "failed", "declined", "in_progress", "paused"} \subseteq Status
  BY DEF Status

LEMMA SenderType ==
  ASSUME TypeOK, NEW a \in Attempts, StartAttempt(a) \/ SenderStep(a)
  PROVE  TypeOK'
<1> USE DEF senderVars, receiverVars, rowVars, diskVars
<1>1. CASE StartAttempt(a)
  BY <1>1, MessagesWritten, WriteKeepsType DEF TypeOK, StartAttempt, Status, SenderLive
<1>2. CASE ReadAcceptance(a)
  <2> DEFINE m == Head(r2s[a])
  <2>1. r2s[a] # <<>> /\ m \in Message /\ m.type = "Acceptance"
    BY <1>2, QueueOps DEF TypeOK, ReadAcceptance, Receives
  <2>2. m.from \in 0..N /\ Selected(m) \in SUBSET Chunks
    BY <2>1, MessageFields DEF Selected
  <2>3. r2s' \in [Attempts -> Seq(Message)]
    BY <1>2, <2>1, ReadKeepsType DEF ReadAcceptance, SenderEnds
  <2>4. CASE m.ok
    <3>1. sBytes' = m.from /\ wanted' = [wanted EXCEPT ![a] = Selected(m)]
          /\ spc' = [spc EXCEPT ![a] = "stream"] /\ sStatus' = "in_progress"
          /\ UNCHANGED <<src, next, pending, sCancel, receiverVars, s2r, link>>
      BY <1>2, <2>4 DEF ReadAcceptance
    <3> QED BY <2>2, <2>3, <3>1 DEF TypeOK, Status, SenderLive, receiverVars, rowVars, diskVars
  <2>5. CASE ~m.ok
    <3>1. SenderEnds(a, "declined", TRUE) /\ UNCHANGED <<sBytes, src, receiverVars, s2r, link>>
      BY <1>2, <2>5 DEF ReadAcceptance
    <3> QED BY <3>1, Terminal, SenderEndsType DEF TypeOK
  <2> QED BY <2>4, <2>5
<1>3. CASE SkipChunk(a)
  BY <1>3, ConstantsAssumption DEF TypeOK, SkipChunk, SenderLive
<1>4. CASE SendChunk(a)
  <2>1. next[a] \in Chunks /\ next[a] + 1 \in 0..N /\ pending[a] + 1 \in 0..Window
    BY <1>4, ConstantsAssumption DEF TypeOK, SendChunk, HasRoom, Chunks
  <2>2. s2r' \in [Attempts -> Seq(Message)]
    BY <1>4, <2>1, MessagesWritten, WriteKeepsType DEF SendChunk
  <2> QED BY <1>4, <2>1, <2>2 DEF TypeOK, SendChunk, OneMorePending
<1>5. CASE ReadAck(a)
  <2> DEFINE m == Head(r2s[a])
  <2>1. r2s[a] # <<>> /\ m \in Message /\ m.type = "Ack"
    BY <1>5, QueueOps DEF TypeOK, ReadAck, Receives
  <2>2. m.bytes \in 0..N
    BY <2>1, MessageFields
  <2>3. pending[a] - 1 \in 0..Window
    BY <1>5, ConstantsAssumption DEF TypeOK, ReadAck, AwaitsAck, WindowFull, Draining
  <2>4. r2s' \in [Attempts -> Seq(Message)]
    BY <1>5, <2>1, ReadKeepsType DEF ReadAck
  <2> QED BY <1>5, <2>2, <2>3, <2>4 DEF TypeOK, ReadAck
<1>6. CASE ReadCancel(a)
  BY <1>6, SenderEndsType DEF TypeOK, ReadCancel
<1>7. CASE SendComplete(a)
  BY <1>7, MessagesWritten, WriteKeepsType DEF TypeOK, SendComplete, SenderLive
<1>8. CASE ReadFinalAck(a)
  BY <1>8, Terminal, SenderEndsType DEF TypeOK, ReadFinalAck
<1>9. CASE ReadFinalError(a)
  BY <1>9, Terminal, SenderEndsType DEF TypeOK, ReadFinalError
<1>10. CASE SenderCancelled(a)
  BY <1>10, MessagesWritten, WriteKeepsType, SenderEndsType DEF TypeOK, SenderCancelled
<1>11. CASE SenderFails(a)
  BY <1>11, SenderEndsType DEF TypeOK, SenderFails
<1>12. CASE SenderLooks(a)
  BY <1>12 DEF TypeOK, SenderLooks, AfterLook, Closing
<1>13. CASE SenderSettles(a)
  BY <1>13, Terminal DEF TypeOK, SenderSettles, Settled
<1> QED BY <1>1, <1>2, <1>3, <1>4, <1>5, <1>6, <1>7, <1>8, <1>9, <1>10, <1>11, <1>12, <1>13
        DEF SenderStep

LEMMA ReceiverType ==
  ASSUME TypeOK, NEW a \in Attempts, ReceiverStep(a)
  PROVE  TypeOK'
<1> USE DEF senderVars, receiverVars, rowVars, diskVars
<1>1. CASE ReadRequest(a)
  BY <1>1, ReadKeepsType DEF TypeOK, ReadRequest, Status, ReceiverLive, Receives
<1>2. CASE RefuseForSpace(a)
  BY <1>2, MessagesWritten, WriteKeepsType, ReceiverReturnsType DEF TypeOK, RefuseForSpace
<1>3. CASE Accept(a)
  BY <1>3, MessagesWritten, WriteKeepsType DEF TypeOK, Accept, ReceiverLive
<1>17. CASE OpenPart(a)
  BY <1>17 DEF TypeOK, OpenPart, Update, Status, ReceiverLive
<1>4. CASE Decline(a)
  <2>1. Acceptance(FALSE, 0, {}) \in Message
    <3>1. FALSE \in BOOLEAN /\ 0 \in 0..N /\ {} \in SUBSET Chunks
      BY ConstantsAssumption
    <3> QED BY <3>1, MessagesWritten
  <2>2. r2s' \in [Attempts -> Seq(Message)]
    BY <1>4, <2>1, WriteKeepsType DEF Decline
  <2> QED BY <1>4, <2>2, Terminal, ReceiverReturnsType DEF TypeOK, Decline
<1>5. CASE DecisionTimeout(a)
  BY <1>5, Terminal, ReceiverReturnsType DEF TypeOK, DecisionTimeout
<1>6. CASE AnswerFails(a)
  BY <1>6, ReadKeepsType, MessagesWritten, WriteKeepsType DEF TypeOK, AnswerFails, ReceiverLeaks
<1>7. CASE ReadChunk(a)
  <2> DEFINE m == Head(s2r[a])
  <2>1. s2r[a] # <<>> /\ m \in Message /\ m.type = "Chunk"
    BY <1>7, QueueOps DEF TypeOK, ReadChunk, Receives
  <2>2. m.chunk \in Chunks /\ m.data \in 0..MaxEdits
    BY <2>1, MessageFields
  <2>3. m.chunk \in 0..N /\ m.chunk + 1 \in 0..N
    BY <2>2, ConstantsAssumption DEF Chunks
  <2>4. part' \in [Chunks -> Content] /\ dest' \in [Chunks -> Content]
    BY <1>7, <2>2 DEF TypeOK, ReadChunk, WriteChunk, Content
  <2>5. s2r' \in [Attempts -> Seq(Message)]
    BY <1>7, <2>1, ReadKeepsType DEF ReadChunk
  <2>6. r2s' \in [Attempts -> Seq(Message)]
    BY <1>7, <2>3, MessagesWritten, WriteKeepsType DEF ReadChunk
  <2> QED BY <1>7, <2>2, <2>3, <2>4, <2>5, <2>6 DEF TypeOK, ReadChunk, WriteChunk, Update
<1>8. CASE RejectChunk(a)
  BY <1>8, Terminal, MessagesWritten, WriteKeepsType, ReceiverEndsType
     DEF TypeOK, RejectChunk, Unlink, Empty, Content, Hole
<1>9. CASE DiskFails(a)
  BY <1>9, ReadKeepsType DEF TypeOK, DiskFails, ReceiverLeaks
<1>10. CASE HashMatches(a)
  BY <1>10, ReadKeepsType DEF TypeOK, HashMatches, Receives, ReceiverLive
<1>11. CASE HashDiffers(a)
  BY <1>11, Terminal, MessagesWritten, WriteKeepsType, ReceiverEndsType
     DEF TypeOK, HashDiffers, Unlink, Empty, Content, Hole
<1>12. CASE PartMissing(a)
  BY <1>12, ReadKeepsType DEF TypeOK, PartMissing, ReceiverLeaks
<1>13. CASE Seal(a)
  <2>1. Ack(N, N) \in Message
    BY ConstantsAssumption, MessagesWritten
  <2>2. r2s' \in [Attempts -> Seq(Message)]
    BY <1>13, <2>1, WriteKeepsType DEF Seal
  <2>4. Empty \in [Chunks -> Content]
    BY DEF Empty, Content, Hole
  <2>5. inode' \in [Attempts -> {"none", "part", "unlinked", "dest", "older"}]
    BY <1>13 DEF Seal, Rename, TypeOK
  <2> QED BY <1>13, <2>2, <2>4, <2>5, Terminal, ReceiverEndsType DEF TypeOK, Seal, Rename
<1>0. rStatus \in Status
  BY DEF TypeOK
<1>14. CASE ReadCancelMessage(a)
  <2>1. ReceiverEnds(a, rStatus, TRUE) /\ UNCHANGED <<rBytes, verified, diskVars, senderVars, r2s, link>>
    BY <1>14 DEF ReadCancelMessage
  <2>9. /\ rStatus' \in Status
        /\ rpc' \in [Attempts -> {"idle", "done", "dead", "leaked"} \cup ReceiverLive \cup Closing]
        /\ rCancel' \in [Attempts -> BOOLEAN] /\ s2r' \in [Attempts -> Seq(Message)]
    <3>1. s2r' \in [Attempts -> Seq(Message)]
      BY <2>1, ReadKeepsType DEF ReceiverEnds, ReceiverReturns
    <3> QED BY <1>0, <2>1, <3>1 DEF TypeOK, ReceiverEnds, ReceiverReturns, End, Update, Closing
  <2> QED BY <2>1, <2>9 DEF TypeOK
<1>15. CASE ReceiverCancelled(a)
  <2>1. ReceiverEnds(a, rStatus, TRUE) /\ UNCHANGED <<rBytes, verified, diskVars, senderVars, link>>
    BY <1>15 DEF ReceiverCancelled
  <2>2. r2s' \in [Attempts -> Seq(Message)]
    BY <1>15, MessagesWritten, WriteKeepsType DEF ReceiverCancelled
  <2>9. /\ rStatus' \in Status
        /\ rpc' \in [Attempts -> {"idle", "done", "dead", "leaked"} \cup ReceiverLive \cup Closing]
        /\ rCancel' \in [Attempts -> BOOLEAN] /\ s2r' \in [Attempts -> Seq(Message)]
    <3>1. s2r' \in [Attempts -> Seq(Message)]
      BY <2>1, ReadKeepsType DEF ReceiverEnds, ReceiverReturns
    <3> QED BY <1>0, <2>1, <3>1 DEF TypeOK, ReceiverEnds, ReceiverReturns, End, Update, Closing
  <2> QED BY <2>1, <2>2, <2>9 DEF TypeOK
<1>16. CASE ReceiverFails(a)
  <2>1. ReceiverEnds(a, rStatus, FALSE) /\ UNCHANGED <<rBytes, verified, diskVars, senderVars, r2s, link>>
    BY <1>16 DEF ReceiverFails
  <2>9. /\ rStatus' \in Status
        /\ rpc' \in [Attempts -> {"idle", "done", "dead", "leaked"} \cup ReceiverLive \cup Closing]
        /\ rCancel' \in [Attempts -> BOOLEAN] /\ s2r' \in [Attempts -> Seq(Message)]
    <3>1. s2r' \in [Attempts -> Seq(Message)]
      BY <2>1, ReadKeepsType DEF ReceiverEnds, ReceiverReturns
    <3> QED BY <1>0, <2>1, <3>1 DEF TypeOK, ReceiverEnds, ReceiverReturns, End, Update, Closing
  <2> QED BY <2>1, <2>9 DEF TypeOK
<1>18. CASE ReceiverLooks(a)
  BY <1>18 DEF TypeOK, ReceiverLooks, AfterLook, Closing
<1>19. CASE ReceiverSettles(a)
  BY <1>19, Terminal DEF TypeOK, ReceiverSettles, Settled, Update
<1> QED BY <1>1, <1>2, <1>3, <1>4, <1>5, <1>6, <1>7, <1>8, <1>9, <1>10, <1>11, <1>12, <1>13, <1>14,
           <1>15, <1>16, <1>17, <1>18, <1>19
        DEF ReceiverStep

LEMMA EnvironmentType ==
  ASSUME TypeOK, Environment
  PROVE  TypeOK'
<1> USE DEF senderVars, receiverVars, rowVars, diskVars
<1>1. ASSUME NEW a \in Attempts, CancelSending(a) PROVE TypeOK'
  BY <1>1 DEF TypeOK, CancelSending
<1>2. ASSUME NEW a \in Attempts, CancelReceiving(a) PROVE TypeOK'
  BY <1>2 DEF TypeOK, CancelReceiving
<1>3. ASSUME NEW a \in Attempts, LinkDrops(a) PROVE TypeOK'
  BY <1>3 DEF TypeOK, LinkDrops
<1>4. ASSUME NEW a \in Attempts, LoseToReceiver(a) PROVE TypeOK'
  BY <1>4, QueueOps DEF TypeOK, LoseToReceiver
<1>5. ASSUME NEW a \in Attempts, LoseToSender(a) PROVE TypeOK'
  BY <1>5, QueueOps DEF TypeOK, LoseToSender
<1>6. ASSUME NEW a \in Attempts, ReceiverCrashesInChunk(a) PROVE TypeOK'
  <2> DEFINE m == Head(s2r[a])
  <2>1. s2r[a] # <<>> /\ m \in Message /\ m.type = "Chunk"
    BY <1>6, QueueOps DEF TypeOK, ReceiverCrashesInChunk, Receives
  <2>2. m.chunk \in Chunks /\ m.data \in 0..MaxEdits
    BY <2>1, MessageFields
  <2>3. rBytes' \in 0..N
    BY <1>6, <2>2, ConstantsAssumption DEF TypeOK, ReceiverCrashesInChunk, Update, Chunks
  <2>4. part' \in [Chunks -> Content] /\ dest' \in [Chunks -> Content]
    BY <1>6, <2>2 DEF TypeOK, ReceiverCrashesInChunk, WriteChunk, Content
  <2>5. <<>> \in Seq(Message)
    OBVIOUS
  <2> QED BY <1>6, <2>3, <2>4, <2>5
        DEF TypeOK, ReceiverCrashesInChunk, ReceiverDies, CutStreams, Opened, WriteChunk
<1>13. ASSUME NEW a \in Attempts, ReceiverCrashesInSeal(a) PROVE TypeOK'
  <2>1. Empty \in [Chunks -> Content]
    BY DEF Empty, Content, Hole
  <2>2. <<>> \in Seq(Message)
    OBVIOUS
  <2>3. inode' \in [Attempts -> {"none", "part", "unlinked", "dest", "older"}]
    BY <1>13 DEF ReceiverCrashesInSeal, Rename, TypeOK
  <2> QED BY <1>13, <2>1, <2>2, <2>3
          DEF TypeOK, ReceiverCrashesInSeal, Rename, ReceiverDies, CutStreams, Opened
<1>7. CASE EditSource
  BY <1>7, ConstantsAssumption DEF TypeOK, EditSource
<1>8. CASE SenderCrashes
  BY <1>8, ConstantsAssumption DEF TypeOK, SenderCrashes, CutStreams, Opened
<1>9. CASE ReceiverCrashes
  BY <1>9 DEF TypeOK, ReceiverCrashes, ReceiverDies, CutStreams, Opened
<1>10. CASE SweepSender
  BY <1>10 DEF TypeOK, SweepSender, Status
<1>11. CASE SweepReceiver
  BY <1>11 DEF TypeOK, SweepReceiver, Status
<1>12. CASE ClearFinished
  BY <1>12, ConstantsAssumption DEF TypeOK, ClearFinished, Status
<1> QED BY <1>1, <1>2, <1>3, <1>4, <1>5, <1>6, <1>7, <1>8, <1>9, <1>10, <1>11, <1>12, <1>13
        DEF Environment

LEMMA TypeStep == TypeOK /\ [Next]_vars => TypeOK'
<1> SUFFICES ASSUME TypeOK, [Next]_vars PROVE TypeOK'
  OBVIOUS
<1>1. ASSUME NEW a \in Attempts, StartAttempt(a) \/ SenderStep(a) PROVE TypeOK'
  BY <1>1, SenderType
<1>2. ASSUME NEW a \in Attempts, ReceiverStep(a) PROVE TypeOK'
  BY <1>2, ReceiverType
<1>3. CASE Environment
  BY <1>3, EnvironmentType
<1>4. CASE UNCHANGED vars
  BY <1>4 DEF TypeOK, vars, senderVars, receiverVars, rowVars, diskVars
<1> QED BY <1>1, <1>2, <1>3, <1>4 DEF Next

\* Every reachable state has the types declared for the rows, files, handlers
\* and streams; in particular pending_acks stays within max_pending_acks.
THEOREM TypeCorrect == Spec => []TypeOK
  BY TypeInit, TypeStep, PTL DEF Spec

-----------------------------------------------------------------------------
(* The streams stay in step.                                               *)

IInv == TypeOK /\ StreamsInStep /\ CompleteMeansDelivered

LEMMA NoneOfOps ==
  ASSUME NEW q \in Seq(Message), NEW t
  PROVE  /\ NoneOf(<<>>, t)
         /\ \A m \in Message : m.type # t /\ NoneOf(q, t) => NoneOf(Append(q, m), t)
         /\ q # <<>> /\ NoneOf(q, t) =>
              /\ Head(q).type # t
              /\ NoneOf(Tail(q), t)
              /\ NoneOf(SubSeq(q, 1, Len(q) - 1), t)
<1>1. NoneOf(<<>>, t)
  BY DEF NoneOf
<1>2. ASSUME NEW m \in Message, m.type # t, NoneOf(q, t) PROVE NoneOf(Append(q, m), t)
  BY <1>2 DEF NoneOf
<1>3. ASSUME q # <<>>, NoneOf(q, t)
      PROVE  Head(q).type # t /\ NoneOf(Tail(q), t) /\ NoneOf(SubSeq(q, 1, Len(q) - 1), t)
  <2>1. Len(q) \in Nat /\ Len(q) >= 1
    BY <1>3
  <2>2. Head(q).type # t
    BY <1>3, <2>1 DEF NoneOf
  <2>3. NoneOf(Tail(q), t)
    BY <1>3, <2>1 DEF NoneOf
  <2>4. NoneOf(SubSeq(q, 1, Len(q) - 1), t)
    BY <1>3, <2>1 DEF NoneOf
  <2> QED BY <2>2, <2>3, <2>4
<1> QED BY <1>1, <1>2, <1>3

LEMMA EndsButOps ==
  ASSUME NEW q \in Seq(Message), NEW t
  PROVE  /\ \A m \in Message : m.type # t => EndsBut(Append(q, m), t)
         /\ EndsBut(q, t) /\ Len(q) >= 2 => EndsBut(Tail(q), t)
         /\ EndsBut(q, t) /\ Len(q) = 1 => NoneOf(q, t)
<1>1. ASSUME NEW m \in Message, m.type # t PROVE EndsBut(Append(q, m), t)
  BY <1>1 DEF EndsBut
<1>2. ASSUME EndsBut(q, t), Len(q) >= 2 PROVE EndsBut(Tail(q), t)
  <2>1. Tail(q) \in Seq(Message) /\ Len(Tail(q)) = Len(q) - 1 /\ Len(q) \in Nat
    BY <1>2
  <2>2. Tail(q)[Len(q) - 1] = q[Len(q)]
    BY <1>2, <2>1
  <2>3. Tail(q) # <<>>
    <3>1. Len(Tail(q)) # 0 /\ Len(<<>>) = 0
      BY <1>2, <2>1
    <3> QED BY <3>1
  <2> QED BY <1>2, <2>1, <2>2, <2>3 DEF EndsBut
<1>3. ASSUME EndsBut(q, t), Len(q) = 1 PROVE NoneOf(q, t)
  BY <1>3 DEF EndsBut, NoneOf
<1> QED BY <1>1, <1>2, <1>3

LEMMA LengthOps ==
  ASSUME NEW q \in Seq(Message)
  PROVE  /\ Len(q) \in Nat
         /\ Len(q) = 0 <=> q = <<>>
         /\ Len(<<>>) = 0
         /\ \A m \in Message : Len(Append(q, m)) = Len(q) + 1 /\ Append(q, m) \in Seq(Message)
         /\ q # <<>> => /\ Tail(q) \in Seq(Message) /\ Len(Tail(q)) = Len(q) - 1
                        /\ SubSeq(q, 1, Len(q) - 1) \in Seq(Message)
                        /\ Len(SubSeq(q, 1, Len(q) - 1)) = Len(q) - 1
<1>1. q # <<>> => Len(q) >= 1
  OBVIOUS
<1>2. q # <<>> => /\ SubSeq(q, 1, Len(q) - 1) \in Seq(Message)
                  /\ Len(SubSeq(q, 1, Len(q) - 1)) = Len(q) - 1
  BY <1>1
<1>3. q # <<>> => Tail(q) \in Seq(Message) /\ Len(Tail(q)) = Len(q) - 1
  BY <1>1
<1>4. \A m \in Message : Len(Append(q, m)) = Len(q) + 1 /\ Append(q, m) \in Seq(Message)
  OBVIOUS
<1>5. Len(q) \in Nat /\ (Len(q) = 0 <=> q = <<>>)
  BY EmptySeq
<1>6. Len(<<>>) = 0
  OBVIOUS
<1> QED BY <1>2, <1>3, <1>4, <1>5, <1>6

\* Sums of two queue lengths against the pending count.
LEMMA Sums ==
  /\ \A x, y \in Nat : x + y <= 0 => x = 0 /\ y = 0
  /\ \A x, y, p \in Nat : x + y <= p => /\ x + (y - 1) <= p - 1
                                       /\ (x + 1) + y <= p + 1
                                       /\ x + y <= p + 1
  /\ \A y, p \in Nat : 0 + y <= p <=> y <= p
  /\ \A y, p \in Nat : y = p + 1 => y <= p + 1 /\ y - 1 = p - 1 + 1
  /\ \A p \in Nat : (p = 0 /\ 1 = p + 1) \/ 1 <= p
  OBVIOUS

\* What a step does to other attempts does not disturb this one.
LEMMA AttemptFrame ==
  ASSUME NEW b \in Attempts, StreamInStep(b),
         UNCHANGED <<s2r[b], r2s[b], spc[b], rpc[b], pending[b]>>,
         delivered => delivered'
  PROVE  StreamInStep(b)'
  BY DEF StreamInStep, IdleStream, AwaitingStream, StreamingStream, FinalStream,
         NoneOf, EndsBut, ReceiverOver

\* A receiver that stops may leave one more message, any but an Ack.
LEMMA ReceiverStops ==
  ASSUME TypeOK, NEW a \in Attempts, StreamInStep(a), NEW m \in Message, m.type # "Ack",
         spc[a] # "idle", ~ReceiverOver(a), ReceiverOver(a)', s2r'[a] = <<>>,
         r2s'[a] = r2s[a] \/ r2s'[a] = Append(r2s[a], m),
         UNCHANGED <<spc[a], pending[a]>>, delivered => delivered'
  PROVE  StreamInStep(a)'
<1> DEFINE q == r2s[a]
<1>1. q \in Seq(Message) /\ s2r[a] \in Seq(Message) /\ pending[a] \in Nat
  BY ConstantsAssumption DEF TypeOK
<1>2. /\ NoneOf(<<>>, "Chunk") /\ NoneOf(<<>>, "Complete")
      /\ EndsBut(Append(q, m), "Ack")
      /\ NoneOf(q, "Ack") => NoneOf(Append(q, m), "Ack")
      /\ Len(q) \in Nat /\ Len(Append(q, m)) = Len(q) + 1 /\ Len(s2r[a]) \in Nat
      /\ Len(q) = 0 <=> q = <<>>
  BY <1>1, NoneOfOps, EndsButOps, LengthOps
<1>3. rpc'[a] \notin {"idle", "deciding", "opening", "recv", "seal"}
  BY DEF ReceiverOver, ReceiverLive
<1>4. CASE spc[a] = "await"
  <2>1. Len(q) <= 1
    BY <1>4 DEF StreamInStep, AwaitingStream
  <2>2. Len(r2s'[a]) <= 1 \/ (Len(r2s'[a]) = 2 /\ EndsBut(r2s'[a], "Ack"))
    <3>1. CASE r2s'[a] = q
      BY <2>1, <3>1
    <3>2. CASE r2s'[a] = Append(q, m)
      BY <1>2, <2>1, <3>2 DEF EndsBut
    <3> QED BY <3>1, <3>2
  <2>3. AwaitingStream(a)'
    BY <1>2, <1>3, <2>2 DEF AwaitingStream, NoneOf, EndsBut
  <2> QED BY <1>4, <2>3 DEF StreamInStep
<1>5. CASE spc[a] = "stream"
  <2> HIDE DEF q
  <2>1. Len(q) <= pending[a]
    <3>1. Len(s2r[a]) + Len(q) <= pending[a]
      BY <1>5 DEF StreamInStep, StreamingStream, q
    <3>2. Len(s2r[a]) \in Nat /\ Len(q) \in Nat /\ pending[a] \in Nat
      BY <1>1, <1>2
    <3> QED BY <3>1, <3>2
  <2>2. Len(r2s'[a]) <= pending[a] \/ (Len(r2s'[a]) = pending[a] + 1 /\ EndsBut(r2s'[a], "Ack"))
    <3>1. CASE r2s'[a] = q
      BY <2>1, <3>1
    <3>2. CASE r2s'[a] = Append(q, m)
      <4>1. CASE Len(q) < pending[a]
        BY <1>1, <1>2, <3>2, <4>1
      <4>2. CASE Len(q) = pending[a]
        BY <1>2, <3>2, <4>2 DEF EndsBut
      <4> QED BY <1>1, <1>2, <2>1, <4>1, <4>2
    <3> QED BY <3>1, <3>2 DEF q
  <2>3. StreamingStream(a)'
    BY <1>1, <1>2, <1>3, <2>2, LengthOps DEF StreamingStream, NoneOf, EndsBut
  <2> QED BY <1>5, <2>3 DEF StreamInStep
<1>6. CASE spc[a] = "final"
  <2>1. FinalStream(a)'
    BY <1>2, <1>6 DEF StreamInStep, FinalStream, NoneOf
  <2> QED BY <1>6, <2>1 DEF StreamInStep
<1>7. CASE spc[a] \notin {"idle", "await", "stream", "final"}
  BY <1>7 DEF StreamInStep
<1> QED BY <1>4, <1>5, <1>6, <1>7

\* A handler's step touches its own attempt only, and takes no delivery back.
SameAttempt(b) == UNCHANGED <<s2r[b], r2s[b], spc[b], rpc[b], pending[b]>>

LEMMA SenderTouchesOne ==
  ASSUME TypeOK, NEW a \in Attempts, StartAttempt(a) \/ SenderStep(a)
  PROVE  /\ \A b \in Attempts \ {a} : SameAttempt(b)
         /\ UNCHANGED <<delivered, rpc>>
<1> USE DEF TypeOK, SameAttempt, senderVars, receiverVars, diskVars, SenderEnds, SenderForgets,
            Consume, Discard, ToReceiver
<1>1. CASE StartAttempt(a)
  BY <1>1 DEF StartAttempt
<1>2. CASE ReadAcceptance(a)
  BY <1>2 DEF ReadAcceptance
<1>3. CASE SkipChunk(a)
  BY <1>3 DEF SkipChunk
<1>4. CASE SendChunk(a)
  BY <1>4 DEF SendChunk
<1>5. CASE ReadAck(a)
  BY <1>5 DEF ReadAck
<1>6. CASE ReadCancel(a)
  BY <1>6 DEF ReadCancel
<1>7. CASE SendComplete(a)
  BY <1>7 DEF SendComplete
<1>8. CASE ReadFinalAck(a)
  BY <1>8 DEF ReadFinalAck
<1>9. CASE ReadFinalError(a)
  BY <1>9 DEF ReadFinalError
<1>10. CASE SenderCancelled(a)
  BY <1>10 DEF SenderCancelled
<1>11. CASE SenderFails(a)
  BY <1>11 DEF SenderFails
<1>12. CASE SenderLooks(a)
  BY <1>12 DEF SenderLooks
<1>13. CASE SenderSettles(a)
  BY <1>13 DEF SenderSettles
<1> QED BY <1>1, <1>2, <1>3, <1>4, <1>5, <1>6, <1>7, <1>8, <1>9, <1>10, <1>11, <1>12, <1>13
        DEF SenderStep

LEMMA ReceiverTouchesOne ==
  ASSUME TypeOK, NEW a \in Attempts, ReceiverStep(a)
  PROVE  /\ \A b \in Attempts \ {a} : SameAttempt(b)
         /\ UNCHANGED <<spc, pending, sStatus>>
         /\ delivered => delivered'
<1> USE DEF TypeOK, SameAttempt, senderVars, receiverVars, diskVars, ReceiverReturns, ReceiverEnds,
            ReceiverLeaks, Consume, Discard, ToSender, Unlink, WriteChunk
<1>1. CASE ReadRequest(a)
  BY <1>1 DEF ReadRequest
<1>2. CASE RefuseForSpace(a)
  BY <1>2 DEF RefuseForSpace
<1>3. CASE Accept(a)
  BY <1>3 DEF Accept
<1>4. CASE Decline(a)
  BY <1>4 DEF Decline
<1>5. CASE DecisionTimeout(a)
  BY <1>5 DEF DecisionTimeout
<1>6. CASE AnswerFails(a)
  BY <1>6 DEF AnswerFails
<1>7. CASE ReadChunk(a)
  BY <1>7 DEF ReadChunk
<1>8. CASE RejectChunk(a)
  BY <1>8 DEF RejectChunk
<1>9. CASE DiskFails(a)
  BY <1>9 DEF DiskFails
<1>10. CASE HashMatches(a)
  BY <1>10 DEF HashMatches
<1>11. CASE HashDiffers(a)
  BY <1>11 DEF HashDiffers
<1>12. CASE PartMissing(a)
  BY <1>12 DEF PartMissing
<1>13. CASE Seal(a)
  BY <1>13 DEF Seal, Rename
<1>14. CASE ReadCancelMessage(a)
  BY <1>14 DEF ReadCancelMessage
<1>15. CASE ReceiverCancelled(a)
  BY <1>15 DEF ReceiverCancelled
<1>16. CASE ReceiverFails(a)
  BY <1>16 DEF ReceiverFails
<1>17. CASE OpenPart(a)
  BY <1>17 DEF OpenPart
<1>18. CASE ReceiverLooks(a)
  BY <1>18 DEF ReceiverLooks
<1>19. CASE ReceiverSettles(a)
  BY <1>19 DEF ReceiverSettles
<1> QED BY <1>1, <1>2, <1>3, <1>4, <1>5, <1>6, <1>7, <1>8, <1>9, <1>10, <1>11, <1>12, <1>13, <1>14,
           <1>15, <1>16, <1>17, <1>18, <1>19
        DEF ReceiverStep

\* Nor on how the receiver's handler is over.
LEMMA OverFrame ==
  ASSUME NEW a \in Attempts, StreamInStep(a), ReceiverOver(a), ReceiverOver(a)',
         UNCHANGED <<s2r[a], r2s[a], spc[a], pending[a]>>, delivered => delivered'
  PROVE  StreamInStep(a)'
<1>1. rpc[a] \notin {"idle", "deciding", "seal"} /\ rpc'[a] \notin {"idle", "deciding", "seal"}
  BY DEF ReceiverOver, ReceiverLive
<1>2. AwaitingStream(a) => AwaitingStream(a)'
  BY <1>1 DEF AwaitingStream
<1>3. StreamingStream(a) => StreamingStream(a)'
  BY <1>1 DEF StreamingStream
<1>4. FinalStream(a) => FinalStream(a)'
  BY DEF FinalStream
<1> QED BY <1>1, <1>2, <1>3, <1>4 DEF StreamInStep, IdleStream

LEMMA OthersStayInStep ==
  ASSUME StreamsInStep, NEW a \in Attempts, StreamInStep(a)',
         \A b \in Attempts \ {a} : SameAttempt(b), delivered => delivered'
  PROVE  StreamsInStep'
<1>1. ASSUME NEW b \in Attempts, b # a PROVE StreamInStep(b)'
  <2>1. StreamInStep(b) /\ UNCHANGED <<s2r[b], r2s[b], spc[b], rpc[b], pending[b]>>
    BY <1>1 DEF StreamsInStep, SameAttempt
  <2> QED BY <2>1, AttemptFrame
<1> QED BY <1>1 DEF StreamsInStep

\* The queues of one attempt, and what the operations on them do.
LEMMA AttemptQueues ==
  ASSUME TypeOK, NEW a \in Attempts
  PROVE  /\ s2r[a] \in Seq(Message) /\ r2s[a] \in Seq(Message)
         /\ Len(s2r[a]) \in Nat /\ Len(r2s[a]) \in Nat /\ pending[a] \in Nat
         /\ Len(s2r[a]) = 0 <=> s2r[a] = <<>>
         /\ Len(r2s[a]) = 0 <=> r2s[a] = <<>>
<1>1. s2r[a] \in Seq(Message) /\ r2s[a] \in Seq(Message) /\ pending[a] \in Nat
  BY ConstantsAssumption DEF TypeOK
<1> QED BY <1>1, LengthOps

LEMMA EndedSenderInStep ==
  ASSUME TypeOK, NEW a \in Attempts, StreamInStep(a), spc'[a] \in {"done", "dead"} \cup Closing,
         UNCHANGED rpc, s2r'[a] = s2r[a] \/ ~ReceiverOver(a)
  PROVE  StreamInStep(a)'
  BY DEF StreamInStep, ReceiverOver, Closing

LEMMA EndingSenderInStep ==
  ASSUME TypeOK, NEW a \in Attempts, StreamInStep(a),
         \/ ReadAcceptance(a) /\ ~Head(r2s[a]).ok
         \/ ReadCancel(a) \/ ReadFinalAck(a) \/ ReadFinalError(a)
         \/ SenderCancelled(a) \/ SenderFails(a) \/ SenderLooks(a) \/ SenderSettles(a)
  PROVE  StreamInStep(a)'
<1>1. /\ spc'[a] \in {"done"} \cup Closing /\ UNCHANGED rpc
      /\ s2r'[a] = s2r[a] \/ ~ReceiverOver(a)
  BY DEF TypeOK, ReadAcceptance, ReadCancel, ReadFinalAck, ReadFinalError, SenderCancelled,
         SenderFails, SenderEnds, SenderLooks, SenderSettles, End, AfterLook, Closing, ToReceiver,
         receiverVars
<1> QED BY <1>1, EndedSenderInStep

LEMMA StartInStep ==
  ASSUME TypeOK, NEW a \in Attempts, StreamInStep(a), StartAttempt(a)
  PROVE  StreamInStep(a)'
<1>1. s2r[a] = <<>> /\ r2s[a] = <<>> /\ rpc[a] = "idle"
  BY DEF StartAttempt, StreamInStep, IdleStream
<1>2. spc'[a] = "await" /\ r2s'[a] = <<>> /\ rpc'[a] = "idle"
  BY <1>1 DEF StartAttempt, TypeOK, receiverVars
<1>3. s2r'[a] = <<>> \/ s2r'[a] = <<Request>>
  BY <1>1 DEF StartAttempt, TypeOK, ToReceiver
<1>4. NoneOf(s2r'[a], "Chunk") /\ NoneOf(s2r'[a], "Complete") /\ Len(s2r'[a]) <= 1
  <2>1. CASE s2r'[a] = <<>>
    BY <2>1 DEF NoneOf
  <2>2. CASE s2r'[a] = <<Request>>
    <3>1. Len(<<Request>>) = 1 /\ <<Request>>[1] = Request /\ DOMAIN <<Request>> = {1}
      OBVIOUS
    <3> QED BY <2>2, <3>1 DEF NoneOf, Request
  <2> QED BY <1>3, <2>1, <2>2
<1>5. AwaitingStream(a)'
  BY <1>2, <1>4 DEF AwaitingStream, NoneOf
<1> QED BY <1>2, <1>5 DEF StreamInStep, ReceiverOver

LEMMA AcceptedInStep ==
  ASSUME TypeOK, NEW a \in Attempts, StreamInStep(a), ReadAcceptance(a), Head(r2s[a]).ok
  PROVE  StreamInStep(a)'
<1> DEFINE q == r2s[a]
<1>1. /\ q # <<>> /\ q \in Seq(Message) /\ Len(q) \in Nat /\ pending[a] \in Nat
      /\ Len(Tail(q)) = Len(q) - 1 /\ Len(q) >= 1
  BY AttemptQueues, LengthOps DEF ReadAcceptance, Receives
<1>2. /\ spc[a] = "await" /\ spc'[a] = "stream" /\ r2s'[a] = Tail(q)
      /\ UNCHANGED <<rpc, s2r, pending>>
  BY DEF ReadAcceptance, TypeOK, Consume, receiverVars
<1>3. /\ rpc[a] \notin {"idle", "deciding", "seal"}
      /\ s2r[a] = <<>>
      /\ Len(q) <= 1 \/ (ReceiverOver(a) /\ Len(q) = 2 /\ EndsBut(q, "Ack"))
  BY <1>1, <1>2 DEF StreamInStep, AwaitingStream
<1>4. \/ Len(s2r[a]) + Len(Tail(q)) <= pending[a]
      \/ ReceiverOver(a) /\ Len(Tail(q)) = pending[a] + 1 /\ EndsBut(Tail(q), "Ack")
  <2>1. Len(s2r[a]) = 0
    BY <1>3
  <2>2. CASE Len(q) <= 1
    BY <1>1, <2>1, <2>2
  <2>3. CASE ReceiverOver(a) /\ Len(q) = 2 /\ EndsBut(q, "Ack")
    <3>1. EndsBut(Tail(q), "Ack")
      <4>1. Len(q) >= 2 /\ q \in Seq(Message) /\ EndsBut(q, "Ack")
        BY <1>1, <2>3
      <4> QED BY <4>1, EndsButOps
    <3>2. Len(Tail(q)) = 1 /\ pending[a] \in Nat
      BY <1>1, <2>3
    <3>3. CASE 1 = pending[a] + 1
      BY <2>3, <3>1, <3>2, <3>3, Zenon
    <3>4. CASE 1 <= pending[a]
      BY <2>1, <3>2, <3>4, Sums, Zenon
    <3> QED BY <3>2, <3>3, <3>4, Sums, Zenon
  <2> QED BY <1>3, <2>2, <2>3
<1>5. NoneOf(s2r[a], "Complete")
  BY <1>3 DEF NoneOf
<1>6. StreamingStream(a)'
  BY <1>2, <1>3, <1>4, <1>5 DEF StreamingStream, ReceiverOver
<1> QED BY <1>2, <1>3, <1>6 DEF StreamInStep

LEMMA SendChunkInStep ==
  ASSUME TypeOK, NEW a \in Attempts, StreamInStep(a), SendChunk(a)
  PROVE  StreamInStep(a)'
<1> DEFINE m == Chunk(next[a])
<1>1. m \in Message /\ m.type = "Chunk"
  <2>1. next[a] \in Chunks
    BY ConstantsAssumption DEF SendChunk, TypeOK, Chunks
  <2> QED BY <2>1, MessagesWritten DEF Chunk
<1>2. /\ spc[a] = "stream" /\ pending'[a] = pending[a] + 1
      /\ UNCHANGED <<spc, rpc, r2s>>
      /\ s2r'[a] = s2r[a] \/ (s2r'[a] = Append(s2r[a], m) /\ ~ReceiverOver(a))
  BY DEF SendChunk, TypeOK, ToReceiver, OneMorePending, receiverVars
<1>3. StreamingStream(a)
  BY <1>2 DEF StreamInStep
<1>4. /\ Len(s2r[a]) \in Nat /\ Len(r2s[a]) \in Nat /\ pending[a] \in Nat
      /\ s2r'[a] = s2r[a] \/ Len(s2r'[a]) = Len(s2r[a]) + 1
  BY <1>1, <1>2, AttemptQueues, LengthOps
<1>5. ReceiverOver(a) => s2r[a] = <<>> /\ s2r'[a] = <<>> /\ Len(s2r'[a]) = 0
  BY <1>2, AttemptQueues DEF StreamInStep
<1>6. Len(s2r'[a]) + Len(r2s[a]) <= pending[a] + 1
  <2>1. CASE Len(s2r[a]) + Len(r2s[a]) <= pending[a]
    <3>1. CASE s2r'[a] = s2r[a]
      BY <1>4, <2>1, <3>1, Sums, Zenon
    <3>2. CASE Len(s2r'[a]) = Len(s2r[a]) + 1
      BY <1>4, <2>1, <3>2, Sums, Zenon
    <3> QED BY <1>4, <3>1, <3>2
  <2>2. CASE ReceiverOver(a) /\ Len(r2s[a]) = pending[a] + 1
    BY <1>4, <1>5, <2>2
  <2> QED BY <1>3, <2>1, <2>2 DEF StreamingStream
<1>7. NoneOf(s2r'[a], "Complete")
  <2>1. NoneOf(s2r[a], "Complete") /\ s2r[a] \in Seq(Message)
    BY <1>3, AttemptQueues DEF StreamingStream
  <2>2. NoneOf(Append(s2r[a], m), "Complete")
    BY <1>1, <2>1, NoneOfOps
  <2> QED BY <1>2, <2>1, <2>2
<1>8. StreamingStream(a)'
  BY <1>2, <1>3, <1>6, <1>7 DEF StreamingStream
<1> QED BY <1>2, <1>5, <1>8 DEF StreamInStep, ReceiverOver

LEMMA ReadAckInStep ==
  ASSUME TypeOK, NEW a \in Attempts, StreamInStep(a), ReadAck(a)
  PROVE  StreamInStep(a)'
<1> DEFINE q == r2s[a]
<1>1. /\ q # <<>> /\ Head(q).type = "Ack" /\ spc[a] = "stream"
      /\ r2s'[a] = Tail(q) /\ pending'[a] = pending[a] - 1
      /\ UNCHANGED <<spc, rpc, s2r>>
  BY DEF ReadAck, AwaitsAck, Receives, TypeOK, Consume, receiverVars
<1>0. q \in Seq(Message)
  BY AttemptQueues
<1>2. /\ Len(q) \in Nat /\ pending[a] \in Nat /\ Len(s2r[a]) \in Nat
      /\ Len(Tail(q)) = Len(q) - 1
  BY <1>0, <1>1, AttemptQueues, LengthOps
<1>3. StreamingStream(a)
  BY <1>1 DEF StreamInStep
<1>4. \/ Len(s2r[a]) + Len(Tail(q)) <= pending[a] - 1
      \/ ReceiverOver(a) /\ Len(Tail(q)) = pending[a] - 1 + 1 /\ EndsBut(Tail(q), "Ack")
  <2>1. CASE Len(s2r[a]) + Len(q) <= pending[a]
    BY <1>2, <2>1, Sums, Zenon
  <2>2. CASE ReceiverOver(a) /\ Len(q) = pending[a] + 1 /\ EndsBut(q, "Ack")
    <3>1. Len(q) # 1
      BY <1>0, <1>1, <2>2, EndsButOps, NoneOfOps
    <3>2. Len(q) >= 2
      BY <1>2, <2>2, <3>1
    <3>3. EndsBut(Tail(q), "Ack")
      BY <1>0, <2>2, <3>2, EndsButOps
    <3>4. Len(Tail(q)) = pending[a] - 1 + 1
      BY <1>2, <2>2
    <3> QED BY <2>2, <3>3, <3>4
  <2> QED BY <1>3, <2>1, <2>2 DEF StreamingStream
<1>5. StreamingStream(a)'
  BY <1>1, <1>3, <1>4 DEF StreamingStream, ReceiverOver
<1> QED BY <1>1, <1>5 DEF StreamInStep, ReceiverOver

LEMMA SendCompleteInStep ==
  ASSUME TypeOK, NEW a \in Attempts, StreamInStep(a), SendComplete(a)
  PROVE  StreamInStep(a)'
<1>1. /\ spc[a] = "stream" /\ spc'[a] = "final" /\ pending[a] = 0
      /\ UNCHANGED <<rpc, r2s, delivered>>
      /\ s2r'[a] = s2r[a] \/ (s2r'[a] = Append(s2r[a], Complete) /\ ~ReceiverOver(a))
  BY DEF SendComplete, AllAcked, TypeOK, ToReceiver, receiverVars, diskVars
<1>2. StreamingStream(a)
  BY <1>1 DEF StreamInStep
<1>3. s2r[a] = <<>> /\ NoneOf(r2s[a], "Ack")
  <2>1. CASE Len(s2r[a]) + Len(r2s[a]) <= pending[a]
    <3>1. s2r[a] = <<>> /\ r2s[a] = <<>>
      <4>1. Len(s2r[a]) = 0 /\ Len(r2s[a]) = 0
        <5>1. Len(s2r[a]) \in Nat /\ Len(r2s[a]) \in Nat /\ pending[a] = 0
          BY <1>1, AttemptQueues
        <5> QED BY <2>1, <5>1, Sums, Zenon
      <4> QED BY <4>1, AttemptQueues
    <3> QED BY <3>1 DEF NoneOf
  <2>2. CASE ReceiverOver(a) /\ Len(r2s[a]) = pending[a] + 1 /\ EndsBut(r2s[a], "Ack")
    <3>1. r2s[a] \in Seq(Message) /\ Len(r2s[a]) = 1
      BY <1>1, <2>2, AttemptQueues
    <3> QED BY <2>2, <3>1, EndsButOps DEF StreamInStep
  <2> QED BY <1>2, <2>1, <2>2 DEF StreamingStream
<1>4. NoneOf(s2r'[a], "Chunk")
  BY <1>1, <1>3 DEF NoneOf, Complete
<1>5. FinalStream(a)'
  BY <1>1, <1>3, <1>4 DEF FinalStream
<1> QED BY <1>1, <1>3, <1>5 DEF StreamInStep, ReceiverOver

LEMMA SenderStaysInStep ==
  ASSUME TypeOK, NEW a \in Attempts, StreamInStep(a), StartAttempt(a) \/ SenderStep(a)
  PROVE  StreamInStep(a)'
<1>1. CASE StartAttempt(a)
  BY <1>1, StartInStep
<1>2. CASE ReadAcceptance(a)
  BY <1>2, AcceptedInStep, EndingSenderInStep
<1>3. CASE SkipChunk(a)
  <2>1. UNCHANGED <<s2r[a], r2s[a], spc[a], rpc[a], pending[a]>> /\ UNCHANGED delivered
    BY <1>3 DEF SkipChunk, receiverVars, diskVars
  <2> QED BY <2>1, AttemptFrame
<1>4. CASE SendChunk(a) \/ ReadAck(a) \/ SendComplete(a)
  BY <1>4, SendChunkInStep, ReadAckInStep, SendCompleteInStep
<1>5. CASE \/ ReadCancel(a) \/ ReadFinalAck(a) \/ ReadFinalError(a) \/ SenderCancelled(a)
           \/ SenderFails(a) \/ SenderLooks(a) \/ SenderSettles(a)
  BY <1>5, EndingSenderInStep
<1> QED BY <1>1, <1>2, <1>3, <1>4, <1>5 DEF SenderStep

\* A request can only be read, refused or decided while the sender waits for the
\* answer or is gone; a chunk only while it streams; Complete after that.
LEMMA ReceiverPhases ==
  ASSUME TypeOK, NEW a \in Attempts, StreamInStep(a)
  PROVE  /\ s2r[a] # <<>> \/ rpc[a] # "idle" => spc[a] # "idle"
         /\ rpc[a] \in {"idle", "deciding"} => spc[a] # "stream"
         /\ rpc[a] = "seal" => spc[a] \notin {"await", "stream"}
         /\ Receives(s2r, a, "Chunk") => spc[a] \notin {"await", "final"}
         /\ Receives(s2r, a, "Complete") => spc[a] \notin {"await", "stream"}
<1>1. /\ Receives(s2r, a, "Chunk") => ~NoneOf(s2r[a], "Chunk")
      /\ Receives(s2r, a, "Complete") => ~NoneOf(s2r[a], "Complete")
  BY AttemptQueues, NoneOfOps DEF Receives
<1> QED BY <1>1 DEF StreamInStep, IdleStream, AwaitingStream, StreamingStream, FinalStream

LEMMA StoppingReceiverInStep ==
  ASSUME TypeOK, NEW a \in Attempts, StreamInStep(a),
         \/ RefuseForSpace(a) \/ Decline(a) \/ DecisionTimeout(a) \/ AnswerFails(a)
         \/ RejectChunk(a) \/ DiskFails(a) \/ HashDiffers(a) \/ PartMissing(a)
         \/ ReadCancelMessage(a) \/ ReceiverCancelled(a) \/ ReceiverFails(a)
  PROVE  StreamInStep(a)'
<1> DEFINE Leaves(m) == r2s'[a] = r2s[a] \/ r2s'[a] = Append(r2s[a], m)
<1>1. /\ Error \in Message /\ Error.type # "Ack"
      /\ Cancel \in Message /\ Cancel.type # "Ack"
      /\ AcceptanceNow \in Message /\ AcceptanceNow.type # "Ack"
      /\ Acceptance(FALSE, 0, {}) \in Message /\ Acceptance(FALSE, 0, {}).type # "Ack"
  <2>1. FALSE \in BOOLEAN /\ 0 \in 0..N /\ {} \in SUBSET Chunks
    BY ConstantsAssumption
  <2>2. /\ Error \in Message /\ Cancel \in Message /\ AcceptanceNow \in Message
        /\ Acceptance(FALSE, 0, {}) \in Message
    BY <2>1, MessagesWritten
  <2>3. Error.type # "Ack" /\ Cancel.type # "Ack"
    BY DEF Error, Cancel
  <2>4. \A ok, f, ms : Acceptance(ok, f, ms).type # "Ack"
    BY DEF Acceptance
  <2> QED BY <2>2, <2>3, <2>4 DEF AcceptanceNow
<1>2. ~ReceiverOver(a) /\ (s2r[a] # <<>> \/ rpc[a] # "idle")
  BY DEF RefuseForSpace, Decline, DecisionTimeout, AnswerFails, RejectChunk, DiskFails,
         HashDiffers, PartMissing, ReadCancelMessage, ReceiverCancelled, ReceiverFails,
         Receiving, Receives, ReceiverOver, ReceiverLive
<1>3. ReceiverOver(a)' /\ s2r'[a] = <<>> /\ UNCHANGED <<spc, pending>> /\ (delivered => delivered')
  <2>1. rpc'[a] \in {"done", "leaked", "ended", "erred"} /\ s2r'[a] = <<>>
    BY DEF RefuseForSpace, Decline, DecisionTimeout, AnswerFails, RejectChunk, DiskFails,
           HashDiffers, PartMissing, ReadCancelMessage, ReceiverCancelled, ReceiverFails,
           ReceiverEnds, ReceiverReturns, ReceiverLeaks, End, Discard, TypeOK
  <2>2. UNCHANGED <<spc, pending>> /\ (delivered => delivered')
    BY ReceiverTouchesOne DEF ReceiverStep
  <2> QED BY <2>1, <2>2 DEF ReceiverOver, ReceiverLive
<1>4. Leaves(Error) \/ Leaves(Cancel) \/ Leaves(AcceptanceNow) \/ Leaves(Acceptance(FALSE, 0, {}))
  BY DEF RefuseForSpace, Decline, DecisionTimeout, AnswerFails, RejectChunk, DiskFails,
         HashDiffers, PartMissing, ReadCancelMessage, ReceiverCancelled, ReceiverFails,
         ToSender, TypeOK
<1>5. PICK m \in Message : m.type # "Ack" /\ Leaves(m)
  BY <1>1, <1>4
<1>6. spc[a] # "idle"
  BY <1>2, ReceiverPhases
<1> QED BY <1>2, <1>3, <1>5, <1>6, ReceiverStops

LEMMA ReadRequestInStep ==
  ASSUME TypeOK, NEW a \in Attempts, StreamInStep(a), ReadRequest(a)
  PROVE  StreamInStep(a)'
<1>1. /\ rpc[a] = "idle" /\ rpc'[a] = "deciding" /\ s2r[a] # <<>> /\ s2r'[a] = Tail(s2r[a])
      /\ UNCHANGED <<spc, r2s, pending, delivered>>
  BY DEF ReadRequest, Receives, Consume, TypeOK, senderVars, diskVars
<1>2. spc[a] \notin {"idle", "stream"}
  BY <1>1, ReceiverPhases
<1>3. CASE spc[a] = "await"
  <2>1. Len(s2r[a]) <= 1 /\ r2s[a] = <<>>
    BY <1>1, <1>3 DEF StreamInStep, AwaitingStream
  <2>2. Tail(s2r[a]) = <<>>
    <3>1. Len(s2r[a]) \in Nat /\ Len(s2r[a]) # 0 /\ Len(Tail(s2r[a])) = Len(s2r[a]) - 1
      BY <1>1, AttemptQueues, LengthOps
    <3>2. Tail(s2r[a]) \in Seq(Message)
      BY <1>1, AttemptQueues, LengthOps
    <3>3. \A x \in Nat : x # 0 /\ x <= 1 => x - 1 = 0
      OBVIOUS
    <3>4. Len(Tail(s2r[a])) = 0
      BY <2>1, <3>1, <3>3, Zenon
    <3> QED BY <3>2, <3>4, LengthOps
  <2>3. AwaitingStream(a)'
    BY <1>1, <2>1, <2>2 DEF AwaitingStream, NoneOf, EndsBut
  <2> QED BY <1>1, <1>3, <2>3 DEF StreamInStep, ReceiverOver, ReceiverLive
<1>4. CASE spc[a] = "final"
  <2>1. NoneOf(s2r'[a], "Chunk")
    BY <1>1, <1>4, AttemptQueues, NoneOfOps DEF StreamInStep, FinalStream
  <2>2. FinalStream(a)'
    BY <1>1, <1>4, <2>1 DEF StreamInStep, FinalStream
  <2> QED BY <1>1, <1>4, <2>2 DEF StreamInStep, ReceiverOver, ReceiverLive
<1> QED BY <1>1, <1>2, <1>3, <1>4 DEF StreamInStep, ReceiverOver, ReceiverLive

LEMMA AcceptInStep ==
  ASSUME TypeOK, NEW a \in Attempts, StreamInStep(a), Accept(a)
  PROVE  StreamInStep(a)'
<1> DEFINE m == AcceptanceNow
<1>1. /\ rpc[a] = "deciding" /\ rpc'[a] = "opening"
      /\ UNCHANGED <<spc, s2r, pending, delivered>>
      /\ r2s'[a] = r2s[a] \/ r2s'[a] = Append(r2s[a], m)
  BY DEF Accept, ToSender, TypeOK, senderVars, diskVars
<1>2. m \in Message /\ m.type # "Ack"
  BY MessagesWritten DEF AcceptanceNow, Acceptance
<1>3. spc[a] \notin {"idle", "stream"}
  BY <1>1, ReceiverPhases
<1> HIDE DEF m
<1>4. CASE spc[a] = "await"
  <2>1. /\ s2r[a] = <<>> /\ r2s[a] = <<>>
        /\ NoneOf(s2r[a], "Chunk") /\ NoneOf(s2r[a], "Complete")
    BY <1>1, <1>4 DEF StreamInStep, AwaitingStream
  <2>2. Len(r2s'[a]) <= 1
    <3>1. CASE r2s'[a] = r2s[a]
      BY <2>1, <3>1
    <3>2. CASE r2s'[a] = Append(r2s[a], m)
      <4>1. r2s'[a] = <<m>>
        BY <2>1, <3>2
      <4> QED BY <4>1
    <3> QED BY <1>1, <3>1, <3>2
  <2>3. AwaitingStream(a)'
    BY <1>1, <2>1, <2>2 DEF AwaitingStream
  <2> QED BY <1>1, <1>4, <2>3 DEF StreamInStep, ReceiverOver, ReceiverLive
<1>5. CASE spc[a] = "final"
  <2>1. NoneOf(r2s[a], "Ack") => NoneOf(r2s'[a], "Ack")
    <3>1. NoneOf(r2s[a], "Ack") => NoneOf(Append(r2s[a], m), "Ack")
      BY <1>2, AttemptQueues, NoneOfOps
    <3> QED BY <1>1, <3>1
  <2>2. FinalStream(a)'
    BY <1>1, <1>5, <2>1 DEF StreamInStep, FinalStream
  <2> QED BY <1>1, <1>5, <2>2 DEF StreamInStep, ReceiverOver, ReceiverLive
<1> QED BY <1>1, <1>3, <1>4, <1>5 DEF StreamInStep, ReceiverOver, ReceiverLive

LEMMA OpenPartInStep ==
  ASSUME TypeOK, NEW a \in Attempts, StreamInStep(a), OpenPart(a)
  PROVE  StreamInStep(a)'
<1>1. /\ rpc[a] = "opening" /\ rpc'[a] = "recv"
      /\ UNCHANGED <<spc, s2r, r2s, pending, delivered>>
  BY DEF OpenPart, TypeOK, senderVars
<1>2. ~ReceiverOver(a) /\ ~ReceiverOver(a)'
  BY <1>1 DEF ReceiverOver, ReceiverLive
<1>3. ~IdleStream(a)
  BY <1>1 DEF IdleStream
<1>4. AwaitingStream(a) => AwaitingStream(a)'
  BY <1>1, <1>2 DEF AwaitingStream
<1>5. StreamingStream(a) => StreamingStream(a)'
  BY <1>1, <1>2 DEF StreamingStream
<1>6. FinalStream(a) => FinalStream(a)'
  BY <1>1 DEF FinalStream
<1> QED BY <1>1, <1>2, <1>3, <1>4, <1>5, <1>6 DEF StreamInStep

LEMMA ReadChunkInStep ==
  ASSUME TypeOK, NEW a \in Attempts, StreamInStep(a), ReadChunk(a)
  PROVE  StreamInStep(a)'
<1>1. /\ Receives(s2r, a, "Chunk") /\ s2r[a] # <<>> /\ s2r'[a] = Tail(s2r[a]) /\ rpc[a] = "recv"
      /\ UNCHANGED <<spc, rpc, pending>>
      /\ \E m \in Message : r2s'[a] = r2s[a] \/ r2s'[a] = Append(r2s[a], m)
  <2>1. /\ Receives(s2r, a, "Chunk") /\ s2r'[a] = Tail(s2r[a]) /\ rpc[a] = "recv"
        /\ UNCHANGED <<spc, rpc, pending>>
    BY DEF ReadChunk, Receiving, Receives, Consume, TypeOK, senderVars
  <2>2. s2r[a] # <<>> /\ Head(s2r[a]) \in Message /\ Head(s2r[a]).type = "Chunk"
    BY <2>1, QueueOps DEF Receives, TypeOK
  <2>3. Head(s2r[a]).chunk \in 0..N /\ Head(s2r[a]).chunk + 1 \in 0..N
    <3>1. Head(s2r[a]).chunk \in 0..N-1
      BY <2>2, MessageFields DEF Chunks
    <3>2. \A c \in 0..N-1 : c \in 0..N /\ c + 1 \in 0..N
      BY ConstantsAssumption
    <3> QED BY <3>1, <3>2
  <2>4. Ack(Head(s2r[a]).chunk, Head(s2r[a]).chunk + 1) \in Message
    BY <2>3, MessagesWritten
  <2>5. \/ r2s'[a] = r2s[a]
        \/ r2s'[a] = Append(r2s[a], Ack(Head(s2r[a]).chunk, Head(s2r[a]).chunk + 1))
    BY DEF ReadChunk, ToSender, TypeOK
  <2> QED BY <2>1, <2>2, <2>4, <2>5
<1>2. spc[a] \notin {"idle", "await", "final"}
  BY <1>1, ReceiverPhases
<1>3. ~ReceiverOver(a)'
  BY <1>1 DEF ReceiverOver, ReceiverLive
<1>4. CASE spc[a] = "stream"
  <2>1. Len(s2r[a]) + Len(r2s[a]) <= pending[a] /\ NoneOf(s2r[a], "Complete")
    BY <1>1, <1>4 DEF StreamInStep, StreamingStream, ReceiverOver, ReceiverLive
  <2>2. NoneOf(s2r'[a], "Complete")
    BY <1>1, <2>1, AttemptQueues, NoneOfOps
  <2>3. Len(s2r'[a]) + Len(r2s'[a]) <= pending[a]
    <3>1. /\ Len(s2r[a]) \in Nat /\ Len(r2s[a]) \in Nat /\ pending[a] \in Nat
          /\ Len(s2r'[a]) = Len(s2r[a]) - 1
          /\ Len(r2s'[a]) = Len(r2s[a]) \/ Len(r2s'[a]) = Len(r2s[a]) + 1
      BY <1>1, AttemptQueues, LengthOps
    <3>2. \A x, y, p \in Nat : x + y <= p => (x - 1) + y <= p /\ (x - 1) + (y + 1) <= p
      OBVIOUS
    <3> QED BY <2>1, <3>1, <3>2, Zenon
  <2>4. StreamingStream(a)'
    BY <1>1, <2>2, <2>3 DEF StreamingStream
  <2> QED BY <1>1, <1>3, <1>4, <2>4 DEF StreamInStep
<1> QED BY <1>1, <1>2, <1>3, <1>4 DEF StreamInStep

LEMMA HashMatchesInStep ==
  ASSUME TypeOK, NEW a \in Attempts, StreamInStep(a), HashMatches(a)
  PROVE  StreamInStep(a)'
<1>1. /\ Receives(s2r, a, "Complete") /\ s2r[a] # <<>> /\ s2r'[a] = Tail(s2r[a]) /\ rpc'[a] = "seal"
      /\ UNCHANGED <<spc, r2s, delivered>>
  BY DEF HashMatches, Receives, Consume, TypeOK, senderVars, diskVars
<1>2. spc[a] \notin {"idle", "await", "stream"}
  BY <1>1, ReceiverPhases
<1>3. spc[a] = "final" => FinalStream(a)'
  BY <1>1, AttemptQueues, NoneOfOps DEF StreamInStep, FinalStream
<1> QED BY <1>1, <1>2, <1>3 DEF StreamInStep, ReceiverOver, ReceiverLive

LEMMA SealInStep ==
  ASSUME TypeOK, NEW a \in Attempts, StreamInStep(a), Seal(a)
  PROVE  StreamInStep(a)'
<1>1. /\ rpc[a] = "seal" /\ rpc'[a] = "ended" /\ s2r'[a] = <<>> /\ delivered' = TRUE
      /\ UNCHANGED spc
  BY DEF Seal, Rename, ReceiverEnds, ReceiverReturns, End, Discard, TypeOK, senderVars
<1>2. spc[a] \notin {"idle", "await", "stream"}
  BY <1>1, ReceiverPhases
<1>3. FinalStream(a)'
  BY <1>1 DEF FinalStream, NoneOf
<1> QED BY <1>1, <1>2, <1>3 DEF StreamInStep

LEMMA ClosingReceiverInStep ==
  ASSUME TypeOK, NEW a \in Attempts, StreamInStep(a), ReceiverLooks(a) \/ ReceiverSettles(a)
  PROVE  StreamInStep(a)'
<1>1. /\ rpc[a] \in Closing /\ rpc'[a] \in Closing \cup {"done"}
      /\ UNCHANGED <<s2r, r2s, spc, pending, delivered>>
  BY DEF ReceiverLooks, ReceiverSettles, AfterLook, Settled, Closing, TypeOK, senderVars, diskVars
<1>2. ReceiverOver(a) /\ ReceiverOver(a)'
  BY <1>1 DEF ReceiverOver, ReceiverLive, Closing
<1> QED BY <1>1, <1>2, OverFrame DEF Closing

LEMMA ReceiverStaysInStep ==
  ASSUME TypeOK, NEW a \in Attempts, StreamInStep(a), ReceiverStep(a)
  PROVE  StreamInStep(a)'
  BY StoppingReceiverInStep, ReadRequestInStep, AcceptInStep, OpenPartInStep, ReadChunkInStep,
     HashMatchesInStep, SealInStep, ClosingReceiverInStep DEF ReceiverStep

\* The environment.
LEMMA CrashInStep ==
  ASSUME TypeOK, StreamsInStep,
         \/ SenderCrashes \/ ReceiverCrashes
         \/ \E a \in Attempts : ReceiverCrashesInChunk(a) \/ ReceiverCrashesInSeal(a)
  PROVE  StreamsInStep'
<1> SUFFICES ASSUME NEW b \in Attempts PROVE StreamInStep(b)'
  BY DEF StreamsInStep
<1>0. StreamInStep(b)
  BY DEF StreamsInStep
<1>1. CASE SenderCrashes
  <2>1. UNCHANGED <<s2r, rpc, delivered>> /\ r2s'[b] = <<>>
    BY <1>1 DEF SenderCrashes, receiverVars, diskVars
  <2>2. CASE spc[b] \in SenderLive \cup Closing
    <3>1. spc'[b] = "dead"
      BY <1>1, <2>2 DEF SenderCrashes
    <3> QED BY <1>0, <2>1, <3>1 DEF StreamInStep, ReceiverOver
  <2>3. CASE spc[b] \notin SenderLive \cup Closing
    <3>1. spc'[b] = spc[b]
      BY <1>1, <2>3 DEF SenderCrashes
    <3> QED BY <1>0, <2>1, <2>3, <3>1 DEF StreamInStep, ReceiverOver, SenderLive, IdleStream
  <2> QED BY <2>2, <2>3
<1>2. CASE \/ ReceiverCrashes
           \/ \E a \in Attempts : ReceiverCrashesInChunk(a) \/ ReceiverCrashesInSeal(a)
  <2>1. ReceiverDies /\ (delivered => delivered')
    BY <1>2 DEF ReceiverCrashes, ReceiverCrashesInChunk, ReceiverCrashesInSeal, WriteChunk, Rename,
                diskVars
  <2>2. /\ UNCHANGED <<r2s, spc, pending>> /\ s2r'[b] = <<>>
        /\ rpc'[b] = IF rpc[b] \in ReceiverLive \cup Closing THEN "dead" ELSE rpc[b]
    BY <2>1 DEF ReceiverDies, senderVars
  <2>3. CASE ~ReceiverOver(b) /\ rpc[b] # "idle"
    <3>1. rpc'[b] = "dead"
      BY <2>2, <2>3 DEF ReceiverOver
    <3>2. spc[b] # "idle"
      BY <1>0, <2>3 DEF StreamInStep, IdleStream
    <3>3. Error \in Message /\ Error.type # "Ack"
      BY MessagesWritten DEF Error
    <3>4. ReceiverOver(b)'
      BY <3>1 DEF ReceiverOver, ReceiverLive
    <3> QED BY <1>0, <2>1, <2>2, <2>3, <3>2, <3>3, <3>4, ReceiverStops
  <2>4. CASE ReceiverOver(b) \/ rpc[b] = "idle"
    <3>2. s2r'[b] = <<>>
      BY <2>2
    <3>3. CASE ReceiverOver(b)
      <4>1. s2r[b] = <<>>
        BY <1>0, <3>3 DEF StreamInStep
      <4>2. ReceiverOver(b)' /\ rpc'[b] \notin {"idle", "deciding", "seal"}
        BY <2>2, <3>3 DEF ReceiverOver, ReceiverLive, Closing
      <4> QED BY <1>0, <2>1, <2>2, <3>3, <4>1, <4>2, OverFrame
    <3>4. CASE rpc[b] = "idle"
      <4>0. rpc'[b] = "idle"
        BY <2>2, <3>4 DEF ReceiverLive, Closing
      <4>1. /\ NoneOf(<<>>, "Chunk") /\ NoneOf(<<>>, "Complete") /\ Len(<<>>) <= 1
        BY DEF NoneOf
      <4>2. ~ReceiverOver(b)
        BY <3>4 DEF ReceiverOver
      <4>3. AwaitingStream(b) => AwaitingStream(b)'
        BY <2>2, <3>4, <4>0, <4>1, <4>2 DEF AwaitingStream
      <4>4. FinalStream(b) => FinalStream(b)'
        BY <2>1, <2>2, <4>1 DEF FinalStream
      <4>5. ~StreamingStream(b)
        BY <3>4 DEF StreamingStream
      <4>6. IdleStream(b) => IdleStream(b)'
        BY <2>2, <4>0 DEF IdleStream
      <4> QED BY <1>0, <2>2, <3>2, <4>3, <4>4, <4>5, <4>6 DEF StreamInStep
    <3> QED BY <2>4, <3>3, <3>4
  <2> QED BY <2>3, <2>4
<1> QED BY <1>1, <1>2

LEMMA LoseToReceiverInStep ==
  ASSUME TypeOK, NEW a \in Attempts, StreamInStep(a), LoseToReceiver(a)
  PROVE  StreamInStep(a)'
<1> DEFINE q == SubSeq(s2r[a], 1, Len(s2r[a]) - 1)
<1>1. s2r[a] # <<>> /\ s2r'[a] = q /\ UNCHANGED <<spc, rpc, r2s, pending, delivered>>
  BY DEF LoseToReceiver, LoseLast, TypeOK, senderVars, receiverVars, diskVars
<1>2. /\ Len(s2r[a]) \in Nat /\ Len(r2s[a]) \in Nat /\ pending[a] \in Nat /\ Len(q) = Len(s2r[a]) - 1
      /\ NoneOf(s2r[a], "Chunk") => NoneOf(q, "Chunk")
      /\ NoneOf(s2r[a], "Complete") => NoneOf(q, "Complete")
  BY <1>1, AttemptQueues, LengthOps, NoneOfOps
<1> HIDE DEF q
<1>3. ~ReceiverOver(a) /\ spc[a] # "idle"
  BY <1>1 DEF StreamInStep, IdleStream
<1>4. ~ReceiverOver(a)'
  BY <1>1, <1>3 DEF ReceiverOver
<1>5. CASE spc[a] = "await"
  <2>1. rpc[a] = "idle" /\ Len(s2r[a]) <= 1
    BY <1>1, <1>5 DEF StreamInStep, AwaitingStream
  <2>2. Len(q) <= 1
    <3>1. \A x \in Nat : x <= 1 => x - 1 <= 1
      OBVIOUS
    <3> QED BY <1>2, <2>1, <3>1, Zenon
  <2>3. AwaitingStream(a)'
    BY <1>1, <1>2, <1>3, <1>5, <2>1, <2>2 DEF StreamInStep, AwaitingStream
  <2> QED BY <1>1, <1>4, <1>5, <2>3 DEF StreamInStep
<1>6. CASE spc[a] = "stream"
  <2>1. Len(s2r[a]) + Len(r2s[a]) <= pending[a]
    BY <1>3, <1>6 DEF StreamInStep, StreamingStream
  <2>2. Len(q) + Len(r2s[a]) <= pending[a]
    <3>1. \A x, y, p \in Nat : x + y <= p => (x - 1) + y <= p
      OBVIOUS
    <3> QED BY <1>2, <2>1, <3>1, Zenon
  <2>3. StreamingStream(a)'
    BY <1>1, <1>2, <1>6, <2>2 DEF StreamInStep, StreamingStream
  <2> QED BY <1>1, <1>4, <1>6, <2>3 DEF StreamInStep
<1>7. CASE spc[a] = "final"
  <2>1. FinalStream(a)'
    BY <1>1, <1>2, <1>7 DEF StreamInStep, FinalStream
  <2> QED BY <1>1, <1>4, <1>7, <2>1 DEF StreamInStep
<1> QED BY <1>1, <1>3, <1>4, <1>5, <1>6, <1>7 DEF StreamInStep

LEMMA LoseToSenderInStep ==
  ASSUME TypeOK, NEW a \in Attempts, StreamInStep(a), LoseToSender(a)
  PROVE  StreamInStep(a)'
<1> DEFINE q == SubSeq(r2s[a], 1, Len(r2s[a]) - 1)
<1>1. r2s[a] # <<>> /\ r2s'[a] = q /\ UNCHANGED <<spc, rpc, s2r, pending, delivered>>
  BY DEF LoseToSender, LoseLast, TypeOK, senderVars, receiverVars, diskVars
<1>2. /\ Len(s2r[a]) \in Nat /\ Len(r2s[a]) \in Nat /\ pending[a] \in Nat /\ Len(q) = Len(r2s[a]) - 1
      /\ NoneOf(r2s[a], "Ack") => NoneOf(q, "Ack")
  BY <1>1, AttemptQueues, LengthOps, NoneOfOps
<1>3. s2r[a] = <<>> => Len(s2r[a]) = 0
  BY AttemptQueues
<1> HIDE DEF q
<1>4. spc[a] # "idle"
  BY <1>1 DEF StreamInStep, IdleStream
<1>5. ReceiverOver(a)' <=> ReceiverOver(a)
  BY <1>1 DEF ReceiverOver
<1>6. CASE spc[a] = "await"
  <2>1. Len(r2s[a]) <= 1 \/ Len(r2s[a]) = 2
    BY <1>6 DEF StreamInStep, AwaitingStream
  <2>2. Len(q) <= 1
    <3>1. \A x \in Nat : x <= 1 \/ x = 2 => x - 1 <= 1
      OBVIOUS
    <3> QED BY <1>2, <2>1, <3>1, Zenon
  <2>3. AwaitingStream(a)'
    BY <1>1, <1>6, <2>2 DEF StreamInStep, AwaitingStream, NoneOf
  <2> QED BY <1>1, <1>5, <1>6, <2>3 DEF StreamInStep
<1>7. CASE spc[a] = "stream"
  <2>1. Len(s2r[a]) + Len(q) <= pending[a]
    <3>1. CASE Len(s2r[a]) + Len(r2s[a]) <= pending[a]
      <4>1. \A x, y, p \in Nat : x + y <= p => x + (y - 1) <= p
        OBVIOUS
      <4> QED BY <1>2, <3>1, <4>1, Zenon
    <3>2. CASE ReceiverOver(a) /\ Len(r2s[a]) = pending[a] + 1
      <4>1. Len(s2r[a]) = 0
        BY <1>3, <3>2 DEF StreamInStep
      <4>2. \A y, p \in Nat : y = p + 1 => 0 + (y - 1) <= p
        OBVIOUS
      <4> QED BY <1>2, <3>2, <4>1, <4>2, Zenon
    <3> QED BY <1>7, <3>1, <3>2 DEF StreamInStep, StreamingStream
  <2>2. StreamingStream(a)'
    BY <1>1, <1>7, <2>1 DEF StreamInStep, StreamingStream
  <2> QED BY <1>1, <1>5, <1>7, <2>2 DEF StreamInStep
<1>8. CASE spc[a] = "final"
  <2>1. FinalStream(a)'
    BY <1>1, <1>2, <1>8 DEF StreamInStep, FinalStream
  <2> QED BY <1>1, <1>5, <1>8, <2>1 DEF StreamInStep
<1> QED BY <1>1, <1>4, <1>5, <1>6, <1>7, <1>8 DEF StreamInStep

LEMMA EnvironmentInStep ==
  ASSUME TypeOK, StreamsInStep, Environment
  PROVE  StreamsInStep'
<1>1. CASE UNCHANGED <<s2r, r2s, spc, rpc, pending, delivered>>
  <2>1. \A b \in Attempts : StreamInStep(b) /\ UNCHANGED <<s2r[b], r2s[b], spc[b], rpc[b], pending[b]>>
    BY <1>1 DEF StreamsInStep
  <2> QED BY <1>1, <2>1, AttemptFrame DEF StreamsInStep
<1>2. CASE \/ SenderCrashes \/ ReceiverCrashes
           \/ \E a \in Attempts : ReceiverCrashesInChunk(a) \/ ReceiverCrashesInSeal(a)
  BY <1>2, CrashInStep
<1>3. ASSUME NEW a \in Attempts, LoseToReceiver(a) \/ LoseToSender(a) PROVE StreamsInStep'
  <2>1. StreamInStep(a)'
    BY <1>3, LoseToReceiverInStep, LoseToSenderInStep DEF StreamsInStep
  <2>2. (\A b \in Attempts \ {a} : SameAttempt(b)) /\ (delivered => delivered')
    BY <1>3 DEF LoseToReceiver, LoseToSender, LoseLast, TypeOK, SameAttempt, senderVars,
                receiverVars, diskVars
  <2> QED BY <2>1, <2>2, OthersStayInStep
<1>4. ASSUME NEW a \in Attempts, CancelSending(a) \/ CancelReceiving(a) \/ LinkDrops(a)
      PROVE  UNCHANGED <<s2r, r2s, spc, rpc, pending, delivered>>
  BY <1>4 DEF CancelSending, CancelReceiving, LinkDrops, senderVars, receiverVars, diskVars
<1>5. EditSource \/ SweepSender \/ SweepReceiver \/ ClearFinished
        => UNCHANGED <<s2r, r2s, spc, rpc, pending, delivered>>
  BY DEF EditSource, SweepSender, SweepReceiver, ClearFinished, senderVars, receiverVars, diskVars
<1> QED BY <1>1, <1>2, <1>3, <1>4, <1>5 DEF Environment

\* The sender's row turns complete only on an Ack read in the final wait.
LEMMA CompleteStep ==
  ASSUME TypeOK, StreamsInStep, CompleteMeansDelivered, [Next]_vars
  PROVE  CompleteMeansDelivered'
<1>1. delivered => delivered'
  <2>1. ASSUME NEW a \in Attempts, StartAttempt(a) \/ SenderStep(a) PROVE delivered => delivered'
    BY <2>1, SenderTouchesOne
  <2>2. ASSUME NEW a \in Attempts, ReceiverStep(a) PROVE delivered => delivered'
    BY <2>2, ReceiverTouchesOne
  <2>3. Environment /\ delivered => delivered'
    BY DEF Environment, CancelSending, CancelReceiving, LinkDrops, LoseToReceiver, LoseToSender,
           ReceiverCrashesInChunk, ReceiverCrashesInSeal, WriteChunk, Rename, EditSource,
           SenderCrashes, ReceiverCrashes, SweepSender, SweepReceiver, ClearFinished, receiverVars,
           diskVars
  <2> QED BY <2>1, <2>2, <2>3 DEF Next, vars, receiverVars, diskVars
<1>2. ASSUME NEW a \in Attempts, StartAttempt(a) \/ SenderStep(a), sStatus' = "complete"
      PROVE  sStatus = "complete" \/ delivered
  <2>1. CASE ReadFinalAck(a)
    <3>1. spc[a] = "final" /\ Head(r2s[a]).type = "Ack" /\ r2s[a] # <<>>
      BY <2>1 DEF ReadFinalAck, Receives
    <3>2. NoneOf(r2s[a], "Ack") => Head(r2s[a]).type # "Ack"
      BY <3>1, AttemptQueues, NoneOfOps
    <3> QED BY <3>1, <3>2 DEF StreamsInStep, StreamInStep, FinalStream
  <2>2. CASE SenderSettles(a)
    BY <1>2, <2>2 DEF SenderSettles, Settled
  <2>3. CASE ~ReadFinalAck(a) /\ ~SenderSettles(a)
    BY <1>2, <2>3 DEF SenderStep, StartAttempt, ReadAcceptance, SkipChunk, SendChunk, ReadAck,
       ReadCancel, SendComplete, ReadFinalError, SenderCancelled, SenderFails, SenderEnds,
       SenderLooks
  <2> QED BY <2>1, <2>2, <2>3
<1>3. ASSUME NEW a \in Attempts, ReceiverStep(a) PROVE UNCHANGED sStatus
  BY <1>3, ReceiverTouchesOne
<1>4. Environment => sStatus' \in {sStatus, "failed"}
  BY DEF Environment, CancelSending, CancelReceiving, LinkDrops, LoseToReceiver, LoseToSender,
         ReceiverCrashesInChunk, ReceiverCrashesInSeal, ReceiverDies, EditSource, SenderCrashes,
         ReceiverCrashes, SweepSender, SweepReceiver, ClearFinished, senderVars
<1>5. sStatus' = "complete" => sStatus = "complete" \/ delivered
  BY <1>2, <1>3, <1>4 DEF Next, vars, senderVars
<1> QED BY <1>1, <1>5 DEF CompleteMeansDelivered

LEMMA InvInit == Init => IInv
<1> SUFFICES ASSUME Init PROVE IInv
  OBVIOUS
<1>1. \A a \in Attempts : StreamInStep(a)
  BY DEF Init, StreamInStep, IdleStream, ReceiverOver
<1> QED BY <1>1, TypeInit DEF IInv, StreamsInStep, CompleteMeansDelivered, Init

LEMMA InvStep == IInv /\ [Next]_vars => IInv'
<1> SUFFICES ASSUME IInv, [Next]_vars PROVE IInv'
  OBVIOUS
<1>0. TypeOK /\ StreamsInStep /\ CompleteMeansDelivered
  BY DEF IInv
<1>1. TypeOK' /\ CompleteMeansDelivered'
  BY <1>0, TypeStep, CompleteStep
<1>2. ASSUME NEW a \in Attempts, StartAttempt(a) \/ SenderStep(a) PROVE StreamsInStep'
  <2>1. StreamInStep(a)'
    BY <1>0, <1>2, SenderStaysInStep DEF StreamsInStep
  <2> QED BY <1>0, <1>2, <2>1, SenderTouchesOne, OthersStayInStep
<1>3. ASSUME NEW a \in Attempts, ReceiverStep(a) PROVE StreamsInStep'
  <2>1. StreamInStep(a)'
    BY <1>0, <1>3, ReceiverStaysInStep DEF StreamsInStep
  <2> QED BY <1>0, <1>3, <2>1, ReceiverTouchesOne, OthersStayInStep
<1>4. ASSUME Environment PROVE StreamsInStep'
  BY <1>0, <1>4, EnvironmentInStep
<1>5. ASSUME UNCHANGED vars PROVE StreamsInStep'
  <2>1. UNCHANGED <<s2r, r2s, spc, rpc, pending, delivered>>
    BY <1>5 DEF vars, senderVars, receiverVars, diskVars
  <2>2. \A b \in Attempts : StreamInStep(b) /\ UNCHANGED <<s2r[b], r2s[b], spc[b], rpc[b], pending[b]>>
    BY <1>0, <2>1 DEF StreamsInStep
  <2> QED BY <2>1, <2>2, AttemptFrame DEF StreamsInStep
<1>6. StreamsInStep'
  BY <1>2, <1>3, <1>4, <1>5 DEF Next
<1> QED BY <1>1, <1>6 DEF IInv

LEMMA InvHolds == Spec => []IInv
  BY InvInit, InvStep, PTL DEF Spec

\* Whatever is lost, cancelled, repeated or crashes, and however attempts
\* overlap, the two ends of each stream agree on its progress.
THEOREM StreamsAgree == Spec => []StreamsInStep
<1>1. IInv => StreamsInStep
  BY DEF IInv
<1> QED BY <1>1, InvHolds, PTL

\* A sender's row is complete only if the receiver has delivered the file.
THEOREM CompleteIsDelivered == Spec => []CompleteMeansDelivered
<1>1. IInv => CompleteMeansDelivered
  BY DEF IInv
<1> QED BY <1>1, InvHolds, PTL

\* At most pending_acks chunks and acknowledgements of a stream are under way.
THEOREM FlowIsControlled == Spec => []FlowControl
<1>1. IInv => FlowControl
  <2> SUFFICES ASSUME IInv, NEW a \in Attempts, spc[a] = "stream"
               PROVE  Cardinality(OfType(s2r[a], "Chunk")) + Cardinality(OfType(r2s[a], "Ack")) <= pending[a]
    BY DEF FlowControl
  <2> DEFINE cs == OfType(s2r[a], "Chunk")
             as == OfType(r2s[a], "Ack")
  <2>1. TypeOK /\ StreamInStep(a)
    BY DEF IInv, StreamsInStep
  <2>2. /\ s2r[a] \in Seq(Message) /\ r2s[a] \in Seq(Message)
        /\ Len(s2r[a]) \in Nat /\ Len(r2s[a]) \in Nat /\ pending[a] \in Nat
    BY <2>1, AttemptQueues
  <2>3. ASSUME NEW n \in Nat, NEW S, S \subseteq 1..n
        PROVE  Cardinality(S) \in Nat /\ Cardinality(S) <= n
    <3>1. IsFiniteSet(1..n) /\ Cardinality(1..n) = n
      BY FS_Interval
    <3> QED BY <2>3, <3>1, FS_Subset, FS_CardinalityType
  <2>4. cs \subseteq 1..Len(s2r[a]) /\ as \subseteq 1..Len(r2s[a])
    BY <2>2 DEF OfType
  <2>5. /\ Cardinality(cs) \in Nat /\ Cardinality(cs) <= Len(s2r[a])
        /\ Cardinality(as) \in Nat /\ Cardinality(as) <= Len(r2s[a])
    BY <2>2, <2>3, <2>4
  <2> HIDE DEF cs, as
  <2>6. \A x, y, n, k, p \in Nat : x <= n /\ y <= k /\ n + k <= p => x + y <= p
    OBVIOUS
  <2>7. CASE Len(s2r[a]) + Len(r2s[a]) <= pending[a]
    BY <2>2, <2>5, <2>6, <2>7, Zenon DEF cs, as
  <2>8. CASE ReceiverOver(a) /\ Len(r2s[a]) = pending[a] + 1 /\ EndsBut(r2s[a], "Ack")
    <3>1. as \subseteq 1..pending[a]
      <4>1. Len(r2s[a]) \notin as
        BY <2>8 DEF as, OfType, EndsBut
      <4>2. \A i \in 1..Len(r2s[a]) : i # Len(r2s[a]) => i \in 1..pending[a]
        BY <2>2, <2>8
      <4> QED BY <2>4, <4>1, <4>2
    <3>2. Cardinality(as) <= pending[a]
      BY <2>2, <2>3, <3>1
    <3>3. Len(s2r[a]) = 0
      BY <2>1, <2>8, AttemptQueues DEF StreamInStep
    <3>4. \A x, y, p \in Nat : x <= 0 /\ y <= p => x + y <= p
      OBVIOUS
    <3> QED BY <2>2, <2>5, <3>2, <3>3, <3>4, Zenon DEF cs, as
  <2> QED BY <2>1, <2>7, <2>8 DEF StreamInStep, StreamingStream
<1> QED BY <1>1, InvHolds, PTL

-----------------------------------------------------------------------------
(* The rows.                                                               *)

RunsOrBroke(pcs) == \E a \in Attempts : pcs[a] \notin {"idle", "done"}

ReceiverSettled == rStatus \in OpenStatus => RunsOrBroke(rpc)
SenderSettled   == sStatus \in OpenStatus /\ spc[1] # "idle" => RunsOrBroke(spc)

LEMMA ReceiverRow ==
  ASSUME TypeOK, ReceiverSettled, [Next]_vars
  PROVE  ReceiverSettled'
<1>1. ASSUME NEW a \in Attempts, ReceiverStep(a) PROVE ReceiverSettled'
  <2> USE DEF ReceiverSettled, RunsOrBroke, TypeOK, rowVars
  <2>1. \A b \in Attempts \ {a} : rpc'[b] = rpc[b]
    BY <1>1, ReceiverTouchesOne DEF SameAttempt
  <2>2. CASE rpc'[a] \notin {"idle", "done"}
    BY <2>2
  <2>3. CASE rpc'[a] \in {"idle", "done"} /\ RefuseForSpace(a)
    BY <2>1, <2>3 DEF RefuseForSpace, ReceiverReturns, Update
  <2>4. CASE rpc'[a] \in {"idle", "done"} /\ ~RefuseForSpace(a)
    <3>1. Decline(a) \/ DecisionTimeout(a) \/ ReceiverLooks(a) \/ ReceiverSettles(a)
      BY <1>1, <2>4 DEF ReceiverStep, ReadRequest, Accept, OpenPart, AnswerFails,
         ReadChunk, RejectChunk, DiskFails, HashMatches, HashDiffers, PartMissing, Seal,
         ReadCancelMessage, ReceiverCancelled, ReceiverFails, Receiving, ReceiverEnds, ReceiverReturns,
         End, ReceiverLeaks
    <3>2. CASE Decline(a) \/ DecisionTimeout(a)
      BY <3>2 DEF Decline, DecisionTimeout, ReceiverReturns, Update, OpenStatus
    <3>3. CASE ReceiverLooks(a)
      BY <2>4, <3>3 DEF ReceiverLooks, AfterLook
    <3>4. CASE ReceiverSettles(a)
      BY <3>4 DEF ReceiverSettles, Settled, Update, OpenStatus
    <3> QED BY <3>1, <3>2, <3>3, <3>4
  <2> QED BY <2>2, <2>3, <2>4
<1>2. ASSUME NEW a \in Attempts, StartAttempt(a) \/ SenderStep(a) PROVE UNCHANGED <<rStatus, rpc>>
  BY <1>2 DEF StartAttempt, SenderStep, ReadAcceptance, SkipChunk, SendChunk, ReadAck, ReadCancel, SendComplete,
     ReadFinalAck, ReadFinalError, SenderCancelled, SenderFails, SenderLooks, SenderSettles,
     receiverVars, rowVars
<1>3. ASSUME Environment PROVE ReceiverSettled'
  <2>1. \/ UNCHANGED <<rStatus, rpc>> \/ rStatus' \in {"failed", "none"}
        \/ /\ UNCHANGED rStatus
           /\ rpc' = [a \in Attempts |-> IF rpc[a] \in ReceiverLive \cup Closing THEN "dead" ELSE rpc[a]]
    BY <1>3 DEF Environment, CancelSending, CancelReceiving, LinkDrops, LoseToReceiver, LoseToSender,
       ReceiverCrashesInChunk, ReceiverCrashesInSeal, ReceiverDies, EditSource, SenderCrashes, ReceiverCrashes, SweepSender,
       SweepReceiver, ClearFinished, receiverVars, rowVars
  <2> QED BY <2>1 DEF ReceiverSettled, RunsOrBroke, OpenStatus
<1>4. UNCHANGED vars => UNCHANGED <<rStatus, rpc>>
  BY DEF vars, receiverVars, rowVars
<1> QED BY <1>1, <1>2, <1>3, <1>4 DEF Next, ReceiverSettled, RunsOrBroke

LEMMA SenderRow ==
  ASSUME TypeOK, SenderSettled, [Next]_vars
  PROVE  SenderSettled'
<1>1. ASSUME NEW a \in Attempts, StartAttempt(a) \/ SenderStep(a) PROVE SenderSettled'
  <2> USE DEF SenderSettled, RunsOrBroke, TypeOK
  <2>1. CASE spc'[a] \notin {"idle", "done"}
    BY <2>1
  <2>2. CASE spc'[a] \in {"idle", "done"}
    <3>1. sStatus' \in {"failed", "paused"} \/ (UNCHANGED sStatus /\ sStatus \notin OpenStatus)
      BY <1>1, <2>2 DEF StartAttempt, SenderStep, ReadAcceptance, SkipChunk, SendChunk, ReadAck, ReadCancel,
         SendComplete, ReadFinalAck, ReadFinalError, SenderCancelled, SenderFails, SenderEnds, End,
         AwaitsAck, SenderReadFails, SenderWriteFails, UnexpectedBySender, SenderLooks,
         SenderSettles, AfterLook, Settled
    <3>2. sStatus' \notin OpenStatus
      BY <3>1 DEF OpenStatus
    <3> QED BY <3>2
  <2> QED BY <2>1, <2>2
<1>2. ASSUME NEW a \in Attempts, ReceiverStep(a) PROVE UNCHANGED <<sStatus, spc>>
  BY <1>2, ReceiverTouchesOne
<1>3. ASSUME Environment PROVE SenderSettled'
  <2>1. \/ UNCHANGED <<sStatus, spc>> \/ sStatus' = "failed"
        \/ /\ UNCHANGED sStatus
           /\ spc' = [a \in Attempts |-> IF spc[a] \in SenderLive \cup Closing THEN "dead" ELSE spc[a]]
    BY <1>3 DEF Environment, CancelSending, CancelReceiving, LinkDrops, LoseToReceiver, LoseToSender,
       ReceiverCrashesInChunk, ReceiverCrashesInSeal, ReceiverDies, EditSource, SenderCrashes, ReceiverCrashes, SweepSender,
       SweepReceiver, ClearFinished, senderVars
  <2>2. 1 \in Attempts
    BY ConstantsAssumption DEF Attempts
  <2> QED BY <2>1, <2>2 DEF SenderSettled, RunsOrBroke, OpenStatus
<1>4. UNCHANGED vars => UNCHANGED <<sStatus, spc>>
  BY DEF vars, senderVars
<1> QED BY <1>1, <1>2, <1>3, <1>4 DEF Next, SenderSettled, RunsOrBroke

\* Handlers that all ran to their ends leave no open row, however they overlap
\* (file_transfer.rs, the ends of both handlers).
THEOREM RowsSettle == Spec => []RowsAreSettled
<1> DEFINE Inv == TypeOK /\ ReceiverSettled /\ SenderSettled
<1>1. Init => Inv
  <2>1. 1 \in Attempts
    BY ConstantsAssumption DEF Attempts
  <2> QED BY <2>1, TypeInit DEF Init, ReceiverSettled, SenderSettled, OpenStatus
<1>2. Inv /\ [Next]_vars => Inv'
  BY TypeStep, ReceiverRow, SenderRow
<1>3. Inv => RowsAreSettled
  BY DEF ReceiverSettled, SenderSettled, RunsOrBroke, RowsAreSettled
<1> HIDE DEF Inv
<1> QED BY <1>1, <1>2, <1>3, PTL DEF Spec

-----------------------------------------------------------------------------
(***************************************************************************)
(* What holds when attempts do not overlap, under every other fault: what  *)
(* is delivered is the announced file, what is called verified is on the   *)
(* disk, and the transfer implements FileDelivery.  One handler at a time  *)
(* uses the part file, so that nothing is written to it between the        *)
(* comparison of its hash and the rename.                                  *)
(***************************************************************************)

\* The user resumes a transfer only after its last attempt is over at both ends.
InTurn == \A a, b \in Attempts : a < b /\ spc[b] # "idle" => Quiet(a)

\* What a handler has open is the file at its path.
OpenIsPart ==
  \A a \in Attempts : rpc[a] \in {"recv", "seal"} => inode[a] = "part" /\ partFile

SealIsChecked == \A a \in Attempts : rpc[a] = "seal" => part = Original

\* The chunks that the Acks of a queue speak for.
Acked(q) == {q[i].chunk : i \in OfType(q, "Ack")}

IsWritten(c) == c \in Chunks /\ part[c] # Hole

\* VerifiedIsWritten, and that the Ack of a rename is not under way before one.
Written ==
  ~dirty => /\ \A c \in verified : IsWritten(c)
            /\ \A a \in Attempts : \A c \in Acked(r2s[a]) : IsWritten(c)

DInv == IInv /\ InTurn /\ OpenIsPart /\ SealIsChecked /\ DeliveredIntact /\ Written

-----------------------------------------------------------------------------
(* Turns.                                                                  *)

Active(a) == rpc[a] \in ReceiverLive \cup Closing \/ s2r[a] # <<>>

LEMMA QuietIsIdle ==
  ASSUME StreamsInStep, NEW a \in Attempts
  PROVE  /\ Quiet(a) => ~Active(a)
         /\ spc[a] = "idle" => ~Active(a)
  BY DEF StreamsInStep, StreamInStep, IdleStream, Quiet, Active, ReceiverOver, ReceiverLive, Closing

\* At most one handler of the receiver runs or has something to read.
LEMMA OneActive ==
  ASSUME StreamsInStep, InTurn, NEW a \in Attempts, NEW b \in Attempts, a # b, Active(a)
  PROVE  ~Active(b)
<1>1. a < b \/ b < a
  BY ConstantsAssumption DEF Attempts
<1>2. CASE a < b
  BY <1>2, QuietIsIdle DEF InTurn
<1>3. CASE b < a
  BY <1>3, QuietIsIdle DEF InTurn
<1> QED BY <1>1, <1>2, <1>3

\* An attempt that is over stays so.
LEMMA QuietStays ==
  ASSUME TypeOK, NEW b \in Attempts, Quiet(b), [Next]_vars
  PROVE  Quiet(b)'
<1>1. spc[b] \in {"done", "dead"} /\ (rpc[b] \in {"done", "dead", "leaked"} \/ (rpc[b] = "idle" /\ s2r[b] = <<>>))
  <2>1. /\ spc[b] \in {"idle", "done", "dead"} \cup SenderLive \cup Closing
        /\ rpc[b] \in {"idle", "done", "dead", "leaked"} \cup ReceiverLive \cup Closing
    BY DEF TypeOK
  <2>2. /\ SenderOver(b) /\ spc[b] \notin Closing
        /\ (ReceiverOver(b) /\ rpc[b] \notin Closing) \/ (rpc[b] = "idle" /\ s2r[b] = <<>>)
    BY DEF Quiet
  <2> QED BY <2>1, <2>2 DEF SenderOver, ReceiverOver
<1>2. ASSUME UNCHANGED <<spc[b], rpc[b], s2r[b]>> PROVE Quiet(b)'
  BY <1>2 DEF Quiet, SenderOver, ReceiverOver
<1>3. ASSUME NEW a \in Attempts, StartAttempt(a) \/ SenderStep(a) PROVE Quiet(b)'
  <2>1. a # b
    BY <1>1, <1>3 DEF StartAttempt, SenderStep, ReadAcceptance, SkipChunk, SendChunk, ReadAck, ReadCancel,
       SendComplete, ReadFinalAck, ReadFinalError, SenderCancelled, SenderFails, AwaitsAck,
       SenderReadFails, SenderWriteFails, UnexpectedBySender, SenderLooks, SenderSettles, Settled
  <2> QED BY <1>2, <1>3, <2>1, SenderTouchesOne DEF SameAttempt
<1>4. ASSUME NEW a \in Attempts, ReceiverStep(a) PROVE Quiet(b)'
  <2>1. a # b
    BY <1>1, <1>4 DEF ReceiverStep, ReadRequest, RefuseForSpace, Accept, Decline, DecisionTimeout,
       OpenPart, AnswerFails, ReadChunk, RejectChunk, DiskFails, HashMatches, HashDiffers,
       PartMissing, Seal, ReadCancelMessage, ReceiverCancelled, ReceiverFails, Receiving, Receives,
       ReceiverLooks, ReceiverSettles, Settled
  <2> QED BY <1>2, <1>4, <2>1, ReceiverTouchesOne DEF SameAttempt
<1>5. ASSUME Environment PROVE Quiet(b)'
  <2>1. ASSUME NEW a \in Attempts, LoseToReceiver(a) PROVE Quiet(b)'
    <3>1. UNCHANGED <<spc, rpc>> /\ (s2r[b] = <<>> => s2r'[b] = <<>>)
      BY <2>1 DEF LoseToReceiver, LoseLast, TypeOK, senderVars, receiverVars
    <3> QED BY <1>1, <3>1 DEF Quiet, SenderOver, ReceiverOver
  <2>2. ASSUME SenderCrashes PROVE Quiet(b)'
    BY <1>1, <1>2, <2>2 DEF SenderCrashes, SenderLive, Closing, receiverVars
  <2>3. ASSUME ReceiverDies PROVE Quiet(b)'
    <3>1. spc' = spc /\ rpc'[b] = rpc[b] /\ s2r'[b] = <<>>
      BY <1>1, <2>3 DEF ReceiverDies, ReceiverLive, Closing, senderVars
    <3> QED BY <1>1, <3>1 DEF Quiet, SenderOver, ReceiverOver
  <2> QED BY <1>2, <1>5, <2>1, <2>2, <2>3 DEF Environment, CancelSending, CancelReceiving, LinkDrops,
             LoseToSender, ReceiverCrashesInChunk, ReceiverCrashesInSeal, EditSource, ReceiverCrashes,
             SweepSender, SweepReceiver, ClearFinished, senderVars, receiverVars
<1>6. ASSUME UNCHANGED vars PROVE Quiet(b)'
  BY <1>2, <1>6 DEF vars, senderVars, receiverVars
<1> QED BY <1>3, <1>4, <1>5, <1>6 DEF Next

\* Only the start of an attempt makes its sender leave "idle".
LEMMA StartsInTurn ==
  ASSUME TypeOK, NEW b \in Attempts, [Next]_vars, spc[b] = "idle", spc'[b] # "idle"
  PROVE  StartAttempt(b)
<1>1. ASSUME NEW a \in Attempts, StartAttempt(a) \/ SenderStep(a) PROVE a = b
  BY <1>1, SenderTouchesOne DEF SameAttempt
<1>2. ASSUME SenderStep(b) PROVE FALSE
  BY <1>2 DEF SenderStep, ReadAcceptance, SkipChunk, SendChunk, ReadAck, ReadCancel, SendComplete,
     ReadFinalAck, ReadFinalError, SenderCancelled, SenderFails, AwaitsAck, SenderReadFails,
     SenderWriteFails, UnexpectedBySender, SenderLooks, SenderSettles, Settled
<1>3. ASSUME NEW a \in Attempts, ReceiverStep(a) PROVE FALSE
  BY <1>3, ReceiverTouchesOne
<1>4. ASSUME Environment PROVE FALSE
  BY <1>4 DEF Environment, CancelSending, CancelReceiving, LinkDrops, LoseToReceiver, LoseToSender,
     ReceiverCrashesInChunk, ReceiverCrashesInSeal, ReceiverDies, EditSource, SenderCrashes,
     ReceiverCrashes, SweepSender, SweepReceiver, ClearFinished, senderVars, SenderLive, Closing
<1>5. ~UNCHANGED vars
  BY DEF vars, senderVars
<1> QED BY <1>1, <1>2, <1>3, <1>4, <1>5 DEF Next

LEMMA TurnsStay ==
  ASSUME "overlap" \notin Faults, TypeOK, InTurn, [Next]_vars
  PROVE  InTurn'
<1> SUFFICES ASSUME NEW a \in Attempts, NEW b \in Attempts, a < b, spc'[b] # "idle"
             PROVE  Quiet(a)'
  BY DEF InTurn
<1>1. CASE spc[b] # "idle"
  BY <1>1, QuietStays DEF InTurn
<1>2. CASE spc[b] = "idle"
  <2>1. StartAttempt(b)
    BY <1>2, StartsInTurn
  <2>2. a \in 1..b-1
    BY ConstantsAssumption DEF Attempts
  <2> QED BY <2>1, <2>2, QuietStays DEF StartAttempt
<1> QED BY <1>1, <1>2

-----------------------------------------------------------------------------
(* Acks under way.                                                         *)

LEMMA AckedOps ==
  ASSUME NEW q \in Seq(Message)
  PROVE  /\ Acked(<<>>) = {}
         /\ \A m \in Message : /\ m.type # "Ack" => Acked(Append(q, m)) \subseteq Acked(q)
                               /\ Acked(Append(q, m)) \subseteq Acked(q) \cup {m.chunk}
         /\ q # <<>> => /\ Acked(Tail(q)) \subseteq Acked(q)
                        /\ Acked(SubSeq(q, 1, Len(q) - 1)) \subseteq Acked(q)
<1>1. Acked(<<>>) = {}
  BY DEF Acked, OfType
<1>2. ASSUME NEW m \in Message
      PROVE  /\ m.type # "Ack" => Acked(Append(q, m)) \subseteq Acked(q)
             /\ Acked(Append(q, m)) \subseteq Acked(q) \cup {m.chunk}
  <2>1. /\ DOMAIN Append(q, m) = 1..Len(q) + 1 /\ DOMAIN q = 1..Len(q) /\ Len(q) \in Nat
        /\ Append(q, m)[Len(q) + 1] = m
        /\ \A i \in 1..Len(q) : Append(q, m)[i] = q[i]
    OBVIOUS
  <2>2. \A i \in 1..Len(q) + 1 : i \in 1..Len(q) \/ i = Len(q) + 1
    BY <2>1
  <2> DEFINE r == Append(q, m)
  <2>3. \A i \in OfType(r, "Ack") :
          \/ i \in OfType(q, "Ack") /\ r[i] = q[i]
          \/ r[i] = m /\ m.type = "Ack"
    <3> SUFFICES ASSUME NEW i \in OfType(r, "Ack")
                 PROVE  \/ i \in OfType(q, "Ack") /\ r[i] = q[i]
                        \/ r[i] = m /\ m.type = "Ack"
      OBVIOUS
    <3>1. i \in 1..Len(q) + 1 /\ r[i].type = "Ack"
      BY <2>1 DEF OfType
    <3>2. CASE i \in 1..Len(q)
      BY <2>1, <3>1, <3>2 DEF OfType
    <3>3. CASE i = Len(q) + 1
      BY <2>1, <3>1, <3>3
    <3> QED BY <2>2, <3>1, <3>2, <3>3
  <2> HIDE DEF r
  <2> QED BY <2>3 DEF Acked, r
<1>3. ASSUME q # <<>>
      PROVE  /\ Acked(Tail(q)) \subseteq Acked(q)
             /\ Acked(SubSeq(q, 1, Len(q) - 1)) \subseteq Acked(q)
  <2>1. /\ Len(q) \in Nat /\ Len(q) >= 1 /\ DOMAIN q = 1..Len(q)
    BY <1>3
  <2>2. /\ DOMAIN Tail(q) = 1..Len(q) - 1
        /\ \A i \in 1..Len(q) - 1 : Tail(q)[i] = q[i + 1] /\ i + 1 \in 1..Len(q)
    BY <1>3, <2>1
  <2>3. /\ DOMAIN SubSeq(q, 1, Len(q) - 1) = 1..Len(q) - 1
        /\ \A i \in 1..Len(q) - 1 : SubSeq(q, 1, Len(q) - 1)[i] = q[i] /\ i \in 1..Len(q)
    <3>1. SubSeq(q, 1, Len(q) - 1) = [i \in 1..Len(q) - 1 |-> q[i]]
      BY <2>1
    <3> QED BY <2>1, <3>1
  <2>4. ASSUME NEW r, NEW e \in {0, 1}, DOMAIN r = 1..Len(q) - 1,
               \A i \in 1..Len(q) - 1 : r[i] = q[i + e] /\ i + e \in 1..Len(q)
        PROVE  Acked(r) \subseteq Acked(q)
    <3>1. \A i \in OfType(r, "Ack") : i + e \in OfType(q, "Ack") /\ r[i] = q[i + e]
      BY <2>1, <2>4 DEF OfType
    <3> QED BY <3>1 DEF Acked
  <2>5. Acked(Tail(q)) \subseteq Acked(q)
    BY <2>2, <2>4
  <2>6. \A i \in 1..Len(q) - 1 : i + 0 = i
    BY <2>1
  <2>7. Acked(SubSeq(q, 1, Len(q) - 1)) \subseteq Acked(q)
    BY <2>3, <2>4, <2>6
  <2> QED BY <2>5, <2>7
<1> QED BY <1>1, <1>2, <1>3

\* The handler of the sender reads its messages and touches nothing of the receiver.
LEMMA SenderOnlyReads ==
  ASSUME TypeOK, NEW a \in Attempts, StartAttempt(a) \/ SenderStep(a)
  PROVE  UNCHANGED receiverVars /\ \A b \in Attempts : Acked(r2s'[b]) \subseteq Acked(r2s[b])
<1>1. /\ UNCHANGED receiverVars
      /\ \A b \in Attempts : \/ r2s'[b] = r2s[b] \/ r2s'[b] = <<>>
                             \/ r2s[b] # <<>> /\ r2s'[b] = Tail(r2s[b])
  <2> USE DEF TypeOK, SenderEnds, Consume, Discard, Receives
  <2>1. CASE StartAttempt(a) \/ SkipChunk(a) \/ SendChunk(a) \/ SendComplete(a)
    BY <2>1 DEF StartAttempt, SkipChunk, SendChunk, SendComplete
  <2>2. CASE ReadAcceptance(a)
    <3>1. /\ r2s[a] # <<>> /\ UNCHANGED receiverVars
          /\ r2s' = [r2s EXCEPT ![a] = <<>>] \/ r2s' = [r2s EXCEPT ![a] = Tail(@)]
      BY <2>2 DEF ReadAcceptance
    <3> QED BY <3>1
  <2>3. CASE ReadAck(a)
    BY <2>3 DEF ReadAck
  <2>4. CASE \/ ReadCancel(a) \/ ReadFinalAck(a) \/ ReadFinalError(a) \/ SenderCancelled(a)
             \/ SenderFails(a) \/ SenderLooks(a) \/ SenderSettles(a)
    BY <2>4 DEF ReadCancel, ReadFinalAck, ReadFinalError, SenderCancelled, SenderFails, SenderLooks,
                SenderSettles
  <2> QED BY <2>1, <2>2, <2>3, <2>4 DEF SenderStep
<1>2. \A b \in Attempts : r2s[b] \in Seq(Message)
  BY DEF TypeOK
<1> QED BY <1>1, <1>2, AckedOps

-----------------------------------------------------------------------------
(* The part file.                                                          *)

LEMMA WrittenKept ==
  ASSUME Written, verified' \subseteq verified, UNCHANGED <<part, dirty>>,
         \A b \in Attempts : Acked(r2s'[b]) \subseteq Acked(r2s[b])
  PROVE  Written'
  BY DEF Written, IsWritten, Acked, OfType

\* What no step but that of a receiver's handler, or its end in a chunk, disturbs.
LEMMA DiskKept ==
  ASSUME OpenIsPart, SealIsChecked, DeliveredIntact,
         UNCHANGED <<part, partFile, dest, delivered, inode>>,
         \A b \in Attempts : rpc'[b] \in {"recv", "seal"} => rpc'[b] = rpc[b]
  PROVE  OpenIsPart' /\ SealIsChecked' /\ DeliveredIntact'
  BY DEF OpenIsPart, SealIsChecked, DeliveredIntact

\* The handlers of other attempts do not run, so that one of this attempt may do as it likes.
LEMMA OthersHaveNoPart ==
  ASSUME TypeOK, StreamsInStep, InTurn, NEW a \in Attempts, Active(a),
         \A b \in Attempts \ {a} : rpc'[b] = rpc[b],
         /\ rpc'[a] \in {"recv", "seal"} => inode'[a] = "part" /\ partFile'
         /\ rpc'[a] = "seal" => part' = Original
  PROVE  OpenIsPart' /\ SealIsChecked'
<1>1. \A b \in Attempts \ {a} : rpc'[b] \notin {"recv", "seal"}
  BY OneActive DEF Active, ReceiverLive
<1> QED BY <1>1 DEF OpenIsPart, SealIsChecked

LEMMA ReceiverIsActive ==
  ASSUME NEW a \in Attempts, ReceiverStep(a)
  PROVE  Active(a)
  BY DEF ReceiverStep, ReadRequest, RefuseForSpace, Accept, Decline, DecisionTimeout,
     OpenPart, AnswerFails, ReadChunk, RejectChunk, DiskFails, HashMatches, HashDiffers,
     PartMissing, Seal, ReadCancelMessage, ReceiverCancelled, ReceiverFails, Receiving, Receives,
     ReceiverLooks, ReceiverSettles, Settled, Active, ReceiverLive, Closing

\* An answer that is not an Ack.
LEMMA AnswersKeepAcked ==
  ASSUME TypeOK, NEW a \in Attempts, NEW m \in Message, m.type # "Ack",
         UNCHANGED r2s \/ ToSender(a, m)
  PROVE  \A b \in Attempts : Acked(r2s'[b]) \subseteq Acked(r2s[b])
<1>1. \A b \in Attempts : r2s[b] \in Seq(Message) /\ r2s'[b] \in {r2s[b], Append(r2s[b], m)}
  BY DEF TypeOK, ToSender
<1> QED BY <1>1, AckedOps

\* The handlers that do nothing to the disk.
LEMMA NoWrite ==
  ASSUME DInv, NEW a \in Attempts,
         \/ ReadRequest(a) \/ RefuseForSpace(a) \/ Accept(a) \/ Decline(a) \/ DecisionTimeout(a)
         \/ AnswerFails(a) \/ DiskFails(a) \/ PartMissing(a)
         \/ ReadCancelMessage(a) \/ ReceiverCancelled(a) \/ ReceiverFails(a)
         \/ ReceiverLooks(a) \/ ReceiverSettles(a)
  PROVE  OpenIsPart' /\ SealIsChecked' /\ DeliveredIntact' /\ Written'
<1> USE DEF DInv, IInv
<1>1. /\ UNCHANGED diskVars /\ UNCHANGED verified
      /\ \A b \in Attempts : rpc'[b] \in {"recv", "seal"} => rpc'[b] = rpc[b]
  BY DEF ReadRequest, RefuseForSpace, Accept, Decline, DecisionTimeout, AnswerFails, DiskFails,
     PartMissing, ReadCancelMessage, ReceiverCancelled, ReceiverFails, ReceiverEnds, ReceiverReturns,
     End, ReceiverLooks, ReceiverSettles, AfterLook, ReceiverLeaks, rowVars, TypeOK
<1>2. OpenIsPart' /\ SealIsChecked' /\ DeliveredIntact'
  BY <1>1, DiskKept DEF diskVars
<1>3. \E m \in Message : m.type # "Ack" /\ (UNCHANGED r2s \/ ToSender(a, m))
  <2>1. /\ {Cancel, Error, Acceptance(FALSE, 0, {}), AcceptanceNow} \subseteq Message
        /\ \A m \in {Cancel, Error, Acceptance(FALSE, 0, {}), AcceptanceNow} : m.type # "Ack"
    <3>1. 0 \in 0..N /\ {} \in SUBSET Chunks /\ FALSE \in BOOLEAN
      BY ConstantsAssumption
    <3>2. TypeOK
      OBVIOUS
    <3>3. AcceptanceNow.type = "Acceptance"
      BY DEF AcceptanceNow, Acceptance
    <3> HIDE DEF DInv, IInv
    <3>4. Cancel.type = "Cancel" /\ Error.type = "Error" /\ Acceptance(FALSE, 0, {}).type = "Acceptance"
      BY DEF Cancel, Error, Acceptance
    <3>5. {Cancel, Error, Acceptance(FALSE, 0, {}), AcceptanceNow} \subseteq Message
      BY <3>1, <3>2, MessagesWritten
    <3> QED BY <3>3, <3>4, <3>5
  <2>2. UNCHANGED r2s \/ ToSender(a, Cancel) \/ ToSender(a, Error)
          \/ ToSender(a, Acceptance(FALSE, 0, {})) \/ ToSender(a, AcceptanceNow)
    BY DEF ReadRequest, RefuseForSpace, Accept, Decline, DecisionTimeout, AnswerFails, DiskFails,
       PartMissing, ReadCancelMessage, ReceiverCancelled, ReceiverFails, ReceiverLooks, ReceiverSettles
  <2> HIDE DEF DInv, IInv
  <2> QED BY <2>1, <2>2
<1>4. \A b \in Attempts : Acked(r2s'[b]) \subseteq Acked(r2s[b])
  BY <1>3, AnswersKeepAcked
<1> QED BY <1>1, <1>2, <1>4, WrittenKept DEF diskVars

LEMMA OpenPartKeeps ==
  ASSUME DInv, NEW a \in Attempts, OpenPart(a)
  PROVE  OpenIsPart' /\ SealIsChecked' /\ DeliveredIntact' /\ Written'
<1> USE DEF DInv, IInv
<1>1. /\ rpc' = [rpc EXCEPT ![a] = "recv"] /\ partFile' = TRUE
      /\ inode' = [inode EXCEPT ![a] = "part"]
      /\ UNCHANGED <<verified, part, dest, delivered, dirty, r2s>>
  BY DEF OpenPart
<1>2. OpenIsPart' /\ SealIsChecked'
  BY <1>1, OthersHaveNoPart, ReceiverIsActive DEF TypeOK, ReceiverStep
<1>3. DeliveredIntact'
  BY <1>1 DEF DeliveredIntact
<1> QED BY <1>1, <1>2, <1>3, WrittenKept

\* The open file is given up, which is the end of the part file.
LEMMA UnlinkKeeps ==
  ASSUME DInv, NEW a \in Attempts, RejectChunk(a) \/ HashDiffers(a)
  PROVE  OpenIsPart' /\ SealIsChecked' /\ DeliveredIntact' /\ Written'
<1> USE DEF DInv, IInv
<1>1. rpc[a] = "recv" /\ rpc' = [rpc EXCEPT ![a] = "erred"] /\ Unlink(a)
  BY DEF RejectChunk, HashDiffers, Receiving, ReceiverEnds, ReceiverReturns, End
<1>2. HasPart(a)
  BY <1>1 DEF OpenIsPart, HasPart
<1>3. dirty' = TRUE /\ UNCHANGED <<dest, delivered>>
  BY <1>1, <1>2 DEF Unlink
<1>4. OpenIsPart' /\ SealIsChecked'
  BY <1>1, OthersHaveNoPart, ReceiverIsActive DEF TypeOK, ReceiverStep
<1> QED BY <1>3, <1>4 DEF DeliveredIntact, Written

LEMMA HashMatchesKeeps ==
  ASSUME DInv, NEW a \in Attempts, HashMatches(a)
  PROVE  OpenIsPart' /\ SealIsChecked' /\ DeliveredIntact' /\ Written'
<1> USE DEF DInv, IInv
<1>1. /\ rpc[a] = "recv" /\ part = Original /\ rpc' = [rpc EXCEPT ![a] = "seal"]
      /\ UNCHANGED diskVars /\ UNCHANGED <<verified, r2s>>
  BY DEF HashMatches, Receiving, Verifies, rowVars
<1>2. OpenIsPart' /\ SealIsChecked'
  <2>1. inode[a] = "part" /\ partFile
    BY <1>1 DEF OpenIsPart
  <2> QED BY <1>1, <2>1, OthersHaveNoPart, ReceiverIsActive DEF TypeOK, ReceiverStep, diskVars
<1>3. DeliveredIntact'
  BY <1>1 DEF DeliveredIntact, diskVars
<1> QED BY <1>1, <1>2, <1>3, WrittenKept DEF diskVars

LEMMA SealKeeps ==
  ASSUME DInv, NEW a \in Attempts, Seal(a)
  PROVE  OpenIsPart' /\ SealIsChecked' /\ DeliveredIntact' /\ Written'
<1> USE DEF DInv, IInv
<1>1. rpc[a] = "seal" /\ rpc' = [rpc EXCEPT ![a] = "ended"] /\ dest' = part /\ dirty' = TRUE
  BY DEF Seal, Rename, ReceiverEnds, ReceiverReturns, End
<1>2. OpenIsPart' /\ SealIsChecked'
  BY <1>1, OthersHaveNoPart, ReceiverIsActive DEF TypeOK, ReceiverStep
<1> QED BY <1>1, <1>2 DEF DeliveredIntact, Written, SealIsChecked

\* A chunk goes to the part file.
LEMMA ChunkIsWritten ==
  ASSUME DInv, NEW a \in Attempts, rpc[a] = "recv", Receives(s2r, a, "Chunk"),
         WriteChunk(a, Head(s2r[a]))
  PROVE  /\ UNCHANGED <<partFile, dest, delivered, inode, dirty>>
         /\ \A c \in Chunks : IsWritten(c) => part'[c] # Hole
         /\ Head(s2r[a]).chunk \in Chunks /\ part'[Head(s2r[a]).chunk] # Hole
<1> DEFINE m == Head(s2r[a])
<1>1. m \in Message /\ m.type = "Chunk"
  BY QueueOps DEF DInv, IInv, TypeOK, Receives
<1>2. m.chunk \in Chunks /\ m.data \in 0..MaxEdits
  BY <1>1, MessageFields
<1>3. inode[a] = "part"
  BY DEF DInv, OpenIsPart
<1>4. /\ part' = [part EXCEPT ![m.chunk] = m.data]
      /\ UNCHANGED <<partFile, dest, delivered, inode, dirty>>
  BY <1>3 DEF WriteChunk
<1>5. part \in [Chunks -> Content] /\ m.data # Hole
  BY <1>2, ConstantsAssumption DEF DInv, IInv, TypeOK, Hole
<1> HIDE DEF m
<1>6. \A c \in Chunks : part'[c] = IF c = m.chunk THEN m.data ELSE part[c]
  BY <1>2, <1>4, <1>5
<1> QED BY <1>2, <1>4, <1>5, <1>6 DEF IsWritten, m

LEMMA ReadChunkKeeps ==
  ASSUME DInv, NEW a \in Attempts, ReadChunk(a)
  PROVE  OpenIsPart' /\ SealIsChecked' /\ DeliveredIntact' /\ Written'
<1> DEFINE m == Head(s2r[a])
<1>1. /\ rpc[a] = "recv" /\ Receives(s2r, a, "Chunk") /\ WriteChunk(a, m)
      /\ verified' \subseteq verified \cup {m.chunk} /\ UNCHANGED rpc
      /\ ToSender(a, Ack(m.chunk, m.chunk + 1))
  BY DEF ReadChunk, Receiving, Update
<1>2. /\ UNCHANGED <<partFile, dest, delivered, inode, dirty>>
      /\ \A c \in Chunks : IsWritten(c) => part'[c] # Hole
      /\ m.chunk \in Chunks /\ part'[m.chunk] # Hole
  BY <1>1, ChunkIsWritten
<1> HIDE DEF m
<1>3. OpenIsPart' /\ SealIsChecked'
  <2>1. inode[a] = "part" /\ partFile
    BY <1>1 DEF DInv, OpenIsPart
  <2> QED BY <1>1, <1>2, <2>1, OthersHaveNoPart, ReceiverIsActive DEF DInv, IInv, ReceiverStep
<1>4. DeliveredIntact'
  BY <1>2 DEF DInv, DeliveredIntact
<1>5. \A b \in Attempts : Acked(r2s'[b]) \subseteq Acked(r2s[b]) \cup {m.chunk}
  <2>1. Ack(m.chunk, m.chunk + 1) \in Message /\ Ack(m.chunk, m.chunk + 1).chunk = m.chunk
    <3>1. m.chunk \in 0..N /\ m.chunk + 1 \in 0..N
      BY <1>2, ConstantsAssumption DEF Chunks
    <3> QED BY <3>1, MessagesWritten DEF Ack, DInv, IInv
  <2>2. \A b \in Attempts : /\ r2s[b] \in Seq(Message)
                            /\ r2s'[b] \in {r2s[b], Append(r2s[b], Ack(m.chunk, m.chunk + 1))}
    BY <1>1 DEF DInv, IInv, TypeOK, ToSender
  <2> QED BY <2>1, <2>2, AckedOps
<1>6. Written'
  <2> SUFFICES ASSUME ~dirty', NEW c, c \in verified' \/ \E b \in Attempts : c \in Acked(r2s'[b])
               PROVE  c \in Chunks /\ part'[c] # Hole
    BY DEF Written, IsWritten, Acked, OfType
  <2>1. c = m.chunk \/ c \in verified \/ \E b \in Attempts : c \in Acked(r2s[b])
    BY <1>1, <1>5
  <2>2. ASSUME c \in verified \/ \E b \in Attempts : c \in Acked(r2s[b])
        PROVE  c \in Chunks /\ IsWritten(c)
    BY <1>2, <2>2 DEF DInv, Written, IsWritten
  <2> QED BY <1>2, <2>1, <2>2
<1> QED BY <1>3, <1>4, <1>6

LEMMA ReceiverKeeps ==
  ASSUME DInv, NEW a \in Attempts, ReceiverStep(a)
  PROVE  OpenIsPart' /\ SealIsChecked' /\ DeliveredIntact' /\ Written'
  BY NoWrite, OpenPartKeeps, UnlinkKeeps, HashMatchesKeeps, SealKeeps, ReadChunkKeeps DEF ReceiverStep

LEMMA SenderKeeps ==
  ASSUME DInv, NEW a \in Attempts, StartAttempt(a) \/ SenderStep(a)
  PROVE  OpenIsPart' /\ SealIsChecked' /\ DeliveredIntact' /\ Written'
<1>1. UNCHANGED receiverVars /\ \A b \in Attempts : Acked(r2s'[b]) \subseteq Acked(r2s[b])
  BY SenderOnlyReads DEF DInv, IInv
<1>2. OpenIsPart' /\ SealIsChecked' /\ DeliveredIntact'
  BY <1>1, DiskKept DEF DInv, receiverVars, diskVars
<1> QED BY <1>1, <1>2, WrittenKept DEF DInv, receiverVars, rowVars, diskVars

\* A crash in a chunk writes it, and marks nothing.
LEMMA CrashInChunkKeeps ==
  ASSUME DInv, NEW a \in Attempts, ReceiverCrashesInChunk(a)
  PROVE  OpenIsPart' /\ SealIsChecked' /\ DeliveredIntact' /\ Written'
<1>1. /\ rpc[a] = "recv" /\ Receives(s2r, a, "Chunk") /\ WriteChunk(a, Head(s2r[a]))
      /\ \A b \in Attempts : rpc'[b] \notin {"recv", "seal"}
      /\ UNCHANGED <<verified, r2s>>
  BY DEF ReceiverCrashesInChunk, ReceiverDies, ReceiverLive, Receiving
<1>2. /\ UNCHANGED <<partFile, dest, delivered, inode, dirty>>
      /\ \A c \in Chunks : IsWritten(c) => part'[c] # Hole
  BY <1>1, ChunkIsWritten
<1>3. OpenIsPart' /\ SealIsChecked'
  BY <1>1 DEF OpenIsPart, SealIsChecked
<1>4. DeliveredIntact'
  BY <1>2 DEF DInv, DeliveredIntact
<1>5. Written'
  BY <1>1, <1>2 DEF DInv, Written, IsWritten, Acked, OfType
<1> QED BY <1>3, <1>4, <1>5

\* A crash after the rename leaves the file delivered and no handler.
LEMMA CrashInSealKeeps ==
  ASSUME DInv, NEW a \in Attempts, ReceiverCrashesInSeal(a)
  PROVE  OpenIsPart' /\ SealIsChecked' /\ DeliveredIntact' /\ Written'
<1>1. /\ rpc[a] = "seal" /\ dest' = part /\ dirty' = TRUE
      /\ \A b \in Attempts : rpc'[b] \notin {"recv", "seal"}
  BY DEF ReceiverCrashesInSeal, Rename, ReceiverDies, ReceiverLive
<1>2. OpenIsPart' /\ SealIsChecked'
  BY <1>1 DEF OpenIsPart, SealIsChecked
<1> QED BY <1>1, <1>2 DEF DInv, DeliveredIntact, Written, SealIsChecked

LEMMA EnvironmentKeeps ==
  ASSUME DInv, Environment
  PROVE  OpenIsPart' /\ SealIsChecked' /\ DeliveredIntact' /\ Written'
<1>1. CASE \E a \in Attempts : ReceiverCrashesInChunk(a) \/ ReceiverCrashesInSeal(a)
  BY <1>1, CrashInChunkKeeps, CrashInSealKeeps
<1>2. CASE ~\E a \in Attempts : ReceiverCrashesInChunk(a) \/ ReceiverCrashesInSeal(a)
  <2> USE DEF DInv, IInv
  <2>1. /\ UNCHANGED diskVars /\ verified' \subseteq verified
        /\ \A b \in Attempts : rpc'[b] \in {"recv", "seal"} => rpc'[b] = rpc[b]
    BY <1>2 DEF Environment, CancelSending, CancelReceiving, LinkDrops, LoseToReceiver, LoseToSender,
       ReceiverDies, EditSource, SenderCrashes, ReceiverCrashes, SweepSender, SweepReceiver,
       ClearFinished, receiverVars, rowVars, TypeOK
  <2>2. \A b \in Attempts : \/ r2s'[b] = r2s[b] \/ r2s'[b] = <<>>
                            \/ r2s[b] # <<>> /\ r2s'[b] = SubSeq(r2s[b], 1, Len(r2s[b]) - 1)
    BY <1>2 DEF Environment, CancelSending, CancelReceiving, LinkDrops, LoseToReceiver, LoseToSender,
       LoseLast, ReceiverDies, EditSource, SenderCrashes, ReceiverCrashes, SweepSender, SweepReceiver,
       ClearFinished, TypeOK
  <2>3. \A b \in Attempts : r2s[b] \in Seq(Message)
    BY DEF TypeOK
  <2>4. \A b \in Attempts : Acked(r2s'[b]) \subseteq Acked(r2s[b])
    BY <2>2, <2>3, AckedOps
  <2>5. OpenIsPart' /\ SealIsChecked' /\ DeliveredIntact'
    BY <2>1, DiskKept DEF diskVars
  <2> QED BY <2>1, <2>4, <2>5, WrittenKept DEF diskVars
<1> QED BY <1>1, <1>2

-----------------------------------------------------------------------------
(* The invariant.                                                          *)

LEMMA DeliveryInit == Init => DInv
<1> SUFFICES ASSUME Init PROVE DInv
  OBVIOUS
<1>1. IInv
  BY InvInit
<1>2. InTurn /\ OpenIsPart /\ SealIsChecked /\ DeliveredIntact
  BY DEF Init, InTurn, OpenIsPart, SealIsChecked, DeliveredIntact
<1>3. Written
  BY DEF Init, Written, Acked, OfType
<1> QED BY <1>1, <1>2, <1>3 DEF DInv

LEMMA DeliveryStep ==
  ASSUME "overlap" \notin Faults, DInv, [Next]_vars
  PROVE  DInv'
<1>1. IInv' /\ InTurn'
  BY InvStep, TurnsStay DEF DInv, IInv
<1>2. ASSUME UNCHANGED vars
      PROVE  OpenIsPart' /\ SealIsChecked' /\ DeliveredIntact' /\ Written'
  <2>1. OpenIsPart' /\ SealIsChecked' /\ DeliveredIntact'
    BY <1>2, DiskKept DEF DInv, vars, receiverVars, diskVars
  <2> QED BY <1>2, <2>1, WrittenKept DEF DInv, vars, receiverVars, rowVars, diskVars
<1>3. OpenIsPart' /\ SealIsChecked' /\ DeliveredIntact' /\ Written'
  BY <1>2, SenderKeeps, ReceiverKeeps, EnvironmentKeeps DEF Next
<1> QED BY <1>1, <1>3 DEF DInv

LEMMA DeliveryHolds ==
  ASSUME "overlap" \notin Faults
  PROVE  Spec => []DInv
  BY DeliveryInit, DeliveryStep, PTL DEF Spec

\* When attempts do not overlap the delivered file is the announced one, whatever is
\* edited, lost, cancelled, swept or crashes (file_transfer.rs, the check of the hash and
\* the rename after Complete).
THEOREM DeliveryIsIntact ==
  ASSUME "overlap" \notin Faults
  PROVE  Spec => []DeliveredIntact
<1>1. DInv => DeliveredIntact
  BY DEF DInv
<1> QED BY <1>1, DeliveryHolds, PTL

\* What a row calls verified, or an Ack under way speaks for, is in the part file as long
\* as that was neither renamed nor given up (file_transfer.rs, the order of the write, the
\* row and the Ack of a chunk).
THEOREM WhatIsVerifiedIsWritten ==
  ASSUME "overlap" \notin Faults
  PROVE  Spec => []VerifiedIsWritten
<1>1. DInv => VerifiedIsWritten
  BY DEF DInv, Written, IsWritten, Acked, VerifiedIsWritten
<1> QED BY <1>1, DeliveryHolds, PTL

\* A resumed attempt skips only chunks that the part file holds (file_transfer.rs,
\* get_incomplete_chunks, resume_from and the loop over the chunks).
THEOREM WhatIsSkippedIsWritten ==
  ASSUME "overlap" \notin Faults
  PROVE  Spec => []ResumeSkipsOnlyWritten
<1>1. DInv => ResumeSkipsOnlyWritten
  <2> SUFFICES ASSUME DInv, ~dirty, NEW c \in Chunks, c \notin Selected(AcceptanceNow)
               PROVE  part[c] # Hole
    BY DEF ResumeSkipsOnlyWritten
  <2>1. c \in verified
    <3>1. CASE Resumable /\ Chunks \ verified # {}
      BY <3>1 DEF Selected, AcceptanceNow, Acceptance
    <3>2. CASE Resumable /\ Chunks \ verified = {}
      BY <3>2
    <3>3. CASE ~Resumable
      <4>1. Selected(AcceptanceNow) = {k \in Chunks : k + 1 > 0}
        BY <3>3 DEF Selected, AcceptanceNow, Acceptance
      <4>2. c + 1 > 0
        BY ConstantsAssumption DEF Chunks
      <4> QED BY <4>1, <4>2
    <3> QED BY <3>1, <3>2, <3>3
  <2> QED BY <2>1 DEF DInv, Written, IsWritten
<1> QED BY <1>1, DeliveryHolds, PTL

-----------------------------------------------------------------------------
(* The refinement.                                                         *)

\* The delivered file and the record of the sender do not change in one step, and a
\* delivered file stays.
LEMMA OneRecord ==
  ASSUME TypeOK, [Next]_vars
  PROVE  /\ UNCHANGED <<delivered, dest>> \/ UNCHANGED sStatus
         /\ delivered => delivered'
<1>1. ASSUME NEW a \in Attempts, StartAttempt(a) \/ SenderStep(a) PROVE UNCHANGED <<delivered, dest>>
  BY <1>1, SenderOnlyReads DEF receiverVars, diskVars
<1>2. ASSUME NEW a \in Attempts, ReceiverStep(a) PROVE UNCHANGED sStatus /\ (delivered => delivered')
  BY <1>2, ReceiverTouchesOne
<1>3. ASSUME Environment PROVE /\ UNCHANGED <<delivered, dest>> \/ UNCHANGED sStatus
                               /\ delivered => delivered'
  BY <1>3 DEF Environment, CancelSending, CancelReceiving, LinkDrops, LoseToReceiver, LoseToSender,
     ReceiverCrashesInChunk, ReceiverCrashesInSeal, Rename, WriteChunk, ReceiverDies, EditSource,
     SenderCrashes, ReceiverCrashes, SweepSender, SweepReceiver, ClearFinished, senderVars,
     receiverVars, diskVars
<1>4. UNCHANGED vars => UNCHANGED <<delivered, dest>>
  BY DEF vars, receiverVars, diskVars
<1> QED BY <1>1, <1>2, <1>3, <1>4 DEF Next

Stored == IF ~delivered THEN "absent" ELSE IF dest = Original THEN "intact" ELSE "altered"

LEMMA StepDelivers ==
  ASSUME DInv, DInv', [Next]_vars
  PROVE  [Delivery!Next]_Delivery!vars
<1>1. Stored = IF delivered THEN "intact" ELSE "absent"
  BY DEF DInv, DeliveredIntact, Stored
<1>2. Stored' = IF delivered' THEN "intact" ELSE "absent"
  BY DEF DInv, DeliveredIntact, Stored
<1>3. delivered \in BOOLEAN /\ delivered' \in BOOLEAN
  BY DEF DInv, IInv, TypeOK
<1>4. UNCHANGED <<delivered, dest>> \/ UNCHANGED sStatus
  BY OneRecord DEF DInv, IInv
<1>5. delivered => delivered'
  BY OneRecord DEF DInv, IInv
<1>6. sStatus' = "complete" => delivered'
  BY DEF DInv, IInv, CompleteMeansDelivered
<1>7. CASE UNCHANGED sStatus
  <2>1. Stored' = Stored \/ Stored' = "intact"
    BY <1>1, <1>2, <1>3, <1>5
  <2> QED BY <1>7, <2>1 DEF Delivery!Next, Delivery!Store, Delivery!vars, Stored
<1>8. CASE UNCHANGED <<delivered, dest>>
  <2>1. Stored' = Stored /\ (sStatus' = "complete" => Stored = "intact")
    BY <1>1, <1>2, <1>6, <1>8
  <2>2. CASE sStatus' = "complete"
    BY <2>1, <2>2 DEF Delivery!Next, Delivery!Confirm, Stored
  <2>3. CASE sStatus' # "complete"
    BY <2>1, <2>3 DEF Delivery!Next, Delivery!SendAgain, Stored
  <2> QED BY <2>2, <2>3
<1> QED BY <1>4, <1>7, <1>8

\* When attempts do not overlap, the transfer with its streams, rows and files implements
\* the delivery of one file: whole or not at all, for good, and known only after that
\* (file_transfer.rs).
THEOREM TransferImplementsDelivery ==
  ASSUME "overlap" \notin Faults
  PROVE  Spec => ImplementsDelivery
<1>1. Init => Delivery!Init
  BY DEF Init, Delivery!Init
<1>2. DInv /\ DInv' /\ [Next]_vars => [Delivery!Next]_Delivery!vars
  BY StepDelivers
<1> QED BY <1>1, <1>2, DeliveryHolds, PTL DEF Spec, ImplementsDelivery, Delivery!Spec

=============================================================================
