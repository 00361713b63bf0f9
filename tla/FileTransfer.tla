---------------------------- MODULE FileTransfer ----------------------------
(***************************************************************************)
(* One file transfer of cdus-agent (crates/cdus-agent/src/file_transfer.rs)*)
(* between the agent that owns the file (the sender) and the agent that    *)
(* stores it (the receiver).                                               *)
(*                                                                         *)
(* A transfer keeps its transfer_id over any number of attempts: SendFile  *)
(* makes the first one, ResumeFileTransfer each later one.  An attempt is  *)
(* a libp2p stream, i.e. a FIFO of messages in each direction, with a      *)
(* handler thread at each end.  What survives an attempt is the            *)
(* file_transfers row of each agent, the receiver's file_chunks rows, its  *)
(* ".cdus.part" file and the file it delivers; all attempts share them.    *)
(*                                                                         *)
(* Data abstraction: a chunk's content is the edition of the source file   *)
(* it was read from (0 is the edition whose hash the sender announced), so *)
(* a whole-file hash matches exactly when every chunk is of edition 0.     *)
(* Offsets are counted in chunks.                                          *)
(***************************************************************************)
EXTENDS Integers, Sequences, FiniteSets

CONSTANTS
  N,            \* number of chunks of the file (compute_chunk_plan)
  Window,       \* max_pending_acks of the sender
  MaxAttempts,  \* bound: how many streams are opened for the transfer
  MaxEdits,     \* bound: how many times the source file is rewritten
  Faults        \* which misfortunes the environment may produce

FaultKinds == {"timeout", "drop", "crash", "disk", "corrupt", "cancel",
               "decline", "sweep", "overlap"}

ASSUME ConstantsAssumption ==
  /\ N \in Nat
  /\ Window \in Nat \ {0}
  /\ MaxAttempts \in Nat \ {0}
  /\ MaxEdits \in Nat
  /\ Faults \subseteq FaultKinds

Attempts == 1..MaxAttempts
Chunks   == 0..N-1
Hole     == -1                   \* a range of the part file never written
Content  == {Hole} \cup 0..MaxEdits
Original == [c \in Chunks |-> 0] \* what the announced file_hash stands for
Empty    == [c \in Chunks |-> Hole]

VARIABLES
  \* the sender's agent
  sStatus,   \* file_transfers.status of its row
  sBytes,    \* file_transfers.bytes_confirmed of its row
  src,       \* edition of the source file now on its disk
  spc,       \* where each attempt's handle_outgoing_transfer is
  next,      \* its position in the chunk plan
  wanted,    \* the chunks the receiver's acceptance asks for
  pending,   \* pending_acks
  sCancel,   \* a token is waiting in cancel_rx
  \* the receiver's agent
  rStatus, rBytes,
  verified,  \* chunks whose file_chunks.verified is 1
  part,      \* content of the part file at part_path, or Empty
  partFile,  \* that file exists
  dest,      \* content of the delivered file
  delivered, \* a file was renamed to its destination
  rpc,       \* where each attempt's handle_incoming_transfer_inner is
  rCancel,
  inode,     \* what each receiver handler's open file is by now
  dirty,     \* history: the part file was renamed or removed at least once
  \* the streams
  s2r, r2s, link

senderVars   == <<sStatus, sBytes, src, spc, next, wanted, pending, sCancel>>
rowVars      == <<rStatus, rBytes, verified>>
diskVars     == <<part, partFile, dest, delivered, inode, dirty>>
receiverVars == <<rowVars, diskVars, rpc, rCancel>>
vars         == <<senderVars, receiverVars, s2r, r2s, link>>

Status == {"none", "pending", "awaiting_acceptance", "in_progress", "paused",
           "complete", "failed", "declined"}
OpenStatus == {"pending", "awaiting_acceptance", "in_progress"}
SenderLive   == {"await", "stream", "final"}
ReceiverLive == {"deciding", "opening", "recv", "seal"}
Closing      == {"ended", "erred", "pausing", "failing"}  \* the stream is done with

-----------------------------------------------------------------------------
(* Messages (FileMessage of cdus-common).  The final Ack carries the index *)
(* u32::MAX, here N; the sender reads only its bytes_confirmed.            *)

Request    == [type |-> "Request"]
Chunk(c)   == [type |-> "Chunk", chunk |-> c, data |-> src]
Complete   == [type |-> "Complete"]
Cancel     == [type |-> "Cancel"]
Error      == [type |-> "Error"]
Ack(c, b)  == [type |-> "Ack", chunk |-> c, bytes |-> b]
Acceptance(ok, from, missing) ==
  [type |-> "Acceptance", ok |-> ok, from |-> from, missing |-> missing]

Receives(ch, a, t) == ch[a] # <<>> /\ Head(ch[a]).type = t
Consume(ch, a)     == ch' = [ch EXCEPT ![a] = Tail(@)]
Discard(ch, a)     == ch' = [ch EXCEPT ![a] = <<>>]

\* The end of a handler reads the row, and then settles one that was open: an
\* error makes it failed, a cancellation (Ok) makes it paused.
End(ok) == IF ok THEN "ended" ELSE "erred"

AfterLookStarted(pc, status) ==  \* mutant: the acceptance wait is forgotten
  IF status # "in_progress" THEN "done" ELSE IF pc = "ended" THEN "pausing" ELSE "failing"

AfterLook(pc, status) ==
  IF status \notin OpenStatus THEN "done" ELSE IF pc = "ended" THEN "pausing" ELSE "failing"

Settled == [pausing |-> "paused", failing |-> "failed"]

\* The chunks the sender's loop does not skip after an acceptance.
SelectedPastOffset(m) ==  \* mutant: compares the chunk's start, not its end
  IF m.missing # {} THEN m.missing ELSE {c \in Chunks : c > m.from}

Selected(m) ==
  IF m.missing # {} THEN m.missing ELSE {c \in Chunks : c + 1 > m.from}

\* A handler that is over has dropped its end of the stream, inbox included.
SenderOver(a)   == spc[a] \notin SenderLive \cup {"idle"}
ReceiverOver(a) == rpc[a] \notin ReceiverLive \cup {"idle"}
Quiet(a) == /\ SenderOver(a) /\ spc[a] \notin Closing
            /\ \/ ReceiverOver(a) /\ rpc[a] \notin Closing
               \/ rpc[a] = "idle" /\ s2r[a] = <<>>

\* What is written to a stream that is down, or whose reader is over, is lost.
ToReceiver(a, m) ==
  s2r' = [s2r EXCEPT ![a] = IF link[a] = "up" /\ ~ReceiverOver(a) THEN Append(@, m) ELSE @]
ToSender(a, m) ==
  r2s' = [r2s EXCEPT ![a] = IF link[a] = "up" /\ ~SenderOver(a) THEN Append(@, m) ELSE @]

-----------------------------------------------------------------------------
Init ==
  /\ sStatus = "pending" /\ sBytes = 0 /\ src = 0
  /\ spc = [a \in Attempts |-> "idle"]
  /\ next = [a \in Attempts |-> 0]
  /\ wanted = [a \in Attempts |-> {}]
  /\ pending = [a \in Attempts |-> 0]
  /\ sCancel = [a \in Attempts |-> FALSE]
  /\ rStatus = "none" /\ rBytes = 0 /\ verified = {}
  /\ part = Empty /\ partFile = FALSE /\ dest = Empty /\ delivered = FALSE
  /\ rpc = [a \in Attempts |-> "idle"]
  /\ rCancel = [a \in Attempts |-> FALSE]
  /\ inode = [a \in Attempts |-> "none"]
  /\ dirty = FALSE
  /\ s2r = [a \in Attempts |-> <<>>]
  /\ r2s = [a \in Attempts |-> <<>>]
  /\ link = [a \in Attempts |-> "up"]

-----------------------------------------------------------------------------
(* The sender: handle_outgoing_transfer and its inner function.            *)

\* A handler that is over leaves nothing behind but the rows and the files.
SenderForgets(a) ==
  /\ next' = [next EXCEPT ![a] = 0] /\ wanted' = [wanted EXCEPT ![a] = {}]
  /\ pending' = [pending EXCEPT ![a] = 0] /\ sCancel' = [sCancel EXCEPT ![a] = FALSE]

SenderEnds(a, status, ok) ==
  /\ spc' = [spc EXCEPT ![a] = End(ok)]
  /\ sStatus' = status
  /\ SenderForgets(a)
  /\ Discard(r2s, a)

SenderLooks(a) ==
  /\ spc[a] \in {"ended", "erred"}
  /\ spc' = [spc EXCEPT ![a] = AfterLook(@, sStatus)]
  /\ UNCHANGED <<sStatus, sBytes, src, next, wanted, pending, sCancel, receiverVars, s2r, r2s, link>>

SenderSettles(a) ==
  /\ spc[a] \in DOMAIN Settled
  /\ sStatus' = Settled[spc[a]]
  /\ spc' = [spc EXCEPT ![a] = "done"]
  /\ UNCHANGED <<sBytes, src, next, wanted, pending, sCancel, receiverVars, s2r, r2s, link>>

\* SendFile or ResumeFileTransfer: the request goes out.
StartAttempt(a) ==
  /\ spc[a] = "idle"
  /\ \A b \in 1..a-1 : spc[b] # "idle" /\ ("overlap" \in Faults \/ Quiet(b))
  /\ sStatus' = "awaiting_acceptance"
  /\ spc' = [spc EXCEPT ![a] = "await"]
  /\ ToReceiver(a, Request)
  /\ UNCHANGED <<sBytes, src, next, wanted, pending, sCancel, receiverVars, r2s, link>>

ReadAcceptance(a) ==
  /\ spc[a] = "await" /\ Receives(r2s, a, "Acceptance")
  /\ LET m == Head(r2s[a]) IN
       \/ /\ ~m.ok
          /\ SenderEnds(a, "declined", TRUE)
          /\ UNCHANGED sBytes
       \/ /\ m.ok
          /\ spc' = [spc EXCEPT ![a] = "stream"]
          /\ sStatus' = "in_progress"
          /\ sBytes' = m.from
          /\ wanted' = [wanted EXCEPT ![a] = Selected(m)]
          /\ Consume(r2s, a)
          /\ UNCHANGED <<next, pending, sCancel>>
  /\ UNCHANGED <<src, receiverVars, s2r, link>>

\* One turn of the chunk loop that does not wait: the chunk is skipped, or
\* there is room in the window and it is read from disk and sent.
SkipChunk(a) ==
  /\ spc[a] = "stream" /\ ~sCancel[a]
  /\ next[a] < N /\ next[a] \notin wanted[a]
  /\ next' = [next EXCEPT ![a] = @ + 1]
  /\ UNCHANGED <<sStatus, sBytes, src, spc, wanted, pending, sCancel, receiverVars, s2r, r2s, link>>

RoomForOneMore(a) == pending[a] <= Window  \* mutant: off by one
HasRoom(a)        == pending[a] < Window

Uncounted(a)      == pending[a]  \* mutant: the chunk sent is not counted
OneMorePending(a) == pending[a] + 1

SendChunk(a) ==
  /\ spc[a] = "stream" /\ ~sCancel[a]
  /\ next[a] < N /\ next[a] \in wanted[a] /\ HasRoom(a)
  /\ ToReceiver(a, Chunk(next[a]))
  /\ pending' = [pending EXCEPT ![a] = OneMorePending(a)]
  /\ next' = [next EXCEPT ![a] = @ + 1]
  /\ UNCHANGED <<sStatus, sBytes, src, spc, wanted, sCancel, receiverVars, r2s, link>>

\* The sender reads acknowledgements when the window is full and when all
\* chunks are sent but not all acknowledged (the final drain).
WindowFull(a) == next[a] < N /\ next[a] \in wanted[a] /\ pending[a] >= Window
Draining(a)   == next[a] = N /\ pending[a] > 0
AwaitsAck(a)  == spc[a] = "stream" /\ (WindowFull(a) \/ Draining(a))

ReadAck(a) ==
  /\ AwaitsAck(a) /\ ~sCancel[a] /\ Receives(r2s, a, "Ack")
  /\ pending' = [pending EXCEPT ![a] = @ - 1]
  /\ sBytes' = Head(r2s[a]).bytes
  /\ Consume(r2s, a)
  /\ UNCHANGED <<sStatus, src, spc, next, wanted, sCancel, receiverVars, s2r, link>>

\* The receiver's Cancel ends the attempt without an error.
ReadCancel(a) ==
  /\ AwaitsAck(a) /\ ~sCancel[a] /\ Receives(r2s, a, "Cancel")
  /\ SenderEnds(a, sStatus, TRUE)
  /\ UNCHANGED <<sBytes, src, receiverVars, s2r, link>>

AllSent(a)  == next[a] = N  \* mutant: the final drain is left out
AllAcked(a) == next[a] = N /\ pending[a] = 0

SendComplete(a) ==
  /\ spc[a] = "stream" /\ AllAcked(a)
  /\ ToReceiver(a, Complete)
  /\ spc' = [spc EXCEPT ![a] = "final"]
  /\ UNCHANGED <<sStatus, sBytes, src, next, wanted, pending, sCancel, receiverVars, r2s, link>>

\* Whatever Ack comes first after Complete is taken for the final one.
ReadFinalAck(a) ==
  /\ spc[a] = "final" /\ Receives(r2s, a, "Ack")
  /\ SenderEnds(a, "complete", TRUE)
  /\ UNCHANGED <<sBytes, src, receiverVars, s2r, link>>

ReadFinalError(a) ==
  /\ spc[a] = "final" /\ Receives(r2s, a, "Error")
  /\ SenderEnds(a, "failed", TRUE)
  /\ UNCHANGED <<sBytes, src, receiverVars, s2r, link>>

\* A token in cancel_rx is noticed at the top of each loop.
SenderCancelled(a) ==
  /\ spc[a] = "stream" /\ sCancel[a] /\ (next[a] < N \/ pending[a] > 0)
  /\ ToReceiver(a, Cancel)
  /\ SenderEnds(a, sStatus, TRUE)
  /\ UNCHANGED <<sBytes, src, receiverVars, link>>

\* A message the state has no use for is an error of the attempt, except in
\* the two acknowledgement loops, where an Error is one too.
UnexpectedBySender(a) ==
  /\ r2s[a] # <<>>
  /\ \/ spc[a] = "await" /\ Head(r2s[a]).type # "Acceptance"
     \/ AwaitsAck(a) /\ ~sCancel[a] /\ Head(r2s[a]).type = "Error"
     \/ spc[a] = "final" /\ Head(r2s[a]).type \notin {"Ack", "Error"}

\* A blocked read fails: the stream is closed and drained, or nothing came in
\* time (120 s for the acceptance, 12 times 5 s for an Ack, 60 s at the end).
DownOnly(a) == r2s[a] = <<>> /\ link[a] = "down"  \* mutant: no end of stream
ClosedToSender(a) == r2s[a] = <<>> /\ (link[a] = "down" \/ ReceiverOver(a))

SenderReadFails(a) ==
  /\ spc[a] \in {"await", "final"} \/ (AwaitsAck(a) /\ ~sCancel[a])
  /\ "timeout" \in Faults \/ ClosedToSender(a)

\* The stream is down, or the rewritten source file is too short for the chunk.
SenderWriteFails(a) ==
  /\ spc[a] = "stream" /\ ~AwaitsAck(a)
  /\ link[a] = "down" \/ (src > 0 /\ next[a] \in wanted[a])

SenderFails(a) ==
  /\ SenderReadFails(a) \/ SenderWriteFails(a) \/ UnexpectedBySender(a)
  /\ SenderEnds(a, sStatus, FALSE)
  /\ UNCHANGED <<sBytes, src, receiverVars, s2r, link>>

-----------------------------------------------------------------------------
(* The receiver: handle_incoming_transfer_inner.                           *)

\* An update of a row that was cleared does nothing.
Update(old, new) == IF rStatus = "none" THEN old ELSE new

ReceiverReturns(a, pc, status) ==
  /\ rpc' = [rpc EXCEPT ![a] = pc]
  /\ rStatus' = Update(rStatus, status)
  /\ rCancel' = [rCancel EXCEPT ![a] = FALSE]
  /\ Discard(s2r, a)

ReceiverEnds(a, status, ok) == ReceiverReturns(a, End(ok), status)

ReceiverLooks(a) ==
  /\ rpc[a] \in {"ended", "erred"}
  /\ rpc' = [rpc EXCEPT ![a] = AfterLook(@, rStatus)]
  /\ UNCHANGED <<rowVars, diskVars, rCancel, senderVars, s2r, r2s, link>>

ReceiverSettles(a) ==
  /\ rpc[a] \in DOMAIN Settled
  /\ rStatus' = Update(rStatus, Settled[rpc[a]])
  /\ rpc' = [rpc EXCEPT ![a] = "done"]
  /\ UNCHANGED <<rBytes, verified, diskVars, rCancel, senderVars, s2r, r2s, link>>

\* An error that leaves through `?' skips the end of the handler: the row stays
\* as it is and the transfer registered.
ReceiverLeaks(a) ==
  /\ rpc' = [rpc EXCEPT ![a] = "leaked"]
  /\ rCancel' = [rCancel EXCEPT ![a] = FALSE]
  /\ Discard(s2r, a)

\* A row is created for a new transfer only; then the user is asked.
ReadRequest(a) ==
  /\ rpc[a] = "idle" /\ Receives(s2r, a, "Request")
  /\ rpc' = [rpc EXCEPT ![a] = "deciding"]
  /\ rStatus' = IF rStatus = "none" THEN "pending" ELSE rStatus
  /\ Consume(s2r, a)
  /\ UNCHANGED <<rBytes, verified, diskVars, rCancel, senderVars, r2s, link>>

\* No room for the file: the request is answered with an Error.
RefuseForSpace(a) ==
  /\ "disk" \in Faults
  /\ rpc[a] = "idle" /\ Receives(s2r, a, "Request")
  /\ ReceiverReturns(a, "done", rStatus)
  /\ ToSender(a, Error)
  /\ UNCHANGED <<rBytes, verified, diskVars, senderVars, link>>

\* What an accepting receiver tells the sender: an interrupted row (one left
\* in progress by a crash, or paused) is resumed, anything else starts over.
Resumable == rStatus \in {"in_progress", "paused"}

AcceptanceNow ==
  IF Resumable THEN Acceptance(TRUE, rBytes, Chunks \ verified)
               ELSE Acceptance(TRUE, 0, {})

Accept(a) ==
  /\ rpc[a] = "deciding"
  /\ rpc' = [rpc EXCEPT ![a] = "opening"]
  /\ ToSender(a, AcceptanceNow)
  /\ UNCHANGED <<rowVars, diskVars, rCancel, senderVars, s2r, link>>

\* Only then is the part file opened, as it is found or made by now.
OpenPart(a) ==
  /\ rpc[a] = "opening"
  /\ rpc' = [rpc EXCEPT ![a] = "recv"]
  /\ rStatus' = Update(rStatus, "in_progress")
  /\ partFile' = TRUE
  /\ inode' = [inode EXCEPT ![a] = "part"]
  /\ UNCHANGED <<rBytes, verified, part, dest, delivered, dirty, rCancel, senderVars, s2r, r2s, link>>

Decline(a) ==
  /\ "decline" \in Faults
  /\ rpc[a] = "deciding"
  /\ ReceiverReturns(a, "done", "declined")
  /\ ToSender(a, Acceptance(FALSE, 0, {}))
  /\ UNCHANGED <<rBytes, verified, diskVars, senderVars, link>>

\* Nobody answered in 120 s, or a newer request for the same transfer replaced
\* the pending decision: the row fails whatever it was.
DecisionTimeout(a) ==
  /\ rpc[a] = "deciding"
  /\ \/ "timeout" \in Faults
     \/ \E b \in Attempts : b > a /\ rpc[b] # "idle"
  /\ ReceiverReturns(a, "done", "failed")
  /\ UNCHANGED <<rBytes, verified, diskVars, senderVars, r2s, link>>

\* The path of attempt a's part file still names a file.
HasPart(a) == partFile /\ inode[a] \in {"part", "unlinked"}

Unlink(a) ==
  IF HasPart(a)
  THEN /\ part' = Empty /\ partFile' = FALSE /\ dirty' = TRUE
       /\ inode' = [b \in Attempts |-> IF inode[b] = "part" THEN "unlinked" ELSE inode[b]]
       /\ UNCHANGED <<dest, delivered>>
  ELSE UNCHANGED diskVars

\* The chunk goes to the open file, wherever that file is by now.
WriteChunk(a, m) ==
  /\ part' = IF inode[a] = "part" THEN [part EXCEPT ![m.chunk] = m.data] ELSE part
  /\ dest' = IF inode[a] = "dest" THEN [dest EXCEPT ![m.chunk] = m.data] ELSE dest
  /\ UNCHANGED <<partFile, delivered, inode, dirty>>

Receiving(a) == rpc[a] = "recv" /\ ~rCancel[a]

ReadChunk(a) ==
  /\ Receiving(a) /\ Receives(s2r, a, "Chunk")
  /\ LET m == Head(s2r[a]) IN
       /\ WriteChunk(a, m)
       /\ rBytes' = Update(rBytes, m.chunk + 1)
       /\ verified' = Update(verified, verified \cup {m.chunk})
       /\ ToSender(a, Ack(m.chunk, m.chunk + 1))
  /\ Consume(s2r, a)
  /\ UNCHANGED <<rStatus, rpc, rCancel, senderVars, link>>

\* The chunk's hash does not match: the part file is given up.
RejectChunk(a) ==
  /\ "corrupt" \in Faults
  /\ Receiving(a) /\ Receives(s2r, a, "Chunk")
  /\ ReceiverEnds(a, "failed", FALSE)
  /\ Unlink(a)
  /\ ToSender(a, Error)
  /\ UNCHANGED <<rBytes, verified, senderVars, link>>

\* The answer cannot be written: `?' leaves the handler with the row as it is,
\* and the registration behind.
AnswerFails(a) ==
  /\ rpc[a] = "deciding" /\ link[a] = "down"
  /\ ReceiverLeaks(a)
  /\ UNCHANGED <<rowVars, diskVars, senderVars, r2s, link>>

\* The same when the part file cannot be opened, or the disk fails while a chunk
\* or the end of the file is handled.
DiskFails(a) ==
  /\ "disk" \in Faults
  /\ \/ rpc[a] \in {"opening", "seal"}
     \/ Receiving(a) /\ (Receives(s2r, a, "Chunk") \/ Receives(s2r, a, "Complete"))
  /\ ReceiverLeaks(a)
  /\ UNCHANGED <<rowVars, diskVars, senderVars, r2s, link>>

\* Complete: the part file found at the path is hashed (a missing one is an
\* error that leaves through `?'), and given up if the hash is wrong ...
AnyHash(a)  == HasPart(a)  \* mutant: the whole-file hash is not compared
Verifies(a) == HasPart(a) /\ part = Original

AcknowledgesEarly(a) ==  \* mutant: the final Ack goes out before the rename
  /\ Receiving(a) /\ Receives(s2r, a, "Complete") /\ Verifies(a)
  /\ rpc' = [rpc EXCEPT ![a] = "seal"]
  /\ Consume(s2r, a)
  /\ ToSender(a, Ack(N, N))
  /\ UNCHANGED <<rowVars, diskVars, rCancel, senderVars, link>>

HashMatches(a) ==
  /\ Receiving(a) /\ Receives(s2r, a, "Complete") /\ Verifies(a)
  /\ rpc' = [rpc EXCEPT ![a] = "seal"]
  /\ Consume(s2r, a)
  /\ UNCHANGED <<rowVars, diskVars, rCancel, senderVars, r2s, link>>

HashDiffers(a) ==
  /\ Receiving(a) /\ Receives(s2r, a, "Complete")
  /\ HasPart(a) /\ part # Original
  /\ ReceiverEnds(a, "failed", FALSE)
  /\ Unlink(a)
  /\ ToSender(a, Error)
  /\ UNCHANGED <<rBytes, verified, senderVars, link>>

PartMissing(a) ==
  /\ \/ Receiving(a) /\ Receives(s2r, a, "Complete")
     \/ rpc[a] = "seal"
  /\ ~HasPart(a)
  /\ ReceiverLeaks(a)
  /\ UNCHANGED <<rowVars, diskVars, senderVars, r2s, link>>

\* ... and renamed to its destination otherwise.  A handler that still has it
\* open goes on writing to the delivered file.
Rename ==
  /\ dest' = part /\ delivered' = TRUE
  /\ part' = Empty /\ partFile' = FALSE /\ dirty' = TRUE
  /\ inode' = [b \in Attempts |-> CASE inode[b] = "none" -> "none"
                                    [] inode[b] = "part" -> "dest"
                                    [] OTHER -> "older"]

Seal(a) ==
  /\ rpc[a] = "seal" /\ HasPart(a)
  /\ Rename
  /\ ReceiverEnds(a, "complete", TRUE)
  /\ ToSender(a, Ack(N, N))
  /\ UNCHANGED <<rBytes, verified, senderVars, link>>

ReadCancelMessage(a) ==
  /\ Receiving(a) /\ Receives(s2r, a, "Cancel")
  /\ ReceiverEnds(a, rStatus, TRUE)
  /\ UNCHANGED <<rBytes, verified, diskVars, senderVars, r2s, link>>

ReceiverCancelled(a) ==
  /\ rpc[a] = "recv" /\ rCancel[a]
  /\ ToSender(a, Cancel)
  /\ ReceiverEnds(a, rStatus, TRUE)
  /\ UNCHANGED <<rBytes, verified, diskVars, senderVars, link>>

\* The stream is closed and drained, nothing came for 12 times 5 s, or a chunk
\* cannot be decrypted: the loop breaks with an error.
ReceiverFails(a) ==
  /\ Receiving(a)
  /\ \/ "timeout" \in Faults
     \/ "corrupt" \in Faults /\ Receives(s2r, a, "Chunk")
     \/ s2r[a] = <<>> /\ (link[a] = "down" \/ SenderOver(a))
  /\ ReceiverEnds(a, rStatus, FALSE)
  /\ UNCHANGED <<rBytes, verified, diskVars, senderVars, r2s, link>>

-----------------------------------------------------------------------------
(* The environment: users, disks, processes and the network.               *)

CancelSending(a) ==
  /\ "cancel" \in Faults /\ spc[a] \in SenderLive /\ ~sCancel[a]
  /\ sCancel' = [sCancel EXCEPT ![a] = TRUE]
  /\ UNCHANGED <<sStatus, sBytes, src, spc, next, wanted, pending, receiverVars, s2r, r2s, link>>

CancelReceiving(a) ==
  /\ "cancel" \in Faults /\ rpc[a] \in {"opening", "recv", "seal"} /\ ~rCancel[a]
  /\ rCancel' = [rCancel EXCEPT ![a] = TRUE]
  /\ UNCHANGED <<rowVars, diskVars, rpc, senderVars, s2r, r2s, link>>

\* The file is saved again while the transfer exists.
EditSource ==
  /\ src < MaxEdits
  /\ src' = src + 1
  /\ UNCHANGED <<sStatus, sBytes, spc, next, wanted, pending, sCancel, receiverVars, s2r, r2s, link>>

LinkDrops(a) ==
  /\ "drop" \in Faults
  /\ spc[a] # "idle" /\ link[a] = "up" /\ ~Quiet(a)
  /\ link' = [link EXCEPT ![a] = "down"]
  /\ UNCHANGED <<senderVars, receiverVars, s2r, r2s>>

\* A dead link loses the end of what was in flight.
LoseLast(ch, a) == [ch EXCEPT ![a] = SubSeq(@, 1, Len(@) - 1)]

LoseToReceiver(a) ==
  /\ link[a] = "down" /\ s2r[a] # <<>>
  /\ s2r' = LoseLast(s2r, a)
  /\ UNCHANGED <<senderVars, receiverVars, r2s, link>>

LoseToSender(a) ==
  /\ link[a] = "down" /\ r2s[a] # <<>>
  /\ r2s' = LoseLast(r2s, a)
  /\ UNCHANGED <<senderVars, receiverVars, s2r, link>>

\* A process dies: its handlers and inboxes with it, its streams go down, its
\* rows and files stay.
Opened(a)   == spc[a] # "idle"
CutStreams  == link' = [a \in Attempts |-> IF Opened(a) THEN "down" ELSE link[a]]

SenderCrashes ==
  /\ "crash" \in Faults /\ \E a \in Attempts : spc[a] \in SenderLive \cup Closing
  /\ spc' = [a \in Attempts |-> IF spc[a] \in SenderLive \cup Closing THEN "dead" ELSE spc[a]]
  /\ next' = [a \in Attempts |-> 0] /\ wanted' = [a \in Attempts |-> {}] /\ pending' = next'
  /\ sCancel' = [a \in Attempts |-> FALSE]
  /\ r2s' = [a \in Attempts |-> <<>>]
  /\ CutStreams
  /\ UNCHANGED <<sStatus, sBytes, src, receiverVars, s2r>>

ReceiverDies ==
  /\ rpc' = [a \in Attempts |-> IF rpc[a] \in ReceiverLive \cup Closing THEN "dead" ELSE rpc[a]]
  /\ rCancel' = [a \in Attempts |-> FALSE]
  /\ s2r' = [a \in Attempts |-> <<>>]
  /\ CutStreams
  /\ UNCHANGED <<rStatus, senderVars, r2s>>

ReceiverCrashes ==
  /\ "crash" \in Faults /\ \E a \in Attempts : rpc[a] \in ReceiverLive \cup Closing
  /\ ReceiverDies
  /\ UNCHANGED <<rBytes, verified, diskVars>>

\* The process dies after the chunk is written, before (or after) the row is.
CrashBeforeWrite(a) ==  \* mutant: the chunk is marked before it is written
  /\ "crash" \in Faults /\ Receiving(a) /\ Receives(s2r, a, "Chunk")
  /\ verified' = verified \cup {Head(s2r[a]).chunk}
  /\ ReceiverDies
  /\ UNCHANGED <<rBytes, diskVars>>

ReceiverCrashesInChunk(a) ==
  /\ "crash" \in Faults /\ Receiving(a) /\ Receives(s2r, a, "Chunk")
  /\ LET m == Head(s2r[a]) IN
       WriteChunk(a, m) /\ rBytes' \in {rBytes, Update(rBytes, m.chunk + 1)}
  /\ ReceiverDies
  /\ UNCHANGED verified

\* Or after the rename, before the row says complete.
ReceiverCrashesInSeal(a) ==
  /\ "crash" \in Faults /\ rpc[a] = "seal" /\ HasPart(a)
  /\ Rename
  /\ ReceiverDies
  /\ UNCHANGED <<rBytes, verified>>

\* get_transfer_history, run whenever a user looks at the list: rows that did
\* not change for two minutes fail.  A sender's handler does not go on that long
\* in silence; a receiver's may have an old row while it asks or hashes.
SweepSender ==
  /\ "sweep" \in Faults /\ \A a \in Attempts : spc[a] \notin SenderLive
  /\ sStatus \in OpenStatus \cup {"paused"}
  /\ sStatus' = "failed"
  /\ UNCHANGED <<sBytes, src, spc, next, wanted, pending, sCancel, receiverVars, s2r, r2s, link>>

SweepReceiver ==
  /\ "sweep" \in Faults /\ \A a \in Attempts : rpc[a] # "recv"
  /\ rStatus \in OpenStatus \cup {"paused"}
  /\ rStatus' = "failed"
  /\ UNCHANGED <<rBytes, verified, diskVars, rpc, rCancel, senderVars, s2r, r2s, link>>

\* clear_finished_transfers: the receiver forgets a finished row and its chunks.
ClearFinished ==
  /\ "sweep" \in Faults
  /\ rStatus \in {"complete", "failed", "declined"}
  /\ rStatus' = "none" /\ rBytes' = 0 /\ verified' = {}
  /\ UNCHANGED <<diskVars, rpc, rCancel, senderVars, s2r, r2s, link>>

-----------------------------------------------------------------------------
SenderStep(a) ==
  \/ ReadAcceptance(a) \/ SkipChunk(a) \/ SendChunk(a) \/ ReadAck(a) \/ ReadCancel(a)
  \/ SendComplete(a) \/ ReadFinalAck(a) \/ ReadFinalError(a)
  \/ SenderCancelled(a) \/ SenderFails(a) \/ SenderLooks(a) \/ SenderSettles(a)

ReceiverStep(a) ==
  \/ ReadRequest(a) \/ RefuseForSpace(a) \/ Accept(a) \/ Decline(a) \/ DecisionTimeout(a)
  \/ OpenPart(a) \/ AnswerFails(a) \/ ReadChunk(a) \/ RejectChunk(a) \/ DiskFails(a)
  \/ HashMatches(a) \/ HashDiffers(a) \/ PartMissing(a) \/ Seal(a)
  \/ ReadCancelMessage(a) \/ ReceiverCancelled(a) \/ ReceiverFails(a)
  \/ ReceiverLooks(a) \/ ReceiverSettles(a)

Environment ==
  \/ \E a \in Attempts : \/ CancelSending(a) \/ CancelReceiving(a) \/ LinkDrops(a)
                         \/ LoseToReceiver(a) \/ LoseToSender(a)
                         \/ ReceiverCrashesInChunk(a) \/ ReceiverCrashesInSeal(a)
  \/ EditSource \/ SenderCrashes \/ ReceiverCrashes
  \/ SweepSender \/ SweepReceiver \/ ClearFinished

Next ==
  \/ \E a \in Attempts : StartAttempt(a) \/ SenderStep(a) \/ ReceiverStep(a)
  \/ Environment

Spec == Init /\ [][Next]_vars

\* An open stream with no message, and nothing else to do: only a time-out, on
\* which no handler should have to count, ends such a read.
SenderWaits(a) ==
  /\ spc[a] \in {"await", "final"} \/ (AwaitsAck(a) /\ ~sCancel[a])
  /\ r2s[a] = <<>> /\ ~ClosedToSender(a)

ReceiverWaits(a) == Receiving(a) /\ s2r[a] = <<>> /\ link[a] # "down" /\ ~SenderOver(a)

\* Handler threads keep running; users and misfortunes are not obliged to act.
Fairness ==
  \A a \in Attempts : /\ WF_vars(~SenderWaits(a) /\ SenderStep(a))
                      /\ WF_vars(~ReceiverWaits(a) /\ ReceiverStep(a))
FairSpec == Spec /\ Fairness /\ WF_vars(StartAttempt(1))

-----------------------------------------------------------------------------
Message ==
  {Request, Complete, Cancel, Error}
  \cup [type : {"Chunk"}, chunk : Chunks, data : 0..MaxEdits]
  \cup [type : {"Ack"}, chunk : 0..N, bytes : 0..N]
  \cup [type : {"Acceptance"}, ok : BOOLEAN, from : 0..N, missing : SUBSET Chunks]

\* The type invariant.
TypeOK ==
  /\ sStatus \in Status /\ rStatus \in Status
  /\ sBytes \in 0..N /\ rBytes \in 0..N
  /\ src \in 0..MaxEdits
  /\ spc \in [Attempts -> {"idle", "done", "dead"} \cup SenderLive \cup Closing]
  /\ rpc \in [Attempts -> {"idle", "done", "dead", "leaked"} \cup ReceiverLive \cup Closing]
  /\ next \in [Attempts -> 0..N]
  /\ wanted \in [Attempts -> SUBSET Chunks]
  /\ pending \in [Attempts -> 0..Window]
  /\ sCancel \in [Attempts -> BOOLEAN] /\ rCancel \in [Attempts -> BOOLEAN]
  /\ verified \subseteq Chunks
  /\ part \in [Chunks -> Content] /\ dest \in [Chunks -> Content]
  /\ partFile \in BOOLEAN /\ delivered \in BOOLEAN /\ dirty \in BOOLEAN
  /\ inode \in [Attempts -> {"none", "part", "unlinked", "dest", "older"}]
  /\ s2r \in [Attempts -> Seq(Message)] /\ r2s \in [Attempts -> Seq(Message)]
  /\ link \in [Attempts -> {"up", "down"}]

-----------------------------------------------------------------------------
(* Safety.                                                                 *)

\* A file that reached its destination has exactly the announced content:
\* the whole-file check of Complete and the rename leave no gap for another
\* edition of the source, a resumed attempt or a second handler.
DeliveredIntact == delivered => dest = Original

\* The sender's row says complete only for a file the receiver delivered: the
\* Ack read after Complete is never a late acknowledgement of a chunk.
CompleteMeansDelivered == sStatus = "complete" => delivered

OfType(q, t) == {i \in DOMAIN q : q[i].type = t}

\* Flow control: the chunks and acknowledgements of a stream that are under way
\* are all accounted for by pending_acks, which never exceeds max_pending_acks.
FlowControl ==
  \A a \in Attempts : spc[a] = "stream" =>
    Cardinality(OfType(s2r[a], "Chunk")) + Cardinality(OfType(r2s[a], "Ack")) <= pending[a]

\* Until the part file is renamed or given up, every chunk that an Ack under way
\* speaks for, and every chunk the row calls verified, is in it - whenever the
\* receiver's process dies.
VerifiedIsWritten ==
  ~dirty => /\ \A c \in verified : part[c] # Hole
            /\ \A a \in Attempts : \A i \in OfType(r2s[a], "Ack") : part[r2s[a][i].chunk] # Hole

\* Until then, too, a resumed attempt skips only chunks the part file holds.
ResumeSkipsOnlyWritten ==
  ~dirty => \A c \in Chunks \ Selected(AcceptanceNow) : part[c] # Hole

\* A handler that runs to its end never leaves an open row behind, even when
\* handlers of two attempts overlap.
RowsAreSettled ==
  /\ (\A a \in Attempts : rpc[a] \in {"idle", "done"}) => rStatus \notin OpenStatus
  /\ spc[1] # "idle" /\ (\A a \in Attempts : spc[a] \in {"idle", "done"})
       => sStatus \notin OpenStatus

(* The invariant CompleteMeansDelivered and FlowControl follow from: what is *)
(* under way on a stream, by the phase of its sender.                        *)

NoneOf(q, t) == \A i \in DOMAIN q : q[i].type # t
EndsBut(q, t) == q # <<>> /\ q[Len(q)].type # t

IdleStream(a) == s2r[a] = <<>> /\ r2s[a] = <<>> /\ rpc[a] = "idle"

AwaitingStream(a) ==
  /\ rpc[a] # "seal"
  /\ NoneOf(s2r[a], "Chunk") /\ NoneOf(s2r[a], "Complete")
  /\ IF rpc[a] = "idle" THEN Len(s2r[a]) <= 1 ELSE s2r[a] = <<>>
  /\ rpc[a] \in {"idle", "deciding"} => r2s[a] = <<>>
  /\ Len(r2s[a]) <= 1 \/ (ReceiverOver(a) /\ Len(r2s[a]) = 2 /\ EndsBut(r2s[a], "Ack"))

StreamingStream(a) ==
  /\ rpc[a] \notin {"idle", "deciding", "seal"}
  /\ NoneOf(s2r[a], "Complete")
  /\ \/ Len(s2r[a]) + Len(r2s[a]) <= pending[a]
     \/ ReceiverOver(a) /\ Len(r2s[a]) = pending[a] + 1 /\ EndsBut(r2s[a], "Ack")

FinalStream(a) ==
  /\ NoneOf(s2r[a], "Chunk")
  /\ NoneOf(r2s[a], "Ack") \/ delivered

StreamInStep(a) ==
  /\ ReceiverOver(a) => s2r[a] = <<>>
  /\ spc[a] = "idle"   => IdleStream(a)
  /\ spc[a] = "await"  => AwaitingStream(a)
  /\ spc[a] = "stream" => StreamingStream(a)
  /\ spc[a] = "final"  => FinalStream(a)

\* Both ends of every stream agree on how far it is: no acknowledgement is under
\* way that the sender has not counted, and none at all once it waits for the
\* final one, unless the file is delivered.
StreamsInStep == \A a \in Attempts : StreamInStep(a)

\* The transfer implements the abstract delivery.
Delivery == INSTANCE FileDelivery WITH
  stored <- IF ~delivered THEN "absent" ELSE IF dest = Original THEN "intact" ELSE "altered",
  known  <- sStatus = "complete"
ImplementsDelivery == Delivery!Spec

(* Liveness.                                                               *)

\* Whatever happens to its peer, its stream or its user, the handlers of every
\* attempt end: no two ends of a stream wait for each other.
HandlersEnd ==
  []<>(\A a \in Attempts : /\ spc[a] \notin SenderLive \cup Closing
                           /\ rpc[a] \notin ReceiverLive \cup Closing)
=============================================================================
