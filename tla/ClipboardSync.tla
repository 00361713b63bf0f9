--------------------------- MODULE ClipboardSync ---------------------------
(***************************************************************************)
(* The shared clipboard of the paired devices.  On each of them the daemon *)
(* claims and stores what was copied here or elsewhere (lib.rs), an IPC    *)
(* thread marks items of the history as local-only (main.rs), and a thread *)
(* per sync session carries updates to and from a peer (pairing.rs).  They *)
(* share two rows of the state table, which are read and written one at a  *)
(* time, the history of events and the map of peers.                       *)
(*                                                                         *)
(* An update is a content with the millisecond at which it was announced.  *)
(* Every device has a clock of its own: nothing relates the clocks.  The   *)
(* watcher that finds what the user copied is the environment here.        *)
(***************************************************************************)
EXTENDS Naturals, Sequences, FiniteSets

CONSTANTS
  Devices,
  Contents,
  Large,       \* contents too long for a message of a session: an image as a data URL
  Sessions, Ends, \* sync sessions, and the two devices each of them connects
  Marking,     \* devices whose user marks items local-only
  MaxTime,     \* bound of the clocks
  MaxInbox,    \* bound of the daemon's queue, which has none
  MaxAnnounced, \* how many announcements there are
  MaxEvents,   \* how many restarts, broken sessions, marks and lock-outs there are
  None, Dead   \* no content; a peer's sender whose session has ended

ASSUME ConstantsAssumption ==
  /\ Marking \subseteq Devices /\ Large \subseteq Contents
  /\ Ends \in [Sessions -> SUBSET Devices]
  /\ \A s \in Sessions : \E d, e \in Devices : d # e /\ Ends[s] = {d, e}
  /\ MaxTime \in Nat /\ MaxInbox \in Nat /\ MaxAnnounced \in Nat /\ MaxEvents \in Nat
  /\ None \notin Contents \cup Sessions /\ Dead \notin Sessions \cup {None}

Times  == 1..MaxTime
Update == [content : Contents, time : Times]
Message == [kind : {"changed", "set"}, content : Contents, time : Times]
Peer(s, d) == CHOOSE e \in Ends[s] : e # d

VARIABLES
  clock,      \* the latest time a device gave to an announcement of its own
  inbox,      \* the daemon's queue
  doing,      \* the message the daemon is at, and where
  last,       \* last_processed_timestamp
  stamp, latest,            \* last_sync_timestamp, last_clipboard_content
  current, history, marked, \* events: the newest, all, and those local-only
  toggling,   \* what the IPC thread shares again, and where it is
  phase,      \* where each end of a session is
  draft,      \* the timestamp it has read for its first update
  link,       \* the updates each end has for its peer
  peers,      \* the session in a device's map for each other device
  locked,     \* devices that have recorded that they are revoked
  announced, happened, \* how many so far
  sent,       \* history: what was announced under each timestamp
  everMarked  \* history: the devices whose user has marked an item local-only

daemon   == <<inbox, doing, last>>
state    == <<stamp, latest>>
events   == <<current, history, marked>>
counts   == <<announced, happened>>
sessions == <<phase, draft, link, peers>>
vars == <<clock, daemon, state, events, toggling, sessions, locked, counts,
          sent, everMarked>>

Idle == [at |-> "idle"]

Init ==
  /\ clock = [d \in Devices |-> 0]
  /\ inbox = [d \in Devices |-> <<>>] /\ doing = [d \in Devices |-> Idle]
  /\ last = [d \in Devices |-> 0]
  /\ stamp = last /\ latest = [d \in Devices |-> None]
  /\ current = latest
  /\ history = [d \in Devices |-> {}] /\ marked = history
  /\ toggling = doing
  /\ phase = [s \in Sessions |-> [d \in Devices |-> "none"]]
  /\ draft = [s \in Sessions |-> [d \in Devices |-> 0]]
  /\ link = [s \in Sessions |-> [d \in Devices |-> <<>>]]
  /\ peers = [d \in Devices |-> [e \in Devices |-> None]]
  /\ locked = {}
  /\ announced = 0 /\ happened = 0
  /\ sent = [t \in Times |-> {}]
  /\ everMarked = {}

\* Times are free and the queue keeps the order of arrival, so that a message
\* loses nothing by coming when the daemon has done with the others.
HasRoom(d) == Len(inbox[d]) + (IF doing[d] = Idle THEN 0 ELSE 1) < MaxInbox
Deliver(d, kind, u) ==
  inbox' = [inbox EXCEPT ![d] = Append(@, [kind |-> kind, content |-> u.content, time |-> u.time])]

\* A device's own announcements have increasing times.
Stamps(d, t) ==
  /\ announced < MaxAnnounced /\ announced' = announced + 1
  /\ t > clock[d] /\ clock' = [clock EXCEPT ![d] = t]
Happens == happened < MaxEvents /\ happened' = happened + 1
Sends(u) == sent' = [sent EXCEPT ![u.time] = @ \cup {u.content}]

-----------------------------------------------------------------------------
(* The user copies, and the watcher reports it: also a URL, whose metadata  *)
(* is fetched by a thread of its own before its time is taken.             *)

Report(d, c, t) ==
  /\ HasRoom(d) /\ Stamps(d, t)
  /\ Deliver(d, "changed", [content |-> c, time |-> t])
  /\ Sends([content |-> c, time |-> t])
  /\ UNCHANGED <<doing, last, state, events, toggling, sessions, locked, happened, everMarked>>

-----------------------------------------------------------------------------
(* The daemon.                                                             *)

At(d, step) == doing[d].at = step
GoOn(d, step) == doing' = [doing EXCEPT ![d].at = step]
Done(d) == doing' = [doing EXCEPT ![d] = Idle]

claim_other_timestamp(d, t) == t # last[d]  \* mutant: an older update is taken
claim_newer_timestamp(d, t) == t > last[d]

\* An update from elsewhere does not replace a local-only item.
Accepts(d, m) ==
  /\ d \notin locked
  /\ m.kind = "set" => current[d] \notin marked[d] /\ m.content \notin marked[d]
  /\ claim_newer_timestamp(d, m.time)

Take(d) ==
  /\ At(d, "idle") /\ inbox[d] # <<>>
  /\ LET m == Head(inbox[d]) IN
       IF Accepts(d, m)
       THEN /\ last' = [last EXCEPT ![d] = m.time]
            /\ stamp' = [stamp EXCEPT ![d] = m.time]
            /\ doing' = [doing EXCEPT ![d] = [at |-> "storing", msg |-> m]]
       ELSE UNCHANGED <<last, stamp, doing>>
  /\ inbox' = [inbox EXCEPT ![d] = Tail(@)]
  /\ UNCHANGED <<clock, latest, events, toggling, sessions, locked, counts,
                 sent, everMarked>>

\* An older event with the same content is removed, and its mark with it.
append_event(d, c) ==
  /\ current' = [current EXCEPT ![d] = c]
  /\ history' = [history EXCEPT ![d] = @ \cup {c}]
  /\ marked' = [marked EXCEPT ![d] = IF current[d] = c THEN @ ELSE @ \ {c}]

StoreContent(d) ==
  /\ At(d, "storing")
  /\ latest' = [latest EXCEPT ![d] = doing[d].msg.content]
  /\ append_event(d, doing[d].msg.content)
  /\ IF doing[d].msg.kind = "changed" THEN GoOn(d, "announcing") ELSE Done(d)
  /\ UNCHANGED <<clock, inbox, last, stamp, toggling, sessions, locked, counts,
                 sent, everMarked>>

\* To every session in the map.
broadcast(d, u) ==
  link' = [s \in Sessions |-> [link[s] EXCEPT ![d] =
                IF \E e \in Devices : peers[d][e] = s THEN Append(@, u) ELSE @]]

UpdateAt(x) == [content |-> x.msg.content, time |-> x.msg.time]

Announce(d) ==
  /\ At(d, "announcing")
  /\ IF doing[d].msg.content \in marked[d]
     THEN UNCHANGED link
     ELSE broadcast(d, UpdateAt(doing[d]))
  /\ Done(d)
  /\ UNCHANGED <<clock, inbox, last, state, events, toggling, phase, draft, peers, locked,
                 counts, sent, everMarked>>
-----------------------------------------------------------------------------
(* ToggleLocalOnly, on the thread of the IPC server.                       *)

Mark(d, c) ==
  /\ d \in Marking /\ toggling[d] = Idle /\ c \in history[d] \ marked[d]
  /\ Happens
  /\ marked' = [marked EXCEPT ![d] = @ \cup {c}]
  /\ everMarked' = everMarked \cup {d}
  /\ UNCHANGED <<clock, daemon, state, current, history, toggling, sessions, locked, announced, sent>>

Unmark(d, c, t) ==
  /\ toggling[d] = Idle /\ c \in marked[d]
  /\ marked' = [marked EXCEPT ![d] = @ \ {c}]
  /\ Stamps(d, t)
  /\ toggling' = [toggling EXCEPT ![d] =
                    [at |-> "stamping", msg |-> [content |-> c, time |-> t]]]
  /\ Sends([content |-> c, time |-> t])
  /\ UNCHANGED <<daemon, state, current, history, sessions, locked, happened, everMarked>>

ToggleStamp(d) ==
  /\ toggling[d].at = "stamping"
  /\ stamp' = [stamp EXCEPT ![d] = toggling[d].msg.time]
  /\ toggling' = [toggling EXCEPT ![d].at = "storing"]
  /\ UNCHANGED <<clock, daemon, latest, events, sessions, locked, counts, sent,
                 everMarked>>

ToggleContent(d) ==
  /\ toggling[d].at = "storing"
  /\ latest' = [latest EXCEPT ![d] = toggling[d].msg.content]
  /\ toggling' = [toggling EXCEPT ![d].at = "announcing"]
  /\ UNCHANGED <<clock, daemon, stamp, events, sessions, locked, counts, sent,
                 everMarked>>

ToggleAnnounce(d) ==
  /\ toggling[d].at = "announcing"
  /\ broadcast(d, UpdateAt(toggling[d]))
  /\ toggling' = [toggling EXCEPT ![d] = Idle]
  /\ UNCHANGED <<clock, daemon, state, events, phase, draft, peers, locked, counts, sent,
                 everMarked>>
-----------------------------------------------------------------------------
(* Sync sessions.                                                          *)

Enters(s, d, where) == phase' = [phase EXCEPT ![s][d] = where]

\* A device connects to a peer that is not in its map; meanwhile the peer may
\* do the same.
Connect(s, d) ==
  /\ d \in Ends[s] /\ peers[d][Peer(s, d)] = None
  /\ \A e \in Ends[s] : phase[s][e] = "none" /\ e \notin locked
  /\ phase' = [phase EXCEPT ![s] = [e \in Devices |-> IF e \in Ends[s] THEN "joining" ELSE "none"]]
  /\ UNCHANGED <<clock, daemon, state, events, toggling, draft, link, peers, locked, counts, sent, everMarked>>

\* add_peer, and the read of the timestamp, which the daemon can only come
\* between with an update that it broadcasts to the session as well.
add_peer(s, d) ==
  /\ phase[s][d] = "joining"
  /\ peers' = [peers EXCEPT ![d][Peer(s, d)] = s]
  /\ Enters(s, d, IF stamp[d] = 0 THEN "open" ELSE "greeting")
  /\ draft' = [draft EXCEPT ![s][d] = stamp[d]]
  /\ UNCHANGED <<clock, daemon, state, events, toggling, link, locked, counts, sent, everMarked>>

SendWhatIsThere(s, d) ==  \* mutant: a missing content is sent
  /\ phase[s][d] = "greeting"
  /\ Enters(s, d, "open")
  /\ LET u == [content |-> latest[d], time |-> draft[s][d]] IN
       IF latest[d] \in Large
       THEN UNCHANGED <<link, sent>>
       ELSE /\ Sends(u)
            /\ link' = [link EXCEPT ![s][d] = <<u>> \o @]
  /\ draft' = [draft EXCEPT ![s][d] = 0]
  /\ UNCHANGED <<clock, daemon, state, events, toggling, peers, locked, counts,
                 everMarked>>
\* The first update is written at once, before those that wait to be sent; one
\* that is too long for a message is not, and nobody looks at the error.
SendInitial(s, d) ==
  /\ phase[s][d] = "greeting"
  /\ Enters(s, d, "open")
  /\ LET u == [content |-> latest[d], time |-> draft[s][d]] IN
       IF latest[d] \in Large
       THEN UNCHANGED <<link, sent>>
       ELSE /\ Sends(u)
            /\ link' = [link EXCEPT ![s][d] = IF latest[d] = None THEN @ ELSE <<u>> \o @]
  /\ draft' = [draft EXCEPT ![s][d] = 0]
  /\ UNCHANGED <<clock, daemon, state, events, toggling, peers, locked, counts,
                 everMarked>>

\* A session breaks once.
Breaks(s) ==
  IF \E e \in Ends[s] : phase[s][e] \in {"broken", "closed"} THEN UNCHANGED happened ELSE Happens

\* Its write fails with the connection: the error is not looked at either, and the
\* session stays in the map until it reads or writes again.
SendInitialFails(s, d) ==
  /\ phase[s][d] = "greeting"
  /\ Enters(s, d, "broken") /\ Breaks(s)
  /\ draft' = [draft EXCEPT ![s][d] = 0]
  /\ UNCHANGED <<clock, daemon, state, events, toggling, link, peers, locked, announced,
                 sent, everMarked>>

\* The first n updates of an end can be on the connection: the write of one that is
\* too long fails.
Written(s, d, n) ==
  /\ n \in 0..Len(link[s][d]) /\ (phase[s][d] = "broken" => n = 0)
  /\ \A i \in 1..n : link[s][d][i].content \notin Large

Receive(s, d) ==
  /\ phase[s][d] \in {"open", "broken"} /\ HasRoom(d)
  /\ LET e == Peer(s, d) IN
       /\ Written(s, e, 1)
       /\ Deliver(d, "set", Head(link[s][e]))
       /\ link' = [link EXCEPT ![s][e] = Tail(@)]
  /\ UNCHANGED <<clock, doing, last, state, events, toggling, phase, draft, peers, locked,
                 counts, sent, everMarked>>

\* What an end has not written is lost with it, and what its peer has written
\* is not read; of the rest the peer may still get a part.
Ended(s, d, n) ==
  /\ Enters(s, d, "closed")
  /\ Breaks(s)
  /\ link' = [link EXCEPT ![s] =
                [e \in Devices |-> IF e = d THEN SubSeq(link[s][d], 1, n) ELSE <<>>]]

\* Whatever session is in the map under the peer's id is removed.
remove_peer(s, d, n) ==
  /\ phase[s][d] \in {"open", "broken"} /\ Written(s, d, n)
  /\ Ended(s, d, n)
  /\ peers' = [peers EXCEPT ![d][Peer(s, d)] = None]
  /\ UNCHANGED <<clock, daemon, state, events, toggling, draft, locked, announced, sent,
                 everMarked>>

\* A write fails: `?' leaves run_sync_session and the sender stays in the map.
LeaveInMap(s, d, n) ==
  /\ phase[s][d] \in {"open", "broken"} /\ Written(s, d, n) /\ n < Len(link[s][d])
  /\ Ended(s, d, n)
  /\ peers' = [peers EXCEPT ![d] = [e \in Devices |-> IF @[e] = s THEN Dead ELSE @[e]]]
  /\ UNCHANGED <<clock, daemon, state, events, toggling, draft, locked, announced, sent,
                 everMarked>>

\* The connection fails before the session is in the map.
JoinFails(s, d) ==
  /\ phase[s][d] = "joining"
  /\ Ended(s, d, 0)
  /\ UNCHANGED <<clock, daemon, state, events, toggling, draft, peers, locked, announced,
                 sent, everMarked>>
-----------------------------------------------------------------------------
\* The device is told that it is revoked; that its sessions end is for them.
LockOut(d) ==
  /\ d \notin locked /\ locked' = locked \cup {d}
  /\ Happens
  /\ UNCHANGED <<clock, daemon, state, events, toggling, sessions, announced, sent, everMarked>>

RestartAtZero(d, wrote) ==  \* mutant: the stored timestamp is not read
  /\ Happens
  /\ last' = [last EXCEPT ![d] = 0]
  /\ inbox' = [inbox EXCEPT ![d] = <<>>]
  /\ doing' = [doing EXCEPT ![d] = Idle]
  /\ toggling' = [toggling EXCEPT ![d] = Idle]
  /\ peers' = [peers EXCEPT ![d] = [e \in Devices |-> None]]
  /\ LET mine(s) == d \in Ends[s] /\ phase[s][d] # "none" IN
       /\ phase' = [s \in Sessions |->
            IF mine(s) THEN [phase[s] EXCEPT ![d] = "closed"] ELSE phase[s]]
       /\ link' = [s \in Sessions |->
            IF ~mine(s) THEN link[s]
            ELSE [e \in Devices |->
                    IF e = d /\ wrote /\ phase[s][d] # "broken" THEN link[s][d] ELSE <<>>]]
       /\ draft' = [s \in Sessions |->
            IF mine(s) THEN [draft[s] EXCEPT ![d] = 0] ELSE draft[s]]
  /\ UNCHANGED <<clock, state, events, locked, announced, sent, everMarked>>
\* The agent dies and is started again; what its sessions had written may still
\* be read.
Restart(d, wrote) ==
  /\ Happens
  /\ last' = [last EXCEPT ![d] = stamp[d]]
  /\ inbox' = [inbox EXCEPT ![d] = <<>>]
  /\ doing' = [doing EXCEPT ![d] = Idle]
  /\ toggling' = [toggling EXCEPT ![d] = Idle]
  /\ peers' = [peers EXCEPT ![d] = [e \in Devices |-> None]]
  /\ LET mine(s) == d \in Ends[s] /\ phase[s][d] # "none" IN
       /\ phase' = [s \in Sessions |->
            IF mine(s) THEN [phase[s] EXCEPT ![d] = "closed"] ELSE phase[s]]
       /\ link' = [s \in Sessions |->
            IF ~mine(s) THEN link[s]
            ELSE [e \in Devices |->
                    IF e = d /\ wrote /\ phase[s][d] # "broken" THEN link[s][d] ELSE <<>>]]
       /\ draft' = [s \in Sessions |->
            IF mine(s) THEN [draft[s] EXCEPT ![d] = 0] ELSE draft[s]]
  /\ UNCHANGED <<clock, state, events, locked, announced, sent, everMarked>>

DaemonStep(d) ==
  Take(d) \/ StoreContent(d) \/ Announce(d)
ToggleStep(d) == ToggleStamp(d) \/ ToggleContent(d) \/ ToggleAnnounce(d)

Next ==
  \E d \in Devices :
    \/ DaemonStep(d) \/ ToggleStep(d) \/ LockOut(d) \/ \E wrote \in BOOLEAN : Restart(d, wrote)
    \/ \E c \in Contents : Mark(d, c)
    \/ \E c \in Contents, t \in Times : Report(d, c, t) \/ Unmark(d, c, t)
    \/ \E s \in Sessions :
         /\ d \in Ends[s]
         /\ \/ Connect(s, d) \/ add_peer(s, d) \/ SendInitial(s, d)
            \/ SendInitialFails(s, d) \/ Receive(s, d) \/ JoinFails(s, d)
            \/ \E n \in 0..Len(link[s][d]) : remove_peer(s, d, n) \/ LeaveInMap(s, d, n)

Spec == Init /\ [][Next]_vars

-----------------------------------------------------------------------------
\* Every update under way names a content that was copied and a time at which it
\* was announced, whichever of the two rows it was read from.
TypeOK ==
  /\ clock \in [Devices -> 0..MaxTime]
  /\ inbox \in [Devices -> Seq(Message)]
  /\ doing \in [Devices -> {Idle} \cup [at : {"storing", "announcing"}, msg : Message]]
  /\ last \in [Devices -> 0..MaxTime] /\ stamp \in [Devices -> 0..MaxTime]
  /\ latest \in [Devices -> Contents \cup {None}]
  /\ current \in [Devices -> Contents \cup {None}]
  /\ history \in [Devices -> SUBSET Contents] /\ marked \in [Devices -> SUBSET Contents]
  /\ toggling \in [Devices -> {Idle} \cup
                     [at : {"stamping", "storing", "announcing"}, msg : Update]]
  /\ phase \in [Sessions -> [Devices -> {"none", "joining", "greeting", "open", "broken", "closed"}]]
  /\ draft \in [Sessions -> [Devices -> 0..MaxTime]]
  /\ link \in [Sessions -> [Devices -> Seq(Update)]]
  /\ peers \in [Devices -> [Devices -> Sessions \cup {None, Dead}]]
  /\ locked \subseteq Devices
  /\ announced \in 0..MaxAnnounced /\ happened \in 0..MaxEvents
  /\ sent \in [Times -> SUBSET (Contents \cup {None})]
  /\ everMarked \subseteq Devices

\* No message is under way and every device has every other in its map.
Quiet ==
  /\ \A d \in Devices : inbox[d] = <<>> /\ doing[d] = Idle /\ toggling[d] = Idle
  /\ \A s \in Sessions, d \in Devices : link[s][d] = <<>>
  /\ \A d, e \in Devices : d # e =>
       \E s \in Sessions : peers[d][e] = s /\ phase[s][d] = "open" /\ phase[s][e] = "open"

\* Were two contents announced under one time?  Two devices may do so in the
\* same millisecond; and a session that opens, or an agent that dies, between
\* the daemon's two writes pairs the new time with the old content, or with none.
Ambiguous(t) == t > 0 /\ Cardinality(sent[t]) > 1

\* No device holds back what it has, or drops what it is given.
Undisturbed == everMarked = {} /\ locked = {}

\* Connected devices with nothing under way hold the same, newest update, unless one
\* of them holds a content that is too long to be sent.
Agreement ==
  Quiet /\ Undisturbed /\ (\A d \in Devices : latest[d] \notin Large) =>
    \A d, e \in Devices : ~Ambiguous(last[d]) /\ ~Ambiguous(last[e]) =>
      last[d] = last[e] /\ latest[d] = latest[e]

\* A device whose user marks nothing never goes back to an earlier update, restarts
\* included, whatever the others mark and share again: its daemon claims a time
\* before it stores it, and starts from the stored one.
LastWriterWins == [][\A d \in Devices \ everMarked' : last'[d] >= last[d]]_vars
=============================================================================
