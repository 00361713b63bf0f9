------------------------------ MODULE PeerSync ------------------------------
(***************************************************************************)
(* What paired devices keep in common besides the clipboard: settings, of  *)
(* which the last write wins, and notes, which are automerge documents;    *)
(* and the revocation of a device, which travels the same way.  The        *)
(* messages go over the sync sessions (pairing.rs) and are handled one at  *)
(* a time, by the daemon of a computer (lib.rs, main.rs) or by the mobile  *)
(* core (cdus-ffi), which does less.                                       *)
(*                                                                         *)
(* There is one setting and one note.  A setting is the time of its write, *)
(* a note the set of changes its document holds.  A message that was read  *)
(* and waits for the daemon counts as under way.                           *)
(***************************************************************************)
EXTENDS Naturals, Sequences, FiniteSets, SequencesExt

CONSTANTS
  Devices,
  MaxTime,     \* bound: how many times there are
  MaxVersions, \* bound: how many changes notes have
  MaxActs,     \* how many settings and notes are written, notes deleted, devices
               \* revoked and sessions broken
  MaxWrites    \* how many of them are writes of the note

ASSUME ConstantsAssumption ==
  /\ MaxTime \in Nat /\ MaxVersions \in Nat /\ MaxActs \in Nat /\ MaxWrites \in Nat

Times    == 1..MaxTime
Versions == 1..MaxVersions
Pairs    == {{d, e} : d, e \in Devices} \ {{d} : d \in Devices}

\* A message of the sync protocol has the changes of the sender's document and
\* those it passes on.
SyncMessage ==
  [type : {"SettingsUpdate"}, time : Times]
    \cup [type : {"NoteSync"}, doc : SUBSET Versions, news : SUBSET Versions]
    \cup [type : {"DeviceRevocation"}, device : Devices]
    \cup [type : {"NoteDelete", "Disconnect"}]
PeerConnected == [type |-> "PeerConnected"]

VARIABLES
  mobile,    \* the devices that run the mobile core
  setting,   \* the time of the value each device has, 0 for none
  note,      \* the changes of its document, none if it has no note
  changes,   \* the change each version is
  order,     \* all versions by counter, then actor: the last one is shown
  revoked, paired, \* the two tables of a device
  phase,     \* the session between two devices
  peers,     \* the devices in the map of a device; the session may have ended
  link,      \* what each device has sent to another and is not handled yet; the
             \* session's PeerConnected comes before what arrives through it
  used,      \* the times that are taken
  acts, writes, \* how many so far
  deleted,   \* history: a note was deleted
  late       \* history: <<d, e>> if a session began when d had recorded that e is revoked

notes    == <<note, changes, order>>
tables   == <<revoked, paired>>
sessions == <<phase, peers, late>>
counts   == <<acts, writes, deleted>>
vars == <<mobile, setting, notes, tables, sessions, link, used, counts>>

Change == [text : BOOLEAN, deps : SUBSET Versions, counter : 1..MaxVersions]

\* A document has changes that were made, and a message a time at which the setting
\* was written.
TypeOK ==
  /\ mobile \subseteq Devices
  /\ setting \in [Devices -> 0..MaxTime]
  /\ note \in [Devices -> SUBSET Versions]
  /\ changes \in Seq(Change) /\ Len(changes) <= MaxVersions
  /\ order \in Seq(Versions) /\ Range(order) = DOMAIN changes
  /\ \A d \in Devices : note[d] \subseteq DOMAIN changes
  /\ revoked \in [Devices -> SUBSET Devices] /\ paired \in [Devices -> SUBSET Devices]
  /\ phase \in [Pairs -> {"none", "opening", "lan", "turn"}]
  /\ peers \in [Devices -> SUBSET Devices]
  /\ \A d, e \in Devices : link[d][e] \in Seq(SyncMessage \cup {PeerConnected})
  /\ used \subseteq Times
  /\ acts \in 0..MaxActs /\ writes \in 0..MaxWrites /\ deleted \in BOOLEAN
  /\ late \subseteq Devices \X Devices

Init ==
  /\ mobile \in SUBSET Devices
  /\ setting = [d \in Devices |-> 0]
  /\ note = [d \in Devices |-> {}] /\ changes = <<>> /\ order = <<>>
  /\ revoked = note /\ peers = note
  /\ paired = [d \in Devices |-> Devices \ {d}]
  /\ phase = [p \in Pairs |-> "none"]
  /\ link = [d \in Devices |-> [e \in Devices |-> <<>>]]
  /\ used = {} /\ acts = 0 /\ writes = 0
  /\ deleted = FALSE /\ late = {}

-----------------------------------------------------------------------------
is_device_revoked(d, e) == e \in revoked[d]
LockedOut(d) == is_device_revoked(d, d)
Act == acts < MaxActs /\ acts' = acts + 1

\* The links after d has sent m to those of tos that are in its map.  A sender whose
\* session has ended takes nothing.
IsOpen(p)   == phase[p] \in {"lan", "turn"}
Hears(e, d) == e \in peers[d] /\ IsOpen({d, e})
Sent(links, d, tos, m) ==
  [links EXCEPT ![d] =
     [e \in Devices |-> IF e \in tos /\ Hears(e, d) THEN Append(@[e], m) ELSE @[e]]]
broadcast(d, m) == link' = Sent(link, d, Devices, m)

\* e's message is of this type and the next that d handles.
Receives(d, e, type) == link[e][d] # <<>> /\ Head(link[e][d]).type = type
Taken(d, e) == [link EXCEPT ![e][d] = Tail(@)]
Take(d, e)  == link' = Taken(d, e)

-----------------------------------------------------------------------------
(* Settings.                                                               *)

\* mutant: the value that arrives last wins.
TakeSetting(d, t) == setting' = [setting EXCEPT ![d] = t]

set_setting(d, t) == setting' = [setting EXCEPT ![d] = IF t > @ THEN t ELSE @]

Write(d, t) ==
  /\ Act /\ t \notin used /\ used' = used \cup {t}
  /\ set_setting(d, t)
  /\ UNCHANGED <<mobile, notes, tables, sessions, writes, deleted>>

\* Sent also if it was refused, as by update_setting of the mobile core.
SetState(d, t) ==
  /\ Write(d, t)
  /\ broadcast(d, [type |-> "SettingsUpdate", time |-> t])

UpdateSetting(d, t) ==
  /\ d \notin mobile /\ Write(d, t)
  /\ IF t > setting[d] THEN broadcast(d, [type |-> "SettingsUpdate", time |-> t])
                       ELSE UNCHANGED link

\* The mobile core has no handler for it.
SettingChanged(d, e) ==
  /\ Receives(d, e, "SettingsUpdate") /\ Take(d, e)
  /\ IF d \in mobile \/ LockedOut(d) THEN UNCHANGED setting
                                     ELSE set_setting(d, Head(link[e][d]).time)
  /\ UNCHANGED <<mobile, notes, tables, sessions, used, counts>>

-----------------------------------------------------------------------------
(* Notes.                                                                  *)

\* The changes of a document that do not wait for others they were made on.
Applied(cs, doc) == {v \in doc : cs[v].deps \subseteq doc}

\* A change is numbered after those it was made on, and among those of its number
\* by the actor of its document, which is random.
NewChange(text, deps) ==
  LET number(v) == changes[v].counter
      counter   == 1 + Max({0} \cup {number(v) : v \in deps}) IN
  /\ Len(changes) < MaxVersions
  /\ changes' = Append(changes, [text |-> text, deps |-> deps, counter |-> counter])
  /\ \E place \in 1..Len(order) + 1 :
       /\ \A i \in DOMAIN order : IF i < place THEN number(order[i]) <= counter
                                              ELSE number(order[i]) >= counter
       /\ order' = InsertAt(order, place, Len(changes'))

\* The first message has nothing for a device whose document is not known yet.
FirstMessage(doc) == [type |-> "NoteSync", doc |-> doc, news |-> {}]

SaveNote(d) ==
  /\ d \in mobile \/ ~LockedOut(d)
  /\ Act /\ writes < MaxWrites /\ writes' = writes + 1
  /\ NewChange(TRUE, Applied(changes, note[d]))
  /\ note' = [note EXCEPT ![d] = @ \cup {Len(changes')}]
  /\ broadcast(d, FirstMessage(Applied(changes', note'[d])))
  /\ UNCHANGED <<mobile, setting, tables, sessions, used, deleted>>

DeleteNote(d) ==
  /\ d \in mobile \/ ~LockedOut(d)
  /\ Act /\ note[d] # {} /\ deleted' = TRUE
  /\ note' = [note EXCEPT ![d] = {}]
  /\ broadcast(d, [type |-> "NoteDelete"])
  /\ UNCHANGED <<mobile, setting, changes, order, tables, sessions, used, writes>>

\* A device without the note makes a blank one of its own.  If both have the same
\* the library may reply or not.
ApplyNoteSync(d, e) ==
  LET m == Head(link[e][d]) IN
  /\ Receives(d, e, "NoteSync")
  /\ IF d \notin mobile /\ LockedOut(d) THEN Take(d, e) /\ UNCHANGED notes ELSE
     /\ IF note[d] = {} THEN /\ NewChange(FALSE, {})
                             /\ note' = [note EXCEPT ![d] = {Len(changes')} \cup m.news]
                        ELSE /\ UNCHANGED <<changes, order>>
                             /\ note' = [note EXCEPT ![d] = @ \cup m.news]
     /\ LET doc == Applied(changes', note'[d]) IN
        \/ link' = Sent(Taken(d, e), d, {e},
                        [type |-> "NoteSync", doc |-> doc, news |-> doc \ m.doc])
        \/ doc = m.doc /\ Take(d, e)
  /\ UNCHANGED <<mobile, setting, tables, sessions, used, counts>>

ApplyNoteDelete(d, e) ==
  /\ Receives(d, e, "NoteDelete") /\ Take(d, e)
  /\ note' = [note EXCEPT ![d] = IF d \notin mobile /\ LockedOut(d) THEN @ ELSE {}]
  /\ UNCHANGED <<mobile, setting, changes, order, tables, sessions, used, counts>>

-----------------------------------------------------------------------------
(* Revocation.                                                             *)

record_revoked_device(d, e) == revoked' = [revoked EXCEPT ![d] = @ \cup {e}]
remove_paired_device(d, e)  == paired' = [paired EXCEPT ![d] = @ \ {e}]
remove_peer(d, e)           == peers' = [peers EXCEPT ![d] = @ \ {e}]

\* mutant: the device stays in the map.
RecordOnly(d, e, links) ==
  /\ record_revoked_device(d, e) /\ remove_paired_device(d, e)
  /\ link' = Sent(links, d, Devices, [type |-> "DeviceRevocation", device |-> e])
  /\ UNCHANGED peers

\* Also the device that is revoked is told.  The session with it goes on: it has a
\* sender of its own.
RevokeOther(d, e, links) ==
  /\ record_revoked_device(d, e) /\ remove_paired_device(d, e)
  /\ link' = Sent(links, d, Devices, [type |-> "DeviceRevocation", device |-> e])
  /\ remove_peer(d, e)

\* The table is empty when the peers in it are to be removed from the map.
LockOut(d, links) ==
  /\ record_revoked_device(d, d)
  /\ paired' = [paired EXCEPT ![d] = {}]
  /\ link' = Sent(links, d, Devices, [type |-> "Disconnect"])
  /\ UNCHANGED peers

RevokeDevice(d, e) ==
  /\ e # d /\ Act
  /\ RevokeOther(d, e, link)
  /\ UNCHANGED <<mobile, setting, notes, phase, late, used, writes, deleted>>

\* The mobile core does not record it.
OnRevocation(d, x, links) ==
  /\ \/ /\ d \in mobile /\ remove_paired_device(d, x) /\ link' = links
        /\ UNCHANGED <<revoked, peers>>
     \/ d \notin mobile /\ x # d /\ RevokeOther(d, x, links)
     \/ d \notin mobile /\ x = d /\ LockOut(d, links)
  /\ UNCHANGED <<mobile, setting, notes, phase, late, used, writes, deleted>>

DeviceRevocation(d, e) ==
  /\ Receives(d, e, "DeviceRevocation")
  /\ OnRevocation(d, Head(link[e][d]).device, Taken(d, e))
  /\ UNCHANGED acts

\* A device that records a revocation posts it to the relay, which tells every device
\* at any time, the revoked one too; the gossip of libp2p carries it as well.
RelayedRevocation(d, x) ==
  /\ \E y \in Devices \ {x} : is_device_revoked(y, x)
  /\ Act
  /\ OnRevocation(d, x, link)

-----------------------------------------------------------------------------
(* Sessions: one at a time between two devices.                            *)

Becomes(p, s) == phase' = [phase EXCEPT ![p] = s]

\* Each looks whether the other is paired; the one that connects asks also for
\* revocations.  Who is in the map only keeps a device from connecting by itself.
Handshake(p) ==
  /\ phase[p] = "none" /\ Becomes(p, "opening")
  /\ \A d \in p : p \ {d} \subseteq paired[d]
  /\ \E d \in p : \A e \in p : ~is_device_revoked(d, e)
  /\ UNCHANGED <<mobile, setting, notes, tables, peers, late, link, used, counts>>

\* The device that connects stores the other again, which may undo that it was
\* removed since it confirmed.
add_paired_device(d, e) ==
  paired' = [paired EXCEPT ![d] = IF is_device_revoked(d, e) THEN @ ELSE @ \cup {e}]

\* Over TURN nobody reports PeerConnected.
Join(p, kind) ==
  /\ phase[p] = "opening" /\ Becomes(p, kind)
  /\ peers' = [d \in Devices |-> IF d \in p THEN peers[d] \cup (p \ {d}) ELSE peers[d]]
  /\ late' = late \cup {q \in p \X p : is_device_revoked(q[1], q[2])}
  /\ link' = [d \in Devices |-> [e \in Devices |->
       IF kind = "lan" /\ {d, e} = p THEN Append(link[d][e], PeerConnected) ELSE link[d][e]]]
  /\ UNCHANGED paired \/ \E d \in p : \E e \in p \ {d} : add_paired_device(d, e)
  /\ UNCHANGED <<mobile, setting, notes, revoked, used, counts>>

\* mutant: a setting that was never written is sent.
GreetWithNothing(d, e) ==
  LET settings == IF d \in mobile THEN Taken(d, e)
                  ELSE Sent(Taken(d, e), d, {e}, [type |-> "SettingsUpdate", time |-> setting[d]])
  IN
  /\ Receives(d, e, "PeerConnected")
  /\ link' = IF note[d] = {} THEN settings
             ELSE Sent(settings, d, {e}, FirstMessage(Applied(changes, note[d])))
  /\ UNCHANGED <<mobile, setting, notes, tables, sessions, used, counts>>

\* mutant: only the settings.
GreetWithSettings(d, e) ==
  /\ Receives(d, e, "PeerConnected")
  /\ link' = IF d \in mobile \/ setting[d] = 0 THEN Taken(d, e)
             ELSE Sent(Taken(d, e), d, {e}, [type |-> "SettingsUpdate", time |-> setting[d]])
  /\ UNCHANGED <<mobile, setting, notes, tables, sessions, used, counts>>

\* The notes, and on a computer before them the settings, for a new session.
Greet(d, e) ==
  LET settings == IF d \in mobile \/ setting[d] = 0 THEN Taken(d, e)
                  ELSE Sent(Taken(d, e), d, {e}, [type |-> "SettingsUpdate", time |-> setting[d]])
  IN
  /\ Receives(d, e, "PeerConnected")
  /\ link' = IF note[d] = {} THEN settings
             ELSE Sent(settings, d, {e}, FirstMessage(Applied(changes, note[d])))
  /\ UNCHANGED <<mobile, setting, notes, tables, sessions, used, counts>>

\* What may have been read when the session ends: Disconnect ends it.
Read(messages) ==
  {SubSeq(messages, 1, n) : n \in
    {k \in 0..Len(messages) : \A i \in DOMAIN messages :
       /\ i > k  => messages[i] # PeerConnected
       /\ i <= k => messages[i].type # "Disconnect"}}

\* Over the LAN an end whose write failed leaves its sender in the map, whatever the
\* write was of.
Break(d, e) ==
  /\ IsOpen({d, e}) /\ Becomes({d, e}, "none")
  /\ \/ \E a \in {d, e} : \E b \in {d, e} \ {a} : \E i \in DOMAIN link[a][b] :
            link[a][b][i].type = "Disconnect" /\ UNCHANGED acts
     \/ Act
  /\ \E to \in Read(link[d][e]), from \in Read(link[e][d]) :
       link' = [link EXCEPT ![d][e] = to, ![e][d] = from]
  /\ \E left \in IF phase[{d, e}] = "lan" THEN SUBSET {d, e} ELSE {{}} :
       peers' = [a \in Devices |-> IF a \in {d, e} \ left THEN peers[a] \ {d, e} ELSE peers[a]]
  /\ UNCHANGED <<mobile, setting, notes, tables, late, used, writes, deleted>>

-----------------------------------------------------------------------------
Next ==
  \/ \E d \in Devices :
       \/ \E t \in Times : SetState(d, t) \/ UpdateSetting(d, t)
       \/ SaveNote(d) \/ DeleteNote(d)
       \/ \E e \in Devices \ {d} :
            \/ SettingChanged(d, e) \/ ApplyNoteSync(d, e) \/ ApplyNoteDelete(d, e)
            \/ RevokeDevice(d, e) \/ DeviceRevocation(d, e)
            \/ Greet(d, e) \/ Break(d, e)
       \/ \E x \in Devices : RelayedRevocation(d, x)
  \/ \E p \in Pairs : Handshake(p) \/ \E kind \in {"lan", "turn"} : Join(p, kind)

Spec == Init /\ [][Next]_vars

-----------------------------------------------------------------------------
\* All devices are connected over the LAN, and each has the others in its map.
Connected ==
  /\ \A p \in Pairs : phase[p] = "lan"
  /\ \A d \in Devices : peers[d] = Devices \ {d}

\* Nothing is under way that its receiver has not, apart from messages that only
\* confirm what both have.
Quiet ==
  \A d, e \in Devices : \A i \in DOMAIN link[d][e] :
    LET m == link[d][e][i] IN m.type = "NoteSync" /\ m.doc = note[e] /\ m.news = {}

\* Computers that are connected and have nothing more to tell each other have the
\* same value of a setting, whatever was lost with the sessions that broke (lib.rs,
\* PeerConnected and SettingChanged).  No mobile device may be among them: what one
\* writes reaches those it is connected with at the time, and no others; and a device
\* that is told that it is revoked while a session opens hears nothing in it.
SettingsAgree ==
  mobile = {} /\ Connected /\ Quiet =>
    \A d, e \in Devices : LockedOut(d) \/ LockedOut(e) \/ setting[d] = setting[e]

\* A text that any device saved is part of the document of all, when they are
\* connected and quiet, no note was deleted and no device is locked out: no save is
\* lost (lib.rs, ApplyNoteSync).
WritesReachAll ==
  Connected /\ Quiet /\ ~deleted /\ (\A d \in Devices : ~LockedOut(d)) =>
    \A v \in DOMAIN changes : changes[v].text =>
      \A d \in Devices : v \in Applied(changes, note[d])

\* A device has one that it knows to be revoked in its map only when their session
\* was being opened as the revocation was recorded (lib.rs, RevokeDevice).
NothingForRevoked ==
  \A d \in Devices : \A e \in peers[d] \cap revoked[d] : <<d, e>> \in late

\* The change a document shows.
Shown(doc) == LET shown == SelectSeq(order, LAMBDA v : v \in doc) IN shown[Len(shown)]

\* All devices show the same text, under the conditions of WritesReachAll.
NotesConverge ==
  Connected /\ Quiet /\ ~deleted /\ changes # <<>> =>
    \A d, e \in Devices :
      Shown(Applied(changes, note[d])) = Shown(Applied(changes, note[e]))
=============================================================================
