---------------------------- MODULE RelayNetwork ----------------------------
(***************************************************************************)
(* What the relay promises to the agents that pair through it: a signal    *)
(* reaches the device it is for once, or never.  Signals may overtake each *)
(* other.                                                                  *)
(***************************************************************************)
EXTENDS Sequences, SequencesExt

CONSTANTS Devices, Signals

VARIABLES
  sent,  \* the signals that an agent has put into its queue
  got    \* those that the agent of a device was handed, in their order

Init == sent = {} /\ got = [d \in Devices |-> <<>>]

Send == \E m \in Signals \ sent : sent' = sent \cup {m} /\ UNCHANGED got

Deliver ==
  \E m \in sent :
    /\ ~Contains(got[m.to], m)
    /\ got' = [got EXCEPT ![m.to] = Append(@, m)]
    /\ UNCHANGED sent

Spec == Init /\ [][Send \/ Deliver]_<<sent, got>>
=============================================================================
