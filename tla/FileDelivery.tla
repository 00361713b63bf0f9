---------------------------- MODULE FileDelivery ----------------------------
(***************************************************************************)
(* What a file transfer promises, whatever the streams, retries and crashes*)
(* beneath it: the file appears at the receiver whole and unaltered or not *)
(* at all, stays as it was delivered, and the sender reports it complete   *)
(* only after that.                                                        *)
(***************************************************************************)
VARIABLES stored,  \* the delivered file: "absent" or "intact"
          known    \* the sender's record says complete

vars == <<stored, known>>

Init == stored = "absent" /\ known = FALSE

\* The receiver puts the file, or the same file again, in its place.
Store == stored' = "intact" /\ UNCHANGED known

Confirm == stored = "intact" /\ known' = TRUE /\ UNCHANGED stored

\* The user sends the file once more; the record is open again.
SendAgain == known' = FALSE /\ UNCHANGED stored

Next == Store \/ Confirm \/ SendAgain

Spec == Init /\ [][Next]_vars
=============================================================================
