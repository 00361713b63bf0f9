-------------------------- MODULE MCClipboardSync --------------------------
(***************************************************************************)
(* The instance of ClipboardSync that TLC checks: two devices and two      *)
(* sync sessions between them; a text, and an image too long to be sent.   *)
(***************************************************************************)
EXTENDS ClipboardSync, TLC

CONSTANTS d1, d2, text, image, s1, s2

Two    == {d1, d2}
Copied == {text, image}
Images == {image}
TwoSessions == {s1, s2}
Between == [s \in Sessions |-> {d1, d2}]
Alike == Permutations(Two) \cup Permutations(TwoSessions)
=============================================================================
