--------------------------- MODULE MCFileTransfer ---------------------------
(***************************************************************************)
(* The instances of FileTransfer that TLC checks: the misfortunes each     *)
(* configuration lets the environment produce.                             *)
(***************************************************************************)
EXTENDS FileTransfer

OneByOne    == FaultKinds \ {"overlap", "sweep"}
Overlapping == {"overlap", "timeout", "cancel", "sweep"}
=============================================================================
