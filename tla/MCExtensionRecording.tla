------------------------ MODULE MCExtensionRecording ------------------------
(***************************************************************************)
(* An instance of ExtensionRecording for TLC: two windows, two recordings. *)
(***************************************************************************)
EXTENDS ExtensionRecording, TLC

CONSTANTS p1, p2

Windows == {p1, p2}
Both == {"microphone", "tab"}
=============================================================================
