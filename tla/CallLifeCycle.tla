--------------------------- MODULE CallLifeCycle ---------------------------
(***************************************************************************)
(* What a Call promises about its lifecycle, whatever happens inside it    *)
(* (call.h: the call never goes backward, there is no way back from        *)
(* FINISHED): the phase only advances, and the two audio media of the call *)
(* exist exactly while the peers communicate.                              *)
(***************************************************************************)
EXTENDS Naturals

VARIABLES phase, audio

Rank(p) ==
  CASE p = "CREATION" -> 0 [] p = "INITIALIZATION" -> 1 [] p = "PROGRESS" -> 2 [] OTHER -> 3

Init ==
  /\ phase \in {"CREATION", "INITIALIZATION", "PROGRESS", "FINISHED"}
  /\ audio = (phase = "PROGRESS")

Advance ==
  /\ phase' \in {"INITIALIZATION", "PROGRESS", "FINISHED"}
  /\ Rank(phase') > Rank(phase)
  /\ audio' = (phase' = "PROGRESS")

Spec == Init /\ [][Advance]_<<phase, audio>>
=============================================================================
