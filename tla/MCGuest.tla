------------------------------- MODULE MCGuest -------------------------------
(***************************************************************************)
(* The programs in the guest that use the shim's libraries, one of which   *)
(* runs: the HMI, with libGLESv2 and libEGL (GlBindings), or the display   *)
(* probe, with libscreen (DiagFrames).  The two do not share state.        *)
(***************************************************************************)
EXTENDS GlBindings, DiagFrames, TLC

VARIABLE runs

Init == GlInit /\ DfInit /\ runs \in {"hmi", "probe"}
Next ==
  /\ UNCHANGED runs
  /\ \/ runs = "hmi" /\ GlNext /\ UNCHANGED dfvars
     \/ runs = "probe" /\ DfNext /\ UNCHANGED glvars
Spec == Init /\ [][Next]_<<glvars, dfvars, runs>>

Interchangeable ==
  Permutations(Threads) \cup Permutations(Contexts) \cup Permutations(Buffers) \cup Permutations(Windows)
=============================================================================
