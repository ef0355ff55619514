-------------------------------- MODULE Call --------------------------------
(***************************************************************************)
(* What a call of the renderer promises to the worker that makes it: the   *)
(* artifact file changes in the one step in which the call succeeds.  A    *)
(* call that fails leaves it alone, and so does everything that still runs *)
(* after the caller has died.                                              *)
(***************************************************************************)
VARIABLES file,      \* the artifact file: as before the call, or the new PDF
          outcome    \* what the call has come to

Init == file = "old" /\ outcome = "open"

Succeed == outcome = "open" /\ outcome' = "ok" /\ file' = "new"

Fail == outcome = "open" /\ outcome' = "failed" /\ UNCHANGED file

\* The caller dies, before or after the step that decides, and never learns it.
Lose == outcome # "lost" /\ outcome' = "lost" /\ UNCHANGED file

Next == Succeed \/ Fail \/ Lose

Spec == Init /\ [][Next]_<<file, outcome>>
=============================================================================
