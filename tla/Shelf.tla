-------------------------------- MODULE Shelf --------------------------------
(***************************************************************************)
(* What the worker promises to whoever downloads: one slot per artifact.   *)
(* A slot shows the PDF of one revision or nothing.  In one step a slot    *)
(* gets a revision that is no older than the one it had, never a new PDF   *)
(* for a revision it is already showing, and in one step it is withdrawn.  *)
(* Between these steps nothing changes what is shown, not a crash either.  *)
(***************************************************************************)
EXTENDS Naturals

CONSTANTS Artifacts, Revisions, Digests, None

VARIABLE shelf

Showing(a, r) == shelf[a].status = "ready" /\ shelf[a].revision = r

Init == shelf = [a \in Artifacts |->
                   [status |-> "absent", revision |-> 0, content |-> None]]

Publish(a, r, d) == /\ shelf[a].revision <= r
                    /\ ~Showing(a, r)
                    /\ shelf' = [shelf EXCEPT ![a] =
                         [status |-> "ready", revision |-> r, content |-> d]]

Withdraw(a, r) == /\ shelf[a].revision <= r
                  /\ shelf' = [shelf EXCEPT ![a] =
                       [status |-> "revoked", revision |-> r, content |-> None]]

Next == \E a \in Artifacts, r \in Revisions :
          \/ \E d \in Digests : Publish(a, r, d)
          \/ Withdraw(a, r)

Spec == Init /\ [][Next]_shelf
=============================================================================
