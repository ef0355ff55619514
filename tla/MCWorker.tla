------------------------------ MODULE MCWorker ------------------------------
(* Instances of Worker for TLC.                                            *)
EXTENDS Worker

CONSTANTS i1, i2, i3, a1, a2, d1, d2

Render(i, a, r) == [id |-> i, type |-> "render", artifact |-> a, revision |-> r]
Invalidate(i, a, r) == [id |-> i, type |-> "invalidate", artifact |-> a, revision |-> r]

MCRevisions == {1, 2}

\* One artifact: two revisions of a PDF, its invalidation, a payload that
\* reuses a task id and a payload that is refused.
OneArtifact == {Render(i1, a1, 1), Render(i2, a1, 2), Invalidate(i3, a1, 1),
                Render(i1, a1, 2), Invalidate(i2, a1, 2)}
OneRefused == {Invalidate(i2, a1, 2)}

\* Two artifacts: a newer revision and two tasks that may come after it (stale or
\* not, as the order will have it), another payload under one of the ids, and a
\* payload that is refused.
TwoArtifacts == {Render(i1, a1, 2), Render(i2, a1, 1), Invalidate(i3, a1, 1),
                 Render(i3, a2, 1), Invalidate(i2, a2, 1)}
TwoRefused == {Invalidate(i2, a2, 1)}
=============================================================================
