----------------------------- MODULE MCDownload -----------------------------
(* Instances of Download for TLC.                                          *)
EXTENDS Download

CONSTANTS i1, i2, i3, i4, a1, d1, d2, h1

Render(i, a, r) == [id |-> i, type |-> "render", artifact |-> a, revision |-> r]
Invalidate(i, a, r) == [id |-> i, type |-> "invalidate", artifact |-> a, revision |-> r]

MCRevisions == {1, 2}

\* A PDF is published, invalidated and published again under its revision, and
\* superseded by the next one.
Republished == {Render(i1, a1, 1), Invalidate(i2, a1, 1), Render(i3, a1, 1), Render(i4, a1, 2)}
NoTasks == {}
=============================================================================
