------------------------------- MODULE Readers -------------------------------
(***************************************************************************)
(* What the listener promises to whoever downloads, over the worker's      *)
(* shelf: a request takes effect at one moment between its start and its   *)
(* answer.  What it is served is the PDF the shelf showed at that moment,  *)
(* whole; when it is sent away, there was a moment at which the shelf did  *)
(* not show what it was after, or the PDF was lost to a power failure.     *)
(***************************************************************************)
EXTENDS Shelf

CONSTANT Handlers

VARIABLES reader,   \* the request each handler works on
          lost,     \* the PDFs a power failure has destroyed
          up        \* the listener runs

rvars == <<shelf, reader, lost, up>>

Request(at, a, r, c) == [at |-> at, artifact |-> a, revision |-> r, content |-> c]
Idle == Request("idle", None, 0, None)

RInit == Init /\ reader = [h \in Handlers |-> Idle] /\ lost = {} /\ ~up

Turn(h, next) == reader' = [reader EXCEPT ![h] = next] /\ UNCHANGED <<shelf, lost, up>>

Ask(h, a, r) == up /\ reader[h].at = "idle" /\ Turn(h, Request("asked", a, r, None))

Advance(h, at, c) == Turn(h, Request(at, reader[h].artifact, reader[h].revision, c))

Shows(h) == Showing(reader[h].artifact, reader[h].revision)

\* The moment the request takes effect.
Find(h) == /\ reader[h].at = "asked" /\ Shows(h)
           /\ Advance(h, "found", shelf[reader[h].artifact].content)

Miss(h) == /\ reader[h].at = "asked" /\ ~Shows(h)
           /\ Turn(h, Idle)

\* What was found has been superseded or withdrawn since, or it was lost.
Drop(h) == /\ reader[h].at = "found"
           /\ \/ ~(Shows(h) /\ shelf[reader[h].artifact].content = reader[h].content)
              \/ <<reader[h].artifact, reader[h].revision>> \in lost
           /\ Turn(h, Idle)

Serve(h) == reader[h].at = "found" /\ Advance(h, "serving", reader[h].content)

End(h) == reader[h].at = "serving" /\ Turn(h, Idle)

Reads(h) == \/ \E a \in Artifacts, r \in Revisions : Ask(h, a, r)
            \/ Find(h) \/ Miss(h) \/ Drop(h) \/ Serve(h) \/ End(h)

Change == Next /\ UNCHANGED <<reader, lost, up>>

\* A lost PDF is written anew or removed, but never under a slot that shows it.
Mend == /\ lost' \subseteq lost
        /\ \A f \in lost \ lost' : ~Showing(f[1], f[2])
        /\ UNCHANGED <<shelf, reader, up>>

Boot == ~up /\ up' /\ UNCHANGED <<shelf, reader, lost>>

\* The process ends, and with the machine's power PDFs may be lost.
Cut == /\ ~up' /\ reader' = [h \in Handlers |-> Idle]
       /\ lost \subseteq lost' /\ UNCHANGED shelf

RNext == Change \/ Mend \/ Boot \/ Cut \/ \E h \in Handlers : Reads(h)

RSpec == RInit /\ [][RNext]_rvars
=============================================================================
