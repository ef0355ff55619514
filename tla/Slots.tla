-------------------------------- MODULE Slots --------------------------------
(***************************************************************************)
(* The eight slots of the download listener (BoundedHTTPServer,            *)
(* core.py:951-964).  The accepting thread takes a slot without blocking   *)
(* and starts a thread that gives it back; a connection for which no slot  *)
(* is free is closed.  Starting a thread may fail (the unit sets TasksMax):*)
(* socketserver catches the exception and closes the connection.           *)
(***************************************************************************)
EXTENDS Naturals, FiniteSets

CONSTANTS
  Conns,      \* connections, reused once closed
  Slots,      \* 8 in the code
  MaxFailures \* bound on threads that cannot be started

ASSUME SlotsAssumption == Slots \in Nat \ {0} /\ MaxFailures \in Nat
ASSUME ConnsAssumption == IsFiniteSet(Conns)

VARIABLES
  conn,       \* the state of each connection
  free,       \* the counter of the semaphore
  failures    \* threads that could not be started

vars == <<conn, free, failures>>

Init == /\ conn = [c \in Conns |-> "closed"]
        /\ free = Slots
        /\ failures = 0

InState(s) == {c \in Conns : conn[c] = s}
Step(c, from, to) == conn[c] = from /\ conn' = [conn EXCEPT ![c] = to]

\* A client connects and waits in the listen queue.
Connect(c) == Step(c, "closed", "queued") /\ UNCHANGED <<free, failures>>

\* The accepting thread handles one connection at a time.
Accepting == InState("accepted") # {}

\* Mutant: a connection beyond the slots is neither served nor closed.
RefuseNever(c) == FALSE

RefuseFull(c) == /\ ~Accepting /\ free = 0
                 /\ Step(c, "queued", "closed")
                 /\ UNCHANGED <<free, failures>>

\* Mutant: a slot is taken although none is free.
AcceptUnbounded(c) == /\ ~Accepting
                      /\ Step(c, "queued", "accepted")
                      /\ free' = free - 1
                      /\ UNCHANGED failures

\* self._slots.acquire(blocking=False)
Accept(c) == /\ ~Accepting /\ free > 0
             /\ Step(c, "queued", "accepted")
             /\ free' = free - 1
             /\ UNCHANGED failures

\* super().process_request starts the thread.
StartThread(c) == Step(c, "accepted", "serving") /\ UNCHANGED <<free, failures>>

\* It cannot: handle_error and shutdown_request close the connection.
StartFails(c) == /\ failures < MaxFailures
                 /\ Step(c, "accepted", "closed")
                 /\ failures' = failures + 1
                 /\ UNCHANGED free

\* The request is over: a socket operation waits 15 seconds at most, and the
\* request line, the headers and the body are of limited length.
EndRequest(c) == Step(c, "serving", "ended") /\ UNCHANGED <<free, failures>>

\* Mutant: an ended request keeps its slot.
ReleaseNothing(c) == Step(c, "ended", "closed") /\ UNCHANGED <<free, failures>>

\* The finally of process_request_thread.
Release(c) == /\ Step(c, "ended", "closed")
              /\ free' = free + 1
              /\ UNCHANGED failures

Next == \E c \in Conns : \/ Connect(c) \/ RefuseFull(c) \/ Accept(c) \/ StartThread(c)
                         \/ StartFails(c) \/ EndRequest(c) \/ Release(c)

Spec == Init /\ [][Next]_vars

(* The accepting thread and the handler threads run, requests end.         *)
Fairness == \A c \in Conns :
              /\ SF_vars(RefuseFull(c) \/ Accept(c))
              /\ WF_vars(StartThread(c)) /\ WF_vars(EndRequest(c)) /\ WF_vars(Release(c))

FairSpec == Spec /\ Fairness

-----------------------------------------------------------------------------
(* Properties.                                                             *)

TypeOK == /\ conn \in [Conns -> {"closed", "queued", "accepted", "serving", "ended"}]
          /\ free \in Nat
          /\ failures \in 0 .. MaxFailures

Holding == InState("accepted") \cup InState("serving") \cup InState("ended")

\* Every slot is free, held by one connection, or lost to one thread that could
\* not be started: nothing else takes a slot away or gives one twice, so a
\* listener that has met k failed starts serves 8 - k at a time (core.py:954-964).
SlotsAccounted == free + Cardinality(Holding) + failures = Slots

\* Whoever connects is served or refused, and unless every slot was lost to a
\* failed start, slots come back again and again (core.py:955-964).
ConnectionsEnd == \A c \in Conns : conn[c] = "queued" ~> conn[c] = "closed"
SlotsComeBack == []<>(free > 0 \/ failures >= Slots)
=============================================================================
