------------------------------- MODULE Outbox --------------------------------
(***************************************************************************)
(* What the worker promises to ADMIN: one entry per task id.  A result is  *)
(* settled once, while no other waits to be heard; whatever ADMIN hears,   *)
(* at once or from a request that was long on the way, was settled for     *)
(* that task; an entry counts as delivered only when ADMIN has heard it,   *)
(* and only then it may be forgotten.                                      *)
(***************************************************************************)

CONSTANTS Ids, Results, None

VARIABLES entry,   \* the result of each task and whether it is delivered
          flying,  \* requests whose answer nobody waits for any more
          heard    \* the results ADMIN has accepted for each task

ovars == <<entry, flying, heard>>

Open == [state |-> "open", result |-> None]
Entry(s, r) == [state |-> s, result |-> r]
In(s) == {i \in Ids : entry[i].state = s}

Init == /\ entry = [i \in Ids |-> Open]
        /\ flying = {}
        /\ heard = [i \in Ids |-> {}]

Settle(i) == /\ i \in In("open") /\ In("settled") = {}
             /\ UNCHANGED <<flying, heard>>
             /\ \E r \in Results : entry' = [entry EXCEPT ![i] = Entry("settled", r)]

Send(i) == /\ i \notin In("open")
           /\ flying' = flying \cup {<<i, entry[i].result>>}
           /\ UNCHANGED <<entry, heard>>

Record(i, r) == heard' = [heard EXCEPT ![i] = @ \cup {r}] /\ UNCHANGED entry

Hear(i) == /\ i \notin In("open")
           /\ Record(i, entry[i].result) /\ UNCHANGED flying

HearLate == \E m \in flying : Record(m[1], m[2]) /\ flying' = flying \ {m}

Confirm(i) == /\ i \in In("settled") /\ entry[i].result \in heard[i]
              /\ entry' = [entry EXCEPT ![i].state = "delivered"]
              /\ UNCHANGED <<flying, heard>>

Forget == /\ \E old \in SUBSET In("delivered") :
               entry' = [i \in Ids |-> IF i \in old THEN Open ELSE entry[i]]
          /\ UNCHANGED <<flying, heard>>

Next == HearLate \/ Forget \/ \E i \in Ids : Settle(i) \/ Send(i) \/ Hear(i) \/ Confirm(i)

Spec == Init /\ [][Next]_ovars
=============================================================================
