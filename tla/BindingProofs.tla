---------------------------- MODULE BindingProofs ----------------------------
(***************************************************************************)
(* Theorems about the credential for any number of credentials and faults. *)
(***************************************************************************)
EXTENDS Binding, TLAPS

USE CredsAssumption, BoundAssumption

LEMMA FaultTypes == faults \in 0 .. MaxFaults /\ Fault => faults' \in 0 .. MaxFaults
  BY DEF Fault

\* Which credentials the processes can hold: issued ones.  A POST in flight
\* carries one; a rejection that is ADMIN's names one that is not active, and because
\* a credential is issued at most once it never becomes active again.  Only a 401 can
\* be somebody else's.
CredInv ==
  /\ file \in issued \cup {None} /\ bcred \in issued \cup {None}
  /\ bpc = "accepted" => bcred \in issued
  /\ wpc \in {"cycle", "sent", "answered"} => wcred \in issued
  /\ wpc \in {"sent", "answered", "clear"} => wtoken \in issued
  /\ wpc = "clear" \/ (wpc = "answered" /\ wanswer \in {"401", "conflict"})
       => wtoken # active \/ spoof
  /\ proc # "up" => wpc = "idle"

IInv == TypeOK /\ CredInv /\ OnlyRejectionStops /\ RefusedBindKeepsBinding

\* What post() makes of each kind of answer: of a foreign one the status decides.
LEMMA ForeignByStatus ==
  \A r \in Foreign : Classify(r) = IF r.status = 401 THEN "401" ELSE "retry"
<1> SUFFICES ASSUME NEW r \in Responses,
                    r.ok => r.status # 200 \/ r.body # "object",
                    \/ r.body # "object"
                    \/ "other" \in {r.code, r.nested}
                    \/ r.code = "absent" /\ r.nested = "absent"
             PROVE  Classify(r) = IF r.status = 401 THEN "401" ELSE "retry"
  BY DEF Foreign
<1>1. ~NamesConflict(r)
  BY DEF NamesConflict
<1> QED
  BY <1>1 DEF Classify

LEMMA OwnAnswers == /\ Classify(Accepted) = "ok"
                    /\ Classify(Rejected) = "401"
                    /\ \A r \in BoundElsewhere : Classify(r) = "conflict"
<1>1. ASSUME NEW r \in BoundElsewhere PROVE Classify(r) = "conflict"
  <2>1. r.status = 409 /\ r.body = "object"
    BY DEF BoundElsewhere, Answer
  <2>2. {r.code, r.nested} \ {"absent"} = {"pdf_agent_already_bound"}
    BY DEF BoundElsewhere, Answer
  <2> QED
    BY <2>1, <2>2 DEF Classify, NamesConflict
<1> QED
  BY <1>1 DEF Classify, Accepted, Rejected, Answer

LEMMA InitInv == Init => IInv
<1> SUFFICES ASSUME Init PROVE IInv
  OBVIOUS
<1>1. faults \in 0 .. MaxFaults
  BY DEF Init
<1>2. TypeOK
  BY <1>1, Zenon DEF Init, TypeOK, CredOrNone
<1>3. CredInv /\ OnlyRejectionStops /\ RefusedBindKeepsBinding
  BY DEF Init, CredInv, OnlyRejectionStops, RefusedBindKeepsBinding
<1> QED
  BY <1>2, <1>3 DEF IInv

\* Every action of the service and of ADMIN's answers to it.
LEMMA RunStep == IInv /\ Run => IInv'
<1> SUFFICES ASSUME IInv, Run PROVE IInv'
  OBVIOUS
<1> USE DEF IInv, TypeOK, CredInv, CredOrNone, OnlyRejectionStops, RefusedBindKeepsBinding, Running, binder, admin
<1>1. CASE BeginCycle
  BY <1>1 DEF BeginCycle
<1>2. CASE LeaveLoop
  BY <1>2 DEF LeaveLoop
<1>3. CASE SendControl
  BY <1>3 DEF SendControl
<1>4. CASE SendComplete
  BY <1>4 DEF SendComplete
<1>5. CASE EndCycle
  BY <1>5 DEF EndCycle
<1>6. CASE AdminAnswers
  <2>1. \/ wtoken = active /\ wanswer' = "ok"
        \/ wtoken # active /\ wanswer' \in {"401", "conflict"}
    BY <1>6, OwnAnswers DEF AdminAnswers, Receive
  <2>2. wpc' = "answered" /\ spoof' \in BOOLEAN
    BY <1>6 DEF AdminAnswers, Receive
  <2>3. UNCHANGED <<file, proc, listening, stopAsked, wcred, wtoken, restarting, binder, admin, faults>>
    BY <1>6 DEF AdminAnswers
  <2>4. wpc \in {"sent"}
    BY <1>6 DEF AdminAnswers
  <2>5. TypeOK'
    BY <2>1, <2>2, <2>3
  <2>6. CredInv'
    BY <2>1, <2>2, <2>3, <2>4
  <2> QED
    BY <2>2, <2>3, <2>5, <2>6
<1>7. CASE EdgeAnswers
  <2>1. PICK r \in Foreign : Receive(r) /\ spoof' = (r.status = 401)
    BY <1>7 DEF EdgeAnswers
  <2>2. spoof' \in BOOLEAN /\ (r.status = 401 => spoof')
    BY <2>1, Zenon
  <2>3. /\ wanswer' \in {"401", "retry"} /\ wpc' = "answered"
        /\ wanswer' = "401" => r.status = 401
    BY <2>1, ForeignByStatus DEF Receive
  <2>4. UNCHANGED <<file, proc, listening, stopAsked, wcred, wtoken, restarting, binder, admin>>
    BY <1>7 DEF EdgeAnswers
  <2>5. wpc = "sent" /\ faults' \in 0 .. MaxFaults
    BY <1>7, FaultTypes DEF EdgeAnswers
  <2>6. TypeOK'
    BY <2>2, <2>3, <2>4, <2>5
  <2>7. CredInv'
    BY <2>2, <2>3, <2>4, <2>5
  <2> QED
    BY <2>3, <2>4, <2>6, <2>7
<1>8. CASE HandleOk \/ HandleRetry \/ Handle401 \/ HandleConflict
  <2>1. wpc = "answered" /\ spoof' \in BOOLEAN
    BY <1>8 DEF HandleOk, HandleRetry, Handle401, HandleConflict
  <2>2. UNCHANGED <<file, proc, listening, stopAsked, wtoken, restarting, binder, admin, faults>>
    BY <1>8 DEF HandleOk, HandleRetry, Handle401, HandleConflict
  <2>3. CASE HandleOk \/ HandleRetry
    BY <2>1, <2>2, <2>3 DEF HandleOk, HandleRetry
  <2>4. CASE Handle401 \/ HandleConflict
    BY <2>1, <2>2, <2>4 DEF Handle401, HandleConflict
  <2> QED
    BY <1>8, <2>3, <2>4
<1>9. CASE ClearBinding
  BY <1>9 DEF ClearBinding
<1>10. CASE ClearFails
  BY <1>10, FaultTypes DEF ClearFails
<1>11. CASE CloseAndExit
  BY <1>11 DEF CloseAndExit, Gone
<1>12. CASE Kill
  BY <1>12, FaultTypes DEF Kill, Gone
<1>13. CASE SystemdRestarts
  BY <1>13 DEF SystemdRestarts, Boot
<1> QED
  BY <1>1, <1>2, <1>3, <1>4, <1>5, <1>6, <1>7, <1>8, <1>9, <1>10, <1>11, <1>12, <1>13
  DEF Run, Post, Handle

\* Every action of bind.sh.
LEMMA BindStep == IInv /\ BindCli => IInv'
<1> SUFFICES ASSUME IInv, BindCli PROVE IInv'
  OBVIOUS
<1> USE DEF IInv, TypeOK, CredInv, CredOrNone, OnlyRejectionStops, RefusedBindKeepsBinding, worker, admin, BindDone
<1>1. ASSUME NEW replace \in BOOLEAN, BindStart(replace) PROVE IInv'
  BY <1>1 DEF BindStart
<1>2. CASE AdminBinds
  <2>1. PICK c \in Creds \ issued : active' = c /\ issued' = issued \cup {c} /\ bcred' = c
    BY <1>2 DEF AdminBinds
  <2>2. c # wtoken \/ wpc \notin {"sent", "answered", "clear"}
    BY <2>1
  <2> QED
    BY <1>2, <2>1, <2>2 DEF AdminBinds
<1>3. CASE AdminRefusesBind
  BY <1>3 DEF AdminRefusesBind
<1>4. CASE BindDies
  BY <1>4, FaultTypes DEF BindDies
<1>5. CASE WriteBinding
  BY <1>5 DEF WriteBinding
<1>6. CASE StopOld
  BY <1>6 DEF StopOld
<1>7. CASE StartNew
  BY <1>7 DEF StartNew, Boot
<1>8. CASE SucceedUnchecked \/ FindState \/ HealthFails
  BY <1>8 DEF SucceedUnchecked, FindState, HealthFails
<1>9. CASE CheckOk \/ CheckFails
  BY <1>9 DEF CheckOk, CheckFails
<1> QED
  BY <1>1, <1>2, <1>3, <1>4, <1>5, <1>6, <1>7, <1>8, <1>9 DEF BindCli

LEMMA StepInv == IInv /\ [Next]_vars => IInv'
<1> SUFFICES ASSUME IInv, [Next]_vars PROVE IInv'
  OBVIOUS
<1>1. CASE Run
  BY <1>1, RunStep
<1>2. CASE BindCli
  BY <1>2, BindStep
<1>3. CASE Reboot
  BY <1>3, FaultTypes
  DEF Reboot, Boot, BindDone, admin, IInv, TypeOK, CredInv, CredOrNone, OnlyRejectionStops, RefusedBindKeepsBinding
<1>4. CASE AdminRevokes
  <2>1. wpc \in {"sent", "answered", "clear"} => wtoken # None
    BY DEF IInv, TypeOK, CredInv
  <2> QED
    BY <1>4, <2>1
    DEF AdminRevokes, worker, binder, IInv, TypeOK, CredInv, CredOrNone, OnlyRejectionStops, RefusedBindKeepsBinding
<1>5. CASE UNCHANGED vars
  BY <1>5
  DEF vars, worker, binder, admin, IInv, TypeOK, CredInv, CredOrNone, OnlyRejectionStops, RefusedBindKeepsBinding
<1> QED
  BY <1>1, <1>2, <1>3, <1>4, <1>5 DEF Next

LEMMA Invariance == Spec => []IInv
  BY InitInv, StepInv, PTL DEF Spec

\* The type invariant of state.json, the service, bind.sh and ADMIN's slot
\* (core.py:774-794, 876-907).
THEOREM BindingTypes == Spec => []TypeOK
<1>1. IInv => TypeOK
  BY DEF IInv
<1> QED
  BY <1>1, Invariance, PTL

\* Whatever is lost, refused, killed or rebooted, and whatever a gateway answers but a
\* 401, clear_binding runs only after ADMIN has rejected a credential it had issued
\* and that is not active any more (core.py:534-561, 880-903).
THEOREM RevocationOnly == Spec => []OnlyRevocationClears
<1>1. IInv => OnlyRevocationClears
  BY DEF IInv, CredInv, OnlyRevocationClears
<1> QED
  BY <1>1, Invariance, PTL

\* The worker ends with exit 0 only on a SIGTERM, on ADMIN's word about a credential
\* that is not active any more, or on a 401 that somebody else answered: nothing else
\* a gateway answers has this effect (core.py:534-561, 879-893).
THEOREM StopsForReason == Spec => []OnlyRejectionStops
<1>1. IInv => OnlyRejectionStops
  BY DEF IInv
<1> QED
  BY <1>1, Invariance, PTL

\* A bind that is in doubt or refused does not touch the local binding
\* (core.py:775-793).
THEOREM BindInDoubt == Spec => []RefusedBindKeepsBinding
<1>1. IInv => RefusedBindKeepsBinding
  BY DEF IInv
<1> QED
  BY <1>1, Invariance, PTL
=============================================================================
