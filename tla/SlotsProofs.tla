----------------------------- MODULE SlotsProofs -----------------------------
(***************************************************************************)
(* Theorems about the listener's slots for any number of slots, clients    *)
(* and threads that cannot be started.                                     *)
(***************************************************************************)
EXTENDS Slots, FiniteSetTheorems, TLAPS

USE SlotsAssumption, ConnsAssumption

IInv == TypeOK /\ SlotsAccounted

\* The connections that hold a slot are finitely many.
LEMMA HoldingFinite == TypeOK => IsFiniteSet(Holding) /\ Cardinality(Holding) \in Nat
<1> SUFFICES ASSUME TypeOK PROVE IsFiniteSet(Holding)
  BY FS_CardinalityType
<1>1. Holding \subseteq Conns
  BY DEF Holding, InState
<1> QED
  BY <1>1, FS_Subset

\* What a connection's step does to the set of holders.
LEMMA HoldingStep ==
  ASSUME TypeOK, NEW c \in Conns, NEW from, NEW to, Step(c, from, to)
  PROVE  Holding' = IF to \in {"accepted", "serving", "ended"}
                    THEN Holding \cup {c} ELSE Holding \ {c}
  BY DEF TypeOK, Step, Holding, InState

LEMMA InitInv == Init => IInv
<1> SUFFICES ASSUME Init PROVE IInv
  OBVIOUS
<1>1. Holding = {}
  BY DEF Init, Holding, InState
<1>2. Cardinality(Holding) = 0
  BY <1>1, FS_EmptySet
<1> QED
  BY <1>2 DEF Init, IInv, TypeOK, SlotsAccounted

LEMMA StepInv == IInv /\ [Next]_vars => IInv'
<1> SUFFICES ASSUME IInv, [Next]_vars PROVE IInv'
  OBVIOUS
<1> USE DEF IInv
<1> USE HoldingFinite
<1>1. ASSUME NEW c \in Conns, Connect(c) \/ RefuseFull(c) PROVE IInv'
  <2>1. c \notin Holding /\ Holding' = Holding \ {c}
    BY <1>1, HoldingStep DEF Connect, RefuseFull, Step, Holding, InState
  <2>2. Holding' = Holding
    BY <2>1
  <2> QED
    BY <1>1, <2>2 DEF Connect, RefuseFull, Step, TypeOK, SlotsAccounted
<1>2. ASSUME NEW c \in Conns, Accept(c) PROVE IInv'
  <2>1. c \notin Holding /\ Holding' = Holding \cup {c}
    BY <1>2, HoldingStep DEF Accept, Step, Holding, InState
  <2>2. Cardinality(Holding') = Cardinality(Holding) + 1
    BY <2>1, FS_AddElement
  <2> QED
    BY <1>2, <2>2 DEF Accept, Step, TypeOK, SlotsAccounted
<1>3. ASSUME NEW c \in Conns, StartThread(c) \/ EndRequest(c) PROVE IInv'
  <2>1. c \in Holding /\ Holding' = Holding \cup {c}
    BY <1>3, HoldingStep DEF StartThread, EndRequest, Step, Holding, InState
  <2>2. Holding' = Holding
    BY <2>1
  <2> QED
    BY <1>3, <2>2 DEF StartThread, EndRequest, Step, TypeOK, SlotsAccounted
<1>4. ASSUME NEW c \in Conns, StartFails(c) PROVE IInv'
  <2>1. c \in Holding /\ Holding' = Holding \ {c}
    BY <1>4, HoldingStep DEF StartFails, Step, Holding, InState
  <2>2. Cardinality(Holding') = Cardinality(Holding) - 1
    BY <2>1, FS_RemoveElement
  <2> QED
    BY <1>4, <2>2 DEF StartFails, Step, TypeOK, SlotsAccounted
<1>5. ASSUME NEW c \in Conns, Release(c) PROVE IInv'
  <2>1. c \in Holding /\ Holding' = Holding \ {c}
    BY <1>5, HoldingStep DEF Release, Step, Holding, InState
  <2>2. Cardinality(Holding') = Cardinality(Holding) - 1
    BY <2>1, FS_RemoveElement
  <2> QED
    BY <1>5, <2>2 DEF Release, Step, TypeOK, SlotsAccounted
<1>6. CASE UNCHANGED vars
  BY <1>6 DEF vars, TypeOK, SlotsAccounted, Holding, InState
<1> QED
  BY <1>1, <1>2, <1>3, <1>4, <1>5, <1>6 DEF Next

\* A slot is free, held by one connection, or lost to one thread that could not
\* be started, whatever the order in which connections come and end
\* (core.py:954-964).
THEOREM SlotsNeverLeak == Spec => []SlotsAccounted
<1>1. IInv => SlotsAccounted
  BY DEF IInv
<1> QED
  BY <1>1, InitInv, StepInv, PTL DEF Spec
=============================================================================
