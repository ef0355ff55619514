--------------------------- MODULE ListenerProofs ----------------------------
(***************************************************************************)
(* Theorems about grants and the threads that judge them, for any keys,    *)
(* window, skew of the clocks and number of grants and connections.        *)
(***************************************************************************)
EXTENDS Listener, SlotsProofs

USE KeysAssumption, ClockAssumption

\* Where each expiry comes from.
GrantsWellMinted == \A g \in grants : /\ g.exp = g.minted + g.lead + g.life
                                      /\ g.minted <= clock /\ g.life <= Window

\* What a thread holds until it has judged is a grant that was minted.
HeldWasMinted == \A c \in Conns : req[c].at \in {"key", "judge"} => req[c].grant \in grants

\* What Valid established when the grant was accepted.
AcceptedInWindow == \A x \in accepted : x.time < x.grant.exp /\ x.grant.exp <= x.time + Window

\* An old grant is not of the binding there is, nor of the one its thread has read.
Outdated(r, k) == r.old => r.grant.key # k /\ (r.at = "judge" => r.grant.key # r.key)
OldIsOutdated == \A c \in Conns : Outdated(req[c], key)

LInv == LTypeOK /\ GrantsWellMinted /\ HeldWasMinted /\ OldIsOutdated /\ AcceptedInWindow

\* Every step of the listener is a step of its slots or leaves them alone.
LEMMA StepIsSlots == [LNext]_lvars => [Next]_vars
<1> SUFFICES ASSUME [LNext]_lvars PROVE [Next]_vars
  OBVIOUS
<1>1. CASE AcceptStep
  BY <1>1 DEF AcceptStep, Next
<1>2. ASSUME NEW c \in Conns, Serve(c) PROVE [Next]_vars
  BY <1>2 DEF Serve, StartServing, AnswerPlain, ReadRequest, ReadKey, Judge, Open, HangUp,
       EndServing, To, Next
<1> QED
  BY <1>1, <1>2 DEF LNext, Tick, ChangeBinding, AdminMints, MintLocally, Minted, lvars

LEMMA SlotTypes == IInv /\ [LNext]_lvars => TypeOK'
  BY StepIsSlots, StepInv DEF IInv

LEMMA ListenerInit == LInit => LInv /\ IInv
<1> SUFFICES ASSUME LInit PROVE LInv
  BY InitInv DEF LInit
<1>1. TypeOK
  BY InitInv DEF LInit, IInv
<1>2. NoRequest \in Requests /\ NoRequest.at = "none" /\ ~NoRequest.old
  BY DEF NoRequest, NoGrant, Requests, Grants
<1>3. req \in [Conns -> Requests] /\ \A c \in Conns : req[c].at = "none" /\ ~req[c].old
  BY <1>2 DEF LInit
<1>4. LTypeOK
  BY <1>1, <1>3 DEF LInit, LTypeOK
<1> QED
  BY <1>3, <1>4 DEF LInit, LInv, GrantsWellMinted, HeldWasMinted, OldIsOutdated, Outdated, AcceptedInWindow

\* A grant that was just minted is well typed and well minted.
LEMMA MintedStep ==
  ASSUME LInv, TypeOK', NEW k \in Keys, NEW lead \in Int, NEW life \in 1 .. Window,
         Minted(Grant(k, lead, life))
  PROVE  LInv'
<1> DEFINE g == Grant(k, lead, life)
<1>1. g \in Grants /\ g.exp = g.minted + g.lead + g.life /\ g.minted = clock /\ g.life <= Window
  BY DEF Grant, Grants, LInv, LTypeOK
<1>2. grants' = grants \cup {g} /\ UNCHANGED <<clock, ahead, key, req, accepted>>
  BY DEF Minted
<1> HIDE DEF g
<1>3. LTypeOK'
  BY <1>1, <1>2 DEF LInv, LTypeOK
<1>4. GrantsWellMinted'
  BY <1>1, <1>2 DEF LInv, LTypeOK, GrantsWellMinted
<1>5. HeldWasMinted' /\ OldIsOutdated' /\ AcceptedInWindow'
  BY <1>2 DEF LInv, HeldWasMinted, OldIsOutdated, AcceptedInWindow
<1> QED
  BY <1>3, <1>4, <1>5 DEF LInv

\* A thread moves on with a request that is empty or holds a minted grant.
LEMMA BecomeStep ==
  ASSUME LInv, TypeOK', NEW c \in Conns, NEW r, Become(c, r),
         r \in Requests,
         r.at \in {"key", "judge"} => r.grant \in grants,
         Outdated(r, key)
  PROVE  /\ GrantsWellMinted' /\ HeldWasMinted' /\ OldIsOutdated'
         /\ accepted' = accepted => LInv'
<1> USE DEF LInv, Become
<1>1. GrantsWellMinted'
  BY DEF GrantsWellMinted
<1>2. HeldWasMinted' /\ OldIsOutdated'
  BY DEF HeldWasMinted, OldIsOutdated, LTypeOK
<1>3. ASSUME accepted' = accepted PROVE LTypeOK' /\ AcceptedInWindow'
  BY <1>3 DEF LTypeOK, AcceptedInWindow
<1> QED
  BY <1>1, <1>2, <1>3

\* To drops what the thread had read.
LEMMA ToStep ==
  ASSUME LInv, TypeOK', NEW c \in Conns, NEW s \in {"open", "stream", "done"}, To(c, s)
  PROVE  /\ GrantsWellMinted' /\ HeldWasMinted' /\ OldIsOutdated'
         /\ accepted' = accepted => LInv'
<1>1. [NoRequest EXCEPT !.at = s] \in Requests
  BY DEF NoRequest, NoGrant, Requests, Grants
<1>2. [NoRequest EXCEPT !.at = s].at \notin {"key", "judge"} /\ ~[NoRequest EXCEPT !.at = s].old
  BY DEF NoRequest
<1> QED
  BY <1>1, <1>2, BecomeStep DEF To, Requests, Outdated

LEMMA JudgeStep ==
  ASSUME LInv, TypeOK', NEW c \in Conns, Judge(c)
  PROVE  LInv'
<1>1. CASE ~Valid(req[c])
  BY <1>1, ToStep DEF Judge
<1>2. CASE Valid(req[c])
  <2> DEFINE x == [grant |-> req[c].grant, time |-> clock]
  <2>1. GrantsWellMinted' /\ HeldWasMinted' /\ OldIsOutdated'
    BY <1>2, ToStep DEF Judge
  <2>2. accepted' = accepted \cup {x}
    BY <1>2 DEF Judge
  <2>3. /\ x \in [grant : Grants, time : Nat]
        /\ x.time < x.grant.exp /\ x.grant.exp <= x.time + Window
    <3>1. req[c].grant \in Grants /\ clock \in Nat
      BY DEF LInv, LTypeOK, Requests
    <3> QED
      BY <1>2, <3>1 DEF Valid
  <2> HIDE DEF x
  <2>4. AcceptedInWindow'
    BY <2>2, <2>3 DEF LInv, AcceptedInWindow
  <2>5. /\ req' \in [Conns -> Requests]
        /\ UNCHANGED <<clock, ahead, key, grants>>
    <3>1. [NoRequest EXCEPT !.at = "open"] \in Requests
      BY DEF NoRequest, NoGrant, Requests, Grants
    <3>2. req \in [Conns -> Requests]
      BY DEF LInv, LTypeOK, Requests
    <3>3. Become(c, [NoRequest EXCEPT !.at = "open"])
      BY <1>2 DEF Judge, To
    <3> QED
      BY <3>1, <3>2, <3>3 DEF Become
  <2>6. LTypeOK'
    BY <2>2, <2>3, <2>5 DEF LInv, LTypeOK, Requests
  <2> QED
    BY <2>1, <2>4, <2>6 DEF LInv
<1> QED
  BY <1>1, <1>2

LEMMA ServeStep ==
  ASSUME LInv, TypeOK', NEW c \in Conns, Serve(c)
  PROVE  LInv'
<1>1. CASE StartServing(c)
  <2>1. [NoRequest EXCEPT !.at = "read"] \in Requests
    BY DEF NoRequest, NoGrant, Requests, Grants
  <2>2. [NoRequest EXCEPT !.at = "read"].at = "read" /\ ~[NoRequest EXCEPT !.at = "read"].old
    BY DEF NoRequest
  <2> QED
    BY <1>1, <2>1, <2>2, BecomeStep DEF StartServing, Requests, Outdated
<1>2. CASE AnswerPlain(c) \/ Open(c) \/ HangUp(c)
  BY <1>2, ToStep DEF AnswerPlain, Open, HangUp
<1>3. CASE ReadRequest(c)
  <2>1. PICK g \in grants, m \in BOOLEAN :
          Become(c, [at |-> "key", grant |-> g, matches |-> m, key |-> NoKey, old |-> g.key # key])
    BY <1>3 DEF ReadRequest
  <2> DEFINE r == [at |-> "key", grant |-> g, matches |-> m, key |-> NoKey, old |-> g.key # key]
  <2>2. r \in Requests
    BY DEF LInv, LTypeOK, Requests
  <2>3. r.at = "key" /\ r.grant \in grants /\ (r.old => r.grant.key # key)
    BY Zenon
  <2> HIDE DEF r
  <2>4. Outdated(r, key)
    BY <2>3 DEF Outdated
  <2>5. Become(c, r) /\ accepted' = accepted
    BY <1>3, <2>1 DEF ReadRequest, r
  <2> QED
    BY <2>2, <2>3, <2>4, <2>5, BecomeStep
<1>4. CASE ReadKey(c)
  <2>1. CASE key = NoKey
    BY <1>4, <2>1, ToStep DEF ReadKey
  <2>2. CASE key # NoKey
    <3> DEFINE r == [req[c] EXCEPT !.at = "judge", !.key = key]
    <3>1. r \in Requests /\ r.grant = req[c].grant
      BY DEF LInv, LTypeOK, Requests
    <3>2. req[c].grant \in grants
      BY <1>4 DEF ReadKey, At, LInv, HeldWasMinted
    <3>3. Become(c, r) /\ accepted' = accepted
      BY <1>4, <2>2 DEF ReadKey
    <3>4. Outdated(r, key)
      BY <3>1 DEF LInv, LTypeOK, Requests, OldIsOutdated, Outdated
    <3> QED
      BY <3>1, <3>2, <3>3, <3>4, BecomeStep DEF Requests
  <2> QED
    BY <2>1, <2>2
<1>5. CASE Judge(c)
  BY <1>5, JudgeStep
<1>6. CASE EndServing(c)
  <2>1. NoRequest \in Requests /\ NoRequest.at = "none" /\ ~NoRequest.old
    BY DEF NoRequest, NoGrant, Requests, Grants
  <2> QED
    BY <1>6, <2>1, BecomeStep DEF EndServing, Requests, Outdated
<1> QED
  BY <1>1, <1>2, <1>3, <1>4, <1>5, <1>6 DEF Serve

LEMMA ListenerStep == LInv /\ IInv /\ [LNext]_lvars => LInv'
<1> SUFFICES ASSUME LInv, IInv, [LNext]_lvars PROVE LInv'
  OBVIOUS
<1>0. TypeOK'
  BY SlotTypes
<1>1. CASE Tick
  <2>1. clock' = clock + 1 /\ clock' \in 0 .. Horizon /\ UNCHANGED <<ahead, key, grants, req, accepted>>
    BY <1>1 DEF Tick, LInv, LTypeOK
  <2>2. LTypeOK'
    BY <1>0, <2>1 DEF LInv, LTypeOK
  <2>3. GrantsWellMinted'
    <3>1. ASSUME NEW g \in grants PROVE g.minted \in Int /\ g.minted <= clock /\ clock \in Int
      BY <3>1 DEF LInv, LTypeOK, GrantsWellMinted, Grants, NoGrant
    <3>2. ASSUME NEW g \in grants PROVE g.minted <= clock + 1
      BY <3>1
    <3> QED
      BY <2>1, <3>2 DEF LInv, GrantsWellMinted
  <2>4. HeldWasMinted' /\ OldIsOutdated' /\ AcceptedInWindow'
    BY <2>1 DEF LInv, HeldWasMinted, OldIsOutdated, AcceptedInWindow
  <2> QED
    BY <2>2, <2>3, <2>4 DEF LInv
<1>2. CASE ChangeBinding
  <2> DEFINE next(c) == [req[c] EXCEPT !.old = @ /\ req[c].grant.key # key']
  <2>1. /\ req' = [c \in Conns |-> next(c)] /\ key' \in Keys \cup {NoKey}
        /\ UNCHANGED <<vars, clock, ahead, grants, accepted>>
    BY <1>2 DEF ChangeBinding
  <2>2. ASSUME NEW c \in Conns
        PROVE  /\ next(c) \in Requests /\ next(c).at = req[c].at /\ next(c).grant = req[c].grant
               /\ next(c).key = req[c].key
               /\ next(c).old => req[c].old /\ req[c].grant.key # key'
    BY DEF LInv, LTypeOK, Requests
  <2> HIDE DEF next
  <2>3. LTypeOK'
    BY <1>0, <2>1, <2>2 DEF LInv, LTypeOK
  <2>4. GrantsWellMinted' /\ HeldWasMinted' /\ AcceptedInWindow'
    BY <2>1, <2>2 DEF LInv, GrantsWellMinted, HeldWasMinted, AcceptedInWindow
  <2>5. OldIsOutdated'
    BY <2>1, <2>2 DEF LInv, OldIsOutdated, Outdated
  <2> QED
    BY <2>3, <2>4, <2>5 DEF LInv
<1>3. CASE AdminMints
  <2>1. ahead \in Int
    BY DEF LInv, LTypeOK
  <2> QED
    BY <1>0, <1>3, <2>1, MintedStep DEF AdminMints
<1>4. CASE MintLocally
  <2>1. key \in Keys
    BY <1>4 DEF MintLocally, LInv, LTypeOK
  <2> QED
    BY <1>0, <1>4, <2>1, MintedStep DEF MintLocally
<1>5. CASE AcceptStep \/ UNCHANGED lvars
  <2>1. UNCHANGED <<clock, ahead, key, grants, req, accepted>>
    BY <1>5 DEF AcceptStep, lvars, local
  <2>2. LTypeOK'
    BY <1>0, <2>1 DEF LInv, LTypeOK
  <2>3. GrantsWellMinted' /\ HeldWasMinted' /\ OldIsOutdated' /\ AcceptedInWindow'
    BY <2>1 DEF LInv, GrantsWellMinted, HeldWasMinted, OldIsOutdated, AcceptedInWindow
  <2> QED
    BY <2>2, <2>3 DEF LInv
<1>6. ASSUME NEW c \in Conns, Serve(c) PROVE LInv'
  BY <1>0, <1>6, ServeStep
<1> QED
  BY <1>1, <1>2, <1>3, <1>4, <1>5, <1>6 DEF LNext

LEMMA ListenerInv == LSpec => [](LInv /\ IInv)
<1>1. LInv /\ IInv /\ [LNext]_lvars => (LInv /\ IInv)'
  BY ListenerStep, StepIsSlots, StepInv
<1> QED
  BY <1>1, ListenerInit, PTL DEF LSpec

\* Requests, grants and changes of the binding do not disturb the slots: with them
\* the listener accepts, serves and releases as it does alone, so what is proved
\* of Spec holds with them (core.py:951-964, 998-1047).
THEOREM ListenerIsSlots == LSpec => Spec
<1>1. LInit => Init
  BY DEF LInit
<1> QED
  BY <1>1, StepIsSlots, PTL DEF LSpec, Spec

\* The types of the listener's state hold always (core.py:923-1047).
THEOREM ListenerTypes == LSpec => []LTypeOK
<1>1. LInv => LTypeOK
  BY DEF LInv
<1> QED
  BY <1>1, ListenerInv, PTL

\* The slots are accounted for also with what the threads do in between
\* (core.py:954-964, 998-1047).
THEOREM ListenerSlots == LSpec => []SlotsAccounted
<1>1. IInv => SlotsAccounted
  BY DEF IInv
<1> QED
  BY <1>1, ListenerInv, PTL

\* Two uses of a grant are less than one window apart, however the clocks of ADMIN
\* and the agent differ (core.py:941).
THEOREM ShortLived == LSpec => []GrantIsShortLived
<1>1. ASSUME LInv PROVE GrantIsShortLived
  <2> SUFFICES ASSUME NEW x \in accepted, NEW y \in accepted, x.grant = y.grant
               PROVE  x.time - y.time < Window
    BY DEF GrantIsShortLived
  <2>1. x.time < x.grant.exp /\ y.grant.exp <= y.time + Window
    BY <1>1 DEF LInv, AcceptedInWindow
  <2>2. x.time \in Int /\ y.time \in Int /\ x.grant.exp \in Int
    BY <1>1 DEF LInv, LTypeOK, Grants, NoGrant
  <2> QED
    BY <2>1, <2>2
<1> QED
  BY <1>1, ListenerInv, PTL

\* A step in which a thread that was about to judge has answered or gone on to the file
\* is its judgement.
LEMMA OnlyJudgeJudges ==
  ASSUME LInv, [LNext]_lvars, NEW c \in Conns, At(c, "judge"), req'[c].at # "judge"
  PROVE  Judge(c)
<1>1. ASSUME NEW d \in Conns, Serve(d), d # c PROVE FALSE
  BY <1>1 DEF Serve, StartServing, AnswerPlain, ReadRequest, ReadKey, Judge, Open, HangUp,
       EndServing, To, Become, At, LInv, LTypeOK
<1>2. ~ChangeBinding
  BY DEF ChangeBinding, At, LInv, LTypeOK, Requests
<1>3. Serve(c)
  BY <1>1, <1>2 DEF LNext, Tick, AdminMints, MintLocally, Minted, AcceptStep, local, lvars, At
<1> QED
  BY <1>3 DEF Serve, StartServing, StartThread, AnswerPlain, ReadRequest, ReadKey, Open,
       HangUp, EndServing, Step, At, LInv, LTypeOK

\* A grant is refused only because it expired, because the binding changed, or
\* because ADMIN's clock leads by more than the grant leaves of the window; and it is
\* accepted only with a key that state.json had held since the request was read
\* (core.py:909-943).
THEOREM JudgementHasReason == LSpec => JudgedForAReason
<1> DEFINE A == \A c \in Conns : At(c, "judge") =>
       LET g == req[c].grant IN
       /\ req'[c].at = "done" /\ req[c].matches =>
            \/ clock >= g.exp
            \/ g.key # req[c].key
            \/ g.lead > 0 /\ g.life > Window - g.lead
       /\ req'[c].at = "open" => ~req[c].old
<1>1. ASSUME LInv, [LNext]_lvars PROVE [A]_lvars
  <2>1. ASSUME NEW c \in Conns, At(c, "judge"), req'[c].at = "done", req[c].matches
        PROVE  LET g == req[c].grant IN
               \/ clock >= g.exp
               \/ g.key # req[c].key
               \/ g.lead > 0 /\ g.life > Window - g.lead
    <3>1. Judge(c)
      BY <1>1, <2>1, OnlyJudgeJudges
    <3>2. ~Valid(req[c])
      BY <1>1, <2>1, <3>1 DEF Judge, To, Become, NoRequest, At, LInv, LTypeOK
    <3> DEFINE g == req[c].grant
    <3>3. g \in grants
      BY <1>1, <2>1 DEF LInv, HeldWasMinted, At
    <3>4. /\ g.exp = g.minted + g.lead + g.life /\ g.minted <= clock /\ g.life <= Window
          /\ g.minted \in Int /\ g.lead \in Int /\ g.life \in Int /\ g.exp \in Int /\ clock \in Int
      BY <1>1, <3>3 DEF LInv, LTypeOK, GrantsWellMinted, Grants, NoGrant
    <3>5. clock >= g.exp \/ g.key # req[c].key \/ g.exp > clock + Window
      BY <2>1, <3>2, <3>4 DEF Valid
    <3> HIDE DEF g
    <3>6. g.exp > clock + Window => g.lead > 0 /\ g.life > Window - g.lead
      BY <3>4
    <3> QED
      BY <3>5, <3>6 DEF g
  <2>2. ASSUME NEW c \in Conns, At(c, "judge"), req'[c].at = "open"
        PROVE  ~req[c].old
    <3>1. Judge(c)
      BY <1>1, <2>2, OnlyJudgeJudges
    <3>2. Valid(req[c])
      BY <1>1, <2>2, <3>1 DEF Judge, To, Become, NoRequest, At, LInv, LTypeOK
    <3> QED
      BY <1>1, <2>2, <3>2 DEF Valid, At, LInv, OldIsOutdated, Outdated
  <2> QED
    BY <2>1, <2>2
<1> QED
  BY <1>1, ListenerInv, PTL DEF LSpec, JudgedForAReason
=============================================================================
