------------------------------ MODULE Listener -------------------------------
(***************************************************************************)
(* The threads that hold the slots of module Slots: _serve                 *)
(* (core.py:998-1047) up to the opening of the file, which is module       *)
(* Download's matter.  A request carries a grant that ADMIN minted by its  *)
(* own clock and with the key of its binding; verify_download_grant        *)
(* (core.py:923-943) reads the key of state.json, which bind and           *)
(* clear_binding change meanwhile, and then the agent's clock.             *)
(***************************************************************************)
EXTENDS Slots, Integers

CONSTANTS
  Keys,       \* HMAC keys, one per binding
  NoKey,      \* no binding
  Window,     \* 300 seconds in the code
  Skew,       \* bound on the difference of the clocks
  Horizon,    \* bound on the agent's clock
  MaxGrants   \* bound on grants

ASSUME KeysAssumption == NoKey \notin Keys
ASSUME ClockAssumption == Window \in Nat \ {0} /\ Skew \in Nat /\ Horizon \in Nat /\ MaxGrants \in Nat

VARIABLES
  clock,      \* int(time.time()) of the agent
  ahead,      \* ADMIN's clock minus the agent's
  key,        \* download_hmac_key of state.json
  grants,     \* the grants minted so far
  req,        \* the request of each connection
  accepted    \* history: grants accepted, and the clock by which they were

local == <<clock, ahead, key, grants, req, accepted>>
lvars == <<vars, local>>

\* minted, lead and life say how the expiry came about and are not in the token.
Grant(k, lead, life) ==
  [key |-> k, exp |-> clock + lead + life, minted |-> clock, lead |-> lead, life |-> life]
NoGrant == [key |-> NoKey, exp |-> 0, minted |-> 0, lead |-> 0, life |-> 0]
\* old: history, state.json has not held the key of the grant since the request was read.
NoRequest == [at |-> "none", grant |-> NoGrant, matches |-> FALSE, key |-> NoKey, old |-> FALSE]

LInit == /\ Init
         /\ clock = 0 /\ ahead \in -Skew .. Skew
         /\ key = NoKey
         /\ grants = {} /\ accepted = {}
         /\ req = [c \in Conns |-> NoRequest]

-----------------------------------------------------------------------------
(* ADMIN, the clock and the binding.                                       *)

Tick == /\ clock < Horizon /\ clock' = clock + 1
        /\ UNCHANGED <<vars, ahead, key, grants, req, accepted>>

\* write_binding after a bind, clear_binding after a 401 (module Binding).
ChangeBinding == /\ key' \in (Keys \cup {NoKey}) \ {key}
                 /\ req' = [c \in Conns |-> [req[c] EXCEPT !.old = @ /\ req[c].grant.key # key']]
                 /\ UNCHANGED <<vars, clock, ahead, grants, accepted>>

Minted(g) == /\ Cardinality(grants) < MaxGrants
             /\ grants' = grants \cup {g}
             /\ UNCHANGED <<vars, clock, ahead, key, req, accepted>>

\* ADMIN mints for five minutes at most, with the key of its binding (external).
AdminMints == \E k \in Keys, life \in 1 .. Window : Minted(Grant(k, ahead, life))

\* mint_download_grant: by the agent's own clock and key.
MintLocally == /\ key # NoKey
               /\ \E life \in 1 .. Window : Minted(Grant(key, 0, life))

-----------------------------------------------------------------------------
(* The accepting thread, as in Slots.                                      *)

AcceptStep == \E c \in Conns :
  /\ Connect(c) \/ RefuseFull(c) \/ Accept(c) \/ StartFails(c) \/ Release(c)
  /\ UNCHANGED local

\* What a thread has read matters until the grant is judged.
At(c, s) == conn[c] = "serving" /\ req[c].at = s
Become(c, r) == /\ req' = [req EXCEPT ![c] = r]
                /\ UNCHANGED <<clock, ahead, key, grants>>
To(c, s) == Become(c, [NoRequest EXCEPT !.at = s]) /\ UNCHANGED vars

StartServing(c) == /\ StartThread(c)
                   /\ Become(c, [NoRequest EXCEPT !.at = "read"]) /\ UNCHANGED accepted

\* /healthz, and whatever is answered with 404 before the grant is looked at.
AnswerPlain(c) == At(c, "read") /\ To(c, "done") /\ UNCHANGED accepted

\* A download: the claims parse; the path may name another artifact.
ReadRequest(c) == /\ At(c, "read")
                  /\ \E g \in grants, m \in BOOLEAN :
                       Become(c, [at |-> "key", grant |-> g, matches |-> m, key |-> NoKey, old |-> g.key # key])
                  /\ UNCHANGED <<vars, accepted>>

\* self.binding(): without one the grant is refused.
ReadKey(c) == /\ At(c, "key")
              /\ IF key = NoKey THEN To(c, "done")
                                ELSE Become(c, [req[c] EXCEPT !.at = "judge", !.key = key]) /\ UNCHANGED vars
              /\ UNCHANGED accepted

\* Mutant: only the expiry is looked at.
ValidUnbounded(r) == r.matches /\ r.grant.key = r.key /\ clock < r.grant.exp

\* Mutant: < for <=.
ValidStrict(r) == /\ r.matches /\ r.grant.key = r.key
                  /\ clock < r.grant.exp /\ r.grant.exp < clock + Window

\* The signature, the claims and the window.
Valid(r) == /\ r.matches /\ r.grant.key = r.key
            /\ clock < r.grant.exp /\ r.grant.exp <= clock + Window

Judge(c) == /\ At(c, "judge")
            /\ IF Valid(req[c]) THEN /\ To(c, "open")
                                     /\ accepted' = accepted \cup {[grant |-> req[c].grant, time |-> clock]}
                                ELSE To(c, "done") /\ UNCHANGED accepted

\* artifact_file: a descriptor, or 404.
Open(c) == /\ At(c, "open")
           /\ To(c, "stream") \/ To(c, "done")
           /\ UNCHANGED accepted

\* The body is written, or a socket operation met its limit of 15 seconds.
HangUp(c) == /\ At(c, "read") \/ At(c, "stream")
             /\ To(c, "done") /\ UNCHANGED accepted

EndServing(c) == /\ At(c, "done") /\ EndRequest(c)
                 /\ Become(c, NoRequest) /\ UNCHANGED accepted

Serve(c) == StartServing(c) \/ AnswerPlain(c) \/ ReadRequest(c) \/ ReadKey(c) \/ Judge(c)
            \/ Open(c) \/ HangUp(c) \/ EndServing(c)

LNext == Tick \/ ChangeBinding \/ AdminMints \/ MintLocally
         \/ AcceptStep \/ \E c \in Conns : Serve(c)

LSpec == LInit /\ [][LNext]_lvars

(* The accepting thread and the handler threads run.                       *)
LFairness == \A c \in Conns :
               /\ SF_lvars((RefuseFull(c) \/ Accept(c)) /\ UNCHANGED local)
               /\ WF_lvars(Serve(c))
               /\ WF_lvars(Release(c) /\ UNCHANGED local)

LFairSpec == LSpec /\ LFairness

-----------------------------------------------------------------------------
(* Properties.                                                             *)

Grants == [key : Keys, exp : Int, minted : Nat, lead : Int, life : Nat] \cup {NoGrant}
Requests == [at : {"none", "read", "key", "judge", "open", "stream", "done"},
             grant : Grants, matches : BOOLEAN, key : Keys \cup {NoKey}, old : BOOLEAN]

LTypeOK == /\ TypeOK
           /\ clock \in 0 .. Horizon /\ ahead \in -Skew .. Skew
           /\ key \in Keys \cup {NoKey}
           /\ grants \subseteq Grants
           /\ req \in [Conns -> Requests]
           /\ accepted \subseteq [grant : Grants, time : Nat]

\* Whatever ADMIN's clock says, a grant opens its PDF for less than one window by
\* the agent's clock: two uses are never further apart (core.py:931-941).
GrantIsShortLived ==
  \A x, y \in accepted : x.grant = y.grant => x.time - y.time < Window

\* A grant that came with the path it names is refused only if it has expired, the
\* binding has changed since it was minted, or the life ADMIN gave it is longer
\* than the window less the lead of ADMIN's clock; and the grant of another binding
\* is always refused, however often the binding changes while the request is read
\* and judged, unless its key was that of state.json at a moment in between
\* (core.py:909-943).
JudgedForAReason ==
  [][\A c \in Conns : At(c, "judge") =>
       LET g == req[c].grant IN
       /\ req'[c].at = "done" /\ req[c].matches =>
            \/ clock >= g.exp
            \/ g.key # req[c].key
            \/ g.lead > 0 /\ g.life > Window - g.lead
       /\ req'[c].at = "open" => ~req[c].old]_lvars
=============================================================================
