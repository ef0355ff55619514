------------------------------- MODULE Answers --------------------------------
(***************************************************************************)
(* What an answer to an authenticated POST means: AdminClient.post         *)
(* (core.py:517-573), require_admin_ok (core.py:576-579) and the order in  *)
(* which run() catches their exceptions (core.py:880-906).  Gateways       *)
(* between the agent and ADMIN answer in ADMIN's place.                    *)
(***************************************************************************)

\* The values of "code" and of "error.code" in an error.
Codes == {"pdf_agent_already_bound", "other", "absent"}

\* status: 0 is no answer, a redirect or one that is too long.
\* body: a JSON object; JSON that is no object or cannot be decoded; anything else.
\* ok: it has the schema of its operation and, where there is one, "ok" is true.
Responses == [status : {0, 200, 204, 302, 401, 403, 409, 500},
              body : {"object", "unreadable", "html"},
              code : Codes, nested : Codes, ok : BOOLEAN]

\* ADMIN's own answers to a POST it has authenticated, or not.
Answer(status, code, nested, ok) ==
  [status |-> status, body |-> "object", code |-> code, nested |-> nested, ok |-> ok]

Accepted == Answer(200, "absent", "absent", TRUE)
Rejected == Answer(401, "other", "absent", FALSE)
BoundElsewhere == {Answer(409, "pdf_agent_already_bound", "absent", FALSE),
                   Answer(409, "absent", "pdf_agent_already_bound", FALSE),
                   Answer(409, "pdf_agent_already_bound", "pdf_agent_already_bound", FALSE)}

\* Anybody else's: any status, a 401 too; no success, and either nothing that can be
\* read or no code, a foreign code, or two codes that contradict each other.
Foreign == {r \in Responses :
              /\ r.ok => r.status # 200 \/ r.body # "object"
              /\ \/ r.body # "object"
                 \/ "other" \in {r.code, r.nested}
                 \/ r.code = "absent" /\ r.nested = "absent"}

\* The codes there are all say so.
NamesConflict(r) == /\ r.body = "object"
                    /\ {r.code, r.nested} \ {"absent"} = {"pdf_agent_already_bound"}

\* Mutant: a refusal by a firewall counts as one by ADMIN.
ClassifyWafAs401(r) == IF r.status \in {401, 403} THEN "401" ELSE "retry"

\* Mutant: every 409 is a binding conflict.
ClassifyAny409(r) == CASE r.status = 401 -> "401"
                       [] r.status = 409 -> "conflict"
                       [] r.status = 200 /\ r.body = "object" /\ r.ok -> "ok"
                       [] OTHER -> "retry"

\* A 401 counts whoever sends it: status comes before content type and body.
Classify(r) == CASE r.status = 401 -> "401"
                 [] r.status = 409 /\ NamesConflict(r) -> "conflict"
                 [] r.status = 200 /\ r.body = "object" /\ r.ok -> "ok"
                 [] OTHER -> "retry"
=============================================================================
