------------------------------ MODULE Refusals ------------------------------
(***************************************************************************)
(* How an authority's answer travels to the phone: the authority's reply,  *)
(* the failure an Admin client makes of it, the response Admin's failure   *)
(* handler sends over loopback, and the refusal the Local API tells.       *)
(*                                                                         *)
(* A reply is a status and whether its body is what the contract promises; *)
(* status 0 is a reply that never came.  Sentences and codes are left out. *)
(***************************************************************************)
EXTENDS Naturals

Lost == [status |-> 0, sound |-> FALSE]
Answered(status) == [status |-> status, sound |-> TRUE]
Garbled == [status |-> 200, sound |-> FALSE]

-----------------------------------------------------------------------------
(* AuthorityFailure, as the control plane's clients raise it.               *)

AuthorityFailure(kind, status, retryable) ==
    [kind |-> kind, status |-> status, retryable |-> retryable]

\* no failure: the client returns what it parsed
Fine == AuthorityFailure("none", 200, FALSE)

ContractViolation == AuthorityFailure("contract_violation", 502, FALSE)
Unconfigured == AuthorityFailure("configuration", 503, FALSE)

\* the transport raised before any reply
Unavailable == AuthorityFailure("unavailable", 503, TRUE)

\* the Hub's smart-home client has another word for a missing credential
NoSmartHome == AuthorityFailure("unauthorized", 503, FALSE)

RaiseStatus(status) ==
    CASE status = 401 -> AuthorityFailure("unauthorized", 401, FALSE)
      [] status = 403 -> AuthorityFailure("forbidden", 403, FALSE)
      [] status = 404 -> AuthorityFailure("not_found", 404, FALSE)
      [] status \in {409, 412} -> AuthorityFailure("conflict", 409, FALSE)
      [] status \in {400, 422} -> AuthorityFailure("invalid_request", 422, FALSE)
      [] OTHER -> AuthorityFailure("upstream_failure", 502, status >= 500)

\* _request and _parse
Parse(reply) ==
    CASE reply = Lost -> Unavailable
      [] reply.status # 200 -> RaiseStatus(reply.status)
      [] OTHER -> IF reply.sound THEN Fine ELSE ContractViolation

\* set_companion_face: what is wrong with the picture has a kind of its own
ParseFace(reply) ==
    IF reply.status \in {413, 415, 422}
    THEN AuthorityFailure("rejected", reply.status, FALSE)
    ELSE Parse(reply)

\* _space_for: discovery failed, or does not lead to one running space
NoSpace == {Unavailable, ContractViolation, RaiseStatus(404), RaiseStatus(409),
            AuthorityFailure("runtime_missing", 503, TRUE)}

-----------------------------------------------------------------------------
(* The response Admin sends, and what the Local API tells of it.            *)

PublicRefusalKind ==
    [unauthorized |-> "denied", forbidden |-> "denied",
     not_found |-> "not_found", conflict |-> "conflict",
     invalid_request |-> "invalid", unavailable |-> "not_running",
     runtime_missing |-> "not_running", upstream_failure |-> "upstream",
     contract_violation |-> "upstream", configuration |-> "not_configured"]

Refusal(kind, retryable) == [kind |-> kind, retryable |-> retryable]
Done == Refusal("done", FALSE)
Unsaid == Refusal("unsaid", FALSE)

\* the failure handler: a kind that has no public word raises inside it, and
\* the framework answers 500 with no refusal in the body
Handled(failure) ==
    IF failure.kind \in DOMAIN PublicRefusalKind
    THEN [status |-> failure.status,
          refusal |-> Refusal(PublicRefusalKind[failure.kind], failure.retryable)]
    ELSE [status |-> 500, refusal |-> Unsaid]

KindByStatus(status) ==
    CASE status \in {400, 415, 422} -> "invalid"
      [] status \in {401, 403} -> "denied"
      [] status = 404 -> "not_found"
      [] status \in {409, 412} -> "conflict"
      [] OTHER -> IF status >= 500 THEN "upstream" ELSE "invalid"

RefusalForStatus(status) == Refusal(KindByStatus(status), status >= 500)

\* _relayed_refusal: what Admin said, else what its status says
RelayedRefusal(response) ==
    IF response.refusal # Unsaid THEN response.refusal
    ELSE RefusalForStatus(response.status)

\* what the phone is told of a call through Admin's management routes
Told(failure) ==
    IF failure = Fine THEN Done ELSE RelayedRefusal(Handled(failure))

\* Admin did not answer the Local API, or the Local API has no credential
NotAnswering == Refusal("not_running", TRUE)
NotConfigured == Refusal("not_configured", FALSE)

\* Admin's status as the Local API's device clients keep it: anything they do
\* not know is called 503
KeptStatus(failure, known) ==
    IF failure = Fine THEN Done
    ELSE RefusalForStatus(IF Handled(failure).status \in known
                          THEN Handled(failure).status ELSE 503)

\* list_body_endpoints; set_companion and the output policy; the admission reads
ToldOfMembership(failure) == KeptStatus(failure, {401, 403, 409})
ToldOfDevice(failure) == KeptStatus(failure, {401, 403, 404, 409})
ToldOfAdmission(failure) == KeptStatus(failure, {401, 403, 404, 409, 422, 502, 503})

\* the session-trace routes know only that the Provider did not answer
ToldOfTrace(failure) == IF failure = Fine THEN Done ELSE RefusalForStatus(503)

\* _conversation_command relays Admin's status as it is
ToldByStatus(failure) ==
    IF failure = Fine THEN Done ELSE RefusalForStatus(Handled(failure).status)

\* remove: the workflow answers over a socket, with a problem's own status
ParseRemoval(reply) ==
    CASE reply = Lost \/ ~reply.sound -> Unavailable
      [] reply.status # 200 -> AuthorityFailure("problem", reply.status, FALSE)
      [] OTHER -> Fine
ToldOfRemoval(failure) ==
    IF failure = Fine THEN Done ELSE RefusalForStatus(failure.status)

-----------------------------------------------------------------------------
(* The path to eidolond, which has a vocabulary of its own.                 *)

\* HostServiceClient._request and the status its failure is answered with
HostServiceStatus(reply) ==
    CASE reply = Lost -> 503
      [] reply.status \in {404, 409} -> reply.status
      [] reply.status >= 400 -> 502
      [] OTHER -> IF reply.sound THEN 200 ELSE 502

\* a refused power-off keeps its 403
PowerOffStatus(reply) == IF reply.status = 403 THEN 403 ELSE HostServiceStatus(reply)

\* AdminHostServicesClient._request, from the status Admin answered
ToldOfHost(status) ==
    CASE status = 200 -> Done
      [] status = 503 -> RefusalForStatus(502)
      [] OTHER -> RefusalForStatus(status)
=============================================================================
