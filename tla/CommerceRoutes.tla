------------------------------ MODULE CommerceRoutes ------------------------------
(***************************************************************************)
(* What the commerce HTTP server answers to a request before, or instead   *)
(* of, calling the Service: route, authorizeMutation, requireMethod, the   *)
(* decoders and recordQueryOptionsFromURL (internal/core/commerce_http.go).*)
(*                                                                         *)
(* A request is a record [path, method, origin, token, query, challenge,   *)
(* body, id, yes]; query is a function from the parameters present to      *)
(* shapes: "text", "blank", "number", "stamp_1", "stamp_2".                *)
(***************************************************************************)
EXTENDS Naturals, TLC

\* CommerceHTTPEndpoints: what GET /v1/commerce tells a client.
Endpoint(method, query, body) == [method |-> method, query |-> query, body |-> body]

RecordParameters == {"pack_id", "scenario_id", "skill", "status", "type", "currency", "from", "to", "limit"}

Endpoints ==
     "/v1/commerce" :> Endpoint("GET", {}, {})
  @@ "/v1/commerce/packs" :> Endpoint("GET", {"pack_id"}, {})
  @@ "/v1/commerce/scenarios" :> Endpoint("GET", {"scenario_id", "pack_id"}, {})
  @@ "/v1/commerce/install-plan" :> Endpoint("GET", {"pack_id"}, {})
  @@ "/v1/commerce/scenario-install-plan" :> Endpoint("GET", {"scenario_id"}, {})
  @@ "/v1/commerce/install-pack" :> Endpoint("POST", {}, {"pack_id", "yes"})
  @@ "/v1/commerce/install-scenario" :> Endpoint("POST", {}, {"scenario_id", "yes"})
  @@ "/v1/commerce/scenario-ledger" :> Endpoint("GET", RecordParameters \ {"pack_id"}, {})
  @@ "/v1/commerce/install-records" :> Endpoint("GET", RecordParameters \ {"type", "currency"}, {})
  @@ "/v1/commerce/billing-records" :> Endpoint("GET", RecordParameters, {})
  @@ "/v1/commerce/receipts" :> Endpoint("GET", {"status", "from", "to", "limit"}, {})
  @@ "/v1/commerce/integrity" :> Endpoint("GET", {}, {})
  @@ "/v1/commerce/proof" :> Endpoint("GET", {"challenge"}, {})
  @@ "/v1/commerce/proof/submit" :> Endpoint("POST", {}, {"challenge", "yes"})
  @@ "/v1/commerce/snapshot" :> Endpoint("GET", RecordParameters, {})

-----------------------------------------------------------------------------

\* The cases of route, which trims one "/" from the end of the path.
PagePaths == {"/", "/commerce", "/healthz"}
MutationPaths == {"/v1/commerce/install-pack", "/v1/commerce/install-scenario", "/v1/commerce/proof/submit"}
QueryPaths == {"/v1/commerce/packs", "/v1/commerce/scenarios", "/v1/commerce/scenario-ledger",
               "/v1/commerce/install-records", "/v1/commerce/billing-records", "/v1/commerce/receipts",
               "/v1/commerce/snapshot"}
PlanPaths == {"/v1/commerce/install-plan", "/v1/commerce/scenario-install-plan"}
ReadPaths == PagePaths \cup QueryPaths \cup PlanPaths
               \cup {"/v1/commerce", "/v1/commerce/integrity", "/v1/commerce/proof"}

\* requireMethod.
MethodOf(path) == IF path \in MutationPaths THEN "POST" ELSE "GET"

\* corsAllowedForPath: the paths served that begin with /v1/commerce.
UnderCommerce == DOMAIN Endpoints

\* allowedOrigin: the one origin of --allow-origin ("none" without it).
AllowedOrigin(origin, req) == req.path \in UnderCommerce /\ origin # "none" /\ req.origin = origin

\* What the handlers see of a request.
IsRequest(req) ==
  req = [path |-> req.path, method |-> req.method, origin |-> req.origin, token |-> req.token, query |-> req.query,
         challenge |-> req.challenge, body |-> req.body, id |-> req.id, yes |-> req.yes]

Parameter(req, name) == IF name \in DOMAIN req.query THEN req.query[name] ELSE "blank"

\* recordQueryOptionsFromURL, ValidateRecordQueryOptions.
QueryValid(req) ==
  /\ Parameter(req, "limit") \in {"blank", "number"}
  /\ \A n \in {"from", "to"} : Parameter(req, n) \in {"blank", "stamp_1", "stamp_2"}
  /\ ~(Parameter(req, "from") = "stamp_2" /\ Parameter(req, "to") = "stamp_1")

\* The parameter a read cannot do without.
Wanted(path) ==
  CASE path = "/v1/commerce/install-plan" -> {"pack_id"}
    [] path \in {"/v1/commerce/scenario-install-plan", "/v1/commerce/scenario-ledger"} -> {"scenario_id"}
    [] OTHER -> {}

\* CommerceProof wants a challenge, from the query or the header.
ChallengeGiven(req) == Parameter(req, "challenge") # "blank" \/ req.challenge

ReadRefused(req) ==
  \/ req.path \in QueryPaths /\ ~QueryValid(req)
  \/ \E name \in Wanted(req.path) : Parameter(req, name) = "blank"
  \/ req.path = "/v1/commerce/proof" /\ ~ChallengeGiven(req)

\* Mutant: any token will do.
Authorized0(req) == req.token # "none"

\* authorizeMutation: serveCommerceHTTP draws a token for every server it starts.
Authorized(req) == req.token = "right"

\* decodeCapabilityPackInstallRequest and its siblings: the size is checked while
\* the body is read, unknown fields are refused, the id must not be blank.
BodyStatus(req) ==
  CASE req.body \in {"oversize", "broken"} -> 413
    [] req.body \in {"none", "blank", "not_json", "extra_field"} -> 400
    [] req.body = "object" /\ req.id # "text" -> 400
    [] OTHER -> 200

ConfirmedByBody(req) == req.yes = "yes"

Mutation(req) ==
  CASE ~Authorized(req) -> 401
    [] Authorized(req) /\ BodyStatus(req) # 200 -> BodyStatus(req)
    [] Authorized(req) /\ BodyStatus(req) = 200 /\ ~ConfirmedByBody(req) -> 428
    [] OTHER -> 200

\* The status of the response when the Service reports no error; 200 means that the
\* request reaches its handler's Service call.
Route(origin, req) ==
  CASE req.method = "OPTIONS" -> IF AllowedOrigin(origin, req) THEN 204 ELSE 403
    [] req.method # "OPTIONS" /\ req.path \notin ReadPaths \cup MutationPaths -> 404
    [] req.method # "OPTIONS" /\ req.path \in ReadPaths \cup MutationPaths /\ req.method # MethodOf(req.path) -> 405
    [] req.method = "POST" /\ req.path \in MutationPaths -> Mutation(req)
    [] req.method = "GET" /\ req.path \in ReadPaths -> IF ReadRefused(req) THEN 400 ELSE 200

-----------------------------------------------------------------------------
(* commerce serve.                                                          *)

\* validateCommerceServeAddr and ValidateCommerceAllowedOrigin: a loopback host, and
\* no origin or one http(s) origin without path or credentials.
ServeAccepts(host, origin) ==
  /\ host \in {"localhost", "127.0.0.1", "::1"}
  /\ origin \in {"none", "http_origin"}
=============================================================================
