------------------------------- MODULE Gateway -------------------------------
(***************************************************************************)
(* The two ends of a remote call: the generated gateway that turns an HTTP *)
(* request into a gRPC call, and the generated code that hands the call to *)
(* a handler.                                                              *)
(*                                                                         *)
(* A message is a function from the fields it sets to their values, so a   *)
(* field that is not in its domain is not set.  A request is a record of   *)
(* its verb, the pattern its path has, the id in the path, the message in  *)
(* its body and its query parameters, a function from the fields they name *)
(* (in the spelling of the .proto file or of JSON) to what they give.      *)
(* What the translation yields is a call, or NULL where the gateway itself *)
(* answers with an error.                                                  *)
(***************************************************************************)
EXTENDS Naturals

CONSTANTS
    NULL,           \* no call, no id, an empty body
    Malformed       \* a body, a message or a value that cannot be decoded

Empty == [field \in {} |-> NULL]

Put(message, field, value) ==
    [f \in DOMAIN message \cup {field} |-> IF f = field THEN value ELSE message[f]]

Call(method, message) == [method |-> method, in |-> message]

\* The fields of a request message, as a query parameter names them.
RequestFields(method) ==
    CASE method = "CreateProject" -> {"project"}
      [] method = "UpdateProject" -> {"project", "update_mask"}
      [] method \in {"ListProjects", "ListBillingAccounts"} ->
            {"page_token", "page_size"}
      [] method \in {"CreateBillingAccount", "GetVersion"} -> {}
      [] OTHER -> {"id"}

\* Those of its own fields that a query parameter may name as well.
NestedFields(method) ==
    IF method = "UpdateProject" THEN {"project.id", "update_mask.paths"} ELSE {}

ParameterNames(method) == RequestFields(method) \cup NestedFields(method)

-----------------------------------------------------------------------------
(* The gateway's runtime. *)

\* Mutant: an empty body leaves the field unset.
DecodeProjectUnset(r) ==
    IF r.body = NULL THEN Empty ELSE Put(Empty, "project", r.body)

\* An empty body is no error, nor is the field left unset: the decoder makes the
\* message that the field points to before it reads the body.
DecodeProject(r) == Put(Empty, "project", IF r.body = NULL THEN Empty ELSE r.body)

\* runtime.FieldMaskFromRequestBody: the fields the body sets.
FieldMaskFromRequestBody(r) == IF r.body = NULL THEN {} ELSE DOMAIN r.body

\* runtime.PopulateFieldFromPath: the message on the way is made if need be.
PopulateProjectId(message, id) ==
    Put(message, "project",
        Put(IF "project" \in DOMAIN message THEN message["project"] ELSE Empty, "id", id))

\* A repeated field keeps what it has and gets more; its message is made if need
\* be.
AppendPaths(message, paths) ==
    Put(message, "update_mask",
        paths \cup (IF "update_mask" \in DOMAIN message THEN message["update_mask"]
                    ELSE {}))

\* runtime.PopulateQueryParameters: a parameter that names a field sets it,
\* unless the filter has the field or the message it is in.
PopulateQueryParameters(method, message, query, filter) ==
    LET taken == (DOMAIN query \cap ParameterNames(method)) \ filter
        fields == taken \ NestedFields(method)
        populated == [f \in DOMAIN message \cup fields |->
                        IF f \in fields THEN query[f] ELSE message[f]]
        masked == IF "update_mask.paths" \in taken
                  THEN AppendPaths(populated, query["update_mask.paths"])
                  ELSE populated
    IN  IF \E p \in taken : query[p] = Malformed
        THEN NULL
        ELSE Call(method, IF "project.id" \in taken
                          THEN PopulateProjectId(masked, query["project.id"])
                          ELSE masked)

-----------------------------------------------------------------------------
(* One operator per generated translation. *)

request_ProjectService_CreateProject_0(r) ==
    IF r.body = Malformed THEN NULL ELSE Call("CreateProject", DecodeProject(r))

request_ProjectService_DeleteProject_0(r) ==
    Call("DeleteProject", Put(Empty, "id", r.id))

request_ProjectService_GetProject_0(r) == Call("GetProject", Put(Empty, "id", r.id))

filter_ProjectService_ListProjects_0 == {}

request_ProjectService_ListProjects_0(r) ==
    PopulateQueryParameters("ListProjects", Empty, r.query,
                            filter_ProjectService_ListProjects_0)

\* Mutant: the filter is empty, the query may name the project.
filter_ProjectService_UpdateProject_Nothing == {}

\* Whatever is in project comes from the body and the path.
filter_ProjectService_UpdateProject_0 == {"project", "project.id"}

request_ProjectService_UpdateProject_0(r) ==
    IF r.body = Malformed THEN NULL
    ELSE PopulateQueryParameters("UpdateProject",
            PopulateProjectId(DecodeProject(r), r.id), r.query,
            filter_ProjectService_UpdateProject_0)

filter_ProjectService_UpdateProject_1 == {"project", "project.id"}

\* PATCH: the mask is read off the body, before the path sets the id.
request_ProjectService_UpdateProject_1(r) ==
    IF r.body = Malformed THEN NULL
    ELSE LET masked == Put(DecodeProject(r), "update_mask", FieldMaskFromRequestBody(r))
         IN  PopulateQueryParameters("UpdateProject",
                PopulateProjectId(masked, r.id), r.query,
                filter_ProjectService_UpdateProject_1)

request_ProjectService_GetProjectSpendHistory_0(r) ==
    Call("GetProjectSpendHistory", Put(Empty, "id", r.id))

request_ProjectService_GetProjectCurrentSpend_0(r) ==
    Call("GetProjectCurrentSpend", Put(Empty, "id", r.id))

\* The body stands for the whole message, which has no fields.
request_BillingAccountService_CreateBillingAccount_0(r) ==
    IF r.body = Malformed THEN NULL ELSE Call("CreateBillingAccount", Empty)

request_BillingAccountService_GetBillingAccount_0(r) ==
    Call("GetBillingAccount", Put(Empty, "id", r.id))

request_BillingAccountService_ListBillingAccounts_0(r) ==
    PopulateQueryParameters("ListBillingAccounts", Empty, r.query, {})

-----------------------------------------------------------------------------
(* Routes. *)

pattern_ProjectService ==
    {"/v1/projects", "/v1/projects/{id}", "/v1/projects/{id}/spend",
     "/v1/projects/{id}/spend/current"}

pattern_BillingAccountService == {"/v1/billing-accounts", "/v1/billing-accounts/{id}"}

RegisterProjectServiceHandlerClient(r) ==
    CASE r.path = "/v1/projects" /\ r.verb = "POST" ->
            request_ProjectService_CreateProject_0(r)
      [] r.path = "/v1/projects" /\ r.verb = "GET" ->
            request_ProjectService_ListProjects_0(r)
      [] r.path = "/v1/projects/{id}" /\ r.verb = "DELETE" ->
            request_ProjectService_DeleteProject_0(r)
      [] r.path = "/v1/projects/{id}" /\ r.verb = "GET" ->
            request_ProjectService_GetProject_0(r)
      [] r.path = "/v1/projects/{id}" /\ r.verb = "PUT" ->
            request_ProjectService_UpdateProject_0(r)
      [] r.path = "/v1/projects/{id}" /\ r.verb = "PATCH" ->
            request_ProjectService_UpdateProject_1(r)
      [] r.path = "/v1/projects/{id}/spend" /\ r.verb = "GET" ->
            request_ProjectService_GetProjectSpendHistory_0(r)
      [] r.path = "/v1/projects/{id}/spend/current" /\ r.verb = "GET" ->
            request_ProjectService_GetProjectCurrentSpend_0(r)
      [] OTHER -> NULL

RegisterBillingAccountServiceHandlerClient(r) ==
    CASE r.path = "/v1/billing-accounts" /\ r.verb = "POST" ->
            request_BillingAccountService_CreateBillingAccount_0(r)
      [] r.path = "/v1/billing-accounts/{id}" /\ r.verb = "GET" ->
            request_BillingAccountService_GetBillingAccount_0(r)
      [] r.path = "/v1/billing-accounts" /\ r.verb = "GET" ->
            request_BillingAccountService_ListBillingAccounts_0(r)
      [] OTHER -> NULL

\* A path that no pattern matches, and a verb that a pattern does not have, are
\* answered by the gateway with an error.
Translate(r) ==
    IF r.path \in pattern_BillingAccountService
    THEN RegisterBillingAccountServiceHandlerClient(r)
    ELSE IF r.path \in pattern_ProjectService
         THEN RegisterProjectServiceHandlerClient(r)
         ELSE NULL

\* A path has an id if its pattern says so.  The runtime takes the parameters in
\* no fixed order, so what a query that sets the mask and adds to it yields is
\* not determined: such a query is left out.
WellFormed(r) ==
    /\ r.id # NULL <=>
          r.path \in {"/v1/projects/{id}", "/v1/projects/{id}/spend",
                      "/v1/projects/{id}/spend/current", "/v1/billing-accounts/{id}"}
    /\ ~ {"update_mask", "update_mask.paths"} \subseteq DOMAIN r.query

-----------------------------------------------------------------------------
(* The gRPC server's side. *)

\* The methods registered with the server.
ProjectService_ServiceDesc ==
    {"CreateProject", "DeleteProject", "GetProject", "ListProjects",
     "UpdateProject", "GetProjectSpendHistory", "GetProjectCurrentSpend"}

BillingAccountService_ServiceDesc ==
    {"CreateBillingAccount", "GetBillingAccount", "ListBillingAccounts"}

VersionService_ServiceDesc == {"GetVersion"}

\* What the stubs of the two clients invoke.
projectServiceClient ==
    {"CreateProject", "DeleteProject", "GetProject", "ListProjects",
     "UpdateProject", "GetProjectSpendHistory", "GetProjectCurrentSpend"}

billingAccountServiceClient ==
    {"CreateBillingAccount", "GetBillingAccount", "ListBillingAccounts"}

\* A generated handler decodes its own message type, and keeps what that has.
Decode(call) ==
    [f \in DOMAIN call.in \cap RequestFields(call.method) |-> call.in[f]]

ProjectService_Handler(call) ==
    call.method \in ProjectService_ServiceDesc /\ call.in # Malformed

BillingAccountService_Handler(call) ==
    call.method \in BillingAccountService_ServiceDesc /\ call.in # Malformed

VersionService_GetVersion_Handler(call) ==
    call.method \in VersionService_ServiceDesc /\ call.in # Malformed

\* The call reaches a handler; any other is answered before.
Reaches(call) ==
    \/ ProjectService_Handler(call)
    \/ BillingAccountService_Handler(call)
    \/ VersionService_GetVersion_Handler(call)

\* CreateProject and UpdateProject read the fields of a project that is not
\* there: the handler panics.
MissesProject(call) ==
    /\ Reaches(call)
    /\ call.method \in {"CreateProject", "UpdateProject"}
    /\ "project" \notin DOMAIN Decode(call)

\* An id is missing that the handler needs: it refuses the request.
LacksIds(call) ==
    LET message == Decode(call)
    IN  CASE call.method = "CreateProject" ->
                ~ {"id", "billing_account_id"} \subseteq DOMAIN message["project"]
          [] call.method = "UpdateProject" -> "id" \notin DOMAIN message["project"]
          [] OTHER -> "id" \in RequestFields(call.method) \ DOMAIN message

\* Every handler but GetVersion uses the database, unless it refuses the request
\* before.
UsesDatabase(call) ==
    /\ Reaches(call)
    /\ call.method # "GetVersion"
    /\ ~ MissesProject(call) /\ ~ LacksIds(call)

-----------------------------------------------------------------------------
(* What a translation has to keep. *)

\* The project or account a call is about.
TargetOf(call) ==
    IF call.method = "UpdateProject" THEN call.in["project"]["id"] ELSE call.in["id"]

\* The paths that a query adds to the mask.
PathsAdded(query) ==
    IF "update_mask.paths" \in DOMAIN query THEN query["update_mask.paths"] ELSE {}

\* The call acts on what the path names, whatever the body and the query say
\* about it, and the mask of a PATCH is the one its query gives or, without it,
\* the fields of its body and those that its query adds: never the id that came
\* from the path.
Keeps(r, call) ==
    /\ call.method \in projectServiceClient \cup billingAccountServiceClient
    /\ r.id # NULL => TargetOf(call) = r.id
    /\ r.verb = "PATCH" =>
          call.in["update_mask"] =
             IF "update_mask" \in DOMAIN r.query THEN r.query["update_mask"]
             ELSE FieldMaskFromRequestBody(r) \cup PathsAdded(r.query)
=============================================================================
