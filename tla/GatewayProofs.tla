---------------------------- MODULE GatewayProofs ----------------------------
(***************************************************************************)
(* What the generated translations keep of a request, for every request.   *)
(***************************************************************************)
EXTENDS Gateway, TLAPS

\* Whatever else the message holds, its project has the id of the path.
LEMMA PathSetsId ==
    ASSUME NEW message, NEW id
    PROVE  /\ "project" \in DOMAIN PopulateProjectId(message, id)
           /\ PopulateProjectId(message, id)["project"]["id"] = id
           /\ "update_mask" \in DOMAIN message =>
                 /\ "update_mask" \in DOMAIN PopulateProjectId(message, id)
                 /\ PopulateProjectId(message, id)["update_mask"] = message["update_mask"]
<1> DEFINE project == Put(IF "project" \in DOMAIN message THEN message["project"]
                          ELSE Empty, "id", id)
<1>1. project["id"] = id
    BY DEF Put
<1> HIDE DEF project
<1>2. PopulateProjectId(message, id) = Put(message, "project", project)
    BY DEF PopulateProjectId, project
<1> QED BY <1>1, <1>2 DEF Put

MaskFromQuery(message, query, call) ==
    /\ call.method = "UpdateProject"
    /\ "project" \in DOMAIN call.in
    /\ call.in["project"] = message["project"]
    /\ "update_mask" \in DOMAIN query /\ "update_mask.paths" \notin DOMAIN query
       => call.in["update_mask"] = query["update_mask"]
    /\ "update_mask" \in DOMAIN message /\ "update_mask" \notin DOMAIN query
       => call.in["update_mask"] = message["update_mask"] \cup PathsAdded(query)

\* With the filter of an update the query sets the mask or adds to it, and does
\* nothing else.
LEMMA QuerySetsMask ==
    ASSUME NEW message, NEW query, NEW call, "project" \in DOMAIN message,
           call # NULL,
           call = PopulateQueryParameters("UpdateProject", message, query,
                                          {"project", "project.id"})
    PROVE  MaskFromQuery(message, query, call)
<1> DEFINE taken == (DOMAIN query \cap ParameterNames("UpdateProject"))
                        \ {"project", "project.id"}
           fields == taken \ NestedFields("UpdateProject")
           populated == [f \in DOMAIN message \cup fields |->
                            IF f \in fields THEN query[f] ELSE message[f]]
           masked == IF "update_mask.paths" \in taken
                     THEN AppendPaths(populated, query["update_mask.paths"])
                     ELSE populated
<1>1. taken = DOMAIN query \cap {"update_mask", "update_mask.paths"}
    BY DEF ParameterNames, RequestFields, NestedFields
<1>2. fields = DOMAIN query \cap {"update_mask"}
    BY <1>1 DEF NestedFields
<1>3. /\ DOMAIN populated = DOMAIN message \cup (DOMAIN query \cap {"update_mask"})
      /\ \A f \in DOMAIN message \cup (DOMAIN query \cap {"update_mask"}) :
            populated[f] = IF f \in DOMAIN query \cap {"update_mask"} THEN query[f]
                           ELSE message[f]
    BY <1>2
<1>4. call = Call("UpdateProject", masked)
    BY <1>1 DEF PopulateQueryParameters
<1> HIDE DEF populated, fields
<1>5. CASE "update_mask.paths" \in DOMAIN query
    <2> DEFINE before == IF "update_mask" \in DOMAIN populated
                         THEN populated["update_mask"] ELSE {}
               after == query["update_mask.paths"] \cup before
    <2>1. masked = Put(populated, "update_mask", after)
        BY <1>1, <1>5 DEF AppendPaths
    <2>2. /\ "project" \in DOMAIN masked
          /\ masked["project"] = message["project"]
          /\ masked["update_mask"] = after
        BY <1>3, <2>1 DEF Put
    <2>3. "update_mask" \in DOMAIN message /\ "update_mask" \notin DOMAIN query
          => after = message["update_mask"] \cup PathsAdded(query)
        BY <1>3, <1>5 DEF PathsAdded
    <2> HIDE DEF after, masked, taken
    <2> QED BY <1>4, <1>5, <2>2, <2>3 DEF Call, MaskFromQuery
<1>6. CASE "update_mask.paths" \notin DOMAIN query
    <2>1. masked = populated /\ PathsAdded(query) = {}
        BY <1>1, <1>6 DEF PathsAdded
    <2> HIDE DEF masked, taken
    <2> QED BY <1>3, <1>4, <2>1 DEF Call, MaskFromQuery
<1> QED BY <1>5, <1>6

UpdatesPath(r, call) ==
    /\ call.method = "UpdateProject"
    /\ "project" \in DOMAIN call.in
    /\ call.in["project"]["id"] = r.id
    /\ r.verb = "PATCH" /\ ~ {"update_mask", "update_mask.paths"} \subseteq DOMAIN r.query
       => call.in["update_mask"] =
              IF "update_mask" \in DOMAIN r.query THEN r.query["update_mask"]
              ELSE FieldMaskFromRequestBody(r) \cup PathsAdded(r.query)

\* PUT and PATCH act on the project the path names.
LEMMA UpdateKeepsTarget ==
    ASSUME NEW r, NEW call, call = Translate(r), call # NULL,
           r.verb = "PUT" \/ r.verb = "PATCH", r.path = "/v1/projects/{id}"
    PROVE  UpdatesPath(r, call)
<1>1. CASE r.verb = "PUT"
    <2> DEFINE message == PopulateProjectId(DecodeProject(r), r.id)
    <2>1. call = request_ProjectService_UpdateProject_0(r)
        BY <1>1 DEF Translate, pattern_ProjectService, pattern_BillingAccountService,
           RegisterProjectServiceHandlerClient
    <2>2. call = PopulateQueryParameters("UpdateProject", message, r.query,
                                         {"project", "project.id"})
        BY <2>1 DEF request_ProjectService_UpdateProject_0,
           filter_ProjectService_UpdateProject_0
    <2>3. "project" \in DOMAIN message /\ message["project"]["id"] = r.id
        BY PathSetsId, Zenon
    <2>4. r.verb # "PATCH"
        BY <1>1
    <2> HIDE DEF message
    <2>5. MaskFromQuery(message, r.query, call)
        BY <2>2, <2>3, QuerySetsMask, Zenon
    <2> QED BY <2>3, <2>4, <2>5 DEF MaskFromQuery, UpdatesPath
<1>2. CASE r.verb = "PATCH"
    <2> DEFINE masked == Put(DecodeProject(r), "update_mask", FieldMaskFromRequestBody(r))
               message == PopulateProjectId(masked, r.id)
    <2>1. call = request_ProjectService_UpdateProject_1(r)
        BY <1>2 DEF Translate, pattern_ProjectService, pattern_BillingAccountService,
           RegisterProjectServiceHandlerClient
    <2>2. call = PopulateQueryParameters("UpdateProject", message, r.query,
                                         {"project", "project.id"})
        BY <2>1 DEF request_ProjectService_UpdateProject_1,
           filter_ProjectService_UpdateProject_1
    <2>3. /\ "update_mask" \in DOMAIN masked
          /\ masked["update_mask"] = FieldMaskFromRequestBody(r)
        BY DEF Put
    <2> HIDE DEF masked
    <2>4. /\ "project" \in DOMAIN message /\ "update_mask" \in DOMAIN message
          /\ message["project"]["id"] = r.id
          /\ message["update_mask"] = FieldMaskFromRequestBody(r)
        BY <2>3, PathSetsId, Zenon
    <2> HIDE DEF message
    <2>5. MaskFromQuery(message, r.query, call)
        BY <2>2, <2>4, QuerySetsMask, Zenon
    <2> QED BY <1>2, <2>4, <2>5 DEF MaskFromQuery, UpdatesPath
<1> QED BY <1>1, <1>2

\* A call the gateway makes is the one that was asked for: it acts on the
\* project or the account of the path, whatever the body and the query say, and
\* a PATCH has its own mask (the generated translations and their filters).
THEOREM TranslationKeeps ==
    ASSUME NEW r, WellFormed(r), Translate(r) # NULL
    PROVE  Keeps(r, Translate(r))
<1> DEFINE call == Translate(r)
<1> USE DEF WellFormed, Keeps, projectServiceClient, billingAccountServiceClient
<1>1. CASE r.path = "/v1/projects/{id}" /\ r.verb \in {"PUT", "PATCH"}
    <2>1. UpdatesPath(r, call)
        BY <1>1, UpdateKeepsTarget
    <2> HIDE DEF call
    <2>2. Keeps(r, call)
        BY <2>1 DEF TargetOf, UpdatesPath
    <2> QED BY <2>2 DEF call
<1>2. CASE /\ r.path \in {"/v1/projects/{id}", "/v1/projects/{id}/spend",
                          "/v1/projects/{id}/spend/current",
                          "/v1/billing-accounts/{id}"}
           /\ ~ (r.path = "/v1/projects/{id}" /\ r.verb \in {"PUT", "PATCH"})
    <2>1. PICK method : /\ call = Call(method, Put(Empty, "id", r.id))
                        /\ method \in {"DeleteProject", "GetProject",
                                       "GetProjectSpendHistory",
                                       "GetProjectCurrentSpend", "GetBillingAccount"}
                        /\ r.verb \in {"GET", "DELETE"}
        BY <1>2 DEF Translate, pattern_ProjectService, pattern_BillingAccountService,
           RegisterProjectServiceHandlerClient,
           RegisterBillingAccountServiceHandlerClient,
           request_ProjectService_DeleteProject_0, request_ProjectService_GetProject_0,
           request_ProjectService_GetProjectSpendHistory_0,
           request_ProjectService_GetProjectCurrentSpend_0,
           request_BillingAccountService_GetBillingAccount_0
    <2> DEFINE message == Put(Empty, "id", r.id)
    <2>2. message["id"] = r.id
        BY DEF Put
    <2> HIDE DEF message, call
    <2>3. call.method = method /\ call.in = message
        BY <2>1 DEF Call, message
    <2>4. Keeps(r, call)
        BY <2>1, <2>2, <2>3 DEF TargetOf
    <2> QED BY <2>4 DEF call
<1>3. CASE r.path \in {"/v1/projects", "/v1/billing-accounts"}
    <2>1. /\ call.method \in {"CreateProject", "ListProjects", "CreateBillingAccount",
                              "ListBillingAccounts"}
          /\ r.verb # "PATCH"
        BY <1>3 DEF Translate, pattern_ProjectService, pattern_BillingAccountService,
           RegisterProjectServiceHandlerClient,
           RegisterBillingAccountServiceHandlerClient,
           request_ProjectService_CreateProject_0, request_ProjectService_ListProjects_0,
           request_BillingAccountService_CreateBillingAccount_0,
           request_BillingAccountService_ListBillingAccounts_0,
           PopulateQueryParameters, Call
    <2> QED BY <1>3, <2>1
<1>4. r.path \in pattern_ProjectService \cup pattern_BillingAccountService
    BY DEF Translate
<1> QED BY <1>1, <1>2, <1>3, <1>4 DEF pattern_ProjectService, pattern_BillingAccountService

\* No call that the gateway forwards lacks the project that its handler reads: the
\* decoder of a body makes one, empty or not, before it reads, and the path sets its
\* id (project.pb.gw.go).  Only a client that calls the gRPC server itself can make
\* CreateProject or UpdateProject read a project that is not there.
THEOREM GatewayCallsHaveProject ==
    ASSUME NEW r, Translate(r) # NULL
    PROVE  ~ MissesProject(Translate(r))
<1> SUFFICES ASSUME Translate(r).method \in {"CreateProject", "UpdateProject"},
                    "project" \notin DOMAIN Translate(r).in
             PROVE  FALSE
    BY DEF MissesProject, Decode, RequestFields
<1>1. \/ r.verb \in {"PUT", "PATCH"} /\ r.path = "/v1/projects/{id}"
      \/ Translate(r) = request_ProjectService_CreateProject_0(r)
    BY DEF Translate, pattern_ProjectService, pattern_BillingAccountService,
       RegisterProjectServiceHandlerClient, RegisterBillingAccountServiceHandlerClient,
       request_ProjectService_ListProjects_0,
       request_ProjectService_DeleteProject_0, request_ProjectService_GetProject_0,
       request_ProjectService_GetProjectSpendHistory_0,
       request_ProjectService_GetProjectCurrentSpend_0,
       request_BillingAccountService_CreateBillingAccount_0,
       request_BillingAccountService_GetBillingAccount_0,
       request_BillingAccountService_ListBillingAccounts_0,
       PopulateQueryParameters, Call
<1>2. CASE r.verb \in {"PUT", "PATCH"} /\ r.path = "/v1/projects/{id}"
    <2>1. UpdatesPath(r, Translate(r))
        BY <1>2, UpdateKeepsTarget
    <2> QED BY <2>1 DEF UpdatesPath
<1>3. CASE Translate(r) = request_ProjectService_CreateProject_0(r)
    <2>1. Translate(r) = Call("CreateProject", DecodeProject(r))
        BY <1>3 DEF request_ProjectService_CreateProject_0
    <2>2. "project" \in DOMAIN DecodeProject(r)
        BY DEF DecodeProject, Put
    <2> QED BY <2>1, <2>2 DEF Call
<1> QED BY <1>1, <1>2, <1>3
=============================================================================
