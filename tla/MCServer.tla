------------------------------- MODULE MCServer -------------------------------
(* Instances of Server for TLC. *)
EXTENDS Server, TLC

NoQuery == [p \in {} |-> NULL]

\* A creation without a body; a PATCH whose body and query name two other
\* projects than its path and that adds to its mask, and one without a body and
\* with a mask of its own; and a PUT that cannot be decoded.
SomeRequests ==
    {[verb |-> "POST", path |-> "/v1/projects", id |-> NULL,
      body |-> NULL, query |-> NoQuery],
     [verb |-> "PATCH", path |-> "/v1/projects/{id}", id |-> "x",
      body |-> [id |-> "y"],
      query |-> "project.id" :> "z" @@ "update_mask.paths" :> {"billing_account_id"}],
     [verb |-> "PATCH", path |-> "/v1/projects/{id}", id |-> "x",
      body |-> NULL, query |-> [p \in {"update_mask"} |-> {"billing_account_id"}]],
     [verb |-> "PUT", path |-> "/v1/projects/{id}", id |-> "x",
      body |-> Malformed, query |-> NoQuery]}

SomeMessages == {Call("GetBillingAccount", [id |-> "x"]), Call("UpdateProject", Empty)}

\* A grace period, a runner, a password that breaks the DSN; a grace period in
\* the environment, and one that does not parse.
SomeCommandLines == {Empty, "shutdown-grace-period" :> 1, [runner |-> "biller"],
                     [runner |-> "other"],
                     "pg-pass" :> "backslash"}
SomeEnvironments == {"shutdown-grace-period" :> 1,
                     "shutdown-grace-period" :> Malformed}
=============================================================================
