--------------------------- MODULE Deprovisioning ---------------------------
(***************************************************************************)
(* Whom the SCIM plugin has created and deleted, and what it promises      *)
(* about the deletions.  Scim says how it comes to them.                   *)
(***************************************************************************)

CONSTANT OrgConnections     \* the connections scoped to the organization

VARIABLES
    creator,      \* history: the connection that created a user
    deletions     \* history: the global users that deprovisioning deleted

\* Deprovisioning deletes a user only through the personal connection that created
\* it and never one who has an authentication account, also when the account was
\* linked, or the user provisioned again, after the request had read its binding.
AccountHoldersKept ==
    \A d \in deletions :
        d.by \notin OrgConnections /\ creator[d.user] = d.by /\ ~d.account

=============================================================================
