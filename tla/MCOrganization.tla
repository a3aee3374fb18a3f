--------------------------- MODULE MCOrganization ---------------------------
(* Instances of Organization for TLC. *)
EXTENDS Organization, TLC

CONSTANTS o1, o2, alice, bob, carol, m1, m2, m3, t1, s1, s2, s3, r1, r2, auditor

MCOrgs == {o1, o2}
MCUsers == {alice, bob, carol}
MCMemberIds == {m1, m2, m3}
MCTeams == {t1}
MCSessions == {s1, s2, s3}
MCRequests == {r1, r2}
MCDynamicRoles == {auditor}

\* A dynamic role that manages members, and one that deletes the organization.
MCPermissionInputs == {{<<"member", "update">>}, {<<"organization", "delete">>}}

Managing ==
    [ops |-> {"create", "delete", "remove-member", "update-role", "leave", "add-member", "roles"},
     orgs |-> {o1}, users |-> {alice, bob}, roles |-> {{"owner"}, {"admin"}, {auditor, "member"}}]

Inviting ==
    [ops |-> {"create", "invite", "accept", "reject", "cancel", "remove-member"},
     orgs |-> {o1}, users |-> {alice, bob}, roles |-> {{"admin"}}]

InvitingOwners ==
    [ops |-> {"create", "add-member", "invite", "update-role"},
     orgs |-> {o1}, users |-> {alice, bob}, roles |-> {{"owner"}, {"admin"}}]

InvitingToTeam ==
    [ops |-> {"create", "invite", "accept", "create-team", "remove-team"},
     orgs |-> {o1}, users |-> {alice, bob}, roles |-> {{"admin"}}]

Teaming ==
    [ops |-> {"create", "delete", "add-member", "remove-member", "create-team", "remove-team",
              "add-team-member", "remove-team-member"},
     orgs |-> {o1, o2}, users |-> {alice, bob}, roles |-> {{"admin"}}]

SelectingOrganization ==
    [ops |-> {"create", "delete", "add-member", "remove-member", "leave", "set-active"},
     orgs |-> {o1}, users |-> {alice, bob}, roles |-> {{"admin"}}]

SelectingTeam ==
    [ops |-> {"create", "add-member", "leave", "create-team", "remove-team",
              "add-team-member", "remove-team-member", "set-active"},
     orgs |-> {o1}, users |-> {alice, bob}, roles |-> {{"member"}}]

MCWorkloads == {Managing, Inviting, InvitingOwners, InvitingToTeam, Teaming,
                SelectingOrganization, SelectingTeam}

Symmetry == Permutations({alice, bob}) \cup Permutations(Requests)

=============================================================================
