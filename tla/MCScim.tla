------------------------------- MODULE MCScim -------------------------------
(* Instances of Scim for TLC. *)
EXTENDS Scim, TLC

CONSTANTS u1, u2, e1, e2, x1, x2, c1, c2, org, b1, b2, b3, r1, r2

MCUsers == {u1, u2}
MCEmails == {e1, e2}
MCExternals == {x1, x2}
MCConnections == {c1, c2, org}
MCOrgConnections == {org}
MCBindingIds == {b1, b2, b3}
MCRequests == {r1, r2}

Nobody == [u \in Users |-> NoUser]

\* u1 has signed up before.
Somebody == [Nobody EXCEPT ![u1] = [state |-> "present", email |-> e1, disabled |-> FALSE]]

Resource(email, external, active) == [email |-> email, external |-> external, active |-> active]

Scenario(endpoints, link, initial, inputs, changes) ==
    {[endpoints |-> endpoints, linkExisting |-> link, users |-> initial,
      inputs |-> inputs, changes |-> changes,
      connections |-> [c \in Connections |-> IF c = c1 THEN 1 ELSE 0]]}

\* Two directories provision, link and deprovision.
Provisioning ==
    Scenario({"generate", "create", "deprovision", "sign-in"}, TRUE, Nobody,
             {Resource(e1, x1, None)}, {})

\* Users and connections come and go; resources may be inactive.
Deleting ==
    Scenario({"generate", "drop", "create", "deprovision", "sign-in", "delete-user", "leave"},
             FALSE, Somebody, {Resource(e2, x2, FALSE)}, {})

\* Resources are replaced and patched.
Updating ==
    Scenario({"create", "replace", "patch", "sign-in"}, FALSE, Nobody,
             {Resource(e1, x1, TRUE), Resource(e2, x2, FALSE), Resource(e2, x1, None)},
             {[active |-> FALSE], [external |-> x2], [email |-> e1]})

\* Two connections update the users they provisioned.
Sharing ==
    Scenario({"generate", "create", "replace"}, TRUE, Somebody,
             {Resource(e1, x1, None)}, {})

MCScenarios == UNION {Provisioning, Deleting, Updating, Sharing}

Symmetry == Permutations(Requests)

=============================================================================
