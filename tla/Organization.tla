---------------------------- MODULE Organization ----------------------------
(***************************************************************************)
(* The organization plugin: organizations, members and their roles,        *)
(* invitations, teams, dynamic roles, and the organization and team a      *)
(* session has active.                                                     *)
(*                                                                         *)
(* A handler authorizes its caller, then opens a transaction that          *)
(* authorizes again.  Where the transaction repeats every check made       *)
(* before it, the handler is one action; where it carries over something   *)
(* it read before (the roles are defined, the caller may assign them, the  *)
(* team exists, the time) it is a Begin action and an action for the       *)
(* transaction, with a request in flight between them.  Transactions are   *)
(* serial, as the memory adapter and SQLite make them.  A hook or the      *)
(* database may refuse any request, which rolls its transaction back.      *)
(***************************************************************************)
EXTENDS Naturals, FiniteSets

CONSTANTS
    Orgs, Users, MemberIds, Teams, Sessions, Requests, None,
    DynamicRoles,       \* the names of roles an organization may define
    PermissionInputs,   \* the permissions clients send for a dynamic role
    Verified,           \* the users whose address is verified
    MaxOrganizationsPerUser, MaxMembersPerOrganization,
    MaxInvitationsPerOrganization, MaxTeamsPerOrganization, MaxRolesPerOrganization,
    InvitationTTL,
    Horizon,            \* bound on the clock
    Workloads           \* the operations that meet in one behaviour, and on what

CreatorRole == "owner"

Statements ==
    [organization |-> {"create", "read", "update", "delete"},
     member       |-> {"create", "read", "update", "delete"},
     invitation   |-> {"create", "read", "cancel"},
     team         |-> {"create", "read", "update", "delete"},
     ac           |-> {"create", "read", "update", "delete"}]

Grants(statements) ==
    UNION {{resource} \X statements[resource] : resource \in DOMAIN statements}

Permissions == Grants(Statements)

StaticRoles ==
    [owner  |-> Permissions,
     admin  |-> Grants([Statements EXCEPT !.organization = {"read", "update"},
                                          !.ac = {"read"}]),
     member |-> Grants([organization |-> {"read"}, member |-> {"read"}, team |-> {"read"}])]

RoleNames == DOMAIN StaticRoles \cup DynamicRoles

Ops == {"create", "delete", "set-active", "remove-member", "update-role", "leave",
        "add-member", "invite", "accept", "reject", "cancel", "create-team",
        "remove-team", "add-team-member", "remove-team-member", "roles"}

Workload == [ops: SUBSET Ops, orgs: SUBSET Orgs, users: SUBSET Users,
             roles: SUBSET (SUBSET RoleNames \ {{}})]

ASSUME OrganizationAssumption ==
    /\ None \notin Orgs \cup Users \cup MemberIds \cup Teams \cup Sessions
    /\ PermissionInputs \subseteq SUBSET Permissions \ {{}}
    /\ Verified \subseteq Users
    /\ Workloads \subseteq Workload
    /\ InvitationTTL \in Nat /\ Horizon \in Nat

VARIABLES
    workload,       \* who calls which operations, with what
    orgs,           \* the organization table
    members,        \* the member table, by member id
    roles,          \* the organizationRole table: a role's permissions, {} if undefined
    invitations,    \* the invitation table: one row per organization and address
    teams,          \* the team table
    teamMembers,    \* the teamMember table
    sessions,       \* the session table's columns this plugin adds
    now,            \* the clock
    req,            \* the requests between their checks and their transaction
    actor           \* history: who caused the last change of members or invitations

tables == <<orgs, members, roles, invitations, teams, teamMembers, sessions>>

vars == <<workload, tables, now, req, actor>>

Lifetimes == {"free", "present", "gone"}

MemberRow == [state: Lifetimes, org: Orgs \cup {None}, user: Users \cup {None},
              roles: SUBSET RoleNames]

InvitationRow == [status: {"none", "pending", "accepted", "rejected", "canceled"},
                  roles: SUBSET RoleNames, team: Teams \cup {None},
                  expiresAt: 0..Horizon + InvitationTTL,
                  joined: Nat]      \* history: memberships this invitation gave

TeamRow == [state: Lifetimes, org: Orgs \cup {None}]

SessionRow == [state: {"free", "live", "revoked"}, user: Users \cup {None},
               org: Orgs \cup {None}, team: Teams \cup {None}]

NoMember == [state |-> "free", org |-> None, user |-> None, roles |-> {}]

NoInvitation == [status |-> "none", roles |-> {}, team |-> None, expiresAt |-> 0, joined |-> 0]

FreeSession == [state |-> "free", user |-> None, org |-> None, team |-> None]

Request ==
    [op: Ops \cup {"idle", "activate"}, user: Users \cup {None}, org: Orgs \cup {None},
     member: MemberIds \cup {None}, invitee: Users \cup {None}, team: Teams \cup {None},
     roles: SUBSET RoleNames, resend: BOOLEAN, session: Sessions \cup {None},
     now: 0..Horizon]

Idle == [op |-> "idle", user |-> None, org |-> None, member |-> None, invitee |-> None,
         team |-> None, roles |-> {}, resend |-> FALSE, session |-> None, now |-> 0]

TypeOK ==
    /\ workload \in Workloads
    /\ orgs \in [Orgs -> Lifetimes]
    /\ members \in [MemberIds -> MemberRow]
    /\ roles \in [Orgs -> [DynamicRoles -> SUBSET Permissions]]
    /\ invitations \in [Orgs -> [Users -> InvitationRow]]
    /\ teams \in [Teams -> TeamRow]
    /\ teamMembers \subseteq Teams \X Users
    /\ sessions \in [Sessions -> SessionRow]
    /\ now \in 0..Horizon
    /\ req \in [Requests -> Request]
    /\ actor \in Users \cup {None}

Init ==
    /\ workload \in Workloads
    /\ orgs = [o \in Orgs |-> "free"]
    /\ members = [m \in MemberIds |-> NoMember]
    /\ roles = [o \in Orgs |-> [d \in DynamicRoles |-> {}]]
    /\ invitations = [o \in Orgs |-> [u \in Users |-> NoInvitation]]
    /\ teams = [t \in Teams |-> [state |-> "free", org |-> None]]
    /\ teamMembers = {}
    /\ sessions = [s \in Sessions |-> FreeSession]
    /\ now = 0
    /\ req = [r \in Requests |-> Idle]
    /\ actor = None

-----------------------------------------------------------------------------
(* Lookups and authorization                                               *)

MembersOf(o) == {m \in MemberIds : members[m].state = "present" /\ members[m].org = o}

Membership(o, u) == {m \in MembersOf(o) : members[m].user = u}

IsMember(o, u) == Membership(o, u) # {}

IsOwner(m) == CreatorRole \in members[m].roles

OwnerRows(o) == {m \in MembersOf(o) : IsOwner(m)}

IsOwnerOf(o, u) == \E m \in Membership(o, u) : IsOwner(m)

RolePermissions(o, n) == IF n \in DynamicRoles THEN roles[o][n] ELSE StaticRoles[n]

HasPermission(o, u, permission) ==
    \E m \in Membership(o, u) :
        \E n \in members[m].roles : permission \in RolePermissions(o, n)

Authorize(o, u, resource, action) == HasPermission(o, u, <<resource, action>>)

DefinedRoles(o, names) == \A n \in names \cap DynamicRoles : roles[o][n] # {}

\* Only an owner hands out the owner role.
MayAssign(o, u, names) == CreatorRole \in names => IsOwnerOf(o, u)

TeamsOf(o) == {t \in Teams : teams[t].state = "present" /\ teams[t].org = o}

PendingInvitations(o) == {u \in Users : invitations[o][u].status = "pending"}

\* An id generated for a new row.
NewIds(free) == IF free = {} THEN {} ELSE {CHOOSE id \in free : TRUE}

NewMemberIds == NewIds({m \in MemberIds : members[m].state = "free"})

NewTeamIds == NewIds({t \in Teams : teams[t].state = "free"})

NewSessionIds == NewIds({s \in Sessions : sessions[s].state = "free"})

\* The unique index on organizationId and userId refuses a second row.
AddMemberRow(o, u, names) ==
    /\ ~IsMember(o, u)
    /\ \E m \in NewMemberIds :
         members' = [members EXCEPT ![m] =
                       [state |-> "present", org |-> o, user |-> u, roles |-> names]]

\* The update of sessions that have organization o active.
ClearOrganization(o, users) ==
    sessions' = [s \in Sessions |->
                   IF sessions[s].org = o /\ sessions[s].user \in users
                   THEN [sessions[s] EXCEPT !.org = None, !.team = None] ELSE sessions[s]]

\* The update of sessions that have team t active.
ClearTeam(t, users) ==
    sessions' = [s \in Sessions |->
                   IF sessions[s].team = t /\ sessions[s].user \in users
                   THEN [sessions[s] EXCEPT !.team = None] ELSE sessions[s]]

Called(op) == op \in workload.ops

Ready(r, op) == Called(op) /\ req[r] = Idle

Start(r, request) ==
    /\ req' = [req EXCEPT ![r] = request]
    /\ UNCHANGED <<workload, tables, now, actor>>

Finish(r, op) ==
    /\ req[r].op = op
    /\ req' = [req EXCEPT ![r] = Idle]

\* A hook, the database or a check of the transaction refuses the request.
Refuse(r) ==
    /\ req[r] # Idle
    /\ Finish(r, req[r].op)
    /\ UNCHANGED <<workload, tables, now, actor>>

-----------------------------------------------------------------------------
(* Organizations and members                                               *)

CreateOrganization(u, o) ==
    /\ Called("create")
    /\ o \in workload.orgs
    /\ orgs[o] = "free"
    /\ Cardinality({m \in MemberIds : members[m].user = u}) < MaxOrganizationsPerUser
    /\ orgs' = [orgs EXCEPT ![o] = "present"]
    /\ AddMemberRow(o, u, {CreatorRole})
    /\ actor' = u
    /\ UNCHANGED <<workload, roles, invitations, teams, teamMembers, sessions, now, req>>

\* Every row of the organization goes with it.
DeleteOrganization(u, o) ==
    /\ Called("delete")
    /\ Authorize(o, u, "organization", "delete")
    /\ orgs' = [orgs EXCEPT ![o] = "gone"]
    /\ members' = [m \in MemberIds |->
                     IF m \in MembersOf(o) THEN [NoMember EXCEPT !.state = "gone"] ELSE members[m]]
    /\ roles' = [roles EXCEPT ![o] = [d \in DynamicRoles |-> {}]]
    /\ invitations' = [invitations EXCEPT ![o] = [v \in Users |-> NoInvitation]]
    /\ teams' = [t \in Teams |->
                   IF t \in TeamsOf(o) THEN [state |-> "gone", org |-> None] ELSE teams[t]]
    /\ teamMembers' = {tm \in teamMembers : tm[1] \notin TeamsOf(o)}
    /\ ClearOrganization(o, Users)
    /\ actor' = u
    /\ UNCHANGED <<workload, now, req>>

\* Fault variant of LeaveTeams: the team rows are left behind.
KeepTeams(o, u) == UNCHANGED teamMembers

\* removeUserFromOrganizationTeams goes over the teams the organization has.
LeaveTeams(o, u) ==
    teamMembers' = {tm \in teamMembers : ~(tm[1] \in TeamsOf(o) /\ tm[2] = u)}

DropMember(m) ==
    LET o == members[m].org
        u == members[m].user
    IN  /\ members' = [members EXCEPT ![m] = [NoMember EXCEPT !.state = "gone"]]
        /\ LeaveTeams(o, u)
        /\ ClearOrganization(o, {u})

\* Fault variant of NotLastOwner: the boundary of the count is off by one.
NotOnlyMember(m) == IsOwner(m) => Cardinality(OwnerRows(members[m].org)) >= 1

\* The last owner stays one.
NotLastOwner(m) == IsOwner(m) => Cardinality(OwnerRows(members[m].org)) > 1

RemoveMember(u, m) ==
    /\ Called("remove-member")
    /\ members[m].state = "present"
    /\ Authorize(members[m].org, u, "member", "delete")
    /\ IsOwner(m) => IsOwnerOf(members[m].org, u)
    /\ NotLastOwner(m)
    /\ DropMember(m)
    /\ actor' = u
    /\ UNCHANGED <<workload, orgs, roles, invitations, teams, now, req>>

LeaveOrganization(u, m) ==
    /\ Called("leave")
    /\ members[m].state = "present"
    /\ members[m].user = u
    /\ NotLastOwner(m)
    /\ DropMember(m)
    /\ actor' = u
    /\ UNCHANGED <<workload, orgs, roles, invitations, teams, now, req>>

\* Manager.AddMember: called by the application, not over HTTP.
AddMember(o, u, names) ==
    /\ Called("add-member")
    /\ orgs[o] = "present"
    /\ Cardinality(MembersOf(o)) < MaxMembersPerOrganization
    /\ DefinedRoles(o, names)
    /\ AddMemberRow(o, u, names)
    /\ actor' = None
    /\ UNCHANGED <<workload, orgs, roles, invitations, teams, teamMembers, sessions, now, req>>

\* The roles are defined and the caller may assign them when the request begins.
BeginUpdateMemberRole(r, u, m, names) ==
    LET o == members[m].org
    IN  /\ Ready(r, "update-role")
        /\ members[m].state = "present"
        /\ Authorize(o, u, "member", "update")
        /\ DefinedRoles(o, names)
        /\ MayAssign(o, u, names)
        /\ Start(r, [Idle EXCEPT !.op = "update-role", !.user = u, !.org = o,
                                 !.member = m, !.roles = names])

\* The transaction authorizes again and guards the loss of the owner role.
UpdateMemberRole(r) ==
    LET u == req[r].user
        o == req[r].org
        m == req[r].member
    IN  /\ Finish(r, "update-role")
        /\ Authorize(o, u, "member", "update")
        /\ m \in MembersOf(o)
        /\ IsOwner(m) /\ CreatorRole \notin req[r].roles =>
             IsOwnerOf(o, u) /\ NotLastOwner(m)
        /\ members' = [members EXCEPT ![m].roles = req[r].roles]
        /\ actor' = u
        /\ UNCHANGED <<workload, orgs, roles, invitations, teams, teamMembers, sessions, now>>

-----------------------------------------------------------------------------
(* Invitations                                                             *)

BeginInviteMember(r, u, o, v, names, t, resend) ==
    /\ Ready(r, "invite")
    /\ Authorize(o, u, "invitation", "create")
    /\ DefinedRoles(o, names)
    /\ MayAssign(o, u, names)
    /\ t \in TeamsOf(o) \cup {None}
    /\ Start(r, [Idle EXCEPT !.op = "invite", !.user = u, !.org = o, !.invitee = v,
                             !.roles = names, !.team = t, !.resend = resend, !.now = now])

\* Fault variant of MayInvite: the role is trusted to be assignable since the request began.
MayInviteStale(u, o, names) ==
    /\ Authorize(o, u, "invitation", "create")
    /\ Cardinality(MembersOf(o)) < MaxMembersPerOrganization
    /\ Cardinality(PendingInvitations(o)) < MaxInvitationsPerOrganization

\* What the transaction checks again, and the limits.
MayInvite(u, o, names) ==
    /\ Authorize(o, u, "invitation", "create")
    /\ MayAssign(o, u, names)
    /\ Cardinality(MembersOf(o)) < MaxMembersPerOrganization
    /\ Cardinality(PendingInvitations(o)) < MaxInvitationsPerOrganization

\* A row for the address is reused, with its id, unless it is an active
\* invitation and the caller did not ask to resend it.
InviteMember(r) ==
    LET u == req[r].user
        o == req[r].org
        v == req[r].invitee
        old == invitations[o][v]
    IN  /\ Finish(r, "invite")
        /\ MayInvite(u, o, req[r].roles)
        /\ ~IsMember(o, v)
        /\ ~(old.status = "pending" /\ old.expiresAt > req[r].now /\ ~req[r].resend)
        /\ invitations' = [invitations EXCEPT ![o][v] =
              [status |-> "pending", roles |-> req[r].roles, team |-> req[r].team,
               expiresAt |-> req[r].now + InvitationTTL, joined |-> 0]]
        /\ actor' = u
        /\ UNCHANGED <<workload, orgs, members, roles, teams, teamMembers, sessions, now>>

BeginAcceptInvitation(r, u, o) ==
    /\ Ready(r, "accept")
    /\ u \in Verified
    /\ invitations[o][u].status # "none"
    /\ Start(r, [Idle EXCEPT !.op = "accept", !.user = u, !.org = o, !.now = now])

JoinTeam(u, t) ==
    IF t = None THEN UNCHANGED teamMembers
    ELSE <<t, u>> \notin teamMembers /\ teamMembers' = teamMembers \cup {<<t, u>>}

AcceptInvitation(r) ==
    LET u == req[r].user
        o == req[r].org
        invitation == invitations[o][u]
    IN  /\ Finish(r, "accept")
        /\ invitation.status = "pending"
        /\ invitation.expiresAt > req[r].now
        /\ DefinedRoles(o, invitation.roles)
        /\ Cardinality(MembersOf(o)) < MaxMembersPerOrganization
        /\ invitations' = [invitations EXCEPT ![o][u] =
                              [invitation EXCEPT !.status = "accepted", !.joined = @ + 1]]
        /\ AddMemberRow(o, u, invitation.roles)
        /\ invitation.team \in TeamsOf(o) \cup {None}
        /\ JoinTeam(u, invitation.team)
        /\ actor' = u
        /\ UNCHANGED <<workload, orgs, roles, teams, sessions, now>>

\* Fault variant of TransitionInvitation: the update is guarded by the id only.
TransitionAnyInvitation(o, v, status) ==
    /\ invitations[o][v].status # "none"
    /\ invitations' = [invitations EXCEPT ![o][v].status = status]

\* transitionInvitation: the guarded update of a pending row.
TransitionInvitation(o, v, status) ==
    /\ invitations[o][v].status = "pending"
    /\ invitations' = [invitations EXCEPT ![o][v].status = status]

RejectInvitation(u, o) ==
    /\ Called("reject")
    /\ u \in Verified
    /\ TransitionInvitation(o, u, "rejected")
    /\ actor' = u
    /\ UNCHANGED <<workload, orgs, members, roles, teams, teamMembers, sessions, now, req>>

CancelInvitation(u, o, v) ==
    /\ Called("cancel")
    /\ Authorize(o, u, "invitation", "cancel")
    /\ TransitionInvitation(o, v, "canceled")
    /\ actor' = u
    /\ UNCHANGED <<workload, orgs, members, roles, teams, teamMembers, sessions, now, req>>

Tick ==
    /\ Called("accept")
    /\ now < Horizon
    /\ now' = now + 1
    /\ UNCHANGED <<workload, tables, req, actor>>

-----------------------------------------------------------------------------
(* Teams and dynamic roles                                                 *)

CreateTeam(u, o) ==
    /\ Called("create-team")
    /\ Authorize(o, u, "team", "create")
    /\ Cardinality(TeamsOf(o)) < MaxTeamsPerOrganization
    /\ \E t \in NewTeamIds : teams' = [teams EXCEPT ![t] = [state |-> "present", org |-> o]]
    /\ UNCHANGED <<workload, orgs, members, roles, invitations, teamMembers, sessions, now,
                   req, actor>>

\* The handlers on a team find it, and its organization, before the transaction.
BeginOnTeam(r, u, t, op, action, v) ==
    LET o == teams[t].org
    IN  /\ Ready(r, op)
        /\ teams[t].state = "present"
        /\ Authorize(o, u, "team", action)
        /\ Start(r, [Idle EXCEPT !.op = op, !.user = u, !.org = o, !.team = t, !.invitee = v])

BeginRemoveTeam(r, u, t) == BeginOnTeam(r, u, t, "remove-team", "delete", None)

RemoveTeam(r) ==
    LET t == req[r].team
    IN  /\ Finish(r, "remove-team")
        /\ Authorize(req[r].org, req[r].user, "team", "delete")
        /\ teams' = [teams EXCEPT ![t] = [state |-> "gone", org |-> None]]
        /\ teamMembers' = {tm \in teamMembers : tm[1] # t}
        /\ ClearTeam(t, Users)
        /\ UNCHANGED <<workload, orgs, members, roles, invitations, now, actor>>

BeginAddTeamMember(r, u, t, v) ==
    /\ BeginOnTeam(r, u, t, "add-team-member", "update", v)
    /\ IsMember(teams[t].org, v)

\* The membership is checked again, the team is not.
AddTeamMember(r) ==
    LET v == req[r].invitee
    IN  /\ Finish(r, "add-team-member")
        /\ Authorize(req[r].org, req[r].user, "team", "update")
        /\ IsMember(req[r].org, v)
        /\ JoinTeam(v, req[r].team)
        /\ UNCHANGED <<workload, orgs, members, roles, invitations, teams, sessions, now, actor>>

BeginRemoveTeamMember(r, u, t, v) == BeginOnTeam(r, u, t, "remove-team-member", "update", v)

RemoveTeamMember(r) ==
    LET v == req[r].invitee
    IN  /\ Finish(r, "remove-team-member")
        /\ Authorize(req[r].org, req[r].user, "team", "update")
        /\ teamMembers' = teamMembers \ {<<req[r].team, v>>}
        /\ ClearTeam(req[r].team, {v})
        /\ UNCHANGED <<workload, orgs, members, roles, invitations, teams, now, actor>>

WriteRole(o, d, permission) ==
    /\ roles' = [roles EXCEPT ![o][d] = permission]
    /\ UNCHANGED <<workload, orgs, members, invitations, teams, teamMembers, sessions, now,
                   req, actor>>

\* requireGrantablePermission: nobody grants what they do not have.
Grantable(o, u, permission) == \A p \in permission : HasPermission(o, u, p)

CreateRole(u, o, d, permission) ==
    /\ Called("roles")
    /\ Authorize(o, u, "ac", "create")
    /\ Grantable(o, u, permission)
    /\ Cardinality({n \in DynamicRoles : roles[o][n] # {}}) < MaxRolesPerOrganization
    /\ roles[o][d] = {}
    /\ WriteRole(o, d, permission)

UpdateRole(u, o, d, permission) ==
    /\ Called("roles")
    /\ Authorize(o, u, "ac", "update")
    /\ Grantable(o, u, permission)
    /\ roles[o][d] # {}
    /\ WriteRole(o, d, permission)

\* Refused while a member or a pending invitation has the role.
DeleteRole(u, o, d) ==
    /\ Called("roles")
    /\ Authorize(o, u, "ac", "delete")
    /\ roles[o][d] # {}
    /\ \A m \in MembersOf(o) : d \notin members[m].roles
    /\ \A v \in PendingInvitations(o) : d \notin invitations[o][v].roles
    /\ WriteRole(o, d, {})

-----------------------------------------------------------------------------
(* The active organization and team of a session                           *)

SessionsOnly == UNCHANGED <<workload, orgs, members, roles, invitations, teams, teamMembers,
                            now, actor>>

SignIn(u) ==
    /\ Called("set-active")
    /\ \E s \in NewSessionIds :
         sessions' = [sessions EXCEPT ![s] = [FreeSession EXCEPT !.state = "live", !.user = u]]
    /\ SessionsOnly /\ UNCHANGED req

MaySelect(u, o, t) ==
    /\ o # None => IsMember(o, u)
    /\ t # None => t \in TeamsOf(o) /\ <<t, u>> \in teamMembers

\* setActiveOrganization (t = None) and setActiveTeam (o is the team's organization);
\* None clears the selection.
BeginSetActive(r, s, o, t) ==
    /\ Ready(r, "set-active")
    /\ sessions[s].state = "live"
    /\ MaySelect(sessions[s].user, o, t)
    /\ Start(r, [Idle EXCEPT !.op = "set-active", !.user = sessions[s].user, !.org = o,
                             !.team = t, !.session = s])

\* IssueSession replaces the caller's session, or opens one if it ended meanwhile.
IssueSession(r) ==
    LET s == req[r].session
    IN  /\ req[r].op = "set-active"
        /\ \E issued \in NewSessionIds :
             /\ sessions' = [sessions EXCEPT
                  ![s].state = IF @ = "live" THEN "revoked" ELSE @,
                  ![issued] = [FreeSession EXCEPT !.state = "live", !.user = req[r].user]]
             /\ req' = [req EXCEPT ![r].op = "activate", ![r].session = issued]
        /\ SessionsOnly

\* Fault variant of RotateActiveSession: the selection checked before the session was issued is trusted.
RotateCheckedSession(r) ==
    LET s == req[r].session
    IN  /\ Finish(r, "activate")
        /\ sessions[s].state = "live"
        /\ sessions' = [sessions EXCEPT ![s].org = req[r].org, ![s].team = req[r].team]
        /\ SessionsOnly

\* The transaction of rotateActiveSession checks the selection again.
RotateActiveSession(r) ==
    LET s == req[r].session
    IN  /\ Finish(r, "activate")
        /\ MaySelect(req[r].user, req[r].org, req[r].team)
        /\ sessions[s].state = "live"
        /\ sessions' = [sessions EXCEPT ![s].org = req[r].org, ![s].team = req[r].team]
        /\ SessionsOnly

-----------------------------------------------------------------------------
Transaction(r) ==
    \/ UpdateMemberRole(r)
    \/ InviteMember(r)
    \/ AcceptInvitation(r)
    \/ RemoveTeam(r)
    \/ AddTeamMember(r)
    \/ RemoveTeamMember(r)
    \/ IssueSession(r)
    \/ RotateActiveSession(r)

Next ==
    \/ \E u \in workload.users, o \in Orgs :
         \/ CreateOrganization(u, o)
         \/ DeleteOrganization(u, o)
         \/ RejectInvitation(u, o)
         \/ CreateTeam(u, o)
         \/ \E v \in Users : CancelInvitation(u, o, v)
         \/ \E names \in workload.roles : AddMember(o, u, names)
         \/ \E d \in DynamicRoles :
              \/ DeleteRole(u, o, d)
              \/ \E p \in PermissionInputs : CreateRole(u, o, d, p) \/ UpdateRole(u, o, d, p)
    \/ \E u \in workload.users, m \in MemberIds : RemoveMember(u, m) \/ LeaveOrganization(u, m)
    \/ \E u \in workload.users : SignIn(u)
    \/ \E r \in Requests :
         \/ \E u \in workload.users, m \in MemberIds, names \in workload.roles :
              BeginUpdateMemberRole(r, u, m, names)
         \/ \E u \in workload.users, v \in Users, o \in Orgs, names \in workload.roles,
               t \in Teams \cup {None}, resend \in BOOLEAN :
              BeginInviteMember(r, u, o, v, names, t, resend)
         \/ \E u \in workload.users, o \in Orgs : BeginAcceptInvitation(r, u, o)
         \/ \E u, v \in workload.users, t \in Teams :
              BeginAddTeamMember(r, u, t, v) \/ BeginRemoveTeamMember(r, u, t, v)
         \/ \E u \in workload.users, t \in Teams : BeginRemoveTeam(r, u, t)
         \/ \E s \in Sessions, o \in Orgs \cup {None}, t \in Teams \cup {None} :
              BeginSetActive(r, s, o, t)
         \/ Transaction(r)
         \/ Refuse(r)
    \/ Tick

Spec == Init /\ [][Next]_vars

-----------------------------------------------------------------------------
(* Properties                                                              *)

\* An organization always retains at least one owner: removal, demotion and
\* leaving, by several owners at once, never take the last one
\* (plugin/organization/members.go).
OwnerRemains == \A o \in Orgs : orgs[o] = "present" => OwnerRows(o) # {}

\* A team's members are members of its organization, through removal, leaving,
\* deletion and joining by invitation (teams.go, members.go).
TeamMembersBelong ==
    \A tm \in teamMembers :
        teams[tm[1]].state = "present" => IsMember(teams[tm[1]].org, tm[2])

\* A session's active organization and team are ones its user belongs to: what
\* removes a user or a team clears them in every session, and a selection that
\* was checked before its session was issued is checked again
\* (rotateActiveSession in organizations.go).
ActiveStateValid ==
    \A s \in Sessions :
        LET u == sessions[s].user
            o == sessions[s].org
            t == sessions[s].team
        IN  /\ o # None => IsMember(o, u)
            /\ t # None => t \in TeamsOf(o) /\ <<t, u>> \in teamMembers

\* Each issue of an invitation has one outcome: it admits its addressee at most
\* once, and never after or before it was rejected or canceled (the guarded
\* pending transitions of invitations.go).
InvitationSingleWinner ==
    \A o \in Orgs, u \in Users :
        invitations[o][u].joined = IF invitations[o][u].status = "accepted" THEN 1 ELSE 0

\* The change of an owner's row, or of an invitation to be one, by who may make it.
OwnerRoleStep ==
    /\ \A o \in Orgs, m \in MemberIds :
         m \in OwnerRows(o) /\ m \notin OwnerRows(o)' /\ orgs'[o] = "present"
           => IsOwnerOf(o, actor')
    /\ \A o \in Orgs, v \in Users :
         /\ invitations'[o][v].status = "pending"
         /\ CreatorRole \in invitations'[o][v].roles
         /\ invitations'[o][v] # invitations[o][v]
         => IsOwnerOf(o, actor')

\* Only an owner invites an owner or takes the owner role away, even if the
\* caller lost that role after the request began (inviteMember, removeMember,
\* updateMemberRole).
OwnerRoleGuarded == [][OwnerRoleStep]_vars

=============================================================================
