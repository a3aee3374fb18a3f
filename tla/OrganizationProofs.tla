------------------------- MODULE OrganizationProofs -------------------------
(***************************************************************************)
(* Proofs of the safety properties of Organization for any number of       *)
(* organizations, users, members, teams, sessions and concurrent requests, *)
(* any dynamic roles and permissions, and all limits.                      *)
(***************************************************************************)
EXTENDS Organization, FiniteSetTheorems, TLAPS

-----------------------------------------------------------------------------
(* The inductive invariant                                                 *)

\* A member row belongs to a user of an organization that exists.
MembersOK ==
    \A m \in MemberIds : members[m].state = "present" =>
        members[m].org \in Orgs /\ members[m].user \in Users /\ orgs[members[m].org] = "present"

\* Only an organization that exists has invitations.
InvitationsOK ==
    \A o \in Orgs, u \in Users : invitations[o][u].status # "none" => orgs[o] = "present"

\* A team belongs to an organization, and only a team that was created has had members.
TeamsOK ==
    /\ \A t \in Teams : teams[t].state = "present" => teams[t].org \in Orgs
    /\ \A tm \in teamMembers : teams[tm[1]].state # "free"

SessionsOK == \A s \in Sessions : sessions[s].state # "free" => sessions[s].user \in Users

\* What a request carries from its checks into its transaction.  A request on a
\* team knows the team's organization for as long as there is the team.
RequestOK(q) ==
    /\ q.op = "invite" => q.org \in Orgs /\ q.user \in Users /\ q.invitee \in Users
    /\ q.op = "accept" => q.org \in Orgs /\ q.user \in Users
    /\ q.op \in {"remove-team", "add-team-member", "remove-team-member"} =>
         /\ q.team \in Teams /\ teams[q.team].state # "free"
         /\ teams[q.team].state = "present" => teams[q.team].org = q.org
    /\ q.op \in {"add-team-member", "remove-team-member"} => q.invitee \in Users
    /\ q.op \in {"set-active", "activate"} =>
         /\ q.session \in Sessions /\ sessions[q.session].state # "free"
         /\ q.user \in Users /\ sessions[q.session].user = q.user

Inv ==
    /\ TypeOK
    /\ MembersOK
    /\ InvitationsOK
    /\ TeamsOK
    /\ SessionsOK
    /\ \A r \in Requests : RequestOK(req[r])
    /\ OwnerRemains
    /\ TeamMembersBelong
    /\ ActiveStateValid
    /\ InvitationSingleWinner

-----------------------------------------------------------------------------
(* Values and lookups                                                      *)

LEMMA NamesType ==
    /\ "owner" \in RoleNames /\ "admin" \in RoleNames /\ "member" \in RoleNames
    /\ {CreatorRole} \in SUBSET RoleNames
BY DEF RoleNames, StaticRoles, CreatorRole

LEMMA TableWrite ==
    ASSUME NEW S, NEW T, NEW f \in [S -> T], NEW x \in S, NEW y \in T
    PROVE  /\ [f EXCEPT ![x] = y] \in [S -> T] /\ [f EXCEPT ![x] = y][x] = y
           /\ \A z \in S \ {x} : [f EXCEPT ![x] = y][z] = f[z]
OBVIOUS

LEMMA WorkloadType ==
    ASSUME TypeOK
    PROVE  /\ workload.users \subseteq Users /\ workload.orgs \subseteq Orgs
           /\ workload.ops \subseteq Ops /\ workload.roles \subseteq SUBSET RoleNames
BY OrganizationAssumption DEF TypeOK, Workload

LEMMA NewIdType ==
    ASSUME NEW S, NEW x \in NewIds(S)
    PROVE  x \in S
BY DEF NewIds

LEMMA IdleType == Idle \in Request /\ Idle.op = "idle"
<1>1. 0 \in 0..Horizon
  BY OrganizationAssumption
<1> QED
  BY <1>1 DEF Idle, Request

LEMMA IdleOK == RequestOK(Idle)'
BY IdleType DEF RequestOK

LEMMA RowTypes ==
    /\ \A st \in Lifetimes : [NoMember EXCEPT !.state = st] \in MemberRow
    /\ NoMember \in MemberRow
    /\ NoInvitation \in InvitationRow
    /\ FreeSession \in SessionRow
    /\ [state |-> "gone", org |-> None] \in TeamRow
    /\ \A o \in Orgs : [state |-> "present", org |-> o] \in TeamRow
<1>1. 0 \in 0..Horizon + InvitationTTL
  BY OrganizationAssumption
<1> QED
  BY <1>1 DEF MemberRow, NoMember, Lifetimes, InvitationRow, NoInvitation, FreeSession, SessionRow,
               TeamRow

LEMMA MemberRowType ==
    ASSUME NEW o \in Orgs, NEW u \in Users, NEW names \in SUBSET RoleNames
    PROVE  [state |-> "present", org |-> o, user |-> u, roles |-> names] \in MemberRow
BY DEF MemberRow, Lifetimes

LEMMA MemberType ==
    ASSUME TypeOK, MembersOK, NEW o, NEW u, NEW m \in Membership(o, u)
    PROVE  /\ m \in MemberIds /\ members[m].state = "present" /\ members[m].org = o
           /\ members[m].user = u /\ o \in Orgs /\ u \in Users /\ orgs[o] = "present"
BY DEF Membership, MembersOf, MembersOK

\* Whoever is authorized is a member of an organization that exists.
LEMMA AuthorizedMember ==
    ASSUME TypeOK, MembersOK, NEW o, NEW u, NEW permission, HasPermission(o, u, permission)
    PROVE  o \in Orgs /\ u \in Users /\ orgs[o] = "present" /\ IsMember(o, u)
BY MemberType DEF HasPermission, IsMember

LEMMA IsMemberType ==
    ASSUME TypeOK, MembersOK, NEW o, NEW u, IsMember(o, u)
    PROVE  o \in Orgs /\ u \in Users /\ orgs[o] = "present"
BY MemberType DEF IsMember

\* A second owner is another row.
LEMMA AnotherOwner ==
    ASSUME NEW o, NEW m, Cardinality(OwnerRows(o)) > 1
    PROVE  \E n \in OwnerRows(o) : n # m
<1> SUFFICES ASSUME OwnerRows(o) \subseteq {m} PROVE FALSE
  OBVIOUS
<1>1. /\ IsFiniteSet(OwnerRows(o)) /\ Cardinality(OwnerRows(o)) \in Nat
      /\ Cardinality(OwnerRows(o)) <= Cardinality({m})
  BY FS_Singleton, FS_Subset, FS_CardinalityType
<1>2. Cardinality({m}) = 1
  BY FS_Singleton
<1> QED
  BY <1>1, <1>2

-----------------------------------------------------------------------------
(* Frames                                                                  *)

\* A team is neither created again nor moved to another organization.
TeamsKept ==
    \A t \in Teams : teams[t].state # "free" =>
        /\ teams'[t].state # "free"
        /\ teams'[t].state = "present" => teams'[t] = teams[t]

\* A session stays its user's.
SessionsKept ==
    \A s \in Sessions : sessions[s].state # "free" =>
        sessions'[s].state # "free" /\ sessions'[s].user = sessions[s].user

LEMMA RequestStays ==
    ASSUME TypeOK, TeamsKept, SessionsKept, NEW q, RequestOK(q)
    PROVE  RequestOK(q)'
<1>1. ASSUME q.op \in {"remove-team", "add-team-member", "remove-team-member"}
      PROVE  /\ q.team \in Teams /\ teams'[q.team].state # "free"
             /\ teams'[q.team].state = "present" => teams'[q.team].org = q.org
  BY <1>1 DEF RequestOK, TeamsKept
<1>2. ASSUME q.op \in {"set-active", "activate"}
      PROVE  /\ q.session \in Sessions /\ sessions'[q.session].state # "free"
             /\ q.user \in Users /\ sessions'[q.session].user = q.user
  BY <1>2 DEF RequestOK, SessionsKept
<1> QED
  BY <1>1, <1>2 DEF RequestOK

\* Request r becomes n, the others stay.
LEMMA RequestsStep ==
    ASSUME Inv, TeamsKept, SessionsKept, NEW r \in Requests, NEW n \in Request,
           req' = [req EXCEPT ![r] = n], RequestOK(n)'
    PROVE  req' \in [Requests -> Request] /\ \A q \in Requests : RequestOK(req[q])'
<1>1. /\ req' \in [Requests -> Request] /\ req'[r] = n
      /\ \A q \in Requests \ {r} : req'[q] = req[q]
  BY DEF Inv, TypeOK
<1>2. ASSUME NEW q \in Requests PROVE RequestOK(req[q])'
  <2>1. CASE q = r
    BY <1>1, <2>1 DEF RequestOK
  <2>2. CASE q # r
    <3>1. RequestOK(req[q]) /\ req'[q] = req[q]
      BY <1>1, <2>2 DEF Inv
    <3>2. \A x : RequestOK(x) => RequestOK(x)'
      BY RequestStays DEF Inv
    <3> QED
      BY <3>1, <3>2
  <2> QED
    BY <2>1, <2>2
<1> QED
  BY <1>1, <1>2

LEMMA RequestsStay ==
    ASSUME Inv, TeamsKept, SessionsKept,
           UNCHANGED req \/ \E r \in Requests : req' = [req EXCEPT ![r] = Idle]
    PROVE  req' \in [Requests -> Request] /\ \A q \in Requests : RequestOK(req[q])'
<1>1. CASE UNCHANGED req
  <2>1. \A x : RequestOK(x) => RequestOK(x)'
    BY RequestStays DEF Inv
  <2> QED
    BY <1>1, <2>1 DEF Inv, TypeOK
<1>2. CASE \E r \in Requests : req' = [req EXCEPT ![r] = Idle]
  BY <1>2, RequestsStep, IdleType, IdleOK
<1> QED
  BY <1>1, <1>2

LEMMA TeamsStay == ASSUME UNCHANGED teams PROVE TeamsKept
BY DEF TeamsKept

LEMMA SessionsStay == ASSUME UNCHANGED sessions PROVE SessionsKept
BY DEF SessionsKept

LEMMA MembersStay ==
    ASSUME Inv, UNCHANGED <<orgs, members>>
    PROVE  /\ orgs' \in [Orgs -> Lifetimes] /\ members' \in [MemberIds -> MemberRow]
           /\ MembersOK' /\ OwnerRemains'
BY DEF Inv, TypeOK, MembersOK, OwnerRemains, OwnerRows, MembersOf, IsOwner

LEMMA InvitationsStay ==
    ASSUME Inv, UNCHANGED <<orgs, invitations>>
    PROVE  /\ invitations' \in [Orgs -> [Users -> InvitationRow]]
           /\ InvitationsOK' /\ InvitationSingleWinner'
BY DEF Inv, TypeOK, InvitationsOK, InvitationSingleWinner

\* Nobody loses a membership.
MembershipsKept == \A o, u : IsMember(o, u) => IsMember(o, u)'

LEMMA RowsKeepMemberships ==
    ASSUME \A m \in MemberIds : members[m].state = "present" =>
              /\ members'[m].state = "present"
              /\ members'[m].org = members[m].org /\ members'[m].user = members[m].user
    PROVE  MembershipsKept
<1> SUFFICES ASSUME NEW o, NEW u, NEW m \in Membership(o, u)
             PROVE  m \in Membership(o, u)'
  BY DEF MembershipsKept, IsMember
<1>1. m \in MemberIds /\ members[m].state = "present" /\ members[m].org = o
      /\ members[m].user = u
  BY DEF Membership, MembersOf
<1> QED
  BY <1>1 DEF Membership, MembersOf

LEMMA MembershipsStay ==
    ASSUME UNCHANGED members PROVE MembershipsKept
BY RowsKeepMemberships

LEMMA TeamsAndSessionsStay ==
    ASSUME Inv, MembershipsKept, UNCHANGED <<teams, teamMembers, sessions>>
    PROVE  /\ teams' \in [Teams -> TeamRow] /\ teamMembers' \subseteq Teams \X Users
           /\ sessions' \in [Sessions -> SessionRow]
           /\ TeamsOK' /\ SessionsOK' /\ TeamMembersBelong' /\ ActiveStateValid'
<1>1. TeamMembersBelong'
  BY DEF MembershipsKept, Inv, TeamMembersBelong
<1>2. ActiveStateValid'
  <2> SUFFICES ASSUME NEW s \in Sessions
               PROVE  LET u == sessions[s].user
                          o == sessions[s].org
                          t == sessions[s].team
                      IN  /\ o # None => IsMember(o, u)'
                          /\ t # None => t \in TeamsOf(o) /\ <<t, u>> \in teamMembers
    BY DEF ActiveStateValid, TeamsOf
  <2> QED
    BY DEF MembershipsKept, Inv, ActiveStateValid
<1> QED
  BY <1>1, <1>2 DEF Inv, TypeOK, TeamsOK, SessionsOK

\* A request begins, advances or ends.
LEMMA RequestOnly ==
    ASSUME Inv, UNCHANGED <<workload, tables, now, actor>>,
           NEW r \in Requests, NEW n \in Request, req' = [req EXCEPT ![r] = n], RequestOK(n)'
    PROVE  Inv'
<1>1. UNCHANGED <<orgs, members, roles, invitations, teams, teamMembers, sessions>>
  BY DEF tables
<1>2. req' \in [Requests -> Request] /\ \A q \in Requests : RequestOK(req[q])'
  BY <1>1, RequestsStep, TeamsStay, SessionsStay
<1>3. /\ orgs' \in [Orgs -> Lifetimes] /\ members' \in [MemberIds -> MemberRow]
      /\ MembersOK' /\ OwnerRemains'
  BY <1>1, MembersStay
<1>4. /\ invitations' \in [Orgs -> [Users -> InvitationRow]]
      /\ InvitationsOK' /\ InvitationSingleWinner'
  BY <1>1, InvitationsStay
<1>5. /\ teams' \in [Teams -> TeamRow] /\ teamMembers' \subseteq Teams \X Users
      /\ sessions' \in [Sessions -> SessionRow]
      /\ TeamsOK' /\ SessionsOK' /\ TeamMembersBelong' /\ ActiveStateValid'
  BY <1>1, MembershipsStay, TeamsAndSessionsStay
<1>6. TypeOK'
  BY <1>1, <1>2, <1>3, <1>4, <1>5 DEF Inv, TypeOK
<1> QED
  BY <1>2, <1>3, <1>4, <1>5, <1>6 DEF Inv

-----------------------------------------------------------------------------
(* The checks of a request                                                 *)

\* Start with a well-formed request.
LEMMA StartKeeps ==
    ASSUME Inv, NEW r \in Requests, NEW n \in Request, Start(r, n), RequestOK(n)
    PROVE  Inv'
<1>1. UNCHANGED <<workload, tables, now, actor>> /\ req' = [req EXCEPT ![r] = n]
  BY DEF Start
<1>2. RequestOK(n)'
  BY <1>1, RequestStays, TeamsStay, SessionsStay DEF Inv, tables
<1> QED
  BY <1>1, <1>2, RequestOnly

LEMMA RefuseKeeps ==
    ASSUME Inv, NEW r \in Requests, Refuse(r)
    PROVE  Inv'
<1>1. UNCHANGED <<workload, tables, now, actor>> /\ req' = [req EXCEPT ![r] = Idle]
  BY DEF Refuse, Finish
<1> QED
  BY <1>1, IdleType, IdleOK, RequestOnly

LEMMA BeginUpdateMemberRoleKeeps ==
    ASSUME Inv, NEW r \in Requests, NEW u \in workload.users, NEW m \in MemberIds,
           NEW names \in workload.roles, BeginUpdateMemberRole(r, u, m, names)
    PROVE  Inv'
<1>1. PICK o \in Orgs \cup {None} : o = members[m].org
  BY DEF Inv, TypeOK, MemberRow
<1>2. u \in Users /\ names \in SUBSET RoleNames
  BY WorkloadType DEF Inv
<1>3. PICK n \in Request :
        n = [Idle EXCEPT !.op = "update-role", !.user = u, !.org = o, !.member = m,
                         !.roles = names]
  BY <1>2, IdleType DEF Request, Ops
<1>4. n.op = "update-role"
  BY <1>3, IdleType DEF Request
<1>5. Start(r, n)
  BY <1>1, <1>3 DEF BeginUpdateMemberRole
<1> QED
  BY <1>4, <1>5, StartKeeps DEF RequestOK

LEMMA BeginInviteMemberKeeps ==
    ASSUME Inv, NEW r \in Requests, NEW u \in workload.users, NEW v \in Users, NEW o \in Orgs,
           NEW names \in workload.roles, NEW t \in Teams \cup {None}, NEW resend \in BOOLEAN,
           BeginInviteMember(r, u, o, v, names, t, resend)
    PROVE  Inv'
<1>1. u \in Users /\ names \in SUBSET RoleNames
  BY WorkloadType DEF Inv
<1>2. PICK k \in 0..Horizon : k = now
  BY DEF Inv, TypeOK
<1>3. PICK n \in Request :
        n = [Idle EXCEPT !.op = "invite", !.user = u, !.org = o, !.invitee = v,
                         !.roles = names, !.team = t, !.resend = resend, !.now = k]
  BY <1>1, IdleType DEF Request, Ops
<1>4. n.op = "invite" /\ n.user = u /\ n.org = o /\ n.invitee = v
  BY <1>3, IdleType DEF Request
<1>5. Start(r, n)
  BY <1>2, <1>3 DEF BeginInviteMember
<1> QED
  BY <1>1, <1>4, <1>5, StartKeeps DEF RequestOK

LEMMA BeginAcceptInvitationKeeps ==
    ASSUME Inv, NEW r \in Requests, NEW u \in workload.users, NEW o \in Orgs,
           BeginAcceptInvitation(r, u, o)
    PROVE  Inv'
<1>1. u \in Users
  BY WorkloadType DEF Inv
<1>2. PICK k \in 0..Horizon : k = now
  BY DEF Inv, TypeOK
<1>3. PICK n \in Request :
        n = [Idle EXCEPT !.op = "accept", !.user = u, !.org = o, !.now = k]
  BY <1>1, IdleType DEF Request, Ops
<1>4. n.op = "accept" /\ n.user = u /\ n.org = o
  BY <1>3, IdleType DEF Request
<1>5. Start(r, n)
  BY <1>2, <1>3 DEF BeginAcceptInvitation
<1> QED
  BY <1>1, <1>4, <1>5, StartKeeps DEF RequestOK

LEMMA BeginOnTeamKeeps ==
    ASSUME Inv, NEW r \in Requests, NEW u \in workload.users, NEW t \in Teams,
           NEW op \in {"remove-team", "add-team-member", "remove-team-member"}, NEW action,
           NEW v \in Users \cup {None}, op # "remove-team" => v \in Users,
           BeginOnTeam(r, u, t, op, action, v)
    PROVE  Inv'
<1>1. u \in Users
  BY WorkloadType DEF Inv
<1>2. PICK o \in Orgs \cup {None} : o = teams[t].org
  BY DEF Inv, TypeOK, TeamRow
<1>3. op \in Ops
  BY DEF Ops
<1>4. PICK n \in Request :
        n = [Idle EXCEPT !.op = op, !.user = u, !.org = o, !.team = t, !.invitee = v]
  BY <1>1, <1>3, IdleType DEF Request
<1>5. n.op = op /\ n.org = o /\ n.team = t /\ n.invitee = v
  BY <1>4, IdleType DEF Request
<1>6. Start(r, n) /\ teams[t].state = "present"
  BY <1>2, <1>4 DEF BeginOnTeam
<1>7. RequestOK(n)
  BY <1>2, <1>5, <1>6 DEF RequestOK
<1> QED
  BY <1>6, <1>7, StartKeeps

LEMMA BeginSetActiveKeeps ==
    ASSUME Inv, NEW r \in Requests, NEW s \in Sessions, NEW o \in Orgs \cup {None},
           NEW t \in Teams \cup {None}, BeginSetActive(r, s, o, t)
    PROVE  Inv'
<1>1. sessions[s].state = "live" /\ sessions[s].user \in Users
  BY DEF BeginSetActive, Inv, SessionsOK
<1>2. PICK u \in Users : u = sessions[s].user
  BY <1>1
<1>3. PICK n \in Request :
        n = [Idle EXCEPT !.op = "set-active", !.user = u, !.org = o, !.team = t, !.session = s]
  BY IdleType DEF Request, Ops
<1>4. n.op = "set-active" /\ n.user = u /\ n.session = s
  BY <1>3, IdleType DEF Request
<1>5. Start(r, n)
  BY <1>2, <1>3 DEF BeginSetActive
<1>6. RequestOK(n)
  BY <1>1, <1>2, <1>4 DEF RequestOK
<1> QED
  BY <1>5, <1>6, StartKeeps

-----------------------------------------------------------------------------
(* Members                                                                 *)

\* A membership is added to an organization that exists.
LEMMA AddMemberRowKeeps ==
    ASSUME Inv, NEW o \in Orgs, NEW u \in Users, NEW names \in SUBSET RoleNames,
           AddMemberRow(o, u, names), orgs' \in [Orgs -> Lifetimes], orgs'[o] = "present",
           \A p \in Orgs \ {o} : orgs'[p] = orgs[p],
           orgs[o] = "present" \/ CreatorRole \in names
    PROVE  /\ members' \in [MemberIds -> MemberRow] /\ MembersOK' /\ OwnerRemains'
           /\ MembershipsKept /\ IsMember(o, u)'
           /\ \A m \in MemberIds : members[m].state = "present" => members'[m] = members[m]
<1>1. PICK m \in NewMemberIds :
        members' = [members EXCEPT ![m] =
                       [state |-> "present", org |-> o, user |-> u, roles |-> names]]
  BY DEF AddMemberRow
<1>2. m \in MemberIds /\ members[m].state = "free"
  BY NewIdType DEF NewMemberIds
<1>3. PICK row \in MemberRow :
        /\ row = [state |-> "present", org |-> o, user |-> u, roles |-> names]
        /\ row.state = "present" /\ row.org = o /\ row.user = u /\ row.roles = names
  BY MemberRowType
<1>4. /\ members' \in [MemberIds -> MemberRow] /\ members'[m] = row
      /\ \A x \in MemberIds \ {m} : members'[x] = members[x]
  BY <1>1, <1>2, <1>3 DEF Inv, TypeOK
<1>5. \A x \in MemberIds : members[x].state = "present" => members'[x] = members[x]
  BY <1>2, <1>4
<1>6. MembersOK'
  <2>1. ASSUME NEW x \in MemberIds, members'[x].state = "present"
        PROVE  /\ members'[x].org \in Orgs /\ members'[x].user \in Users
               /\ orgs'[members'[x].org] = "present"
    <3>1. CASE x = m
      BY <1>3, <1>4, <3>1
    <3>2. CASE x # m
      <4>1. members'[x] = members[x] /\ members[x].org \in Orgs /\ members[x].user \in Users
            /\ orgs[members[x].org] = "present"
        BY <1>4, <2>1, <3>2 DEF Inv, MembersOK
      <4> QED
        BY <4>1
    <3> QED
      BY <3>1, <3>2
  <2> QED
    BY <2>1 DEF MembersOK
<1>7. \A p : OwnerRows(p) \subseteq OwnerRows(p)' /\ MembersOf(p) \subseteq MembersOf(p)'
  BY <1>5 DEF OwnerRows, MembersOf, IsOwner
<1>8. m \in MembersOf(o)' /\ (CreatorRole \in names => m \in OwnerRows(o)')
  BY <1>2, <1>3, <1>4 DEF OwnerRows, MembersOf, IsOwner
<1>9. OwnerRemains'
  <2>1. ASSUME NEW p \in Orgs, orgs'[p] = "present" PROVE OwnerRows(p)' # {}
    <3>1. CASE orgs[p] = "present"
      BY <1>7, <3>1 DEF Inv, OwnerRemains
    <3>2. CASE orgs[p] # "present"
      BY <1>8, <2>1, <3>2
    <3> QED
      BY <3>1, <3>2
  <2> QED
    BY <2>1 DEF OwnerRemains
<1>10. MembershipsKept
  BY <1>5, RowsKeepMemberships
<1>11. IsMember(o, u)'
  BY <1>3, <1>4, <1>8 DEF IsMember, Membership, MembersOf
<1> QED
  BY <1>4, <1>5, <1>6, <1>9, <1>10, <1>11

LEMMA CreateOrganizationKeeps ==
    ASSUME Inv, NEW u \in workload.users, NEW o \in Orgs, CreateOrganization(u, o)
    PROVE  Inv'
<1>1. /\ u \in Users /\ orgs[o] = "free" /\ orgs' = [orgs EXCEPT ![o] = "present"]
      /\ AddMemberRow(o, u, {CreatorRole}) /\ actor' = u
      /\ UNCHANGED <<workload, roles, invitations, teams, teamMembers, sessions, now, req>>
  BY WorkloadType DEF CreateOrganization, Inv
<1>2. /\ orgs' \in [Orgs -> Lifetimes] /\ orgs'[o] = "present"
      /\ \A p \in Orgs \ {o} : orgs'[p] = orgs[p]
  BY <1>1 DEF Inv, TypeOK, Lifetimes
<1>3. CreatorRole \in {CreatorRole} /\ {CreatorRole} \in SUBSET RoleNames
  BY NamesType
<1>4. /\ members' \in [MemberIds -> MemberRow] /\ MembersOK' /\ OwnerRemains'
      /\ MembershipsKept
  BY <1>1, <1>2, <1>3, AddMemberRowKeeps
<1>5. /\ invitations' \in [Orgs -> [Users -> InvitationRow]]
      /\ InvitationsOK' /\ InvitationSingleWinner'
  BY <1>1, <1>2 DEF Inv, TypeOK, InvitationsOK, InvitationSingleWinner
<1>6. /\ teams' \in [Teams -> TeamRow] /\ teamMembers' \subseteq Teams \X Users
      /\ sessions' \in [Sessions -> SessionRow]
      /\ TeamsOK' /\ SessionsOK' /\ TeamMembersBelong' /\ ActiveStateValid'
  BY <1>1, <1>4, TeamsAndSessionsStay
<1>7. req' \in [Requests -> Request] /\ \A q \in Requests : RequestOK(req[q])'
  BY <1>1, RequestsStay, TeamsStay, SessionsStay
<1>8. TypeOK'
  BY <1>1, <1>2, <1>4, <1>5, <1>6, <1>7 DEF Inv, TypeOK
<1> QED
  BY <1>4, <1>5, <1>6, <1>7, <1>8 DEF Inv

LEMMA AddMemberKeeps ==
    ASSUME Inv, NEW u \in workload.users, NEW o \in Orgs, NEW names \in workload.roles,
           AddMember(o, u, names)
    PROVE  Inv'
<1>1. /\ u \in Users /\ names \in SUBSET RoleNames /\ orgs[o] = "present"
      /\ AddMemberRow(o, u, names) /\ actor' = None
      /\ UNCHANGED <<workload, orgs, roles, invitations, teams, teamMembers, sessions, now, req>>
  BY WorkloadType DEF AddMember, Inv
<1>2. orgs' \in [Orgs -> Lifetimes] /\ orgs'[o] = "present"
  BY <1>1 DEF Inv, TypeOK
<1>3. /\ members' \in [MemberIds -> MemberRow] /\ MembersOK' /\ OwnerRemains'
      /\ MembershipsKept
  BY <1>1, <1>2, AddMemberRowKeeps
<1>4. /\ invitations' \in [Orgs -> [Users -> InvitationRow]]
      /\ InvitationsOK' /\ InvitationSingleWinner'
  BY <1>1, InvitationsStay
<1>5. /\ teams' \in [Teams -> TeamRow] /\ teamMembers' \subseteq Teams \X Users
      /\ sessions' \in [Sessions -> SessionRow]
      /\ TeamsOK' /\ SessionsOK' /\ TeamMembersBelong' /\ ActiveStateValid'
  BY <1>1, <1>3, TeamsAndSessionsStay
<1>6. req' \in [Requests -> Request] /\ \A q \in Requests : RequestOK(req[q])'
  BY <1>1, RequestsStay, TeamsStay, SessionsStay
<1>7. TypeOK'
  BY <1>1, <1>2, <1>3, <1>4, <1>5, <1>6 DEF Inv, TypeOK
<1> QED
  BY <1>3, <1>4, <1>5, <1>6, <1>7 DEF Inv

-----------------------------------------------------------------------------
(* Losing a membership                                                     *)

LEMMA ClearedRow ==
    ASSUME NEW row \in SessionRow
    PROVE  /\ [row EXCEPT !.team = None] \in SessionRow
           /\ [row EXCEPT !.team = None].state = row.state
           /\ [row EXCEPT !.team = None].user = row.user
           /\ [row EXCEPT !.team = None].org = row.org
           /\ [row EXCEPT !.team = None].team = None
           /\ [row EXCEPT !.org = None, !.team = None] \in SessionRow
           /\ [row EXCEPT !.org = None, !.team = None].state = row.state
           /\ [row EXCEPT !.org = None, !.team = None].user = row.user
           /\ [row EXCEPT !.org = None, !.team = None].org = None
           /\ [row EXCEPT !.org = None, !.team = None].team = None
BY DEF SessionRow

LEMMA ClearOrganizationType ==
    ASSUME Inv, NEW o, NEW S, ClearOrganization(o, S)
    PROVE  /\ sessions' \in [Sessions -> SessionRow] /\ SessionsOK' /\ SessionsKept
           /\ \A s \in Sessions :
                IF sessions[s].org = o /\ sessions[s].user \in S
                THEN sessions'[s].org = None /\ sessions'[s].team = None
                ELSE sessions'[s] = sessions[s]
<1>1. ASSUME NEW s \in Sessions
      PROVE  /\ sessions'[s] \in SessionRow
             /\ sessions'[s].state = sessions[s].state /\ sessions'[s].user = sessions[s].user
             /\ IF sessions[s].org = o /\ sessions[s].user \in S
                THEN sessions'[s].org = None /\ sessions'[s].team = None
                ELSE sessions'[s] = sessions[s]
  <2>1. PICK row \in SessionRow : row = sessions[s]
    BY DEF Inv, TypeOK
  <2>2. CASE sessions[s].org = o /\ sessions[s].user \in S
    <3>1. sessions'[s] = [row EXCEPT !.org = None, !.team = None]
      BY <2>1, <2>2 DEF ClearOrganization
    <3> QED
      BY <2>1, <2>2, <3>1, ClearedRow
  <2>3. CASE ~(sessions[s].org = o /\ sessions[s].user \in S)
    BY <2>1, <2>3 DEF ClearOrganization
  <2> QED
    BY <2>2, <2>3
<1>2. sessions' \in [Sessions -> SessionRow]
  BY <1>1 DEF ClearOrganization
<1> QED
  BY <1>1, <1>2 DEF SessionsOK, SessionsKept, Inv

LEMMA SelectionValid ==
    ASSUME ActiveStateValid, NEW s \in Sessions
    PROVE  MaySelect(sessions[s].user, sessions[s].org, sessions[s].team)
BY DEF ActiveStateValid, MaySelect

LEMMA SelectionsValid ==
    ASSUME \A s \in Sessions : \E x, p, t : /\ x = sessions'[s].user /\ p = sessions'[s].org
                                            /\ t = sessions'[s].team /\ MaySelect(x, p, t)'
    PROVE  ActiveStateValid'
BY DEF ActiveStateValid, MaySelect

LEMMA DropMemberKeeps ==
    ASSUME Inv, NEW m \in MemberIds, members[m].state = "present", NotLastOwner(m), DropMember(m),
           UNCHANGED <<workload, orgs, roles, invitations, teams, now, req>>,
           actor' \in Users
    PROVE  Inv'
<1>1. PICK o \in Orgs, u \in Users : /\ o = members[m].org /\ u = members[m].user
                                     /\ orgs[o] = "present"
  BY DEF Inv, MembersOK
<1>2. PICK gone \in MemberRow : gone = [NoMember EXCEPT !.state = "gone"] /\ gone.state = "gone"
  BY RowTypes DEF Lifetimes, NoMember
<1>3. /\ members' = [members EXCEPT ![m] = gone] /\ LeaveTeams(o, u) /\ ClearOrganization(o, {u})
  BY <1>1, <1>2 DEF DropMember
<1>4. /\ members' \in [MemberIds -> MemberRow] /\ members'[m].state = "gone"
      /\ \A x \in MemberIds \ {m} : members'[x] = members[x]
  BY <1>2, <1>3 DEF Inv, TypeOK
<1>5. MembersOK'
  BY <1>4 DEF Inv, MembersOK
<1>6. OwnerRemains'
  <2>1. ASSUME NEW p \in Orgs, orgs[p] = "present" PROVE OwnerRows(p)' # {}
    <3>1. PICK n \in OwnerRows(p) : n # m
      <4>1. CASE p = o /\ IsOwner(m)
        BY <1>1, <4>1, AnotherOwner DEF NotLastOwner
      <4>2. CASE ~(p = o /\ IsOwner(m))
        BY <1>1, <2>1, <4>2 DEF Inv, OwnerRemains, OwnerRows, MembersOf
      <4> QED
        BY <4>1, <4>2
    <3>2. n \in OwnerRows(p)'
      BY <1>4, <3>1 DEF OwnerRows, MembersOf, IsOwner
    <3> QED
      BY <3>2
  <2> QED
    BY <2>1 DEF OwnerRemains
<1>7. ASSUME NEW p, NEW x, IsMember(p, x), p # o \/ x # u PROVE IsMember(p, x)'
  BY <1>1, <1>4, <1>7 DEF IsMember, Membership, MembersOf
<1>8. /\ sessions' \in [Sessions -> SessionRow] /\ SessionsOK' /\ SessionsKept
      /\ \A s \in Sessions :
           IF sessions[s].org = o /\ sessions[s].user \in {u}
           THEN sessions'[s].org = None /\ sessions'[s].team = None
           ELSE sessions'[s] = sessions[s]
  BY <1>3, ClearOrganizationType
<1>9. teamMembers' \subseteq teamMembers /\ \A t, x : /\ <<t, x>> \in teamMembers
                                                      /\ ~(t \in TeamsOf(o) /\ x = u)
                                                      => <<t, x>> \in teamMembers'
  BY <1>3 DEF LeaveTeams
<1>10. TeamMembersBelong'
  <2> SUFFICES ASSUME NEW tm \in teamMembers', teams[tm[1]].state = "present"
               PROVE  IsMember(teams[tm[1]].org, tm[2])'
    BY DEF TeamMembersBelong, IsMember, Membership, MembersOf
  <2>1. tm \in teamMembers /\ tm[1] \in Teams /\ ~(tm[1] \in TeamsOf(o) /\ tm[2] = u)
    BY <1>3 DEF LeaveTeams, Inv, TypeOK
  <2>2. IsMember(teams[tm[1]].org, tm[2]) /\ (teams[tm[1]].org # o \/ tm[2] # u)
    BY <2>1 DEF TeamsOf, Inv, TeamMembersBelong
  <2> QED
    BY <1>7, <2>2
<1>11. ActiveStateValid'
  <2>1. ASSUME NEW s \in Sessions
        PROVE  \E x, p, t : /\ x = sessions'[s].user /\ p = sessions'[s].org
                            /\ t = sessions'[s].team /\ MaySelect(x, p, t)'
    <3>1. CASE sessions[s].org = o /\ sessions[s].user = u
      BY <1>8, <3>1 DEF MaySelect
    <3>2. CASE ~(sessions[s].org = o /\ sessions[s].user = u)
      <4>1. PICK x, p, t : /\ x = sessions[s].user /\ p = sessions[s].org
                           /\ t = sessions[s].team
        OBVIOUS
      <4>2. MaySelect(x, p, t)
        BY <4>1, SelectionValid DEF Inv
      <4>3. p # None => IsMember(p, x)'
        BY <1>7, <3>2, <4>1, <4>2 DEF MaySelect
      <4>4. t # None => t \in TeamsOf(p) /\ <<t, x>> \in teamMembers'
        BY <1>9, <3>2, <4>1, <4>2 DEF MaySelect, TeamsOf
      <4>5. MaySelect(x, p, t)'
        BY <4>3, <4>4 DEF MaySelect, TeamsOf
      <4> QED
        BY <1>8, <3>2, <4>1, <4>5
    <3> QED
      BY <3>1, <3>2
  <2> QED
    BY <2>1, SelectionsValid
<1>12. teams' \in [Teams -> TeamRow] /\ teamMembers' \subseteq Teams \X Users /\ TeamsOK'
  BY <1>9 DEF Inv, TypeOK, TeamsOK
<1>13. /\ invitations' \in [Orgs -> [Users -> InvitationRow]]
       /\ InvitationsOK' /\ InvitationSingleWinner'
  BY InvitationsStay
<1>14. req' \in [Requests -> Request] /\ \A q \in Requests : RequestOK(req[q])'
  BY <1>8, RequestsStay, TeamsStay
<1>15. TypeOK'
  BY <1>4, <1>8, <1>12, <1>13, <1>14 DEF Inv, TypeOK
<1> QED
  BY <1>5, <1>6, <1>8, <1>10, <1>11, <1>12, <1>13, <1>14, <1>15 DEF Inv

LEMMA RemoveMemberKeeps ==
    ASSUME Inv, NEW u \in workload.users, NEW m \in MemberIds,
           RemoveMember(u, m) \/ LeaveOrganization(u, m)
    PROVE  Inv'
<1>1. u \in Users
  BY WorkloadType DEF Inv
<1>2. /\ members[m].state = "present" /\ NotLastOwner(m) /\ DropMember(m) /\ actor' = u
      /\ UNCHANGED <<workload, orgs, roles, invitations, teams, now, req>>
  BY DEF RemoveMember, LeaveOrganization
<1> QED
  BY <1>1, <1>2, DropMemberKeeps

\* The roles of a member change.
LEMMA UpdateMemberRoleKeeps ==
    ASSUME Inv, NEW r \in Requests, UpdateMemberRole(r)
    PROVE  Inv'
<1> DEFINE u == req[r].user
           o == req[r].org
           m == req[r].member
<1>1. /\ req' = [req EXCEPT ![r] = Idle] /\ Authorize(o, u, "member", "update")
      /\ m \in MembersOf(o)
      /\ IsOwner(m) /\ CreatorRole \notin req[r].roles => NotLastOwner(m)
      /\ members' = [members EXCEPT ![m].roles = req[r].roles] /\ actor' = u
      /\ UNCHANGED <<workload, orgs, roles, invitations, teams, teamMembers, sessions, now>>
  BY DEF UpdateMemberRole, Finish
<1>2. u \in Users /\ o \in Orgs
  BY <1>1, AuthorizedMember DEF Authorize, Inv
<1>3. m \in MemberIds /\ members[m].state = "present" /\ members[m].org = o
  BY <1>1 DEF MembersOf
<1>4. PICK names \in SUBSET RoleNames : names = req[r].roles
  BY DEF Inv, TypeOK, Request
<1>5. PICK row \in MemberRow : /\ row = [members[m] EXCEPT !.roles = names]
                               /\ row.state = members[m].state /\ row.org = members[m].org
                               /\ row.user = members[m].user /\ row.roles = names
  <2>1. PICK old \in MemberRow : old = members[m]
    BY <1>3 DEF Inv, TypeOK
  <2>2. /\ [old EXCEPT !.roles = names] \in MemberRow
        /\ [old EXCEPT !.roles = names].state = old.state
        /\ [old EXCEPT !.roles = names].org = old.org
        /\ [old EXCEPT !.roles = names].user = old.user
        /\ [old EXCEPT !.roles = names].roles = names
    BY DEF MemberRow
  <2> QED
    BY <2>1, <2>2
<1>6. /\ members' \in [MemberIds -> MemberRow] /\ members'[m] = row
      /\ \A x \in MemberIds \ {m} : members'[x] = members[x]
  BY <1>1, <1>3, <1>4, <1>5 DEF Inv, TypeOK
<1>7. MembersOK'
  <2>1. ASSUME NEW x \in MemberIds, members'[x].state = "present"
        PROVE  /\ members'[x].org \in Orgs /\ members'[x].user \in Users
               /\ orgs[members'[x].org] = "present"
    <3>1. /\ members[x].state = "present" /\ members'[x].org = members[x].org
          /\ members'[x].user = members[x].user
      BY <1>5, <1>6, <2>1
    <3> QED
      BY <3>1 DEF Inv, MembersOK
  <2> QED
    BY <1>1, <2>1 DEF MembersOK
<1>8. MembershipsKept
  <2>1. ASSUME NEW x \in MemberIds, members[x].state = "present"
        PROVE  /\ members'[x].state = "present" /\ members'[x].org = members[x].org
               /\ members'[x].user = members[x].user
    BY <1>5, <1>6, <2>1
  <2> QED
    BY <2>1, RowsKeepMemberships
<1>9. OwnerRemains'
  <2>1. ASSUME NEW p \in Orgs, orgs[p] = "present" PROVE OwnerRows(p)' # {}
    <3>1. PICK n \in OwnerRows(p) :
            n # m \/ CreatorRole \in names \/ ~(IsOwner(m) /\ p = o)
      <4>1. CASE p = o /\ IsOwner(m) /\ CreatorRole \notin names
        BY <1>1, <1>3, <1>4, <4>1, AnotherOwner DEF NotLastOwner
      <4>2. CASE ~(p = o /\ IsOwner(m) /\ CreatorRole \notin names)
        BY <2>1, <4>2 DEF Inv, OwnerRemains
      <4> QED
        BY <4>1, <4>2
    <3>2. n \in MemberIds /\ members[n].state = "present" /\ members[n].org = p /\ IsOwner(n)
      BY DEF OwnerRows, MembersOf
    <3>3. CASE n # m
      BY <1>6, <3>2, <3>3 DEF OwnerRows, MembersOf, IsOwner
    <3>4. CASE n = m
      <4>1. CreatorRole \in names
        BY <1>3, <3>1, <3>2, <3>4
      <4>2. /\ members'[n].state = "present" /\ members'[n].org = p
            /\ CreatorRole \in members'[n].roles
        BY <1>5, <1>6, <3>2, <3>4, <4>1
      <4> QED
        BY <3>2, <4>2 DEF OwnerRows, MembersOf, IsOwner
    <3> QED
      BY <3>3, <3>4
  <2> QED
    BY <1>1, <2>1 DEF OwnerRemains
<1>10. /\ invitations' \in [Orgs -> [Users -> InvitationRow]]
       /\ InvitationsOK' /\ InvitationSingleWinner'
  BY <1>1, InvitationsStay
<1>11. /\ teams' \in [Teams -> TeamRow] /\ teamMembers' \subseteq Teams \X Users
       /\ sessions' \in [Sessions -> SessionRow]
       /\ TeamsOK' /\ SessionsOK' /\ TeamMembersBelong' /\ ActiveStateValid'
  BY <1>1, <1>8, TeamsAndSessionsStay
<1>12. req' \in [Requests -> Request] /\ \A q \in Requests : RequestOK(req[q])'
  BY <1>1, RequestsStay, TeamsStay, SessionsStay
<1>13. TypeOK'
  BY <1>1, <1>2, <1>6, <1>10, <1>11, <1>12 DEF Inv, TypeOK
<1> QED
  BY <1>7, <1>9, <1>10, <1>11, <1>12, <1>13 DEF Inv

-----------------------------------------------------------------------------
(* The deletion of an organization                                         *)

LEMMA DeleteOrganizationKeeps ==
    ASSUME Inv, NEW u \in workload.users, NEW o \in Orgs, DeleteOrganization(u, o)
    PROVE  Inv'
<1>1. /\ u \in Users /\ orgs' = [orgs EXCEPT ![o] = "gone"]
      /\ members' = [m \in MemberIds |->
                       IF m \in MembersOf(o) THEN [NoMember EXCEPT !.state = "gone"]
                       ELSE members[m]]
      /\ roles' = [roles EXCEPT ![o] = [d \in DynamicRoles |-> {}]]
      /\ invitations' = [invitations EXCEPT ![o] = [v \in Users |-> NoInvitation]]
      /\ teams' = [t \in Teams |->
                     IF t \in TeamsOf(o) THEN [state |-> "gone", org |-> None] ELSE teams[t]]
      /\ teamMembers' = {tm \in teamMembers : tm[1] \notin TeamsOf(o)}
      /\ ClearOrganization(o, Users) /\ actor' = u /\ UNCHANGED <<workload, now, req>>
  BY WorkloadType DEF DeleteOrganization, Inv
<1>2. /\ orgs' \in [Orgs -> Lifetimes] /\ orgs'[o] = "gone"
      /\ \A p \in Orgs \ {o} : orgs'[p] = orgs[p]
  BY <1>1 DEF Inv, TypeOK, Lifetimes
<1>3. PICK gone \in MemberRow : gone = [NoMember EXCEPT !.state = "gone"] /\ gone.state = "gone"
  BY RowTypes DEF Lifetimes, NoMember
<1>4. /\ members' \in [MemberIds -> MemberRow]
      /\ \A m \in MembersOf(o) : members'[m].state = "gone"
      /\ \A m \in MemberIds \ MembersOf(o) : members'[m] = members[m]
  <2>1. members' = [m \in MemberIds |-> IF m \in MembersOf(o) THEN gone ELSE members[m]]
    BY <1>1, <1>3
  <2>2. MembersOf(o) \subseteq MemberIds
    BY DEF MembersOf
  <2> QED
    BY <1>3, <2>1, <2>2 DEF Inv, TypeOK
<1>5. MembersOK'
  <2>1. ASSUME NEW m \in MemberIds, members'[m].state = "present"
        PROVE  /\ members'[m].org \in Orgs /\ members'[m].user \in Users
               /\ orgs'[members'[m].org] = "present"
    <3>1. m \notin MembersOf(o) /\ members'[m] = members[m]
      BY <1>4, <2>1
    <3>2. members[m].state = "present" /\ members[m].org # o
      BY <2>1, <3>1 DEF MembersOf
    <3> QED
      BY <1>2, <3>1, <3>2 DEF Inv, MembersOK
  <2> QED
    BY <2>1 DEF MembersOK
<1>6. ASSUME NEW p, p # o, NEW m \in MembersOf(p)
      PROVE  m \in MembersOf(p)' /\ members'[m] = members[m]
  BY <1>4, <1>6 DEF MembersOf
<1>7. OwnerRemains'
  <2>1. ASSUME NEW p \in Orgs, orgs'[p] = "present" PROVE OwnerRows(p)' # {}
    <3>1. p # o /\ orgs[p] = "present"
      BY <1>2, <2>1
    <3>2. PICK m \in OwnerRows(p) : TRUE
      BY <3>1 DEF Inv, OwnerRemains
    <3>3. m \in OwnerRows(p)'
      BY <1>6, <3>1, <3>2 DEF OwnerRows, IsOwner
    <3> QED
      BY <3>3
  <2> QED
    BY <2>1 DEF OwnerRemains
<1>8. ASSUME NEW p, NEW x, p # o, IsMember(p, x) PROVE IsMember(p, x)'
  <2>1. PICK m \in MembersOf(p) : members[m].user = x
    BY <1>8 DEF IsMember, Membership
  <2>2. m \in MembersOf(p)' /\ members'[m].user = x
    BY <1>6, <1>8, <2>1
  <2> QED
    BY <2>2 DEF IsMember, Membership
<1>9. /\ invitations' \in [Orgs -> [Users -> InvitationRow]]
      /\ InvitationsOK' /\ InvitationSingleWinner'
  <2>1. PICK none \in [Users -> InvitationRow] :
          /\ none = [v \in Users |-> NoInvitation]
          /\ \A v \in Users : none[v].status = "none" /\ none[v].joined = 0
    <3>1. NoInvitation.status = "none" /\ NoInvitation.joined = 0
      BY DEF NoInvitation
    <3>2. [v \in Users |-> NoInvitation] \in [Users -> InvitationRow]
      BY RowTypes
    <3> QED
      BY <3>1, <3>2
  <2>2. /\ invitations' \in [Orgs -> [Users -> InvitationRow]] /\ invitations'[o] = none
        /\ \A p \in Orgs \ {o} : invitations'[p] = invitations[p]
    BY <1>1, <2>1 DEF Inv, TypeOK
  <2>3. InvitationsOK'
    BY <1>2, <2>1, <2>2 DEF Inv, InvitationsOK
  <2>4. InvitationSingleWinner'
    <3>1. ASSUME NEW p \in Orgs, NEW v \in Users
          PROVE  invitations'[p][v].joined
                   = IF invitations'[p][v].status = "accepted" THEN 1 ELSE 0
      BY <2>1, <2>2 DEF Inv, InvitationSingleWinner
    <3> QED
      BY <3>1 DEF InvitationSingleWinner
  <2> QED
    BY <2>2, <2>3, <2>4
<1>10. /\ teams' \in [Teams -> TeamRow] /\ TeamsKept
       /\ \A t \in Teams \ TeamsOf(o) : teams'[t] = teams[t]
       /\ \A t \in TeamsOf(o) : teams'[t].state = "gone"
  <2>1. PICK dead \in TeamRow : dead = [state |-> "gone", org |-> None] /\ dead.state = "gone"
    BY RowTypes
  <2>2. teams' = [t \in Teams |-> IF t \in TeamsOf(o) THEN dead ELSE teams[t]]
    BY <1>1, <2>1
  <2>3. TeamsOf(o) \subseteq Teams
    BY DEF TeamsOf
  <2> QED
    BY <2>1, <2>2, <2>3 DEF Inv, TypeOK, TeamsKept
<1>11. /\ sessions' \in [Sessions -> SessionRow] /\ SessionsOK' /\ SessionsKept
       /\ \A s \in Sessions :
            IF sessions[s].org = o /\ sessions[s].user \in Users
            THEN sessions'[s].org = None /\ sessions'[s].team = None
            ELSE sessions'[s] = sessions[s]
  BY <1>1, ClearOrganizationType
<1>12. teamMembers' \subseteq teamMembers /\ \A tm \in teamMembers' : tm[1] \notin TeamsOf(o)
  BY <1>1
<1>13. TeamsOK' /\ teamMembers' \subseteq Teams \X Users
  <2>1. teamMembers' \subseteq Teams \X Users
    BY <1>12 DEF Inv, TypeOK
  <2>2. ASSUME NEW t \in Teams, teams'[t].state = "present" PROVE teams'[t].org \in Orgs
    BY <1>10, <2>2 DEF Inv, TeamsOK
  <2>3. ASSUME NEW tm \in teamMembers' PROVE teams'[tm[1]].state # "free"
    <3>1. tm[1] \in Teams /\ teams[tm[1]].state # "free"
      BY <1>12 DEF Inv, TypeOK, TeamsOK
    <3> QED
      BY <1>10, <3>1 DEF TeamsKept
  <2> QED
    BY <2>1, <2>2, <2>3 DEF TeamsOK
<1>14. TeamMembersBelong'
  <2>1. ASSUME NEW tm \in teamMembers', teams'[tm[1]].state = "present"
        PROVE  \E p : p = teams'[tm[1]].org /\ IsMember(p, tm[2])'
    <3>1. tm \in teamMembers /\ tm[1] \in Teams /\ tm[1] \notin TeamsOf(o)
      BY <1>12 DEF Inv, TypeOK
    <3>2. teams'[tm[1]] = teams[tm[1]] /\ teams[tm[1]].org # o
      BY <1>10, <2>1, <3>1 DEF TeamsOf
    <3>3. IsMember(teams[tm[1]].org, tm[2])
      BY <2>1, <3>1, <3>2 DEF Inv, TeamMembersBelong
    <3> QED
      BY <1>8, <3>2, <3>3
  <2> QED
    BY <2>1 DEF TeamMembersBelong
<1>15. ActiveStateValid'
  <2>1. ASSUME NEW s \in Sessions
        PROVE  \E x, p, t : /\ x = sessions'[s].user /\ p = sessions'[s].org
                            /\ t = sessions'[s].team /\ MaySelect(x, p, t)'
    <3>1. PICK x, p, t : x = sessions[s].user /\ p = sessions[s].org /\ t = sessions[s].team
      OBVIOUS
    <3>2. MaySelect(x, p, t)
      BY <3>1, SelectionValid DEF Inv
    <3>3. CASE p = o
      <4>1. x \in Users
        BY <3>2, <3>3, IsMemberType, OrganizationAssumption DEF MaySelect, Inv
      <4> QED
        BY <1>11, <3>1, <3>3, <4>1 DEF MaySelect
    <3>4. CASE p # o
      <4>1. p # None => IsMember(p, x)'
        BY <1>8, <3>2, <3>4 DEF MaySelect
      <4>2. t # None => t \in TeamsOf(p)' /\ <<t, x>> \in teamMembers'
        <5> SUFFICES ASSUME t # None PROVE t \in TeamsOf(p)' /\ <<t, x>> \in teamMembers'
          OBVIOUS
        <5>1. /\ t \in Teams /\ teams[t].state = "present" /\ teams[t].org = p
              /\ <<t, x>> \in teamMembers
          BY <3>2 DEF MaySelect, TeamsOf
        <5>2. t \notin TeamsOf(o)
          BY <3>4, <5>1 DEF TeamsOf
        <5>3. teams'[t] = teams[t]
          BY <1>10, <5>1, <5>2
        <5>4. <<t, x>> \in teamMembers'
          BY <1>1, <5>1, <5>2
        <5> QED
          BY <5>1, <5>3, <5>4 DEF TeamsOf
      <4>3. MaySelect(x, p, t)'
        BY <4>1, <4>2 DEF MaySelect
      <4> QED
        BY <1>11, <3>1, <3>4, <4>3
    <3> QED
      BY <3>3, <3>4
  <2> QED
    BY <2>1, SelectionsValid
<1>16. req' \in [Requests -> Request] /\ \A q \in Requests : RequestOK(req[q])'
  BY <1>1, <1>10, <1>11, RequestsStay
<1>17. roles' \in [Orgs -> [DynamicRoles -> SUBSET Permissions]]
  BY <1>1 DEF Inv, TypeOK
<1>18. TypeOK'
  BY <1>1, <1>2, <1>4, <1>9, <1>10, <1>11, <1>13, <1>16, <1>17 DEF Inv, TypeOK
<1> QED
  BY <1>5, <1>7, <1>9, <1>11, <1>13, <1>14, <1>15, <1>16, <1>18 DEF Inv

-----------------------------------------------------------------------------
(* Invitations                                                             *)

\* One invitation is written.
LEMMA InvitationStep ==
    ASSUME Inv, NEW o \in Orgs, NEW v \in Users, NEW row \in InvitationRow,
           invitations' = [invitations EXCEPT ![o][v] = row], UNCHANGED orgs,
           orgs[o] = "present", row.joined = IF row.status = "accepted" THEN 1 ELSE 0
    PROVE  /\ invitations' \in [Orgs -> [Users -> InvitationRow]]
           /\ InvitationsOK' /\ InvitationSingleWinner'
<1>1. PICK rows \in [Users -> InvitationRow] :
        /\ rows = [invitations[o] EXCEPT ![v] = row] /\ rows[v] = row
        /\ \A x \in Users \ {v} : rows[x] = invitations[o][x]
  <2>1. PICK old \in [Users -> InvitationRow] : old = invitations[o]
    BY DEF Inv, TypeOK
  <2>2. PICK rows \in [Users -> InvitationRow] :
          /\ rows = [old EXCEPT ![v] = row] /\ rows[v] = row
          /\ \A x \in Users \ {v} : rows[x] = old[x]
    <3>1. /\ [old EXCEPT ![v] = row] \in [Users -> InvitationRow]
          /\ [old EXCEPT ![v] = row][v] = row
          /\ \A x \in Users \ {v} : [old EXCEPT ![v] = row][x] = old[x]
      BY TableWrite
    <3> QED
      BY <3>1
  <2> QED
    BY <2>1, <2>2
<1>2. /\ invitations' \in [Orgs -> [Users -> InvitationRow]] /\ invitations'[o] = rows
      /\ \A p \in Orgs \ {o} : invitations'[p] = invitations[p]
  BY <1>1 DEF Inv, TypeOK
<1>3. ASSUME NEW p \in Orgs, NEW x \in Users
      PROVE  IF p = o /\ x = v THEN invitations'[p][x] = row
             ELSE invitations'[p][x] = invitations[p][x]
  BY <1>1, <1>2
<1>4. InvitationsOK'
  BY <1>3 DEF Inv, InvitationsOK
<1>5. InvitationSingleWinner'
  <2>1. ASSUME NEW p \in Orgs, NEW x \in Users
        PROVE  invitations'[p][x].joined
                 = IF invitations'[p][x].status = "accepted" THEN 1 ELSE 0
    <3>1. CASE p = o /\ x = v
      BY <1>3, <3>1
    <3>2. CASE ~(p = o /\ x = v)
      <4>1. invitations'[p][x] = invitations[p][x]
        BY <1>3, <3>2
      <4> QED
        BY <4>1 DEF Inv, InvitationSingleWinner
    <3> QED
      BY <3>1, <3>2
  <2> QED
    BY <2>1 DEF InvitationSingleWinner
<1> QED
  BY <1>2, <1>4, <1>5

LEMMA InvitationRowType ==
    ASSUME NEW names \in SUBSET RoleNames, NEW t \in Teams \cup {None}, NEW k \in 0..Horizon
    PROVE  [status |-> "pending", roles |-> names, team |-> t, expiresAt |-> k + InvitationTTL,
            joined |-> 0] \in InvitationRow
<1>1. k + InvitationTTL \in 0..Horizon + InvitationTTL
  BY OrganizationAssumption
<1> QED
  BY <1>1 DEF InvitationRow

\* An invitation is answered or withdrawn.
LEMMA WithdrawnType ==
    ASSUME NEW old \in InvitationRow, NEW st \in {"rejected", "canceled"}
    PROVE  /\ [old EXCEPT !.status = st] \in InvitationRow
           /\ [old EXCEPT !.status = st].status = st
           /\ [old EXCEPT !.status = st].joined = old.joined
BY DEF InvitationRow

LEMMA AcceptedType ==
    ASSUME NEW old \in InvitationRow
    PROVE  /\ [old EXCEPT !.status = "accepted", !.joined = 1] \in InvitationRow
           /\ [old EXCEPT !.status = "accepted", !.joined = 1].status = "accepted"
           /\ [old EXCEPT !.status = "accepted", !.joined = 1].joined = 1
BY DEF InvitationRow

\* Writing the status of an invitation writes its row.
LEMMA StatusWritten ==
    ASSUME Inv, NEW o \in Orgs, NEW v \in Users, NEW old, old = invitations[o][v], NEW st
    PROVE  [invitations EXCEPT ![o][v].status = st]
             = [invitations EXCEPT ![o][v] = [old EXCEPT !.status = st]]
<1>1. PICK row \in InvitationRow : row = old
  BY DEF Inv, TypeOK
<1>2. PICK rows \in [Users -> InvitationRow] : rows = invitations[o] /\ rows[v] = row
  BY <1>1 DEF Inv, TypeOK
<1> QED
  BY <1>1, <1>2 DEF Inv, TypeOK

LEMMA InviteMemberKeeps ==
    ASSUME Inv, NEW r \in Requests, InviteMember(r)
    PROVE  Inv'
<1>1. PICK u \in Users, o \in Orgs, v \in Users, names \in SUBSET RoleNames,
           t \in Teams \cup {None}, k \in 0..Horizon :
        /\ u = req[r].user /\ o = req[r].org /\ v = req[r].invitee /\ names = req[r].roles
        /\ t = req[r].team /\ k = req[r].now
  <2>1. RequestOK(req[r]) /\ req[r].op = "invite" /\ req[r] \in Request
    BY DEF InviteMember, Finish, Inv, TypeOK
  <2> QED
    BY <2>1 DEF RequestOK, Request
<1>2. /\ req' = [req EXCEPT ![r] = Idle] /\ Authorize(o, u, "invitation", "create")
      /\ invitations' = [invitations EXCEPT ![o][v] =
              [status |-> "pending", roles |-> names, team |-> t,
               expiresAt |-> k + InvitationTTL, joined |-> 0]]
      /\ actor' = u
      /\ UNCHANGED <<workload, orgs, members, roles, teams, teamMembers, sessions, now>>
  BY <1>1 DEF InviteMember, Finish, MayInvite
<1>3. orgs[o] = "present"
  BY <1>2, AuthorizedMember DEF Authorize, Inv
<1>4. PICK row \in InvitationRow :
        /\ row = [status |-> "pending", roles |-> names, team |-> t,
                  expiresAt |-> k + InvitationTTL, joined |-> 0]
        /\ row.status = "pending" /\ row.joined = 0
  BY InvitationRowType
<1>5. /\ invitations' \in [Orgs -> [Users -> InvitationRow]]
      /\ InvitationsOK' /\ InvitationSingleWinner'
  BY <1>2, <1>3, <1>4, InvitationStep
<1>6. /\ orgs' \in [Orgs -> Lifetimes] /\ members' \in [MemberIds -> MemberRow]
      /\ MembersOK' /\ OwnerRemains'
  BY <1>2, MembersStay
<1>7. /\ teams' \in [Teams -> TeamRow] /\ teamMembers' \subseteq Teams \X Users
      /\ sessions' \in [Sessions -> SessionRow]
      /\ TeamsOK' /\ SessionsOK' /\ TeamMembersBelong' /\ ActiveStateValid'
  BY <1>2, MembershipsStay, TeamsAndSessionsStay
<1>8. req' \in [Requests -> Request] /\ \A q \in Requests : RequestOK(req[q])'
  BY <1>2, RequestsStay, TeamsStay, SessionsStay
<1>9. TypeOK'
  BY <1>2, <1>5, <1>6, <1>7, <1>8 DEF Inv, TypeOK
<1> QED
  BY <1>5, <1>6, <1>7, <1>8, <1>9 DEF Inv

LEMMA TransitionInvitationKeeps ==
    ASSUME Inv, NEW o \in Orgs, NEW v \in Users, NEW st \in {"rejected", "canceled"},
           TransitionInvitation(o, v, st), actor' \in Users,
           UNCHANGED <<workload, orgs, members, roles, teams, teamMembers, sessions, now, req>>
    PROVE  Inv'
<1>1. invitations[o][v].status = "pending" /\ invitations[o][v].joined = 0
  BY DEF TransitionInvitation, Inv, InvitationSingleWinner
<1>2. orgs[o] = "present"
  BY <1>1 DEF Inv, InvitationsOK
<1>3. PICK old \in InvitationRow : old = invitations[o][v]
  BY DEF Inv, TypeOK
<1>4. PICK row \in InvitationRow : /\ row = [old EXCEPT !.status = st]
                                   /\ row.status = st /\ row.joined = 0
  <2>1. /\ [old EXCEPT !.status = st] \in InvitationRow
        /\ [old EXCEPT !.status = st].status = st
        /\ [old EXCEPT !.status = st].joined = old.joined
    BY WithdrawnType
  <2> QED
    BY <1>1, <1>3, <2>1
<1>5. invitations' = [invitations EXCEPT ![o][v] = row]
  BY <1>3, <1>4, StatusWritten DEF TransitionInvitation
<1>5a. row.joined = IF row.status = "accepted" THEN 1 ELSE 0
  BY <1>4
<1>6. /\ invitations' \in [Orgs -> [Users -> InvitationRow]]
      /\ InvitationsOK' /\ InvitationSingleWinner'
  BY <1>2, <1>5, <1>5a, InvitationStep
<1>7. /\ orgs' \in [Orgs -> Lifetimes] /\ members' \in [MemberIds -> MemberRow]
      /\ MembersOK' /\ OwnerRemains'
  BY MembersStay
<1>8. /\ teams' \in [Teams -> TeamRow] /\ teamMembers' \subseteq Teams \X Users
      /\ sessions' \in [Sessions -> SessionRow]
      /\ TeamsOK' /\ SessionsOK' /\ TeamMembersBelong' /\ ActiveStateValid'
  BY MembershipsStay, TeamsAndSessionsStay
<1>9. req' \in [Requests -> Request] /\ \A q \in Requests : RequestOK(req[q])'
  BY RequestsStay, TeamsStay, SessionsStay
<1>10. TypeOK'
  BY <1>6, <1>7, <1>8, <1>9 DEF Inv, TypeOK
<1> QED
  BY <1>6, <1>7, <1>8, <1>9, <1>10 DEF Inv

LEMMA RejectInvitationKeeps ==
    ASSUME Inv, NEW u \in workload.users, NEW o \in Orgs, RejectInvitation(u, o)
    PROVE  Inv'
BY WorkloadType, TransitionInvitationKeeps DEF RejectInvitation, Inv

LEMMA CancelInvitationKeeps ==
    ASSUME Inv, NEW u \in workload.users, NEW o \in Orgs, NEW v \in Users,
           CancelInvitation(u, o, v)
    PROVE  Inv'
BY WorkloadType, TransitionInvitationKeeps DEF CancelInvitation, Inv

\* A member of the organization joins one of its teams, or a team that is gone.
LEMMA JoinTeamKeeps ==
    ASSUME Inv, MembershipsKept, NEW u \in Users, NEW t \in Teams \cup {None}, JoinTeam(u, t),
           t # None => teams[t].state # "free",
           t # None /\ teams[t].state = "present" => IsMember(teams[t].org, u)',
           UNCHANGED <<teams, sessions>>
    PROVE  /\ teams' \in [Teams -> TeamRow] /\ teamMembers' \subseteq Teams \X Users
           /\ sessions' \in [Sessions -> SessionRow]
           /\ TeamsOK' /\ SessionsOK' /\ TeamMembersBelong' /\ ActiveStateValid'
<1>1. CASE t = None
  BY <1>1, TeamsAndSessionsStay DEF JoinTeam
<1>2. CASE t # None
  <2>1. t \in Teams /\ teamMembers' = teamMembers \cup {<<t, u>>}
    BY <1>2 DEF JoinTeam
  <2>2. teamMembers' \subseteq Teams \X Users
    BY <2>1 DEF Inv, TypeOK
  <2>3. TeamsOK' /\ SessionsOK'
    BY <1>2, <2>1 DEF Inv, TeamsOK, SessionsOK
  <2>4. TeamMembersBelong'
    <3>1. ASSUME NEW tm \in teamMembers', teams[tm[1]].state = "present"
          PROVE  IsMember(teams[tm[1]].org, tm[2])'
      <4>1. CASE tm = <<t, u>>
        BY <1>2, <3>1, <4>1
      <4>2. CASE tm \in teamMembers
        BY <3>1, <4>2 DEF Inv, TeamMembersBelong, MembershipsKept
      <4> QED
        BY <2>1, <4>1, <4>2
    <3> QED
      BY <3>1 DEF TeamMembersBelong
  <2>5. ActiveStateValid'
    <3>1. ASSUME NEW s \in Sessions
          PROVE  \E x, p, y : /\ x = sessions'[s].user /\ p = sessions'[s].org
                              /\ y = sessions'[s].team /\ MaySelect(x, p, y)'
      <4>1. PICK x, p, y : x = sessions[s].user /\ p = sessions[s].org /\ y = sessions[s].team
        OBVIOUS
      <4>2. MaySelect(x, p, y)
        BY <4>1, SelectionValid DEF Inv
      <4>3. MaySelect(x, p, y)'
        BY <2>1, <4>2 DEF MaySelect, MembershipsKept, TeamsOf
      <4> QED
        BY <4>1, <4>3
    <3> QED
      BY <3>1, SelectionsValid
  <2> QED
    BY <2>2, <2>3, <2>4, <2>5 DEF Inv, TypeOK
<1> QED
  BY <1>1, <1>2

LEMMA AcceptInvitationKeeps ==
    ASSUME Inv, NEW r \in Requests, AcceptInvitation(r)
    PROVE  Inv'
<1>1. PICK u \in Users, o \in Orgs : u = req[r].user /\ o = req[r].org
  BY DEF AcceptInvitation, Finish, Inv, RequestOK
<1>2. PICK old \in InvitationRow : old = invitations[o][u]
  BY DEF Inv, TypeOK
<1>2a. invitations' = [invitations EXCEPT ![o][u] =
                         [old EXCEPT !.status = "accepted", !.joined = old.joined + 1]]
  BY <1>1, <1>2 DEF AcceptInvitation
<1>3. /\ req' = [req EXCEPT ![r] = Idle] /\ old.status = "pending"
      /\ AddMemberRow(o, u, old.roles) /\ old.team \in TeamsOf(o) \cup {None}
      /\ JoinTeam(u, old.team) /\ actor' = u
      /\ UNCHANGED <<workload, orgs, roles, teams, sessions, now>>
  BY <1>1, <1>2 DEF AcceptInvitation, Finish
<1>4. old.joined = 0 /\ orgs[o] = "present"
  BY <1>2, <1>3 DEF Inv, InvitationSingleWinner, InvitationsOK
<1>5. PICK row \in InvitationRow : /\ row = [old EXCEPT !.status = "accepted", !.joined = 1]
                                   /\ row.status = "accepted" /\ row.joined = 1
  BY AcceptedType
<1>6. invitations' = [invitations EXCEPT ![o][u] = row]
  <2>1. old.joined + 1 = 1
    BY <1>4
  <2> QED
    BY <1>2a, <1>5, <2>1
<1>6a. row.joined = IF row.status = "accepted" THEN 1 ELSE 0
  BY <1>5
<1>7. /\ invitations' \in [Orgs -> [Users -> InvitationRow]]
      /\ InvitationsOK' /\ InvitationSingleWinner'
  BY <1>3, <1>4, <1>6, <1>6a, InvitationStep
<1>8. old.roles \in SUBSET RoleNames /\ old.team \in Teams \cup {None}
  BY DEF InvitationRow
<1>9. orgs' \in [Orgs -> Lifetimes] /\ orgs'[o] = "present"
  BY <1>3, <1>4 DEF Inv, TypeOK
<1>10. /\ members' \in [MemberIds -> MemberRow] /\ MembersOK' /\ OwnerRemains'
       /\ MembershipsKept /\ IsMember(o, u)'
  BY <1>3, <1>4, <1>8, <1>9, AddMemberRowKeeps
<1>11. old.team # None => teams[old.team].state = "present" /\ teams[old.team].org = o
  BY <1>3 DEF TeamsOf
<1>12. /\ teams' \in [Teams -> TeamRow] /\ teamMembers' \subseteq Teams \X Users
       /\ sessions' \in [Sessions -> SessionRow]
       /\ TeamsOK' /\ SessionsOK' /\ TeamMembersBelong' /\ ActiveStateValid'
  BY <1>3, <1>8, <1>10, <1>11, JoinTeamKeeps
<1>13. req' \in [Requests -> Request] /\ \A q \in Requests : RequestOK(req[q])'
  BY <1>3, RequestsStay, TeamsStay, SessionsStay
<1>14. TypeOK'
  BY <1>3, <1>7, <1>9, <1>10, <1>12, <1>13 DEF Inv, TypeOK
<1> QED
  BY <1>7, <1>10, <1>12, <1>13, <1>14 DEF Inv

-----------------------------------------------------------------------------
(* Teams                                                                   *)

\* Only teams, team members and sessions change, and at most one request ends.
LEMMA TeamStep ==
    ASSUME Inv, UNCHANGED <<workload, orgs, members, roles, invitations, now, actor>>,
           teams' \in [Teams -> TeamRow], TeamsKept, teamMembers' \subseteq Teams \X Users,
           sessions' \in [Sessions -> SessionRow], SessionsKept,
           TeamsOK', SessionsOK', TeamMembersBelong', ActiveStateValid',
           UNCHANGED req \/ \E r \in Requests : req' = [req EXCEPT ![r] = Idle]
    PROVE  Inv'
<1>1. /\ orgs' \in [Orgs -> Lifetimes] /\ members' \in [MemberIds -> MemberRow]
      /\ MembersOK' /\ OwnerRemains'
  BY MembersStay
<1>2. /\ invitations' \in [Orgs -> [Users -> InvitationRow]]
      /\ InvitationsOK' /\ InvitationSingleWinner'
  BY InvitationsStay
<1>3. req' \in [Requests -> Request] /\ \A q \in Requests : RequestOK(req[q])'
  BY RequestsStay
<1>4. TypeOK'
  BY <1>1, <1>2, <1>3 DEF Inv, TypeOK
<1> QED
  BY <1>1, <1>2, <1>3, <1>4 DEF Inv

LEMMA CreateTeamKeeps ==
    ASSUME Inv, NEW u \in workload.users, NEW o \in Orgs, CreateTeam(u, o)
    PROVE  Inv'
<1>1. PICK t \in NewTeamIds : teams' = [teams EXCEPT ![t] = [state |-> "present", org |-> o]]
  BY DEF CreateTeam
<1>2. t \in Teams /\ teams[t].state = "free"
  BY NewIdType DEF NewTeamIds
<1>3. UNCHANGED <<workload, orgs, members, roles, invitations, teamMembers, sessions, now,
                  req, actor>>
  BY DEF CreateTeam
<1>4. PICK row \in TeamRow : row = [state |-> "present", org |-> o] /\ row.org = o
                             /\ row.state = "present"
  BY RowTypes
<1>5. /\ teams' \in [Teams -> TeamRow] /\ teams'[t] = row
      /\ \A x \in Teams \ {t} : teams'[x] = teams[x]
  BY <1>1, <1>2, <1>4 DEF Inv, TypeOK
<1>6. TeamsKept
  BY <1>2, <1>5 DEF TeamsKept
<1>7. \A tm \in teamMembers : tm[1] \in Teams /\ tm[1] # t
  BY <1>2 DEF Inv, TypeOK, TeamsOK
<1>8. TeamsOK'
  <2>1. ASSUME NEW x \in Teams, teams'[x].state = "present" PROVE teams'[x].org \in Orgs
    BY <1>4, <1>5, <2>1 DEF Inv, TeamsOK
  <2>2. ASSUME NEW tm \in teamMembers PROVE teams'[tm[1]].state # "free"
    BY <1>5, <1>7 DEF Inv, TeamsOK
  <2> QED
    BY <1>3, <2>1, <2>2 DEF TeamsOK
<1>9. MembershipsKept
  BY <1>3, MembershipsStay
<1>10. TeamMembersBelong'
  <2>1. ASSUME NEW tm \in teamMembers, teams'[tm[1]].state = "present"
        PROVE  \E p : p = teams'[tm[1]].org /\ IsMember(p, tm[2])'
    <3>1. teams'[tm[1]] = teams[tm[1]]
      BY <1>5, <1>7
    <3>2. IsMember(teams[tm[1]].org, tm[2])
      BY <2>1, <3>1 DEF Inv, TeamMembersBelong
    <3> QED
      BY <1>9, <3>1, <3>2 DEF MembershipsKept
  <2> QED
    BY <1>3, <2>1 DEF TeamMembersBelong
<1>11. ActiveStateValid'
  <2>1. ASSUME NEW s \in Sessions
        PROVE  \E x, p, y : /\ x = sessions'[s].user /\ p = sessions'[s].org
                            /\ y = sessions'[s].team /\ MaySelect(x, p, y)'
    <3>1. PICK x, p, y : x = sessions[s].user /\ p = sessions[s].org /\ y = sessions[s].team
      OBVIOUS
    <3>2. MaySelect(x, p, y)
      BY <3>1, SelectionValid DEF Inv
    <3>3. \A z \in TeamsOf(p) : z \in TeamsOf(p)'
      BY <1>2, <1>5 DEF TeamsOf
    <3>4. MaySelect(x, p, y)'
      BY <1>3, <1>9, <3>2, <3>3 DEF MaySelect, MembershipsKept
    <3> QED
      BY <1>3, <3>1, <3>4
  <2> QED
    BY <2>1, SelectionsValid
<1>12. /\ teamMembers' \subseteq Teams \X Users /\ sessions' \in [Sessions -> SessionRow]
       /\ SessionsOK' /\ SessionsKept
  BY <1>3, SessionsStay DEF Inv, TypeOK, SessionsOK
<1> QED
  BY <1>3, <1>5, <1>6, <1>8, <1>10, <1>11, <1>12, TeamStep

LEMMA ClearTeamType ==
    ASSUME Inv, NEW t, NEW S, ClearTeam(t, S)
    PROVE  /\ sessions' \in [Sessions -> SessionRow] /\ SessionsOK' /\ SessionsKept
           /\ \A s \in Sessions :
                /\ sessions'[s].user = sessions[s].user /\ sessions'[s].org = sessions[s].org
                /\ sessions'[s].team = IF sessions[s].team = t /\ sessions[s].user \in S
                                       THEN None ELSE sessions[s].team
<1>1. ASSUME NEW s \in Sessions
      PROVE  /\ sessions'[s] \in SessionRow
             /\ sessions'[s].state = sessions[s].state /\ sessions'[s].user = sessions[s].user
             /\ sessions'[s].org = sessions[s].org
             /\ sessions'[s].team = IF sessions[s].team = t /\ sessions[s].user \in S
                                    THEN None ELSE sessions[s].team
  <2>1. PICK row \in SessionRow : row = sessions[s]
    BY DEF Inv, TypeOK
  <2>2. CASE sessions[s].team = t /\ sessions[s].user \in S
    <3>1. sessions'[s] = [row EXCEPT !.team = None]
      BY <2>1, <2>2 DEF ClearTeam
    <3> QED
      BY <2>1, <2>2, <3>1, ClearedRow
  <2>3. CASE ~(sessions[s].team = t /\ sessions[s].user \in S)
    <3>1. sessions'[s] = row
      BY <2>1, <2>3 DEF ClearTeam
    <3> QED
      BY <2>1, <2>3, <3>1
  <2> QED
    BY <2>2, <2>3
<1>2. sessions' \in [Sessions -> SessionRow]
  BY <1>1 DEF ClearTeam
<1> QED
  BY <1>1, <1>2 DEF SessionsOK, SessionsKept, Inv

\* Team t goes, or one user leaves it; the sessions that had it active lose it.
LEMMA ShrinkTeam ==
    ASSUME Inv, NEW t \in Teams, NEW S, UNCHANGED members,
           teamMembers' \subseteq teamMembers,
           \A tm \in teamMembers : (tm[1] = t /\ tm[2] \in S) \/ tm \in teamMembers',
           teams' \in [Teams -> TeamRow], TeamsKept,
           \A x \in Teams \ {t} : teams'[x] = teams[x],
           teams'[t] = teams[t] \/ (Users \subseteq S /\ teams'[t].state = "gone"),
           ClearTeam(t, S)
    PROVE  /\ teamMembers' \subseteq Teams \X Users
           /\ TeamsOK' /\ TeamMembersBelong' /\ ActiveStateValid'
<1>1. teamMembers' \subseteq Teams \X Users
  BY DEF Inv, TypeOK
<1>2. MembershipsKept
  BY MembershipsStay
<1>3. TeamsOK'
  <2>1. ASSUME NEW x \in Teams, teams'[x].state = "present" PROVE teams'[x].org \in Orgs
    <3>1. teams'[x] = teams[x]
      BY <2>1
    <3> QED
      BY <2>1, <3>1 DEF Inv, TeamsOK
  <2>2. ASSUME NEW tm \in teamMembers' PROVE teams'[tm[1]].state # "free"
    <3>1. tm[1] \in Teams /\ teams[tm[1]].state # "free"
      BY <1>1 DEF Inv, TypeOK, TeamsOK
    <3> QED
      BY <3>1 DEF TeamsKept
  <2> QED
    BY <2>1, <2>2 DEF TeamsOK
<1>4. TeamMembersBelong'
  <2>1. ASSUME NEW tm \in teamMembers', teams'[tm[1]].state = "present"
        PROVE  \E p : p = teams'[tm[1]].org /\ IsMember(p, tm[2])'
    <3>1. tm \in teamMembers /\ tm[1] \in Teams
      BY <1>1
    <3>2. teams'[tm[1]] = teams[tm[1]]
      BY <2>1, <3>1
    <3>3. IsMember(teams[tm[1]].org, tm[2])
      BY <2>1, <3>1, <3>2 DEF Inv, TeamMembersBelong
    <3> QED
      BY <1>2, <3>2, <3>3 DEF MembershipsKept
  <2> QED
    BY <2>1 DEF TeamMembersBelong
<1>5. ActiveStateValid'
  <2>1. ASSUME NEW s \in Sessions
        PROVE  \E x, p, y : /\ x = sessions'[s].user /\ p = sessions'[s].org
                            /\ y = sessions'[s].team /\ MaySelect(x, p, y)'
    <3>1. PICK x, p, y : x = sessions[s].user /\ p = sessions[s].org /\ y = sessions[s].team
      OBVIOUS
    <3>2. /\ sessions'[s].user = x /\ sessions'[s].org = p
          /\ sessions'[s].team = IF y = t /\ x \in S THEN None ELSE y
      BY <3>1, ClearTeamType
    <3>3. MaySelect(x, p, y)
      BY <3>1, SelectionValid DEF Inv
    <3>4. p # None => IsMember(p, x)'
      BY <1>2, <3>3 DEF MaySelect, MembershipsKept
    <3>5. CASE y = t /\ x \in S
      BY <3>2, <3>4, <3>5 DEF MaySelect
    <3>6. CASE y = None
      BY <3>2, <3>4, <3>6 DEF MaySelect
    <3>7. CASE y # None /\ ~(y = t /\ x \in S)
      <4>1. y \in TeamsOf(p) /\ <<y, x>> \in teamMembers
        BY <3>3, <3>7 DEF MaySelect
      <4>2. x \in Users
        BY <4>1 DEF Inv, TypeOK
      <4>3. <<y, x>> \in teamMembers'
        BY <3>7, <4>1
      <4>4. y \in Teams /\ teams'[y] = teams[y]
        BY <3>7, <4>1, <4>2 DEF TeamsOf
      <4>5. y \in TeamsOf(p)'
        BY <4>1, <4>4 DEF TeamsOf
      <4> QED
        BY <3>2, <3>4, <3>7, <4>3, <4>5 DEF MaySelect
    <3> QED
      BY <3>5, <3>6, <3>7
  <2> QED
    BY <2>1, SelectionsValid
<1> QED
  BY <1>1, <1>3, <1>4, <1>5

LEMMA RemoveTeamKeeps ==
    ASSUME Inv, NEW r \in Requests, RemoveTeam(r)
    PROVE  Inv'
<1>1. PICK t \in Teams : t = req[r].team /\ teams[t].state # "free"
  BY DEF RemoveTeam, Finish, Inv, RequestOK
<1>2. /\ req' = [req EXCEPT ![r] = Idle]
      /\ teams' = [teams EXCEPT ![t] = [state |-> "gone", org |-> None]]
      /\ teamMembers' = {tm \in teamMembers : tm[1] # t} /\ ClearTeam(t, Users)
      /\ UNCHANGED <<workload, orgs, members, roles, invitations, now, actor>>
  BY <1>1 DEF RemoveTeam, Finish
<1>3. PICK row \in TeamRow : row = [state |-> "gone", org |-> None] /\ row.state = "gone"
  BY RowTypes
<1>4. /\ teams' \in [Teams -> TeamRow] /\ teams'[t] = row
      /\ \A x \in Teams \ {t} : teams'[x] = teams[x]
  BY <1>2, <1>3 DEF Inv, TypeOK
<1>5. TeamsKept
  BY <1>3, <1>4 DEF TeamsKept
<1>6. \A tm \in teamMembers : (tm[1] = t /\ tm[2] \in Users) \/ tm \in teamMembers'
  BY <1>2 DEF Inv, TypeOK
<1>7. teamMembers' \subseteq teamMembers /\ teams'[t].state = "gone" /\ Users \subseteq Users
  BY <1>2, <1>3, <1>4
<1>8. /\ teamMembers' \subseteq Teams \X Users
      /\ TeamsOK' /\ TeamMembersBelong' /\ ActiveStateValid'
  BY <1>2, <1>4, <1>5, <1>6, <1>7, ShrinkTeam
<1>9. sessions' \in [Sessions -> SessionRow] /\ SessionsOK' /\ SessionsKept
  BY <1>2, ClearTeamType
<1> QED
  BY <1>2, <1>4, <1>5, <1>8, <1>9, TeamStep

LEMMA RemoveTeamMemberKeeps ==
    ASSUME Inv, NEW r \in Requests, RemoveTeamMember(r)
    PROVE  Inv'
<1>1. PICK t \in Teams, v \in Users : t = req[r].team /\ v = req[r].invitee
  BY DEF RemoveTeamMember, Finish, Inv, RequestOK
<1>2. PICK S : S = {v}
  OBVIOUS
<1>3. /\ req' = [req EXCEPT ![r] = Idle]
      /\ teamMembers' = teamMembers \ {<<t, v>>}
      /\ UNCHANGED <<workload, orgs, members, roles, invitations, teams, now, actor>>
  BY <1>1 DEF RemoveTeamMember, Finish
<1>4. ClearTeam(t, S)
  BY <1>1, <1>2 DEF RemoveTeamMember
<1>5. /\ teams' \in [Teams -> TeamRow] /\ teams'[t] = teams[t]
      /\ \A x \in Teams \ {t} : teams'[x] = teams[x]
  BY <1>3 DEF Inv, TypeOK
<1>6. UNCHANGED members /\ TeamsKept
  BY <1>3, TeamsStay
<1>7. /\ teamMembers' \subseteq teamMembers
      /\ \A tm \in teamMembers : (tm[1] = t /\ tm[2] \in S) \/ tm \in teamMembers'
  BY <1>2, <1>3
<1>8. /\ teamMembers' \subseteq Teams \X Users
      /\ TeamsOK' /\ TeamMembersBelong' /\ ActiveStateValid'
  BY <1>4, <1>5, <1>6, <1>7, ShrinkTeam
<1>9. sessions' \in [Sessions -> SessionRow] /\ SessionsOK' /\ SessionsKept
  BY <1>4, ClearTeamType
<1> QED
  BY <1>3, <1>5, <1>6, <1>8, <1>9, TeamStep

\* The team may be gone by now; if not, it is still the organization's whose
\* membership was checked again.
LEMMA AddTeamMemberKeeps ==
    ASSUME Inv, NEW r \in Requests, AddTeamMember(r)
    PROVE  Inv'
<1>1. PICK t \in Teams, v \in Users :
        /\ t = req[r].team /\ v = req[r].invitee /\ teams[t].state # "free"
        /\ teams[t].state = "present" => teams[t].org = req[r].org
  BY DEF AddTeamMember, Finish, Inv, RequestOK
<1>2. /\ req' = [req EXCEPT ![r] = Idle] /\ IsMember(req[r].org, v) /\ JoinTeam(v, t)
      /\ UNCHANGED <<workload, orgs, members, roles, invitations, teams, sessions, now, actor>>
  BY <1>1 DEF AddTeamMember, Finish
<1>3. MembershipsKept /\ TeamsKept /\ SessionsKept
  BY <1>2, MembershipsStay, TeamsStay, SessionsStay
<1>4. teams[t].state = "present" => IsMember(teams[t].org, v)'
  BY <1>1, <1>2, <1>3 DEF MembershipsKept
<1>5. /\ teams' \in [Teams -> TeamRow] /\ teamMembers' \subseteq Teams \X Users
      /\ sessions' \in [Sessions -> SessionRow]
      /\ TeamsOK' /\ SessionsOK' /\ TeamMembersBelong' /\ ActiveStateValid'
  BY <1>1, <1>2, <1>3, <1>4, JoinTeamKeeps
<1> QED
  BY <1>2, <1>3, <1>5, TeamStep

\* A dynamic role is defined, changed or dropped.
LEMMA WriteRoleKeeps ==
    ASSUME Inv, NEW o \in Orgs, NEW d \in DynamicRoles, NEW p \in SUBSET Permissions,
           WriteRole(o, d, p)
    PROVE  Inv'
<1>1. /\ roles' = [roles EXCEPT ![o][d] = p]
      /\ UNCHANGED <<workload, orgs, members, invitations, teams, teamMembers, sessions, now,
                     req, actor>>
  BY DEF WriteRole
<1>2. roles' \in [Orgs -> [DynamicRoles -> SUBSET Permissions]]
  BY <1>1 DEF Inv, TypeOK
<1>3. /\ orgs' \in [Orgs -> Lifetimes] /\ members' \in [MemberIds -> MemberRow]
      /\ MembersOK' /\ OwnerRemains'
  BY <1>1, MembersStay
<1>4. /\ invitations' \in [Orgs -> [Users -> InvitationRow]]
      /\ InvitationsOK' /\ InvitationSingleWinner'
  BY <1>1, InvitationsStay
<1>5. /\ teams' \in [Teams -> TeamRow] /\ teamMembers' \subseteq Teams \X Users
      /\ sessions' \in [Sessions -> SessionRow]
      /\ TeamsOK' /\ SessionsOK' /\ TeamMembersBelong' /\ ActiveStateValid'
  BY <1>1, MembershipsStay, TeamsAndSessionsStay
<1>6. req' \in [Requests -> Request] /\ \A q \in Requests : RequestOK(req[q])'
  BY <1>1, RequestsStay, TeamsStay, SessionsStay
<1>7. TypeOK'
  BY <1>1, <1>2, <1>3, <1>4, <1>5, <1>6 DEF Inv, TypeOK
<1> QED
  BY <1>3, <1>4, <1>5, <1>6, <1>7 DEF Inv

LEMMA RolesKeep ==
    ASSUME Inv, NEW u \in workload.users, NEW o \in Orgs, NEW d \in DynamicRoles,
           DeleteRole(u, o, d)
             \/ \E p \in PermissionInputs : CreateRole(u, o, d, p) \/ UpdateRole(u, o, d, p)
    PROVE  Inv'
<1>1. PICK p \in SUBSET Permissions : WriteRole(o, d, p)
  <2>1. CASE DeleteRole(u, o, d)
    <3>1. WriteRole(o, d, {}) /\ {} \in SUBSET Permissions
      BY <2>1 DEF DeleteRole
    <3> QED
      BY <3>1
  <2>2. ASSUME NEW p \in PermissionInputs, CreateRole(u, o, d, p) \/ UpdateRole(u, o, d, p)
        PROVE  WriteRole(o, d, p) /\ p \in SUBSET Permissions
    BY <2>2, OrganizationAssumption DEF CreateRole, UpdateRole
  <2> QED
    BY <2>1, <2>2
<1> QED
  BY <1>1, WriteRoleKeeps

-----------------------------------------------------------------------------
(* The active organization and team                                        *)

\* Only sessions and one request change.
LEMMA SelectionStep ==
    ASSUME Inv, UNCHANGED <<workload, orgs, members, roles, invitations, teams, teamMembers,
                            now, actor>>,
           sessions' \in [Sessions -> SessionRow], SessionsKept, SessionsOK', ActiveStateValid',
           req' \in [Requests -> Request], \A q \in Requests : RequestOK(req[q])'
    PROVE  Inv'
<1>1. /\ orgs' \in [Orgs -> Lifetimes] /\ members' \in [MemberIds -> MemberRow]
      /\ MembersOK' /\ OwnerRemains'
  BY MembersStay
<1>2. /\ invitations' \in [Orgs -> [Users -> InvitationRow]]
      /\ InvitationsOK' /\ InvitationSingleWinner'
  BY InvitationsStay
<1>3. MembershipsKept
  BY MembershipsStay
<1>4. TeamsOK' /\ TeamMembersBelong'
  BY <1>3 DEF Inv, TeamsOK, TeamMembersBelong, MembershipsKept
<1>5. TypeOK'
  BY <1>1, <1>2 DEF Inv, TypeOK
<1> QED
  BY <1>1, <1>2, <1>4, <1>5 DEF Inv

\* Nothing is selected in a new session; the others keep what they have.
LEMMA SelectionsStay ==
    ASSUME Inv, UNCHANGED <<members, teams, teamMembers>>,
           \A s \in Sessions :
              \/ /\ sessions'[s].user = sessions[s].user /\ sessions'[s].org = sessions[s].org
                 /\ sessions'[s].team = sessions[s].team
              \/ sessions'[s].org = None /\ sessions'[s].team = None
    PROVE  ActiveStateValid'
<1>1. ASSUME NEW s \in Sessions
      PROVE  \E x, p, y : /\ x = sessions'[s].user /\ p = sessions'[s].org
                          /\ y = sessions'[s].team /\ MaySelect(x, p, y)'
  <2>1. CASE /\ sessions'[s].user = sessions[s].user /\ sessions'[s].org = sessions[s].org
             /\ sessions'[s].team = sessions[s].team
    <3>1. PICK x, p, y : x = sessions[s].user /\ p = sessions[s].org /\ y = sessions[s].team
      OBVIOUS
    <3>2. MaySelect(x, p, y)
      BY <3>1, SelectionValid DEF Inv
    <3>3. MaySelect(x, p, y)'
      BY <3>2, MembershipsStay DEF MaySelect, MembershipsKept, TeamsOf
    <3> QED
      BY <2>1, <3>1, <3>3
  <2>2. CASE sessions'[s].org = None /\ sessions'[s].team = None
    BY <2>2 DEF MaySelect
  <2> QED
    BY <2>1, <2>2
<1> QED
  BY <1>1, SelectionsValid

LEMMA LiveSession ==
    ASSUME NEW u \in Users
    PROVE  LET row == [FreeSession EXCEPT !.state = "live", !.user = u]
           IN  /\ row \in SessionRow /\ row.state = "live" /\ row.user = u
               /\ row.org = None /\ row.team = None
BY DEF FreeSession, SessionRow

LEMMA SignInKeeps ==
    ASSUME Inv, NEW u \in workload.users, SignIn(u)
    PROVE  Inv'
<1>1. PICK s \in NewSessionIds :
        sessions' = [sessions EXCEPT ![s] = [FreeSession EXCEPT !.state = "live", !.user = u]]
  BY DEF SignIn
<1>2. s \in Sessions /\ sessions[s].state = "free" /\ u \in Users
  BY NewIdType, WorkloadType DEF NewSessionIds, Inv
<1>3. UNCHANGED <<workload, orgs, members, roles, invitations, teams, teamMembers, now, actor, req>>
  BY DEF SignIn, SessionsOnly
<1>4. PICK row \in SessionRow :
        /\ row = [FreeSession EXCEPT !.state = "live", !.user = u]
        /\ row.state = "live" /\ row.user = u /\ row.org = None /\ row.team = None
  BY <1>2, LiveSession
<1>5. /\ sessions' \in [Sessions -> SessionRow] /\ sessions'[s] = row
      /\ \A x \in Sessions \ {s} : sessions'[x] = sessions[x]
  BY <1>1, <1>2, <1>4 DEF Inv, TypeOK
<1>6. SessionsKept
  BY <1>2, <1>5 DEF SessionsKept
<1>7. SessionsOK'
  BY <1>2, <1>4, <1>5 DEF SessionsOK, Inv
<1>8. ActiveStateValid'
  <2>1. \A x \in Sessions :
          \/ /\ sessions'[x].user = sessions[x].user /\ sessions'[x].org = sessions[x].org
             /\ sessions'[x].team = sessions[x].team
          \/ sessions'[x].org = None /\ sessions'[x].team = None
    BY <1>4, <1>5
  <2> QED
    BY <1>3, <2>1, SelectionsStay
<1>9. req' \in [Requests -> Request] /\ \A q \in Requests : RequestOK(req[q])'
  BY <1>3, <1>6, RequestsStay, TeamsStay
<1> QED
  BY <1>3, <1>5, <1>6, <1>7, <1>8, <1>9, SelectionStep

LEMMA IssueSessionKeeps ==
    ASSUME Inv, NEW r \in Requests, IssueSession(r)
    PROVE  Inv'
<1>1. PICK s \in Sessions, u \in Users :
        /\ s = req[r].session /\ u = req[r].user /\ sessions[s].state # "free"
  BY DEF IssueSession, Inv, RequestOK
<1>2. PICK issued \in NewSessionIds :
        /\ sessions' = [sessions EXCEPT
                ![s].state = IF @ = "live" THEN "revoked" ELSE @,
                ![issued] = [FreeSession EXCEPT !.state = "live", !.user = u]]
        /\ req' = [req EXCEPT ![r].op = "activate", ![r].session = issued]
  BY <1>1 DEF IssueSession
<1>3. UNCHANGED <<workload, orgs, members, roles, invitations, teams, teamMembers, now, actor>>
  BY DEF IssueSession, SessionsOnly
<1>4. issued \in Sessions /\ sessions[issued].state = "free" /\ issued # s
  BY <1>1, NewIdType DEF NewSessionIds
<1>5. PICK fresh \in SessionRow :
        /\ fresh = [FreeSession EXCEPT !.state = "live", !.user = u]
        /\ fresh.state = "live" /\ fresh.user = u /\ fresh.org = None /\ fresh.team = None
  BY LiveSession
<1>6. PICK old \in SessionRow : old = sessions[s]
  BY DEF Inv, TypeOK
<1>7. PICK st \in {"live", "free", "revoked"} :
        st = (IF old.state = "live" THEN "revoked" ELSE old.state) /\ st # "free"
  BY <1>1, <1>6 DEF SessionRow
<1>8. PICK ended \in SessionRow :
        /\ ended = [old EXCEPT !.state = st] /\ ended.state = st /\ ended.user = old.user
        /\ ended.org = old.org /\ ended.team = old.team
  <2>1. /\ [old EXCEPT !.state = st] \in SessionRow /\ [old EXCEPT !.state = st].state = st
        /\ [old EXCEPT !.state = st].user = old.user
        /\ [old EXCEPT !.state = st].org = old.org /\ [old EXCEPT !.state = st].team = old.team
    BY DEF SessionRow
  <2> QED
    BY <2>1
<1>9. /\ sessions' \in [Sessions -> SessionRow] /\ sessions'[s] = ended
      /\ sessions'[issued] = fresh
      /\ \A x \in Sessions \ {s, issued} : sessions'[x] = sessions[x]
  <2>1. sessions' = [[sessions EXCEPT ![s] = ended] EXCEPT ![issued] = fresh]
    <3>1. sessions' = [[sessions EXCEPT ![s].state = st] EXCEPT ![issued] = fresh]
      BY <1>2, <1>5, <1>6, <1>7
    <3>2. [sessions EXCEPT ![s].state = st] = [sessions EXCEPT ![s] = ended]
      BY <1>6, <1>8 DEF Inv, TypeOK
    <3> QED
      BY <3>1, <3>2
  <2>2. PICK mid \in [Sessions -> SessionRow] :
          /\ mid = [sessions EXCEPT ![s] = ended] /\ mid[s] = ended
          /\ \A x \in Sessions \ {s} : mid[x] = sessions[x]
    <3>1. sessions \in [Sessions -> SessionRow]
      BY DEF Inv, TypeOK
    <3>2. /\ [sessions EXCEPT ![s] = ended] \in [Sessions -> SessionRow]
          /\ [sessions EXCEPT ![s] = ended][s] = ended
          /\ \A x \in Sessions \ {s} : [sessions EXCEPT ![s] = ended][x] = sessions[x]
      BY <1>8, <3>1, TableWrite
    <3> QED
      BY <3>2
  <2>3. /\ [mid EXCEPT ![issued] = fresh] \in [Sessions -> SessionRow]
        /\ [mid EXCEPT ![issued] = fresh][issued] = fresh
        /\ \A x \in Sessions \ {issued} : [mid EXCEPT ![issued] = fresh][x] = mid[x]
    BY <1>4, <1>5
  <2> QED
    BY <1>4, <2>1, <2>2, <2>3
<1>10. ASSUME NEW x \in Sessions, sessions[x].state # "free"
       PROVE  sessions'[x].state # "free" /\ sessions'[x].user = sessions[x].user
  <2>1. CASE x = s
    BY <1>6, <1>7, <1>8, <1>9, <2>1
  <2>2. CASE x # s
    BY <1>4, <1>9, <1>10, <2>2
  <2> QED
    BY <2>1, <2>2
<1>11. SessionsKept
  BY <1>10 DEF SessionsKept
<1>12. SessionsOK'
  <2>1. ASSUME NEW x \in Sessions, sessions'[x].state # "free" PROVE sessions'[x].user \in Users
    <3>1. CASE x = issued
      BY <1>5, <1>9, <3>1
    <3>2. CASE x # issued
      <4>1. sessions[x].state # "free"
        BY <1>1, <1>9, <2>1, <3>2
      <4> QED
        BY <1>10, <4>1 DEF SessionsOK, Inv
    <3> QED
      BY <3>1, <3>2
  <2> QED
    BY <2>1 DEF SessionsOK
<1>13. ActiveStateValid'
  <2>1. ASSUME NEW x \in Sessions
        PROVE  \/ /\ sessions'[x].user = sessions[x].user /\ sessions'[x].org = sessions[x].org
                  /\ sessions'[x].team = sessions[x].team
               \/ sessions'[x].org = None /\ sessions'[x].team = None
    <3>1. CASE x = issued
      BY <1>5, <1>9, <3>1
    <3>2. CASE x = s
      BY <1>6, <1>8, <1>9, <3>2
    <3>3. CASE x \notin {s, issued}
      BY <1>9, <3>3
    <3> QED
      BY <3>1, <3>2, <3>3
  <2> QED
    BY <1>3, <2>1, SelectionsStay
<1>14. PICK n \in Request :
         /\ n = [req[r] EXCEPT !.op = "activate", !.session = issued]
         /\ n.op = "activate" /\ n.session = issued /\ n.user = u
  <2>1. PICK q \in Request : q = req[r]
    BY DEF Inv, TypeOK
  <2>2. /\ [q EXCEPT !.op = "activate", !.session = issued] \in Request
        /\ [q EXCEPT !.op = "activate", !.session = issued].op = "activate"
        /\ [q EXCEPT !.op = "activate", !.session = issued].session = issued
        /\ [q EXCEPT !.op = "activate", !.session = issued].user = q.user
    BY <1>4 DEF Request
  <2> QED
    BY <1>1, <2>1, <2>2
<1>15. req' = [req EXCEPT ![r] = n]
  BY <1>2, <1>14 DEF Inv, TypeOK
<1>16. RequestOK(n)'
  BY <1>4, <1>5, <1>9, <1>14 DEF RequestOK
<1>17. req' \in [Requests -> Request] /\ \A q \in Requests : RequestOK(req[q])'
  BY <1>3, <1>11, <1>15, <1>16, RequestsStep, TeamsStay
<1> QED
  BY <1>3, <1>9, <1>11, <1>12, <1>13, <1>17, SelectionStep

\* The selection that was checked again in the transaction is the session user's.
LEMMA RotateActiveSessionKeeps ==
    ASSUME Inv, NEW r \in Requests, RotateActiveSession(r)
    PROVE  Inv'
<1>1. PICK s \in Sessions, u \in Users, o \in Orgs \cup {None}, t \in Teams \cup {None} :
        /\ s = req[r].session /\ u = req[r].user /\ sessions[s].user = u
        /\ o = req[r].org /\ t = req[r].team
  <2>1. RequestOK(req[r]) /\ req[r].op = "activate" /\ req[r] \in Request
    BY DEF RotateActiveSession, Finish, Inv, TypeOK
  <2> QED
    BY <2>1 DEF RequestOK, Request
<1>2. /\ req' = [req EXCEPT ![r] = Idle] /\ MaySelect(u, o, t)
      /\ sessions' = [sessions EXCEPT ![s].org = o, ![s].team = t]
      /\ UNCHANGED <<workload, orgs, members, roles, invitations, teams, teamMembers, now, actor>>
  BY <1>1 DEF RotateActiveSession, Finish, SessionsOnly
<1>3. PICK old \in SessionRow : old = sessions[s]
  BY DEF Inv, TypeOK
<1>4. PICK row \in SessionRow :
        /\ row = [old EXCEPT !.org = o, !.team = t] /\ row.org = o /\ row.team = t
        /\ row.user = old.user /\ row.state = old.state
  <2>1. /\ [old EXCEPT !.org = o, !.team = t] \in SessionRow
        /\ [old EXCEPT !.org = o, !.team = t].org = o
        /\ [old EXCEPT !.org = o, !.team = t].team = t
        /\ [old EXCEPT !.org = o, !.team = t].user = old.user
        /\ [old EXCEPT !.org = o, !.team = t].state = old.state
    BY DEF SessionRow
  <2> QED
    BY <2>1
<1>5. /\ sessions' \in [Sessions -> SessionRow] /\ sessions'[s] = row
      /\ \A x \in Sessions \ {s} : sessions'[x] = sessions[x]
  BY <1>2, <1>3, <1>4 DEF Inv, TypeOK
<1>6. SessionsKept
  BY <1>3, <1>4, <1>5 DEF SessionsKept
<1>7. SessionsOK'
  BY <1>3, <1>4, <1>5 DEF SessionsOK, Inv
<1>8. ActiveStateValid'
  <2>1. \A x, p, y : MaySelect(x, p, y) => MaySelect(x, p, y)'
    BY <1>2, MembershipsStay DEF MaySelect, MembershipsKept, TeamsOf
  <2>2. ASSUME NEW x \in Sessions
        PROVE  \E v, p, y : /\ v = sessions'[x].user /\ p = sessions'[x].org
                            /\ y = sessions'[x].team /\ MaySelect(v, p, y)'
    <3>1. CASE x = s
      BY <1>1, <1>2, <1>3, <1>4, <1>5, <2>1, <3>1
    <3>2. CASE x # s
      BY <1>5, <2>1, <3>2, SelectionValid DEF Inv
    <3> QED
      BY <3>1, <3>2
  <2> QED
    BY <2>2, SelectionsValid
<1>9. req' \in [Requests -> Request] /\ \A q \in Requests : RequestOK(req[q])'
  BY <1>2, <1>6, RequestsStay, TeamsStay
<1> QED
  BY <1>2, <1>5, <1>6, <1>7, <1>8, <1>9, SelectionStep

LEMMA TickKeeps ==
    ASSUME Inv, Tick
    PROVE  Inv'
<1>1. /\ UNCHANGED <<workload, orgs, members, roles, invitations, teams, teamMembers, sessions,
                     req, actor>>
      /\ now' = now + 1 /\ now < Horizon
  BY DEF Tick, tables
<1>2. now' \in 0..Horizon
  BY <1>1, OrganizationAssumption DEF Inv, TypeOK
<1>3. req' \in [Requests -> Request] /\ \A q \in Requests : RequestOK(req[q])'
  BY <1>1, RequestsStay, TeamsStay, SessionsStay
<1>4. /\ orgs' \in [Orgs -> Lifetimes] /\ members' \in [MemberIds -> MemberRow]
      /\ MembersOK' /\ OwnerRemains'
  BY <1>1, MembersStay
<1>5. /\ invitations' \in [Orgs -> [Users -> InvitationRow]]
      /\ InvitationsOK' /\ InvitationSingleWinner'
  BY <1>1, InvitationsStay
<1>6. /\ teams' \in [Teams -> TeamRow] /\ teamMembers' \subseteq Teams \X Users
      /\ sessions' \in [Sessions -> SessionRow]
      /\ TeamsOK' /\ SessionsOK' /\ TeamMembersBelong' /\ ActiveStateValid'
  BY <1>1, MembershipsStay, TeamsAndSessionsStay
<1>7. TypeOK'
  BY <1>1, <1>2, <1>3, <1>4, <1>5, <1>6 DEF Inv, TypeOK
<1> QED
  BY <1>3, <1>4, <1>5, <1>6, <1>7 DEF Inv

-----------------------------------------------------------------------------
(* The invariant holds, and what it gives                                  *)

LEMMA InitInv == Init => Inv
<1> SUFFICES ASSUME Init PROVE Inv
  OBVIOUS
<1>1. /\ orgs \in [Orgs -> Lifetimes] /\ \A o \in Orgs : orgs[o] = "free"
      /\ \A m \in MemberIds : members[m] = NoMember
      /\ \A o \in Orgs, u \in Users : invitations[o][u] = NoInvitation
      /\ \A t \in Teams : teams[t] = [state |-> "free", org |-> None]
      /\ teamMembers = {}
      /\ \A s \in Sessions : sessions[s] = FreeSession
      /\ \A r \in Requests : req[r] = Idle
  BY DEF Init, Lifetimes
<1>2. TypeOK
  <2>1. teams \in [Teams -> TeamRow]
    BY DEF Init, TeamRow, Lifetimes
  <2>2. now \in 0..Horizon
    BY OrganizationAssumption DEF Init
  <2>3. roles \in [Orgs -> [DynamicRoles -> SUBSET Permissions]]
    BY DEF Init
  <2>4. invitations \in [Orgs -> [Users -> InvitationRow]]
    BY RowTypes DEF Init
  <2>5. members \in [MemberIds -> MemberRow] /\ sessions \in [Sessions -> SessionRow]
    BY RowTypes DEF Init
  <2>6. req \in [Requests -> Request]
    BY IdleType DEF Init
  <2>7. workload \in Workloads /\ actor \in Users \cup {None} /\ teamMembers \subseteq Teams \X Users
    BY DEF Init
  <2> QED
    BY <1>1, <2>1, <2>2, <2>3, <2>4, <2>5, <2>6, <2>7 DEF TypeOK
<1>3. MembersOK
  BY <1>1 DEF MembersOK, NoMember
<1>4. InvitationsOK /\ InvitationSingleWinner
  BY <1>1 DEF InvitationsOK, InvitationSingleWinner, NoInvitation
<1>5. TeamsOK /\ TeamMembersBelong
  BY <1>1 DEF TeamsOK, TeamMembersBelong
<1>6. SessionsOK /\ ActiveStateValid
  BY <1>1 DEF SessionsOK, ActiveStateValid, FreeSession
<1>7. \A r \in Requests : RequestOK(req[r])
  BY <1>1, IdleType DEF RequestOK
<1>8. OwnerRemains
  BY <1>1 DEF OwnerRemains
<1> QED
  BY <1>2, <1>3, <1>4, <1>5, <1>6, <1>7, <1>8 DEF Inv

LEMMA StutterKeeps == Inv /\ UNCHANGED vars => Inv'
<1> SUFFICES ASSUME Inv, UNCHANGED vars PROVE Inv'
  OBVIOUS
<1>1. /\ UNCHANGED <<workload, orgs, members, roles, invitations, teams, teamMembers, sessions,
                     now, req, actor>>
  BY DEF vars, tables
<1>2. SessionsOK' /\ TeamsOK' /\ TeamMembersBelong' /\ ActiveStateValid'
  BY <1>1, MembershipsStay, TeamsAndSessionsStay
<1>3. /\ teams' \in [Teams -> TeamRow] /\ TeamsKept /\ SessionsKept
      /\ teamMembers' \subseteq Teams \X Users /\ sessions' \in [Sessions -> SessionRow]
  BY <1>1, TeamsStay, SessionsStay DEF Inv, TypeOK
<1> QED
  BY <1>1, <1>2, <1>3, TeamStep

LEMMA TransactionKeeps ==
    ASSUME Inv, NEW r \in Requests, Transaction(r)
    PROVE  Inv'
BY UpdateMemberRoleKeeps, InviteMemberKeeps, AcceptInvitationKeeps, RemoveTeamKeeps,
   AddTeamMemberKeeps, RemoveTeamMemberKeeps, IssueSessionKeeps, RotateActiveSessionKeeps
   DEF Transaction

LEMMA NextKeeps == Inv /\ [Next]_vars => Inv'
<1> SUFFICES ASSUME Inv, [Next]_vars PROVE Inv'
  OBVIOUS
<1>1. ASSUME NEW u \in workload.users, NEW o \in Orgs,
             \/ CreateOrganization(u, o) \/ DeleteOrganization(u, o) \/ RejectInvitation(u, o)
             \/ CreateTeam(u, o)
      PROVE  Inv'
  BY <1>1, CreateOrganizationKeeps, DeleteOrganizationKeeps, RejectInvitationKeeps, CreateTeamKeeps
<1>2. ASSUME NEW u \in workload.users, NEW o \in Orgs, NEW v \in Users, CancelInvitation(u, o, v)
      PROVE  Inv'
  BY <1>2, CancelInvitationKeeps
<1>3. ASSUME NEW u \in workload.users, NEW o \in Orgs, NEW names \in workload.roles,
             AddMember(o, u, names)
      PROVE  Inv'
  BY <1>3, AddMemberKeeps
<1>4. ASSUME NEW u \in workload.users, NEW o \in Orgs, NEW d \in DynamicRoles,
             DeleteRole(u, o, d)
               \/ \E p \in PermissionInputs : CreateRole(u, o, d, p) \/ UpdateRole(u, o, d, p)
      PROVE  Inv'
  BY <1>4, RolesKeep
<1>5. ASSUME NEW u \in workload.users, NEW m \in MemberIds,
             RemoveMember(u, m) \/ LeaveOrganization(u, m)
      PROVE  Inv'
  BY <1>5, RemoveMemberKeeps
<1>6. ASSUME NEW u \in workload.users, SignIn(u) PROVE Inv'
  BY <1>6, SignInKeeps
<1>7. ASSUME NEW r \in Requests, Transaction(r) \/ Refuse(r) PROVE Inv'
  BY <1>7, TransactionKeeps, RefuseKeeps
<1>8. ASSUME NEW r \in Requests, NEW u \in workload.users, NEW m \in MemberIds,
             NEW names \in workload.roles, BeginUpdateMemberRole(r, u, m, names)
      PROVE  Inv'
  BY <1>8, BeginUpdateMemberRoleKeeps
<1>9. ASSUME NEW r \in Requests, NEW u \in workload.users, NEW v \in Users, NEW o \in Orgs,
             NEW names \in workload.roles, NEW t \in Teams \cup {None}, NEW resend \in BOOLEAN,
             BeginInviteMember(r, u, o, v, names, t, resend)
      PROVE  Inv'
  BY <1>9, BeginInviteMemberKeeps
<1>10. ASSUME NEW r \in Requests, NEW u \in workload.users, NEW o \in Orgs,
              BeginAcceptInvitation(r, u, o)
       PROVE  Inv'
  BY <1>10, BeginAcceptInvitationKeeps
<1>11. ASSUME NEW r \in Requests, NEW u \in workload.users, NEW v \in workload.users,
              NEW t \in Teams,
              BeginAddTeamMember(r, u, t, v) \/ BeginRemoveTeamMember(r, u, t, v)
       PROVE  Inv'
  <2>1. v \in Users
    BY WorkloadType DEF Inv
  <2>2. PICK op \in {"add-team-member", "remove-team-member"} :
          BeginOnTeam(r, u, t, op, "update", v)
    BY <1>11 DEF BeginAddTeamMember, BeginRemoveTeamMember
  <2> QED
    BY <2>1, <2>2, BeginOnTeamKeeps
<1>12. ASSUME NEW r \in Requests, NEW u \in workload.users, NEW t \in Teams,
              BeginRemoveTeam(r, u, t)
       PROVE  Inv'
  <2>1. BeginOnTeam(r, u, t, "remove-team", "delete", None)
    BY <1>12 DEF BeginRemoveTeam
  <2> QED
    BY <2>1, BeginOnTeamKeeps
<1>13. ASSUME NEW r \in Requests, NEW s \in Sessions, NEW o \in Orgs \cup {None},
              NEW t \in Teams \cup {None}, BeginSetActive(r, s, o, t)
       PROVE  Inv'
  BY <1>13, BeginSetActiveKeeps
<1>14. CASE UNCHANGED vars
  BY <1>14, StutterKeeps
<1>15. CASE Tick
  BY <1>15, TickKeeps
<1>16. CASE Next
  BY <1>1, <1>2, <1>3, <1>4, <1>5, <1>6, <1>7, <1>8, <1>9, <1>10, <1>11, <1>12, <1>13, <1>15,
     <1>16 DEF Next
<1> QED
  BY <1>14, <1>16

LEMMA InvHolds == Spec => []Inv
BY InitInv, NextKeeps, PTL DEF Spec

\* An organization that exists always has an owner: removal, leaving and the change
\* of a role count the owners in the transaction that takes one away.
THEOREM AnOwnerRemains == Spec => []OwnerRemains
<1>1. Inv => OwnerRemains
  BY DEF Inv
<1> QED
  BY <1>1, InvHolds, PTL

\* Whoever is in a team that exists is a member of its organization, although a
\* team and a membership are found before the transaction that joins them: the
\* transaction asks for the membership again, and a member who goes leaves the teams.
THEOREM TeamsHaveMembersOnly == Spec => []TeamMembersBelong
<1>1. Inv => TeamMembersBelong
  BY DEF Inv
<1> QED
  BY <1>1, InvHolds, PTL

\* The organization and the team a session has active are its user's: the selection
\* is checked in the transaction that stores it, and what ends a membership or a
\* team clears it from every session.
THEOREM SelectionsAreValid == Spec => []ActiveStateValid
<1>1. Inv => ActiveStateValid
  BY DEF Inv
<1> QED
  BY <1>1, InvHolds, PTL

\* One outcome for each issue of an invitation: the row leaves "pending" once, and
\* only then does its addressee become a member.
THEOREM InvitationsHaveOneOutcome == Spec => []InvitationSingleWinner
<1>1. Inv => InvitationSingleWinner
  BY DEF Inv
<1> QED
  BY <1>1, InvHolds, PTL

-----------------------------------------------------------------------------
(* The owner role                                                          *)

\* A step that takes no owner row and issues no invitation.
LEMMA NoOwnerStep ==
    ASSUME \A m \in MemberIds : members[m].state = "present" => members'[m] = members[m],
           \A o \in Orgs, v \in Users : invitations'[o][v].status = "pending" =>
              invitations'[o][v] = invitations[o][v]
    PROVE  OwnerRoleStep
<1>1. \A o : OwnerRows(o) \subseteq OwnerRows(o)'
  BY DEF OwnerRows, MembersOf, IsOwner
<1> QED
  BY <1>1 DEF OwnerRoleStep

\* A step on one member row that its actor, if the row is an owner's, may make.
LEMMA OneOwnerStep ==
    ASSUME NEW m \in MemberIds, NEW o, o = members[m].org, UNCHANGED invitations,
           \A x \in MemberIds \ {m} : members'[x] = members[x],
           m \in OwnerRows(o) /\ m \notin OwnerRows(o)' => IsOwnerOf(o, actor')
    PROVE  OwnerRoleStep
<1>1. ASSUME NEW p \in Orgs, NEW x \in OwnerRows(p), x \notin OwnerRows(p)'
      PROVE  IsOwnerOf(p, actor')
  <2>1. CASE x = m
    BY <1>1, <2>1 DEF OwnerRows, MembersOf
  <2>2. CASE x # m
    BY <1>1, <2>2 DEF OwnerRows, MembersOf, IsOwner
  <2> QED
    BY <2>1, <2>2
<1> QED
  BY <1>1 DEF OwnerRoleStep

LEMMA OwnerIsOwner ==
    ASSUME NEW m, NEW o, m \in OwnerRows(o), NEW u, members[m].user = u
    PROVE  IsOwnerOf(o, u)
BY DEF OwnerRows, IsOwnerOf, Membership

LEMMA DeleteOrganizationOwner ==
    ASSUME Inv, NEW u, NEW o \in Orgs, DeleteOrganization(u, o)
    PROVE  OwnerRoleStep
<1>1. /\ orgs' = [orgs EXCEPT ![o] = "gone"]
      /\ members' = [m \in MemberIds |->
                       IF m \in MembersOf(o) THEN [NoMember EXCEPT !.state = "gone"]
                       ELSE members[m]]
      /\ invitations' = [invitations EXCEPT ![o] = [v \in Users |-> NoInvitation]]
  BY DEF DeleteOrganization
<1>2. orgs'[o] = "gone"
  BY <1>1 DEF Inv, TypeOK
<1>3. ASSUME NEW p \in Orgs, NEW m \in OwnerRows(p), orgs'[p] = "present" PROVE m \in OwnerRows(p)'
  <2>1. p # o
    BY <1>2, <1>3
  <2>2. /\ m \in MemberIds /\ members[m].state = "present" /\ members[m].org = p
        /\ CreatorRole \in members[m].roles
    BY DEF OwnerRows, MembersOf, IsOwner
  <2>3. m \notin MembersOf(o)
    BY <2>1, <2>2 DEF MembersOf
  <2>4. members'[m] = members[m]
    BY <1>1, <2>2, <2>3
  <2> QED
    BY <2>2, <2>4 DEF OwnerRows, MembersOf, IsOwner
<1>4. ASSUME NEW p \in Orgs, NEW v \in Users, invitations'[p][v].status = "pending"
      PROVE  invitations'[p][v] = invitations[p][v]
  <2>1. CASE p = o
    <3>1. invitations'[o][v] = NoInvitation
      BY <1>1 DEF Inv, TypeOK
    <3> QED
      BY <1>4, <2>1, <3>1 DEF NoInvitation
  <2>2. CASE p # o
    BY <1>1, <2>2 DEF Inv, TypeOK
  <2> QED
    BY <2>1, <2>2
<1> QED
  BY <1>3, <1>4 DEF OwnerRoleStep

LEMMA AddMemberRowOwner ==
    ASSUME Inv, NEW o, NEW u, NEW names, AddMemberRow(o, u, names)
    PROVE  \A m \in MemberIds : members[m].state = "present" => members'[m] = members[m]
<1>1. PICK m \in NewMemberIds :
        members' = [members EXCEPT ![m] =
                       [state |-> "present", org |-> o, user |-> u, roles |-> names]]
  BY DEF AddMemberRow
<1>2. m \in MemberIds /\ members[m].state = "free"
  BY NewIdType DEF NewMemberIds
<1> QED
  BY <1>1, <1>2 DEF Inv, TypeOK

LEMMA DropMemberOwner ==
    ASSUME Inv, NEW u, NEW m \in MemberIds, RemoveMember(u, m) \/ LeaveOrganization(u, m)
    PROVE  OwnerRoleStep
<1>1. PICK o : o = members[m].org
  OBVIOUS
<1>2. /\ members' = [members EXCEPT ![m] = [NoMember EXCEPT !.state = "gone"]]
      /\ UNCHANGED invitations /\ actor' = u
  BY DEF RemoveMember, LeaveOrganization, DropMember
<1>3. \A x \in MemberIds \ {m} : members'[x] = members[x]
  BY <1>2 DEF Inv, TypeOK
<1>4. ASSUME m \in OwnerRows(o) PROVE IsOwnerOf(o, u)
  <2>1. CASE RemoveMember(u, m)
    BY <1>1, <1>4, <2>1 DEF RemoveMember, OwnerRows
  <2>2. CASE LeaveOrganization(u, m)
    BY <1>4, <2>2, OwnerIsOwner DEF LeaveOrganization
  <2> QED
    BY <2>1, <2>2
<1> QED
  BY <1>1, <1>2, <1>3, <1>4, OneOwnerStep

LEMMA UpdateMemberRoleOwner ==
    ASSUME Inv, NEW r \in Requests, UpdateMemberRole(r)
    PROVE  OwnerRoleStep
<1>1. PICK o, m, u, names :
        /\ o = req[r].org /\ m = req[r].member /\ u = req[r].user /\ names = req[r].roles
  OBVIOUS
<1>2. /\ m \in MembersOf(o) /\ IsOwner(m) /\ CreatorRole \notin names => IsOwnerOf(o, u)
      /\ members' = [members EXCEPT ![m].roles = names] /\ actor' = u
      /\ UNCHANGED invitations
  BY <1>1 DEF UpdateMemberRole
<1>3. m \in MembersOf(o)
  BY <1>1 DEF UpdateMemberRole
<1>4. m \in MemberIds /\ members[m].state = "present" /\ members[m].org = o
  BY <1>3 DEF MembersOf
<1>5. PICK old \in MemberRow : old = members[m]
  BY <1>4 DEF Inv, TypeOK
<1>6. /\ members'[m] = [old EXCEPT !.roles = names]
      /\ \A x \in MemberIds \ {m} : members'[x] = members[x]
  BY <1>2, <1>4, <1>5 DEF Inv, TypeOK
<1>7. /\ members'[m].roles = names /\ members'[m].state = "present" /\ members'[m].org = o
  <2>1. /\ [old EXCEPT !.roles = names].roles = names
        /\ [old EXCEPT !.roles = names].state = old.state
        /\ [old EXCEPT !.roles = names].org = old.org
    BY DEF MemberRow
  <2> QED
    BY <1>4, <1>5, <1>6, <2>1
<1>8. ASSUME m \in OwnerRows(o), m \notin OwnerRows(o)' PROVE IsOwnerOf(o, actor')
  <2>1. CreatorRole \notin names
    BY <1>4, <1>7, <1>8 DEF OwnerRows, MembersOf, IsOwner
  <2>2. IsOwner(m)
    BY <1>8 DEF OwnerRows
  <2> QED
    BY <1>2, <1>3, <2>1, <2>2
<1> QED
  BY <1>2, <1>4, <1>6, <1>8, OneOwnerStep

LEMMA InviteMemberOwner ==
    ASSUME Inv, NEW r \in Requests, InviteMember(r)
    PROVE  OwnerRoleStep
<1>1. PICK u \in Users, o \in Orgs, v \in Users :
        u = req[r].user /\ o = req[r].org /\ v = req[r].invitee
  <2>1. RequestOK(req[r]) /\ req[r].op = "invite"
    BY DEF InviteMember, Finish, Inv
  <2> QED
    BY <2>1 DEF RequestOK
<1> DEFINE names == req[r].roles
<1>2. PICK row : row = [status |-> "pending", roles |-> names, team |-> req[r].team,
                        expiresAt |-> req[r].now + InvitationTTL, joined |-> 0]
  OBVIOUS
<1>3. /\ CreatorRole \in names => IsOwnerOf(o, u)
      /\ actor' = u /\ UNCHANGED members
  BY <1>1 DEF InviteMember, MayInvite, MayAssign
<1>4. invitations' = [invitations EXCEPT ![o][v] = row]
  BY <1>1, <1>2 DEF InviteMember
<1>5. \A p \in Orgs, x \in Users : (p # o \/ x # v) => invitations'[p][x] = invitations[p][x]
  BY <1>4 DEF Inv, TypeOK
<1>6. invitations'[o][v] = row /\ row.roles = names
  BY <1>2, <1>4 DEF Inv, TypeOK
<1>7. \A p : OwnerRows(p) \subseteq OwnerRows(p)'
  BY <1>3 DEF OwnerRows, MembersOf, IsOwner
<1>8. ASSUME NEW p \in Orgs, NEW x \in Users, CreatorRole \in invitations'[p][x].roles,
             invitations'[p][x] # invitations[p][x]
      PROVE  IsOwnerOf(p, actor')
  BY <1>3, <1>5, <1>6, <1>8
<1> QED
  BY <1>7, <1>8 DEF OwnerRoleStep

\* An answered or withdrawn invitation is pending no more.
LEMMA StatusOwner ==
    ASSUME Inv, NEW o \in Orgs, NEW v \in Users, NEW row, row.status # "pending",
           invitations' = [invitations EXCEPT ![o][v] = row]
    PROVE  \A p \in Orgs, x \in Users : invitations'[p][x].status = "pending" =>
              invitations'[p][x] = invitations[p][x]
<1>1. invitations'[o][v] = row
  BY DEF Inv, TypeOK
<1>2. \A p \in Orgs, x \in Users : (p # o \/ x # v) => invitations'[p][x] = invitations[p][x]
  BY DEF Inv, TypeOK
<1> QED
  BY <1>1, <1>2

LEMMA AcceptInvitationOwner ==
    ASSUME Inv, NEW r \in Requests, AcceptInvitation(r)
    PROVE  OwnerRoleStep
<1>1. PICK u \in Users, o \in Orgs : u = req[r].user /\ o = req[r].org
  BY DEF AcceptInvitation, Finish, Inv, RequestOK
<1>2. PICK old \in InvitationRow : old = invitations[o][u]
  BY DEF Inv, TypeOK
<1>3. PICK row : row = [old EXCEPT !.status = "accepted", !.joined = old.joined + 1]
  OBVIOUS
<1>4. invitations' = [invitations EXCEPT ![o][u] = row]
  BY <1>1, <1>2, <1>3 DEF AcceptInvitation
<1>5. AddMemberRow(o, u, old.roles)
  BY <1>1, <1>2 DEF AcceptInvitation
<1>6. row.status = "accepted"
  BY <1>3 DEF InvitationRow
<1> QED
  BY <1>4, <1>5, <1>6, AddMemberRowOwner, StatusOwner, NoOwnerStep

LEMMA TransitionInvitationOwner ==
    ASSUME Inv, NEW o \in Orgs, NEW v \in Users, NEW st \in {"rejected", "canceled"},
           TransitionInvitation(o, v, st), UNCHANGED members
    PROVE  OwnerRoleStep
<1>1. PICK old \in InvitationRow : old = invitations[o][v]
  BY DEF Inv, TypeOK
<1>2. PICK row : row = [old EXCEPT !.status = st]
  OBVIOUS
<1>3. row.status = st
  BY <1>2, WithdrawnType
<1>4. invitations' = [invitations EXCEPT ![o][v] = row]
  BY <1>1, <1>2, StatusWritten DEF TransitionInvitation
<1> QED
  BY <1>3, <1>4, StatusOwner, NoOwnerStep

\* Steps that leave the rows of members and of invitations alone.
LEMMA OtherOwner ==
    ASSUME UNCHANGED <<members, invitations>>
    PROVE  OwnerRoleStep
BY NoOwnerStep

LEMMA TransactionOwner ==
    ASSUME Inv, NEW r \in Requests, Transaction(r)
    PROVE  OwnerRoleStep
<1>1. CASE RemoveTeam(r) \/ AddTeamMember(r) \/ RemoveTeamMember(r) \/ IssueSession(r)
             \/ RotateActiveSession(r)
  <2>1. UNCHANGED <<members, invitations>>
    BY <1>1 DEF RemoveTeam, AddTeamMember, RemoveTeamMember, IssueSession, RotateActiveSession,
                SessionsOnly
  <2> QED
    BY <2>1, OtherOwner
<1> QED
  BY <1>1, UpdateMemberRoleOwner, InviteMemberOwner, AcceptInvitationOwner DEF Transaction

LEMMA NextOwner == Inv /\ [Next]_vars => [OwnerRoleStep]_vars
<1> SUFFICES ASSUME Inv, Next PROVE OwnerRoleStep
  OBVIOUS
<1>1. ASSUME NEW u \in workload.users, NEW o \in Orgs,
             \/ CreateOrganization(u, o) \/ DeleteOrganization(u, o) \/ RejectInvitation(u, o)
             \/ CreateTeam(u, o)
             \/ \E v \in Users : CancelInvitation(u, o, v)
             \/ \E names \in workload.roles : AddMember(o, u, names)
             \/ \E d \in DynamicRoles :
                  \/ DeleteRole(u, o, d)
                  \/ \E p \in PermissionInputs : CreateRole(u, o, d, p) \/ UpdateRole(u, o, d, p)
      PROVE  OwnerRoleStep
  <2>1. CASE CreateOrganization(u, o) \/ \E names \in workload.roles : AddMember(o, u, names)
    <3>1. PICK names : AddMemberRow(o, u, names) /\ UNCHANGED invitations
      BY <2>1 DEF CreateOrganization, AddMember
    <3> QED
      BY <3>1, AddMemberRowOwner, NoOwnerStep
  <2>2. CASE DeleteOrganization(u, o)
    BY <2>2, DeleteOrganizationOwner
  <2>3. CASE RejectInvitation(u, o)
    BY <2>3, WorkloadType, TransitionInvitationOwner DEF RejectInvitation, Inv
  <2>4. ASSUME NEW v \in Users, CancelInvitation(u, o, v) PROVE OwnerRoleStep
    BY <2>4, TransitionInvitationOwner DEF CancelInvitation
  <2>5. CASE CreateTeam(u, o)
    BY <2>5, OtherOwner DEF CreateTeam
  <2>6. ASSUME NEW d \in DynamicRoles, NEW p \in PermissionInputs,
               DeleteRole(u, o, d) \/ CreateRole(u, o, d, p) \/ UpdateRole(u, o, d, p)
        PROVE  OwnerRoleStep
    BY <2>6, OtherOwner DEF DeleteRole, CreateRole, UpdateRole, WriteRole
  <2>7. ASSUME NEW d \in DynamicRoles, DeleteRole(u, o, d) PROVE OwnerRoleStep
    BY <2>7, OtherOwner DEF DeleteRole, WriteRole
  <2> QED
    BY <1>1, <2>1, <2>2, <2>3, <2>4, <2>5, <2>6, <2>7
<1>2. ASSUME NEW u \in workload.users, NEW m \in MemberIds,
             RemoveMember(u, m) \/ LeaveOrganization(u, m)
      PROVE  OwnerRoleStep
  BY <1>2, DropMemberOwner
<1>3. ASSUME NEW u \in workload.users, SignIn(u) PROVE OwnerRoleStep
  BY <1>3, OtherOwner DEF SignIn, SessionsOnly
<1>4. ASSUME NEW r \in Requests, Transaction(r) PROVE OwnerRoleStep
  BY <1>4, TransactionOwner
<1>5. ASSUME NEW r \in Requests, NEW u \in workload.users,
             \/ \E m \in MemberIds, names \in workload.roles :
                  BeginUpdateMemberRole(r, u, m, names)
             \/ \E v \in Users, o \in Orgs, names \in workload.roles,
                   t \in Teams \cup {None}, resend \in BOOLEAN :
                  BeginInviteMember(r, u, o, v, names, t, resend)
             \/ \E o \in Orgs : BeginAcceptInvitation(r, u, o)
             \/ \E v \in workload.users, t \in Teams :
                  BeginAddTeamMember(r, u, t, v) \/ BeginRemoveTeamMember(r, u, t, v)
             \/ \E t \in Teams : BeginRemoveTeam(r, u, t)
      PROVE  OwnerRoleStep
  <2>1. UNCHANGED <<members, invitations>>
    BY <1>5 DEF BeginUpdateMemberRole, BeginInviteMember, BeginAcceptInvitation,
                BeginAddTeamMember, BeginRemoveTeamMember, BeginRemoveTeam, BeginOnTeam,
                Start, tables
  <2> QED
    BY <2>1, OtherOwner
<1>6. ASSUME NEW r \in Requests,
             \/ \E s \in Sessions, o \in Orgs \cup {None}, t \in Teams \cup {None} :
                  BeginSetActive(r, s, o, t)
             \/ Refuse(r)
      PROVE  OwnerRoleStep
  BY <1>6, OtherOwner DEF BeginSetActive, Refuse, Start, tables
<1>7. CASE Tick
  BY <1>7, OtherOwner DEF Tick, tables
<1> QED
  BY <1>1, <1>2, <1>3, <1>4, <1>5, <1>6, <1>7 DEF Next

\* Only an owner of the organization takes the owner role from a row or invites an
\* owner: the transactions of update-member-role and invite-member ask again, for
\* the caller may have lost the role since the request began.
THEOREM OwnersGuardOwnership == Spec => OwnerRoleGuarded
BY InvHolds, NextOwner, PTL DEF Spec, OwnerRoleGuarded

=============================================================================
