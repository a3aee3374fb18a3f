-------------------------------- MODULE Scim --------------------------------
(***************************************************************************)
(* The SCIM provisioning plugin (plugin/scim): connections with rotating   *)
(* bearer tokens, and the users that a directory creates, changes and      *)
(* deprovisions through them.                                              *)
(*                                                                         *)
(* A binding (scimUser row) ties a user to a connection.  Every protocol   *)
(* request is authenticated against the connection row, reads what it      *)
(* needs, and then writes in one transaction.  The transaction does not    *)
(* repeat those reads; what it still notices are the unique indexes: a     *)
(* user's email, and the external id within a connection.  Emails and      *)
(* external ids that are taken when they are read fail earlier with the    *)
(* same answer, so those reads are not steps of their own.                 *)
(*                                                                         *)
(* Who may manage a connection (authorizeConnection) is the caller's       *)
(* permission and not modelled; one organization stands for all.           *)
(***************************************************************************)
EXTENDS Deprovisioning, Naturals, FiniteSets

CONSTANTS
    Users, None, Emails, Externals,
    Connections,        \* connections, by providerId
    BindingIds,         \* ids that scimUser rows may draw
    MaxRows,            \* bound on connection rows ever created
    ProviderLimit,
    Requests,           \* concurrent requests
    Scenarios           \* of an instance: endpoints, link policy, initial rows,
                        \* and the resources and changes that requests carry

ASSUME ScimAssumption ==
    /\ None \notin Users \cup Emails \cup Externals \cup Connections \cup BindingIds \cup BOOLEAN
    /\ OrgConnections \subseteq Connections
    /\ MaxRows \in Nat /\ ProviderLimit \in Nat

VARIABLES
    scenario,     \* never changes
    connections,  \* the scimProvider table: row ids, 0 where there is no row
    rows,         \* connection rows created so far
    users,        \* the user table
    bindings,     \* the scimUser table
    members,      \* members of the organization
    accounts,     \* users with an authentication account
    sessions,     \* users with live sessions
    req           \* requests in flight

directory == <<connections, rows>>
tables == <<users, bindings, members, accounts, sessions>>
history == <<creator, deletions>>
vars == <<scenario, directory, tables, req, history>>

UserRow ==
    [state: {"absent", "present", "gone"}, email: Emails \cup {None}, disabled: BOOLEAN]

NoUser == [state |-> "absent", email |-> None, disabled |-> FALSE]

BindingRow ==
    [state: {"free", "stored", "gone"}, connection: Connections \cup {None},
     user: Users \cup {None}, external: Externals \cup {None}, owns: BOOLEAN]

NoBinding ==
    [state |-> "free", connection |-> None, user |-> None, external |-> None, owns |-> FALSE]

\* A User resource of a request body; active may be left out.
Input == [email: Emails, external: Externals, active: BOOLEAN \cup {None}]

\* applyPatchOperations.
Patched(row, change) == [f \in DOMAIN row |-> IF f \in DOMAIN change THEN change[f] ELSE row[f]]

\* The tables a scenario begins with are in order, and its changes turn a resource
\* into a resource.
ScenarioOK(sc) ==
    /\ sc.linkExisting \in BOOLEAN
    /\ sc.connections \in [Connections -> 0..MaxRows]
    /\ Cardinality({c \in Connections : sc.connections[c] # 0}) \in 0..MaxRows
    /\ sc.users \in [Users -> UserRow]
    /\ \A u \in Users : sc.users[u].state = "present" => sc.users[u].email \in Emails
    /\ sc.inputs \subseteq Input
    /\ \A change \in sc.changes, row \in Input : Patched(row, change) \in Input

ASSUME ScenarioAssumption == \A sc \in Scenarios : ScenarioOK(sc)

Request ==
    [stage: {"idle", "token", "drop", "create", "find", "update", "deprovision"},
     connection: Connections \cup {None}, id: 0..MaxRows,
     user: Users \cup {None}, input: Input \cup {None},
     row: UserRow, binding: BindingIds \cup {None}]

Idle ==
    [stage |-> "idle", connection |-> None, id |-> 0, user |-> None, input |-> None,
     row |-> NoUser, binding |-> None]

Deletion ==
    [user: Users, by: Connections, account: BOOLEAN]

TypeOK ==
    /\ scenario \in Scenarios
    /\ connections \in [Connections -> 0..MaxRows] /\ rows \in 0..MaxRows
    /\ users \in [Users -> UserRow]
    /\ bindings \in [BindingIds -> BindingRow]
    /\ members \subseteq Users /\ accounts \subseteq Users /\ sessions \subseteq Users
    /\ req \in [Requests -> Request]
    /\ creator \in [Users -> Connections \cup {None}]
    /\ deletions \subseteq Deletion

Init ==
    /\ scenario \in Scenarios
    /\ connections = scenario.connections
    /\ rows = Cardinality({c \in Connections : connections[c] # 0})
    /\ users = scenario.users
    /\ bindings = [b \in BindingIds |-> NoBinding]
    /\ members = {} /\ sessions = {}
    /\ accounts = {u \in Users : users[u].state = "present"}
    /\ req = [r \in Requests |-> Idle]
    /\ creator = [u \in Users |-> None]
    /\ deletions = {}

Present(u) == users[u].state = "present"

Stored(b) == bindings[b].state = "stored"

BindingsOf(u) == {b \in BindingIds : Stored(b) /\ bindings[b].user = u}

BindingsIn(c) == {b \in BindingIds : Stored(b) /\ bindings[b].connection = c}

\* Ids come from the random source; which of the unused ones is drawn makes no
\* difference.
Draw(unused) == IF unused = {} THEN {} ELSE {CHOOSE x \in unused : TRUE}

Step(r, fields) == req' = [req EXCEPT ![r] = fields]

Finish(r) == Step(r, Idle)

Endpoint(e) == e \in scenario.endpoints

-----------------------------------------------------------------------------
(* Connections                                                             *)

\* generateToken up to its transaction: the row, if there is one, and the limit.
BeginGenerateToken(r, c) ==
    /\ Endpoint("generate") /\ req[r].stage = "idle"
    /\ connections[c] = 0 =>
         Cardinality({d \in Connections : connections[d] # 0}) < ProviderLimit
    /\ Step(r, [Idle EXCEPT !.stage = "token", !.connection = c, !.id = connections[c]])
    /\ UNCHANGED <<scenario, directory, tables, history>>

\* The row is created, or the token hash of the row that was read is replaced.  Of
\* two requests that both saw no row one creates it.
GenerateToken(r) ==
    LET c == req[r].connection IN
    /\ req[r].stage = "token"
    /\ \/ /\ connections[c] = 0 /\ req[r].id = 0 /\ rows < MaxRows
          /\ rows' = rows + 1
          /\ connections' = [connections EXCEPT ![c] = rows + 1]
       \/ ~(connections[c] = 0 /\ req[r].id = 0) /\ UNCHANGED directory
    /\ Finish(r)
    /\ UNCHANGED <<scenario, tables, history>>

BeginDeleteConnection(r, c) ==
    /\ Endpoint("drop") /\ req[r].stage = "idle" /\ connections[c] # 0
    /\ Step(r, [Idle EXCEPT !.stage = "drop", !.connection = c, !.id = connections[c]])
    /\ UNCHANGED <<scenario, directory, tables, history>>

\* deleteConnection's transaction: refused while the connection has bindings.
DeleteConnection(r) ==
    LET c == req[r].connection IN
    /\ req[r].stage = "drop"
    /\ connections' = IF BindingsIn(c) = {} /\ connections[c] = req[r].id
                      THEN [connections EXCEPT ![c] = 0]
                      ELSE connections
    /\ Finish(r)
    /\ UNCHANGED <<scenario, rows, tables, history>>

\* authenticateBearer: the connection row exists and holds the hash of the token,
\* which the directory has.
Authenticated(c) == connections[c] # 0

-----------------------------------------------------------------------------
(* Provisioning                                                            *)

\* The policy LinkExistingUsers, and that the resource is not inactive.
CanLinkExisting(input) == scenario.linkExisting /\ input.active # FALSE

\* createUser up to its transaction.  A user with the address is linked;
\* otherwise a new user is made ready.
BeginCreateUser(r, c, input) ==
    LET owners == {u \in Users : Present(u) /\ users[u].email = input.email} IN
    /\ Endpoint("create") /\ req[r].stage = "idle" /\ Authenticated(c)
    /\ owners # {} => CanLinkExisting(input)
    /\ \E u \in IF owners = {} THEN {None} ELSE owners :
         Step(r, [Idle EXCEPT !.stage = "create", !.connection = c, !.user = u,
                              !.input = input])
    /\ UNCHANGED <<scenario, directory, tables, history>>

\* The unique index over connection and external id, for the row b.
ExternalFree(c, x, b) == \A d \in BindingsIn(c) \ {b} : bindings[d].external # x

\* The unique index over user emails, for the row u.
EmailFree(e, u) == \A v \in Users \ {u} : Present(v) => users[v].email # e

NewUserIds == Draw({u \in Users : users[u].state = "absent"})

\* The transaction of createUser: user, binding and membership.
Provision(r, u, b, owns) ==
    LET c == req[r].connection IN
    /\ bindings' = [bindings EXCEPT ![b] =
           [state |-> "stored", connection |-> c, user |-> u,
            external |-> req[r].input.external, owns |-> owns]]
    /\ members' = IF c \in OrgConnections THEN members \cup {u} ELSE members

CreateUser(r) ==
    LET c == req[r].connection
        input == req[r].input
    IN
    /\ req[r].stage = "create"
    /\ \E b \in Draw({x \in BindingIds : bindings[x].state = "free"}) :
         \/ /\ ExternalFree(c, input.external, b)
            /\ req[r].user = None /\ EmailFree(input.email, None)
            /\ \E u \in NewUserIds :
                 /\ users' = [users EXCEPT ![u] = [state |-> "present", email |-> input.email,
                                                   disabled |-> input.active = FALSE]]
                 /\ creator' = [creator EXCEPT ![u] = c]
                 /\ Provision(r, u, b, TRUE)
         \/ /\ ExternalFree(c, input.external, b)
            /\ req[r].user # None
            /\ Provision(r, req[r].user, b, FALSE)
            /\ UNCHANGED <<users, creator>>
         \/ /\ ~ExternalFree(c, input.external, b)
               \/ (req[r].user = None /\ ~EmailFree(input.email, None))
            /\ UNCHANGED <<users, bindings, members, creator>>
    /\ Finish(r)
    /\ UNCHANGED <<scenario, directory, accounts, sessions, deletions>>

\* connectionOwnsUser: an organization's connection manages its members.
OwnsUser(c, u) == c \in OrgConnections => u \in members

\* findManagedUser: a binding of this connection.
ManagedBy(c, u) == {b \in BindingsOf(u) : bindings[b].connection = c /\ OwnsUser(c, u)}

\* patchUser fills in what its operations do not set from the user it reads.
BeginPatchUser(r, c, u, change) ==
    /\ Endpoint("patch") /\ req[r].stage = "idle" /\ Authenticated(c) /\ Present(u)
    /\ \E b \in ManagedBy(c, u) :
         LET row == [email |-> users[u].email, external |-> bindings[b].external,
                     active |-> ~users[u].disabled]
         IN  Step(r, [Idle EXCEPT !.stage = "find", !.connection = c, !.user = u,
                                     !.input = Patched(row, change)])
    /\ UNCHANGED <<scenario, directory, tables, history>>

BeginReplaceUser(r, c, u, input) ==
    /\ Endpoint("replace") /\ req[r].stage = "idle" /\ Authenticated(c)
    /\ Step(r, [Idle EXCEPT !.stage = "find", !.connection = c, !.user = u, !.input = input])
    /\ UNCHANGED <<scenario, directory, tables, history>>

\* updateUser reads the user once more.
FindManagedUser(r) ==
    LET u == req[r].user  found == ManagedBy(req[r].connection, u) IN
    /\ req[r].stage = "find"
    /\ \/ \E b \in found :
            /\ Present(u)
            /\ Step(r, [req[r] EXCEPT !.stage = "update", !.row = users[u], !.binding = b])
       \/ (found = {} \/ ~Present(u)) /\ Finish(r)
    /\ UNCHANGED <<scenario, directory, tables, history>>

Disables(r) ==
    IF req[r].input.active = None THEN req[r].row.disabled ELSE ~req[r].input.active

\* Whether sessions are revoked is decided on the row that was read.
Deactivating(r) == req[r].input.active = FALSE /\ ~req[r].row.disabled

\* updateUser's transaction: the user by id, the binding by id and connection,
\* the sessions.
UpdateUser(r) ==
    LET c == req[r].connection
        u == req[r].user
        b == req[r].binding
        input == req[r].input
        fits == /\ Present(u) => EmailFree(input.email, u)
                /\ Stored(b) => ExternalFree(c, input.external, b)
    IN
    /\ req[r].stage = "update"
    /\ \/ /\ fits
          /\ users' = IF Present(u)
                      THEN [users EXCEPT ![u].email = input.email, ![u].disabled = Disables(r)]
                      ELSE users
          /\ bindings' = IF Stored(b) THEN [bindings EXCEPT ![b].external = input.external]
                         ELSE bindings
          /\ sessions' = IF Deactivating(r) THEN sessions \ {u} ELSE sessions
       \/ ~fits /\ UNCHANGED <<users, bindings, sessions>>
    /\ Finish(r)
    /\ UNCHANGED <<scenario, directory, members, accounts, history>>

BeginDeleteUser(r, c, u) ==
    /\ Endpoint("deprovision") /\ req[r].stage = "idle" /\ Authenticated(c) /\ Present(u)
    /\ \E b \in ManagedBy(c, u) :
         Step(r, [Idle EXCEPT !.stage = "deprovision", !.connection = c, !.user = u,
                              !.binding = b])
    /\ UNCHANGED <<scenario, directory, tables, history>>

\* Fault variant of SoleIdentity: the accounts are not looked at.
SoleBinding(b, u) == bindings[b].owns /\ Cardinality(BindingsOf(u)) = 1

\* The counts of deleteUser's transaction.  OwnsUser is of the binding as read,
\* which never changes.
SoleIdentity(b, u) ==
    bindings[b].owns /\ Cardinality(BindingsOf(u)) = 1 /\ u \notin accounts

Removed(bs) ==
    bindings' = [b \in BindingIds |-> IF b \in bs THEN [bindings[b] EXCEPT !.state = "gone"]
                                      ELSE bindings[b]]

\* deleteUser's transaction: an organization loses a member, a personal connection
\* deletes the user itself when nothing else identifies it.
DeleteUser(r) ==
    LET c == req[r].connection
        u == req[r].user
        b == req[r].binding
    IN
    /\ req[r].stage = "deprovision"
    /\ \/ /\ c \in OrgConnections
          /\ members' = members \ {u}
          /\ Removed({b} \cap BindingsIn(c))
          /\ UNCHANGED <<users, sessions, deletions>>
       \/ /\ c \notin OrgConnections /\ SoleIdentity(b, u)
          /\ Removed(BindingsOf(u))
          /\ users' = IF Present(u) THEN [users EXCEPT ![u].state = "gone"] ELSE users
          /\ sessions' = sessions \ {u}
          /\ deletions' = deletions \cup
                {[user |-> u, by |-> c, account |-> u \in accounts]}
          /\ UNCHANGED members
       \/ /\ c \notin OrgConnections /\ ~SoleIdentity(b, u)
          /\ Removed({b} \cap BindingsOf(u))
          /\ UNCHANGED <<users, members, sessions, deletions>>
    /\ Finish(r)
    /\ UNCHANGED <<scenario, directory, accounts, creator>>

-----------------------------------------------------------------------------
(* The rest of the server, as far as it touches these tables               *)

\* A user signs in: with an account, or by linking one at the first sign-in.
SignIn(u) ==
    /\ Endpoint("sign-in") /\ Present(u) /\ ~users[u].disabled
    /\ sessions' = sessions \cup {u}
    /\ accounts' = accounts \cup {u}
    /\ UNCHANGED <<scenario, directory, users, bindings, members, req, history>>

\* delete-user of the core removes user, accounts and sessions, not the bindings.
CoreDeleteUser(u) ==
    /\ Endpoint("delete-user") /\ Present(u) /\ u \in sessions
    /\ users' = [users EXCEPT ![u].state = "gone"]
    /\ accounts' = accounts \ {u} /\ sessions' = sessions \ {u}
    /\ UNCHANGED <<scenario, directory, bindings, members, req, history>>

\* The organization plugin removes a member.
LeaveOrganization(u) ==
    /\ Endpoint("leave") /\ u \in members
    /\ members' = members \ {u}
    /\ UNCHANGED <<scenario, directory, users, bindings, accounts, sessions, req, history>>

Next ==
    \/ \E r \in Requests, c \in Connections :
         \/ BeginGenerateToken(r, c) \/ BeginDeleteConnection(r, c)
         \/ \E i \in scenario.inputs : BeginCreateUser(r, c, i)
         \/ \E u \in Users :
              \/ \E change \in scenario.changes : BeginPatchUser(r, c, u, change)
              \/ \E i \in scenario.inputs : BeginReplaceUser(r, c, u, i)
              \/ BeginDeleteUser(r, c, u)
    \/ \E r \in Requests :
         \/ GenerateToken(r) \/ DeleteConnection(r) \/ CreateUser(r)
         \/ FindManagedUser(r) \/ UpdateUser(r) \/ DeleteUser(r)
    \/ \E u \in Users : SignIn(u) \/ CoreDeleteUser(u) \/ LeaveOrganization(u)

Spec == Init /\ [][Next]_vars

=============================================================================
