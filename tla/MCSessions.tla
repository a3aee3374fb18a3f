----------------------------- MODULE MCSessions -----------------------------
(***************************************************************************)
(* An instance of Sessions for TLC.  All endpoints at once are too many    *)
(* for one state space, so a behaviour uses one of three workloads: the    *)
(* impersonation of users while time passes, changes of the password of an *)
(* impersonated user, and the revocation of sessions while a SCIM          *)
(* directory disables and enables one of the users.                        *)
(***************************************************************************)
EXTENDS Sessions, TLC

CONSTANTS alice, bob, r1, r2, s1, s2, s3, s4

VARIABLE workload   \* never changes

MCUsers == {alice, bob}
MCRequests == {r1, r2}
MCSessionIds == {s1, s2, s3, s4}
MCScimUsers == {bob}
MCAdmins == {alice}
MCAuthorizer == {<<alice, bob>>}

Impersonating == {"sign-in", "refresh", "impersonate", "stop"}

\* A stopped impersonation that a change-password carries on is the fourth session
\* drawn; the other workloads draw three.  The fourth is always s4.
Changing == {"sign-in", "impersonate", "stop", "change-password"}

SameWorkload ==
    /\ UNCHANGED workload
    /\ s4 \in Issued' => workload = Changing /\ {s1, s2, s3} \subseteq Issued'

\* get-session only reads, and where nobody is impersonated delete-callback does
\* what delete does.
Revoking == {"attach", "refresh", "sign-out", "revoke-one", "revoke-others", "revoke-all",
             "delete"}

MCEndpoints == Impersonating \cup Changing \cup Revoking

MCInit == Init /\ workload \in {Impersonating, Changing, Revoking}

\* The requests of the workload only; only the administrator signs in where the
\* password of an impersonated user is changed.
MCArrive(r) ==
    /\ Arrive(r) /\ req'[r].op \in workload
    /\ (workload = Changing /\ req'[r].op = "sign-in") => req'[r].who = alice

\* Time passes between requests: a session that has aged may not change a password.
QuietTick == Tick /\ \A r \in Requests : req[r] = Idle

MCNext ==
    \/ \E r \in Requests :
         \/ MCArrive(r) /\ SameWorkload
         \/ Authenticate(r) /\ SameWorkload
         \/ CreateAttached(r) /\ SameWorkload
         \/ ReadSession(r) /\ SameWorkload
         \/ ReadUser(r) /\ SameWorkload
         \/ ReadSubject(r) /\ SameWorkload
         \/ StartImpersonation(r) /\ SameWorkload
         \/ StopImpersonation(r) /\ SameWorkload
         \/ SignIn(r) /\ SameWorkload
         \/ RefreshSession(r) /\ SameWorkload
         \/ ChangePassword(r) /\ SameWorkload
         \/ RevokeSessions(r) /\ SameWorkload
         \/ DeleteUser(r) /\ SameWorkload
         \/ Abort(r) /\ SameWorkload
    \/ \E u \in ScimUsers :
         \/ workload = Revoking /\ ScimDeactivate(u) /\ SameWorkload
         \/ workload = Revoking /\ ScimReactivate(u) /\ SameWorkload
    \/ workload = Impersonating /\ Tick /\ SameWorkload
    \/ workload = Changing /\ QuietTick /\ SameWorkload

MCSpec == MCInit /\ [][MCNext]_<<vars, workload>>

\* Requests and the first three session ids are interchangeable; the users are not.
Symmetry == Permutations(Requests) \cup Permutations({s1, s2, s3})

=============================================================================
