# A TLA+ model of better-auth-go

better-auth-go is an authentication server as a Go library: HTTP handlers over a
store, the store over a database adapter, plugins beside them. This directory
models its stateful core, model-checks it with TLC and proves the safety of most of it
with TLAPS. Every definition that stands for code is listed
under `map` in `PROJECT.json` with the lines it stands for.

## 1. Inventory

Every HTTP request runs in a goroutine of its own. A handler makes several store
calls; each call is one adapter statement or one adapter transaction. There is no
lock around a handler, so whatever it read may be stale when it writes. That is
where nearly all the hazards of this code come from, and it shapes every module:
**a request is a process, a store call is a step, and a request may vanish between
two steps**.

| Component | State | Operations | What makes it correct |
|---|---|---|---|
| Session lifecycle (`server.go`, `handlers_session.go`, `handlers_admin.go`, `store.go`) | session table, users' status, audit events | sign-in, sign-up, refresh, change-password, sign-out, three revocations, impersonate/stop, account deletion, SCIM (de)activation | rotation is single use; a revoked session never comes back; every impersonation is audited; a stop ends it |
| Password credentials (`handlers_email.go`, `handlers_recovery.go`, `handlers_management.go`) | password hash, reset tokens, sessions | sign-in with rehash, change, forgot/reset, `SetPassword` | the last choice wins; a reset token works once; no change is lost; signed-out devices stay out |
| Account email and deletion (same files) | users, one-time tokens, mails | sign-up, verification, change-email in three flavours, deletion by link | a verified address was proved; an address has one owner; one change link works; deletion is proved |
| OAuth and linked accounts (`handlers_oauth.go`, `handlers_account_tokens.go`, `account_identity.go`) | authorization states, accounts, provider tokens | authorize, callback, link, unlink, token refresh | states are single use; accounts and tokens go to whom they belong; the last account stays |
| Transactional outbox (`outbox.go`) | outbox events | append, `RunOnce` | at least once, in the order of `occurredAt` that the database keeps, eventually |
| Adapter contract (`database.go`, `adapter/memory`) | a row with a guard | `Update`, `IncrementOne`, `ConsumeOne`, `Transaction` | one winner per guard |
| SQL adapter (`adapter/sqladapter`) | row, write lock | the same, as SQL statements | implements the contract |
| Organization plugin (`plugin/organization`) | organizations, members, invitations, teams, roles | invite/accept, role change, removal, teams | never without an owner; an invitation is accepted once; limits hold |
| Two-factor and one-time token plugins (`plugin/twofactor`, `plugin/onetimetoken`) | factor rows with backup codes and failures, pending challenges, delivered codes, trusted devices, one-time tokens | intercepted sign-in, verify, enrol, disable, regenerate; issue and trade a token | no session of a protected user without the second factor; guesses, codes and tokens stay within their limits |
| Passkey plugin (`plugin/passkey`) | credentials with counters and user handles, challenges | register, sign in, delete | a challenge yields one session, of the credential's owner; counters never go back |
| SSO plugin (`plugin/sso`) | providers, domain tokens, request states, seen assertions | register, update, delete, verify a domain, OIDC and SAML sign-in, single logout | states and assertions are used once, by their own ceremony; only the owner's request writes a provider |
| SCIM plugin (`plugin/scim`) | connections, bindings of users to them | create, replace, patch, delete | deprovisioning deletes only users it created and nobody else knows |
| Plugin and hook pipeline (`plugin.go`, `plugin_http.go`, `database_hooks.go`) | hook registrations | hooks around requests and adapter calls | after-hooks run in order and may take a session back |
| Schema gate (`schema_check.go`) | kept result, running check | one shared check before a request | nobody inherits another's cancellation; nobody waits for ever |

Interactions: handlers call the store; the store calls the adapter; plugins issue
sessions through the server, read and write through the adapter, and register hooks
around it; the store appends outbox events inside its transactions and the
dispatcher reads them; account deletion, SCIM deactivation and password changes
revoke sessions. Hard behaviours: interleaved requests on one cookie or one user,
values read before and used after another request's commit, lost requests between
two store calls, provider calls in the middle of a handler, replays of single-use
tokens, several dispatchers with crashes, and database isolation.
The list of hazards with their lines is in `PROJECT.json`.

## 2. Modules

| Module | Models | Notes |
|---|---|---|
| `SessionTable` | the session statements of `store.go`, each an operator on the table | shared by `Sessions` and `Credentials` |
| `Sessions` | the session lifecycle | clock, users' status, audit, requests in flight |
| `Credentials` | the password and its sessions | extends `SessionTable` |
| `AccountEmail` | addresses, one-time tokens, deletion by link | extends `ProvedAddresses` |
| `OAuthAccounts` | social sign-in and linked accounts | |
| `Organization` | the organization plugin: members, roles, invitations, teams, active state | |
| `Outbox` | event dispatch | extends `EventDelivery` |
| `OneTimeToken` | the one-time token plugin, and what clients hold | extends `SessionTable` |
| `TwoFactor` | the two-factor plugin and the after-hooks of a sign-in | extends and composes `OneTimeToken` |
| `Passkey` | the passkey plugin with its authenticators | |
| `Sso` | the SSO plugin with DNS and identity providers | |
| `Scim` | the SCIM plugin beside sign-in, deletion and membership | extends `Deprovisioning` |
| `EventDelivery`, `ProvedAddresses`, `Deprovisioning` | what is promised of events, addresses and deprovisioned users, over the state an observer sees | the module that models how extends it, and so does the one that proves it |
| `GuardedRow` | the abstract contract of a guarded write | abstract specification |
| `SqlAdapter` | how the SQL statements run | shown to implement `GuardedRow` |
| `SchemaGate` | `schemaGate.check` | |
| `GatedRequest` | a request: the gate, then a guarded write | composes `SchemaGate` and `SqlAdapter` |
| `SessionsProofs`, `CredentialsProofs`, `OAuthAccountsProofs`, `OrganizationProofs`, `TwoFactorProofs`, `PasskeyProofs` | theorems about the module each is named after | TLAPS, section 5 |
| `SsoProofs` | theorems about `Sso`, then `Scim` | the second by `INSTANCE` |
| `GatedRequestProofs` | theorems about `GatedRequest`, then `Outbox`, then `AccountEmail` | the last two by `INSTANCE` |
| `MC*` | instances for TLC | with `MC*.cfg` |

How state and actions correspond to the code:

* **Sessions.** A row is `free`, `live`, `revoked` or `deleted`. `Arrive` is a request
  with any token ever issued as its cookie. `ReadSession` and `ReadUser` are the two
  reads of `SessionByTokenHash` with the checks of `resolveSession` between read and
  write. The commit actions (`SignIn`, `RefreshSession`, `StartImpersonation`,
  `StopImpersonation`, `RevokeSessions`, `DeleteUser`) are the store transactions the
  handlers end in; `Replay` is the `ErrReplay` branch of a rotation whose guard
  (`CanRotate`) fails. `chain` is history: the first row of the rotations that led to a
  row. `ChangePassword` is here for what it does to sessions: its replacement copies the
  impersonation, and with `revokeOtherSessions` (`ChangeRotation`) it is created whether or
  not the presented session is still live; if it is not, the replacement begins a chain of
  its own (`CarriedOn`).
* **Credentials.** A hash is the password and a salt; a legacy hash has salt 0, so a
  rehash of the same password is a different value, as in the code. `CanChange` and
  `HashUnchanged` are the compare-and-set clauses of the store. `Replacement` is the session
  that a change of the password puts in the place of the one presented, impersonation
  columns included.
* **AccountEmail.** A mail is a token with a recipient; following a link is presenting
  the token. `Config` holds the options under which the handlers branch.
* **OAuthAccounts.** An identity is (provider, account id); `Previous` is the id that
  `findProfileAccount` re-keys. A callback is consume, exchange, session check, and
  link or upsert, each its own step.
* **Organization.** A permission is a (resource, action) pair and a role a set of them;
  the static roles are those of `access.go`. A handler whose transaction repeats every
  check made before it is one action. A handler that carries something over from before
  its transaction (the roles exist, the caller may assign them, the team exists, the
  time) is a `Begin` action that puts a request in flight and an action for the
  transaction, so that a demotion, a removal or a deletion may fall between them.
  Set-active rotates the session (`RotateActiveSession`). `actor` and an invitation's
  `joined` are history.
* **Outbox.** Read the batch, handle one event, mark it: three steps per dispatcher.
  `Stored` is what `schemaAdapter.inputValue` makes of `occurredAt`: the time itself where
  `Capabilities().Dates` says so, else RFC3339Nano text, which drops the zeros at the end of
  the fraction. The batch is in the order of what is stored (`Earlier`). `Precedes`, of
  `EventDelivery`, is the order of time that both kinds of database respect.
* **SqlAdapter.** The sub-select, the outer write, the commit and the return of one
  statement are separate steps; `Dialect` selects the locking. The refinement mapping of
  `G` sees the committed row, and a caller's result from the moment its write is
  committed, before the caller is told.
* **SchemaGate.** A call is named by its leader. `Enter` is the mutex section, `RunCheck`
  the query made without the mutex, `Publish` the second mutex section, `CloseCall` and
  `Await` the two ends of the channel. Clients may disconnect at any step.
* **TwoFactor.** A request is a stage and the values it has read (`snap` is the factor row
  of `findTwoFactor`). `SignIn` creates the provisional session, then the hooks run one
  at a time: `AttachHeader` of the token plugin, `Gate`, `AcceptTrustedDevice` and
  `BeginChallenge` of `interceptCredentialSignIn`; `Deliver` is when the client gets the
  cookies (`held`). A verification is `Arrive`, `BeginAttempt`, `LoadFactor`, a `Judge`
  step where a code is compared with the snapshot, then either `FailedFactor`,
  `RecordFailure`, `LockAccount` or `CompleteVerification`, `ResetFailures`,
  `IssueSession`. `proof`, `proved`, `guesses` and `spent` are history.
* **Passkey.** `Sign` is the authenticator, or a copy of it; `ValidateLogin` is what the
  WebAuthn library decides (user handle, allowed credentials, counter). `Unmoved` is the
  WHERE clause of the counter update. The transaction of a registration is two steps,
  `CheckRegistration` for the reads (count, credential, handle) and `CreatePasskey` for the
  insert and the commit. `isolation` says whether another transaction may commit between
  them what the reads would have seen: not in a serial one (`MayCommit`), and freely under
  READ COMMITTED, where only the unique `credentialId` is checked again.
* **Sso.** A provider row has an id of its own, so a provider deleted and registered again
  is another row. The fields of an answer are what its signature binds: the provider it
  was meant for and the state whose nonce or request id it carries. `Uncorrelated` are the
  SAML answers taken while `AllowIDPInitiated` is on. No endpoint uses a transaction;
  every statement is a step.
* **Scim.** A request authenticates and reads, then commits its transaction in one step;
  the transaction does not repeat the reads, and the unique indexes are its only guards.

Operations named `...Unchecked`, `Any...`, `Keep...` and the like, commented as fault
variants, are not part of the specifications. Each is a plausible mistake in the code
that a property of a run detects when it replaces the definition below it.

## 3. Runs

Distinct states as TLC counts them, with the cfg's symmetry.

| Run | Instance | States | Shows |
|---|---|---|---|
| `sessions` | 2 users (one of a SCIM directory), 2 requests, 3 sessions (4 where passwords change), clock 0..1; three workloads: impersonating, changing a password, revoking | 2,171,000 | `ImpersonationAudited`, `StopIsFinal`, `OneLivePerChain`, `DeadChainStaysDead` |
| `credentials` | 1 user, 2 requests, 3 sessions, 2 passwords, 1 reset token, salts 0..2; a reset and a change workload | 806,000 | `LastChoiceWins`, `NoLostPasswordChange`, `RevokedDevicesStayOut` |
| `account_email` | 2 users, 2 addresses, 3 tokens, 2 requests; three configurations | 702,000 | `VerifiedMeansProved`, `OneWorkingChangeLink`, `DeletionProved` |
| `oauth_accounts` | 2 users, 2 addresses, 3 identities at 2 providers (one re-keyed), 3 account rows, 2 states, 3 provider tokens; three workloads | 518,000 | `LinkedByStarter`, `ImplicitLinkProved`, `VerifiedByEvidence`, `TokensBelong` |
| `organization` | 2 organizations, 2 acting users and a third addressee, 3 memberships, 1 team, 3 sessions, 1 dynamic role, 2 requests, clock 0..1; seven workloads | 340,000 | `OwnerRemains`, `OwnerRoleGuarded`, `TeamMembersBelong`, `ActiveStateValid`, `InvitationSingleWinner` |
| `outbox` | 2 dispatchers, 3 events, batches of 2, 2 failures, the times .00, .10, .12 and 1.00 s; times kept as times or as text | 288,000 | `PublishedWasHandled`, `NoOvertaking`, `EventuallyPublished` |
| `gated_requests` | 3 requests, limit 1, SQLite locking, any of them cancelled, a schema that may need its migration | 166,000 | `OwnCancellation`, `Contract` (refinement), `EveryRequestAnswered` |
| `second_factor` | 2 users, 2 requests, 4 or 5 sessions, 4 secrets, 2 challenges, 2 devices, 2 delivered codes, 1 token, 2 attempts, account budget 2, 1 backup code per set; ten scenarios | 1,037,000 | `SecondFactorProved`, `AttemptsBounded`, `BackupCodeSingleUse`, `EnrollmentProved`, `BudgetLocks`, `TokenSingleUse` |
| `passkey` | 2 users, 3 credentials (one without counter), 3 challenges, 3 handles, 2 requests, counters to 2, 2 credentials per user; serial and READ COMMITTED | 798,000 | `OneSessionPerChallenge`, `OwnerSignsIn`, `OneHandlePerUser`, `CounterNeverGoesBack` |
| `sso` | 2 users, an OIDC and a SAML provider, 2 domains, 2 subjects, 2 states, 2 assertions, 2 domain tokens, 2 requests; six scenarios | 895,000 | `OneSignInPerState`, `AssertionOnce`, `AnswerOfThisCeremony`, `OwnerWrites` |
| `scim` | 2 users, 2 addresses, 2 external ids, 2 personal and 1 organization connection, 3 bindings, 2 requests; four scenarios | 269,000 | `AccountHoldersKept` |

Why the bounds are enough: a race of this code needs two requests and one shared row; a
rotation chain with a copied impersonation needs three rows (base, first rotation, second
rotation), and a fourth when a change of the password carries it on; two addresses and two
users suffice for every collision; three provider tokens let one account hold a token
while two refreshes or sign-ins overlap; .10, .12 and 1.00 are the times that text sorts
otherwise than the clock does; a second secret or set of codes is what a stale snapshot
can be mistaken for, and a third what a re-enrolment during that mistake needs; two
attempts with an account budget of two let one challenge be used up and the account be
locked by two; three challenges let two registrations and a sign-in overlap; three
requests let a leader of the schema check be cancelled while one follower takes over and
another joins it. Endpoints are split into workloads or scenarios so that the operations
that touch the same rows meet in one behaviour. Values that come from the random source
are drawn canonically (`Draw`). Users, sessions, tokens and requests are interchangeable
where the cfg says `SYMMETRY`; runs with liveness use none. `CHECK_DEADLOCK FALSE` is used
where a run really ends: all requests answered (`gated_requests`,
`postgresql_guarded_writes`), or all bounded ids drawn (`organization`, `second_factor`,
`passkey`, `sso`, `scim`).

One run is expected to fail, against a statement of the repository (`findings` in
`PROJECT.json` quotes it): `postgresql_guarded_writes` shows that with READ COMMITTED two
guarded writes can both win.

Disagreements with a document, found while modelling, that no run states:

* Refreshing an impersonating session, or changing the password in it, gives the
  replacement the full session duration with the impersonation fields copied
  (`handlers_session.go` line 113). `SECURITY.md` lines 44-45: "Impersonation requires
  authorization, expires within one hour".
* A stopped impersonation may come back. `handleChangePassword` copies the impersonation
  of the session it resolved into the replacement (`handlers_management.go` lines 68-69),
  and with `revokeOtherSessions` `ChangePasswordAndRotate` does not look at whether that
  session is still live (`store.go` lines 136-144 and 159). Resolve, stop, change: a live
  session carries the stopped impersonation, and a second stop is recorded for it.
  `docs/adr/0001` lines 139-142: "Expired, revoked, or superseded sessions fail closed".
  `StopIsFinal` names the exemption (`EndedFor`); without it TLC finds this behaviour.
* SQLite and PostgreSQL keep `occurredAt` as RFC3339Nano text without trailing zeros
  (`adapter/sqladapter/schema_adapter.go` lines 224-227, `sqladapter.go` lines 124-126), so
  `ORDER BY occurredAt` (`outbox.go` line 39) puts 00.12Z before 00.1Z and 00.5Z before
  00Z, and of two events of one second the later may be handled first. `outbox.go` line
  24: "RunOnce delivers one ordered batch". `NoOvertaking` is to the second there.
* `createPasskey` reads the count of a user's passkeys and its handle, then inserts
  (`plugin/passkey/storage.go` lines 158-210), and no unique index is on either. Under READ
  COMMITTED two registrations may give a user two handles, or more credentials than the
  limit. `docs/passkeys.md` line 144 promises a stable handle and line 148 a limit.
  `OneHandlePerUser` is about serial transactions; TLC finds it violated without that.
* With `AllowIDPInitiated` the SAML library compares no InResponseTo, also when a relay
  state says which request was made (`plugin/sso/saml.go` lines 189-197): a sign-in begun
  here may end with an unsolicited answer or another request's. `docs/adr/0007` lines
  121-123 and 131-133 say that correlation is not bypassed. `AnswerOfThisCeremony` exempts
  these answers (`Uncorrelated`).
* `handleResetPassword` revokes the sessions with a separate statement after the
  callback (`handlers_recovery.go` line 134). `docs/adr/0010-email-password-option-contract.md`
  lines 43-45: "Existing sessions are revoked in the same transaction".
* `updateMemberRole` checks outside its transaction that only an owner assigns the owner
  role (`plugin/organization/members.go` line 132): an owner demoted meanwhile still does.
  `docs/organizations.md` lines 73-74: "A non-owner cannot assign or remove the owner role."
* A caller that joins a schema check after its query has returned, and before the result
  is published, gets that result although a migration may have finished before the call
  (`schema_check.go` lines 334-349; its comment says "A failed result is not kept: the next
  call checks again").
* A user who enabled only delivered codes has no factor row (`enableOTP`), and
  verification of a challenge begins with reading that row, so the challenge that
  `interceptCredentialSignIn` offers cannot be answered
  (`docs/two-factor.md` lines 64-68 offer `method: "otp"`).
* One TXT record under any of a provider's domains verifies all of them;
  `docs/adr/0007` lines 138-139: "Verified domains may permit verified-email linking only
  for their exact canonical domain."
* A SCIM DELETE retried while the first one is in flight still holds the binding that the
  first one removes; when the user has one other binding by then, of another connection,
  the count is 1 again and the user is deleted with it (`plugin/scim/users.go` lines
  548-590). `docs/scim.md` lines 94-96: "Personal deprovisioning deletes the global user
  only when that connection originally created it and it has neither another SCIM
  binding nor an authentication account."

Smaller observations:

* A change-email link issued while the old address was unverified still moves the
  account after that address has been verified, without a mail to it (`README.md`
  lines 214-216 describe the old inbox first).
* With `UpdateEmailWithoutVerification`, a verification link mailed to the old address
  marks the new one verified, because the token names the user only; hence
  `VerifiedMeansProved` excludes that option.
* A link whose user is deleted after the callback's session check leaves an account
  row without a user; later sign-ins with that identity fail.
* The account deletion callback accepts an impersonating session, although the
  deletion request refuses one (`handlers_management.go` lines 323-324).
* A sign-in that verified the old password may create its session after a reset or
  change has revoked all sessions; `RevokedDevicesStayOut` is about sessions that existed.
* A member may be given a dynamic role that was deleted after the request had looked it
  up. Adding a team member while the team is removed can leave a row of a team that no
  longer exists. Deleting the account of an only owner leaves an organization without one.
* Selecting an organization first replaces the session and then, in a second
  transaction, records the selection; when that refuses, the old session is already gone.
* `issuePluginSessionUsing` creates a new session when the presented one was revoked
  between the middleware and the rotation (`server.go` lines 258-270).
* Of two `sendOTP` requests of one challenge at once, both delete the old code and one
  insert fails on the unique value of the verification table. A TOTP code works
  again inside its window. Disabling the second factor forgets the trusted device of this
  browser only; the others are trusted again after it is enabled again.
* Passkey registration checks the target user outside the transaction that stores the
  credential.
* Deleting an SSO provider leaves its accounts, states and domain tokens. `domainVerified`
  is read when a sign-in begins and not when it ends. `verifyDomain` does not look at
  whether it consumed the token and confirms the row it read even if its domains have
  changed. The provider limit is counted before the insert, so two registrations may pass
  it together. An update that changes nothing still writes the fields it had read.
* SCIM's decision to revoke sessions is taken on a row read before its transaction.

## 4. Fairness

Two runs have liveness. `Outbox`: weak fairness of reading, handling and marking
for each dispatcher, because the application is told to call `RunOnce` repeatedly and
its handler returns; failures are bounded, as a permanently failing handler blocks the
queue by design. `GatedRequest`: weak fairness of each request's steps at the
gate and at the database, because the goroutine of a request is scheduled, `CheckSchema`
returns, and `Transaction` commits or rolls back on every path. Should a checker panic,
`pending` would stay set and later requests wait for ever; that is outside the
assumption. No fairness is assumed of the other request
handlers: clients may disconnect.

## 5. Proofs

TLAPS proves the theorems below for every value of the constants: any number of users,
rows, tokens and concurrent requests, any limits and durations.

| Module | Theorem | Statement |
|---|---|---|
| `SessionsProofs` | `TypeCorrect` | `Spec => []TypeOK` |
| | `SingleUseRotation` | `Spec => []OneLivePerChain` |
| | `EveryImpersonationAudited` | `Spec => []ImpersonationAudited` |
| | `StopFinal` | `Spec => []StopIsFinal` |
| | `RevocationIsFinal` | `Spec => DeadChainStaysDead` |
| `CredentialsProofs` | `StoredHashIsLastChoice` | `Spec => []LastChoiceWins` |
| | `PasswordChangeExclusive` | `Spec => []NoLostPasswordChange` |
| | `PasswordChangeEndsDevices` | `Spec => []RevokedDevicesStayOut` |
| `OAuthAccountsProofs` | `LinkGoesToStarter` | `Spec => []LinkedByStarter` |
| | `ImplicitLinksAreProved` | `Spec => []ImplicitLinkProved` |
| | `VerifiedNeedsEvidence` | `Spec => []VerifiedByEvidence` |
| | `TokensStayWithIdentity` | `Spec => []TokensBelong` |
| `OrganizationProofs` | `AnOwnerRemains` | `Spec => []OwnerRemains` |
| | `TeamsHaveMembersOnly` | `Spec => []TeamMembersBelong` |
| | `SelectionsAreValid` | `Spec => []ActiveStateValid` |
| | `InvitationsHaveOneOutcome` | `Spec => []InvitationSingleWinner` |
| | `OwnersGuardOwnership` | `Spec => OwnerRoleGuarded` |
| `TwoFactorProofs` | `NoHalfSignIn` | `Spec => []SecondFactorProved` |
| | `GuessesBounded` | `Spec => []AttemptsBounded` |
| | `BackupCodesSingleUse` | `Spec => []BackupCodeSingleUse` |
| | `FactorsProved` | `Spec => []EnrollmentProved` |
| | `BudgetIsEnforced` | `Spec => []BudgetLocks` |
| | `TokensTradedOnce` | `Spec => []TokenSingleUse` |
| `PasskeyProofs` | `ChallengeSingleUse` | `Spec => []OneSessionPerChallenge` |
| | `SignsInTheOwner` | `Spec => []OwnerSignsIn` |
| | `UserHandleUnique` | `Spec => []OneHandlePerUser` |
| | `CountersAdvance` | `Spec => CounterNeverGoesBack` |
| `SsoProofs` | `StateSingleUse` | `Spec => []OneSignInPerState` |
| | `AssertionSingleUse` | `Spec => []AssertionOnce` |
| | `CeremonyBound` | `Spec => []AnswerOfThisCeremony` |
| | `OnlyOwnersWrite` | `Spec => []OwnerWrites` |
| | `DeprovisioningKeepsAccountHolders` | `ScimSetting` implies `Scim!Spec => []AccountHoldersKept` |
| `GatedRequestProofs` | `CancellationIsOwn` | `RequestSpec => []OwnCancellation` |
| | `GateGuardsTheDatabase` | `RequestSpec => []NothingBeforeTheSchemaFits` |
| | `SqliteOneWinner` | `Dialect = "sqlite"` implies `RequestSpec => []OneWinner` |
| | `SqliteImplementsContract` | `Dialect = "sqlite"` implies `RequestSpec => Contract` |
| | `PublishedEventsWereHandled` | `Bounds` implies `Outbox!Spec => []PublishedWasHandled` |
| | `EventsStayInOrder` | `Bounds` implies `Outbox!Spec => []NoOvertaking` |
| | `VerifiedAddressesWereProved` | `Email!Spec => []VerifiedMeansProved` |
| | `ChangeLinksReplaceEachOther` | `Email!Spec => []OneWorkingChangeLink` |
| | `DeletedAccountsHadLinks` | `Email!Spec => []DeletionProved` |

These are all the safety properties that the passing runs check, action properties
included.  In every proof an invariant (`Inv`; `GateInv` and `SqliteInv` for
`GatedRequest`; `EmailInv`, `ScimInv` and `OutboxInv` for the instances) is shown to hold
initially, a lemma per action shows that the action keeps it, and the theorems follow from
it. Each was first checked by TLC as an invariant of the instance of the component's run.
The properties are not inductive by themselves, because a request decides on what it read
steps ago; the invariants say what the values in flight still guarantee.

**Sessions.** `RowOK` (an issued row has a chain, a free row has none, the impersonation
fields come and go together), `RequestOK` (what a request has read still describes the
immutable columns of its row, and a request about to commit an impersonation was
authorized) and `AuditOK` (an event names an issued session). `StopEndsChain` is
`StopIsFinal` chain by chain: only a rotation adds a row to a chain, and a rotation needs
a live row. That an impersonation not `CarriedOn` has one chain only follows from
`RowOK`, and with it the theorem. The writes are of two
kinds: those that only let live rows die (`Shrinks`) and those that add one row and retire
at most one (`Grows`). A lemma per kind preserves each part, a lemma per action shows
which kind it is.

**Credentials.** `SaltsOK`: every write of a hash draws a salt above all stored ones, so a
hash that a change has replaced never comes back and the compare-and-set of the loser
fails. `ChainsOK`: a rotation stays with the user of its chain's first row, so ending the
chains that a user has ends all that descends from them. `RequestOK`: the victims of a
reset that waits for its callback are rows of its user.

**AccountEmail.** `EmailTokenOK` says what the inbox that a mail reached will prove: a
change link goes to the new address, and a verification link goes to the address the user
has, or has had, and if the user has moved on then the new address was proved by a link of
its own. That is why a stale verification link, which marks the user and not the
address, does no harm unless `UpdateEmailWithoutVerification` replaces addresses unproved.
`EmailRequestOK` says what a request has established at each step: one about to mark or
delete a user carries the proof, because the token is consumed before.

**OAuthAccounts.** `RequestOK`: a callback holds a token issued for the identity whose
profile it got, a link names the user who began it, and a token refresh holds a token of
the row it has read. A row, once drawn, keeps its identity or is re-keyed to the new id of
the same person, so the guarded write of a refresh finds a row that its token belongs to
or none. `TokensNumbered`: a new token was never issued before.

**Organization.** `OwnerRemains` needs `MembersOK` (rows are of organizations that exist)
and the owner count taken in the transaction: a second owner is another row
(`AnotherOwner`). `TeamMembersBelong` and `ActiveStateValid` need `RequestOK`: a request on
a team knows the team's organization for as long as there is the team, and a rotation
that waits is for a session of the same user; `TeamsOK` keeps a new team's id apart from old
members. `OwnerRoleGuarded` is an action property: a lemma per action shows that its step
changes no owner's row and no invitation to be an owner, or checks the caller
in the transaction that does.

**TwoFactor.** Four arguments that share the requests. `FactorInv`: ids of factor rows and
backup codes are drawn once, so the clause on the row's id makes a request act on the row
it read or on none, and a code still in a row is unspent. `AttemptInv`: the guesses made
on a challenge are counted by its attempt row, or, while that row is consumed, by the one
request that holds it. `AccessInv`: a provisional session that owes the second factor is
with its own sign-in and nowhere else; once `interceptCredentialSignIn` has run
(`Passed`), the session is revoked or owes nothing (`Harmless`), for the session, for the
cookie and for a token that the one-time token hook issued, before or after. Sessions
never come back and tokens never change what they open (`SessionsAge`, `TokensAge`), so
what is harmless stays so. `TradeInv`: a traded token is gone.

**Passkey.** `HeldOnce`: a verify request in flight has taken its challenge out of the
table and nobody else holds it. `SameHandle` is the symmetric form of
`OneHandlePerUser`, which a transaction that reads all passkeys of the user preserves if
none of another request commits between its reads and its insert. That is the
hypothesis `isolation = "serial"` of the property.

**Sso.** `OwnerInv`: row ids are drawn once, so a row that still has the id that was read
is still of the owner that was checked. `LoginInv`: a consumed state and a recorded
assertion are in the hands of one request, and the answer it carries belongs to the
ceremony of that state, unless it is `Uncorrelated`, which a SAML answer is only where
`AllowIDPInitiated` is on.

**Scim.** A binding row, stored or removed, never changes what it ties together, and one
that owns its user was written with that user, by the connection recorded in `creator`
(`BindingsOK`). A deprovisioning request has read such a row (`ProvisioningOK`), so
however the tables change before its transaction, the user it deletes was created by its
connection; that the user holds no account is counted in the transaction. Users do not
become absent again, so `creator` is final for a user in `deletions`.

**GatedRequest.** `GateInv`: a kept or published "clean" was true of the schema, and a
result that stems from a cancellation is marked as such by the call whose client went
away. `SqliteInv`: a transaction that has tested its guard holds the write lock until it
commits, so the guard is still true of the version that is written. That is what READ
COMMITTED lacks, and where the refinement fails there. The refinement is shown step by
step: a commit is a `Win` of `GuardedRow`, a guard that finds no row a `Lose`, a rollback a
`Fail`; every other step, those at the gate included, stutters.

**Outbox.** `StoredInOrder`: of two times that `Precedes` relates, the earlier is stored
as the smaller, in both kinds of database. `BatchesAreComplete`: when an event is in a
batch, an event that committed before it and `Precedes` it is in the batch too or was
handled, because batches are read smallest first. `MarksHandled`: what a dispatcher is
about to mark was handled.

The assumptions are the named `ASSUME`s of the modules. They say what kind of values the
constants have; that `None` is not one of them; that a session, a token, a challenge and a
device are never mistaken for one another (`ValuesAssumption`: the code looks each up by
name and purpose); that scenarios are states the program can be in (`ScenarioAssumption`:
providers present at the start have ids that were drawn); and the limits that
`normalizeConfig` enforces (`LimitsOK`). For `OAuthAccounts` they also say of the
providers that a previous account id was one person's only and is not itself renumbered
(`Previous`); without that, two people could be one identity to `findProfileAccount`. The
theorems about the instances state what they need as hypotheses, which are the assumptions
of those modules: `Bounds` (bounds are numbers) and `ScimSetting` (the constants, and
`ScenarioOK`: the tables a scenario begins with are in order, a patched resource is a
resource). Those about `AccountEmail` need none. TLC evaluates all `ASSUME`s on every run.

Only model-checked:

* liveness (`EventuallyPublished`, `EveryRequestAnswered`): beyond these provers, as is
  anything about `ENABLED`;
* the violation under PostgreSQL, which is a counterexample.

## 6. Assumptions and what is left out

* A store transaction is one step in the store's modules. That is what `GuardedRow` states
  for single rows, what the memory adapter does with its mutex, and what
  `SqliteImplementsContract` proves for SQLite. Under PostgreSQL READ COMMITTED it does
  not hold (`postgresql_guarded_writes`).
* The same holds for `Organization`, whose owner count is a read in the transaction
  that removes or demotes: two owners leaving at once are serial under the memory
  adapter and SQLite and need not be under READ COMMITTED. A user's address does not
  change while an organization request runs. Names, slugs, metadata, listing and audit
  records of organizations are left out.
* `Passkey` models its registration under both kinds of transaction. `Scim` counts the
  accounts of a user in the transaction that deletes it, as one serial step; under READ
  COMMITTED an account linked at the same time need not be counted, so `AccountHoldersKept`
  is about serial transactions too, as is what the other plugins do in one.
* A commit whose outcome the client cannot learn is not modelled; a rollback is.
* Tokens, hashes and ids are distinct opaque values: randomness and cryptography are
  not modelled. Times are small numbers; expiry is a step that may come at any time.
* External, modelled by what the code relies on: WebAuthn (`ValidateLogin`), identity
  providers and XML signatures (`SignAnswer` and the fields of an answer), DNS
  (`Publish`), the locking of SQLite and PostgreSQL. The SAML library skips InResponseTo
  when IdP-initiated sign-in is allowed, and so does the model (section 3).
* Partly modelled: two-factor without `DisableTOTP`; passkeys without renaming; SSO
  without discovery and metadata; SCIM without listing and filters; of the hook pipeline
  only the after-hooks of a response.
* Not modelled: request parsing, CSRF and origin checks, cookies, rate limits
  (injected), provider HTTP clients, SQL generation, migrations, configuration
  validation, MongoDB (whose TTL index may also purge rows, replay records among them, by
  its own clock). They keep no shared state of their own, or none that another
  request can see half-written.

## 7. Plan

What is left, most important first:

1. `Organization` and `Scim` under READ COMMITTED, as `Passkey` is now: the owner count or
   the account count of two transactions may be of the same snapshot (section 6).
2. Database hooks around an adapter transaction, and what a refused hook leaves behind.
