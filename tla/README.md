# IAM in TLA+

A TLA+ development for the `gopherex/iam` server: a multi-tenant authentication
service in Go on PostgreSQL. It models the parts of the server whose correctness
depends on the order in which transactions, requests, workers and clock ticks
happen, checks them with TLC on small instances, and proves the central
invariants with TLAPS for every instance.

## 1. The system

A request enters `pkg/api`, is authenticated, and calls a port of
`internal/domain`, implemented in `internal/infrastructure/postgres`. Port methods
that write run inside `withTx`: one SERIALIZABLE transaction, retried on a
serialization failure. `pkg/api` itself opens no transaction, so a handler that
calls several port methods, and the flow engine, which loads a flow, runs a
transaction and saves the flow, interleave with every other request between those
calls. A few writes deliberately leave the ambient transaction and go through the
pool. Background workers (the outbox drain, the webhook retrier, the job runner,
the garbage collector, the account-deletion worker) run beside the requests on
every replica.

The modelling rule that follows: **one transaction is one action; a handler that
spans several transactions, or writes through the pool, is several actions, with
what it has read so far held in a variable.**

### Inventory

| Part | Source (under `src/`) | State | Operations | What makes it hard |
|---|---|---|---|---|
| Core sessions and refresh tokens | `postgres/coreauth_pg.go`, `session_revoke.go`, `authenticator_pg.go`, `account_pg.go`, `admin_pg.go`, `gc.go` | `iam_sessions`, `iam_refresh_tokens`, account status | sign-in, refresh with rotation and reuse detection, sign-out, ban, reset, rename, trust, collect | rotations racing revocations; four notions of expiry; policy edits seen late |
| OIDC provider tokens | `oidc_pg.go`, `oidc_tokens_pg.go` | authorization codes, device codes, refresh tokens of kind oidc | code, device and refresh grants, revoke, logout | spend and mint of a refresh grant are separate transactions; the burn leaves the transaction |
| Password lockout | `coreauth_pg.go` | failure counter and lock of a credential | failed and successful password checks | read-modify-write through the pool |
| Resumable flows | `coreauth_flows*_pg.go` | `iam_auth_flows` rows | create, submit per step, resend, abandon, resume | load, act and save are separate; retries and double submits |
| Account security | `security_*_pg.go` | incidents, guards, cases, links, security flows | observe, review, report, recover, support, restore, sign-in proof | proofs used long after they were given; the event under review may have removed what it is reviewed with; failures recorded in independent transactions |
| Security flow tokens and their client | `security_flows_pg.go`, `security_continuation_pg.go`, `ts/packages/sdk/src/auth/security.ts` | link, flow token, previous token; what each tab holds | exchange, submit, resend, resume, retry | lost answers, late requests, reloads, two tabs |
| Account deletion | `account_deletion*_pg.go` | deletion requests | request, cancel, sweep, purge | several workers; a crash between claim and purge; cancel at the deadline |
| Webhooks and outbox | `webhooks_pg.go`, `webhooks_retry.go`, `emitter.go` | outbox rows, deliveries | publish, deliver, retry, manual redelivery | at-least-once, several senders of one delivery |
| Jobs | `jobs*.go`, `account_pg.go`, `account_deletion_worker.go` | job rows | create, claim, import a row, export, finish, cancel, purge | crash while running, cancel or purge racing the finish, rows that fail |
| Challenges (codes, links) | `coreauth_pg.go`, `passwordless_pg.go`, `mfa_pg.go` | challenge rows | start, validate, consume | attempts counted, single use |
| Rate limiting | `pkg/api/ratelimit.go`, `ratelimit_pg.go` | windows | hit | window edges, several replicas |
| Invitations | `invites_pg.go` | invites | create, resend, accept, revoke, expire | accept racing revoke |
| Social / SAML sign-in state | `oauthsocial_state.go`, `federation_saml_state.go` | one-time state rows | begin, finish | replayed or crossed callbacks |
| Signing keys, configuration cache, hooks, audit, notifications, machine identity, federation (SCIM), passkeys, operator console, the rest of the TypeScript SDK, web UI, bot | see `PROJECT.json` | | | see `PROJECT.json` |

## 2. Modules and the code they model

Each row is a component module with its MC module. In all of them: a variable per
table (or per row, where one row is enough), the requests between two of their
transactions in a variable of their own, the clock as a bounded number, and ids,
passwords and payloads as model values.

| Module | State | Actions and the code behind them |
|---|---|---|
| `Sessions` | `sessions`, `tokens`: rows of `iam_sessions`, `iam_refresh_tokens`; `status` of accounts; `bumps`: last-active writes under way; `owed`: refresh tokens the OIDC provider is about to mint | `PasswordSignIn`, `ProofSignIn`, `ResetPassword`, `SwitchGroup` (the ways to `coreAuthMintSession`); `RefreshRotate`, `RefreshReused`, `RefreshTimedOut`, `RefreshDeviceMismatch` (`coreAuthRefreshInTx`); `SignOut`, `SignOutAll`, `RevokeToken`, `Ban`, `Anonymize`, `Unban`, `DeleteUser`, `PurgeUser`; `IssueCode`, `SpendOidc`, `MintOidc`, `ForgetOidc`, `ReplayOidc` (the provider's tokens, rows of the same table); `Authenticate` and `BumpLastActive` (`checkSessionLive`); `RenameSession`, `TrustSession`; `GcSessions`, `GcTokens` |
| `TokenLease` | abstract: a refresh token is the first key of a lease, which has at most one key at a time and, once ended, none | `Grant`, `Spend`, `Renew`, `End`: what `Sessions` is shown to implement for the tokens of both endpoints |
| `Lockout` | the credential row (column and envelope), each sign-in with the row it read | `Load`, `Refuse`, `Test`, `Fail`, `Succeed`, `Conclude`, `Retry` (`AuthenticatePassword`, `coreAuthVerifyPassword` and the pool writes, which may be lost: their error is discarded); `UpsertPassword`, `SetPassword`, `DeleteCredential` |
| `Flows` | the flow row, its token generation, challenges, sessions, consents, and each request's copy of the row | creation (three commits; the required consents may be misread as none), `Load`, one action per step transaction, `Save` and `Rotate` (`flowSave`, `flowRotate`), `Reissue`, `SwitchMethod`, `Abandon`, a request cut off in between |
| `OneTimeCodes` | one challenge row, the requests trying it | `TryWrong`, `Bump`, `TryRight`, `Confirm` (`VerifyOTP`, `bumpAttempts`), `VerifyMfa` (`Verify`, `mfaBumpChallengeAttempts`) |
| `Oidc` | pushed requests, interactions, grants, codes, device codes, refresh tokens of kind oidc, requests | the provider's endpoints from `PushAuthorizationRequest` to `RevokeToken`; `Spend` and `MintRotated` are the two halves of a refresh |
| `Webhooks` | webhooks, events, outbox messages, delivery rows, the order in which they fall due, each worker's pass | `Emit`, `Publish`, `Scan`, `Attempt`, `Record`, `Finish`, `Crash`, `Elapse`; `Create`, `Update`, `Delete`, `RetryDelivery`, `ReplayEvent`, `Test`; `SweepEvent` |
| `DeletionPromise` | abstract: the clock and the deletion record | `Wait`, `Schedule`, `Cancel`, `CarryOut` |
| `Deletion` | account, password, factor, session, deletion record, proofs, requests, workers that have found it due | `Check`, `StepUp`, `Mutate` (the three parts of `MutateDeletion`), `Authorize`, `CancelById`, `Scan`, `Finish`, `Fail`, and the handlers that change what those depend on |
| `SecurityFlows` | account (contact, credentials, time of the last recovery), sessions, guard, incidents, cases, links, security flows | `SignIn`, `RequireProof`, `RecordFailure` (`guardSignIn`, `requireSignInProof`, `recordFailure`); `ChangeEmail`, `EnrollFactor`, `ActivateFactor`, `AddCredential`, `RemoveFactor` with the incident that `observe` records; `StartReview`, `StartRecovery`, the three exchanges, `VerifyIdentity`, `VerifyContact`, `VerifyFactor`, `Confirm`, `Report`, `Restore`, `Abandon`, `NewContact`, `RequestSupport`, `SupportMessage`; `DecideCase` |
| `AtMostOnce` | abstract: the actions carried out and those acknowledged | `Do`, `Ack` |
| `FlowTokens` | link, flow row, each tab's memory and storage, its call, the network | client: `OpenLink`, `Resume`, `Submit`, `Resend`, `Receive`, `GiveUp`, `Reload` (`SecurityFlowController`); server: `Deliver` (exchange, replay, get, mutate with rotation and grace) and expiry |
| `Jobs` | rows of `iam_jobs`, each worker's job and counts, accounts, the person | creation of the three kinds, `Claim`, one action per imported row, `Read`, the finishing update, cancellation, a worker that stops, deletion and purge of the person |

`Sessions` and the other modules meet at a few points, which each module keeps as an
action of its own: a revoked session in `Oidc` (`Logout`), the minted session in
`Flows`, `OneTimeCodes` and `SecurityFlows`, the password in `Deletion`, the purge of an
account in `Jobs`. The OIDC provider is in two modules: `Sessions` has what it does to
the token table it shares with core-auth, `Oidc` how its requests, interactions and
codes lead there. What core Refresh does with one of the provider's tokens looks in
`Oidc` like `RevokeToken` (the token it issues instead is not one of the provider's),
and the revocation that follows a reuse like `Logout`. `FlowTokens` and `SecurityFlows` split one table: the first is about
who holds the capability of a flow and how often an action reaches it, the second about
what the action does. What is left out in every
module only refuses (throttles, expiry where it is not the question, signatures,
input validation) or only reports (audit rows, notifications, events other than the
one `Webhooks` follows).

## 3. Runs

| Run | Question | Bounds | States |
|---|---|---|---|
| `sessions_core` | Do sign-ins, refreshes, revocations and the collector keep one redeemable token per session and none of a revoked one, and no session past its deadline, while a policy edit is still cached somewhere, and OIDC tokens are presented at either endpoint? | 1 user, 2 sessions, 3 tokens, 2 policies, 1 OIDC mint outstanding, time 0..3 | 559 538, symmetric in ids |
| `sessions_lease` | With rename and trust added: does every line of tokens implement `TokenLease`, and are expired rows swept? | 1 session, 3 tokens, 2 OIDC mints outstanding, time 0..2 | 101 577 |
| `lockout` | Are consecutive failures counted exactly, while sign-ins do not overlap, also when a sign-in is retried, the password replaced or a write lost? | 2 sign-ins, 2 credential rows, threshold 2, 2 lost writes, time 0..3 | 2 135 353 |
| `lockout_lost` | expected to fail: does a lock last? | 1 credential row | |
| `flows` | Consents before a session, one session after a recovery, a second factor never skipped, and, when requests do not overlap, one session, live when it is returned | 2 requests, 2 challenges, 3 sessions, every plan, configuration reads that fail | 958 219 |
| `codes` | Are guesses bounded, and is a lock final? | 3 requests, limit 2 | 3 414 |
| `oidc` | Does a code have one line of refresh tokens, does the claimant decide an interaction, is a pushed request used once, and does a revoked session stay quiet? | 2 sessions of 1 account, 2 requests, 1 interaction, 2 codes, 1 device, 2 tokens, 1 pushed request | about 900 000 |
| `webhooks` | Did a published event reach every webhook, is an accepted delivery left alone, is a failed one retried, does the outbox settle? | 2 webhooks, 2 events, 3 of the two together, a batch of 1, 1 relay, 1 retrier, 1 admin, 2 attempts each, 1 admin request or crash | 157 693 |
| `deletion` | Does the record keep its promise, is a due deletion carried out, and does the current password decide? | 2 requests, 2 workers, 1 proof, 2 passwords, grace 1 or 2, time 0..2 | 849 036 |
| `security` | Is an approval good for one recovery and a proof for one session, is an earlier proof worthless after a recovery, does nobody sign in while the account is cleared, and does the review of an event ask for the factor, and give back the contact, from before it? | 3 scenarios: what credentials the account has, how many changes, reviews and cases; 3 or fewer rows of each table | 1 332 344 |
| `tokens` | Is `AtMostOnce` implemented over a network that delays and loses, does one tab hold the flow, and is a conflict within the grace true? | 2 tabs, 2 inputs, grace 1 | 1 165 967, symmetric in inputs |
| `jobs` | Does a job run once, does its ending stand, are its counts true, is a purged person not exported, and does every job end whose worker is not lost? | 2 workers, 2 jobs, 2 addresses | 196 496 |

**Why the bounds are enough.** Every hazard of these components is a race of two
requests, or of a request and a worker, on one row: two of each reach it. Three
token ids let a session be rotated twice, so that a spent token can be replayed after
its successor has been spent. A threshold of 2 separates the first failure, the one
that locks, and the one after it. Time goes one step past the lifetimes that end
something in each instance; in `sessions_core` a session times out under both policies,
under the older one by its idle limit. The lease run has one session, since a line of
tokens never leaves its own, and two mints outstanding, so that a code is exchanged while
a token of an earlier one has been spent and not yet replaced. In `webhooks`
administrators, crashes and updates are explored with one webhook and one event (`Few`),
and the relay and a retrier alone with three of the two together (`Most`), one message
in the outbox at a time (`MaxQueued`): what an administrator does to one delivery touches
no other. A batch of one is smaller than the table, so rows wait for each other, and a row
that can never be delivered may hold the batch. In `security` the scenarios keep
apart what would multiply: an account that changes twice before it is reviewed, two
reviews of one account, a review with support, and support asked for three times from
outside; time 0..1 tells before a recovery from after it, and every row a scenario can
need has an id. In `tokens` one tab makes four calls, enough to act, lose the answer,
be reloaded and act again, the other opens the same link; two inputs tell a retry from
another action, and time goes past the grace. In `jobs` the imports repeat an address
and share one, so that rows fail within a job and between jobs. `Most`, `Few`,
`MaxTrouble`, `MaxQueued`, `MaxLost`, `MaxWrong`, `MaxGrants`, `MaxIds`, `MaxBumps`,
`MaxOwed`, `MaxSends`, `MaxToken`, `MaxJobs`, `Scenarios`, `MaxAge` and `MaxTime` are
bounds of the instances; the theorems do not depend on their values.

**Ghosts.** `overlapped` (`Lockout`, `Flows`), `crossed` (`OneTimeCodes`) and
`muddled` (`Webhooks`) say that two requests have been between a read and the write that
depends on it. Some properties hold only while they have not: the code does not lock
there, and the exact count, or the exactly-once delivery, is then not promised. The
other properties hold without that condition. Three more mark what the code lets pass:
`crossed` in `Sessions` has the sessions of which core Refresh has taken an OIDC token,
`streak.lost` in `Lockout` counts the writes of the counter that failed, and
`consents.misread` in `Flows` says that a configuration read failed; section 6 has what
follows from each. The remaining ghosts only remember: `line` in `Sessions` (the first
token of each token's line), `streak.wrong` in `Lockout`,
`before` and `cleared` in `SecurityFlows` (the account before an event; that all its
sessions were revoked), `log` and `acked` in `FlowTokens` (what was done, and what the
client was told), `runs`, `made` and `lost` in `Jobs`.

**Deadlock** is not checked: every instance stops when its ids or its time are used
up, and a server without requests may stop.

**Fairness.** Only background loops are fair, because only they run without being
asked. `Sessions`: weak fairness of the collector's two statements, which
`RunGarbageCollector` runs on a ticker. `Webhooks`: weak fairness of each relay and
retrier, whose loops run until shutdown, and of the passing of a back-off time.
`Deletion`: weak fairness of a worker's scan and strong fairness of its transaction,
which may roll back any number of times (`Fail`) but, retried at every tick, not for
ever. `Jobs`: weak fairness of each worker's claim and of its work, since
`RunJobsWorker` polls and drains until shutdown; a worker may stop with any job in hand
(`Lose`), and that job is excepted. `SecurityFlows` and `FlowTokens` have no fairness:
nothing in them runs unasked. No request is ever assumed to be made or repeated.

## 4. What is proved

Eight modules hold proofs; all are about every number of users, sessions, requests,
webhooks, workers, tokens, jobs and every policy that satisfies the module's `ASSUME`,
which states types, non-zero limits and the distinctness of null values. That of `Flows`
also says where a flow may start, which the three handlers that create one fix: a
sign-up at `verify_email` (`coreauth_flows_pg.go:958`), a recovery at `verify_email` or
`verify_phone` (`coreauth_flows_recovery_pg.go:78` and `:214`); and that finitely many
session ids are there to count. `GuessLimitsProof` and `WorkersProof` each hold the
proofs of two components that share nothing but their shape.

What is proved for every instance is run only where the run asks something of its own
instance; the type invariants, in particular, are conjuncts of the inductive invariants
below. That of `Webhooks` is proved without its conjuncts about the order of the due
rows and the limits of a pass (see below); the whole of it holds on the instance of the
run.

- `SessionsProof`: `TypeOK`, `OneActiveToken`, `RevokedSessionHasNoActiveToken` of
  `Spec`; `RowOutlivesToken`, `HorizonAgreement`, `AbsoluteDeadline` of `CoreSpec`
  (without rename and trust, which break them, see section 6). All but the last are
  about core-auth tokens, and `OneActiveToken`, `RowOutlivesToken` and `HorizonAgreement`
  except the sessions in `crossed`. Neither of the two
  main invariants is inductive alone: a token row has to point at a session that was
  once created, and a live session at a user (`References`), or a sign-in could
  reuse the id of a session that already has a token. The expiry facts need in addition
  that a swept token has expired. `ImplementsLease` (refinement of `TokenLease`) is
  without exception and about tokens of both kinds: a sign-in or the mint for a code
  grants, a core rotation renews in one step, an OIDC refresh spends and renews, and
  whatever flags or deletes tokens ends their leases, except that the lease of a token
  spent and not yet replaced stays held. It rests on `Lines`: each line has at most one
  holder, an active token or a request that owes the next. `TimedOutStaysDead` of `CoreSpec` is proved for
  projects with one environment: with two, a refresh may stamp the other one on the
  token (section 6) and the session be judged by its policy.
- `GuessLimitsProof`, of `Lockout`: `LockIsBounded`, `CounterBelowThreshold`,
  `CountsConsecutiveFailures`. The invariant speaks of the stored envelope *and* of the
  copy every sign-in holds, since a sign-in writes its copy back. The exact count, of
  sign-ins one at a time, needs that ids of rows never come back and that a password is
  tested only past the lock (`Known`), and that the copy held is the stored count and the
  stored and the lost ones add up to the wrong passwords (`Tally`).
- `GuessLimitsProof`, of `OneTimeCodes`: `OneSession`, `LockedForGood`,
  `GuessesBounded`. Needed besides: an envelope held by a request is below the limit, and
  a closed row says why it was closed. The bound on guesses, of requests one at a time,
  follows from a balance: the wrong codes are the counted ones, the lost ones and the
  one under way (`CodeTally`).
- `OidcProof`: `OneTokenPerCode`, `QuietStaysQuiet`, `ClaimantDecides`, `PushedOnce`. The
  first invariant follows the *line* of a code: a code not exchanged has no holder, an
  exchanged one at most one, which a refresh hands from token to request to token. A
  pushed request is followed the same way, from the request that redeems it to the
  interaction or the code it becomes (`PushInv`). An open interaction has no code and is
  held by the session that claimed it first (`ClaimInv`).
- `WorkersProof`, of `Deletion`: `KeepsPromise` (refinement of `DeletionPromise`),
  `FinishedOnce`, `NothingLeft`, `ProofUsedOnce`, `CurrentPasswordDecides`. Needed
  besides: a proof that can still be used is unused, and the event was emitted exactly
  if the record says deleted. The refinement has one case per action that moves clock or
  record.
- `FlowTokensProof`: `KeepsPromise` (refinement of `AtMostOnce`), `OneHolder`,
  `RefusedNotDone`. Four things have to be known together: the tokens used up are older
  than the flow's and the last of them is the one it remembers (`LogInv`); a request on
  its way was made with a view that was open at that token (`ViewInv`, `RequestInv`), or
  a late one could be taken for an action on a flow that has ended; what an answer says
  was so when it was given and stays so (`AnswerInv`); and an exchange key belongs to one
  tab (`KeyInv`).
- `WorkersProof`, of `Jobs`: `RunsOnce`, `TallyIsTrue`, `EndingStands`,
  `NoExportAfterPurge`. A row is pending only until its one claim, so one worker ever
  has the job (`OnceInv`); it has counted the rows behind it (`CountInv`); and an export
  that is not finished names the person, so that the purge finds it (`OwnerInv`). A
  finished one no longer does, see section 6, which is why the theorem is about exports
  completed after the purge.
- `SecurityFlowsProof`: all six properties of its run and the type invariant. What a
  flow's row says rests on an incident, a case and the time of the last recovery
  (`FlowInv`), each of which moves one way only: incidents keep what they recorded, a
  completed case stays completed, recoveries come later (`Later`). So what was checked
  when a flow started still holds when it ends, or its authority is gone, and a flow is
  used up only while its authority holds (`SpentWell`). Besides: an incident asks for at
  least the factor the account had and names its former contact (`IncidentInv`), a
  session that was signed in with a proof has spent it (`SessionInv`), and while the
  account is cleared the guard stands and no session is live (`ClearedInv`).
- `FlowsProof`: the type invariant, `ConsentsBeforeSession`, `RecoveryLeavesOneSession`,
  `SecondFactorKept`, `EmailStepVerifiable`, `SessionOnce`, `ReturnedLive`. None of them
  is inductive: the engine writes back the copy of the row that it loaded, so what is
  said of the row is said of the copy of every request (`ReqOK`). A pending copy still
  asks for the consents, unless they have been misread (`GateOK`), of a sign-in with a second factor it is at
  `mfa_required`, and at `verify_email` it waits for a challenge the verifier accepts
  (`FlowOK`); a request about to rotate the token holds a session that may be returned
  (`PlaceOK`). These hold for requests in any order. The last two properties are of
  requests one at a time and rest on a second invariant (`Serial`): the request in
  progress is the only one, the session it carries is live, and once a session was
  returned no pending row is left to load.
- `WebhooksProof`: `PublishedReachedAll`, `NotResent`. What a published event promises is
  known before it is published from what the pass of the relay still has to do: unless
  the pass met a failure, each webhook the event must reach has accepted it or is on the
  list (`Owed`, in `PassOK`). Not sending a success again rests on the workers in the
  middle of the same delivery: two of them muddle it (`Sole`), and of a delivery that is
  not muddled a confirmed success stays recorded, since only a forced pass is in the
  middle of it (`Settles`).

Each proof has the same shape: the initial state satisfies the invariant, one step
per action shows that it is kept, with lemmas for the helpers several actions share,
and a temporal step draws the conclusions.

**Only model-checked.** Liveness (`ExpiredRowsAreSwept`, `FailedIsRetried`,
`OutboxSettles`, `DueIsFinished`, `JobsSettle`), which under fairness is beyond the
proof system, and of the type invariant of `Webhooks` what it says of `due`, from which
`Scan` takes a batch with `SelectSeq`, a recursive definition the provers know nothing
about (that a due row is failed and due once, and that a scan finds deliveries only),
and the upper limits of its counters. The theorems hold without them. Every invariant,
action property and refinement of a passing run is a theorem.

## 5. What is not modelled

`PROJECT.json` lists every part with its status. Left out for good: generated code,
the migrations, the user interfaces, the chat bot, cryptography and parsing, the
rendering and sending of messages, and the single-row administration of
configuration, roles and clients, where one transaction writes one row that no other
step depends on. Left for later: section 7.

## 6. Where the code and its documents differ

One difference has a run that shows it, and a finding in `PROJECT.json` that quotes the
lines: `lockout_lost`. A sign-in that read the envelope before a lock was set erases the
lock (`LockIsNotLost`).

The others follow. Where a property is named, the module defines it, and adding it to
the configuration of the component shows the behaviour.

- Sessions. A refresh stamps the environment of the request on the new token, and the
  next refresh takes its policy from there (`coreauth_pg.go:746`), although the policy is
  said to be bound to "the token's/session's own env), so refresh-time policy can't be
  weakened by the request's X-Environment header" (`config_reader.go:333`):
  `PolicyFollowsSession`, with two environments. `TrustSession` may set an expiry earlier than the token's, so the row goes
  before the token does (`RowOutlivesToken` under `Spec`); `RenameSession` counts as
  activity and wakes a session that had idled out (`TimedOutStaysDead` under `Spec`).
  The OIDC provider marks its token rows "so the two lifecycles stay distinguishable in
  one table" (`oidc_tokens_pg.go:37-38`), and core Refresh, which finds the row by its hash
  (`coreauth_pg.go:1876`), does not look at the mark: an OIDC token presented there is
  rotated into a core-auth token, a second one on the session if the sign-in's is still
  active, and the row's expiry moves to the horizon of the new one. These sessions are
  excepted from `OneActiveToken`, `RowOutlivesToken` and `HorizonAgreement` (`crossed`). In
  the other direction, the burn that follows the replay of an OIDC token flags the core-auth
  tokens of the session too (`oidc_tokens_pg.go:166`), and one that comes between the spend
  and the mint of another refresh does not reach the token that refresh mints.
- Lockout. An administrator's `SetPassword` writes the column and not the envelope
  (`SecretMirrorsHash`); a serialization retry reads the counter its first run cleared
  (`PriorFailuresAsFound`). The errors of both pool writes are discarded
  (`coreauth_pg.go:1247` and `:1257`). The comment has "the worst case is one un-counted
  attempt" (`coreauth_pg.go:1235`), which is so of each failed write and not of several:
  `CountsConsecutiveFailures` counts them, and a clear that was lost leaves the count of
  before the success.
- Flows. A request that loaded a flow while it was pending writes its copy over the
  completed row (`coreauth_flows_pg.go:247`), although the design has "the flow row is
  then terminal" (`docs/design/resumable-auth-flows.md:107`): `TerminalIsFinal`. With two requests at once a flow may return two sessions
  (`SessionReturnedOnce`) and test more codes than its limit (`AttemptsBounded`). A
  resend may leave a step other than `verify_email` waiting for a challenge its
  verifier does not accept (`EveryStepVerifiable`), and a sign-up cut off before its
  provisional session is revoked leaves it live (`NoLingeringSession`). The configuration
  reader propagates an error, as "consent.required is a legal gate, so a transient read
  error must propagate (the gate denies) rather than silently skip the step"
  (`config_reader.go:431-432`), and so does the gate of sign-ups without a flow; a flow takes
  an error for no required consents (`coreauth_flows_pg.go:1008-1030`) and for no
  configured documents when it records them (`:1322`), and goes on:
  `ConsentGateFailsClosed`. `ConsentsBeforeSession` excepts that (`misread`). The comment at
  `coreauth_flows_pg.go:873` has an invitation accepted in the transaction that
  creates the account; it commits on its own.
- One-time codes. The counter of concurrent wrong codes may lose increments; the limit
  then bounds what each request saw, which is what `GuessesBounded` states.
- OIDC. A code exchanged, or a rotation finished, after the session was revoked leaves a
  redeemable token (`oidc_tokens_pg.go:47`), although "rotation, reuse detection and
  \"revoke the session\" all work on OIDC grants too" (`oidc_tokens_pg.go:11`):
  `RevokedSessionHasNoToken`. `persistGrant` is said to upsert and inserts; a code consented to without
  "remember" has no grant and cannot be exchanged; a denied device code can be decided
  again and an approved one is not consumed; the rollback that follows a rejected
  pushed request also undoes the delete its comment counts on.
- Webhooks. `website/docs/self-hosting/deployment.md:65-67` says the retry worker
  holds a lease; `drainDueDeliveries` takes none, so retriers of two replicas overlap,
  which is why `NotResent` is stated for deliveries that are not `muddled`. A batch
  full of due rows whose events were swept keeps the others from being scanned, for as
  long as they fill it (`webhooks_retry.go:50`); `FailedIsRetried` excepts that time
  (`Stuck`), which the run reaches: without the exception TLC finds it violated. A retry cut off
  before it sends leaves a pending row without a next attempt.
- Deletion. `user.deleted` is emitted by the worker even if an administrator's
  deletion emitted it before; `FinishedOnce` is about the worker's event.
- Security flow tokens. After a lost answer and a reload the SDK resumes with the token it
  had stored, and is answered `conflict` (`security_flows_pg.go:651`): the grace is for
  the repeated action only. The guide has the flow resumed after a reload
  (`website/docs/guides/account-security.md:125-134`).
- Jobs. `finishJob` writes back only what `jobData` has fields for, so a completed export
  no longer says whose it is (`owned` in `FinishJob`): `ExportStatus` then answers not found
  (`account_pg.go:772-805`) where `website/docs/rest-api/runtime.md:192` says to poll it,
  and the purge of an account does not find the export. A worker that stops after its
  claim leaves the job running for ever (`JobsSettle` without the exception), where the
  comment says it "runs them to completion" (`jobs_worker.go:31`).
- Invitations (not modelled). `usedInviteSlots` is said to count "pending-unexpired plus
  accepted"; the query applies the expiry to accepted ones as well (`invites_pg.go:262`).

## 7. What is left for later

1. Invitations: quota and redemption, composed with `Flows` for the invitation taken at
   sign-up.
2. The configuration cache and the signing keys: caches of each instance against edits
   and rotations; tokens signed by one instance verify on every other.
3. External sign-in: social and SAML state, assertion replay, linking and unlinking,
   passkey ceremonies and counters.
4. Extensions of what exists: magic links, recovery codes and issue throttles in
   `OneTimeCodes`; back-channel logout beside `Webhooks`; API keys and operator
   sessions; the rate limiter's windows.
5. Composition of `Sessions` and `Oidc` over one session table, so that each
   revocation of the first is seen by the endpoints of the second.
6. In `FlowTokens`, the SDK's resumption of a flow from a token handed to it
   (`resumeByToken`), beside the one from its storage.
