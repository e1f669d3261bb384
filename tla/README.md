# VettID: a TLA+ verification project

This directory models the parts of the vettid.org repository whose correctness
depends on what happens between steps: Lambda invocations that read DynamoDB
rows, decide, and write later under a condition, beside other invocations, an
enclave that answers whenever it likes, and a platform that may stop any of them;
and the pages and scripts whose answers and runs overlap. Each module names the source it
models; `PROJECT.json` maps every definition to its lines.

## 1. The system

VettID runs a vault for each member inside an AWS Nitro enclave. This repository
holds the account side of it: CDK stacks (`lib/`, `bin/`), static sites
(`sites/`, `website/`), and about 14,000 lines of Lambda code (`lambda/`). The
enclave and the parent host ("the host") are other repositories; they meet this
code in DynamoDB rows and SQS queues only.

| Component | State it keeps | Operations | Correct when |
|---|---|---|---|
| **Vault recovery** (`lambda/member/vault.ts`) | `recovery` and `deletion` on the vault's row; slots in the request table | request, read the code, claim, register, cancel (session, email link, phone), complete, refuse, apply the enclave's times, extend; start over | one ending per recovery, audited and mailed once; no completion without the vault's own change of phone; never earlier than 24 h; never beside a start-over |
| **Attempt notices** (same, `lambda/jobs/vault-attempts.ts`) | `attempt_noticing`, `attempt_notice_tries`, `attempt_noticed_at` on each open's slot; `open_ids` | notice (poll, status read, next open, sweep), gate of the next open | each counted guess is mailed and audited, once, whatever the phone does; a guess is not followed by another before it is reported |
| **Phone cancels** (same) | `rcnotice#` rows, `cancel_noticed_at` on slots, the row's `recovery_cancelled` | notice (poll, status read, request, sweep) | one cancel, one audit, one mail; only the recovery that was named |
| **Code release** (same) | `releasing`, `released` on the recovery's slot; the recovery's `register_ids`, `unlock_ids` | read the code, register, unlock | no code returned before its release is on record; a listed request stays listed |
| **Keys and links of a recovery** (same, `shared/app-auth.ts`) | `claim_keys`, `ended_keys`, nonces; locator and cancel-link rows | let a phone through, tell it that its recovery ended, move the rows' time | a phone is told the truth; a header is used once; a link works as long as what it cancels |
| **Setup codes, enrolment** (same, `shared/enroll-code.ts`) | the member's pointer row, vault rows, issuances | issue, revoke, redeem, enrol | one end per code, bounded guesses, one vault per member |
| **Requests and routing** (same, `shared/vault-routing.ts`) | slots, instance rows, leases | enqueue, poll, expire, route | a slot before its message; only testers on a release under test |
| **Service switch** (`shared/vault-service.ts`, `admin/vault-service.ts`, `jobs/vault-service-watch.ts`) | one parameter, a cache per container | pause, resume, watch | a pause reaches every container in its time and outlives failed reads |
| **Account deletion** (`member/account.ts`, `shared/account-deletion.ts`, `jobs/cleanup.ts`, `jobs/members-stream.ts`, `admin/people.ts`) | member row, Cognito user, email marker | request, cancel, suspend, reinstate, delete, daily run | an active account can sign in; only what was announced is removed, in the end |
| **Start-over's execution, orphans, deleted vaults** (`jobs/cleanup.ts`, `jobs/vault-alarms.ts`, `shared/vault-tombstone.ts`) | vault row, pointer, tombstone, deletion queue | execute, ask, retry, resume, notify, remove | the full day to cancel; nothing left behind, nothing newer removed |
| **PIN, sign-in, codes** (`shared/pin.ts`, `member/auth.ts`, `triggers/*`) | counters, links, deletion code | guess, lock, verify | never more comparisons than allowed; a link used once |
| **Registration, subscriptions, terms** (`member/public.ts`, `member/account.ts`, `admin/people.ts`, `admin/content.ts`) | member row, marker, invite, subscription, terms versions | request, approve, withdraw, trial, extend, publish, accept | one row per address, one trial, consent to what was read |
| **Jobs that mail and push** (`jobs/vault-notices.ts`, `vault-names.ts`, `vault-account-push.ts`) | markers on rows | mail once, apply a name once, push snapshots | once, in order, current |
| **Scaler, manifest sync, release key** (`lambda/vault/*`) | desired capacities, routing rows, a KMS key | scale, sync, create | under the cap, never rolled back, for the enclaves only |
| **Release list, manifests, log** (`lib/vault/*`, `scripts/vault/*`) | list, signed documents, log and its pages | edit, sign, publish, log | every vault can move; the log stands |
| **Mailing list** (`lambda/signup/*`) | list row, release markers, SES identity | subscribe, confirm, unsubscribe, sweep | listed by consent only |
| **Audit log, drift check** (`shared/audit.ts`, `scripts/ops/*`) | events, address records; an issue | record, list, backfill; compare, report | an address kept as long as its time and no longer; every change told |
| **Sites** (`sites/account/js/*`, `sites/admin/js/*`) | what a page shows, keys, cookies, tokens | load, poll, press, sign in and out | what a page says is so, whatever order its answers come in |
| Infrastructure | none of its own | deploy | not modelled (see 8) |

How they interact: the browser, the old phone and the new phone call the Member
API at once; every route is an invocation of its own. An invocation reads rows
(consistently), may queue a message for the vault's instance, and writes rows
with a `ConditionExpression`. The host answers a message by completing its slot,
and writes some attributes of the vault row itself (`app_key`,
`recovery_cancelled`). Clients poll slots. Scheduled jobs (the five-minute sweep,
the cleanup) do what clients did not ask for. Emails go out through SES, and a
failed send is either logged (`notify`) or thrown (`sendMail`).

What is hard: (a) state read before an `await` and used after it, with only the
condition to catch the change; (b) the vault row has two writers, and the API may
not name the host's attributes in its conditions; (c) an invocation may die
between a write, its audit entry and its email; (d) the host's answers come late,
in any order and through two channels; (e) times: expiry that moves, claims that
are leases, TTLs that delete what was not yet handled; (f) two stores no
transaction covers (the row and Cognito, SES, KMS, another AWS account); (g) pages
whose loads, polls and buttons overlap; (h) commands an operator repeats after a stop. `PROJECT.json` lists the
hazards, each at its line, with the properties that cover it.

## 2. Modules

| Module | Models | Composed with |
|---|---|---|
| `RecoveryLifecycle` | abstract: the life of each recovery as the API promises it | refined by `VaultRecovery` |
| `VaultRecovery` | the vault row's recovery and start-over, every handler that writes them | `INSTANCE RecoveryLifecycle` |
| `VaultRecoveryProofs` | theorems about `VaultRecovery` | |
| `ClaimWorkRecord` | abstract: claim, work, record; nothing is recorded whose duties are not done | refined by `AttemptNotice` |
| `AttemptNotice` | notices of counted attempts, the gate before the next open | `INSTANCE ClaimWorkRecord` |
| `AttemptNoticeProofs` | theorems about `AttemptNotice` | |
| `CancelNotice` | notices of recoveries cancelled from the phone | |
| `CancelNoticeProofs` | theorems about `CancelNotice` | |
| `AccountDeletion` | one account's deletion over row, marker, sign-in user and vault, with its theorems | |
| 34 service modules (below) | one service, page or script each; `Enrolment` holds its own proofs | `MCServices` |
| `ServiceInvariants` | instances of services, each with its inductive invariant and proof | the instances |
| `SiteInvariants` | the same for the pages of `sites/` and for `RequestSlots` | the instances |
| `MCServices` | the other services in the same way; then all of them as one specification, the properties over it, and the theorems that compose them | extends `ServiceInvariants`, `INSTANCE SiteInvariants`, `Enrolment` |

### VaultRecovery

`recovery` and `deletion` are the maps of those names on the vault row, `appKey`
the host's `app_key` with a sequence number that counts the host's writes.
`answers`, `sent`, `registered` and `attempts` are what the host writes into
slots. A handler is a **read** (the checks before its write) and a **write** (the
`UpdateCommand`, guarded by its condition on the row *then*); between them the
write waits in `inflight` with what the handler remembers.

| Action | Code |
|---|---|
| `RequestRead`, `SetRecovery` | `POST /api/vault/recovery`, `setRecovery` |
| `CancelRead`, `CancelWrite` | `cancelRecovery`, `noticeAppCancel`; all use `cancelWrite` |
| `CompleteRead`, `CompleteRecovery` | `completeRecovery` |
| `RefuseRead`, `RefreshUnavailable`; `TimesRead`, `ApplyEnclaveTimes` | `refreshPending` and its two halves |
| `ClaimRead`, `ClaimRecovery` | `claimRecovery` |
| `RegisterRoute` | `POST /api/vault/recovery/register` |
| `RegisterRead`, `JudgeKey`, `MarkRegistered` | `refreshRecovery` or a poll, then `markRegistered` with its second read |
| `ExtendRead`, `ExtendExpiry` | `noticeAttempt`, its move of `expires_at` |
| `DeleteRead`, `RequestDeletion`, `CancelDeletion`, `ExecuteStartOver` | `POST /api/vault/deletion`, `cancelDeletion`, `executeStartOvers` |
| `Abandon` | a write that loses its condition, or whose invocation dies |
| `Host*` | external: answers, registers, counts an attempt, adopts a phone |

Why the split is exact. A handler that chains writes (a status read that records
a completion, then cancels notices, then applies times) is the same as its pairs
one after the other, because each write is conditional on what its own read saw,
and a handler that goes on with a row it has just failed to write loses its next
write too or is covered by `Refreshed`. `now` is taken when the handler starts; a
later use of it only refuses more, except in `cancelWrite`, whose `:now` is kept in
the write. `CancelDeletion` and `ExecuteStartOver` are one step because their
conditions re-check everything they read (the account's standing, which the
executor also reads, is not in this module). `JudgeKey` is a step of its own,
since the host may write `app_key` after it.

The host is trusted as the code trusts it: it answers a recovery's slot once, it
refuses no recovery whose register it has confirmed and confirms none it refused,
and it adopts a phone only after that phone's register.

Abstracted: `expires_at` and the other times are small integers; the keys of ended
recoveries (2.13.0) are in `AppKeys`, the locator and the cancel links in
`RecoveryLinks`, the list of register ids in `CodeRelease` (a register's slot may be
found by a poll in any case, so `RegisterRead` needs no list); the rate limits are
left out.

### AttemptNotice

`slots` has each open's slot with the API's marks on it; `noticers` are the
invocations of `noticeAttempt`, whoever called it, with the steps *claimed*,
*audited*, *mailed*; `routes` are the invocations of the open route with the list of opens
they read. Times are ages: of the claim (`noticing`), of the invocation (`age`),
and since the slot's own `expires_at` passed; an age stops counting where no
comparison can tell it from a greater one, so `Tick` needs no bound.

| Action | Code |
|---|---|
| `Look`, `Sweep` | the slot read by a poll, a status read, the next open; `sweepAttempts` |
| `Claim` | the conditional claim with its count of tries; giving up |
| `AuditAttempt`, `MailAttempt`, `Done` | the work and `done()` |
| `Stop` | refused claim, failed write or email, or killed |
| `OpenRead`, `GatePasses`, `GateRefuses`, `EnqueueOpen`, `RecordOpenId`, `RouteStops` | `POST /api/vault/recovery/open`, `noticeOpenSlots`, `recordOpenId` |
| `HostCounts`, `RecoveryEnds`, `ExpiresAtPasses`, `SlotGone`, `Tick` | external |

`RouteStops` after the enqueue is `recordOpenId`'s swallowed failure. The move of
`expires_at` by a notice is in `VaultRecovery`.

### CancelNotice

`recovery` is the row's recovery as far as a cancel sees it (live, lapsed,
cancelled from the phone or otherwise, ended); `rowMark` and `slotMarks` are the
host's two marks; `notices` the `rcnotice#` rows. `Look` is each of the three
sources (a marked slot, the row, a stalled notice row) with what the handler
remembers of the vault row; then `ClaimNotice`, `CancelWins` or `CancelLoses` and
`Reread`, `AuditCancel`, `MailCancel` or `AuditSeen`, `Record`, `MarkSlot`;
`NothingToClaim` and `AuditSlotSeen` are `slotOfEndedRecovery`. The other handlers
(`Request`, `CancelRecovery`, `RecoveryEnds`, `ExpiresAtMoves`) appear as the
atomic changes of the row that `VaultRecovery` shows them to be. `NoticeExpires`
deletes a finished notice row, a day after the `expires_at` it was opened under,
which may have moved since.

### AccountDeletion

`member` is the member row (its standing, the deletion it was closed by, how far the
confirmation's mail is, whether its date has come), `signin` the Cognito user under
the address, `marker` the address's uniqueness row, `vault` whether a vault blocks the
deletion; `at` and `seen` are the invocations and what each read. `Request*` is
`POST /api/account/deletion`, `Stream*` the mailer of its confirmation, `CancelRead`,
`CancelNext`, `EnableNext` the cancel by link and the administrator's reinstatement with
`enableIfActive`, `Suspend*` and `Delete*` the administrator's other routes, `Job*` the daily
run for one canceled account (disable, vaults, row, marker and user), `Dies` an
invocation that stops. `DeleteUser` reads and deletes in one step: Cognito has no
conditional delete, and the code looks at the user's account id just before it.

### The services

Each of these modules is one service, page or script, with its state as VARIABLES and an
action per step of its handlers: a read, a conditional write, a call that may fail, an
answer that arrives. They meet in rows whose other writers each of them models for
itself, so `ServiceInvariants`, `SiteInvariants` and `MCServices` instantiate each on its own
(`part`), with the eleven variables `x1`..`x11` for whichever part it is. Each has a section of
its own there: its constants, the assumption on them, its `INSTANCE`, its invariant and the
lemmas. `Services.cfg` gives the constants their values. The modules' comments name
the routes; what the table adds is what a reader of the code may not expect, and the
property then allows or excludes by name.

Around the recovery and the vault:

| Module, part | Steps | What to know |
|---|---|---|
| `CodeRelease` `release` | the status read with its second read; take, audit, record; registers and unlocks that list themselves | a read that lost the mark goes on with the row it read and may return a code that was spent meanwhile; overlapping registers may overwrite each other's id, unlocks retry |
| `AppKeys` `app_keys` | request, claim, register, cancel, open, adopt; nonces | a key adopted through a later recovery and then replaced can still be told `410 recovery_ended`; a recovery is claimed only once it is available, and the API's delay (24 h) is no shorter than the grace after an ending, so two recoveries' opens never meet |
| `RecoveryLinks` `links` | locator and cancel-link rows, their extension with the recovery's time | links mailed by a notice are not extended by later moves, a failed extension is not retried, a locator drawn twice while its recovery lives is overwritten |
| `StartOverRun` `start_over` | request, cancel (session, link, administrator), the job's begin, ask, queue, retry; `routeAsDelete`; the vault's own erasure and `resumeDeletions`; reinstatement through an index that lags | the account's standing is in another AWS account: a suspension between read and write is accepted by the code |
| `DeletedVaultRow` `deleted_vault` | the stream's mailer with tombstone, cause, row, pointer, closing mark and follow-up | an invocation that dies between its claim and its end may leave the row or the pointer; the tombstone's 90 days are left out |
| `OrphanSweep` `orphans` | mark, wait, ask, retry, limits | a members table that is wrong for a while is what it guards against |
| `Enrolment` `setup` | issue, revoke, redeem by scan or typed, `vaultForEnrollment` | a crash between pointer and vault row is taken up by the next enrolment |
| `RequestSlots` `slots` | caller, routing by lease, release, canary and rescue; slot before message; failed sends; polls; the release notice | a failed send whose slot cannot be expired leaves it queued, with no message |
| `VaultLock` `lock` | unlock, the app's and the page's lock, routes and polls | |
| `ServiceSwitch` `switch` | pause and resume, each container's cache, the watch, writes by hand | |
| `AccountSnapshot` `snapshot` | changes, pushes, unlocks, queues that reorder | a push that read before a change but is built later replaces the newer snapshot; one that finds no lease while an unlock with an older snapshot is on its way leaves it stale; suspension and terms push nothing |
| `NameChange` `names` | record, apply, settle, tell | an account closed meanwhile refuses a name, which counts as its answer |
| `ReleaseNotice` `notices` | milestones and the urgent notice: claim, mail, unclaim | |

Accounts:

| Module, part | Steps | What to know |
|---|---|---|
| `EarlyAccess` `early` | request, registration code, approve, reject, resend, withdraw, removals | |
| `SignIn` `entry` | link, challenge rounds, `checkPin`, lock and day's count | guesses reserved before the day's lock is set are still compared, so a day may hold `PIN_DAILY_MAX_FAILURES` and two windows' reserves |
| `DeletionCode` `code` | issue, replace, guess, spend | |
| `Subscription` `trials` | trial, cancel, extend, expire | two extensions at once put one's days; the daily run's expiry is the only conditional write |
| `MailingList` `list` | subscribe, confirm, unsubscribe, sweep, an account's removal | of two sign-ups at once the one that created the SES identity may lose its row: nobody owns the identity then |
| `MembershipTerms` `terms` | versions, their publication, an index that lags, the page's consent | |
| `AuditLog` `audit_log` | events, address records, listing, backfill by two operators | |

Releases and instances:

| Module, part | Steps | What to know |
|---|---|---|
| `Scaler` `scaling` | snapshot, plan, writes one after the other, a pass that stops | `plan()` is stated by what it returns: the one plan in which each release's decision fits the total left by those before it |
| `ManifestSync` `sync` | fetch, check, plan, writes of two overlapping runs, documents nobody should sign | an older run that overlaps a withdrawal puts the row back until the next run; `NoRollback` says so |
| `ReleaseKey` `key` | create, update, rollback, delete; the policy and its check; KMS's answer | |
| `ReleaseManifests` `manifests` | edit, sign, upload, publish, serve, rescue, keys, time | nothing compares two edits made between signatures: the model edits as `RUNBOOK` says |
| `ReleaseLog` `release_log` | log, front page, index, pages, `sync-nav`, each run may stop | a release dropped from the manifest before its removal was logged makes `buildIndex` throw for good; pages a stopped run left without navigation stay so, and the next run says "up to date" |
| `DriftReport` `drift` | checkout, list, compare, the issue call by call, deploys meanwhile | a run that stops between the edit and the comment loses the notification; a template read in an update that rolls back later counts as in sync |

Pages, each with the routes it calls in one step:

| Module, part | Steps | What to know |
|---|---|---|
| `RecoveryPage` `page` | keys in IndexedDB, load, poll, request, cancel, the code on the screen | a load answered before the request was processed prunes the key made for it, and an answer 5xx after it was processed drops it (`astray`) |
| `StartOverPage` `del_page` | loads of two reads, timers, buttons, the mailed link | a load whose first read precedes and whose second follows the end shows the request form and does not look again |
| `AccountDeletePage` `acct_page` | loads, code, request | |
| `SetupPage` `setup_page` | code, timer, questions | a late answer for an earlier code takes the new one off the page; cancelling a code just used says "expired"; one that another tab replaced stays shown as ready |
| `AccountSettings` `settings` | PIN, preference, trial, cancellation; the next step | a slow PIN answer shows the older preference; a start that stopped between "trial used" and the subscription leaves "Start your free trial" with nothing on offer |
| `BrowserSession` `session` | cookies over tabs, refresh, switch, sign-out | a late answer of the old account's call sets its ID token after a switch; the late answer of a renewal that failed clears a fresh sign-in's cookies |
| `MemberLists` `members` | list, testers, row buttons | "Clear flag" redraws a row and frees its other buttons while their call runs |
| `AdminSession` `admin_session` | hosted sign-in, tokens, refresh, calls, sign-out | a refresh under way at sign-out brings an ID token back into memory; "Sign out" during the redirect to sign-in may end at "did not match"; a second press may cut off the revocation |

## 3. Properties

| Property | Module | Says |
|---|---|---|
| `OneEnd` | VaultRecovery | one write ends a recovery |
| `TrueCompletion` | VaultRecovery | completed only on an `app_key` written after the recovering key was judged another |
| `ApiFloor` | VaultRecovery | no claim, no register before the API's delay; no expiry past its cap |
| `StartOverApart` | VaultRecovery | no start-over beside a live recovery for the API's own time |
| `FollowsLifecycle` | VaultRecovery | implements `RecoveryLifecycle` |
| `RefusedWhileActive` | VaultRecovery | **violated**: no request or start-over while a recovery is active |
| `OneNoticer`, `MailedOnce` | AttemptNotice | one notice at a time; mailed again only after an unrecorded mail |
| `ClaimedWorkedRecorded` | AttemptNotice | implements `ClaimWorkRecord`: recorded only when audited and mailed, or given up |
| `EveryAttemptNoticed` | AttemptNotice | each counted attempt is noticed, given up, or its slot expires |
| `ListedNoticedBeforeOpen` | AttemptNotice | the gate, for attempts on the recovery's list |
| `NoticedBeforeNextOpen` | AttemptNotice | **violated**: the gate, for every attempt |
| `OneNoticer`, `MailedOnce`, `OneCancel`, `OnlyNamed` | CancelNotice | one follow-up at a time; one mail; no report over another ending; only the named recovery |
| `CurrentCancelMailed` | CancelNotice | not recorded unmailed while the recovery is the vault's |
| `CancelMailed` | CancelNotice | **violated**: not recorded unmailed at all |
| `EveryMarkFollowed` | CancelNotice | each marked slot is followed up |
| `ActiveCanSignIn` | AccountDeletion | once nobody is half way and nobody died, an active account can sign in |
| `DeletedAsAnnounced` | AccountDeletion | the run removes only what is still closed by the deletion it read, mailed and due |
| `SealedVaultKept` | AccountDeletion | a vault sealed meanwhile is not removed as an unfinished setup |
| `NextHolderKept` | AccountDeletion | whoever has the address next keeps marker and sign-in user |
| `DeletedInTheEnd` | AccountDeletion | a confirmed deletion is carried out or cancelled |
| `CancelledCanSignIn` | AccountDeletion | **violated**: whoever cancelled can sign in |
| `GuessesBounded` | MCServices | PIN, typed setup code, deletion code: guesses at once keep their limits |
| `UsedOnce` | MCServices | setup code, sign-in link, deletion code, signed header, notice, the page's own deletion |
| `OneOfEach` | MCServices | one row per address, one use of a code's last, one vault row per pointer, one trial |
| `AnswerableOnce` | MCServices | each message finds its slot; a release under test holds testers only; the notice is true |
| `OnRecord` | MCServices | what is told or recorded is what was done: codes and lists, names, start-overs, recoveries that ended, addresses, the release log, snapshots, drift |
| `NothingLeftBehind` | MCServices | deleted vaults, sign-out, addresses past their time |
| `LimitsKept` | MCServices | instances, idle time, sweeps, name changes, pauses |
| `ListedByConsent` | MCServices | the mailing list; consent to the terms shown, and to the latest |
| `StandingKept` | MCServices | approval, withdrawal link, extended days, recovery links, published terms, an administrator's sign-in |
| `PagesTrue` | MCServices | what the pages keep and show |
| `ReleasesMovable` | MCServices | manifests: a way on for every vault; rows as signed |
| `SealingKeySafe` | MCServices | the release key serves its enclaves, ends by retirement, is its stack's |
| `TimeGiven` | MCServices | the start-over's 24 h, the orphan's seven days, the issue closed only in sync |
| `NothingTakenBack` | MCServices | answers to a phone, pointers, names, newer manifests, sign-out, log entries |

The conjuncts of `MCServices`'s properties are stated, with the code they are about,
in the services' own modules (`Setup!OneEnd` is `OneEnd` of `Enrolment`). Most
modules hold more than one *mutated form*, an operator so commented that changes one
definition as a plausible bug would; `PROJECT.json` lists one per property, and the
others each break the conjunct they were written for.

The four violated ones state what the documentation or a comment says; the
findings in `PROJECT.json` quote it and say how the code departs from it:

1. **A start-over or a new request beside an active recovery.** The write
   conditions compare the id only. A recovery that had expired when the handler
   read it may be active again when it writes, since the enclave's times or a
   counted attempt moved `expires_at`.
2. **An unreported attempt does not hold back the next open.** The gate looks at
   `open_ids`, which is written after the open is queued, from an earlier read.
3. **A phone cancel that is never mailed.** The noticer that cancelled died, a new
   request replaced the recovery, and the one that takes the claim up sees a
   replaced recovery.
4. **An account whose deletion was cancelled, and that cannot sign in.** The
   request disables sign-in after it has written the row, without a condition, while
   the confirmation is already on its way: when the link is used before that call
   lands, the disable comes last, and no job mends it.

## 4. Runs

| Run | Instance | Result |
|---|---|---|
| `recovery` | 1 recovery, 2 phones, 2 writes in flight, times {0,2,4}, clock to 3 | holds, 1.35 M states |
| `lifecycle` | 2 recoveries, 2 phones, 2 writes in flight | holds, 1.3 M states |
| `refused_while_active` | as `recovery` | violated |
| `attempt_notice` | 1 open, 2 noticers, 2 tries | holds with liveness, 19 k states |
| `open_gate` | 2 opens, 1 noticer, 1 try | holds, 290 k states |
| `noticed_before_next_open` | as `open_gate` | violated |
| `cancel_notice` | 1 recovery, 2 noticers, 1 try | holds with liveness, 33 k states |
| `cancel_replaced` | 2 recoveries, 1 noticer, 2 tries | holds, 3 M states |
| `cancel_mailed` | as `cancel_replaced` | violated |
| `account` | 2 deletions, 1 failed mail, 1 invocation that stops, a suspension | holds with liveness, 219 k states |
| `cancelled_can_sign_in` | 1 deletion, the link may be used before the request returns | violated |
| `services` | 34 parts, each with the bounds in `Services.cfg` | holds, 4.9 M states |

Bounds. *Two writes in flight*: every condition is violated or saved by one other
write landing between a handler's read and its write; a third brings no new pair,
and the theorems hold for any number. *Clock to 3* with delay, validity and
start-over delay of 1 and a span of 3 passes every boundary (available, expired,
moved, capped); times of 0, 2 and 4 lie below the floor, between and past the cap.
*One or two recoveries*: one for what concurrent handlers do to it, two for what
they do to its successor. *Two noticers* for the lease, *two opens* or
*recoveries* for the lists and replacement; the two are separate runs because
neither question needs both. *Two tries* stand for 24: the first, a take-over, and
giving up (one where the count is not the question). *Retry 2, timeout 1* keep the code's order (300 s and 120 s).
`account`: a second deletion is what the first one's late steps could hurt, a third
adds none; one failed mail reaches the retry and its limit; the link's wait
(`LinkWaits`) keeps the `account` run to deletions whose link is opened after the
answer, since the other order is finding 4. *Services*: two of whatever may overlap
(calls, runs, tabs, phones, containers), one or two of what they fight over, one
fault where the code retries, and clocks just past the last deadline; `Services.cfg`
gives each number. Of the sign-in there is one link, two PIN guesses at once and three
windows; the day's bound is `PinDaily` and two windows of `PinFailures`, the reserves that
can be open when the day's lock is set. A behaviour is of one part, chosen by
`part` in the initial state, so the number of states is the sum of the parts', from a
few thousand to half a million each. Symmetry is used where ids are only compared, and never with liveness.
Deadlock is not checked: every attempt noticed, every recovery ended, every account
gone and every service at its bounds is a proper end, and the clocks are bounded.

## 5. Fairness

Safety runs assume none. For the two liveness properties of the notices: time passes
(`SF(Tick)`); the platform ends every invocation (`WF(Stop)`), which is the Lambda
timeout; the sweep, scheduled every five minutes, gets to each slot (`SF` of `Sweep`, or
of `Look`); and neither the claim of a slot, nor the record of giving it up, nor
the mark of a slot fails at every try for ever (`SF`): these are single writes of the
API's own table. The email is *not* fair: it may fail for ever, which is what
giving up is for. `CancelNotice` also assumes that a recovery ends: its `expires_at` only
grows, up to `RECOVERY_MAX_SPAN_S` after the request. `SF` rather than `WF` because
each of these is disabled again and again by other invocations' claims.

`AccountDeletion`: the daily run goes on with what it began and a run that finds the
account comes (`WF(JobNext)`, `WF(FirstRunComes)`: EventBridge's schedule), and the link's
cancel, once begun, goes on (`WF`). That the run stops at one point of its work is allowed
once; what it leaves, the next one finds.

## 6. Proofs

The theorems hold for every value of the constants, so for any number of recoveries,
phones, invocations, opens, noticers and tries, from assumptions the modules name:
`None` is none of the ids, the times are natural numbers (`TimesAssumption`,
`BoundsAssumption`), and in `AttemptNotice` an invocation's timeout is shorter than
the time after which a claim may be taken over (`LeaseAssumption`: 120 s and 300 s
in the code).

`VaultRecoveryProofs`. None of the properties is inductive, since a write in flight
carries what was true when its handler read. Each invariant therefore says, beside
the row, what every write in `inflight` may still rely on:

| Theorem | Inductive invariant | Argument |
|---|---|---|
| `Typing` | `TypeOK` | one step per action |
| `OneEnding` (`OneEnd`) | `IdsInv` | a fresh id is in one request at most, so the row never shows an id twice; an ended id is never live again, hence the condition "same id, still live" admits one ending |
| `Refinement` (`FollowsLifecycle`) | `IdsInv` | each conditional write is one step of `RecoveryLifecycle`, all else a stutter; a new request lapses the recovery it replaces |
| `CompletionIsTrue` (`TrueCompletion`) | `JudgedInv` | the sequence number of `app_key` at the judgement stays with the recovery, and the write compares against it |
| `FloorHolds` (`ApiFloor`) | `TimesInv` | the floor and the cap depend on the time of the request, which no write changes; the times a write carries lie between them, and a claim or a register was checked against the floor at its read |
| `StartOversKeepApart` (`StartOverApart`) | `TimesInv` | a start-over in flight on a live recovery was decided after that recovery's own time, and a new request's write finds no start-over |

`AttemptNoticeProofs`:

| Theorem | Inductive invariant | Argument |
|---|---|---|
| `Typing` | `TypeOK` | one step per action |
| `OneNoticerAtATime` | `LeaseInv` | a holder's claim is as old as the holder, at most the timeout, so nobody finds it stale; what is recorded is held by nobody |
| `MailedOnceEach` | `MailInv` over `LeaseInv` | beyond the mails whose notice was lost there is one, and then its notice still holds the slot or has recorded it |
| `Implements` (`ClaimedWorkedRecorded`) | `WorkInv` over `LeaseInv` | a notice past its audit entry (its email) has made one, so its record finds every duty done |
| `GateHolds` (`ListedNoticedBeforeOpen`) | `GateInv` | what was counted stays counted, and the gate's remaining list is a tail of the one it read, of which the rest was reported |

`RouteInv` says that an open still at the gate has no slot yet; it keeps the enqueue
from disturbing a slot that is being noticed.

`CancelNoticeProofs`:

| Theorem | Inductive invariant | Argument |
|---|---|---|
| `Typing` | `TypeOK` | one step per action |
| `OneNoticerHolds` (`OneNoticer`) | `LeaseInv` | as in `AttemptNotice`: a holder's claim is as old as the holder, so nobody finds it stale |
| `OnlyNamedHolds` (`OnlyNamed`) | `NamedInv` | whoever may write the cancel of a recovery found that one marked, and a mark names it |
| `OneCancelHolds` (`OneCancel`) | `StandInv` | what the row shows is what ended the recovery first, and who audits or mails won that write |
| `MailedOnceHolds` (`MailedOnce`) | `MailInv` over `LeaseInv`, `StandInv` | beyond the mails whose notice was lost there is one, while its sender holds the notice, once that is recorded, or once it expired with nobody left who could claim it |
| `CurrentCancelMailedHolds` (`CurrentCancelMailed`) | `ToldInv` over the others | who goes on without an email saw that no phone's cancel ended the recovery in the row, and none can while it holds the notice |

`AccountDeletion` (its `ActiveCanSignIn` under `LinkWaits`: a deletion's link is opened after
its request has answered; finding 4 is what happens otherwise):

| Theorem | Inductive invariant | Argument |
|---|---|---|
| `Typing` | `TypeInv` | a claimed mail has a failure left, a checked request a deletion |
| `ActiveCanSignInHolds` | `Inv`, its part `Whole` | whoever leaves sign-in disabled under an active account still looks again; the request's own disable is over before its link is used |
| `DeletedAsAnnouncedHolds` | `Inv`, its part `Announced` | a recorded confirmation of the deletion the run read stays recorded as long as the row has that deletion, and no later one has its number |
| `SealedVaultKeptHolds`, `NextHolderKeptHolds` | none | each write compares what it is about to take away |

The services. `MCServices` composes them: `PartsInv` says that the part a behaviour is of keeps
its service's invariant; `PartsGoOn` that its steps are that service's; and each property over the
services follows from `PartsInv` alone. So one theorem stands for several services:
`GuessesBoundedHolds`, `UsedOnceHolds`, `OneOfEachHolds`, `AnswerableHolds`, `OnRecordHolds`,
`NothingLeftBehindHolds`, `LimitsKeptHolds`, `ListedByConsentHolds`, `StandingKeptHolds`,
`PagesTrueHolds`, `ReleasesMovableHolds`, `SealingKeyHolds`, and of steps `TimeGivenHolds` and
`NothingTakenBackHolds`. They hold for any number of calls, tabs, phones, instances, releases
and days, from an assumption on the constants beside each section (numbers are numbers, an
unused value is none of the ids, the API's delay is no shorter than the grace after an
ending) and `ValuesAssumption` and `PartsAssumption` on those that sections share. What each
invariant says beyond types, where it is more than the property:

| Part | Invariant | Argument |
|---|---|---|
| `start_over` | `DayInv` | an account closed while a start-over was pending becomes active only after that one is cancelled, and the run that writes *executing* still finds its own deletion due |
| `orphans` | `SweepInv`, `SweepFew` | an owner whose vaults are to be asked has each of them marked seven days ago and was not seen since; those a run acts on are among those it read and missed, and too many of them end it |
| `drift` | `DriftInv` | what a run found of a stack fits the template it checked out; the open issue's body is what was told last, except while a run has edited it and still holds the body it read |
| `deleted_vault` | `DeletedInv` | while a deleted row stands, something is still to come that removes it |
| `audit_log` | `AuditInv` | what a run read only loses addresses, and below its position all it planned is done |
| `names` | `NameInv` | a request applied and still of use to a job is the last one applied, within thirty days |
| `notices` | `NoticeInv` | who mails holds the claim of that member and milestone alone; on one day one milestone is due at most; a mailed one is still claimed or can no longer be due |
| `switch` | `SwitchInv` | a service found on, with no failed read since, is off at most as long as the cache is old |
| `scaling` | `ScaleInv` | what a pass counts at a release's turn does not change while its plan is carried out in order; a busy marker is at most a refresh older than the last pass that saw the release busy |
| `list` | `ListInv` | a sign-up's number is its own until its row is written, and a pending row has no link |
| `terms` | `TermsInv`, `ShownInv` | a publication supersedes only older versions, so the newest stays current; who has terms to accept is shown them, can ask again, or waits |
| `early` | `EarlyInv`, `EarlyHeld` | a removal is of a row that is over and never becomes a request again; the user under the address is the approved request's until its row is gone; a token is put on a row only while no link went out |
| `trials` | `TrialInv`, `TrialOver` | one call at most is between the mark and the put, and none once the trial is put; the expiry's write asks for a trial past its end again, and days only pass |
| `entry`, `code`, `setup` | `EntryInv`, `CodeInv`, `SetupInv` | every guess under way is counted before it is compared; for the day, the guesses under way are of this window or the last, or somebody is about to set the lock |
| `slots` | `SlotInv`, `TestedInv` | a slot is put before its message and outlives it; who is no canary is never on the way to a release under test |
| `app_keys` | `HeaderInv`, `ToldInv` | a header's nonce outlives its window; opens on their way are of one recovery, since the next is not claimed before the grace of the last is over; the latest end of their key, once told, is no earlier than the open, or the vault has taken the key |
| `links` | `LinkInv` | the rows last as long as the recovery, or whoever moved it is still under way and will extend them, or put a link of its own |
| `release` | `ReleaseInv`, `ListsInv` | whoever is at the audit or the record holds the mark, so one is; a kept register is in the list of every register still to be recorded |
| `snapshot` | `SnapInv` | the vault has what the rows have, or a push of it is queued or under way, or no vault runs and every unlock on its way brings it |
| `session` | `SessionInv` | no answer but a sign-in's sets a refresh token, and any other names a member at most an ID token's life after the sign-out |
| `admin_session` | `TabInv` | once sent elsewhere the page's memory says so, and no second sign-in begins |
| `acct_page` | `RetryInv` | as long as the first load is the only one, the request that closed the account is answered or its answer is on the page |
| `sync` | `SyncInv` | once a run wrote a row of its manifest, some row is as new and stays so |
| `manifests` | `MoveInv` | a listed release admits every older one not removed, for good; none is added below it or comes back; while a publication is under way the list stays as it was checked |
| `release_log` | `LogInv` | what is served does not change under a run, so what it is to write fits it |
| `key` | `KeyInv` | the key's policy is one the check let through and nothing was added to it; the days of its end are counted; the resource's id carries the hash of the policy the key has |
| `lock` | `LockInv` | while the page waits and the vault was never closed, its request went to the holder who still runs it |
| `del_page` | `GoneInv`, `LookInv` | a cancelled start-over's number is nobody's again; a page that shows a start-over has a timer, a look that is due, or a load under way |
| `settings` | `KeptInv`, `StartInv` | a used trial without a subscription is about to get one, or its start was stopped |
| `setup_page` | `WatchInv`, `OverInv` | a code that is shown counts down and has a question or a timer under way; an answer that a code is over is about the member's code |
| `page` | `PageInv` | what a load has seen is no newer than the recovery, and of the same one it has the key and the time; an unanswered request's key is stored or astray and no recovery has it; what is about to be dropped is no key still to be opened |
| `members` | `MembersInv` | of the list's own pages at most one is under way and it asks for what comes after the last row; of an account no two answers crossed about, all that is shown or read is what it is now, until the call that changes it is answered, and that answer says what to draw |

The sections stand in the order and in the modules they do for the prover's sake: every
obligation carries the definitions and instances before it, so the long proofs come early. Two
forms recur for the same reason: a record's update is first rewritten to the record it yields,
and what a handler leaves alone is a lemma of its own.

Only model-checked: the liveness properties (`EveryAttemptNoticed`, `EveryMarkFollowed`,
`DeletedInTheEnd`), since fairness and `ENABLED` are out of the prover's reach, and
`MCServices`'s `TypeOK` (the invariants above contain the types their proofs need, not all of
them). The four findings are violated, and proved of nothing.

## 7. What is left

Modelling: the notice of a deletion that is held (`holdDeletion`); the extension of an
unlock's slot with the recovery; the lists of opens in one model with those of registers and
unlocks; an instance's rank by load; plans and their subscriptions. Proof: that `CodeRelease`
implements `ClaimWorkRecord`, as `AttemptNotice` does. The `lifecycle` run repeats on a small
instance what the theorem `Refinement` says of all; it stays as a check of the abstract
specification.

## 8. Not modelled

Infrastructure (`lib/stacks`, `lib/constructs`, `lib/config.ts`, `bin`): a description of
what is deployed, without steps of its own; the timeouts, schedules and retentions it
sets are the constants and the fairness of the models. Access and egress tables
(`lib/vault/access.ts`, `egress.ts`). The staging and one-shot scripts (`scripts/staging`,
the site checks, the mail backfill), which one person runs in sequence. The websites'
rendering, texts and forms that send one call. Usage figures, search and plans of the
Admin API. Mails that only inform (welcome, alarms), and the wording of all. Within the
modelled components: formatting, audit details, most rate limits, the bytes that are
signed, the contents of envelopes, the normalisation of templates before the drift
check compares them, and the enclave's own state.
