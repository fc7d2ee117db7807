# TrustPages in TLA+

TrustPages watches the policy pages of a tenant's vendors ("subprocessors"),
records each change as a *change event*, lets the tenant review it, sends an
Article 28(2) notice to the tenant's subscribers and keeps evidence of all of it:
RFC 3161 timestamps, frozen texts, a delivery log. It is a FastAPI application
with SQLAlchemy sessions, an in-process scheduler, and a handful of services it
talks to over HTTP. This directory models the parts whose steps can interleave,
checks them with TLC and proves the main invariants with TLAPS.

Everything the application keeps is in database rows. Its hard behaviours come
from one pattern, which every handler shares: load a row, await something (the
database, a page, a timestamping authority, a language model, the mail provider),
and write the row back. The session (`app/db/session.py`) takes no lock, keeps no
version column and does not refresh a loaded object; its UPDATE names only the
columns whose value differs from the loaded one. `UnitOfWork!Dirty` is that rule.

## Inventory

| Part | State | Operations | Hard behaviours | What makes it correct |
|---|---|---|---|---|
| Timestamping (`services/tsa_retry.py`, `core/tsa.py`) | per event and per baseline: status, digest, token, attempts | stamping pass, manual retry | sweeps overlap, an attempt races a retry, TSA fails, crash | pre-TSA rows are never stamped, a token covers its row's digest, tries are bounded, every due row is settled |
| Review and release (`services/approval.py`, `routers/dashboard.py`, `core/llm/notice.py`) | status, review_action, draft, frozen notice, recipient_count, window | approve, reject, draft, release, send | two tabs, a redraft during a release, crash between two commits, partial failure of the send | what is released was seen, released once, mailed once, recorded truthfully |
| Delivery log (`routers/webhooks.py`, `services/notifications.py`) | recipient rows, delivery events, resolutions | webhook, resolve, resend | webhooks early, late, repeated, reordered | append-only, a reported bounce is counted, a gap stays a gap |
| Subscriptions (`routers/public.py`) | confirmed, is_active | subscribe, verify, unsubscribe | change while a send runs, two requests of one address | only confirmed addresses are mailed |
| Monitoring (`services/monitoring.py`, `tier2_budget.py`, `core/scraper`) | content hash and text, failure count, alert stamps, budgets, next_check_at | check a source | overlapping checks, timeouts, budget limits, alerts that are stamped before they are mailed | one event per change, no silent source, budgets kept |
| Sweep cycle and heartbeat (`scheduler/jobs.py`, `system_state.py`, `main.py`) | three system_state rows | sweep, trigger, health probe | a triggered cycle beside a scheduled one, a pass that breaks, a record that is lost, restarts | a green probe means finished work, a red one means trouble, last_error is the last outcome |
| Plans and billing (`services/plans.py`, `routers/webhooks.py`, `subprocessors.py`, `onboarding.py`) | subscription status, tier, trial end, enabled pages | end of a trial, Paddle webhooks, add, toggle, delete | stale reads, webhooks repeated or out of order, limits that race | the tenant is what Paddle is paid for, limits hold, the oldest pages are kept |
| Public vendor directory (`services/directory.py`, `core/scraper/robots.py`, `routers/vendors.py`) | vendor rows with hash, list, `is_published`, `robots_blocked`; the robots.txt cache (in memory) | vendor check, detail page | robots.txt refuses or is not got, the list cannot be extracted, crash, overlapping sweeps | a published page has a list, is called fresh only after a reading, and no list moves without a note |
| Evidence pack (`services/evidence.py`, `services/verify.py`) | none of its own: a function of the event, its recipients, its objections | build, export, verify | built at any moment of an event's life, two checkers that must agree, plans that change | both checks agree and find damage, later packs take nothing back, nothing false is stated |
| Objections (`routers/dashboard.py`, `services/notifications.py`) | objections, window | record, derive status | the window closes while read | an objection outranks the window |
| Access (`routers/auth.py`, `core/ratelimit.py`) | used link ids, limiter windows (in memory) | magic link, limiter | restart, parallel use | a link works once |
| Onboarding (`routers/onboarding.py`, `services/onboarding.py`) | pages, as Plans; confirmed vendors | pick from the library, add one's own, remove | limits that race | ends within the plan |
| Language model, pages, tools, leads, analytics, admin, i18n | inserts and counts | call, render | none of note | - |

How they interact: a cycle ends the trials that are over, runs the stamping pass,
lists and checks the sources that are due, then the directory, and leaves its
heartbeat. A check creates the change events that the pass stamps next time and the
reviewer sees; a release freezes the event's notice, mails it and creates the
recipient rows, which the provider's webhooks find by message id; a pack is built
from all of these rows. Everything goes through the database; nothing is passed in
memory except the alert mails, the cached robots.txt answers and the limiters.

## Modules

`UnitOfWork` - what a commit leaves in one column (`Dirty`).

`Timestamping` - one action per step of a sweep and per request: `StartPass`
(the listing of `run_timestamp_retry_pass`), `LoadRow` (`session.get` and the
trip-wires of `stamp_change_event` / `stamp_subprocessor_baseline`, which the
source keeps as two copies of one function), `StampSucceeds`, `StampFails`,
`StampAborts` (an exception that is no `TSAError`), `StartChecks`, `LoadSource`,
`CaptureBaseline`, `CaptureEvent`, `CheckEndsEmpty`, `EndSweep`, `Crash`, and for
the tenant `AddSource`, `DeleteSource`, `OpenRetry`, `CommitRetry`. `at` and `seen`
are the object in a sweep's session; the TSA is awaited between `LoadRow` and the
three outcomes. `status`, `digest`, `token` and `attempts` hold the event's columns
and the source's `baseline_*` columns alike. A token is what it covers and what the
authority stamped.

`TimestampDiagram` - the abstract specification: the state machine of
`TimestampStatus`, each edge in one step. `Timestamping` implements it when one
sweep runs at a time (`FollowsDiagram`).

`NoticeRelease` - one change event, its requests and its subscribers.
`OpenDecision`/`CommitDecision` are approve and reject; `ShowDraft`, `StartDraft`,
`StoreDraft`, `ShowStored`, `PageLost` the notice page (the model call awaited between
start and store); `OpenRelease`, `ListRecipients`, `Freeze`, `Mail`, `RecordRecipients`
the send, whose two commits are `Freeze` and `RecordRecipients`; `Mail` has three
outcomes, since an answer that times out reads as an error although the mail went, and
the error of a failed post has a text or none (`SendError`: `str()` of httpx's timeouts
is empty). `LookUp`, `Subscribe` and `SubscribeLost` are a subscribe request, which
looks for its address and inserts it later; nothing makes an address unique, so a
subscriber is an address and the visit it came by. A preview token is the hash of the
text, so the model uses the text. `shown` and `mailed` record what pages displayed and
what the provider accepted: the code keeps neither.

`NoticePromise` - the abstract specification: one decision, then one release of
one text with one window, that notice to an address at most once.

`DeliveryLog` - the recipients of one released notice, the provider, the webhooks
and the derived status. The provider may raise a webhook as soon as it has the mail
and deliver it any number of times; `happened` is what it raised, `answered` what
it has a 200 for, `dropped` which of these found no row. `mute` are the failed posts
whose error has no text, which `SendFailed` does not see.

`Monitoring` - the check of a source (`run_subprocessor_check`), from the listing
of the sweep (`StartSweep`) to the commit that ends it. `LoadSource` loads the row,
skips it if it was switched off and decides whether a staleness alert is owed;
`StampStaleness` and `MailStaleness`, like `StampFailure` and `MailFailure`, are the
two halves of `_dedupe_and_send`, which commits the stamp before it mails.
`Defer`/`Proceed` are the budgets' answer, `PinBrowser` an escalation that got
through, `FetchFails` every way a page is not read, and `StoreBaseline`,
`Rebaseline`, `FindNoChange` and `RecordChange` the four ends of a check that read
its page. `seen` is the row as the session holds it. Time is the age of each stamp,
up to the window it is compared with, so nothing grows without bound. `alerted` and
`told` record what was mailed: the code keeps neither.

`Tier2Budget` - the daily browser budgets by themselves: `SpendSource` and
`SpendTenant` (the atomic UPDATEs of `_atomic_spend`), `Commit`, and `Escalate`,
`PinBrowser`, `EscalationFails` for a source that is not known to need the browser.
`own` and `tenantOwn` are counts that the code has assigned to the loaded objects
and that the next flush writes again. `runs`, `tenantRuns` and `spare` count the
browser runs themselves, which the code does not keep. It is a module apart from
`Monitoring` because only the budgets count: there a source that needs the browser
is let through or put off by choice.

`Directory` - the check of a vendor page. `StartSweep` lists the vendors that are
due, `LoadVendor` loads one, `RobotsRefuse` and `RobotsAllow` are the two ends of
asking robots.txt (`cached` is the answer kept for the host; `Forget` its expiry),
`ReadPage` and `FetchFails` the fetch, and `FirstSighting`, `Rebaseline`,
`FindNoChange`, `RecordChange` the four ends of a check, two of which extract the
list (`Relist`, which may fail and then leaves the old one). Each commits once; the
row is written from `seen`, as it was loaded. `entries` is the page the list was
extracted from, so a list that belongs to other content can be told. `Detail` and
`Badge` are what a visitor gets. `read`, the age of the last true reading, is kept by
the model only.

`Plans` - one tenant. `ListExpired`, `MoveToFree`, `CommitTrialEnd` are
`downgrade_expired_trials` between its awaits; `Deliver`, `DropUnknown`, `CommitEvent`,
`CommitEnd` the handlers of `transaction.completed`, `subscription.updated` and
`subscription.canceled`; `OpenCreate`, `OpenCustom`, `OpenLibrary`, then `Insert` or
`Refuse`, the three ways to add pages, which count at one moment and insert at another;
`Toggle` and `Delete` the other two routes. Paddle is the environment (`Pay`, `Report`,
`Cancel`): it keeps the subscription, queues an event for each change and repeats it
until it is answered. `InFlight` says how many of all these may overlap, `Ordered`
whether events come in order: the properties hold for 1 and `TRUE`, and the section on
findings says what becomes of them otherwise.

`SweepCycle` - `Tick` (the scheduler, never two of its cycles at once) and `Trigger`
(`POST /internal/sweep`) begin a cycle, whose passes are `SettleTrials`, `RetryStamps`,
`ListDue`, `CheckPages`, `SweepVendors`; `Break` is a pass that raises. The heartbeat
and `last_error` are written by `ReadRow` and then `WriteCompleted` or `WriteError`, the
two halves of `set_state`; two cycles that both find no row both insert it and one of
them loses its record (`Collides`, `LoseRecord`). `CheckFails` is a check that raises
and leaves its page due. `Stop` and `Start` are restarts. One tenant's `status`, `trial`
and `due` are followed through the first and the third pass, which lists the pages of
the statuses in `Monitored` and so none of a tenant that is `past_due`. Ages stand for
times. `worked`, `alone` and `ended` are kept by the model only: when a cycle last came
to the end of its work, whether another ran beside it, and how it ended.

`Evidence` - one change event from its capture on. The steps that overlap load the event
and write it back later: `List`, `LoadListed` and `Stamp` an attempt of a sweep,
`LoadFailed` and `Stamp` a retry by hand, `OpenRelease`, `Freeze` and `Send` a send
(`tried`, `opened` and `sending` hold what each has loaded). `LoadTenant`, `Capture`,
`Decide`, `Report`, `RecordObjection`, `SetWindow`, `ChangePlan`, `PassDay` and `Crash`
move the other rows the pack is made of; `Pack` is `evidence_zip` with its manifest,
`ObjectionStatus` is `compute_objection_status`, `VerifySh` is the script in the pack,
`VerifyPack` and `VerifyPair` the two forms of `/verify`, `Exported` the CSV. A digest
is the content it is taken of, so "the digest matches" is equality. `left` counts the
days to `window_closes_at`.

`MCTimestamping` gives TLC values for `SourceOf` and the symmetry of digests;
`*Proofs` hold the theorems. Operators that a comment calls a mutant are plausible
mistakes in the definition below them; each shows that a property notices it.

## Runs

| Run | Instance | Shows |
|---|---|---|
| `TimestampingSolo` | 1 sweep, 1 retry request, 2 events and their source, 2 digests, 2 stamps, 3 tries, 2 faults, 2 retries | `FollowsDiagram`, `TokenCoversBaseline` |
| `TimestampingOverlap` | 2 sweeps, 1 retry, 1 event and its source, 2 digests, 2 tries | `PreTsaIsTerminal`, `PreTsaHasNoToken`, `TokenCoversEvent`, and `DueSettles` under fairness |
| `NoticeSerial` | 1 request of each kind, 2 addresses with 1 visit each, 2 drafts, 2 windows, 1 crash | `KeepsPromise`, `CountIsRows` |
| `NoticeOverlap` | 2 requests of each kind, 1 address, 2 drafts, 1 crash | `ReleasedWasSeen`, `MailNeedsRelease`, `MailIsAccounted`, `ReviewActionIsFinal` |
| `NoticeTwice` | 2 sends, 1 address | refutes `SentOncePerAddress` |
| `DeliveryOrder` | 1 recipient, all 4 webhook types that are filed and one that is not | `BounceIsCounted`, `GapIsSticky`, and `ReportsReachLog` under fairness |
| `MonitoringSerial` | 1 sweep, 1 source, 2 pages, threshold 2, window 2 days, stale after 1 day, 1 fault | `TypeOK`, `RecoveryClearsStamps`, `EventsRecordChanges`, `AlertsSpaced`, and `TroubleIsTold` under fairness |
| `Tier2Serial` | 1 sweep, 2 sources, quota 2, limit 3, 3 days, 2 crashes | `SourceWithinQuota`, `TenantWithinLimit`, `ValveIsCovered` |
| `DirectorySerial` | 1 sweep, 1 vendor, 2 pages, stale after 2 days, 2 faults | `PublishedHasList`, `FreshWasRead`, `NoSilentMove`, and `RefusalIsHonoured` under fairness |
| `PlansSerial` | 1 job, webhook or request at a time; 2 names, 2 pages, limits 1/2/2, 4 events in order | `InStep`, `OldestKept`, `AddsWithinLimit`, and `TrialsEnd` under fairness |
| `SweepCycleOverlap` | a triggered cycle beside the scheduled ones, interval 1, allowed age 2, grace 1, cycles of length at most 1, 1 fault | `GreenMeansWorked`, `NoFalseAlarm`, `LastErrorIsCurrent`, and `DueIsChecked` under fairness |
| `EvidencePack` | 1 subscriber, 1 send, 1 sweep, 1 retry by hand, windows of 1 and 2 days, 1 objection, 1 crash | `PackVerifies`, `DamageIsFound`, `NoFalseNegative`, `StatementsStand`, `EarnedIsKept` |

The type invariants are proved (below), so no run repeats them but `MonitoringSerial`,
whose rows have the most columns. Some statements that the code refutes, and the
instances that show it, are kept beside the runs; `tlc -config X.cfg M` prints the
counterexample:

| Config | Module | Refutes |
|---|---|---|
| `TimestampingRace.cfg` | `MCTimestamping` | `FollowsDiagram` |
| `DeliveryEarly.cfg` | `DeliveryLog` | `DropsAreHarmless` |
| `DeliveryMute.cfg` | `DeliveryLog` | `FailedPostIsGap` |
| `Tier2Race.cfg` | `Tier2Budget` | `SourceWithinQuota` |
| `Tier2Free.cfg` | `Tier2Budget` | `OneFreeAttempt` |
| `DirectoryRetry.cfg` | `Directory` | `FailedListIsRetried` |
| `OperatorTrial.cfg` | `SweepCycle` | `OperatorIsChecked` |

`CHECK_DEADLOCK FALSE` stands where the system may stop: `Tier2Budget` and `Evidence`
at the end of what their bounds allow, `Plans` when Paddle has nothing left to
send and the tenant has no page.

Why the bounds are enough: a race here is between copies of one row, so two
sweeps, two requests of a kind and one row show every pair of steps; a second event
is there to let a sweep be between two rows; three tries separate "first", "middle"
and "last"; two drafts and two windows tell a stale copy from a fresh one. The
bounds on crashes, errors and manual retries (`MaxFaults`, `MaxRetries`,
`MaxCrashes`) are the only caps, and the proofs hold for every value of them.

In `Monitoring` the checks of two sources of one sweep share no state, so one source
is enough; a threshold of 2 tells the first failure from the one that alerts, a
window of 2 days the day of an alert from the day after and from the end of the
window, and 2 pages are a reading and another one. `MaxFaults` bounds lost mails,
uncaught errors and crashes together. In `Tier2Budget` two sources share the tenant's
pool, quota and limit can each be the one that stops a check (2 and 3 against 4 in
total), three days give two rollovers, and `MaxSpends` and `LastDay` cap what is
spent and how long: a count one above the quota is the first that is refused.

In `Directory` vendors share nothing but the sweep, so one is enough; two pages tell a
list from the content it is shown with, an age of 2 days tells "today", "yesterday" and
"stale", and two faults let a failed extraction meet a crash or an unanswered
robots.txt. In `Plans` a free limit of 1 and two pages are the least that makes a move
to the free plan choose, four events are two payments, or one and two changes after it
(the report of the first payment comes before its transaction, so its customer is not
known yet and it is dropped), and one of `InFlight` is the case the properties are
stated for. In `SweepCycle` an allowed age of twice the interval (10 hours against 3 in
the settings) is the smallest at which `NoFalseAlarm` says something, interval and
longest cycle together; the theorems hold for any of these numbers. A page that is due
waits for one cycle and one check that may raise (`MaxFaults` is 1). In `DeliveryLog`
recipients share nothing but the commit of their rows, so one is enough for every order
of its webhooks; a second one shows `DeliveryEarly`. In `Evidence` the rows of two
subscribers do not meet, and a pack states their sums alone: one subscriber gives a list
that is empty or not and a mail that fails or not, two windows a stale copy of the
setting, one objection the difference it makes. One send, one sweep and one retry by
hand are the case `StatementsStand` is stated for; the other four properties of the run
are proved for any number of them, and TLC has checked their invariant with two sends
and two sweeps.

### Fairness

`Timestamping!Fairness`: each sweep keeps taking steps, which the three-hour
interval of the scheduler (`main.py`, lifespan) gives when the process lives, and
the timeouts of `httpx` and `openssl` give within an attempt. Crashes, unexpected
errors and the tenant are not fair, and the first two are finite: an authority that
times `openssl` out on every attempt would keep a row due for good, which is the one
way `DueSettles` fails and is listed as a hazard.
`Monitoring!Fairness`: a sweep keeps taking steps and is started again, a source
comes due again (its interval, 30 minutes or an hour), days pass. Which step a sweep
takes is not fair, so a page may fail for good, except that a source is not put off
every time (`SF` of `Proceed`): the budgets start again each day. Faults are finite.
`Tier2Budget` states no liveness.
`DeliveryLog!LogFairness`: the provider repeats a webhook until it is answered.
`Directory!Fairness`: as `Monitoring`; a kept robots.txt answer expires, and a page
that is fetched again and again is read some time (`SF` of `ReadPage`). Days and the
site's owner are not fair.
`Plans!Fairness`: the job runs every three hours (`SF` of `ListExpired`, which a
request in flight may hold up), and what is in flight comes to its end. Trials,
tenants and Paddle are not fair.
`SweepCycle!Fairness`: time passes, the scheduler fires, a cycle goes on, and a
process that has stopped is started again. Faults are finite.
`Evidence` states no liveness.

### What the code does otherwise

Many of the findings are races of one kind: a guard on a loaded copy, an await, and a
commit that does not look again. The others are promises of a page or a comment that no
line of the code keeps.

- `TimestampingRace.cfg`: one sweep stores a token, another whose attempt failed
  writes `retrying` over `timestamped`. The token is kept in the row and the row is
  stamped again next time. In this cfg TLC also refutes `TimestampedIsFinal`,
  `DueHasTries` (a manual retry meets a late attempt and its fresh budget is
  overwritten) and `TokenCoversBaseline` (a second first check replaces the
  baseline's digest while the first one is stamped).
- `NoticeTwice`: two sends pass the guard together and mail everybody twice. The same
  instance with a second window, draft or decider refutes `FrozenForGood` (the later
  send freezes its own copy; the `@validates` guard compares with the value its own
  session loaded), `FreezesCurrentDraft` (a redraft commits while a release waits) and
  `DecisionIsFinal` (approve and reject together: the later one stays). Two `Visits` of
  one address, both of which find no row and insert one, make a single send mail it
  twice (`SentOncePerAddress` again). A crash between `Freeze` and `RecordRecipients`
  refutes `CountIsAlwaysRows`, and a lost answer `FailedRowWasNotMailed`.
- `DeliveryEarly.cfg`: the rows are committed only after the slowest post of the send;
  what is reported before that is answered and dropped.
- `DeliveryMute.cfg`: the mailer keeps the text of the exception, `httpx` raises its
  timeouts with an empty one, and `derive_recipient_status` takes an empty text for no
  error. The recipient of such a post has no message id, so no webhook will ever find
  him; he reads `queued`, "sent, no webhook event yet", and is in no count of gaps. The
  same holds for the row of `NoticeRelease`, which is why `MailIsAccounted` says nothing
  of rows whose error is empty.
- `Tier2Race.cfg`: the UPDATE of a spend is atomic, but its result is assigned to the
  loaded object and flushed again later, over what another sweep has spent since. The
  comment of the module and a test say that no increment can be lost.
- `Tier2Free.cfg`: an escalation that fails leaves no trace, so a page that no tier can
  read runs the browser outside the budgets at every retry, every half hour.
- `Monitoring` with two sweeps (`Sweeps = {s1, s2}` in `MonitoringSerial.cfg`) refutes
  `EventsRecordChanges` (both checks compare with the same stored reading),
  `AlertsSpaced` (both mail) and `RecoveryClearsStamps`: a check that loaded the row
  before a recovery leaves its stamp on the healthy row, and the alarm that
  `_reset_health` promises to fire "right away" waits out the window.
- `dashboard.py` does not import `Subscriber`, so a resend fails before it mails:
  `ResendNotification` only notes that it was asked for, and `ResendMails` of
  `DeliveryLog`, which says what it should do, is not run. For that reason, "resolve" is
  the only way out of a bounce; and a recipient whose status is `send_failed` stays so
  even when resolved, since `derive_recipient_status` looks at the error first, although
  the page offers it.
- `docs/manifest_v2.md` says a release drafts the notice if there is none;
  `release_notice` refuses instead. No run is needed to see it.
- `DirectoryRetry.cfg`: a list that could not be extracted is not tried again: the
  check has stored the new hash, and the next one finds no change and returns first.
- `Directory`, by reading: where robots.txt refuses, the comment wants the page to say
  so, and the line below it unpublishes the vendor, whose page is then not found (the
  "robots" badge is never shown); where it allows again, the log says "resuming" and
  the vendor stays unpublished until its content changes. With two sweeps TLC refutes
  `FreshWasRead` and `NoSilentMove`.
- `Plans`, with the named invariant put into `PlansSerial.cfg`: nothing switches the
  pages back on that a downgrade switched off (`UpgradeRestores`), the toggle does not
  look at the limit (`FreeWithinAllowance`), and the library picker compares names with
  a limit on rows (`RowsWithinLimit`, which takes `MaxPages = 3`). With `InFlight = 2`
  or `Ordered = FALSE` TLC refutes `InStep`: a handler writes back over what a later
  event has stored, a trial's end over a payment, and a late `subscription.updated`
  revives a cancelled subscription, since no handler looks at the event's time. With
  `InFlight = 2` and two requests both pass the count and `AddsWithinLimit` fails.
- `OperatorTrial.cfg`: the operator's tenant is spared the downgrade so that its pages
  stay on, and is left with a trial that is over, whose pages no sweep lists.
- `SweepCycle`, with `FreshDeployIsGreen` put into its cfg: the probe allows a fresh
  deploy 20 minutes, the first tick comes after three hours. And two cycles that
  overlap are the second writer of `system_state` that `set_state` rules out: which is
  why `LastErrorIsCurrent` speaks of a cycle that was alone.
- `Evidence`, with the named invariant put into its cfg: a notice that was released to
  nobody has a `notice.txt` that the manifest does not name (`EveryFileIsNamed`), and a
  release that dies before it mails is reported as "none recorded" when its window has
  run out (`NoFalseNegativeEver`). `NoFalseNegative` is what is left of that promise.
  `StatementsStand` is refuted by the races of `NoticeTwice` and `TimestampingRace`: with
  two `Senders` a second send freezes another count and window after a pack has stated
  the first, and with two `Sweeps`, or two `Tabs` around a sweep, a stale write takes
  the status back from `timestamped` to `retrying`.

## Proofs

Eight modules prove, for every value of the constants, each safety property that a
passing run checks, the type invariants, and a few more. There are two kinds of
invariant, and the division is the point of them.

`IInv` is inductive *whatever overlaps*. It says what an actor may still believe of a
row it loaded some time ago, and it carries the properties that survive every
interleaving. Its theorems are `Invariance` and `TypeCorrect`. (`Tier2BudgetProofs` is
the exception: its `IInv` already needs a single sweep.)

`SoloInv` is inductive when *one actor of a kind runs at a time*. It begins with the
fact that what an actor loaded is what the row still holds, and goes on with what
follows from it. Its theorem is `SoloInvariance`, and it carries the properties that
overlapping writers break. The condition is a hypothesis in the statement (`OneSweep`,
`OneOfEach`, `InFlight = 1`, `Ordered`), never an assumption on the constants. It is
what one process gives while the scheduler alone starts sweeps and the tenant works in
one tab; `POST /internal/sweep` and a second tab break it, and the section above says
what becomes of each property then. Rows, pages, addresses, recipients, drafts, windows,
limits, lengths of time and faults are arbitrary in both. TLC has checked every `IInv`
and `SoloInv` on the instances above.

- `TimestampingProofs`. Whatever overlaps: `PreTsaUnstamped`, `EventTokensCover`,
  `DueRowsHaveDigest`, `PreTsaTerminal`. An attempt writes from the copy it loaded, so
  `AttemptInv` says what that copy implies of the row now (past
  `not_available_pre_tsa`, or deleted; for an event the same digest), `CheckInv` the
  same for a source that is being captured the first time, and `RetryInv` for a retry
  request. One sweep and one retry request: `BaselineTokensCover`, `DueRowsHaveTries`,
  `TimestampsAreKept` and the refinement `RowsFollowDiagram`, which maps each step to
  an edge of `TimestampDiagram` or to a stutter. `AsLoaded` and `RetryHeld` are the
  copies; `SettledInv` says that a due row has a try left and a token covers its digest.
- `NoticeReleaseProofs`. Whatever overlaps: `SeenBeforeReleased`,
  `NoMailBeforeRelease`, `OnlyConfirmedMailed`, `MailsAreAccounted`,
  `ReviewActionSetOnce`: what a send in flight holds (a shown text, listed addresses
  that had confirmed, results that mail backs, a `review_action` that is not the
  auto-published one) survives every step of the others. One request of a kind:
  `RecipientsAreCounted`, and `PromiseKept`, the refinement of `NoticePromise`, which also
  takes one subscribe request per address.
  `UnreleasedInv` keeps the row clean until the release, `ClearedInv` carries the
  guards of a send to the commit that relies on them, and `MailingInv` ties the results
  so far to the frozen notice, its count and the addresses not yet mailed.
- The same module, for `DeliveryLog`: `BouncesAreCounted`, `LogAppendOnly`,
  `GapNeverCloses`. `LogInv` says that what was answered and found its row is in the log.
  A log exists only once the rows are committed, and from then on
  what `Status` reads only grows.
- `MonitoringProofs`. Whatever overlaps: `TypeCorrect` (`SessionInv`: an open session has
  a row, and a page when it compares). One sweep: `RecoveryIsClean`,
  `ChangesHaveEvents`, `AlertsAreSpaced`. `CopyInv` is the copy; `OwedInv` says that an
  alert on its way is owed at every step between the decision and the mail; `StampInv`
  that a stamp is no older than the alert it was committed for, which is why a check
  that finds the window over on the stamp finds it over for the owner.
- `Tier2BudgetProofs`, all for one sweep: `SourceQuotaKept`, `TenantLimitKept`,
  `ValveStaysShut`. The counts are not inductive alone: `FlushInv` says that a count
  waiting to be flushed is what its row holds, so the second write is harmless;
  `SourceRowsInv` and `TenantRowInv` that the runs of a row's day are at most its
  count, and `PaidInv` that a check past its first pool has paid for a run not yet
  made; `DayInv` that no row is dated after the check's own day, so a check that began
  before midnight pays for its own day. `ValveIsCovered` compares the tenant's count
  with the runs charged to its sources, and is stated as the size of a set (one pair per
  charged run) so that it can be proved without a sum; `AheadInv` says that the sources
  are one ahead while a check is between the two pools.
- `DirectoryProofs`. Whatever overlaps: `ListBehindEveryPage`. `SweepInv` says that a
  check under way has its vendor and one that compares its page, and `SeenInv` that a
  list it has seen is still there: lists are replaced and never taken away. That is
  also why an assignment that `Dirty` leaves out of the UPDATE does no harm. One sweep:
  `FreshPagesWereRead` and `ListsMoveInTheOpen`, from `CopyInv` and `DatedInv` (the
  date of a published page is the age of its last true reading).
- `PlansProofs`. Whatever overlaps: `TypeCorrect` (`BusyInv`: what is under way has the
  tenant it loaded, and a webhook its event). `InFlight = 1`: `AddsStayWithinLimit`;
  whatever is under way is alone (`AloneInv`), so what a request has counted is still so
  when it inserts (`RoomInv`). `InFlight = 1` and `Ordered`: `TenantIsInStep` and
  `OldestAreKept`. `PaidInv` is an invariant on the queue: what the answered events have
  made of the tenant, with what the waiting ones will make of it, is what Paddle has. It
  allows for events that are repeated, and for those that are dropped because no
  transaction has linked the customer yet: the first transaction still waits then, and
  says the same. `KeptIsOldest` shows that the pages a downgrade keeps are the oldest:
  ages of distinct pages are distinct, so they are a bijection with `0 .. n-1`. That is
  a fact about finite sets of equal size and needs no induction.
- `SweepCycleProofs` - `GreenIsEarned`, `NoAlarmWithoutFault`, `ErrorIsOfLastCycle`, for
  any number of triggered cycles and any lengths of time. `WorkInv`: a heartbeat is no
  younger than the work it tells of, because a cycle that is about to leave one has just
  worked (`RecordInv`). `TimeInv`: while nothing fails, the heartbeat is no older than
  the last tick, or than the interval and the cycle that is running. `AloneInv` and
  `ErrorInv`: a cycle that is alone has read the row of `last_error` as it is.
- `EvidenceProofs`. Whatever overlaps: `PacksVerify`, `DamageAlwaysFound`,
  `SilenceIsOfASentNotice`, `EarnedForEver`. `EventInv` ties HTML to the timestamp and
  the frozen notice to its count, and says that only what has a digest is tried;
  `RowsInv` says that a send releases once, and that the count the event shows is that of
  one send's rows and mails still to go. Where no two sends, sweeps or retries by hand
  overlap (`OneOfEach`): `PacksAgree`. `SoloInv` says that what a step has loaded is what
  the event still holds, so that a release is the first one and no attempt starts from
  `timestamped`; `PackInv` that what the last pack stated of the event is still true of
  it or has only grown. The history of one pack is enough: each is compared with the next.

The assumptions on the constants are named in the modules. Most say that a bound is a
natural number or that two kinds of model values differ (`NoSessionAssumption`: the
empty session of `Monitoring` is not a row). The sets whose sizes are taken are
assumed finite: addresses and subscribers, sources, vendor names, the webhooks and
requests in flight (`SourcesAssumption` and the like).

Only model-checked, because liveness is out of the prover's reach: `DueSettles`,
`ReportsReachLog`, `TroubleIsTold`, `RefusalIsHonoured`, `TrialsEnd` and
`DueIsChecked`.

## Not modelled

- Access: signed links and cookies, limiters and used link ids, all in the memory of
  one process, which a restart forgets. Its one hazard (a used link works again after a
  restart) follows from that alone and contradicts no line of the repository.
- The language model: what its calls end in is a choice in `NoticeRelease`,
  `Monitoring` and `Directory`; its limiter only delays.
- Texts of mails and pages, signatures and hashes, the openssl parsing,
  localisation, analytics, leads and the admin pages (inserts and counts).
- In the modelled parts: the free plan's refusal of a first draft, the reviewer's name,
  the subject of a notice apart from its body, clock times, rate limiters; the review
  mail of a check and the classification of a change; packs without a manifest
  version, the limits on an upload and the terms a manifest may not contain;
  `routers/billing.py`, which only asks Paddle for a checkout or a portal page;
  `import_policy`, which writes nothing, and `publish`, which sets one date;
  `sweep.last_started_at`, which nothing reads.

## Plan

Built in this order, the most important behaviour first: `Timestamping`,
`NoticeRelease` and `DeliveryLog` with their abstract specifications; `Monitoring` and
`Tier2Budget`; `Directory`, `Plans`, `SweepCycle`, `Evidence`; then the proofs of all
their safety properties and of both refinements. What would come next:

1. What is left of each `SoloInv` property when sweeps do overlap, stated and proved:
   how far above its quota a source can get with `n` sweeps, how many events one change
   of a page can become.
2. Theorems about the operators by themselves: `Dirty` (a commit changes no column the
   session did not change), `Status` of the delivery log (which reports outrank which),
   the verdicts of `VerifySh` and `/verify`.
3. The composition of `DeliveryLog` with `NoticeRelease`, so that a webhook that comes
   before the rows (`DeliveryEarly.cfg`) meets the send that is still mailing.
