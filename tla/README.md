# Verification of the Vibe Monitor backend

TLA+ modules, TLC configurations and TLAPS proofs for the backend under `src/app`: a FastAPI
service that answers root-cause questions (RCA) about production systems in a web chat and in
Slack, writes weekly health reviews of services, and sells a subscription through Stripe. Paths
below are relative to `src/app/`.

- [1. What the system is](#1-what-the-system-is)
- [2. Modules and how they correspond to the code](#2-modules-and-how-they-correspond-to-the-code)
- [3. What the runs check](#3-what-the-runs-check)
- [4. What is proved](#4-what-is-proved)
- [5. Where the code and its comments disagree](#5-where-the-code-and-its-comments-disagree)
- [6. What is not modelled](#6-what-is-not-modelled)
- [7. What could come next](#7-what-could-come-next)

To repeat everything: `tlc -config X.cfg MCmodule` for each row of section 3,
`tlapm XProofs.tla` for each proof module.

## 1. What the system is

Every API process also runs the two SQS workers (`main.py`). The processes share PostgreSQL (with
READ COMMITTED transactions and almost no row locks), SQS and Redis, and they talk to Slack,
GitHub, Stripe, S3 and to monitoring providers. Whatever must hold between two transactions is
kept by status columns that are read, and later written, without a lock. That is where the hard
behaviour of this program is, and what the modules are about.

| Component | State it keeps | Operations | Talks to | Correct when |
|---|---|---|---|---|
| RCA request path (`chat/`, `worker.py`, `workers/base_worker.py`, `services/sqs`, `core/redis.py`) | `ChatTurn.status` and `final_response`, `Job.status` and `started_at`; an SQS message; a Redis channel per turn | create a turn, enqueue, receive, claim, analyse, deliver, fail, acknowledge; stream, repair a stale turn, delete a session | SQS, Redis, agent | an investigation starts at most once, no answer is shown that was not found, a watched turn ends |
| Slack (`slack/`, `utils/data_masker.py`, `security/`) | installations, an in-process set of handled events, the mapping of masked words in the job | events, commands, masking, guard, installation | request path, Slack, guard model | a question becomes one turn; its failure is told; masked words come back to the right person |
| Health reviews (`health_review_system/`, `workers/health_review_worker.py`) | `ReviewSchedule`, `ServiceReview`; an SQS message | cron run, request, bulk request, schedule update, generate, save | SQS, agent | every due service is reviewed, once; schedules name real reviews |
| Billing (`billing/`) | one `Subscription` row per workspace; Stripe's subscriptions, schedules and sessions | Checkout, cancel, change of service count, scheduled downgrade, sync, six webhooks | Stripe | the plan is what Stripe is paid for |
| RCA agent (`services/rca/`) | the state of one investigation; what the Slack callback has posted | resolve tools, hypothesise, gather, validate, loop, synthesise, retry; post and update progress | providers, language models | the root cause is one that stood its validation; progress shows what happened |
| Chat extras (`chat/router.py`, `chat/notifiers/`, `services/s3`) | `ChatFile` rows and S3 objects, `TurnStep`, `TurnFeedback` | upload, clean up, download, record steps, vote | S3, Redis | rows and objects agree; steps end as their tools did; the last vote stands |
| Review analysis (`health_review_system/`, `code_parser/`) | `ParsedRepository`, `CodebaseContext`, gaps, scores, indicators | parse, find gaps by rule, have them verified, score, compare | GitHub, language models, monitoring | a review rests on code it has seen; doubt removes nothing; worse never scores higher |
| Limits (`utils/rate_limiter.py`, `limit_service.py`) | `RateLimitTracking`, counts of services | check and increment, weekly usage | callers' sessions | no more is used than the plan allows |
| Tenancy (`workspace/services`, `onboarding/`, `auth/account`) | workspaces, memberships, invitations | create, delete, invite, accept, decline, change role, leave, delete account | GitHub, Slack, S3 at deletion | every workspace has an owner; an invitation is used once |
| Services (`client_workspace_services/`) | services and their teams | create, assign, delete | limits, billing, reviews | the plan's limit is nearly kept; no team of nothing |
| Authentication (`auth/`) | users, refresh tokens, verification tokens | sign up, log in, verify, reset, OAuth | mail, tenancy | a link works once, old sessions end with a reset |
| Environments, deployments (`environments/`, `deployments/`) | environments, repositories, API keys, deployments | create, update, delete, report | pipelines | one default; a deleted key reports nothing |
| GitHub App (`github/oauth`, `github/webhook`) | installation row, cached token, control plane row | install, webhooks, token refresh, disconnect | GitHub | no token outlives a suspension |
| Integrations (`datadog/`, `newrelic/`, `grafana/`, `aws/`, `integrations/`) | control plane and configuration rows; AWS credentials; clients in memory | connect, check, disconnect, renew | providers | one connection; tools have credentials; a cached client works |
| LLM configuration (`llm/`) | one row with an encrypted key | update, delete, build a client | providers | the key is the provider's |
| Mail campaigns (`email_service/`) | `Email` rows, the newsletter flag | sweep, post, record, unsubscribe | Postmark | nobody gets more letters than meant |
| Provider queries, telemetry, engagement report | nothing | calls | outside | section 6 |

How they interact. The chat router or the Slack handler stores turn and job and sends the job's id to SQS;
a worker in any process loads the job by that id. The worker publishes its progress on a Redis
channel on which the stream endpoint of, usually, another process listens. The cron endpoint and
the review endpoints do the same with a review's id. Deleting a service removes its reviews
(`ON DELETE CASCADE`) and makes billing count again. Stripe calls back, in no guaranteed order,
about what requests of the owner did to it.

What is hard (each at its line in `PROJECT.json`, "hazards"): an SQS message or a Slack event that comes again while
or after it is worked on; workers that die between two commits; ids that overtake the transaction that made them;
events published when nobody listens; repairs that write over fresher state; two webhooks, or a webhook and a
request, on one row; refused calls half way through; checks followed by inserts that nothing, or a unique index,
stops; rows that a session has loaded and that are gone when it writes them; stores without a common transaction (S3, Postmark,
Stripe, GitHub against PostgreSQL); caches that only one process empties; verdicts on samples and on missing numbers.

## 2. Modules and how they correspond to the code

One action is one database transaction, one call to a queue or to Stripe, or one published event:
between two of them any other coroutine, process or crash may come. What a coroutine has read and
not yet written is part of its program counter (`pc`, `stream`, `run`, `request`) or of a copy (`seen`,
`loaded`). `PROJECT.json`, "map", gives the lines of every definition. Definitions whose comment
starts with "Faulty" are plausible bugs, used nowhere in the specifications: each
property is run against one of them, in the place of the right definition, to see that it would be noticed.

### RcaJobs, TurnPromise (with MCRcaJobs, RcaJobsProofs)

| Variable | Code |
|---|---|
| `turn`, `response` | `ChatTurn.status`, `final_response`; "deleted" when its session was |
| `job`, `overdue` | `Job.status`; whether `MAX_JOB_PROCESSING_MINUTES` have passed |
| `api` | how far the request that creates the turn is |
| `msg` | the SQS message with the job's id (external) |
| `pc`, `on` | the step of a worker's `process_message`, the job it holds |
| `stream`, `told` | `GET /turns/{id}/stream` and the last terminal event the client got |
| `claims`, `analysed` | history: writes of RUNNING, analyses that succeeded |

A turn and its job are created together and are indexed alike. `CreateTurn`, `EnqueueJob`,
`EnqueueFails` and `FailUnsentJob` are the routers (`chat/router.py`, `slack/service.py`); `Receive`,
`LoadJob`, `Claim`, `ChainError`, `SurfaceError`, `CompleteJob`, `DeliverAnswer`, `AnnounceAnswer`,
`FailJob`, `TellFailure`, `AnnounceFailure`, `RecoveryFails` and `Ack` are the worker; `OpenStream`,
`CheckJob`, `MarkStale`, `SyncTurn`, `Subscribe` and `StreamTimeout` are the stream endpoint;
`ApiCrash`, `WorkerCrash`, `StreamBreaks`, `TimePasses` and `VisibilityExpires` are the environment.
`FailJob` stands for every path into `fail_and_notify_job`: a failed analysis, a missing
integration, any exception in any guarded step, after the job was completed too.

`TurnPromise` is the abstract specification, of what the user sees: a question is asked, its
investigation starts at most once, an answer may be shown once it is finished, a failure at any
time. It has no queue, worker, stream or time. `RcaJobs!Promise` instantiates it with
`asked`, `started`, `finished` and `shown` read off the tables, and `KeepsPromise` says that the request path implements it.

### HealthReviews, ReviewPromise (with MCHealthReviews, HealthReviewsProofs)

| Variable | Code |
|---|---|
| `services`, `enabled`, `due`, `lastReview`, `lastStatus` | services and their `ReviewSchedule` |
| `review`, `svc`, `period` | `ServiceReview`; "uncommitted" while only its transaction sees it |
| `request` | a `create_review` or bulk request between check, commit and publish |
| `run`, `todo`, `moved`, `made`, `sent`, `loaded` | a scheduler run and its open transaction |
| `msg`, `pc`, `on` | queue and worker |

A scheduler run handles the services of a workspace one after the other (`SkipService`,
`TriggerReview`, `AmbiguousService`) in one transaction, whose end is `CommitRun` or `AbortRun`; the
rows that it has flushed are locked for others (`Unlocked`). `TriggerReview` publishes at once,
as the code does. `CommitRun` writes only attributes that differ from the loaded ones,
as SQLAlchemy does. `CreateReview` fails on the foreign key of a deleted service and on the unique
index over service and week. `UpdateReviewSchedule` and `DeleteService` are
the user; `StartGeneration`, `SaveResults`, `UpdateSchedule` and `FailReview` the orchestrator's
four kinds of transactions. `Now` is the default period, the seven days before a request, which no two
requests share.

`ReviewPromise` is what an owner of services sees of it: reviews that are stored, together with what schedules say of them; generations that start at most once;
results that replace failures reported too early, and failures at any time; services that go with their reviews. It has no queue, worker, request or open transaction. `KeepsReviewPromise` says
that the four together implement it: a review that is not committed, or was rolled back, is not there for anybody, although its id is in the queue.

### Billing (with MCBilling, BillingProofs)

| Variable | Code |
|---|---|
| `row` | `Subscription`: plan, Stripe id, status, billable services above the base, pending change |
| `stripe`, `quantity`, `schedule`, `ending` | Stripe's subscriptions (external) |
| `session`, `old` | Checkout sessions and the subscription they replace |
| `events` | webhooks in flight |
| `pc`, `task`, `seen` | a request or webhook handler: its step and the row as it loaded it |
| `replaced`, `disputed`, `overlap` | history: what a Checkout replaced; what another task was at work on when that payment was handled; whether two tasks ran at once |

A handler loads the row (`Load`), may call Stripe (`StripeCancels`, `StripeResets`, ...) and commits the
columns it changed (`Commit`), with no lock from one to the other. `RequestFails` ends a request at any of its steps:
Stripe refused, the commit failed or the process died; what Stripe did stays done. A webhook is
delivered once, because every answer is 200. `Ordered` makes events about one subscription arrive in the order of what they report,
one after the other; two subscriptions are never ordered against each other. The three columns of a pending change are one, amounts and dates
are left out.

### The modules of the other parts

All of them have the same form. A request is a call that reads, step by step, what the code reads, keeps it in its record
(`step` is where it stands), and commits in one action; other calls commit in between. `Platform` holds what these modules share.
A row that a session has loaded and that somebody deletes meanwhile makes its UPDATE fail, as in SQLAlchemy. A history variable says whether two
calls have crossed: some promises hold whatever crosses, others one request after the other, and each property says which.

| Module | Variables and the rows they stand for | Actions | Properties |
|---|---|---|---|
| `Tenancy` (proofs: `TenancyProofs`) | `account`, `workspace`, `role` (memberships), `invitation`, `inTeam`; `request` | sign-up, creation, invitations from both ends, roles, removal, leaving, deletion of accounts and workspaces | `MembershipIsSound`: a workspace has an owner (serially), memberships are of what exists, one pending invitation (serially). `MembershipStepsAreSound`: a cancelled invitation lets nobody in, none is answered twice, nobody takes away a workspace another one is a member of |
| `Quotas` (proofs: `PeopleProofs`) | `counted` (`RateLimitTracking`), `locked` | lock, first insert, increment, refuse, roll back, close | `CountersAreSound`: a row counts what was allowed, within the limit but for the first request of a day; who holds the lock is going to end |
| `Services` (proofs: `PeopleProofs`) | `team` of each service, `teams`, `plan` | creation behind the limit, assignment, deletion of services and teams, change of the plan | `ServicesAreSound`: the limit is exceeded by those that crossed and no more; no service has a team that is gone |
| `Environments` (proofs: `PeopleProofs`) | `env`, `repos`, `deployed`, `key`, `rowOf` | default, creation, deletion, repositories, keys, reports of members and pipelines | `EnvironmentsAreSound`: one default (serially), few ever, nothing outlives its environment. `DeletedKeyReportsNothing` |
| `Credentials` (proofs: `PeopleProofs`) | `user`, `password`, `link`, `login` | sign-up, verification, reset, login, OAuth, refresh, logout, end of the account | `SessionsAreSound`: sessions of the current password of a verified account that is there; links that work once |
| `LlmConfig` (proofs: `PeopleProofs`) | `llmRow`; `wish` | load, create, update, delete; the factory and the limiter's question | `LlmIsSound`: the key is of the row's provider and who is not limited brings an LLM of its own (serially) |
| `ChatUploads` (proofs: `PeopleProofs`) | `bucket`, `fileRows`; `posting` | accept, upload, commit, enqueue, clean up, delete the conversation, expire | `UploadsAreSound`: a link leads to the file of its row until it expires; a question that failed leaves no objects, unless S3 or the process did |
| `ChatFeed` (proofs: `PeopleProofs`) | `steps`, `tool`, `currentStep`, `vote` | start and end of tools, their two writes, votes | `FeedIsSound`: steps end as their tools did if these did not overlap; one row per voter; the last vote stands |
| `MailCampaigns` (proofs: `PeopleProofs`) | `sent`, `mailbox`, `subscribed`; `sweep` | due users, sweeps, posting with retries, recording, crashes, days, unsubscription | `MailIsSound`: no more letters than the campaign means, rows are letters, who unsubscribed is spared |
| `GitHubApp` (proofs: `ConnectionsProofs`) | `install`, `grant`, `hooks` (GitHub), `link`, `plane` | callback in its commits, token refresh, four webhooks, disconnection, health check | `InstallationsAreSound`: an active row has no dead token, an inactive one none, one installation, nothing of a removed one |
| `Integrations` (proofs: `ConnectionsProofs`) | `control`, `config`; `task` | connect (four providers), check, disconnect | `ConnectionsAreSound`: one connection (serially), few ever, tools have credentials |
| `AwsCredentials` (proofs: `ConnectionsProofs`) | `row`, `lock`, `cache` | connect, renew under the lock, store, cache, disconnect | `RolesAreSound`: a client used again works (one call at a time), none is of a role its process disconnected. `NoRedundantRenewal` |
| `SlackEvents` (proofs: `ConnectionsProofs`) | `seen` per process, `turns`, `queued`, `failed`; `handling` | deliver again, take, guard, session, turn, enqueue, reply, restart | `DeliveriesAreSound`: one turn per process and message; what is not delivered again was answered; no forgotten job |
| `SlackTeams` (proofs: `ConnectionsProofs`) | `installed`, `slackPlane` | OAuth callback, disconnection | `PlanesMatch` (in `SlackIsSound`); `TeamStays`: a team changes its workspace only by being disconnected |
| `SlackMasking` (proofs: `ConnectionsProofs`) | `mapper`, `slackJob`, `recorded`, `shown` | mask, guard, fetch and mask the thread, unmask the answer | `MaskIsSound`: what the job carries unmasks to what was written; one token per value; only what was judged "true" or is empty is queued |
| `RcaAgent` (proofs: `WorkProofs`) | `hypotheses`, `capabilities`, `iteration`, `attempt`, `rootCause` | the nodes of the graph, the executor's retries, the retries of the whole | `AnswersAreSound`: the root cause stood its validation, sick integrations are spared, rounds are bounded |
| `SlackProgress` (proofs: `WorkProofs`) | `thread`, `announced`, `latest`, `failures`, `open` | post, update, failures, lost answers, breaker | `AnswersAreSound`: announced once, only the last message is under way unless Slack did not listen, the breaker counts failures in a row |
| `ReviewRequests` (proofs: `WorkProofs`) | `reviews`, `subjects`, `enqueued`; `order` | single and bulk request, commit, refusal, publication, lists | `RequestsAreSound`: a queued review is sent or blamed on its publication, lists hide none, a bulk request leaves none out |
| `ReviewAnalysis` (proofs: `WorkProofs`) | `code`, `head`, `parses`, `context`, `done`; `work` | pushes, cached, colliding and failing parses, clean-up, comparison, discovery, budget | `AnalysisIsSound`: gaps are dropped on the word of a context only if its files did not change; the context stays in the budget |
| `GapVerdicts` (proofs: `WorkProofs`) | `gaps`, `answer`, `verdict`, `reported`, `saved` | rules, samples, verdicts on groups, two filters, enrichment, saving | `VerdictsAreSound` (in `GapsAreSound`): doubt removes nothing, large groups stay whole |
| `ReviewScores` (proofs: `WorkProofs`) | `metrics`, `counted`, `previous` | providers one by one, scores, indicators, trends | `NoWorseNoLower`: a service that did no worse scores no lower and no indicator of it points down |
| `GapRules` (proofs: `WorkProofs`) | the facts of a file, in an order | the rules as operators | `RulesAreSound` (in `GapsAreSound`): each rule finds exactly what its reference definition says, in any order of the facts |
| `RedReadiness` (proofs: `WorkProofs`) | the source files, in an order | the search for counter, histogram and endpoint | `RedIsSound`: ready means no gap, and beside a middleware only middlewares and imports count |

`Selections` has what `ReviewAnalysis` and `RedReadiness` take of a list (`Filtered`: a comprehension with a condition, a query with a WHERE).
It and the masking of words (`MaskedBy`, `MaskedByAll`) are recursive functions, about which the proofs can reason by induction.

### MC modules and union runs

`MCRcaJobs`, `MCHealthReviews` and `MCBilling` extend one module with symmetry sets and constraints. `MCPeople`, `MCConnections` and
`MCWork` extend several that share no state: a variable `part` is chosen at the start and only that part moves, so that the state graph is the
disjoint sum of the graphs of the parts. A model value that several parts use (`c1` is a request here and a tool there) means nothing between them.
A property of such a run that is a conjunction (`TurnsAreSound`, `SlackIsSound`, `AnswersAreSound`, `GapsAreSound`,
`PeopleStepsAreSound`, `ConnectionStepsAreSound`) joins properties of different parts. No definition is replaced.

## 3. What the runs check

| Run | Instance | Shows |
|---|---|---|
| `rca_live` (RcaLive) | 1 question, from the web or from Slack, 2 workers | `AtMostOneAnalysis`, `NoPhantomCompletion`, `ClaimReadIsFresh`; the refinement `KeepsPromise`; the liveness `WatchedTurnSettles` |
| `rca_synced`, `rca_acked` | 1 web question, 1 worker | disagreements, section 5 |
| `health_cron` (HealthCron) | 1 service, 3 weekly reviews, 1 cron run at a time, 2 workers | `TypeOK`, `AtMostOneGeneration`, `NoOverlap` |
| `health_live` (HealthLive) | 1 service, 2 weekly reviews and 1 of a user, 1 run, 1 worker | `LastReviewIsReal`; the refinement `KeepsReviewPromise`; the liveness `FreeServiceIsTriggered` |
| `health_weekly`, `health_retry` | 1 service, 2 reviews | disagreements, section 5 |
| `billing` (Billing) | 2 subscriptions, 1 extra service, 3 webhooks in flight, 2 tasks, every request | `TypeOK`, `PlanFollowsSubscription`, `SettledSubscriptionLives`; the action property `ReplacementKeepsPlan` |
| `billing_race` (BillingRace) | 2 tasks, changes of the count only | disagreement, section 5 |
| `people` (People) | 9 parts, 2 requests at a time; 2 users, 1 or 2 workspaces and invitations, 3 environments, 6 days of mail | `MembershipIsSound`, `CountersAreSound`, `ServicesAreSound`, `EnvironmentsAreSound`, `SessionsAreSound`, `LlmIsSound`, `TurnsAreSound`, `MailIsSound`, `PeopleStepsAreSound`, `PeopleTypeOK` |
| `connections` (Connections) | 6 parts, 2 requests or processes at a time; 2 installations, 3 rows, 3 deliveries, messages of 2 words | `InstallationsAreSound`, `ConnectionsAreSound`, `RolesAreSound`, `SlackIsSound`, `MaskIsSound`, `ConnectionStepsAreSound`, `ConnectionsTypeOK` |
| `work` (Work) | 9 parts; a web and a Slack question with 1 worker, 3 reviews, 3 commits, 2 rules, 3 facts of a file | `MessageHasJob`, `AnswersAreSound`, `RequestsAreSound`, `AnalysisIsSound`, `GapsAreSound`, `NoWorseNoLower`, `RedIsSound`, `WorkTypeOK` (of `RcaJobs` too) |

**Bounds.** A turn shares nothing with another turn but workers, and every invariant of `RcaJobs` is about one turn: one
question (`OneQuestion` lets it be of either kind) with two workers has all the races for it; in `work`, two questions share one worker and
neither outlasts its time, and the client leaves when it has been told (`FewQuestions`). Redeliveries are unbounded. In
`HealthReviews` the bound is the number of reviews (`Reviews`): three let a service be due, run and be due again while the first is still worked on; the proofs cover
several services. In `Billing`, `Subs` bounds how often a subscription is replaced (two show every crossing of a Checkout, a reset and the end of the old subscription; a third lets a
handler write a replaced subscription back, which the property excludes as `disputed` and the theorem covers), `Extra`
the count of extra services, `MaxEvents` the webhooks in flight: three hold those of a reset and one more. Once two tasks have overlapped, requests about the count stop
(`FewExtras`): the properties about it are those of tasks that do not overlap.
In the union runs two requests at a time are what a crossing needs; every hazard listed is a crossing of two. `Small` (people) leaves one
invitation once requests have crossed and lets environments, keys, repositories and deployments be three together. `FewLetters` explores one campaign in a
behaviour, because campaigns share only the newsletter flag. `Few` (connections) lets installations and calls be three together, and webhooks wait in one
queue once they have crossed. `FewOrders` lets a second request run beside two reviews only while it makes none, `FewLooks` two reviews at a time only while one of them still
synchronises and none looks for gaps, because it is in the parses that they meet, and a third commit only for a service without a review; `ShortThread` ends a Slack thread at four messages. Numbers (`MaxReminders`, `MaxLoops`,
`MaxFailures`, `SampleSize`, ...) are the code's settings made small; each is large enough to be reached and passed.

**Symmetry** is over workers, tasks, requests and rows that are interchangeable in every part that uses them, and not used where liveness is checked.

**Deadlock** is not checked: turns, reviews, subscriptions, links and commits are finite supplies, and an instance that has
used them up has nothing to do.

**Fairness.** `RcaJobs!FairSpec` assumes only that the client of a web turn keeps asking
(the browser reopens its stream) and that a stream request which can go on again and again
does: strong fairness of `CheckJob`, `MarkStale` and `SyncTurn`, because a request may break before it reaches them, but not
every time; weak fairness of the rest and of the clock. Workers may all
be dead for ever. `HealthReviews!FairCron` assumes that cron calls come again and a run
that can commit often enough does once, nothing of workers and users; `FairSpec` adds workers and SQS and is used where the
point is that a promise fails even then. Errors and crashes are never fair: they may happen and need not. The modules of the union runs have safety properties only.

**What the properties mean.** `AtMostOneAnalysis` and `AtMostOneGeneration`: an expensive run of a model starts at
most once per job or review although SQS may deliver its id any number of times. Both rest on
`PromptClaim` (`PromptStart`): a message stays hidden until its receiver has written RUNNING (GENERATING) or is gone,
300 s (600 s) of visibility timeout against a few milliseconds of database. The status is
not checked again when it is written, so without the assumption they are false, and the configurations can be set to show it.
`NoPhantomCompletion`: neither repairs nor failure paths turn a dead job into an answer.
`ClaimReadIsFresh`: what a worker read before it claims is still so. `MessageHasJob`: no id overtakes its
transaction. `WatchedTurnSettles`: the turn of a client that keeps asking
leaves PROCESSING, whatever dies. `NoOverlap`: the cron job alone never has two reviews of a service in
progress, which the scheduler needs (`scalar_one_or_none`). `LastReviewIsReal`: schedules never name a review that was rolled back or belongs to another service.
`KeepsReviewPromise`: what is between the commits of scheduler, requests and workers is never seen, whatever id the queue has; it rests on `PromptStart`.
`FreeServiceIsTriggered`: a due service without a review in progress is not passed over.
`PlanFollowsSubscription`: Pro if and only if a subscription is tracked, as long as tasks did not overlap. `SettledSubscriptionLives`: once
all is handled the tracked subscription is alive. `ReplacementKeepsPlan`: the end of a replaced subscription never takes the plan away,
with two tasks at a time too, unless another task was at work on it when the payment for the new one was handled (`disputed`).

## 4. What is proved

By TLAPS, for every value of the constants that satisfies the named assumptions of the modules (`None` is
none of the things it stands beside, `Web` is a set of turns, ...). Every proof has the same shape: an invariant that is
inductive, one lemma per conjunct, in it one step per action, and a temporal step.

**RcaJobsProofs.** `TypeCorrect`, and `NoPhantomCompletionTheorem` and `MessageHasJobTheorem` without any
assumption on SQS. `NoPhantomCompletion` alone is not inductive: a worker at "deliver" and a stream at "sync"
will write COMPLETED later. `Answered` adds what is true at these program
counters, and that a COMPLETED job was analysed. `Created` adds that whatever carries a job's id was made by a committed transaction; `MessageHasJob` follows from it.
With `PromptClaim`: `AtMostOneAnalysisTheorem`, `ClaimReadIsFreshTheorem`, `KeepsPromiseTheorem`. Here `Held`
says that a worker before its claim holds a message that nobody can receive and that no other such worker holds, and `Claimed`
that a job which is QUEUED, or in front of a claim, was never claimed, and no job twice. The refinement follows from
the whole invariant `IInv`: every step of `RcaJobs` is one of `TurnPromise` or leaves its variables alone.

**HealthReviewsProofs.** `TypeCorrect`; `LastReviewTheorem`, for any number of overlapping runs, users, workers
and redeliveries, resting on `Committed`: what a worker has loaded, and what a run has made, belongs to its service and is or was stored.
With `PromptStart`, `AtMostOneGenerationTheorem` (`Held`, `Started`, as above). With `CronOnly` as well (no
requests of users, one run at a time), `NoOverlapTheorem`: `Alone` also counts the review that an open transaction has made. `KeepsReviewPromiseTheorem` is the refinement, with
`PromptStart`: the mapping hides what is not committed (`NotSeenYet`), a commit is one `Store` of all that its run has made (`StoredTogether`), and `Kept` adds that the service of an uncommitted
review cannot go before it and that what a worker reports to the schedule has ended.

**BillingProofs.** `TypeCorrect`, and `PlanTheorem`: `PlanFollowsSubscription` for any number of
subscriptions, services and tasks, and any order of webhooks. `PlanInv` says that, as long as no two tasks
have overlapped, one task is busy at most, its copy is the row as it is, and a recount that Stripe has answered has a subscription to write
where the row has one. `SettledTheorem` and `ReplacementTheorem` (`SettledSubscriptionLives`, `ReplacementKeepsPlan`) hold if webhooks come in order (`Ordered`), for any number of
subscriptions and of tasks that overlap. They rest on three invariants that relate Stripe's state, the queue of events and the tasks' copies. `StripeInv`: nothing names a subscription that does not
exist, an end that is reported has happened, and a subscription is announced before the payment of the one that replaces it. `EndInv`: the end of an ended subscription is still in
flight behind everything that opens it, or nothing will open it any more (`Gone`) and, if the row tracks it, a handler is about to take it away. `ReplaceInv`: from the moment its replacement
is in hand without dispute the old subscription is `Gone`, from the commit on the row does not track it, so the webhook of its end finds no row.
Steps are of four shapes, each with a lemma for all three invariants: `GoesOn` (nothing new is opened), `Announces` (Stripe opens one), `HandleSound` (an event is taken) and
`CheckoutSound` (a replacement commits).

### The parts of the union runs

These modules are requests that read into a record and commit later, so their invariants have one shape: what the rows satisfy; what a
request that stands at a step has found and may rely on whatever crosses it; and, "as long as nothing crosses", that one request is served and that what
it found is what there is.

**TenancyProofs.** `TenancyTypeCorrect`, `Membership` (`MembershipIsSound`) and `MembershipSteps`. `RequestsSound` says that what a request has loaded is
still there (deletions of memberships are commits that lose against it), `OneAtATime` with `StillKnows` what it has checked: a request that takes
an owner's role away has seen another owner.

**PeopleProofs.** One theorem for each part, and `DeletedKeyTheorem`.
- `QuotasTypeCorrect`, and `CountersTheorem`: `CountersAreSound` for any number of sessions, windows and sizes, and any limit; `MostCounted` bounds nothing here. It needs
  three facts more: a session past its first step names a window, a window without a row has allowed nothing and is locked by nobody, and (`ReadIsFresh`) what a session
  read of the row it holds is still what the row says, which is why the increment loses nothing.
- `ServicesTheorem`: `ServicesInv` bounds the services and the creations that have passed the check together.
- `EnvironmentsTheorem`: "few defaults ever" is not inductive. `FewUnseen` counts: each default environment that no request is about to unset, and each
  request that is about to set one, has a request of its own; `EditSound` adds which rows a request has locked, which is what `DeletedKeyTheorem` rests on.
- `SessionsTheorem`: between the two commits of a reset the old sessions are still there; `LoginSound` says that then a request is at the step that ends them, or was halted there.
  `LinksAreSound` says that a link not spent was not used, and that of one kind one link is open.
- `LlmTheorem`: `WishSound` keeps what a request loaded equal to the row while nothing crosses.
- `TurnsTheorem`: `PostSound` relates the objects in the bucket to the files that a request has uploaded so far, name by name, because the last of one name wins. `StepsInv`
  and `VotesInv` do the same for steps and votes.
- `MailTheorem`: `Tally` says that a mailbox holds the letters with a row, and one for each sweep that has posted and not recorded, and no more unless a sweep died;
  `SweepSound` that a recipient who is still to come is due.

**ConnectionsProofs.** One theorem for each part.
- `SlackIsSoundTheorem`: `TurnsOfTakers` charges every turn, and every handler that may still make one, to a process that took the message; `TakenIsHandled` and `JobsAccounted`
  say where an acknowledged message and a committed job can be. For installations `OAuthSound` says what a callback and a disconnection know of the rows that they will write.
- `ConnectionsTheorem`: `FewPlaces` counts connections together with the requests that have looked for one and found none.
- `RolesTheorem`: `FetchSound` says that whoever commits a credential holds the lock of its process and that the one it replaces was due; `AloneSound` the rest.
- `InstallationsTheorem`, the longest: an installation's row and GitHub's own state disagree between an event and its handling. `RowSound` and `OrderedRow` say that then a webhook
  that will set it right is in flight or in hand (`Pending`), `DeedSound`, `LoneSound` and `OrderedSound` say what a request at each step knows, `HooksInOrder` that an older webhook is followed by the one that overrules it.
- `MaskIsSoundTheorem`, for words, texts and threads of any number and length, whatever the analyzer finds in them: `MaskedByGrows` and `MaskedByAllGrows` (by induction) say that masking
  keeps every token that the mapper has (`Grows`), gives each value one (`IsMapping`) and leaves none of the found words without. `MaskingInv` then says of each step of the question that what was
  masked so far comes back, by the mapper as it is now, as it was written; of the job, by its own mapping, because that is a copy of the
  mapper before or after the thread was masked. `JudgedTheorem` is its conjunct about control, `OnlyJudgedIsQueued`.
- `ConnectionStepsTheorem`: the two action properties, from the same invariants.

**WorkProofs.** One theorem for each part.
- `RequestsTheorem`: `Promises` says what a bulk request has still to do for the services that it has seen; `OneOfAWeek` is the unique index.
- `AnalysisTheorem`: `LookSound` ties "filtered on the word of the context" to the two commits compared, and the spent calls to the budget at every step.
- `AnswersTheorem`: `VerdictsOfThisRound` and `RoundsOfAttempts` for the agent, where "rounds are bounded" needs to count rounds of attempts that were given up; `SaidOnce` and `LastIsChecked` for the thread.
- `GapsTheorem`: `RulesMean` shows that each rule as the code computes it (the first function of a name, facts in a range, sets of lines) finds what the reference definitions say, for facts in
  any order; `DoubtIsNoAlarm` and `AskedOnce` that a doubtful verdict keeps its group.
- `ScoresTheorem`: grading is monotone, section by section and value by value (`ErrorsGraded` to `OverallNoLower`), missing values included, and an indicator points down only if its value did worse.
- `RedTheorem`, for any number of files: the search is made of filters and of the first file that matches, and `RedInv`, which grows with each file, says that filtering the relevant
  files for middlewares, or for imports, gives what filtering all of them gives. `ReportAndGaps` needs no invariant: each condition of "ready" is the negation of a gap's.
- `AnalysisTyped` is what the types of the analysis need beside `AnalysisInv`: a commit has one row of parses, through clean-ups and rollbacks (`FilteredRows`), and a review that goes on has a head.

**DataLemmas.** Induction over data, where the invariants need it. The library's induction theorems take an operator as a parameter, which the provers cannot instantiate; but the
well-foundedness of the natural numbers is a fact about a set. From it follow `LeastNumber` and `EveryNumber` (a set of numbers that has 0 and every successor of its elements is all of
`Nat`), whose parameter is a set, and from `EveryNumber` what a recursive function computes for every input: `FilteredTakes` says that `Filtered` exists as it is written, `FilteredAppend` how it
grows, `FilteredKeeps` that elements that differ in a key still do. The masking lemmas use it as well.

**The unions.** `PartsTheorem`, `ConnectionsPartsTheorem` and `WorkPartsTheorem` say that a behaviour of a union run is, of every part, a behaviour of the part's own
specification (the others stutter), so that what is proved of the parts holds of what TLC explores. `PeopleTypesTheorem`, `ConnectionsTypesTheorem`, `WorkTypesTheorem` and
`PeopleStepsTheorem` are put together that way.

**Assumptions.** Proofs use the assumptions that the modules declare: `None` (no row) is none of the ids it stands beside; a set of calls, sweeps or tools is finite where the
property counts them; limits are natural numbers (`MostFiles`, `MostCommits`, `MostWords`, `MostResets`), as the settings are; the personal values of a `SlackMasking` instance are finitely many and of the kind "personal"; "gone" is no team; every element of `Candidates` is a fact and of `SourceFiles` a source file; a
metric has a provider. TLC evaluates all of them.

**Only model-checked.** `WatchedTurnSettles` and `FreeServiceIsTriggered`: liveness under fairness is beyond the prover. Every invariant and
every action property of a passing run is a theorem.

## 5. Where the code and its comments disagree

Each of these runs ends in a counterexample; `PROJECT.json`, "findings", quotes the lines.

- `rca_synced`, `SyncedTurnHasResponse`. The worker commits the job as COMPLETED before the turn has its answer
  (`worker.py:836`). A stream request in between sets the turn COMPLETED without one, where the comment
  expects that it "should have been set by worker" (`chat/service.py:672`).
- `rca_acked`, `DeletedMessageWasProcessed`. The worker loop deletes a message "after successful processing"
  (`workers/base_worker.py:65`), but `process_message` swallows its exceptions: the message of a job that is still
  QUEUED is deleted.
- `health_weekly`, `DueServiceIsReviewed`. The scheduler publishes before it commits
  (`health_review_system/scheduler/service.py:160`). A quick worker throws the id away, the review
  stays QUEUED and its service is skipped in every later week.
- `health_retry`, `RetryAfterFailure`. "Only allow new review if previous one FAILED"
  (`health_review_system/api/router.py:111`), but the unique index on service and week refuses the second row.
- `billing_race`, `SettledPlanIsPaidPlan`. The check in `handle_subscription_deleted` that "prevents race
  conditions" (`billing/services/subscription_service.py:649`) asks whether the old subscription is canceled, which it
  is. Handled together with the created event of its successor it leaves the Free plan beside a paid subscription.

### Other things met while modelling

Each of them is in the models as the code has it; no run is spent on them.

- Requests: the cleanup after a refused message deletes the S3 objects also if the failure came after the commit, so rows and a QUEUED job stay without
  objects (`chat/router.py:441`); it reads `uploaded_s3_keys`, which is unbound if the session or turn could not be made. Two attached files
  of one name share one S3 key. No code reads attached files or their text when it answers. The web callback has one current step: with
  tools at the same time, one step stays RUNNING (`chat/notifiers/web_callback.py:81`).
- Slack: the outer error clause of a question reads `job` before it is set, so a collision on the thread's session is answered 500 and the retry is taken for a
  duplicate (`slack/service.py:725`). The default text of an image without words never reaches the job, whose query is the masked, empty, text
  (`slack/service.py:380`). The progress breaker counts a send that returned nothing as a success.
- A typed word that looks like a token (`email1`), also one that an earlier answer left in the thread, comes back as the value of another message's token: `MaskIsSound` excludes such words.
- Agent: the conversation hands out GitHub's tools even when its integration is not healthy; a verdict without a confidence keeps an older one; an integration whose
  health was never checked is left out silently; nothing calls `get_llm_for_workspace`, although its workspaces are not rate-limited.
- Reviews: a commit whose parse has FAILED is never parsed again (`code_parser/service.py`); a measured zero counts as missing when providers are merged (`data_collector`); error
  rates of the providers have different units; the budget of LLM calls is enforced only after a file was extracted; the threshold of a group's verdict counts the model's entries, not the samples;
  `_facts_in_range` says "overlaps" and tests containment; functions of one name are judged by the first; the RED search "all files" looks at middleware files only and a later file overwrites an earlier, complete one.
- Mail: the identity map of a sweep's session keeps the newsletter flag it has read; a skipped letter is counted as sent; one failed commit ends the rest of the sweep.
- Billing: a workspace can pay for two Checkouts, of which the last is tracked; a handler that loaded the row before the Checkout of a replacement and commits after it (a `created` or
  `checkout` event, a recount) writes the old subscription back, whose end then takes the plan of the new one; the proof of `ReplacementKeepsPlan` failed on it with three subscriptions; a pending downgrade is not cleared when its subscription ends. Deleting a
  workspace cleans up GitHub, Slack and S3 before it commits and does not cancel the Stripe subscription (`workspace/services/workspace_service.py:397`).

## 6. What is not modelled

- What language models, analyzers and providers say: their answers are choices. Prompts, rendering, wording, parsing of source code and of
  provider responses, the masking of log lines.
- Provider queries (`log/`, `metrics/`, `datasources/`, `github/tools`, `services/rca/tools`): they keep nothing. Telemetry and configuration.
- Names, descriptions, listing, search and pagination in every part; comments on turns; the home tab and interactive payloads of Slack; transactional mails and the
  engagement report; team memberships but for their effect on deletions.
- `backoff_until`: no code writes the column, so its branch in the worker cannot be reached. The dead-letter
  queue of SQS: it ends redeliveries, and no property needs them to go on.
- A failed commit inside a Stripe webhook handler, whose event is then lost for good, except for Checkout (`CheckoutNotFetched`). Amounts, credits and the dates
  of periods in billing; several workspaces there, which share no rows.
- Signatures, encryption and token formats.

## 7. What could come next

1. An abstract specification of `Tenancy` (a workspace and its
   set of owners, changed atomically, which the detailed module implements while requests do not cross).
2. Compositions: `SlackEvents` with `RcaJobs`, which now meet only in the job that the one makes and the other takes.
