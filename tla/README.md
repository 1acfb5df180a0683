# SleuthGraph API: verification project

TLA+ models of SleuthGraph, an OSINT case-management API (FastAPI, PostgreSQL
with Apache AGE, an S3 object store, Redis with arq workers). The models are
translated from the Python sources under `src/src/sleuthgraph/`; paths below
are relative to that directory unless they start with `docs/` or `README`.

TLC checks small instances of every model; TLAPS proves the theorems listed in
"What is proved" for every value of the constants.

## 1. The system

| Component | State it keeps | Operations | Talks to |
|---|---|---|---|
| Plugin run dispatch (`plugins/router.py`) | the `plugin_runs` row | POST (sync, async), list, get | queue, runner, entities, cases |
| Queue and worker (`queue/`) | arq job, in-progress key, try counter (Redis); the shared pool | enqueue, start, retry, drop, time out; `run_plugin_task` | plugin_runs row, runner |
| Plugin runner (`plugins/runner.py`) | the same row; the session it writes results with | validate, execute, `_persist`, record success or failure | plugins, credentials, repositories |
| Stuck-run sweeper (`plugins/sweeper.py`) | none of its own | one conditional UPDATE | plugin_runs row |
| Plugin framework (`plugins/registry.py`, `plugins/base.py`, `licensing.py`) | registry of classes | register, look up, license check | runner |
| Built-in plugins (`plugins/builtin/`) | none | `query`: fetch, build proposals | third-party APIs |
| Entities (`entities/`) | `entities` rows, AGE vertices | create, get_or_create, update, soft delete, list | `graph/age.py` |
| Relationships (`relationships/`) | `relationships` rows, AGE edges | create, create_if_not_exists, soft delete, list | entities, `graph/age.py` |
| Graph helpers and dump (`graph/`) | none | Cypher statements; dump of a case | SQL tables |
| Evidence ledger (`evidence/`) | append-only rows; blobs keyed by their hash | create, list, presign, verify, sweep, export | object store |
| Cases (`cases/`) | `cases` rows | create, update, soft delete, list by owner | everything a case owns |
| Credential vault (`credentials/`) | one encrypted key per (user, plugin) | upsert, get, list, delete | runner |
| OIDC login (`auth/oidc*.py`) | users.oidc_sub; a signed state cookie | login, callback, link, provision | identity provider |
| Password accounts (`auth/`) | users; stateless tokens | register, verify, forgot, reset, log in | mail |
| Admin bootstrap (`auth/bootstrap.py`) | users | create the admin at start-up | users |
| Rate limiting (`auth/rate_limit.py`) | windows per address and per body key | count and refuse | Redis or memory |
| Application, configuration, sessions (`main.py`, `config.py`, `db.py`) | engine, settings | lifespan, `get_session` | all |

### How they interact, and what is hard about each

**A plugin run** is one database row that four actors write without a lock: the
request that inserts it, the arq task that flips it to running, the runner that
ends it and the sweeper. The ORM writes `UPDATE ... WHERE id = ...` whatever the
row holds by then; only the sweeper tests the status. Between the actors stand
a queue that delivers at least once, workers that die, tasks that are cancelled
by a timeout, and two separate commits (the results, then "succeeded"). Correct
means: success is only reported for results that are committed; a run that reads
"queued" has had no effect; a settled run stays settled; the plugin is called at
most once; every run ends.

**A case's content** is written by HTTP requests (one transaction each) and by
plugin runs (one long transaction over the same repositories). Every write goes
to a SQL row and to its mirror in the graph, in the same transaction but in
separate statements; a blob goes to a store that has no transactions. The
isolation level is PostgreSQL's default, READ COMMITTED, so a row can change
between the SELECT of a request and its UPDATE, and Cypher's MATCH finds nothing
without an error. Correct means: what lives is in the graph, what is dead is
not, no evidence row points at a missing blob, nothing that was deleted comes
back, and a run's results commit as a whole.

**Readers** (graph dump, evidence export and verification) make several
statements under READ COMMITTED and may combine two states of the database.

**Login** resolves an identity with a SELECT followed by an INSERT or an UPDATE;
two callbacks of one identity, two replicas that bootstrap, or two uploads of one
credential race between the two, and only unique constraints stand behind them.

**Rate limiting** chooses the client address from headers, and keeps windows
that expire.

**Plugins** are sequential: they turn an upstream answer into proposals. What
can go wrong there is arithmetic: caps of 2000 proposals in the runner against
the caps of each plugin, loops that retry.

## 2. Plan

| # | Modules | Composes | Status |
|---|---|---|---|
| 1 | `PluginRun`, abstract `RunLifecycle`, `PluginRunProofs`, `RunLifecycleProofs` | dispatch, queue, worker, runner, sweeper | done |
| 2 | `CaseGraph`, abstract `CaseLedger`, `CaseGraphProofs`, `CaseGraphMirrorProofs`, `CaseLedgerProofs` | entities, relationships, mirror, evidence, the runner's `_persist` | done |
| 3 | `Proposals`, `PluginQuery`, `PluginQueryProofs` | the built-in plugins from request to result, and the runner's cap | done |
| 4 | `Accounts` over `RateLimit`, `AccountsProofs`, `RateLimitProofs` | start-up, bootstrap, password accounts, OIDC login, vault, windows | done |

Module 3 feeds module 2: `RefsResolve` is why a built-in plugin never takes
`CaseGraph`'s branch for an unknown ref; another plugin may. Module 4 stands
apart: a user's id is all that cases and runs know of an account.

Every invariant and every safety property that a passing run checks is now also
a theorem. What remains open is the liveness of `LifecycleKept`, which stays with
TLC.

## 3. PluginRun

One step is what happens up to a commit, or up to an await after which another
process may have changed the row. `pc` says where each request (named by the run
it creates) and each worker slot is.

| State | Code |
|---|---|
| `row` | `PluginRun` columns status, finished_at, error_message, the three counts |
| `results` | the entities, relationships and evidence of a run that are committed |
| `stale` | started_at is older than the sweeper's threshold (it is set at INSERT) |
| `job`, `lease`, `tries` | arq's job, its in-progress key and its try counter |
| `pc`, `on` | program counters; the run a worker works on |
| `executions` | history variable: how often the runner began to execute the run |

| Action | Code |
|---|---|
| `DispatchAsync`, `Enqueue`, `EnqueueFails`, `RefuseRun`, `DispatchSync` | `plugins/router.py`, the POST handler; `queue/enqueue.py` |
| `LeaseExpires`, `Deliver`, `DropJob` | arq (external), as configured in `queue/arq_settings.py` |
| `ReadRun`, `MarkMissing`, `FlipToRunning` | `queue/tasks.py` |
| `Validate`, `Query`, `Persist`, `Finish`, `FinishFails`, `RecordFailure` | `plugins/runner.py` |
| `Crash`, `Timeout`, `SessionLost` | a process dies; `job_timeout` cancels a task; a statement fails and the session is lost |
| `Age`, `SweepStuckRuns` | time; `plugins/sweeper.py` |

`RecordFailure` from `dirty` is the runner's except branch committing what
`_persist` had flushed; whether `_persist` leaves such rows is resolved in
`CaseGraph`, here it is a choice. `Faults` names the faults an instance allows,
`Exposed` the runs that they may hit (`Hits`).
"stalled_lease" is the lapse of arq's in-progress key under a worker that is
still alive (an event loop blocked or a Redis outage); without it only the key of
a dead worker lapses. "queue_down" is an enqueue that fails, "lost_reply" one that
only seems to.

`RunLifecycle` is the abstract specification of the row, in the words of
`plugins/models.py:16-17` and `docs/plugins.md:47-50`: it appears queued or
running, goes from queued to running and from there to succeeded or failed with
finished_at, and then moves no more. `MovesKept` is its safety part (`Moves`) under
the mapping that keeps status and finished_at; `LifecycleKept` is all of it,
liveness included, of the runs that no fault hits and that their plugin accepts
(`Undisturbed`).

The code writes the row by id without looking at it again, so `MovesKept` rests
on `InPlace`: where a process is about to write, the row still reads what the
process read or wrote before, because nobody else is at work on the run. Both
survive dead processes, timeouts, failing commits and redelivery, in any
combination. A sweeper, a lease that lapses under a live worker and an enqueue
whose reply is lost each put a second writer on the row, and with any of them
TLC finds `InPlace` and `MovesKept` violated. A queue that does not take the job and
an input entity that was hard-deleted leave `InPlace` alone, but end the row
outside the documented lifecycle: failed straight from queued, without
finished_at (`run_refused`, section 8).

That a run ends is claimed for undisturbed runs only. A worker that dies for the last
time, a timeout, a commit that fails, a crash between insert and enqueue, and a
refused entity type each leave a row open, and as deployed nothing ends it:
`sweep_stuck_runs` has no caller in the repository (no cron job in
`queue/arq_settings.py`, no task in `main.py`'s lifespan). `SweeperWired` stands for a
deployment that adds one; no fairness is assumed of it.

### Runs

| Run | Shows | Instance |
|---|---|---|
| `run_safety` | `TypeOK`, `SucceededIsBacked`, `QueuedIsUntouched`, `SettledStays`, whatever fails | 2 runs (one refused by its plugin), 2 workers, 2 tries, a sweeper, every fault on both |
| `run_lifecycle` | `AtMostOnce`, `InPlace`, `MovesKept`, and `LifecycleKept` of the run that nothing disturbs | 3 runs: one on which processes die, time out and lose their sessions, one refused by its plugin, one undisturbed; 2 workers, 3 tries, no sweeper |
| `run_refused` | violation of `MovesKept` | 1 run; the queue is down |
| `run_twice` | violation of `AtMostOnce` | 1 run; a lease lapses under a live worker |
| `run_rejected` | violation of `FinishedJobIsTerminal` | 1 run, refused by its plugin; no fault |
| `run_swept` | violation of `TerminalIsFinal` | 1 run that waited in the queue, the sweeper; no fault |

Bounds. Two workers are needed to work on one run at once, and a third adds no
new kind of overlap, since a worker only reads and writes the row. Runs share
nothing but workers; the others are there so that a worker is busy with another
run, and so that accepted, refused and disturbed runs mix. Two tries are the
first value at which a job is redelivered, three at which it is redelivered
twice; arq's default is 5. Each run is dispatched once, so the system stops when
all are over: deadlock is not checked. The workers are symmetric in `run_safety`;
`run_lifecycle` checks liveness and uses no symmetry.

Fairness. `DeployedSpec` assumes that a live handler, task or runner goes on (each
await has a timeout: HTTP clients, `job_timeout`, the database driver) and that an
idle worker takes a stored job, as arq's poll loop does. Nobody has to send a
request, and nothing is assumed of the sweeper.

## 4. CaseGraph

One step is one SQL or Cypher statement, one upload, or one commit. `db` is what
is committed, `draft` the version its lock holder has written and `owner` the
lock on a row (PostgreSQL takes it at the first write and keeps it until the
transaction ends). A statement sees the committed state plus its own writes. A
session's identity map (`mem`) holds the entity as first loaded; SQLAlchemy does
not refresh it, which is where the stale writes come from. A step that needs a
row locked by another transaction is not enabled: it waits.

| Action | Code |
|---|---|
| `RequestCreate` ... `RequestUpload` | the first statement of the handlers of `entities/router.py`, `relationships/router.py`, `evidence/router.py` with the repositories' lookups |
| `InsertEntity`, `UpdateEntity`, `UpsertVertex`, `DeleteEntity`, `DeleteVertex` | `entities/repository.py` and its mirror in `graph/age.py` |
| `InsertRel`, `UpsertEdge`, `DeleteRel`, `DeleteEdge` | `relationships/repository.py` |
| `CreateEvidence`, `PutBlob` | `evidence/repository.py`, `evidence/storage.py` |
| `Commit`, `Undo`, `Abort` | `session.commit`; the repositories' except branches; a failed statement outside them, a deadlock victim, or a dead process |
| `StartRun`, `GetOrCreate`, `CreateIfNotExists`, `ProposeEvidence`, `Raise` | `PluginRunner._persist`, `_resolve_ref` and the except branch of `_execute_plugin` |

Abstractions. A label stands for an entity's (type, label) pair, by which
`get_or_create` looks it up; attrs behave as confidence does and are left out; a
case is fixed, since no row ever moves to another one. Two ends of a
relationship stand for the ends and its type. A plugin's answer is a sequence of
`Proposal`s (`ResultsOK`); the confidence 0 is one that a plugin may propose and
that never raises a stored one. A blob is its payload: its key is
the payload's hash, so uploads never overwrite. Ids are never reused.
PostgreSQL's deadlock detector is `Abort` of one of the two.

`CaseLedger` is the abstract specification of the rows, as the docstrings of
`entities/`, `relationships/` and `evidence/` promise them: what a request or a
run does takes effect at once (`Add`, `Delete`, `Unlink`), a relationship joins
entities of the case and is immutable, nothing deleted comes back, evidence is
append-only. `LedgerKept` is its specification under the mapping that keeps of
an entity only its state. It holds although single statements interleave and a
failed run may commit half of its results (`graph_partial`): half of a run is
still an `Add`. It breaks when an update writes back the whole row it loaded, or
when a failed mirror write leaves its flush to the next commit.

### Runs

| Run | Shows | Instance |
|---|---|---|
| `graph_safety` | `TypeOK`, `LiveIsMirrored`, `LinkHasEdge`, `EdgeIsLive`, `EvidenceHasBlob`, `LedgerKept` | 2 request handlers, 1 runner, 5 sessions, 2 ids, 1 relationship, 2 labels, 2 confidences, every fault |
| `graph_mirror` | violation of `MirrorInSync` | 2 requests on one entity, no fault |
| `graph_partial` | violation of `AllOrNothing` | a run whose plugin refers to an entity it never proposed, no fault |

Bounds. Five sessions are two to create the entities, one to link them and two
that overlap on them, or a run among those; two ids are the ends of a
relationship, and one confidence higher than the other makes `get_or_create`
update. The plugin's answers (`MCResults`) hold the three kinds of proposal and
a ref that does not resolve; the input entity has label a or b, so the proposed
label is met as the input, as another entity, or not at all. Requests and ids
are symmetric. Sessions are bounded, so the system stops: deadlock is not
checked.

## 5. Proposals and PluginQuery

`Proposals` has one operator per plugin, from an upstream answer to the proposals
(`CrtSh`, `VirusTotalDomain`, `VirusTotalIp`, `Shodan`, `DnsWhois`, `Wayback`,
`GithubPublic`, `OpenCorporates`; the others return evidence alone), written as
folds over the items of the answer, since the order of items decides who falls
to the cap. A loop that skips what it cannot use is `Keep`, which leaves the numbers
of the items alone, as enumerate does. `ExtractSnapshots` collapses the rows by
URL (`CollapseRows`) and then sorts as list.sort does, which is stable: `Rank` is
the place that the sort gives to an item. `Bodies` says which shape of answer
each plugin's `_fetch` hands over, and `QueriesOK` that all answers have it.
`PluginQuery` is one query: `SkipQuery` (the label is not of the
plugin's form), `Request` (tenacity's next attempt, with any answer), `Return`
and `Raise` (what `_fetch` and `query` let through), `CountProposals` (the cap in
`PluginRunner._execute_plugin`). Plugins differ in a few operators only:
`Retryable`, `NotFound`, `Swallows`, `Trusting`.

Abstractions. A name is whatever a filter accepts, `Junk` what it rejects; names
in `TooLong` exceed the length of a label, which a hostname filter excludes and
`EntityProposal` refuses, failing the query. The refs of `crtsh` follow the sorted
names in the code and the order of discovery here. stop_after_delay may end the
retries after any attempt, for every plugin but `github_public`.

| Run | Shows | Instance |
|---|---|---|
| `query_safety` | `TypeOK`, `RefsResolve`, `LossIsMarked`, `FailureIsVisible`, `SnapshotsAreRanges`, `CapSpansLoops` | all plugins; 4 names, one too long; answers of up to 3 items (crtsh 4) in every order with repetitions; every failure, 3 attempts |
| `query_excess` | violation of `ExcessIsMarked` | crtsh at its cap |

Bounds. The caps are 2 (3 for crtsh) for 50, 500 and 1000, one less than the
longest answer, so that answers stay below, reach and exceed them; the runner's
cap is 6, which is twice crtsh's as in the code. The comparison of a loop with its
cap does not depend on how large the cap is. `LossIsMarked` compares a plugin's
proposals with `Named`, the set of what the answer names, written without loops
or caps. `dns_whois` and `github_public` have no cap of their own: their long
answers end at the runner's, as an error.

## 6. Accounts and RateLimit

Replicas of the application share one database and one store of windows. One
step is one SELECT with the checks on what it found, or one flush with its
commit: every operation that looks a row up and writes it later does so in two
steps, between which other replicas commit. `pc` and `job` say where each
replica is and what its operation knows.

| State | Code |
|---|---|
| `users` | the table: address, `oidc_sub`, `is_verified`, the hash (counted by assignment) and whether somebody knows the password |
| `sessions`, `vault` | access tokens; the `(user, plugin)` rows of one plugin |
| `mail` | reset and verification tokens that were mailed; a reset token carries a fingerprint of the hash, as in fastapi-users |
| `flows` | per OIDC login: the claim the provider gave a code for, and whether the code was exchanged |
| `hits`, `tried` | the windows; history: which accounts the admitted requests reached |
| `opened`, `proved` | history: SSO sessions; mailboxes somebody was shown to own |

| Action | Code |
|---|---|
| `BootstrapAdmin`, `Crash` | `main.py` lifespan, `auth/bootstrap.py`; a replica dies and is started again |
| `Register`, `CheckEmail`, `InsertUser` | `auth/register.py`, `UserManager.create` (also of the bootstrap) |
| `Login`, `WriteToken` | `auth/login.py`, the access token's own commit (also of the callback) |
| `ForgotPassword`, `ResetPassword`, `SetPassword` | `auth/forgot_password.py`, `auth/reset_password.py` |
| `RequestVerify`, `Verify`, `SetVerified` | `auth/verify.py`; the verify route is fastapi-users' |
| `OidcLogin`, `OidcCallback` | `auth/oidc.py`, `oidc_state.py`, `oidc_id_token.py`, and the visit to the provider |
| `FindBySub`, `FindByEmail`, `LinkAccount`, `ProvisionAccount` | the policies of `auth/oidc_provision.py` |
| `StoreCredential`, `AddKey`, `DeleteCredential` | `credentials/repository.py` |
| `TooManyRequests`, and `PassIp`, `PassBoth`, `RefusedByKey` of `RateLimit` | the decorators and the handlers' own limits, `auth/rate_limit.py` |
| `WindowPasses` | the expiry of hits |

A callback takes the state of one login and the code of another or the same one:
`NonceMatches` is the check that tells them apart. The claim of a login names a
subject, an address in some spelling, and whether the provider vouches for it.
The provider's subjects have one mailbox each; a mailbox may have belonged to
several subjects.

Abstractions. Addresses are spellings; `Mailbox` is the lower-case form the
lookups compare, `Normal` what EmailStr stores. `AdminEmail` is any spelling, or
`NoEmail` where the address or the password is not set. Signature, issuer,
audience and lifetime of a token are the choice between a valid token and none,
since a refused request changes nothing but its window. PKCE is the provider's
check; the model lets the exchange succeed and leaves the refusal to the nonce.
Hits expire all together, where the code has fixed and moving windows. With
`memory://` each process has windows of its own; the model has the shared store.
Every replica serves one request at a time; more requests at once are more
replicas.

| Run | Shows | Instance |
|---|---|---|
| `accounts_safety` | `TypeOK`, `SubjectIsStable`, `LoginIsOwn`, `VerifiedWasProved`, `NothingUndone`, `AdminFirst`, `AttemptsBounded` | 2 replicas, 3 requests and crashes, 2 OIDC logins, 4 spellings of 2 mailboxes, 5 claims of 3 subjects, 3 ways to arrive |

Bounds. Two replicas overlap any two operations; three requests are two that
race and one that prepares or follows (a registration before a link and a
reset, a mailed token before its use), and start-up and the visits to the
provider are not counted. Two logins are the least that can be mixed. The
claims hold one subject with both spellings, vouched or not, and two subjects
that had the admin's mailbox. The limits are 2 per address and 1 per key, so
both layers refuse. The arrivals are a request through the edge that names the
client, one through a proxy that appends to the header it was sent, and one that
comes past both with a forged CF-Connecting-IP. The admin's address is in stored
form, so that restarts succeed and serve; the theorems hold for every spelling,
and for none. Replicas and logins are symmetric; requests are bounded, so
deadlock is not checked. No fairness is assumed: nothing here has to happen.

`AdminFirst` says that the admin's row comes first and stays. That a restart finds
it does not follow, and does not hold for every spelling (section 8).

`AttemptsBounded` is what `rate_limit.py:169-171` promises of one account and many
addresses. It is about the window of the account; a window of an address is only
as good as the header it is taken from, which `README.md:233-239` says itself, so
no property speaks of it.

The vault has no property of its own: at most one row for a user and a plugin is
the unique constraint, which the model takes as given. Its steps are there because
they interleave with the others, and the loser of two first uploads raises.

`SubjectIsStable` speaks of subjects that share their mailbox with no other.
Without that restriction it fails: of two subjects that both had a mailbox, the
callbacks of both may read the unlinked row and link it in turn (section 8).

## 7. What is proved

In `PluginRunProofs`, for any sets of runs and workers, any bound on tries and
any set of faults on any runs, from `ConstantsOK` (runs and workers are disjoint,
`NoRun` is no run, the try bound is a natural number, faults are known ones):

* `TypeCorrect`: `Spec => []TypeOK`.
* `SuccessBacked`: `Spec => []SucceededIsBacked`. Alone the property is not
  inductive: `Finish` writes "succeeded" in a later step than the commit of the
  results. The invariant adds `FinishIsBacked` (a process that stands before
  `Finish` has its results committed); the step `Finish` uses it, `Persist`
  establishes it, and no action takes results away.
* `QueuedUntouched`: `Spec => []QueuedIsUntouched`. The strengthening is
  `JobHasRow`: before a row exists there is neither a job nor a worker on the
  run, which is what makes the insert of a row safe. Two lemmas, `JobHasRowStep`
  and `QueuedStep`, hold the two step proofs, one step per action.

* `SettledIsForGood`: `Spec => SettledStays`, by the same `JobHasRow` (nobody
  dispatches a run whose row exists) and one step per action: a process that
  acts on a settled run stands before its read, and the early return of the task
  and the sweeper's WHERE clause do the rest.
* `ExecutedOnce`: `Spec => []AtMostOnce` for every set of faults without
  "stalled_lease". The invariant adds `LeaseExcludes`: the job of a working
  worker is stored and leased, no other worker has it, and before the runner is
  called nothing was executed. What makes the task run once is the lease: the
  read of the status has no lock, and `run_twice` shows that the property fails
  as soon as a lease may lapse under a live worker.

In `AccountsProofs`, for any replicas, spellings, claims, logins and limits and
any number of requests, from `ConstantsOK` (the provider's subjects keep their
mailbox, the admin's address is a spelling or unset, the "no" values are none)
and `LimitsOK`:

* `TypesHold`: `Spec => []TypeOK`, from `Shape`: the types, and `JobFits`, which
  says what an operation knows where it stands (a callback before its lookups
  has a claim and a login, a write has a row that exists, a bootstrap has the
  admin's address). `JobsFit` has one step per action.
* `NothingIsUndone`: `Spec => NothingUndone`. `RowsKept` takes the five writes of
  the table one by one; each is described once, by a lemma (`InsertUserRow` to
  `ProvisionAccountRow`) that the later proofs share.
* `AdminComesFirst`: `Spec => []AdminFirst`, for an admin's address in any spelling,
  from `Shape` and the permanence of addresses: before the first row every replica
  is down or bootstrapping, and a bootstrap inserts the stored form of the address
  (`ForAdmin`).
* `VerifiedIsProved`: `Spec => []VerifiedWasProved`. The invariant adds
  `VouchedIsProved` (the provider's word about a login was recorded) and
  `Knows` (an operation that will verify an address has seen it proved): the
  write comes steps after the check, and stays right because rows keep their
  addresses and proofs are not forgotten.
* `LoginsAreOwn`: `Spec => []LoginIsOwn`. The invariant adds that a replica whose
  operation serves a login is the only one that does and that the code of the
  login is spent (`Owns`), so no later callback gets hold of it.
* `SubjectsAreStable`: `Spec => []SubjectIsStable`. The invariant adds
  `UniqueSubs`, that a linked row is one of a mailbox of its subject (`Claimed`),
  and what a callback has found (`Resolved`). The step that matters is
  `LinkAccount`: it may overwrite a subject that was linked since its lookup, but
  only by another one with the same mailbox.

In `RunLifecycleProofs`, which builds on `PluginRunProofs`, under `Deployed`: no
sweeper, and neither "stalled_lease" nor "lost_reply" among the faults. This is
how the code is deployed (`queue/arq_settings.py` schedules no sweeper), with a
queue and leases that can be relied on; any other faults may occur.

* `NobodyOvertakes`: `Spec => []InPlace`. The invariant `MovesInv` adds to the
  earlier ones that a request still at work has stored no job (`RequestFirst`),
  that a run which is not terminal has no finished_at (`OpenIsUnfinished`), and
  `AllPlaced`, the relation of program counters and status. That at most one
  process is at work on a run (`Alone`) follows from `RequestFirst` and from
  `LeaseExcludes`.
* `RowKeepsItsMoves`: `Spec => MovesKept`, the refinement without its fairness:
  each step of `PluginRun` is a step of `RunLifecycle` or leaves the row as its
  readers see it. It needs `NothingRefused` as well, neither "queue_down" nor
  "hard_delete" among the faults: with them nobody is overtaken either, but
  `RefuseRun` and `MarkMissing` are no documented moves (`StepKept` has them apart).

In `CaseGraphProofs`, `CaseGraphMirrorProofs` and `CaseLedgerProofs`, for any
requests, runners, ids, labels, confidences, payloads and results, any number of
sessions and any faults, from `ConstantsOK` and `ResultsOK`. What each step does to
the tables, the versions and the locks is described once, by a lemma for each
action (`InsertEntityDoes` to `CreateEvidenceDoes`, and `Commits`, `RollsBack`,
`Reading`), and all later proofs use those.

* `TypesKept`: `Spec => []TypeOK`, from `Shape`: what a process knows where it
  stands (`DataFits`) is what it will write.
* `Rows` is what the rest stands on: a row that nobody holds has one version
  (`Synced`), a transaction only takes a row further (`Forward`), and a process
  writes to a row that was there when it chose it (`OnRow`).
* `EntitiesMirrored`: `Spec => []LiveIsMirrored`. The property is about what is
  committed, so the invariant says it of the versions: a live version has its
  vertex, unless its writer is just about to write it (`DraftMirrored`). Nobody
  commits from there.
* `UnlinkedMirrored`: `Spec => []EdgeIsLive`, in the same way (`DraftEdgeLive`).
* `LinksMirrored`: `Spec => []LinkHasEdge`. The MATCH before the MERGE finds
  nothing if an end has no vertex, so the proof needs that ends exist as their
  writer sees them (`EndsExist`) and that an edge is missing only next to an end
  that is deleted, which it remains (`Linked`, `DbLinked`).
* `EvidenceStored`: `Spec => []EvidenceHasBlob`. The invariant adds that a flushed
  row has its blob (`UploadedFirst`), which is what makes the commit in the
  runner's except branch harmless.
* `LedgerImplemented`: `Spec => LedgerKept`. A commit has to be one step of the
  ledger, so the invariant adds `OneKind`: a transaction has only added, or it has
  deleted one row and done nothing else.

In `RateLimitProofs`:

* `AttemptsStayBounded`: `Spec => []AttemptsBounded`, for any limits, arrivals and
  spellings. The invariant `Bounded` says that what was tried on an account is no
  more than the window of its mailbox holds (`Covered`). A request adds to both;
  hits from addresses only add to windows, also if an address should collide with
  a key; an account that appears later has not been tried; and rows keep their
  address, so the window stays the right one. That hits of a key are numbered
  makes a new one new (`AddCounts`).

In `PluginQueryProofs`, for answers of any length, any names and any caps, from
`CapsOK` and `QueriesOK`. The builders are folds. Induction theorems over an
arbitrary predicate are out of the prover's reach, so the induction is done over
sets of numbers: the set of steps at which a fact fails would have a least
element (`LeastNumber`, from `WFMin`). `FoldExists` and `FoldRuns` unfold a fold into
the sequence of its accumulators; from there each loop has one lemma
(`KeepSound`, `CollapseSound`, `SortSound` and those on `Loop`) and each plugin one
(`CrtShSound` to `WaybackSound`), joined in `QuerySound`. The state machine adds
`QueryInv`: the result is the one of the last answer, and there is none as long as
requests go out.

* `QueryTyped`: `Spec => []TypeOK`.
* `RefsAreKnown`: `Spec => []RefsResolve`. Refs are distinct because a loop numbers
  by the length of what it has, across all loops of a query.
* `CapIsShared`: `Spec => []CapSpansLoops`.
* `LossShows`: `Spec => []LossIsMarked`. `Named` is written without loops or caps;
  the lemmas relate each loop to the set of what it was given.
* `FailureShowsUp`: `Spec => []FailureIsVisible`.
* `SnapshotsSpan`: `Spec => []SnapshotsAreRanges`, for rows in any order, with ties.

Only model-checked: the liveness in `LifecycleKept`, which needs fairness and
ENABLED, neither of which the prover treats (its safety part, for all runs, is
`RowKeepsItsMoves`).

## 8. Where the code and its documentation differ

Seven runs end in a counterexample, each against a sentence of the repository.

1. `run_twice`: `queue/tasks.py:63-64` calls the flip to running atomic and says
   that a concurrent call bails. The read takes no lock and the flip does not
   test the status, so two overlapping deliveries both run the plugin.
2. `run_rejected`: `docs/plugins.md:48-50` says that status moves to succeeded or
   failed. The runner validates the entity type and the license before its try
   block, after the task has committed "running": the row stays running.
3. `run_refused`: `plugins/models.py:16-17` says that the one update of the row
   carries the final status and finished_at, and `docs/plugins.md:48-50` knows no
   way from queued to failed. When the enqueue fails, the handler fails the queued
   row without finished_at (`plugins/router.py:125`); so does the task for a missing
   input entity (`queue/tasks.py:58`).
4. `run_swept`: `plugins/models.py:16-17` says that the row is updated once. A worker
   that has read "queued" when the sweeper fails the run flips the failed row back
   to running, and executes the plugin. The sweeper judges by started_at, which is
   the time of the insert: a run that waited long enough is swept as its worker
   starts.
5. `graph_mirror`: `README.md:176-177` calls the graph a mirror written in the
   same transaction. The vertex is written from the session's copy of the
   entity, which an overlapping update has made stale.
6. `graph_partial`: `plugins/runner.py:258-261` calls the persist atomic. On an
   exception that no repository rolled back, the except branch's commit of the
   audit row commits the flushed results too.
7. `query_excess`: `builtin/crtsh.py:39` says that the excess over 1000 subdomains
   is marked as truncated in evidence. 1000 entities with their relationships and
   the evidence row are 2001 proposals, and the runner refuses more than 2000: a
   run at the cap fails and persists nothing.

Differences seen while modelling, which no run is about:
`plugins/sweeper.py:3-6` describes what ends runs whose worker has crashed; nothing
calls it (section 3), so as deployed such runs stay queued or running. `builtin/hibp.py:149` and
line 22 of the file say that a 429 (or 5xx) is retried, while the retry predicate names
transport errors only, in every plugin (crtsh turns a 429 into one).
`docs/plugins.md:38-43` says that every plugin caps its entities (`dns_whois` and
`github_public` do not), that a body over 10 MiB fails the run (four plugins catch
that error) and that crt.sh's 404 is an empty result (it is an error). An answer
of `opensanctions`, `aleph_occrp` or `urlhaus` that is no JSON counts as no hits.
`dns_whois` draws RESOLVES_TO from the address to the domain, `virustotal` from
the domain to the address.

About accounts: `docs/auth-oidc.md:33` promises a conflict when a second subject
signs in with the address of a linked account; two overlapping callbacks that
both read the row while it was unlinked link it in turn, and the second wins.
`auth/bootstrap.py:21` and `README.md:135` call the bootstrap idempotent; it looks
the address up as the environment spells it, while `UserManager.create` stores
it with a lower-case domain and compares it without case: an admin address with
an upper-case domain makes every start-up after the first raise. A registration
and a provisioning of one mailbox in two spellings may both pass their lookups
and the (case-sensitive) unique index; from then on `get_by_email` raises for
both. The docstring of `auth/backend.py:3-5` has database tokens so that they can
be revoked; neither a password reset nor a link revokes any. The README's "Full
ledger dump" (line 191) ends at 100 000 rows (`evidence/export.py:70`).

## 9. What is not modelled

* Graph dump, evidence verification and export: readers that write nothing. What
  they may show is described under "hazards" in `PROJECT.json`; no sentence of
  the repository promises a consistent answer, so there is nothing to refute.
* Cases: a soft delete sets one column, which the first statement of a request
  reads and nothing else depends on.
* Under accounts: PATCH and DELETE under `/users` (fastapi-users' routes): with
  them an address could change between the lookup and the write of a
  verification or a link, which would leave the new address verified without
  proof; `VerifiedWasProved` holds for accounts that keep their address. Also
  logout, `is_active`, lifetimes of tokens and of the state, the cache of the
  provider's keys.
* The pool of `queue/enqueue.py`: one object per process behind a lock. A request
  that holds it while shutdown closes it gets an exception, which is
  `EnqueueFails`.
* Field validation, serialisation, escaping of Cypher properties, encryption,
  password hashing, logging and HTTP wiring: no state depends on them that the
  properties tell apart.
* arq, PostgreSQL, AGE, Redis and the object store are modelled by what the code
  relies on (at-least-once start, READ COMMITTED with row locks, silent MATCH,
  immutable content-addressed blobs).

## 10. Running it

    tlc -workers 2 -config PluginRunSafety.cfg MCPluginRun.tla
    tlc -workers 2 -config CaseGraphSafety.cfg MCCaseGraph.tla
    tlc -workers 2 -config PluginQuerySafety.cfg MCPluginQuery.tla
    tlc -workers 2 -config AccountsSafety.cfg MCAccounts.tla
    tlapm PluginRunProofs.tla
    tlapm RunLifecycleProofs.tla
    tlapm CaseGraphProofs.tla
    tlapm CaseGraphMirrorProofs.tla
    tlapm CaseLedgerProofs.tla
    tlapm PluginQueryProofs.tla
    tlapm AccountsProofs.tla
    tlapm RateLimitProofs.tla

The other configurations are named after the runs above; `PROJECT.json` maps
every definition to the lines it models, and names for every property a mutated
definition under which TLC finds it violated.
