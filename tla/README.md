# Verification of the carbon-capture compliance system

TLA+ modules, TLC runs and TLAPS proofs for the system in `src/`: a Go backend
(Gin, GORM, PostgreSQL, Redis) that keeps four aggregates under role checks,
status graphs, optimistic locking and an audit log, and an Angular workbench.
All source paths below are relative to `src/`.

## 1. The system

| component | state | operations | talks to |
|---|---|---|---|
| compliance decisions (`backend/internal/{handler,service,repository}/compliance_decision.go`) | tables `compliance_decisions`, `decision_revisions` | create, update, transition, delete, get, list | generic Store (delete, counts), security service (audit) |
| capture units, permit rules, emission samples (same directories, over `repository/base.go`) | one table each | the same | generic Store, security service |
| audit log (`service/security.go`, `repository/security.go`) | table `audit_logs` | append, list, summary, history of an entity | called by the four services after their writes |
| login and access (`middleware/auth.go`, `service/security.go`) | token claims; table `users` | login, authenticate, minimum role | in front of every handler |
| rate limiter (`middleware/ratelimit.go`) | Redis counters; a map of the process under a mutex | count a call, fall back, clean the map | in front of authentication |
| startup (`cmd/server/main.go`, `database/database.go`) | the connection loop, the tables it seeds | connect, migrate, seed, connect Redis, serve | PostgreSQL, Redis, the container runtime |
| read models (`repository/base.go`, `repository/security.go`, `handler/system.go`) | none | pages, overview, audit summary | the tables, several queries per answer |
| frontend store and workbench (`frontend/src/stores/factory.ts`, `components/entity-page.component.ts`) | rows shown, spinner, error, dialogs | load, create, transition; open, query, confirm, leave | the API, the session |
| frontend session (`frontend/src/hooks/use-auth.ts`, `router/index.ts`, `app.component.ts`) | session, login promise, route | authenticate, logout, guard | the API, local storage |
| configuration, DTOs, rendering, images | none of interest | | |

What is hard here:

- **Interleaving.** Every HTTP call is a goroutine; a handler is a sequence of
  database statements (read, write, audit, reload) and nothing but the
  `version` comparison of the UPDATE relates the write to the read before it.
- **Partial failure and crashes.** The audit entry is a statement after the
  transaction; the answer is read after that. Each may fail, the client may go
  away (its context cancels the next statement), the server may stop.
- **Stale decisions.** Status and role are checked on a row read earlier, and
  the version of the write comes from the client.
- **Soft deletion.** Queries do not see deleted rows, unique indexes do.
- **Starting on what an earlier start left.** Seeding is not one transaction.
- **Two counters for one limit**, and a minute that ends while a call counts.
- **Answers put together from several queries**, each a snapshot of its own, and
  pages cut by OFFSET from a list that is reordered by every change.
- **A page whose calls overlap**: answers arrive in any order, a dialog can be
  confirmed twice, its row changes under it, a token expires, a promise is shared.

What makes each component correct:

- *Decisions*: the revisions are a gapless, legal history whose last entry is the
  row; final states are a reviewer's; refused calls leave nothing behind; answers
  agree with what was stored; deleted means gone.
- *Other aggregates*: one writer per version; changes follow the graph; an answer
  shows the caller's own write; deleted means gone.
- *Audit log*: what it says is true; what was acknowledged is in it.
- *Startup*: never writes to what users own, serves only a seeded database, always
  ends, and eventually serves if it can.
- *Rate limiter*: no counter lets more than the limit through or refuses early.
- *Read models*: a walk over the pages misses of what was not touched, and repeats, no
  more than the changes made meanwhile account for; a page agrees with its total and
  carries the history of what it shows; a summary adds up.
- *Workbench and session*: what the user confirmed is what is done; what is offered is
  allowed; a page at rest shows a search asked for since it was last at rest, with what
  the tab had stored before; the spinner ends; a failed login keeps nobody out.

## 2. Modules

| module | models | state and actions |
|---|---|---|
| `Policy` | `constants/status.go`, role ladder of `middleware/auth.go` | constant operators |
| `ComplianceDecision` | handler, service and repository of decisions | `rows`, `revisions`, `audits` are the tables; `pc`, `input`, `snapshot` are the locals of the handler goroutines; `reply` is what the clients were told. One action per outcome of a statement: `Arrive`/`Forbid`/`RefuseCreate`, `ReadMissing`/`ReadRefused`/`Read`, `Create`/`CreateTaken`, `UpdateWithRevision`/`VersionConflict`, `Delete`/`DeleteMissing`, `Audit`/`AuditSkipped`, `LoadMissing`/`LoadRow`/`LoadRevisions`; `Fail` and `Crash` at every point |
| `DecisionLedger` | nothing in the code: what the service promises | an append-only log per decision |
| `Aggregate` | the three other services over the generic Store | as above without revisions; `kind` says which of the three; `writes` is a history variable used by properties only |
| `Startup` | `main`, `Open`, `Seed`, restart policy | `phase` of the process, `tables` with absent, live and deleted rows; kills and outages from outside |
| `RateLimiter` | `middleware/ratelimit.go` | `shared` is Redis, `local` the map; one action per way a count can end; `Tick` is the clock |
| `Session` | `hooks/use-auth.ts`, the route guard, the shell, token expiry | `token` is the stored session with what the server thinks of it, `login` the shared promise and how far its request is, `waiting` the loading signal, `route` the guard |
| `Workbench` | `stores/factory.ts`, `components/entity-page.component.ts`, against the rules of the services; extends `Session` | `store` and `page` are what the tab shows, `calls` the requests under way with their answers, `rows` and `deleted` the table; `asked`, `promised`, `acked` are history: the searches asked for since the page was last at rest, what the tab knew to be stored when the first of them was sent, and what it knows now. The user opens, queries, opens and closes dialogs, confirms, leaves, logs out; the server serves or refuses; answers arrive in any order; others change, create and delete rows |
| `ReadModels` | pages of decisions and of the audit log, the audit summary | one client reads, one query per step, while `rows` and `log` move; `answer` is the answer so far, `seen` what the pages have shown; `owed`, `lost` are history |
| `MC*` | instances for TLC | sets and symmetry only |
| `ComplianceDecision_proofs`, `DecisionAnswers_proofs`, `DecisionRefinement_proofs` | theorems about `ComplianceDecision`: tables and histories; answers and audit log; the refinement of `DecisionLedger` | |
| `Aggregate_proofs`, `RateLimiter_proofs`, `Startup_proofs`, `Workbench_proofs`, `ReadModels_proofs` | theorems about the module of that name | |

`Workbench` composes the browser's half (`Session`, the store, the page) with a
service that is abstracted to one step per call: the check of role and graph, the
version comparison and the write. That a call of the service may be taken for one
step is what `SnapshotFresh` and `LegalChange` say of clients that name versions
they have seen, and the workbench is such a client. `ReadModels` takes from the
writers only what they do to the lists: a new row, a new version with a new stamp,
a deletion, a new entry. A load of the workbench is one page (`pageSize=20`, `PageSize`
in the model) of the rows that match. Which rows come first depends on the times of
their last changes, which the workbench never looks at, so that `FirstPages` lets them
be any.

Conventions. A statement or a transaction is one atomic step: PostgreSQL's
conditional UPDATE takes the row lock and compares the version on the newest
row, and the revision is inserted in the same transaction. A row is named by its
code, since ids are not reused and the unique index on codes covers deleted
rows. A request is used once and stands for its request id. Business fields are
one payload; `Blank` stands for fields `validate...BusinessFields` refuses. A
committed write whose answer is lost is a disjunct of the write (`Committed`,
`Written`); for the audit insert it is the error outcome of a delete in `Audit`,
and for a transition an insert followed by `Fail` at the reload.

Definitions marked *Slip* are mistakes this code could have made. No
specification uses them; each can take the place of the definition it precedes,
and then a property named in `PROJECT.json` fails. They document what each
property depends on.

`Lookahead` bounds the versions a client may name: 1 up to the stored version
plus `Lookahead`. With 0, clients name versions they can have seen, which is
what the frontend does (`stores/factory.ts:9` sends the version of the row it
shows). With 1, a client also names the version its own unanswered call is about
to write, which the API does not forbid.

## 3. Runs

| run | instance | what it shows |
|---|---|---|
| `DecisionFaults` | 1 decision, 2 calls, 4 roles, 2 payloads, Lookahead 1 | types; history matches row; final states by reviewers; consistent answers; refused calls leave no trace; acknowledged moves and deletes are audited; deleted decisions are frozen |
| `DecisionStale` | 1 decision, 3 calls of an administrator, Lookahead 0 | a winning call holds a fresh copy; histories are legal; the audit log tells the truth |
| `DecisionLive` | 1 decision, 2 calls, 4 roles, 1 payload, Lookahead 0, fair | every behaviour of the service is one of `DecisionLedger`; every call is answered; a committed move is audited or reported |
| `AggregateLocking` | 3 kinds, 1 row, 3 calls, 2 payloads | optimistic locking, legal changes, answers, audit, deletion |
| `StartupRecovers` | 2 tables, 2 seed rows each, 2 attempts, 2 kills, fair | starts cut short never harm the next one, and one gets to serve |
| `RateLimiterFallback` | 3 calls, 3 keys, limit 1, threshold 2, 4 minutes, 1 restart | bounds per counter, no early refusal, the map is cleaned |
| `WorkbenchSession` | an operator and a reviewer on decisions in review, a viewer on units; 2 calls at once, 2 asks, 2 rows, pages of 1, 1 change by others, fair | types; the spinner ends; offered moves are welcome; a page at rest shows what was stored before it asked; a confirmed move is exact; the guard opens |
| `ReadModelsMoving` | 3 ids, 3 kinds of events, page sizes 0, 2 and 3 with a maximum of 2, 2 changes | walks are exact up to the changes; pages keep the promise of their total; pages show their history; summaries add up |
| `DecisionSkipsReview` | as `DecisionFaults`, `LegalHistory` | **fails**: see findings |
| `DecisionDeleteRace` | 1 decision, 2 calls | **fails**: see findings |
| `DecisionUnaudited` | 1 decision, 1 call, fair | **fails**: see findings |
| `StartupCrashLoop` | as `StartupRecovers` | **fails**: see findings |

Bounds. Rows do not interact except through the audit log, so one code is
enough; every hazard of the services is a race of two calls on one row (reader,
then a writer in between), and the third call of `DecisionStale` and
`AggregateLocking` lets a row go through two changes under a reader's feet.
Four roles are needed only where roles are told apart; `DecisionStale` uses the
role that may do everything. Two payloads tell an edit from no edit. Two tables are enough for a kill between two
seedings; two attempts for a first and a last turn of the loop. `MaxKills`
bounds kills, since infinitely many would excuse anything; outages are not
bounded. In `RateLimiter`, a limit of 1 with three calls passes it, three keys
pass a cleaning threshold of two, and four minutes let a Redis key (two minutes)
expire under a later call. `Tick` keeps a Redis pipeline from being under way
beyond the minute after the one in its key, which is what the time limits of the
Redis client amount to.

In `Workbench` two calls at once are what overlapping needs, and two asks beyond
the load of a page that opens make a change race a query, a second confirmation
race the first, and a page that was left race the next one. `x` is a row others
change or delete, `y` one that a create makes, theirs or the user's; the narrow search finds `x` alone.
A page of one row is full with either, so that a list that leaves a row out is reached.
`MaxOthers` bounds what others do and not what the user does. TLC meets
final states with an operator and a reviewer only, and other kinds with a viewer only;
`MovesWelcomeCorrect` is about every role and kind. `MaxOutages` bounds
failed logins. A token expires between calls only (`IdleExpire`): for a call under
way expiry is one more reason for `Refuse`, which may happen to any call. `role` is
any role: the shipped `api/auth.ts` logs in as the administrator, `login` takes the
account as a parameter.

In `ReadModels` three ids and two changes move a row across the border between two
pages, bring a row in on one side and take one out on the other. The asked sizes
are one too small, one allowed and one too large, because the handler and the
repository normalise them differently and the log's handler tells the client its
own. The client stops at a page that is not full; one that stopped at `total` could
miss rows added meanwhile. A stamp may be older than the clock by `Delay`, since it is taken
before the statement that stores it, and older than the one it replaces: the UPDATE
compares the version and not the time, and a call that names the next version of a row
(finding 1) takes its time before that version exists. Such a row falls back on the list.
Rows that leave the list or fall back on it do make a client miss others, and those that
leave make a page fall short of its total: `WalkExactUpToChanges` and `PageKeepsItsPromise` say by how many, with these
numbers in `lost` (departures and fall-backs since the reading began, departures since
the page was counted). Two
changes among three rows make a walk miss one or repeat one and a page two short; that
the bounds hold for more is proved. Entries of the log that share their
time with others are exempt from the bounds (`Distinct`), for the database may sort them
differently for every page; the other entries of such a log are not.

Symmetry of requests, payloads and keys is used in runs without liveness. Runs
end when every request is used (`Finished` loops there).

Fairness. `ComplianceDecision!FairSpec`: weak fairness of each handler's own
steps, since the Go scheduler runs every goroutine and a statement returns;
nothing is assumed of arrivals, failures and crashes. `Startup!FairSpec`: weak
fairness of the process and of the container runtime (`restart:
unless-stopped`); nothing is assumed of the database, Redis or kills, and
liveness of serving is conditional on both services staying up.
`Workbench!FairSpec`: weak fairness of what a browser runs when it is ready (a page
that opens, an answer that has arrived, the steps of a login and of the guard) and
of a call being answered or failing, which the server's time limits or the browser
bring about; nothing is assumed of the users, of others or of logins succeeding
beyond the bound `MaxOutages`.
`Deadline` (the startup context) can strike in a wait, or later in a start
that had to wait; a start that never waited is taken to be fast enough.

## 4. Findings

1. **Review can be skipped by a pipelining client** (`DecisionSkipsReview`). The
   service checks the status it has read but never compares the version of that
   row with `expectedVersion` (`service/compliance_decision.go:112`).
   Two calls suffice. The trace TLC finds first starts from a seeded draft: one call
   edits it, the other, a move to review that has read the row before the edit and names
   the version the edit writes, is stored after it, and the decision goes into review with
   the evidence from before the edit. The same gap lets the state machine be passed:
   with a decision in review, one call moves it back to draft and the other, which has
   read it in review, accepts it, so that the history goes from draft to accepted.
   With clients that name versions they have seen this cannot happen, and that is
   proved (`LegalHistoryCorrect`).
2. **A decision under review can be deleted** (`DecisionDeleteRace`): the delete
   is by id alone, after a check on an earlier read (`:132`).
3. **A committed move may be missing in the audit log** (`DecisionUnaudited`), while
   the README promises that every change of state is in it. The entry is a statement
   after the transaction (`:118`); TLC stops the server between the two, and a failed
   insert has the same effect except that the client is told (`CommittedMoveAudited`).
   Nothing adds the entry later. For creates and edits the code ignores a failed insert
   (`:61`, `:93`); the README does not speak of them.
4. **A restart loop** (`StartupCrashLoop`): when every row of a table has been
   deleted, seeding tries to insert codes that still exist (`database.go:130`).

## 5. Proofs

All theorems hold for every value of the constants that satisfies the named
assumptions of the modules: no bound on requests, codes, users, rows, keys, calls or
versions. The assumptions beyond types: `Blank` is not a payload and `System` not a
request (`BlankAssumption`, `PayloadAssumption`, `SystemAssumption`), the tables are
seeded in an order that names each of them (`OrderAssumption`), a start of the
workbench has a status of its kind (`StartsAssumption`).

**`ComplianceDecision_proofs`**

- `TypeCorrect`. `TypeOK` is not inductive: a stored revision has valid fields
  only because the handler validated them when it read. `TInv` adds `HandlerOK`:
  what a handler in flight holds (a call of the right shape, validated fields, a
  copy of a created row).
- `HistoryCorrect`. `HistoryMatchesRow` is inductive given `TInv`: only `Create`
  and `UpdateWithRevision` touch revisions, and both store the row one version
  above the stored one (`CreateStores`, `UpdateStores`, `StoreHistory`).
- `FinalStateCorrect`. Strengthened by `DecidedOnSnapshot`: a handler about to
  write has passed the checks on the copy it holds.
- `SnapshotFreshCorrect`, `LegalHistoryCorrect` (under `Lookahead = 0`). The
  invariant is `Fresh`: the version a call names is at most the version it reads,
  which is at most the stored one, and equal versions mean an equal row. It turns
  the version comparison of the UPDATE into the fact that the check still holds;
  with the history invariant it gives legality of every step. The findings show
  that the assumption cannot be dropped.
- `DeletedFrozenCorrect`, an action property, from the same invariants and
  `DeletedExisted` (a deleted row had been created, so no create can take it).

**`DecisionAnswers_proofs`**

- `ReplyConsistentCorrect`, `RefusedLeavesNoTraceCorrect`,
  `AckedChangeAuditedCorrect`. The invariant `TraceOK` follows a call from its write
  to its answer: a revision with its request id means the call is past its write or
  answered (`RevisionOK`), an audit entry means there is something to audit
  (`EntryOK`), and what the handler is going to answer, or has answered, covers
  what it wrote (`AnswerOK`).
- `AuditTruthCorrect` (under `Lookahead = 0`). The entry is written from the copy
  the handler holds; `Fresh` makes this copy the revision before its own, which
  `ToldWhatWasDone` carries from the write to the audit insert.

**`DecisionRefinement_proofs`**

- `LedgerImplemented` (under `Lookahead = 0`): `Spec => ImplementsLedger`. The
  revisions of a decision, put in order, are a log of the ledger (`LogShape`);
  creating and updating append to it, deleting closes it, every other step
  stutters. `RInv` collects the invariants above and `Admitted` (a call about to
  write was admitted by the role check).

**`Aggregate_proofs`**

- `TypeCorrect`, from `TInv` as above.
- `OneWriterCorrect`. There is no history in the tables, so the invariant
  (`WritesOK`) is about the writes made: those of a row have different versions, none
  above the stored one, and as many as the stored version (one less for a seeded row).
- `DeletedFrozenCorrect`, `LegalChangeCorrect` (the latter under `Lookahead = 0`, by
  `Fresh` as for the decisions).
- `ReplyShowsOwnWriteCorrect`, `AckedChangeAuditedCorrect`, from `AnswersOK`: a
  write is shown by whatever its call answers, now or later (`Shown`), and success is
  promised only behind an audit entry (`Honest`).

**`RateLimiter_proofs`**

- `PassedBoundedCorrect`. The counts one counter hands out in a minute are different
  and at most its value (`CountersOK`); those that pass are at most the limit, hence
  no more calls than that. Counters only grow while they live (`Growing`), and one
  that was dropped or expired belongs to a minute that is over.
- `RefusedOnlyOverLimitCorrect`. The converse: every count up to a value of the map was
  given to some call (`CoverOK`), so that a refusal has more than the limit of them.
- `StaleBucketsBoundedCorrect`, an action property of the cleaning step.

**`Startup_proofs`**

- `SeedsConnectedCorrect` is inductive with the type of the flags.
- `SeedsOnlyEmptyTablesCorrect`. The seeding looks at live rows only, and the unique
  index at the codes it inserts; that a table both let it write to never had a row is an
  invariant (`SeedRowsFirst`): a table has no row at all or every demonstration code,
  because nobody but the seeding writes to a table before it has them.
- `ServesSeededCorrect`. `Passed`: the users are there once their phase is over, and
  every table before `seeding` has a live row; kills and outages leave the tables
  alone, and while the process starts nobody deletes.

**`Workbench_proofs`**

- `MovesWelcomeCorrect`, `ConfirmedMoveCorrect`. The invariant `Copies`: every
  copy of a row (in the store, in a dialog, in the answer of a load) is as old as its
  version says, and equal to the row if the versions are equal; a dialog or a move
  offers a status the graph allows from its copy (`Offered`). The server's version
  comparison makes the copy the row.
- `SpinnerCorrect`, `TypeCorrect`. A call that says what it is is under way
  (`Working`); whatever ends a call ends the loading.
- `StoredShown`. Every load under way has a search asked for since the page was last at
  rest, and an answer that covers `promised`, what the tab knew to be stored when the
  first of these loads was sent (`QInv`): what it knew was in the table (`ChangesOK`), and
  the table only grows; a row can be missing because it was deleted or the page is full.
  The last answer to arrive is one of these, whichever it is.

**`ReadModels_proofs`** (any finite set of ids, any page sizes, any number of changes).
The clock runs past one window at least (`WindowAssumption`), ids are positive and
finitely many (`IdsAssumption`).

- `TypesStay`, from `TInv`, which adds the types of the answer and that a row has at
  most one version per change. What writers do is used through what it does to
  the list (`Departs`, `Shifts`, `Grows`): a change touches one entry, which may
  come, leave, rise or fall back, and leaves the order of all others as it is. What a page is
  cut from is in `SortedList` (a listing has every entry once) and `Cut`.
- `HistoryShown`. `HInv`: the versions on the page are at most the stored ones, so the
  revisions read later cover them.
- `PromiseKept`. `PInv`: the total is at most what is listed now plus what has left since
  it was counted; a page that is not full reaches the end of the list.
- `WalkExact`. The place of an entry is the number of those before it (`Position`), and
  no two `Distinct` entries have one place (`OnePlaceEach`). `MInv`: of what is owed and not shown, those
  whose place is before what the pages read stand for are at most as many as left the
  list or fell back on it. Each of these moves every entry up by one place at most, so that just one can slip
  over the border (`MovesUp`, `MissedWriter`). `RInv`: what has been shown is at a place
  below that border plus the number of changes, since a change moves it down by one
  place at most (`MovesDown`); those of them on the next page have different places
  between the border and that.
- `SummariesAddUp`. `SInv`: each count is at most what the window holds now, which only
  grows while `since` stays. `CountsAddUp`: the counts of a group are the size of what is
  grouped, by a bijection put together from one per value, since a sum is not within the
  provers' reach (`InAll` is the size of a disjoint union).

Only model-checked: liveness (`EveryCallAnswered`, `CommittedMoveAudited`,
`StartEnds`, `ServesInTheEnd`, `GuardOpens`), which is out of the prover's reach. Every
invariant and every other action property of the passing runs is a theorem.

## 6. Not modelled

Token and password cryptography, syntactic validation, headers, logging and
rendering; the configuration, which is read once; migration beyond succeeding or
failing; PostgreSQL and Redis beyond the statements used (Redis is assumed not to
lose counters, and a transaction to be all or nothing); clocks that go backwards; two backend processes at once (the
deployment names one container). Of the read models the overview (four independent
counts) and the audit history of one entity (one query) are left out: no two of their
queries are related. Lists of the three other aggregates are those of the decisions
without revisions. Health, readiness and runtime answers are reads of the process.
The audit page and the display components of the frontend only render. Several tabs
that share the local storage are not modelled: a tab reads it once, when it opens.

Known behaviour that no property forbids, since nothing in the repository does:
a dialog opened while a move is under way is closed by the answer of that move;
a creation confirmed again after a lost answer makes a second record; of loads
that overlap the older answer may be the one that stays (`IdleShowsStored` says how old it
may be); a failed audit insert of a create or an edit is ignored; an expired token is noticed only
when the user logs in again.

## 7. Plan

Done: `Policy`, `ComplianceDecision` with its ledger, `Aggregate`, `Startup`,
`RateLimiter`, `Session`, `Workbench`, `ReadModels`, and the proofs above. Left, in
this order:

1. The service of `Workbench`, one step per call, as an abstraction of `Aggregate` and
   `ComplianceDecision`, by a refinement mapping in place of the argument in section 2.
2. The other aggregates against a ledger of their own, as the decisions are: one legal
   entry per version, though the tables keep the last one only.
3. What a walk promises about entries of the log that share a time, in terms of how
   many there are.
