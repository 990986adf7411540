# TLA+ models of adaptive-llm-agent

This directory models the parts of `src/adaptive_agent` whose correctness depends on order,
overlap, failure or restart, checks them with TLC on small instances and proves every safety
property that the passing runs check with TLAPS, for every value of the constants. Paths below are relative to
`src/adaptive_agent/` unless they start otherwise.

    tlasany Conversation.tla
    tlc -workers 2 -config conv_serial.cfg MCConversation
    tlapm Conversation_proof.tla

Which cfg belongs to which module, what each definition models (file and lines), the mutants
that show each property can fail, the hazards and the findings are listed in `PROJECT.json`.

## 1. The system

A Customer writes to a Business over WhatsApp. Meta posts the message to the **router**
(`interfaces/whatsapp/router.py`), which hands it to a worker thread; the **Interface Layer**
(`interface_layer/service.py`) drops duplicates (**dedupe store**), limits rates (**rate
limiter**) and picks the Business's **conversation runtime** (`conversation.py`). The runtime
runs the Input Rail, resolves a pending Confirmation Request or asks the Agent Core (the LLM),
lets the Tool Rail judge the first tool call, runs Tools, runs the Output Rail and appends the
turn to the **Session Store** (`session/sqlite_store.py`, one SQLite file per Business). A
Business's owner edits its config and its own tables through the **admin API**
(`interfaces/admin/*`), over the **entity repository** (`entities/sqlite_repository.py`, the
same SQLite file), the **config writer** (`business_config/writer.py`) and **provisioning**. A
background thread builds the router's **registry** of runtimes (`interfaces/whatsapp/registry.py`)
from those configs, once per process.

| Component | State it keeps | Operations | What is hard | What makes it correct |
|---|---|---|---|---|
| Conversation runtime | locals of each handler | `handle_message` | handlers of one Session overlap; any call may raise; restarts | a write Tool runs once, and only by a yes to that call in that Session; a cancellation is true; refused messages do nothing; nothing unchecked leaves |
| Session Store | a row per Session: history, pending request, last activity; a write counter | `append`, `get_history`, `get/set_pending_confirmation`, idle sweep | whole-row writes, sweep in the middle of a turn | whole turns in order; a request leaves only by its own answer or the sweep |
| Dedupe store | ids seen, in insertion order | `is_duplicate` | clock read outside the lock, eviction stops early | a retry within the TTL is caught; the store stays small |
| Rate limiter | stamps and last call per key, a call counter | `allow` | the same clock, a sweep of idle keys | never more than the limit in a window; nobody refused without cause |
| Interface Layer, router | the registry of runtimes; one POST per delivery | `process`, `receive_webhook` | retries while open, exceptions, restarts, registry loading in the background | one turn per message; every message answered |
| Entity repository, entity routes, CRUD Tools | metadata rows, tables and their rows, an open transaction per connection, the `tools` list of `business.yaml`, confirm tokens, audit log | create, delete, add / rename / drop column; list, get, upsert, delete row | two statements per operation, DDL that commits on its own, three stores to keep in step, a second repository in the chat runtime, read-merge-write of whole rows, nothing rolls back | metadata describes the file; linked tables keep their columns; a crash costs one table; rows are what the writes make them; transactions end |
| Provisioning, config writer, admin store, owner seeding | business directories, `business.yaml`, `business.yaml.tmp`, owner accounts | signup, config patch, seeding at every boot | check-then-act, one temporary name for all writers, crash half-way | an owner's Business exists, has one owner and an intact config |
| WhatsApp registry | the runtime of each number, a load in progress | load, publish, restart | each file is read twice while owners edit it, two Businesses claim one number, a build fails | a number is served by the first Business fit to serve it, with a config its file held |
| LLM providers | none | `_to_native_contents`, `_to_native_message` | transcripts put together from a history other turns, sweeps and failures left | every transcript sent keeps the vendor's rules |

The rest (prompt and context, payload and signature parsing, password hashing and JWTs, the
pass-through Data Rail) keeps no state or is a translation to a library; `PROJECT.json` "components" says so one by one.

## 2. The modules

`Conversation` — one action per step of `handle_message` that another thread can see: a lock
section of the Session Store or a call of the Rail Checker, the LLM or a Tool. `pc[t]` names
the next step, `turn[t]` holds the locals. The Tool Rail is the `mode` the loaded policy gives a
tool name. The LLM is free: a text, or a call of any name. `Raise` is an exception of any step
in `Faults`; what was written stays written. `Restart` reloads the policy and drops the threads.
`RowAges` makes a row old enough for the sweep. History variables (`log`, `asked`, `executed`,
`cancelled`, `blocked`, `replies`) record what the properties are about and guard nothing but
the bound on messages.

`ConfirmationGate` — the abstract promise: a Session has at most one open request, a call runs
while it is open and closes it, and "cancelled" is final. `Conversation` implements it under
the mapping `OpenRequest` (the property `GateSpec`).

`Transcript` — extends `Conversation` with what a thread at an LLM step sends: the stored history,
the message in hand, and for a Tool's result the synthetic call and result turns; and with the
native messages that the Google and the Anthropic provider make of it. Only roles, call ids and
names are kept. `GeminiAccepts` and `AnthropicAccepts` are the vendors' rules as
`conversation.py:124-132` and the providers' comments give them; they are no code of this
repository and stand with the property.

`Dedupe`, `RateLimiter` — the clock reading and the lock section of a call are separate steps,
so calls enter the lock in another order than they read the clock. `MaxLag` bounds the wait
between the two: every module's statement about time is relative to it. The dedupe dict is a
sequence of entries; the limiter's lists are bags, modelled as sets of numbered stamps.

`Webhook` — extends `Conversation` with deliveries: `meta` is Meta's view of each message, `job`
the POST a worker thread serves. It reuses the handler's steps as they are (`HandlerWorks`,
`HandlerReturns`, `HandlerRaises`). The dedupe store is the set of ids within their TTL:
`Forget` takes an id out of it once it is due again, at any time after its handler is done
(when exactly, and that it is not sooner, is the subject of `Dedupe`), and the history variable
`outlived` holds the turns whose id this process has forgotten. The limiter may refuse any new
message (`MayRefuse`). One policy holds per process; in the code two numbers of one Business have a
runtime each, and each reads the file at its turn of the load (`Registry` models that). Meta is external,
modelled as the router and the dedupe store describe it: it posts again after a 500, after a
broken connection and while it waits.

`Tables` — a route runs lock section by lock section. The admin repository's lock is held from
an operation's DDL statement to its commit, the chat runtime's repository has its own. The
routes share a repository per Business that the first of them builds (`Build`), unless a second
first request has found none either: then each goes on with its own, and the one cached last
serves the next. The routes that change no table (the list, the rows' routes, a deletion that asks
for its confirm token) build the repository as well: they are `PostAsk` and, after `Build`,
`RequestConfirmation`, which may issue a token if the table is described. A `repo` number stands for the object and its lock. Python's
`sqlite3` opens a transaction before INSERT, UPDATE, DELETE and REPLACE only (the default
`autocommit=LEGACY_TRANSACTION_CONTROL`; `pyproject.toml` asks for Python 3.13), so the CREATE,
ALTER or DROP TABLE is durable at once and the metadata row follows in a transaction of its own:
`Ddl` and `Dml` are two steps and a crash fits between them. Columns are names (types and
`required` do not enter a decision that the properties tell apart); the four Tools of a table
are one membership in `tools`.

`Businesses` — file names point to files and files have contents, because the temporary file
of the writer is one name shared by every writer of a Business: `Open` truncates whatever the
name points to, `Fill` writes to the file that was opened, `Replace` moves whatever the name
points to now. A request's number stands for the file it makes and the value it edits. The
shipped Businesses have hand-written files (`ShippedFiles`: good, empty, or no text at all) and,
where the environment names one, an owner, whom the container's start command seeds at every boot
(`Dockerfile`, `scripts/seed_admin_owner.py`): `Init` and `Crash` seed. Any step of a request may
raise (`Fails`): bcrypt on a password it cannot take, the disk, the account store. What was done
before stays, so a signup that raises or dies after its mkdir leaves a directory without a config,
or a config without an owner; the history variable `halted` holds those Businesses.

`Registry` — extends `Businesses` with the load of the WhatsApp registry. `StartLoad` takes the
paths, `ReadConfig` reads the next file and skips the Business or takes its adapters,
`BuildRuntime` and `BuildRaises` settle one adapter, `PublishRegistry` updates the dict the webhook
reads, `Boot` is a crash and a new process. Signups, patches and the writer's steps go on between
any two of them (`Requests`). The history variable `seen` holds what each claimant's file has held
since the load began, and "not fit" for a Business whose build raised. `frontend_adapters` and
`enabled` are constants: the writer's list of editable fields has neither.

`Rows` — the rows of one table, written by the admin routes and by the chat runtime's CRUD Tools,
each over a repository, a lock and a connection of its own (`Conns`) to one SQLite file in WAL
mode. `file` is what is committed, `draft` the same with what the one writing transaction adds,
`txn[c]` what connection c reads from while it is in a transaction. Python's `sqlite3` opens a
transaction before the statement and only `commit()` ends it, so each way a statement can fail
is an action of its own: `Refuse` (a NOT NULL column has no value: the transaction stays open
and holds the write lock), `TimeOut` ("database is locked": it stays open and has read nothing),
`CannotBind` (a value SQLite has no type for: the same, since binding follows BEGIN) and
`NoSuchTable`, which has two outcomes: a statement prepared afresh fails before any transaction
is opened, one in the connection's statement cache fails when it is run, with the transaction open
and the write lock taken. A transaction that has
read and sees another connection commit is `stale`: SQLite lets it read the old file and never
write. Nothing in the repository rolls back. `Statement` and `Commit` are two steps, with the
connection's lock held between them. `want` is the history variable of the specification: the
rows as the committed writes make them, an update changing the fields it was given. Dropping
the table and making it again are one step each here (`Tables` takes them apart); the new table's
ids begin anew, and a request in flight across the two counts as having met its row. The session and
customer stores, which write the same file, are `OtherStoresCommit`.

Definitions whose comment begins with "Mutant:" are faulty variants of the definition after
them; no specification uses them, and the mutant list of `PROJECT.json` says which property
each breaks.

`MC*` modules give TLC the instances; `*_proof` modules hold the theorems.

## 3. The runs

| Run | Question | Result |
|---|---|---|
| `conv_serial` | With handlers of a Session one after the other and failures only before a turn's first effect, are the Confirmation promises kept? | yes: `AtMostOnce`, `CancelledNeverRan`, `RequestsAreSettled`, `NothingLeavesUnchecked`, `GateSpec`, the history is whole turns, and every transcript is valid for both vendors (`TranscriptsAreValid`) |
| `conv_yes_twice` | ... and with overlap? | no: two yes messages run the Tool twice |
| `conv_false_cancel` | ... and when the LLM raises after the Tool ran? | no: a later no is told "nothing was done" |
| `conv_unseen_yes` | Was the Customer shown every call that a yes of theirs ran? | no: the Output Rail replaces the prompt, the request is pending all the same, and a yes to the replacement runs it |
| `dedupe_race` | Does the eviction's early stop ever cost a retry, or leave much behind? | no; order and leftovers are off by `MaxLag` at most |
| `rate_race` | Do stale readings or the sweep ever let too many through, or refuse without cause? | no, with `IdleTTL >= Window + MaxLag` |
| `web_faults` | With two Sessions' deliveries overlapping, every step able to raise, a crash anywhere, retries and a policy that changes at the restart: one turn per message while the process keeps its id, and do the Rails hold? | yes: `OneTurnPerMessage`, `JudgedAsRun`, `RunsOnlyWhenAllowed`, `BlockedIsInert` |
| `web_answered` | Is every message answered when nothing fails? | yes, under fairness |
| `tables_race` | Which agreements survive which interleaving, and what can one crash cost? | see below |
| `registry` | What do signup, seeding and the atomic write keep, and whom does each number reach? | see below |
| `rows_race` | Are the rows what the writes make them, and what does a failed write leave behind? | see below |
| `config_torn` | Can a reader see a half-written config? | yes: two patches share a temporary name |

`tables_race`. Whatever overlaps, a table exists exactly while it is described
(`DescribedIffThere`), except one that two requests under different locks have changed together: the menu
table's, once the runtime's repository has met the admin's on it, or two first requests that
each built a repository. Column metadata and the linked table's columns are right for every table that no two requests
ever changed at once (`ColumnsMatch`, `LinkedKeepsColumns`); without that condition both fail,
because a definition is read in one lock section and written back in another. A Business has
one linked table as long as no two requests that change tables overlap (`OneLinkedTable`), since the uniqueness
test and the insertion are two lock sections. A crash leaves at most one table in disagreement
and one change without an audit entry (`OneCrashOneTable`). One table is what it does cost: the
metadata write is not "part of a larger transaction alongside the ALTER TABLE it describes"
(`entities/sqlite_repository.py:304-307`), since that statement is committed before it, and with
a bound of no table per crash TLC stops between `Ddl` and `Dml`.

`registry`. Unconditionally, an owner's Business is on the disk with a config and no two owners
share one (`OwnersHaveTheirBusiness`: `mkdir` decides). An existing owner is not overwritten, by a
signup or by the seeding, unless two signups of that email were in flight together (`OwnersStay`),
a refused signup leaves no half Business (`NoHalfBusiness`): a directory without its config or its
owner is one whose signup is on its way or stopped partway, by an exception or a crash, as
`business_config/provisioning.py:83-87` says it may; such a half stays nobody's, whoever signs up
beside it, after it or after a restart (`HalvesStayUnowned`). The config is exactly what the finished writes make of it, through
crashes, where no two requests met on the Business (`FileIsAsEdited`). A published load serves
each number by the first Business in path order that claims it and was fit at its turn, with a
config its file held during the load; a number is unserved only if no claimant was fit all along
(`FirstFitIsServed`). So a duplicate number, a config that does not load, a patched provider that
nobody knows and a runtime that does not build each cost their own Business only. The exception is
a file that is no UTF-8: it is no `BusinessConfigError`, the load fails as a whole and the registry
stays empty until a restart, against `interfaces/whatsapp/registry.py:7-10`. The model has it
(`ReadConfig` ends in `failed`); the property is about loads that are published.

`web_faults`. `OneTurnPerMessage` is a statement about the store's TTL: two turns of one message in
one process happen only if the id of the first was evicted in between. A second turn in the process
after a restart is outside it, and the store's memory is lost there. `BlockedIsInert` says that a
refused message runs, opens and cancels nothing. `JudgedAsRun` says that a call that runs in the process
that judged it runs under the policy it was judged by; with a restart in between a yes may run a
Tool the owner has disabled since, because `_resolve_confirmation` does not ask the Tool Rail again.

`rows_race`. On every row on which no two requests ever met, what is committed is what the
committed writes make of it, through refused, unbindable and timed-out writes, stale connections, a
table dropped and made again and restarts (`AsWritten`), and the row just written is there to read back (`ReadBack`).
Where two requests meet, an update is lost and a deleted row comes back, because an update
reads the row, merges and writes the whole row in separate lock sections; TLC shows it as soon
as the condition is taken away, against "the rest keep their current value"
(`entities/crud_tools.py:75`). A connection keeps a transaction, and with it the write lock or an
old view of the file, only after a write of its own raised inside it, in one of the four ways of §2 (`TransactionsEnd`), but then a stale one
keeps it until the process restarts (`StaleUntilRestart`): every later read is of the old file and
every later write is refused, whatever is called.

The conditions `\ raced`, `~overlapped` and `\ met` are history variables. They mark the
smallest situation in which TLC showed the unconditional form false; the violation runs show
forms that a comment of the source claims without a condition.

### Bounds and why they are enough

- `MaxTurns`: three messages of a Session are a request, an answer and a third message that
  meets what the two left (a second answer, a new request); `web_faults` takes two, which with
  two threads, two Sessions and a restart covers request and answer in every overlap.
- `web_faults` has no Output Rail: what is checked before it leaves is `conv_serial`'s question
  (`NothingLeavesUnchecked`), and no other property of the run tells a replaced reply apart.
  An id is forgotten only while a further turn may begin (`Forget` says so): after the last one
  nothing can come of it.
- Tool policies: the first process has a Tool that needs a yes (`BoundAtFirst`); the restart, which
  may come before any message, makes it free, disabled or leaves it in `web_faults`, and free or the
  same in `conv_serial`. `absent` ends in the same denial as `disabled`.
- `SweepInterval` 2 (500 in the code) makes the sweep fall on every second write, between every
  two steps of a turn. In `Webhook` it is 5, and rows age as well.
- Two threads: each conflict in this code is between two actors. `dedupe_race` has three,
  because an entry is out of order with two and wrongly hidden behind a third.
- `TTL`, `Window`, `IdleTTL`, `MaxTime`: the window is 2 and the horizon 5, so entries expire,
  are swept and come back within a run; `IdleTTL = Window + MaxLag` is the tightest value the
  assumption allows (the defaults are 3600 and 60).
- `MaxRequests`: in `Tables` three requests and the runtime's own creation (create, change, and
  a rival), in `Registry` three (a signup or patch before the load, one during it, a rival) over
  two shipped Businesses and one to sign up for, with two numbers of which one is claimed twice, an
  adapter that is off and one without a number; in `Rows` three: a write that fails, one
  that meets what it left, and a rival. The rows have one required and one optional column and
  two values, so that an update which forgets a field can be told from one that keeps it.
- `MaxCrashes` 1: what a crash costs is stated per crash. Once it has happened, `tables_race` and
  `registry` take requests one at a time (`AloneAfterACrash` of their MC modules): what the
  properties say of later processes is about requests that do not meet, or holds of each process
  alike. The registry load goes on beside them.
- Symmetry is used for threads, Sessions, ids and names that nothing tells apart, and never in
  the run that checks liveness.

`CHECK_DEADLOCK FALSE` is set where the bounds end the behaviours: after the last message,
request or instant nothing is left to do. The stores' and routes' locks are held within one
step or between two steps of which the second is always enabled.

### Fairness

Only `EveryMessageIsAnswered` is a liveness property. It assumes weak fairness of `Worker(t)`,
the next step of a POST on its worker thread: the OS schedules the thread and every client it
calls (LLM, Graph API) returns or times out; and of `Post(id)`, Meta's delivery of a message
that is due, which is what makes it a webhook. No fairness is assumed of Customers, of the
registry load (the property starts once it is done) or of restarts. The run has no faults,
because with them the property is false: an id is marked seen before it is handled
(`interface_layer/service.py:29`), so the retry after a 500 is a duplicate.

## 4. The proofs

The theorems hold for every value of the constants that satisfies the modules' `ASSUME`s: any
number of threads, Sessions, Tools, messages, tables, columns, Businesses, requests and crashes.
The assumptions say that the null values are no values of the sets they stand beside, that
bounds are numbers, and what the arguments need of the rest: `Threads` is finite and `Columns`
is not empty in `Tables`, `Window + MaxLag <= IdleTTL` in `RateLimiter`, `Fields` is not empty
and no two Businesses are seeded for one email in `Businesses`, `Sorted` holds every Business in
`Registry`. A `_proof` module names its invariant's parts in the order in which each uses the ones
before it; a step is first reduced to what it may write, so that each part is preserved by a short
case split.

**`Conversation_proof`** — for any number of overlapping, failing, crashing handlers. `TypeCorrect`:
`TypeOK` is inductive, one step per action. `RunsOnlyWhenAllowed` is not inductive: it needs to know
what a thread about to run a call has established. `Inv` adds `TurnsOK` (a thread's turn is the
one the log says, on no other thread, and not yet answered), `GateOK` (what is pending was asked in
its Session; a thread at `run` holds an asked call of another turn and its message is yes; a
thread at `call` holds its own call under a free policy), `RefusalOK` and `CheckedOK`. Results:
`ToolGateHolds`, `RefusalIsInert`, `RepliesAreChecked`.

**`ConversationSerial_proof`** — what holds only under conditions on how handlers overlap and fail,
each a hypothesis on constants that `conv_serial` satisfies, but for the one that has no Output Rail.

- `Serial` (no overlap in a Session, no exception at the two steps between the Tool and the write
  that clears its request, no crash in the middle of a handler): `RunsAtMostOnce`,
  `CancellationIsTrue`, `RequestsLeaveByTheirAnswer` and the refinement `ImplementsTheGate`. Two
  violation runs (`conv_yes_twice`, `conv_false_cancel`) show the hypothesis is about real behaviour.
  `SerialOK` says that a pending call has neither run nor been cancelled, unless the thread at
  `continue` or `clear` is about to clear it; the sweep may take a request from a thread that holds
  it, and the invariant allows that. `FreshOK` says that a handler on its way to a new question found
  its Session without a request and still does, so no request replaces another. The refinement
  reads `OpenRequest` as a relation (`IsOpen`) that has one value under `SerialOK`, and maps each step
  to a step of `ConfirmationGate` or a stutter.
- `Prompted` (`Serial`, and nothing fails between keeping a request and replying with its prompt):
  `ConfirmsWhatWasAnswered`, from `AnsweredOnce`: every call asked about was answered or is on its
  way through the Output Rail and the two appends. The answer may be what the Output Rail put in the
  prompt's place; only without an Output Rail is it the prompt (`ConfirmsWhatWasShown`), and
  `conv_unseen_yes` shows that this hypothesis cannot go.
- `Orderly` (no overlap in a Session, no crash in the middle of a handler, no failure at the second
  append): `KeepsWholeTurns` and `TranscriptsAreAccepted`. `HistoryOK` says that a Session's row is odd
  exactly between a handler's two appends, ends with its turn then and is not idle, so the sweep
  cannot cut a turn in two. A transcript is valid because the history before the message in hand is
  whole turns, and the synthetic call and result are put after it together.

**`Webhook_proof`** — `WebhookConverses`: whatever Meta posts again, raises or restarts, the webhook
drives the runtime as `Conversation` allows, so everything proved of `Conversation` holds behind it.
`HandlesOnce` from `LivesOK` (the dedupe store has the id of every turn this process took, but for
the `outlived` ones) and
`RunsAsJudged` from `JudgedOK` (what this process asked about is bound to a yes while it lives,
since a policy changes only with the process). `NothingIsSwallowed` is under `NothingFails` (no
exception, no failing reply, no stop in the middle of a message), which `web_answered` satisfies: with
a failure it is false, because an id is marked seen before it is handled.

**`Registry_proof`** — both modules. For `Businesses`, `Inv` follows a request: whose a file is and
who has it open (`FilesOK`), who has met whom (`MeetingsOK`), that one signup alone is making a
directory into a Business (`CreatorsOK`), who may come to own what (`OwnersOK`), that what a stopped signup left is nobody's
and nobody's work any more (`HalvesOK`), and that the writer
of a Business nobody else met has in hand what its write will make of the config and the temporary
file to itself (`EditsOK`, `BrokenOK`, `WholeOK`). Results: `OwnedAndThere`, `Whole`, `HalvesStay`,
`NoLostEdit`, `OwnersKept`. `Whole` is for any number of exceptions and crashes: its exception is the
set of Businesses they stopped in the making, and `Records` says that nothing else stops there. `RegistryOnlyReads`: beside a load, provisioning is still what `Businesses` specifies.
`FirstFit` needs to know what a load half-way has established (`LoadOK`): each claimant of a number
is still to go, was unfit at some time since the load began, or the number is served by it or by one
before it, with a config its file held.

**`Tables_proof`** — one part of `TablesInv` per promise. `BuildOK` is why repositories may be
numbered by threads: each that a route holds has been renumbered once for each built since, and
each route still building will do so once more, so number and builders together stay within the
threads. `LocksOK` (a lock has one holder) gives `ThereWhileDescribed`; `RacedOK` and `MatchOK` (what
a route that met no other read is still described) give `DescribedAsThere` and
`LinkedAsItsToolReads`; `AloneOK` and `OneOK` give `OneAtMost`. `EachCrashLeavesOne` bounds a
cardinality, which no step-by-step argument about one table does: `CrashOK` says that there is *some*
set of tables, and some set of audit entries, no larger than the number of crashes, outside which
all is in order or belongs to the request in flight; a crash adds that request's table and entry.

**`Rows_proof`** — `RowsAreAsWritten`, `StoredIsThere`, `OnlyFailuresHoldOn` and `StaleForGood`.
`AsWritten` alone is not inductive: a commit publishes what was read three lock sections before.
`Inv` adds `SectionsOK` (between statement and commit the request's connection holds the write lock,
and one thread is there at a time; outside, draft and file agree; a reading connection reads the
file or is stale), `MeetingsOK` (two requests in flight on one row have met on it), `UpdatesOK` (what an
update read is what is wanted, unless two requests met on the row, its connection is stale, or the
table is gone) and `DraftOK` (what is about to be committed is the file with the request's row). The
stale case is harmless because a stale connection may not write. `Bounds`, on top of it, counts: the
ids given and the creates still waiting for one never outnumber the requests (`SeqOK`), which with
`PresentOK` (from its commit on a row is there, for the file and for what its connection reads)
gives `StoredIsThere` and the bounds of `TypeOK`.

**`Dedupe_proof`** — `RetryCaught` from "the entry of an id found new carries its reading";
`NearlyOrdered` and `NoneExpired` from "no call waits longer than `MaxLag`".

**`RateLimiter_proof`** — `WindowIsBounded`: every call let through within the window is still in
its key's list (so the list's bound is the window's bound). That survives the sweep because a
key's stamps are older than its last reading plus `MaxLag`, and `Window + MaxLag <= IdleTTL`.
`RefusedWhenFull` is the converse: only what was let through is listed (`HistoryOK`), so a list that
is full at a call's own reading is `MaxPerWindow` calls let through.

Only model-checked: the liveness property `EveryMessageIsAnswered`, since TLAPS 1.4.5 does not
reason about `ENABLED`, on which weak fairness rests. The properties of the violation runs are false
without the hypotheses above or, for `NeverHalfWritten`, of the code as it is.

## 5. What the models leave out

- What a Rail, the LLM or a Tool answers, and the content of messages beyond yes / no / other.
- The dispatch of a Tool to a provider, and the validation of a row's keys and values.
- SQL errors in `Rows` other than those a statement's own preconditions, its values, the statement
  cache and the lock between connections cause: a full disk, a COMMIT that fails.
- A route of `Tables` that raises halfway; the crash at the same place is modelled. The session and
  customer stores open and commit transactions in the way `Rows` models for the repository, and
  nothing there rolls back either; in `Conversation` a store call that raises is a `Raise` that has
  written nothing.
- The audit entry and the confirm token of a row route, beyond that a deletion may be turned
  away (`Tables` has both); a column altered under a row request.
- Which operation a confirm token was issued for: the code does not compare it
  (`admin/interface_layer.py:110-119`), so the model counts tokens.
- The menu seed script, which upserts its ten rows at every boot, over an owner's edits of them,
  before the server is up: single-threaded calls of the operations `Rows` has.
- What a provider makes of the vendor's response, and the text of a turn: an empty reply is a turn
  like any other.
- The runtimes' own restart of the chat side after a table change: a registry load reads the
  Business Config once, and a Tool added later reaches the LLM after the next restart.
- `messages[0]` of a batch, the fallback of the Customer id, signature and schema checks.

## 6. Plan

Done in this order: `Conversation` with its gate, `Dedupe`, `RateLimiter`, `Webhook` over
`Conversation`, `Tables`, `Businesses`, `Rows`, `Registry` over `Businesses`, `Transcript` over
`Conversation`, the repositories built per first request in `Tables`. Next:

1. `Dispatch`: CompositeToolProvider over its three providers, with a table deleted after its
   Tool was asked about and an `UnknownToolError` after a yes leaving the request pending.
2. `Tables` composed with `Businesses`: a config patch and a table route both rewrite the tools list.
3. An abstract specification of `Rows`, a map of rows on which each call takes effect at once,
   implemented while no two requests meet; and the unconditional form of `AsWritten` as a run that
   shows the lost update.
4. Proofs: the invariants of the modules above as they are written, and the refinement of 3. The
   modules there are have no safety property left to prove.
