# ScanAPI: specifications and proofs

ScanAPI watches the developer portals of four banks.  Once a day, on request or
at start-up it parses every portal, stores a snapshot per bank in PostgreSQL,
compares it with the previous one, keeps the differences as a history, and
tells subscribers and an admin about them through Telegram.  A web application
shows the current snapshots, the history and an admin area.

This directory holds TLA+ models of that program, TLC configurations that check
them on small instances, and TLAPS proofs about them.  Paths below are relative
to the repository; every definition that models code is listed with its lines
in `PROJECT.json` under `map`.

## 1. The system

One Python process with one event loop (`run.py`: `workers=1`), one PostgreSQL
database, a Telegram bot on the same loop, parsers in worker threads, and a
React frontend that polls the HTTP API.

| component | state | operations | interacts with | hard part |
|---|---|---|---|---|
| Snapshot comparison (`app/diff.py`) | none | `compute_changes`, `check_sanity` | import | hidden methods, duplicate keys |
| Snapshot import (`app/snapshot_import.py`, `app/repository.py`) | tables snapshots, services, methods, fields, changes | one transaction: read, check, compare, write, prune | runner; every reader of the tables | failure, lost answer, overlap |
| Parser runner (`app/parser_runner.py`) | `status`, `_lock`, `_failing`, the active proxy rotator | `run_all`, one bank at a time, then notify | import, proxies, Telegram, event log | concurrent starts, failures of parts, crash |
| Life cycle (`app/main.py`) | tasks, singletons | start, stop, POST /api/parse | everything | order of shutdown, fire-and-forget tasks |
| Scheduler (`app/scheduler.py`) | time of the daily job | reschedule, fire | runner, settings API | late changes |
| Outgoing proxies (`bank_api_parser/proxy.py`) | position, failure times | candidates, report_failure, send | parser threads | several threads, cooldown |
| Telegram bot (`app/telegram_bot.py`) | subscribers (table) | broadcast, send_admin, /start, /stop | runner, Telegram | retries, unsubscribing during a broadcast |
| Settings and proxies (`app/admin_api.py`, `app/runtime_settings.py`, `app/settings_repo.py`, `app/proxies.py`) | tables settings, proxies | put, add, delete, check, notify_expiring | scheduler, runner, bot | concurrent requests, stale checks |
| Authentication (`app/auth.py`, `app/web_auth.py`) | signed cookies, failed logins | login, verify | all requests | sliding window, expiry |
| Event log (`app/event_log.py`, `app/logs_api.py`) | table event_log | record, list, prune | everything records | paging a growing table |
| Database (`app/database.py`) | pool, applied migrations | run_migrations | start | failing halfway |
| Benchmark (`app/benchmark*.py`) | table of overrides | merge, put, delete | frontend | overrides of a changed catalogue |
| Parsers (`bank_api_parser/parsers/`) | caches of a run | fetch, resolve references, extract | proxies | redirects, size limits, cycles, threads |
| Frontend state (`frontend/src/hooks/`) | React state | poll, page, edit | HTTP API | late and reordered answers |

What makes each correct, in a sentence:

- *comparison and import*: who reads only the public history knows exactly the
  public part of the current snapshot; a broken parse never replaces a good
  snapshot; readers see whole imports only.
- *runner*: one run at a time, every run ends, the status is what really
  happens, one failing bank does not harm the others, subscribers read the
  public history once and in order, the admin hears of each transition.
- *proxies*: they take turns; a request tries as many as it may before it goes
  out directly, and a dead one is left alone for a while.
- *Telegram*: every subscriber gets every part once, whoever left gets nothing.
- *settings*: what is stored and what is scheduled agree; the list of proxies
  keeps its limit and its addresses once, shows checks of the right address, and
  each proxy is in one notice.
- *logins*: from one login of an address to its next, no window of time has more
  guesses than allowed.
- *database*: what is recorded as migrated took effect, in order and once.
- *portals*: a snapshot is made of everything a parse had to read or not at all
  (but for pages of one product of Tochka's, see section 5); what is private is not shown; requests are bounded and stay with one host.
- *readers*: statements that see different moments still fit together.
- *frontend*: after the last answer the screen shows what the server has.

## 2. Modules

    Diff                  pure operators: the comparison, the sanity check
    ├─ BankHistory        abstract: a current snapshot and a history per bank
    ├─ SnapshotImport     the import transaction; implements BankHistory
    │    MCSnapshotImport, DiffProofs, SnapshotImportProofs
    └─ ParserRunner       run_all on top of BankHistory
         MCParserRunner, ParserRunnerProofs
    ProxyRotator          the rotator and the threads that send through it
         ProxyRotatorProofs
    InOrder               [x for x in list if ...] without recursion

    TelegramBot           broadcasts, alerts and subscriptions
    DigestText            build_digest
    └─ Notifications      these two                  NotificationsProofs

    AlfaScan              a parse of Alfa: articles, threads, retry, merge
    SpecParsers           a parse of T-Bank, Tochka or Sber: documents, rows
    SpecWalk              $refs through several files
    GuardedGet            one download: redirects, capped body
    └─ PortalReading      these four                 PortalProofs

    SettingsApi           PUT /api/settings and the scheduler
    LoginLimiter          logins and wrong passwords
    Migrations            run_migrations
    └─ Administration     these three                AdminProofs

    ProxyList             the table of proxies, checks, expiry notices
    └─ ProxyAdmin         it and its parameters      AdminProofs

    Readers               the queries behind the dashboard
    LogPages              the event log and useLogs.ts
    BenchmarkEdits        overrides and useBenchmark.ts
    ParseWatch            the parse button and useParse.ts
    └─ Dashboard          these four                 DashboardProofs

    MCPortals             PortalReading and ProxyRotator, one part at a time
    MCApp                 Notifications, Administration, Dashboard, likewise
    MCBotAndProxies       TelegramBot and ProxyAdmin, likewise

PortalReading and Dashboard give four components each a common set of constants
and variables, Administration does it for three and Notifications for two; they
state what is assumed of the constants (`PortalAssumptions`,
`AdministrationAssumptions`, `DashboardAssumptions`) and name the properties, and
the theorems are about them.  ProxyAdmin does the same for ProxyList alone.
The components share no state, so nothing is lost by taking the
steps of one at a time: MCPortals, MCApp and MCBotAndProxies are one
specification each for TLC:
a variable (`part`, `component`) chosen at the start names the one that takes
steps, the others keep their initial state. What TLC checks is the same as with
a configuration for each; a property of a component is a conjunct of the
property of the same kind, and a liveness property is claimed for the behaviours
of its component.

**Diff.**  A method is its key, its service, whether it is hidden, and its
response fields.  `ComputeChanges(prev, idx, new)` is `compute_changes`: the
argument `idx` is the index built over the stored rows, because the query that
reads them back has no ORDER BY and `_index` keeps the first row of a key;
`StoredIndexes` is the set of indexes that may result.  `AgreeOnHidden` and
`AreAlike` say of a key whose entries there are in a snapshot whether they agree
on visibility, or in everything.  `Sane` is
`check_sanity` with the ratio as a fraction of integers.

**SnapshotImport.**  `snapshots` and `changes` are the tables, `nextId` the
sequence (never rolled back), `tx[i]` the local state of one call of
`import_snapshot` with its uncommitted writes.  `Begin` … `Return` are its
statements in order, `Reject`, `Fail` and `LoseAnswer` its ways out.  Reads see
what is committed (READ COMMITTED) and the own row.  The two SELECTs of
`get_snapshot_state` are one step.  `published` is a history variable.
`Unambiguous(b)` are the methods that no import of b listed as public and as
hidden at once; what the feed says of them depends on no other method.

**BankHistory.**  The promise of an import: `Publish` replaces the snapshot and
appends to the history in one step, and only for a plausible snapshot.

**ParserRunner.**  A task is a coroutine of `run_all`; `pc[t]` is the await it is
suspended in, and what is between two awaits is one action.  The database is an
instance of BankHistory, so the import is one step and its answer another one;
`LoseAnswer` is the connection that dies in between.  `Crash` loses everything
but the database.  `news`, `told`, `heard` and `lost` record what was sent.
A proxy list that is empty and one that cannot be loaded are the same.
`Notifier` is `None` unless `telegram_notify` is set.

**ProxyRotator.**  A proxy is its position in the list.  `Ask` is `candidates()`,
which a thread calls under the lock; `TryNext` is a failure with its
`report_failure`, `End` any other outcome, through a proxy or directly.  Between
them a thread holds a list that may be out of date.  `clock` counts ticks; a
cooldown is `Cooldown` of them.  `waited`, `lastFail` and the proxies a request
has `tried` are history variables.
ParserRunner models which rotator is active and does not look inside.

**TelegramBot.**  `job["digest"]` is the broadcast of the run that holds the lock,
`job["alert"]` a `send_admin`; both go through `_deliver`, whose ways out are the
actions `Delivered`, `TimedOut` (the message may have arrived), `Limited`,
`Reject`, `NotReady` and `Refused`.  A refusal and the DELETE that follows it are
two steps, and the DELETE may fail.  `NextChat`, `NextPart`, `Retry` and `GiveUp`
are the two loops.  While the bot starts or stops a message may be sent or fail.
Chats block and unblock the bot at any time.  ParserRunner sees only whether a
broadcast or an alert got through.

**AlfaScan.**  The article index, what pages say and what the release notes
mention are constants; whether a page can be had is not.  `Discover` reads the
index and lists the leaves, or fails.  A worker takes the
next leaf (`Take`), follows redirects one at a time, and answers; `EndFirst`
begins a second pass over what failed, `EndRetry` puts its results in the places
of the failed ones and gives up if anything is still missing, `Finish` makes the
rows.  `Abort` is the exception of a worker that ends a pass.
The first leaf of a method in the order of the index decides its visibility.

**SpecParsers.**  `todo` is what is left of the nested loops of a parser: sections
(one without a name for T-Bank and Tochka), each with its documents.  `Begin` is
the plan it starts with; `Read`, `Skip`, `Drop` and `Fail` are the ways a document
goes, and which of them is possible depends on bank and document: main.js adds
the pages of Tochka's nominal account that it lists, and only these are left out,
because they look like the page of a category (`Skip`) or because their chunk or
their method cannot be found (`Drop`, kept in the history variable `dropped`).
`RowsOf` says what a document has, `Fresh` what of it is new in its section.  Two specifications of T-Bank and two of Sber really share
methods; these duplicates are the ones `import_duplicates` is about.

**SpecWalk.**  `stack` is one branch of the recursion of `_schema_to_example` or
`_extract_fields`: frames with the document they read, the $refs they have seen
and their depth.  `Call` is `_resolve_ref` with every early return, `Fetch` the
download and its memory, `Back` the return to a sibling.  A walk starts at `body`,
the document of the body: the main one, or the sibling that a $ref on the response
itself leads to (`Respond`, for `_select_response`).

**GuardedGet.**  One address, the hops, the bytes read so far.  `Redirect`,
`Answer`, `Chunk` and `EndOfBody` are what the portal does, `Ends` the ways out.

**SettingsApi.**  `put[a]` is a PUT between two awaits: `Load`, `Store` (both
rows in one implicit transaction), `Reschedule`, which also compares.
`disturbed` is a history variable, the set of what happened since the last PUT
that ran alone: requests overlapped, the answer of a stored PUT was lost.

**ProxyList.**  `TakeLock`, `Count`, `Insert` are `add_proxy` under its advisory
lock; `Look` reads a row that `Delete` and `SaveCheck` address by id later;
`ListDue`, `Send`, `Mark` are the daily job.  A request that waits for the lock has
done nothing yet, so its address and expiry are chosen at `Insert`.  A notice
names the first `MaxListed` rows (`Listed`) and counts the rest: `named` are the
proxies that a notice named, `noticed` counts for each the notices it is in either
way.  A sequence never gives an id twice, and `SaveCheck` relies on it.

**LoginLimiter.**  A login is one step, since the handler awaits nothing.  `keys`
are the keys of the dictionary, which differ from the keys that have failures.
`wrong` are the guesses since the last login of an address, `forgotten` those
between its last two.

**Migrations.**  A start is the sequence of statements of `run_migrations`; an
open transaction is a version that has not taken effect.  `Blank` are files
without statements, which are never recorded.

**DigestText.**  A line is its number and its length; a step of `AddBlock` or
`AddLine` is one call of `add`.  What a text takes (`Size`) is a sum over its
lines, a recursive function.

**Readers.**  Imports are single steps here (SnapshotImport has their
statements); a request is a sequence of statements with imports and midnights in
between.  `Prefixes` are the orders the database may choose among equal times.

**LogPages, BenchmarkEdits, ParseWatch.**  The server side of a request is a step
that fixes its answer, the arrival is another one, and arrivals overtake each
other.  The filters of `useLogs.ts` are `Among` of InOrder: the events shown are
numbers, and `Among(list, 1..n)` keeps those up to n in their order.  `torn`, `raced` and `late` are history variables that name the one
circumstance in which the property does not hold.

## 3. Runs

| run | instance | shows |
|---|---|---|
| `import_feed` | 1 bank, 1 importer, 9 portals, 4 ids, keep 2 | types; the public feed replays to the public surface and alternates, but for methods listed as public and as hidden at once, hides what is hidden, tells of an unchanged portal nothing but contradictions in it; no collapse; the last `snapshots_keep` imports stay; the refinement, also when answers to COMMIT get lost |
| `import_overlap` | 2 importers, 2 banks, 2 portals, 4 ids, keep 2 | clean-up never removes the newest snapshot of a bank, nor the history |
| `import_duplicates` | portals with one endpoint listed twice, differently | violation: an unchanged portal yields a change |
| `runner_faults` | 2 tasks, 2 banks, 4 portals, crashes, lost answers, 2 imports per bank | one run at a time, honest status, proxies, alerts, digests invent nothing |
| `runner_digests` | 1 task with RUN_NOW, 3 portals, no crashes, no lost answers, weak fairness | the digests are the public history; every run ends and releases the lock |
| `runner_started` | no faults | violation: "started" for a run that is skipped |
| `runner_unheard` | Telegram may refuse | violation: a lost alert is never made up for |
| `portals` | 3 proxies, 2 attempts, 2 threads, cooldown 2, clock to 2; 2 scanner threads, 7 articles; 3 specifications and all 64 of one file with two schemas; 4 addresses; 5 hops; 3 banks | types; proxies are shared evenly, dead ones rest, a direct request comes after every attempt; whole snapshots; a method counts once; nothing private is shown; the right file, one host, bounded requests; within one file only cycles are cut; scan and download end |
| `bot_and_proxies` | 2 chats (one configured), 2 parts, 2 attempts, an alert at once, all faults; 3 addresses, limit 2, 3 ids, 2 requests, notices that name 1 | parts arrive in order, the report is honest, only who blocked is dropped; the list keeps its limit, its addresses once, its checks and its notices |
| `bot_aborted` | 2 chats, failing database | violation: one refusal keeps the digest from everyone else |
| `app` | 2 requests, processes, addresses or cells; 3 migrations; log pages of 2, 4 events; 3 imports, keep 2; 2 runs, 2 lost polls | settings and schedule agree, the limiter, the schema, the text of a digest, readers and screens are sound; broadcasts and "running" end |
| `benchmark_edits` | 2 cells, 3 edits | violation: the answer of a load takes a newer edit off the screen |

Beside the runs there are single instances for the reader, with the result they
give.  Seven show what section 5 says of the documentation:
`ProxyRotator_four.cfg` (of module ProxyRotator; violates `DirectIsLastResort`),
`MCPortals_pages.cfg` (`ChainIsWhole`), `MCPortals_cycles.cfg`
(`OnlyCyclesAreCut`), `MCBotAndProxies_named.cfg` (`EachIsNamed`), `MCApp_logins.cfg`
(`EveryWindowIsBounded`), `MCApp_settings.cfg` (`AppliedAtOnce`) and
`MCApp_logs.cfg` (`NothingIsSkipped`).  `MCBot_liveness.cfg` (of TelegramBot:
broadcasts end, with a configured admin chat) passes.

*Bounds.*  `MaxSnapshots` bounds the ids, `MaxImports` the imports per bank; both
appear as guards of the step that would exceed them.  Four ids with
`Keep = 2` prune twice and leave room for an aborted import that burnt an id.
The nine portals make every branch of the diff happen: a service and a method
added and removed, hidden, shown, hidden from the start, a field change of a
public and of a hidden method, an operation under two services, an endpoint that
is listed as public and as hidden, and a portal that fails the ratio 1/2 or is
all hidden.  Two tasks are enough for every
conflict over the lock, since a third one only skips like the second; for
liveness one is enough, since no task ever waits for the lock.  Two
banks give a first, a last, and one that fails while the other does not.
Three proxies are more than the two attempts of a request, and a clock that
reaches `Cooldown` lets a proxy fail, rest and fail again.  Two chats, one of them
configured, give each kind of refusal and a chat that comes after it; two parts
and two attempts a part that is lost first, last and in between.

In `portals` the index of Alfa has every kind of entry: a private folder with a
service, a page two articles share, an old article, an ignored one; the
specifications of three files have cycles within a file and between files, a
pointer of one name in two files, a schema that is a $ref, another host.  The
documents of the other banks share methods in every way the real ones do.  In
`app` two requests are the fewest that overlap and a third adds no new pair; two
wrong passwords in a window of three ticks over five let the window move, and a
guess leave it while another stays; four changes of two lengths meet every limit of
`DigestText`; three imports with `Keep = 2` prune once under a reader; four
events and pages of two let a refresh find a full page, with and without a gap.
In `bot_and_proxies` a limit of two proxies, three addresses and three ids let an
add meet the limit, an address that is in the list and a row that was deleted,
and two proxies expire where a notice names one.
`MaxEdits`, `MaxEvents`, `MaxPruned`, `MaxImports`, `MaxDay`, `MaxRuns`, `MaxId`,
`MaxRepeats` and `MaxNow` bound what would grow for ever and are guards of the
step that would exceed them.

*Fairness* (`FairSpec`): weak fairness of what the event loop does for an
existing coroutine.  The code justifies it: every await of a run is a request
with a timeout, a database call or a Telegram call, and the loop resumes every
ready coroutine.  Requests, the daily job and crashes are not fair.  In
TelegramBot, weak fairness of the steps of a job: each is a request or a bounded
sleep.  Nothing is assumed about what Telegram answers.  In `portals` a scan or
download goes on, since every request and every read of a chunk has a timeout.
In ParseWatch runs end (`EveryRunEnds`), a request of the browser is answered or
fails, and a timer fires; nothing makes an admin click.

*Deadlock* is checked in every run but `portals`, `app` and `benchmark_edits`: a
parse, a download, a digest, a start that is up and a limiter at its last tick
are finished, and finishing is not an error there.

## 4. Proofs

The theorems are listed under `theorems` in `PROJECT.json`, most of them with the
property of a run that they state for every value of the constants; the run
shows it on a small instance.

**DiffProofs** holds lemmas about the operators: the index returns a stored
method, the type of `ComputeChanges`, and the two facts everything else rests
on: `DeltaTracksSurface` (the public changes turn the old public surface into
the new one) and `SameSnapshotIsSilent`.  The first is about one key and assumes
of it alone that its entries agree on visibility in both snapshots
(`AgreeOnHidden`); the second says which changes a comparison of a snapshot with
itself may report, those of keys whose entries are not alike.  That it does report
such changes the run `import_duplicates` shows.

**SnapshotImportProofs.**  For imports made one at a time (`SerialImports`, which
`OneRunAtATimeTheorem` provides for the program): `FeedReplaysTheorem`,
`UnchangedPortalTheorem`, `FeedAlternatesTheorem`,
`SurfaceNeverCollapsesTheorem`, `FeedHidesHiddenTheorem`,
`KeepsLatestImportsTheorem` and `ImplementsHistoryTheorem`, the refinement.
Nothing is assumed of the portals, which do list endpoints twice: what a theorem
says of a method it says of one without contradictions (`Unambiguous`), in any
portal.  The
inductive invariant `SerialInv` adds to the properties that the newest published
snapshot is the stored one with the largest id, that ids grow, and what the
open transaction has read; without the last part `Commit` could publish a
comparison with something else.  `FeedHidesHidden` is about contradictory methods
as well: which of two rows the database returns first is irrelevant to it.

For any number of imports at once: `TypeCorrect`, `HistoryIsForeverTheorem`,
`ReturnsWhatWasStoredTheorem` and `CurrentIsNeverPrunedTheorem`.  The last one
rests on `OverlapInv`: ids are never shared, and for every row that a clean-up
has chosen a newer one of the same bank is stored.  This is where `Keep >= 2` is
used, which `config.py` enforces.

**ParserRunnerProofs.**  `RunInv` says who is inside the lock, and for the one
inside, which banks are finished, running and pending: those before, at and
after its position in `Order`.  From it `TypeCorrect`, `OneRunAtATimeTheorem`,
`ProxiesOnlyDuringRunTheorem` and `StatusTellsTruthTheorem`.
`AlertsTellChangesTheorem` adds what a task has noted of each bank
(`OutcomeInv`) and that whoever was told something else than `_failing` has an
alert under way (`AlertInv`).  `DigestsNeverInventTheorem` and
`DigestsTellHistoryTheorem` share `NewsInv`: the digests tell the history of a
bank up to its last batch, or up to the one before while a task that stored the
last one still carries it.  The second theorem assumes what its run has: a
notifier, no lost answers, no failing digest, no crash.  Under the other faults
a batch may go untold, and the first theorem is what remains.

**ProxyRotatorProofs**: `TypeCorrect`, `EvenRotationTheorem`,
`NoHammeringTheorem` and `DirectComesLastTheorem`, for any number of proxies,
threads and attempts.  The invariant `RotatorInv` adds how long ago each proxy
began a round, counted from the one that is next, and that what is still on a
thread's list has not failed for that thread within a cooldown before it asked.
Beside it the proof of `DirectComesLast` keeps `Tried`: what a thread has tried and
what is left of its list are as many as the attempts, or every proxy that is not
among them was cooling down when the thread asked.

**NotificationsProofs**: `TypeCorrect`, `ArrivesInOrderTheorem`,
`ReportIsHonestTheorem` and `LoyalStaySubscribedTheorem`, for any chats, parts,
attempts and faults.  `JobInv` relates the record of a job to the inboxes: a
chat still to come has nothing, the one at work has the parts before the
current one and that one at most as often as it was tried, the others have
everything unless they are counted as failed.  `DigestTellsAllTheorem`, for any
changes, limits and lengths of lines: `TextInv` takes the messages so far and
the one being filled as one chain that has come to the next piece (`Chained`,
`NextLine`), and says that the length kept beside the text is its size unless it
is one line that was cut, so that what `add` compares with the limit is the
size of what it makes.  The lemmas `SumToIs` and `SumOfTwo` give the size of two
texts joined; they argue by the first place where two lists of sums differ,
since the provers have no induction.

**PortalProofs**, about PortalReading: `ReadingTypesTheorem`,
`WholeOrNothingTheorem`, `MethodsCountOnceTheorem`, `ShownIsPublicTheorem`,
`RightDocumentTheorem`, `CutsAreCyclesTheorem`, `StaysOnHostTheorem` and
`BoundedReadingTheorem`, for any index, files, documents and threads.
`ScanInv` says that a place that a thread took and left has the last answer of
its leaf, and that a leaf without a place has an answer that counts; without it
the retry could put results in the wrong places.  `PortInv` follows the plan
through the nested loops, also when main.js extends it.  `WholeOrNothing` says of the pages of Tochka's nominal account only that
they were read or left out (section 5); of every other document, that it was
read.  `WalkInv` says of each frame of a branch that it reads the file its $ref was written in and has seen
as many $refs as there are frames down to it; the depth and the bound of the requests follow.
`DownloadInv` ties requests to hops and every hop to the first host.

**AdminProofs**, about Administration and ProxyAdmin: `SettingsAgreeTheorem`,
`ProxyListIsSoundTheorem`, `SchemaIsWholeTheorem` and `LimiterHoldsTheorem`.
The invariants: a PUT that never had company leaves the scheduler at what it
stored (`SettingsInv`; one that had company is what `disturbed` excepts); a count stays true from the SELECT to the INSERT under
the lock, an id means the same address as long as a request holds it, and what
the job has listed is in the notice, by name or in the number of the others
(`ListInv`); the open transaction is of the first pending file, which may take
effect once more (`MigrationsInv`); what the limiter keeps of an address are the last
of the wrong passwords since its last login, and what it has dropped of these is
out of the window (`LimiterInv`).

**DashboardProofs**, about Dashboard: `ReadersSeeOneHistoryTheorem` and
`ScreensTellTruthTheorem`.  `ReadersInv` keeps, between two statements of a
request, an upper bound for each count that is still to come, and for each
change still to be shown that more changes than were paged over are not older
than it, unless a page boundary cuts its import (section 5).  `LogInv` says that every answer under way is a page without gaps below
its `before` that reports honestly whether there is more; of the list shown
nothing else is needed to merge pages that overtook each other.  `EditsInv`
numbers the writes: a request that is alone carries what is stored, and the
answer with the largest number read so far agrees with the table but for writes
stored since.  `WatchInv` is the type of the polls under way.

Assumptions are the named ones on constants (`RatioAssumption`,
`ImportAssumption`, `RunnerAssumption`, `RotatorAssumption`, `BotAssumption` and
those of the four compositions and of ProxyAdmin) and those in the statements; TLC evaluates the
former in every run.  The theorems about a composition take the specifications
of the components they are about as hypotheses.  The specifications that TLC
checks imply them: a step of MCPortals or MCApp is a step of the component at
work, and for the others a step that changes nothing.

Only model-checked:

- Liveness (`EveryRunEnds`, `ReadingEnds`, `EverythingEnds`): fairness and
  ENABLED are beyond TLAPS.
- The properties that the code does not have, which the `violation` runs and the
  instances beside the runs refute.

## 5. Disagreements with the documentation

The `violation` runs, and seven more properties that the instances beside the
runs refute.  Quotes and lines are under `findings` in `PROJECT.json`; of the
seven each is listed there with the run that checks the property which does hold.

- `DirectIsLastResort` (`proxy.py:67`).  README.md:16 says a request goes out
  directly if no proxy works.  A request tries `MAX_ATTEMPTS` = 3 proxies, and the
  list may hold a hundred: with four of them it goes out directly although the
  fourth works.  `DirectComesLast` is what does hold: after every attempt, or when
  every proxy it did not try is cooling down.
- `ChainIsWhole` (`tochka_parser.py:254`).  The docstring (145) says any break of the
  chain raises ParserError "instead of silently producing a partial or wrong
  snapshot", README.md:17 that a snapshot is whole or not there.  A page of the
  nominal account without a chunk file, or whose operation has no method or path
  (164), is left out with a warning.  `WholeOrNothing` holds for everything else.
- `EachIsNamed` (`notify_format.py:218`).  "Each proxy is reported once"
  (`runtime_settings.py:73`), but a message names the first thirty and gives the
  number of the rest, and all of them are marked as reported.  `ProxyListIsSound`
  is what does hold: each is in one notice, by name or in that number.
- `EveryWindowIsBounded` (`web_auth.py:82`).  "At most `max_failures` wrong
  passwords per key (client IP) within `window` seconds" (`auth.py:65`), but any
  login resets the failures of its address, so a window with a login in it may
  hold more.  `LimiterHolds` is what does hold: from one login to the next.
- `AppliedAtOnce` (`admin_api.py:91`).  README.md:15 says the time of the parse is
  stored in the database and applied at once.  Of two PUTs that overlap the one that
  stores first may be the last to reschedule, and the stored time is not applied
  until the next PUT that runs alone, or a restart.  `SettingsAgree` is what does
  hold: for PUTs that run by themselves.
- `OnlyCyclesAreCut` (`base_parser.py:342`).  The docstring (338) says a cycle is
  caught "without blocking legitimate reuse".  `_seen` holds the text of a
  $ref without its file, so a pointer of the same name in another file is cut
  as well.  `CutsAreCycles` is what does hold: within one file.
- `NothingIsSkipped` (`useLogs.ts:97`).  The comment on `mergeFresh` says the
  list starts over "instead of silently skipping events"; an older page that
  is on its way then is put under the new list and leaves a gap.
  `ScreensTellTruth` is what does hold: without such a page.

Worth knowing, and part of the models although no document says otherwise: a PUT
whose answer the database loses has stored a time that nobody schedules;
of two checks of one proxy the older may be saved last; a proxy counts as
reported when the notice is handed to the bot, whether Telegram took it or not;
a poll answered before the new run began ends the watch; the answer of a
superseded poll may show "running" with nothing left to correct it; pages by
OFFSET may repeat or miss changes of one import that a page boundary cuts; two
processes that start on a database with the table of goose may drop each other's
records, and the migrations have to be (and are) repeatable.

## 6. Not modelled, and the plan

Left out for good: the scraping of HTML, scripts and release notes, message
texts and escaping, rendering, configuration files, the certificate bundle, the
signature of cookies, the matching of services with the benchmark catalogue,
the validation of proxy addresses.  They transform text or data and keep no state
a model checker could say more about than their unit tests.

Not modelled yet: the lifespan as a whole (the order in which bot, runner and
pool stop), the summary of hidden entities, `useProxies` and `useHidden`.

Left to prove: what `OneRunAtATimeTheorem` and the theorems about serial imports
say together, as one specification of runner and import; that a broadcast of
TelegramBot implements the atomic one of ParserRunner.
