# LightClaw: TLA+ specifications

LightClaw is a single-process asyncio agent service (Python). This directory
holds TLA+ modules that model its own control logic, TLC configurations that
check them on small instances, and TLAPS proofs of what matters most for every
instance. Sources are cited relative to `src/lightclaw/`.

## 1. The system

### 1.1 Parts, state and operations

| Part | Code | State it keeps | Operations |
|---|---|---|---|
| Job service | `app/cron/manager.py`, `app/cron/api.py` | job repository (file), APScheduler jobs, `_rt` (a semaphore per job), `_states`, `_started`, `_lock` | create/replace, delete, pause, resume, run, scheduled firing, start, stop |
| Built-in jobs | `manager.py` start/reschedule, `proactivity.py` set-up, `app/_app.py` | the scheduler's heartbeat, proactivity, daily-analysis and dreaming jobs; the proactive engine | start, reschedule on a settings change |
| Heartbeat | `app/cron/heartbeat.py`, two reader tools | `heartbeat/state.json`: log position, fingerprints, windows, counters | one sensor cycle, the agent turn it may trigger |
| Proactivity | `app/cron/proactivity.py` | activity file: level, unanswered count; delayed callbacks | gates, dispatch, reply, daily analysis |
| Agent task | `app/cron/agent_task.py`, `turn_accumulator.py`, `outbound_sanitizer.py` | the event stream of one cron turn | accumulate, sanitise, dispatch, persist |
| Dreaming | `agent/memory/dreaming_pipeline.py`, `app/cron/dreaming.py` | `status.json`, daily notes, archive, `MEMORY.md` | light ingest, REM, deep phases |
| Distillation | `agent/memory/session_distillation_service.py` | `distillation state`, FTS rows, daily notes | summarise, index, mark |
| Daily talk | `app/runner/session/daily_talk_store.py` | the day's talk file | append, roll over |
| Run controller | `app/runner/core/run_controller.py` | one run's history, bridge and output | stages of a turn, cancel, finalise |
| Sessions | `app/runner/session/session_factory.py`, `agent/core/engine_session.py`, `bridge.py` | session files, chat entries, the bridge of the last run | load, save, stream, approve |
| Compaction | `agent/core/compactor.py` | the summary of a session | due, condense, trim |
| Coordinator | `agent/core/coordinator.py`, `token_budget.py`, `message_sanitizer.py` | the message list of one model call | budget, final guard |
| Recall | `agent/core/recall.py`, `actor_context.py`, `agent/memory/memory_query_service.py` | the actor and the candidates | gather, filter, rank, render |
| Memory search | `agent/memory/qdrant_searcher.py` | access counts in the payloads | hybrid, keyword and degraded search, reinforcement |
| Memory index | `agent/memory/qdrant_indexer.py`, `qdrant_schema.py` | file hashes, points | index, remove, sync |
| Memory decay | `decay_scorer.py`, `memory_parser.py` | none | classify, score, choose |
| Delegation | `agent/tools/delegate_readonly_tasks*.py` | worker tasks and their results | validate, fan out, collect |
| Models | `agent/core/model_factory.py`, `builtins.py` | clients, tool tables | resolve, fall back |
| Command line | `cli/run_cmd.py`, `cli/dreaming_cmd.py`, `configs/lightclaw.service` | the PID file | start, refuse, exit |
| Configuration | `config/config.py`, `constant.py` | settings file | load, save, defaults |

Everything runs on one event loop, so state changes are atomic between
`await`s, and hardly anything else protects them: the job service holds a lock
across its awaits, the daily talk store one for each instance, of which every
turn and every dream makes its own, and the indexer declares one that nothing
acquires. The graph, the engine session and the middleware of the agent are
shared by all turns. Files survive a crash, everything else is
lost.

### 1.2 Interaction

The job service fires the heartbeat, proactivity and dreaming callbacks; all
three end in agent turns (`agent_task.py`) whose text goes to a channel and to a
session file. The run controller does the same for a user's message, and resets
what proactivity counts. Turns write the daily talk file, which dreaming and
distillation read, and both write the daily notes the indexer and recall read.

### 1.3 What is hard, and what would make each part correct

* **Job service.** Executions never take the lock, so every operation can meet
  them half-way. Permits must be conserved although semaphores are replaced;
  the reported state must not lose an execution; the scheduler must agree with
  the file across failures and restarts; nobody may wait for ever.
* **Heartbeat.** One cycle reads a log, a state file and a clock; a crash in
  between must not lose errors, a window must be served once, an abnormal
  streak must end when the cause is gone.
* **Proactivity.** Gates are read before awaits; a reply races a delayed
  increment of the unanswered count.
* **Agent task.** A message is dispatched at most once and reported truthfully
  under timeouts and channel errors.
* **Dreaming, distillation, daily talk.** Read, await the model, write: two
  runs, a crash or a late user message fall between. What a dream throws away
  must be archived, days must not mix, candidates that look like secrets must
  be neither kept nor promoted, a dry run must write nothing, and MEMORY.md may
  lose only what may be forgotten.
* **Run controller, sessions, compaction.** Turns of one session overlap, a save
  replaces the file, a chat is deleted meanwhile, a compaction saves behind the
  turn. What a turn has read must survive its save; messages, bridges and
  cancellations must stay with their turn; every turn must end.
* **Search.** Vectors are filtered by payload, keywords are not; four modes and
  three kinds of dates meet in one order.
* **Index.** Two updates of one file, or an update and a removal, interleave;
  a kill falls between two stores; a store refuses one of several writes.
* **Coordinator.** The guard must end, fit the budget and keep the system
  message, the question and tool-call pairs.
* **Recall.** Nothing private reaches somebody else, whatever the metadata, and
  what may be shown is shown as far as there is room.
* **Delegation, command line.** Results are complete under timeouts; two
  processes never both run.

`PROJECT.json` lists the hazards line by line with the properties aimed at them:
those of the parts that are modelled, and the gravest of those that are not.

## 2. Plan

The modules stand in the order in which they were, or will be, written: the
part that everything else runs on first, then the parts that lose or repeat
what users said, then the guards.

| Module | Code | State |
|---|---|---|
| `JobSchedule` | the promise of the job service | written |
| `CronManager`, `CronManagerMC` | `app/cron/manager.py`, `api.py`: user jobs | written, proved |
| `ErrorFingerprints` (+`MC`) | `app/cron/heartbeat.py`: the log sensor | written, proved |
| `Heartbeat` | `app/cron/heartbeat.py`: a cycle | written, proved |
| `HeartbeatProofs` | theorems about the log sensor and the cycle | |
| `SessionDistillation` (+`MC`) | `session_distillation_service.py` | written, proved |
| `ProactiveDispatch`, `ProactiveProofs` | `proactivity.py`, `agent_task.py` | written, proved; daily analysis and engine set-up are left |
| `PidLock` | `cli/run_cmd.py` | written, proved |
| `ServiceProofs` | theorems about `CronManager`, its promise and `PidLock` | |
| `Delegation` (+`MC`), `DelegationProofs` | `delegate_readonly_tasks*.py` | written, proved |
| `ContextGuard` (+`MC`) | `coordinator.py`, `token_budget.py`, `message_sanitizer.py` | written, proved; the rest of the coordinator is left |
| `PromptProofs` | theorems about `ContextGuard` and `SessionDistillation` | |
| `MemoryIndex` (+`MC`), `IndexProofs` | `qdrant_indexer.py`, `qdrant_schema.py` | written, proved |
| `MemoryDecay` | `memory_parser.py`, `decay_scorer.py`, `_deep_prune` of `dreaming_pipeline.py` | written, as operators |
| `DailyTalk` | `daily_talk_store.py` and its callers | written |
| `Dreaming` (+`MC`), `DreamingProofs` | `dreaming_pipeline.py`, `cron/dreaming.py` | written; six theorems |
| `MemorySearch` | `qdrant_searcher.py` | written, as operators; proved with `Turns` |
| `Recall` | `recall.py`, `actor_context.py`, `memory_query_service.py` | written, as operators; proved with `Turns` |
| `Turns` (+`MC`), `TurnsProofs` | `run_controller.py`, `session_factory.py`, `compactor.py`, `engine_session.py`, `bridge.py` | written; six theorems |
| `SystemJobs` | `manager.py` start/reschedule, `_app.py` | left: which built-in jobs exist after a start, and after the three `reschedule_*`, which nothing in the repository calls |
| `OutboundText` | `turn_accumulator.py`, `outbound_sanitizer.py` | left |

Compositions: `JobSchedule` is instantiated by `CronManager`; the proactive run
and the heartbeat share `run_cron_agent` inside `ProactiveDispatch`; `Dreaming`
extends `DailyTalk`, whose file turns and dreams write, and `MemoryDecay`;
`Turns` extends `Recall`, and that `MemorySearch`, so that each model call of a
turn searches the memory and is reminded of what its actor may see. Each is one
run over the composed module: what is going on in a behaviour is chosen at its
start, as `SessionDistillation` and `MemoryIndex` do with `Scenarios` and
`Dreaming` and `Turns` with `Openings`. `Turns` and `Dreaming` both contain a
turn: the first follows its history, the second only what it writes to the
daily talk; the two share no file.

The theorems of each module stand in section 5.

## 3. The modules

An action is one stretch of code between two awaits, named after what the code
does there. Where a file is written in several steps, or a process can be
killed between two, the steps are separate actions. Comments over the variables
name the attribute or file each stands for, and `PROJECT.json` maps every
definition to its lines. Operators whose name begins with `Faulty` are the code
with a plausible bug; nothing in the specifications uses them.

**CronManager.** `repo` is the job file, `sched` what APScheduler would fire,
`rt` the semaphore of each job, `states` the `CronJobState` that `get_state`
returns. `ctl` is the operation that holds `_lock` and how far it is: create,
delete, pause, resume, start and stop are each split at their awaits, with the
failing variants. An execution is a slot `r` with its step, and the semaphore
and state object it captured: these are shared by reference in Python and may
be replaced while an execution holds them, so they have identities (`Gens`).
`torn` holds jobs whose last change failed or was cut half-way, where the code
itself leaves file and scheduler apart. APScheduler, the executor and the
repository are external: a firing may come whenever a job is armed, an executor
returns or raises, a repository call succeeds or fails.

**JobSchedule** says the same without files, locks or schedulers: a job has a
durable and an armed mode and they agree unless a change is under way or was
abandoned. `CronManager` implements it under the mapping `Promise`
(`Durable`, `sched`, `Serving`, `Unsettled`).

**ErrorFingerprints.** `log`, `marker` and `fps` are the three files; a scan is
stat, read, mark, update, with writer threads, rotation and a crash in between.
Ages saturate where the code's comparisons no longer tell them apart, so time
needs no bound. `past` records what really happened to each fingerprint, to
compare with what the table says.

**Heartbeat.** `Cycle` is `run_heartbeat_once` up to the turn, one action
because the code has no await before it. The clock is an hour of a short day
and a time zone; dates are relative to today, which keeps the state finite
without a horizon. `Beats` is the number of cycles an hour: the interval is
`heartbeat.every`, which is 30 minutes by default and 10 in
`configs/lightclaw.json`.

**SessionDistillation.** A run reads the state file (`Begin`), awaits the model
twice (`Digest` after the first) and writes note, state and index in that order
(`Write` up to some point, because a failure or a kill may stop it).
`mark_session_summarized` (`Mark`) writes the same state file meanwhile. The
history variables say what really happened to each message
(`fate`) and which messages were put in a note. The modification time in the
state file is left out: with or without it a session without new messages is
skipped. `Shorten` is a save of a file with fewer messages, by the cap of
ephemeral sessions (`run_controller.py:824-843`) or by a compaction: no counter
follows, so that each stands for as many later messages, whose fate is then
"shortened". A shortened file is modelled as its last messages, one at least.
`Scenarios` bounds which sessions, runs, marks and faults meet in one
behaviour.

**ProactiveDispatch.** A run of `run_cron_agent` is gated (`Start`, `Skip`),
written, sent, appended to the session in a load and a save, and answered;
`wait_for` may end it at every step. A delayed timer counts it as unanswered if
the count is what it expects. The user's turn loads the session at its start,
and saves the whole of it at its end, as `RunController` does; its reset of the
count is outside `src/` and taken from the comments of `proactivity.py`. The
activity file (IDENTITY.md) may fail to be read or written: what cannot be read
counts as nothing (`Reading`), and a count that cannot be written stays as it was
(`WriteFails`).

**PidLock.** `file` is the PID file, `at[p]` the step of process `p` in
`app_cmd`: read, check `/proc`, truncate, write, serve, compare, unlink. A
process can be killed at any step, and a freed number may be given to another
program (`strangers`). `Overlap` tells whether two starts may be in progress at
once. The operator's own removal of the file and the port of the web server are
left out.

**Delegation.** A call validates its tasks, makes a semaphore of its limit, and
gathers its workers (`Only` picks the accepted tasks and the rejected ones from
the list, in order); a worker waits, runs, succeeds, fails, times out or is
cancelled with its call. Sessions are named after the second of the call and
the worker's place, as the code does. The reports are joined into one text,
which is cut at DELEGATE_RESULT_MAX_CHARS (`cut`) for the calls that may exceed
it (`Verbose`); without a runner, a call fails. What a cancelled worker saves on its way
out belongs to a finaliser outside `src/`.

**ContextGuard.** One model call, as a sequence of steps over one message list:
the shared budget (`Enforce`), the pairing of tool messages (`Pair`), the
binding of the request and the merging of blocks (`Merge`), and the loop of the
final guard (`KeepHuman`, `Trim`, `EndTrim`, `LastResort`, `Decide`). A size
stands for tokens and characters alike and is, as in `count_message_tokens`,
that of a message's content; `GuardDecidesRight` speaks of contents only. `override` is the list bound to the
request, `messages` the one the guard trims: in the code they are two lists.
The hint of the browser guard, system messages inside the list and the token
cache are left out.

**MemoryIndex.** A coroutine is `index_file` or `delete_file_chunks` at one of
their awaits; a store's answer (`Deleted`, `Upserted`) and the resumption of the
coroutine (`Rewritten`, `Recorded`, `Dropped`) are separate, since a kill may
fall between. `scenario.deeds` lists what may happen to a file and when: while
the process is down, during `_initial_sync`, while a coroutine for that file is
scheduled or under way ("busy"), or otherwise ("quiet"). A behaviour begins by
choosing one of `Scenarios`. What goes wrong with a file is remembered of that
file: `refused` and `unwritten` hold those of which the last deletion of vectors,
or the last change of rows, failed, which the code only logs; `raced` those that
were written too early, while the indexer was at work on them or before
the watcher ran. The properties except these files from the part they spoil, and
nothing else; where a kill or a failing store spoils more, their premise says so.
Chunks forgotten by id and the mode without Qdrant are left out; a text stands
for all its chunks, so that a file is a duplicate as a whole or not at all.

**DailyTalk** is the file of what was said today. `talk` is the date of its
header and its messages; a turn checks whether the file is of another day, takes
the date and reads the file (`ReadTalk`), and writes the whole of it
(`WriteTalk`), since reading and writing are done in threads. `said` is the day
the text was given to the store.

**MemoryDecay** is a module of operators: the type and tier of a line, its
score, what is protected, and which entries are chosen for removal from a file
that has too many. Scores are integers in hundred-thousandths; ages are whole
numbers of half-lives, where powers of two are exact.

**Dreaming.** `dream[d]` is a run of the pipeline, of one of `Kinds`: it begins
with the sources it finds, gets candidates from the model (`LightAnswer`),
relates them and archives the talk (`RemAnswer`), rolls the talk over in a read
and a write, promotes, scores and prunes MEMORY.md, puts the digest of the sessions
into the note (`DistillSessions`), and ends with what the memory manager makes of
the notes for MEMORY.md, the managed files and the status (`EndDream`). The
memory manager is not in the repository: that it adds to MEMORY.md, and only what
it finds in the notes, is an assumption. Two runs, turns, a tool that adds to MEMORY.md
and a user who edits USER.md go on at the same time; a kill ends all but the
files. The model's answers are arbitrary subsets of what it was given, and what
no answer can be made of is nothing. A candidate is a message and the file it
was taken from, since what can be verified depends on both.

**MemorySearch** is a module of operators: what vectors and keywords find, how
they are merged, weighed by date, age, importance and earlier hits, cut at the
threshold and put in order of relevance and diversity; and what becomes of it
without vectors, or without anything but keywords. A score of 1 is 10000; a
chunk is what one query finds of it. How a query is read for dates is left to
`Ranges`.

**Recall** is a module of operators: the actor of a request, the sections of
the answer of `memory_search`, how they are parsed into candidates, the filters,
and the block with its limited room. A text is a name; `SecretTexts` are those
in which the pattern of secrets is found, `Start` says which begin alike.

**Turns.** `turn[t]` is the step of a turn and what it holds: the history it
has read, the chat entry, the messages of the graph and its output, the summary,
whether a compaction is due, the cancellation flag, the text streamed and shown,
and the reminders. The text of model call `n` has the number `2n`, and a text
that was streamed in its place and differs from it the number below: of the
latter, `bridge.py:572-579` sends the client both. `held` is the bridge the shared engine session keeps,
`stopped` the flag of the shared middleware. A turn loads, takes its chat entry,
calls the model and its tools, waits for approvals, finishes, checks that its
chat is still there, writes the file, and may condense it and save again.
Cancellation, failure, a kill and the deletion of a chat may come in between;
`Reinforce` writes access counts in the background, which change what later
calls find. `Openings` chooses the turns of a behaviour, the history before it,
the settings and what the search answers. A message counts as one token. The
finaliser that marks a turn as succeeded is outside `src/`; as its use in
`run_controller.py` requires, only a succeeded turn is saved.

## 4. What the runs check

With the time TLC takes on two workers where it is long:

| Run | Question | Bounds, and why they are enough |
|---|---|---|
| `CronExecutions` (3 min) | permits, owner of "running", outcome of an execution; executions end and disarmed jobs drain | 1 job, 2 executions, 3 identities: two executions are enough to hold an old and a new semaphore, to queue for one, or to finish after a delete. Limits above 1 are left to the proof of `PermitsAccounted` |
| `CronStore` | file and scheduler; refinement | 2 jobs, 1 execution, invalid definitions, failures: operations on one job must leave the other alone |
| `FingerprintScan` | counts, lines, cooldown | 2 fingerprints and a table of 1 force eviction; 3 lines are two batches and a line between; cooldown 4 > life time 3 lets an entry expire within its cooldown |
| `HeartbeatDays` | windows and streaks | a day of 6 hours with two cycles each, two of which have another UTC date, with active hours across midnight |
| `Distill` (2 min) | what is counted and what is repeated, search, progress | two sessions with one run and a mark, and one session with two runs, a mark and a fault: the two reasons for trouble, names and overlap, are independent of each other; and one session whose file is shortened before or behind a run |
| `ProactiveRuns` | count, what a denied run leaves, end of runs | 2 gated runs, a heartbeat, a user turn, a crash: a timer, a newer run and a reply can stand in any order |
| `PidSequential` | mutual exclusion, the file names the server | 3 processes, 3 numbers, no overlapping starts |
| `DelegateCalls` (3 min) | limit, reports, sessions, end | 2 calls of up to 4 tasks, two of them with one id, 2 seconds: a limit that lets two workers in and one that lets in one; the results of one call are too long |
| `GuardCalls` (30 s) | question, pairing, budget | 5088 inputs: seven shapes of history, each size on either side of each limit |
| `Index` (1 min) | staleness, hashes, removal, dated files | a dated file and another, 2 texts and the blank one, 2 coroutines at once, 2 scheduled; six scenarios: kills with failing embeddings and upserts, with refused deletions of vectors, with failing rows; one event for each write; repeated events; writers that do not wait. All change files while the process is down too |
| `TalkAndDreams` (2 min) | days, secrets, archive, dry runs, what MEMORY.md and USER.md may lose | 2 turns that say the same, 2 dreams of any kind, 2 days, a kill: a turn and a dream can each stand on either side of midnight and of each other's write. Three openings: a profile the user is editing; nothing said yet; a full memory that a tool adds to, with a line that contains the text of another |
| `Turns` (2 min) | histories, bridges, cancellation, replies, reminders, end of turns | 2 turns at a time, of one session or of two, ordinary and ephemeral, with a kill, a deletion, cancellations, limits of 1 and 2 model calls and a history that is due for compaction after one turn: with two, either can save between any two steps of the other. A turn alone searches 4 chunks in every mode, under six settings and as owner, system, group member and nobody |

Every module with variables has its type invariant (`TypeOK`, with a prefix where
two modules share a proof module). Those of `CronManager`, `Heartbeat`,
`ContextGuard` and `SessionDistillation` are proved; they are no property of a run, for they say little about the code. Some properties are conjunctions of named
parts, each with its comment, where one question has several sides:
`CountedOnce`, `OrderlyCall`, `DeniedRunsLeaveNothing`, `IndexFollowsDisk`,
`GuardDecidesRight`, `OneNamedServer`, `ExecutionsDrain`, `ReviewsComeBack`.

`VIEW LiveView` (`CronStore`) identifies states that differ only in semaphores
and state objects nobody can reach. Symmetry is used over jobs and over
fingerprints, and in no run with a liveness property. The interchange of
identities (`Gens`) is not a symmetry; taking the lowest free one replaces it.

`CHECK_DEADLOCK FALSE` stands where the modelled thing really ends:
`ProactiveDispatch` (a bounded set of runs), `Delegation` (the calls end and the
clock stops), `ContextGuard` (a call is sent or blocked), `Dreaming` and `Turns`
(all turns and dreams are over).

Fairness, and what justifies it:

* `CronManager`: the event loop resumes whatever can be resumed (weak fairness
  of the operation that holds the lock and of each execution), and executors
  return. APScheduler's firings and requests are not fair.
* `Heartbeat`: time passes, a turn ends by its timeout, and the interval trigger
  cannot miss the same hour of every day (strong fairness of `Cycle` at each
  hour).
* `SessionDistillation`: the nightly job comes again, and a model asked for
  ever answers at some time (strong fairness of a run that completes).
* `ProactiveDispatch`: only that `wait_for` fires; neither the model, the
  channel nor the session store is assumed to answer.
* `Delegation`: each worker's own timeout, and that the loop starts and gathers
  workers; not the timeout of the call.
* `MemoryIndex`: Qdrant and the embedding service answer or fail, and the loop
  begins what is scheduled.
* `Turns`: a turn that has begun goes on (weak fairness of its steps, among them
  the timeout of an approval, `EndStream`). Approvals, cancellations, failures,
  kills and deletions are not fair. The fairness of `CallModel` is written out,
  since evaluating ENABLED of a memory search takes TLC too long.
* `Dreaming` has no liveness property: the pipeline promises none, a run is over
  at any failure.

Each property of a passing run is shown to depend on the code by a mutant: the
definition it leans on is replaced by its `Faulty` version and TLC finds the
property violated.

### 4.1 Where the code does not keep what it says

The modules contain the following behaviours of the code, which a reader may not
expect. The properties above are stated so as to hold beside them, with the
exception in their premise:

* Job service: a replaced job starts with a new semaphore, so it may exceed its
  limit while executions that hold the old one go on (`manager.py:428`).
* Log sensor: a fingerprint resolved in its cooldown is reported in it;
  heartbeats in which the log did not grow do not count as absence; after a
  rotation the log is read from the old position.
* Heartbeat: a UTC date is compared with the local one, so that every cycle of an
  hour in which they differ may be a heavy heartbeat; a streak that reached the
  threshold is itself a trigger and does not end.
* Distillation: a mark is lost when a run saves the state it read earlier;
  sessions are marked by parts of names, and a counter that is so set ahead of its
  session comes back with the next scan, together with messages that were marked
  meanwhile; text beyond the budget is counted as
  done; the row of a session holds its last digest only. A file that became shorter
  keeps its counter, and as many new messages are passed over unread
  (`session_distillation_service.py:346-357`).
* Proactivity: a reply at count zero is not seen by the delayed increment; a
  turn that was running saves over the message; a timeout after `send_event` is
  reported like a skipped turn, although the text was delivered
  (`agent_task.py:289`, `:330`, against the docstring at `:66-67`), an error of
  `send_event` like a sent message. A count that cannot be written is not counted;
  a file that cannot be read, or was emptied, begins again at nothing.
* PID file: two starts at once both pass the check; an empty file stops every
  start; so does a number that another program with "lightclaw" in its command
  line has got.
* Delegation: nothing keeps the ids of two tasks of a call apart, and the report
  of one may then stand in the place of the other; calls of one second share sessions; a rejected task beside an
  accepted one is reported twice; the timeout of the call drops the results that
  are there; the joined text is cut at DELEGATE_RESULT_MAX_CHARS, which may take
  the reports of later tasks away (`delegate_readonly_tasks.py:297-307`).
* Final guard: it counts and trims one list of messages, and the request carries
  another, so that what it dropped is sent all the same (`coordinator.py:957`),
  though a comment promises the limit (`constant.py:270`); system message and
  tool schemas are not counted. Neither budget counts the arguments of tool
  calls: they are estimated for the log and, at `coordinator.py:940`, taken off
  again from what is reserved, so that a request of long calls may exceed the
  shared budget by their size. The user's
  message may be gone before the guard looks; reminders are looked for under tags
  they do not have.
* Index: repeated events may make two runs disagree about a duplicate; a refused
  upsert is recorded as done; a refused deletion is only logged, so that old vectors
  stay beside the new ones until the next one is accepted, and rows likewise; the older of two overlapping runs may write last;
  files removed while the process is down, or changed between `_initial_sync`
  and the start of the watcher, are missed. A file that `memory_forget_by_file`
  reports as deleted "and its vector chunks" comes back if `index_file` had read
  it before (`memory_query_service.py:265`). A kill between the deletion of
  vectors and that of the hash leaves a hash without vectors.
* Daily talk: a turn and a dream may each overwrite what the other wrote since
  the read; a text after a message with attributes is never taken for a
  duplicate; the text of a turn is not stored at all if the file was of another
  day and the context cannot be built.
* Dreaming: the talk is archived and emptied before the candidates taken from it
  are verified against it, so that what was said before midnight is not promoted;
  candidates of a daily note are looked for beside the talk, where no note is.
  The status of a full run drops the fields of the light ingest. Every line
  of MEMORY.md that contains the text of a pruned entry goes with it, without a
  place in the archive. AGENTS.md is given the sentence that sensitive information
  is never written to any file (`dreaming_pipeline.py:1163`); the filters look at the text and
  the summary of a candidate, not at its keywords (`:1304-1325`) nor at the reason and the
  conflict it is marked with (`:1327-1410`), and MEMORY.md is written once more at the end from
  notes that hold the archived talk as it was (`:1042-1047`).
* Turns: of two overlapping turns of a session the later save wins; the check
  that the chat is still there and the save are two steps, so that a deleted
  chat's file may come back; an ephemeral turn that answers "[SKIP]" appends the
  last earlier answer once more; an answer that differs from the text that was
  streamed is sent after it (`bridge.py:572-579`); a summary is cut at 12000 characters for good.
* Recall: the first session of an answer stands in the section of the heading, is
  parsed as of unknown source and passes the filter for old metadata; the notice
  "Memory search failed." is shown like a memory; MEMORY.md has score 0 and is
  the first to find no room; the daily talk passes no filter; whether onboarding
  is pending is decided when the injector is made, not when it is asked.
* Search: hits by keyword evade the exclusions by payload; a chunk found by
  keywords only is counted as met for the first time.

## 5. What is proved

All theorems hold for any finite or infinite sets of jobs, definitions,
processes, numbers, turns, dreams, sessions, calls, files and texts that satisfy
the named assumptions, which TLC evaluates on each run. What they ask for is
what the code grants: distinct names for nothing and something
(`NoneAssumption`, `EntryAssumption`, `IndexAssumption`), positive limits and
bounds (`BoundsAssumption`), a clock (`ClockAssumption`),
finitely many execution slots and proactive runs (`RunsAssumption`,
`ActorsAssumption`: only then do permits and counts add up to a number), lists
of tasks that are sequences (`InputsAssumption`), sizes that are numbers and
messages numbered by their places (`BudgetAssumption`), histories that a behaviour
begins with and that hold no message twice (`TurnsAssumption`), finitely many
chunks in the index, with numbers for what is known of them (`ChunksAssumption`),
two files of the answer and a notice of failure that are no chunk (`RecallAssumption`),
and a user who writes no marker of the managed section into USER.md
(`DreamAssumption`; a file with one marker alone is one the code appends to each
time, and no theorem speaks of it).

**Job service** (`ServiceProofs`)

* **`Types`.** `TypeOK` alone is not inductive: that
  `Register` writes a definition needs to know which operation holds the lock
  with which arguments (`ControlInv`), and that `Wake` and `Finish` find a
  semaphore and a state object needs to know what an execution in each step
  refers to (`ExecutionInv`). `TypeInv` is the conjunction.
* **`PermitsAccounted`**: `SemaphoreAccounting`, strengthened by `QuietInv`
  (nothing executes while the service is down). The heart is that a new
  semaphore takes an identity nobody uses, so it has no holders
  (`NewSemaphoreAccount`), and that an execution releases the semaphore it took,
  not the one that is in the table by then (`ReleaseAccount`).
* **`RunningIsOwned`**: `RunningHasOwner`, by `OwnerInv`. A state object may be
  handed out again after a restart, so it must be known that none says "running"
  while the service is down (`NothingMarked`).
* **`OutcomeReflected`**: `OutcomeIsReflected`. An execution leaves "executing"
  by `Finish` only, as long as the service stays up (`ExecutionEnds`), and
  `Finish` writes the object that `get_state` will find.
* **`StoreMirrored`**: `SchedulerMirrorsStore`, by `MirrorInv`: what the
  operation that holds the lock has already done to its job (`OperationInv`),
  and that a job whose upsert has not been written is still armed as stored
  (`InStep`), which the failing path of the upsert relies on.
* **`Implements`**: every step of `CronManager` is a step or a stutter of
  `JobSchedule`, one lemma for each group of actions; executions stutter.
* **`Agreement`, `SettledJobsFire`**: whatever implements `JobSchedule` has every
  settled job armed as its durable mode says, so the job service has, too: the
  second is the first applied to `Implements`.

**Instance lock** (`ServiceProofs`)

* **`LockHolds`, `UnlinksOwn`**: for any number of processes,
  under the assumption that no two starts overlap (`~Overlap`; without it two
  processes both find no file), at most one serves, the file names it, and only
  the process it names unlinks it. `LockInv` follows one start: the number it
  read is that of every process that still holds the lock, and once it goes on to
  truncate there is none.

**Log sensor** (`HeartbeatProofs`)

* **`DistinctCounted`, `EarlyReports`, `EveryLineRead`**: `CountsDistinct`,
  `EarlyReportIsExcused`, `NoLineSkipped`. What one scan makes of its lines is a
  fold; `Scanned` says for any number of lines what it yields: the count is
  that of the fingerprints reported, each was worth reporting when the scan began,
  and the table holds an entry that no later line finds worth reporting. With it
  `Memory` is inductive: the table remembers the last report of a fingerprint
  unless that is as old as the cooldown or the fingerprint was resolved or
  dropped. `Reached` follows marker, size and batch through a scan during which
  lines are appended.

**Heartbeat cycle** (`HeartbeatProofs`)

* **`BeatTypes`**: `BeatTypeOK`, which is inductive.
* **`HeavyRationed`**: `HeavyOncePerDate`, for any length of day, number of cycles
  an hour, time zone and active hours. By `HeavyInv`, each heavy heartbeat of the
  day was one of the cycles (`OddCycles`) of the hours in which the saved date is
  not the local one (`OddHours`), except for the one that saved the local date:
  none follows that before midnight or before an odd hour saves another.

**Proactivity and agent task** (`ProactiveProofs`)

* **`SilenceNoticed`**: `SilenceIsNoticed`, by `SilenceInv`: a timer that saw no
  word of the user since it was set expects a count that was not reset since, so
  that the count can only have grown.
* **`DeniedRuns`**: `DeniedRunsLeaveNothing`, by `CountInv` (each timer belongs to a run
  of its own that was reported as dispatched, and the count is backed by the
  others) and `TraceInv`: not only the session file but every history that a turn
  or a run has loaded, and will save, holds no run that was denied.

**Delegation** (`DelegationProofs`)

* **`ContextsAreFresh`**: `FreshContext`, by `Contexts`: a message on disk comes
  from a worker that is done, of a call made in the second of its session, so that
  what a worker loads is of another call of its second.
* **`CallsAreOrderly`**: `OrderlyCall`. The limit holds step by step
  (`WithinLimit`); what a call returns is by `Answers` one of three forms, of which
  `AnswersMatch` shows that each accepted task finds the report of its own worker
  in its place, however accepted and rejected tasks alternate, as far as the joined
  text was not cut. The proof brought
  to light that this needs tasks with different ids, which the code does not
  enforce (section 4.1).

**Model input** (`PromptProofs`)

* **`GuardTypes`, `QuestionKept`, `Pairs`, `DecidesRight`**: `GuardTypeOK`,
  `QuestionSurvivesGuard`, `SentIsPaired`, `GuardDecidesRight`, for histories of
  any length and any sizes and budgets, by `GuardInv`. Every step keeps the
  messages in the order of the history (`Sorted`), so that the last message of the
  user is the one with the highest number, and a round drops others only
  (`DropFacts`). Pairing is a matter of sets: stripping what is not valid takes
  no identifier away that is, and drops no message that has one
  (`PairedFacts`). The contents that the budget leaves fit, and pairing makes nothing larger
  (`PickTotal`). After the last resort the list is within the limit or has the
  question only.

**Session distillation** (`PromptProofs`)

* **`DistillTypes`, `Counts`, `SearchFinds`**: `TypeOK`, `CountedOnce` and
  `SearchFollowsNotes`, for any number of sessions and overlapping runs, any
  budgets and any matching of names, by `DistillInv`. What the state file counts
  has met a fate (`Explained`), if only in advance: a message that is not said
  yet may be counted through another session's name (`Ahead`). A run that waits
  for the model holds a scan of the state file it has read (`Scanned`): whatever
  it will count beyond that file is in its payload or among its losses, and it
  takes a counter back only where that was ahead. All of this is said of the place
  up to which a counter leads (`Upto`), which a file that becomes shorter moves
  over later messages, for the state file and for what a run has read of it alike
  (`Lifts`); those messages have met that fate. What the note has is counted
  (`NotedCounted`) unless a fault, a race, a swept counter or a shortened file
  excuses it.
  The proof brought the last excuse to light: a mark may set a counter ahead of
  its session, the next scan sets it back to the number of messages, and a message
  marked in between is then taken once more although nothing failed and
  no file was overwritten. Bounds of three messages, two marks and one run show
  it; those of `Distill` are smaller.

**Index** (`IndexProofs`)

* **`IndexIsFaithful`**: `IndexFollowsDisk`, for whatever kills, failures and
  writers a scenario allows. By `IndexInv`, of every file that was not written too
  early: a coroutine holds the text the file still has, and from the step on that
  cleans them the stores have nothing else of it, unless they refused (`RunOk`);
  if nobody works on it, nor has it still to be checked, it is up to date
  (`Good`); its hash stands for nothing older (`HashOk`), and for finished work
  where no writer comes back to a file under work (`OneAtATime`), since then a
  file has one coroutine (`Alone`); and what is gone is under removal or has left
  nothing (`Settles`). Where no operation may fail, none is excused
  (`Obliging`). Two coroutines over one file at once, which a repeated event allows, may
  take from each other what they wrote, but not bring back an older text:
  that is what a step must leave as it is for the others (`Mild`, `Peer`).

**Dreaming and daily talk** (`DreamingProofs`)

* **`DaysStayApart`**: `TalkOfOneDay`, by `DaysInv`. The
  property speaks of the files only; what makes it inductive is that every turn
  between its read and its write holds a file whose messages were said on the
  date of its header, and has itself spoken on the date it will write
  (`DatedTurn`), and that whoever stands in a file has spoken and will not again
  (`Unsaid`). `StillDated` carries this over every step that makes nobody
  unspoken.
* **`SecretsNeverWritten`**: `SecretsStayOut`, by `SecretInv`: the files of
  candidates hold none whose text looks like a secret, and from the filter to the
  promotion a run holds none (`CleanDream`), although the talk and the notes it
  reads do. What a dream distills of the notes is the one way by which such a text
  comes into MEMORY.md.
* **`DryRunsAreDry`, `OnlyForgettable`**: `DryRunsLeaveNoTrace` and
  `KeptUnlessForgettable`, by `HeldInv`: a dry run never comes to the steps that
  write, and what a run has scored are lines and messages that were classified
  (`ChosenAreForgettable`).
* **`NothingDiscarded`**: `DiscardedIsArchived`, by `Kept`: while a dream stands
  between its archive and its rollover, each message of the talk is in the note of
  its day or came into the talk after some dream had archived it (`late`).
* **`UserTextKept`**: `UserTextSurvives`, by `ProfileInv`: USER.md holds lines of
  the user only, or these with one section among them (`WellKeptIs`). The first
  markers of such a text are those of its section, so that bringing it up to date
  puts the section where it was (`HoldingOwn`), and a line the user adds comes last,
  behind the section or not (`AppendKeeps`).

**Turns** (`TurnsProofs`)

* **`MessagesStayHome`, `CancellationsStayHome`**: `OwnMessages`
  and `CancelIsOwn`, for any number of turns and sessions, any limits and any
  answers of the search, by `ApartInv`: each record of a turn (history read,
  messages, output, summary) holds messages of its session (`Sound`), each file
  too, a turn's flag was set by somebody who asked it to stop, and the flag of
  the shared middleware never is. That the output is taken from the turn's own
  bridge (`BridgeOf`) is where the shared engine session enters.
* The next three share `TurnSteps`: whatever the service does, one turn stays, or
  takes one of a dozen steps that are described by its record alone
  (`TurnStep`); what others do reaches it only through the file it loads.
* **`RepliesShownOnce`**: `ReplyShownOnce`, by `ShownInv`: no text was shown
  twice, both texts of a call only if the turn is answered by it (`Single`), the
  notice of the limit comes last, and an output is there only when its text was
  shown.
* **`SavesKeepWhatWasRead`**: `KeepsWhatItRead`, by `HeldInv`: until a turn's end its
  messages contain the history, and afterwards messages and summary contain it
  together with what was said, except for what the limit of the history or of
  the summary pushes out (`Way`).
* **`EphemeralTurnsAreQuiet`**: `QuietEphemeral`, by `TidyInv`. The files hold
  `Public` messages only, which are those before the behaviour, those of ordinary
  turns and the answers of ephemeral ones that have come to their save; and
  none of them twice, unless an ephemeral turn of the session was answered by a
  marker (`Excused`), in which case the code does repeat an answer (section 4.1).
  A turn carries the same over loading, trimming and compaction (`Tidy`).
* **`RemindersSuitTheActor`**: `RecallIsRight`, for any index, sessions, settings
  and room, whatever the search answers and however often it is asked. By
  `RecallInv` the block of a turn is what `Reminders` makes, with the settings of
  the behaviour, of what the turn has heard, and that is of the index, of a session
  or the notice of failure (`Audibles`). Each mode of the search yields chunks of
  the index (`SearchHits`), sorting and deduplication keep what they are given
  (`FallingFacts`, `PickFacts`), what remains as a candidate may be shown to the
  actor (`Showable`), and what the loop of the room leaves out would not have fitted,
  since the total only grows (`FittingFull`).

Induction over data is not available as such: the library's theorems of
induction take the property as an operator, which no prover here can
instantiate. `HeartbeatProofs`, `DelegationProofs`, `PromptProofs` and `TurnsProofs`
derive induction over the numbers for a property that is given as a set, from the
well-foundedness of strict inclusion among finite sets (`Induction`, `UpTo`);
`PromptProofs` and `TurnsProofs` also derive that a function defined number after
number exists (`Iterates`). That is enough for folds over sequences and for the
functions by which `MemorySearch` and `Recall` pick, sort and fit (`Pick`,
`Falling`, `Diverse`, `Total`, `Fitting`).

Every safety and action property of the runs is stated by a theorem. Only
model-checked: all liveness, including `DatedFound` (the prover does not handle
fairness and ENABLED). What a line or a hit scores (`MemoryDecay`, the weights
of `MemorySearch`) is evaluated by the runs, and the theorems hold whatever it is.

## 6. What is not modelled

`PROJECT.json` lists every part with its status. Left for the modules planned in
section 2: built-in jobs and outbound text. Left out of what is modelled: the
commands a turn answers without the model, the token report and the fact
extraction behind a turn, the scope filters of the search, which no caller sets,
the text of the dreaming report, the reader tools of the heartbeat, the daily
analysis of activity. Left out for good: floating-point rounding (scores are
integers), prompts and wording, construction of clients and settings, parsing of
Markdown and of model output, whose outcomes are sets to choose from.

Not modelled because nothing in the repository calls them: `MemoryPruner` with
the `DecayScorer.score_sync` it uses, `condense_if_needed` and `compact_memory_md_if_needed`
of the daily talk store, `SessionFactory._rollover_daily_talk`.

The packages the code imports but the repository does not contain (the
executor and repository of the cron service, channels, chat manager, session
store, memory manager, LangGraph, APScheduler, Qdrant) are modelled from how `src/` uses them
and marked external.
