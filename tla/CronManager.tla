---------------------------- MODULE CronManager ----------------------------
(***************************************************************************)
(* The job service of src/lightclaw/app/cron/manager.py: user jobs kept in *)
(* a repository file, armed in an APScheduler instance, and executed by    *)
(* asyncio tasks under one counting semaphore per job.                     *)
(*                                                                         *)
(* One action is one stretch of a coroutine between two suspension points. *)
(* The control operations (create/replace, delete, pause, resume, start,   *)
(* stop) hold CronManager._lock across their awaits: ctl is the operation  *)
(* that holds it.  Executions (run_job and _scheduled_callback) never take *)
(* the lock, so they interleave with the middle of every operation.        *)
(*                                                                         *)
(* Semaphores and CronJobState objects are shared by reference, and an     *)
(* execution may outlive the table entry it was taken from.  They have     *)
(* identities (Gens): a new object gets the lowest one that nothing refers *)
(* to any more, when Python would have freed the object it named.          *)
(***************************************************************************)
EXTENDS Naturals, FiniteSets

CONSTANTS
  Jobs,      \* job ids
  Runs,      \* slots for executions in progress
  Gens,      \* identities of a job's semaphores and CronJobState objects
  Specs,     \* the job definitions an API client may submit
  None       \* no reference

Definition == [enabled: BOOLEAN, valid: BOOLEAN, limit: Nat \ {0}]

(* Definitions marked "Faulty" are the code with a bug in it; nothing uses  *)
(* them but the mutation runs, which must find a property violated.        *)
FaultyWithEnabled(d, b) == d

(* A definition with its enabled flag set, as model_copy(update=...) does. *)
WithEnabled(d, b) == [enabled |-> b, valid |-> d.valid, limit |-> d.limit]

ASSUME SpecsAssumption ==
  /\ Specs \subseteq Definition
  /\ \A d \in Specs, b \in BOOLEAN : WithEnabled(d, b) \in Specs
ASSUME RunsAssumption == IsFiniteSet(Runs)
ASSUME GensAssumption == Gens \subseteq Nat /\ 0 \in Gens
ASSUME NoneAssumption == None \notin Jobs \cup Specs \cup Nat

VARIABLES
  life,      \* the process: "down", "booting", "up" or "stopped"
  repo,      \* [Jobs -> Specs or None]: the repository file, survives a crash
  sched,     \* [Jobs -> Mode]: the jobs APScheduler holds
  rt,        \* [Jobs -> Gens or None]: CronManager._rt
  sem,       \* [Jobs -> [Gens -> semaphore]]
  states,    \* [Jobs -> Gens or None]: CronManager._states
  status,    \* [Jobs -> [Gens -> Status]]: CronJobState.last_status
  pc,        \* [Runs -> Step]: where each execution stands
  kind,      \* [Runs -> Kind]: who started it
  job,       \* [Runs -> Jobs or None]: the job it executes
  lim,       \* [Runs -> Nat]: max_concurrency of the definition it loaded
  held,      \* [Runs -> Gens or None]: the semaphore it waits for or holds
  obj,       \* [Runs -> Gens or None]: the CronJobState it updates
  ahead,     \* [Runs -> SUBSET Runs]: waiters of that semaphore served first
  ctl,       \* the operation holding CronManager._lock
  torn       \* history: jobs whose last change raised half-way

cvars == <<life, repo, sched, ctl, torn>>       \* only operations change these
tables == <<rt, sem, states, status>>           \* both do
slots == <<pc, kind, job, lim, held, obj, ahead>>   \* only executions do
vars == <<cvars, tables, slots>>

Mode == {"absent", "active", "paused"}
Life == {"down", "booting", "up", "stopped"}
Status == {"none", "running", "success", "error"}
Step == {"idle", "loading", "ready", "queued", "executing"}
Kind == {"scheduled", "manual"}
Ops == {"free", "start", "upsert", "register", "erase", "enable", "disable"}

Semaphore == [limit: Nat, permits: Nat]
FreshSemaphore(n) == [limit |-> n, permits |-> n]

Control == [op: Ops, job: Jobs \cup {None}, spec: Specs \cup {None}]
Free == [op |-> "free", job |-> None, spec |-> None]

TypeOK ==
  /\ life \in Life
  /\ repo \in [Jobs -> Specs \cup {None}]
  /\ sched \in [Jobs -> Mode]
  /\ rt \in [Jobs -> Gens \cup {None}]
  /\ sem \in [Jobs -> [Gens -> Semaphore]]
  /\ states \in [Jobs -> Gens \cup {None}]
  /\ status \in [Jobs -> [Gens -> Status]]
  /\ pc \in [Runs -> Step]
  /\ kind \in [Runs -> Kind]
  /\ job \in [Runs -> Jobs \cup {None}]
  /\ lim \in [Runs -> Nat]
  /\ held \in [Runs -> Gens \cup {None}]
  /\ obj \in [Runs -> Gens \cup {None}]
  /\ ahead \in [Runs -> SUBSET Runs]
  /\ ctl \in Control
  /\ torn \in SUBSET Jobs

-----------------------------------------------------------------------------
(* References.                                                             *)

UsesSem(r, j, g) == job[r] = j /\ held[r] = g
UsesObj(r, j, g) == job[r] = j /\ obj[r] = g

UnusedSem(j, g) == rt[j] # g /\ \A r \in Runs : ~UsesSem(r, j, g)
UnusedObj(j, g) == states[j] # g /\ \A r \in Runs : ~UsesObj(r, j, g)

NewSem(j, g) == UnusedSem(j, g) /\ \A h \in Gens : UnusedSem(j, h) => g <= h
NewObj(j, g) == UnusedObj(j, g) /\ \A h \in Gens : UnusedObj(j, h) => g <= h

Waiters(j, g) == {r \in Runs : UsesSem(r, j, g) /\ pc[r] = "queued"}
Holders(j, g) == {r \in Runs : UsesSem(r, j, g) /\ pc[r] = "executing"}

(* How the scheduler should hold a job that is stored as d.                *)
Armed(d) == IF d = None THEN "absent"
            ELSE IF d.enabled THEN "active" ELSE "paused"

-----------------------------------------------------------------------------
(* The process.  A crash, or the end of a shutdown, loses everything but   *)
(* the repository file.                                                    *)

Init ==
  /\ life = "down"
  /\ repo = [j \in Jobs |-> None]
  /\ sched = [j \in Jobs |-> "absent"]
  /\ rt = [j \in Jobs |-> None]
  /\ sem = [j \in Jobs |-> [g \in Gens |-> FreshSemaphore(1)]]
  /\ states = [j \in Jobs |-> None]
  /\ status = [j \in Jobs |-> [g \in Gens |-> "none"]]
  /\ pc = [r \in Runs |-> "idle"]
  /\ kind = [r \in Runs |-> "manual"]
  /\ job = [r \in Runs |-> None]
  /\ lim = [r \in Runs |-> 0]
  /\ held = [r \in Runs |-> None]
  /\ obj = [r \in Runs |-> None]
  /\ ahead = [r \in Runs |-> {}]
  /\ ctl = Free
  /\ torn = {}

LoseMemory ==
  /\ sched' = [j \in Jobs |-> "absent"]
  /\ rt' = [j \in Jobs |-> None]
  /\ sem' = [j \in Jobs |-> [g \in Gens |-> FreshSemaphore(1)]]
  /\ states' = [j \in Jobs |-> None]
  /\ status' = [j \in Jobs |-> [g \in Gens |-> "none"]]
  /\ pc' = [r \in Runs |-> "idle"]
  /\ kind' = [r \in Runs |-> "manual"]
  /\ job' = [r \in Runs |-> None]
  /\ lim' = [r \in Runs |-> 0]
  /\ held' = [r \in Runs |-> None]
  /\ obj' = [r \in Runs |-> None]
  /\ ahead' = [r \in Runs |-> {}]
  /\ ctl' = Free
  /\ torn' = {}

Crash ==
  /\ life # "down"
  /\ life' = "down"
  /\ LoseMemory
  /\ UNCHANGED repo

(* start(): the lock is taken and the repository is being read.            *)
StartBegin ==
  /\ life = "down"
  /\ life' = "booting"
  /\ ctl' = [Free EXCEPT !.op = "start"]
  /\ UNCHANGED <<repo, sched, torn, tables, slots>>

(* start(): the repository was read and every job in it can be registered. *)
StartDone ==
  /\ ctl.op = "start"
  /\ \A j \in Jobs : repo[j] # None => repo[j].valid
  /\ life' = "up"
  /\ ctl' = Free
  /\ sched' = [j \in Jobs |-> Armed(repo[j])]
  /\ rt' = [j \in Jobs |-> IF repo[j] = None THEN None ELSE 0]
  /\ states' = rt'
  /\ sem' = [j \in Jobs |->
               IF repo[j] = None THEN sem[j]
               ELSE [sem[j] EXCEPT ![0] = FreshSemaphore(repo[j].limit)]]
  /\ UNCHANGED <<repo, status, torn, slots>>

(* start(): _build_trigger rejects a stored job.  The exception leaves     *)
(* start(), the application's lifespan fails, and the process exits.       *)
StartFails ==
  /\ ctl.op = "start"
  /\ \E j \in Jobs : repo[j] # None /\ ~repo[j].valid
  /\ life' = "down"
  /\ LoseMemory
  /\ UNCHANGED repo

(* stop(): the scheduler is shut down, and with it the scheduled runs are  *)
(* cancelled (CancelRun); runs started by run_job go on until the exit.    *)
Stop ==
  /\ life = "up"
  /\ ctl = Free
  /\ life' = "stopped"
  /\ sched' = [j \in Jobs |-> "absent"]
  /\ torn' = {}
  /\ UNCHANGED <<repo, ctl, tables, slots>>

-----------------------------------------------------------------------------
(* Control operations: create_or_replace_job.                              *)

PutBegin(j, d) ==
  /\ life = "up"
  /\ ctl = Free
  /\ ctl' = [op |-> "upsert", job |-> j, spec |-> d]
  /\ UNCHANGED <<life, repo, sched, torn, tables, slots>>

(* repo.upsert_job returned: the definition is stored before it is checked. *)
Upsert ==
  /\ ctl.op = "upsert"
  /\ repo' = [repo EXCEPT ![ctl.job] = ctl.spec]
  /\ ctl' = [ctl EXCEPT !.op = "register"]
  /\ UNCHANGED <<life, sched, torn, tables, slots>>

(* repo.upsert_job raised: nothing was written.                            *)
UpsertFails ==
  /\ ctl.op = "upsert"
  /\ ctl' = Free
  /\ UNCHANGED <<life, repo, sched, torn, tables, slots>>

(* _register_or_update first replaces the job's semaphore.                 *)
NewSemaphore(j, n) ==
  \E g \in Gens :
    /\ NewSem(j, g)
    /\ rt' = [rt EXCEPT ![j] = g]
    /\ sem' = [sem EXCEPT ![j][g] = FreshSemaphore(n)]

(* self._states.get(id, CronJobState()), stored back under the same id.    *)
KeepState(j, o) ==
  /\ IF states[j] # None THEN o = states[j] ELSE NewObj(j, o)
  /\ states' = [states EXCEPT ![j] = o]

Register ==
  /\ ctl.op = "register"
  /\ ctl.spec.valid
  /\ NewSemaphore(ctl.job, ctl.spec.limit)
  /\ sched' = [sched EXCEPT ![ctl.job] = Armed(ctl.spec)]
  /\ \E o \in Gens :
       /\ KeepState(ctl.job, o)
       /\ status' = IF states[ctl.job] = None
                    THEN [status EXCEPT ![ctl.job][o] = "none"] ELSE status
  /\ ctl' = Free
  /\ torn' = torn \ {ctl.job}
  /\ UNCHANGED <<life, repo, slots>>

(* _build_trigger raised: the previous registration, if any, stays armed.  *)
RegisterFails ==
  /\ ctl.op = "register"
  /\ ~ctl.spec.valid
  /\ NewSemaphore(ctl.job, ctl.spec.limit)
  /\ ctl' = Free
  /\ torn' = torn \cup {ctl.job}
  /\ UNCHANGED <<life, repo, sched, states, status, slots>>

-----------------------------------------------------------------------------
(* Control operations: delete_job, pause_job, resume_job.                  *)

DeleteBegin(j) ==
  /\ life = "up"
  /\ ctl = Free
  /\ sched' = [sched EXCEPT ![j] = "absent"]
  /\ states' = [states EXCEPT ![j] = None]
  /\ rt' = [rt EXCEPT ![j] = None]
  /\ ctl' = [op |-> "erase", job |-> j, spec |-> None]
  /\ UNCHANGED <<life, repo, sem, status, torn, slots>>

FaultyErase ==
  /\ ctl.op = "erase"
  /\ ctl' = Free
  /\ torn' = torn \ {ctl.job}
  /\ UNCHANGED <<life, repo, sched, tables, slots>>

Erase ==
  /\ ctl.op = "erase"
  /\ repo' = [repo EXCEPT ![ctl.job] = None]
  /\ ctl' = Free
  /\ torn' = torn \ {ctl.job}
  /\ UNCHANGED <<life, sched, tables, slots>>

(* scheduler.pause_job / resume_job raise for a job the scheduler does not *)
(* hold, before anything changed: then there is no step at all.            *)
SwitchBegin(j, op) ==
  /\ life = "up"
  /\ ctl = Free
  /\ sched[j] # "absent"
  /\ sched' = [sched EXCEPT ![j] = IF op = "enable" THEN "active" ELSE "paused"]
  /\ ctl' = [op |-> op, job |-> j, spec |-> None]
  /\ UNCHANGED <<life, repo, torn, tables, slots>>

PauseBegin(j) == SwitchBegin(j, "disable")
ResumeBegin(j) == SwitchBegin(j, "enable")

(* _set_job_enabled: read the stored job, write it back with the flag.     *)
SetJobEnabled ==
  /\ ctl.op \in {"enable", "disable"}
  /\ repo' = IF repo[ctl.job] = None THEN repo
             ELSE [repo EXCEPT ![ctl.job] = WithEnabled(@, ctl.op = "enable")]
  /\ ctl' = Free
  /\ torn' = torn \ {ctl.job}
  /\ UNCHANGED <<life, sched, tables, slots>>

(* The repository raised after the scheduler had already been changed.     *)
StoreFails ==
  /\ ctl.op \in {"erase", "enable", "disable"}
  /\ ctl' = Free
  /\ torn' = torn \cup {ctl.job}
  /\ UNCHANGED <<life, repo, sched, tables, slots>>

-----------------------------------------------------------------------------
(* Executions.                                                             *)

(* A new execution awaits repo.get_job(j).                                 *)
Begin(r, j, k) ==
  /\ life = "up"
  /\ pc[r] = "idle"
  /\ pc' = [pc EXCEPT ![r] = "loading"]
  /\ kind' = [kind EXCEPT ![r] = k]
  /\ job' = [job EXCEPT ![r] = j]
  /\ UNCHANGED <<cvars, tables, lim, held, obj, ahead>>

(* APScheduler calls _scheduled_callback; it lets at most one instance of  *)
(* a job run at a time (max_instances is left at 1).                       *)
Fire(r, j) ==
  /\ sched[j] = "active"
  /\ \A q \in Runs : ~(job[q] = j /\ kind[q] = "scheduled")
  /\ Begin(r, j, "scheduled")

RunJob(r, j) == Begin(r, j, "manual")

(* The execution is over: its slot is free, and no waiter waits behind it. *)
End(r) ==
  /\ pc' = [pc EXCEPT ![r] = "idle"]
  /\ kind' = [kind EXCEPT ![r] = "manual"]
  /\ job' = [job EXCEPT ![r] = None]
  /\ lim' = [lim EXCEPT ![r] = 0]
  /\ held' = [held EXCEPT ![r] = None]
  /\ obj' = [obj EXCEPT ![r] = None]
  /\ ahead' = [q \in Runs |-> IF q = r THEN {} ELSE ahead[q] \ {r}]

(* get_job returned: _scheduled_callback returns and run_job raises        *)
(* KeyError when the job is gone.                                          *)
Load(r) ==
  /\ pc[r] = "loading"
  /\ IF repo[job[r]] = None
     THEN End(r)
     ELSE /\ pc' = [pc EXCEPT ![r] = "ready"]
          /\ lim' = [lim EXCEPT ![r] = repo[job[r]].limit]
          /\ UNCHANGED <<kind, job, held, obj, ahead>>
  /\ UNCHANGED <<cvars, tables>>

(* r holds semaphore g, which becomes s; the job's state object, a new one *)
(* if the job has none, is marked as running.                              *)
Acquire(r, g, s) ==
  LET j == job[r] IN
  /\ sem' = [sem EXCEPT ![j][g] = s]
  /\ \E o \in Gens :
       /\ KeepState(j, o)
       /\ status' = [status EXCEPT ![j][o] = "running"]
       /\ obj' = [obj EXCEPT ![r] = o]
  /\ pc' = [pc EXCEPT ![r] = "executing"]
  /\ held' = [held EXCEPT ![r] = g]
  /\ ahead' = [q \in Runs |-> ahead[q] \ {r}]
  /\ UNCHANGED <<kind, job, lim>>

FaultyGivePermit(s) == s
TakePermit(s) == [limit |-> s.limit, permits |-> s.permits - 1]
GivePermit(s) == [limit |-> s.limit, permits |-> s.permits + 1]

(* _execute_once up to its first suspension, in the three ways it can go:  *)
(* the semaphore has a permit and no waiter, it does not, or the job has   *)
(* no semaphore (it was deleted meanwhile) and gets one.                   *)
EnterFree(r) ==
  LET j == job[r]
      g == rt[j] IN
  /\ pc[r] = "ready"
  /\ g # None
  /\ sem[j][g].permits > 0
  /\ Waiters(j, g) = {}
  /\ Acquire(r, g, TakePermit(sem[j][g]))
  /\ UNCHANGED <<cvars, rt>>

EnterQueue(r) ==
  LET j == job[r]
      g == rt[j] IN
  /\ pc[r] = "ready"
  /\ g # None
  /\ sem[j][g].permits = 0 \/ Waiters(j, g) # {}
  /\ pc' = [pc EXCEPT ![r] = "queued"]
  /\ held' = [held EXCEPT ![r] = g]
  /\ ahead' = [ahead EXCEPT ![r] = Waiters(j, g)]
  /\ UNCHANGED <<cvars, tables, kind, job, lim, obj>>

EnterNew(r) ==
  LET j == job[r] IN
  /\ pc[r] = "ready"
  /\ rt[j] = None
  /\ \E g \in Gens :
       /\ NewSem(j, g)
       /\ rt' = [rt EXCEPT ![j] = g]
       /\ Acquire(r, g, TakePermit(FreshSemaphore(lim[r])))
  /\ UNCHANGED cvars

(* asyncio.Semaphore wakes its waiters in the order they came.             *)
Wake(r) ==
  LET j == job[r]
      g == held[r] IN
  /\ pc[r] = "queued"
  /\ ahead[r] = {}
  /\ sem[j][g].permits > 0
  /\ Acquire(r, g, TakePermit(sem[j][g]))
  /\ UNCHANGED <<cvars, rt>>

FaultyRelease(r) ==
  /\ states' = states
  /\ sem' = [sem EXCEPT ![job[r]][held[r]] = GivePermit(@)]

(* The finally clause and the release of the semaphore.                    *)
Release(r) ==
  LET j == job[r]
      g == held[r] IN
  /\ states' = [states EXCEPT ![j] = obj[r]]
  /\ sem' = [sem EXCEPT ![j][g] = GivePermit(@)]

FaultyFinish(r, outcome) ==
  /\ pc[r] = "executing"
  /\ status' = IF outcome = "error" THEN status
               ELSE [status EXCEPT ![job[r]][obj[r]] = outcome]
  /\ Release(r)
  /\ End(r)
  /\ UNCHANGED <<cvars, rt>>

(* The executor is done: the outcome goes to the state object the run took *)
(* when it began, and that object is put back under the job's id.          *)
Finish(r, outcome) ==
  /\ pc[r] = "executing"
  /\ status' = [status EXCEPT ![job[r]][obj[r]] = outcome]
  /\ Release(r)
  /\ End(r)
  /\ UNCHANGED <<cvars, rt>>

(* CancelledError is no Exception: the finally clause runs, last_status is *)
(* left as it is, and a waiter just leaves the semaphore's queue.          *)
CancelRun(r) ==
  /\ life = "stopped"
  /\ pc[r] # "idle"
  /\ kind[r] = "scheduled"
  /\ IF pc[r] = "executing" THEN Release(r) ELSE UNCHANGED <<states, sem>>
  /\ End(r)
  /\ UNCHANGED <<cvars, rt, status>>

-----------------------------------------------------------------------------
Process == StartBegin \/ StartDone \/ StartFails \/ Stop \/ Crash

Request ==
  \E j \in Jobs :
    \/ \E d \in Specs : PutBegin(j, d)
    \/ DeleteBegin(j)
    \/ PauseBegin(j)
    \/ ResumeBegin(j)

Locked ==
  \/ Upsert
  \/ UpsertFails
  \/ Register
  \/ RegisterFails
  \/ Erase
  \/ SetJobEnabled
  \/ StoreFails

Advance(r) ==
  \/ Load(r)
  \/ EnterFree(r)
  \/ EnterQueue(r)
  \/ EnterNew(r)
  \/ Wake(r)
  \/ \E outcome \in {"success", "error"} : Finish(r, outcome)
  \/ CancelRun(r)

Execute ==
  \E r \in Runs :
    \/ \E j \in Jobs : Fire(r, j) \/ RunJob(r, j)
    \/ Advance(r)

Next == Process \/ Request \/ Locked \/ Execute

Spec == Init /\ [][Next]_vars

(* The event loop resumes whatever can be resumed: the operation holding   *)
(* the lock once the repository answers, and every execution, whose        *)
(* executor call is assumed to return.  No request, firing, stop or crash  *)
(* is fair: they may never happen.                                         *)
Fairness ==
  /\ WF_vars(Locked)
  /\ \A r \in Runs : WF_vars(Advance(r))

FairSpec == Spec /\ Fairness

-----------------------------------------------------------------------------
(* Safety.                                                                 *)

(* Every permit of every semaphore is either free or held by exactly one   *)
(* execution, so no semaphore is ever over-subscribed and none leaks a     *)
(* permit, although _register_or_update and delete_job drop semaphores     *)
(* from _rt while executions hold them or wait for them.                   *)
SemaphoreAccounting ==
  \A j \in Jobs, g \in Gens :
    sem[j][g].permits + Cardinality(Holders(j, g)) = sem[j][g].limit

(* Outside an operation on it, and unless its last change was abandoned    *)
(* half-way, a job is armed exactly as it is stored: paused iff stored     *)
(* disabled, absent iff not stored.  This is what makes "Persist           *)
(* enabled=False so the job stays paused after restart" true.              *)
SchedulerMirrorsStore ==
  life = "up" =>
    \A j \in Jobs \ (torn \cup {ctl.job}) : sched[j] = Armed(repo[j])

(* A job that get_state reports as running has an execution in progress    *)
(* that will overwrite the report: no delete, replacement or failure       *)
(* strands a job in "running" while the service is up.                     *)
RunningHasOwner ==
  \A j \in Jobs :
    (life = "up" /\ states[j] # None /\ status[j][states[j]] = "running") =>
      \E r \in Runs : pc[r] = "executing" /\ UsesObj(r, j, states[j])

(* run_job's contract: the outcome of an execution is "reflected in the    *)
(* job state", the one get_state returns when the execution ends, even if  *)
(* the job was deleted or replaced while it ran.                           *)
OutcomeIsReflected ==
  [][\A r \in Runs :
       LET j == job[r] IN
       (pc[r] = "executing" /\ pc'[r] = "idle" /\ life' = "up") =>
         states'[j] # None /\ status'[j][states'[j]] \in {"success", "error"}
    ]_vars

-----------------------------------------------------------------------------
(* Liveness, under Fairness.                                               *)

(* Every execution that waits for a semaphore leaves the queue, even if    *)
(* its semaphore was replaced or its job deleted while it waited.          *)
NoStarvation ==
  \A r \in Runs : (pc[r] = "queued") ~> (pc[r] # "queued")

(* A paused, deleted or never enabled job has no scheduled execution left  *)
(* after a while, unless it is armed again or the service stops.           *)
DisarmedJobDrains ==
  \A j \in Jobs :
    (life = "up" /\ sched[j] # "active") ~>
      \/ life # "up" \/ sched[j] = "active"
      \/ \A r \in Runs : ~(job[r] = j /\ kind[r] = "scheduled")

(* Executions come to an end: those that wait for a semaphore, and the     *)
(* scheduled ones of a job that is no longer armed.                        *)
ExecutionsDrain == NoStarvation /\ DisarmedJobDrains

-----------------------------------------------------------------------------
(* The promise: JobSchedule, read off the repository and the scheduler.    *)
Durable == [j \in Jobs |-> Armed(repo[j])]
Serving == life = "up"
Unsettled == torn \cup {j \in Jobs : ctl.job = j}

Promise == INSTANCE JobSchedule WITH
  durable <- Durable, armed <- sched, serving <- Serving, unsettled <- Unsettled

ImplementsJobSchedule == Promise!Spec
=============================================================================
