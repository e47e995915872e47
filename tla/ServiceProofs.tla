---------------------------- MODULE ServiceProofs ----------------------------
(***************************************************************************)
(* Theorems about the service process.                                     *)
(*                                                                         *)
(* CronManager, for every set of jobs, every finite set of execution slots *)
(* and every set of definitions: types, permits, the owners of state       *)
(* objects, and the refinement of JobSchedule.  PidLock, which lets only   *)
(* one such process serve, for every set of processes and numbers.         *)
(***************************************************************************)
EXTENDS CronManager, PidLock, FiniteSetTheorems, TLAPS

(* What the control state of an operation and of an execution imply about  *)
(* the fields that go with it: strengthens TypeOK to an inductive one.     *)
ControlInv ==
  /\ ctl.op \in {"free", "start"} <=> ctl.job = None
  /\ ctl.op \in {"upsert", "register"} => ctl.spec \in Specs
  /\ ctl.op = "free" => ctl = Free
  /\ life # "up" => ctl.op \in {"free", "start"}
  /\ ctl.op = "start" <=> life = "booting"

ExecutionInv ==
  \A r \in Runs :
    /\ pc[r] = "idle" <=> job[r] = None
    /\ pc[r] \in {"ready", "queued", "executing"} => lim[r] > 0
    /\ pc[r] \in {"queued", "executing"} <=> held[r] # None
    /\ pc[r] = "executing" <=> obj[r] # None

TypeInv == TypeOK /\ ControlInv /\ ExecutionInv

USE SpecsAssumption, GensAssumption, NoneAssumption

LEMMA InitType == Init => TypeInv
<1> SUFFICES ASSUME Init PROVE TypeInv
  OBVIOUS
<1>1. TypeOK
  BY DEF Init, TypeOK, Life, Mode, Status, Ops, Semaphore, FreshSemaphore,
         Step, Kind, Control, Free
<1>2. ControlInv
  BY DEF Init, ControlInv, Free
<1>3. ExecutionInv
  BY DEF Init, ExecutionInv
<1> QED
  BY <1>1, <1>2, <1>3 DEF TypeInv

(* A crash or a failed start leaves a well-typed initial memory.           *)
LEMMA LoseMemoryType ==
  ASSUME TypeInv, life' = "down", repo' = repo, LoseMemory
  PROVE  TypeInv'
<1>1. TypeOK'
  BY DEF LoseMemory, TypeInv, TypeOK, Life, Mode, Status, Ops, Semaphore,
         FreshSemaphore, Step, Kind, Control, Free
<1>2. ControlInv'
  BY DEF LoseMemory, ControlInv, Free
<1>3. ExecutionInv'
  BY DEF LoseMemory, ExecutionInv
<1> QED
  BY <1>1, <1>2, <1>3 DEF TypeInv

LEMMA ProcessType == ASSUME TypeInv, Process PROVE TypeInv'
<1>1. CASE StartBegin
  <2>1. TypeOK'
    BY <1>1 DEF StartBegin, tables, slots, TypeInv, TypeOK, Life, Control, Free, Ops
  <2>2. ControlInv'
    BY <1>1 DEF StartBegin, ControlInv, Free
  <2>3. ExecutionInv'
    BY <1>1 DEF StartBegin, tables, slots, TypeInv, ExecutionInv
  <2> QED
    BY <2>1, <2>2, <2>3 DEF TypeInv
<1>2. CASE StartDone
  <2>1. sched' \in [Jobs -> Mode]
    BY <1>2 DEF StartDone, slots, Armed, Mode
  <2>2. rt' \in [Jobs -> Gens \cup {None}] /\ states' = rt'
    BY <1>2 DEF StartDone
  <2>3. sem' \in [Jobs -> [Gens -> Semaphore]]
    <3> SUFFICES ASSUME NEW j \in Jobs, repo[j] # None
                 PROVE  [sem[j] EXCEPT ![0] = FreshSemaphore(repo[j].limit)]
                          \in [Gens -> Semaphore]
      BY <1>2 DEF StartDone, slots, TypeInv, TypeOK
    <3>1. FreshSemaphore(repo[j].limit) \in Semaphore
      BY DEF TypeInv, TypeOK, FreshSemaphore, Semaphore, Definition
    <3> QED
      BY <3>1 DEF TypeInv, TypeOK
  <2>4. TypeOK'
    BY <1>2, <2>1, <2>2, <2>3
    DEF StartDone, slots, TypeInv, TypeOK, Life, Control, Free, Ops
  <2>5. ControlInv'
    BY <1>2 DEF StartDone, slots, ControlInv, Free
  <2>6. ExecutionInv'
    BY <1>2 DEF StartDone, slots, TypeInv, ExecutionInv
  <2> QED
    BY <2>4, <2>5, <2>6 DEF TypeInv
<1>3. CASE StartFails
  BY <1>3, LoseMemoryType DEF StartFails
<1>4. CASE Stop
  <2>1. TypeOK'
    BY <1>4 DEF Stop, tables, slots, TypeInv, TypeOK, Life, Mode
  <2>2. ControlInv'
    BY <1>4 DEF Stop, TypeInv, ControlInv, Free
  <2>3. ExecutionInv'
    BY <1>4 DEF Stop, tables, slots, TypeInv, ExecutionInv
  <2> QED
    BY <2>1, <2>2, <2>3 DEF TypeInv
<1>5. CASE Crash
  BY <1>5, LoseMemoryType DEF Crash
<1> QED
  BY <1>1, <1>2, <1>3, <1>4, <1>5 DEF Process

LEMMA RequestType == ASSUME TypeInv, Request PROVE TypeInv'
<1>1. ASSUME NEW j \in Jobs, NEW d \in Specs, PutBegin(j, d) PROVE TypeInv'
  <2>1. TypeOK'
    BY <1>1 DEF PutBegin, tables, slots, TypeInv, TypeOK, Control, Ops
  <2>2. ControlInv'
    BY <1>1 DEF PutBegin, ControlInv, TypeInv, Free
  <2>3. ExecutionInv'
    BY <1>1 DEF PutBegin, tables, slots, TypeInv, ExecutionInv
  <2> QED
    BY <2>1, <2>2, <2>3 DEF TypeInv
<1>2. ASSUME NEW j \in Jobs, DeleteBegin(j) PROVE TypeInv'
  <2>1. TypeOK'
    BY <1>2 DEF DeleteBegin, slots, TypeInv, TypeOK, Control, Ops, Mode
  <2>2. ControlInv'
    BY <1>2 DEF DeleteBegin, slots, ControlInv, TypeInv, Free
  <2>3. ExecutionInv'
    BY <1>2 DEF DeleteBegin, slots, TypeInv, ExecutionInv
  <2> QED
    BY <2>1, <2>2, <2>3 DEF TypeInv
<1>3. ASSUME NEW j \in Jobs, NEW op \in {"enable", "disable"}, SwitchBegin(j, op)
      PROVE  TypeInv'
  <2>1. TypeOK'
    BY <1>3 DEF SwitchBegin, tables, slots, TypeInv, TypeOK, Control, Ops, Mode
  <2>2. ControlInv'
    BY <1>3 DEF SwitchBegin, ControlInv, TypeInv, Free
  <2>3. ExecutionInv'
    BY <1>3 DEF SwitchBegin, tables, slots, TypeInv, ExecutionInv
  <2> QED
    BY <2>1, <2>2, <2>3 DEF TypeInv
<1> QED
  BY <1>1, <1>2, <1>3 DEF Request, PauseBegin, ResumeBegin

(* The job of an operation in progress, and the reference helpers.         *)
LEMMA LockedJob ==
  ASSUME TypeInv, ctl.op \notin {"free", "start"}
  PROVE  ctl.job \in Jobs /\ life = "up"
  BY DEF TypeInv, TypeOK, ControlInv, Control

LEMMA NewSemaphoreType ==
  ASSUME TypeInv, NEW j \in Jobs, NEW n \in Nat, NewSemaphore(j, n)
  PROVE  /\ rt' \in [Jobs -> Gens \cup {None}]
         /\ sem' \in [Jobs -> [Gens -> Semaphore]]
<1>1. PICK g \in Gens : /\ rt' = [rt EXCEPT ![j] = g]
                        /\ sem' = [sem EXCEPT ![j][g] = FreshSemaphore(n)]
  BY DEF NewSemaphore
<1>2. FreshSemaphore(n) \in Semaphore
  BY DEF FreshSemaphore, Semaphore
<1> QED
  BY <1>1, <1>2 DEF TypeInv, TypeOK

LEMMA LockedType == ASSUME TypeInv, Locked PROVE TypeInv'
<1>1. CASE Upsert
  <2>1. TypeOK'
    BY <1>1, LockedJob DEF Upsert, tables, slots, TypeInv, TypeOK, ControlInv, Control, Ops
  <2>2. ControlInv'
    BY <1>1, LockedJob DEF Upsert, ControlInv, TypeInv, TypeOK, Control
  <2>3. ExecutionInv'
    BY <1>1 DEF Upsert, tables, slots, TypeInv, ExecutionInv
  <2> QED
    BY <2>1, <2>2, <2>3 DEF TypeInv
<1>2. CASE UpsertFails
  <2>1. TypeOK'
    BY <1>2 DEF UpsertFails, tables, slots, TypeInv, TypeOK, Control, Free, Ops
  <2>2. ControlInv'
    BY <1>2, LockedJob DEF UpsertFails, ControlInv, TypeInv, Free
  <2>3. ExecutionInv'
    BY <1>2 DEF UpsertFails, tables, slots, TypeInv, ExecutionInv
  <2> QED
    BY <2>1, <2>2, <2>3 DEF TypeInv
<1>3. CASE Register
  <2>0. ctl.job \in Jobs /\ ctl.spec \in Specs /\ life = "up"
    BY <1>3, LockedJob DEF Register, slots, TypeInv, ControlInv
  <2>1. ctl.spec.limit \in Nat /\ Armed(ctl.spec) \in Mode
    BY <2>0 DEF Definition, Armed, Mode
  <2>2. PICK o \in Gens : /\ states' = [states EXCEPT ![ctl.job] = o]
                          /\ \/ status' = [status EXCEPT ![ctl.job][o] = "none"]
                             \/ status' = status
    BY <1>3 DEF Register, slots, KeepState
  <2>3. /\ rt' \in [Jobs -> Gens \cup {None}]
        /\ sem' \in [Jobs -> [Gens -> Semaphore]]
    BY <1>3, <2>0, <2>1, NewSemaphoreType DEF Register
  <2>4. states' \in [Jobs -> Gens \cup {None}]
    BY <2>0, <2>2 DEF TypeInv, TypeOK
  <2>5. status' \in [Jobs -> [Gens -> Status]]
    <3>1. "none" \in Status
      BY DEF Status
    <3>2. CASE status' = [status EXCEPT ![ctl.job][o] = "none"]
      BY <3>1, <3>2, <2>0 DEF TypeInv, TypeOK
    <3> QED
      BY <2>2, <3>2 DEF TypeInv, TypeOK
  <2>6. TypeOK'
    BY <1>3, <2>0, <2>1, <2>3, <2>4, <2>5 DEF Register, slots, TypeInv, TypeOK, Control, Free, Ops
  <2>7. ControlInv'
    BY <1>3, <2>0 DEF Register, slots, ControlInv, TypeInv, Free
  <2>8. ExecutionInv'
    BY <1>3 DEF Register, slots, TypeInv, ExecutionInv
  <2> QED
    BY <2>6, <2>7, <2>8 DEF TypeInv
<1>4. CASE RegisterFails
  <2>0. ctl.job \in Jobs /\ ctl.spec \in Specs /\ life = "up"
    BY <1>4, LockedJob DEF RegisterFails, slots, TypeInv, ControlInv
  <2>1. ctl.spec.limit \in Nat
    BY <2>0 DEF Definition
  <2>2. /\ rt' \in [Jobs -> Gens \cup {None}]
        /\ sem' \in [Jobs -> [Gens -> Semaphore]]
    BY <1>4, <2>0, <2>1, NewSemaphoreType DEF RegisterFails
  <2>3. TypeOK'
    BY <1>4, <2>0, <2>2 DEF RegisterFails, slots, TypeInv, TypeOK, Control, Free, Ops
  <2>4. ControlInv'
    BY <1>4, <2>0 DEF RegisterFails, slots, ControlInv, TypeInv, Free
  <2>5. ExecutionInv'
    BY <1>4 DEF RegisterFails, slots, TypeInv, ExecutionInv
  <2> QED
    BY <2>3, <2>4, <2>5 DEF TypeInv
<1>5. CASE Erase
  <2>1. TypeOK'
    BY <1>5 DEF Erase, tables, slots, TypeInv, TypeOK, Control, Free, Ops
  <2>2. ControlInv'
    BY <1>5, LockedJob DEF Erase, ControlInv, TypeInv, Free
  <2>3. ExecutionInv'
    BY <1>5 DEF Erase, tables, slots, TypeInv, ExecutionInv
  <2> QED
    BY <2>1, <2>2, <2>3 DEF TypeInv
<1>6. CASE SetJobEnabled
  <2>0. ctl.job \in Jobs
    BY <1>6, LockedJob DEF SetJobEnabled
  <2>1. repo' \in [Jobs -> Specs \cup {None}]
    BY <1>6, <2>0 DEF SetJobEnabled, TypeInv, TypeOK
  <2>2. TypeOK'
    BY <1>6, <2>1 DEF SetJobEnabled, tables, slots, TypeInv, TypeOK, Control, Free, Ops
  <2>3. ControlInv'
    BY <1>6, LockedJob DEF SetJobEnabled, ControlInv, TypeInv, Free
  <2>4. ExecutionInv'
    BY <1>6 DEF SetJobEnabled, tables, slots, TypeInv, ExecutionInv
  <2> QED
    BY <2>2, <2>3, <2>4 DEF TypeInv
<1>7. CASE StoreFails
  <2>1. TypeOK'
    BY <1>7, LockedJob DEF StoreFails, tables, slots, TypeInv, TypeOK, Control, Free, Ops
  <2>2. ControlInv'
    BY <1>7, LockedJob DEF StoreFails, ControlInv, TypeInv, Free
  <2>3. ExecutionInv'
    BY <1>7 DEF StoreFails, tables, slots, TypeInv, ExecutionInv
  <2> QED
    BY <2>1, <2>2, <2>3 DEF TypeInv
<1> QED
  BY <1>1, <1>2, <1>3, <1>4, <1>5, <1>6, <1>7 DEF Locked

(* A step of an execution leaves what the operations work on alone.        *)
LEMMA SameControl ==
  ASSUME TypeInv, UNCHANGED cvars
  PROVE  /\ ControlInv'
         /\ life' \in Life /\ repo' \in [Jobs -> Specs \cup {None}]
         /\ sched' \in [Jobs -> Mode] /\ ctl' \in Control /\ torn' \in SUBSET Jobs
  BY DEF cvars, TypeInv, TypeOK, ControlInv

SlotsOK ==
  /\ pc \in [Runs -> Step] /\ kind \in [Runs -> Kind]
  /\ job \in [Runs -> Jobs \cup {None}] /\ lim \in [Runs -> Nat]
  /\ held \in [Runs -> Gens \cup {None}] /\ obj \in [Runs -> Gens \cup {None}]
  /\ ahead \in [Runs -> SUBSET Runs]

TablesOK ==
  /\ rt \in [Jobs -> Gens \cup {None}]
  /\ sem \in [Jobs -> [Gens -> Semaphore]]
  /\ states \in [Jobs -> Gens \cup {None}]
  /\ status \in [Jobs -> [Gens -> Status]]

LEMMA ExecutionStep ==
  ASSUME TypeInv, UNCHANGED cvars, SlotsOK', TablesOK', ExecutionInv'
  PROVE  TypeInv'
  BY SameControl DEF TypeInv, TypeOK, SlotsOK, TablesOK

LEMMA EndType ==
  ASSUME TypeInv, NEW r \in Runs, End(r)
  PROVE  SlotsOK' /\ ExecutionInv'
<1>1. SlotsOK'
  BY DEF End, TypeInv, TypeOK, SlotsOK, Step, Kind
<1>2. ExecutionInv'
  BY DEF End, TypeInv, TypeOK, ExecutionInv
<1> QED
  BY <1>1, <1>2

(* Taking a semaphore keeps executions well-typed: an execution that is    *)
(* ready or queued becomes one that holds a semaphore and a state object.  *)
LEMMA AcquireType ==
  ASSUME TypeInv, NEW r \in Runs, NEW g \in Gens, NEW s \in Semaphore,
         pc[r] \in {"ready", "queued"},
         Acquire(r, g, s),
         rt' \in [Jobs -> Gens \cup {None}],
         UNCHANGED cvars
  PROVE  TypeInv'
<1>1. job[r] \in Jobs
  BY DEF TypeInv, TypeOK, ExecutionInv
<1>2. PICK o \in Gens :
        /\ states' = [states EXCEPT ![job[r]] = o]
        /\ status' = [status EXCEPT ![job[r]][o] = "running"]
        /\ obj' = [obj EXCEPT ![r] = o]
  BY DEF Acquire, KeepState
<1>3. TablesOK'
  <2>1. "running" \in Status
    BY DEF Status
  <2>2. sem' = [sem EXCEPT ![job[r]][g] = s]
    BY DEF Acquire
  <2> QED
    BY <1>1, <1>2, <2>1, <2>2 DEF TypeInv, TypeOK, TablesOK
<1>4. SlotsOK'
  BY <1>2 DEF Acquire, TypeInv, TypeOK, SlotsOK, Step
<1>5. ExecutionInv'
  BY <1>1, <1>2 DEF Acquire, TypeInv, TypeOK, ExecutionInv
<1> QED
  BY <1>3, <1>4, <1>5, ExecutionStep

LEMMA PermitType ==
  ASSUME NEW s \in Semaphore
  PROVE  /\ s.permits > 0 => TakePermit(s) \in Semaphore
         /\ GivePermit(s) \in Semaphore
  BY DEF Semaphore, TakePermit, GivePermit

LEMMA SemaphoreType ==
  ASSUME TypeInv, NEW j \in Jobs, NEW g \in Gens
  PROVE  sem[j][g] \in Semaphore
<1>1. sem \in [Jobs -> [Gens -> Semaphore]]
  BY DEF TypeInv, TypeOK
<1> QED
  BY <1>1

LEMMA ReleaseType ==
  ASSUME TypeInv, NEW r \in Runs, pc[r] = "executing", Release(r)
  PROVE  /\ states' \in [Jobs -> Gens \cup {None}]
         /\ sem' \in [Jobs -> [Gens -> Semaphore]]
<1>1. job[r] \in Jobs /\ held[r] \in Gens /\ obj[r] \in Gens
  BY DEF TypeInv, TypeOK, ExecutionInv
<1>2. sem[job[r]][held[r]] \in Semaphore
  BY <1>1, SemaphoreType
<1>3. GivePermit(sem[job[r]][held[r]]) \in Semaphore
  BY <1>2, PermitType
<1>4. sem' = [sem EXCEPT ![job[r]][held[r]] = GivePermit(sem[job[r]][held[r]])]
  BY DEF Release
<1>5. states' = [states EXCEPT ![job[r]] = obj[r]]
  BY DEF Release
<1> QED
  BY <1>1, <1>3, <1>4, <1>5 DEF TypeInv, TypeOK

LEMMA ExecuteType == ASSUME TypeInv, Execute PROVE TypeInv'
<1>1. ASSUME NEW r \in Runs, NEW j \in Jobs, NEW k \in Kind, Begin(r, j, k)
      PROVE  TypeInv'
  <2>1. SlotsOK'
    BY <1>1 DEF Begin, TypeInv, TypeOK, SlotsOK, Step
  <2>2. TablesOK'
    BY <1>1 DEF Begin, tables, TypeInv, TypeOK, TablesOK
  <2>3. ExecutionInv'
    BY <1>1 DEF Begin, TypeInv, TypeOK, ExecutionInv
  <2> QED
    BY <1>1, <2>1, <2>2, <2>3, ExecutionStep DEF Begin
<1>2. ASSUME NEW r \in Runs, Load(r) PROVE TypeInv'
  <2>1. TablesOK'
    BY <1>2 DEF Load, tables, TypeInv, TypeOK, TablesOK
  <2>2. SlotsOK' /\ ExecutionInv'
    <3>1. CASE repo[job[r]] = None
      BY <1>2, <3>1, EndType DEF Load
    <3>2. CASE repo[job[r]] # None
      <4>1. job[r] \in Jobs
        BY <1>2 DEF Load, TypeInv, TypeOK, ExecutionInv
      <4>2. repo[job[r]].limit \in Nat \ {0}
        BY <3>2, <4>1 DEF TypeInv, TypeOK, Definition
      <4>3. SlotsOK'
        BY <1>2, <3>2, <4>2 DEF Load, TypeInv, TypeOK, SlotsOK, Step
      <4>4. ExecutionInv'
        BY <1>2, <3>2, <4>1, <4>2 DEF Load, TypeInv, TypeOK, ExecutionInv
      <4> QED
        BY <4>3, <4>4
    <3> QED
      BY <3>1, <3>2
  <2> QED
    BY <1>2, <2>1, <2>2, ExecutionStep DEF Load
<1>3. ASSUME NEW r \in Runs, EnterFree(r) PROVE TypeInv'
  <2>1. job[r] \in Jobs
    BY <1>3 DEF EnterFree, TypeInv, TypeOK, ExecutionInv
  <2>2. rt[job[r]] \in Gens
    BY <1>3, <2>1 DEF EnterFree, TypeInv, TypeOK
  <2>3. sem[job[r]][rt[job[r]]] \in Semaphore
    BY <2>1, <2>2, SemaphoreType
  <2>4. TakePermit(sem[job[r]][rt[job[r]]]) \in Semaphore
    BY <1>3, <2>3, PermitType DEF EnterFree
  <2>5. rt' \in [Jobs -> Gens \cup {None}]
    BY <1>3 DEF EnterFree, TypeInv, TypeOK
  <2> QED
    BY <1>3, <2>2, <2>4, <2>5, AcquireType DEF EnterFree
<1>4. ASSUME NEW r \in Runs, EnterQueue(r) PROVE TypeInv'
  <2>1. job[r] \in Jobs
    BY <1>4 DEF EnterQueue, TypeInv, TypeOK, ExecutionInv
  <2>2. rt[job[r]] \in Gens
    BY <1>4, <2>1 DEF EnterQueue, TypeInv, TypeOK
  <2>3. SlotsOK'
    BY <1>4, <2>2 DEF EnterQueue, Waiters, TypeInv, TypeOK, SlotsOK, Step
  <2>4. TablesOK'
    BY <1>4 DEF EnterQueue, tables, TypeInv, TypeOK, TablesOK
  <2>5. ExecutionInv'
    BY <1>4, <2>2 DEF EnterQueue, TypeInv, TypeOK, ExecutionInv
  <2> QED
    BY <1>4, <2>3, <2>4, <2>5, ExecutionStep DEF EnterQueue
<1>5. ASSUME NEW r \in Runs, EnterNew(r) PROVE TypeInv'
  <2>1. PICK g \in Gens :
          /\ rt' = [rt EXCEPT ![job[r]] = g]
          /\ Acquire(r, g, TakePermit(FreshSemaphore(lim[r])))
    BY <1>5 DEF EnterNew
  <2>2. FreshSemaphore(lim[r]) \in Semaphore /\ FreshSemaphore(lim[r]).permits > 0
    BY <1>5 DEF EnterNew, FreshSemaphore, Semaphore, TypeInv, TypeOK, ExecutionInv
  <2>3. TakePermit(FreshSemaphore(lim[r])) \in Semaphore
    BY <2>2, PermitType
  <2>4. rt' \in [Jobs -> Gens \cup {None}]
    BY <2>1 DEF TypeInv, TypeOK
  <2> QED
    BY <1>5, <2>1, <2>3, <2>4, AcquireType DEF EnterNew
<1>6. ASSUME NEW r \in Runs, Wake(r) PROVE TypeInv'
  <2>1. job[r] \in Jobs /\ held[r] \in Gens
    BY <1>6 DEF Wake, TypeInv, TypeOK, ExecutionInv
  <2>2. sem[job[r]][held[r]] \in Semaphore
    BY <2>1, SemaphoreType
  <2>3. TakePermit(sem[job[r]][held[r]]) \in Semaphore
    BY <1>6, <2>2, PermitType DEF Wake
  <2>4. rt' \in [Jobs -> Gens \cup {None}]
    BY <1>6 DEF Wake, TypeInv, TypeOK
  <2> QED
    BY <1>6, <2>1, <2>3, <2>4, AcquireType DEF Wake
<1>7. ASSUME NEW r \in Runs, NEW outcome \in {"success", "error"}, Finish(r, outcome)
      PROVE  TypeInv'
  <2>1. job[r] \in Jobs /\ obj[r] \in Gens
    BY <1>7 DEF Finish, TypeInv, TypeOK, ExecutionInv
  <2>2. status' \in [Jobs -> [Gens -> Status]]
    <3>1. outcome \in Status /\ status' = [status EXCEPT ![job[r]][obj[r]] = outcome]
      BY <1>7 DEF Finish, Status
    <3> QED
      BY <2>1, <3>1 DEF TypeInv, TypeOK
  <2>3. TablesOK'
    BY <1>7, <2>2, ReleaseType DEF Finish, TypeInv, TypeOK, TablesOK
  <2> QED
    BY <1>7, <2>3, EndType, ExecutionStep DEF Finish
<1>8. ASSUME NEW r \in Runs, CancelRun(r) PROVE TypeInv'
  <2>1. TablesOK'
    <3>1. CASE pc[r] = "executing"
      BY <1>8, <3>1, ReleaseType DEF CancelRun, TypeInv, TypeOK, TablesOK
    <3>2. CASE pc[r] # "executing"
      BY <1>8, <3>2 DEF CancelRun, TypeInv, TypeOK, TablesOK
    <3> QED
      BY <3>1, <3>2
  <2> QED
    BY <1>8, <2>1, EndType, ExecutionStep DEF CancelRun
<1> QED
  BY <1>1, <1>2, <1>3, <1>4, <1>5, <1>6, <1>7, <1>8
  DEF Execute, Advance, Fire, RunJob, Kind

LEMMA NextType == ASSUME TypeInv, [Next]_vars PROVE TypeInv'
<1>1. CASE Next
  BY <1>1, ProcessType, RequestType, LockedType, ExecuteType DEF Next
<1>2. CASE UNCHANGED vars
  BY <1>2 DEF vars, cvars, tables, slots, TypeInv, TypeOK, ControlInv, ExecutionInv
<1> QED
  BY <1>1, <1>2

(* Every reachable state of the job service is well-typed, and the control *)
(* state of its operations and executions is consistent with their data.   *)
THEOREM TypeCorrect == Spec => []TypeInv
  BY InitType, NextType, PTL DEF Spec

(* TypeOK, the type invariant of CronManager, on its own.                  *)
THEOREM Types == Spec => []TypeOK
<1>1. TypeInv => TypeOK
  BY DEF TypeInv
<1> QED
  BY <1>1, TypeCorrect, PTL

-----------------------------------------------------------------------------
(***************************************************************************)
(* Permits.  Only two things change the number of holders of a semaphore:  *)
(* Acquire, which takes a permit of it, and Release, which gives one back; *)
(* a fresh semaphore has no holder because nothing refers to it.  That no  *)
(* execution exists before the service is up covers the semaphores made by *)
(* start().                                                                *)
(***************************************************************************)
QuietInv == life \in {"down", "booting"} => \A r \in Runs : pc[r] = "idle"

AccountInv == QuietInv /\ SemaphoreAccounting

LEMMA HoldersFinite == \A j, g : IsFiniteSet(Holders(j, g))
  BY RunsAssumption, FS_Subset DEF Holders

LEMMA NobodyHolds ==
  ASSUME NEW j, NEW g, \A r \in Runs : ~(UsesSem(r, j, g) /\ pc[r] = "executing")
  PROVE  Cardinality(Holders(j, g)) = 0
<1>1. Holders(j, g) = {}
  BY DEF Holders
<1> QED
  BY <1>1, FS_EmptySet

(* A step that changes neither semaphores nor who holds them.              *)
LEMMA SameHolders ==
  ASSUME SemaphoreAccounting, UNCHANGED sem,
         \A j \in Jobs, g \in Gens : Holders(j, g)' = Holders(j, g)
  PROVE  SemaphoreAccounting'
  BY DEF SemaphoreAccounting

LEMMA LoseMemoryAccount ==
  ASSUME LoseMemory PROVE SemaphoreAccounting'
<1> SUFFICES ASSUME NEW j \in Jobs, NEW g \in Gens
             PROVE  sem'[j][g].permits + Cardinality(Holders(j, g)') = sem'[j][g].limit
  BY DEF SemaphoreAccounting
<1>1. sem'[j][g].permits = 1 /\ sem'[j][g].limit = 1
  BY DEF LoseMemory, FreshSemaphore
<1>2. Holders(j, g)' = {}
  BY DEF LoseMemory, Holders
<1> QED
  BY <1>1, <1>2, FS_EmptySet

LEMMA NewSemaphoreAccount ==
  ASSUME TypeInv, SemaphoreAccounting, NEW k \in Jobs, NEW n \in Nat,
         NewSemaphore(k, n), UNCHANGED slots
  PROVE  SemaphoreAccounting'
<1>1. PICK h \in Gens : /\ UnusedSem(k, h)
                        /\ sem' = [sem EXCEPT ![k][h] = FreshSemaphore(n)]
  BY DEF NewSemaphore, NewSem
<1> SUFFICES ASSUME NEW j \in Jobs, NEW g \in Gens
             PROVE  sem'[j][g].permits + Cardinality(Holders(j, g)') = sem'[j][g].limit
  BY DEF SemaphoreAccounting
<1>2. Holders(j, g)' = Holders(j, g)
  BY DEF Holders, UsesSem, slots
<1>3. CASE j = k /\ g = h
  <2>1. sem'[j][g] = FreshSemaphore(n)
    BY <1>1, <1>3 DEF TypeInv, TypeOK
  <2>2. Cardinality(Holders(j, g)) = 0
    BY <1>1, <1>3, NobodyHolds DEF UnusedSem
  <2> QED
    BY <2>1, <2>2, <1>2 DEF FreshSemaphore
<1>4. CASE ~(j = k /\ g = h)
  <2>1. sem'[j][g] = sem[j][g]
    BY <1>1, <1>4 DEF TypeInv, TypeOK
  <2> QED
    BY <2>1, <1>2 DEF SemaphoreAccounting
<1> QED
  BY <1>3, <1>4

LEMMA InitAccount == Init => AccountInv
<1> SUFFICES ASSUME Init PROVE AccountInv
  OBVIOUS
<1>1. ASSUME NEW j \in Jobs, NEW g \in Gens
      PROVE  sem[j][g].permits + Cardinality(Holders(j, g)) = sem[j][g].limit
  <2>1. sem[j][g].permits = 1 /\ sem[j][g].limit = 1
    BY DEF Init, FreshSemaphore
  <2>2. Cardinality(Holders(j, g)) = 0
    BY NobodyHolds DEF Init
  <2> QED
    BY <2>1, <2>2
<1> QED
  BY <1>1 DEF Init, AccountInv, QuietInv, SemaphoreAccounting

LEMMA ProcessAccount ==
  ASSUME TypeInv, AccountInv, Process PROVE AccountInv'
<1>1. CASE StartBegin \/ Stop
  <2>1. UNCHANGED sem /\ UNCHANGED slots
    BY <1>1 DEF StartBegin, Stop, tables
  <2>2. \A j \in Jobs, g \in Gens : Holders(j, g)' = Holders(j, g)
    BY <2>1 DEF Holders, UsesSem, slots
  <2>3. QuietInv'
    BY <1>1, <2>1 DEF StartBegin, Stop, slots, AccountInv, QuietInv
  <2> QED
    BY <2>1, <2>2, <2>3, SameHolders DEF AccountInv
<1>2. CASE StartDone
  <2>1. life = "booting"
    BY <1>2 DEF StartDone, TypeInv, ControlInv
  <2>2. \A r \in Runs : pc[r] = "idle" /\ pc'[r] = "idle"
    BY <1>2, <2>1 DEF StartDone, slots, AccountInv, QuietInv
  <2>3. ASSUME NEW j \in Jobs, NEW g \in Gens
        PROVE  sem'[j][g].permits + Cardinality(Holders(j, g)') = sem'[j][g].limit
    <3>1. Holders(j, g)' = {} /\ Holders(j, g) = {}
      BY <2>2 DEF Holders
    <3>2. Cardinality(Holders(j, g)') = 0 /\ Cardinality(Holders(j, g)) = 0
      BY <3>1, FS_EmptySet
    <3>3. sem[j][g].permits + 0 = sem[j][g].limit
      BY <3>2 DEF AccountInv, SemaphoreAccounting
    <3>4. CASE repo[j] # None /\ g = 0
      <4>1. sem'[j][g] = FreshSemaphore(repo[j].limit)
        BY <1>2, <3>4 DEF StartDone, TypeInv, TypeOK
      <4>2. repo[j].limit \in Nat
        BY <3>4 DEF TypeInv, TypeOK, Definition
      <4> QED
        BY <4>1, <4>2, <3>2 DEF FreshSemaphore
    <3>5. CASE repo[j] = None \/ g # 0
      <4>1. sem'[j][g] = sem[j][g]
        BY <1>2, <3>5 DEF StartDone, TypeInv, TypeOK
      <4> QED
        BY <4>1, <3>2, <3>3
    <3> QED
      BY <3>4, <3>5
  <2> QED
    BY <1>2, <2>3 DEF StartDone, AccountInv, QuietInv, SemaphoreAccounting
<1>3. CASE StartFails \/ Crash
  BY <1>3, LoseMemoryAccount DEF StartFails, Crash, LoseMemory, AccountInv, QuietInv
<1> QED
  BY <1>1, <1>2, <1>3 DEF Process

LEMMA OperationAccount ==
  ASSUME TypeInv, AccountInv, Request \/ Locked PROVE AccountInv'
<1>1. UNCHANGED <<life, slots>>
  BY DEF Request, PutBegin, DeleteBegin, PauseBegin, ResumeBegin, SwitchBegin, Locked,
         Upsert, UpsertFails, Register, RegisterFails, Erase, SetJobEnabled, StoreFails
<1>2. QuietInv'
  BY <1>1 DEF AccountInv, QuietInv, slots
<1>3. CASE UNCHANGED sem
  <2>1. \A j \in Jobs, g \in Gens : Holders(j, g)' = Holders(j, g)
    BY <1>1 DEF Holders, UsesSem, slots
  <2> QED
    BY <1>2, <1>3, <2>1, SameHolders DEF AccountInv
<1>4. CASE Register \/ RegisterFails
  <2>1. ctl.op = "register" /\ NewSemaphore(ctl.job, ctl.spec.limit)
    BY <1>4 DEF Register, RegisterFails
  <2>2. ctl.job \in Jobs /\ ctl.spec \in Specs
    BY <2>1, LockedJob DEF TypeInv, ControlInv
  <2>3. ctl.spec.limit \in Nat
    BY <2>2 DEF Definition
  <2> QED
    BY <1>1, <1>2, <2>1, <2>2, <2>3, NewSemaphoreAccount DEF AccountInv
<1> QED
  BY <1>3, <1>4 DEF Request, PutBegin, DeleteBegin, PauseBegin, ResumeBegin, SwitchBegin,
         Locked, Upsert, UpsertFails, Erase, SetJobEnabled, StoreFails, tables

LEMMA AcquireAccount ==
  ASSUME TypeInv, SemaphoreAccounting,
         NEW r \in Runs, NEW g \in Gens, NEW s \in Semaphore,
         pc[r] \in {"ready", "queued"}, Acquire(r, g, s),
         s.permits + Cardinality(Holders(job[r], g)) + 1 = s.limit
  PROVE  SemaphoreAccounting'
<1> SUFFICES ASSUME NEW j \in Jobs, NEW h \in Gens
             PROVE  sem'[j][h].permits + Cardinality(Holders(j, h)') = sem'[j][h].limit
  BY DEF SemaphoreAccounting
<1>1. /\ sem' = [sem EXCEPT ![job[r]][g] = s]
      /\ pc' = [pc EXCEPT ![r] = "executing"]
      /\ held' = [held EXCEPT ![r] = g]
      /\ job' = job
  BY DEF Acquire
<1>2. CASE j = job[r] /\ h = g
  <2>1. sem'[j][h] = s
    BY <1>1, <1>2 DEF TypeInv, TypeOK
  <2>2. Holders(j, h)' = Holders(j, h) \cup {r} /\ r \notin Holders(j, h)
    BY <1>1, <1>2 DEF Holders, UsesSem, TypeInv, TypeOK
  <2>3. Cardinality(Holders(j, h)') = Cardinality(Holders(j, h)) + 1
    BY <2>2, HoldersFinite, FS_AddElement
  <2>4. Cardinality(Holders(j, h)) \in Nat
    BY HoldersFinite, FS_CardinalityType
  <2> QED
    BY <1>2, <2>1, <2>3, <2>4 DEF Semaphore
<1>3. CASE ~(j = job[r] /\ h = g)
  <2>1. sem'[j][h] = sem[j][h]
    BY <1>1, <1>3 DEF TypeInv, TypeOK
  <2>2. Holders(j, h)' = Holders(j, h)
    BY <1>1, <1>3 DEF Holders, UsesSem, TypeInv, TypeOK
  <2> QED
    BY <2>1, <2>2 DEF SemaphoreAccounting
<1> QED
  BY <1>2, <1>3

LEMMA TakePermitAccount ==
  ASSUME TypeInv, SemaphoreAccounting, NEW j \in Jobs, NEW g \in Gens,
         sem[j][g].permits > 0
  PROVE  /\ TakePermit(sem[j][g]) \in Semaphore
         /\ TakePermit(sem[j][g]).permits + Cardinality(Holders(j, g)) + 1
              = TakePermit(sem[j][g]).limit
<1>1. sem[j][g] \in Semaphore /\ Cardinality(Holders(j, g)) \in Nat
  BY SemaphoreType, HoldersFinite, FS_CardinalityType
<1>2. sem[j][g].permits + Cardinality(Holders(j, g)) = sem[j][g].limit
  BY DEF SemaphoreAccounting
<1> QED
  BY <1>1, <1>2 DEF TakePermit, Semaphore

LEMMA ReleaseAccount ==
  ASSUME TypeInv, SemaphoreAccounting,
         NEW r \in Runs, pc[r] = "executing", Release(r), End(r)
  PROVE  SemaphoreAccounting'
<1> DEFINE g == held[r]
<1>0. job[r] \in Jobs /\ g \in Gens
  BY DEF TypeInv, TypeOK, ExecutionInv
<1> SUFFICES ASSUME NEW j \in Jobs, NEW h \in Gens
             PROVE  sem'[j][h].permits + Cardinality(Holders(j, h)') = sem'[j][h].limit
  BY DEF SemaphoreAccounting
<1>1. /\ sem' = [sem EXCEPT ![job[r]][g] = GivePermit(sem[job[r]][g])]
      /\ pc' = [pc EXCEPT ![r] = "idle"]
      /\ held' = [held EXCEPT ![r] = None]
      /\ job' = [job EXCEPT ![r] = None]
  BY DEF Release, End
<1>2. CASE j = job[r] /\ h = g
  <2>1. sem'[j][h] = GivePermit(sem[j][h])
    BY <1>1, <1>2 DEF TypeInv, TypeOK
  <2>2. Holders(j, h)' = Holders(j, h) \ {r} /\ r \in Holders(j, h)
    BY <1>1, <1>2 DEF Holders, UsesSem, TypeInv, TypeOK
  <2>3. Cardinality(Holders(j, h)') = Cardinality(Holders(j, h)) - 1
    BY <2>2, HoldersFinite, FS_RemoveElement
  <2>4. Cardinality(Holders(j, h)) \in Nat /\ sem[j][h] \in Semaphore
    BY HoldersFinite, FS_CardinalityType, SemaphoreType
  <2>5. sem[j][h].permits + Cardinality(Holders(j, h)) = sem[j][h].limit
    BY DEF SemaphoreAccounting
  <2> QED
    BY <2>1, <2>3, <2>4, <2>5 DEF Semaphore, GivePermit
<1>3. CASE ~(j = job[r] /\ h = g)
  <2>1. sem'[j][h] = sem[j][h]
    BY <1>1, <1>3 DEF TypeInv, TypeOK
  <2>2. Holders(j, h)' = Holders(j, h)
    BY <1>1, <1>3 DEF Holders, UsesSem, TypeInv, TypeOK
  <2> QED
    BY <2>1, <2>2 DEF SemaphoreAccounting
<1> QED
  BY <1>2, <1>3

(* An execution that does not hold a semaphore comes, moves or goes.       *)
LEMMA NonHolderAccount ==
  ASSUME TypeInv, SemaphoreAccounting, NEW r \in Runs, UNCHANGED sem,
         pc[r] # "executing", pc'[r] # "executing",
         \A q \in Runs \ {r} : pc'[q] = pc[q] /\ job'[q] = job[q] /\ held'[q] = held[q]
  PROVE  SemaphoreAccounting'
<1>1. \A j \in Jobs, g \in Gens : Holders(j, g)' = Holders(j, g)
  BY DEF Holders, UsesSem
<1> QED
  BY <1>1, SameHolders

LEMMA ExecuteAccount ==
  ASSUME TypeInv, AccountInv, Execute PROVE AccountInv'
<1>1. PICK r \in Runs : \/ \E j \in Jobs : Fire(r, j) \/ RunJob(r, j)
                        \/ Advance(r)
  BY DEF Execute
<1>2. life \notin {"down", "booting"} /\ life' = life
  BY <1>1 DEF Fire, RunJob, Begin, Advance, Load, EnterFree, EnterQueue, EnterNew, Wake,
              Finish, CancelRun, cvars, AccountInv, QuietInv
<1>3. QuietInv'
  BY <1>2 DEF QuietInv
<1>4. SemaphoreAccounting
  BY DEF AccountInv
<1> SUFFICES SemaphoreAccounting'
  BY <1>3 DEF AccountInv
<1>5. ASSUME NEW j \in Jobs, Fire(r, j) \/ RunJob(r, j) PROVE SemaphoreAccounting'
  <2>1. /\ UNCHANGED <<sem, held>>
        /\ pc[r] = "idle" /\ pc' = [pc EXCEPT ![r] = "loading"]
        /\ job' = [job EXCEPT ![r] = j]
    BY <1>5 DEF Fire, RunJob, Begin, tables
  <2>2. /\ UNCHANGED sem
        /\ pc[r] # "executing" /\ pc'[r] # "executing"
        /\ \A q \in Runs \ {r} : pc'[q] = pc[q] /\ job'[q] = job[q] /\ held'[q] = held[q]
    BY <1>1, <2>1 DEF TypeInv, TypeOK
  <2> QED
    BY <1>1, <1>4, <2>2, NonHolderAccount
<1>6. CASE Load(r) \/ EnterQueue(r)
  <2>1. /\ UNCHANGED sem
        /\ pc[r] # "executing" /\ pc'[r] # "executing"
        /\ \A q \in Runs \ {r} : pc'[q] = pc[q] /\ job'[q] = job[q] /\ held'[q] = held[q]
    BY <1>1, <1>6 DEF Load, EnterQueue, End, tables, TypeInv, TypeOK
  <2> QED
    BY <1>1, <2>1, <1>4, NonHolderAccount
<1>7. CASE EnterFree(r)
  <2>1. job[r] \in Jobs /\ rt[job[r]] \in Gens
    BY <1>1, <1>7 DEF EnterFree, TypeInv, TypeOK, ExecutionInv
  <2>2. /\ sem[job[r]][rt[job[r]]].permits > 0
        /\ Acquire(r, rt[job[r]], TakePermit(sem[job[r]][rt[job[r]]]))
        /\ pc[r] = "ready"
    BY <1>7 DEF EnterFree
  <2>3. /\ TakePermit(sem[job[r]][rt[job[r]]]) \in Semaphore
        /\ TakePermit(sem[job[r]][rt[job[r]]]).permits
             + Cardinality(Holders(job[r], rt[job[r]])) + 1
             = TakePermit(sem[job[r]][rt[job[r]]]).limit
    BY <1>4, <2>1, <2>2, TakePermitAccount
  <2> QED
    BY <1>1, <1>4, <2>1, <2>2, <2>3, AcquireAccount
<1>8. CASE Wake(r)
  <2>1. job[r] \in Jobs /\ held[r] \in Gens
    BY <1>1, <1>8 DEF Wake, TypeInv, TypeOK, ExecutionInv
  <2>2. /\ sem[job[r]][held[r]].permits > 0
        /\ Acquire(r, held[r], TakePermit(sem[job[r]][held[r]]))
        /\ pc[r] = "queued"
    BY <1>8 DEF Wake
  <2>3. /\ TakePermit(sem[job[r]][held[r]]) \in Semaphore
        /\ TakePermit(sem[job[r]][held[r]]).permits
             + Cardinality(Holders(job[r], held[r])) + 1
             = TakePermit(sem[job[r]][held[r]]).limit
    BY <1>4, <2>1, <2>2, TakePermitAccount
  <2> QED
    BY <1>1, <1>4, <2>1, <2>2, <2>3, AcquireAccount
<1>9. CASE EnterNew(r)
  <2> DEFINE s == TakePermit(FreshSemaphore(lim[r]))
  <2>1. PICK g \in Gens : UnusedSem(job[r], g) /\ Acquire(r, g, s)
    BY <1>9 DEF EnterNew, NewSem
  <2>2. Cardinality(Holders(job[r], g)) = 0
    BY <2>1, NobodyHolds DEF UnusedSem
  <2>3. lim[r] \in Nat /\ lim[r] > 0
    BY <1>9 DEF EnterNew, TypeInv, TypeOK, ExecutionInv
  <2>4. s \in Semaphore /\ s.permits + 0 + 1 = s.limit
    BY <2>3 DEF TakePermit, FreshSemaphore, Semaphore
  <2> QED
    BY <1>4, <1>9, <2>1, <2>2, <2>4, AcquireAccount DEF EnterNew
<1>10. ASSUME NEW outcome \in {"success", "error"}, Finish(r, outcome)
       PROVE  SemaphoreAccounting'
  BY <1>4, <1>10, ReleaseAccount DEF Finish
<1>11. CASE CancelRun(r)
  <2>1. CASE pc[r] = "executing"
    BY <1>4, <1>11, <2>1, ReleaseAccount DEF CancelRun
  <2>2. CASE pc[r] # "executing"
    <3>1. /\ UNCHANGED sem
          /\ pc'[r] # "executing"
          /\ \A q \in Runs \ {r} :
               pc'[q] = pc[q] /\ job'[q] = job[q] /\ held'[q] = held[q]
      BY <1>11, <2>2 DEF CancelRun, End, TypeInv, TypeOK
    <3> QED
      BY <1>4, <2>2, <3>1, NonHolderAccount
  <2> QED
    BY <2>1, <2>2
<1> QED
  BY <1>1, <1>3, <1>5, <1>6, <1>7, <1>8, <1>9, <1>10, <1>11 DEF Advance

(* Every permit of every semaphore is free or held by exactly one          *)
(* execution, whatever operations replace or drop semaphores meanwhile.    *)
THEOREM PermitsAccounted == Spec => []SemaphoreAccounting
<1>1. TypeInv /\ AccountInv /\ [Next]_vars => AccountInv'
  <2> SUFFICES ASSUME TypeInv, AccountInv, [Next]_vars PROVE AccountInv'
    OBVIOUS
  <2>1. CASE Next
    BY <2>1, ProcessAccount, OperationAccount, ExecuteAccount DEF Next
  <2>2. CASE UNCHANGED vars
    <3>1. UNCHANGED <<life, sem, slots>>
      BY <2>2 DEF vars, cvars, tables
    <3>2. \A j \in Jobs, g \in Gens : Holders(j, g)' = Holders(j, g)
      BY <3>1 DEF Holders, UsesSem, slots
    <3> QED
      BY <3>1, <3>2, SameHolders DEF AccountInv, QuietInv, slots
  <2> QED
    BY <2>1, <2>2
<1>2. AccountInv => SemaphoreAccounting
  BY DEF AccountInv
<1> QED
  BY <1>1, <1>2, InitAccount, TypeCorrect, PTL DEF Spec

-----------------------------------------------------------------------------
(***************************************************************************)
(* State objects.  An execution marks the object it takes as running and   *)
(* is the one that will overwrite it; Finish puts back an object it has    *)
(* just given an outcome.  Before the service is up no object was marked,  *)
(* which covers the ones start() hands out again.                          *)
(***************************************************************************)
NothingMarked ==
  life \in {"down", "booting"} =>
    \A j \in Jobs, g \in Gens : status[j][g] = "none"

(* Some execution in progress will overwrite what object g of job j says.  *)
Owned(j, g) == \E r \in Runs : pc[r] = "executing" /\ UsesObj(r, j, g)

OwnerInv == QuietInv /\ NothingMarked /\ RunningHasOwner

LEMMA InitOwner == Init => OwnerInv
  BY DEF Init, OwnerInv, QuietInv, NothingMarked, RunningHasOwner

LEMMA LoseMemoryOwner ==
  ASSUME LoseMemory, life' = "down" PROVE OwnerInv'
  BY DEF LoseMemory, OwnerInv, QuietInv, NothingMarked, RunningHasOwner

LEMMA ProcessOwner == ASSUME TypeInv, OwnerInv, Process PROVE OwnerInv'
<1>1. CASE StartBegin \/ Stop
  BY <1>1 DEF StartBegin, Stop, tables, slots, OwnerInv, QuietInv, NothingMarked,
              RunningHasOwner
<1>2. CASE StartDone
  <2>1. life = "booting" /\ life' = "up" /\ status' = status
    BY <1>2 DEF StartDone, TypeInv, ControlInv
  <2>2. \A j \in Jobs, g \in Gens : status'[j][g] = "none"
    BY <2>1 DEF OwnerInv, NothingMarked
  <2>3. states' \in [Jobs -> Gens \cup {None}]
    BY <1>2 DEF StartDone
  <2> QED
    BY <2>1, <2>2, <2>3 DEF OwnerInv, QuietInv, NothingMarked, RunningHasOwner
<1>3. CASE StartFails \/ Crash
  BY <1>3, LoseMemoryOwner DEF StartFails, Crash
<1> QED
  BY <1>1, <1>2, <1>3 DEF Process

LEMMA OperationOwner ==
  ASSUME TypeInv, OwnerInv, Request \/ Locked PROVE OwnerInv'
<1>1. life = "up" /\ life' = "up" /\ UNCHANGED slots
  BY LockedJob
  DEF Request, PutBegin, DeleteBegin, PauseBegin, ResumeBegin, SwitchBegin, Locked,
      Upsert, UpsertFails, Register, RegisterFails, Erase, SetJobEnabled, StoreFails
<1>2. QuietInv' /\ NothingMarked'
  BY <1>1 DEF QuietInv, NothingMarked
<1>3. CASE UNCHANGED <<states, status>>
  BY <1>1, <1>2, <1>3 DEF OwnerInv, RunningHasOwner, UsesObj, slots
<1>4. ASSUME NEW k \in Jobs, DeleteBegin(k) PROVE RunningHasOwner'
  BY <1>1, <1>4 DEF DeleteBegin, TypeInv, TypeOK, OwnerInv, RunningHasOwner, UsesObj, slots
<1>5. CASE Register
  <2>1. ctl.job \in Jobs
    BY <1>5, LockedJob DEF Register
  <2>2. PICK o \in Gens :
          /\ IF states[ctl.job] # None THEN o = states[ctl.job] ELSE NewObj(ctl.job, o)
          /\ states' = [states EXCEPT ![ctl.job] = o]
          /\ status' = IF states[ctl.job] = None
                       THEN [status EXCEPT ![ctl.job][o] = "none"] ELSE status
    BY <1>5 DEF Register, KeepState
  <2>3. CASE states[ctl.job] # None
    <3>1. UNCHANGED <<states, status>>
      BY <2>1, <2>2, <2>3 DEF TypeInv, TypeOK
    <3> QED
      BY <3>1, <1>3 DEF OwnerInv
  <2>4. CASE states[ctl.job] = None
    <3>1. status'[ctl.job][states'[ctl.job]] = "none"
      BY <2>1, <2>2, <2>4 DEF TypeInv, TypeOK
    <3>2. \A j \in Jobs \ {ctl.job} : states'[j] = states[j] /\ status'[j] = status[j]
      BY <2>1, <2>2 DEF TypeInv, TypeOK
    <3> SUFFICES ASSUME NEW j \in Jobs, life' = "up", states'[j] # None,
                        status'[j][states'[j]] = "running"
                 PROVE  Owned(j, states[j])'
      BY <1>2, <1>3 DEF OwnerInv, RunningHasOwner, Owned
    <3>3. j # ctl.job /\ states'[j] = states[j] /\ status'[j] = status[j]
      BY <3>1, <3>2
    <3>4. PICK q \in Runs : pc[q] = "executing" /\ UsesObj(q, j, states[j])
      BY <1>1, <3>3 DEF OwnerInv, RunningHasOwner
    <3>5. pc'[q] = "executing" /\ job'[q] = j /\ obj'[q] = states'[j]
      BY <1>1, <3>3, <3>4 DEF UsesObj, slots
    <3> QED
      BY <3>5 DEF Owned, UsesObj
  <2> QED
    BY <2>3, <2>4
<1>6. \/ UNCHANGED <<states, status>>
      \/ \E k \in Jobs : DeleteBegin(k)
      \/ Register
  BY DEF Request, PutBegin, PauseBegin, ResumeBegin, SwitchBegin, Locked,
         Upsert, UpsertFails, RegisterFails, Erase, SetJobEnabled, StoreFails, tables
<1> QED
  BY <1>2, <1>3, <1>4, <1>5, <1>6 DEF OwnerInv

(* The execution that marks an object as running is its owner.             *)
LEMMA AcquireOwner ==
  ASSUME TypeInv, RunningHasOwner, life' = life,
         NEW r \in Runs, NEW g \in Gens, NEW s,
         pc[r] \in {"ready", "queued"}, Acquire(r, g, s)
  PROVE  RunningHasOwner'
<1>1. job[r] \in Jobs
  BY DEF TypeInv, TypeOK, ExecutionInv
<1>2. PICK o \in Gens :
        /\ states' = [states EXCEPT ![job[r]] = o]
        /\ status' = [status EXCEPT ![job[r]][o] = "running"]
        /\ obj' = [obj EXCEPT ![r] = o]
  BY DEF Acquire, KeepState
<1>3. pc' = [pc EXCEPT ![r] = "executing"] /\ job' = job
  BY DEF Acquire
<1>4. states'[job[r]] = o
  BY <1>1, <1>2 DEF TypeInv, TypeOK
<1>5. Owned(job[r], o)'
  BY <1>2, <1>3 DEF Owned, UsesObj, TypeInv, TypeOK
<1> SUFFICES ASSUME NEW j \in Jobs, life = "up", states'[j] # None,
                    status'[j][states'[j]] = "running"
             PROVE  Owned(j, states[j])'
  BY DEF RunningHasOwner, Owned
<1>6. CASE j = job[r]
  BY <1>2, <1>3, <1>4, <1>5, <1>6 DEF Owned, UsesObj
<1>7. CASE j # job[r]
  <2>1. states'[j] = states[j] /\ status'[j] = status[j]
    BY <1>1, <1>2, <1>7 DEF TypeInv, TypeOK
  <2>2. PICK q \in Runs : pc[q] = "executing" /\ UsesObj(q, j, states[j])
    BY <2>1 DEF RunningHasOwner
  <2>3. q # r
    BY <2>2
  <2>4. pc'[q] = "executing" /\ job'[q] = j /\ obj'[q] = states'[j]
    BY <1>2, <1>3, <2>1, <2>2, <2>3 DEF UsesObj, TypeInv, TypeOK
  <2> QED
    BY <2>4 DEF Owned, UsesObj
<1> QED
  BY <1>6, <1>7

(* The object an execution puts back carries the outcome it has just been  *)
(* given, whatever the job's entry was meanwhile.                          *)
LEMMA FinishReports ==
  ASSUME TypeInv, NEW r \in Runs, NEW outcome, Finish(r, outcome)
  PROVE  /\ job[r] \in Jobs /\ states'[job[r]] \in Gens
         /\ status'[job[r]][states'[job[r]]] = outcome
         /\ \A j \in Jobs \ {job[r]} : states'[j] = states[j] /\ status'[j] = status[j]
<1>1. job[r] \in Jobs /\ obj[r] \in Gens
  BY DEF Finish, TypeInv, TypeOK, ExecutionInv
<1>2. /\ states' = [states EXCEPT ![job[r]] = obj[r]]
      /\ status' = [status EXCEPT ![job[r]][obj[r]] = outcome]
  BY DEF Finish, Release
<1> QED
  BY <1>1, <1>2 DEF TypeInv, TypeOK

LEMMA ExecuteOwner == ASSUME TypeInv, OwnerInv, Execute PROVE OwnerInv'
<1>1. PICK r \in Runs : \/ \E j \in Jobs : Fire(r, j) \/ RunJob(r, j)
                        \/ Advance(r)
  BY DEF Execute
<1>2. life \notin {"down", "booting"} /\ life' = life
  BY <1>1 DEF Fire, RunJob, Begin, Advance, Load, EnterFree, EnterQueue, EnterNew, Wake,
              Finish, CancelRun, cvars, OwnerInv, QuietInv
<1>3. QuietInv' /\ NothingMarked'
  BY <1>2 DEF QuietInv, NothingMarked
<1>4. RunningHasOwner
  BY DEF OwnerInv
<1> SUFFICES RunningHasOwner'
  BY <1>3 DEF OwnerInv
<1>5. ASSUME UNCHANGED <<states, status>>, pc[r] # "executing",
             \A q \in Runs \ {r} : pc'[q] = pc[q] /\ job'[q] = job[q] /\ obj'[q] = obj[q]
      PROVE  RunningHasOwner'
  BY <1>2, <1>4, <1>5 DEF RunningHasOwner, UsesObj
<1>6. ASSUME NEW j \in Jobs, Fire(r, j) \/ RunJob(r, j) PROVE RunningHasOwner'
  <2>1. /\ UNCHANGED <<states, status>> /\ pc[r] # "executing"
        /\ \A q \in Runs \ {r} : pc'[q] = pc[q] /\ job'[q] = job[q] /\ obj'[q] = obj[q]
    BY <1>1, <1>6 DEF Fire, RunJob, Begin, tables, TypeInv, TypeOK
  <2> QED
    BY <2>1, <1>5
<1>7. CASE Load(r) \/ EnterQueue(r)
  <2>1. /\ UNCHANGED <<states, status>> /\ pc[r] # "executing"
        /\ \A q \in Runs \ {r} : pc'[q] = pc[q] /\ job'[q] = job[q] /\ obj'[q] = obj[q]
    BY <1>1, <1>7 DEF Load, EnterQueue, End, tables, TypeInv, TypeOK
  <2> QED
    BY <2>1, <1>5
<1>8. CASE EnterFree(r)
  <2>1. rt[job[r]] \in Gens
    BY <1>8 DEF EnterFree, TypeInv, TypeOK, ExecutionInv
  <2> QED
    BY <1>2, <1>4, <1>8, <2>1, AcquireOwner DEF EnterFree
<1>9. CASE Wake(r)
  <2>1. held[r] \in Gens
    BY <1>9 DEF Wake, TypeInv, TypeOK, ExecutionInv
  <2>2. pc[r] = "queued" /\ Acquire(r, held[r], TakePermit(sem[job[r]][held[r]]))
    BY <1>9 DEF Wake
  <2>3. \E g \in Gens, s \in {TakePermit(sem[job[r]][held[r]])} : Acquire(r, g, s)
    BY <2>1, <2>2
  <2> QED
    BY <1>2, <1>4, <2>2, <2>3, AcquireOwner
<1>10. CASE EnterNew(r)
  BY <1>2, <1>4, <1>10, AcquireOwner DEF EnterNew
<1>11. ASSUME NEW outcome \in {"success", "error"}, Finish(r, outcome)
       PROVE  RunningHasOwner'
  <2>1. /\ status'[job[r]][states'[job[r]]] # "running"
        /\ \A j \in Jobs \ {job[r]} : states'[j] = states[j] /\ status'[j] = status[j]
    BY <1>11, FinishReports
  <2> SUFFICES ASSUME NEW j \in Jobs, life = "up", states'[j] # None,
                      status'[j][states'[j]] = "running"
               PROVE  Owned(j, states[j])'
    BY <1>2 DEF RunningHasOwner, Owned
  <2>2. j # job[r] /\ states'[j] = states[j] /\ status'[j] = status[j]
    BY <2>1
  <2>3. PICK q \in Runs : pc[q] = "executing" /\ UsesObj(q, j, states[j])
    BY <1>4, <2>2 DEF RunningHasOwner
  <2>4. q # r
    BY <2>2, <2>3 DEF UsesObj
  <2>5. pc'[q] = "executing" /\ job'[q] = j /\ obj'[q] = states'[j]
    BY <1>11, <2>2, <2>3, <2>4 DEF Finish, End, UsesObj, TypeInv, TypeOK
  <2> QED
    BY <2>5 DEF Owned, UsesObj
<1>12. CASE CancelRun(r)
  BY <1>2, <1>12 DEF CancelRun, RunningHasOwner
<1> QED
  BY <1>1, <1>6, <1>7, <1>8, <1>9, <1>10, <1>11, <1>12 DEF Advance

LEMMA NextOwner == ASSUME TypeInv, OwnerInv, [Next]_vars PROVE OwnerInv'
<1>1. CASE Next
  BY <1>1, ProcessOwner, OperationOwner, ExecuteOwner DEF Next
<1>2. CASE UNCHANGED vars
  BY <1>2 DEF vars, cvars, tables, slots, OwnerInv, QuietInv, NothingMarked,
              RunningHasOwner, UsesObj
<1> QED
  BY <1>1, <1>2

(* A job that is reported as running has an execution in progress that     *)
(* will overwrite the report.                                              *)
THEOREM RunningIsOwned == Spec => []RunningHasOwner
<1>1. OwnerInv => RunningHasOwner
  BY DEF OwnerInv
<1>2. TypeInv /\ OwnerInv /\ [Next]_vars => OwnerInv'
  BY NextOwner
<1> QED
  BY <1>1, <1>2, InitOwner, TypeCorrect, PTL DEF Spec

(* An execution leaves "executing" by Finish only, as long as the service  *)
(* is up: a crash or a shutdown takes the service down with it.            *)
LEMMA ExecutionEnds ==
  ASSUME TypeInv, [Next]_vars, NEW r \in Runs,
         pc[r] = "executing", pc'[r] = "idle", life' = "up", QuietInv
  PROVE  \E outcome \in {"success", "error"} : Finish(r, outcome)
<1>1. ~Process
  BY DEF Process, StartBegin, StartDone, StartFails, Stop, Crash, TypeInv, ControlInv,
         slots, QuietInv
<1>2. ~(Request \/ Locked)
  BY DEF Request, PutBegin, DeleteBegin, PauseBegin, ResumeBegin, SwitchBegin, Locked,
         Upsert, UpsertFails, Register, RegisterFails, Erase, SetJobEnabled, StoreFails,
         slots
<1>3. ~UNCHANGED vars
  BY DEF vars, slots
<1>4. PICK q \in Runs : \/ \E j \in Jobs : Fire(q, j) \/ RunJob(q, j)
                        \/ Advance(q)
  BY <1>1, <1>2, <1>3 DEF Next, Execute
<1>5. ASSUME NEW p \in Runs, NEW j \in Jobs, Fire(p, j) \/ RunJob(p, j) PROVE FALSE
  BY <1>5 DEF Fire, RunJob, Begin, TypeInv, TypeOK
<1>6. ASSUME Load(q) \/ EnterFree(q) \/ EnterQueue(q) \/ EnterNew(q) \/ Wake(q)
      PROVE  FALSE
  BY <1>6 DEF Load, End, EnterFree, EnterQueue, EnterNew, Wake, Acquire, TypeInv, TypeOK
<1>7. ~CancelRun(q)
  BY DEF CancelRun, cvars
<1>8. PICK outcome \in {"success", "error"} : Finish(q, outcome)
  BY <1>4, <1>5, <1>6, <1>7 DEF Advance
<1>9. q = r
  BY <1>8 DEF Finish, End, TypeInv, TypeOK
<1> QED
  BY <1>8, <1>9

(* The outcome of an execution is the state get_state returns when it      *)
(* ends, even if the job was deleted or replaced meanwhile.                *)
THEOREM OutcomeReflected == Spec => OutcomeIsReflected
<1> DEFINE Reflected ==
      \A r \in Runs :
        LET j == job[r] IN
        (pc[r] = "executing" /\ pc'[r] = "idle" /\ life' = "up") =>
          states'[j] # None /\ status'[j][states'[j]] \in {"success", "error"}
<1>1. ASSUME TypeInv, OwnerInv, [Next]_vars PROVE Reflected
  <2> SUFFICES ASSUME NEW r \in Runs, pc[r] = "executing", pc'[r] = "idle", life' = "up"
               PROVE  /\ states'[job[r]] # None
                      /\ status'[job[r]][states'[job[r]]] \in {"success", "error"}
    OBVIOUS
  <2>1. PICK outcome \in {"success", "error"} : Finish(r, outcome)
    BY <1>1, ExecutionEnds DEF OwnerInv
  <2> QED
    BY <1>1, <2>1, FinishReports
<1>2. TypeInv /\ OwnerInv /\ [Next]_vars => OwnerInv'
  BY NextOwner
<1> QED
  BY <1>1, <1>2, InitOwner, TypeCorrect, PTL DEF Spec, OutcomeIsReflected

-----------------------------------------------------------------------------
(***************************************************************************)
(* The scheduler and the repository are kept in step, and so CronManager   *)
(* implements JobSchedule, for every set of jobs and of definitions.       *)
(***************************************************************************)

(* What the operation holding the lock has done so far to its job.         *)
OperationInv ==
  /\ ctl.op = "register" => repo[ctl.job] = ctl.spec
  /\ ctl.op = "erase" => sched[ctl.job] = "absent"
  /\ ctl.op = "enable" => sched[ctl.job] = "active"
  /\ ctl.op = "disable" => sched[ctl.job] = "paused"

(* The job of an upsert that has not reached the repository yet is still   *)
(* armed as it is stored, so that giving the upsert up changes nothing.    *)
InStep(j) ==
  /\ sched[j] # "absent" => repo[j] # None
  /\ (j \notin torn /\ (j # ctl.job \/ ctl.op = "upsert")) => sched[j] = Armed(repo[j])

MirrorInv ==
  /\ OperationInv
  /\ life = "up" => \A j \in Jobs : InStep(j)
  /\ life # "up" => torn = {} /\ sched = [j \in Jobs |-> "absent"]

LEMMA InitMirror == Init => MirrorInv
  BY DEF Init, MirrorInv, OperationInv, Free

LEMMA ProcessMirror == ASSUME TypeInv, MirrorInv, Process PROVE MirrorInv'
<1>1. CASE StartBegin
  BY <1>1 DEF StartBegin, MirrorInv, OperationInv, Free
<1>2. CASE StartDone
  <2>1. OperationInv' /\ life' = "up"
    BY <1>2 DEF StartDone, OperationInv, Free
  <2>2. ASSUME NEW j \in Jobs PROVE InStep(j)'
    BY <1>2 DEF StartDone, InStep, Armed
  <2> QED
    BY <2>1, <2>2 DEF MirrorInv
<1>3. CASE StartFails
  BY <1>3 DEF StartFails, LoseMemory, MirrorInv, OperationInv, Free
<1>4. CASE Stop
  BY <1>4 DEF Stop, MirrorInv, OperationInv, Free
<1>5. CASE Crash
  BY <1>5 DEF Crash, LoseMemory, MirrorInv, OperationInv, Free
<1> QED
  BY <1>1, <1>2, <1>3, <1>4, <1>5 DEF Process

(* An operation only begins, ends or moves on while the service is up.     *)
LEMMA LockedUp ==
  ASSUME TypeInv, Locked
  PROVE  /\ life = "up" /\ life' = "up"
         /\ ctl.job \in Jobs
BY DEF Locked, Upsert, UpsertFails, Register, RegisterFails, Erase, SetJobEnabled,
       StoreFails, TypeInv, TypeOK, ControlInv, Control, Ops

LEMMA RequestMirror == ASSUME TypeInv, MirrorInv, Request PROVE MirrorInv'
<1>1. life = "up" /\ life' = "up" /\ ctl = Free
  BY DEF Request, PutBegin, DeleteBegin, PauseBegin, ResumeBegin, SwitchBegin
<1>2. \A i \in Jobs : InStep(i)
  BY <1>1 DEF MirrorInv
<1>3. ASSUME NEW j \in Jobs, NEW d \in Specs, PutBegin(j, d) PROVE MirrorInv'
  <2>1. OperationInv'
    BY <1>3 DEF PutBegin, OperationInv
  <2>2. ASSUME NEW i \in Jobs PROVE InStep(i)'
    BY <1>2, <1>3 DEF PutBegin, InStep, Free
  <2> QED
    BY <1>1, <2>1, <2>2 DEF MirrorInv
<1>4. ASSUME NEW j \in Jobs, DeleteBegin(j) PROVE MirrorInv'
  <2>1. sched' = [sched EXCEPT ![j] = "absent"] /\ sched \in [Jobs -> Mode]
    BY <1>4 DEF DeleteBegin, TypeInv, TypeOK
  <2>2. OperationInv'
    BY <1>4, <2>1 DEF DeleteBegin, OperationInv
  <2>3. ASSUME NEW i \in Jobs PROVE InStep(i)'
    BY <1>2, <1>4, <2>1 DEF DeleteBegin, InStep, Free
  <2> QED
    BY <1>1, <2>2, <2>3 DEF MirrorInv
<1>5. ASSUME NEW j \in Jobs, NEW op \in {"enable", "disable"}, SwitchBegin(j, op)
      PROVE  MirrorInv'
  <2>1. /\ sched' = [sched EXCEPT ![j] = IF op = "enable" THEN "active" ELSE "paused"]
        /\ sched \in [Jobs -> Mode] /\ sched[j] # "absent"
    BY <1>5 DEF SwitchBegin, TypeInv, TypeOK
  <2>2. OperationInv'
    BY <1>5, <2>1 DEF SwitchBegin, OperationInv
  <2>3. ASSUME NEW i \in Jobs PROVE InStep(i)'
    BY <1>2, <1>5, <2>1 DEF SwitchBegin, InStep, Free
  <2> QED
    BY <1>1, <2>2, <2>3 DEF MirrorInv
<1> QED
  BY <1>3, <1>4, <1>5 DEF Request, PauseBegin, ResumeBegin

LEMMA LockedMirror == ASSUME TypeInv, MirrorInv, Locked PROVE MirrorInv'
<1>1. life = "up" /\ life' = "up" /\ ctl.job \in Jobs
  BY LockedUp
<1>2. OperationInv /\ \A i \in Jobs : InStep(i)
  BY <1>1 DEF MirrorInv
<1>3. /\ repo \in [Jobs -> Specs \cup {None}]
      /\ sched \in [Jobs -> Mode]
      /\ None \notin Jobs
  BY DEF TypeInv, TypeOK
<1>4. OperationInv'
  <2>1. CASE Upsert
    <3>1. ctl'.op = "register" /\ ctl'.job = ctl.job /\ ctl'.spec = ctl.spec
      BY <2>1 DEF Upsert, TypeInv, TypeOK, Control
    <3>2. repo'[ctl.job] = ctl.spec
      BY <1>1, <1>3, <2>1 DEF Upsert
    <3> QED
      BY <3>1, <3>2 DEF OperationInv
  <2>2. CASE ctl' = Free
    BY <2>2 DEF OperationInv, Free
  <2> QED
    BY <2>1, <2>2 DEF Locked, UpsertFails, Register, RegisterFails, Erase, SetJobEnabled,
                      StoreFails
<1> SUFFICES ASSUME NEW i \in Jobs PROVE InStep(i)'
  BY <1>1, <1>4 DEF MirrorInv
<1>5. CASE Upsert
  BY <1>1, <1>2, <1>3, <1>5
  DEF Upsert, InStep, TypeInv, TypeOK, Control, ControlInv
<1>6. CASE UpsertFails
  BY <1>1, <1>2, <1>3, <1>6 DEF UpsertFails, InStep, Free
<1>7. CASE Register
  BY <1>1, <1>2, <1>3, <1>7
  DEF Register, InStep, Free, OperationInv, Armed, TypeInv, ControlInv
<1>8. CASE RegisterFails
  BY <1>1, <1>2, <1>3, <1>8 DEF RegisterFails, InStep, Free
<1>9. CASE Erase
  BY <1>1, <1>2, <1>3, <1>9 DEF Erase, InStep, Free, OperationInv, Armed
<1>10. CASE SetJobEnabled
  <2>1. ctl.op \in {"enable", "disable"} /\ ctl' = Free /\ UNCHANGED sched
    BY <1>10 DEF SetJobEnabled
  <2>2. CASE i = ctl.job
    <3> DEFINE d == WithEnabled(repo[i], ctl.op = "enable")
    <3>1. sched[i] = (IF ctl.op = "enable" THEN "active" ELSE "paused")
      BY <1>2, <2>1, <2>2 DEF OperationInv
    <3>2. repo[i] \in Specs
      BY <1>2, <1>3, <2>2, <3>1 DEF InStep
    <3>3. d \in Specs /\ d # None /\ d.enabled = (ctl.op = "enable")
      BY <3>2 DEF WithEnabled
    <3>4. repo'[i] = d
      BY <1>1, <1>3, <1>10, <2>2, <3>2 DEF SetJobEnabled
    <3> QED
      BY <2>1, <3>1, <3>3, <3>4 DEF InStep, Armed
  <2>3. CASE i # ctl.job
    <3>1. repo'[i] = repo[i] /\ (i \notin torn' <=> i \notin torn)
      BY <1>3, <1>10, <2>3 DEF SetJobEnabled
    <3> QED
      BY <1>2, <2>1, <2>3, <3>1 DEF InStep, Free, Armed
  <2> QED
    BY <2>2, <2>3
<1>11. CASE StoreFails
  BY <1>1, <1>2, <1>3, <1>11 DEF StoreFails, InStep, Free
<1> QED
  BY <1>5, <1>6, <1>7, <1>8, <1>9, <1>10, <1>11 DEF Locked

(* Executions touch neither the repository nor the scheduler.              *)
LEMMA ExecuteQuiet == ASSUME Execute PROVE UNCHANGED cvars
BY DEF Execute, Fire, RunJob, Begin, Advance, Load, EnterFree, EnterQueue, EnterNew,
       Wake, Finish, CancelRun

LEMMA NextMirror == TypeInv /\ MirrorInv /\ [Next]_vars => MirrorInv'
<1> SUFFICES ASSUME TypeInv, MirrorInv, [Next]_vars PROVE MirrorInv'
  OBVIOUS
<1>1. CASE UNCHANGED cvars
  BY <1>1 DEF cvars, MirrorInv, OperationInv, InStep
<1> QED
  BY <1>1, ProcessMirror, RequestMirror, LockedMirror, ExecuteQuiet DEF Next, vars

THEOREM Mirror == Spec => []MirrorInv
  BY InitMirror, NextMirror, TypeCorrect, PTL DEF Spec

(* A job with no change under way, none abandoned half-way, is armed       *)
(* exactly as it is stored, in every reachable state.                      *)
THEOREM StoreMirrored == Spec => []SchedulerMirrorsStore
<1>1. MirrorInv => SchedulerMirrorsStore
  BY DEF MirrorInv, InStep, SchedulerMirrorsStore
<1> QED
  BY <1>1, Mirror, PTL

-----------------------------------------------------------------------------
(* Refinement.                                                             *)

LEMMA RefinedInit == Init => Promise!Init
BY DEF Init, Free, Durable, Serving, Unsettled, Armed, Promise!Init, Promise!Absent

LEMMA ArmedMode == \A d : Armed(d) \in Promise!Mode
BY DEF Armed, Promise!Mode

LEMMA ProcessRefines ==
  ASSUME TypeInv, MirrorInv, Process PROVE [Promise!Next]_(Promise!vars)
<1>1. ctl.job \in Jobs => life = "up"
  BY DEF TypeInv, ControlInv
<1>2. life # "up" => Unsettled = {} /\ sched = Promise!Absent
  BY <1>1 DEF MirrorInv, Unsettled, Promise!Absent
<1>3. CASE StartBegin
  <2>1. /\ UNCHANGED <<Durable, sched, Serving>>
        /\ Unsettled' = {} /\ life # "up"
    BY <1>2, <1>3 DEF StartBegin, Durable, Serving, Unsettled, Free, MirrorInv
  <2> QED
    BY <1>2, <2>1 DEF Promise!vars
<1>4. CASE StartDone
  <2>1. life # "up" /\ life' = "up" /\ repo' = repo /\ ctl' = Free /\ torn' = torn
    BY <1>4 DEF StartDone, TypeInv, ControlInv
  <2>2. Durable' = Durable /\ sched' = Durable
    BY <1>4, <2>1 DEF StartDone, Durable
  <2>3. Unsettled' = {}
    BY <2>1 DEF Unsettled, Free, MirrorInv
  <2> QED
    BY <2>1, <2>2, <2>3 DEF Promise!Next, Promise!Start, Serving
<1>5. CASE StartFails \/ Crash \/ Stop
  <2>1. /\ life' # "up" /\ repo' = repo /\ sched' = Promise!Absent
        /\ torn' = {} /\ ctl' = Free
    BY <1>5 DEF StartFails, Crash, Stop, LoseMemory, Promise!Absent
  <2>2. Durable' = Durable /\ Unsettled' = {}
    BY <2>1 DEF Durable, Unsettled, Free
  <2>3. CASE life = "up"
    BY <2>1, <2>2, <2>3 DEF Promise!Next, Promise!Halt, Serving
  <2>4. CASE life # "up"
    BY <1>2, <2>1, <2>2, <2>4 DEF Promise!vars, Serving
  <2> QED
    BY <2>3, <2>4
<1> QED
  BY <1>3, <1>4, <1>5 DEF Process

LEMMA RequestRefines == ASSUME TypeInv, Request PROVE [Promise!Next]_(Promise!vars)
<1>1. PICK j \in Jobs : \/ \E d \in Specs : PutBegin(j, d)
                        \/ DeleteBegin(j) \/ PauseBegin(j) \/ ResumeBegin(j)
  BY DEF Request
<1>2. /\ life = "up" /\ life' = "up" /\ ctl = Free /\ ctl'.job = j
      /\ UNCHANGED <<repo, torn>>
  BY <1>1 DEF PutBegin, DeleteBegin, PauseBegin, ResumeBegin, SwitchBegin
<1>3. \E m \in Promise!Mode : sched' = [sched EXCEPT ![j] = m]
  <2>1. CASE \E d \in Specs : PutBegin(j, d)
    <3>1. sched' = [sched EXCEPT ![j] = sched[j]] /\ sched[j] \in Promise!Mode
      BY <2>1 DEF PutBegin, TypeInv, TypeOK, Mode, Promise!Mode
    <3> QED
      BY <3>1
  <2>2. CASE DeleteBegin(j)
    BY <2>2 DEF DeleteBegin, Promise!Mode
  <2>3. CASE PauseBegin(j) \/ ResumeBegin(j)
    BY <2>3 DEF PauseBegin, ResumeBegin, SwitchBegin, Promise!Mode
  <2> QED
    BY <1>1, <2>1, <2>2, <2>3
<1>4. Unsettled' = Unsettled \cup {j} /\ Durable' = Durable
  BY <1>2 DEF Unsettled, Durable, Free
<1>5. Promise!Begin(j)
  BY <1>2, <1>3, <1>4 DEF Promise!Begin, Serving
<1> QED
  BY <1>5 DEF Promise!Next

LEMMA LockedRefines ==
  ASSUME TypeInv, MirrorInv, Locked PROVE [Promise!Next]_(Promise!vars)
<1> DEFINE j == ctl.job
<1>1. life = "up" /\ life' = "up" /\ j \in Jobs
  BY LockedUp
<1>2. OperationInv /\ \A i \in Jobs : InStep(i)
  BY <1>1 DEF MirrorInv
<1>3. Serving /\ Serving' /\ j \in Unsettled
  BY <1>1 DEF Serving, Unsettled
<1>4. /\ repo \in [Jobs -> Specs \cup {None}] /\ sched \in [Jobs -> Mode]
      /\ None \notin Jobs
  BY DEF TypeInv, TypeOK
<1>5. CASE Upsert
  <2>1. UNCHANGED <<sched, torn>> /\ ctl'.job = j
        /\ repo' = [repo EXCEPT ![j] = ctl.spec]
    BY <1>5 DEF Upsert, TypeInv, TypeOK, Control
  <2>2. Durable' = [Durable EXCEPT ![j] = Armed(ctl.spec)] /\ Unsettled' = Unsettled
    BY <1>1, <1>4, <2>1 DEF Durable, Unsettled
  <2>3. Promise!Write(j)
    BY <1>3, <2>1, <2>2, ArmedMode DEF Promise!Write
  <2> QED
    BY <1>1, <2>3 DEF Promise!Next
<1>6. CASE UpsertFails \/ RegisterFails \/ StoreFails
  <2>1. UNCHANGED <<repo, sched>> /\ ctl'.job = None
    BY <1>6 DEF UpsertFails, RegisterFails, StoreFails, Free
  <2>2. Durable' = Durable
    BY <2>1 DEF Durable
  <2>3. CASE j \in torn'
    <3>1. Unsettled' = Unsettled
      BY <1>1, <1>4, <1>6, <2>1, <2>3
      DEF UpsertFails, RegisterFails, StoreFails, Unsettled
    <3> QED
      BY <1>3, <2>1, <2>2, <3>1 DEF Promise!vars
  <2>4. CASE j \notin torn'
    <3>1. ctl.op = "upsert" /\ torn' = torn
      BY <1>6, <2>4 DEF UpsertFails, RegisterFails, StoreFails
    <3>2. Unsettled' = Unsettled \ {j}
      BY <1>4, <2>1, <2>4, <3>1 DEF Unsettled
    <3>3. sched[j] = Durable[j]
      BY <1>1, <1>2, <2>4, <3>1 DEF InStep, Durable
    <3>4. Promise!Withdraw(j)
      BY <1>3, <2>1, <2>2, <3>2, <3>3 DEF Promise!Withdraw
    <3> QED
      BY <1>1, <3>4 DEF Promise!Next
  <2> QED
    BY <2>3, <2>4
<1>7. CASE Register
  <2>1. /\ sched' = [sched EXCEPT ![j] = Armed(ctl.spec)] /\ UNCHANGED repo
        /\ torn' = torn \ {j} /\ ctl'.job = None /\ repo[j] = ctl.spec
    BY <1>2, <1>7 DEF Register, OperationInv, Free
  <2>2. Durable' = Durable /\ Durable[j] = Armed(ctl.spec) /\ Unsettled' = Unsettled \ {j}
    BY <1>1, <1>4, <2>1 DEF Durable, Unsettled
  <2>3. Promise!Settle(j)
    BY <1>3, <2>1, <2>2 DEF Promise!Settle
  <2> QED
    BY <1>1, <2>3 DEF Promise!Next
<1>8. CASE Erase \/ SetJobEnabled
  <2>1. UNCHANGED sched /\ torn' = torn \ {j} /\ ctl'.job = None
    BY <1>8 DEF Erase, SetJobEnabled, Free
  <2>2. \A i \in Jobs \ {j} : repo'[i] = repo[i]
    BY <1>4, <1>8 DEF Erase, SetJobEnabled
  <2>3. Durable'[j] = sched[j]
    <3>1. PICK i \in Jobs : i = j
      BY <1>1
    <3>2. InStep(i)'
      BY <1>1, LockedMirror DEF MirrorInv
    <3>3. i \notin torn' /\ i # ctl'.job
      BY <1>4, <2>1, <3>1
    <3> QED
      BY <2>1, <3>1, <3>2, <3>3 DEF InStep, Durable
  <2>4. Durable' = [Durable EXCEPT ![j] = sched[j]] /\ Unsettled' = Unsettled \ {j}
    BY <1>1, <1>4, <2>1, <2>2, <2>3 DEF Durable, Unsettled
  <2>5. Promise!Write(j)
    BY <1>1, <1>3, <1>4, <2>1, <2>4 DEF Promise!Write, Promise!Mode, Mode
  <2> QED
    BY <1>1, <2>5 DEF Promise!Next
<1> QED
  BY <1>5, <1>6, <1>7, <1>8 DEF Locked

(* The service implements JobSchedule: whatever executions, failures and   *)
(* crashes do, the pair (repository, scheduler) moves only as promised.    *)
THEOREM Implements == Spec => ImplementsJobSchedule
<1>1. TypeInv /\ MirrorInv /\ [Next]_vars => [Promise!Next]_(Promise!vars)
  <2> SUFFICES ASSUME TypeInv, MirrorInv, [Next]_vars PROVE [Promise!Next]_(Promise!vars)
    OBVIOUS
  <2>1. CASE UNCHANGED cvars
    BY <2>1 DEF cvars, Durable, Serving, Unsettled, Promise!vars
  <2> QED
    BY <2>1, ProcessRefines, RequestRefines, LockedRefines, ExecuteQuiet DEF Next, vars
<1> QED
  BY <1>1, RefinedInit, TypeCorrect, Mirror, PTL
  DEF Spec, ImplementsJobSchedule, Promise!Spec

(* The promise keeps its word: whatever changes are begun, written, settled *)
(* or cut short, a settled job is armed as its durable mode says.          *)
THEOREM Agreement == ImplementsJobSchedule => [](Promise!TypeOK /\ Promise!SettledJobsAgree)
<1> DEFINE Inv == Promise!TypeOK /\ Promise!SettledJobsAgree
<1>1. Promise!Init => Inv
  BY DEF Promise!Init, Promise!Absent, Promise!TypeOK, Promise!Mode, Promise!SettledJobsAgree
<1>2. Inv /\ [Promise!Next]_(Promise!vars) => Inv'
  <2> SUFFICES ASSUME Promise!TypeOK, Promise!SettledJobsAgree, [Promise!Next]_(Promise!vars)
               PROVE  Inv'
    OBVIOUS
  <2>1. CASE Promise!Start \/ Promise!Halt
    BY <2>1 DEF Promise!Start, Promise!Halt, Promise!Absent, Promise!TypeOK, Promise!Mode,
       Promise!SettledJobsAgree
  <2>2. ASSUME NEW j \in Jobs,
               Promise!Begin(j) \/ Promise!Write(j) \/ Promise!Settle(j) \/ Promise!Withdraw(j)
        PROVE  Inv'
    BY <2>2 DEF Promise!Begin, Promise!Write, Promise!Settle, Promise!Withdraw, Promise!TypeOK,
       Promise!SettledJobsAgree
  <2>3. CASE UNCHANGED Promise!vars
    BY <2>3 DEF Promise!vars, Promise!TypeOK, Promise!SettledJobsAgree
  <2> QED
    BY <2>1, <2>2, <2>3 DEF Promise!Next
<1> QED
  BY <1>1, <1>2, PTL DEF ImplementsJobSchedule, Promise!Spec

(* So does the service: while it is up, a job of which no change is under  *)
(* way is armed in the scheduler as the repository has it.                 *)
THEOREM SettledJobsFire == Spec => []Promise!SettledJobsAgree
BY Agreement, Implements, PTL

-----------------------------------------------------------------------------
(* The instance lock.  PidLock keeps instances apart, for any number of    *)
(* processes and numbers, as long as starts do not overlap.  The invariant *)
(* follows one start: what it read is still the number of every process    *)
(* that holds the lock, and once it goes on to write, nobody holds it.     *)

(* A process that may still unlink the file.                               *)
Holding(p) == at[p] \in {"serve", "compare", "unlink"}

OneStarts ==
  \A p, q \in Procs : (at[p] \in Starting /\ at[q] \in Starting) => p = q

(* The operating system gives no number twice.                             *)
NumbersDiffer ==
  \A p, q \in Procs : (Running(p) /\ Running(q) /\ pid[p] = pid[q]) => p = q

HolderNamed == \A p \in Procs : Holding(p) => file = pid[p]

(* What a start read names every holder, and it writes only without one.   *)
StartSeesHolder ==
  \A p, q \in Procs : Holding(q) =>
    /\ at[p] \notin {"truncate", "write"}
    /\ (at[p] = "check") => (found[p] = pid[q])

LockInv ==
  /\ LockTypeOK
  /\ OneStarts
  /\ NumbersDiffer
  /\ HolderNamed
  /\ StartSeesHolder

LEMMA LockBegins == LockInit => LockInv
BY PidsAssumption
DEF LockInit, LockInv, LockTypeOK, OneStarts, NumbersDiffer, HolderNamed,
    StartSeesHolder, Content, Starting, Running, Holding

(* Every step of a world where starts do not overlap keeps LockInv.        *)
LEMMA LockKept ==
  ASSUME ~Overlap, LockInv, [LockNext]_lockVars
  PROVE  LockInv'
<1> USE PidsAssumption
    DEF LockInv, LockTypeOK, OneStarts, NumbersDiffer, HolderNamed,
        StartSeesHolder, Content, Starting, Running, Holding, Goto
<1>1. CASE UNCHANGED lockVars
  BY <1>1 DEF lockVars
<1>2. ASSUME NEW p \in Procs, Start(p)
      PROVE  LockInv'
  <2>1. PICK n \in Pids \ Used : pid' = [pid EXCEPT ![p] = n]
    BY <1>2 DEF Start
  <2>2. \A q \in Procs : Running(q) => pid[q] # n
    BY <2>1 DEF Used
  <2>3. NumbersDiffer'
    BY <1>2, <2>1, <2>2 DEF Start
  <2>4. QED
    BY <1>2, <2>1, <2>3 DEF Start
<1>3. ASSUME NEW p \in Procs, Kill(p)
      PROVE  LockInv'
  BY <1>3 DEF Kill
<1>4. ASSUME NEW p \in Procs, Exit(p)
      PROVE  LockInv'
  BY <1>4 DEF Exit
<1>5. ASSUME NEW p \in Procs, Read(p)
      PROVE  LockInv'
  BY <1>5 DEF Read
<1>6. ASSUME NEW p \in Procs, Check(p)
      PROVE  LockInv'
  <2>1. \A q \in Procs : Holding(q) => Alive(pid[q])
    BY DEF Alive, Used
  <2>2. \A q \in Procs : Holding(q) => (pid[q] # pid[p] /\ found[p] = pid[q])
    BY <1>6 DEF Check
  <2>3. StartSeesHolder'
    BY <1>6, <2>1, <2>2 DEF Check
  <2>4. QED
    BY <1>6, <2>3 DEF Check
<1>7. ASSUME NEW p \in Procs, Truncate(p)
      PROVE  LockInv'
  BY <1>7 DEF Truncate
<1>8. ASSUME NEW p \in Procs, Write(p)
      PROVE  LockInv'
  BY <1>8 DEF Write
<1>9. ASSUME NEW p \in Procs, Compare(p)
      PROVE  LockInv'
  BY <1>9 DEF Compare
<1>10. ASSUME NEW p \in Procs, Unlink(p)
       PROVE  LockInv'
  BY <1>10 DEF Unlink
<1>11. ASSUME NEW n \in Pids, Stranger(n)
       PROVE  LockInv'
  BY <1>11 DEF Stranger
<1>12. QED
  BY <1>1, <1>2, <1>3, <1>4, <1>5, <1>6, <1>7, <1>8, <1>9, <1>10, <1>11
  DEF LockNext, LockStep

LEMMA LockAlways == ASSUME ~Overlap PROVE LockSpec => []LockInv
BY LockBegins, LockKept, PTL DEF LockSpec

(* Two instances never serve at the same time, if they are not started at  *)
(* the same time, and the file names the one that does.                    *)
THEOREM LockHolds == ASSUME ~Overlap PROVE LockSpec => []OneNamedServer
<1>1. LockInv => OneServes
  BY DEF LockInv, NumbersDiffer, HolderNamed, OneServes, Servers, Holding,
         Running
<1>2. LockInv => LockNamesServer
  BY DEF LockInv, HolderNamed, LockNamesServer, Servers, Holding
<1>3. LockInv => OneNamedServer
  BY <1>1, <1>2 DEF OneNamedServer
<1>4. QED
  BY <1>3, LockAlways, PTL

(* No process unlinks the number of another.                               *)
THEOREM UnlinksOwn == ASSUME ~Overlap PROVE LockSpec => OnlyOwnerUnlinks
<1>1. ASSUME LockInv, [LockNext]_lockVars
      PROVE  [file # Absent /\ file' = Absent
                => \E p \in Procs : at[p] = "unlink" /\ file = pid[p]]_lockVars
  <2>1. CASE UNCHANGED lockVars
    BY <2>1
  <2>2. CASE \E p \in Procs : Unlink(p)
    BY <1>1, <2>2 DEF LockInv, HolderNamed, Holding, Unlink
  <2>3. CASE LockNext /\ ~\E p \in Procs : Unlink(p)
    BY <1>1, <2>3, PidsAssumption
    DEF LockNext, LockStep, Start, Kill, Exit, Read, Check, Truncate, Write, Compare,
        Stranger, LockInv, LockTypeOK
  <2>4. QED
    BY <1>1, <2>1, <2>2, <2>3
<1>2. QED
  BY <1>1, LockAlways, PTL DEF LockSpec, OnlyOwnerUnlinks
=============================================================================
