----------------------------- MODULE Heartbeat -----------------------------
(***************************************************************************)
(* run_heartbeat_once of src/lightclaw/app/cron/heartbeat.py: a scheduled  *)
(* cycle reads its sensors and its state file, decides without a model     *)
(* whether an agent turn is due, saves the state, and runs the turn.       *)
(*                                                                         *)
(* Everything up to the turn happens without an await, so it is one        *)
(* action; APScheduler runs one cycle at a time.  The clock is a local     *)
(* hour of a day of Day hours; dates are told apart relative to today's    *)
(* local date, and ages saturate where no test tells them apart, so that   *)
(* the model needs no bound on time.                                       *)
(***************************************************************************)
EXTENDS Integers, FiniteSets

CONSTANTS
  Day,           \* hours in a day
  Offset,        \* the local time zone: hours ahead of UTC
  ActiveFrom,    \* heartbeat.active_hours
  ActiveTo,
  Beats,         \* cycles in an hour at most: 3600 over heartbeat.every,
                 \* which is 30m, and 10m in configs/lightclaw.json
  MediumEvery,   \* MEDIUM_HEARTBEAT_INTERVAL_H
  Threshold      \* CONSECUTIVE_ABNORMAL_THRESHOLD

ASSUME ClockAssumption ==
  /\ Day \in Nat \ {0} /\ Offset \in -Day..Day
  /\ {ActiveFrom, ActiveTo} \subseteq 0..Day - 1
  /\ {Beats, MediumEvery, Threshold} \subseteq Nat \ {0}

VARIABLES
  hour,      \* the local time
  alarm,     \* BOOLEAN: some sensor of the workspace has something to report
  abnormal,  \* state file: consecutive_abnormal
  medium,    \* state file: hours since last_medium_heartbeat_at
  heavy,     \* state file: the date in last_heavy_heartbeat_at
  fired,     \* how often the job has fired in this hour
  turn,      \* the agent turn: "none" or "running"
  heavies    \* history: heavy cycles in the local day

saved == <<abnormal, medium, heavy>>
beatVars == <<hour, alarm, saved, fired, turn, heavies>>

(* A date seen from the local date; "never" when nothing was recorded.     *)
Date == {"never", "before", "today", "tomorrow"}

BeatTypeOK ==
  /\ hour \in 0..Day - 1
  /\ alarm \in BOOLEAN
  /\ abnormal \in 0..Threshold + 1
  /\ medium \in 0..MediumEvery
  /\ heavy \in Date
  /\ fired \in 0..Beats
  /\ turn \in {"none", "running"}
  /\ heavies \in Nat

(* The time in the state file is datetime.now(timezone.utc).               *)
UtcDateAt(h) ==
  IF h - Offset < 0 THEN "before"
  ELSE IF h - Offset >= Day THEN "tomorrow" ELSE "today"

UtcDate == UtcDateAt(hour)

(* _in_active_hours: both ends belong to the window, which may span        *)
(* midnight.                                                               *)
IsActiveHour(h) ==
  IF ActiveFrom <= ActiveTo THEN h \in ActiveFrom..ActiveTo
  ELSE h >= ActiveFrom \/ h <= ActiveTo

InActiveHours == IsActiveHour(hour)

(* No medium heartbeat yet counts as one long ago.                         *)
IsMediumWindow == medium >= MediumEvery

(* datetime.now() in local time against the date that was saved.           *)
FaultyIsHeavyWindow == heavy = "never"
IsHeavyWindow == heavy # "today"

IsAbnormal == alarm \/ abnormal >= Threshold

BeatInit ==
  /\ hour = 0
  /\ alarm \in BOOLEAN
  /\ abnormal = 0
  /\ medium = MediumEvery
  /\ heavy = "never"
  /\ fired = 0
  /\ turn = "none"
  /\ heavies = 0

-----------------------------------------------------------------------------
(* The environment.                                                        *)

HourPasses ==
  /\ hour' = (hour + 1) % Day
  /\ fired' = 0
  /\ medium' = IF medium < MediumEvery THEN medium + 1 ELSE medium
  /\ IF hour' = 0
     THEN /\ heavy' = CASE heavy = "today" -> "before"
                        [] heavy = "tomorrow" -> "today"
                        [] OTHER -> heavy
          /\ heavies' = 0
     ELSE UNCHANGED <<heavy, heavies>>
  /\ UNCHANGED <<alarm, abnormal, turn>>

(* DAILY_TALK.md, MEMORY.md, the dreaming status, the error log and the    *)
(* learnings directory are changed by the rest of the system.              *)
Alarm ==
  /\ alarm' = ~alarm
  /\ UNCHANGED <<hour, saved, fired, turn, heavies>>

(* The process dies during a turn and is restarted; the state file         *)
(* survives.                                                               *)
Restart ==
  /\ turn = "running"
  /\ turn' = "none"
  /\ UNCHANGED <<hour, alarm, saved, fired, heavies>>

-----------------------------------------------------------------------------
(* The job fires as often as its interval lets it, and never during a turn *)
(* (APScheduler's max_instances).  A process that is started again waits   *)
(* for a whole interval first.                                             *)

Fire ==
  /\ fired < Beats
  /\ turn = "none"
  /\ fired' = fired + 1

(* Outside active hours the cycle ends before it reads anything.           *)
Skip ==
  /\ Fire
  /\ ~InActiveHours
  /\ UNCHANGED <<hour, alarm, saved, turn, heavies>>

(* Phase 2a: nothing to do, HEARTBEAT_OK.                                  *)
Ok ==
  /\ Fire
  /\ InActiveHours
  /\ ~IsAbnormal /\ ~IsMediumWindow /\ ~IsHeavyWindow
  /\ abnormal' = 0
  /\ UNCHANGED <<hour, alarm, medium, heavy, turn, heavies>>

Streak ==
  IF ~IsAbnormal THEN 0
  ELSE IF abnormal <= Threshold THEN abnormal + 1 ELSE abnormal

FaultyMarkHeavy == heavy' = heavy
MarkHeavy == heavy' = IF IsHeavyWindow THEN UtcDate ELSE heavy

(* Phase 2b: the windows are marked as served and the state is saved, then *)
(* run_cron_agent is awaited.                                              *)
Act ==
  /\ Fire
  /\ InActiveHours
  /\ IsAbnormal \/ IsMediumWindow \/ IsHeavyWindow
  /\ abnormal' = Streak
  /\ medium' = IF IsMediumWindow THEN 0 ELSE medium
  /\ MarkHeavy
  /\ heavies' = IF IsHeavyWindow THEN heavies + 1 ELSE heavies
  /\ turn' = "running"
  /\ UNCHANGED <<hour, alarm>>

(* run_cron_agent returned, raised, or hit its timeout.                    *)
TurnEnds ==
  /\ turn = "running"
  /\ turn' = "none"
  /\ UNCHANGED <<hour, alarm, saved, fired, heavies>>

Cycle == Skip \/ Ok \/ Act

BeatNext == HourPasses \/ Alarm \/ Restart \/ Cycle \/ TurnEnds

BeatSpec == BeatInit /\ [][BeatNext]_beatVars

(* Time passes; the interval trigger fires again and again whatever the    *)
(* hour, so that it fires again and again in each hour of the day; a turn  *)
(* has a timeout.                                                          *)
Fairness ==
  /\ WF_beatVars(HourPasses)
  /\ WF_beatVars(TurnEnds)
  /\ \A h \in 0..Day - 1 : SF_beatVars(Cycle /\ hour = h)

FairSpec == BeatSpec /\ Fairness

-----------------------------------------------------------------------------
(* Properties.                                                             *)

(* "Heavy heartbeat: first of the day or end of day".  The date that is    *)
(* saved is the UTC one, and the local one is compared with it: the local  *)
(* day has one heavy heartbeat, and one more for each cycle in an active   *)
(* hour in which the two dates differ, but no other, also when the service *)
(* crashed during one.                                                     *)
HeavyOncePerDate ==
  heavies <= 1 + Beats * Cardinality(
    {h \in 0..Day - 1 : IsActiveHour(h) /\ UtcDateAt(h) # "today"})

(* A day with active hours is not passed without a heavy heartbeat, and    *)
(* the medium ones keep coming.                                            *)
HeavyComesBack == []<>(heavies > 0)
MediumComesBack == []<>(medium = 0)

(* A streak of abnormal heartbeats below the threshold ends when there is  *)
(* nothing more to report.                                                 *)
ShortStreakEnds ==
  [](~alarm) /\ abnormal < Threshold ~> abnormal = 0

(* The windows of the heartbeat open again and again, and its streak does  *)
(* not feed on itself.                                                     *)
ReviewsComeBack == HeavyComesBack /\ MediumComesBack /\ ShortStreakEnds
=============================================================================
