----------------------------- MODULE DailyTalk -----------------------------
(***************************************************************************)
(* DAILY_TALK.md, what the users said today: DailyTalkStore of             *)
(* src/lightclaw/app/runner/session/daily_talk_store.py, as the turns of   *)
(* RunController._run_langgraph and the dreaming pipeline use it.          *)
(*                                                                         *)
(* Every turn and every dream makes a store of its own, so the lock in it  *)
(* never keeps anyone out.  The file is read and written in threads: each  *)
(* read and each write is a step, and other coroutines run between them.   *)
(* A turn says one text; the turn stands for its message.                  *)
(***************************************************************************)
EXTENDS Naturals, Sequences, FiniteSets

CONSTANTS
  Turns,      \* turns of the users, neither ephemeral nor of the bootstrap
  Text,       \* [Turns -> what is said in them]
  LowValue,   \* texts too short or without a letter or digit
  Attributed, \* turns whose request names its channel: the header says so
  MaxDay,     \* days a behaviour lasts
  MaxKills    \* kills of the process in a behaviour

ASSUME TalkAssumption ==
  /\ Attributed \subseteq Turns
  /\ MaxDay \in Nat \ {0} /\ MaxKills \in Nat

Days == 1 .. MaxDay

VARIABLES
  day,    \* the date on the clock
  talk,   \* DAILY_TALK.md: the date of its header, 0 if none, and its messages
  turn,   \* [Turns -> the step a turn stands at, the date it has taken and
          \*           the text of the file it has read]
  said,   \* [Turns -> the day the text was given to the store, 0 before]
  kills   \* kills so far

talkVars == <<day, talk, turn, said, kills>>

NoTalk == [date |-> 0, msgs |-> <<>>]

(* needs_rollover: the file is of another day. *)
Stale(today) == talk.date # 0 /\ talk.date # today

(* _is_duplicate_of_last: only a header without attributes is recognised as
   one, so a message after one with them is never seen. *)
Duplicate(t, msgs) ==
  /\ msgs # <<>>
  /\ LET last == msgs[Len(msgs)] IN last \notin Attributed /\ Text[last] = Text[t]

(* _is_low_value_message and the check above: nothing is written. *)
Worthless(t, msgs) == Text[t] \in LowValue \/ Duplicate(t, msgs)

(* The date of the file read is not looked at. *)
FaultyAppended(t, old, today) == [date |-> today, msgs |-> Append(old.msgs, t)]

(* _append_message_sync: what was read is kept only if it is of the day. *)
Appended(t, old, today) ==
  [date |-> today, msgs |-> Append(IF old.date = today THEN old.msgs ELSE <<>>, t)]

TurnSteps == {"new", "append", "write", "context", "done"}

(* The file may be there already, with what was said in turns now over. *)
InitTalk(file, over, killed) ==
  /\ day = 1 /\ talk = file /\ kills = killed
  /\ turn = [t \in Turns |-> [at |-> IF t \in over THEN "done" ELSE "new",
                              today |-> 0, old |-> NoTalk]]
  /\ said = [t \in Turns |-> IF t \in over THEN 1 ELSE 0]

(* A turn begins: it appends at once, or after its context is built when
   the file is of an earlier day. *)
CheckRollover(t) ==
  /\ turn[t].at = "new"
  /\ turn' = [turn EXCEPT ![t].at = IF Stale(day) THEN "context" ELSE "append"]
  /\ UNCHANGED <<day, talk, said, kills>>

(* create_langgraph_context returns, or raises and the text is never stored. *)
ContextBuilt(t) ==
  /\ turn[t].at = "context"
  /\ \E ok \in BOOLEAN : turn' = [turn EXCEPT ![t].at = IF ok THEN "append" ELSE "done"]
  /\ UNCHANGED <<day, talk, said, kills>>

(* append_user_message up to the read of the file *)
ReadTalk(t) ==
  /\ turn[t].at = "append"
  /\ said' = [said EXCEPT ![t] = day]
  /\ turn' = [turn EXCEPT ![t] =
                IF Worthless(t, talk.msgs) THEN [@ EXCEPT !.at = "done"]
                ELSE [at |-> "write", today |-> day, old |-> talk]]
  /\ UNCHANGED <<day, talk, kills>>

(* ... and the write of the whole file *)
WriteTalk(t) ==
  /\ turn[t].at = "write"
  /\ talk' = Appended(t, turn[t].old, turn[t].today)
  /\ turn' = [turn EXCEPT ![t] = [at |-> "done", today |-> 0, old |-> NoTalk]]
  /\ UNCHANGED <<day, said, kills>>

NextDay ==
  /\ day < MaxDay
  /\ day' = day + 1
  /\ UNCHANGED <<talk, turn, said, kills>>

(* A kill ends the turns under way. *)
TurnsKilled ==
  /\ kills < MaxKills
  /\ kills' = kills + 1
  /\ turn' = [t \in Turns |->
                IF turn[t].at = "new" THEN turn[t]
                ELSE [at |-> "done", today |-> 0, old |-> NoTalk]]
  /\ UNCHANGED <<day, talk, said>>

TurnStep(t) == CheckRollover(t) \/ ContextBuilt(t) \/ ReadTalk(t)
=============================================================================
