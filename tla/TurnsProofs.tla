---------------------------- MODULE TurnsProofs ----------------------------
(***************************************************************************)
(* Turns that share one graph, one engine session and one middleware stay  *)
(* apart, whatever their number, sessions, settings and limits: messages   *)
(* stay in their session, and a cancellation with its turn.  What a turn   *)
(* has read and said is kept, what it says is shown once, ephemeral turns  *)
(* leave one answer, and what a turn is reminded of is for its actor.      *)
(***************************************************************************)
EXTENDS Turns, SequenceTheorems, FiniteSetTheorems, WellFoundedInduction, TLAPS

(* The messages that may stand in session s                                *)
Own(s) == {m \in Message : m[1] = Before \/ SessionOf[m[1]] = s}

OwnFile(s) == [msgs : Seq(Own(s)), summary : Seq(Own(s))]

Fields == {"at", "read", "chat", "msgs", "summary", "out", "due", "cancelled", "call",
           "buffer", "shown", "heard", "block"}

(* What the record u of turn t holds of its session, and why t may be       *)
(* stopped.  Nothing is said of what the search returns.                    *)
Sound(u, t) ==
  /\ DOMAIN u = Fields
  /\ u.read \in OwnFile(Session(t))
  /\ u.msgs \in Seq(Own(Session(t)))
  /\ u.summary \in Seq(Own(Session(t)))
  /\ u.out \in Seq(Own(Session(t)))
  /\ u.call \in Nat
  /\ u.cancelled \in BOOLEAN
  /\ u.cancelled => t \in asked
  /\ (u.at = "stopped") => t \in asked

FilesInv ==
  /\ DOMAIN file = Sessions
  /\ \A s \in Sessions : file[s] \in OwnFile(s)

ApartInv ==
  /\ DOMAIN turn = Turns
  /\ \A t \in Turns : Sound(turn[t], t)
  /\ FilesInv
  /\ stopped = FALSE

-----------------------------------------------------------------------------
(* Sequences.                                                              *)

LEMMA SubSeqOf ==
  ASSUME NEW S, NEW q \in Seq(S), NEW m \in Nat \ {0}, NEW n \in Int, n <= Len(q)
  PROVE  SubSeq(q, m, n) \in Seq(S)
OBVIOUS

LEMMA LastOfType ==
  ASSUME NEW S, NEW q \in Seq(S), NEW n \in Nat
  PROVE  LastOf(q, n) \in Seq(S)
BY SubSeqOf DEF LastOf

LEMMA FirstOfType ==
  ASSUME NEW S, NEW q \in Seq(S), NEW n \in Nat
  PROVE  FirstOf(q, n) \in Seq(S)
BY SubSeqOf DEF FirstOf

LEMMA TailOf ==
  ASSUME NEW S, NEW q \in Seq(S)
  PROVE  Recent(q) \in Seq(S)
BY SubSeqOf, TurnsAssumption DEF Recent

LEMMA HeadOf ==
  ASSUME NEW S, NEW q \in Seq(S), Len(q) > KeepRecent
  PROVE  Older(q) \in Seq(S)
BY SubSeqOf, TurnsAssumption DEF Older

(* A message a turn makes is of its session.                               *)
LEMMA OwnMessage ==
  ASSUME NEW t \in Turns, NEW n \in Nat,
         NEW kind \in {"user", "call", "tool", "ai", "skip", "cut", "limit"}
  PROVE  <<t, kind, n>> \in Own(Session(t))
BY DEF Own, Session, Message

-----------------------------------------------------------------------------
(* Steps of one turn.                                                      *)

(* A step that replaces the record of one turn by a sound one, asks for no *)
(* cancellation of another, and writes at most sound files.                *)
LEMMA OneTurn ==
  ASSUME ApartInv, NEW t \in Turns, NEW u, Sound(u, t),
         turn' = [turn EXCEPT ![t] = u],
         asked' = asked, stopped' = stopped, FilesInv'
  PROVE  ApartInv'
BY DEF ApartInv, Sound

LEMMA LoadHistoryApart ==
  ASSUME ApartInv, NEW t \in Turns, LoadHistory(t)
  PROVE  ApartInv'
<1> DEFINE u == [Idle EXCEPT !.at = "chat", !.read = file[Session(t)],
                             !.summary = file[Session(t)].summary]
<1>1. file[Session(t)] \in OwnFile(Session(t))
  BY TurnsAssumption DEF ApartInv, FilesInv, Session
<1>2. Sound(u, t)
  BY <1>1 DEF Sound, Idle, Fields, OwnFile, Empty
<1>3. FilesInv'
  BY DEF LoadHistory, Store, ApartInv, FilesInv
<1>4. turn' = [turn EXCEPT ![t] = u]
  BY DEF LoadHistory
<1>5. QED
  BY <1>2, <1>3, <1>4, OneTurn DEF LoadHistory, Engine

LEMMA TakeChatApart ==
  ASSUME ApartInv, NEW t \in Turns, TakeChat(t)
  PROVE  ApartInv'
<1>1. PICK own : turn' = [turn EXCEPT ![t].at = "model", ![t].chat = own,
                            ![t].msgs = Append(turn[t].read.msgs, <<t, "user", 0>>)]
  BY DEF TakeChat
<1> DEFINE u == [turn[t] EXCEPT !.at = "model", !.chat = own,
                            !.msgs = Append(turn[t].read.msgs, <<t, "user", 0>>)]
<1>2. Sound(turn[t], t)
  BY DEF ApartInv
<1>3. Append(turn[t].read.msgs, <<t, "user", 0>>) \in Seq(Own(Session(t)))
  BY <1>2, OwnMessage, AppendProperties DEF Sound, OwnFile
<1>4. Sound(u, t)
  BY <1>2, <1>3 DEF Sound, Fields
<1>5. turn' = [turn EXCEPT ![t] = u]
  BY <1>1, <1>2 DEF ApartInv, Sound, Fields
<1>6. FilesInv'
  BY DEF TakeChat, ApartInv, FilesInv
<1>7. QED
  BY <1>4, <1>5, <1>6, OneTurn DEF TakeChat, Engine

(* The step of a turn changes and nothing else of it.                      *)
LEMMA GoesApart ==
  ASSUME ApartInv, NEW t \in Turns, NEW step, Goes(t, step),
         step = "stopped" => t \in asked,
         asked' = asked, stopped' = stopped, FilesInv'
  PROVE  ApartInv'
<1> DEFINE u == [turn[t] EXCEPT !.at = step]
<1>1. Sound(turn[t], t)
  BY DEF ApartInv
<1>2. Sound(u, t)
  BY <1>1 DEF Sound, Fields
<1>3. turn' = [turn EXCEPT ![t] = u]
  BY <1>1 DEF Goes, ApartInv, Sound, Fields
<1>4. QED
  BY <1>2, <1>3, OneTurn

(* The files are as they were.                                             *)
LEMMA SameFiles == ASSUME ApartInv, file' = file PROVE FilesInv'
BY DEF ApartInv, FilesInv

LEMMA CalledSound ==
  ASSUME ApartInv, NEW t \in Turns, NEW answer, NEW stream, ~IsCancelled(t)
  PROVE  /\ Sound(Called(t, answer, stream), t)
         /\ Called(t, answer, stream).at = turn[t].at
<1>1. Sound(turn[t], t)
  BY DEF ApartInv
<1> DEFINE v == Streamed(t, turn[t].call + 1, stream)
<1>2. Sound(v, t) /\ v.at = turn[t].at
  BY <1>1 DEF Streamed, Sound, Fields
<1>3. Trimmed(v.summary) \in Seq(Own(Session(t)))
  BY <1>2, FirstOfType, TurnsAssumption DEF Trimmed, Sound
<1> HIDE DEF v
<1>4. Called(t, answer, stream) =
        [v EXCEPT !.due = @ \/ Exceeds(turn[t].msgs), !.summary = Trimmed(@),
                  !.heard = Heard(answer), !.block = Block(t, answer)]
  BY DEF Called, v
<1>5. QED
  BY <1>2, <1>3, <1>4 DEF Sound, Fields

LEMMA CompletedSound ==
  ASSUME NEW t \in Turns, NEW u, Sound(u, t), NEW kind \in {"ai", "skip"}
  PROVE  Sound(Completed(u, t, kind), t)
<1>1. Append(u.msgs, <<t, kind, u.call>>) \in Seq(Own(Session(t)))
  BY OwnMessage, AppendProperties DEF Sound
<1>2. QED
  BY <1>1 DEF Completed, Sound, Fields

LEMMA CallModelApart ==
  ASSUME ApartInv, NEW t \in Turns, CallModel(t)
  PROVE  ApartInv'
<1>1. FilesInv' /\ asked' = asked /\ stopped' = stopped
  BY SameFiles DEF CallModel, Store, Engine
<1>2. CASE IsCancelled(t)
  <2>1. t \in asked
    BY <1>2 DEF IsCancelled, ApartInv, Sound
  <2>2. Goes(t, "stopped")
    BY <1>2 DEF CallModel
  <2>3. QED
    BY <1>1, <2>1, <2>2, GoesApart
<1>3. CASE ~IsCancelled(t)
  <2>1. PICK answer \in Answers, stream \in Streams(turn[t].call + 1) :
          LET u == Called(t, answer, stream) IN
          \/ turn' = [turn EXCEPT ![t] = Completed(u, t, "ai")]
          \/ turn' = [turn EXCEPT ![t] = Completed(u, t, "skip")]
          \/ turn' = [turn EXCEPT ![t] =
                        IF u.call = Calls[t]
                          THEN [u EXCEPT !.at = "limited", !.shown = Append(@, Notice)]
                          ELSE [u EXCEPT !.at = "tool",
                                         !.msgs = Append(@, <<t, "call", u.call>>)]]
    BY <1>3 DEF CallModel
  <2> DEFINE u == Called(t, answer, stream)
             w == IF u.call = Calls[t]
                    THEN [u EXCEPT !.at = "limited", !.shown = Append(@, Notice)]
                    ELSE [u EXCEPT !.at = "tool",
                                   !.msgs = Append(@, <<t, "call", u.call>>)]
  <2>2. Sound(u, t)
    BY <1>3, CalledSound
  <2>3. /\ Sound(Completed(u, t, "ai"), t)
        /\ Sound(Completed(u, t, "skip"), t)
    BY <2>2, CompletedSound
  <2>4. turn' \in {[turn EXCEPT ![t] = Completed(u, t, "ai")],
                   [turn EXCEPT ![t] = Completed(u, t, "skip")],
                   [turn EXCEPT ![t] = w]}
    BY <2>1
  <2> HIDE DEF u
  <2>5. Append(u.msgs, <<t, "call", u.call>>) \in Seq(Own(Session(t)))
    BY <2>2, OwnMessage, AppendProperties DEF Sound
  <2>6. Sound(w, t)
    BY <2>2, <2>5 DEF Sound, Fields
  <2> HIDE DEF w
  <2>7. QED
    BY <1>1, <2>3, <2>4, <2>6, OneTurn
<1>4. QED
  BY <1>2, <1>3

(* A tool that ran, with or without an approval.                           *)
LEMMA ToolApart ==
  ASSUME ApartInv, NEW t \in Turns,
         turn' = [turn EXCEPT ![t].at = "model",
                              ![t].msgs = Append(@, <<t, "tool", turn[t].call>>)],
         asked' = asked, stopped' = stopped, FilesInv'
  PROVE  ApartInv'
<1> DEFINE u == [turn[t] EXCEPT !.at = "model",
                                !.msgs = Append(@, <<t, "tool", turn[t].call>>)]
<1>1. Sound(turn[t], t)
  BY DEF ApartInv
<1>2. Append(turn[t].msgs, <<t, "tool", turn[t].call>>) \in Seq(Own(Session(t)))
  BY <1>1, OwnMessage, AppendProperties DEF Sound
<1>3. Sound(u, t)
  BY <1>1, <1>2 DEF Sound, Fields
<1>4. turn' = [turn EXCEPT ![t] = u]
  BY <1>1 DEF ApartInv, Sound, Fields
<1>5. QED
  BY <1>3, <1>4, OneTurn

LEMMA UseToolApart ==
  ASSUME ApartInv, NEW t \in Turns, UseTool(t)
  PROVE  ApartInv'
<1>1. FilesInv' /\ asked' = asked /\ stopped' = stopped
  BY SameFiles DEF UseTool, Store, Engine
<1>2. QED
  BY <1>1, ToolApart, GoesApart DEF UseTool

LEMMA ApproveApart ==
  ASSUME ApartInv, NEW t \in Turns, Approve(t)
  PROVE  ApartInv'
<1>1. FilesInv' /\ asked' = asked /\ stopped' = stopped
  BY SameFiles DEF Approve, Store, Engine
<1>2. QED
  BY <1>1, ToolApart DEF Approve

(* What a turn saves: the bridge is its own, so the output is, too.        *)
LEMMA HistoryOwn ==
  ASSUME ApartInv, NEW t \in Turns
  PROVE  History(t) \in Seq(Own(Session(t)))
<1> DEFINE read == turn[t].read.msgs
           out  == turn[t].out
           Q    == Seq(Own(Session(t)))
<1>1. Sound(turn[t], t)
  BY DEF ApartInv
<1>2. read \in Q /\ out \in Q /\ <<>> \in Q
  BY <1>1 DEF Sound, OwnFile
<1>3. Quiet(t, out) \in Q
  <2> DEFINE last == {i \in DOMAIN out : /\ Clean(out[i])
                                         /\ \A j \in DOMAIN out : j > i => ~Clean(out[j])}
  <2>1. ASSUME last # {}
        PROVE  out[CHOOSE i \in last : TRUE] \in Own(Session(t))
    <3>1. (CHOOSE i \in last : TRUE) \in DOMAIN out
      BY <2>1
    <3>2. QED
      BY <1>2, <3>1, ElementOfSeq, LenProperties
  <2>2. (IF last = {} THEN read ELSE Append(read, out[CHOOSE i \in last : TRUE])) \in Q
    BY <1>2, <2>1, AppendProperties
  <2>3. LastOf(IF last = {} THEN read ELSE Append(read, out[CHOOSE i \in last : TRUE]),
               MaxHistory) \in Q
    BY <2>2, LastOfType, TurnsAssumption
  <2>4. Quiet(t, out) = IF out = <<>> THEN read
          ELSE LastOf(IF last = {} THEN read ELSE Append(read, out[CHOOSE i \in last : TRUE]),
                      MaxHistory)
    BY DEF Quiet
  <2> HIDE DEF last, Q
  <2>5. QED
    BY <1>2, <2>3, <2>4
<1>4. Fallback(t) \in Q
  <2> DEFINE asking == Append(read, <<t, "user", 0>>)
  <2>1. asking \in Q
    BY <1>2, OwnMessage, AppendProperties
  <2>2. /\ Append(asking, <<t, "limit", 0>>) \in Q
        /\ Append(asking, <<t, "cut", 0>>) \in Q
    <3> HIDE DEF asking
    <3>1. QED
      BY <2>1, OwnMessage, AppendProperties
  <2>3. QED
    BY <2>1, <2>2 DEF Fallback
<1>5. History(t) = IF t \in Ephemeral THEN Quiet(t, out)
                  ELSE IF out # <<>> THEN out ELSE Fallback(t)
  BY DEF History, BridgeOf
<1> HIDE DEF Q, out
<1>6. QED
  BY <1>2, <1>3, <1>4, <1>5 DEF Q

LEMMA FinishApart ==
  ASSUME ApartInv, NEW t \in Turns, Finish(t)
  PROVE  ApartInv'
<1> DEFINE u == [turn[t] EXCEPT !.at = "check", !.msgs = History(t)]
<1>1. Sound(turn[t], t)
  BY DEF ApartInv
<1>2. Sound(u, t)
  BY <1>1, HistoryOwn DEF Sound, Fields
<1>3. turn' = [turn EXCEPT ![t] = u]
  BY <1>1 DEF Finish, ApartInv, Sound, Fields
<1>4. FilesInv'
  BY SameFiles DEF Finish, Store
<1>5. QED
  BY <1>2, <1>3, <1>4, OneTurn DEF Finish

LEMMA WriteFileApart ==
  ASSUME ApartInv, NEW t \in Turns, WriteFile(t)
  PROVE  ApartInv'
<1>1. Sound(turn[t], t)
  BY DEF ApartInv
<1>2. [msgs |-> turn[t].msgs, summary |-> turn[t].summary] \in OwnFile(Session(t))
  BY <1>1 DEF Sound, OwnFile
<1>3. FilesInv'
  BY <1>2 DEF WriteFile, ApartInv, FilesInv
<1>4. QED
  BY <1>3, GoesApart DEF WriteFile, Engine

LEMMA CompactApart ==
  ASSUME ApartInv, NEW t \in Turns, Compact(t)
  PROVE  ApartInv'
<1> DEFINE u == [turn[t] EXCEPT !.due = FALSE]
           w == [u EXCEPT !.at = "check", !.msgs = Recent(u.msgs),
                          !.summary = @ \o Older(u.msgs)]
<1>1. Sound(turn[t], t)
  BY DEF ApartInv
<1>2. Sound(u, t)
  BY <1>1 DEF Sound, Fields
<1>3. FilesInv' /\ asked' = asked /\ stopped' = stopped
  BY SameFiles DEF Compact, Store, Engine
<1>4. \/ turn' = [turn EXCEPT ![t] = [u EXCEPT !.at = "done"]]
      \/ Len(u.msgs) > KeepRecent /\ turn' = [turn EXCEPT ![t] = w]
  BY DEF Compact
<1> HIDE DEF u
<1>5. Sound([u EXCEPT !.at = "done"], t)
  BY <1>2 DEF Sound, Fields
<1>6. ASSUME Len(u.msgs) > KeepRecent
      PROVE  Sound(w, t)
  <2>1. Recent(u.msgs) \in Seq(Own(Session(t)))
    BY <1>2, TailOf DEF Sound
  <2>2. u.summary \o Older(u.msgs) \in Seq(Own(Session(t)))
    BY <1>2, <1>6, HeadOf, ConcatProperties DEF Sound
  <2>3. QED
    BY <1>2, <2>1, <2>2 DEF Sound, Fields
<1> HIDE DEF w
<1>7. QED
  BY <1>3, <1>4, <1>5, <1>6, OneTurn

(* The remaining steps only go from one place to another.                  *)
LEMMA MovesApart ==
  ASSUME ApartInv, NEW t \in Turns, EndStream(t) \/ CheckChat(t) \/ Fail(t)
  PROVE  ApartInv'
<1>1. FilesInv' /\ asked' = asked /\ stopped' = stopped
  BY SameFiles DEF EndStream, CheckChat, Fail, Store, Engine
<1>2. PICK step : step # "stopped" /\ Goes(t, step)
  BY DEF EndStream, CheckChat, Fail
<1>3. QED
  BY <1>1, <1>2, GoesApart

LEMMA CancelApart ==
  ASSUME ApartInv, NEW t \in Turns, Cancel(t)
  PROVE  ApartInv'
<1>1. turn' = [turn EXCEPT ![t].cancelled = TRUE] /\ stopped' = stopped
  BY DEF Cancel, Flag
<1>2. asked' = asked \cup {t} /\ FilesInv'
  BY SameFiles DEF Cancel, Store
<1>3. \A r \in Turns : Sound(turn[r], r)
  BY DEF ApartInv
<1>4. \A r \in Turns : Sound(turn[r], r)'
  BY <1>1, <1>2, <1>3 DEF Sound, Fields, ApartInv
<1>5. QED
  BY <1>1, <1>2, <1>4 DEF ApartInv

-----------------------------------------------------------------------------
(* Steps of the world.                                                     *)

LEMMA KillApart ==
  ASSUME ApartInv, Kill
  PROVE  ApartInv'
<1>1. FilesInv' /\ asked' = asked /\ stopped' = FALSE
  BY SameFiles DEF Kill
<1>2. ASSUME NEW t \in Turns
      PROVE  Sound(turn[t], t)'
  <2>1. Sound(turn[t], t)
    BY DEF ApartInv
  <2>2. turn'[t] \in {[turn[t] EXCEPT !.at = "failed"], turn[t]}
    BY DEF Kill
  <2>3. QED
    BY <1>1, <2>1, <2>2 DEF Sound, Fields
<1>3. QED
  BY <1>1, <1>2 DEF Kill, ApartInv

LEMMA DeleteChatApart ==
  ASSUME ApartInv, NEW s \in Sessions, DeleteChat(s)
  PROVE  ApartInv'
<1>1. Empty \in OwnFile(s)
  BY DEF Empty, OwnFile
<1>2. FilesInv'
  BY <1>1 DEF DeleteChat, ApartInv, FilesInv
<1>3. QED
  BY <1>2 DEF DeleteChat, Engine, ApartInv, Sound

LEMMA SameApart ==
  ASSUME ApartInv, UNCHANGED <<file, turn, stopped, asked>>
  PROVE  ApartInv'
BY DEF ApartInv, FilesInv, Sound

LEMMA ApartInit == InitTurns => ApartInv
<1> SUFFICES ASSUME InitTurns
             PROVE  ApartInv
  OBVIOUS
<1>1. ASSUME NEW s \in Sessions
      PROVE  file[s] \in OwnFile(s)
  <2>1. {m \in Message : m[1] = Before} \subseteq Own(s)
    BY DEF Own
  <2>2. scene.file[s] \in Seq({m \in Message : m[1] = Before})
    BY TurnsAssumption DEF InitTurns
  <2>3. scene.file[s] \in Seq(Own(s))
    BY <2>1, <2>2, SeqMonotonic
  <2>4. file[s] = [msgs |-> scene.file[s], summary |-> <<>>]
    BY DEF InitTurns, Empty
  <2>5. QED
    BY <2>3, <2>4 DEF OwnFile
<1>2. ASSUME NEW t \in Turns
      PROVE  Sound(turn[t], t)
  <2>1. turn[t] \in {Idle, [Idle EXCEPT !.at = "done"]}
    BY DEF InitTurns
  <2>2. Sound(Idle, t)
    BY DEF Idle, Empty, Sound, Fields, OwnFile
  <2>3. Sound([Idle EXCEPT !.at = "done"], t)
    BY <2>2 DEF Sound, Fields
  <2>4. QED
    BY <2>1, <2>2, <2>3
<1>3. QED
  BY <1>1, <1>2 DEF InitTurns, ApartInv, FilesInv

LEMMA ApartStep ==
  ASSUME ApartInv, [Next]_vars
  PROVE  ApartInv'
<1>1. CASE UNCHANGED vars
  BY <1>1, SameApart DEF vars
<1>2. ASSUME NEW t \in Turns, LoadHistory(t) \/ CallModel(t)
      PROVE  ApartInv'
  BY <1>2, LoadHistoryApart, CallModelApart
<1>3. ASSUME NEW t \in Turns, Step(t)
      PROVE  ApartInv'
  BY <1>3, TakeChatApart, UseToolApart, MovesApart, FinishApart, WriteFileApart,
     CompactApart
  DEF Step
<1>4. ASSUME NEW t \in Turns, Approve(t) \/ Cancel(t) \/ Fail(t)
      PROVE  ApartInv'
  BY <1>4, ApproveApart, CancelApart, MovesApart
<1>5. CASE Kill
  BY <1>5, KillApart
<1>6. CASE \E s \in Sessions : DeleteChat(s)
  BY <1>6, DeleteChatApart
<1>7. CASE Reinforce
  BY <1>7, SameApart DEF Reinforce, Store, Engine
<1>8. QED
  BY <1>1, <1>2, <1>3, <1>4, <1>5, <1>6, <1>7 DEF Next

LEMMA ApartAlways == Spec => []ApartInv
BY ApartInit, ApartStep, PTL DEF Spec

-----------------------------------------------------------------------------
(* A session file never holds a message of a turn of another session, for  *)
(* any number of turns and sessions over the one engine session.           *)
THEOREM MessagesStayHome == Spec => []OwnMessages
<1>1. ASSUME ApartInv
      PROVE  OwnMessages
  <2>1. ASSUME NEW s \in Sessions, NEW m \in Contents(file[s])
        PROVE  m[1] = Before \/ SessionOf[m[1]] = s
    <3>1. file[s].msgs \in Seq(Own(s)) /\ file[s].summary \in Seq(Own(s))
      BY <1>1 DEF ApartInv, FilesInv, OwnFile
    <3>2. m \in Own(s)
      BY <3>1 DEF Contents, ToSet
    <3>3. QED
      BY <3>2 DEF Own
  <2>2. QED
    BY <2>1 DEF OwnMessages
<1>2. QED
  BY <1>1, ApartAlways, PTL

(* The middleware that all turns share stops no turn but those somebody    *)
(* has asked to stop.                                                      *)
THEOREM CancellationsStayHome == Spec => []CancelIsOwn
<1>1. ApartInv => CancelIsOwn
  BY DEF ApartInv, Sound, CancelIsOwn
<1>2. QED
  BY <1>1, ApartAlways, PTL

-----------------------------------------------------------------------------
(* What a step does to one turn.                                           *)

Words(u) == <<u.read, u.msgs, u.summary, u.out, u.call, u.shown>>

Written(t) ==
  file' = IF turn[t].msgs = <<>> /\ turn[t].summary = <<>> THEN file
          ELSE [file EXCEPT ![Session(t)] =
                  [msgs |-> turn[t].msgs, summary |-> turn[t].summary]]

Stays(u, v) == Words(v) = Words(u) /\ v.at = u.at

Drops(u, v) == Words(v) = Words(u) /\ v.at \in {"failed", "stopped"} /\ (v.at = "stopped" => u.at = "model")

Proceeds(u, v) ==
  /\ Words(v) = Words(u)
  /\ <<u.at, v.at>> \in {<<"tool", "approval">>, <<"approval", "denied">>, <<"check", "write">>,
                         <<"check", "done">>, <<"compact", "done">>}

Saves(u, v) == Words(v) = Words(u) /\ u.at = "write" /\ v.at \in {"compact", "done"}

Loads(t, u, v) ==
  /\ u.at = "idle" /\ v.at = "chat"
  /\ Words(v) = <<file[Session(t)], <<>>, file[Session(t)].summary, <<>>, 0, <<>>>>

Asks(t, u, v) ==
  /\ u.at = "chat" /\ v.at = "model"
  /\ Words(v) = <<u.read, Append(u.read.msgs, <<t, "user", 0>>), u.summary, u.out, u.call, u.shown>>

(* What the client has been shown when the stream of the n-th call is over *)
Spoken(u, n, q) == \E stream \in Streams(n) : q = u.shown \o stream

(* And after the final event                                               *)
Closed(u, n, q) ==
  \E stream \in Streams(n) :
    q = IF stream = <<Text(n)>> THEN u.shown \o stream ELSE Append(u.shown \o stream, Text(n))

Answered(t, kind, u, v) ==
  LET n == u.call + 1
      h == Append(u.msgs, <<t, kind, n>>)
  IN  /\ u.at = "model" /\ v.at = "answered" /\ Closed(u, n, v.shown)
      /\ Words(v) = <<u.read, h, Trimmed(u.summary), h, n, v.shown>>

ToolCalled(t, u, v) ==
  LET n == u.call + 1 IN
  /\ u.at = "model" /\ v.at = "tool" /\ Spoken(u, n, v.shown)
  /\ Words(v) = <<u.read, Append(u.msgs, <<t, "call", n>>), Trimmed(u.summary), u.out, n, v.shown>>

Exhausted(t, u, v) ==
  LET n == u.call + 1 IN
  /\ u.at = "model" /\ v.at = "limited"
  /\ \E q : Spoken(u, n, q) /\ v.shown = Append(q, Notice)
  /\ Words(v) = <<u.read, u.msgs, Trimmed(u.summary), u.out, n, v.shown>>

ToolUsed(t, u, v) ==
  /\ u.at \in {"tool", "approval"} /\ v.at = "model"
  /\ Words(v) = <<u.read, Append(u.msgs, <<t, "tool", u.call>>), u.summary, u.out, u.call, u.shown>>

Finished(t, u, v) ==
  /\ u.at \in {"answered", "denied", "limited"} /\ v.at = "check"
  /\ Words(v) = <<u.read, History(t), u.summary, u.out, u.call, u.shown>>

Condensed(u, v) ==
  /\ u.at = "compact" /\ v.at = "check" /\ Len(u.msgs) > KeepRecent
  /\ Words(v) = <<u.read, Recent(u.msgs), u.summary \o Older(u.msgs), u.out, u.call, u.shown>>

TurnStep(t, u, v) ==
  \/ Stays(u, v) \/ Drops(u, v) \/ Proceeds(u, v)
  \/ (Saves(u, v) /\ Written(t))
  \/ Loads(t, u, v) \/ Asks(t, u, v)
  \/ \E kind \in {"ai", "skip"} : Answered(t, kind, u, v)
  \/ ToolCalled(t, u, v) \/ Exhausted(t, u, v) \/ ToolUsed(t, u, v)
  \/ Finished(t, u, v) \/ Condensed(u, v)

LEMMA Moving ==
  ASSUME ApartInv, NEW t \in Turns, NEW step, Goes(t, step)
  PROVE  Words(turn'[t]) = Words(turn[t]) /\ turn'[t].at = step
BY DEF Goes, ApartInv, Sound, Fields, Words

LEMMA CallModelSteps ==
  ASSUME ApartInv, NEW t \in Turns, CallModel(t)
  PROVE  TurnStep(t, turn[t], turn'[t])
<1>1. turn[t].at = "model" /\ Sound(turn[t], t)
  BY DEF CallModel, ApartInv
<1>2. CASE IsCancelled(t)
  <2>1. Goes(t, "stopped")
    BY <1>2 DEF CallModel
  <2>2. Words(turn'[t]) = Words(turn[t]) /\ turn'[t].at = "stopped"
    BY <2>1, Moving
  <2>3. Drops(turn[t], turn'[t])
    BY <1>1, <2>2 DEF Drops
  <2> QED
    BY <2>3 DEF TurnStep
<1>3. CASE ~IsCancelled(t)
  <2>1. PICK answer \in Answers, stream \in Streams(turn[t].call + 1) :
          LET u == Called(t, answer, stream) IN
          \/ turn' = [turn EXCEPT ![t] = Completed(u, t, "ai")]
          \/ turn' = [turn EXCEPT ![t] = Completed(u, t, "skip")]
          \/ turn' = [turn EXCEPT ![t] =
                        IF u.call = Calls[t]
                          THEN [u EXCEPT !.at = "limited", !.shown = Append(@, Notice)]
                          ELSE [u EXCEPT !.at = "tool",
                                         !.msgs = Append(@, <<t, "call", u.call>>)]]
    BY <1>3 DEF CallModel
  <2> DEFINE u == Called(t, answer, stream)
             n == turn[t].call + 1
  <2>2. /\ DOMAIN u = Fields /\ u.read = turn[t].read /\ u.msgs = turn[t].msgs
        /\ u.summary = Trimmed(turn[t].summary) /\ u.out = turn[t].out
        /\ u.call = n /\ u.at = "model"
        /\ u.shown = turn[t].shown \o stream /\ u.buffer = stream
    BY <1>1 DEF Called, Streamed, Sound, Fields
  <2>3. \/ \E kind \in {"ai", "skip"} : turn' = [turn EXCEPT ![t] = Completed(u, t, kind)]
        \/ turn' = [turn EXCEPT ![t] = [u EXCEPT !.at = "limited", !.shown = Append(@, Notice)]]
        \/ turn' = [turn EXCEPT ![t] = [u EXCEPT !.at = "tool",
                                                !.msgs = Append(@, <<t, "call", u.call>>)]]
    BY <2>1
  <2> HIDE DEF u
  <2>4. ASSUME NEW kind \in {"ai", "skip"}, turn' = [turn EXCEPT ![t] = Completed(u, t, kind)]
        PROVE  Answered(t, kind, turn[t], turn'[t])
    <3>1. turn'[t] = Completed(u, t, kind)
      BY <2>4 DEF ApartInv
    <3>3. /\ turn'[t].at = "answered" /\ turn'[t].read = u.read /\ turn'[t].summary = u.summary
          /\ turn'[t].msgs = Append(u.msgs, <<t, kind, u.call>>)
          /\ turn'[t].out = Append(u.msgs, <<t, kind, u.call>>) /\ turn'[t].call = u.call
          /\ turn'[t].shown = (IF u.buffer = <<Text(u.call)>> THEN u.shown
                                ELSE Append(u.shown, Text(u.call)))
      BY <2>2, <3>1 DEF Completed, Fields
    <3>4. Closed(turn[t], n, turn'[t].shown)
      BY <2>1, <2>2, <3>3 DEF Closed
    <3> QED
      BY <1>1, <2>2, <3>3, <3>4 DEF Answered, Words
  <2>5. CASE turn' = [turn EXCEPT ![t] = [u EXCEPT !.at = "limited", !.shown = Append(@, Notice)]]
    <3>1. /\ turn'[t].at = "limited" /\ turn'[t].read = u.read /\ turn'[t].summary = u.summary
          /\ turn'[t].msgs = u.msgs /\ turn'[t].out = u.out /\ turn'[t].call = u.call
          /\ turn'[t].shown = Append(u.shown, Notice)
      BY <2>2, <2>5 DEF ApartInv, Fields
    <3>2. Spoken(turn[t], n, u.shown)
      BY <2>1, <2>2 DEF Spoken
    <3>3. Exhausted(t, turn[t], turn'[t])
      BY <1>1, <2>2, <3>1, <3>2 DEF Exhausted, Words
    <3> QED
      BY <3>3 DEF TurnStep
  <2>6. CASE turn' = [turn EXCEPT ![t] = [u EXCEPT !.at = "tool",
                                                !.msgs = Append(@, <<t, "call", u.call>>)]]
    <3>1. /\ turn'[t].at = "tool" /\ turn'[t].read = u.read /\ turn'[t].summary = u.summary
          /\ turn'[t].msgs = Append(u.msgs, <<t, "call", u.call>>) /\ turn'[t].out = u.out
          /\ turn'[t].call = u.call /\ turn'[t].shown = u.shown
      BY <2>2, <2>6 DEF ApartInv, Fields
    <3>2. Spoken(turn[t], n, turn'[t].shown)
      BY <2>1, <2>2, <3>1 DEF Spoken
    <3>3. ToolCalled(t, turn[t], turn'[t])
      BY <1>1, <2>2, <3>1, <3>2 DEF ToolCalled, Words
    <3> QED
      BY <3>3 DEF TurnStep
  <2> QED
    BY <2>3, <2>4, <2>5, <2>6 DEF TurnStep
<1> QED
  BY <1>2, <1>3

LEMMA OwnSteps ==
  ASSUME ApartInv, NEW t \in Turns,
         LoadHistory(t) \/ CallModel(t) \/ Step(t) \/ Approve(t) \/ Cancel(t) \/ Fail(t)
  PROVE  /\ TurnStep(t, turn[t], turn'[t])
         /\ \A r \in Turns \ {t} : turn'[r] = turn[r]
<1> DEFINE u == turn[t]
           v == turn'[t]
<1>1. DOMAIN u = Fields /\ DOMAIN turn = Turns
  BY DEF ApartInv, Sound
<1>2. ASSUME NEW step, Goes(t, step)
      PROVE  /\ Words(v) = Words(u) /\ v.at = step
             /\ \A r \in Turns \ {t} : turn'[r] = turn[r]
  <2>1. Words(v) = Words(u) /\ v.at = step
    BY <1>2, Moving
  <2> QED
    BY <1>2, <2>1 DEF Goes
<1>3. CASE LoadHistory(t)
  BY <1>1, <1>3 DEF LoadHistory, TurnStep, Loads, Words, Idle
<1>4. CASE CallModel(t)
  <2>1. \A r \in Turns \ {t} : turn'[r] = turn[r]
    BY <1>1, <1>4 DEF CallModel, Goes
  <2> QED
    BY <1>4, <2>1, CallModelSteps
<1>5. CASE TakeChat(t)
  <2>1. PICK own : turn' = [turn EXCEPT ![t].at = "model", ![t].chat = own,
                              ![t].msgs = Append(turn[t].read.msgs, <<t, "user", 0>>)]
    BY <1>5 DEF TakeChat
  <2>2. Asks(t, u, v)
    BY <1>1, <1>5, <2>1 DEF TakeChat, Asks, Words, Fields
  <2> QED
    BY <1>1, <2>1, <2>2 DEF TurnStep
<1>6. ASSUME turn' = [turn EXCEPT ![t].at = "model",
                                  ![t].msgs = Append(@, <<t, "tool", turn[t].call>>)],
             u.at \in {"tool", "approval"}
      PROVE  ToolUsed(t, u, v) /\ \A r \in Turns \ {t} : turn'[r] = turn[r]
  BY <1>1, <1>6 DEF ToolUsed, Words, Fields
<1>7. CASE UseTool(t) \/ Approve(t) \/ EndStream(t)
  <2>1. CASE Goes(t, "approval") /\ u.at = "tool"
    <3>1. Proceeds(u, v)
      BY <1>2, <2>1 DEF Proceeds
    <3> QED
      BY <1>2, <2>1, <3>1 DEF TurnStep
  <2>2. CASE Goes(t, "denied") /\ u.at = "approval"
    <3>1. Proceeds(u, v)
      BY <1>2, <2>2 DEF Proceeds
    <3> QED
      BY <1>2, <2>2, <3>1 DEF TurnStep
  <2>3. CASE /\ turn' = [turn EXCEPT ![t].at = "model",
                                     ![t].msgs = Append(@, <<t, "tool", turn[t].call>>)]
             /\ u.at \in {"tool", "approval"}
    BY <1>6, <2>3 DEF TurnStep
  <2> QED
    BY <1>7, <2>1, <2>2, <2>3 DEF UseTool, Approve, EndStream, Refused
<1>8. CASE Finish(t)
  BY <1>1, <1>8 DEF Finish, TurnStep, Finished, Words, Fields
<1>9. CASE CheckChat(t) \/ Fail(t)
  <2>1. PICK step : /\ Goes(t, step)
                    /\ step = "failed" \/ (u.at = "check" /\ step \in {"write", "done"})
    BY <1>9 DEF CheckChat, Fail
  <2>2. Proceeds(u, v) \/ Drops(u, v)
    BY <1>2, <2>1 DEF Proceeds, Drops
  <2> QED
    BY <1>2, <2>1, <2>2 DEF TurnStep
<1>10. CASE WriteFile(t)
  <2>1. PICK step \in {"compact", "done"} : Goes(t, step)
    BY <1>10 DEF WriteFile
  <2>2. Saves(u, v) /\ Written(t)
    BY <1>2, <1>10, <2>1 DEF WriteFile, Saves, Written
  <2> QED
    BY <1>2, <2>1, <2>2 DEF TurnStep
<1>11. CASE Compact(t)
  <2> DEFINE w == [turn[t] EXCEPT !.due = FALSE]
  <2>1. DOMAIN w = Fields /\ Words(w) = Words(u)
    BY <1>1 DEF Fields, Words
  <2>2. \/ turn' = [turn EXCEPT ![t] = [w EXCEPT !.at = "done"]]
        \/ /\ Len(w.msgs) > KeepRecent
           /\ turn' = [turn EXCEPT ![t] = [w EXCEPT !.at = "check", !.msgs = Recent(w.msgs),
                                                     !.summary = @ \o Older(w.msgs)]]
    BY <1>11 DEF Compact
  <2> HIDE DEF w
  <2>3. u.at = "compact" /\ \A r \in Turns \ {t} : turn'[r] = turn[r]
    BY <1>1, <1>11, <2>2 DEF Compact
  <2>4. CASE turn' = [turn EXCEPT ![t] = [w EXCEPT !.at = "done"]]
    <3>1. v = [w EXCEPT !.at = "done"]
      BY <1>1, <2>4
    <3>2. Proceeds(u, v)
      BY <2>1, <2>3, <3>1 DEF Proceeds, Words, Fields
    <3> QED
      BY <2>3, <3>2 DEF TurnStep
  <2>5. CASE /\ Len(w.msgs) > KeepRecent
             /\ turn' = [turn EXCEPT ![t] = [w EXCEPT !.at = "check", !.msgs = Recent(w.msgs),
                                                      !.summary = @ \o Older(w.msgs)]]
    <3>1. /\ v.at = "check" /\ v.msgs = Recent(w.msgs) /\ v.summary = w.summary \o Older(w.msgs)
          /\ v.read = w.read /\ v.out = w.out /\ v.call = w.call /\ v.shown = w.shown
      BY <1>1, <2>1, <2>5 DEF Fields
    <3>2. Condensed(u, v)
      BY <2>1, <2>3, <2>5, <3>1 DEF Condensed, Words
    <3> QED
      BY <2>3, <3>2 DEF TurnStep
  <2> QED
    BY <2>2, <2>4, <2>5
<1>12. CASE Cancel(t)
  <2>1. turn' = [turn EXCEPT ![t].cancelled = TRUE]
    BY <1>12 DEF Cancel, Flag
  <2>2. Stays(u, v)
    BY <1>1, <2>1 DEF Stays, Words, Fields
  <2> QED
    BY <1>1, <2>1, <2>2 DEF TurnStep
<1> QED
  BY <1>3, <1>4, <1>5, <1>7, <1>8, <1>9, <1>10, <1>11, <1>12 DEF Step

LEMMA TurnSteps ==
  ASSUME ApartInv, [Next]_vars, NEW t \in Turns
  PROVE  TurnStep(t, turn[t], turn'[t])
<1>1. CASE turn'[t] = turn[t]
  BY <1>1 DEF TurnStep, Stays
<1>2. ASSUME NEW r \in Turns, LoadHistory(r) \/ CallModel(r) \/ Step(r) \/ Approve(r)
                               \/ Cancel(r) \/ Fail(r)
      PROVE  TurnStep(t, turn[t], turn'[t])
  BY <1>1, <1>2, OwnSteps
<1>3. CASE Kill
  <2>1. turn'[t] = turn[t] \/ turn'[t] = [turn[t] EXCEPT !.at = "failed"]
    BY <1>3 DEF Kill
  <2>2. DOMAIN turn[t] = Fields
    BY DEF ApartInv, Sound
  <2>3. CASE turn'[t] = [turn[t] EXCEPT !.at = "failed"]
    <3>1. Drops(turn[t], turn'[t])
      BY <2>2, <2>3 DEF Drops, Words, Fields
    <3> QED
      BY <3>1 DEF TurnStep
  <2> QED
    BY <1>1, <2>1, <2>3
<1>4. CASE (\E s \in Sessions : DeleteChat(s)) \/ Reinforce \/ UNCHANGED vars
  BY <1>1, <1>4 DEF DeleteChat, Reinforce, vars
<1> QED
  BY <1>2, <1>3, <1>4 DEF Next

-----------------------------------------------------------------------------
(* What the client is shown.                                               *)

(* Texts of the first n calls, from number low on, each at most once, and
   no two of a call before the one for which it may be so                  *)
Once(q, low, n) ==
  /\ q \in Seq(Nat)
  /\ \A i \in 1 .. Len(q) : low <= q[i] /\ q[i] <= 2 * n
  /\ \A i, j \in 1 .. Len(q) : q[i] = q[j] => i = j

(* Of the calls up to n, the client has been shown one text each.          *)
Single(q, n) ==
  \A k \in 1 .. n : \A i, j \in 1 .. Len(q) : ~(q[i] = Text(k) /\ q[j] = Other(k))

Unanswered == {"idle", "chat", "model", "tool", "approval"}

(* The notice of the limit has the number 0, and comes after all others.   *)
Shows(u) ==
  /\ Once(u.shown, 0, u.call)
  /\ u.at \in Unanswered => Once(u.shown, 1, u.call) /\ u.out = <<>>
  /\ IF u.out = <<>> THEN Single(u.shown, u.call)
     ELSE Single(u.shown, u.call - 1) /\ Text(u.call) \in ToSet(u.shown)

LEMMA OnceMore ==
  ASSUME NEW q, NEW l \in Nat, NEW h \in Nat, Once(q, l, h), NEW x \in Nat,
         l <= x, x <= 2 * h, \A i \in 1 .. Len(q) : q[i] # x
  PROVE  /\ Once(Append(q, x), l, h)
         /\ Len(Append(q, x)) = Len(q) + 1 /\ Append(q, x)[Len(q) + 1] = x
         /\ \A i \in 1 .. Len(q) : Append(q, x)[i] = q[i]
         /\ Len(q) \in Nat
<1>1. q \in Seq(Nat) /\ Len(q) \in Nat
  BY LenProperties DEF Once
<1> DEFINE r == Append(q, x)
<1>2. /\ r \in Seq(Nat) /\ Len(r) = Len(q) + 1 /\ r[Len(q) + 1] = x
      /\ \A i \in 1 .. Len(q) : r[i] = q[i]
  BY <1>1, AppendProperties
<1> HIDE DEF r
<1>3. ASSUME NEW i \in 1 .. Len(r)
      PROVE  i \in 1 .. Len(q) \/ (i = Len(q) + 1 /\ r[i] = x)
  BY <1>1, <1>2
<1>4. \A i \in 1 .. Len(r) : l <= r[i] /\ r[i] <= 2 * h
  BY <1>2, <1>3 DEF Once
<1>5. \A i, j \in 1 .. Len(r) : r[i] = r[j] => i = j
  BY <1>2, <1>3 DEF Once
<1> QED
  BY <1>1, <1>2, <1>4, <1>5 DEF Once, r

LEMMA OnceWider ==
  ASSUME NEW q, NEW l \in Nat, NEW m \in Nat, NEW h \in Nat, Once(q, l, m), m <= h
  PROVE  Once(q, 0, h) /\ Once(q, l, h)
<1>1. \A i \in 1 .. Len(q) : q[i] \in Nat
  BY LenProperties, ElementOfSeq DEF Once
<1> QED
  BY <1>1 DEF Once

LEMMA SingleMore ==
  ASSUME NEW q \in Seq(Nat), NEW n \in Nat, Single(q, n), NEW x \in Nat,
         \A k \in 1 .. n : x # Text(k) /\ x # Other(k)
  PROVE  Single(Append(q, x), n)
<1>1. Len(q) \in Nat
  BY LenProperties
<1> DEFINE r == Append(q, x)
<1>2. /\ Len(r) = Len(q) + 1 /\ r[Len(q) + 1] = x
      /\ \A i \in 1 .. Len(q) : r[i] = q[i]
  BY AppendProperties
<1> HIDE DEF r
<1>3. ASSUME NEW i \in 1 .. Len(r)
      PROVE  i \in 1 .. Len(q) \/ (i = Len(q) + 1 /\ r[i] = x)
  BY <1>1, <1>2
<1>4. ASSUME NEW k \in 1 .. n, NEW i \in 1 .. Len(r), NEW j \in 1 .. Len(r),
             r[i] = Text(k), r[j] = Other(k)
      PROVE  FALSE
  <2>1. i \in 1 .. Len(q) /\ j \in 1 .. Len(q)
    BY <1>3, <1>4
  <2> QED
    BY <1>2, <1>4, <2>1 DEF Single
<1> QED
  BY <1>4 DEF Single, r

(* What one more call leaves the client with: nothing, or one text more.   *)
LEMMA SpokenShows ==
  ASSUME NEW u, NEW n \in Nat, u.call \in Nat, n = u.call + 1,
         Once(u.shown, 1, u.call), Single(u.shown, u.call), NEW q, Spoken(u, n, q)
  PROVE  /\ Once(q, 1, n) /\ Single(q, u.call) /\ Single(q, n)
         /\ q = u.shown \/ q = Append(u.shown, Text(n)) \/ q = Append(u.shown, Other(n))
<1> DEFINE p == u.shown
<1>1. p \in Seq(Nat) /\ Len(p) \in Nat /\ \A i \in 1 .. Len(p) : p[i] \in Nat
  BY LenProperties, ElementOfSeq DEF Once
<1>2. \A i \in 1 .. Len(p) : p[i] <= 2 * u.call
  BY DEF Once
<1>3. /\ Text(n) \in Nat /\ Other(n) \in Nat /\ Text(n) # Other(n)
      /\ 1 <= Text(n) /\ 1 <= Other(n) /\ Text(n) <= 2 * n /\ Other(n) <= 2 * n
      /\ \A k \in 1 .. u.call : Text(n) # Text(k) /\ Text(n) # Other(k)
      /\ \A k \in 1 .. u.call : Other(n) # Text(k) /\ Other(n) # Other(k)
  BY DEF Text, Other
<1>4. \A i \in 1 .. Len(p) : p[i] # Text(n) /\ p[i] # Other(n)
  BY <1>1, <1>2 DEF Text, Other
<1>5. Once(p, 1, n)
  BY OnceWider
<1>6. q \in {p \o <<>>, p \o <<Text(n)>>, p \o <<Other(n)>>}
  BY DEF Spoken, Streams
<1>7. ASSUME NEW x \in Nat PROVE p \o <<x>> = Append(p, x) /\ p \o <<>> = p
  BY <1>1
<1>8. q = p \/ q = Append(p, Text(n)) \/ q = Append(p, Other(n))
  BY <1>3, <1>6, <1>7
<1>9. Single(p, n)
  <2> SUFFICES ASSUME NEW k \in 1 .. n, NEW i \in 1 .. Len(p), NEW j \in 1 .. Len(p),
                      p[i] = Text(k), p[j] = Other(k)
               PROVE  FALSE
    BY DEF Single
  <2>1. k \in 1 .. u.call
    BY <1>4
  <2> QED
    BY <2>1 DEF Single
<1>10. ASSUME NEW x \in {Text(n), Other(n)}, q = Append(p, x)
       PROVE  Once(q, 1, n) /\ Single(q, u.call) /\ Single(q, n)
  <2>1. x \in Nat /\ 1 <= x /\ x <= 2 * n /\ \A i \in 1 .. Len(p) : p[i] # x
    BY <1>3, <1>4
  <2>2. /\ Once(Append(p, x), 1, n) /\ Len(Append(p, x)) = Len(p) + 1
        /\ Append(p, x)[Len(p) + 1] = x /\ \A i \in 1 .. Len(p) : Append(p, x)[i] = p[i]
    BY <1>5, <2>1, OnceMore
  <2>3. Single(q, u.call)
    BY <1>1, <1>3, <1>10, <2>1, SingleMore
  <2>4. ASSUME NEW i \in 1 .. Len(q), NEW j \in 1 .. Len(q), q[i] = Text(n), q[j] = Other(n)
        PROVE  FALSE
    <3> HIDE DEF p
    <3>1. (i \in 1 .. Len(p) \/ i = Len(p) + 1) /\ (j \in 1 .. Len(p) \/ j = Len(p) + 1)
      BY <1>1, <1>10, <2>2
    <3>2. i \notin 1 .. Len(p) /\ j \notin 1 .. Len(p)
      BY <1>4, <1>10, <2>2, <2>4
    <3> QED
      BY <1>3, <2>4, <3>1, <3>2
  <2>5. \A k \in 1 .. n : k = n \/ k \in 1 .. u.call
    OBVIOUS
  <2>6. Single(q, n)
    BY <2>3, <2>4, <2>5 DEF Single
  <2> QED
    BY <1>10, <2>2, <2>3, <2>6
<1> QED
  BY <1>5, <1>8, <1>9, <1>10

LEMMA ShowsStep ==
  ASSUME NEW t \in Turns, NEW u, NEW v, u.call \in Nat, TurnStep(t, u, v), Shows(u)
  PROVE  Shows(v)
<1> DEFINE n == u.call + 1
<1>1. u.call \in Nat /\ n \in Nat /\ n - 1 = u.call
  OBVIOUS
<1>2. TurnStep(t, u, v)
  OBVIOUS
<1>3. Shows(u)
  OBVIOUS
<1>4. CASE Words(v) = Words(u) /\ (v.at \in Unanswered => u.at \in Unanswered)
  BY <1>3, <1>4 DEF Words, Shows
<1>5. CASE Stays(u, v) \/ Drops(u, v) \/ Proceeds(u, v) \/ Saves(u, v)
  BY <1>4, <1>5 DEF Stays, Drops, Proceeds, Saves, Unanswered
<1>6. CASE Loads(t, u, v)
  <2>1. v.shown = <<>> /\ v.out = <<>> /\ v.call = 0
    BY <1>6 DEF Loads, Words
  <2>2. Once(<<>>, 0, 0) /\ Once(<<>>, 1, 0) /\ Single(<<>>, 0)
    BY EmptySeq DEF Once, Single
  <2> QED
    BY <2>1, <2>2 DEF Shows
<1>7. CASE Asks(t, u, v) \/ ToolUsed(t, u, v)
  BY <1>3, <1>7 DEF Asks, ToolUsed, Words, Shows, Unanswered
<1>8. ASSUME u.at = "model"
      PROVE  u.out = <<>> /\ Once(u.shown, 1, u.call) /\ Single(u.shown, u.call)
  BY <1>3, <1>8 DEF Shows, Unanswered
<1>9. ASSUME NEW kind \in {"ai", "skip"}, Answered(t, kind, u, v) PROVE Shows(v)
  <2>1. u.at = "model" /\ Closed(u, n, v.shown) /\ v.call = n /\ v.at = "answered"
    BY <1>9 DEF Answered, Words
  <2>2. PICK stream \in Streams(n) :
          v.shown = IF stream = <<Text(n)>> THEN u.shown \o stream
                    ELSE Append(u.shown \o stream, Text(n))
    BY <2>1 DEF Closed
  <2> DEFINE q == u.shown \o stream
             p == u.shown
  <2>3. Spoken(u, n, q)
    BY DEF Spoken
  <2>4. /\ Once(q, 1, n) /\ Single(q, u.call)
        /\ q = p \/ q = Append(p, Text(n)) \/ q = Append(p, Other(n))
    BY <1>1, <1>8, <2>1, <2>3, SpokenShows
  <2>5. /\ p \in Seq(Nat) /\ Len(p) \in Nat
        /\ \A i \in 1 .. Len(p) : p[i] # Text(n) /\ p[i] # Other(n)
    <3>1. p \in Seq(Nat) /\ Len(p) \in Nat /\ \A i \in 1 .. Len(p) : p[i] \in Nat
      BY <1>8, <2>1, LenProperties, ElementOfSeq DEF Once
    <3>2. \A i \in 1 .. Len(p) : p[i] <= 2 * u.call
      BY <1>8, <2>1 DEF Once
    <3> QED
      BY <3>1, <3>2 DEF Text, Other
  <2>6. Text(n) \in Nat /\ Other(n) \in Nat /\ Text(n) # Other(n) /\ 1 <= Text(n) /\ Text(n) <= 2 * n
        /\ \A k \in 1 .. u.call : Text(n) # Text(k) /\ Text(n) # Other(k)
    BY <1>1 DEF Text, Other
  <2>7. stream # <<Text(n)>> => q = p \/ q = Append(p, Other(n))
    <3>1. p \o <<>> = p /\ p \o <<Other(n)>> = Append(p, Other(n))
      BY <2>5, <2>6
    <3>2. stream \in {<<>>, <<Text(n)>>, <<Other(n)>>}
      BY DEF Streams
    <3> QED
      BY <3>1, <3>2
  <2>8. stream = <<Text(n)>> => q = Append(p, Text(n))
    BY <2>5, <2>6
  <2> HIDE DEF q
  <2>9. ASSUME NEW x \in Nat PROVE /\ Len(Append(p, x)) = Len(p) + 1
                                   /\ Append(p, x)[Len(p) + 1] = x
                                   /\ \A i \in 1 .. Len(p) : Append(p, x)[i] = p[i]
    BY <2>5, AppendProperties
  <2> DEFINE r == v.shown
  <2>11. Once(r, 1, n) /\ Single(r, u.call) /\ \E i \in 1 .. Len(r) : r[i] = Text(n)
    <3>1. CASE stream = <<Text(n)>>
      <4>1. r = q /\ q = Append(p, Text(n))
        BY <2>2, <2>8, <3>1 DEF q
      <4>2. Len(r) = Len(p) + 1 /\ r[Len(p) + 1] = Text(n)
        BY <2>6, <2>9, <4>1
      <4> QED
        BY <2>4, <2>5, <4>1, <4>2
    <3>2. CASE stream # <<Text(n)>>
      <4>1. r = Append(q, Text(n)) /\ (q = p \/ q = Append(p, Other(n)))
        BY <2>2, <2>7, <3>2 DEF q
      <4>2. \A i \in 1 .. Len(q) : q[i] # Text(n)
        <5>1. CASE q = p
          BY <2>5, <5>1
        <5>2. CASE q = Append(p, Other(n))
          <6>1. Len(q) = Len(p) + 1 /\ q[Len(p) + 1] = Other(n)
                /\ \A i \in 1 .. Len(p) : q[i] = p[i]
            BY <2>6, <2>9, <5>2
          <6>2. \A i \in 1 .. Len(q) : i \in 1 .. Len(p) \/ i = Len(p) + 1
            BY <2>5, <6>1
          <6> QED
            BY <2>5, <2>6, <6>1, <6>2
        <5> QED
          BY <4>1, <5>1, <5>2
      <4>3. /\ Once(r, 1, n) /\ Len(r) = Len(q) + 1 /\ r[Len(q) + 1] = Text(n) /\ Len(q) \in Nat
        <5> DEFINE x == Text(n)
        <5>1. x \in Nat /\ 1 <= x /\ x <= 2 * n /\ \A i \in 1 .. Len(q) : q[i] # x
          BY <2>6, <4>2
        <5>2. r = Append(q, x) /\ Once(q, 1, n) /\ 1 \in Nat /\ n \in Nat
          BY <1>1, <2>4, <4>1
        <5> HIDE DEF x, r
        <5>3. /\ Once(Append(q, x), 1, n) /\ Len(Append(q, x)) = Len(q) + 1
              /\ Append(q, x)[Len(q) + 1] = x /\ Len(q) \in Nat
          BY <5>1, <5>2, OnceMore
        <5> QED
          BY <5>2, <5>3 DEF x
      <4>4. q \in Seq(Nat)
        BY <2>4 DEF Once
      <4>5. Single(r, u.call)
        BY <1>1, <2>4, <2>6, <4>1, <4>4, SingleMore
      <4>6. Len(q) + 1 \in 1 .. Len(r)
        BY <4>3
      <4> QED
        BY <4>3, <4>5, <4>6
    <3> QED
      BY <3>1, <3>2
  <2>12. Once(r, 0, n)
    BY <1>1, <2>11, OnceWider
  <2>13. Text(n) \in ToSet(r)
    <3>1. DOMAIN r = 1 .. Len(r)
      BY <2>12, LenProperties DEF Once
    <3> QED
      BY <2>11, <3>1 DEF ToSet
  <2>14. v.out # <<>>
    <3>1. v.out = Append(u.msgs, <<t, kind, n>>)
      BY <1>9 DEF Answered, Words
    <3> QED
      BY <3>1
  <2> QED
    BY <1>1, <2>1, <2>11, <2>12, <2>13, <2>14 DEF Shows, Unanswered
<1>10. CASE ToolCalled(t, u, v)
  <2>1. u.at = "model" /\ Spoken(u, n, v.shown) /\ v.call = n /\ v.out = u.out
    BY <1>10 DEF ToolCalled, Words
  <2>2. Once(v.shown, 1, n) /\ Single(v.shown, n)
    BY <1>1, <1>8, <2>1, SpokenShows
  <2>3. Once(v.shown, 0, n)
    BY <1>1, <2>2, OnceWider
  <2> QED
    BY <1>8, <2>1, <2>2, <2>3 DEF Shows
<1>11. CASE Exhausted(t, u, v)
  <2>1. PICK q : Spoken(u, n, q) /\ v.shown = Append(q, Notice)
    BY <1>11 DEF Exhausted
  <2>2. u.at = "model" /\ v.call = n /\ v.out = u.out /\ v.at = "limited"
    BY <1>11 DEF Exhausted, Words
  <2>3. Once(q, 1, n) /\ Single(q, n)
    BY <1>1, <1>8, <2>1, <2>2, SpokenShows
  <2>4. Once(q, 0, n) /\ \A i \in 1 .. Len(q) : q[i] # Notice
    BY <1>1, <2>3, OnceWider DEF Once, Notice
  <2>5. Once(v.shown, 0, n)
    <3>1. Notice \in Nat /\ 0 <= Notice /\ Notice <= 2 * n
      BY <1>1 DEF Notice
    <3> HIDE DEF n
    <3>2. Once(Append(q, Notice), 0, n)
      BY <1>1, <2>4, <3>1, OnceMore
    <3> QED
      BY <2>1, <3>2
  <2>6. Single(v.shown, n)
    <3>1. Notice \in Nat /\ \A k \in 1 .. n : Notice # Text(k) /\ Notice # Other(k)
      BY <1>1 DEF Notice, Text, Other
    <3>2. q \in Seq(Nat)
      BY <2>3 DEF Once
    <3> QED
      BY <1>1, <2>1, <2>3, <3>1, <3>2, SingleMore
  <2> QED
    BY <1>8, <2>2, <2>5, <2>6 DEF Shows, Unanswered
<1>12. CASE Finished(t, u, v) \/ Condensed(u, v)
  BY <1>3, <1>12 DEF Finished, Condensed, Words, Shows, Unanswered
<1> QED
  BY <1>2, <1>5, <1>6, <1>7, <1>9, <1>10, <1>11, <1>12 DEF TurnStep

ShownInv == \A t \in Turns : Shows(turn[t])

LEMMA ShownInit == InitTurns => ShownInv
<1> SUFFICES ASSUME InitTurns, NEW t \in Turns PROVE Shows(turn[t])
  BY DEF ShownInv
<1>1. turn[t].shown = <<>> /\ turn[t].out = <<>> /\ turn[t].call = 0
  BY DEF InitTurns, Idle
<1>2. Once(<<>>, 0, 0) /\ Once(<<>>, 1, 0) /\ Single(<<>>, 0)
  BY EmptySeq DEF Once, Single
<1> QED
  BY <1>1, <1>2 DEF Shows

LEMMA ShownAlways == Spec => []ShownInv
<1>1. ApartInv /\ ShownInv /\ [Next]_vars => ShownInv'
  <2> SUFFICES ASSUME ApartInv, ShownInv, [Next]_vars, NEW t \in Turns PROVE Shows(turn'[t])
    BY DEF ShownInv, Shows
  <2>1. Shows(turn[t]) /\ turn[t].call \in Nat /\ TurnStep(t, turn[t], turn'[t])
    BY TurnSteps DEF ShownInv, ApartInv, Sound
  <2> QED
    BY <2>1, ShowsStep
<1> QED
  BY <1>1, ShownInit, ApartAlways, PTL DEF Spec

(* No text reaches the client twice, be it streamed or not and whether or  *)
(* not the turn ends with it, and that of the answer reaches it.  Two      *)
(* texts of one call reach it only when the turn is answered by that call  *)
(* and its stream differed from the answer: for any limits, tools,         *)
(* approvals and ends of a turn.                                           *)
THEOREM RepliesShownOnce == Spec => []ReplyShownOnce
<1>1. ASSUME ApartInv, ShownInv, NEW t \in Turns
      PROVE  LET shown == turn[t].shown
                 ends  == turn[t].out # <<>>
             IN  /\ ends => Text(turn[t].call) \in ToSet(shown)
                 /\ \A i, j \in 1 .. Len(shown) : shown[i] = shown[j] => i = j
                 /\ \A n \in 1 .. turn[t].call :
                      {Text(n), Other(n)} \subseteq ToSet(shown) => ends /\ n = turn[t].call
  <2> DEFINE q == turn[t].shown
             c == turn[t].call
  <2>1. Shows(turn[t]) /\ c \in Nat
    BY <1>1 DEF ShownInv, ApartInv, Sound
  <2>2. Once(q, 0, c) /\ (turn[t].out # <<>> => Text(c) \in ToSet(q))
    BY <2>1 DEF Shows
  <2>3. DOMAIN q = 1 .. Len(q) /\ \A i, j \in 1 .. Len(q) : q[i] = q[j] => i = j
    BY <2>2, LenProperties DEF Once
  <2>4. ASSUME NEW n \in 1 .. c, {Text(n), Other(n)} \subseteq ToSet(q)
        PROVE  turn[t].out # <<>> /\ n = c
    <3>1. PICK i \in 1 .. Len(q), j \in 1 .. Len(q) : q[i] = Text(n) /\ q[j] = Other(n)
      BY <2>3, <2>4 DEF ToSet
    <3>2. ~Single(q, c)
      BY <3>1 DEF Single
    <3>3. turn[t].out # <<>> /\ Single(q, c - 1)
      BY <2>1, <3>2 DEF Shows
    <3>4. n \notin 1 .. (c - 1)
      BY <3>1, <3>3 DEF Single
    <3> QED
      BY <2>1, <3>3, <3>4
  <2> QED
    BY <2>2, <2>3, <2>4
<1>2. ApartInv /\ ShownInv => ReplyShownOnce
  BY <1>1 DEF ReplyShownOnce
<1> QED
  BY <1>2, ApartAlways, ShownAlways, PTL

-----------------------------------------------------------------------------
(* What a turn has read and said is in what it saves.                      *)

LEMMA InSet ==
  ASSUME NEW S, NEW q \in Seq(S), NEW i \in 1 .. Len(q)
  PROVE  q[i] \in ToSet(q)
BY LenProperties DEF ToSet

LEMMA SetOf ==
  ASSUME NEW S, NEW q \in Seq(S), NEW m \in ToSet(q)
  PROVE  \E i \in 1 .. Len(q) : m = q[i]
BY LenProperties DEF ToSet

LEMMA AppendSet ==
  ASSUME NEW S, NEW q \in Seq(S), NEW x \in S
  PROVE  ToSet(Append(q, x)) = ToSet(q) \cup {x}
<1> DEFINE r == Append(q, x)
<1>1. /\ DOMAIN r = 1 .. (Len(q) + 1) /\ DOMAIN q = 1 .. Len(q) /\ Len(q) \in Nat
      /\ r[Len(q) + 1] = x /\ \A i \in 1 .. Len(q) : r[i] = q[i]
  BY AppendProperties, LenProperties
<1> HIDE DEF r
<1>2. DOMAIN r = DOMAIN q \cup {Len(q) + 1}
  BY <1>1
<1>3. \A i \in DOMAIN q : r[i] = q[i]
  BY <1>1
<1> QED
  BY <1>1, <1>2, <1>3 DEF ToSet, r

LEMMA ConcatIs ==
  ASSUME NEW X, NEW a \in Seq(X), NEW b \in Seq(X)
  PROVE  a \o b \in Seq(X) /\ ToSet(a \o b) = ToSet(a) \cup ToSet(b)
<1> DEFINE c == a \o b
<1>1. /\ c \in Seq(X) /\ Len(c) = Len(a) + Len(b) /\ Len(a) \in Nat /\ Len(b) \in Nat
      /\ \A i \in 1 .. (Len(a) + Len(b)) : c[i] = IF i <= Len(a) THEN a[i] ELSE b[i - Len(a)]
  BY ConcatProperties, LenProperties
<1> HIDE DEF c
<1>2. ASSUME NEW x \in ToSet(c) PROVE x \in ToSet(a) \cup ToSet(b)
  <2>1. PICK i \in 1 .. Len(c) : x = c[i]
    BY <1>1, <1>2, SetOf
  <2>2. CASE i <= Len(a)
    <3>1. i \in 1 .. Len(a) /\ x = a[i]
      BY <1>1, <2>1, <2>2
    <3> QED
      BY <3>1, InSet
  <2>3. CASE ~(i <= Len(a))
    <3>1. i - Len(a) \in 1 .. Len(b) /\ x = b[i - Len(a)]
      BY <1>1, <2>1, <2>3
    <3> QED
      BY <3>1, InSet
  <2> QED
    BY <2>2, <2>3
<1>3. ASSUME NEW x \in ToSet(a) PROVE x \in ToSet(c)
  <2>1. PICK i \in 1 .. Len(a) : x = a[i]
    BY <1>3, SetOf
  <2>2. i \in 1 .. Len(c) /\ c[i] = x
    BY <1>1, <2>1
  <2> QED
    BY <1>1, <2>2, InSet
<1>4. ASSUME NEW x \in ToSet(b) PROVE x \in ToSet(c)
  <2>1. PICK i \in 1 .. Len(b) : x = b[i]
    BY <1>4, SetOf
  <2>2. /\ i + Len(a) \in 1 .. (Len(a) + Len(b))
        /\ ~(i + Len(a) <= Len(a)) /\ i + Len(a) - Len(a) = i
    BY <1>1, <2>1
  <2>3. i + Len(a) \in 1 .. Len(c) /\ c[i + Len(a)] = x
    BY <1>1, <2>1, <2>2
  <2> QED
    BY <1>1, <2>3, InSet
<1> QED
  BY <1>1, <1>2, <1>3, <1>4 DEF c

(* A stretch of a sequence, which may reach beyond its end                 *)
LEMMA StretchSet ==
  ASSUME NEW S, NEW q \in Seq(S), NEW m \in Int, NEW n \in Int,
         NEW i \in 1 .. Len(q), m <= i, i <= n
  PROVE  q[i] \in ToSet(SubSeq(q, m, n))
<1> DEFINE U == {q[k] : k \in m .. n}
           r == SubSeq(q, m, n)
           k == i - m + 1
<1>1. /\ r \in Seq(U) /\ Len(r) = IF m <= n THEN n - m + 1 ELSE 0
      /\ \A j \in 1 .. (n - m + 1) : r[j] = q[m + j - 1]
  <2>1. \A j \in m .. n : q[j] \in U
    OBVIOUS
  <2> HIDE DEF U
  <2> QED
    BY <2>1, SubSeqProperties
<1> HIDE DEF U, r
<1>2. Len(q) \in Nat
  BY LenProperties
<1>3. k \in 1 .. (n - m + 1) /\ m + k - 1 = i /\ Len(r) = n - m + 1
  BY <1>1, <1>2
<1> HIDE DEF k
<1>4. r[k] = q[i] /\ k \in 1 .. Len(r)
  BY <1>1, <1>3
<1>5. r[k] \in ToSet(r)
  BY <1>1, <1>4, InSet
<1> QED
  BY <1>4, <1>5 DEF r

LEMMA TrimLoses ==
  ASSUME NEW S, NEW q \in Seq(S)
  PROVE  ToSet(q) \subseteq ToSet(Trimmed(q)) \cup ToSet(SubSeq(q, SummaryRoom + 1, Len(q)))
<1>1. Len(q) \in Nat /\ SummaryRoom \in Nat
  BY LenProperties, TurnsAssumption
<1>2. ASSUME NEW i \in 1 .. Len(q)
      PROVE  q[i] \in ToSet(Trimmed(q)) \cup ToSet(SubSeq(q, SummaryRoom + 1, Len(q)))
  <2>1. CASE i <= SummaryRoom
    <3> DEFINE e == IF Len(q) < SummaryRoom THEN Len(q) ELSE SummaryRoom
    <3>1. e \in Int /\ 1 \in Int /\ 1 <= i /\ i <= e
      BY <1>1, <2>1
    <3> HIDE DEF e
    <3>2. q[i] \in ToSet(SubSeq(q, 1, e))
      BY <3>1, StretchSet
    <3> QED
      BY <3>2 DEF e, Trimmed, FirstOf
  <2>2. CASE SummaryRoom + 1 <= i
    <3>1. SummaryRoom + 1 \in Int /\ Len(q) \in Int /\ i <= Len(q)
      BY <1>1
    <3>2. q[i] \in ToSet(SubSeq(q, SummaryRoom + 1, Len(q)))
      BY <2>2, <3>1, StretchSet
    <3> QED
      BY <3>2
  <2> QED
    BY <1>1, <2>1, <2>2
<1> QED
  BY <1>2, SetOf

LEMMA TrimTwice ==
  ASSUME NEW S, NEW q \in Seq(S)
  PROVE  Trimmed(q) \in Seq(S) /\ Trimmed(Trimmed(q)) = Trimmed(q)
<1> DEFINE r == Trimmed(q)
           e == IF Len(q) < SummaryRoom THEN Len(q) ELSE SummaryRoom
<1>1. Len(q) \in Nat /\ SummaryRoom \in Nat
  BY LenProperties, TurnsAssumption
<1>2. r \in Seq(S)
  BY FirstOfType, <1>1 DEF Trimmed
<1>3. Len(r) = e
  <2>1. e \in Int /\ 1 \in Int /\ e <= Len(q) /\ (IF 1 <= e THEN e - 1 + 1 ELSE 0) = e
    BY <1>1
  <2> HIDE DEF e
  <2>2. \A i \in 1 .. e : q[i] \in S
    BY <1>1, <2>1, ElementOfSeq
  <2>3. Len(SubSeq(q, 1, e)) = IF 1 <= e THEN e - 1 + 1 ELSE 0
    BY <2>1, <2>2, SubSeqProperties
  <2> QED
    BY <2>1, <2>3 DEF e, Trimmed, FirstOf
<1> HIDE DEF r
<1>4. (IF Len(r) < SummaryRoom THEN Len(r) ELSE SummaryRoom) = Len(r)
  BY <1>1, <1>3
<1>5. Trimmed(r) = SubSeq(r, 1, Len(r))
  BY <1>4 DEF Trimmed, FirstOf
<1> QED
  BY <1>2, <1>5, SubSeqFull DEF r

(* The last messages, and those before them                                *)
LEMMA LastLoses ==
  ASSUME NEW S, NEW q \in Seq(S), NEW n \in Nat, NEW i \in 1 .. Len(q)
  PROVE  q[i] \in ToSet(LastOf(q, n)) \/ i <= Len(q) - n
<1> DEFINE m == (IF Len(q) > n THEN Len(q) - n ELSE 0) + 1
<1>1. Len(q) \in Nat
  BY LenProperties
<1>2. CASE m <= i
  <2>1. m \in Int /\ Len(q) \in Int /\ i <= Len(q)
    BY <1>1
  <2> HIDE DEF m
  <2>2. q[i] \in ToSet(SubSeq(q, m, Len(q)))
    BY <1>2, <2>1, StretchSet
  <2> QED
    BY <2>2 DEF LastOf, m
<1> QED
  BY <1>1, <1>2

LEMMA RecentOlder ==
  ASSUME NEW S, NEW q \in Seq(S), Len(q) > KeepRecent
  PROVE  ToSet(q) \subseteq ToSet(Recent(q)) \cup ToSet(Older(q))
<1>1. Len(q) \in Nat /\ KeepRecent \in Nat /\ Recent(q) = LastOf(q, KeepRecent)
  BY LenProperties, TurnsAssumption DEF Recent, LastOf
<1>2. ASSUME NEW i \in 1 .. Len(q) PROVE q[i] \in ToSet(Recent(q)) \cup ToSet(Older(q))
  <2>1. ASSUME i <= Len(q) - KeepRecent PROVE q[i] \in ToSet(Older(q))
    <3>1. 1 \in Int /\ Len(q) - KeepRecent \in Int /\ 1 <= i
      BY <1>1
    <3> QED
      BY <2>1, <3>1, StretchSet DEF Older
  <2> QED
    BY <1>1, <2>1, LastLoses
<1> QED
  BY <1>2, SetOf

Way(t, read) ==
  ToSet(SubSeq(read.summary, SummaryRoom + 1, Len(read.summary)))
    \cup IF t \in Ephemeral
           THEN ToSet(SubSeq(read.msgs, 1, Len(read.msgs) + 1 - MaxHistory)) ELSE {}

Said(t, u) == IF t \in Ephemeral THEN {} ELSE ToSet(u.out)

Streaming == {"answered", "denied", "limited"}

(* What the record u of turn t has of what the turn read                   *)
Holds(t, u) ==
  /\ u.at = "chat" => u.summary = u.read.summary
  /\ u.at \in {"model", "tool", "approval"} \cup Streaming =>
       /\ u.summary \in {u.read.summary, Trimmed(u.read.summary)}
       /\ ToSet(u.read.msgs) \subseteq ToSet(u.msgs)
  /\ u.at \in Streaming => u.out \in {<<>>, u.msgs}
  /\ u.at \in {"check", "write", "compact"} =>
       Contents(u.read) \cup Said(t, u) \subseteq ToSet(u.msgs) \cup ToSet(u.summary) \cup Way(t, u.read)

LEMMA QuietKeeps ==
  ASSUME ApartInv, NEW t \in Turns, t \in Ephemeral
  PROVE  ToSet(turn[t].read.msgs) \subseteq ToSet(Quiet(t, turn[t].out)) \cup Way(t, turn[t].read)
<1> DEFINE read == turn[t].read.msgs
           out  == turn[t].out
           S    == Own(Session(t))
           way  == ToSet(SubSeq(read, 1, Len(read) + 1 - MaxHistory))
           last == {i \in DOMAIN out : /\ Clean(out[i])
                                       /\ \A j \in DOMAIN out : j > i => ~Clean(out[j])}
           x    == out[CHOOSE i \in last : TRUE]
           q    == IF last = {} THEN read ELSE Append(read, x)
<1>1. read \in Seq(S) /\ out \in Seq(S) /\ Len(read) \in Nat /\ MaxHistory \in Nat
  BY LenProperties, TurnsAssumption DEF ApartInv, Sound, OwnFile
<1>2. way \subseteq Way(t, turn[t].read)
  BY DEF Way
<1>3. ASSUME last # {} PROVE x \in S
  <2>1. (CHOOSE i \in last : TRUE) \in DOMAIN out
    BY <1>3
  <2> QED
    BY <1>1, <2>1, ElementOfSeq, LenProperties
<1>4. Quiet(t, out) = IF out = <<>> THEN read ELSE LastOf(q, MaxHistory)
  BY DEF Quiet
<1> HIDE DEF S, last, x, out
<1>5. /\ q \in Seq(S) /\ Len(q) \in {Len(read), Len(read) + 1}
      /\ \A i \in 1 .. Len(read) : q[i] = read[i]
  BY <1>1, <1>3, AppendProperties
<1> HIDE DEF q, read
<1>6. ASSUME NEW i \in 1 .. Len(read) PROVE read[i] \in ToSet(LastOf(q, MaxHistory)) \cup way
  <2>1. i \in 1 .. Len(q) /\ q[i] = read[i]
    BY <1>1, <1>5
  <2>2. CASE q[i] \in ToSet(LastOf(q, MaxHistory))
    BY <2>1, <2>2
  <2>3. CASE i <= Len(q) - MaxHistory
    <3>1. 1 \in Int /\ Len(read) + 1 - MaxHistory \in Int /\ 1 <= i
          /\ i <= Len(read) + 1 - MaxHistory
      BY <1>1, <1>5, <2>3
    <3>2. read[i] \in way
      BY <1>1, <3>1, StretchSet
    <3> QED
      BY <3>2
  <2> QED
    BY <1>1, <1>5, <2>1, <2>2, <2>3, LastLoses
<1> HIDE DEF way
<1>7. ToSet(read) \subseteq ToSet(LastOf(q, MaxHistory)) \cup way
  BY <1>1, <1>6, SetOf
<1>8. ToSet(read) \subseteq ToSet(Quiet(t, out)) \cup way
  BY <1>4, <1>7
<1> QED
  BY <1>2, <1>8 DEF read, out

LEMMA HistoryKeeps ==
  ASSUME ApartInv, NEW t \in Turns, turn[t].at \in Streaming, Holds(t, turn[t])
  PROVE  Contents(turn[t].read) \cup Said(t, turn[t])
           \subseteq ToSet(History(t)) \cup ToSet(turn[t].summary) \cup Way(t, turn[t].read)
<1> DEFINE u == turn[t]
           read == u.read
           S == Own(Session(t))
<1>1. /\ read.msgs \in Seq(S) /\ read.summary \in Seq(S) /\ u.out \in Seq(S)
  BY DEF ApartInv, Sound, OwnFile
<1>2. /\ u.summary \in {read.summary, Trimmed(read.summary)}
      /\ ToSet(read.msgs) \subseteq ToSet(u.msgs) /\ u.out \in {<<>>, u.msgs}
  BY DEF Holds
<1>3. ToSet(read.summary) \subseteq ToSet(u.summary) \cup Way(t, read)
  <2>1. ToSet(read.summary) \subseteq ToSet(Trimmed(read.summary)) \cup Way(t, read)
    BY <1>1, TrimLoses DEF Way
  <2> QED
    BY <1>2, <2>1
<1>4. CASE t \in Ephemeral
  <2>1. History(t) = Quiet(t, u.out) /\ Said(t, u) = {}
    BY <1>4 DEF History, BridgeOf, Said
  <2> QED
    BY <1>3, <1>4, <2>1, QuietKeeps DEF Contents
<1>5. CASE t \notin Ephemeral /\ u.out # <<>>
  <2>1. History(t) = u.out /\ Said(t, u) = ToSet(u.out) /\ u.out = u.msgs
    BY <1>2, <1>5 DEF History, BridgeOf, Said
  <2> QED
    BY <1>2, <1>3, <2>1 DEF Contents
<1>6. CASE t \notin Ephemeral /\ u.out = <<>>
  <2>1. History(t) = Fallback(t) /\ Said(t, u) = {}
    BY <1>6, EmptySeq DEF History, BridgeOf, Said, ToSet
  <2> DEFINE asking == Append(read.msgs, <<t, "user", 0>>)
  <2>2. <<t, "user", 0>> \in S /\ <<t, "limit", 0>> \in S /\ <<t, "cut", 0>> \in S
    BY OwnMessage
  <2>3. asking \in Seq(S) /\ ToSet(read.msgs) \subseteq ToSet(asking)
    <3> HIDE DEF S, read
    <3> QED
      BY <1>1, <2>2, AppendSet, AppendProperties
  <2>4. Fallback(t) \in {asking, Append(asking, <<t, "limit", 0>>), Append(asking, <<t, "cut", 0>>)}
    BY DEF Fallback
  <2> HIDE DEF asking, S
  <2>5. ToSet(asking) \subseteq ToSet(Fallback(t))
    <3>1. ASSUME NEW x \in S PROVE ToSet(asking) \subseteq ToSet(Append(asking, x))
      BY <2>3, AppendSet
    <3> QED
      BY <2>2, <2>4, <3>1
  <2> QED
    BY <1>3, <2>1, <2>3, <2>5 DEF Contents
<1> QED
  BY <1>4, <1>5, <1>6

LEMMA HoldsStep ==
  ASSUME ApartInv, FilesInv, NEW t \in Turns, Shows(turn[t]), Holds(t, turn[t]),
         NEW v, TurnStep(t, turn[t], v)
  PROVE  Holds(t, v)
<1> DEFINE u == turn[t]
           S == Own(Session(t))
<1>1. /\ u.read.msgs \in Seq(S) /\ u.read.summary \in Seq(S) /\ u.out \in Seq(S)
      /\ u.msgs \in Seq(S) /\ u.summary \in Seq(S) /\ u.call \in Nat
  BY DEF ApartInv, Sound, OwnFile
<1>2. u.at \in Unanswered => u.out = <<>>
  BY DEF Shows
<1>3. TurnStep(t, u, v) /\ Holds(t, u)
  OBVIOUS
<1>4. u.at \in Streaming =>
        Contents(u.read) \cup Said(t, u)
           \subseteq ToSet(History(t)) \cup ToSet(u.summary) \cup Way(t, u.read)
  BY HistoryKeeps
<1> HIDE DEF u
<1>5. CASE Stays(u, v) \/ Drops(u, v) \/ Proceeds(u, v) \/ Saves(u, v)
  <2>1. v.read = u.read /\ v.msgs = u.msgs /\ v.summary = u.summary /\ v.out = u.out
    BY <1>5 DEF Stays, Drops, Proceeds, Saves, Words
  <2>2. Said(t, v) = Said(t, u)
    BY <2>1 DEF Said
  <2>3. CASE v.at = u.at
    BY <1>3, <2>1, <2>2, <2>3 DEF Holds
  <2>4. CASE v.at \in {"failed", "stopped", "done"}
    BY <2>4 DEF Holds, Streaming
  <2>5. CASE <<u.at, v.at>> \in {<<"check", "write">>, <<"write", "compact">>}
    BY <1>3, <2>1, <2>2, <2>5 DEF Holds, Streaming
  <2>6. CASE <<u.at, v.at>> \in {<<"tool", "approval">>}
    BY <1>3, <2>1, <2>6 DEF Holds, Streaming
  <2>7. CASE <<u.at, v.at>> \in {<<"approval", "denied">>}
    BY <1>2, <1>3, <2>1, <2>7 DEF Holds, Streaming, Unanswered
  <2> QED
    BY <1>5, <2>3, <2>4, <2>5, <2>6, <2>7 DEF Stays, Drops, Proceeds, Saves
<1>6. CASE Loads(t, u, v)
  BY <1>6 DEF Loads, Words, Holds, Streaming
<1>7. ASSUME NEW n \in Nat, NEW kind \in {"user", "call", "tool", "ai", "skip", "cut", "limit"},
             NEW q \in Seq(S)
      PROVE  ToSet(q) \subseteq ToSet(Append(q, <<t, kind, n>>))
  <2>1. <<t, kind, n>> \in S
    BY OwnMessage
  <2> HIDE DEF S
  <2> QED
    BY <2>1, AppendSet
<1>8. CASE Asks(t, u, v)
  <2>1. /\ v.read = u.read /\ v.msgs = Append(u.read.msgs, <<t, "user", 0>>)
        /\ v.summary = u.summary /\ u.at = "chat" /\ v.at = "model"
    BY <1>8 DEF Asks, Words
  <2>2. ToSet(u.read.msgs) \subseteq ToSet(v.msgs)
    BY <1>1, <1>7, <2>1
  <2> QED
    BY <1>3, <2>1, <2>2 DEF Holds, Streaming
<1>9. ASSUME u.at = "model"
      PROVE  Trimmed(u.summary) \in {u.read.summary, Trimmed(u.read.summary)}
  BY <1>1, <1>3, <1>9, TrimTwice DEF Holds
<1>10. ASSUME NEW kind \in {"ai", "skip"}, Answered(t, kind, u, v) PROVE Holds(t, v)
  <2> DEFINE n == u.call + 1
  <2>1. /\ v.read = u.read /\ v.msgs = Append(u.msgs, <<t, kind, n>>) /\ v.out = v.msgs
        /\ v.summary = Trimmed(u.summary) /\ u.at = "model" /\ v.at = "answered" /\ n \in Nat
    BY <1>1, <1>10 DEF Answered, Words
  <2> HIDE DEF n
  <2>2. ToSet(u.read.msgs) \subseteq ToSet(v.msgs)
    BY <1>1, <1>3, <1>7, <2>1 DEF Holds
  <2> QED
    BY <1>9, <2>1, <2>2 DEF Holds, Streaming
<1>11. CASE ToolCalled(t, u, v)
  <2> DEFINE n == u.call + 1
  <2>1. /\ v.read = u.read /\ v.msgs = Append(u.msgs, <<t, "call", n>>)
        /\ v.summary = Trimmed(u.summary) /\ u.at = "model" /\ v.at = "tool" /\ n \in Nat
    BY <1>1, <1>11 DEF ToolCalled, Words
  <2> HIDE DEF n
  <2>2. ToSet(u.read.msgs) \subseteq ToSet(v.msgs)
    BY <1>1, <1>3, <1>7, <2>1 DEF Holds
  <2> QED
    BY <1>9, <2>1, <2>2 DEF Holds, Streaming
<1>12. CASE Exhausted(t, u, v)
  <2>1. /\ v.read = u.read /\ v.msgs = u.msgs /\ v.out = u.out
        /\ v.summary = Trimmed(u.summary) /\ u.at = "model" /\ v.at = "limited"
    BY <1>12 DEF Exhausted, Words
  <2>2. u.out = <<>>
    BY <1>2, <2>1 DEF Unanswered
  <2> QED
    BY <1>3, <1>9, <2>1, <2>2 DEF Holds, Streaming
<1>13. CASE ToolUsed(t, u, v)
  <2>1. /\ v.read = u.read /\ v.msgs = Append(u.msgs, <<t, "tool", u.call>>)
        /\ v.summary = u.summary /\ u.at \in {"tool", "approval"} /\ v.at = "model"
    BY <1>13 DEF ToolUsed, Words
  <2>2. ToSet(u.read.msgs) \subseteq ToSet(v.msgs)
    BY <1>1, <1>3, <1>7, <2>1 DEF Holds
  <2> QED
    BY <1>3, <2>1, <2>2 DEF Holds, Streaming
<1>14. CASE Finished(t, u, v)
  <2>1. /\ v.read = u.read /\ v.msgs = History(t) /\ v.summary = u.summary /\ v.out = u.out
        /\ u.at \in Streaming /\ v.at = "check"
    BY <1>14 DEF Finished, Words, Streaming
  <2>2. Said(t, v) = Said(t, u)
    BY <2>1 DEF Said
  <2> QED
    BY <1>4, <2>1, <2>2 DEF Holds, Streaming
<1>15. CASE Condensed(u, v)
  <2>1. /\ v.read = u.read /\ v.msgs = Recent(u.msgs) /\ v.summary = u.summary \o Older(u.msgs)
        /\ v.out = u.out /\ u.at = "compact" /\ v.at = "check" /\ Len(u.msgs) > KeepRecent
    BY <1>15 DEF Condensed, Words
  <2>2. Said(t, v) = Said(t, u)
    BY <2>1 DEF Said
  <2>3. Older(u.msgs) \in Seq(S)
    BY <1>1, <2>1, HeadOf
  <2>4. ToSet(u.summary) \cup ToSet(Older(u.msgs)) \subseteq ToSet(v.summary)
    BY <1>1, <2>1, <2>3, ConcatIs
  <2>5. ToSet(u.msgs) \subseteq ToSet(v.msgs) \cup ToSet(Older(u.msgs))
    BY <1>1, <2>1, RecentOlder
  <2> QED
    BY <1>3, <2>1, <2>2, <2>4, <2>5 DEF Holds, Streaming
<1> QED
  BY <1>3, <1>5, <1>6, <1>8, <1>10, <1>11, <1>12, <1>13, <1>14, <1>15 DEF TurnStep

HeldInv == \A t \in Turns : Holds(t, turn[t])

LEMMA HeldAlways == Spec => []HeldInv
<1>1. InitTurns => HeldInv
  <2> SUFFICES ASSUME InitTurns, NEW t \in Turns PROVE Holds(t, turn[t])
    BY DEF HeldInv
  <2>1. turn[t].at \in {"idle", "done"}
    BY DEF InitTurns, Idle
  <2> QED
    BY <2>1 DEF Holds, Streaming
<1>2. ApartInv /\ ShownInv /\ HeldInv /\ [Next]_vars => HeldInv'
  <2> SUFFICES ASSUME ApartInv, ShownInv, HeldInv, [Next]_vars, NEW t \in Turns
               PROVE  Holds(t, turn'[t])
    BY DEF HeldInv, Holds, Said, Way, Contents
  <2>1. Shows(turn[t]) /\ Holds(t, turn[t]) /\ FilesInv /\ TurnStep(t, turn[t], turn'[t])
    BY TurnSteps DEF ShownInv, HeldInv, ApartInv
  <2> QED
    BY <2>1, HoldsStep
<1> QED
  BY <1>1, <1>2, ApartAlways, ShownAlways, PTL DEF Spec

(* A save of a turn, or of the compaction behind it, has what the turn has *)
(* read and, unless it is ephemeral, what it has said, but for what gives  *)
(* way to a limit: for any number of turns over one engine session,        *)
(* however often they use tools and however they end.                      *)
THEOREM SavesKeepWhatWasRead == Spec => KeepsWhatItRead
<1>1. ASSUME ApartInv, HeldInv, [Next]_vars, NEW t \in Turns,
             turn[t].at = "write", turn'[t].at # "write", turn'[t].at # "failed"
      PROVE  Contents(turn[t].read) \cup (IF t \in Ephemeral THEN {} ELSE ToSet(turn[t].out))
               \subseteq Contents(file'[Session(t)]) \cup GivesWay(t)
  <2>1. TurnStep(t, turn[t], turn'[t])
    BY <1>1, TurnSteps
  <2>2. Saves(turn[t], turn'[t]) /\ Written(t)
    BY <1>1, <2>1 DEF TurnStep, Stays, Drops, Proceeds, Loads, Asks, Answered, ToolCalled,
       Exhausted, ToolUsed, Finished, Condensed
  <2>3. Contents(turn[t].read) \cup Said(t, turn[t])
          \subseteq ToSet(turn[t].msgs) \cup ToSet(turn[t].summary) \cup Way(t, turn[t].read)
    BY <1>1 DEF HeldInv, Holds
  <2>4. Way(t, turn[t].read) = GivesWay(t)
    BY DEF Way, GivesWay
  <2>5. CASE turn[t].msgs = <<>> /\ turn[t].summary = <<>>
    <3>1. ToSet(turn[t].msgs) = {} /\ ToSet(turn[t].summary) = {}
      BY <2>5, EmptySeq DEF ToSet
    <3> QED
      BY <2>3, <2>4, <3>1 DEF Said
  <2>6. CASE ~(turn[t].msgs = <<>> /\ turn[t].summary = <<>>)
    <3>1. file' = [file EXCEPT ![Session(t)] =
                     [msgs |-> turn[t].msgs, summary |-> turn[t].summary]]
      BY <2>2, <2>6 DEF Written
    <3>2. DOMAIN file = Sessions /\ Session(t) \in Sessions
      BY <1>1, TurnsAssumption DEF ApartInv, FilesInv, Session
    <3>3. Contents(file'[Session(t)]) = ToSet(turn[t].msgs) \cup ToSet(turn[t].summary)
      BY <3>1, <3>2 DEF Contents
    <3> QED
      BY <2>3, <2>4, <3>3 DEF Said
  <2> QED
    BY <2>5, <2>6
<1>2. ApartInv /\ HeldInv /\ [Next]_vars =>
        [\A t \in Turns :
           (turn[t].at = "write" /\ turn'[t].at # "write" /\ turn'[t].at # "failed") =>
             Contents(turn[t].read) \cup (IF t \in Ephemeral THEN {} ELSE ToSet(turn[t].out))
               \subseteq Contents(file'[Session(t)]) \cup GivesWay(t)]_vars
  BY <1>1
<1> QED
  BY <1>2, ApartAlways, HeldAlways, PTL DEF Spec, KeepsWhatItRead

-----------------------------------------------------------------------------
(* What is repeated, and what an ephemeral turn leaves.                    *)

NoTwice(q)   == \A i, j \in 1 .. Len(q) : q[i] = q[j] => i = j
Unique(a, b) == NoTwice(a) /\ NoTwice(b) /\ ToSet(a) \cap ToSet(b) = {}

LEMMA AppendNoTwice ==
  ASSUME NEW S, NEW q \in Seq(S), NoTwice(q), NEW x \in S, x \notin ToSet(q)
  PROVE  NoTwice(Append(q, x))
<1> DEFINE r == Append(q, x)
<1>1. /\ Len(r) = Len(q) + 1 /\ Len(q) \in Nat /\ r[Len(q) + 1] = x
      /\ \A i \in 1 .. Len(q) : r[i] = q[i] /\ q[i] # x
  BY AppendProperties, LenProperties, InSet
<1> HIDE DEF r
<1>2. \A i \in 1 .. Len(r) : i \in 1 .. Len(q) \/ i = Len(q) + 1
  BY <1>1
<1>3. \A i, j \in 1 .. Len(r) : r[i] = r[j] => i = j
  BY <1>1, <1>2 DEF NoTwice
<1> QED
  BY <1>3 DEF NoTwice, r

(* A stretch within a sequence                                             *)
IsStretch(r, S, q, m, n) ==
  /\ r \in Seq(S) /\ \A i \in 1 .. Len(r) : m + i - 1 \in m .. n /\ r[i] = q[m + i - 1]
  /\ ToSet(r) \subseteq ToSet(q) /\ (NoTwice(q) => NoTwice(r))

LEMMA Stretch ==
  ASSUME NEW S, NEW q \in Seq(S), NEW m \in Nat \ {0}, NEW n \in Int, n <= Len(q),
         NEW r, r = SubSeq(q, m, n)
  PROVE  IsStretch(r, S, q, m, n)
<1>1. /\ r \in Seq(S) /\ Len(r) = IF m <= n THEN n - m + 1 ELSE 0
      /\ \A i \in 1 .. (n - m + 1) : r[i] = q[m + i - 1]
  <2>1. \A i \in m .. n : q[i] \in S
    BY LenProperties, ElementOfSeq
  <2> QED
    BY <2>1, SubSeqProperties
<1>2. Len(q) \in Nat
  BY LenProperties
<1>3. ASSUME NEW i \in 1 .. Len(r)
      PROVE  m + i - 1 \in m .. n /\ m + i - 1 \in 1 .. Len(q) /\ r[i] = q[m + i - 1]
  <2>1. i \in 1 .. (n - m + 1)
    BY <1>1, <1>2
  <2> QED
    BY <1>1, <1>2, <2>1
<1>4. ToSet(r) \subseteq ToSet(q)
  <2>1. ASSUME NEW i \in 1 .. Len(r) PROVE r[i] \in ToSet(q)
    BY <1>3, InSet
  <2> QED
    BY <1>1, <2>1, SetOf
<1>5. ASSUME NoTwice(q) PROVE NoTwice(r)
  <2>1. ASSUME NEW i \in 1 .. Len(r), NEW j \in 1 .. Len(r), r[i] = r[j] PROVE i = j
    <3>1. m + i - 1 = m + j - 1
      BY <1>3, <1>5, <2>1 DEF NoTwice
    <3> QED
      BY <3>1
  <2> QED
    BY <2>1 DEF NoTwice
<1> QED
  BY <1>1, <1>3, <1>4, <1>5 DEF IsStretch

LEMMA TrimmedWithin ==
  ASSUME NEW S, NEW q \in Seq(S)
  PROVE  ToSet(Trimmed(q)) \subseteq ToSet(q) /\ (NoTwice(q) => NoTwice(Trimmed(q)))
<1> DEFINE e == IF Len(q) < SummaryRoom THEN Len(q) ELSE SummaryRoom
           b == 1
<1>1. e \in Int /\ e <= Len(q) /\ b \in Nat \ {0}
  BY LenProperties, TurnsAssumption
<1>2. Trimmed(q) = SubSeq(q, b, e)
  BY DEF Trimmed, FirstOf
<1> HIDE DEF e, b
<1>3. IsStretch(Trimmed(q), S, q, b, e)
  BY <1>1, <1>2, Stretch
<1> QED
  BY <1>3 DEF IsStretch

LEMMA LastWithin ==
  ASSUME NEW S, NEW q \in Seq(S), NEW n \in Nat
  PROVE  ToSet(LastOf(q, n)) \subseteq ToSet(q) /\ (NoTwice(q) => NoTwice(LastOf(q, n)))
<1> DEFINE m == (IF Len(q) > n THEN Len(q) - n ELSE 0) + 1
<1>1. m \in Nat \ {0} /\ Len(q) \in Int /\ Len(q) <= Len(q)
  BY LenProperties
<1>2. LastOf(q, n) = SubSeq(q, m, Len(q))
  BY DEF LastOf
<1> HIDE DEF m
<1>3. IsStretch(LastOf(q, n), S, q, m, Len(q))
  BY <1>1, <1>2, Stretch
<1> QED
  BY <1>3 DEF IsStretch

LEMMA ConcatParts ==
  ASSUME NEW S, NEW a \in Seq(S), NEW b \in Seq(S)
  PROVE  /\ ToSet(a \o b) \subseteq ToSet(a) \cup ToSet(b)
         /\ Unique(a, b) => NoTwice(a \o b)
<1> DEFINE c == a \o b
<1>1. /\ c \in Seq(S) /\ Len(c) = Len(a) + Len(b) /\ Len(a) \in Nat /\ Len(b) \in Nat
      /\ \A i \in 1 .. (Len(a) + Len(b)) : c[i] = IF i <= Len(a) THEN a[i] ELSE b[i - Len(a)]
  BY ConcatProperties, LenProperties
<1> HIDE DEF c
<1>2. ASSUME NEW i \in 1 .. Len(c)
      PROVE  \/ i \in 1 .. Len(a) /\ c[i] = a[i]
             \/ i - Len(a) \in 1 .. Len(b) /\ ~(i <= Len(a)) /\ c[i] = b[i - Len(a)]
  <2>1. c[i] = IF i <= Len(a) THEN a[i] ELSE b[i - Len(a)]
    BY <1>1
  <2> QED
    BY <1>1, <2>1
<1>3. ASSUME NEW i \in 1 .. Len(c) PROVE c[i] \in ToSet(a) \cup ToSet(b)
  BY <1>2, InSet
<1>4. ASSUME Unique(a, b), NEW i \in 1 .. Len(c), NEW j \in 1 .. Len(c), c[i] = c[j] PROVE i = j
  <2>1. \A k \in 1 .. Len(a), l \in 1 .. Len(b) : a[k] # b[l]
    <3>1. \A k \in 1 .. Len(a) : a[k] \in ToSet(a)
      BY InSet
    <3>2. \A l \in 1 .. Len(b) : b[l] \in ToSet(b)
      BY InSet
    <3> QED
      BY <1>4, <3>1, <3>2 DEF Unique
  <2>2. CASE i \in 1 .. Len(a)
    BY <1>2, <1>4, <2>1, <2>2 DEF Unique, NoTwice
  <2>3. CASE ~(i \in 1 .. Len(a))
    <3>1. i - Len(a) \in 1 .. Len(b) /\ c[i] = b[i - Len(a)]
      BY <1>2, <2>3
    <3>2. j - Len(a) \in 1 .. Len(b) /\ c[j] = b[j - Len(a)]
      BY <1>2, <1>4, <2>1, <3>1
    <3>3. i - Len(a) = j - Len(a)
      BY <1>4, <3>1, <3>2 DEF Unique, NoTwice
    <3> QED
      BY <1>1, <3>3
  <2> QED
    BY <2>2, <2>3
<1>5. ToSet(c) \subseteq ToSet(a) \cup ToSet(b)
  BY <1>1, <1>3, SetOf
<1>6. Unique(a, b) => NoTwice(c)
  BY <1>4 DEF NoTwice
<1> QED
  BY <1>5, <1>6 DEF c

LEMMA CompactedUnique ==
  ASSUME NEW S, NEW a \in Seq(S), NEW b \in Seq(S), Len(a) > KeepRecent
  PROVE  /\ ToSet(Recent(a)) \subseteq ToSet(a)
         /\ ToSet(b \o Older(a)) \subseteq ToSet(a) \cup ToSet(b)
         /\ Unique(a, b) => Unique(Recent(a), b \o Older(a))
<1> DEFINE n == Len(a) - KeepRecent
           new == SubSeq(a, n + 1, Len(a))
           old == SubSeq(a, 1, n)
<1>1. Len(a) \in Nat /\ KeepRecent \in Nat /\ n \in Nat /\ n # 0 /\ n <= Len(a)
  BY LenProperties, TurnsAssumption
<1>2. Recent(a) = new /\ Older(a) = old
  BY DEF Recent, Older
<1> HIDE DEF n
<1>3. /\ new \in Seq(S)
      /\ \A i \in 1 .. Len(new) : n + 1 + i - 1 \in (n + 1) .. Len(a) /\ new[i] = a[n + 1 + i - 1]
      /\ ToSet(new) \subseteq ToSet(a) /\ (NoTwice(a) => NoTwice(new))
  <2> DEFINE k == n + 1
  <2>1. k \in Nat \ {0} /\ Len(a) \in Int /\ Len(a) <= Len(a) /\ new = SubSeq(a, k, Len(a))
    BY <1>1
  <2> HIDE DEF k, new
  <2>2. IsStretch(new, S, a, k, Len(a))
    BY <2>1, Stretch
  <2> QED
    BY <2>2 DEF k, IsStretch
<1>4. /\ old \in Seq(S)
      /\ \A i \in 1 .. Len(old) : 1 + i - 1 \in 1 .. n /\ old[i] = a[1 + i - 1]
      /\ ToSet(old) \subseteq ToSet(a) /\ (NoTwice(a) => NoTwice(old))
  <2> DEFINE k == 1
  <2>1. k \in Nat \ {0} /\ n \in Int /\ n <= Len(a) /\ old = SubSeq(a, k, n)
    BY <1>1
  <2> HIDE DEF k, old
  <2>2. IsStretch(old, S, a, k, n)
    BY <2>1, Stretch
  <2> QED
    BY <2>2 DEF k, IsStretch
<1> HIDE DEF new, old
<1>5. ToSet(b \o old) \subseteq ToSet(a) \cup ToSet(b)
  BY <1>4, ConcatParts
<1>6. ASSUME Unique(a, b) PROVE Unique(new, b \o old)
  <2>1. ToSet(new) \cap ToSet(old) = {}
    <3>1. ASSUME NEW i \in 1 .. Len(new), NEW j \in 1 .. Len(old), new[i] = old[j] PROVE FALSE
      <4>1. n + 1 + i - 1 \in (n + 1) .. Len(a) /\ new[i] = a[n + 1 + i - 1]
        BY <1>3
      <4>2. 1 + j - 1 \in 1 .. n /\ old[j] = a[1 + j - 1]
        BY <1>4
      <4>3. n + 1 + i - 1 \in 1 .. Len(a) /\ 1 + j - 1 \in 1 .. Len(a) /\ n + 1 + i - 1 # 1 + j - 1
        BY <1>1, <4>1, <4>2
      <4> QED
        BY <1>6, <3>1, <4>1, <4>2, <4>3 DEF Unique, NoTwice
    <3> QED
      BY <1>3, <1>4, <3>1, SetOf
  <2>2. NoTwice(b \o old)
    <3>1. Unique(b, old)
      BY <1>4, <1>6 DEF Unique
    <3> QED
      BY <1>4, <3>1, ConcatParts
  <2>3. ToSet(b \o old) \subseteq ToSet(b) \cup ToSet(old)
    BY <1>4, ConcatParts
  <2> QED
    BY <1>3, <1>6, <2>1, <2>2, <2>3 DEF Unique
<1> QED
  BY <1>2, <1>3, <1>5, <1>6

(* What a turn leaves for others to read, once it has come to its end      *)
Leaves(t, n) == IF t \in Ephemeral THEN {<<t, "ai", n>>} ELSE {m \in Message : m[1] = t}

Saved == {"check", "write", "compact", "done", "failed"}

Public ==
  {m \in Message :
     m[1] = Before \/ \E t \in Turns : turn[t].at \in Saved /\ m \in Leaves(t, turn[t].call)}

(* An ephemeral turn of session s was answered by a marker.                *)
Marked(u) == u.out # <<>> /\ u.out[Len(u.out)][2] = "skip"
Excused(s) == \E t \in Ephemeral : SessionOf[t] = s /\ Marked(turn[t])

(* The words of the user, calls of tools and their results                 *)
Deeds(t, n) == {t} \X {"user", "call", "tool"} \X (0 .. n)

OwnTalk(t, u, q, x) ==
  /\ q \in Seq(Own(Session(t)))
  /\ ToSet(q) \subseteq ToSet(u.read.msgs) \cup Deeds(t, u.call)
  /\ x \/ NoTwice(q)

(* What the record u of turn t has of the public messages P, and that it    *)
(* has nothing twice, unless x excuses it                                  *)
Tidy(t, u, P, x) ==
  /\ Contents(u.read) \subseteq {m \in P : m[1] # t}
  /\ x \/ Unique(u.read.msgs, u.read.summary)
  /\ u.at \in {"model", "tool", "approval", "denied", "limited"} => OwnTalk(t, u, u.msgs, x)
  /\ u.at \in {"denied", "limited"} => u.out = <<>>
  /\ u.at \in {"tool", "approval"} => <<t, "tool", u.call>> \notin ToSet(u.msgs)
  /\ u.at = "answered" =>
       \E q \in Seq(Own(Session(t))), kind \in {"ai", "skip"} :
         OwnTalk(t, u, q, x) /\ u.out = Append(q, <<t, kind, u.call>>)
  /\ u.at \in {"check", "write", "compact"} =>
       ToSet(u.msgs) \cup ToSet(u.summary) \subseteq P /\ (x \/ Unique(u.msgs, u.summary))

LEMMA DeedOf ==
  ASSUME NEW t, NEW n \in Nat, NEW m \in Deeds(t, n)
  PROVE  m[1] = t /\ m[2] \in {"user", "call", "tool"} /\ m[3] \in 0 .. n /\ ~Clean(m)
BY DEF Deeds, Clean

LEMMA MoreDeeds ==
  ASSUME NEW t, NEW n \in Nat
  PROVE  /\ Deeds(t, n) \subseteq Deeds(t, n + 1)
         /\ <<t, "call", n + 1>> \in Deeds(t, n + 1) /\ <<t, "call", n + 1>> \notin Deeds(t, n)
         /\ <<t, "tool", n + 1>> \notin Deeds(t, n) \cup {<<t, "call", n + 1>>}
         /\ <<t, "tool", n>> \in Deeds(t, n) /\ <<t, "user", 0>> \in Deeds(t, n)
<1>1. /\ n \in 0 .. n /\ 0 \in 0 .. n /\ n + 1 \in 0 .. (n + 1) /\ n + 1 \notin 0 .. n
      /\ 0 .. n \subseteq 0 .. (n + 1)
  OBVIOUS
<1> QED
  BY <1>1 DEF Deeds

(* The turn says one more thing.                                           *)
LEMMA TalksOn ==
  ASSUME NEW t \in Turns, NEW u, NEW v, NEW q, NEW P, NEW x \in BOOLEAN, NEW y \in BOOLEAN, x => y,
         Tidy(t, u, P, x), OwnTalk(t, u, q, x), v.read = u.read, u.call \in Nat, v.call \in Nat,
         Deeds(t, u.call) \subseteq Deeds(t, v.call),
         NEW m \in Own(Session(t)), m[1] = t, m \notin ToSet(q)
  PROVE  /\ OwnTalk(t, v, q, y)
         /\ Append(q, m) \in Seq(Own(Session(t)))
         /\ ToSet(Append(q, m)) = ToSet(q) \cup {m}
         /\ y \/ NoTwice(Append(q, m))
         /\ m \in Deeds(t, v.call) => OwnTalk(t, v, Append(q, m), y)
<1> DEFINE S == Own(Session(t))
<1>1. q \in Seq(S) /\ m \in S /\ m \notin ToSet(q)
  BY DEF OwnTalk
<1> HIDE DEF S
<1>2. Append(q, m) \in Seq(S) /\ ToSet(Append(q, m)) = ToSet(q) \cup {m}
  BY <1>1, AppendSet, AppendProperties
<1>3. NoTwice(q) => NoTwice(Append(q, m))
  BY <1>1, AppendNoTwice
<1> QED
  BY <1>1, <1>2, <1>3 DEF OwnTalk, S

(* The history an ephemeral turn saves                                     *)
LEMMA QuietTidy ==
  ASSUME NEW t \in Turns, NEW n \in Nat, NEW q \in Seq(Own(Session(t))), NEW kind \in {"ai", "skip"},
         NEW read \in Seq(Own(Session(t))), \A m \in ToSet(read) : m[1] # t,
         ToSet(q) \subseteq ToSet(read) \cup Deeds(t, n),
         turn[t].read.msgs = read
  PROVE  LET out == Append(q, <<t, kind, n>>)
             h   == Quiet(t, out) IN
         /\ h \in Seq(Own(Session(t))) /\ ToSet(h) \subseteq ToSet(read) \cup {<<t, "ai", n>>}
         /\ (kind = "ai" /\ NoTwice(read)) => NoTwice(h)
<1> DEFINE S    == Own(Session(t))
           a    == <<t, kind, n>>
           out  == Append(q, a)
           last == {i \in DOMAIN out : /\ Clean(out[i])
                                       /\ \A j \in DOMAIN out : j > i => ~Clean(out[j])}
           i    == CHOOSE k \in last : TRUE
           x    == out[i]
           long == IF last = {} THEN read ELSE Append(read, x)
<1>1. /\ read \in Seq(S) /\ q \in Seq(S) /\ a \in S /\ <<t, "ai", n>> \in S /\ MaxHistory \in Nat
      /\ Len(q) \in Nat
  BY OwnMessage, TurnsAssumption, LenProperties
<1>2. a[1] = t /\ a[2] = kind /\ (kind = "ai" => Clean(a)) /\ (kind = "skip" => ~Clean(a))
  BY DEF Clean
<1>3. Quiet(t, out) = IF out = <<>> THEN read ELSE LastOf(long, MaxHistory)
  BY DEF Quiet
<1> HIDE DEF S
<1>4. /\ out \in Seq(S) /\ DOMAIN out = 1 .. (Len(q) + 1) /\ out[Len(q) + 1] = a
      /\ \A k \in 1 .. Len(q) : out[k] = q[k]
  BY <1>1, AppendProperties
<1> HIDE DEF out
<1>5. ASSUME last # {}
      PROVE  i \in DOMAIN out /\ Clean(out[i]) /\ \A j \in DOMAIN out : j > i => ~Clean(out[j])
  BY <1>5
<1> HIDE DEF last, i
<1>6. ASSUME last # {}
      PROVE  x \in S /\ (x \in ToSet(read) \/ x = <<t, "ai", n>>) /\ (kind = "ai" => x = <<t, "ai", n>>)
  <2>1. i \in DOMAIN out /\ Clean(x)
    BY <1>5, <1>6
  <2>2. CASE i = Len(q) + 1
    <3>1. x = a /\ kind = "ai"
      BY <1>2, <1>4, <2>1, <2>2
    <3> QED
      BY <1>1, <3>1
  <2>3. CASE i \in 1 .. Len(q)
    <3>1. x = q[i] /\ q[i] \in ToSet(q)
      BY <1>1, <1>4, <2>3, InSet
    <3>2. x \in ToSet(read)
      BY <2>1, <3>1, DeedOf
    <3>3. q[i] \in S
      BY <1>1, <2>3, ElementOfSeq
    <3>4. kind # "ai"
      <4>1. Len(q) + 1 \in DOMAIN out /\ Len(q) + 1 > i
        BY <1>1, <1>4, <2>3
      <4>2. ~Clean(a)
        BY <1>4, <1>5, <1>6, <4>1
      <4> QED
        BY <1>2, <4>2
    <3> QED
      BY <3>1, <3>2, <3>3, <3>4
  <2> QED
    BY <1>1, <1>4, <2>1, <2>2, <2>3
<1> HIDE DEF x
<1>7. <<t, "ai", n>> \notin ToSet(read)
  <2>1. <<t, "ai", n>>[1] = t
    OBVIOUS
  <2> QED
    BY <2>1
<1>8. /\ long \in Seq(S) /\ ToSet(long) \subseteq ToSet(read) \cup {<<t, "ai", n>>}
      /\ (kind = "ai" /\ NoTwice(read)) => NoTwice(long)
  <2>1. CASE last = {}
    BY <1>1, <2>1
  <2>2. CASE last # {}
    <3>1. long = Append(read, x)
      BY <2>2
    <3>2. x \in S /\ (x \in ToSet(read) \/ x = <<t, "ai", n>>) /\ (kind = "ai" => x = <<t, "ai", n>>)
      BY <1>6, <2>2
    <3>3. long \in Seq(S) /\ ToSet(long) = ToSet(read) \cup {x}
      BY <1>1, <3>1, <3>2, AppendSet, AppendProperties
    <3>4. (kind = "ai" /\ NoTwice(read)) => NoTwice(long)
      BY <1>1, <1>7, <3>1, <3>2, AppendNoTwice
    <3> QED
      BY <3>2, <3>3, <3>4
  <2> QED
    BY <2>1, <2>2
<1> HIDE DEF long
<1>9. /\ LastOf(long, MaxHistory) \in Seq(S) /\ ToSet(LastOf(long, MaxHistory)) \subseteq ToSet(long)
      /\ NoTwice(long) => NoTwice(LastOf(long, MaxHistory))
  BY <1>1, <1>8, LastWithin, LastOfType
<1>10. /\ Quiet(t, out) \in Seq(S) /\ ToSet(Quiet(t, out)) \subseteq ToSet(read) \cup {<<t, "ai", n>>}
       /\ (kind = "ai" /\ NoTwice(read)) => NoTwice(Quiet(t, out))
  BY <1>1, <1>3, <1>8, <1>9
<1> QED
  BY <1>10 DEF out, S

LEMMA LeavesOwn ==
  ASSUME NEW t \in Turns, NEW n \in Nat
  PROVE  /\ \A m \in Leaves(t, n) : m[1] = t
         /\ t \notin Ephemeral => \A m \in Own(Session(t)) : m[1] = t => m \in Leaves(t, n)
         /\ t \in Ephemeral => <<t, "ai", n>> \in Leaves(t, n)
BY DEF Leaves, Own

(* The history any turn saves: what it has read, and what it leaves        *)
LEMMA HistoryTidy ==
  ASSUME ApartInv, NEW t \in Turns, turn[t].at \in Streaming,
         NEW P, NEW x \in BOOLEAN, NEW y \in BOOLEAN, x => y, Tidy(t, turn[t], P, x),
         (t \in Ephemeral /\ Marked(turn[t])) => y
  PROVE  /\ History(t) \in Seq(Own(Session(t)))
         /\ ToSet(History(t)) \subseteq ToSet(turn[t].read.msgs) \cup Leaves(t, turn[t].call)
         /\ y \/ NoTwice(History(t))
<1> DEFINE u    == turn[t]
           read == u.read.msgs
           n    == u.call
           S    == Own(Session(t))
           L    == Leaves(t, n)
<1>1. /\ read \in Seq(S) /\ u.out \in Seq(S) /\ n \in Nat
  BY DEF ApartInv, Sound, OwnFile
<1>2. /\ \A m \in ToSet(read) : m[1] # t
      /\ x \/ NoTwice(read)
  BY DEF Tidy, Contents, Unique
<1>3. History(t) \in Seq(S)
  BY HistoryOwn
<1>4. CASE u.at = "answered"
  <2>1. PICK q \in Seq(S), kind \in {"ai", "skip"} :
          OwnTalk(t, u, q, x) /\ u.out = Append(q, <<t, kind, n>>)
    BY <1>4 DEF Tidy
  <2>2. ToSet(q) \subseteq ToSet(read) \cup Deeds(t, n) /\ (x \/ NoTwice(q))
    BY <2>1 DEF OwnTalk
  <2> DEFINE a == <<t, kind, n>>
  <2>3. a \in S /\ a[1] = t
    BY <1>1, OwnMessage
  <2>4. Append(q, a) # <<>> /\ Len(Append(q, a)) = Len(q) + 1 /\ Append(q, a)[Len(q) + 1] = a
    <3> HIDE DEF a, S
    <3>1. Len(Append(q, a)) = Len(q) + 1 /\ Append(q, a)[Len(q) + 1] = a /\ Len(q) \in Nat
      BY <2>1, <2>3, AppendProperties, LenProperties
    <3>2. Len(q) + 1 # 0
      BY <3>1
    <3> QED
      BY <3>1, <3>2, EmptySeq
  <2>5. CASE t \in Ephemeral
    <3>1. History(t) = Quiet(t, Append(q, a))
      BY <2>1, <2>5 DEF History, BridgeOf
    <3>2. /\ ToSet(Quiet(t, Append(q, a))) \subseteq ToSet(read) \cup {<<t, "ai", n>>}
          /\ (kind = "ai" /\ NoTwice(read)) => NoTwice(Quiet(t, Append(q, a)))
      <4> HIDE DEF read, n, S, u
      <4>1. turn[t].read.msgs = read /\ S = Own(Session(t))
        BY DEF read, u, S
      <4> QED
        BY <1>1, <1>2, <2>1, <2>2, <4>1, QuietTidy
    <3>3. kind = "skip" => y
      <4>1. u.out[Len(u.out)][2] = kind /\ u.out # <<>>
        BY <2>1, <2>4
      <4> QED
        BY <2>5, <4>1 DEF Marked
    <3>4. <<t, "ai", n>> \in L
      BY <1>1, <2>5, LeavesOwn
    <3> QED
      BY <1>2, <1>3, <3>1, <3>2, <3>3, <3>4
  <2>6. CASE t \notin Ephemeral
    <3>1. History(t) = Append(q, a)
      BY <2>1, <2>4, <2>6 DEF History, BridgeOf
    <3>2. a \notin ToSet(q)
      <4>1. a \notin ToSet(read)
        BY <1>2, <2>3
      <4>2. a \notin Deeds(t, n)
        <5>1. a[2] \notin {"user", "call", "tool"}
          OBVIOUS
        <5> QED
          BY <1>1, <5>1, DeedOf
      <4> QED
        BY <2>2, <4>1, <4>2
    <3>3. /\ ToSet(Append(q, a)) = ToSet(q) \cup {a}
          /\ NoTwice(q) => NoTwice(Append(q, a))
      <4> HIDE DEF a, S
      <4> QED
        BY <2>1, <2>3, <3>2, AppendSet, AppendNoTwice
    <3>4. ToSet(q) \subseteq ToSet(read) \cup L
      <4>1. ASSUME NEW m \in ToSet(q), m \in Deeds(t, n) PROVE m \in L
        <5>1. m[1] = t
          BY <1>1, <4>1, DeedOf
        <5>2. m \in S
          BY <2>1, <4>1 DEF ToSet
        <5> QED
          BY <1>1, <2>6, <5>1, <5>2, LeavesOwn
      <4> QED
        BY <2>2, <4>1
    <3>5. a \in L
      <4> HIDE DEF a
      <4> QED
        BY <1>1, <2>3, <2>6, LeavesOwn
    <3> QED
      BY <1>3, <2>2, <3>1, <3>3, <3>4, <3>5
  <2> QED
    BY <2>5, <2>6
<1>5. CASE u.at \in {"denied", "limited"} /\ t \in Ephemeral
  <2>1. History(t) = read
    BY <1>5 DEF Tidy, History, Quiet, BridgeOf
  <2> QED
    BY <1>2, <1>3, <2>1
<1>6. CASE u.at \in {"denied", "limited"} /\ t \notin Ephemeral
  <2>1. History(t) = Fallback(t)
    BY <1>6 DEF Tidy, History, BridgeOf
  <2> DEFINE w == <<t, "user", 0>>
             c == <<t, "cut", 0>>
             l == <<t, "limit", 0>>
             asking == Append(read, w)
  <2>2. {w, c, l} \subseteq S /\ w[1] = t /\ c[1] = t /\ l[1] = t /\ w # c /\ w # l
    BY OwnMessage
  <2>4. Fallback(t) \in {asking, Append(asking, l), Append(asking, c)}
    BY DEF Fallback
  <2> HIDE DEF w, c, l
  <2>3. {w, c, l} \subseteq L /\ {w, c, l} \cap ToSet(read) = {}
    <3>1. ASSUME NEW m \in {w, c, l} PROVE m \in L /\ m \notin ToSet(read)
      <4>1. m \in S /\ m[1] = t
        BY <2>2
      <4>2. m \in L
        BY <1>1, <1>6, <4>1, LeavesOwn
      <4> QED
        BY <1>2, <4>1, <4>2
    <3> QED
      BY <3>1
  <2> HIDE DEF S, L, read
  <2>5. /\ asking \in Seq(S) /\ ToSet(asking) = ToSet(read) \cup {w}
        /\ NoTwice(read) => NoTwice(asking)
    BY <1>1, <2>2, <2>3, AppendSet, AppendProperties, AppendNoTwice
  <2> HIDE DEF asking
  <2>6. ASSUME NEW m \in {l, c}
        PROVE  /\ ToSet(Append(asking, m)) = ToSet(asking) \cup {m}
               /\ NoTwice(asking) => NoTwice(Append(asking, m))
    <3>1. m \in S /\ m \notin ToSet(asking)
      BY <2>2, <2>3, <2>5
    <3> QED
      BY <2>5, <3>1, AppendSet, AppendNoTwice
  <2>7. ToSet(Fallback(t)) \subseteq ToSet(read) \cup L /\ (NoTwice(read) => NoTwice(Fallback(t)))
    <3>1. CASE Fallback(t) = asking
      BY <2>3, <2>5, <3>1
    <3>2. ASSUME NEW m \in {l, c}, Fallback(t) = Append(asking, m)
          PROVE  /\ ToSet(Fallback(t)) \subseteq ToSet(read) \cup L
                 /\ NoTwice(read) => NoTwice(Fallback(t))
      <4>1. /\ ToSet(Append(asking, m)) = ToSet(asking) \cup {m}
            /\ NoTwice(asking) => NoTwice(Append(asking, m))
        BY <2>6
      <4>2. m \in L /\ w \in L
        BY <2>3
      <4> QED
        BY <2>5, <3>2, <4>1, <4>2
    <3> QED
      BY <2>4, <3>1, <3>2
  <2> QED
    BY <1>2, <1>3, <2>1, <2>7 DEF read, L, S
<1> QED
  BY <1>4, <1>5, <1>6 DEF Streaming

LEMMA FinishTidy ==
  ASSUME ApartInv, NEW t \in Turns, turn[t].at \in Streaming, Holds(t, turn[t]),
         NEW P, NEW Q, P \subseteq Q, NEW x \in BOOLEAN, NEW y \in BOOLEAN, x => y,
         Tidy(t, turn[t], P, x), (t \in Ephemeral /\ Marked(turn[t])) => y,
         Leaves(t, turn[t].call) \subseteq Q
  PROVE  /\ ToSet(History(t)) \cup ToSet(turn[t].summary) \subseteq Q
         /\ y \/ Unique(History(t), turn[t].summary)
<1> DEFINE u == turn[t]
           h == History(t)
           L == Leaves(t, u.call)
<1>1. /\ u.read.summary \in Seq(Own(Session(t))) /\ u.call \in Nat
  BY DEF ApartInv, Sound, OwnFile
<1>2. ToSet(h) \subseteq ToSet(u.read.msgs) \cup L /\ (y \/ NoTwice(h))
  BY HistoryTidy
<1>3. /\ ToSet(u.read.msgs) \cup ToSet(u.read.summary) \subseteq {m \in P : m[1] # t}
      /\ x \/ (NoTwice(u.read.summary) /\ ToSet(u.read.msgs) \cap ToSet(u.read.summary) = {})
  BY DEF Tidy, Contents, Unique
<1>4. u.summary \in {u.read.summary, Trimmed(u.read.summary)}
  BY DEF Holds
<1>5. /\ ToSet(u.summary) \subseteq ToSet(u.read.summary)
      /\ NoTwice(u.read.summary) => NoTwice(u.summary)
  BY <1>1, <1>4, TrimmedWithin
<1>6. \A m \in L : m[1] = t
  BY <1>1, LeavesOwn
<1>7. L \subseteq Q
  OBVIOUS
<1> HIDE DEF u, h, L
<1>8. ToSet(h) \cup ToSet(u.summary) \subseteq Q
  BY <1>2, <1>3, <1>5, <1>7
<1>9. y \/ Unique(h, u.summary)
  BY <1>2, <1>3, <1>5, <1>6 DEF Unique
<1> QED
  BY <1>8, <1>9 DEF u, h

LEMMA TidyStep ==
  ASSUME ApartInv, NEW t \in Turns, Shows(turn[t]), Holds(t, turn[t]),
         NEW v, TurnStep(t, turn[t], v),
         NEW P, NEW Q, P \subseteq Q, NEW x \in BOOLEAN, NEW y \in BOOLEAN, x => y,
         Tidy(t, turn[t], P, x), (t \in Ephemeral /\ Marked(v)) => y,
         Contents(file[Session(t)]) \subseteq P,
         x \/ Unique(file[Session(t)].msgs, file[Session(t)].summary),
         turn[t].at = "idle" => \A m \in P : m[1] # t,
         v.at = "check" => Leaves(t, v.call) \subseteq Q
  PROVE  Tidy(t, v, Q, y)
<1> DEFINE u == turn[t]
           S == Own(Session(t))
<1>1. /\ u.read.msgs \in Seq(S) /\ u.read.summary \in Seq(S) /\ u.out \in Seq(S)
      /\ u.msgs \in Seq(S) /\ u.summary \in Seq(S) /\ u.call \in Nat
  BY DEF ApartInv, Sound, OwnFile
<1>2. u.at \in Unanswered => u.out = <<>>
  BY DEF Shows
<1>3. TurnStep(t, u, v) /\ Tidy(t, u, P, x)
  OBVIOUS
<1>4. ASSUME u.at \in Streaming, Leaves(t, u.call) \subseteq Q, v.out = u.out
      PROVE  /\ ToSet(History(t)) \cup ToSet(u.summary) \subseteq Q
             /\ y \/ Unique(History(t), u.summary)
  <2>1. (t \in Ephemeral /\ Marked(u)) => y
    BY <1>4 DEF Marked
  <2> QED
    BY <1>4, <2>1, FinishTidy
<1>5. ASSUME v.read = u.read
      PROVE  /\ Contents(v.read) \subseteq {m \in Q : m[1] # t}
             /\ y \/ Unique(v.read.msgs, v.read.summary)
  BY <1>3, <1>5 DEF Tidy
<1>6. u.at = "idle" => \A m \in P : m[1] # t
  OBVIOUS
<1> HIDE DEF u
<1>7. CASE Stays(u, v) \/ Drops(u, v) \/ Proceeds(u, v) \/ Saves(u, v)
  <2>1. /\ v.read = u.read /\ v.msgs = u.msgs /\ v.summary = u.summary /\ v.out = u.out
        /\ v.call = u.call
    BY <1>7 DEF Stays, Drops, Proceeds, Saves, Words
  <2>2. ASSUME NEW q, OwnTalk(t, u, q, x) PROVE OwnTalk(t, v, q, y)
    BY <2>1, <2>2 DEF OwnTalk
  <2>3. CASE v.at = u.at
    <3>1. v.at \in {"model", "tool", "approval", "denied", "limited"} => OwnTalk(t, v, v.msgs, y)
      BY <1>3, <2>1, <2>2, <2>3 DEF Tidy
    <3>2. v.at = "answered" =>
            \E q \in Seq(Own(Session(t))), kind \in {"ai", "skip"} :
              OwnTalk(t, v, q, y) /\ v.out = Append(q, <<t, kind, v.call>>)
      BY <1>3, <2>1, <2>2, <2>3 DEF Tidy
    <3>3. v.at \in {"check", "write", "compact"} =>
            ToSet(v.msgs) \cup ToSet(v.summary) \subseteq Q /\ (y \/ Unique(v.msgs, v.summary))
      BY <1>3, <2>1, <2>3 DEF Tidy
    <3>4. /\ v.at \in {"denied", "limited"} => v.out = <<>>
          /\ v.at \in {"tool", "approval"} => <<t, "tool", v.call>> \notin ToSet(v.msgs)
      BY <1>3, <2>1, <2>3 DEF Tidy
    <3> QED
      BY <1>5, <2>1, <3>1, <3>2, <3>3, <3>4 DEF Tidy
  <2>4. CASE v.at \in {"failed", "stopped", "done"}
    BY <1>5, <2>1, <2>4 DEF Tidy
  <2>5. CASE <<u.at, v.at>> \in {<<"check", "write">>, <<"write", "compact">>}
    <3>1. ToSet(v.msgs) \cup ToSet(v.summary) \subseteq Q /\ (y \/ Unique(v.msgs, v.summary))
      BY <1>3, <2>1, <2>5 DEF Tidy
    <3> QED
      BY <1>5, <2>1, <2>5, <3>1 DEF Tidy
  <2>6. CASE <<u.at, v.at>> \in {<<"tool", "approval">>, <<"approval", "denied">>}
    <3>1. OwnTalk(t, v, v.msgs, y)
      BY <1>3, <2>1, <2>2, <2>6 DEF Tidy
    <3>2. v.out = <<>>
      BY <1>2, <2>1, <2>6 DEF Unanswered
    <3>3. <<t, "tool", v.call>> \notin ToSet(v.msgs)
      BY <1>3, <2>1, <2>6 DEF Tidy
    <3> QED
      BY <1>5, <2>1, <2>6, <3>1, <3>2, <3>3 DEF Tidy
  <2> QED
    BY <1>7, <2>3, <2>4, <2>5, <2>6 DEF Stays, Drops, Proceeds, Saves
<1>8. CASE Loads(t, u, v)
  <2>1. v.read = file[Session(t)] /\ v.at = "chat" /\ u.at = "idle"
    BY <1>8 DEF Loads, Words
  <2> QED
    BY <1>6, <2>1 DEF Tidy
<1>9. CASE Asks(t, u, v)
  <2> DEFINE m == <<t, "user", 0>>
  <2>1. /\ v.read = u.read /\ v.msgs = Append(u.read.msgs, m) /\ v.call = u.call
        /\ v.at = "model"
    BY <1>9 DEF Asks, Words
  <2>2. m \in S /\ m[1] = t /\ m \in Deeds(t, v.call)
    BY <1>1, <2>1, OwnMessage, MoreDeeds
  <2> HIDE DEF m
  <2>3. m \notin ToSet(u.read.msgs)
    BY <1>3, <2>2 DEF Tidy, Contents
  <2>4. OwnTalk(t, u, u.read.msgs, x)
    BY <1>1, <1>3 DEF OwnTalk, Tidy, Unique
  <2>5. OwnTalk(t, v, v.msgs, y)
    BY <1>1, <1>3, <2>1, <2>2, <2>3, <2>4, TalksOn
  <2> QED
    BY <1>5, <2>1, <2>5 DEF Tidy
<1>10. ASSUME NEW kind \in {"ai", "skip"}, Answered(t, kind, u, v) PROVE Tidy(t, v, Q, y)
  <2>1. /\ v.read = u.read /\ v.call = u.call + 1 /\ v.out = Append(u.msgs, <<t, kind, v.call>>)
        /\ u.at = "model" /\ v.at = "answered"
    BY <1>10 DEF Answered, Words
  <2>2. Deeds(t, u.call) \subseteq Deeds(t, v.call)
    BY <1>1, <2>1, MoreDeeds
  <2>3. OwnTalk(t, u, u.msgs, x)
    BY <1>3, <2>1 DEF Tidy
  <2>4. OwnTalk(t, v, u.msgs, y)
    BY <2>1, <2>2, <2>3 DEF OwnTalk
  <2> QED
    BY <1>1, <1>5, <2>1, <2>4 DEF Tidy
<1>11. CASE ToolCalled(t, u, v)
  <2> DEFINE m == <<t, "call", u.call + 1>>
  <2>1. /\ v.read = u.read /\ v.call = u.call + 1 /\ v.msgs = Append(u.msgs, m)
        /\ u.at = "model" /\ v.at = "tool"
    BY <1>11 DEF ToolCalled, Words
  <2>2. /\ Deeds(t, u.call) \subseteq Deeds(t, v.call) /\ m \in Deeds(t, v.call)
        /\ m \notin Deeds(t, u.call) /\ <<t, "tool", v.call>> \notin Deeds(t, u.call) \cup {m}
    BY <1>1, <2>1, MoreDeeds
  <2>3. m \in S /\ m[1] = t /\ <<t, "tool", v.call>>[1] = t
    <3>1. u.call + 1 \in Nat
      BY <1>1
    <3>2. m \in S
      <4> DEFINE n == u.call + 1
      <4>1. n \in Nat /\ "call" \in {"user", "call", "tool", "ai", "skip", "cut", "limit"}
        BY <3>1
      <4> HIDE DEF n
      <4>2. <<t, "call", n>> \in Own(Session(t))
        BY <4>1, OwnMessage
      <4> QED
        BY <4>2 DEF n
    <3> QED
      BY <3>2
  <2> HIDE DEF m
  <2>4. OwnTalk(t, u, u.msgs, x) /\ \A k \in ToSet(u.read.msgs) : k[1] # t
    BY <1>3, <2>1 DEF Tidy, Contents
  <2>5. m \notin ToSet(u.msgs) /\ <<t, "tool", v.call>> \notin ToSet(u.msgs) \cup {m}
    BY <2>2, <2>3, <2>4 DEF OwnTalk
  <2>6. u.call \in Nat /\ v.call \in Nat
    BY <1>1, <2>1
  <2>7. ToSet(v.msgs) = ToSet(u.msgs) \cup {m} /\ OwnTalk(t, v, v.msgs, y)
    BY <1>3, <2>1, <2>2, <2>3, <2>4, <2>5, <2>6, TalksOn
  <2> QED
    BY <1>5, <2>1, <2>5, <2>7 DEF Tidy
<1>12. CASE Exhausted(t, u, v)
  <2>1. /\ v.read = u.read /\ v.call = u.call + 1 /\ v.msgs = u.msgs /\ v.out = u.out
        /\ u.at = "model" /\ v.at = "limited"
    BY <1>12 DEF Exhausted, Words
  <2>2. OwnTalk(t, u, u.msgs, x) /\ v.out = <<>>
    BY <1>2, <1>3, <2>1 DEF Tidy, Unanswered
  <2>3. Deeds(t, u.call) \subseteq Deeds(t, v.call)
    BY <1>1, <2>1, MoreDeeds
  <2>4. OwnTalk(t, v, v.msgs, y)
    BY <2>1, <2>2, <2>3 DEF OwnTalk
  <2> QED
    BY <1>5, <2>1, <2>2, <2>4 DEF Tidy
<1>13. CASE ToolUsed(t, u, v)
  <2> DEFINE m == <<t, "tool", u.call>>
  <2>1. /\ v.read = u.read /\ v.call = u.call /\ v.msgs = Append(u.msgs, m)
        /\ u.at \in {"tool", "approval"} /\ v.at = "model"
    BY <1>13 DEF ToolUsed, Words
  <2>2. m \in S /\ m[1] = t /\ m \in Deeds(t, v.call)
    BY <1>1, <2>1, OwnMessage, MoreDeeds
  <2>3. OwnTalk(t, u, u.msgs, x) /\ m \notin ToSet(u.msgs)
    BY <1>3, <2>1 DEF Tidy
  <2> HIDE DEF m
  <2>4. OwnTalk(t, v, v.msgs, y)
    BY <1>1, <1>3, <2>1, <2>2, <2>3, TalksOn
  <2> QED
    BY <1>5, <2>1, <2>4 DEF Tidy
<1>14. CASE Finished(t, u, v)
  <2>1. /\ v.read = u.read /\ v.msgs = History(t) /\ v.summary = u.summary /\ v.out = u.out
        /\ v.call = u.call /\ u.at \in Streaming /\ v.at = "check"
    BY <1>14 DEF Finished, Words, Streaming
  <2>2. Leaves(t, u.call) \subseteq Q
    BY <2>1
  <2>3. ToSet(v.msgs) \cup ToSet(v.summary) \subseteq Q /\ (y \/ Unique(v.msgs, v.summary))
    BY <1>4, <2>1, <2>2
  <2> QED
    BY <1>5, <2>1, <2>3 DEF Tidy
<1>15. CASE Condensed(u, v)
  <2>1. /\ v.read = u.read /\ v.msgs = Recent(u.msgs) /\ v.summary = u.summary \o Older(u.msgs)
        /\ u.at = "compact" /\ v.at = "check" /\ Len(u.msgs) > KeepRecent
    BY <1>15 DEF Condensed, Words
  <2>2. ToSet(u.msgs) \cup ToSet(u.summary) \subseteq P /\ (x \/ Unique(u.msgs, u.summary))
    BY <1>3, <2>1 DEF Tidy
  <2>3. /\ ToSet(v.msgs) \subseteq ToSet(u.msgs) /\ ToSet(v.summary) \subseteq ToSet(u.msgs) \cup ToSet(u.summary)
        /\ Unique(u.msgs, u.summary) => Unique(v.msgs, v.summary)
    BY <1>1, <2>1, CompactedUnique
  <2>4. ToSet(v.msgs) \cup ToSet(v.summary) \subseteq Q /\ (y \/ Unique(v.msgs, v.summary))
    BY <2>2, <2>3
  <2> QED
    BY <1>5, <2>1, <2>4 DEF Tidy
<1> QED
  BY <1>3, <1>7, <1>8, <1>9, <1>10, <1>11, <1>12, <1>13, <1>14, <1>15 DEF TurnStep

LEMMA FileSteps ==
  ASSUME ApartInv, [Next]_vars, NEW s \in Sessions
  PROVE  \/ file'[s] \in {file[s], Empty}
         \/ \E t \in Turns : /\ turn[t].at = "write" /\ Session(t) = s
                             /\ file'[s] = [msgs |-> turn[t].msgs, summary |-> turn[t].summary]
<1>1. DOMAIN file = Sessions
  BY DEF ApartInv, FilesInv
<1>2. ASSUME NEW t \in Turns, LoadHistory(t) \/ CallModel(t) \/ Approve(t) \/ Cancel(t) \/ Fail(t)
      PROVE  file' = file
  BY <1>2 DEF LoadHistory, CallModel, Approve, Cancel, Fail, Store
<1>3. ASSUME NEW t \in Turns, TakeChat(t) \/ UseTool(t) \/ EndStream(t) \/ Finish(t)
                              \/ CheckChat(t) \/ Compact(t)
      PROVE  file' = file
  BY <1>3 DEF TakeChat, UseTool, EndStream, Finish, CheckChat, Compact, Store
<1>4. ASSUME NEW t \in Turns, WriteFile(t), file'[s] # file[s]
      PROVE  /\ turn[t].at = "write" /\ Session(t) = s
             /\ file'[s] = [msgs |-> turn[t].msgs, summary |-> turn[t].summary]
  BY <1>1, <1>4 DEF WriteFile
<1>5. ASSUME NEW r \in Sessions, DeleteChat(r) PROVE file'[s] \in {file[s], Empty}
  BY <1>1, <1>5 DEF DeleteChat
<1>6. CASE Kill \/ Reinforce \/ UNCHANGED vars
  BY <1>6 DEF Kill, Reinforce, Store, vars
<1> QED
  BY <1>2, <1>3, <1>4, <1>5, <1>6 DEF Next, Step

FileTidy(s) ==
  /\ Contents(file[s]) \subseteq Public
  /\ Excused(s) \/ Unique(file[s].msgs, file[s].summary)

TidyInv ==
  /\ \A s \in Sessions : FileTidy(s)
  /\ \A t \in Turns : Tidy(t, turn[t], Public, Excused(Session(t)))

(* What is public stays so, and an excuse is not taken back.               *)
LEMMA PublicGrows ==
  ASSUME ApartInv, ShownInv, [Next]_vars
  PROVE  /\ Public \subseteq Public'
         /\ \A s \in Sessions : Excused(s) => Excused(s)'
<1>1. ASSUME NEW t \in Turns
      PROVE  /\ turn[t].at \in Saved => turn'[t].at \in Saved /\ turn'[t].call = turn[t].call
             /\ turn[t].out # <<>> => turn'[t].out = turn[t].out
  <2>1. TurnStep(t, turn[t], turn'[t])
    BY <1>1, TurnSteps
  <2>2. turn[t].at \in Unanswered => turn[t].out = <<>>
    BY DEF ShownInv, Shows
  <2> QED
    BY <2>1, <2>2 DEF TurnStep, Stays, Drops, Proceeds, Saves, Loads, Asks, Answered, ToolCalled,
       Exhausted, ToolUsed, Finished, Condensed, Words, Saved, Unanswered
<1>2. Public \subseteq Public'
  <2> SUFFICES ASSUME NEW m \in Public PROVE m \in Public'
    OBVIOUS
  <2>1. m \in Message /\ (m[1] = Before \/ \E t \in Turns : turn[t].at \in Saved /\ m \in Leaves(t, turn[t].call))
    BY DEF Public
  <2>2. CASE m[1] = Before
    BY <2>1, <2>2 DEF Public
  <2>3. ASSUME NEW t \in Turns, turn[t].at \in Saved, m \in Leaves(t, turn[t].call)
        PROVE  m \in Public'
    <3>1. turn'[t].at \in Saved /\ turn'[t].call = turn[t].call
      BY <1>1, <2>3
    <3>2. m \in Leaves(t, turn'[t].call)
      BY <2>3, <3>1
    <3> QED
      BY <2>1, <3>1, <3>2 DEF Public
  <2> QED
    BY <2>1, <2>2, <2>3
<1>3. ASSUME NEW s \in Sessions, Excused(s) PROVE Excused(s)'
  <2>1. PICK t \in Ephemeral : SessionOf[t] = s /\ Marked(turn[t])
    BY <1>3 DEF Excused
  <2>2. t \in Turns
    BY TurnsAssumption
  <2>3. Marked(turn'[t])
    BY <1>1, <2>1, <2>2 DEF Marked
  <2> QED
    BY <2>1, <2>3 DEF Excused
<1> QED
  BY <1>2, <1>3

LEMMA TidyInit == InitTurns => TidyInv
<1> SUFFICES ASSUME InitTurns PROVE TidyInv
  OBVIOUS
<1>1. ToSet(<<>>) = {} /\ NoTwice(<<>>)
  BY EmptySeq DEF ToSet, NoTwice
<1>2. ASSUME NEW s \in Sessions PROVE FileTidy(s)
  <2> DEFINE B == {m \in Message : m[1] = Before}
             q == scene.file[s]
  <2>1. q \in Seq(B) /\ \A i, j \in 1 .. Len(q) : q[i] = q[j] => i = j
    BY TurnsAssumption DEF InitTurns
  <2>2. file[s].msgs = q /\ file[s].summary = <<>>
    BY DEF InitTurns, Empty
  <2>3. B \subseteq Public
    BY DEF Public
  <2> HIDE DEF B, q
  <2>4. ToSet(q) \subseteq B
    BY <2>1, LenProperties, ElementOfSeq DEF ToSet
  <2>5. NoTwice(q)
    BY <2>1 DEF NoTwice
  <2> QED
    BY <1>1, <2>2, <2>3, <2>4, <2>5 DEF FileTidy, Contents, Unique
<1>3. ASSUME NEW t \in Turns PROVE Tidy(t, turn[t], Public, Excused(Session(t)))
  <2>1. turn[t].at \in {"idle", "done"} /\ turn[t].read = [msgs |-> <<>>, summary |-> <<>>]
    BY DEF InitTurns, Idle, Empty
  <2> QED
    BY <1>1, <2>1 DEF Tidy, Contents, Unique
<1> QED
  BY <1>2, <1>3 DEF TidyInv

LEMMA TidyAlways == Spec => []TidyInv
<1>1. ApartInv /\ ShownInv /\ HeldInv /\ TidyInv /\ [Next]_vars => TidyInv'
  <2> SUFFICES ASSUME ApartInv, ShownInv, HeldInv, TidyInv, [Next]_vars PROVE TidyInv'
    OBVIOUS
  <2>1. Public \subseteq Public' /\ \A s \in Sessions : Excused(s) => Excused(s)'
    BY PublicGrows
  <2>2. ASSUME NEW s \in Sessions PROVE FileTidy(s)'
    <3>1. CASE file'[s] = file[s]
      BY <2>1, <2>2, <3>1 DEF TidyInv, FileTidy
    <3>2. CASE file'[s] = Empty
      <4>1. ToSet(<<>>) = {} /\ NoTwice(<<>>)
        BY EmptySeq DEF ToSet, NoTwice
      <4> QED
        BY <3>2, <4>1 DEF Empty, FileTidy, Contents, Unique
    <3>3. ASSUME NEW t \in Turns, turn[t].at = "write", Session(t) = s,
                 file'[s] = [msgs |-> turn[t].msgs, summary |-> turn[t].summary]
          PROVE  FileTidy(s)'
      <4>1. Tidy(t, turn[t], Public, Excused(s))
        BY <3>3 DEF TidyInv
      <4>2. /\ ToSet(turn[t].msgs) \cup ToSet(turn[t].summary) \subseteq Public
            /\ Excused(s) \/ Unique(turn[t].msgs, turn[t].summary)
        BY <3>3, <4>1 DEF Tidy
      <4> QED
        BY <2>1, <2>2, <3>3, <4>2 DEF FileTidy, Contents
    <3> QED
      BY <2>2, <3>1, <3>2, <3>3, FileSteps
  <2>3. ASSUME NEW t \in Turns PROVE Tidy(t, turn'[t], Public', Excused(Session(t))')
    <3> DEFINE P == Public
               Q == Public'
               x == Excused(Session(t))
               y == Excused(Session(t))'
               v == turn'[t]
    <3>1. Session(t) \in Sessions
      BY TurnsAssumption DEF Session
    <3>2. P \subseteq Q /\ x \in BOOLEAN /\ y \in BOOLEAN /\ (x => y)
      BY <2>1, <3>1 DEF Excused
    <3>3. Shows(turn[t]) /\ Holds(t, turn[t]) /\ TurnStep(t, turn[t], v) /\ Tidy(t, turn[t], P, x)
      BY TurnSteps DEF ShownInv, HeldInv, TidyInv
    <3>4. (t \in Ephemeral /\ Marked(v)) => y
      BY DEF Excused, Session
    <3>5. /\ Contents(file[Session(t)]) \subseteq P
          /\ x \/ Unique(file[Session(t)].msgs, file[Session(t)].summary)
      BY <3>1 DEF TidyInv, FileTidy
    <3>6. turn[t].at = "idle" => \A m \in P : m[1] # t
      <4> SUFFICES ASSUME turn[t].at = "idle", NEW m \in P, m[1] = t PROVE FALSE
        OBVIOUS
      <4>1. t # Before
        BY TurnsAssumption
      <4>2. PICK r \in Turns : turn[r].at \in Saved /\ m \in Leaves(r, turn[r].call)
        BY <4>1 DEF Public
      <4>3. m[1] = r
        BY <4>2 DEF Leaves
      <4> QED
        BY <4>2, <4>3 DEF Saved
    <3>7. v.at = "check" => Leaves(t, v.call) \subseteq Q
      <4> SUFFICES ASSUME v.at = "check", NEW m \in Leaves(t, v.call) PROVE m \in Q
        OBVIOUS
      <4>1. Sound(turn[t], t)'
        BY ApartStep DEF ApartInv
      <4>2. v.call \in Nat
        BY <4>1 DEF Sound
      <4>3. m \in Message
        BY <4>2 DEF Leaves, Message
      <4> QED
        BY <4>3 DEF Public, Saved
    <3> HIDE DEF P, Q, x, y, v
    <3>8. Tidy(t, v, Q, y)
      BY <3>2, <3>3, <3>4, <3>5, <3>6, <3>7, TidyStep
    <3> QED
      BY <3>8 DEF Q, y, v
  <2> QED
    BY <2>2, <2>3 DEF TidyInv, Tidy, OwnTalk, Deeds, Unique, NoTwice, Contents, Own, Session
<1> QED
  BY <1>1, TidyInit, ApartAlways, ShownAlways, HeldAlways, PTL DEF Spec

LEMMA FewTimes ==
  ASSUME NEW S, NEW q \in Seq(S), NoTwice(q), NEW m
  PROVE  LET I == {i \in 1 .. Len(q) : q[i] = m} IN
         Cardinality(I) \in {0, 1} /\ (Cardinality(I) = 1 => m \in ToSet(q))
<1> DEFINE I == {i \in 1 .. Len(q) : q[i] = m}
<1>1. CASE I = {}
  <2>1. Cardinality(I) = 0
    BY <1>1, FS_EmptySet
  <2> HIDE DEF I
  <2>2. Cardinality(I) \in {0, 1} /\ (Cardinality(I) = 1 => m \in ToSet(q))
    BY <2>1
  <2> QED
    BY <2>2 DEF I
<1>2. ASSUME NEW i \in I PROVE Cardinality(I) = 1 /\ m \in ToSet(q)
  <2>1. I = {i}
    BY <1>2 DEF NoTwice
  <2>2. q[i] \in ToSet(q) /\ q[i] = m
    BY <1>2, InSet
  <2> QED
    BY <2>1, <2>2, FS_Singleton
<1> QED
  BY <1>1, <1>2

(* An ephemeral turn leaves at most one message behind, a clean answer, and *)
(* no message is in a session twice unless an ephemeral turn of it was     *)
(* answered by a marker: for any number of turns that load, save, compact  *)
(* and overwrite each other's files, and whatever fails in between.        *)
THEOREM EphemeralTurnsAreQuiet == Spec => []QuietEphemeral
<1>1. ASSUME ApartInv, TidyInv PROVE QuietEphemeral
  <2>1. ASSUME NEW s \in Sessions, NEW t \in Ephemeral
        PROVE  LET own == {m \in Contents(file[s]) : m[1] = t} IN
               Cardinality(own) <= 1 /\ \A m \in own : m[2] = "ai"
    <3> DEFINE own == {m \in Contents(file[s]) : m[1] = t}
               a   == <<t, "ai", turn[t].call>>
    <3>1. own \subseteq {a}
      <4> SUFFICES ASSUME NEW m \in own PROVE m = a
        OBVIOUS
      <4>1. m \in Public /\ m[1] = t
        BY <1>1 DEF TidyInv, FileTidy
      <4>2. t \in Turns /\ t # Before
        BY TurnsAssumption
      <4>3. PICK r \in Turns : m \in Leaves(r, turn[r].call)
        BY <4>1, <4>2 DEF Public
      <4>4. r = t
        BY <4>1, <4>3 DEF Leaves
      <4> QED
        BY <4>3, <4>4 DEF Leaves
    <3>2. own = {} \/ own = {a}
      BY <3>1
    <3>3. Cardinality({}) = 0 /\ Cardinality({a}) = 1
      BY FS_EmptySet, FS_Singleton
    <3>4. \A m \in own : m[2] = "ai"
      BY <3>1
    <3>5. Cardinality(own) <= 1
      <4> HIDE DEF own, a
      <4> QED
        BY <3>2, <3>3
    <3> QED
      BY <3>4, <3>5
  <2>2. ASSUME NEW s \in Sessions, NEW m \in Contents(file[s]), Times(m, file[s]) > 1
        PROVE  Excused(s)
    <3> DEFINE I == {i \in 1 .. Len(file[s].msgs) : file[s].msgs[i] = m}
               J == {i \in 1 .. Len(file[s].summary) : file[s].summary[i] = m}
    <3> SUFFICES ASSUME ~Excused(s) PROVE FALSE
      OBVIOUS
    <3>1. Unique(file[s].msgs, file[s].summary)
      BY <1>1, <2>2 DEF TidyInv, FileTidy
    <3>2. file[s].msgs \in Seq(Own(s)) /\ file[s].summary \in Seq(Own(s))
      BY <1>1 DEF ApartInv, FilesInv, OwnFile
    <3>3. /\ Cardinality(I) \in {0, 1} /\ (Cardinality(I) = 1 => m \in ToSet(file[s].msgs))
          /\ Cardinality(J) \in {0, 1} /\ (Cardinality(J) = 1 => m \in ToSet(file[s].summary))
      BY <3>1, <3>2, FewTimes DEF Unique
    <3>4. Cardinality(I) + Cardinality(J) > 1
      BY <2>2 DEF Times
    <3>5. m \notin ToSet(file[s].msgs) \cap ToSet(file[s].summary)
      BY <3>1 DEF Unique
    <3> HIDE DEF I, J
    <3> QED
      BY <3>3, <3>4, <3>5
  <2>3. ASSUME NEW s \in Sessions, NEW m \in Contents(file[s]), Times(m, file[s]) > 1
        PROVE  \E t \in Ephemeral : /\ SessionOf[t] = s /\ turn[t].out # <<>>
                                    /\ turn[t].out[Len(turn[t].out)][2] = "skip"
    BY <2>2, <2>3 DEF Excused, Marked
  <2> QED
    BY <2>1, <2>3 DEF QuietEphemeral
<1> QED
  BY <1>1, ApartAlways, TidyAlways, PTL

-----------------------------------------------------------------------------
(* Induction for the functions the search and the recall recur by.         *)

(* A set of naturals has a least element: the initial segments below its   *)
(* elements are finite, so one of them includes no other strictly.         *)
LEMMA Minimum ==
  ASSUME NEW S \in SUBSET Nat, S # {}
  PROVE  \E n \in S : \A m \in S : n <= m
<1> DEFINE Below(n) == 0 .. (n - 1)
           T == {Below(n) : n \in S}
<1>1. T \subseteq FiniteSubsetsOf(Nat) /\ T # {}
  <2>1. ASSUME NEW n \in S PROVE Below(n) \in FiniteSubsetsOf(Nat)
    BY FS_Interval DEF FiniteSubsetsOf
  <2> QED
    BY <2>1
<1>2. PICK x \in T : \A y \in T : ~ (<<y, x>> \in StrictSubsetOrdering(Nat))
  <2> HIDE DEF T
  <2> QED
    BY <1>1, FS_StrictSubsetOrderingWellFounded, WFMin
<1>3. PICK n \in S : x = Below(n)
  OBVIOUS
<1>4. ASSUME NEW m \in S, ~(n <= m) PROVE FALSE
  <2>1. Below(m) \subseteq Below(n) /\ m \in Below(n) /\ m \notin Below(m)
    BY <1>4
  <2>2. <<Below(m), Below(n)>> \in StrictSubsetOrdering(Nat)
    BY <2>1 DEF StrictSubsetOrdering
  <2> QED
    BY <1>2, <1>3, <2>2
<1> QED
  BY <1>4

(* Induction up to a bound, for the set of the numbers of a property.      *)
LEMMA UpTo ==
  ASSUME NEW b \in Nat, NEW S, 0 \in S, \A n \in 0 .. (b - 1) : n \in S => n + 1 \in S
  PROVE  0 .. b \subseteq S
<1>1. SUFFICES ASSUME (0 .. b) \ S # {} PROVE FALSE
  OBVIOUS
<1>2. PICK n \in (0 .. b) \ S : \A m \in (0 .. b) \ S : n <= m
  <2>1. (0 .. b) \ S \in SUBSET Nat
    OBVIOUS
  <2> QED
    BY <1>1, <2>1, Minimum
<1>3. n - 1 \in 0 .. (b - 1) /\ n - 1 \in 0 .. b /\ ~(n <= n - 1)
  BY <1>2
<1>4. n - 1 \in S
  BY <1>2, <1>3
<1> QED
  BY <1>2, <1>3, <1>4

(* A function that takes each value from the one before.                   *)
Follows(f, z, g, b) ==
  \A n \in 0 .. b : f[n] = IF n = 0 THEN z ELSE g[<<f[n - 1], n>>]

LEMMA Iterates ==
  ASSUME NEW D, NEW z \in D, NEW b \in Nat, NEW g \in [D \X (0 .. b) -> D]
  PROVE  \E f \in [0 .. b -> D] : Follows(f, z, g, b)
<1> DEFINE S == {k \in 0 .. b : \E f \in [0 .. k -> D] : Follows(f, z, g, k)}
<1>1. 0 \in S
  <2> DEFINE f == [n \in 0 .. 0 |-> z]
  <2>1. f \in [0 .. 0 -> D] /\ Follows(f, z, g, 0)
    BY DEF Follows
  <2> QED
    BY <2>1
<1>2. ASSUME NEW k \in 0 .. (b - 1), k \in S PROVE k + 1 \in S
  <2>1. PICK f \in [0 .. k -> D] : Follows(f, z, g, k)
    BY <1>2
  <2> DEFINE v == g[<<f[k], k + 1>>]
             h == [n \in 0 .. (k + 1) |-> IF n = k + 1 THEN v ELSE f[n]]
  <2>2. k \in 0 .. k /\ k + 1 \in 0 .. b /\ f[k] \in D
    BY <2>1
  <2>3. v \in D
    BY <2>2
  <2>4. h[k + 1] = v /\ \A n \in 0 .. k : h[n] = f[n]
    OBVIOUS
  <2>5. h \in [0 .. (k + 1) -> D]
    <3> HIDE DEF v
    <3> QED
      BY <2>1, <2>3
  <2> HIDE DEF h
  <2>6. h[k + 1] = IF k + 1 = 0 THEN z ELSE g[<<h[k + 1 - 1], k + 1>>]
    <3>1. k + 1 # 0 /\ k + 1 - 1 = k
      OBVIOUS
    <3> QED
      BY <2>2, <2>4, <3>1
  <2>7. ASSUME NEW n \in 0 .. k
        PROVE  h[n] = IF n = 0 THEN z ELSE g[<<h[n - 1], n>>]
    <3>1. n # 0 => n - 1 \in 0 .. k
      OBVIOUS
    <3> QED
      BY <2>1, <2>4, <3>1 DEF Follows
  <2>8. Follows(h, z, g, k + 1)
    <3>1. ASSUME NEW n \in 0 .. (k + 1)
          PROVE  h[n] = IF n = 0 THEN z ELSE g[<<h[n - 1], n>>]
      <4>1. CASE n = k + 1
        BY <2>6, <4>1
      <4>2. CASE n # k + 1
        BY <2>7, <4>2
      <4> QED
        BY <4>1, <4>2
    <3> QED
      BY <3>1 DEF Follows
  <2> QED
    BY <2>2, <2>5, <2>8
<1> HIDE DEF S
<1>3. 0 .. b \subseteq S
  BY <1>1, <1>2, UpTo
<1>4. b \in S
  BY <1>3
<1> QED
  BY <1>4 DEF S

-----------------------------------------------------------------------------
(* The memory search and the recall are made of the helpers below, each of *)
(* which is a function on the numbers up to the length of a sequence.      *)

LEMMA NoneInSet == ToSet(<<>>) = {}
<1>1. \A i \in DOMAIN <<>> : FALSE
  OBVIOUS
<1> QED
  BY <1>1 DEF ToSet

LEMMA ItemOf ==
  ASSUME NEW X, NEW s \in Seq(X)
  PROVE  /\ Len(s) \in Nat /\ DOMAIN s = 1 .. Len(s)
         /\ \A i \in 1 .. Len(s) : s[i] \in X
         /\ ToSet(s) \subseteq X /\ s \in Seq(ToSet(s))
<1>1. /\ Len(s) \in Nat /\ DOMAIN s = 1 .. Len(s)
      /\ \A i \in 1 .. Len(s) : s[i] \in X
  BY LenProperties, ElementOfSeq
<1>2. ToSet(s) \subseteq X
  BY <1>1, SetOf
<1>3. s = [i \in 1 .. Len(s) |-> s[i]] /\ \A i \in 1 .. Len(s) : s[i] \in ToSet(s)
  BY <1>1, InSet
<1>4. s \in Seq(ToSet(s))
  BY <1>1, <1>3
<1> QED
  BY <1>1, <1>2, <1>4

(* What a function on 1 .. n lists.                                        *)
LEMMA Listed ==
  ASSUME NEW n \in Nat, NEW X, NEW s, s = [i \in 1 .. n |-> s[i]],
         \A i \in 1 .. n : s[i] \in X
  PROVE  s \in Seq(X) /\ Len(s) = n
OBVIOUS

-----------------------------------------------------------------------------
(* Pick.                                                                   *)

PickStep(s, places, f, n) ==
  IF n = 0 THEN <<>>
  ELSE IF n \in places THEN Append(f[n - 1], s[n]) ELSE f[n - 1]

Picks(s, places, f) == f = [n \in 0 .. Len(s) |-> PickStep(s, places, f, n)]

LEMMA PicksExist ==
  ASSUME NEW X, NEW s \in Seq(X), NEW places
  PROVE  \E f : Picks(s, places, f) /\ \A n \in 0 .. Len(s) : f[n] \in Seq(X)
<1> DEFINE b == Len(s)
           D == Seq(X)
           g == [p \in D \X (0 .. b) |->
                   IF p[2] # 0 /\ p[2] \in places THEN Append(p[1], s[p[2]]) ELSE p[1]]
<1>1. b \in Nat /\ \A i \in 1 .. b : s[i] \in X
  BY ItemOf
<1>2. <<>> \in D
  BY EmptySeq
<1>3. ASSUME NEW q \in D, NEW n \in 0 .. b, n # 0 PROVE Append(q, s[n]) \in D
  BY <1>1, <1>3, AppendProperties
<1> HIDE DEF b, D
<1>4. g \in [D \X (0 .. b) -> D]
  BY <1>3
<1>5. ASSUME NEW q \in D, NEW n \in 0 .. b, n # 0
      PROVE  g[<<q, n>>] = IF n \in places THEN Append(q, s[n]) ELSE q
  BY <1>5
<1> HIDE DEF g
<1>6. PICK f \in [0 .. b -> D] : Follows(f, <<>>, g, b)
  BY <1>1, <1>2, <1>4, Iterates
<1>7. ASSUME NEW n \in 0 .. b PROVE f[n] = PickStep(s, places, f, n)
  <2>1. n # 0 => f[n - 1] \in D
    BY <1>1
  <2> QED
    BY <1>5, <1>6, <2>1 DEF Follows, PickStep
<1>8. f = [n \in 0 .. b |-> f[n]]
  OBVIOUS
<1>9. f = [n \in 0 .. b |-> PickStep(s, places, f, n)]
  BY <1>7, <1>8
<1>10. \A n \in 0 .. b : f[n] \in D
  OBVIOUS
<1> QED
  BY <1>9, <1>10 DEF Picks, b, D

(* What was picked are the elements at the places, and no others.          *)
LEMMA PickFacts ==
  ASSUME NEW X, NEW s \in Seq(X), NEW places
  PROVE  /\ Pick(s, places) \in Seq(X)
         /\ ToSet(Pick(s, places)) = {s[i] : i \in places \cap (1 .. Len(s))}
<1> DEFINE b == Len(s)
           f == CHOOSE g : Picks(s, places, g)
<1>1. Pick(s, places) = f[b]
  BY DEF Pick, Picks, PickStep
<1>2. Picks(s, places, f)
  BY PicksExist
<1>3. b \in Nat /\ \A i \in 1 .. b : s[i] \in X
  BY ItemOf
<1> HIDE DEF f
<1>4. \A n \in 0 .. b : f[n] = PickStep(s, places, f, n)
  BY <1>2 DEF Picks
<1> HIDE DEF b
<1> DEFINE S == {n \in Nat : /\ f[n] \in Seq(X)
                             /\ ToSet(f[n]) = {s[i] : i \in places \cap (1 .. n)}}
<1>5. 0 \in S
  <2>1. f[0] = <<>>
    BY <1>3, <1>4 DEF PickStep
  <2>2. places \cap (1 .. 0) = {}
    OBVIOUS
  <2>3. {s[i] : i \in places \cap (1 .. 0)} = {}
    BY <2>2
  <2> QED
    BY <2>1, <2>3, NoneInSet, EmptySeq
<1>6. ASSUME NEW n \in 0 .. (b - 1), n \in S PROVE n + 1 \in S
  <2>1. n + 1 \in 0 .. b /\ n + 1 \in 1 .. b /\ n + 1 # 0 /\ n + 1 - 1 = n /\ n \in Nat /\ n + 1 \in Nat
    BY <1>3
  <2>2. f[n + 1] = IF n + 1 \in places THEN Append(f[n], s[n + 1]) ELSE f[n]
    BY <1>4, <2>1 DEF PickStep
  <2>3. f[n] \in Seq(X) /\ ToSet(f[n]) = {s[i] : i \in places \cap (1 .. n)} /\ s[n + 1] \in X
    BY <1>3, <1>6, <2>1
  <2>4. CASE n + 1 \in places
    <3>1. places \cap (1 .. (n + 1)) = (places \cap (1 .. n)) \cup {n + 1}
      BY <2>1, <2>4
    <3>2. {s[i] : i \in places \cap (1 .. (n + 1))}
            = {s[i] : i \in places \cap (1 .. n)} \cup {s[n + 1]}
      BY <3>1
    <3>3. f[n + 1] = Append(f[n], s[n + 1])
      BY <2>2, <2>4
    <3>4. f[n + 1] \in Seq(X)
      BY <2>3, <3>3, AppendProperties
    <3>5. ToSet(f[n + 1]) = ToSet(f[n]) \cup {s[n + 1]}
      BY <2>3, <3>3, AppendSet
    <3> QED
      BY <2>1, <2>3, <3>2, <3>4, <3>5
  <2>5. CASE n + 1 \notin places
    <3>1. places \cap (1 .. (n + 1)) = places \cap (1 .. n)
      BY <2>1, <2>5
    <3> QED
      BY <2>1, <2>2, <2>3, <2>5, <3>1
  <2> QED
    BY <2>4, <2>5
<1> HIDE DEF S
<1>7. 0 .. b \subseteq S
  BY <1>3, <1>5, <1>6, UpTo
<1>8. b \in S
  BY <1>3, <1>7
<1> QED
  BY <1>1, <1>8 DEF S, b

-----------------------------------------------------------------------------
(* Insert and Falling.                                                     *)

LEMMA InsertFacts ==
  ASSUME NEW X, NEW s \in Seq(X), NEW x \in X, NEW key
  PROVE  Insert(s, x, key) \in Seq(X) /\ ToSet(Insert(s, x, key)) = ToSet(s) \cup {x}
<1> DEFINE front == {i \in DOMAIN s : key[s[i]] >= key[x]}
           a == Pick(s, front)
           c == Pick(s, DOMAIN s \ front)
<1>1. DOMAIN s = 1 .. Len(s)
  BY ItemOf
<1>2. Insert(s, x, key) = Append(a, x) \o c
  BY DEF Insert
<1>3. front \subseteq 1 .. Len(s)
  BY <1>1
<1> HIDE DEF front
<1>4. a \in Seq(X) /\ ToSet(a) = {s[i] : i \in front \cap (1 .. Len(s))}
  BY PickFacts
<1>5. c \in Seq(X) /\ ToSet(c) = {s[i] : i \in (DOMAIN s \ front) \cap (1 .. Len(s))}
  BY PickFacts
<1>6. ToSet(s) = {s[i] : i \in 1 .. Len(s)}
  BY <1>1 DEF ToSet
<1>7. ToSet(a) \cup ToSet(c) = ToSet(s)
  BY <1>1, <1>3, <1>4, <1>5, <1>6
<1> HIDE DEF a, c
<1> DEFINE q == Append(a, x)
<1>8. q \in Seq(X) /\ ToSet(q) = ToSet(a) \cup {x}
  BY <1>4, AppendSet, AppendProperties
<1>9. Insert(s, x, key) = q \o c
  BY <1>2
<1> HIDE DEF q
<1>10. q \o c \in Seq(X) /\ ToSet(q \o c) = ToSet(q) \cup ToSet(c)
  BY <1>5, <1>8, ConcatIs
<1> QED
  BY <1>7, <1>8, <1>9, <1>10

SortStep(s, key, f, n) == IF n = 0 THEN <<>> ELSE Insert(f[n - 1], s[n], key)

Sorts(s, key, f) == f = [n \in 0 .. Len(s) |-> SortStep(s, key, f, n)]

LEMMA SortsExist == ASSUME NEW X, NEW s \in Seq(X), NEW key PROVE \E f : Sorts(s, key, f)
<1> DEFINE b == Len(s)
           D == Seq(X)
           g == [p \in D \X (0 .. b) |-> IF p[2] # 0 THEN Insert(p[1], s[p[2]], key) ELSE p[1]]
<1>1. b \in Nat /\ \A i \in 1 .. b : s[i] \in X
  BY ItemOf
<1>2. <<>> \in D
  BY EmptySeq
<1>3. ASSUME NEW q \in D, NEW n \in 0 .. b, n # 0 PROVE Insert(q, s[n], key) \in D
  BY <1>1, <1>3, InsertFacts
<1> HIDE DEF b, D
<1>4. g \in [D \X (0 .. b) -> D]
  BY <1>3
<1>5. ASSUME NEW q \in D, NEW n \in 0 .. b, n # 0 PROVE g[<<q, n>>] = Insert(q, s[n], key)
  BY <1>5
<1> HIDE DEF g
<1>6. PICK f \in [0 .. b -> D] : Follows(f, <<>>, g, b)
  BY <1>1, <1>2, <1>4, Iterates
<1>7. ASSUME NEW n \in 0 .. b PROVE f[n] = SortStep(s, key, f, n)
  <2>1. n # 0 => f[n - 1] \in D
    BY <1>1
  <2> QED
    BY <1>5, <1>6, <2>1 DEF Follows, SortStep
<1>8. f = [n \in 0 .. b |-> f[n]]
  OBVIOUS
<1>9. f = [n \in 0 .. b |-> SortStep(s, key, f, n)]
  BY <1>7, <1>8
<1> QED
  BY <1>9 DEF Sorts, b

(* Whatever the keys are, nothing is lost or added.                        *)
LEMMA FallingFacts ==
  ASSUME NEW X, NEW s \in Seq(X), NEW key
  PROVE  Falling(s, key) \in Seq(X) /\ ToSet(Falling(s, key)) = ToSet(s)
<1> DEFINE b == Len(s)
           f == CHOOSE g : Sorts(s, key, g)
<1>1. Falling(s, key) = f[b]
  BY DEF Falling, Sorts, SortStep
<1>2. Sorts(s, key, f)
  BY SortsExist
<1>3. b \in Nat /\ (\A i \in 1 .. b : s[i] \in X) /\ ToSet(s) = {s[i] : i \in 1 .. b}
  BY ItemOf DEF ToSet
<1> HIDE DEF f
<1>4. \A n \in 0 .. b : f[n] = SortStep(s, key, f, n)
  BY <1>2 DEF Sorts
<1> HIDE DEF b
<1> DEFINE S == {n \in Nat : f[n] \in Seq(X) /\ ToSet(f[n]) = {s[i] : i \in 1 .. n}}
<1>5. 0 \in S
  <2>1. f[0] = <<>>
    BY <1>3, <1>4 DEF SortStep
  <2>2. {s[i] : i \in 1 .. 0} = {}
    OBVIOUS
  <2> QED
    BY <2>1, <2>2, NoneInSet, EmptySeq
<1>6. ASSUME NEW n \in 0 .. (b - 1), n \in S PROVE n + 1 \in S
  <2>1. n + 1 \in 0 .. b /\ n + 1 \in 1 .. b /\ n + 1 # 0 /\ n + 1 - 1 = n /\ n \in Nat /\ n + 1 \in Nat
    BY <1>3
  <2>2. f[n + 1] = Insert(f[n], s[n + 1], key)
    BY <1>4, <2>1 DEF SortStep
  <2>3. f[n] \in Seq(X) /\ ToSet(f[n]) = {s[i] : i \in 1 .. n} /\ s[n + 1] \in X
    BY <1>3, <1>6, <2>1
  <2>4. f[n + 1] \in Seq(X) /\ ToSet(f[n + 1]) = ToSet(f[n]) \cup {s[n + 1]}
    BY <2>2, <2>3, InsertFacts
  <2>5. 1 .. (n + 1) = (1 .. n) \cup {n + 1}
    BY <2>1
  <2>6. {s[i] : i \in 1 .. (n + 1)} = {s[i] : i \in 1 .. n} \cup {s[n + 1]}
    BY <2>5
  <2> QED
    BY <2>1, <2>3, <2>4, <2>6
<1> HIDE DEF S
<1>7. 0 .. b \subseteq S
  BY <1>3, <1>5, <1>6, UpTo
<1>8. b \in S
  BY <1>3, <1>7
<1> QED
  BY <1>1, <1>3, <1>8 DEF S

LEMMA ByScoreFacts ==
  ASSUME NEW X, NEW s \in Seq(X)
  PROVE  ByScore(s) \in Seq(X) /\ ToSet(ByScore(s)) = ToSet(s)
BY FallingFacts DEF ByScore

-----------------------------------------------------------------------------
(* What the search finds is in the index.  Nothing is said of the scores.  *)

LEMMA FirstIs ==
  ASSUME NEW X, NEW s \in Seq(X), NEW n \in Nat
  PROVE  FirstOf(s, n) \in Seq(X)
BY SubSeqOf DEF FirstOf

LEMMA OrderOf ==
  ASSUME NEW S \in SUBSET Chunks
  PROVE  SetToSeq(S) \in Seq(S)
<1>1. IsFiniteSet(S)
  BY ChunksAssumption, FS_Subset
<1>2. Cardinality(S) \in Nat /\ ExistsBijection(1 .. Cardinality(S), S)
  BY <1>1, FS_CardinalityType
<1>3. \E f \in [1 .. Cardinality(S) -> S] : IsInjective(f)
  BY <1>2 DEF ExistsBijection, Bijection, Injection
<1>4. SetToSeq(S) \in [1 .. Cardinality(S) -> S]
  BY <1>3 DEF SetToSeq
<1> QED
  BY <1>2, <1>4, SeqDef

LEMMA LimitNat == Limit \in Nat
BY DEF Limit, MaxResults

LEMMA FoundInIndex ==
  ASSUME NEW range
  PROVE  Vectors(range) \in Seq(Chunks) /\ Rows(range) \in Seq(Chunks)
         /\ Keywords(range) \in Seq(Chunks)
<1>1. ASSUME NEW S \in SUBSET Chunks, NEW key, NEW n \in Nat
      PROVE  FirstOf(Falling(SetToSeq(S), key), n) \in Seq(Chunks)
  <2>1. SetToSeq(S) \in Seq(Chunks)
    BY OrderOf, SeqMonotonic
  <2>2. Falling(SetToSeq(S), key) \in Seq(Chunks)
    BY <2>1, FallingFacts
  <2> QED
    BY <2>2, FirstIs
<1>2. Vectors(range) \in Seq(Chunks)
  <2> DEFINE S == {c \in Chunks : /\ ChunkOf[c].vec > 0 /\ ~ChunkOf[c].barred
                                  /\ range.kind = "hard" => ChunkOf[c].day \in range.days}
             key == [c \in S |-> ChunkOf[c].vec]
  <2>1. Vectors(range) = FirstOf(Falling(SetToSeq(S), key), Limit)
    BY DEF Vectors
  <2>2. S \in SUBSET Chunks
    OBVIOUS
  <2> HIDE DEF S, key
  <2> QED
    BY <1>1, <2>1, <2>2, LimitNat
<1>3. Rows(range) \in Seq(Chunks)
  <2> DEFINE S == {c \in Chunks : ChunkOf[c].text > 0}
             key == [c \in S |-> ChunkOf[c].text]
             n == IF Strict(range) THEN 3 * Limit ELSE Limit
             rows == FirstOf(Falling(SetToSeq(S), key), n)
             places == {i \in DOMAIN rows : Within(rows[i], range)}
  <2>1. Rows(range) = Pick(rows, places)
    BY DEF Rows
  <2>2. S \in SUBSET Chunks /\ n \in Nat
    BY LimitNat
  <2> HIDE DEF S, key, n
  <2>3. rows \in Seq(Chunks)
    BY <1>1, <2>2
  <2> HIDE DEF rows, places
  <2> QED
    BY <2>1, <2>3, PickFacts
<1>4. Keywords(range) \in Seq(Chunks)
  BY <1>3, FirstIs, LimitNat DEF Keywords
<1> QED
  BY <1>2, <1>3, <1>4

IsHit(r) == DOMAIN r = {"chunk", "score", "imp", "count"} /\ r.chunk \in Chunks

Hits(s) == s \in Seq(ToSet(s)) /\ \A r \in ToSet(s) : IsHit(r)

LEMMA HitsOf ==
  ASSUME NEW n \in Nat, NEW s, s = [i \in 1 .. n |-> s[i]], \A i \in 1 .. n : IsHit(s[i])
  PROVE  Hits(s)
<1>1. ToSet(s) = {s[i] : i \in 1 .. n}
  BY DEF ToSet
<1>2. s \in Seq(ToSet(s))
  BY <1>1, Listed
<1> QED
  BY <1>1, <1>2 DEF Hits

LEMMA HitAt ==
  ASSUME NEW s, Hits(s)
  PROVE  Len(s) \in Nat /\ \A i \in 1 .. Len(s) : IsHit(s[i])
BY ItemOf, InSet DEF Hits

LEMMA HitsAmong ==
  ASSUME NEW s, Hits(s), NEW t, t \in Seq(ToSet(s))
  PROVE  Hits(t)
BY ItemOf DEF Hits

LEMMA SortedHits == ASSUME NEW s, Hits(s) PROVE Hits(ByScore(s))
BY ByScoreFacts, HitsAmong DEF Hits

LEMMA PickedHits == ASSUME NEW s, Hits(s), NEW places PROVE Hits(Pick(s, places))
BY PickFacts, HitsAmong DEF Hits

LEMMA ResultHit ==
  ASSUME NEW c \in Chunks, NEW score, NEW known, NEW n
  PROVE  IsHit(Result(c, score, known, n))
BY DEF IsHit, Result

LEMMA Rescored ==
  ASSUME NEW r, IsHit(r), NEW x
  PROVE  IsHit([r EXCEPT !.score = x])
BY DEF IsHit

LEMMA MergedHits ==
  ASSUME NEW v \in Seq(Chunks), NEW k \in Seq(Chunks), NEW n
  PROVE  Hits(Merged(v, k, n))
<1> DEFINE Score(c) == (IF c \in ToSet(v) THEN VectorPart * ChunkOf[c].vec ELSE 0)
                         + (IF c \in ToSet(k) THEN TextPart * ChunkOf[c].text ELSE 0)
           new == {i \in DOMAIN k : k[i] \notin ToSet(v)}
           all == v \o Pick(k, new)
           s == [i \in 1 .. Len(all) |-> Result(all[i], Score(all[i]), all[i] \in ToSet(v), n)]
<1>1. Merged(v, k, n) = s
  BY DEF Merged
<1> HIDE DEF new
<1>2. Pick(k, new) \in Seq(Chunks)
  BY PickFacts
<1>3. all \in Seq(Chunks)
  BY <1>2, ConcatProperties
<1> HIDE DEF all, Score
<1>4. Len(all) \in Nat /\ \A i \in 1 .. Len(all) : all[i] \in Chunks
  BY <1>3, ItemOf
<1>5. s = [i \in 1 .. Len(all) |-> s[i]] /\ \A i \in 1 .. Len(all) : IsHit(s[i])
  BY <1>4, ResultHit
<1> HIDE DEF s
<1> QED
  BY <1>1, <1>4, <1>5, HitsOf

LEMMA WordsHits ==
  ASSUME NEW range, NEW n
  PROVE  Hits(WordsOnly(range, n))
<1> DEFINE found == Rows(range)
           Bonus(c) == 10 + (IF ChunkOf[c].hits < 5 THEN ChunkOf[c].hits ELSE 5) - 1
           s == [i \in 1 .. Len(found) |->
                   Result(found[i], 10 * ChunkOf[found[i]].text * Bonus(found[i]), FALSE, n)]
<1>1. WordsOnly(range, n) = s
  BY DEF WordsOnly
<1>2. found \in Seq(Chunks)
  BY FoundInIndex
<1> HIDE DEF found, Bonus
<1>3. Len(found) \in Nat /\ \A i \in 1 .. Len(found) : found[i] \in Chunks
  BY <1>2, ItemOf
<1>4. s = [i \in 1 .. Len(found) |-> s[i]] /\ \A i \in 1 .. Len(found) : IsHit(s[i])
  BY <1>3, ResultHit
<1> HIDE DEF s
<1> QED
  BY <1>1, <1>3, <1>4, HitsOf

LEMMA DatedHits ==
  ASSUME NEW results, Hits(results), NEW range
  PROVE  Hits(Dated(results, range))
<1> DEFINE Raised(r) == IF range.kind = "soft" /\ ChunkOf[r.chunk].day \in range.days
                          THEN [r EXCEPT !.score = (3 * @) \div 2] ELSE r
           places == {i \in DOMAIN results : Within(results[i].chunk, range)}
           kept == Pick(results, places)
           s == [i \in 1 .. Len(kept) |-> Raised(kept[i])]
<1>1. Dated(results, range) = s
  BY DEF Dated
<1> HIDE DEF places
<1>2. Hits(kept)
  BY PickedHits
<1>3. \A r : IsHit(r) => IsHit(Raised(r))
  BY Rescored
<1> HIDE DEF kept, Raised
<1>4. Len(kept) \in Nat /\ \A i \in 1 .. Len(kept) : IsHit(kept[i])
  BY <1>2, HitAt
<1>5. s = [i \in 1 .. Len(kept) |-> s[i]] /\ \A i \in 1 .. Len(kept) : IsHit(s[i])
  BY <1>3, <1>4
<1> HIDE DEF s
<1> QED
  BY <1>1, <1>4, <1>5, HitsOf

LEMMA WeighedHits ==
  ASSUME NEW results, Hits(results), NEW range
  PROVE  Hits(Weighed(results, range))
<1> DEFINE dated == Dated(results, range)
           s == [i \in 1 .. Len(dated) |-> Boosted(Decayed(dated[i], range))]
<1>1. Weighed(results, range) = ByScore(s)
  BY DEF Weighed
<1>2. Hits(dated)
  BY DatedHits
<1>3. \A r : IsHit(r) => IsHit(Decayed(r, range))
  BY Rescored DEF Decayed
<1>4. \A r : IsHit(r) => IsHit(Boosted(r))
  BY Rescored DEF Boosted
<1> HIDE DEF dated
<1>5. Len(dated) \in Nat /\ \A i \in 1 .. Len(dated) : IsHit(dated[i])
  BY <1>2, HitAt
<1>6. s = [i \in 1 .. Len(dated) |-> s[i]] /\ \A i \in 1 .. Len(dated) : IsHit(s[i])
  BY <1>3, <1>4, <1>5
<1> HIDE DEF s
<1>7. Hits(s)
  BY <1>5, <1>6, HitsOf
<1> QED
  BY <1>1, <1>7, SortedHits

LEMMA PassingHits ==
  ASSUME NEW results, Hits(results)
  PROVE  Hits(Passing(results))
<1> DEFINE Enough(r) == r.score >= MinScore \/ (r.imp >= 70 /\ 2 * r.score >= MinScore)
           places == {i \in DOMAIN results : Enough(results[i])}
           passing == Pick(results, places)
<1>1. \/ Passing(results) = passing
      \/ results # <<>> /\ Passing(results) = <<results[1]>>
      \/ Passing(results) = <<>>
  BY DEF Passing
<1> HIDE DEF places
<1>2. Hits(passing)
  BY PickedHits
<1>3. Hits(<<>>)
  BY NoneInSet, EmptySeq DEF Hits
<1>4. ASSUME results # <<>> PROVE Hits(<<results[1]>>)
  <2> DEFINE s == <<results[1]>>
  <2>1. 1 \in 1 .. Len(results)
    BY <1>4, EmptySeq, HitAt DEF Hits
  <2>2. IsHit(results[1])
    BY <2>1, HitAt
  <2>3. s = [i \in 1 .. 1 |-> s[i]] /\ \A i \in 1 .. 1 : s[i] = results[1]
    OBVIOUS
  <2> HIDE DEF s
  <2>4. Hits(s)
    BY <2>2, <2>3, HitsOf
  <2> QED
    BY <2>4 DEF s
<1> QED
  BY <1>1, <1>2, <1>3, <1>4

(* Of what is rest there is always a best.                                 *)
LEMMA BestIsLeft ==
  ASSUME NEW X, NEW rest \in Seq(X), rest # <<>>, NEW chosen, NEW results
  PROVE  Best(rest, chosen, results) \in ToSet(rest)
<1> DEFINE key == [r \in ToSet(rest) |-> Worth(r, chosen, results)]
           s == Falling(ByScore(rest), key)
<1>1. Best(rest, chosen, results) = s[1]
  BY DEF Best
<1> HIDE DEF key
<1>2. ByScore(rest) \in Seq(X) /\ ToSet(ByScore(rest)) = ToSet(rest)
  BY ByScoreFacts
<1>3. s \in Seq(X) /\ ToSet(s) = ToSet(rest)
  BY <1>2, FallingFacts
<1> HIDE DEF s
<1>4. ToSet(rest) # {}
  <2>1. 1 \in 1 .. Len(rest)
    BY EmptySeq
  <2> QED
    BY <2>1, InSet
<1>5. 1 \in 1 .. Len(s)
  BY <1>3, <1>4, SetOf, ItemOf
<1> QED
  BY <1>1, <1>3, <1>5, InSet

LEMMA WithBestAmong ==
  ASSUME NEW X, NEW results \in Seq(X), NEW chosen \in Seq(X)
  PROVE  WithBest(chosen, results) \in Seq(X)
<1> DEFINE places == {i \in DOMAIN results : results[i] \notin ToSet(chosen)}
           rest == Pick(results, places)
           best == Best(rest, chosen, results)
<1>1. WithBest(chosen, results) = IF rest = <<>> THEN chosen ELSE Append(chosen, best)
  BY DEF WithBest
<1> HIDE DEF places
<1>2. rest \in Seq(X)
  BY PickFacts
<1> HIDE DEF rest
<1>3. rest # <<>> => best \in ToSet(rest)
  BY <1>2, BestIsLeft
<1> HIDE DEF best
<1>4. rest # <<>> => best \in X
  BY <1>2, <1>3, ItemOf
<1> QED
  BY <1>1, <1>4, AppendProperties

RankStep(results, f, n) == IF n = 0 THEN <<>> ELSE WithBest(f[n - 1], results)

Ranks(results, f) == f = [n \in 0 .. Len(results) |-> RankStep(results, f, n)]

LEMMA RanksExist ==
  ASSUME NEW X, NEW results \in Seq(X)
  PROVE  \E f : Ranks(results, f) /\ \A n \in 0 .. Len(results) : f[n] \in Seq(X)
<1> DEFINE b == Len(results)
           D == Seq(X)
           g == [p \in D \X (0 .. b) |-> WithBest(p[1], results)]
<1>1. b \in Nat
  BY ItemOf
<1>2. <<>> \in D
  BY EmptySeq
<1>3. ASSUME NEW q \in D PROVE WithBest(q, results) \in D
  BY WithBestAmong
<1> HIDE DEF b, D
<1>4. g \in [D \X (0 .. b) -> D]
  BY <1>3
<1>5. \A q \in D, n \in 0 .. b : g[<<q, n>>] = WithBest(q, results)
  OBVIOUS
<1> HIDE DEF g
<1>6. PICK f \in [0 .. b -> D] : Follows(f, <<>>, g, b)
  BY <1>1, <1>2, <1>4, Iterates
<1>7. ASSUME NEW n \in 0 .. b PROVE f[n] = RankStep(results, f, n)
  <2>1. n # 0 => f[n - 1] \in D
    BY <1>1
  <2> QED
    BY <1>5, <1>6, <2>1 DEF Follows, RankStep
<1>8. f = [n \in 0 .. b |-> f[n]]
  OBVIOUS
<1>9. f = [n \in 0 .. b |-> RankStep(results, f, n)]
  BY <1>7, <1>8
<1>10. \A n \in 0 .. b : f[n] \in D
  OBVIOUS
<1> QED
  BY <1>9, <1>10 DEF Ranks, b, D

LEMMA DiverseHits ==
  ASSUME NEW results, Hits(results)
  PROVE  Hits(Diverse(results))
<1> DEFINE b == Len(results)
           D == Seq(ToSet(results))
           f == CHOOSE g : Ranks(results, g)
<1>1. Diverse(results) = IF b <= 1 THEN results ELSE f[b]
  BY DEF Diverse, Ranks, RankStep
<1>2. results \in D /\ b \in Nat
  BY HitAt DEF Hits
<1>3. Ranks(results, f)
  BY <1>2, RanksExist
<1> HIDE DEF f
<1>4. \A n \in 0 .. b : f[n] = RankStep(results, f, n)
  BY <1>3 DEF Ranks
<1> HIDE DEF b
<1> DEFINE S == {n \in Nat : f[n] \in D}
<1>5. 0 \in S
  <2>1. f[0] = <<>>
    BY <1>2, <1>4 DEF RankStep
  <2> QED
    BY <2>1, EmptySeq
<1>6. ASSUME NEW n \in 0 .. (b - 1), n \in S PROVE n + 1 \in S
  <2>1. n + 1 \in 0 .. b /\ n + 1 # 0 /\ n + 1 - 1 = n /\ n + 1 \in Nat
    BY <1>2
  <2>2. f[n + 1] = WithBest(f[n], results)
    BY <1>4, <2>1 DEF RankStep
  <2>3. f[n + 1] \in D
    BY <1>2, <1>6, <2>2, WithBestAmong
  <2> QED
    BY <2>1, <2>3
<1> HIDE DEF S
<1>7. 0 .. b \subseteq S
  BY <1>2, <1>5, <1>6, UpTo
<1>8. f[b] \in D
  BY <1>2, <1>7 DEF S
<1> QED
  BY <1>1, <1>8, HitsAmong

LEMMA SearchHits ==
  ASSUME NEW mode, NEW range, NEW n
  PROVE  Hits(SearchResults(mode, range, n))
<1> DEFINE found == CASE mode = "words"    -> WordsOnly(range, n)
                      [] mode = "degraded" -> Merged(<<>>, Keywords(range), n)
                      [] OTHER             -> Merged(Vectors(range), Keywords(range), n)
           ranked == Diverse(Passing(Weighed(found, range)))
<1>1. SearchResults(mode, range, n) = FirstOf(ranked, MaxResults)
  BY DEF SearchResults
<1>2. Hits(Merged(<<>>, Keywords(range), n)) /\ Hits(Merged(Vectors(range), Keywords(range), n))
  BY FoundInIndex, EmptySeq, MergedHits
<1>3. Hits(WordsOnly(range, n))
  BY WordsHits
<1>4. Hits(found)
  BY <1>2, <1>3
<1> HIDE DEF found
<1>5. Hits(ranked)
  BY <1>4, WeighedHits, PassingHits, DiverseHits
<1> HIDE DEF ranked
<1>6. FirstOf(ranked, MaxResults) \in Seq(ToSet(ranked))
  BY <1>5, FirstIs DEF Hits, MaxResults
<1> QED
  BY <1>1, <1>5, <1>6, HitsAmong

-----------------------------------------------------------------------------
(* The recall.                                                             *)

(* What the recall gets to hear: what is in the index or a session, or     *)
(* that the search failed.                                                 *)
Audible(x) ==
  x.text \in Chunks \cup Snippets \cup {Failed}

Audibles(s) == s \in Seq(ToSet(s)) /\ \A x \in ToSet(s) : Audible(x)

LEMMA AudiblesOf ==
  ASSUME NEW n \in Nat, NEW s, s = [i \in 1 .. n |-> s[i]], \A i \in 1 .. n : Audible(s[i])
  PROVE  Audibles(s)
<1>1. ToSet(s) = {s[i] : i \in 1 .. n}
  BY DEF ToSet
<1>2. s \in Seq(ToSet(s))
  BY <1>1, Listed
<1> QED
  BY <1>1, <1>2 DEF Audibles

LEMMA JoinedAudibles ==
  ASSUME NEW a, NEW b, Audibles(a), Audibles(b)
  PROVE  Audibles(a \o b)
<1> DEFINE X == ToSet(a) \cup ToSet(b)
<1>1. a \in Seq(X) /\ b \in Seq(X)
  BY SeqMonotonic DEF Audibles
<1>2. ToSet(a \o b) = ToSet(a) \cup ToSet(b) /\ a \o b \in Seq(X)
  BY <1>1, ConcatIs
<1> QED
  BY <1>2 DEF Audibles

LEMMA SectionText ==
  ASSUME NEW form, NEW text, NEW score
  PROVE  Section(form, text, score).text = text
BY DEF Section

LEMMA SectionsAudible ==
  ASSUME NEW failed \in BOOLEAN, NEW results, Hits(results), NEW sessions \in Seq(Snippets)
  PROVE  Audibles(Sections(failed, results, sessions))
<1> DEFINE places == {i \in DOMAIN sessions : sessions[i] \notin Short}
           found == Pick(sessions, places)
           bare == Section("bare", Failed, 0)
           m == MemorySections(results)
           n == SessionSections(found)
<1>1. \/ Sections(failed, results, sessions) = m \o n
      \/ Sections(failed, results, sessions) = <<bare>>
      \/ Sections(failed, results, sessions) = m
  BY DEF Sections
<1> HIDE DEF places
<1>2. found \in Seq(Snippets)
  BY PickFacts
<1> HIDE DEF found
<1>3. Audibles(m)
  <2>1. Len(results) \in Nat /\ \A i \in 1 .. Len(results) : results[i].chunk \in Chunks
    BY HitAt DEF IsHit
  <2>2. /\ m = [i \in 1 .. Len(results) |-> m[i]]
        /\ \A i \in 1 .. Len(results) :
             m[i] = Section("memory", results[i].chunk, results[i].score)
    BY DEF MemorySections
  <2>3. \A i \in 1 .. Len(results) : Audible(m[i])
    BY <2>1, <2>2, SectionText DEF Audible
  <2> HIDE DEF m
  <2> QED
    BY <2>1, <2>2, <2>3, AudiblesOf
<1>4. Audibles(n)
  <2>1. Len(found) \in Nat /\ \A i \in 1 .. Len(found) : found[i] \in Snippets
    BY <1>2, ItemOf
  <2>2. /\ n = [i \in 1 .. Len(found) |-> n[i]]
        /\ \A i \in 1 .. Len(found) :
             n[i] = Section(IF i = 1 THEN "headed" ELSE "session", found[i], 0)
    BY DEF SessionSections
  <2>3. \A i \in 1 .. Len(found) : Audible(n[i])
    BY <2>1, <2>2, SectionText DEF Audible
  <2> HIDE DEF n
  <2> QED
    BY <2>1, <2>2, <2>3, AudiblesOf
<1>5. Audibles(<<bare>>)
  <2> DEFINE s == <<bare>>
  <2>1. Audible(bare)
    BY SectionText DEF Audible
  <2> HIDE DEF bare
  <2>2. s = [i \in 1 .. 1 |-> s[i]] /\ \A i \in 1 .. 1 : s[i] = bare
    OBVIOUS
  <2> HIDE DEF s
  <2>3. Audibles(s)
    BY <2>1, <2>2, AudiblesOf
  <2> QED
    BY <2>3 DEF s
<1> QED
  BY <1>1, <1>3, <1>4, <1>5, JoinedAudibles

(* A candidate that may be shown: no secret, or one that may be recalled,  *)
(* or the talk; and the file of the owner for nobody else.                 *)
Showable(c, actor, set) ==
  /\ c.text \in Texts
  /\ c.text \in SecretTexts => set.secret \/ c.text = TalkMd
  /\ c.text = MemoryMd => actor.owner

Showables(s, actor, set) == s \in Seq(ToSet(s)) /\ \A c \in ToSet(s) : Showable(c, actor, set)

LEMMA ShowablesOf ==
  ASSUME NEW n \in Nat, NEW s, s = [i \in 1 .. n |-> s[i]], NEW actor, NEW set,
         \A i \in 1 .. n : Showable(s[i], actor, set)
  PROVE  Showables(s, actor, set)
<1>1. ToSet(s) = {s[i] : i \in 1 .. n}
  BY DEF ToSet
<1>2. s \in Seq(ToSet(s))
  BY <1>1, Listed
<1> QED
  BY <1>1, <1>2 DEF Showables

LEMMA JoinedShowables ==
  ASSUME NEW a, NEW b, NEW actor, NEW set, Showables(a, actor, set), Showables(b, actor, set)
  PROVE  Showables(a \o b, actor, set)
<1> DEFINE X == ToSet(a) \cup ToSet(b)
<1>1. a \in Seq(X) /\ b \in Seq(X)
  BY SeqMonotonic DEF Showables
<1>2. ToSet(a \o b) = ToSet(a) \cup ToSet(b) /\ a \o b \in Seq(X)
  BY <1>1, ConcatIs
<1> QED
  BY <1>2 DEF Showables

LEMMA ShowablesAmong ==
  ASSUME NEW s, NEW actor, NEW set, Showables(s, actor, set), NEW t, t \in Seq(ToSet(s))
  PROVE  Showables(t, actor, set)
BY ItemOf DEF Showables

LEMMA PassesSecret ==
  ASSUME NEW c, NEW actor, NEW set, Passes(c, actor, set), c.text \in SecretTexts
  PROVE  set.secret
BY DEF Passes

(* What passes the filter of what was found or read                        *)
LEMMA AllowedShowable ==
  ASSUME NEW X, NEW s \in Seq(X), NEW actor, NEW set,
         \A i \in 1 .. Len(s) : s[i].text \in Texts /\ (s[i].text = MemoryMd => actor.owner)
  PROVE  Showables(Pick(s, {i \in DOMAIN s : Passes(s[i], actor, set)}), actor, set)
<1> DEFINE P == {i \in DOMAIN s : Passes(s[i], actor, set)}
           t == Pick(s, P)
<1>1. DOMAIN s = 1 .. Len(s)
  BY ItemOf
<1>2. P \subseteq 1 .. Len(s) /\ \A i \in P : Showable(s[i], actor, set)
  BY <1>1, PassesSecret DEF Showable
<1> HIDE DEF P
<1>3. t \in Seq(X) /\ ToSet(t) = {s[i] : i \in P \cap (1 .. Len(s))}
  BY PickFacts
<1> HIDE DEF t
<1>4. t \in Seq(ToSet(t))
  BY <1>3, ItemOf
<1>5. Showables(t, actor, set)
  BY <1>2, <1>3, <1>4 DEF Showables
<1> QED
  BY <1>5 DEF t, P

LEMMA ParsedText == ASSUME NEW x PROVE Parsed(x).text = x.text
BY DEF Parsed, Candidate

LEMMA GatheredShowable ==
  ASSUME NEW sections, Audibles(sections), NEW actor, NEW set
  PROVE  Showables(Gathered(sections, actor, set), actor, set)
<1> DEFINE files == FromFiles(actor, set)
           semantic == IF set.semantic THEN sections ELSE <<>>
           cands == [i \in 1 .. Len(semantic) |-> Parsed(semantic[i])]
           a == Pick(files, {i \in DOMAIN files : Passes(files[i], actor, set)})
           d == Pick(cands, {i \in DOMAIN cands : Passes(cands[i], actor, set)})
<1>1. Gathered(sections, actor, set) = (a \o Talks(set)) \o d
  BY DEF Gathered
<1>2. Showables(a, actor, set)
  <2> DEFINE c == Candidate("memory_md", "owner_memory", MemoryMd, TRUE, 0)
             X == {c}
  <2>1. c.text = MemoryMd
    BY DEF Candidate
  <2>2. files = IF set.memoryMd /\ actor.owner THEN <<c>> ELSE <<>>
    BY DEF FromFiles
  <2> HIDE DEF c, files
  <2>3. files \in Seq(X) /\ \A i \in 1 .. Len(files) : files[i] = c /\ actor.owner
    <3>1. CASE set.memoryMd /\ actor.owner
      BY <2>2, <3>1
    <3>2. CASE ~(set.memoryMd /\ actor.owner)
      BY <2>2, <3>2, EmptySeq
    <3> QED
      BY <3>1, <3>2
  <2>4. \A i \in 1 .. Len(files) : files[i].text \in Texts /\ (files[i].text = MemoryMd => actor.owner)
    BY <2>1, <2>3 DEF Texts
  <2> HIDE DEF X
  <2> QED
    BY <2>3, <2>4, AllowedShowable
<1>3. Showables(Talks(set), actor, set)
  <2> DEFINE c == Candidate("daily_talk", "global", TalkMd, FALSE, 0)
             s == Talks(set)
             n == IF set.talk /\ set.old THEN 1 ELSE 0
  <2>1. c.text = TalkMd
    BY DEF Candidate
  <2>2. Showable(c, actor, set)
    BY <2>1 DEF Showable, Texts, TalkMd, MemoryMd
  <2>3. s = IF set.talk /\ set.old THEN <<c>> ELSE <<>>
    BY DEF Talks
  <2> HIDE DEF c, s
  <2>4. n \in Nat /\ s = [i \in 1 .. n |-> s[i]] /\ \A i \in 1 .. n : s[i] = c
    BY <2>3
  <2> HIDE DEF n
  <2>5. Showables(s, actor, set)
    BY <2>2, <2>4, ShowablesOf
  <2> QED
    BY <2>5 DEF s
<1>4. Showables(d, actor, set)
  <2>1. Audibles(semantic)
    <3>1. Audibles(<<>>)
      BY NoneInSet, EmptySeq DEF Audibles
    <3> QED
      BY <3>1
  <2> HIDE DEF semantic
  <2>2. Len(semantic) \in Nat /\ \A i \in 1 .. Len(semantic) : Audible(semantic[i])
    BY <2>1, ItemOf, InSet DEF Audibles
  <2> DEFINE X == {Parsed(semantic[i]) : i \in 1 .. Len(semantic)}
  <2>3. cands \in Seq(X) /\ Len(cands) = Len(semantic)
    BY <2>2
  <2>4. \A i \in 1 .. Len(semantic) : cands[i].text = semantic[i].text
    BY ParsedText
  <2>5. \A i \in 1 .. Len(semantic) : semantic[i].text \in Texts /\ semantic[i].text # MemoryMd
    BY <2>2, RecallAssumption DEF Audible, Texts, MemoryMd, Failed
  <2> HIDE DEF X, cands
  <2> QED
    BY <2>3, <2>4, <2>5, AllowedShowable
<1> HIDE DEF a, d
<1>5. Showables(a \o Talks(set), actor, set)
  BY <1>2, <1>3, JoinedShowables
<1> QED
  BY <1>1, <1>4, <1>5, JoinedShowables

-----------------------------------------------------------------------------
(* The room of the block.                                                  *)

Sized(s) == s \in Seq(ToSet(s)) /\ \A c \in ToSet(s) : c.text \in Texts

LEMMA SizedAt ==
  ASSUME NEW s, Sized(s)
  PROVE  /\ Len(s) \in Nat /\ \A i \in 1 .. Len(s) : Size[s[i].text] \in Nat
         /\ \A i \in 1 .. Len(s) : s[i].text \in Texts
BY ItemOf, InSet, RecallAssumption DEF Sized

LEMMA SizedMore ==
  ASSUME NEW s, Sized(s), NEW c, c.text \in Texts
  PROVE  /\ Sized(Append(s, c)) /\ ToSet(Append(s, c)) = ToSet(s) \cup {c}
<1> DEFINE X == ToSet(s) \cup {c}
           t == Append(s, c)
<1>1. s \in Seq(X) /\ c \in X
  BY SeqMonotonic DEF Sized
<1>2. t \in Seq(X) /\ ToSet(t) = ToSet(s) \cup {c}
  BY <1>1, AppendSet, AppendProperties
<1>3. t \in Seq(ToSet(t))
  BY <1>2, ItemOf
<1>4. \A x \in ToSet(t) : x.text \in Texts
  BY <1>2 DEF Sized
<1> HIDE DEF t
<1>5. Sized(t) /\ ToSet(t) = ToSet(s) \cup {c}
  BY <1>2, <1>3, <1>4 DEF Sized
<1> QED
  BY <1>5 DEF t

SumStep(s, f, n) == IF n = 0 THEN 0 ELSE f[n - 1] + Size[s[n].text]

Sums(s, f) == f = [n \in 0 .. Len(s) |-> SumStep(s, f, n)]

LEMMA SumsExist == ASSUME NEW s, Sized(s) PROVE \E f : Sums(s, f)
<1> DEFINE b == Len(s)
           g == [p \in Nat \X (0 .. b) |-> IF p[2] = 0 THEN 0 ELSE p[1] + Size[s[p[2]].text]]
<1>1. b \in Nat /\ \A i \in 1 .. b : Size[s[i].text] \in Nat
  BY SizedAt
<1> HIDE DEF b
<1>2. g \in [Nat \X (0 .. b) -> Nat]
  BY <1>1
<1>3. \A k \in Nat, n \in 0 .. b : n # 0 => g[<<k, n>>] = k + Size[s[n].text]
  OBVIOUS
<1> HIDE DEF g
<1>4. PICK f \in [0 .. b -> Nat] : Follows(f, 0, g, b)
  BY <1>1, <1>2, Iterates
<1>5. ASSUME NEW n \in 0 .. b PROVE f[n] = SumStep(s, f, n)
  <2>1. n # 0 => f[n - 1] \in Nat
    BY <1>1
  <2> QED
    BY <1>3, <1>4, <2>1 DEF Follows, SumStep
<1>6. f = [n \in 0 .. b |-> f[n]]
  OBVIOUS
<1>7. f = [n \in 0 .. b |-> SumStep(s, f, n)]
  BY <1>5, <1>6
<1> QED
  BY <1>7 DEF Sums, b

LEMMA SumsOf ==
  ASSUME NEW s, Sized(s)
  PROVE  \E f : /\ Total(s) = f[Len(s)] /\ f[0] = 0
                /\ \A n \in 1 .. Len(s) : f[n] = f[n - 1] + Size[s[n].text]
<1> DEFINE f == CHOOSE g : Sums(s, g)
<1>1. Total(s) = f[Len(s)]
  BY DEF Total, Sums, SumStep
<1>2. Sums(s, f)
  BY SumsExist
<1>3. Len(s) \in Nat
  BY SizedAt
<1> HIDE DEF f
<1>4. \A n \in 0 .. Len(s) : f[n] = SumStep(s, f, n)
  BY <1>2 DEF Sums
<1>5. f[0] = 0 /\ \A n \in 1 .. Len(s) : f[n] = f[n - 1] + Size[s[n].text]
  BY <1>3, <1>4 DEF SumStep
<1> QED
  BY <1>1, <1>5

(* Whatever sums up the sizes one by one arrives at the total.             *)
LEMMA TotalIs ==
  ASSUME NEW s, Sized(s), NEW f, f[0] = 0,
         \A n \in 1 .. Len(s) : f[n] = f[n - 1] + Size[s[n].text]
  PROVE  Total(s) = f[Len(s)] /\ \A n \in 0 .. Len(s) : f[n] \in Nat
<1>1. PICK h : /\ Total(s) = h[Len(s)] /\ h[0] = 0
               /\ \A n \in 1 .. Len(s) : h[n] = h[n - 1] + Size[s[n].text]
  BY SumsOf
<1> DEFINE b == Len(s)
           S == {n \in Nat : h[n] = f[n] /\ f[n] \in Nat}
<1>2. b \in Nat /\ \A i \in 1 .. b : Size[s[i].text] \in Nat
  BY SizedAt
<1>3. 0 \in S
  BY <1>1
<1>4. ASSUME NEW n \in 0 .. (b - 1), n \in S PROVE n + 1 \in S
  <2>1. n + 1 \in 1 .. b /\ n + 1 - 1 = n
    BY <1>2
  <2>2. h[n + 1] = h[n] + Size[s[n + 1].text]
    BY <1>1, <2>1
  <2>3. f[n + 1] = f[n] + Size[s[n + 1].text]
    BY <2>1
  <2> QED
    BY <1>2, <1>4, <2>1, <2>2, <2>3
<1> HIDE DEF S
<1>5. 0 .. b \subseteq S
  BY <1>2, <1>3, <1>4, UpTo
<1> QED
  BY <1>1, <1>2, <1>5 DEF S

LEMMA TotalEmpty == Sized(<<>>) /\ Total(<<>>) = 0
<1> DEFINE f == [n \in 0 .. 0 |-> 0]
<1>1. Sized(<<>>) /\ Len(<<>>) = 0
  BY EmptySeq, NoneInSet DEF Sized
<1>2. f[0] = 0 /\ \A n \in 1 .. 0 : f[n] = f[n - 1] + Size[<<>>[n].text]
  OBVIOUS
<1> HIDE DEF f
<1> QED
  BY <1>1, <1>2, TotalIs

LEMMA TotalAppend ==
  ASSUME NEW s, Sized(s), NEW c, c.text \in Texts
  PROVE  /\ Total(s) \in Nat /\ Size[c.text] \in Nat
         /\ Total(Append(s, c)) = Total(s) + Size[c.text]
<1> DEFINE b == Len(s)
           t == Append(s, c)
<1>1. PICK f : /\ Total(s) = f[b] /\ f[0] = 0
               /\ \A n \in 1 .. b : f[n] = f[n - 1] + Size[s[n].text]
  BY SumsOf
<1>2. Total(s) \in Nat
  BY <1>1, TotalIs, SizedAt
<1>3. Sized(t) /\ Len(t) = b + 1 /\ t[b + 1] = c /\ \A k \in 1 .. b : t[k] = s[k]
  <2> DEFINE X == ToSet(s) \cup {c}
  <2>1. s \in Seq(X) /\ c \in X
    BY SeqMonotonic DEF Sized
  <2> HIDE DEF X
  <2>2. Len(t) = b + 1 /\ t[b + 1] = c /\ \A k \in 1 .. b : t[k] = s[k]
    BY <2>1, AppendProperties
  <2>3. Sized(t)
    BY SizedMore
  <2> QED
    BY <2>2, <2>3
<1>4. b \in Nat /\ Size[c.text] \in Nat
  BY SizedAt, RecallAssumption
<1> DEFINE v == f[b] + Size[c.text]
           h == [n \in 0 .. (b + 1) |-> IF n = b + 1 THEN v ELSE f[n]]
<1>5. h[b + 1] = v /\ \A n \in 0 .. b : h[n] = f[n]
  BY <1>4
<1> HIDE DEF h, t, b
<1>6. h[0] = 0
  BY <1>1, <1>4, <1>5
<1>7. ASSUME NEW n \in 1 .. (b + 1) PROVE h[n] = h[n - 1] + Size[t[n].text]
  <2>1. CASE n = b + 1
    <3>1. n - 1 = b /\ b \in 0 .. b
      BY <1>4, <2>1
    <3> QED
      BY <1>3, <1>5, <2>1, <3>1
  <2>2. CASE n \in 1 .. b
    <3>1. n \in 0 .. b /\ n - 1 \in 0 .. b
      BY <1>4, <2>2
    <3> QED
      BY <1>1, <1>3, <1>5, <2>2, <3>1
  <2> QED
    BY <1>4, <2>1, <2>2
<1>8. Total(t) = h[b + 1]
  BY <1>3, <1>6, <1>7, TotalIs
<1> QED
  BY <1>1, <1>2, <1>4, <1>5, <1>8 DEF t

(* A candidate is taken when there is room for it.                         *)
Kept(s, c, room) == IF Total(s) + Size[c.text] <= room THEN Append(s, c) ELSE s

LEMMA KeptFacts ==
  ASSUME NEW s, Sized(s), NEW c, c.text \in Texts, NEW room \in Nat, Total(s) <= room
  PROVE  /\ Sized(Kept(s, c, room)) /\ Total(s) \in Nat /\ Total(Kept(s, c, room)) \in Nat
         /\ ToSet(s) \subseteq ToSet(Kept(s, c, room))
         /\ ToSet(Kept(s, c, room)) \subseteq ToSet(s) \cup {c}
         /\ Total(s) <= Total(Kept(s, c, room)) /\ Total(Kept(s, c, room)) <= room
         /\ c \notin ToSet(Kept(s, c, room)) => Total(Kept(s, c, room)) + Size[c.text] > room
<1> DEFINE z == Size[c.text]
           a == Append(s, c)
           k == Kept(s, c, room)
<1>1. Total(s) \in Nat /\ z \in Nat /\ Total(a) = Total(s) + z
  BY TotalAppend
<1>2. Sized(a) /\ ToSet(a) = ToSet(s) \cup {c}
  BY SizedMore
<1>3. k = IF Total(s) + z <= room THEN a ELSE s
  BY DEF Kept
<1> HIDE DEF z, a, k
<1>4. CASE Total(s) + z <= room
  <2>1. k = a
    BY <1>3, <1>4
  <2>2. Total(s) <= Total(k) /\ Total(k) <= room /\ Total(k) \in Nat
    BY <1>1, <1>4, <2>1
  <2>3. Sized(k) /\ ToSet(k) = ToSet(s) \cup {c}
    BY <1>2, <2>1
  <2> QED
    BY <1>1, <2>2, <2>3 DEF k
<1>5. CASE ~(Total(s) + z <= room)
  <2>1. k = s
    BY <1>3, <1>5
  <2>2. Total(k) + z > room /\ Total(s) <= Total(k) /\ Total(k) <= room /\ Total(k) \in Nat
    BY <1>1, <1>5, <2>1
  <2> QED
    BY <1>1, <2>1, <2>2 DEF k, z
<1> QED
  BY <1>4, <1>5

FitStep(cands, room, f, n) ==
  IF n = 0 THEN <<>> ELSE Kept(f[n - 1], cands[n], room)

Fits(cands, room, f) == f = [n \in 0 .. Len(cands) |-> FitStep(cands, room, f, n)]

LEMMA FitsExist ==
  ASSUME NEW cands, Sized(cands), NEW room
  PROVE  \E f : Fits(cands, room, f)
<1> DEFINE b == Len(cands)
           X == ToSet(cands)
           D == Seq(X)
           K(q, n) == IF n \in 1 .. b THEN Kept(q, cands[n], room) ELSE q
           g == [p \in D \X (0 .. b) |-> K(p[1], p[2])]
<1>1. b \in Nat /\ \A i \in 1 .. b : cands[i] \in X
  BY SizedAt, InSet DEF Sized
<1>2. <<>> \in D
  BY EmptySeq
<1>3. ASSUME NEW q \in D, NEW n \in 0 .. b PROVE K(q, n) \in D
  <2>1. CASE n \in 1 .. b
    <3>1. cands[n] \in X
      BY <1>1, <2>1
    <3> DEFINE a == Append(q, cands[n])
    <3>2. a \in D
      BY <3>1, AppendProperties
    <3>3. K(q, n) = a \/ K(q, n) = q
      BY DEF Kept
    <3> HIDE DEF a, K
    <3> QED
      BY <3>2, <3>3
  <2>2. CASE n \notin 1 .. b
    BY <2>2
  <2> QED
    BY <2>1, <2>2
<1> HIDE DEF b, D
<1>4. \A q \in D, n \in 1 .. b : K(q, n) = Kept(q, cands[n], room)
  OBVIOUS
<1> HIDE DEF K
<1>5. g \in [D \X (0 .. b) -> D]
  BY <1>3
<1>6. \A q \in D, n \in 0 .. b : g[<<q, n>>] = K(q, n)
  OBVIOUS
<1> HIDE DEF g
<1>7. PICK f \in [0 .. b -> D] : Follows(f, <<>>, g, b)
  BY <1>1, <1>2, <1>5, Iterates
<1>8. ASSUME NEW n \in 0 .. b PROVE f[n] = FitStep(cands, room, f, n)
  <2>1. n # 0 => f[n - 1] \in D /\ n \in 1 .. b
    BY <1>1
  <2> QED
    BY <1>4, <1>6, <1>7, <2>1 DEF Follows, FitStep
<1>9. f = [n \in 0 .. b |-> f[n]]
  OBVIOUS
<1>10. f = [n \in 0 .. b |-> FitStep(cands, room, f, n)]
  BY <1>8, <1>9
<1> QED
  BY <1>10 DEF Fits, b

(* The block: what is taken has room, and what is not has none.            *)
Full(cands, block, room) ==
  /\ Sized(block) /\ ToSet(block) \subseteq ToSet(cands)
  /\ Total(block) <= room
  /\ \A c \in ToSet(cands) \ ToSet(block) : Total(block) + Size[c.text] > room

LEMMA FittingFull ==
  ASSUME NEW cands, Sized(cands), NEW room \in Nat
  PROVE  Full(cands, Fitting(cands, room), room)
<1> DEFINE b == Len(cands)
           f == CHOOSE g : Fits(cands, room, g)
<1>1. Fitting(cands, room) = f[b]
  BY DEF Fitting, Fits, FitStep, Kept
<1>2. Fits(cands, room, f)
  BY FitsExist
<1>3. b \in Nat /\ \A i \in 1 .. b : cands[i].text \in Texts /\ Size[cands[i].text] \in Nat
  BY SizedAt
<1> HIDE DEF f
<1>4. \A n \in 0 .. b : f[n] = FitStep(cands, room, f, n)
  BY <1>2 DEF Fits
<1> HIDE DEF b
<1> DEFINE S == {n \in Nat : /\ Sized(f[n]) /\ Total(f[n]) <= room
                             /\ ToSet(f[n]) \subseteq {cands[i] : i \in 1 .. n}
                             /\ \A i \in 1 .. n : cands[i] \notin ToSet(f[n]) =>
                                  Total(f[n]) + Size[cands[i].text] > room}
<1>5. 0 \in S
  <2>1. f[0] = <<>>
    BY <1>3, <1>4 DEF FitStep
  <2>2. Sized(f[0]) /\ Total(f[0]) <= room /\ ToSet(f[0]) = {}
    BY <2>1, TotalEmpty, NoneInSet
  <2> QED
    BY <2>2
<1>6. ASSUME NEW n \in 0 .. (b - 1), n \in S PROVE n + 1 \in S
  <2>1. n + 1 \in 0 .. b /\ n + 1 \in 1 .. b /\ n + 1 # 0 /\ n + 1 - 1 = n /\ n \in Nat /\ n + 1 \in Nat
    BY <1>3
  <2> DEFINE s == f[n]
             c == cands[n + 1]
             k == f[n + 1]
  <2>2. k = Kept(s, c, room)
    BY <1>4, <2>1 DEF FitStep
  <2>3. c.text \in Texts /\ Sized(s) /\ Total(s) <= room
    BY <1>3, <1>6, <2>1
  <2>4. /\ Sized(k) /\ Total(s) \in Nat /\ Total(k) \in Nat
        /\ ToSet(s) \subseteq ToSet(k) /\ ToSet(k) \subseteq ToSet(s) \cup {c}
        /\ Total(s) <= Total(k) /\ Total(k) <= room
        /\ c \notin ToSet(k) => Total(k) + Size[c.text] > room
    BY <2>2, <2>3, KeptFacts
  <2>5. ToSet(k) \subseteq {cands[i] : i \in 1 .. (n + 1)}
    <3>1. ToSet(s) \subseteq {cands[i] : i \in 1 .. n}
      BY <1>6
    <3>2. 1 .. n \subseteq 1 .. (n + 1) /\ n + 1 \in 1 .. (n + 1)
      BY <2>1
    <3> QED
      BY <2>4, <3>1, <3>2
  <2>6. ASSUME NEW i \in 1 .. (n + 1), cands[i] \notin ToSet(k)
        PROVE  Total(k) + Size[cands[i].text] > room
    <3>1. CASE i = n + 1
      BY <2>4, <2>6, <3>1
    <3>2. CASE i # n + 1
      <4>1. i \in 1 .. n /\ i \in 1 .. b
        BY <1>3, <2>1, <3>2
      <4>2. Total(s) + Size[cands[i].text] > room
        BY <1>6, <2>4, <2>6, <4>1
      <4>3. Size[cands[i].text] \in Nat
        BY <1>3, <4>1
      <4> HIDE DEF s, k
      <4> QED
        BY <2>4, <4>2, <4>3
    <3> QED
      BY <3>1, <3>2
  <2> QED
    BY <2>1, <2>4, <2>5, <2>6
<1> HIDE DEF S
<1>7. 0 .. b \subseteq S
  BY <1>3, <1>5, <1>6, UpTo
<1>8. b \in S
  BY <1>3, <1>7
<1>9. ToSet(cands) = {cands[i] : i \in 1 .. b}
  <2>1. DOMAIN cands = 1 .. b
    BY ItemOf DEF Sized, b
  <2> QED
    BY <2>1 DEF ToSet
<1> DEFINE k == f[b]
<1>10. /\ Sized(k) /\ Total(k) <= room /\ ToSet(k) \subseteq {cands[i] : i \in 1 .. b}
       /\ \A i \in 1 .. b : cands[i] \notin ToSet(k) => Total(k) + Size[cands[i].text] > room
  BY <1>8 DEF S
<1> HIDE DEF k
<1>11. Full(cands, k, room)
  BY <1>9, <1>10 DEF Full
<1> QED
  BY <1>1, <1>11 DEF k

(* What a turn is reminded of, of what it heard                            *)
LEMMA RemindersRight ==
  ASSUME NEW heard, Audibles(heard), NEW actor, NEW set, set.room \in Nat
  PROVE  LET cands == Gathered(heard, actor, set)
             block == Reminders(heard, actor, set)
         IN  /\ \A c \in ToSet(block) : Showable(c, actor, set)
             /\ Total(block) <= set.room
             /\ \A c \in ToSet(Distinct(cands)) \ ToSet(block) :
                  Total(block) + Size[c.text] > set.room
<1> DEFINE cands == Gathered(heard, actor, set)
           few == Distinct(cands)
           block == Reminders(heard, actor, set)
           places == {i \in DOMAIN cands :
                        \A j \in 1 .. i - 1 : Start[cands[j].text] # Start[cands[i].text]}
<1>1. Showables(cands, actor, set)
  BY GatheredShowable
<1>2. few \in Seq(ToSet(cands))
  <2>1. few = Pick(cands, places)
    BY DEF Distinct
  <2> HIDE DEF places, cands
  <2> QED
    BY <1>1, <2>1, PickFacts DEF Showables
<1>3. Ranked(cands) \in Seq(ToSet(cands)) /\ ToSet(Ranked(cands)) = ToSet(few)
  BY <1>2, ByScoreFacts DEF Ranked
<1>4. block = Fitting(Ranked(cands), set.room)
  BY DEF Reminders
<1> HIDE DEF cands, few, block
<1>5. Showables(Ranked(cands), actor, set)
  BY <1>1, <1>3, ShowablesAmong
<1>6. Sized(Ranked(cands))
  BY <1>5 DEF Showables, Showable, Sized
<1>7. Full(Ranked(cands), block, set.room)
  BY <1>4, <1>6, FittingFull
<1>8. \A c \in ToSet(block) : Showable(c, actor, set)
  BY <1>5, <1>7 DEF Full, Showables
<1>9. /\ Total(block) <= set.room
      /\ \A c \in ToSet(few) \ ToSet(block) : Total(block) + Size[c.text] > set.room
  BY <1>3, <1>7 DEF Full
<1> QED
  BY <1>8, <1>9 DEF cands, few, block

-----------------------------------------------------------------------------
(* The recall of a turn.                                                   *)

LEMMA NothingHeard == Audibles(<<>>) /\ Hits(<<>>)
BY NoneInSet, EmptySeq DEF Audibles, Hits

(* What a turn has heard, and the block it got for it                      *)
Reminded(t, set, u) ==
  /\ u.call \in Nat /\ Audibles(u.heard)
  /\ u.block = IF u.call = 0 \/ t \in Slim THEN <<>>
               ELSE Reminders(u.heard, ActorOf(Asker[t]), set)

Recalls(u) == <<u.call, u.heard, u.block>>

RecallStep(t, u, v) ==
  \/ Recalls(v) = Recalls(u)
  \/ Recalls(v) = <<0, <<>>, <<>>>>
  \/ \E answer \in Answers : Recalls(v) = <<u.call + 1, Heard(answer), Block(t, answer)>>

LEMMA AnswersHeard ==
  ASSUME scene \in Openings, NEW answer \in Answers
  PROVE  Audibles(Heard(answer))
<1>1. PICK q \in scene.queries :
        answer = [mode |-> q.mode, sessions |-> q.sessions,
                  results |-> IF q.mode \in {"failed", "late"} THEN <<>>
                              ELSE SearchResults(q.mode, q.range, count)]
  BY DEF Answers
<1>2. answer.sessions \in Seq(Snippets)
  <2>1. q.sessions \in Seq(Snippets)
    BY TurnsAssumption
  <2> QED
    BY <1>1, <2>1
<1>3. answer.results = <<>> \/ answer.results = SearchResults(q.mode, q.range, count)
  BY <1>1
<1>4. Hits(answer.results)
  BY <1>3, SearchHits, NothingHeard
<1> DEFINE failed == answer.mode = "failed"
<1>5. failed \in BOOLEAN
  OBVIOUS
<1>6. Heard(answer) = Sections(failed, answer.results, answer.sessions)
  BY DEF Heard
<1> HIDE DEF failed
<1> QED
  BY <1>2, <1>4, <1>5, <1>6, SectionsAudible

LEMMA CallModelRecalls ==
  ASSUME ApartInv, NEW t \in Turns, CallModel(t)
  PROVE  /\ RecallStep(t, turn[t], turn'[t])
         /\ \A r \in Turns \ {t} : turn'[r] = turn[r]
<1>1. DOMAIN turn[t] = Fields /\ DOMAIN turn = Turns
  BY DEF ApartInv, Sound
<1>2. CASE IsCancelled(t)
  <2>1. turn' = [turn EXCEPT ![t].at = "stopped"]
    BY <1>2 DEF CallModel, Goes
  <2> QED
    BY <1>1, <2>1 DEF RecallStep, Recalls, Fields
<1>3. CASE ~IsCancelled(t)
  <2>1. PICK answer \in Answers, stream \in Streams(turn[t].call + 1) :
          LET u == Called(t, answer, stream) IN
          \/ turn' = [turn EXCEPT ![t] = Completed(u, t, "ai")]
          \/ turn' = [turn EXCEPT ![t] = Completed(u, t, "skip")]
          \/ turn' = [turn EXCEPT ![t] =
                        IF u.call = Calls[t]
                          THEN [u EXCEPT !.at = "limited", !.shown = Append(@, Notice)]
                          ELSE [u EXCEPT !.at = "tool",
                                         !.msgs = Append(@, <<t, "call", u.call>>)]]
    BY <1>3 DEF CallModel
  <2> DEFINE u == Called(t, answer, stream)
             n == turn[t].call + 1
             w == IF u.call = Calls[t]
                    THEN [u EXCEPT !.at = "limited", !.shown = Append(@, Notice)]
                    ELSE [u EXCEPT !.at = "tool",
                                   !.msgs = Append(@, <<t, "call", u.call>>)]
  <2>2. DOMAIN u = Fields /\ Recalls(u) = <<n, Heard(answer), Block(t, answer)>>
    BY <1>1 DEF Called, Streamed, Fields, Recalls
  <2>3. turn' \in {[turn EXCEPT ![t] = Completed(u, t, "ai")],
                   [turn EXCEPT ![t] = Completed(u, t, "skip")], [turn EXCEPT ![t] = w]}
    BY <2>1
  <2> HIDE DEF u
  <2>4. Recalls(Completed(u, t, "ai")) = Recalls(u) /\ Recalls(Completed(u, t, "skip")) = Recalls(u)
    BY <2>2 DEF Completed, Recalls, Fields
  <2>5. Recalls(w) = Recalls(u)
    BY <2>2 DEF Recalls, Fields
  <2> HIDE DEF w
  <2>6. /\ turn'[t] \in {Completed(u, t, "ai"), Completed(u, t, "skip"), w}
        /\ \A r \in Turns \ {t} : turn'[r] = turn[r]
    BY <1>1, <2>3
  <2>7. Recalls(turn'[t]) = <<n, Heard(answer), Block(t, answer)>>
    BY <2>2, <2>4, <2>5, <2>6
  <2> QED
    BY <2>6, <2>7 DEF RecallStep
<1> QED
  BY <1>2, <1>3

LEMMA OwnRecalls ==
  ASSUME ApartInv, NEW t \in Turns,
         LoadHistory(t) \/ CallModel(t) \/ Step(t) \/ Approve(t) \/ Cancel(t) \/ Fail(t)
  PROVE  /\ RecallStep(t, turn[t], turn'[t])
         /\ \A r \in Turns \ {t} : turn'[r] = turn[r]
<1> DEFINE u == turn[t]
           v == turn'[t]
           Same == Recalls(v) = Recalls(u) /\ \A r \in Turns \ {t} : turn'[r] = turn[r]
<1>1. DOMAIN u = Fields /\ DOMAIN turn = Turns
  BY DEF ApartInv, Sound
<1>2. ASSUME NEW step, Goes(t, step) PROVE Same
  BY <1>1, <1>2 DEF Goes, Recalls, Fields
<1>3. CASE LoadHistory(t)
  <2>1. /\ v = [Idle EXCEPT !.at = "chat", !.read = file[Session(t)],
                            !.summary = file[Session(t)].summary]
        /\ \A r \in Turns \ {t} : turn'[r] = turn[r]
    BY <1>1, <1>3 DEF LoadHistory
  <2>2. Recalls(v) = <<0, <<>>, <<>>>>
    BY <2>1 DEF Idle, Recalls
  <2> QED
    BY <2>1, <2>2 DEF RecallStep
<1>4. CASE CallModel(t)
  BY <1>4, CallModelRecalls
<1>5. CASE TakeChat(t)
  <2>1. PICK own : turn' = [turn EXCEPT ![t].at = "model", ![t].chat = own,
                              ![t].msgs = Append(turn[t].read.msgs, <<t, "user", 0>>)]
    BY <1>5 DEF TakeChat
  <2>2. Same
    BY <1>1, <2>1 DEF Recalls, Fields
  <2> QED
    BY <2>2 DEF RecallStep
<1>6. CASE UseTool(t) \/ Approve(t) \/ EndStream(t)
  <2>1. CASE turn' = [turn EXCEPT ![t].at = "model",
                                  ![t].msgs = Append(@, <<t, "tool", turn[t].call>>)]
    BY <1>1, <2>1 DEF RecallStep, Recalls, Fields
  <2>2. CASE \E step : Goes(t, step)
    BY <1>2, <2>2 DEF RecallStep
  <2> QED
    BY <1>6, <2>1, <2>2 DEF UseTool, Approve, EndStream
<1>7. CASE Finish(t)
  BY <1>1, <1>7 DEF Finish, RecallStep, Recalls, Fields
<1>8. CASE CheckChat(t) \/ Fail(t) \/ WriteFile(t)
  <2>1. \E step : Goes(t, step)
    BY <1>8 DEF CheckChat, Fail, WriteFile
  <2> QED
    BY <1>2, <2>1 DEF RecallStep
<1>9. CASE Compact(t)
  <2> DEFINE w == [turn[t] EXCEPT !.due = FALSE]
  <2>1. DOMAIN w = Fields /\ Recalls(w) = Recalls(u)
    BY <1>1 DEF Fields, Recalls
  <2>2. \/ turn' = [turn EXCEPT ![t] = [w EXCEPT !.at = "done"]]
        \/ turn' = [turn EXCEPT ![t] = [w EXCEPT !.at = "check", !.msgs = Recent(w.msgs),
                                                 !.summary = @ \o Older(w.msgs)]]
    BY <1>9 DEF Compact
  <2> HIDE DEF w
  <2>3. Recalls(v) = Recalls(w) /\ \A r \in Turns \ {t} : turn'[r] = turn[r]
    BY <1>1, <2>1, <2>2 DEF Recalls, Fields
  <2> QED
    BY <2>1, <2>3 DEF RecallStep
<1>10. CASE Cancel(t)
  <2>1. turn' = [turn EXCEPT ![t].cancelled = TRUE]
    BY <1>10 DEF Cancel, Flag
  <2> QED
    BY <1>1, <2>1 DEF RecallStep, Recalls, Fields
<1> QED
  BY <1>3, <1>4, <1>5, <1>6, <1>7, <1>8, <1>9, <1>10 DEF Step

LEMMA RecallSteps ==
  ASSUME ApartInv, [Next]_vars, NEW t \in Turns
  PROVE  RecallStep(t, turn[t], turn'[t])
<1>1. CASE turn'[t] = turn[t]
  BY <1>1 DEF RecallStep
<1>2. ASSUME NEW r \in Turns, LoadHistory(r) \/ CallModel(r) \/ Step(r) \/ Approve(r)
                               \/ Cancel(r) \/ Fail(r)
      PROVE  RecallStep(t, turn[t], turn'[t])
  BY <1>1, <1>2, OwnRecalls
<1>3. CASE Kill
  <2>1. turn'[t] = turn[t] \/ turn'[t] = [turn[t] EXCEPT !.at = "failed"]
    BY <1>3 DEF Kill
  <2>2. DOMAIN turn[t] = Fields
    BY DEF ApartInv, Sound
  <2> QED
    BY <2>1, <2>2 DEF RecallStep, Recalls, Fields
<1>4. CASE (\E s \in Sessions : DeleteChat(s)) \/ Reinforce \/ UNCHANGED vars
  BY <1>1, <1>4 DEF DeleteChat, Reinforce, vars
<1> QED
  BY <1>2, <1>3, <1>4 DEF Next

LEMMA RemindedStep ==
  ASSUME scene \in Openings, NEW t \in Turns, NEW u, NEW v,
         Reminded(t, scene.settings, u), RecallStep(t, u, v)
  PROVE  Reminded(t, scene.settings, v)
<1>1. u.call \in Nat /\ Reminded(t, scene.settings, u)
  BY DEF Reminded
<1>2. CASE Recalls(v) = Recalls(u)
  <2>1. v.call = u.call /\ v.heard = u.heard /\ v.block = u.block
    BY <1>2 DEF Recalls
  <2> QED
    BY <1>1, <2>1 DEF Reminded
<1>3. CASE Recalls(v) = <<0, <<>>, <<>>>>
  <2>1. v.call = 0 /\ v.heard = <<>> /\ v.block = <<>>
    BY <1>3 DEF Recalls
  <2> QED
    BY <2>1, NothingHeard DEF Reminded
<1>4. ASSUME NEW answer \in Answers, Recalls(v) = <<u.call + 1, Heard(answer), Block(t, answer)>>
      PROVE  Reminded(t, scene.settings, v)
  <2>1. v.call = u.call + 1 /\ v.heard = Heard(answer) /\ v.block = Block(t, answer)
    BY <1>4 DEF Recalls
  <2>2. v.call \in Nat /\ v.call # 0
    BY <1>1, <2>1
  <2>3. v.block = IF t \in Slim THEN <<>> ELSE Reminders(v.heard, ActorOf(Asker[t]), scene.settings)
    BY <2>1 DEF Block
  <2>4. Audibles(v.heard)
    BY <2>1, AnswersHeard
  <2> QED
    BY <2>2, <2>3, <2>4 DEF Reminded
<1> QED
  BY <1>2, <1>3, <1>4 DEF RecallStep

RecallInv == scene \in Openings /\ \A t \in Turns : Reminded(t, scene.settings, turn[t])

LEMMA RecallInit == InitTurns => RecallInv
<1> SUFFICES ASSUME InitTurns, NEW t \in Turns PROVE Reminded(t, scene.settings, turn[t])
  BY DEF RecallInv, InitTurns
<1>1. turn[t].call = 0 /\ turn[t].heard = <<>> /\ turn[t].block = <<>>
  BY DEF InitTurns, Idle
<1> QED
  BY <1>1, NothingHeard DEF Reminded

LEMMA SceneStays == [Next]_vars => scene' = scene
BY DEF Next, vars, LoadHistory, CallModel, Step, TakeChat, UseTool, EndStream, Finish, CheckChat,
       WriteFile, Compact, Approve, Cancel, Fail, Kill, DeleteChat, Reinforce

LEMMA RecallAlways == Spec => []RecallInv
<1>1. ApartInv /\ RecallInv /\ [Next]_vars => RecallInv'
  <2> SUFFICES ASSUME ApartInv, RecallInv, [Next]_vars PROVE RecallInv'
    OBVIOUS
  <2>1. scene' = scene /\ scene \in Openings
    BY SceneStays DEF RecallInv
  <2>2. ASSUME NEW t \in Turns PROVE Reminded(t, scene.settings, turn'[t])
    <3>1. Reminded(t, scene.settings, turn[t]) /\ RecallStep(t, turn[t], turn'[t])
      BY RecallSteps DEF RecallInv
    <3> QED
      BY <2>1, <3>1, RemindedStep
  <2> QED
    BY <2>1, <2>2 DEF RecallInv, Reminded
<1> QED
  BY <1>1, RecallInit, ApartAlways, PTL DEF Spec

(* Whatever the search of the memory finds, and with every setting, a turn *)
(* is reminded of no secret that is not to be recalled, but for those of   *)
(* the talk, of MEMORY.md for its owner only, and of everything else its   *)
(* actor may see that has room, each once (recall.py, get_block).          *)
THEOREM RemindersSuitTheActor == Spec => []RecallIsRight
<1>1. ASSUME RecallInv PROVE RecallIsRight
  <2> SUFFICES ASSUME NEW t \in Turns
               PROVE  LET block == turn[t].block
                          actor == ActorOf(Asker[t])
                          may   == ToSet(Distinct(Gathered(turn[t].heard, actor, scene.settings)))
                      IN  /\ \A c \in ToSet(block) :
                               /\ c.text \in SecretTexts => scene.settings.secret \/ c.text = TalkMd
                               /\ c.text = MemoryMd => actor.owner
                          /\ Total(block) <= scene.settings.room
                          /\ (turn[t].call > 0 /\ t \notin Slim) =>
                               \A c \in may \ ToSet(block) :
                                 Total(block) + Size[c.text] > scene.settings.room
    BY DEF RecallIsRight
  <2> DEFINE block == turn[t].block
             actor == ActorOf(Asker[t])
             set   == scene.settings
             may   == ToSet(Distinct(Gathered(turn[t].heard, actor, set)))
  <2>1. set.room \in Nat
    BY <1>1, TurnsAssumption DEF RecallInv, Settings
  <2>2. Reminded(t, set, turn[t])
    BY <1>1 DEF RecallInv
  <2>3. CASE turn[t].call = 0 \/ t \in Slim
    <3>1. block = <<>>
      BY <2>2, <2>3 DEF Reminded
    <3>2. ToSet(block) = {} /\ Total(block) = 0
      BY <3>1, NoneInSet, TotalEmpty
    <3>3. ~(turn[t].call > 0 /\ t \notin Slim)
      BY <2>2, <2>3 DEF Reminded
    <3>4. Total(block) <= set.room /\ \A c \in ToSet(block) : FALSE
      BY <2>1, <3>2
    <3> QED
      BY <3>3, <3>4
  <2>4. CASE ~(turn[t].call = 0 \/ t \in Slim)
    <3>1. Audibles(turn[t].heard) /\ block = Reminders(turn[t].heard, actor, set)
      BY <2>2, <2>4 DEF Reminded
    <3>2. /\ \A c \in ToSet(block) : Showable(c, actor, set)
          /\ Total(block) <= set.room
          /\ \A c \in may \ ToSet(block) : Total(block) + Size[c.text] > set.room
      BY <2>1, <3>1, RemindersRight
    <3>3. \A c \in ToSet(block) : /\ c.text \in SecretTexts => set.secret \/ c.text = TalkMd
                                  /\ c.text = MemoryMd => actor.owner
      BY <3>2 DEF Showable
    <3> QED
      BY <3>2, <3>3
  <2> QED
    BY <2>3, <2>4
<1> QED
  BY <1>1, RecallAlways, PTL
=============================================================================
