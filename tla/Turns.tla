------------------------------- MODULE Turns -------------------------------
(***************************************************************************)
(* A turn, from the request to the session file: _run_langgraph of         *)
(* src/lightclaw/app/runner/core/run_controller.py, with SessionFactory,   *)
(* the engine session and its event bridge, the compactor and the recall.  *)
(*                                                                         *)
(* A turn loads the history, takes a chat entry, runs the model and its    *)
(* tools, and saves the history with what it added; a history that has     *)
(* become long is condensed and saved again, in the background.  Nothing   *)
(* in the repository keeps turns of a session apart.  The graph, the       *)
(* engine session and the middleware are shared by all turns.  An action   *)
(* is what happens between two awaits.                                     *)
(*                                                                         *)
(* A message is the turn it belongs to, its kind, and the number of the    *)
(* model call it comes from.  The messages of a session before the first   *)
(* turn belong to Before.                                                  *)
(***************************************************************************)
EXTENDS Recall

CONSTANTS
  Turns,       \* turns
  Sessions,    \* sessions
  SessionOf,   \* [Turns -> Sessions]
  Ephemeral,   \* turns of proactivity and of cron
  Hidden,      \* sessions of the proactive prefix: they have no chat
  Slim,        \* turns of the heartbeat profile and of read-only workers
  Asker,       \* [Turns -> the actor their request names, or NoActor]
  Calls,       \* [Turns -> the model calls their recursion limit allows]
  KeepRecent,  \* messages a compaction keeps
  Threshold,   \* messages beyond those from which on it is due
  SummaryRoom, \* messages a summary has room for
  MaxHistory,  \* messages an ephemeral turn keeps: 50 in the program
  Nobody,      \* no turn
  Openings     \* where a behaviour may start: see InitTurns

Before == "before"

Message == (Turns \cup {Before}) \X {"user", "call", "tool", "ai", "skip", "cut", "limit"} \X Nat

ASSUME TurnsAssumption ==
  /\ SessionOf \in [Turns -> Sessions]
  /\ Ephemeral \cup Slim \subseteq Turns /\ Hidden \subseteq Sessions
  /\ Calls \in [Turns -> Nat \ {0}]
  /\ {KeepRecent, Threshold, SummaryRoom, MaxHistory} \subseteq Nat
  /\ Nobody \notin Turns /\ Before \notin Turns
  /\ \A o \in Openings :
       /\ o.live \subseteq Turns /\ o.settings \in Settings
       /\ \A q \in o.queries : q.sessions \in Seq(Snippets)
       /\ \A s \in Sessions : /\ o.file[s] \in Seq({m \in Message : m[1] = Before})
                             /\ \A i, j \in 1 .. Len(o.file[s]) : o.file[s][i] = o.file[s][j] => i = j

VARIABLES
  scene,   \* the opening of the behaviour
  file,    \* [Sessions -> the session file: messages and their summary]
  chat,    \* [Sessions -> the chat entry: the turn that made it, or Nobody]
  turn,    \* [Turns -> a turn: its step and what it holds]
  held,    \* the turn whose bridge the shared engine session holds
  stopped, \* _cancelled of the shared middleware
  asked,   \* history: turns somebody has asked to stop
  count,   \* [Chunks -> access_count in the payload]
  bumps,   \* counts the searches have still to write, in the background
  left     \* what may still happen: kills and deletions of a chat

vars == <<scene, file, chat, turn, held, stopped, asked, count, bumps, left>>

Empty == [msgs |-> <<>>, summary |-> <<>>]

Idle == [at |-> "idle", read |-> Empty, chat |-> Nobody, msgs |-> <<>>, summary |-> <<>>,
         out |-> <<>>, due |-> FALSE, cancelled |-> FALSE, call |-> 0, buffer |-> <<>>,
         shown |-> <<>>, heard |-> <<>>, block |-> <<>>]

(* Openings: the turns that take place, the files, the settings and the
   answers of the memory search, whether a stream may differ from the answer,
   and how much may be killed and deleted *)
InitTurns ==
  /\ scene \in Openings
  /\ file = [s \in Sessions |-> [Empty EXCEPT !.msgs = scene.file[s]]]
  /\ chat = [s \in Sessions |-> Nobody]
  /\ turn = [t \in Turns |-> IF t \in scene.live THEN Idle ELSE [Idle EXCEPT !.at = "done"]]
  /\ held = Nobody /\ stopped = FALSE /\ asked = {}
  /\ count = [c \in Chunks |-> 0] /\ bumps = {}
  /\ left = [kills |-> scene.kills, deletes |-> scene.deletes]

Session(t) == SessionOf[t]
Goes(t, step) == turn' = [turn EXCEPT ![t].at = step]
Store == <<file, chat, left>>
Engine == <<held, stopped, asked>>
Search == <<count, bumps>>

-----------------------------------------------------------------------------
(* The context of the turn.                                                *)

(* create_langgraph_context, step 1; step 2 keeps nothing of another turn. *)
LoadHistory(t) ==
  /\ turn[t].at = "idle"
  /\ turn' = [turn EXCEPT ![t] = [Idle EXCEPT !.at = "chat", !.read = file[Session(t)],
                                              !.summary = file[Session(t)].summary]]
  /\ UNCHANGED <<scene, Store, Engine, Search>>

(* Step 3, and what follows it up to the stream: the entry of the session,
   a new one if there is none, and the history with the words of the user. *)
TakeChat(t) ==
  /\ turn[t].at = "chat"
  /\ LET s   == Session(t)
         own == IF s \in Hidden THEN Nobody ELSE IF chat[s] = Nobody THEN t ELSE chat[s] IN
     /\ chat' = IF s \in Hidden THEN chat ELSE [chat EXCEPT ![s] = own]
     /\ turn' = [turn EXCEPT ![t].at = "model", ![t].chat = own,
                             ![t].msgs = Append(turn[t].read.msgs, <<t, "user", 0>>)]
  /\ UNCHANGED <<scene, file, left, Engine, Search>>

-----------------------------------------------------------------------------
(* The model.                                                              *)

(* _is_cancelled *)
IsCancelled(t) == turn[t].cancelled \/ stopped

(* One message less is kept. *)
FaultyRecent(msgs) ==
  SubSeq(msgs, (IF Len(msgs) > KeepRecent THEN Len(msgs) - KeepRecent ELSE 0) + 2, Len(msgs))

(* The last KeepRecent messages, and those before *)
Recent(msgs) ==
  SubSeq(msgs, (IF Len(msgs) > KeepRecent THEN Len(msgs) - KeepRecent ELSE 0) + 1, Len(msgs))
Older(msgs) == SubSeq(msgs, 1, Len(msgs) - KeepRecent)

(* maybe_compact: every message counts as one token. *)
Exceeds(msgs) == Len(msgs) > KeepRecent /\ Len(Older(msgs)) > Threshold

(* get_summary_block: what does not fit is cut off, and stays cut off. *)
Trimmed(summary) == FirstOf(summary, SummaryRoom)

(* What the recall gets to hear *)
Heard(answer) == Sections(answer.mode = "failed", answer.results, answer.sessions)

(* The block of the recall: nothing for the slim profiles. *)
Block(t, answer) ==
  IF t \in Slim THEN <<>> ELSE Reminders(Heard(answer), ActorOf(Asker[t]), scene.settings)

(* memory_search as the recall calls it: it may find nothing in time. *)
Answers ==
  {[mode |-> q.mode, sessions |-> q.sessions,
    results |-> IF q.mode \in {"failed", "late"} THEN <<>>
                ELSE SearchResults(q.mode, q.range, count)] : q \in scene.queries}

(* _reinforce_results *)
Bumps(results) == {<<r.chunk, r.count + 1>> : r \in ToSet(results)}

(* Texts are numbered: the answer of the n-th call, a streamed text of that
   call that differs from it, and Notice, that of the limit.  The stream of a
   call shows one of the two or nothing. *)
Text(n)  == 2 * n
Other(n) == 2 * n - 1
Notice   == 0
Streams(n) == {<<>>, <<Text(n)>>} \cup (IF scene.differs THEN {<<Other(n)>>} ELSE {})

(* The buffer keeps the text of the calls before. *)
FaultyStreamed(t, n, stream) ==
  [turn[t] EXCEPT !.call = n, !.buffer = @ \o stream, !.shown = @ \o stream]

(* on_chat_model_start empties the buffer, on_chat_model_stream fills it. *)
Streamed(t, n, stream) ==
  [turn[t] EXCEPT !.call = n, !.buffer = stream, !.shown = @ \o stream]

(* abefore_model and awrap_model_call, with what they leave in the turn *)
Called(t, answer, stream) ==
  [Streamed(t, turn[t].call + 1, stream) EXCEPT
     !.due = @ \/ Exceeds(turn[t].msgs),
     !.summary = Trimmed(@),
     !.heard = Heard(answer), !.block = Block(t, answer)]

(* The final event, after the graph is done: its text, unless the stream
   has shown the same; one that differs from it the client gets, too.  The
   messages of the graph are the output. *)
Completed(u, t, kind) ==
  [u EXCEPT !.at = "answered",
            !.msgs = Append(u.msgs, <<t, kind, u.call>>),
            !.out = Append(u.msgs, <<t, kind, u.call>>),
            !.shown = IF u.buffer = <<Text(u.call)>> THEN u.shown
                      ELSE Append(u.shown, Text(u.call))]

(* A turn that was cancelled stops here.  Otherwise the model answers or
   asks for a tool, if the recursion limit leaves room for it. *)
CallModel(t) ==
  /\ turn[t].at = "model"
  /\ IF IsCancelled(t) THEN Goes(t, "stopped") /\ UNCHANGED bumps
     ELSE \E answer \in Answers, stream \in Streams(turn[t].call + 1) :
            LET u == Called(t, answer, stream) IN
            /\ bumps' = bumps \cup Bumps(answer.results)
            /\ \/ turn' = [turn EXCEPT ![t] = Completed(u, t, "ai")]
               \/ turn' = [turn EXCEPT ![t] = Completed(u, t, "skip")]
               \/ turn' = [turn EXCEPT ![t] =
                             IF u.call = Calls[t]
                               THEN [u EXCEPT !.at = "limited", !.shown = Append(@, Notice)]
                               ELSE [u EXCEPT !.at = "tool",
                                              !.msgs = Append(@, <<t, "call", u.call>>)]]
  /\ UNCHANGED <<scene, Store, Engine, count>>

(* on_tool_start: the tool runs, or its use needs an approval. *)
UseTool(t) ==
  /\ turn[t].at = "tool"
  /\ \/ turn' = [turn EXCEPT ![t].at = "model",
                             ![t].msgs = Append(@, <<t, "tool", turn[t].call>>)]
     \/ Goes(t, "approval")
  /\ UNCHANGED <<scene, Store, Engine, Search>>

Approve(t) ==
  /\ turn[t].at = "approval"
  /\ turn' = [turn EXCEPT ![t].at = "model",
                          ![t].msgs = Append(@, <<t, "tool", turn[t].call>>)]
  /\ UNCHANGED <<scene, Store, Engine, Search>>

(* The answer was no. *)
FaultyRefused(t) == FALSE

(* The answer was no, or there was none in time. *)
Refused(t) == turn[t].at = "approval"

EndStream(t) ==
  /\ Refused(t)
  /\ Goes(t, "denied")
  /\ UNCHANGED <<scene, Store, Engine, Search>>

-----------------------------------------------------------------------------
(* The end of the turn.                                                    *)

(* The first bridge is kept. *)
FaultyBridgeOf(t) == IF held = Nobody THEN t ELSE held

(* LangGraphEngineSession.stream makes a bridge for each run, and holds it
   from the end of the run on. *)
BridgeOf(t) == t

(* What the model says while it calls a tool counts, too. *)
FaultyClean(m) == m[2] \in {"ai", "call", "cut", "limit"}

(* Answers of the model that are neither tool calls nor markers *)
Clean(m) == m[2] \in {"ai", "cut", "limit"}

LastOf(s, n) == SubSeq(s, (IF Len(s) > n THEN Len(s) - n ELSE 0) + 1, Len(s))

(* An ephemeral turn adds the last clean answer of the conversation, which
   has the history in it. *)
Quiet(t, out) ==
  LET read == turn[t].read.msgs
      last == {i \in DOMAIN out : /\ Clean(out[i])
                                  /\ \A j \in DOMAIN out : j > i => ~Clean(out[j])}
  IN  IF out = <<>> THEN read
      ELSE LastOf(IF last = {} THEN read ELSE Append(read, out[CHOOSE i \in last : TRUE]),
                  MaxHistory)

(* Without an output, the words of the user are kept with what was shown. *)
Fallback(t) ==
  LET asking == Append(turn[t].read.msgs, <<t, "user", 0>>)
  IN  IF turn[t].at = "limited" THEN Append(asking, <<t, "limit", 0>>)
      ELSE IF turn[t].shown # <<>> THEN Append(asking, <<t, "cut", 0>>)
      ELSE asking

History(t) ==
  LET out == turn[BridgeOf(t)].out
  IN  IF t \in Ephemeral THEN Quiet(t, out)
      ELSE IF out # <<>> THEN out
      ELSE Fallback(t)

(* The stream is exhausted, and without an await the history to persist is
   taken from the bridge the session holds. *)
Finish(t) ==
  /\ turn[t].at \in {"answered", "denied", "limited"}
  /\ held' = BridgeOf(t)
  /\ turn' = [turn EXCEPT ![t].at = "check", ![t].msgs = History(t)]
  /\ UNCHANGED <<scene, Store, stopped, asked, Search>>

(* save_langgraph_session_state: nothing is saved for a chat that is gone. *)
CheckChat(t) ==
  /\ turn[t].at = "check"
  /\ Goes(t, IF turn[t].chat \in {Nobody, chat[Session(t)]} THEN "write" ELSE "done")
  /\ UNCHANGED <<scene, Store, Engine, Search>>

(* asave: the file is replaced; it is left alone for want of anything. *)
WriteFile(t) ==
  /\ turn[t].at = "write"
  /\ file' = IF turn[t].msgs = <<>> /\ turn[t].summary = <<>> THEN file
             ELSE [file EXCEPT ![Session(t)] =
                     [msgs |-> turn[t].msgs, summary |-> turn[t].summary]]
  /\ Goes(t, IF turn[t].due THEN "compact" ELSE "done")
  /\ UNCHANGED <<scene, chat, left, Engine, Search>>

(* do_deferred_compact: the request for it is gone whatever becomes of it;
   there is too little, the model fails, or the older messages become part
   of the summary and the session is saved again. *)
Compact(t) ==
  /\ turn[t].at = "compact"
  /\ LET u == [turn[t] EXCEPT !.due = FALSE] IN
     \/ turn' = [turn EXCEPT ![t] = [u EXCEPT !.at = "done"]]
     \/ /\ Len(u.msgs) > KeepRecent
        /\ turn' = [turn EXCEPT ![t] =
                      [u EXCEPT !.at = "check", !.msgs = Recent(u.msgs),
                                !.summary = @ \o Older(u.msgs)]]
  /\ UNCHANGED <<scene, Store, Engine, Search>>

-----------------------------------------------------------------------------
(* What happens to a turn.                                                 *)

Running == {t \in Turns : turn[t].at \notin {"idle", "done", "stopped", "failed"}}
Early   == {"chat", "model", "tool", "approval"}

(* The flag is that of the middleware all turns share. *)
FaultyFlag(t) == stopped' = TRUE /\ UNCHANGED turn

(* cancel: the flag is that of the turn. *)
Flag(t) == turn' = [turn EXCEPT ![t].cancelled = TRUE] /\ UNCHANGED stopped

(* Somebody asks a turn to stop. *)
Cancel(t) ==
  /\ t \in scene.cancels \ asked /\ turn[t].at \in Early
  /\ asked' = asked \cup {t}
  /\ Flag(t)
  /\ UNCHANGED <<scene, Store, held, Search>>

(* An exception, or the cancellation of the task, before the stream ends:
   the turn is not marked as succeeded, and its history is not updated. *)
Fail(t) ==
  /\ turn[t].at \in Early
  /\ Goes(t, "failed")
  /\ UNCHANGED <<scene, Store, Engine, Search>>

(* The process is killed: what it holds in memory is gone. *)
Kill ==
  /\ left.kills > 0 /\ Running # {}
  /\ left' = [left EXCEPT !.kills = @ - 1]
  /\ turn' = [t \in Turns |-> IF t \in Running THEN [turn[t] EXCEPT !.at = "failed"] ELSE turn[t]]
  /\ held' = Nobody /\ stopped' = FALSE /\ bumps' = {}
  /\ UNCHANGED <<scene, file, chat, asked, count>>

(* The user deletes a chat, and with it the history. *)
DeleteChat(s) ==
  /\ left.deletes > 0 /\ chat[s] # Nobody
  /\ left' = [left EXCEPT !.deletes = @ - 1]
  /\ chat' = [chat EXCEPT ![s] = Nobody]
  /\ file' = [file EXCEPT ![s] = Empty]
  /\ UNCHANGED <<scene, turn, Engine, Search>>

(* Reinforcement in the background: a write, or a failure *)
Reinforce ==
  /\ \E b \in bumps :
       /\ bumps' = bumps \ {b}
       /\ \/ count' = [count EXCEPT ![b[1]] = b[2]]
          \/ UNCHANGED count
  /\ UNCHANGED <<scene, Store, turn, Engine>>

Step(t) ==
  \/ TakeChat(t)
  \/ UseTool(t)
  \/ EndStream(t)
  \/ Finish(t)
  \/ CheckChat(t)
  \/ WriteFile(t)
  \/ Compact(t)

Next ==
  \/ \E t \in Turns : LoadHistory(t) \/ CallModel(t) \/ Step(t) \/ Approve(t) \/ Cancel(t) \/ Fail(t)
  \/ Kill
  \/ \E s \in Sessions : DeleteChat(s)
  \/ Reinforce

Spec == InitTurns /\ [][Next]_vars

(* A turn that has begun goes on: models and stores answer, and approvals
   time out.  That somebody approves, cancels, kills or deletes is left to
   them, and a failure to chance.  The second conjunct is WF_vars(CallModel(t)),
   written out, since a call of the model can be made whenever it is due and
   an ENABLED of a memory search is more than TLC can evaluate. *)
FairSpec ==
  /\ Spec
  /\ \A t \in Turns : []<>(turn[t].at # "model") \/ []<><<CallModel(t)>>_vars
  /\ \A t \in Turns : WF_vars(Step(t))

-----------------------------------------------------------------------------
Contents(f) == ToSet(f.msgs) \cup ToSet(f.summary)

TypeOK ==
  /\ \A s \in Sessions : /\ file[s].msgs \in Seq(Message) /\ file[s].summary \in Seq(Message)
                         /\ chat[s] \in Turns \cup {Nobody}
  /\ held \in Turns \cup {Nobody} /\ stopped \in BOOLEAN /\ asked \subseteq Turns
  /\ count \in [Chunks -> Nat]

(* What has to give way: the oldest of a summary or of an ephemeral turn's
   history that has become too long *)
GivesWay(t) ==
  LET read == turn[t].read IN
  ToSet(SubSeq(read.summary, SummaryRoom + 1, Len(read.summary)))
    \cup IF t \in Ephemeral
           THEN ToSet(SubSeq(read.msgs, 1, Len(read.msgs) + 1 - MaxHistory)) ELSE {}

(* A save, be it of the turn or of the compaction behind it, drops nothing
   of what the turn has read, and nothing of what an ordinary turn has said,
   but for what gives way to a limit (run_controller.py:821-866).  A message
   may be lost only to a turn that had loaded the file before. *)
KeepsWhatItRead ==
  [][\A t \in Turns :
       (turn[t].at = "write" /\ turn'[t].at # "write" /\ turn'[t].at # "failed") =>
         Contents(turn[t].read) \cup (IF t \in Ephemeral THEN {} ELSE ToSet(turn[t].out))
           \subseteq Contents(file'[Session(t)]) \cup GivesWay(t)]_vars

(* A session file holds messages of turns of that session only, although
   all turns share one engine session, whose results are read after the
   stream ("bridges are stateful and must not be reused across requests",
   engine_session.py:65). *)
OwnMessages ==
  \A s \in Sessions : \A m \in Contents(file[s]) : m[1] = Before \/ SessionOf[m[1]] = s

Times(m, f) == Cardinality({i \in 1 .. Len(f.msgs) : f.msgs[i] = m})
                 + Cardinality({i \in 1 .. Len(f.summary) : f.summary[i] = m})

(* An ephemeral turn leaves at most one message in a session, a clean answer:
   "only persist the final AI message so the proactive prompt and
   intermediate tool calls don't pollute the session" (run_controller.py:784).
   And no message is in a session twice, unless an ephemeral turn of it was
   answered by a marker: it repeats the last clean answer it finds. *)
QuietEphemeral ==
  \A s \in Sessions :
    LET own(t) == {m \in Contents(file[s]) : m[1] = t}
    IN  /\ \A t \in Ephemeral : Cardinality(own(t)) <= 1 /\ \A m \in own(t) : m[2] = "ai"
        /\ \A m \in Contents(file[s]) : Times(m, file[s]) > 1 =>
             \E t \in Ephemeral : /\ SessionOf[t] = s /\ turn[t].out # <<>>
                                  /\ turn[t].out[Len(turn[t].out)][2] = "skip"

(* Only a turn that somebody has asked to stop is stopped by the middleware,
   which all turns share (coordinator.py:158-169, 599). *)
CancelIsOwn == \A t \in Turns : turn[t].at = "stopped" => t \in asked

(* The client is shown no text twice, and the text of the answer it is shown,
   by the stream or by the final event (event_bridge: "duplicating the final
   reply", bridge.py:278-283).  Two texts of one model call it is shown of the
   last one only, and only when what was streamed differs from the answer
   ("Preserving completed text because streamed text differs", 572-579). *)
ReplyShownOnce ==
  \A t \in Turns :
    LET shown == turn[t].shown
        ends  == turn[t].out # <<>>
    IN  /\ ends => Text(turn[t].call) \in ToSet(shown)
        /\ \A i, j \in 1 .. Len(shown) : shown[i] = shown[j] => i = j
        /\ \A n \in 1 .. turn[t].call :
             {Text(n), Other(n)} \subseteq ToSet(shown) => ends /\ n = turn[t].call

(* What a turn is reminded of is for its actor to see, although the search
   by keywords heeds no mark of a chunk: no secret unless secrets are
   recalled, but for those of the talk, which passes no filter; MEMORY.md for
   the owner only; and the block is full: of what may be shown, only
   repetitions and what has no room are missing. *)
RecallIsRight ==
  \A t \in Turns :
    LET block == turn[t].block
        actor == ActorOf(Asker[t])
        may   == ToSet(Distinct(Gathered(turn[t].heard, actor, scene.settings)))
    IN  /\ \A c \in ToSet(block) :
             /\ c.text \in SecretTexts => scene.settings.secret \/ c.text = TalkMd
             /\ c.text = MemoryMd => actor.owner
        /\ Total(block) <= scene.settings.room
        /\ (turn[t].call > 0 /\ t \notin Slim) =>
             \A c \in may \ ToSet(block) : Total(block) + Size[c.text] > scene.settings.room

(* Every turn that has begun ends, also when nobody answers a request for
   approval. *)
EveryTurnEnds == \A t \in Turns : (t \in Running) ~> (t \notin Running)
=============================================================================
