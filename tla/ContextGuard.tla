---------------------------- MODULE ContextGuard ----------------------------
(***************************************************************************)
(* One model call, from the messages of the graph to the request that is   *)
(* sent: awrap_model_call of src/lightclaw/agent/core/coordinator.py with  *)
(* TokenBudgetEnforcer.enforce (token_budget.py) and                       *)
(* sanitize_tool_messages (message_sanitizer.py).                          *)
(*                                                                         *)
(* The budget drops old messages, unpaired tool messages go, the extra     *)
(* blocks (here the recall and the reminder stand for them) join the       *)
(* system message, and the final guard trims, in rounds, what is still too *)
(* long, or blocks the call.  A size counts tokens and characters alike.   *)
(* The list of messages holds no system message; the one the coordinator   *)
(* may prepend is kept in "blocks".                                        *)
(*                                                                         *)
(* Every count of the code is of contents: what the arguments of its tool  *)
(* calls add to a message is estimated for the log and taken off again     *)
(* before the budget is asked, and the guard does not look at it.          *)
(***************************************************************************)
EXTENDS Integers, Sequences

CONSTANTS
  Inputs,      \* the calls: [history, prepends, fixed, recall, reminder, limit]
  Ids,         \* tool_call_id
  Shared,      \* TokenBudgetEnforcer.max_input_length
  ToolMax,     \* TOOL_MESSAGE_TOTAL_MAX_CHARS
  ExtraMax,    \* EXTRA_PARTS_MAX_TOTAL_CHARS
  MaxRounds    \* FINAL_INPUT_MAX_TRIM_ROUNDS

(* n is the place of a message in the history, size that of its content,   *)
(* arguments of tool calls apart, and calls the tool calls it makes or,    *)
(* for a tool message, the one it answers.                                 *)
Message == [n: Nat, kind: {"human", "ai", "tool"}, size: Nat, calls: SUBSET Ids]

(* limit is the budget of the guard, the shared one unless the turn has    *)
(* max_input_length_override; fixed counts the system message of the       *)
(* request and the schemas of the tools.                                   *)
ASSUME BudgetAssumption ==
  /\ Shared \in Nat /\ ToolMax \in Nat /\ ExtraMax \in Nat
  /\ MaxRounds \in Nat \ {0}
  /\ \A in \in Inputs :
       /\ in.prepends \in BOOLEAN
       /\ {in.fixed, in.recall, in.reminder, in.limit} \subseteq Nat
       /\ in.history \in Seq(Message)
       /\ \A i \in DOMAIN in.history : in.history[i].n = i

VARIABLES
  input,     \* the call
  pc,
  messages,  \* the local variable messages
  override,  \* override_kwargs["messages"]
  blocks,    \* [recall, reminder]: sizes in the system message to be sent
  rounds

guardVars == <<input, pc, messages, override, blocks, rounds>>

GuardTypeOK ==
  /\ input \in Inputs
  /\ pc \in {"enforce", "pair", "merge", "keep", "trim", "last", "decide",
             "sent", "blocked"}
  /\ {messages, override} \subseteq Seq(Message)
  /\ blocks \in [recall: 0..input.recall, reminder: 0..input.reminder]
  /\ rounds \in 0..MaxRounds

GuardInit ==
  /\ input \in Inputs
  /\ pc = "enforce"
  /\ messages = input.history /\ override = <<>>
  /\ blocks = [recall |-> input.recall, reminder |-> input.reminder]
  /\ rounds = 0

(* What count_message_tokens returns: contents only.                       *)
Total(msgs) ==
  LET upTo[n \in 0..Len(msgs)] ==
        IF n = 0 THEN 0 ELSE upTo[n - 1] + msgs[n].size
  IN  upTo[Len(msgs)]

(* The messages at the given places, in their order.                       *)
Pick(msgs, places) ==
  LET upTo[n \in 0..Len(msgs)] ==
        IF n = 0 THEN <<>>
        ELSE IF n \in places THEN Append(upTo[n - 1], msgs[n])
        ELSE upTo[n - 1]
  IN  upTo[Len(msgs)]

IsTool(m) == m.kind = "tool"
Humans(msgs) == {i \in DOMAIN msgs : msgs[i].kind = "human"}
LastHuman(msgs) == CHOOSE i \in Humans(msgs) : \A j \in Humans(msgs) : j <= i

Placeholder(m) == [m EXCEPT !.size = 1]

-----------------------------------------------------------------------------
(* The token budget.                                                       *)

Reserved == input.fixed + input.recall + input.reminder

Later(msgs, i) == SubSeq(msgs, i + 1, Len(msgs))
LaterTools(msgs, i) == Pick(msgs, {j \in DOMAIN msgs : j > i /\ IsTool(msgs[j])})

(* The newest tool outputs are kept, the one across the limit is cut, and  *)
(* older ones become placeholders.                                         *)
TrimTool(msgs, i) ==
  LET room == ToolMax - Total(LaterTools(msgs, i))
  IN  IF ~IsTool(msgs[i]) \/ msgs[i].size <= room THEN msgs[i]
      ELSE IF room > 0 THEN [msgs[i] EXCEPT !.size = room]
      ELSE Placeholder(msgs[i])

TrimTools(msgs) == [i \in DOMAIN msgs |-> TrimTool(msgs, i)]

(* As many of the newest as fit: few enough of the oldest are dropped.     *)
Fits(msgs, budget) == {i \in 0..Len(msgs) : Total(Later(msgs, i)) <= budget}

Dropped(msgs, budget) ==
  CHOOSE i \in Fits(msgs, budget) : \A j \in Fits(msgs, budget) : i <= j

Newest(msgs, budget) == Later(msgs, Dropped(msgs, budget))

(* Without a budget the last message stays.                                *)
Enforced(msgs) ==
  LET budget == Shared - Reserved
  IN  IF budget <= 0 THEN Pick(msgs, {Len(msgs)})
      ELSE Newest(TrimTools(msgs), budget)

Enforce ==
  /\ pc = "enforce"
  /\ messages' = Enforced(messages)
  /\ pc' = "pair"
  /\ UNCHANGED <<input, override, blocks, rounds>>

-----------------------------------------------------------------------------
(* sanitize_tool_messages, and the merge of the extra blocks.              *)

Of(msgs, kind) ==
  UNION {msgs[i].calls : i \in {j \in DOMAIN msgs : msgs[j].kind = kind}}
Valid(msgs) == Of(msgs, "ai") \cap Of(msgs, "tool")

Stripped(msgs) ==
  [i \in DOMAIN msgs |-> [msgs[i] EXCEPT !.calls = @ \cap Valid(msgs)]]

(* Only tool messages are looked at.                                       *)
FaultyPaired(msgs) ==
  Pick(msgs, {i \in DOMAIN msgs : IsTool(msgs[i]) => msgs[i].calls \subseteq Valid(msgs)})

(* An answer without its call is dropped, a call without its answer is     *)
(* stripped, and a message of calls is dropped too when it then has        *)
(* neither calls nor text.                                                 *)
Paired(msgs) ==
  LET Left(i) == Stripped(msgs)[i].calls # {}
      Kept(i) == /\ IsTool(msgs[i]) => Left(i)
                 /\ msgs[i].kind = "ai" /\ msgs[i].calls # {}
                      => Left(i) \/ msgs[i].size > 0
  IN  Pick(Stripped(msgs), {i \in DOMAIN msgs : Kept(i)})

Pair ==
  /\ pc = "pair"
  /\ messages' = Paired(messages)
  /\ pc' = "merge"
  /\ UNCHANGED <<input, override, blocks, rounds>>

(* What is sent is bound here: rebinding messages does not change it, a    *)
(* message changed in place would.                                         *)
Merge ==
  /\ pc = "merge"
  /\ override' = messages
  /\ pc' = "keep"
  /\ UNCHANGED <<input, messages, blocks, rounds>>

-----------------------------------------------------------------------------
(* The final guard.                                                        *)

(* The guard counts the system message only when it is in the list.        *)
Counted(msgs) ==
  Total(msgs) + (IF input.prepends THEN blocks.recall + blocks.reminder ELSE 0)

KeepHuman ==
  /\ pc = "keep"
  /\ messages' = IF Total(messages) = 0 /\ Humans(messages) # {}
                   THEN <<messages[LastHuman(messages)]>> ELSE messages
  /\ pc' = "trim"
  /\ UNCHANGED <<input, override, blocks, rounds>>

Window(msgs) == IF Len(msgs) < 10 THEN 1 ELSE Len(msgs) \div 5

(* The oldest messages, with tool outputs replaced by placeholders.        *)
Aged(msgs, w) ==
  [i \in DOMAIN msgs |-> IF i <= w /\ IsTool(msgs[i]) THEN Placeholder(msgs[i]) ELSE msgs[i]]

(* The last message of the user has no exception.                          *)
FaultyDrop(msgs) ==
  LET w == Window(msgs)
  IN  Pick(Aged(msgs, w), {i \in DOMAIN msgs : i > w \/ IsTool(msgs[i])})

(* The oldest fifth goes, except for the last message of the user and for  *)
(* tool messages, which stay as placeholders.                              *)
Drop(msgs) ==
  LET w == Window(msgs)
      Question(i) == i \in Humans(msgs) /\ i = LastHuman(msgs)
  IN  Pick(Aged(msgs, w),
           {i \in DOMAIN msgs : i > w \/ IsTool(msgs[i]) \/ Question(i)})

(* 2a cuts the recall of a system message in the list, in place.  2b looks *)
(* for blocks by tags: <flush_reminder> and <memory_write_reminder> are    *)
(* not what the reminders are written in, so that only the recall could be *)
(* found, and it is cut already.                                           *)
Trimmable == {"auto-recall-context", "summary", "flush_reminder",
              "memory_write_reminder"}
TagOf == [recall |-> "auto-recall-context", reminder |-> "memory-write-reminder"]

TrimBlock(name, size) ==
  IF /\ input.prepends
     /\ TagOf[name] \in Trimmable
     /\ size > 0
     /\ name = "recall" \/ input.recall + input.reminder > ExtraMax
    THEN 1 ELSE size

Trim ==
  /\ pc = "trim"
  /\ Counted(messages) > input.limit /\ rounds < MaxRounds
  /\ rounds' = rounds + 1
  /\ blocks' = [name \in DOMAIN blocks |-> TrimBlock(name, blocks[name])]
  /\ messages' = IF Len(messages) > 1 THEN Drop(messages) ELSE messages
  /\ UNCHANGED <<input, pc, override>>

EndTrim ==
  /\ pc = "trim"
  /\ Counted(messages) <= input.limit \/ rounds = MaxRounds
  /\ pc' = "last"
  /\ UNCHANGED <<input, messages, override, blocks, rounds>>

(* There is no last resort.                                                *)
FaultyLastResort ==
  /\ pc = "last"
  /\ pc' = "decide"
  /\ UNCHANGED <<input, messages, override, blocks, rounds>>

LastResort ==
  /\ pc = "last"
  /\ messages' = IF Counted(messages) > input.limit /\ Humans(messages) # {}
                   THEN <<messages[LastHuman(messages)]>> ELSE messages
  /\ pc' = "decide"
  /\ UNCHANGED <<input, override, blocks, rounds>>

(* RuntimeError, or the handler is called with override_kwargs.            *)
Decide ==
  /\ pc = "decide"
  /\ pc' = IF Counted(messages) > input.limit THEN "blocked" ELSE "sent"
  /\ UNCHANGED <<input, messages, override, blocks, rounds>>

GuardNext ==
  \/ Enforce \/ Pair \/ Merge
  \/ KeepHuman \/ Trim \/ EndTrim \/ LastResort \/ Decide

GuardSpec == GuardInit /\ [][GuardNext]_guardVars

-----------------------------------------------------------------------------

Guarding == pc \in {"trim", "last", "decide"}

(* The guard never gives up the last message of the user that reached it.  *)
QuestionSurvivesGuard ==
  Guarding /\ Humans(override) # {} =>
    \E i \in DOMAIN messages :
      messages[i].n = override[LastHuman(override)].n

(* A call is blocked only if its system message and the last message of    *)
(* the user are too long by themselves, or nobody asked anything.          *)
BlockedOnlyIfHopeless ==
  pc = "blocked" =>
    \/ Humans(override) = {}
    \/ Counted(<<override[LastHuman(override)]>>) > input.limit

(* What is sent pairs every tool call with its answer, wherever the budget *)
(* cut the history.                                                        *)
SentIsPaired == pc = "sent" => Of(override, "ai") = Of(override, "tool")

(* The system message, the schemas and the contents of the messages.       *)
SentContents == input.fixed + blocks.recall + blocks.reminder + Total(override)

(* While the blocks leave room for messages, the contents that are sent    *)
(* fit the shared budget, whatever the guard does or leaves undone.  It    *)
(* says nothing of the arguments of tool calls, nor of the hint of the     *)
(* browser guard, which come on top.                                       *)
ContentsFit == (pc = "sent" /\ Reserved < Shared) => SentContents <= Shared

(* The budgets decide as they should on what they count: a call is refused *)
(* only when there is no hope for it, and the contents of one that is made *)
(* keep to the shared budget.                                              *)
GuardDecidesRight == BlockedOnlyIfHopeless /\ ContentsFit
=============================================================================
