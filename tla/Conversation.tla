---------------------------- MODULE Conversation ----------------------------
(***************************************************************************)
(* The driver loop of a session and the turns it runs (engine/driver.rs,   *)
(* engine/agent.rs, the request in engine/model.rs): what enters the       *)
(* transcript of each agent on the stack, in what order, and what becomes  *)
(* of a queued message when the human cancels, the daemon drains, a request*)
(* fails or an interactive subagent holds the foreground.                  *)
(*                                                                         *)
(* The driver is one task.  Beside it the session worker feeds the input   *)
(* and control channels and fires the cancellation token, the model        *)
(* answers, and a background task drafts a shorter copy of a paused parent.*)
(*                                                                         *)
(* A message is a number, in the order sent; of a tool call only its place *)
(* and kind are kept.  Texts, images, skills and audit rows are left out,  *)
(* and so are job events (JobAuthority) and file locks (FileLocks).        *)
(***************************************************************************)
EXTENDS Naturals, Sequences, SequencesExt, FiniteSets

CONSTANTS Agents,      \* primary agents
          First,       \* the agent a session starts on
          Child,       \* the interactive subagent
          Answers,     \* what the model may ask for: sequences of tool kinds
          MaxMessages, \* bound: messages the human sends
          MaxSwaps,    \* bound: agent switches the human asks for
          MaxCancels,  \* bound: ctrl+c
          MaxAsking,   \* bound: rounds after which the model only answers
          MaxDepth,    \* bound: frames on the stack
          MaxFold,     \* MAX_FOLD
          Compacting   \* shrink strategy of a paused parent: compact, not prune

Plain      == "plain"     \* dispatched by the turn itself
Interactive == "task"     \* the rest end the turn and go to the driver
Delegation == "explore"
Structural == {Interactive, Delegation, "jobs", "handoff"}

ASSUME AgentsAssumption == First \in Agents /\ Child \notin Agents
ASSUME AnswersAssumption ==
    /\ Answers \subseteq Seq({Plain} \cup Structural)
    /\ <<>> \in Answers
ASSUME BoundsAssumption ==
    /\ MaxMessages \in Nat /\ MaxSwaps \in Nat /\ MaxCancels \in Nat /\ MaxAsking \in Nat
    /\ MaxDepth \in Nat \ {0} /\ MaxFold \in Nat \ {0} /\ Compacting \in BOOLEAN

VARIABLES
    sent,      \* messages sent so far
    input,     \* driver input channel
    control,   \* driver control channel: agents to swap to
    swaps,     \* switches asked for so far
    persisted, \* the session row's active agent
    pc,        \* what the driver does
    batch,     \* messages taken at idle, not yet a prompt
    prompt,    \* next_prompt
    stack,     \* frames: agent, history, answering
    calls,     \* calls of the current assistant turn not yet dispatched
    token,     \* cancel_current
    cancels,   \* ctrl+c so far
    rounds,    \* completed requests
    draining,  \* the daemon's inference gate
    edited,    \* edit of the guidance file: "none", "pending" or "injected" (bound: one)
    shrink,    \* shrink[d]: background copy of the paused frame d
    heard,     \* messages a model received, in order
    refused,   \* messages the injection guard dropped
    abandoned  \* prompts of runs that were cancelled or gated

channels == <<input, control>>
human    == <<sent, swaps, cancels>>
outside  == <<human, draining, edited>>
fate     == <<heard, refused, abandoned>>
vars == <<channels, outside, persisted, pc, batch, prompt, stack, calls, token, rounds,
          shrink, fate>>

Entry(kind, ms, cs) == [kind |-> kind, msgs |-> ms, calls |-> cs]
Nothing       == Entry("none", <<>>, <<>>)
UserTurn(ms)  == Entry("user", ms, <<>>)
Brief         == Entry("brief", <<>>, <<>>)
Assistant(cs) == Entry("assistant", <<>>, cs)
Answer(c)     == Entry("result", <<>>, <<c>>)
Guidance      == Entry("guidance", <<>>, <<>>)
Summary       == Entry("summary", <<>>, <<>>)

NoCall  == [round |-> 0, index |-> 0, tool |-> "none"]
Frame(a, c) == [agent |-> a, history |-> <<>>, answering |-> c]
Top     == stack[Len(stack)]
IsRoot  == Len(stack) = 1
Busy    == pc \notin {"idle", "screening", "gone"}

\* The stack with e's appended to the history of the top frame.
Pushed(es) == [stack EXCEPT ![Len(stack)].history = @ \o es]

TypeOK ==
    /\ sent \in 0..MaxMessages /\ swaps \in 0..MaxSwaps /\ cancels \in 0..MaxCancels
    /\ input \in Seq(1..MaxMessages) /\ control \in Seq(Agents)
    /\ persisted \in Agents
    /\ pc \in {"idle", "screening", "ready", "requesting", "backoff", "dispatching", "delegated",
               "finished", "gone"}
    /\ batch \in Seq(1..MaxMessages) /\ Len(batch) <= MaxFold
    /\ Len(stack) \in 1..MaxDepth
    /\ token \in {"none", "live", "cancelled"} /\ (token # "none" <=> Busy)
    /\ (prompt # Nothing) <=> (pc \in {"ready", "requesting", "backoff"})
    /\ calls # <<>> => pc \in {"dispatching", "delegated"}
    /\ shrink \in [1..MaxDepth -> {"none", "running", "drafted", "failed"}]
    /\ edited \in {"none", "pending", "injected"}
    /\ refused \subseteq 1..MaxMessages

Init ==
    /\ sent = 0 /\ swaps = 0 /\ cancels = 0
    /\ input = <<>> /\ control = <<>>
    /\ persisted = First
    /\ pc = "idle"
    /\ batch = <<>> /\ prompt = Nothing /\ calls = <<>>
    /\ stack = <<Frame(First, NoCall)>>
    /\ token = "none"
    /\ rounds = 0
    /\ draining = FALSE /\ edited = "none"
    /\ shrink = [d \in 1..MaxDepth |-> "none"]
    /\ heard = <<>> /\ refused = {} /\ abandoned = {}

-----------------------------------------------------------------------------
(* The session worker and the world around it *)

driverOnly == <<pc, batch, prompt, stack, calls, rounds, shrink, fate>>

Send ==
    /\ sent < MaxMessages
    /\ sent' = sent + 1
    /\ input' = Append(input, sent + 1)
    /\ UNCHANGED <<control, swaps, cancels, draining, edited, persisted, token, driverOnly>>

\* /plan and /build: persisted at once, swapped when the driver is idle.
SetAgent(a) ==
    /\ swaps < MaxSwaps
    /\ swaps' = swaps + 1
    /\ persisted' = a
    /\ control' = Append(control, a)
    /\ UNCHANGED <<input, sent, cancels, draining, edited, token, driverOnly>>

\* With no run in flight ctrl+c does nothing.
CancelRun ==
    /\ cancels < MaxCancels
    /\ cancels' = cancels + 1
    /\ token' = IF token = "live" THEN "cancelled" ELSE token
    /\ UNCHANGED <<channels, sent, swaps, draining, edited, persisted, driverOnly>>

Drain ==
    /\ ~ draining
    /\ draining' = TRUE
    /\ UNCHANGED <<channels, human, edited, persisted, token, driverOnly>>

EditGuidance ==
    /\ edited = "none"
    /\ edited' = "pending"
    /\ UNCHANGED <<channels, human, draining, persisted, token, driverOnly>>

-----------------------------------------------------------------------------
(* Idle: the main loop's select *)

\* drain_queue: at most MaxFold, the rest stays.
Fold == SubSeq(input, 1, IF Len(input) < MaxFold THEN Len(input) ELSE MaxFold)
Unfolded == SubSeq(input, Len(Fold) + 1, Len(input))

TakeInput ==
    /\ pc = "idle" /\ input # <<>>
    /\ batch' = Fold
    /\ input' = Unfolded
    /\ pc' = "screening"
    /\ UNCHANGED <<control, outside, persisted, prompt, stack, calls, token, rounds, shrink, fate>>

\* The injection guard lets the batch through and run_user_input installs a token.
Admit ==
    /\ pc = "screening"
    /\ token' = "live"
    /\ prompt' = UserTurn(batch)
    /\ batch' = <<>>
    /\ pc' = "ready"
    /\ UNCHANGED <<channels, outside, persisted, stack, calls, rounds, shrink, fate>>

Refuse ==
    /\ pc = "screening"
    /\ refused' = refused \cup Range(batch)
    /\ batch' = <<>>
    /\ pc' = "idle"
    /\ UNCHANGED <<channels, outside, persisted, prompt, stack, calls, token, rounds, shrink,
                   heard, abandoned>>

\* swap_primary leaves an interactive subagent in place.
SwapPrimary(a) == IF IsRoot THEN [stack EXCEPT ![1].agent = a] ELSE stack

TakeControl ==
    /\ pc = "idle" /\ control # <<>>
    /\ stack' = SwapPrimary(Head(control))
    /\ control' = Tail(control)
    /\ UNCHANGED <<input, outside, persisted, pc, batch, prompt, calls, token, rounds, shrink, fate>>

-----------------------------------------------------------------------------
(* A request to the model *)

\* The run ends where it stands: the prompt was not in the history yet.
Unwind ==
    /\ abandoned' = abandoned \cup {prompt}
    /\ prompt' = Nothing
    /\ pc' = "idle"
    /\ token' = "none"

\* Bug: a closed gate holds the request back instead of refusing it.
Request_Waits ==
    /\ pc = "ready" /\ ~ draining
    /\ IF token = "cancelled" THEN Unwind
       ELSE pc' = "requesting" /\ UNCHANGED <<prompt, token, abandoned>>
    /\ UNCHANGED <<channels, outside, persisted, batch, stack, calls, rounds, shrink, heard, refused>>

\* The guidance diff goes in first, whether or not the request is made.
Request ==
    /\ pc = "ready"
    /\ IF IsRoot /\ edited = "pending"
       THEN stack' = Pushed(<<Guidance>>) /\ edited' = "injected"
       ELSE UNCHANGED <<stack, edited>>
    /\ IF token = "cancelled" \/ draining
       THEN Unwind
       ELSE pc' = "requesting" /\ UNCHANGED <<prompt, token, abandoned>>
    /\ UNCHANGED <<channels, human, draining, persisted, batch, calls, rounds, shrink, heard,
                   refused>>

\* with_retry: what an attempt brought is dropped after a transient failure; there
\* is no last attempt.
Retry ==
    /\ pc = "requesting" /\ token # "cancelled"
    /\ pc' = "backoff"
    /\ UNCHANGED <<channels, outside, persisted, batch, prompt, stack, calls, token, rounds, shrink,
                   fate>>

\* The time is up, or a probe finds the provider.  The gate is not asked again.
Reattempt ==
    /\ pc = "backoff"
    /\ pc' = "requesting"
    /\ UNCHANGED <<channels, outside, persisted, batch, prompt, stack, calls, token, rounds, shrink,
                   fate>>

\* ctrl+c while the answer streams or a retry backs off.
Abort ==
    /\ pc \in {"requesting", "backoff"} /\ token = "cancelled"
    /\ Unwind
    /\ UNCHANGED <<channels, outside, persisted, batch, stack, calls, rounds, shrink, heard, refused>>

Offered == IF rounds < MaxAsking THEN Answers ELSE {<<>>}

Placed(kinds) == [i \in DOMAIN kinds |-> [round |-> rounds + 1, index |-> i, tool |-> kinds[i]]]

Answered == pc = "requesting" /\ token # "cancelled"

\* The answer is complete: prompt and assistant turn enter the history together.
Respond(kinds) ==
    /\ Answered
    /\ kinds \in Offered
    /\ stack' = Pushed(<<prompt, Assistant(Placed(kinds))>>)
    /\ heard' = heard \o prompt.msgs
    /\ calls' = Placed(kinds)
    /\ prompt' = Nothing
    /\ rounds' = rounds + 1
    /\ pc' = IF kinds = <<>> THEN "finished" ELSE "dispatching"
    /\ UNCHANGED <<channels, outside, persisted, batch, token, shrink, refused, abandoned>>

\* Any other error leaves run_main_loop: the driver is gone.  An error of a request
\* that is cancelled counts as the cancellation.
Fail ==
    /\ pc = "dispatching" \/ Answered
    /\ pc' = "gone"
    /\ token' = "none" /\ calls' = <<>>
    /\ prompt' = Nothing
    /\ abandoned' = IF prompt = Nothing THEN abandoned ELSE abandoned \cup {prompt}
    /\ UNCHANGED <<channels, outside, persisted, batch, stack, rounds, shrink, heard, refused>>

-----------------------------------------------------------------------------
(* Dispatching the calls of one assistant turn *)

Next1 == Head(calls)
AtCall(kind) == pc = "dispatching" /\ calls # <<>> /\ Next1.tool = kind

\* A cancelled tool still returns a result.
Dispatch ==
    /\ AtCall(Plain)
    /\ stack' = Pushed(<<Answer(Next1)>>)
    /\ calls' = Tail(calls)
    /\ UNCHANGED <<channels, outside, persisted, pc, batch, prompt, token, rounds, shrink, fate>>

\* Bug: queued messages replace the tool result instead of following it.
Continue_DropsResult ==
    /\ pc = "dispatching" /\ calls = <<>>
    /\ pc' = "ready"
    /\ stack' = [stack EXCEPT ![Len(stack)].history = Front(@)]
    /\ prompt' = IF input = <<>> THEN Last(Top.history) ELSE UserTurn(Fold)
    /\ input' = Unfolded
    /\ UNCHANGED <<control, outside, persisted, batch, calls, token, rounds, shrink, fate>>

\* Every call was dispatched: the last result is the prompt, unless messages wait.
Continue ==
    /\ pc = "dispatching" /\ calls = <<>>
    /\ pc' = "ready"
    /\ IF input = <<>>
       THEN /\ stack' = [stack EXCEPT ![Len(stack)].history = Front(@)]
            /\ prompt' = Last(Top.history)
       ELSE UNCHANGED stack /\ prompt' = UserTurn(Fold)
    /\ input' = Unfolded
    /\ UNCHANGED <<control, outside, persisted, batch, calls, token, rounds, shrink, fate>>

\* `task` on an interactive agent: the child takes the foreground.
SpawnSubagent ==
    /\ AtCall(Interactive)
    /\ Len(stack) < MaxDepth
    /\ stack' = Append(stack, Frame(Child, Next1))
    /\ shrink' = [shrink EXCEPT ![Len(stack)] = "running"]
    /\ prompt' = Brief
    /\ calls' = <<>>
    /\ pc' = "ready"
    /\ UNCHANGED <<channels, outside, persisted, batch, token, rounds, fate>>

\* `task` on any other agent: it runs inside the driver.
Delegate ==
    /\ AtCall(Delegation)
    /\ shrink' = [shrink EXCEPT ![Len(stack)] = "running"]
    /\ calls' = <<Next1>>
    /\ pc' = "delegated"
    /\ UNCHANGED <<channels, outside, persisted, batch, prompt, stack, token, rounds, fate>>

JobAction ==
    /\ AtCall("jobs")
    /\ prompt' = Answer(Next1)
    /\ calls' = <<>>
    /\ pc' = "ready"
    /\ UNCHANGED <<channels, outside, persisted, batch, stack, token, rounds, shrink, fate>>

Handoff(a) ==
    /\ AtCall("handoff")
    /\ persisted' = a
    /\ stack' = SwapPrimary(a)
    /\ prompt' = Answer(Next1)
    /\ calls' = <<>>
    /\ pc' = "ready"
    /\ UNCHANGED <<channels, outside, batch, token, rounds, shrink, fate>>

-----------------------------------------------------------------------------
(* A child returns *)

\* The background copy of the paused frame d: a model's summary, or the history
\* without its duplicates if the draft fails.
Draft(d) ==
    /\ Compacting
    /\ shrink[d] = "running"
    /\ \E r \in {"drafted", "failed"} : shrink' = [shrink EXCEPT ![d] = r]
    /\ UNCHANGED <<channels, outside, persisted, pc, batch, prompt, stack, calls, token, rounds,
                   fate>>

\* finish_delegation_shrink: a cold cache swaps in the copy, if there is one.
Resumed(d, cold) ==
    IF cold /\ shrink[d] = "drafted" THEN <<Summary>> ELSE stack[d].history

Seed(c) == [c EXCEPT !.index = @ + 10, !.tool = "seed"]

\* Bug: the seed's result has no call.
Seeded_NoCall(h, c) == Append(h, Answer(Seed(c)))

\* inject_seeds: a pair of call and result goes in before the task's own result.
Seeded(h, c) ==
    IF h # <<>> /\ Contains(Last(h).calls, c) /\ Last(h).kind = "assistant"
    THEN Append(Front(h), Assistant(Append(Last(h).calls, Seed(c)))) \o <<Answer(Seed(c))>>
    ELSE h \o <<Assistant(<<Seed(c)>>), Answer(Seed(c))>>

DelegateReturns(cold, seeds) ==
    LET d == Len(stack)
        h == Resumed(d, cold)
    IN  /\ pc = "delegated"
        /\ stack' = [stack EXCEPT ![d].history = IF seeds THEN Seeded(h, Next1) ELSE h]
        /\ shrink' = [shrink EXCEPT ![d] = "none"]
        /\ prompt' = Answer(Next1)
        /\ calls' = <<>>
        /\ pc' = "ready"
        /\ UNCHANGED <<channels, outside, persisted, batch, token, rounds, fate>>

\* An interactive child is done: its report answers the parent's call.
PopChild(cold) ==
    LET d == Len(stack) - 1
    IN  /\ pc = "finished" /\ ~ IsRoot
        /\ stack' = [Front(stack) EXCEPT ![d].history = Resumed(d, cold)]
        /\ shrink' = [shrink EXCEPT ![d] = "none"]
        /\ prompt' = Answer(Top.answering)
        /\ pc' = "ready"
        /\ UNCHANGED <<channels, outside, persisted, batch, calls, token, rounds, fate>>

\* Bug: the queue is drained and forgotten.
Finish_Forgets ==
    /\ pc = "finished" /\ IsRoot
    /\ pc' = "idle" /\ token' = "none"
    /\ input' = Unfolded
    /\ UNCHANGED <<control, outside, persisted, batch, prompt, stack, calls, rounds, shrink, fate>>

\* The root is done: messages that wait start over at once, unscreened.
Finish ==
    /\ pc = "finished" /\ IsRoot
    /\ IF input = <<>>
       THEN pc' = "idle" /\ token' = "none" /\ UNCHANGED prompt
       ELSE pc' = "ready" /\ prompt' = UserTurn(Fold) /\ UNCHANGED token
    /\ input' = Unfolded
    /\ UNCHANGED <<control, outside, persisted, batch, stack, calls, rounds, shrink, fate>>

-----------------------------------------------------------------------------

World == Send \/ (\E a \in Agents : SetAgent(a)) \/ CancelRun \/ Drain \/ EditGuidance

Driver ==
    \/ TakeInput \/ Admit \/ Refuse \/ TakeControl
    \/ Request \/ Retry \/ Reattempt \/ Abort \/ (\E kinds \in Offered : Respond(kinds)) \/ Fail
    \/ Dispatch \/ Continue \/ SpawnSubagent \/ Delegate \/ JobAction
    \/ \E a \in Agents : Handoff(a)
    \/ \E cold, seeds \in BOOLEAN : DelegateReturns(cold, seeds)
    \/ \E cold \in BOOLEAN : PopChild(cold)
    \/ Finish

Next == World \/ Driver \/ \E d \in 1..MaxDepth : Draft(d)

\* The driver task runs, tools end, and whoever screens answers.  A provider that is
\* asked again and again answers at last, unless the human gives up.
Spec ==
    /\ Init /\ [][Next]_vars
    /\ WF_vars(Driver) /\ SF_vars(\E kinds \in Offered : Respond(kinds))

-----------------------------------------------------------------------------
(* Properties *)

CallsOf(es)   == UNION {Range(es[i].calls) : i \in {j \in DOMAIN es : es[j].kind = "assistant"}}
AnswersIn(es) == {es[i].calls[1] : i \in {j \in DOMAIN es : es[j].kind = "result"}}

\* What the provider accepts: every result follows the assistant turn that made
\* the call and no call is answered twice.
Follows(es, i) == es[i].calls[1] \in CallsOf(SubSeq(es, 1, i - 1))
AnsweredOnce(es, i) ==
    \A j \in DOMAIN es : es[j].kind = "result" /\ es[j].calls = es[i].calls => i = j
Answerable(es) ==
    \A i \in DOMAIN es : es[i].kind = "result" =>
        Follows(es, i) /\ AnsweredOnce(es, i)

\* The result that a child brings to a parent which was compacted meanwhile: no
\* model has spoken since the summary.
OutlivedItsCall(es, i) ==
    \E k \in 1..i - 1 :
        /\ es[k].kind = "summary"
        /\ \A j \in k..i - 1 : \A c \in Range(es[j].calls) : c.tool = "seed"

\* The transcript of frame d and, on top, the prompt about to follow it.
Transcript(d) ==
    IF d = Len(stack) THEN Append(stack[d].history, prompt) ELSE stack[d].history

\* Every transcript can be sent to a provider (driver.rs: "The parent's history
\* already ends with the assistant turn that emitted the task call"), but for the
\* one result whose call a summary has swallowed.
AnswersFollowCalls ==
    \A d \in DOMAIN stack :
        LET es == Transcript(d) IN
        \A i \in DOMAIN es : es[i].kind = "result" =>
            (Follows(es, i) \/ OutlivedItsCall(es, i)) /\ AnsweredOnce(es, i)

\* Not kept by the code (see the README): a summary swapped in for a paused parent
\* keeps the call that the child's report answers.
CompactionKeepsCalls == \A d \in DOMAIN stack : Answerable(Transcript(d))

Skipped(es, c) ==
    \E b \in CallsOf(es) : b.round = c.round /\ b.index < c.index /\ b.tool \in Structural

\* A call without a result is one the driver is still working on, or stands
\* behind a structural call in the same turn, or had its result in the prompt of a
\* run that was cancelled, gated or failed (driver.rs, Continue: "The tool result
\* still has to be delivered").
GapsExplained ==
    \A d \in DOMAIN stack : \A c \in CallsOf(stack[d].history) \ AnswersIn(stack[d].history) :
        \/ d = Len(stack) /\ (c \in Range(calls) \/ c \in Range(prompt.calls))
        \/ d < Len(stack) /\ stack[d + 1].answering = c
        \/ Skipped(stack[d].history, c)
        \/ Answer(c) \in abandoned
        \/ pc = "gone"

InPrompts == UNION {Range(e.msgs) : e \in abandoned}

\* Each message is in exactly one place: waiting, being screened, in the prompt,
\* heard by a model, dropped by the guard, or in the prompt of a run that ended early
\* (driver.rs: "Any queued messages stay in `input_rx` for the next run"), and models
\* hear them in the order the human sent them, whichever frame is on top and wherever
\* the queue was folded (drain_queue).
MessagesKept ==
    /\ 1..sent = Range(input) \cup Range(batch) \cup Range(prompt.msgs) \cup Range(heard)
                 \cup refused \cup InPrompts
    /\ sent = Len(input) + Len(batch) + Len(prompt.msgs) + Len(heard)
              + Cardinality(refused) + Cardinality(InPrompts)
    /\ \A i, j \in DOMAIN heard : i < j => heard[i] < heard[j]

\* A message the human sends is heard, dropped by the guard, lost with a run that
\* was cancelled or gated, or the driver is gone (run_main_loop).
MessagesSettled ==
    \A m \in 1..MaxMessages :
        m <= sent ~> (m \in Range(heard) \cup refused \cup InPrompts \/ pc = "gone")
=============================================================================
