---------------------------- MODULE ContextWindow ----------------------------
(***************************************************************************)
(* What is removed from the model-bound history of a session, and when     *)
(* (engine/prune.rs, engine/deleg_shrink.rs, engine/compact.rs and their   *)
(* callers in engine/driver.rs): pruning by hand and before a request, the *)
(* shorter copy of a parent that waits for a subagent, and the handoff to a*)
(* fresh session whose worker runs the seed tools again.                   *)
(*                                                                         *)
(* A history keeps of a snapshot call (read, outline, ...) its identity,   *)
(* tool and arguments, and what stands in the body of its result.  Calls of*)
(* other tools, texts and guidance are left out, and call ids are unique.  *)
(* Time passes in units; clocks stop at TTL, after which a cache is cold.  *)
(***************************************************************************)
EXTENDS Integers, Sequences, SequencesExt, FiniteSets, FiniteSetsExt

CONSTANTS Keys,        \* identities of snapshot calls
          Batches,     \* the snapshot calls a model may ask for in one turn
          SeedLists,   \* what a subagent may seed
          TTL, Margin, \* the provider's cache lifetime and the shrink margin
          MaxMessages, MaxRequests, MaxReads, MaxAway, MaxDepth \* bounds

ASSUME KeysAssumption == Batches \subseteq Seq(Keys) /\ SeedLists \subseteq Seq(Keys)
ASSUME WindowBoundsAssumption ==
    /\ TTL \in Nat \ {0} /\ Margin \in 0..TTL
    /\ {MaxMessages, MaxRequests, MaxReads, MaxAway} \subseteq Nat
    /\ MaxDepth \in Nat \ {0}

VARIABLES
    caching,    \* configuration: the provider has a prompt cache
    compacting, \* configuration: shrink by a brief, not by pruning
    hist,       \* hist[d]: history of the frame d of the stack
    mark,       \* prune_watermark, by depth
    pc, prompt, \* what the driver does; next_prompt, not yet in the history
    todo, last, \* calls of this turn not yet run; how the turn ends
    queue,      \* messages in the input channel
    copy,       \* copy[d]: background copy of the paused frame d
    idle,       \* clock since the session's last send
    spent,      \* spent[d]: clock of the delegation of frame d
    age,        \* age[d]: clock since the prefix of frame d was sent
    breaking,   \* the last automatic prune told of a broken cache
    ledger,     \* tool_calls of the session, subagents' included
    heir,       \* the session /compact has made, and what the old one showed
    messages, requests, away \* counts

config == <<caching, compacting>>
turnVars == <<pc, prompt, todo, last>>
clocks == <<idle, spent, age>>
world  == <<queue, messages>>
counts == <<requests, away>>
windowVars == <<config, hist, mark, turnVars, copy, clocks, breaking, ledger, world, heir, counts>>

-----------------------------------------------------------------------------
(***************************************************************************)
(* Histories and the plan of a prune.                                      *)
(***************************************************************************)
Entry(kind) == [kind |-> kind, key |-> "none", body |-> "text"]
User == Entry("user")
Turn == Entry("turn")       \* an assistant message, with its calls
Report == Entry("report")   \* the result of a task call
Summary == Entry("summary")
Result(k, b) == [kind |-> "result", key |-> k, body |-> b]
Nothing == Entry("nothing")

Bodies == {"full", "error", "marker"}
Top == hist[Len(hist)]

Found(h, k) == {i \in DOMAIN h : h[i].kind = "result" /\ h[i].key = k}

\* dedup_plan: of each identity all bodies but the newest, if that is one.
Superseded(h) ==
    UNION {{i \in Found(h, k) :
              LET n == Max(Found(h, k)) IN
              i # n /\ h[n].body # "marker" /\ h[i].body # "marker"} : k \in Keys}

\* apply_plan keeps the shape and replaces the bodies.
Pruned(h) ==
    [i \in DOMAIN h |-> IF i \in Superseded(h) THEN [h[i] EXCEPT !.body = "marker"] ELSE h[i]]

Pushed(es) == [hist EXCEPT ![Len(hist)] = @ \o es]

\* Faulty variant: a call is noted as seen before it is known whether it failed.
Seeds_SeenFirst(calls) ==
    {calls[i].key : i \in {i \in DOMAIN calls :
        ~ calls[i].failed /\ \A j \in 1..(i - 1) : calls[j].key # calls[i].key}}

\* derive_seed_tools: the identities of the calls that did not fail, once each; the
\* successor runs them in some order.
Seeds(calls) == {calls[i].key : i \in {i \in DOMAIN calls : ~ calls[i].failed}}

NoHeir == [phase |-> "none", seeds |-> {}, context |-> {}, shown |-> {}, lost |-> FALSE]

WindowInit ==
    /\ caching \in BOOLEAN /\ compacting \in BOOLEAN
    /\ hist = << <<>> >>
    /\ mark = [d \in 1..MaxDepth |-> -1]
    /\ pc = "idle" /\ prompt = Nothing /\ todo = <<>> /\ last = "none"
    /\ queue = 0
    /\ copy = [d \in 1..MaxDepth |-> "none"]
    /\ idle = TTL /\ spent = [d \in 1..MaxDepth |-> 0] /\ age = [d \in 1..MaxDepth |-> TTL]
    /\ breaking = FALSE
    /\ ledger = <<>>
    /\ heir = NoHeir
    /\ messages = 0 /\ requests = 0 /\ away = 0

-----------------------------------------------------------------------------
(***************************************************************************)
(* The world: messages and time.                                           *)
(***************************************************************************)
SubmitMessage ==
    /\ messages < MaxMessages
    /\ messages' = messages + 1
    /\ queue' = queue + 1
    /\ UNCHANGED <<config, hist, mark, turnVars, copy, clocks, breaking, ledger, heir, counts>>

Later(t) == IF t < TTL THEN t + 1 ELSE TTL

Tick ==
    /\ idle' = Later(idle)
    /\ spent' = [d \in 1..MaxDepth |-> Later(spent[d])]
    /\ age' = [d \in 1..MaxDepth |-> Later(age[d])]
    /\ UNCHANGED <<config, hist, mark, turnVars, copy, breaking, ledger, world, heir, counts>>

-----------------------------------------------------------------------------
(***************************************************************************)
(* The turn loop.                                                          *)
(***************************************************************************)
TakeInput ==
    /\ pc = "idle" /\ queue > 0
    /\ pc' = "ready" /\ prompt' = User /\ queue' = 0
    /\ UNCHANGED <<config, hist, mark, todo, last, copy, clocks, breaking, ledger, messages,
                   heir, counts>>

\* cache_state
Cold(clock) == ~ caching \/ clock >= TTL

\* Faulty variant: the length is remembered although nothing was pruned.
AutoPrune_AlwaysMarks(full) ==
    LET d == Len(hist)
        due == Superseded(Top) # {} /\ (Cold(idle) \/ full)
    IN IF mark[d] = Len(Top)
       THEN UNCHANGED <<hist, mark, breaking>>
       ELSE /\ hist' = IF due THEN [hist EXCEPT ![d] = Pruned(@)] ELSE hist
            /\ mark' = [mark EXCEPT ![d] = Len(Top)]
            /\ breaking' = IF due THEN ~ Cold(idle) ELSE breaking

\* maybe_auto_prune: nothing if the history has its length of the last look;
\* otherwise a cold cache or a full window prunes what can be pruned.
AutoPrune(full) ==
    LET d == Len(hist)
        plan == Superseded(Top)
        due == plan # {} /\ (Cold(idle) \/ full)
    IN IF mark[d] = Len(Top)
       THEN UNCHANGED <<hist, mark, breaking>>
       ELSE /\ hist' = IF due THEN [hist EXCEPT ![d] = Pruned(@)] ELSE hist
            /\ mark' = IF due \/ plan = {} THEN [mark EXCEPT ![d] = Len(Top)] ELSE mark
            /\ breaking' = IF due THEN ~ Cold(idle) ELSE breaking

\* The request is sent, or the human has cancelled or the daemon drains: then the
\* prompt is gone.
Request ==
    /\ pc = "ready" /\ requests < MaxRequests
    /\ \E full \in BOOLEAN : AutoPrune(full)
    /\ idle' = 0
    /\ \/ pc' = "asked" /\ age' = [age EXCEPT ![Len(hist)] = 0] /\ UNCHANGED prompt
       \/ pc' = "idle" /\ prompt' = Nothing /\ UNCHANGED age
    /\ requests' = requests + 1
    /\ UNCHANGED <<config, todo, last, copy, spent, ledger, world, heir, away>>

Cancelled ==
    /\ pc = "asked"
    /\ pc' = "idle" /\ prompt' = Nothing
    /\ UNCHANGED <<config, hist, mark, todo, last, copy, clocks, breaking, ledger, world, heir,
                   counts>>

Respond ==
    /\ pc = "asked"
    /\ hist' = Pushed(<<prompt, Turn>>)
    /\ prompt' = Nothing
    /\ \E b \in Batches, end \in {"none", "explore", "task"} :
        /\ Len(ledger) + Len(b) <= MaxReads
        /\ end # "none" => away < MaxAway
        /\ end = "task" => Len(hist) < MaxDepth
        /\ todo' = b /\ last' = end
        /\ pc' = IF b = <<>> /\ end = "none" THEN "done" ELSE "calls"
    /\ UNCHANGED <<config, mark, copy, clocks, breaking, ledger, world, heir, counts>>

\* A call runs, fails, or is refused as a repeat of the one before.
Read ==
    /\ pc = "calls" /\ todo # <<>>
    /\ \E failed \in BOOLEAN :
        /\ hist' = Pushed(<<Result(Head(todo), IF failed THEN "error" ELSE "full")>>)
        /\ ledger' = Append(ledger, [key |-> Head(todo), failed |-> failed])
    /\ todo' = Tail(todo)
    /\ UNCHANGED <<config, mark, pc, prompt, last, copy, clocks, breaking, world, heir, counts>>

\* Faulty variant: the history is pruned while the last result is still in it.
Continue_PrunesFirst ==
    /\ pc = "calls" /\ todo = <<>> /\ last = "none"
    /\ pc' = "ready"
    /\ hist' = [hist EXCEPT ![Len(hist)] = Front(Pruned(@))]
    /\ prompt' = Last(Top)
    /\ UNCHANGED <<config, mark, todo, last, copy, clocks, breaking, ledger, world, heir, counts>>

\* The last result is the next prompt, unless messages wait.
Continue ==
    /\ pc = "calls" /\ todo = <<>> /\ last = "none"
    /\ pc' = "ready"
    /\ IF queue = 0
       THEN hist' = [hist EXCEPT ![Len(hist)] = Front(@)] /\ prompt' = Last(Top)
       ELSE prompt' = User /\ UNCHANGED hist
    /\ queue' = 0
    /\ UNCHANGED <<config, mark, todo, last, copy, clocks, breaking, ledger, messages, heir,
                   counts>>

\* begin_delegation_shrink for the frame that is about to wait.
Paused == /\ copy' = [copy EXCEPT ![Len(hist)] = "running"]
          /\ spent' = [spent EXCEPT ![Len(hist)] = 0]
          /\ away' = away + 1

Delegate ==
    /\ pc = "calls" /\ todo = <<>> /\ last = "explore"
    /\ Paused
    /\ pc' = "away"
    /\ UNCHANGED <<config, hist, mark, prompt, todo, last, idle, age, breaking, ledger, world, heir,
                   requests>>

Spawn ==
    /\ pc = "calls" /\ todo = <<>> /\ last = "task"
    /\ Paused
    /\ hist' = Append(hist, <<>>)
    /\ prompt' = User
    /\ age' = [age EXCEPT ![Len(hist) + 1] = TTL]
    /\ pc' = "ready"
    /\ UNCHANGED <<config, mark, todo, last, idle, breaking, ledger, world, heir, requests>>

\* A noninteractive child sends and calls on the same session.
ChildWorks ==
    /\ pc = "away"
    /\ idle' = 0
    /\ \/ UNCHANGED ledger
       \/ /\ Len(ledger) < MaxReads
          /\ \E k \in Keys, failed \in BOOLEAN :
                ledger' = Append(ledger, [key |-> k, failed |-> failed])
    /\ UNCHANGED <<config, hist, mark, turnVars, copy, spent, age, breaking, world, heir, counts>>

\* run_shrink in the background: at once without a cache, else shortly before it
\* is cold.  A brief that cannot be drafted leaves the pruned history.
Draft(d) ==
    /\ copy[d] = "running"
    /\ ~ caching \/ spent[d] >= TTL - Margin
    /\ \E c \in IF compacting THEN {"brief", "pruned"} ELSE {"pruned"} :
        copy' = [copy EXCEPT ![d] = c]
    /\ UNCHANGED <<config, hist, mark, turnVars, clocks, breaking, ledger, world, heir, counts>>

\* Faulty variant: a copy that is there is used.
Resumed_Always(d) ==
    CASE copy[d] = "brief"  -> <<Summary>>
      [] copy[d] = "pruned" -> Pruned(hist[d])
      [] OTHER              -> hist[d]

\* finish_delegation_shrink.  The paused history has not changed meanwhile.
Resumed(d) ==
    CASE Cold(spent[d]) /\ copy[d] = "brief"  -> <<Summary>>
      [] Cold(spent[d]) /\ copy[d] = "pruned" -> Pruned(hist[d])
      [] OTHER                                -> hist[d]

\* inject_seeds runs what the child has seeded, in the turn that asked for it.
Seeded(h, seeds, body) ==
    IF seeds = <<>> THEN h
    ELSE (IF Last(h) = Turn THEN h ELSE Append(h, Turn))
            \o [i \in DOMAIN seeds |-> Result(seeds[i], body)]

DelegateReturns ==
    LET d == Len(hist) IN
    /\ pc = "away"
    /\ \E seeds \in SeedLists :
        /\ Len(ledger) + Len(seeds) <= MaxReads
        /\ \E body \in {"full", "error"} :
                hist' = [hist EXCEPT ![d] = Seeded(Resumed(d), seeds, body)]
        /\ ledger' = ledger \o [i \in DOMAIN seeds |-> [key |-> seeds[i], failed |-> FALSE]]
    /\ copy' = [copy EXCEPT ![d] = "none"]
    /\ pc' = "ready" /\ prompt' = Report
    /\ UNCHANGED <<config, mark, todo, last, clocks, breaking, world, heir, counts>>

\* An interactive child is done; its report is the prompt of its parent.
PopChild ==
    LET d == Len(hist) - 1 IN
    /\ pc = "done" /\ d > 0
    /\ hist' = [Front(hist) EXCEPT ![d] = Resumed(d)]
    /\ copy' = [copy EXCEPT ![d] = "none"]
    /\ pc' = "ready" /\ prompt' = Report
    /\ UNCHANGED <<config, mark, todo, last, clocks, breaking, ledger, world, heir, counts>>

Finish ==
    /\ pc = "done" /\ Len(hist) = 1
    /\ IF queue = 0 THEN pc' = "idle" /\ UNCHANGED prompt
                    ELSE pc' = "ready" /\ prompt' = User
    /\ queue' = 0
    /\ UNCHANGED <<config, hist, mark, todo, last, copy, clocks, breaking, ledger, messages,
                   heir, counts>>

-----------------------------------------------------------------------------
(***************************************************************************)
(* /prune and /compact, by hand or because the window is full.             *)
(***************************************************************************)
DoPrune ==
    /\ hist' = [hist EXCEPT ![Len(hist)] = Pruned(@)]
    /\ mark' = [mark EXCEPT ![Len(hist)] = Len(Top)]
    /\ breaking' = FALSE

Prune ==
    /\ pc = "idle"
    /\ DoPrune
    /\ UNCHANGED <<config, turnVars, copy, clocks, ledger, world, heir, counts>>

Full(h) == {k \in Keys : \E i \in Found(h, k) : h[i].body = "full"}

\* The fresh session's row; that its seeds cannot be stored is only logged.
Compact ==
    /\ pc = "idle" /\ heir.phase = "none"
    /\ DoPrune
    /\ \E stored \in BOOLEAN :
        heir' = [phase |-> "row", seeds |-> IF stored THEN Seeds(ledger) ELSE {}, context |-> {},
                 shown |-> UNION {Full(h) : h \in Range(hist)}, lost |-> ~ stored]
    /\ UNCHANGED <<config, turnVars, copy, clocks, ledger, world, counts>>

\* The client attaches: the new worker takes the seeds and runs them before its loop.
Attach ==
    /\ heir.phase = "row"
    /\ heir' = [heir EXCEPT !.phase = "attached", !.seeds = {}, !.context = heir.seeds]
    /\ UNCHANGED <<config, hist, mark, turnVars, copy, clocks, breaking, ledger, world, counts>>

\* That worker ends before the first message: the seeds are taken, their results gone.
Restart ==
    /\ heir.phase = "attached"
    /\ heir' = [heir EXCEPT !.phase = "row", !.context = {}, !.lost = TRUE]
    /\ UNCHANGED <<config, hist, mark, turnVars, copy, clocks, breaking, ledger, world, counts>>

\* The first message carries the context.
Tell ==
    /\ heir.phase = "attached"
    /\ heir' = [heir EXCEPT !.phase = "told"]
    /\ UNCHANGED <<config, hist, mark, turnVars, copy, clocks, breaking, ledger, world, counts>>

-----------------------------------------------------------------------------
Turns ==
    \/ TakeInput \/ Request \/ Cancelled \/ Respond \/ Read \/ Continue \/ Delegate \/ Spawn
    \/ DelegateReturns \/ PopChild \/ Finish \/ Prune \/ Compact

\* Nothing the old session does after the handoff reaches the fresh one, and for
\* itself the handoff was a prune: its steps after it are left out.
OldSession ==
    /\ heir.phase = "none"
    /\ Turns \/ ChildWorks \/ (\E d \in 1..MaxDepth : Draft(d)) \/ SubmitMessage \/ Tick

WindowNext == OldSession \/ Attach \/ Restart \/ Tell

WindowSpec == WindowInit /\ [][WindowNext]_windowVars

-----------------------------------------------------------------------------
(***************************************************************************)
(* Properties.                                                             *)
(***************************************************************************)

\* The shape of the state.
WindowTypeOK ==
    /\ caching \in BOOLEAN /\ compacting \in BOOLEAN
    /\ Len(hist) \in 1..MaxDepth
    /\ pc \in {"idle", "ready", "asked", "calls", "away", "done"}
    /\ last \in {"none", "explore", "task"} /\ todo \in Seq(Keys)
    /\ copy \in [1..MaxDepth -> {"none", "running", "brief", "pruned"}]
    /\ idle \in 0..TTL /\ spent \in [1..MaxDepth -> 0..TTL] /\ age \in [1..MaxDepth -> 0..TTL]
    /\ ledger \in Seq([key : Keys, failed : BOOLEAN])
    /\ heir.phase \in {"none", "row", "attached", "told"}

\* "A marker pointing at a body no longer in context would be a lie" (prune.rs):
\* every elided body has a newer one of the same call in the same history, whatever
\* was cancelled, shrunk or seeded since.
MarkersPoint ==
    \A d \in DOMAIN hist : \A i \in DOMAIN hist[d] :
        hist[d][i].body = "marker" =>
            \E j \in Found(hist[d], hist[d][i].key) : j > i /\ hist[d][j].body # "marker"

\* Not kept by the code (see the README): that newer body is not an error.
ContentKept ==
    \A d \in DOMAIN hist : \A i \in DOMAIN hist[d] :
        hist[d][i].body = "marker" => hist[d][i].key \in Full(hist[d])

Sends == pc = "ready" /\ requests' # requests

\* "Pruning is free" when the cache is cold: no request goes out then with bodies
\* that could be elided, although the plan is only made when the history has
\* changed its length since it was made at this depth.
ColdRequestsPruned == [][Sends /\ Cold(idle) => Superseded(hist'[Len(hist')]) = {}]_windowVars

\* An entry other than the newest, which waits to be the prompt, is not what it was.
Rewritten(d) ==
    \E i \in 1..(Len(hist[d]) - 1) : i \notin DOMAIN hist'[d] \/ hist'[d][i] # hist[d][i]

\* "Cache hot: resume on the full context" (deleg_shrink.rs): unless the human asked
\* for it or is told of the broken cache, no entry of a paused or running frame is
\* rewritten while the provider still has the prefix, whoever else has sent on the
\* session since.
WarmPrefixKept ==
    [][\A d \in DOMAIN hist \cap DOMAIN hist' :
         caching /\ pc # "idle" /\ ~ (Sends /\ breaking') /\ Rewritten(d) =>
            age[d] >= TTL]_windowVars

\* "The new agent gets the current content without a round-trip" (compact.rs): the
\* first message of the fresh session brings every body that stood in the old one,
\* also of calls that failed at other times.  Where the seeds were not stored, or the
\* worker that took them has ended, they are lost.
WorkingSetCarried == heir.phase = "told" /\ ~ heir.lost => heir.shown \subseteq heir.context
=============================================================================
