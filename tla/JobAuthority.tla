----------------------------- MODULE JobAuthority -----------------------------
(***************************************************************************)
(* The asynchronous jobs of a session: the authority and its registry      *)
(* (engine/jobs/authority.rs), the tasks it spawns (loop_runner.rs,        *)
(* background.rs), the part of the driver loop that serves them            *)
(* (engine/driver.rs) and the session worker that owns the driver and      *)
(* counts live jobs off its events (daemon/session_worker.rs).             *)
(*                                                                         *)
(* The driver is sequential: it waits at idle for a message, a job event or*)
(* a command, and runs a turn for each.  The model in a turn may start and *)
(* cancel jobs.  Timers and spawned tasks run beside it and reach it only  *)
(* through the bounded event channel, read at idle.                        *)
(*                                                                         *)
(* Prompts, results, backoff and the iterations inside a fork are left out:*)
(* a fork, like a shell command, runs as long as it likes.                 *)
(***************************************************************************)
EXTENDS Naturals, Sequences, SequencesExt, FiniteSets

CONSTANTS Loops,      \* loops and timers that run in the main context
          Forks,      \* loops that run on an ephemeral fork
          Commands,   \* background shell commands
          Limit,      \* Limit[j]: the iteration cap of loop j, or Unlimited
          Unlimited,
          MaxConcurrent, \* registry cap
          EventCap,   \* JOB_CHANNEL_CAPACITY
          MaxCancels  \* bound: cancellations by the human

Spawned == Forks \cup Commands
Jobs == Loops \cup Spawned

ASSUME JobsAssumption ==
    /\ Loops \cap Spawned = {} /\ Forks \cap Commands = {}
    /\ {"idle", "user", "result", "gone"} \cap Jobs = {}
    /\ Unlimited \notin Nat
    /\ Limit \in [Loops -> (Nat \ {0}) \cup {Unlimited}]
ASSUME BoundsAssumption ==
    MaxConcurrent \in Nat \ {0} /\ EventCap \in Nat \ {0} /\ MaxCancels \in Nat

VARIABLES
    registry,  \* the ids in JobAuthority.registry
    iteration, \* iteration[j]: completed iterations (kept at 0 if unlimited)
    task,      \* task[j]: the timer of a loop, the spawned task of another job
    events,    \* JobEvent channel
    cmds,      \* JobCommand channel: ids the human cancels
    cancels,   \* how often the human has cancelled
    turn,      \* what the driver does: a loop's id while it runs its iteration
    worker,    \* session worker: "serving", "draining" or "ended"
    active,    \* LiveState.active_jobs
    told,      \* told[j]: completions of j that reached the main context
    lost       \* the jobs with a completion that met a full channel

authority == <<registry, iteration, task, events, lost>>
vars == <<authority, cmds, cancels, turn, worker, active, told>>

Due(j)       == [kind |-> "due", job |-> j]
Completed(j) == [kind |-> "completed", job |-> j]
Events == {Due(j) : j \in Loops} \cup {Completed(j) : j \in Jobs}

InTurn == turn \notin {"idle", "gone"}
Room   == Len(events) < EventCap

TypeOK ==
    /\ registry \subseteq Jobs
    /\ iteration \in [Loops -> Nat]
    /\ task \in [Jobs -> {"new", "waiting", "sending", "done"}]
    /\ events \in Seq(Events) /\ Len(events) <= EventCap
    /\ cmds \in Seq(Jobs)
    /\ cancels \in 0..MaxCancels
    /\ turn \in {"idle", "user", "result", "gone"} \cup Loops
    /\ worker \in {"serving", "draining", "ended"}
    /\ active \in Nat
    /\ told \in [Jobs -> Nat]
    /\ lost \subseteq Jobs

Init ==
    /\ registry = {}
    /\ iteration = [j \in Loops |-> 0]
    /\ task = [j \in Jobs |-> "new"]
    /\ events = <<>>
    /\ cmds = <<>>
    /\ cancels = 0
    /\ turn = "idle"
    /\ worker = "serving"
    /\ active = 0
    /\ told = [j \in Jobs |-> 0]
    /\ lost = {}

-----------------------------------------------------------------------------
(* The session worker *)

\* A user message finds the driver gone: the worker stops.
Submit ==
    /\ worker = "serving"
    /\ turn = "gone"
    /\ worker' = "draining"
    /\ UNCHANGED <<authority, cmds, cancels, turn, active, told>>

\* /jobs cancel: the job strip shows every job that was started.
CancelJob(j) ==
    /\ worker = "serving"
    /\ task[j] # "new"
    /\ cancels < MaxCancels
    /\ cancels' = cancels + 1
    /\ cmds' = IF turn = "gone" THEN cmds ELSE Append(cmds, j)
    /\ UNCHANGED <<authority, turn, worker, active, told>>

\* Shutdown ends the work loop and drops the driver's input.
Shutdown ==
    /\ worker = "serving"
    /\ worker' = "draining"
    /\ UNCHANGED <<authority, cmds, cancels, turn, active, told>>

\* The forwarder ends when every sender of engine events is dropped; forks and
\* background jobs hold one each.
HoldsEvents(j) == j \in Spawned /\ task[j] \in {"waiting", "sending"}

WorkerExits ==
    /\ worker = "draining"
    /\ turn = "gone"
    /\ \A j \in Jobs : ~ HoldsEvents(j)
    /\ worker' = "ended"
    /\ UNCHANGED <<authority, cmds, cancels, turn, active, told>>

-----------------------------------------------------------------------------
(* The authority *)

AtCapacity == Cardinality(registry) >= MaxConcurrent

\* start_loop_in_context, start_loop_forked, start_background, from a turn.  JobStarted
\* is a try_send too; its channel is taken to have room.
Start(j) ==
    /\ InTurn
    /\ task[j] = "new"
    /\ ~ AtCapacity
    /\ registry' = registry \cup {j}
    /\ task' = [task EXCEPT ![j] = "waiting"]
    /\ active' = active + 1
    /\ UNCHANGED <<iteration, events, lost, cmds, cancels, turn, worker, told>>

\* try_send of a terminal completion.
TryComplete(j) ==
    IF Room THEN events' = Append(events, Completed(j)) /\ UNCHANGED lost
            ELSE lost' = lost \cup {j} /\ UNCHANGED events

\* cancel: drops the entry, aborts the timer or the task and reports the end.
Cancel(j) ==
    IF j \in registry
    THEN /\ registry' = registry \ {j}
         /\ task' = [task EXCEPT ![j] = "done"]
         /\ TryComplete(j)
         /\ UNCHANGED iteration
    ELSE UNCHANGED authority

\* loop.cancel and background.cancel, from a turn.
ModelCancels(j) ==
    /\ InTurn
    /\ j \in registry
    /\ Cancel(j)
    /\ UNCHANGED <<cmds, cancels, turn, worker, active, told>>

\* Bug: only the count, no new tick.
IterationFinished_NoRearm(j) ==
    /\ iteration' = [iteration EXCEPT ![j] = IF Limit[j] = Unlimited THEN 0 ELSE @ + 1]
    /\ UNCHANGED <<registry, task, events, lost>>

\* An iteration turn ended: count it, then finish the loop or arm the next tick.
IterationFinished(j) ==
    IF j \in registry
    THEN LET n == IF Limit[j] = Unlimited THEN 0 ELSE iteration[j] + 1 IN
         /\ iteration' = [iteration EXCEPT ![j] = n]
         /\ IF n = Limit[j]
            THEN registry' = registry \ {j} /\ TryComplete(j) /\ UNCHANGED task
            ELSE task' = [task EXCEPT ![j] = "waiting"] /\ UNCHANGED <<registry, events, lost>>
    ELSE UNCHANGED authority

-----------------------------------------------------------------------------
(* Timers and spawned tasks *)

\* The interval has passed; the fork or the command has come to its end.
Fires(j) ==
    /\ task[j] = "waiting"
    /\ task' = [task EXCEPT ![j] = "sending"]
    /\ UNCHANGED <<registry, iteration, events, lost, cmds, cancels, turn, worker,
                   active, told>>

\* Bug: try_send where the task should wait.
Send_Drops(j) ==
    /\ task[j] = "sending"
    /\ task' = [task EXCEPT ![j] = "done"]
    /\ events' = IF turn = "gone" \/ ~ Room THEN events
                 ELSE Append(events, IF j \in Loops THEN Due(j) ELSE Completed(j))
    /\ UNCHANGED <<registry, iteration, lost, cmds, cancels, turn, worker, active, told>>

\* send().await: waits for room, gives up when the driver is gone.
Send(j) ==
    /\ task[j] = "sending"
    /\ Room \/ turn = "gone"
    /\ task' = [task EXCEPT ![j] = "done"]
    /\ events' = IF turn = "gone" THEN events
                 ELSE Append(events, IF j \in Loops THEN Due(j) ELSE Completed(j))
    /\ UNCHANGED <<registry, iteration, lost, cmds, cancels, turn, worker, active, told>>

-----------------------------------------------------------------------------
(* The driver *)

\* A message, when there is one, becomes a turn; what was queued before the worker
\* began to drain is still run.  Messages that arrive in a turn are folded into it.
TakeMessage ==
    /\ turn = "idle"
    /\ worker # "ended"
    /\ turn' = "user"
    /\ UNCHANGED <<authority, cmds, cancels, worker, active, told>>

\* run_job_event, LoopIterationDue: the prompt becomes a turn.
TakeDue ==
    /\ turn = "idle"
    /\ events # <<>> /\ Head(events).kind = "due"
    /\ turn' = Head(events).job
    /\ events' = Tail(events)
    /\ UNCHANGED <<registry, iteration, task, lost, cmds, cancels, worker, active, told>>

\* Bug: the client event, and with it the counter, only for a job still registered.
TakeCompleted_Registered ==
    /\ turn = "idle"
    /\ events # <<>> /\ Head(events).kind = "completed"
    /\ told' = [told EXCEPT ![Head(events).job] = @ + 1]
    /\ active' = IF Head(events).job \in registry THEN active - 1 ELSE active
    /\ turn' = "result"
    /\ events' = Tail(events)
    /\ UNCHANGED <<registry, iteration, task, lost, cmds, cancels, worker>>

\* run_job_event, Completed: the event for the clients, then the result as a turn.
\* The counter saturates at zero.
TakeCompleted ==
    /\ turn = "idle"
    /\ events # <<>> /\ Head(events).kind = "completed"
    /\ told' = [told EXCEPT ![Head(events).job] = @ + 1]
    /\ active' = IF active = 0 THEN 0 ELSE active - 1
    /\ turn' = "result"
    /\ events' = Tail(events)
    /\ UNCHANGED <<registry, iteration, task, lost, cmds, cancels, worker>>

\* handle_command.
TakeCommand ==
    /\ turn = "idle"
    /\ cmds # <<>>
    /\ cmds' = Tail(cmds)
    /\ Cancel(Head(cmds))
    /\ UNCHANGED <<cancels, turn, worker, active, told>>

EndTurn ==
    /\ InTurn
    /\ IF turn \in Loops THEN IterationFinished(turn) ELSE UNCHANGED authority
    /\ turn' = "idle"
    /\ UNCHANGED <<cmds, cancels, worker, active, told>>

\* The driver loop ends: the authority and the receiving ends go, but nobody
\* aborts the tasks.
DriverEnds ==
    /\ turn' = "gone"
    /\ registry' = {}
    /\ events' = <<>>
    /\ cmds' = <<>>
    /\ UNCHANGED <<iteration, task, lost, cancels, worker, active, told>>

\* A turn fails, or the input is closed and drained.
TurnFails == InTurn /\ DriverEnds
InputCloses == turn = "idle" /\ worker = "draining" /\ DriverEnds

TakeEvent == TakeDue \/ TakeCompleted

Next ==
    \/ Submit \/ Shutdown \/ WorkerExits
    \/ TakeMessage \/ TakeEvent \/ TakeCommand
    \/ EndTurn \/ TurnFails \/ InputCloses
    \/ \E j \in Jobs : CancelJob(j) \/ Start(j) \/ ModelCancels(j) \/ Fires(j) \/ Send(j)

Spec == Init /\ [][Next]_vars

\* Turns end, timers fire, a sender with room sends, and the driver's select picks
\* at random among what is ready, so nothing ready is passed over for ever.  Neither
\* a fork nor a command need ever end.
Fairness ==
    /\ WF_vars(EndTurn) /\ WF_vars(WorkerExits)
    /\ SF_vars(TakeEvent) /\ SF_vars(TakeCommand) /\ SF_vars(InputCloses)
    /\ \A j \in Loops : WF_vars(Fires(j))
    /\ \A j \in Jobs : SF_vars(Send(j))

FairSpec == Spec /\ Fairness

-----------------------------------------------------------------------------
(* Properties *)

Running(j) == IF j \in Loops THEN j \in registry ELSE task[j] = "waiting"
Ended(j) == task[j] # "new" /\ ~ Running(j)

\* The places the next iteration of loop j can be.
Ticks(j) ==
    {t \in {"armed", "running"} : \/ t = "armed" /\ task[j] \in {"waiting", "sending"}
                                  \/ t = "running" /\ turn = j}
        \cup {i \in DOMAIN events : events[i] = Due(j)}

\* A live loop neither stalls nor runs twice: its next iteration is in exactly one
\* place, the timer, the channel or the driver.
OneTickPerLoop == \A j \in Loops : j \in registry => Cardinality(Ticks(j)) = 1

\* Every job that ends is reported to the main context as long as the driver lives:
\* a task waits for room in the channel.  Only a cancellation or a limit that meets
\* a full channel loses its report.
EndedJobsTold ==
    \A j \in Jobs : Ended(j) ~> (told[j] > 0 \/ turn = "gone" \/ j \in lost)

\* The status shown for a session that is not attached: when every job that was
\* started has reported, none is shown as running, though a job may report twice.
StatusClears ==
    (\A j \in Jobs : task[j] = "new" \/ told[j] > 0) => active = 0

\* "Always sends exactly one Completed at the end so the authority's registry entry
\* is reconciled" (loop_runner.rs): a job that has reported is not in the registry.
Reconciled == \A j \in registry : told[j] = 0

\* "The driver finishes its current turn and exits. Then the engine event channel
\* closes and the forwarder task exits" (session_worker.rs): a worker told to shut
\* down ends.
WorkerEnds == worker = "draining" ~> worker = "ended"

\* A cancelled loop runs no further turn.
CancelledLoopsStop == [][\A j \in Loops : turn # j /\ turn' = j => j \in registry]_vars

=============================================================================
