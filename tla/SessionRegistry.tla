---------------------------- MODULE SessionRegistry ----------------------------
(***************************************************************************)
(* The registry of session workers of one daemon (daemon/registry.rs) with *)
(* the requests that use it (daemon/server.rs: attach, SendUserMessage,    *)
(* delete, archive), the loop of a worker beside its driver                *)
(* (daemon/session_worker.rs) and the drain at shutdown.                   *)
(*                                                                         *)
(* Client tasks run in parallel; each serves one request at a time.  The   *)
(* registry's maps have a lock of their own, taken for one access, so a    *)
(* request that looks up and then inserts or removes is two steps.         *)
(*                                                                         *)
(* A turn takes as long as it likes; what happens inside it is in the      *)
(* module Conversation.  Who may ask, and when the drain begins and the    *)
(* process ends, is in the module Daemon, which completes the next-state   *)
(* relation.                                                               *)
(***************************************************************************)
EXTENDS Naturals, Sequences, SequencesExt, FiniteSets

CONSTANTS Sessions,
          Clients,
          Workers,    \* identities of worker tasks: bounds how many start
          MaxMessages \* bound: user messages

ASSUME RegistryAssumption ==
    "none" \notin Workers \cup Sessions /\ MaxMessages \in Nat

VARIABLES
    workers,  \* workers[s]: the handle registered for s
    joins,    \* joins[s]: whose JoinHandle is kept for s
    session,  \* session[w]: what w serves, "none" until it is spawned
    worker,   \* worker[w]: "serving", "closing", "ended"
    queue,    \* queue[w]: work channel
    input,    \* input[w]: messages the driver has not taken
    driver,   \* driver[w]: "idle", "running", "failed" or "ended"
    row,      \* row[s]: "live", "archived" or "deleted"
    request,  \* request[c]: what the task of client c is in the middle of
    at,       \* at[c]: the worker whose handle the client task holds
    gate,     \* ShutdownSignal: "running", "draining"
    awaited,  \* the workers drain_all waits for
    drain,    \* "none", "waiting", "clean" or "forced"
    sent,     \* user messages so far
    overtaken \* the sessions of which two requests overtook each other

task == <<session, worker, queue, input, driver>>
maps == <<workers, joins>>
shutdown == <<gate, awaited, drain>>
vars == <<maps, task, row, request, at, shutdown, sent, overtaken>>

Request(op, s) == [op |-> op, session |-> s]
NoRequest == Request("none", "none")
Ops == {"start", "send", "delete", "archive", "apply_delete", "apply_archive"}

TypeOK ==
    /\ {workers, joins} \subseteq [Sessions -> Workers \cup {"none"}]
    /\ session \in [Workers -> Sessions \cup {"none"}]
    /\ worker \in [Workers -> {"serving", "closing", "ended"}]
    /\ \A w \in Workers : Range(queue[w]) \subseteq {"message", "shutdown"}
    /\ input \in [Workers -> Nat]
    /\ driver \in [Workers -> {"idle", "running", "failed", "ended"}]
    /\ row \in [Sessions -> {"live", "archived", "deleted"}]
    /\ request \in [Clients -> {NoRequest} \cup
                      {Request(op, s) : op \in Ops, s \in Sessions}]
    /\ at \in [Clients -> Workers \cup {"none"}]
    /\ gate \in {"running", "draining"} /\ awaited \subseteq Workers
    /\ drain \in {"none", "waiting", "clean", "forced"}
    /\ sent \in 0 .. MaxMessages /\ overtaken \subseteq Sessions

Init ==
    /\ workers = [s \in Sessions |-> "none"] /\ joins = workers
    /\ session = [w \in Workers |-> "none"]
    /\ worker = [w \in Workers |-> "serving"]
    /\ queue = [w \in Workers |-> <<>>]
    /\ input = [w \in Workers |-> 0]
    /\ driver = [w \in Workers |-> "idle"]
    /\ row = [s \in Sessions |-> "live"]
    /\ request = [c \in Clients |-> NoRequest]
    /\ at = [c \in Clients |-> "none"]
    /\ gate = "running" /\ awaited = {} /\ drain = "none"
    /\ sent = 0 /\ overtaken = {}

Alive(w)   == session[w] # "none" /\ worker[w] # "ended"
Up         == drain \notin {"clean", "forced"}
Idle(c)    == Up /\ request[c] = NoRequest
Begins(c, op, s) == request' = [request EXCEPT ![c] = Request(op, s)]
Answers(c) == request' = [request EXCEPT ![c] = NoRequest]
Midway(ops, s) == \E c \in Clients : request[c] \in {Request(op, s) : op \in ops}

(* send_work fails once the worker has dropped its receiver. *)
Accepts(w) == w # "none" /\ worker[w] # "ended"
Enqueued(w, work) == [queue EXCEPT ![w] = Append(@, work)]

-----------------------------------------------------------------------------
(* Attach: a lookup, then, if it missed, a worker spawned and inserted. *)

\* Bug: an attach spawns a worker without looking for one.
SpawnAlways(c, s) ==
    /\ Idle(c) /\ row[s] # "deleted"
    /\ Begins(c, "start", s)
    /\ overtaken' = IF Midway({"start"}, s) THEN overtaken \cup {s} ELSE overtaken
    /\ UNCHANGED <<maps, task, row, at, shutdown, sent>>

Lookup(c, s) ==
    /\ Idle(c) /\ row[s] # "deleted"
    /\ IF workers[s] # "none"
       THEN at' = [at EXCEPT ![c] = workers[s]] /\ UNCHANGED <<request, overtaken>>
       ELSE /\ Begins(c, "start", s)
            /\ overtaken' = IF Midway({"start"}, s) THEN overtaken \cup {s}
                            ELSE overtaken
            /\ UNCHANGED at
    /\ UNCHANGED <<maps, task, row, shutdown, sent>>

StartWorker(c) ==
    LET s == request[c].session IN
    /\ Up /\ request[c].op = "start"
    /\ \E w \in Workers :
         /\ session[w] = "none"
         /\ session' = [session EXCEPT ![w] = s]
         /\ workers' = [workers EXCEPT ![s] = w]
         /\ joins' = [joins EXCEPT ![s] = w]
         /\ at' = [at EXCEPT ![c] = w]
    /\ Answers(c)
    /\ UNCHANGED <<worker, queue, input, driver, row, shutdown, sent, overtaken>>

-----------------------------------------------------------------------------
(* SendUserMessage: the gate is read, then the work is sent. *)

\* Bug: messages are accepted while the daemon drains.
GateIgnored == TRUE

GateOpen == gate = "running"

CheckGate(c) ==
    /\ Idle(c) /\ GateOpen /\ at[c] # "none" /\ sent < MaxMessages
    /\ Begins(c, "send", session[at[c]])
    /\ sent' = sent + 1
    /\ UNCHANGED <<maps, task, row, at, shutdown, overtaken>>

SendWork(c) ==
    /\ Up /\ request[c].op = "send"
    /\ queue' = IF Accepts(at[c]) THEN Enqueued(at[c], "message") ELSE queue
    /\ Answers(c)
    /\ UNCHANGED <<maps, session, worker, input, driver, row, at, shutdown, sent,
                   overtaken>>

-----------------------------------------------------------------------------
(* delete_session and archive_session: interrupt_and_stop, then the row. *)

AskShutdown(c, op, s) ==
    /\ Idle(c) /\ row[s] # "deleted"
    /\ queue' = IF Accepts(workers[s]) THEN Enqueued(workers[s], "shutdown")
                ELSE queue
    /\ IF workers[s] # "none" THEN Begins(c, op, s)
       ELSE Begins(c, IF op = "delete" THEN "apply_delete" ELSE "apply_archive", s)
    /\ UNCHANGED <<maps, session, worker, input, driver, row, at, shutdown, sent,
                   overtaken>>

(* forget removes whatever is registered by now; the worker it asked may   *)
(* still finish its turn.                                                  *)
Forget(c) ==
    LET s == request[c].session IN
    /\ Up /\ request[c].op \in {"delete", "archive"}
    /\ workers' = [workers EXCEPT ![s] = "none"]
    /\ joins' = [joins EXCEPT ![s] = "none"]
    /\ Begins(c, IF request[c].op = "delete" THEN "apply_delete"
                 ELSE "apply_archive", s)
    /\ overtaken' = IF workers[s] # "none" /\ Alive(workers[s])
                    THEN overtaken \cup {s} ELSE overtaken
    /\ UNCHANGED <<task, row, at, shutdown, sent>>

Apply(c) ==
    LET s == request[c].session IN
    /\ Up /\ request[c].op \in {"apply_delete", "apply_archive"}
    /\ row' = [row EXCEPT ![s] =
                 IF request[c].op = "apply_delete" THEN "deleted"
                 ELSE IF @ = "deleted" THEN @ ELSE "archived"]
    /\ Answers(c)
    /\ UNCHANGED <<maps, task, at, shutdown, sent, overtaken>>

-----------------------------------------------------------------------------
(* The worker and its driver, a task of its own. *)

(* A message is forwarded; if the driver is gone the worker breaks out of  *)
(* its loop, as it does on Shutdown.                                       *)
Serve(w) ==
    /\ Up /\ worker[w] = "serving" /\ queue[w] # <<>>
    /\ IF Head(queue[w]) = "message" /\ driver[w] # "failed"
       THEN input' = [input EXCEPT ![w] = @ + 1] /\ UNCHANGED worker
       ELSE worker' = [worker EXCEPT ![w] = "closing"] /\ UNCHANGED input
    /\ queue' = [queue EXCEPT ![w] = Tail(@)]
    /\ UNCHANGED <<maps, session, driver, row, request, at, shutdown, sent,
                   overtaken>>

BeginTurn(w) ==
    /\ Up /\ driver[w] = "idle" /\ input[w] > 0
    /\ input' = [input EXCEPT ![w] = @ - 1]
    /\ driver' = [driver EXCEPT ![w] = "running"]
    /\ UNCHANGED <<maps, session, worker, queue, row, request, at, shutdown, sent,
                   overtaken>>

(* A turn ends, or fails and ends the loop with what is left in its input. *)
EndTurn(w) ==
    /\ Up /\ driver[w] = "running"
    /\ \/ driver' = [driver EXCEPT ![w] = "idle"] /\ UNCHANGED input
       \/ /\ driver' = [driver EXCEPT ![w] = "failed"]
          /\ input' = [input EXCEPT ![w] = 0]
    /\ UNCHANGED <<maps, session, worker, queue, row, request, at, shutdown, sent,
                   overtaken>>

(* The input is dropped and the driver awaited: it takes what is left.  The*)
(* registry keeps the handle; what is behind Shutdown is lost.             *)
EndWorker(w) ==
    /\ Up /\ worker[w] = "closing"
    /\ driver[w] = "failed" \/ (driver[w] = "idle" /\ input[w] = 0)
    /\ worker' = [worker EXCEPT ![w] = "ended"]
    /\ driver' = [driver EXCEPT ![w] = IF @ = "idle" THEN "ended" ELSE @]
    /\ queue' = [queue EXCEPT ![w] = <<>>]
    /\ UNCHANGED <<maps, session, input, row, request, at, shutdown, sent,
                   overtaken>>

-----------------------------------------------------------------------------
(* Shutdown *)

BeginDrain ==
    /\ gate = "running"
    /\ gate' = "draining"
    /\ UNCHANGED <<maps, task, row, request, at, awaited, drain, sent, overtaken>>

Registered == {workers[s] : s \in Sessions} \ {"none"}

(* drain_all: the handles are copied, the joins taken, Shutdown sent. *)
Drain ==
    /\ gate = "draining" /\ drain = "none"
    /\ drain' = "waiting"
    /\ awaited' = {joins[s] : s \in Sessions} \ {"none"}
    /\ joins' = [s \in Sessions |-> "none"]
    /\ queue' = [w \in Workers |->
                   IF w \in Registered /\ Accepts(w)
                   THEN Append(queue[w], "shutdown") ELSE queue[w]]
    /\ UNCHANGED <<workers, session, worker, input, driver, row, request, at, gate,
                   sent, overtaken>>

(* All joins returned, or the grace period is over; the process exits. *)
Exit ==
    /\ drain = "waiting"
    /\ drain' = IF \A w \in awaited : worker[w] = "ended" THEN "clean"
                ELSE "forced"
    /\ UNCHANGED <<maps, task, row, request, at, gate, awaited, sent, overtaken>>

ServerStep(c) ==
    StartWorker(c) \/ SendWork(c) \/ Forget(c) \/ Apply(c)
WorkerStep(w) == Serve(w) \/ BeginTurn(w) \/ EndTurn(w) \/ EndWorker(w)

-----------------------------------------------------------------------------
(* Properties *)

Twins(s) == Cardinality({w \in Workers : session[w] = s /\ Alive(w)}) > 1

(* Two workers of a session live at once only if two attaches both missed  *)
(* in their lookup or a stopped worker was forgotten before it had ended;  *)
(* and a worker that lives is the registered one, up to the same races.    *)
AloneUnlessOvertaken ==
    \A s \in Sessions \ overtaken :
        /\ ~Twins(s)
        /\ \A w \in Workers : session[w] = s /\ Alive(w) => workers[s] = w

(* drain_all: "Returns true when every worker drained cleanly": then no    *)
(* turn of a registered worker is cut short by the exit, however late its  *)
(* client attached.                                                        *)
CleanDrainCutsNothing ==
    drain = "clean" => \A s \in Sessions \ overtaken :
        \A w \in Workers : session[w] = s => driver[w] # "running" /\ input[w] = 0

(* delete_session: "Don't delete out from under a running worker": stopping*)
(* it first "ends the current turn cleanly" (server.rs:1297-1299).         *)
NoTurnOnDeletedRow ==
    \A w \in Workers : driver[w] = "running" => row[session[w]] # "deleted"

(* Promises no run checks, as two races break them (see the README): "One  *)
(* alive at a time per session_id" (session_worker.rs:1), a draining daemon*)
(* rejects a message "rather than silently dropping" it (server.rs:458),   *)
(* and forget is "called when the worker exits" (registry.rs:213).         *)
OneWorkerAlive == \A s \in Sessions : ~Twins(s)
AcknowledgedIsServed ==
    \A w \in Workers : worker[w] = "closing" /\ driver[w] # "failed" =>
        "message" \notin Range(queue[w])
HandlesAccept ==
    \A s \in Sessions : workers[s] # "none" => Accepts(workers[s])
=============================================================================
