--------------------------------- MODULE Daemon ---------------------------------
(***************************************************************************)
(* One daemon from boot to exit: the registry of its session workers       *)
(* (SessionRegistry) within the life of its process - the accept loop      *)
(* (daemon/server.rs), the shutdown phase (daemon/shutdown.rs), the signals*)
(* and, for a daemon started for one foreground process, the watchdog that *)
(* reaps it when nobody is connected (daemon/mod.rs).                      *)
(*                                                                         *)
(* A client is a connection: it makes requests once it is connected, and a *)
(* request it has begun runs to its end.  The gate of the registry closes  *)
(* with the first request to shut down; the drain begins when the accept   *)
(* loop has seen it.                                                       *)
(***************************************************************************)
EXTENDS SessionRegistry

CONSTANT Ephemeral \* started for one foreground process

ASSUME DaemonAssumption == Ephemeral \in BOOLEAN

VARIABLES
    stage,    \* of the process: "booted", "serving", "draining", "exited"
    phase,    \* ShutdownPhase
    notified, \* the phase has changed since the accept loop subscribed
    present,  \* connected clients
    watchdog  \* the idle watchdog is at work

lifecycle == <<stage, phase, notified, present, watchdog>>
daemonVars == <<vars, lifecycle>>

DaemonTypeOK ==
    /\ TypeOK
    /\ stage \in {"booted", "serving", "draining", "exited"}
    /\ phase \in {"Running", "Draining", "Forced"}
    /\ notified \in BOOLEAN /\ watchdog \in BOOLEAN
    /\ present \subseteq Clients

DaemonInit ==
    /\ Init
    /\ stage = "booted" /\ phase = "Running" /\ notified = FALSE
    /\ present = {} /\ watchdog = Ephemeral

-----------------------------------------------------------------------------
(* Shutting down *)

(* request_shutdown: the first call closes the gate, a second one forces. *)
RequestShutdown ==
    /\ phase' = IF phase = "Running" THEN "Draining" ELSE "Forced"
    /\ notified' = (notified \/ (stage = "serving" /\ phase # "Forced"))
    /\ IF phase = "Running" THEN BeginDrain ELSE UNCHANGED vars

(* A signal, or the StopDaemon request of a client. *)
Stop ==
    /\ stage # "exited" /\ phase # "Forced"
    /\ RequestShutdown
    /\ UNCHANGED <<stage, present, watchdog>>

(* idle_watchdog: the countdown ran out and the count, read again, is zero.*)
Reap ==
    /\ watchdog /\ present = {} /\ stage # "exited"
    /\ watchdog' = FALSE
    /\ RequestShutdown
    /\ UNCHANGED <<stage, present>>

\* Bug: a drain begun before the subscription is not looked for.
SubscribeOnly ==
    /\ stage = "booted" /\ stage' = "serving"
    /\ UNCHANGED <<vars, phase, notified, present, watchdog>>

(* run_accept_loop subscribes, then returns at once if a drain has begun.  *)
(* Whenever it returns its caller requests the shutdown again.             *)
Subscribe ==
    /\ stage = "booted"
    /\ IF phase = "Running"
       THEN stage' = "serving" /\ UNCHANGED <<vars, phase, notified>>
       ELSE stage' = "draining" /\ RequestShutdown
    /\ UNCHANGED <<present, watchdog>>

AcceptLoopEnds ==
    /\ stage = "serving" /\ notified
    /\ stage' = "draining"
    /\ RequestShutdown
    /\ UNCHANGED <<present, watchdog>>

-----------------------------------------------------------------------------
(* Connections *)

Connect(c) ==
    /\ stage = "serving" /\ c \notin present
    /\ present' = present \cup {c}
    /\ UNCHANGED <<vars, stage, phase, notified, watchdog>>

Disconnect(c) ==
    /\ c \in present /\ Idle(c)
    /\ present' = present \ {c}
    /\ at' = [at EXCEPT ![c] = "none"]
    /\ UNCHANGED <<maps, task, row, request, shutdown, sent, overtaken>>
    /\ UNCHANGED <<stage, phase, notified, watchdog>>

Requests(c) ==
    \/ CheckGate(c)
    \/ \E s \in Sessions : \/ Lookup(c, s)
                           \/ \E op \in {"delete", "archive"} : AskShutdown(c, op, s)

(* The registry at work: what its requests, workers and tasks do. *)
Registry ==
    /\ \/ \E c \in present : Requests(c) \/ ServerStep(c)
       \/ \E w \in Workers : WorkerStep(w)
       \/ stage = "draining" /\ Drain
    /\ UNCHANGED lifecycle

(* drain_all has returned: the process ends. *)
ProcessExits ==
    /\ Exit
    /\ stage' = "exited"
    /\ UNCHANGED <<phase, notified, present, watchdog>>

DaemonNext ==
    \/ Stop \/ Reap \/ Subscribe \/ AcceptLoopEnds \/ ProcessExits
    \/ \E c \in Clients : Connect(c) \/ Disconnect(c)
    \/ Registry

(* The process runs, its timers fire, the drain has a deadline; clients    *)
(* and humans owe nothing, and no turn need ever end.                      *)
DaemonFairness ==
    /\ WF_daemonVars(Subscribe) /\ WF_daemonVars(AcceptLoopEnds)
    /\ WF_daemonVars(Reap)
    /\ WF_daemonVars(stage = "draining" /\ Drain /\ UNCHANGED lifecycle)
    /\ WF_daemonVars(ProcessExits)

DaemonSpec == DaemonInit /\ [][DaemonNext]_daemonVars /\ DaemonFairness

-----------------------------------------------------------------------------
(* Properties *)

(* A drain "may already have begun before we subscribed" (server.rs:184):  *)
(* whenever the daemon was told to stop, the accept loop has been notified,*)
(* has ended, or has yet to look.                                          *)
StopNoticed == phase # "Running" /\ stage = "serving" => notified

(* Hence a daemon told to stop exits, whatever its workers are in the      *)
(* middle of.  Checked with one client (MCDaemonEnds.cfg).                 *)
StopEnds == phase # "Running" ~> stage = "exited"

(* The watchdog "bounds the lifetime of an orphan": a daemon started for a *)
(* foreground process ends, or some client is connected.  Checked likewise.*)
OrphanEnds == Ephemeral ~> (present # {} \/ stage = "exited")
=============================================================================
