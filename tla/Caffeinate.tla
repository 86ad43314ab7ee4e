------------------------------ MODULE Caffeinate ------------------------------
(***************************************************************************)
(* /caffeinate: one daemon keeps the machine awake on behalf of its clients*)
(* (daemon/caffeinate.rs), turns it off by itself in the mode until-idle   *)
(* (daemon/server.rs), and tells every client, which shows a glyph.        *)
(*                                                                         *)
(* The controller is one mutex: the operating-system assertion is held as  *)
(* long as the mode is not "off".  What a request does after it - to tell  *)
(* the clients, to start a watcher - is a second step of its task, and the *)
(* runtime has several threads.  A watcher sleeps, looks whether the mode  *)
(* still asks for it, counts the running agents, and decides, each on its  *)
(* own.  Whether an agent runs it reads from flags which the forwarder of  *)
(* each session keeps from the events of its driver.                       *)
(***************************************************************************)
EXTENDS Naturals, Sequences, FiniteSets

CONSTANTS Clients, Sessions,
          BusCap, \* capacity of the daemon-global broadcast channel
          MaxRequests, MaxConnects, MaxTurns \* bounds

ASSUME CaffeinateAssumption ==
    /\ BusCap \in Nat \ {0} /\ Clients \cap Nat = {}
    /\ {MaxRequests, MaxConnects, MaxTurns} \subseteq Nat

VARIABLES
    mode,     \* CaffeineState: "off", "on" or "until_idle" (both flags set)
    client,   \* client[c]: its connection, what it shows, its request
    watcher,  \* watcher[n]: the watcher the n-th request has started
    agent,    \* agent[s]: "idle", "working" or "dead"
    job,      \* job[s]: an asynchronous job is alive
    news,     \* news[s]: events of the driver the forwarder has not seen
    live,     \* live[s]: the flags of LiveState
    listed,   \* listed: the sessions whose worker is in the registry
    requests, connects, turns, \* counters
    newest,   \* history: who changed or read the mode last for an announcement
    inOrder,  \* history: the last announcement was that of `newest'
    asked     \* history: what the last human asked for and was not refused

serverVars == <<mode, client, watcher, newest, inOrder, asked>>
sessionVars == <<agent, job, news, live, listed, turns>>
caffeinateVars == <<serverVars, sessionVars, requests, connects>>

Modes == {"off", "on", "until_idle"}
Asks == Modes \cup {"toggle"}
Watchers == 1 .. MaxRequests
Away == [link |-> "down", bus |-> <<>>, glyph |-> FALSE, step |-> "none",
         told |-> "off", request |-> 0]
NoWatcher == [step |-> "none", running |-> FALSE]
Quiet == [processing |-> FALSE, jobs |-> FALSE]

CaffeinateTypeOK ==
    /\ mode \in Modes /\ asked \in Modes
    /\ client \in [Clients ->
         [link : {"down", "hello", "up"}, bus : Seq(BOOLEAN), glyph : BOOLEAN,
          step : {"none", "tell"}, told : Modes, request : 0 .. MaxRequests]]
    /\ \A c \in Clients : Len(client[c].bus) <= BusCap
    /\ watcher \in [Watchers ->
         [step : {"none", "sleep", "count", "decide", "tell"}, running : BOOLEAN]]
    /\ agent \in [Sessions -> {"idle", "working", "dead"}]
    /\ job \in [Sessions -> BOOLEAN]
    /\ news \in [Sessions -> Seq({"thinking", "idle", "started", "completed"})]
    /\ live \in [Sessions -> [processing : BOOLEAN, jobs : BOOLEAN]]
    /\ listed \subseteq Sessions
    /\ newest \in Clients \cup Watchers \cup {0} /\ inOrder \in BOOLEAN

CaffeinateInit ==
    /\ mode = "off" /\ asked = "off"
    /\ client = [c \in Clients |-> Away]
    /\ watcher = [n \in Watchers |-> NoWatcher]
    /\ agent = [s \in Sessions |-> "idle"]
    /\ job = [s \in Sessions |-> FALSE]
    /\ news = [s \in Sessions |-> <<>>]
    /\ live = [s \in Sessions |-> Quiet]
    /\ listed = Sessions
    /\ requests = 0 /\ connects = 0 /\ turns = 0
    /\ newest = 0 /\ inOrder = TRUE

Active(m) == m # "off"

-----------------------------------------------------------------------------
(* Telling the clients *)

\* Bug: a queue of each client's own, which refuses what does not fit.
BroadcastRefused(cs, m) ==
    [c \in Clients |->
       IF cs[c].link = "down" \/ Len(cs[c].bus) = BusCap THEN cs[c]
       ELSE [cs[c] EXCEPT !.bus = Append(@, Active(m))]]

(* broadcast_global: every subscribed connection; a receiver that is full  *)
(* loses its oldest event.                                                 *)
Broadcast(cs, m) ==
    [c \in Clients |->
       IF cs[c].link = "down" THEN cs[c]
       ELSE [cs[c] EXCEPT !.bus =
               Append(IF Len(@) = BusCap THEN Tail(@) ELSE @, Active(m))]]

(* handle_client subscribes before it reads the state it greets with. *)
Connect(c) ==
    /\ client[c].link = "down" /\ connects < MaxConnects
    /\ client' = [client EXCEPT ![c] = [Away EXCEPT !.link = "hello"]]
    /\ connects' = connects + 1
    /\ UNCHANGED <<mode, watcher, newest, inOrder, asked, sessionVars, requests>>

Hello(c) ==
    /\ client[c].link = "hello"
    /\ client' = [client EXCEPT ![c].link = "up", ![c].glyph = Active(mode)]
    /\ UNCHANGED <<mode, watcher, newest, inOrder, asked, sessionVars, requests,
                   connects>>

(* The event travels over the socket to the event task of the runner and   *)
(* is applied: always in order.                                            *)
Receive(c) ==
    /\ client[c].link = "up" /\ client[c].step = "none" /\ client[c].bus # <<>>
    /\ client' = [client EXCEPT ![c].glyph = Head(client[c].bus),
                                ![c].bus = Tail(@)]
    /\ UNCHANGED <<mode, watcher, newest, inOrder, asked, sessionVars, requests,
                   connects>>

(* A client exits; the assertion stays with the daemon. *)
Disconnect(c) ==
    /\ client[c].link = "up" /\ client[c].step = "none"
    /\ client' = [client EXCEPT ![c] = Away]
    /\ UNCHANGED <<mode, watcher, newest, inOrder, asked, sessionVars, requests,
                   connects>>

-----------------------------------------------------------------------------
(* Requests *)

Target(ask) == IF ask # "toggle" THEN ask
               ELSE IF Active(mode) THEN "off" ELSE "on"

(* CaffeineController::apply: a request that neither acquires nor releases *)
(* the assertion leaves the state as it is.                                *)
NextMode(ask) == IF Active(Target(ask)) = Active(mode) THEN mode ELSE Target(ask)

(* set_caffeinate, up to the end of the mutex.  No mechanism to acquire    *)
(* with: the state stays off and the request ends without an announcement. *)
Apply(c, ask) ==
    /\ client[c].link = "up" /\ client[c].step = "none" /\ requests < MaxRequests
    /\ requests' = requests + 1
    /\ \/ /\ mode' = NextMode(ask)
          /\ client' = [client EXCEPT ![c].step = "tell", ![c].told = mode',
                                      ![c].request = requests']
          /\ newest' = c /\ asked' = Target(ask)
       \/ /\ ~Active(mode) /\ Active(Target(ask))
          /\ UNCHANGED <<mode, client, newest, asked>>
    /\ UNCHANGED <<watcher, inOrder, sessionVars, connects>>

(* Its second half: announce, and arm a watcher. *)
Announce(c) ==
    LET told == client[c].told IN
    /\ client[c].step = "tell"
    /\ client' = [Broadcast(client, told) EXCEPT ![c].step = "none",
                                                 ![c].told = "off",
                                                 ![c].request = 0]
    /\ watcher' = IF told = "until_idle"
                  THEN [watcher EXCEPT ![client[c].request].step = "sleep"]
                  ELSE watcher
    /\ inOrder' = (newest = c)
    /\ UNCHANGED <<mode, newest, asked, sessionVars, requests, connects>>

-----------------------------------------------------------------------------
(* spawn_until_idle_watcher *)

Watch(n, from) ==
    /\ watcher[n].step = from
    /\ UNCHANGED <<sessionVars, requests, connects, asked>>

(* The poll interval is over: stop when the mode was superseded. *)
Look(n) ==
    /\ Watch(n, "sleep")
    /\ watcher' = [watcher EXCEPT
         ![n] = IF mode = "until_idle" THEN [@ EXCEPT !.step = "count"]
                ELSE NoWatcher]
    /\ UNCHANGED <<mode, client, newest, inOrder>>

(* any_agent_running: a registered worker in a turn or with a job. *)
Running(s) == s \in listed /\ (live[s].processing \/ live[s].jobs)

Count(n) ==
    /\ Watch(n, "count")
    /\ watcher' = [watcher EXCEPT ![n] =
         [step |-> "decide", running |-> \E s \in Sessions : Running(s)]]
    /\ UNCHANGED <<mode, client, newest, inOrder>>

\* Bug: a watcher that finds an agent running does not look again.
DecideOnce(n) ==
    /\ Watch(n, "decide")
    /\ IF mode = "until_idle" /\ ~watcher[n].running
       THEN /\ mode' = "off" /\ newest' = n
            /\ watcher' = [watcher EXCEPT ![n].step = "tell"]
       ELSE /\ watcher' = [watcher EXCEPT ![n] = NoWatcher]
            /\ UNCHANGED <<mode, newest>>
    /\ UNCHANGED <<client, inOrder>>

(* idle_check, which looks at the mode once more. *)
Decide(n) ==
    /\ Watch(n, "decide")
    /\ IF mode = "until_idle" /\ ~watcher[n].running
       THEN /\ mode' = "off" /\ newest' = n
            /\ watcher' = [watcher EXCEPT ![n].step = "tell"]
       ELSE /\ watcher' = [watcher EXCEPT ![n] = [NoWatcher EXCEPT !.step = "sleep"]]
            /\ UNCHANGED <<mode, newest>>
    /\ UNCHANGED <<client, inOrder>>

TellOff(n) ==
    /\ Watch(n, "tell")
    /\ client' = Broadcast(client, "off")
    /\ watcher' = [watcher EXCEPT ![n] = NoWatcher]
    /\ inOrder' = (newest = n)
    /\ UNCHANGED <<mode, newest>>

-----------------------------------------------------------------------------
(* Sessions: the driver emits, the forwarder keeps the flags. *)

Say(s, e) == news' = [news EXCEPT ![s] = Append(@, e)]
SessionStep == UNCHANGED <<serverVars, requests, connects>>

Begin(s) ==
    /\ agent[s] = "idle" /\ s \in listed /\ turns < MaxTurns
    /\ agent' = [agent EXCEPT ![s] = "working"]
    /\ turns' = turns + 1
    /\ Say(s, "thinking")
    /\ SessionStep /\ UNCHANGED <<job, live, listed>>

End(s) ==
    /\ agent[s] = "working"
    /\ agent' = [agent EXCEPT ![s] = "idle"]
    /\ Say(s, "idle")
    /\ SessionStep /\ UNCHANGED <<job, live, listed, turns>>

(* An error the driver does not handle: it ends without AgentIdle, and its *)
(* handle stays in the registry.                                           *)
Die(s) ==
    /\ agent[s] = "working"
    /\ agent' = [agent EXCEPT ![s] = "dead"]
    /\ SessionStep /\ UNCHANGED <<job, news, live, listed, turns>>

StartJob(s) ==
    /\ agent[s] = "working" /\ ~job[s] /\ turns <= MaxTurns
    /\ job' = [job EXCEPT ![s] = TRUE]
    /\ Say(s, "started")
    /\ SessionStep /\ UNCHANGED <<agent, live, listed, turns>>

(* A job's end is reported at idle, and its result begins a turn. *)
EndJob(s) ==
    /\ agent[s] = "idle" /\ job[s]
    /\ job' = [job EXCEPT ![s] = FALSE]
    /\ agent' = [agent EXCEPT ![s] = "working"]
    /\ turns' = turns + 1
    /\ news' = [news EXCEPT ![s] = @ \o <<"completed", "thinking">>]
    /\ SessionStep /\ UNCHANGED <<live, listed>>

Forward(s) ==
    /\ news[s] # <<>>
    /\ news' = [news EXCEPT ![s] = Tail(@)]
    /\ live' = [live EXCEPT ![s] =
         CASE Head(news[s]) = "thinking" -> [@ EXCEPT !.processing = TRUE]
           [] Head(news[s]) = "idle" -> [@ EXCEPT !.processing = FALSE]
           [] Head(news[s]) = "started" -> [@ EXCEPT !.jobs = TRUE]
           [] Head(news[s]) = "completed" -> [@ EXCEPT !.jobs = FALSE]]
    /\ SessionStep /\ UNCHANGED <<agent, job, listed, turns>>

(* interrupt_and_stop: an archived session's worker is forgotten although  *)
(* its turn goes on.                                                       *)
Forget(s) ==
    /\ s \in listed
    /\ listed' = listed \ {s}
    /\ SessionStep /\ UNCHANGED <<agent, job, news, live, turns>>

WatcherStep(n) == Look(n) \/ Count(n) \/ Decide(n) \/ TellOff(n)
CaffeinateNext ==
    \/ \E c \in Clients : \/ Connect(c) \/ Hello(c) \/ Receive(c) \/ Disconnect(c)
                          \/ \E ask \in Asks : Apply(c, ask)
                          \/ Announce(c)
    \/ \E n \in Watchers : WatcherStep(n)
    \/ \E s \in Sessions : \/ Begin(s) \/ End(s) \/ Die(s) \/ StartJob(s)
                           \/ EndJob(s) \/ Forward(s) \/ Forget(s)

(* The tasks of the daemon run.  No turn and no job need ever end. *)
Fairness ==
    /\ \A c \in Clients : WF_caffeinateVars(Hello(c)) /\ WF_caffeinateVars(Announce(c))
                          /\ WF_caffeinateVars(Receive(c))
    /\ \A n \in Watchers : WF_caffeinateVars(WatcherStep(n))
    /\ \A s \in Sessions : WF_caffeinateVars(Forward(s))

CaffeinateSpec == CaffeinateInit /\ [][CaffeinateNext]_caffeinateVars /\ Fairness

-----------------------------------------------------------------------------
(* Properties *)

(* An agent is at work. *)
AtWork(s) == agent[s] = "working" \/ job[s]

TurnsItselfOff == \E n \in Watchers : Decide(n) /\ mode' # mode

Settled(c) ==
    /\ client[c].link = "up" /\ client[c].bus = <<>>
    /\ \A d \in Clients : client[d].step = "none"
    /\ \A n \in Watchers : watcher[n].step # "tell"

(* "On connect, sync the client's caffeinate glyph to the daemon's current *)
(* state" and "re-synced on the next change" (server.rs:285, 331): when no *)
(* event is under way a client shows the mode, whenever it connected and   *)
(* whatever it lost, unless two announcements overtook each other.         *)
GlyphFollows ==
    \A c \in Clients : Settled(c) /\ inOrder => client[c].glyph = Active(mode)

(* "On, then auto-disable once no agent is running" (caffeinate.rs:97):    *)
(* until-idle ends, unless an agent is at work or one died in its turn.    *)
UntilIdleEnds ==
    mode = "until_idle" ~>
        (mode # "until_idle" \/ \E s \in Sessions : AtWork(s) \/ agent[s] = "dead")

(* The same of agents that are really at work: "auto-disabled by the daemon*)
(* once no agent is running" (GOALS.md:147).                               *)
EndsOnceIdle ==
    mode = "until_idle" ~>
        (mode # "until_idle" \/ \E s \in Sessions : AtWork(s))

(* "A later on/off/toggle clears the flag, so the watcher must exit rather *)
(* than auto-off a now-explicit on" (caffeinate.rs:559).                   *)
ExplicitOnStays == [][TurnsItselfOff => asked = "until_idle"]_caffeinateVars

(* The glyph "appears (and clears ...) on every connected client in lock-  *)
(* step" (GOALS.md:111).                                                   *)
GlyphInLockstep ==
    \A c \in Clients : Settled(c) => client[c].glyph = Active(mode)
=============================================================================
