------------------------------ MODULE DaemonProofs ------------------------------
(***************************************************************************)
(* Machine-checked proofs about the daemon and its registry, for any       *)
(* sessions, clients, workers and number of messages.                      *)
(*                                                                         *)
(* IInv is the type invariant and the facts the properties rest on: what a *)
(* handle leads to, what an ended worker has left, which attach is in the  *)
(* middle of which session, and what a worker that was registered after    *)
(* the drain began can have been given.                                    *)
(***************************************************************************)
EXTENDS Daemon, FiniteSetTheorems, SequenceTheorems, TLAPS

Work == {"message", "shutdown"}

RequestSet == {NoRequest} \cup {Request(op, s) : op \in Ops, s \in Sessions}

\* DaemonTypeOK, and that a queue is a sequence, which TypeOK leaves unsaid.
RegistryShape ==
    /\ workers \in [Sessions -> Workers \cup {"none"}]
    /\ joins \in [Sessions -> Workers \cup {"none"}]
    /\ session \in [Workers -> Sessions \cup {"none"}]
    /\ worker \in [Workers -> {"serving", "closing", "ended"}]
    /\ queue \in [Workers -> Seq(Work)]
    /\ input \in [Workers -> Nat]
    /\ driver \in [Workers -> {"idle", "running", "failed", "ended"}]
    /\ row \in [Sessions -> {"live", "archived", "deleted"}]
    /\ request \in [Clients -> RequestSet]
    /\ at \in [Clients -> Workers \cup {"none"}]
    /\ gate \in {"running", "draining"} /\ awaited \subseteq Workers
    /\ drain \in {"none", "waiting", "clean", "forced"}
    /\ sent \in 0 .. MaxMessages /\ overtaken \subseteq Sessions

Shape ==
    /\ RegistryShape
    /\ stage \in {"booted", "serving", "draining", "exited"}
    /\ phase \in {"Running", "Draining", "Forced"}
    /\ notified \in BOOLEAN /\ watchdog \in BOOLEAN
    /\ present \subseteq Clients

\* What the proofs need of the registry's types, request by request.
Typed ==
    /\ workers \in [Sessions -> Workers \cup {"none"}]
    /\ joins \in [Sessions -> Workers \cup {"none"}]
    /\ session \in [Workers -> Sessions \cup {"none"}]
    /\ worker \in [Workers -> {"serving", "closing", "ended"}]
    /\ queue \in [Workers -> Seq(Work)]
    /\ input \in [Workers -> Nat]
    /\ driver \in [Workers -> {"idle", "running", "failed", "ended"}]
    /\ request \in [Clients -> [op : Ops \cup {"none"}, session : Sessions \cup {"none"}]]
    /\ \A c \in Clients : request[c].op # "none" => request[c].session \in Sessions
    /\ at \in [Clients -> Workers \cup {"none"}]

\* A handle leads to a worker that was spawned.
HandlesSpawned ==
    /\ \A c \in Clients : at[c] # "none" => session[at[c]] # "none"
    /\ \A s \in Sessions : workers[s] # "none" => session[workers[s]] # "none"
    /\ \A c \in Clients : request[c].op = "send" => at[c] # "none"

\* A worker that was not spawned has been given nothing.
Unborn ==
    \A w \in Workers : session[w] = "none" =>
        /\ worker[w] = "serving" /\ driver[w] = "idle"
        /\ queue[w] = <<>> /\ input[w] = 0

\* What is left of a driver that is gone, and of a worker that is.
GoneIsQuiet ==
    \A w \in Workers :
        /\ worker[w] = "ended" => driver[w] \in {"failed", "ended"}
        /\ driver[w] \in {"failed", "ended"} => input[w] = 0
        /\ driver[w] = "ended" => worker[w] = "ended"

\* An attach in the middle of its work is the only one of its session, and
\* nothing is registered for it.
StartsAlone ==
    \A s \in Sessions \ overtaken : \A c \in Clients :
        request[c] = Request("start", s) =>
            /\ workers[s] = "none"
            /\ \A d \in Clients : request[d] = Request("start", s) => d = c

\* Who lives is registered.
LivesRegistered ==
    \A s \in Sessions \ overtaken : \A w \in Workers :
        session[w] = s /\ Alive(w) => workers[s] = w

\* Until the drain takes them, the join handles are those of the registry; and
\* the gate was closed before.
DrainOrder ==
    /\ drain = "none" => joins = workers
    /\ drain # "none" => gate = "draining"
    /\ drain = "clean" => \A w \in awaited : worker[w] = "ended"

\* A worker the drain does not wait for has no message, nor is one on its way.
Untouched(w) ==
    /\ driver[w] = "idle" /\ input[w] = 0
    /\ \A i \in 1 .. Len(queue[w]) : queue[w][i] = "shutdown"
    /\ \A c \in Clients : ~(request[c].op = "send" /\ at[c] = w)

LateUntouched ==
    drain \in {"waiting", "clean"} =>
        \A w \in Workers \ awaited :
            Alive(w) /\ session[w] \notin overtaken => Untouched(w)

IInv ==
    /\ Shape /\ HandlesSpawned /\ Unborn /\ GoneIsQuiet
    /\ StartsAlone /\ LivesRegistered /\ DrainOrder /\ LateUntouched
    /\ StopNoticed
-----------------------------------------------------------------------------
LEMMA RequestFacts ==
    /\ NoRequest \in RequestSet
    /\ \A op \in Ops, s \in Sessions : Request(op, s) \in RequestSet
    /\ \A r \in RequestSet :
          /\ r \in [op : Ops \cup {"none"}, session : Sessions \cup {"none"}]
          /\ r.op # "none" => r.session \in Sessions
<1>1. \A op \in Ops, s \in Sessions :
         /\ Request(op, s) \in [op : Ops \cup {"none"}, session : Sessions \cup {"none"}]
         /\ Request(op, s).session = s
  BY DEF Request
<1>2. /\ NoRequest \in [op : Ops \cup {"none"}, session : Sessions \cup {"none"}]
      /\ NoRequest.op = "none"
  BY DEF Request, NoRequest
<1>3. ASSUME NEW r \in RequestSet
      PROVE  r = NoRequest \/ \E op \in Ops, s \in Sessions : r = Request(op, s)
  BY DEF RequestSet
<1>4. /\ NoRequest \in RequestSet
      /\ \A op \in Ops, s \in Sessions : Request(op, s) \in RequestSet
  BY DEF RequestSet
<1> QED BY <1>1, <1>2, <1>3, <1>4

LEMMA ShapeTyped == Shape => Typed
<1> SUFFICES ASSUME Shape PROVE Typed
  OBVIOUS
<1>1. \A c \in Clients : request[c] \in RequestSet
  BY DEF Shape, RegistryShape
<1>2. request \in [Clients -> [op : Ops \cup {"none"}, session : Sessions \cup {"none"}]]
  BY <1>1, RequestFacts DEF Shape, RegistryShape
<1>3. \A c \in Clients : request[c].op # "none" => request[c].session \in Sessions
  BY <1>1, RequestFacts
<1> QED BY <1>2, <1>3 DEF Shape, RegistryShape, Typed

LEMMA ShapeTypeOK == Shape => DaemonTypeOK
<1> SUFFICES ASSUME Shape PROVE DaemonTypeOK
  OBVIOUS
<1>1. ASSUME NEW w \in Workers PROVE Range(queue[w]) \subseteq {"message", "shutdown"}
  <2>1. queue[w] \in Seq(Work)
    BY DEF Shape, RegistryShape
  <2> QED BY <2>1 DEF Range, Work
<1> QED BY <1>1 DEF Shape, RegistryShape, DaemonTypeOK, TypeOK, RequestSet

\* What connections, signals and the accept loop do leaves the registry alone,
\* but for the gate, which they close.
Aside ==
    /\ UNCHANGED <<maps, task, row, request, at, awaited, drain, sent, overtaken>>
    /\ gate' \in {gate, "draining"}

LEMMA StepKinds ==
    ASSUME Shape, [DaemonNext]_daemonVars
    PROVE  \/ Aside \/ Exit \/ Drain
           \/ \E c \in Clients :
                 \/ Disconnect(c) \/ CheckGate(c)
                 \/ \E s \in Sessions : Lookup(c, s)
                 \/ \E s \in Sessions, op \in {"delete", "archive"} : AskShutdown(c, op, s)
                 \/ StartWorker(c) \/ SendWork(c) \/ Forget(c) \/ Apply(c)
           \/ \E w \in Workers : Serve(w) \/ BeginTurn(w) \/ EndTurn(w) \/ EndWorker(w)
<1>1. ASSUME Stop \/ Reap PROVE Aside
  BY <1>1 DEF Stop, Reap, RequestShutdown, BeginDrain, Aside, vars, maps, task, shutdown
<1>2. ASSUME Subscribe PROVE Aside
  BY <1>2 DEF Subscribe, RequestShutdown, BeginDrain, Aside, vars, maps, task, shutdown
<1>3. ASSUME AcceptLoopEnds PROVE Aside
  BY <1>3 DEF AcceptLoopEnds, RequestShutdown, BeginDrain, Aside, vars, maps, task, shutdown
<1>4. ASSUME NEW c \in Clients, Connect(c) PROVE Aside
  BY <1>4 DEF Connect, Aside, vars, maps, task, shutdown
<1>5. ASSUME UNCHANGED daemonVars PROVE Aside
  BY <1>5 DEF daemonVars, Aside, vars, maps, task, shutdown
<1>6. ASSUME ProcessExits PROVE Exit
  BY <1>6 DEF ProcessExits
<1>7. present \subseteq Clients
  BY DEF Shape
<1> QED BY <1>1, <1>2, <1>3, <1>4, <1>5, <1>6, <1>7
        DEF DaemonNext, Registry, Requests, ServerStep, WorkerStep

LEMMA HandlesKept ==
    ASSUME Shape, Typed, HandlesSpawned, [DaemonNext]_daemonVars
    PROVE  HandlesSpawned'
<1> USE DEF Typed, HandlesSpawned, Request, NoRequest, maps, task, shutdown
<1>1. ASSUME Aside PROVE HandlesSpawned'
  BY RegistryAssumption, <1>1 DEF Aside
<1>2. ASSUME Exit PROVE HandlesSpawned'
  BY RegistryAssumption, <1>2 DEF Exit
<1>3. ASSUME Drain PROVE HandlesSpawned'
  BY RegistryAssumption, <1>3 DEF Drain, Registered, Accepts
<1>4. ASSUME NEW c \in Clients, Disconnect(c) PROVE HandlesSpawned'
  BY RegistryAssumption, <1>4 DEF Disconnect, Idle
<1>5. ASSUME NEW c \in Clients, CheckGate(c) PROVE HandlesSpawned'
  BY RegistryAssumption, <1>5 DEF CheckGate, Idle, Begins
<1>6. ASSUME NEW c \in Clients, NEW s \in Sessions, Lookup(c, s) PROVE HandlesSpawned'
  <2>1. CASE workers[s] # "none"
    BY SMTT(20), <1>6, <2>1 DEF Lookup, Idle
  <2>2. CASE workers[s] = "none"
    <3>1. request' = [request EXCEPT ![c] = Request("start", s)] /\ at' = at
      BY <1>6, <2>2 DEF Lookup, Begins
    <3> QED BY <1>6, <3>1 DEF Lookup
  <2> QED BY <2>1, <2>2
<1>7. ASSUME NEW c \in Clients, NEW s \in Sessions, NEW op \in {"delete", "archive"},
               AskShutdown(c, op, s) PROVE HandlesSpawned'
  <2>1. PICK next \in Ops \ {"send"} : request' = [request EXCEPT ![c] = Request(next, s)]
    BY <1>7 DEF AskShutdown, Begins, Ops
  <2> QED BY <1>7, <2>1 DEF AskShutdown
<1>8. ASSUME NEW c \in Clients, StartWorker(c) PROVE HandlesSpawned'
  BY RegistryAssumption, <1>8 DEF StartWorker, Answers
<1>9. ASSUME NEW c \in Clients, SendWork(c) PROVE HandlesSpawned'
  BY RegistryAssumption, <1>9 DEF SendWork, Answers, Enqueued, Accepts
<1>10. ASSUME NEW c \in Clients, Forget(c) PROVE HandlesSpawned'
  BY RegistryAssumption, <1>10 DEF Forget, Begins
<1>11. ASSUME NEW c \in Clients, Apply(c) PROVE HandlesSpawned'
  BY RegistryAssumption, <1>11 DEF Apply, Answers
<1>12. ASSUME NEW w \in Workers, Serve(w) PROVE HandlesSpawned'
  BY RegistryAssumption, <1>12 DEF Serve
<1>13. ASSUME NEW w \in Workers, BeginTurn(w) PROVE HandlesSpawned'
  BY RegistryAssumption, <1>13 DEF BeginTurn
<1>14. ASSUME NEW w \in Workers, EndTurn(w) PROVE HandlesSpawned'
  BY RegistryAssumption, <1>14 DEF EndTurn
<1>15. ASSUME NEW w \in Workers, EndWorker(w) PROVE HandlesSpawned'
  BY RegistryAssumption, <1>15 DEF EndWorker
<1> QED BY <1>1, <1>2, <1>3, <1>4, <1>5, <1>6, <1>7, <1>8, <1>9, <1>10, <1>11, <1>12, <1>13, <1>14, <1>15, StepKinds

LEMMA BirthsKept ==
    ASSUME Shape, Typed, HandlesSpawned, Unborn, [DaemonNext]_daemonVars
    PROVE  Unborn'
<1> USE DEF Typed, HandlesSpawned, Unborn, maps, task, shutdown
<1>1. ASSUME Aside PROVE Unborn'
  BY RegistryAssumption, <1>1 DEF Aside
<1>2. ASSUME Exit PROVE Unborn'
  BY RegistryAssumption, <1>2 DEF Exit
<1>3. ASSUME Drain PROVE Unborn'
  BY RegistryAssumption, <1>3 DEF Drain, Registered, Accepts
<1>4. ASSUME NEW c \in Clients, Disconnect(c) PROVE Unborn'
  BY RegistryAssumption, <1>4 DEF Disconnect, Idle
<1>5. ASSUME NEW c \in Clients, CheckGate(c) PROVE Unborn'
  BY RegistryAssumption, <1>5 DEF CheckGate, Idle, Begins
<1>6. ASSUME NEW c \in Clients, NEW s \in Sessions, Lookup(c, s) PROVE Unborn'
  BY RegistryAssumption, <1>6 DEF Lookup, Idle, Begins
<1>7. ASSUME NEW c \in Clients, NEW s \in Sessions, NEW op \in {"delete", "archive"},
               AskShutdown(c, op, s) PROVE Unborn'
  BY RegistryAssumption, <1>7 DEF AskShutdown, Idle, Begins, Enqueued, Accepts
<1>8. ASSUME NEW c \in Clients, StartWorker(c) PROVE Unborn'
  BY RegistryAssumption, <1>8 DEF StartWorker, Answers
<1>9. ASSUME NEW c \in Clients, SendWork(c) PROVE Unborn'
  BY RegistryAssumption, <1>9 DEF SendWork, Answers, Enqueued, Accepts
<1>10. ASSUME NEW c \in Clients, Forget(c) PROVE Unborn'
  BY RegistryAssumption, <1>10 DEF Forget, Begins
<1>11. ASSUME NEW c \in Clients, Apply(c) PROVE Unborn'
  BY RegistryAssumption, <1>11 DEF Apply, Answers
<1>12. ASSUME NEW w \in Workers, Serve(w) PROVE Unborn'
  BY RegistryAssumption, <1>12 DEF Serve
<1>13. ASSUME NEW w \in Workers, BeginTurn(w) PROVE Unborn'
  BY RegistryAssumption, <1>13 DEF BeginTurn
<1>14. ASSUME NEW w \in Workers, EndTurn(w) PROVE Unborn'
  BY RegistryAssumption, <1>14 DEF EndTurn
<1>15. ASSUME NEW w \in Workers, EndWorker(w) PROVE Unborn'
  BY RegistryAssumption, <1>15 DEF EndWorker
<1> QED BY <1>1, <1>2, <1>3, <1>4, <1>5, <1>6, <1>7, <1>8, <1>9, <1>10, <1>11, <1>12, <1>13, <1>14, <1>15, StepKinds

LEMMA QuietsKept ==
    ASSUME Shape, Typed, GoneIsQuiet, [DaemonNext]_daemonVars
    PROVE  GoneIsQuiet'
<1> USE DEF Typed, GoneIsQuiet, maps, task, shutdown
<1>1. ASSUME Aside PROVE GoneIsQuiet'
  BY RegistryAssumption, <1>1 DEF Aside
<1>2. ASSUME Exit PROVE GoneIsQuiet'
  BY RegistryAssumption, <1>2 DEF Exit
<1>3. ASSUME Drain PROVE GoneIsQuiet'
  BY RegistryAssumption, <1>3 DEF Drain, Registered, Accepts
<1>4. ASSUME NEW c \in Clients, Disconnect(c) PROVE GoneIsQuiet'
  BY RegistryAssumption, <1>4 DEF Disconnect, Idle
<1>5. ASSUME NEW c \in Clients, CheckGate(c) PROVE GoneIsQuiet'
  BY RegistryAssumption, <1>5 DEF CheckGate, Idle, Begins
<1>6. ASSUME NEW c \in Clients, NEW s \in Sessions, Lookup(c, s) PROVE GoneIsQuiet'
  BY RegistryAssumption, <1>6 DEF Lookup, Idle, Begins
<1>7. ASSUME NEW c \in Clients, NEW s \in Sessions, NEW op \in {"delete", "archive"},
               AskShutdown(c, op, s) PROVE GoneIsQuiet'
  BY RegistryAssumption, <1>7 DEF AskShutdown, Idle, Begins, Enqueued, Accepts
<1>8. ASSUME NEW c \in Clients, StartWorker(c) PROVE GoneIsQuiet'
  BY RegistryAssumption, <1>8 DEF StartWorker, Answers
<1>9. ASSUME NEW c \in Clients, SendWork(c) PROVE GoneIsQuiet'
  BY RegistryAssumption, <1>9 DEF SendWork, Answers, Enqueued, Accepts
<1>10. ASSUME NEW c \in Clients, Forget(c) PROVE GoneIsQuiet'
  BY RegistryAssumption, <1>10 DEF Forget, Begins
<1>11. ASSUME NEW c \in Clients, Apply(c) PROVE GoneIsQuiet'
  BY RegistryAssumption, <1>11 DEF Apply, Answers
<1>12. ASSUME NEW w \in Workers, Serve(w) PROVE GoneIsQuiet'
  BY RegistryAssumption, <1>12 DEF Serve
<1>13. ASSUME NEW w \in Workers, BeginTurn(w) PROVE GoneIsQuiet'
  BY RegistryAssumption, <1>13 DEF BeginTurn
<1>14. ASSUME NEW w \in Workers, EndTurn(w) PROVE GoneIsQuiet'
  BY RegistryAssumption, <1>14 DEF EndTurn
<1>15. ASSUME NEW w \in Workers, EndWorker(w) PROVE GoneIsQuiet'
  BY RegistryAssumption, <1>15 DEF EndWorker
<1> QED BY <1>1, <1>2, <1>3, <1>4, <1>5, <1>6, <1>7, <1>8, <1>9, <1>10, <1>11, <1>12, <1>13, <1>14, <1>15, StepKinds

LEMMA StartsKept ==
    ASSUME Shape, Typed, StartsAlone, [DaemonNext]_daemonVars
    PROVE  StartsAlone'
<1> USE DEF Typed, StartsAlone, Request, NoRequest, Midway, maps, task, shutdown
<1>1. ASSUME Aside PROVE StartsAlone'
  BY RegistryAssumption, <1>1 DEF Aside
<1>2. ASSUME Exit PROVE StartsAlone'
  BY RegistryAssumption, <1>2 DEF Exit
<1>3. ASSUME Drain PROVE StartsAlone'
  BY RegistryAssumption, <1>3 DEF Drain, Registered, Accepts
<1>4. ASSUME NEW c \in Clients, Disconnect(c) PROVE StartsAlone'
  BY RegistryAssumption, <1>4 DEF Disconnect, Idle
<1>5. ASSUME NEW c \in Clients, CheckGate(c) PROVE StartsAlone'
  BY RegistryAssumption, <1>5 DEF CheckGate, Idle, Begins
<1>6. ASSUME NEW c \in Clients, NEW s \in Sessions, Lookup(c, s) PROVE StartsAlone'
  <2>1. CASE workers[s] # "none"
    BY <1>6, <2>1 DEF Lookup
  <2>2. CASE workers[s] = "none"
    <3>1. request' = [request EXCEPT ![c] = Request("start", s)] /\ UNCHANGED workers
      BY <1>6, <2>2 DEF Lookup, Begins
    <3>2. ASSUME s \notin overtaken' PROVE \A d \in Clients : request[d] # Request("start", s)
      BY <1>6, <2>2, <3>2 DEF Lookup
    <3>3. overtaken \subseteq overtaken'
      BY <1>6, <2>2 DEF Lookup
    <3>4. \A r \in Sessions \ {s}, d \in Clients :
             request'[d] = Request("start", r) => request[d] = Request("start", r)
      BY <3>1
    <3>5. ASSUME s \notin overtaken', NEW d \in Clients, request'[d] = Request("start", s)
          PROVE  d = c
      BY <3>1, <3>2, <3>5
    <3> SUFFICES ASSUME NEW r \in Sessions \ overtaken', NEW d \in Clients,
                        request'[d] = Request("start", r)
                 PROVE  /\ workers'[r] = "none"
                        /\ \A e \in Clients : request'[e] = Request("start", r) => e = d
      OBVIOUS
    <3>6. CASE r = s
      BY <2>2, <3>1, <3>5, <3>6
    <3>7. CASE r # s
      BY <3>1, <3>3, <3>4, <3>7
    <3> QED BY <3>6, <3>7
  <2> QED BY <2>1, <2>2
<1>7. ASSUME NEW c \in Clients, NEW s \in Sessions, NEW op \in {"delete", "archive"},
               AskShutdown(c, op, s) PROVE StartsAlone'
  <2>1. PICK next \in Ops \ {"start"} : request' = [request EXCEPT ![c] = Request(next, s)]
    BY <1>7 DEF AskShutdown, Begins, Ops
  <2> QED BY <1>7, <2>1 DEF AskShutdown
<1>8. ASSUME NEW c \in Clients, StartWorker(c) PROVE StartsAlone'
  <2> DEFINE t == request[c].session
  <2>1. /\ t \in Sessions /\ request[c] = Request("start", t)
        /\ request' = [request EXCEPT ![c] = NoRequest] /\ UNCHANGED overtaken
    BY <1>8 DEF StartWorker, Answers
  <2>2. \A s \in Sessions \ {t} : workers'[s] = workers[s]
    BY <1>8 DEF StartWorker
  <2>3. ASSUME NEW d \in Clients, t \notin overtaken PROVE request'[d] # Request("start", t)
    <3>1. CASE d = c
      <4>1. request'[d].op = "none"
        BY <2>1, <3>1
      <4> QED BY <4>1
    <3>2. CASE d # c
      <4>1. request[d] # Request("start", t)
        BY <2>1, <2>3, <3>2
      <4>2. request'[d] = request[d]
        BY <2>1, <3>2
      <4> QED BY <4>1, <4>2
    <3> QED BY <3>1, <3>2
  <2>4. \A d \in Clients, s \in Sessions \ {t} :
           request'[d] = Request("start", s) <=> request[d] = Request("start", s)
    BY <2>1
  <2> QED BY <2>1, <2>2, <2>3, <2>4
<1>9. ASSUME NEW c \in Clients, SendWork(c) PROVE StartsAlone'
  BY RegistryAssumption, <1>9 DEF SendWork, Answers, Enqueued, Accepts
<1>10. ASSUME NEW c \in Clients, Forget(c) PROVE StartsAlone'
  BY RegistryAssumption, <1>10 DEF Forget, Begins
<1>11. ASSUME NEW c \in Clients, Apply(c) PROVE StartsAlone'
  BY RegistryAssumption, <1>11 DEF Apply, Answers
<1>12. ASSUME NEW w \in Workers, Serve(w) PROVE StartsAlone'
  BY RegistryAssumption, <1>12 DEF Serve
<1>13. ASSUME NEW w \in Workers, BeginTurn(w) PROVE StartsAlone'
  BY RegistryAssumption, <1>13 DEF BeginTurn
<1>14. ASSUME NEW w \in Workers, EndTurn(w) PROVE StartsAlone'
  BY RegistryAssumption, <1>14 DEF EndTurn
<1>15. ASSUME NEW w \in Workers, EndWorker(w) PROVE StartsAlone'
  BY RegistryAssumption, <1>15 DEF EndWorker
<1> HIDE DEF StartsAlone, Request, NoRequest, Midway, maps, task, shutdown
<1> QED BY <1>1, <1>2, <1>3, <1>4, <1>5, <1>6, <1>7, <1>8, <1>9, <1>10, <1>11, <1>12, <1>13, <1>14, <1>15, StepKinds

LEMMA LivesKept ==
    ASSUME Shape, Typed, StartsAlone, LivesRegistered, [DaemonNext]_daemonVars
    PROVE  LivesRegistered'
<1> USE DEF Typed, StartsAlone, LivesRegistered, Alive, Request, NoRequest, maps, task, shutdown
<1>1. ASSUME Aside PROVE LivesRegistered'
  BY RegistryAssumption, <1>1 DEF Aside
<1>2. ASSUME Exit PROVE LivesRegistered'
  BY RegistryAssumption, <1>2 DEF Exit
<1>3. ASSUME Drain PROVE LivesRegistered'
  BY RegistryAssumption, <1>3 DEF Drain, Registered, Accepts
<1>4. ASSUME NEW c \in Clients, Disconnect(c) PROVE LivesRegistered'
  BY RegistryAssumption, <1>4 DEF Disconnect, Idle
<1>5. ASSUME NEW c \in Clients, CheckGate(c) PROVE LivesRegistered'
  BY RegistryAssumption, <1>5 DEF CheckGate, Idle, Begins
<1>6. ASSUME NEW c \in Clients, NEW s \in Sessions, Lookup(c, s) PROVE LivesRegistered'
  BY RegistryAssumption, <1>6 DEF Lookup, Idle, Begins
<1>7. ASSUME NEW c \in Clients, NEW s \in Sessions, NEW op \in {"delete", "archive"},
               AskShutdown(c, op, s) PROVE LivesRegistered'
  BY RegistryAssumption, <1>7 DEF AskShutdown, Idle, Begins, Enqueued, Accepts
<1>8. ASSUME NEW c \in Clients, StartWorker(c) PROVE LivesRegistered'
  BY RegistryAssumption, <1>8 DEF StartWorker, Answers
<1>9. ASSUME NEW c \in Clients, SendWork(c) PROVE LivesRegistered'
  BY RegistryAssumption, <1>9 DEF SendWork, Answers, Enqueued, Accepts
<1>10. ASSUME NEW c \in Clients, Forget(c) PROVE LivesRegistered'
  BY RegistryAssumption, <1>10 DEF Forget, Begins
<1>11. ASSUME NEW c \in Clients, Apply(c) PROVE LivesRegistered'
  BY RegistryAssumption, <1>11 DEF Apply, Answers
<1>12. ASSUME NEW w \in Workers, Serve(w) PROVE LivesRegistered'
  BY RegistryAssumption, <1>12 DEF Serve
<1>13. ASSUME NEW w \in Workers, BeginTurn(w) PROVE LivesRegistered'
  BY RegistryAssumption, <1>13 DEF BeginTurn
<1>14. ASSUME NEW w \in Workers, EndTurn(w) PROVE LivesRegistered'
  BY RegistryAssumption, <1>14 DEF EndTurn
<1>15. ASSUME NEW w \in Workers, EndWorker(w) PROVE LivesRegistered'
  BY RegistryAssumption, <1>15 DEF EndWorker
<1> QED BY <1>1, <1>2, <1>3, <1>4, <1>5, <1>6, <1>7, <1>8, <1>9, <1>10, <1>11, <1>12, <1>13, <1>14, <1>15, StepKinds

LEMMA OrdersKept ==
    ASSUME Shape, Typed, DrainOrder, [DaemonNext]_daemonVars
    PROVE  DrainOrder'
<1> USE DEF Typed, DrainOrder, Up, GateOpen, maps, task, shutdown
<1>1. ASSUME Aside PROVE DrainOrder'
  BY RegistryAssumption, <1>1 DEF Aside
<1>2. ASSUME Exit PROVE DrainOrder'
  BY RegistryAssumption, <1>2 DEF Exit
<1>3. ASSUME Drain PROVE DrainOrder'
  BY RegistryAssumption, <1>3 DEF Drain, Registered, Accepts
<1>4. ASSUME NEW c \in Clients, Disconnect(c) PROVE DrainOrder'
  BY RegistryAssumption, <1>4 DEF Disconnect, Idle
<1>5. ASSUME NEW c \in Clients, CheckGate(c) PROVE DrainOrder'
  BY RegistryAssumption, <1>5 DEF CheckGate, Idle, Begins
<1>6. ASSUME NEW c \in Clients, NEW s \in Sessions, Lookup(c, s) PROVE DrainOrder'
  BY RegistryAssumption, <1>6 DEF Lookup, Idle, Begins
<1>7. ASSUME NEW c \in Clients, NEW s \in Sessions, NEW op \in {"delete", "archive"},
               AskShutdown(c, op, s) PROVE DrainOrder'
  BY RegistryAssumption, <1>7 DEF AskShutdown, Idle, Begins, Enqueued, Accepts
<1>8. ASSUME NEW c \in Clients, StartWorker(c) PROVE DrainOrder'
  BY RegistryAssumption, <1>8 DEF StartWorker, Answers
<1>9. ASSUME NEW c \in Clients, SendWork(c) PROVE DrainOrder'
  BY RegistryAssumption, <1>9 DEF SendWork, Answers, Enqueued, Accepts
<1>10. ASSUME NEW c \in Clients, Forget(c) PROVE DrainOrder'
  BY RegistryAssumption, <1>10 DEF Forget, Begins
<1>11. ASSUME NEW c \in Clients, Apply(c) PROVE DrainOrder'
  BY RegistryAssumption, <1>11 DEF Apply, Answers
<1>12. ASSUME NEW w \in Workers, Serve(w) PROVE DrainOrder'
  BY RegistryAssumption, <1>12 DEF Serve
<1>13. ASSUME NEW w \in Workers, BeginTurn(w) PROVE DrainOrder'
  BY RegistryAssumption, <1>13 DEF BeginTurn
<1>14. ASSUME NEW w \in Workers, EndTurn(w) PROVE DrainOrder'
  BY RegistryAssumption, <1>14 DEF EndTurn
<1>15. ASSUME NEW w \in Workers, EndWorker(w) PROVE DrainOrder'
  BY RegistryAssumption, <1>15 DEF EndWorker
<1> QED BY <1>1, <1>2, <1>3, <1>4, <1>5, <1>6, <1>7, <1>8, <1>9, <1>10, <1>11, <1>12, <1>13, <1>14, <1>15, StepKinds

LEMMA LatesKept ==
    ASSUME Shape, Typed, HandlesSpawned, Unborn, LivesRegistered, DrainOrder,
           LateUntouched, [DaemonNext]_daemonVars
    PROVE  LateUntouched'
<1> USE DEF Typed, LateUntouched, Untouched, Alive, maps, task, shutdown
<1>1. ASSUME Aside PROVE LateUntouched'
  BY RegistryAssumption, <1>1 DEF Aside
<1>2. ASSUME Exit PROVE LateUntouched'
  BY RegistryAssumption, <1>2 DEF Exit
<1>3. ASSUME Drain PROVE LateUntouched'
  <2> SUFFICES ASSUME NEW w \in Workers \ awaited', Alive(w)', session[w] \notin overtaken
      PROVE FALSE
    BY <1>3 DEF Drain
  <2>1. session[w] \in Sessions /\ workers[session[w]] = w
    BY <1>3 DEF Drain, LivesRegistered
  <2>2. joins[session[w]] = w
    BY <1>3, <2>1 DEF Drain, DrainOrder
  <2> QED BY <1>3, <2>1, <2>2, RegistryAssumption DEF Drain
<1>4. ASSUME NEW c \in Clients, Disconnect(c) PROVE LateUntouched'
  BY RegistryAssumption, <1>4 DEF Disconnect, Idle
<1>5. ASSUME NEW c \in Clients, CheckGate(c) PROVE LateUntouched'
  BY <1>5 DEF CheckGate, GateOpen, DrainOrder
<1>6. ASSUME NEW c \in Clients, NEW s \in Sessions, Lookup(c, s) PROVE LateUntouched'
  <2>1. /\ UNCHANGED <<session, worker, queue, input, driver, awaited, drain>>
        /\ overtaken \subseteq overtaken' /\ request[c] = NoRequest
        /\ \/ UNCHANGED request /\ at' = [at EXCEPT ![c] = workers[s]]
           \/ UNCHANGED at /\ request' = [request EXCEPT ![c] = Request("start", s)]
    <3>1. CASE workers[s] # "none"
      BY <1>6, <3>1 DEF Lookup, Idle
    <3>2. CASE workers[s] = "none"
      BY <1>6, <3>2 DEF Lookup, Idle, Begins
    <3> QED BY <3>1, <3>2
  <2>2. \A d \in Clients : request'[d].op = "send" => request[d].op = "send" /\ at'[d] = at[d]
    <3>1. request[c].op = "none" /\ request'[c].op \in {"none", "start"}
      BY <2>1 DEF Request, NoRequest
    <3>2. \A d \in Clients \ {c} : request'[d] = request[d] /\ at'[d] = at[d]
      BY <2>1
    <3> QED BY <3>1, <3>2
  <2> QED BY <2>1, <2>2
<1>7. ASSUME NEW c \in Clients, NEW s \in Sessions, NEW op \in {"delete", "archive"},
               AskShutdown(c, op, s) PROVE LateUntouched'
  <2>1. PICK next \in Ops \ {"send"} : request' = [request EXCEPT ![c] = Request(next, s)]
    BY <1>7 DEF AskShutdown, Begins, Ops
  <2>2. \A d \in Clients : request'[d].op = "send" => request[d].op = "send"
    BY <2>1 DEF Request
  <2>3. \A w \in Workers : queue'[w] \in {queue[w], Append(queue[w], "shutdown")}
    <3>1. \/ queue' = queue
          \/ /\ workers[s] \in Workers
             /\ queue' = [queue EXCEPT ![workers[s]] = Append(queue[workers[s]], "shutdown")]
      BY <1>7 DEF AskShutdown, Enqueued, Accepts
    <3> QED BY <3>1
  <2>4. \A w \in Workers :
           (\A i \in 1 .. Len(queue[w]) : queue[w][i] = "shutdown") =>
              \A i \in 1 .. Len(queue'[w]) : queue'[w][i] = "shutdown"
    <3> SUFFICES ASSUME NEW w \in Workers,
                        \A i \in 1 .. Len(queue[w]) : queue[w][i] = "shutdown"
                 PROVE  \A i \in 1 .. Len(queue'[w]) : queue'[w][i] = "shutdown"
      OBVIOUS
    <3>1. queue[w] \in Seq(Work)
      OBVIOUS
    <3>2. CASE queue'[w] = Append(queue[w], "shutdown")
      BY <3>1, <3>2, AppendProperties DEF Work
    <3> QED BY <2>3, <3>2
  <2>5. /\ UNCHANGED <<session, worker, input, driver, at, awaited, drain, overtaken>>
    BY <1>7 DEF AskShutdown
  <2>6. ASSUME NEW w \in Workers, Untouched(w) PROVE Untouched(w)'
    BY ZenonT(40), <2>2, <2>4, <2>5, <2>6
  <2> QED BY <2>5, <2>6
<1>8. ASSUME NEW c \in Clients, StartWorker(c) PROVE LateUntouched'
  <2>1. PICK w \in Workers :
          /\ session[w] = "none" /\ at' = [at EXCEPT ![c] = w]
          /\ session' = [session EXCEPT ![w] = request[c].session]
    BY <1>8 DEF StartWorker
  <2>2. /\ UNCHANGED <<worker, queue, input, driver, awaited, drain, overtaken>>
        /\ request' = [request EXCEPT ![c] = NoRequest]
    BY <1>8 DEF StartWorker, Answers
  <2>3. \A d \in Clients : request'[d].op = "send" => request[d].op = "send" /\ at'[d] = at[d]
    BY <2>1, <2>2 DEF Request, NoRequest
  <2>4. Untouched(w)'
    BY <2>1, <2>2, <2>3 DEF Unborn, HandlesSpawned
  <2> QED BY <2>1, <2>2, <2>3, <2>4
<1>9. ASSUME NEW c \in Clients, SendWork(c) PROVE LateUntouched'
  BY RegistryAssumption, <1>9 DEF SendWork, Answers, Enqueued, Accepts
<1>10. ASSUME NEW c \in Clients, Forget(c) PROVE LateUntouched'
  <2>1. PICK next \in Ops \ {"send"} :
           request' = [request EXCEPT ![c] = Request(next, request[c].session)]
    BY <1>10 DEF Forget, Begins, Ops
  <2>2. \A d \in Clients : request'[d].op = "send" => request[d].op = "send"
    BY <2>1 DEF Request
  <2>3. overtaken \subseteq overtaken'
    BY <1>10 DEF Forget
  <2> QED BY <1>10, <2>2, <2>3 DEF Forget
<1>11. ASSUME NEW c \in Clients, Apply(c) PROVE LateUntouched'
  BY <1>11 DEF Apply, Answers, Request, NoRequest
<1>12. ASSUME NEW w \in Workers, Serve(w) PROVE LateUntouched'
  BY RegistryAssumption, <1>12 DEF Serve
<1>13. ASSUME NEW w \in Workers, BeginTurn(w) PROVE LateUntouched'
  BY RegistryAssumption, <1>13 DEF BeginTurn
<1>14. ASSUME NEW w \in Workers, EndTurn(w) PROVE LateUntouched'
  BY RegistryAssumption, <1>14 DEF EndTurn
<1>15. ASSUME NEW w \in Workers, EndWorker(w) PROVE LateUntouched'
  BY RegistryAssumption, <1>15 DEF EndWorker
<1> HIDE DEF LateUntouched, Untouched, Alive
<1> QED BY <1>1, <1>2, <1>3, <1>4, <1>5, <1>6, <1>7, <1>8, <1>9, <1>10, <1>11, <1>12, <1>13, <1>14, <1>15, StepKinds

LEMMA RegistryShapeKept ==
    ASSUME Shape, RegistryShape, Typed, HandlesSpawned, [DaemonNext]_daemonVars
    PROVE  RegistryShape'
<1> USE DEF RegistryShape, maps, task, shutdown
<1>1. ASSUME Aside PROVE RegistryShape'
  BY RequestFacts, <1>1 DEF Aside
<1>2. ASSUME Exit PROVE RegistryShape'
  BY RequestFacts, <1>2 DEF Exit
<1>3. ASSUME Drain PROVE RegistryShape'
  BY RequestFacts, <1>3 DEF Drain, Registered, Accepts, Work
<1>4. ASSUME NEW c \in Clients, Disconnect(c) PROVE RegistryShape'
  BY RequestFacts, <1>4 DEF Disconnect, Idle
<1>5. ASSUME NEW c \in Clients, CheckGate(c) PROVE RegistryShape'
  <2>1. session[at[c]] \in Sessions /\ sent + 1 \in 0 .. MaxMessages
    BY <1>5, RegistryAssumption DEF CheckGate, HandlesSpawned
  <2>2. request' = [request EXCEPT ![c] = Request("send", session[at[c]])]
    BY <1>5 DEF CheckGate, Begins
  <2>3. request' \in [Clients -> RequestSet]
    BY <2>1, <2>2, RequestFacts DEF Ops
  <2> QED BY <1>5, <2>1, <2>3 DEF CheckGate
<1>6. ASSUME NEW c \in Clients, NEW s \in Sessions, Lookup(c, s) PROVE RegistryShape'
  <2>1. \/ /\ at' = [at EXCEPT ![c] = workers[s]]
           /\ UNCHANGED <<request, overtaken>>
        \/ /\ request' = [request EXCEPT ![c] = Request("start", s)] /\ UNCHANGED at
           /\ overtaken' \in {overtaken, overtaken \cup {s}}
    BY <1>6 DEF Lookup, Begins
  <2>2. Request("start", s) \in RequestSet
    BY RequestFacts DEF Ops
  <2>3. /\ request' \in [Clients -> RequestSet] /\ at' \in [Clients -> Workers \cup {"none"}]
        /\ overtaken' \subseteq Sessions
    <3>1. /\ request \in [Clients -> RequestSet] /\ at \in [Clients -> Workers \cup {"none"}]
          /\ workers[s] \in Workers \cup {"none"} /\ overtaken \subseteq Sessions
      OBVIOUS
    <3> QED BY ONLY <2>1, <2>2, <3>1, s \in Sessions, c \in Clients
  <2> QED BY <1>6, <2>3 DEF Lookup
<1>7. ASSUME NEW c \in Clients, NEW s \in Sessions, NEW op \in {"delete", "archive"},
               AskShutdown(c, op, s) PROVE RegistryShape'
  <2>1. PICK next \in Ops : request' = [request EXCEPT ![c] = Request(next, s)]
    BY <1>7 DEF AskShutdown, Begins, Ops
  <2>2. request' \in [Clients -> RequestSet]
    BY <2>1, RequestFacts
  <2>3. queue' \in [Workers -> Seq(Work)]
    <3>1. \A q \in Seq(Work) : Append(q, "shutdown") \in Seq(Work)
      BY DEF Work
    <3> QED BY <1>7, <3>1 DEF AskShutdown, Enqueued, Accepts
  <2> QED BY <1>7, <2>2, <2>3 DEF AskShutdown
<1>8. ASSUME NEW c \in Clients, StartWorker(c) PROVE RegistryShape'
  BY RequestFacts, <1>8 DEF StartWorker, Answers
<1>9. ASSUME NEW c \in Clients, SendWork(c) PROVE RegistryShape'
  BY RequestFacts, <1>9 DEF SendWork, Answers, Enqueued, Accepts, Work
<1>10. ASSUME NEW c \in Clients, Forget(c) PROVE RegistryShape'
  BY RequestFacts, <1>10 DEF Forget, Ops, Begins
<1>11. ASSUME NEW c \in Clients, Apply(c) PROVE RegistryShape'
  BY RequestFacts, <1>11 DEF Apply, Answers
<1>12. ASSUME NEW w \in Workers, Serve(w) PROVE RegistryShape'
  <2>1. queue[w] \in Seq(Work) /\ queue[w] # <<>>
    BY <1>12 DEF Serve
  <2>2. Tail(queue[w]) \in Seq(Work)
    BY <2>1
  <2>3. queue' \in [Workers -> Seq(Work)]
    BY <1>12, <2>2 DEF Serve
  <2>4. input' \in [Workers -> Nat] /\ worker' \in [Workers -> {"serving", "closing", "ended"}]
    <3>1. \/ input' = [input EXCEPT ![w] = @ + 1] /\ UNCHANGED worker
          \/ worker' = [worker EXCEPT ![w] = "closing"] /\ UNCHANGED input
      BY <1>12 DEF Serve
    <3>2. input \in [Workers -> Nat] /\ worker \in [Workers -> {"serving", "closing", "ended"}]
      OBVIOUS
    <3>3. CASE input' = [input EXCEPT ![w] = @ + 1] /\ UNCHANGED worker
      BY ONLY <3>2, <3>3, w \in Workers
    <3>4. CASE worker' = [worker EXCEPT ![w] = "closing"] /\ UNCHANGED input
      BY ONLY <3>2, <3>4, w \in Workers
    <3> QED BY <3>1, <3>3, <3>4
  <2> QED BY <1>12, <2>3, <2>4 DEF Serve
<1>13. ASSUME NEW w \in Workers, BeginTurn(w) PROVE RegistryShape'
  BY RequestFacts, <1>13 DEF BeginTurn
<1>14. ASSUME NEW w \in Workers, EndTurn(w) PROVE RegistryShape'
  <2>1. \/ driver' = [driver EXCEPT ![w] = "idle"] /\ UNCHANGED input
        \/ /\ driver' = [driver EXCEPT ![w] = "failed"]
           /\ input' = [input EXCEPT ![w] = 0]
    BY <1>14 DEF EndTurn
  <2>2. /\ driver' \in [Workers -> {"idle", "running", "failed", "ended"}]
        /\ input' \in [Workers -> Nat]
    <3>1. /\ driver \in [Workers -> {"idle", "running", "failed", "ended"}]
          /\ input \in [Workers -> Nat]
      OBVIOUS
    <3>2. CASE driver' = [driver EXCEPT ![w] = "idle"] /\ UNCHANGED input
      BY ONLY <3>1, <3>2, w \in Workers
    <3>3. CASE /\ driver' = [driver EXCEPT ![w] = "failed"]
               /\ input' = [input EXCEPT ![w] = 0]
      BY ONLY <3>1, <3>3, w \in Workers
    <3> QED BY <2>1, <3>2, <3>3
  <2> QED BY <1>14, <2>2 DEF EndTurn
<1>15. ASSUME NEW w \in Workers, EndWorker(w) PROVE RegistryShape'
  BY RequestFacts, <1>15 DEF EndWorker
<1> HIDE DEF RegistryShape
<1> QED BY <1>1, <1>2, <1>3, <1>4, <1>5, <1>6, <1>7, <1>8, <1>9, <1>10, <1>11, <1>12, <1>13, <1>14, <1>15, StepKinds

(* The life of the process. *)
LEMMA LifecycleKept ==
    ASSUME Shape, StopNoticed, [DaemonNext]_daemonVars
    PROVE  /\ stage' \in {"booted", "serving", "draining", "exited"}
           /\ phase' \in {"Running", "Draining", "Forced"}
           /\ notified' \in BOOLEAN /\ watchdog' \in BOOLEAN
           /\ present' \subseteq Clients
           /\ StopNoticed'
<1> DEFINE Goal == /\ stage' \in {"booted", "serving", "draining", "exited"}
                   /\ phase' \in {"Running", "Draining", "Forced"}
                   /\ notified' \in BOOLEAN /\ watchdog' \in BOOLEAN
                   /\ present' \subseteq Clients
                   /\ StopNoticed'
<1> USE DEF Shape, StopNoticed, RequestShutdown
<1>1. CASE Stop
  BY <1>1 DEF Stop
<1>2. CASE Reap
  BY <1>2 DEF Reap
<1>3. CASE Subscribe
  BY <1>3 DEF Subscribe
<1>4. CASE AcceptLoopEnds
  BY <1>4 DEF AcceptLoopEnds
<1>5. CASE ProcessExits
  BY <1>5 DEF ProcessExits
<1>6. ASSUME NEW c \in Clients, Connect(c) PROVE Goal
  BY <1>6 DEF Connect
<1>7. ASSUME NEW c \in Clients, Disconnect(c) PROVE Goal
  BY <1>7 DEF Disconnect
<1>8. CASE Registry \/ UNCHANGED daemonVars
  BY <1>8 DEF Registry, lifecycle, daemonVars
<1> QED BY <1>1, <1>2, <1>3, <1>4, <1>5, <1>6, <1>7, <1>8 DEF DaemonNext

LEMMA InitIInv == DaemonInit => IInv
<1> SUFFICES ASSUME DaemonInit PROVE IInv
  OBVIOUS
<1> USE DEF DaemonInit, Init
<1>1. RegistryShape
  <2>1. <<>> \in Seq(Work)
    OBVIOUS
  <2>2. queue \in [Workers -> Seq(Work)]
    BY <2>1
  <2>3. request \in [Clients -> RequestSet]
    BY RequestFacts
  <2>4. sent \in 0 .. MaxMessages
    BY RegistryAssumption
  <2> QED BY <2>2, <2>3, <2>4 DEF RegistryShape
<1>2. Shape
  BY <1>1, DaemonAssumption DEF Shape
<1>3. HandlesSpawned /\ StartsAlone
  BY DEF HandlesSpawned, StartsAlone, NoRequest, Request
<1>4. Unborn /\ GoneIsQuiet /\ DrainOrder /\ LateUntouched /\ StopNoticed
  BY DEF Unborn, GoneIsQuiet, DrainOrder, LateUntouched, StopNoticed
<1>5. LivesRegistered
  BY RegistryAssumption DEF LivesRegistered, Alive
<1> QED BY <1>2, <1>3, <1>4, <1>5 DEF IInv

LEMMA StepIInv == IInv /\ [DaemonNext]_daemonVars => IInv'
<1> SUFFICES ASSUME IInv, [DaemonNext]_daemonVars PROVE IInv'
  OBVIOUS
<1>1. Shape /\ RegistryShape /\ Typed
  BY ShapeTyped DEF IInv, Shape
<1>2. Shape'
  BY <1>1, RegistryShapeKept, LifecycleKept DEF Shape, IInv
<1> QED BY <1>1, <1>2, HandlesKept, BirthsKept, QuietsKept, StartsKept, LivesKept,
           OrdersKept, LatesKept, LifecycleKept DEF IInv

THEOREM Invariance == DaemonSpec => []IInv
BY InitIInv, StepIInv, PTL DEF DaemonSpec

-----------------------------------------------------------------------------
(* What the invariant implies *)

\* The state has the shape DaemonTypeOK gives it, whatever requests, signals and
\* failures a daemon meets.
THEOREM TypeCorrect == DaemonSpec => []DaemonTypeOK
<1>1. IInv => DaemonTypeOK
  BY ShapeTypeOK DEF IInv
<1> QED BY <1>1, Invariance, PTL

\* SessionRegistry::attach: of two workers of one session that live at once, or of a
\* worker that lives and is not the registered one, an overlap of two requests is the
\* cause.
THEOREM RegisteredAlone == DaemonSpec => []AloneUnlessOvertaken
<1>1. ASSUME IInv PROVE AloneUnlessOvertaken
  <2> SUFFICES ASSUME NEW s \in Sessions \ overtaken
               PROVE  /\ ~Twins(s)
                      /\ \A w \in Workers : session[w] = s /\ Alive(w) => workers[s] = w
    BY DEF AloneUnlessOvertaken
  <2>1. \A w \in Workers : session[w] = s /\ Alive(w) => workers[s] = w
    BY <1>1 DEF IInv, LivesRegistered
  <2> DEFINE L == {w \in Workers : session[w] = s /\ Alive(w)}
  <2>2. L \subseteq {workers[s]}
    BY <2>1
  <2>3. IsFiniteSet({workers[s]}) /\ Cardinality({workers[s]}) = 1
    BY FS_Singleton
  <2>4. Cardinality(L) <= 1 /\ Cardinality(L) \in Nat
    BY <2>2, <2>3, FS_Subset, FS_CardinalityType
  <2> QED BY <2>1, <2>4 DEF Twins
<1> QED BY <1>1, Invariance, PTL

\* SessionRegistry::drain_all: a drain that counts as clean cuts no turn short and
\* loses no message its driver was given, also of workers registered after it began.
THEOREM CleanDrain == DaemonSpec => []CleanDrainCutsNothing
<1>1. ASSUME IInv PROVE CleanDrainCutsNothing
  <2> SUFFICES ASSUME drain = "clean", NEW s \in Sessions \ overtaken,
                      NEW w \in Workers, session[w] = s
               PROVE  driver[w] # "running" /\ input[w] = 0
    BY DEF CleanDrainCutsNothing
  <2>1. CASE worker[w] = "ended"
    BY <1>1, <2>1 DEF IInv, GoneIsQuiet
  <2>2. CASE worker[w] # "ended"
    <3>1. w \notin awaited /\ Alive(w)
      BY <1>1, <2>2, RegistryAssumption DEF IInv, DrainOrder, Alive
    <3> QED BY <1>1, <3>1 DEF IInv, LateUntouched, Untouched
  <2> QED BY <2>1, <2>2
<1> QED BY <1>1, Invariance, PTL

\* run_accept_loop: a stop requested before the accept loop subscribed, or at any
\* moment after, is seen by it.
THEOREM StopsNoticed == DaemonSpec => []StopNoticed
<1>1. IInv => StopNoticed
  BY DEF IInv
<1> QED BY <1>1, Invariance, PTL
=============================================================================
