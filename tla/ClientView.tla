------------------------------ MODULE ClientView ------------------------------
(***************************************************************************)
(* What a terminal client shows of the session it is attached to: the busy *)
(* flag, the strip of queued messages and the user turns of the transcript *)
(* (tui/app/), fed by events and answered by messages over the connection  *)
(* of its runner (tui/agent_runner.rs, daemon/client.rs, daemon/server.rs).*)
(*                                                                         *)
(* Every attach makes a runner with a connection of its own: a bounded     *)
(* channel and a forwarder to the daemon, and from it a broadcast receiver *)
(* that loses the oldest events when it lags, and a list the client drains *)
(* on its ticks.  /side keeps the runner of the main session and its view  *)
(* for the way back; /new, resume and /compact drop it.                    *)
(*                                                                         *)
(* A message is a number.  Of the events only the three that touch busy    *)
(* flag and queue are kept; a driver is what Conversation models in detail.*)
(***************************************************************************)
EXTENDS Naturals, Sequences, SequencesExt, FiniteSets

CONSTANTS Sessions, NoSession,
          OutCap, \* capacity of AgentRunner.input_tx
          BusCap, \* capacity of the broadcast channel of a worker
          MaxRunners, MaxMessages, MaxExtras \* bounds

ASSUME ClientAssumption ==
    /\ NoSession \notin Sessions
    /\ {OutCap, BusCap, MaxRunners} \subseteq Nat \ {0}
    /\ {MaxMessages, MaxExtras} \subseteq Nat

VARIABLES
    view,     \* the fields of App: runner (0: none), busy, queue, shown
              \* (user turns of the history), persisted
    composer, \* the message taken back into the composer, 0: none
    saved,    \* the snapshot of the main session during /side
    link,     \* link[r]: the connection of runner r
    input,    \* input[s]: messages accepted for the driver of s
    batch,    \* batch[s]: messages it has drained and is screening
    driver,   \* driver[s]: "idle", "screening", "working" or "dead"
    heard,    \* heard[s]: the messages its agent was given
    draining, \* the daemon refuses new work
    written, extras, \* counters: of messages; of further rounds, ways back and
                     \* messages taken back
    via,      \* history: via[m] is the runner that took m last, 0: none
    dropped,  \* history: messages a runner took and no driver got
    recalled, \* history: messages taken back from the queue
    lagged,   \* history: runners that have lost an event
    early,    \* history: messages shown as folded before they were heard
    sure      \* history: busy is not left over from another session

client == <<view, composer, saved>>
daemon == <<input, batch, driver, heard, draining>>
counters == <<written, extras>>
history == <<via, dropped, recalled, lagged, early, sure>>
clientVars == <<client, link, daemon, counters, history>>

Runners == 1 .. MaxRunners
Messages == 1 .. MaxMessages
Events == {"thinking", "reconnecting", "idle"}
Unused == [session |-> NoSession, outbox |-> <<>>, request |-> 0, up |-> TRUE,
           bus |-> <<>>, events |-> <<>>]
Blank == [runner |-> 0, busy |-> FALSE, queue |-> <<>>, shown |-> <<>>,
          persisted |-> FALSE]

ClientTypeOK ==
    /\ \A v \in {view, saved} :
         /\ v.runner \in 0 .. MaxRunners /\ {v.busy, v.persisted} \subseteq BOOLEAN
         /\ Range(v.queue) \cup Range(v.shown) \subseteq Messages
    /\ composer \in 0 .. MaxMessages
    /\ \A r \in Runners :
         /\ link[r].session \in Sessions \cup {NoSession}
         /\ Range(link[r].outbox) \subseteq Messages
         /\ Len(link[r].outbox) <= OutCap /\ Len(link[r].bus) <= BusCap
         /\ link[r].request \in 0 .. MaxMessages /\ link[r].up \in BOOLEAN
         /\ Range(link[r].bus) \cup Range(link[r].events) \subseteq Events
    /\ \A s \in Sessions :
         /\ Range(input[s]) \cup Range(batch[s]) \cup Range(heard[s])
              \subseteq Messages
         /\ driver[s] \in {"idle", "screening", "working", "dead"}
    /\ draining \in BOOLEAN /\ sure \in BOOLEAN
    /\ via \in [Messages -> 0 .. MaxRunners]
    /\ dropped \cup recalled \cup early \subseteq Messages
    /\ lagged \subseteq Runners

ClientInit ==
    /\ view = Blank /\ saved = Blank /\ composer = 0
    /\ link = [r \in Runners |-> Unused]
    /\ input = [s \in Sessions |-> <<>>]
    /\ batch = [s \in Sessions |-> <<>>]
    /\ driver = [s \in Sessions |-> "idle"]
    /\ heard = [s \in Sessions |-> <<>>]
    /\ draining = FALSE
    /\ written = 0 /\ extras = 0
    /\ via = [m \in Messages |-> 0]
    /\ dropped = {} /\ recalled = {} /\ lagged = {} /\ early = {}
    /\ sure = TRUE

Held == {view.runner, saved.runner} \ {0}
Current == link[view.runner].session
InSide == saved.runner # 0

-----------------------------------------------------------------------------
(* Attaching: a runner of its own for every attach. *)

CanAttach == \E r \in Runners : link[r].session = NoSession
NextRunner == CHOOSE r \in Runners : /\ link[r].session = NoSession
                                     /\ \A q \in 1 .. r - 1 : link[q].session # NoSession
Attached(s) == [link EXCEPT ![NextRunner] = [Unused EXCEPT !.session = s]]
Known == {link[r].session : r \in Runners} \ {NoSession}
Fresh == Sessions \ Known

(* ensure_session_for_display: while there is no runner, a tick attaches to*)
(* a fresh session to have a name to show; a failure leaves no trace.      *)
AttachForDisplay ==
    /\ view.runner = 0 /\ CanAttach
    /\ \E s \in Fresh : link' = Attached(s)
    /\ view' = [view EXCEPT !.runner = NextRunner]
    /\ UNCHANGED <<composer, saved, daemon, counters, history>>

-----------------------------------------------------------------------------
(* The human submits. *)

(* The composer's message, or a new one. *)
Submitted == IF composer # 0 THEN composer ELSE written + 1

\* Bug: the span of a message that was not handed off is left running.
DispatchKeepsSpan(m, r, l) ==
    LET owns == ~view.busy
        sent == r # 0 /\ l[r].up /\ Len(l[r].outbox) < OutCap
    IN
    /\ view' = [view EXCEPT
         !.runner = r,
         !.busy = TRUE,
         !.queue = IF owns THEN @ ELSE Append(@, m),
         !.shown = IF owns THEN Append(@, m) ELSE @,
         !.persisted = @ \/ sent]
    /\ link' = IF sent THEN [l EXCEPT ![r].outbox = Append(@, m)] ELSE l
    /\ via' = [via EXCEPT ![m] = IF sent THEN r ELSE @]
    /\ sure' = (sure \/ (owns /\ sent))

(* submit_input behind ensure_agent_runner: r is the runner, l the links.  *)
(* A fresh submit owns the rising edge of the span and undoes it when the  *)
(* turn was not handed off; one that joins a turn is mirrored in the queue *)
(* whether it was handed off or not.                                       *)
Dispatch(m, r, l) ==
    LET owns == ~view.busy
        sent == r # 0 /\ l[r].up /\ Len(l[r].outbox) < OutCap
    IN
    /\ view' = [view EXCEPT
         !.runner = r,
         !.busy = sent \/ ~owns,
         !.queue = IF owns THEN @ ELSE Append(@, m),
         !.shown = IF owns THEN Append(@, m) ELSE @,
         !.persisted = @ \/ sent]
    /\ link' = IF sent THEN [l EXCEPT ![r].outbox = Append(@, m)] ELSE l
    /\ via' = [via EXCEPT ![m] = IF sent THEN r ELSE @]
    /\ sure' = (sure \/ (owns /\ sent))

(* Without a runner one is spawned first, onto a fresh session; that may   *)
(* fail.                                                                   *)
Submit ==
    /\ Submitted \in Messages
    /\ \/ view.runner # 0 /\ Dispatch(Submitted, view.runner, link)
       \/ /\ view.runner = 0 /\ CanAttach
          /\ \E s \in Fresh : Dispatch(Submitted, NextRunner, Attached(s))
       \/ view.runner = 0 /\ Dispatch(Submitted, 0, link)
    /\ composer' = 0
    /\ written' = IF composer # 0 THEN written ELSE written + 1
    /\ UNCHANGED <<saved, daemon, extras, dropped, recalled,
                   lagged, early>>

(* history_up on an empty composer: the newest queued message comes back   *)
(* from the strip.                                                         *)
Recall ==
    /\ composer = 0 /\ view.queue # <<>> /\ extras < MaxExtras
    /\ composer' = Last(view.queue)
    /\ view' = [view EXCEPT !.queue = Front(@)]
    /\ extras' = extras + 1
    /\ recalled' = recalled \cup {Last(view.queue)}
    /\ UNCHANGED <<saved, link, daemon, written, via, dropped,
                   lagged, early, sure>>

-----------------------------------------------------------------------------
(* The human changes sessions.  No switch touches the busy flag. *)

(* end_side_conversation: the fork's worker is stopped and its row deleted,*)
(* the snapshot restored.                                                  *)
DiscardFork ==
    LET s == Current IN
    /\ driver' = [driver EXCEPT ![s] = "dead"]
    /\ dropped' = dropped \cup Range(input[s]) \cup Range(batch[s])
    /\ input' = [input EXCEPT ![s] = <<>>]
    /\ batch' = [batch EXCEPT ![s] = <<>>]
    /\ UNCHANGED <<heard, draining>>
Restored == [saved EXCEPT !.busy = view.busy]
EndOpenSide ==
    IF InSide THEN DiscardFork ELSE UNCHANGED <<daemon, dropped>>

(* /side: a fork of a session that has a row; history stays visible. *)
EnterSide ==
    /\ ~InSide /\ view.runner # 0 /\ view.persisted /\ CanAttach
    /\ \E s \in Fresh : link' = Attached(s)
    /\ saved' = view
    /\ view' = [view EXCEPT !.runner = NextRunner, !.queue = <<>>,
                            !.persisted = FALSE]
    /\ sure' = ~view.busy
    /\ composer = 0
    /\ UNCHANGED <<composer, daemon, counters, via, dropped, recalled, lagged,
                   early>>

\* Bug: the way back empties the queue instead of restoring it.
EndSideForgetsQueue ==
    /\ InSide /\ composer = 0 /\ extras < MaxExtras
    /\ DiscardFork
    /\ view' = [Restored EXCEPT !.queue = <<>>]
    /\ saved' = Blank
    /\ extras' = extras + 1
    /\ sure' = FALSE
    /\ UNCHANGED <<composer, link, written, via, recalled,
                   lagged, early>>

EndSide ==
    /\ InSide /\ composer = 0 /\ extras < MaxExtras
    /\ DiscardFork
    /\ view' = Restored
    /\ saved' = Blank
    /\ extras' = extras + 1
    /\ sure' = FALSE
    /\ UNCHANGED <<composer, link, written, via, recalled,
                   lagged, early>>

(* maybe_service_new_session: the next submit attaches. *)
NewSession ==
    /\ view.runner # 0 /\ composer = 0 /\ extras < MaxExtras
    /\ EndOpenSide
    /\ view' = [Blank EXCEPT !.busy = view.busy]
    /\ saved' = Blank
    /\ extras' = extras + 1
    /\ sure' = ~view.busy
    /\ UNCHANGED <<composer, link, written, via, recalled,
                   lagged, early>>

(* resume_session.  It fails for a session whose row is gone: that leaves  *)
(* only the end of the side conversation, which EndSide is.                *)
Resume(s) ==
    /\ composer = 0 /\ CanAttach
    /\ s \in Known /\ driver[s] # "dead"
    /\ InSide => s # Current
    /\ EndOpenSide
    /\ link' = Attached(s)
    /\ view' = [Blank EXCEPT !.runner = NextRunner, !.busy = view.busy,
                             !.persisted = TRUE]
    /\ saved' = Blank
    /\ sure' = FALSE
    /\ UNCHANGED <<composer, counters, via, recalled, lagged, early>>

(* commit_compact: the reviewed handoff opens the fresh session the daemon *)
(* has made; the result of try_send is not looked at.                      *)
CommitCompact ==
    /\ ~InSide /\ view.runner # 0 /\ CanAttach /\ composer = 0
    /\ written < MaxMessages
    /\ LET m == written + 1 IN
       /\ \E s \in Fresh : link' = [Attached(s) EXCEPT ![NextRunner].outbox = <<m>>]
       /\ view' = [runner |-> NextRunner, busy |-> TRUE, queue |-> <<>>,
                   shown |-> <<m>>, persisted |-> TRUE]
       /\ via' = [via EXCEPT ![m] = NextRunner]
       /\ written' = m
    /\ sure' = TRUE
    /\ UNCHANGED <<composer, saved, daemon, extras, dropped,
                   recalled, lagged, early>>

-----------------------------------------------------------------------------
(* The connection: messages out.  The forwarder of a dropped runner goes on*)
(* with what its channel holds.                                            *)

(* The forwarder sends one message and awaits the reply. *)
Forward(r) ==
    /\ link[r].up /\ link[r].request = 0 /\ link[r].outbox # <<>>
    /\ link' = [link EXCEPT ![r].request = Head(link[r].outbox),
                            ![r].outbox = Tail(@)]
    /\ UNCHANGED <<client, daemon, counters, history>>

(* The server's gate, then the work queue, the deferred row, the driver's  *)
(* channel.  A refused or lost message is answered like any other.         *)
Deliver(r) ==
    LET m == link[r].request
        s == link[r].session
        Accept == /\ input' = [input EXCEPT ![s] = Append(@, m)]
                  /\ UNCHANGED dropped
        Lose == dropped' = dropped \cup {m} /\ UNCHANGED input
    IN
    /\ m # 0
    /\ IF draining \/ driver[s] = "dead" THEN Lose ELSE Accept \/ Lose
    /\ link' = [link EXCEPT ![r].request = 0]
    /\ UNCHANGED <<client, batch, driver, heard, draining, counters, via,
                   recalled, lagged, early, sure>>

\* Bug: a request that timed out is put back to be sent again.
TimeOutRetries(r) ==
    /\ link[r].up /\ link[r].request # 0 /\ Len(link[r].outbox) < OutCap
    /\ link' = [link EXCEPT ![r].outbox = <<link[r].request>> \o @]
    /\ UNCHANGED <<client, daemon, counters, history>>

(* No reply within the timeout: the forwarder ends and its channel closes. *)
(* The request is still in the daemon's hands.                             *)
TimeOut(r) ==
    /\ link[r].up /\ link[r].request # 0
    /\ link' = [link EXCEPT ![r].up = FALSE, ![r].outbox = <<>>]
    /\ dropped' = dropped \cup Range(link[r].outbox)
    /\ UNCHANGED <<client, daemon, counters, via, recalled, lagged, early, sure>>

Drain ==
    /\ ~draining
    /\ draining' = TRUE
    /\ UNCHANGED <<client, link, input, batch, driver, heard, counters, history>>

-----------------------------------------------------------------------------
(* The connection: events in. *)

(* A worker broadcasts; a full receiver loses its oldest event.  What      *)
(* reaches a runner the client has dropped nobody reads.                   *)
Listeners(s) == {r \in Held : link[r].session = s}
Emit(s, e) ==
    /\ link' = [r \in Runners |->
         IF r \notin Listeners(s) THEN link[r]
         ELSE [link[r] EXCEPT !.bus =
                 Append(IF Len(@) = BusCap THEN Tail(@) ELSE @, e)]]
    /\ lagged' = lagged \cup {r \in Listeners(s) : Len(link[r].bus) = BusCap}

(* handle_client and the event task of the runner. *)
Receive(r) ==
    /\ r \in Held /\ link[r].bus # <<>>
    /\ link' = [link EXCEPT ![r].events = Append(@, Head(link[r].bus)),
                            ![r].bus = Tail(@)]
    /\ UNCHANGED <<client, daemon, counters, history>>

(* apply_event: a round shows what is queued as the next user turn. *)
After(v, e) ==
    CASE e = "idle" -> [v EXCEPT !.busy = FALSE]
      [] e = "reconnecting" -> [v EXCEPT !.busy = TRUE]
      [] e = "thinking" -> [v EXCEPT !.busy = TRUE, !.shown = @ \o v.queue,
                                     !.queue = <<>>]

(* apply_event for all of es in turn: the last one decides on the flag, and*)
(* any round shows what is queued.                                         *)
Applied(v, es) ==
    LET shows == "thinking" \in Range(es) IN
    [v EXCEPT !.busy = IF es = <<>> THEN v.busy ELSE Last(es) # "idle",
              !.shown = IF shows THEN v.shown \o v.queue ELSE v.shown,
              !.queue = IF shows THEN <<>> ELSE v.queue]

(* drain_agent_events: everything the runner in use has collected. *)
DrainEvents ==
    /\ view.runner # 0 /\ link[view.runner].events # <<>>
    /\ view' = Applied(view, link[view.runner].events)
    /\ link' = [link EXCEPT ![view.runner].events = <<>>]
    /\ early' = early \cup ((Range(view.queue) \ Range(view'.queue))
                              \ Range(heard[Current]))
    /\ sure' = TRUE
    /\ UNCHANGED <<composer, saved, daemon, counters, via, dropped, recalled,
                   lagged>>

-----------------------------------------------------------------------------
(* The driver of a session, as far as a client can tell. *)

Hear(s, ms) == heard' = [heard EXCEPT ![s] = @ \o ms]
DriverFrame == UNCHANGED <<client, draining, written, via, recalled, early, sure>>

(* At idle the whole queue is drained, then screened and translated. *)
Take(s) ==
    /\ driver[s] = "idle" /\ input[s] # <<>>
    /\ driver' = [driver EXCEPT ![s] = "screening"]
    /\ batch' = [batch EXCEPT ![s] = input[s]]
    /\ input' = [input EXCEPT ![s] = <<>>]
    /\ DriverFrame /\ UNCHANGED <<link, heard, extras, dropped, lagged>>

BeginTurn(s) ==
    /\ driver[s] = "screening"
    /\ driver' = [driver EXCEPT ![s] = "working"]
    /\ Hear(s, batch[s])
    /\ batch' = [batch EXCEPT ![s] = <<>>]
    /\ Emit(s, "thinking")
    /\ DriverFrame /\ UNCHANGED <<input, extras, dropped>>

(* The injection guard stands: the batch is not sent. *)
Refuse(s) ==
    /\ driver[s] = "screening"
    /\ driver' = [driver EXCEPT ![s] = "idle"]
    /\ batch' = [batch EXCEPT ![s] = <<>>]
    /\ Emit(s, "idle")
    /\ DriverFrame /\ UNCHANGED <<input, heard, extras, dropped>>

(* A further round of the turn: the foreground agent folds what is queued, *)
(* a child that is not interactive opens rounds without looking.           *)
Round(s) ==
    /\ driver[s] = "working" /\ extras < MaxExtras
    /\ \/ /\ Hear(s, input[s])
          /\ input' = [input EXCEPT ![s] = <<>>]
       \/ UNCHANGED <<heard, input>>
    /\ Emit(s, "thinking")
    /\ extras' = extras + 1
    /\ DriverFrame /\ UNCHANGED <<batch, driver, dropped>>

Retry(s) ==
    /\ driver[s] = "working" /\ extras < MaxExtras
    /\ Emit(s, "reconnecting")
    /\ extras' = extras + 1
    /\ DriverFrame /\ UNCHANGED <<input, batch, driver, heard, dropped>>

(* The run is over or was cancelled. *)
EndTurn(s) ==
    /\ driver[s] = "working"
    /\ driver' = [driver EXCEPT ![s] = "idle"]
    /\ Emit(s, "idle")
    /\ DriverFrame /\ UNCHANGED <<input, batch, heard, extras, dropped>>

(* A control request or a report of a job is served at idle; some start a  *)
(* turn of their own.                                                      *)
Serve(s) ==
    /\ driver[s] = "idle" /\ s \in Known /\ extras < MaxExtras
    /\ \/ Emit(s, "idle") /\ UNCHANGED driver
       \/ Emit(s, "thinking") /\ driver' = [driver EXCEPT ![s] = "working"]
    /\ extras' = extras + 1
    /\ DriverFrame /\ UNCHANGED <<input, batch, heard, dropped>>

(* Any other error ends the driver, without an event. *)
Fail(s) ==
    /\ driver[s] \in {"screening", "working"}
    /\ driver' = [driver EXCEPT ![s] = "dead"]
    /\ dropped' = dropped \cup Range(input[s]) \cup Range(batch[s])
    /\ input' = [input EXCEPT ![s] = <<>>]
    /\ batch' = [batch EXCEPT ![s] = <<>>]
    /\ DriverFrame /\ UNCHANGED <<link, heard, extras, lagged>>

DriverStep(s) == Take(s) \/ BeginTurn(s) \/ Refuse(s) \/ EndTurn(s)
ClientNext ==
    \/ AttachForDisplay \/ Submit \/ Recall
    \/ EnterSide \/ EndSide \/ NewSession \/ CommitCompact
    \/ \E s \in Sessions : Resume(s)
    \/ \E r \in Runners : Forward(r) \/ Deliver(r) \/ TimeOut(r) \/ Receive(r)
    \/ Drain \/ DrainEvents
    \/ \E s \in Sessions : DriverStep(s) \/ Round(s) \/ Retry(s) \/ Serve(s)
                           \/ Fail(s)

(* Tasks of client and daemon run, the event loop ticks, turns end. *)
Fairness ==
    /\ \A r \in Runners : WF_clientVars(Forward(r)) /\ WF_clientVars(Deliver(r))
                          /\ WF_clientVars(Receive(r))
    /\ WF_clientVars(DrainEvents)
    /\ \A s \in Sessions : WF_clientVars(DriverStep(s))

ClientSpec == ClientInit /\ [][ClientNext]_clientVars /\ Fairness

-----------------------------------------------------------------------------
(* Properties *)

Pending(r) == link[r].events \o link[r].bus
(* What the client will show when every event under way has arrived. *)
Settled == IF view.runner = 0 THEN view
           ELSE Applied(view, Pending(view.runner))

Mine == {m \in Messages : view.runner # 0 /\ via[m] = view.runner}
OnTheWay(m) ==
    \/ \E r \in Runners : m = link[r].request \/ m \in Range(link[r].outbox)
    \/ \E s \in Sessions : m \in Range(input[s]) \cup Range(batch[s])

(* Why a span may outlive the turns it stands for: a message the runner    *)
(* took and no driver got, a driver that died, or another session's span.  *)
Excused ==
    \/ ~sure
    \/ view.runner # 0 /\ (driver[Current] = "dead" \/ Mine \cap dropped # {})

(* "Set from a fresh submit (rising edge) until the daemon's AgentIdle     *)
(* (falling edge)" (app/mod.rs:495): once the events under way have arrived*)
(* the client shows a span while its session works, and only then or while *)
(* a message of its own is on the way, whatever was lost to lag.           *)
SpanFollowsTurns ==
    LET known == sure \/ (view.runner # 0 /\ Pending(view.runner) # <<>>) IN
    known =>
        /\ (view.runner # 0 /\ driver[Current] = "working") => Settled.busy
        /\ Settled.busy =>
             \/ view.runner # 0 /\ driver[Current] \in {"working", "dead"}
             \/ Mine \cap dropped # {}
             \/ \E m \in Mine : OnTheWay(m)

(* "Those queued messages now appear as the user's next turn in history    *)
(* rather than silently vanishing" (app/mod.rs:3337): a message the session*)
(* was given is a user turn of the view once the events under way have     *)
(* arrived, also after a way round by a side conversation.                 *)
HeardIsShown ==
    \A m \in Mine \ recalled :
        m \in Range(heard[Current]) /\ view.runner \notin lagged =>
            m \in Range(Settled.shown)

Times(m, s) == Cardinality({i \in DOMAIN heard[s] : heard[s][i] = m})

(* A message reaches an agent at most once, whatever timed out, and is     *)
(* shown as one turn, unless the human took it back and sent it again.     *)
HeardOnce ==
    /\ \A m \in Messages \ recalled :
         /\ \A s \in Sessions : Times(m, s) <= 1
         /\ \A s, t \in Sessions :
              m \in Range(heard[s]) \cap Range(heard[t]) => s = t
    /\ IsInjective(view.shown)

(* A span ends, unless a message or its driver was lost on the way or the  *)
(* human has left the session.  Checked with one session                   *)
(* (MCClientViewEnds.cfg).                                                 *)
SpanEnds == view.busy ~> (~view.busy \/ Excused)

(* GOALS.md:180: up-arrow "removes it from the queue ... pop is destruc-   *)
(* tive", so that the same message is not "sent twice".                    *)
RecalledOnce == \A m \in Messages : \A s \in Sessions : Times(m, s) <= 1

(* The queue is cleared on ThinkingStarted "because that event implies the *)
(* daemon just drained the queue" (app/mod.rs:469).                        *)
FoldsWhatWasDrained == early = {}

(* end_side_conversation: "restore the main-session view exactly as it was *)
(* on entry" (app/mod.rs:2957).                                            *)
RestoresView == [][EndSide => view' = saved]_clientVars
=============================================================================
