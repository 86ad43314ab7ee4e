------------------------------ MODULE Interrupts ------------------------------
(***************************************************************************)
(* Questions a blocked tool puts to a human: the needs_attention rows      *)
(* (db/needs_attention.rs), the wakeup hub of each session worker          *)
(* (engine/interrupt.rs), the tools that raise and wait (tools/question.rs,*)
(* approval/mod.rs, engine/driver.rs, engine/agent.rs), the worker that    *)
(* serves answers (daemon/session_worker.rs) and the one dialog slot of    *)
(* each terminal client with its outbound channel (tui/).                  *)
(*                                                                         *)
(* A client answers over the connection of the session it is attached to,  *)
(* and a worker wakes the tools of its own session only.  The attention    *)
(* pane lists the open questions of every plan of the project.             *)
(*                                                                         *)
(* The wording of questions and answers is left out; a dismissal is one of *)
(* the answers.  Events reach a client at once.                            *)
(***************************************************************************)
EXTENDS Naturals, Sequences, SequencesExt, FiniteSets

CONSTANTS Questions,  \* one per tool call that raises
          Sessions,
          Clients,    \* terminal clients
          Answers,
          OwnerOf,    \* OwnerOf[q]: the session whose tool raises q
          Foreground, \* raised in the driver's own turn, not by a forked job
          OfPlan,     \* raised by a session that runs a plan step
          OutboxCap,  \* capacity of AgentRunner.record_tx
          InputCap,   \* capacity of the driver's input channel
          MaxMessages, MaxLooks, MaxCrashes \* bounds

ASSUME QuestionsAssumption ==
    /\ OwnerOf \in [Questions -> Sessions]
    /\ Foreground \subseteq Questions /\ OfPlan \subseteq Questions
    /\ {"absent", "open", "none"} \cap (Answers \cup Questions) = {}
ASSUME CapsAssumption ==
    /\ OutboxCap \in Nat \ {0} /\ InputCap \in Nat \ {0}
    /\ {MaxMessages, MaxLooks, MaxCrashes} \subseteq Nat

VARIABLES
    row,      \* row[q]: "absent", "open" or the answer recorded
    tool,     \* tool[q]: where the raising call is
    got,      \* got[q]: what its oneshot channel holds
    hub,      \* the questions with a registered waiter
    attached, \* attached[c]: the session c is attached to
    dialog,   \* dialog[c]: the question c shows
    outbox,   \* outbox[c]: answers sent, not yet accepted by the daemon
    work,     \* work[s]: the queue of the session worker
    input,    \* input[s]: messages in the driver's input channel
    messages, \* how many messages the humans have sent
    looks,    \* how often a client has opened an item of the attention pane
    crashes,  \* how often the daemon has died
    excuse    \* excuse[q]: the last reason why q may be in front of nobody;
              \* "listed" once a client has picked it from the attention pane

client == <<attached, dialog, outbox>>
engine == <<row, tool, got, hub>>
bounded == <<messages, looks, crashes>>
vars == <<client, engine, work, input, bounded, excuse>>

Pending == {"persisted", "registered", "waiting"}
Reasons == {"headless", "replaced", "dropped", "left", "listed"}
Reply(q, a, s) == [question |-> q, answer |-> a, to |-> s]
Replies == {Reply(q, a, s) : q \in Questions, a \in Answers, s \in Sessions}
Message(s) == Reply("none", "none", s)
Messages == {Message(s) : s \in Sessions}
IsMessage(r) == r.question = "none"

TypeOK ==
    /\ row \in [Questions -> {"absent", "open"} \cup Answers]
    /\ tool \in [Questions -> Pending \cup {"idle", "done", "lost"}]
    /\ got \in [Questions -> {"none"} \cup Answers]
    /\ hub \subseteq Questions
    /\ attached \in [Clients -> {"none"} \cup Sessions]
    /\ dialog \in [Clients -> {"none"} \cup Questions]
    /\ outbox \in [Clients -> Seq(Replies)]
    /\ \A c \in Clients : Len(outbox[c]) <= OutboxCap
    /\ work \in [Sessions -> Seq(Replies \cup Messages)]
    /\ input \in [Sessions -> 0 .. InputCap]
    /\ messages \in 0 .. MaxMessages /\ looks \in 0 .. MaxLooks
    /\ crashes \in 0 .. MaxCrashes
    /\ excuse \in [Questions -> {"none"} \cup Reasons]

Init ==
    /\ row = [q \in Questions |-> "absent"]
    /\ tool = [q \in Questions |-> "idle"]
    /\ got = [q \in Questions |-> "none"]
    /\ hub = {}
    /\ attached = [c \in Clients |-> "none"]
    /\ dialog = [c \in Clients |-> "none"]
    /\ outbox = [c \in Clients |-> <<>>]
    /\ work = [s \in Sessions |-> <<>>]
    /\ input = [s \in Sessions |-> 0]
    /\ messages = 0 /\ looks = 0 /\ crashes = 0
    /\ excuse = [q \in Questions |-> "none"]

Excused(q, reason) == IF excuse[q] = "listed" THEN "listed" ELSE reason

(* The driver of s is inside a turn whose tool waits for a human. *)
TurnBlocked(s) ==
    \E q \in Foreground : OwnerOf[q] = s /\ tool[q] \in Pending

-----------------------------------------------------------------------------
(* The tool: persist, register, emit, wait. *)

(* raise_interrupt_questions_for_plan: the driver runs one foreground call *)
(* at a time.                                                              *)
Persist(q) ==
    /\ tool[q] = "idle"
    /\ q \in Foreground => ~TurnBlocked(OwnerOf[q])
    /\ row' = [row EXCEPT ![q] = "open"]
    /\ tool' = [tool EXCEPT ![q] = "persisted"]
    /\ UNCHANGED <<client, got, hub, work, input, bounded, excuse>>

Register(q) ==
    /\ tool[q] = "persisted"
    /\ hub' = hub \cup {q}
    /\ tool' = [tool EXCEPT ![q] = "registered"]
    /\ UNCHANGED <<client, row, got, work, input, bounded, excuse>>

(* emit_raised: every client of the session opens the dialog, in the one   *)
(* slot it has.                                                            *)
Audience(q) == {c \in Clients : attached[c] = OwnerOf[q]}
Show(q) ==
    /\ dialog' = [c \in Clients |-> IF c \in Audience(q) THEN q ELSE dialog[c]]
    /\ excuse' = [p \in Questions |->
         IF p = q /\ Audience(q) = {} THEN Excused(q, "headless")
         ELSE IF p # q /\ \E c \in Audience(q) : dialog[c] = p
              THEN Excused(p, "replaced")
              ELSE excuse[p]]

Emit(q) ==
    /\ tool[q] = "registered"
    /\ Show(q)
    /\ tool' = [tool EXCEPT ![q] = "waiting"]
    /\ UNCHANGED <<row, got, hub, attached, outbox, work, input, bounded>>

\* Bug: the event leaves before the waiter is registered.
RegisterAfterEmit(q) ==
    \/ /\ tool[q] = "persisted"
       /\ Show(q)
       /\ tool' = [tool EXCEPT ![q] = "registered"]
       /\ UNCHANGED <<row, got, hub, attached, outbox, work, input, bounded>>
    \/ /\ tool[q] = "registered"
       /\ hub' = hub \cup {q}
       /\ tool' = [tool EXCEPT ![q] = "waiting"]
       /\ UNCHANGED <<client, row, got, work, input, bounded, excuse>>

(* PendingInterrupt::wait returns and the guard is dropped. *)
Resume(q) ==
    /\ tool[q] = "waiting" /\ got[q] # "none"
    /\ tool' = [tool EXCEPT ![q] = "done"]
    /\ hub' = hub \ {q}
    /\ UNCHANGED <<client, row, got, work, input, bounded, excuse>>

Raise(q) == Register(q) \/ Emit(q)

-----------------------------------------------------------------------------
(* The clients.  The dialog is modal: while one is shown its keys reach    *)
(* nothing else.                                                           *)

Attach(c, s) ==
    /\ dialog[c] = "none" /\ attached[c] # s
    /\ attached' = [attached EXCEPT ![c] = s]
    /\ UNCHANGED <<engine, dialog, outbox, work, input, bounded, excuse>>

(* The client quits, whatever it shows. *)
Leave(c) ==
    /\ attached[c] # "none"
    /\ attached' = [attached EXCEPT ![c] = "none"]
    /\ dialog' = [dialog EXCEPT ![c] = "none"]
    /\ outbox' = [outbox EXCEPT ![c] = <<>>]
    /\ excuse' = [q \in Questions |->
         IF dialog[c] = q \/ \E r \in Range(outbox[c]) : r.question = q
         THEN Excused(q, "left") ELSE excuse[q]]
    /\ UNCHANGED <<engine, work, input, bounded>>

(* open_attention_dialog, on an item of a list fetched earlier: the row may*)
(* have been answered since.                                               *)
OpenAttention(c, q) ==
    /\ attached[c] # "none" /\ dialog[c] = "none"
    /\ q \in OfPlan /\ row[q] # "absent" /\ looks < MaxLooks
    /\ looks' = looks + 1
    /\ dialog' = [dialog EXCEPT ![c] = q]
    /\ excuse' = [excuse EXCEPT ![q] = "listed"]
    /\ UNCHANGED <<engine, attached, outbox, work, input, messages, crashes>>

(* record_tx.try_send: there is a runner, and room in its channel. *)
CanSend(c) == attached[c] # "none" /\ Len(outbox[c]) < OutboxCap

\* Bug: closing the dialog sends nothing.
CloseDialog(c, a) ==
    /\ dialog[c] # "none"
    /\ dialog' = [dialog EXCEPT ![c] = "none"]
    /\ UNCHANGED <<engine, attached, outbox, work, input, bounded, excuse>>

(* The dialog closes, then resolve_question_dialog tries to send. *)
AnswerDialog(c, a) ==
    /\ dialog[c] # "none"
    /\ dialog' = [dialog EXCEPT ![c] = "none"]
    /\ IF CanSend(c)
       THEN /\ outbox' = [outbox EXCEPT
                 ![c] = Append(@, Reply(dialog[c], a, attached[c]))]
            /\ UNCHANGED excuse
       ELSE /\ excuse' = [excuse EXCEPT
                 ![dialog[c]] = Excused(dialog[c], "dropped")]
            /\ UNCHANGED outbox
    /\ UNCHANGED <<engine, attached, work, input, bounded>>

(* The server hands the request to the worker of the attached session. *)
Deliver(c) ==
    /\ outbox[c] # <<>>
    /\ LET r == Head(outbox[c]) IN
         work' = [work EXCEPT ![r.to] = Append(@, r)]
    /\ outbox' = [outbox EXCEPT ![c] = Tail(@)]
    /\ UNCHANGED <<engine, attached, dialog, input, bounded, excuse>>

SendMessage(c) ==
    /\ attached[c] # "none" /\ dialog[c] = "none" /\ messages < MaxMessages
    /\ messages' = messages + 1
    /\ work' = [work EXCEPT ![attached[c]] = Append(@, Message(attached[c]))]
    /\ UNCHANGED <<engine, client, input, looks, crashes, excuse>>

-----------------------------------------------------------------------------
(* The session worker and its driver. *)

(* resolve_interrupt: only an open row is updated; otherwise a warning. *)
Record(r) ==
    row' = [row EXCEPT ![r.question] = IF @ = "open" THEN r.answer ELSE @]

\* Bug: the waiter is taken out of the hub but its channel dropped.
WakeNobody(s, r) == UNCHANGED got /\ hub' = hub \ {r.question}

(* InterruptHub::resolve: the sender is removed and fired. *)
Wake(s, r) ==
    IF r.question \in hub /\ OwnerOf[r.question] = s
    THEN /\ got' = [got EXCEPT ![r.question] = r.answer]
         /\ hub' = hub \ {r.question}
    ELSE UNCHANGED <<got, hub>>

ServeAnswer(s) ==
    /\ work[s] # <<>> /\ ~IsMessage(Head(work[s]))
    /\ LET r == Head(work[s]) IN Record(r) /\ Wake(s, r)
    /\ work' = [work EXCEPT ![s] = Tail(@)]
    /\ UNCHANGED <<client, tool, input, bounded, excuse>>

(* driver_input_tx.send waits while the channel is full. *)
ForwardMessage(s) ==
    /\ work[s] # <<>> /\ IsMessage(Head(work[s]))
    /\ input[s] < InputCap
    /\ input' = [input EXCEPT ![s] = @ + 1]
    /\ work' = [work EXCEPT ![s] = Tail(@)]
    /\ UNCHANGED <<engine, client, bounded, excuse>>

DriverTakes(s) ==
    /\ input[s] > 0 /\ ~TurnBlocked(s)
    /\ input' = [input EXCEPT ![s] = @ - 1]
    /\ UNCHANGED <<engine, client, work, bounded, excuse>>

(* The daemon dies: rows stay, waiting calls are gone with their workers,  *)
(* the clients keep the dialog they show.                                  *)
Crash ==
    /\ crashes < MaxCrashes
    /\ crashes' = crashes + 1
    /\ tool' = [q \in Questions |->
                  IF tool[q] \in Pending THEN "lost" ELSE tool[q]]
    /\ hub' = {}
    /\ attached' = [c \in Clients |-> "none"]
    /\ outbox' = [c \in Clients |-> <<>>]
    /\ work' = [s \in Sessions |-> <<>>]
    /\ input' = [s \in Sessions |-> 0]
    /\ UNCHANGED <<row, got, dialog, messages, looks, excuse>>

WorkerStep(s) == ServeAnswer(s) \/ ForwardMessage(s) \/ DriverTakes(s)
Next ==
    \/ \E q \in Questions : Persist(q) \/ Raise(q) \/ Resume(q)
    \/ \E c \in Clients, s \in Sessions : Attach(c, s)
    \/ \E c \in Clients : Leave(c) \/ Deliver(c) \/ SendMessage(c)
    \/ \E c \in Clients, q \in Questions : OpenAttention(c, q)
    \/ \E c \in Clients, a \in Answers : AnswerDialog(c, a)
    \/ \E s \in Sessions : WorkerStep(s)
    \/ Crash

(* Tool, worker and connection tasks run on the scheduler.  Humans owe     *)
(* nothing.                                                                *)
Fairness ==
    /\ \A q \in Questions : WF_vars(Raise(q)) /\ WF_vars(Resume(q))
    /\ \A c \in Clients : WF_vars(Deliver(c))
    /\ \A s \in Sessions : WF_vars(WorkerStep(s))

Spec == Init /\ [][Next]_vars /\ Fairness

-----------------------------------------------------------------------------
(* Properties *)

InFlight(q) ==
    \/ \E c \in Clients : \E r \in Range(outbox[c]) : r.question = q
    \/ \E s \in Sessions : \E i \in DOMAIN work[s] :
         work[s][i].question = q

(* The worker waits for room in the input of a driver that waits for q. *)
Stuck(s) ==
    /\ work[s] # <<>> /\ IsMessage(Head(work[s]))
    /\ input[s] = InputCap /\ TurnBlocked(s)

(* "Registering before emitting guarantees a fast client can't resolve     *)
(* before we're listening" (question.rs): what a tool hears is what the row*)
(* records, and no row is answered behind the back of its waiting tool,    *)
(* unless a client picked the question from the attention pane.            *)
OneAnswer ==
    \A q \in Questions : excuse[q] # "listed" =>
        /\ got[q] # "none" => got[q] = row[q]
        /\ row[q] \in Answers /\ tool[q] \in Pending => got[q] # "none"

(* A call that waits for a human has its question on some screen, or an    *)
(* answer on the way or in hand; failing that, nobody was attached when it *)
(* was raised, the client left, a newer question took the slot, the answer *)
(* met a full channel, or it was answered from the pane.                   *)
ParkedForAReason ==
    \A q \in Questions :
        tool[q] = "waiting" /\ got[q] = "none" /\ excuse[q] = "none" =>
            InFlight(q) \/ \E c \in Clients : dialog[c] = q

(* An answer on its way resumes the tool, unless it was picked from the    *)
(* attention pane, the client leaves, the daemon dies, or the worker is    *)
(* stuck behind a message the driver has no room for.                      *)
AnswerResumes ==
    \A q \in Questions : InFlight(q) ~>
        \/ tool[q] \in {"done", "lost"}
        \/ excuse[q] \in {"listed", "left"}
        \/ Stuck(OwnerOf[q])

(* open_attention_dialog: the answer is sent as a ResolveInterrupt,        *)
(* "resuming the paused plan step without blocking its siblings" (app/mod. *)
(* rs:2552).                                                               *)
AnsweredStepsResume ==
    \A q \in OfPlan : row[q] \in Answers /\ tool[q] = "waiting" =>
        got[q] # "none"
=============================================================================
