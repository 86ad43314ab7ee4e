--------------------------- MODULE InterruptsProofs ---------------------------
(***************************************************************************)
(* Machine-checked proofs about the questions put to a human, for any      *)
(* questions, sessions, clients and answers, any number of crashes and any *)
(* capacity of the channels.                                               *)
(*                                                                         *)
(* What a tool hears is what its row records (OneAnswer) because an answer *)
(* finds the waiter that goes with the open row.  That needs to know which *)
(* questions have a waiter (Hears), that nobody is shown a question before *)
(* its waiter is registered, and that an answer goes to the worker of the  *)
(* session that asked (Asked): a client shows a question only while it is  *)
(* attached to that session, or has lost its daemon.  All of it is said of *)
(* questions that no client has picked from the attention pane, where it   *)
(* does not hold.                                                          *)
(***************************************************************************)
EXTENDS Interrupts, SequenceTheorems, TLAPS

\* An answer to q is among the answers of a queue; those to q are addressed to s.
Holds(queue, q) == \E i \in DOMAIN queue : queue[i].question = q
OnlyTo(queue, q, s) == \A i \in DOMAIN queue : queue[i].question = q => queue[i].to = s

\* A tool that has put its question to the clients.
Told == {"waiting", "done", "lost"}

Hears(q) ==
    /\ tool[q] = "idle" <=> row[q] = "absent"
    /\ q \in hub <=> tool[q] \in {"registered", "waiting"} /\ got[q] = "none"
    /\ tool[q] \in {"idle", "persisted", "registered"} => got[q] = "none"
    /\ tool[q] = "done" => got[q] # "none"
    /\ got[q] # "none" => got[q] = row[q]
    /\ row[q] \in Answers /\ tool[q] \in Pending => got[q] # "none"

Asked(q) ==
    /\ \A c \in Clients : dialog[c] = q =>
         tool[q] \in Told /\ attached[c] \in {"none", OwnerOf[q]}
    /\ \A c \in Clients : Holds(outbox[c], q) =>
         tool[q] \in Told /\ OnlyTo(outbox[c], q, OwnerOf[q])
    /\ \A s \in Sessions : Holds(work[s], q) => tool[q] \in Told /\ s = OwnerOf[q]

QuestionOK(q) == excuse[q] # "listed" => Hears(q) /\ Asked(q)
QuestionsOK == \A q \in Questions : QuestionOK(q)

IInv == TypeOK /\ QuestionsOK /\ ParkedForAReason

-----------------------------------------------------------------------------
(***************************************************************************)
(* The queues.                                                             *)
(***************************************************************************)
LEMMA AppendHolds ==
    ASSUME NEW S, NEW queue \in Seq(S), NEW e \in S, NEW q, NEW s
    PROVE  /\ Append(queue, e) \in Seq(S) /\ Len(Append(queue, e)) = Len(queue) + 1
           /\ Holds(Append(queue, e), q) <=> Holds(queue, q) \/ e.question = q
           /\ OnlyTo(queue, q, s) /\ (e.question = q => e.to = s)
                  => OnlyTo(Append(queue, e), q, s)
           /\ ~ Holds(queue, q) /\ (e.question = q => e.to = s)
                  => OnlyTo(Append(queue, e), q, s)
<1> DEFINE a == Append(queue, e)
<1>1. /\ a \in Seq(S) /\ Len(queue) \in Nat /\ Len(a) = Len(queue) + 1
      /\ DOMAIN queue = 1 .. Len(queue) /\ DOMAIN a = 1 .. (Len(queue) + 1)
      /\ \A i \in 1 .. Len(queue) : a[i] = queue[i]
      /\ a[Len(queue) + 1] = e
  OBVIOUS
<1> HIDE DEF a
<1>2. \A i \in DOMAIN a : i \in DOMAIN queue \/ i = Len(queue) + 1
  BY <1>1
<1>3. Len(queue) + 1 \in DOMAIN a /\ DOMAIN queue \subseteq DOMAIN a
  BY <1>1
<1>4. Holds(a, q) <=> Holds(queue, q) \/ e.question = q
  BY <1>1, <1>2, <1>3 DEF Holds
<1>5. OnlyTo(queue, q, s) /\ (e.question = q => e.to = s) => OnlyTo(a, q, s)
  BY <1>1, <1>2 DEF OnlyTo
<1>6. ~ Holds(queue, q) => OnlyTo(queue, q, s)
  BY DEF Holds, OnlyTo
<1> QED BY <1>1, <1>4, <1>5, <1>6 DEF a

LEMMA TailHolds ==
    ASSUME NEW S, NEW queue \in Seq(S), queue # <<>>, NEW q, NEW s
    PROVE  /\ Head(queue) \in S
           /\ Tail(queue) \in Seq(S) /\ Len(Tail(queue)) = Len(queue) - 1
           /\ Holds(queue, q) <=> Head(queue).question = q \/ Holds(Tail(queue), q)
           /\ OnlyTo(queue, q, s) =>
                  /\ OnlyTo(Tail(queue), q, s)
                  /\ Head(queue).question = q => Head(queue).to = s
<1> DEFINE t == Tail(queue)
<1>1. /\ Head(queue) \in S /\ t \in Seq(S)
      /\ Len(queue) \in Nat \ {0} /\ Len(t) = Len(queue) - 1
      /\ DOMAIN queue = 1 .. Len(queue) /\ DOMAIN t = 1 .. (Len(queue) - 1)
      /\ \A i \in 1 .. (Len(queue) - 1) : t[i] = queue[i + 1]
      /\ Head(queue) = queue[1]
  BY HeadTailProperties, LenProperties, EmptySeq
<1> HIDE DEF t
<1>2. \A i \in DOMAIN t : i + 1 \in DOMAIN queue /\ t[i] = queue[i + 1]
  BY <1>1
<1>3. ASSUME NEW i \in DOMAIN queue, i # 1 PROVE i - 1 \in DOMAIN t /\ t[i - 1] = queue[i]
  <2>1. i - 1 \in 1 .. (Len(queue) - 1) /\ (i - 1) + 1 = i
    BY <1>1, <1>3
  <2> QED BY <1>1, <2>1
<1>4. 1 \in DOMAIN queue
  BY <1>1
<1>5. Holds(queue, q) <=> Head(queue).question = q \/ Holds(t, q)
  BY ZenonT(40), <1>1, <1>2, <1>3, <1>4 DEF Holds
<1>6. OnlyTo(queue, q, s) =>
          /\ OnlyTo(t, q, s)
          /\ Head(queue).question = q => Head(queue).to = s
  BY <1>1, <1>2, <1>4 DEF OnlyTo
<1> QED BY <1>1, <1>5, <1>6 DEF t

LEMMA EmptyHolds == ASSUME NEW q PROVE ~ Holds(<<>>, q)
  BY DEF Holds

LEMMA InFlightHolds ==
    ASSUME NEW q
    PROVE  InFlight(q) <=> \/ \E c \in Clients : Holds(outbox[c], q)
                           \/ \E s \in Sessions : Holds(work[s], q)
  BY DEF InFlight, Holds, Range

\* A reply is no message, and says to whom it goes.
LEMMA ReplyFacts ==
    /\ \A q \in Questions, a \in Answers, s \in Sessions : Reply(q, a, s) \in Replies
    /\ \A q, a, s : /\ Reply(q, a, s).question = q
                    /\ Reply(q, a, s).answer = a
                    /\ Reply(q, a, s).to = s
    /\ \A r \in Replies : /\ r.question \in Questions /\ r.answer \in Answers
                          /\ r.to \in Sessions /\ ~ IsMessage(r)
    /\ \A s \in Sessions : Message(s) \in Messages
    /\ \A r \in Messages : IsMessage(r) /\ r.question \notin Questions
  BY QuestionsAssumption DEF Reply, Replies, Message, Messages, IsMessage

-----------------------------------------------------------------------------
(***************************************************************************)
(* The types.                                                              *)
(***************************************************************************)
LEMMA ExcusedType ==
    ASSUME TypeOK, NEW q \in Questions, NEW reason \in Reasons
    PROVE  /\ Excused(q, reason) \in Reasons
           /\ Excused(q, reason) # "none"
           /\ excuse[q] = "listed" => Excused(q, reason) = "listed"
  BY DEF TypeOK, Excused, Reasons

LEMMA TypeStep ==
    ASSUME TypeOK, [Next]_vars
    PROVE  TypeOK'
<1>a. /\ row \in [Questions -> {"absent", "open"} \cup Answers]
      /\ tool \in [Questions -> Pending \cup {"idle", "done", "lost"}]
      /\ got \in [Questions -> {"none"} \cup Answers]
      /\ attached \in [Clients -> {"none"} \cup Sessions]
      /\ dialog \in [Clients -> {"none"} \cup Questions]
      /\ outbox \in [Clients -> Seq(Replies)]
      /\ \A c \in Clients : Len(outbox[c]) <= OutboxCap /\ Len(outbox[c]) \in Nat
      /\ work \in [Sessions -> Seq(Replies \cup Messages)]
      /\ excuse \in [Questions -> {"none"} \cup Reasons]
  BY LenProperties DEF TypeOK
<1>b. /\ OutboxCap \in Nat \ {0} /\ InputCap \in Nat \ {0} /\ MaxMessages \in Nat
      /\ MaxLooks \in Nat /\ MaxCrashes \in Nat
  BY CapsAssumption
<1>c. /\ <<>> \in Seq(Replies) /\ Len(<<>>) = 0
      /\ <<>> \in Seq(Replies \cup Messages)
  BY EmptySeq
<1>d. ASSUME NEW c \in Clients, NEW q \in Seq(Replies), Len(q) <= OutboxCap,
             outbox' = [outbox EXCEPT ![c] = q]
      PROVE  /\ outbox' \in [Clients -> Seq(Replies)]
             /\ \A d \in Clients : Len(outbox'[d]) <= OutboxCap
  BY <1>a, <1>d
<1> USE DEF client, engine, bounded
<1>1. ASSUME NEW q \in Questions, Persist(q) \/ Register(q) \/ Resume(q) PROVE TypeOK'
  <2>1. /\ row' \in [Questions -> {"absent", "open"} \cup Answers]
        /\ tool' \in [Questions -> Pending \cup {"idle", "done", "lost"}]
    BY <1>a, <1>1 DEF Persist, Register, Resume, Pending
  <2>2. hub' \subseteq Questions
    BY <1>1 DEF TypeOK, Persist, Register, Resume
  <2> QED BY <1>1, <2>1, <2>2 DEF TypeOK, Persist, Register, Resume
<1>2. ASSUME NEW q \in Questions, Emit(q) PROVE TypeOK'
  <2>1. dialog' \in [Clients -> {"none"} \cup Questions]
    BY <1>a, <1>2 DEF Emit, Show
  <2>2. excuse' \in [Questions -> {"none"} \cup Reasons]
    <3>1. \A p \in Questions : Excused(p, "headless") \in Reasons /\ Excused(p, "replaced") \in Reasons
      BY ExcusedType DEF Reasons
    <3> QED BY <1>a, <1>2, <3>1 DEF Emit, Show
  <2>3. tool' \in [Questions -> Pending \cup {"idle", "done", "lost"}]
    BY <1>a, <1>2 DEF Emit, Pending
  <2> QED BY <1>2, <2>1, <2>2, <2>3 DEF TypeOK, Emit
<1>3. ASSUME NEW c \in Clients, NEW s \in Sessions, Attach(c, s) PROVE TypeOK'
  BY <1>3 DEF TypeOK, Attach
<1>4. ASSUME NEW c \in Clients, Leave(c) PROVE TypeOK'
  <2>1. excuse' \in [Questions -> {"none"} \cup Reasons]
    <3>1. \A p \in Questions : Excused(p, "left") \in Reasons
      BY ExcusedType DEF Reasons
    <3> QED BY <1>a, <1>4, <3>1 DEF Leave
  <2>2. /\ outbox' \in [Clients -> Seq(Replies)]
        /\ \A d \in Clients : Len(outbox'[d]) <= OutboxCap
    <3>1. outbox' = [outbox EXCEPT ![c] = <<>>]
      BY <1>4 DEF Leave
    <3>2. Len(<<>>) <= OutboxCap
      BY <1>b, <1>c
    <3> QED BY <1>a, <1>c, <3>1, <3>2
  <2>3. /\ attached' \in [Clients -> {"none"} \cup Sessions]
        /\ dialog' \in [Clients -> {"none"} \cup Questions]
    BY <1>a, <1>4 DEF Leave
  <2> QED BY <1>4, <2>1, <2>2, <2>3 DEF TypeOK, Leave
<1>5. ASSUME NEW c \in Clients, Deliver(c) PROVE TypeOK'
  <2>1. /\ outbox[c] # <<>>
        /\ outbox' = [outbox EXCEPT ![c] = Tail(outbox[c])]
        /\ work' = [work EXCEPT ![Head(outbox[c]).to] =
                      Append(work[Head(outbox[c]).to], Head(outbox[c]))]
    BY <1>5 DEF Deliver
  <2>2. /\ Head(outbox[c]) \in Replies /\ Tail(outbox[c]) \in Seq(Replies)
        /\ Len(Tail(outbox[c])) <= OutboxCap
    <3>1. outbox[c] \in Seq(Replies) /\ Len(outbox[c]) <= OutboxCap /\ Len(outbox[c]) \in Nat
      BY <1>a
    <3> QED BY <1>b, <2>1, <3>1, TailHolds
  <2>3. Head(outbox[c]).to \in Sessions
    BY <2>2, ReplyFacts
  <2>4. work' \in [Sessions -> Seq(Replies \cup Messages)]
    BY <1>a, <2>1, <2>2, <2>3
  <2> QED BY <1>5, <1>d, <2>1, <2>2, <2>4 DEF TypeOK, Deliver
<1>6. ASSUME NEW c \in Clients, SendMessage(c) PROVE TypeOK'
  <2>1. attached[c] \in Sessions /\ Message(attached[c]) \in Messages
    BY <1>a, <1>6, ReplyFacts DEF SendMessage
  <2>2. work' \in [Sessions -> Seq(Replies \cup Messages)]
    BY <1>a, <1>6, <2>1 DEF SendMessage
  <2>3. messages' \in 0 .. MaxMessages
    BY <1>b, <1>6 DEF SendMessage, TypeOK
  <2> QED BY <1>6, <2>2, <2>3 DEF TypeOK, SendMessage
<1>7. ASSUME NEW c \in Clients, NEW q \in Questions, OpenAttention(c, q) PROVE TypeOK'
  <2>1. looks' \in 0 .. MaxLooks
    BY <1>b, <1>7 DEF OpenAttention, TypeOK
  <2> QED BY <1>7, <2>1 DEF TypeOK, OpenAttention, Reasons
<1>8. ASSUME NEW c \in Clients, NEW a \in Answers, AnswerDialog(c, a) PROVE TypeOK'
  <2>1. dialog' \in [Clients -> {"none"} \cup Questions] /\ dialog[c] \in Questions
    BY <1>a, <1>8 DEF AnswerDialog
  <2>2. CASE CanSend(c)
    <3> DEFINE r == Reply(dialog[c], a, attached[c])
    <3>1. outbox' = [outbox EXCEPT ![c] = Append(outbox[c], r)] /\ excuse' = excuse
      BY <1>8, <2>2 DEF AnswerDialog
    <3>2. r \in Replies
      BY <1>a, <2>1, <2>2, ReplyFacts DEF CanSend
    <3> HIDE DEF r
    <3>3. Append(outbox[c], r) \in Seq(Replies) /\ Len(Append(outbox[c], r)) <= OutboxCap
      BY <1>a, <1>b, <2>2, <3>2, AppendHolds DEF CanSend
    <3> QED BY <1>8, <1>d, <2>1, <3>1, <3>3 DEF TypeOK, AnswerDialog
  <2>3. CASE ~ CanSend(c)
    <3>1. Excused(dialog[c], "dropped") \in Reasons
      BY <2>1, ExcusedType DEF Reasons
    <3>2. /\ excuse' = [excuse EXCEPT ![dialog[c]] = Excused(dialog[c], "dropped")]
          /\ outbox' = outbox
      BY <1>8, <2>3 DEF AnswerDialog
    <3>3. excuse' \in [Questions -> {"none"} \cup Reasons]
      BY <1>a, <2>1, <3>1, <3>2
    <3> QED BY <1>8, <2>1, <3>2, <3>3 DEF TypeOK, AnswerDialog
  <2> QED BY <2>2, <2>3
<1>9. ASSUME NEW s \in Sessions, ServeAnswer(s) PROVE TypeOK'
  <2>1. /\ Head(work[s]) \in Replies \cup Messages
        /\ Tail(work[s]) \in Seq(Replies \cup Messages)
    BY <1>a, <1>9, TailHolds DEF ServeAnswer
  <2>2. Head(work[s]).question \in Questions /\ Head(work[s]).answer \in Answers
    BY <1>9, <2>1, ReplyFacts DEF ServeAnswer
  <2>3. row' \in [Questions -> {"absent", "open"} \cup Answers]
    BY <1>a, <1>9, <2>2 DEF ServeAnswer, Record
  <2>4. got' \in [Questions -> {"none"} \cup Answers] /\ hub' \subseteq Questions
    BY <1>9, <2>2 DEF ServeAnswer, Wake, TypeOK
  <2>5. work' \in [Sessions -> Seq(Replies \cup Messages)]
    BY <1>a, <1>9, <2>1 DEF ServeAnswer
  <2> QED BY <1>9, <2>3, <2>4, <2>5 DEF TypeOK, ServeAnswer
<1>10. ASSUME NEW s \in Sessions, ForwardMessage(s) PROVE TypeOK'
  <2>1. Tail(work[s]) \in Seq(Replies \cup Messages)
    BY <1>a, <1>10, TailHolds DEF ForwardMessage
  <2>2. work' \in [Sessions -> Seq(Replies \cup Messages)]
    BY <1>a, <1>10, <2>1 DEF ForwardMessage
  <2>3. input' \in [Sessions -> 0 .. InputCap]
    BY <1>b, <1>10 DEF ForwardMessage, TypeOK
  <2> QED BY <1>10, <2>2, <2>3 DEF TypeOK, ForwardMessage
<1>11. ASSUME NEW s \in Sessions, DriverTakes(s) PROVE TypeOK'
  <2>1. input' \in [Sessions -> 0 .. InputCap]
    BY <1>b, <1>11 DEF DriverTakes, TypeOK
  <2> QED BY <1>11, <2>1 DEF TypeOK, DriverTakes
<1>12. CASE Crash
  <2>1. crashes' \in 0 .. MaxCrashes
    BY <1>b, <1>12 DEF Crash, TypeOK
  <2>2. /\ outbox' = [c \in Clients |-> <<>>]
        /\ work' = [s \in Sessions |-> <<>>]
        /\ input' = [s \in Sessions |-> 0]
        /\ attached' = [c \in Clients |-> "none"]
        /\ tool' = [q \in Questions |-> IF tool[q] \in Pending THEN "lost" ELSE tool[q]]
        /\ hub' = {}
    BY <1>12 DEF Crash
  <2>3. /\ outbox' \in [Clients -> Seq(Replies)]
        /\ \A d \in Clients : Len(outbox'[d]) <= OutboxCap
        /\ work' \in [Sessions -> Seq(Replies \cup Messages)]
    BY <1>b, <1>c, <2>2
  <2>4. tool' \in [Questions -> Pending \cup {"idle", "done", "lost"}]
    BY <1>a, <2>2
  <2>5. input' \in [Sessions -> 0 .. InputCap]
    BY <1>b, <2>2
  <2> QED BY <1>12, <2>1, <2>2, <2>3, <2>4, <2>5 DEF TypeOK, Crash
<1>13. CASE UNCHANGED vars
  BY <1>13 DEF TypeOK, vars
<1> QED BY <1>1, <1>2, <1>3, <1>4, <1>5, <1>6, <1>7, <1>8, <1>9, <1>10, <1>11, <1>12, <1>13
       DEF Next, Raise, WorkerStep

-----------------------------------------------------------------------------
(***************************************************************************)
(* What the tool of a question hears, and where its answers are.           *)
(***************************************************************************)

\* The reason why a question is in front of nobody is never taken back.
LEMMA ExcuseKept ==
    ASSUME TypeOK, [Next]_vars, NEW q \in Questions
    PROVE  /\ excuse[q] = "listed" => excuse'[q] = "listed"
           /\ excuse'[q] = "none" => excuse[q] = "none"
<1>a. excuse \in [Questions -> {"none"} \cup Reasons] /\ "none" \notin Reasons
      /\ dialog \in [Clients -> {"none"} \cup Questions]
  BY DEF TypeOK, Reasons
<1>b. ASSUME NEW reason \in Reasons
      PROVE  /\ Excused(q, reason) # "none"
             /\ excuse[q] = "listed" => Excused(q, reason) = "listed"
  BY ExcusedType
<1>1. CASE excuse' = excuse
  BY <1>1
<1>2. ASSUME NEW p \in Questions, Emit(p)
      PROVE  /\ excuse[q] = "listed" => excuse'[q] = "listed"
             /\ excuse'[q] = "none" => excuse[q] = "none"
  <2>1. excuse'[q] \in {excuse[q], Excused(q, "headless"), Excused(q, "replaced")}
    BY <1>2 DEF Emit, Show
  <2>2. /\ Excused(q, "headless") # "none" /\ Excused(q, "replaced") # "none"
        /\ excuse[q] = "listed" => /\ Excused(q, "headless") = "listed"
                                   /\ Excused(q, "replaced") = "listed"
    BY <1>b DEF Reasons
  <2> QED BY <2>1, <2>2
<1>3. ASSUME NEW c \in Clients, Leave(c)
      PROVE  /\ excuse[q] = "listed" => excuse'[q] = "listed"
             /\ excuse'[q] = "none" => excuse[q] = "none"
  <2>1. excuse'[q] \in {excuse[q], Excused(q, "left")}
    BY <1>3 DEF Leave
  <2>2. /\ Excused(q, "left") # "none"
        /\ excuse[q] = "listed" => Excused(q, "left") = "listed"
    BY <1>b DEF Reasons
  <2> QED BY <2>1, <2>2
<1>4. ASSUME NEW c \in Clients, NEW p \in Questions, OpenAttention(c, p)
      PROVE  /\ excuse[q] = "listed" => excuse'[q] = "listed"
             /\ excuse'[q] = "none" => excuse[q] = "none"
  <2>1. excuse' = [excuse EXCEPT ![p] = "listed"]
    BY <1>4 DEF OpenAttention
  <2> QED BY <1>a, <2>1
<1>5. ASSUME NEW c \in Clients, NEW a \in Answers, AnswerDialog(c, a)
      PROVE  /\ excuse[q] = "listed" => excuse'[q] = "listed"
             /\ excuse'[q] = "none" => excuse[q] = "none"
  <2>1. \/ excuse' = excuse
        \/ excuse' = [excuse EXCEPT ![dialog[c]] = Excused(dialog[c], "dropped")]
    BY <1>5 DEF AnswerDialog
  <2>2. excuse'[q] \in {excuse[q], Excused(q, "dropped")}
    BY <1>a, <2>1
  <2>3. /\ Excused(q, "dropped") # "none"
        /\ excuse[q] = "listed" => Excused(q, "dropped") = "listed"
    BY <1>b DEF Reasons
  <2> QED BY <2>2, <2>3
<1>6. \/ excuse' = excuse
      \/ \E p \in Questions : Emit(p)
      \/ \E c \in Clients : Leave(c)
      \/ \E c \in Clients, p \in Questions : OpenAttention(c, p)
      \/ \E c \in Clients, a \in Answers : AnswerDialog(c, a)
  BY DEF Next, Raise, WorkerStep, Persist, Register, Resume, Attach, Deliver, SendMessage,
         ServeAnswer, ForwardMessage, DriverTakes, Crash, vars
<1> QED BY <1>1, <1>2, <1>3, <1>4, <1>5, <1>6

\* Nothing about q has changed for its tool, or on its way to it.
LEMMA HearsKept ==
    ASSUME NEW q \in Questions, Hears(q),
           row'[q] = row[q], tool'[q] = tool[q], got'[q] = got[q],
           q \in hub' <=> q \in hub
    PROVE  Hears(q)'
  BY DEF Hears

LEMMA AskedKept ==
    ASSUME NEW q \in Questions, Asked(q), tool[q] \in Told => tool'[q] \in Told,
           dialog' = dialog, attached' = attached, outbox' = outbox, work' = work
    PROVE  Asked(q)'
  BY DEF Asked

\* The tool of p moves on.
LEMMA ToolStep ==
    ASSUME TypeOK, NEW p \in Questions, Persist(p) \/ Register(p) \/ Emit(p) \/ Resume(p),
           NEW q \in Questions, Hears(q), Asked(q)
    PROVE  Hears(q)' /\ Asked(q)'
<1>a. /\ row \in [Questions -> {"absent", "open"} \cup Answers]
      /\ tool \in [Questions -> Pending \cup {"idle", "done", "lost"}]
      /\ dialog \in [Clients -> {"none"} \cup Questions]
      /\ "absent" \notin Answers /\ "open" \notin Answers /\ "none" \notin Answers
      /\ "none" \notin Questions
  BY QuestionsAssumption DEF TypeOK
<1> USE DEF client
<1>1. CASE Persist(p)
  <2>1. /\ tool[p] = "idle"
        /\ row' = [row EXCEPT ![p] = "open"] /\ tool' = [tool EXCEPT ![p] = "persisted"]
        /\ UNCHANGED <<client, got, hub, work>>
    BY <1>1 DEF Persist
  <2>2. CASE q = p
    <3>1. row'[q] = "open" /\ tool'[q] = "persisted"
      BY <1>a, <2>1, <2>2
    <3>2. Hears(q)'
      BY <1>a, <2>1, <2>2, <3>1 DEF Hears
    <3>3. Asked(q)'
      BY <2>1, <2>2, AskedKept DEF Told
    <3> QED BY <3>2, <3>3
  <2>3. CASE q # p
    <3>1. row'[q] = row[q] /\ tool'[q] = tool[q]
      BY <1>a, <2>1, <2>3
    <3> QED BY <2>1, <3>1, HearsKept, AskedKept
  <2> QED BY <2>2, <2>3
<1>2. CASE Register(p)
  <2>1. /\ tool[p] = "persisted"
        /\ hub' = hub \cup {p} /\ tool' = [tool EXCEPT ![p] = "registered"]
        /\ UNCHANGED <<client, row, got, work>>
    BY <1>2 DEF Register
  <2>2. CASE q = p
    <3>1. tool'[q] = "registered" /\ q \in hub'
      BY <1>a, <2>1, <2>2
    <3>2. Hears(q)'
      BY <1>a, <2>1, <2>2, <3>1 DEF Hears, Pending
    <3>3. Asked(q)'
      BY <2>1, <2>2, AskedKept DEF Told
    <3> QED BY <3>2, <3>3
  <2>3. CASE q # p
    <3>1. tool'[q] = tool[q] /\ (q \in hub' <=> q \in hub)
      BY <1>a, <2>1, <2>3
    <3> QED BY <2>1, <3>1, HearsKept, AskedKept
  <2> QED BY <2>2, <2>3
<1>3. CASE Emit(p)
  <2>1. /\ tool[p] = "registered" /\ tool' = [tool EXCEPT ![p] = "waiting"]
        /\ dialog' = [c \in Clients |-> IF c \in Audience(p) THEN p ELSE dialog[c]]
        /\ UNCHANGED <<row, got, hub, attached, outbox, work>>
    BY <1>3 DEF Emit, Show
  <2>2. /\ Hears(q)'
        /\ tool[q] \in Told => tool'[q] \in Told
        /\ q = p => tool'[q] \in Told
    <3>1. CASE q = p
      <4>1. tool'[q] = "waiting"
        BY <1>a, <2>1, <3>1
      <4> QED BY <1>a, <2>1, <3>1, <4>1 DEF Hears, Pending, Told
    <3>2. CASE q # p
      <4>1. tool'[q] = tool[q]
        BY <1>a, <2>1, <3>2
      <4> QED BY <2>1, <3>2, <4>1, HearsKept
    <3> QED BY <3>1, <3>2
  <2>3. ASSUME NEW c \in Clients, dialog'[c] = q
        PROVE  tool'[q] \in Told /\ attached'[c] \in {"none", OwnerOf[q]}
    <3>1. CASE c \in Audience(p)
      BY <2>1, <2>2, <2>3, <3>1 DEF Audience
    <3>2. CASE c \notin Audience(p)
      BY <2>1, <2>2, <2>3, <3>2 DEF Asked
    <3> QED BY <3>1, <3>2
  <2> QED BY <2>1, <2>2, <2>3 DEF Asked
<1>4. CASE Resume(p)
  <2>1. /\ tool[p] = "waiting" /\ got[p] # "none"
        /\ tool' = [tool EXCEPT ![p] = "done"] /\ hub' = hub \ {p}
        /\ UNCHANGED <<client, row, got, work>>
    BY <1>4 DEF Resume
  <2>2. CASE q = p
    <3>1. tool'[q] = "done" /\ q \notin hub'
      BY <1>a, <2>1, <2>2
    <3>2. Hears(q)'
      BY <1>a, <2>1, <2>2, <3>1 DEF Hears, Pending
    <3>3. Asked(q)'
      BY <2>1, <3>1, AskedKept DEF Told
    <3> QED BY <3>2, <3>3
  <2>3. CASE q # p
    <3>1. tool'[q] = tool[q] /\ (q \in hub' <=> q \in hub)
      BY <1>a, <2>1, <2>3
    <3> QED BY <2>1, <3>1, HearsKept, AskedKept
  <2> QED BY <2>2, <2>3
<1> QED BY <1>1, <1>2, <1>3, <1>4

\* A client or a connection takes a step.
LEMMA ClientStep ==
    ASSUME TypeOK, NEW c \in Clients, NEW q \in Questions, Asked(q),
           \/ \E s \in Sessions : Attach(c, s)
           \/ Leave(c) \/ Deliver(c) \/ SendMessage(c)
           \/ (\E p \in Questions \ {q} : OpenAttention(c, p))
           \/ \E a \in Answers : AnswerDialog(c, a)
    PROVE  Asked(q)'
<1>a. /\ attached \in [Clients -> {"none"} \cup Sessions]
      /\ dialog \in [Clients -> {"none"} \cup Questions]
      /\ outbox \in [Clients -> Seq(Replies)]
      /\ work \in [Sessions -> Seq(Replies \cup Messages)]
      /\ "none" \notin Questions
  BY QuestionsAssumption DEF TypeOK
<1> USE DEF engine
<1>1. ASSUME NEW s \in Sessions, Attach(c, s) PROVE Asked(q)'
  <2>1. /\ dialog[c] = "none" /\ attached' = [attached EXCEPT ![c] = s]
        /\ UNCHANGED <<tool, dialog, outbox, work>>
    BY <1>1 DEF Attach
  <2>2. \A d \in Clients \ {c} : attached'[d] = attached[d]
    BY <1>a, <2>1
  <2> QED BY <1>a, <2>1, <2>2 DEF Asked
<1>2. CASE Leave(c)
  <2>1. /\ attached' = [attached EXCEPT ![c] = "none"]
        /\ dialog' = [dialog EXCEPT ![c] = "none"]
        /\ outbox' = [outbox EXCEPT ![c] = <<>>]
        /\ UNCHANGED <<tool, work>>
    BY <1>2 DEF Leave
  <2>2. /\ dialog'[c] = "none" /\ outbox'[c] = <<>>
        /\ \A d \in Clients \ {c} : /\ attached'[d] = attached[d] /\ dialog'[d] = dialog[d]
                                    /\ outbox'[d] = outbox[d]
    BY <1>a, <2>1
  <2> QED BY <1>a, <2>1, <2>2, EmptyHolds DEF Asked
<1>3. CASE Deliver(c)
  <2> DEFINE r == Head(outbox[c])
             rest == Tail(outbox[c])
  <2>1. /\ outbox[c] # <<>>
        /\ outbox' = [outbox EXCEPT ![c] = rest]
        /\ work' = [work EXCEPT ![r.to] = Append(work[r.to], r)]
        /\ UNCHANGED <<tool, dialog, attached>>
    BY <1>3 DEF Deliver
  <2>2. /\ r \in Replies
        /\ Holds(rest, q) => Holds(outbox[c], q)
        /\ r.question = q => Holds(outbox[c], q)
        /\ OnlyTo(outbox[c], q, OwnerOf[q]) =>
              OnlyTo(rest, q, OwnerOf[q]) /\ (r.question = q => r.to = OwnerOf[q])
    BY <1>a, <2>1, TailHolds
  <2>3. r.to \in Sessions
    BY <2>2, ReplyFacts
  <2>4. Holds(Append(work[r.to], r), q) <=> Holds(work[r.to], q) \/ r.question = q
    <3>1. work[r.to] \in Seq(Replies \cup Messages) /\ r \in Replies \cup Messages
      BY <1>a, <2>2, <2>3
    <3>2. \A w \in Seq(Replies \cup Messages), e \in Replies \cup Messages :
             Holds(Append(w, e), q) <=> Holds(w, q) \/ e.question = q
      BY AppendHolds
    <3> QED BY <3>1, <3>2
  <2> HIDE DEF r, rest
  <2>5. /\ outbox'[c] = rest /\ \A d \in Clients \ {c} : outbox'[d] = outbox[d]
        /\ work'[r.to] = Append(work[r.to], r)
        /\ \A s \in Sessions \ {r.to} : work'[s] = work[s]
    BY <1>a, <2>1, <2>3
  <2>6. ASSUME NEW d \in Clients, Holds(outbox'[d], q)
        PROVE  tool'[q] \in Told /\ OnlyTo(outbox'[d], q, OwnerOf[q])
    BY <2>1, <2>2, <2>5, <2>6 DEF Asked
  <2>7. ASSUME NEW s \in Sessions, Holds(work'[s], q)
        PROVE  tool'[q] \in Told /\ s = OwnerOf[q]
    <3>1. CASE s # r.to
      BY <2>1, <2>5, <2>7, <3>1 DEF Asked
    <3>2. CASE s = r.to
      BY <2>1, <2>2, <2>3, <2>4, <2>5, <2>7, <3>2 DEF Asked
    <3> QED BY <3>1, <3>2
  <2> QED BY <2>1, <2>6, <2>7 DEF Asked
<1>4. CASE SendMessage(c)
  <2> DEFINE s == attached[c]
  <2>1. /\ work' = [work EXCEPT ![s] = Append(work[s], Message(s))]
        /\ s \in Sessions
        /\ UNCHANGED <<tool, dialog, attached, outbox>>
    BY <1>a, <1>4 DEF SendMessage, client
  <2>2. Holds(Append(work[s], Message(s)), q) <=> Holds(work[s], q)
    <3>1. Message(s) \in Messages /\ Message(s).question # q
      BY <2>1, ReplyFacts
    <3>2. work[s] \in Seq(Replies \cup Messages) /\ Message(s) \in Replies \cup Messages
      BY <1>a, <2>1, <3>1
    <3> HIDE DEF s
    <3> QED BY <3>1, <3>2, AppendHolds
  <2> HIDE DEF s
  <2>3. \A t \in Sessions : Holds(work'[t], q) <=> Holds(work[t], q)
    BY <1>a, <2>1, <2>2
  <2> QED BY <2>1, <2>3 DEF Asked
<1>5. ASSUME NEW p \in Questions \ {q}, OpenAttention(c, p) PROVE Asked(q)'
  <2>1. /\ dialog' = [dialog EXCEPT ![c] = p]
        /\ UNCHANGED <<tool, attached, outbox, work>>
    BY <1>5 DEF OpenAttention
  <2>2. \A d \in Clients : dialog'[d] = q => dialog[d] = q
    BY <1>a, <2>1
  <2> QED BY <2>1, <2>2 DEF Asked
<1>6. ASSUME NEW a \in Answers, AnswerDialog(c, a) PROVE Asked(q)'
  <2>1. /\ dialog[c] # "none" /\ dialog' = [dialog EXCEPT ![c] = "none"]
        /\ UNCHANGED <<tool, attached, work>>
    BY <1>6 DEF AnswerDialog
  <2>2. \A d \in Clients : dialog'[d] = q => dialog[d] = q
    BY <1>a, <2>1
  <2>3. CASE outbox' = outbox
    BY <2>1, <2>2, <2>3 DEF Asked
  <2>4. CASE CanSend(c)
    <3> DEFINE r == Reply(dialog[c], a, attached[c])
    <3>1. outbox' = [outbox EXCEPT ![c] = Append(outbox[c], r)]
      BY <1>6, <2>4 DEF AnswerDialog
    <3>2. /\ r \in Replies /\ r.question = dialog[c] /\ r.to = attached[c]
          /\ attached[c] # "none"
      BY <1>a, <2>1, <2>4, ReplyFacts DEF CanSend
    <3> HIDE DEF r
    <3>3. /\ Holds(Append(outbox[c], r), q) <=> Holds(outbox[c], q) \/ r.question = q
          /\ OnlyTo(outbox[c], q, OwnerOf[q]) /\ (r.question = q => r.to = OwnerOf[q])
                 => OnlyTo(Append(outbox[c], r), q, OwnerOf[q])
          /\ ~ Holds(outbox[c], q) /\ (r.question = q => r.to = OwnerOf[q])
                 => OnlyTo(Append(outbox[c], r), q, OwnerOf[q])
      BY <1>a, <3>2, AppendHolds
    <3>4. /\ outbox'[c] = Append(outbox[c], r)
          /\ \A d \in Clients \ {c} : outbox'[d] = outbox[d]
      BY <1>a, <3>1
    <3>5. r.question = q => r.to = OwnerOf[q] /\ tool[q] \in Told
      BY <3>2 DEF Asked
    <3>6. ASSUME NEW d \in Clients, Holds(outbox'[d], q)
          PROVE  tool'[q] \in Told /\ OnlyTo(outbox'[d], q, OwnerOf[q])
      <4>1. CASE d # c
        BY <2>1, <3>4, <3>6, <4>1 DEF Asked
      <4>2. CASE d = c
        BY <2>1, <3>3, <3>4, <3>5, <3>6, <4>2 DEF Asked
      <4> QED BY <4>1, <4>2
    <3> QED BY <2>1, <2>2, <3>6 DEF Asked
  <2> QED BY <1>6, <2>3, <2>4 DEF AnswerDialog
<1> QED BY <1>1, <1>2, <1>3, <1>4, <1>5, <1>6

\* The worker of s and its driver take a step.
LEMMA WorkerKeeps ==
    ASSUME TypeOK, NEW s \in Sessions, WorkerStep(s),
           NEW q \in Questions, Hears(q), Asked(q)
    PROVE  Hears(q)' /\ Asked(q)'
<1>a. /\ row \in [Questions -> {"absent", "open"} \cup Answers]
      /\ tool \in [Questions -> Pending \cup {"idle", "done", "lost"}]
      /\ got \in [Questions -> {"none"} \cup Answers]
      /\ work \in [Sessions -> Seq(Replies \cup Messages)]
      /\ "absent" \notin Answers /\ "open" \notin Answers /\ "none" \notin Answers
  BY QuestionsAssumption DEF TypeOK
<1> USE DEF client, engine
<1>1. CASE DriverTakes(s)
  BY <1>1, HearsKept, AskedKept DEF DriverTakes
<1>b. ASSUME work[s] # <<>>
      PROVE  /\ Head(work[s]) \in Replies \cup Messages
             /\ Holds(Tail(work[s]), q) => Holds(work[s], q)
             /\ Head(work[s]).question = q => Holds(work[s], q)
  <2>1. \A w \in Seq(Replies \cup Messages) : w # <<>> =>
            /\ Head(w) \in Replies \cup Messages
            /\ Holds(w, q) <=> Head(w).question = q \/ Holds(Tail(w), q)
    BY TailHolds
  <2> QED BY <1>a, <1>b, <2>1
<1>c. ASSUME work[s] # <<>>, work' = [work EXCEPT ![s] = Tail(work[s])], tool' = tool,
             UNCHANGED client
      PROVE  Asked(q)'
  <2>1. \A t \in Sessions : Holds(work'[t], q) => Holds(work[t], q)
    BY <1>a, <1>b, <1>c
  <2> QED BY <1>c, <2>1 DEF Asked
<1>2. CASE ForwardMessage(s)
  <2>1. /\ work[s] # <<>> /\ work' = [work EXCEPT ![s] = Tail(work[s])]
        /\ UNCHANGED <<engine, client>>
    BY <1>2 DEF ForwardMessage
  <2> QED BY <1>c, <2>1, HearsKept
<1>3. CASE ServeAnswer(s)
  <2>1. /\ work[s] # <<>> /\ ~ IsMessage(Head(work[s]))
        /\ work' = [work EXCEPT ![s] = Tail(work[s])]
        /\ Record(Head(work[s])) /\ Wake(s, Head(work[s]))
        /\ UNCHANGED <<client, tool>>
    BY <1>3 DEF ServeAnswer
  <2>2. Asked(q)'
    BY <1>c, <2>1
  <2>3. PICK p \in Questions, a \in Answers :
            Head(work[s]).question = p /\ Head(work[s]).answer = a
    BY <1>b, <2>1, ReplyFacts
  <2>4. row' = [row EXCEPT ![p] = IF row[p] = "open" THEN a ELSE row[p]]
    BY <2>1, <2>3 DEF Record
  <2>5. /\ p \in hub /\ OwnerOf[p] = s =>
              got' = [got EXCEPT ![p] = a] /\ hub' = hub \ {p}
        /\ ~ (p \in hub /\ OwnerOf[p] = s) => UNCHANGED <<got, hub>>
    BY <2>1, <2>3 DEF Wake
  <2>6. CASE q # p
    <3>1. row'[q] = row[q] /\ got'[q] = got[q] /\ (q \in hub' <=> q \in hub)
      BY <1>a, <2>4, <2>5, <2>6
    <3> QED BY <2>1, <2>2, <3>1, HearsKept
  <2>7. CASE q = p
    <3>1. tool[q] \in Told /\ OwnerOf[q] = s
      BY <1>b, <2>1, <2>3, <2>7 DEF Asked
    <3>2. CASE q \in hub
      <4>1. tool[q] = "waiting" /\ got[q] = "none"
        BY <3>1, <3>2 DEF Hears, Told
      <4>2. row[q] = "open"
        BY <1>a, <4>1 DEF Hears, Pending
      <4>3. row'[q] = a /\ got'[q] = a /\ q \notin hub' /\ tool'[q] = "waiting"
        BY <1>a, <2>1, <2>4, <2>5, <2>7, <3>1, <3>2, <4>1, <4>2
      <4>4. Hears(q)'
        BY <1>a, <4>3 DEF Hears
      <4> QED BY <2>2, <4>4
    <3>3. CASE q \notin hub
      <4>1. UNCHANGED <<got, hub>>
        BY <2>5, <2>7, <3>3
      <4>2. CASE row[q] = "open"
        <5>1. got[q] = "none"
          BY <1>a, <4>2 DEF Hears
        <5>2. tool[q] = "lost"
          BY <3>1, <3>3, <5>1 DEF Hears, Told
        <5>3. row'[q] = a /\ tool'[q] = "lost"
          BY <1>a, <2>1, <2>4, <2>7, <4>2, <5>2
        <5>4. Hears(q)'
          BY <1>a, <3>3, <4>1, <5>1, <5>3 DEF Hears, Pending
        <5> QED BY <2>2, <5>4
      <4>3. CASE row[q] # "open"
        <5>1. row'[q] = row[q]
          BY <1>a, <2>4, <2>7, <4>3
        <5> QED BY <2>1, <2>2, <4>1, <5>1, HearsKept
      <4> QED BY <4>2, <4>3
    <3> QED BY <3>2, <3>3
  <2> QED BY <2>6, <2>7
<1> QED BY <1>1, <1>2, <1>3 DEF WorkerStep

\* The daemon dies: the tools are gone, and the clients are attached to nothing.
LEMMA CrashKeeps ==
    ASSUME TypeOK, Crash, NEW q \in Questions, Hears(q), Asked(q)
    PROVE  Hears(q)' /\ Asked(q)'
<1>1. /\ tool'[q] = IF tool[q] \in Pending THEN "lost" ELSE tool[q]
      /\ hub' = {}
      /\ \A c \in Clients : attached'[c] = "none" /\ outbox'[c] = <<>>
      /\ \A s \in Sessions : work'[s] = <<>>
      /\ UNCHANGED <<row, got, dialog>>
  BY DEF Crash
<1>2. tool[q] \in Told => tool'[q] \in Told
  BY <1>1 DEF Told, Pending
<1>3. Asked(q)'
  BY <1>1, <1>2, EmptyHolds DEF Asked
<1>4. tool[q] \in Pending \cup {"idle", "done", "lost"}
  BY DEF TypeOK
<1>5. Hears(q)'
  BY <1>1, <1>4 DEF Hears, Pending
<1> QED BY <1>3, <1>5

LEMMA QuestionStep ==
    ASSUME TypeOK, [Next]_vars, NEW q \in Questions, QuestionOK(q)
    PROVE  QuestionOK(q)'
<1> SUFFICES ASSUME excuse'[q] # "listed" PROVE Hears(q)' /\ Asked(q)'
  BY DEF QuestionOK
<1>a. Hears(q) /\ Asked(q)
  BY ExcuseKept DEF QuestionOK
<1>1. ASSUME NEW p \in Questions, Persist(p) \/ Raise(p) \/ Resume(p)
      PROVE  Hears(q)' /\ Asked(q)'
  BY <1>a, <1>1, ToolStep DEF Raise
<1>2. ASSUME NEW c \in Clients,
             \/ \E s \in Sessions : Attach(c, s)
             \/ Leave(c) \/ Deliver(c) \/ SendMessage(c)
             \/ (\E p \in Questions : OpenAttention(c, p))
             \/ \E a \in Answers : AnswerDialog(c, a)
      PROVE  Hears(q)' /\ Asked(q)'
  <2>1. UNCHANGED engine
    BY <1>2 DEF Attach, Leave, Deliver, SendMessage, OpenAttention, AnswerDialog
  <2>2. ~ OpenAttention(c, q)
    BY DEF OpenAttention, TypeOK
  <2>3. Asked(q)'
    BY <1>a, <1>2, <2>2, ClientStep
  <2> QED BY <1>a, <2>1, <2>3, HearsKept DEF engine
<1>3. ASSUME NEW s \in Sessions, WorkerStep(s) PROVE Hears(q)' /\ Asked(q)'
  BY <1>a, <1>3, WorkerKeeps
<1>4. CASE Crash
  BY <1>a, <1>4, CrashKeeps
<1>5. CASE UNCHANGED vars
  BY <1>a, <1>5, HearsKept, AskedKept DEF vars, client, engine
<1> QED BY <1>1, <1>2, <1>3, <1>4, <1>5 DEF Next

-----------------------------------------------------------------------------
(***************************************************************************)
(* A question that waits is in front of somebody.                          *)
(***************************************************************************)
LEMMA ParkedStep ==
    ASSUME TypeOK, QuestionsOK, ParkedForAReason, [Next]_vars, NEW q \in Questions,
           tool'[q] = "waiting", got'[q] = "none", excuse'[q] = "none"
    PROVE  InFlight(q)' \/ \E c \in Clients : dialog'[c] = q
<1>a. /\ excuse[q] = "none" /\ Hears(q) /\ Asked(q)
      /\ tool \in [Questions -> Pending \cup {"idle", "done", "lost"}]
      /\ got \in [Questions -> {"none"} \cup Answers]
      /\ attached \in [Clients -> {"none"} \cup Sessions]
      /\ dialog \in [Clients -> {"none"} \cup Questions]
      /\ outbox \in [Clients -> Seq(Replies)]
      /\ work \in [Sessions -> Seq(Replies \cup Messages)]
      /\ excuse \in [Questions -> {"none"} \cup Reasons]
      /\ "none" \notin Questions /\ "none" \notin Answers
  BY ExcuseKept, QuestionsAssumption DEF TypeOK, QuestionsOK, QuestionOK
<1>b. tool[q] = "waiting" /\ got[q] = "none" =>
          InFlight(q) \/ \E c \in Clients : dialog[c] = q
  BY <1>a DEF ParkedForAReason
\* It is enough that every dialog and every answer in flight is still there.
<1>c. ASSUME tool[q] = "waiting", got[q] = "none",
             \A c \in Clients : dialog[c] = q => InFlight(q)' \/ dialog'[c] = q,
             \A c \in Clients : Holds(outbox[c], q) => InFlight(q)',
             \A s \in Sessions : Holds(work[s], q) => InFlight(q)'
      PROVE  InFlight(q)' \/ \E c \in Clients : dialog'[c] = q
  BY <1>b, <1>c, InFlightHolds
<1>d. InFlight(q)' <=> \/ \E c \in Clients : Holds(outbox'[c], q)
                       \/ \E s \in Sessions : Holds(work'[s], q)
  BY DEF InFlight, Holds, Range
<1>e. ASSUME UNCHANGED <<tool, got, dialog, outbox, work>>
      PROVE  InFlight(q)' \/ \E c \in Clients : dialog'[c] = q
  BY <1>c, <1>d, <1>e
<1> USE DEF client, engine
<1>1. ASSUME NEW p \in Questions, Persist(p) \/ Register(p) \/ Resume(p)
      PROVE  InFlight(q)' \/ \E c \in Clients : dialog'[c] = q
  <2>1. /\ UNCHANGED <<got, dialog, outbox, work>>
        /\ \E at \in {"persisted", "registered", "done"} : tool' = [tool EXCEPT ![p] = at]
    BY <1>1 DEF Persist, Register, Resume
  <2>2. tool[q] = "waiting"
    BY <1>a, <2>1
  <2> QED BY <1>c, <1>d, <2>1, <2>2
<1>2. ASSUME NEW p \in Questions, Emit(p)
      PROVE  InFlight(q)' \/ \E c \in Clients : dialog'[c] = q
  <2>1. /\ tool' = [tool EXCEPT ![p] = "waiting"]
        /\ dialog' = [c \in Clients |-> IF c \in Audience(p) THEN p ELSE dialog[c]]
        /\ UNCHANGED <<got, outbox, work>>
        /\ excuse'[q] = IF q = p /\ Audience(p) = {} THEN Excused(q, "headless")
                        ELSE IF q # p /\ \E c \in Audience(p) : dialog[c] = q
                        THEN Excused(q, "replaced") ELSE excuse[q]
    BY <1>2 DEF Emit, Show
  <2>2. Excused(q, "headless") # "none" /\ Excused(q, "replaced") # "none"
    BY ExcusedType DEF Reasons
  <2>3. CASE q = p
    <3>1. PICK c \in Audience(p) : TRUE
      BY <2>1, <2>2, <2>3
    <3> QED BY <2>1, <2>3, <3>1 DEF Audience
  <2>4. CASE q # p
    <3>1. \A c \in Audience(p) : dialog[c] # q
      BY <2>1, <2>2, <2>4
    <3>2. tool[q] = "waiting"
      BY <1>a, <2>1, <2>4
    <3>3. \A c \in Clients : dialog[c] = q => dialog'[c] = q
      BY <2>1, <3>1
    <3> QED BY <1>c, <1>d, <2>1, <3>2, <3>3
  <2> QED BY <2>3, <2>4
<1>3. ASSUME NEW c \in Clients, \E s \in Sessions : Attach(c, s)
      PROVE  InFlight(q)' \/ \E d \in Clients : dialog'[d] = q
  BY <1>3, <1>e DEF Attach
<1>4. ASSUME NEW c \in Clients, Leave(c)
      PROVE  InFlight(q)' \/ \E d \in Clients : dialog'[d] = q
  <2>1. /\ dialog' = [dialog EXCEPT ![c] = "none"] /\ outbox' = [outbox EXCEPT ![c] = <<>>]
        /\ excuse'[q] = IF dialog[c] = q \/ \E r \in Range(outbox[c]) : r.question = q
                        THEN Excused(q, "left") ELSE excuse[q]
        /\ UNCHANGED <<tool, got, work>>
    BY <1>4 DEF Leave
  <2>2. Excused(q, "left") # "none"
    BY ExcusedType DEF Reasons
  <2>3. dialog[c] # q /\ ~ Holds(outbox[c], q)
    BY <2>1, <2>2 DEF Holds, Range
  <2>4. \A d \in Clients \ {c} : dialog'[d] = dialog[d] /\ outbox'[d] = outbox[d]
    BY <1>a, <2>1
  <2> QED BY <1>c, <1>d, <2>1, <2>3, <2>4
<1>5. ASSUME NEW c \in Clients, Deliver(c)
      PROVE  InFlight(q)' \/ \E d \in Clients : dialog'[d] = q
  <2> DEFINE r == Head(outbox[c])
             rest == Tail(outbox[c])
  <2>1. /\ outbox[c] # <<>>
        /\ outbox' = [outbox EXCEPT ![c] = rest]
        /\ work' = [work EXCEPT ![r.to] = Append(work[r.to], r)]
        /\ UNCHANGED <<tool, got, dialog>>
    BY <1>5 DEF Deliver
  <2>2. /\ r \in Replies
        /\ Holds(outbox[c], q) <=> r.question = q \/ Holds(rest, q)
    BY <1>a, <2>1, TailHolds
  <2>3. r.to \in Sessions
    BY <2>2, ReplyFacts
  <2>4. Holds(Append(work[r.to], r), q) <=> Holds(work[r.to], q) \/ r.question = q
    <3>1. work[r.to] \in Seq(Replies \cup Messages) /\ r \in Replies \cup Messages
      BY <1>a, <2>2, <2>3
    <3>2. \A w \in Seq(Replies \cup Messages), e \in Replies \cup Messages :
             Holds(Append(w, e), q) <=> Holds(w, q) \/ e.question = q
      BY AppendHolds
    <3> QED BY <3>1, <3>2
  <2> HIDE DEF r, rest
  <2>5. /\ outbox'[c] = rest /\ \A d \in Clients \ {c} : outbox'[d] = outbox[d]
        /\ work'[r.to] = Append(work[r.to], r)
        /\ \A s \in Sessions \ {r.to} : work'[s] = work[s]
    BY <1>a, <2>1, <2>3
  <2>6. /\ \A d \in Clients : Holds(outbox[d], q) => InFlight(q)'
        /\ \A s \in Sessions : Holds(work[s], q) => InFlight(q)'
    BY <1>d, <2>2, <2>3, <2>4, <2>5
  <2> QED BY <1>c, <2>1, <2>6
<1>6. ASSUME NEW c \in Clients, SendMessage(c)
      PROVE  InFlight(q)' \/ \E d \in Clients : dialog'[d] = q
  <2> DEFINE s == attached[c]
  <2>1. /\ work' = [work EXCEPT ![s] = Append(work[s], Message(s))]
        /\ s \in Sessions
        /\ UNCHANGED <<tool, got, dialog, outbox>>
    BY <1>a, <1>6 DEF SendMessage
  <2>2. Holds(work[s], q) => Holds(Append(work[s], Message(s)), q)
    <3>1. work[s] \in Seq(Replies \cup Messages) /\ Message(s) \in Replies \cup Messages
      BY <1>a, <2>1, ReplyFacts
    <3>2. \A w \in Seq(Replies \cup Messages), e \in Replies \cup Messages :
             Holds(Append(w, e), q) <=> Holds(w, q) \/ e.question = q
      BY AppendHolds
    <3> QED BY <3>1, <3>2
  <2> HIDE DEF s
  <2>3. \A t \in Sessions : Holds(work[t], q) => Holds(work'[t], q)
    BY <1>a, <2>1, <2>2
  <2> QED BY <1>c, <1>d, <2>1, <2>3
<1>7. ASSUME NEW c \in Clients, NEW p \in Questions, OpenAttention(c, p)
      PROVE  InFlight(q)' \/ \E d \in Clients : dialog'[d] = q
  <2>1. /\ dialog[c] = "none" /\ dialog' = [dialog EXCEPT ![c] = p]
        /\ UNCHANGED <<tool, got, outbox, work>>
    BY <1>7 DEF OpenAttention
  <2>2. \A d \in Clients : dialog[d] = q => dialog'[d] = q
    BY <1>a, <2>1
  <2> QED BY <1>c, <1>d, <2>1, <2>2
<1>8. ASSUME NEW c \in Clients, NEW a \in Answers, AnswerDialog(c, a)
      PROVE  InFlight(q)' \/ \E d \in Clients : dialog'[d] = q
  <2>1. /\ dialog[c] # "none" /\ dialog' = [dialog EXCEPT ![c] = "none"]
        /\ UNCHANGED <<tool, got, attached, work>>
    BY <1>8 DEF AnswerDialog
  <2>2. \A d \in Clients \ {c} : dialog'[d] = dialog[d]
    BY <1>a, <2>1
  <2>3. CASE CanSend(c)
    <3> DEFINE r == Reply(dialog[c], a, attached[c])
    <3>1. outbox' = [outbox EXCEPT ![c] = Append(outbox[c], r)]
      BY <1>8, <2>3 DEF AnswerDialog
    <3>2. r \in Replies /\ r.question = dialog[c]
      BY <1>a, <2>1, <2>3, ReplyFacts DEF CanSend
    <3> HIDE DEF r
    <3>3. Holds(Append(outbox[c], r), q) <=> Holds(outbox[c], q) \/ r.question = q
      <4>1. \A w \in Seq(Replies), e \in Replies :
               Holds(Append(w, e), q) <=> Holds(w, q) \/ e.question = q
        BY AppendHolds
      <4> QED BY <1>a, <3>2, <4>1
    <3>4. /\ outbox'[c] = Append(outbox[c], r)
          /\ \A d \in Clients \ {c} : outbox'[d] = outbox[d]
      BY <1>a, <3>1
    <3>5. /\ \A d \in Clients : Holds(outbox[d], q) => InFlight(q)'
          /\ dialog[c] = q => InFlight(q)'
      BY <1>d, <3>2, <3>3, <3>4
    <3> QED BY <1>c, <1>d, <2>1, <2>2, <3>5
  <2>4. CASE ~ CanSend(c)
    <3>1. /\ excuse' = [excuse EXCEPT ![dialog[c]] = Excused(dialog[c], "dropped")]
          /\ outbox' = outbox
      BY <1>8, <2>4 DEF AnswerDialog
    <3>2. dialog[c] # q
      <4>1. Excused(q, "dropped") # "none"
        BY ExcusedType DEF Reasons
      <4> QED BY <1>a, <3>1, <4>1
    <3> QED BY <1>c, <1>d, <2>1, <2>2, <3>1, <3>2
  <2> QED BY <2>3, <2>4
<1>f. ASSUME NEW s \in Sessions, work[s] # <<>>,
             work' = [work EXCEPT ![s] = Tail(work[s])],
             Head(work[s]).question # q, UNCHANGED <<dialog, outbox>>
      PROVE  /\ \A c \in Clients : dialog[c] = q => dialog'[c] = q
             /\ \A c \in Clients : Holds(outbox[c], q) => InFlight(q)'
             /\ \A t \in Sessions : Holds(work[t], q) => InFlight(q)'
  <2>1. \A w \in Seq(Replies \cup Messages) : w # <<>> =>
            (Holds(w, q) <=> Head(w).question = q \/ Holds(Tail(w), q))
    BY TailHolds
  <2>2. \A t \in Sessions : Holds(work[t], q) => Holds(work'[t], q)
    BY SMTT(20), <1>a, <1>f, <2>1
  <2> QED BY <1>d, <1>f, <2>2
<1>9. ASSUME NEW s \in Sessions, ServeAnswer(s)
      PROVE  InFlight(q)' \/ \E d \in Clients : dialog'[d] = q
  <2>1. /\ work[s] # <<>> /\ ~ IsMessage(Head(work[s]))
        /\ work' = [work EXCEPT ![s] = Tail(work[s])]
        /\ Wake(s, Head(work[s]))
        /\ UNCHANGED <<tool, dialog, outbox>>
    BY <1>9 DEF ServeAnswer
  <2>2. /\ Head(work[s]).question \in Questions /\ Head(work[s]).answer \in Answers
        /\ Head(work[s]).question = q => Holds(work[s], q)
    <3>1. \A w \in Seq(Replies \cup Messages) : w # <<>> =>
              /\ Head(w) \in Replies \cup Messages
              /\ Holds(w, q) <=> Head(w).question = q \/ Holds(Tail(w), q)
      BY TailHolds
    <3> QED BY <1>a, <2>1, <3>1, ReplyFacts
  <2>3. Head(work[s]).question # q
    <3> SUFFICES ASSUME Head(work[s]).question = q PROVE FALSE
      OBVIOUS
    <3>1. OwnerOf[q] = s
      BY <1>a, <2>2 DEF Asked
    <3>2. CASE got[q] = "none"
      <4>1. q \in hub
        BY <1>a, <2>1, <3>2 DEF Hears
      <4>2. got'[q] = Head(work[s]).answer
        BY <1>a, <2>1, <3>1, <4>1 DEF Wake
      <4> QED BY <1>a, <2>2, <4>2
    <3>3. CASE got[q] # "none"
      <4>1. q \notin hub
        BY <1>a, <3>3 DEF Hears
      <4> QED BY <2>1, <3>3, <4>1 DEF Wake
    <3> QED BY <3>2, <3>3
  <2>4. got'[q] = got[q]
    BY <1>a, <2>1, <2>2, <2>3 DEF Wake
  <2> QED BY <1>c, <1>f, <2>1, <2>3, <2>4
<1>10. ASSUME NEW s \in Sessions, ForwardMessage(s)
       PROVE  InFlight(q)' \/ \E d \in Clients : dialog'[d] = q
  <2>1. /\ work[s] # <<>> /\ IsMessage(Head(work[s]))
        /\ work' = [work EXCEPT ![s] = Tail(work[s])]
        /\ UNCHANGED <<tool, got, dialog, outbox>>
    BY <1>10 DEF ForwardMessage
  <2>2. Head(work[s]).question # q
    BY <1>a, <2>1 DEF IsMessage
  <2> QED BY <1>c, <1>f, <2>1, <2>2
<1>11. ASSUME NEW s \in Sessions, DriverTakes(s)
       PROVE  InFlight(q)' \/ \E d \in Clients : dialog'[d] = q
  BY <1>11, <1>e DEF DriverTakes
<1>12. CASE Crash
  <2>1. tool'[q] # "waiting"
    BY <1>12 DEF Crash, Pending
  <2> QED BY <2>1
<1>13. CASE UNCHANGED vars
  BY <1>13, <1>e DEF vars
<1> QED BY <1>1, <1>2, <1>3, <1>4, <1>5, <1>6, <1>7, <1>8, <1>9, <1>10, <1>11, <1>12, <1>13
       DEF Next, Raise, WorkerStep

-----------------------------------------------------------------------------
(***************************************************************************)
(* The invariant.                                                          *)
(***************************************************************************)
LEMMA InitIInv == Init => IInv
<1> SUFFICES ASSUME Init PROVE IInv
  OBVIOUS
<1>1. TypeOK
  <2>1. /\ <<>> \in Seq(Replies) /\ Len(<<>>) = 0 /\ <<>> \in Seq(Replies \cup Messages)
    BY EmptySeq
  <2>2. /\ OutboxCap \in Nat \ {0} /\ InputCap \in Nat \ {0} /\ MaxMessages \in Nat
        /\ MaxLooks \in Nat /\ MaxCrashes \in Nat
    BY CapsAssumption
  <2> QED BY <2>1, <2>2 DEF Init, TypeOK
<1>2. ASSUME NEW q \in Questions PROVE Hears(q) /\ Asked(q) /\ tool[q] # "waiting"
  <2>1. "none" # q /\ "absent" \notin Answers
    BY QuestionsAssumption
  <2>2. Hears(q)
    BY <2>1 DEF Init, Hears
  <2>3. Asked(q)
    BY <2>1, EmptyHolds DEF Init, Asked
  <2> QED BY <2>2, <2>3 DEF Init
<1> QED BY <1>1, <1>2 DEF IInv, QuestionsOK, QuestionOK, ParkedForAReason

LEMMA NextIInv == IInv /\ [Next]_vars => IInv'
<1> SUFFICES ASSUME IInv, [Next]_vars PROVE IInv'
  OBVIOUS
<1>a. TypeOK /\ QuestionsOK /\ ParkedForAReason
  BY DEF IInv
<1>1. TypeOK'
  BY <1>a, TypeStep
<1>2. QuestionsOK'
  BY <1>a, QuestionStep DEF QuestionsOK
<1>3. ParkedForAReason'
  BY <1>a, ParkedStep DEF ParkedForAReason
<1> QED BY <1>1, <1>2, <1>3 DEF IInv

\* The inductive invariant of the questions.
THEOREM Invariance == Spec => []IInv
<1> QED BY InitIInv, NextIInv, PTL DEF Spec

\* Every variable keeps its type: no outbox and no input channel grows past its
\* capacity.
THEOREM TypeCorrect == Spec => []TypeOK
<1>1. IInv => TypeOK
  BY DEF IInv
<1> QED BY <1>1, Invariance, PTL

\* What a tool hears is what the row of its question records, and no row is answered
\* behind the back of its waiting tool (question.rs), save for a question that a
\* client picked from the attention pane.
THEOREM AnsweredOnce == Spec => []OneAnswer
<1>1. IInv => OneAnswer
  BY DEF IInv, QuestionsOK, QuestionOK, Hears, OneAnswer
<1> QED BY <1>1, Invariance, PTL

\* A call that waits for a human is in front of somebody, or answered, or one of the
\* named reasons says why not.
THEOREM ParkedExplained == Spec => []ParkedForAReason
<1>1. IInv => ParkedForAReason
  BY DEF IInv
<1> QED BY <1>1, Invariance, PTL
=============================================================================
