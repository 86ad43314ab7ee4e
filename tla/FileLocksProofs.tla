--------------------------- MODULE FileLocksProofs ---------------------------
(***************************************************************************)
(* Machine-checked proofs about the file-lock manager and its mirror, for  *)
(* any sessions, agents, paths and contents, any depth of an agent stack,  *)
(* any number of crashes and a failing statement.                          *)
(*                                                                         *)
(* What an agent holds follows from the memory of the manager alone        *)
(* (Slots).  What the mirror agrees with, and who may take a               *)
(* lock away, needs the names of the agents of two sessions to be          *)
(* different (NamesApart): the manager compares names only.                *)
(***************************************************************************)
EXTENDS FileLocks, SequenceTheorems, TLAPS

\* No two sessions run agents of the same name.
NamesApart == \A s, t \in Sessions : s # t => NamesOf[s] \cap NamesOf[t] = {}

\* The stages of a call that works on one path, ...
Single == {"acquireDb", "noteDb", "write", "release", "releaseDb", "noteMem", "unlockDb"}
\* ... those in which the agent in the active slot has its locks, ...
Settled == Single \cup {"idle", "resumeDb"}
\* ... those in which it is losing them, and those in which it gets some back.
Losing == {"suspendHash", "suspendMem"}
Resuming == {"resumeTake", "resumeHash", "resumeMem", "resumeDb"}
\* The stages in which a row is yet to be written, or to be deleted.
Writing == {"acquireDb", "resumeDb"}
Deleting == {"unlockDb", "releaseDb", "suspendDb"}

\* A session runs its own agents, and a lock or a row names one of them.
OwnNames ==
    /\ \A p \in Paths : held[p] # NoOne => held[p].agent \in NamesOf[held[p].session]
    /\ \A p \in Paths : dbHeld[p] # NoOne => dbHeld[p].agent \in NamesOf[dbHeld[p].session]
    /\ \A s \in Sessions :
        /\ op[s].at # "idle" => op[s].agent \in NamesOf[s]
        /\ op[s].child # NoName => op[s].child \in NamesOf[s]
        /\ \A i \in 1 .. Len(stack[s]) : stack[s][i].name \in NamesOf[s]

\* A call on one path is on one path.
SinglePath(s) == op[s].at \in Single => \A p, q \in op[s].todo : p = q
OnePath == \A s \in Sessions : SinglePath(s)

\* Who is resumed is on top again.
OnTop(s) == op[s].at \in Resuming => stack[s] # <<>> /\ op[s].agent = Top(s)
ResumesTop == \A s \in Sessions : OnTop(s)

\* Until the daemon dies, a session that holds a lock is in a stage in which its
\* active agent holds it, or is about to give it up.
Slot(s) ==
    restarts = 0 => \A p \in Paths : held[p] # NoOne /\ held[p].session = s =>
        \/ op[s].at \in Settled /\ stack[s] # <<>> /\ held[p].agent = Top(s)
        \/ op[s].at \in Losing /\ held[p].agent = op[s].agent /\ p \in op[s].todo
Slots == \A s \in Sessions : Slot(s)

\* A row to be written names the holder, a row to be deleted does not, and what is
\* being suspended is still held.
Half(s) ==
    \A p \in op[s].todo :
        /\ op[s].at \in Writing \cup Losing => held[p] = Me(s)
        /\ op[s].at \in Deleting => held[p] # Me(s)
Halves == \A s \in Sessions : Half(s)

\* The call o is between its two halves on p.
Writes(o, p) == o.at \in Writing /\ p \in o.todo
Deletes(o, a, p) == o.at \in Deleting /\ p \in o.todo /\ o.agent = a

\* Where the mirror lacks a holder, that session is about to write its row; where it
\* has one that holds nothing, that session is about to delete its row.
Pending ==
    ~ dbFailed => \A p \in Paths : held[p] # dbHeld[p] =>
        /\ held[p] # NoOne => Writes(op[held[p].session], p)
        /\ dbHeld[p] # NoOne => Deletes(op[dbHeld[p].session], dbHeld[p].agent, p)

-----------------------------------------------------------------------------
(* What a step of session s leaves in op[s]. *)

\* The call of another session is where it was.
Others(s) == \A t \in Sessions : t # s => op'[t] = op[t]

\* The record op[s] is o.
Becomes(s, o) == op' \in [Sessions -> Ops] /\ op'[s] = o /\ Others(s)

LEMMA IdleFacts ==
    /\ Idle \in Ops /\ Idle.at = "idle" /\ Idle.agent = NoName /\ Idle.todo = {}
    /\ Idle.snap = NoSnapshot /\ Idle.child = NoName /\ Idle.new = FALSE
<1>1. NoSnapshot \in Snapshots
  BY DEF NoSnapshot, Snapshots
<1> QED BY <1>1 DEF Idle, Ops, Stages

LEMMA Replaced ==
    ASSUME op \in [Sessions -> Ops], NEW s \in Sessions, NEW o \in Ops,
           op' = [op EXCEPT ![s] = o]
    PROVE  Becomes(s, o)
BY DEF Becomes, Others

LEMMA EndFacts ==
    ASSUME op \in [Sessions -> Ops], NEW s \in Sessions, Done(s)
    PROVE  Becomes(s, Idle)
BY IdleFacts, Replaced DEF Done

LEMMA GotoFacts ==
    ASSUME op \in [Sessions -> Ops], NEW s \in Sessions, NEW at \in Stages, Goto(s, at)
    PROVE  /\ op' \in [Sessions -> Ops] /\ Others(s)
           /\ op'[s].at = at /\ op'[s].agent = op[s].agent /\ op'[s].todo = op[s].todo
           /\ op'[s].snap = op[s].snap /\ op'[s].child = op[s].child
<1> DEFINE o == [op[s] EXCEPT !.at = at]
<1>1. /\ o \in Ops /\ o.at = at /\ o.agent = op[s].agent /\ o.todo = op[s].todo
      /\ o.snap = op[s].snap /\ o.child = op[s].child
  BY DEF Ops
<1>2. op' = [op EXCEPT ![s] = o]
  BY DEF Goto
<1> HIDE DEF o
<1> QED BY <1>1, <1>2, Replaced DEF Becomes

LEMMA StartFacts ==
    ASSUME op \in [Sessions -> Ops], NEW s \in Sessions, NEW a \in Names,
           NEW at \in Stages, NEW todo \in SUBSET Paths, Start(s, a, at, todo)
    PROVE  /\ op' \in [Sessions -> Ops] /\ Others(s)
           /\ op'[s].at = at /\ op'[s].agent = a /\ op'[s].todo = todo
           /\ op'[s].child = NoName /\ op'[s].snap = NoSnapshot
<1> DEFINE o == [Idle EXCEPT !.at = at, !.agent = a, !.todo = todo]
<1>1. /\ o \in Ops /\ o.at = at /\ o.agent = a /\ o.todo = todo
      /\ o.child = NoName /\ o.snap = NoSnapshot
  BY IdleFacts DEF Ops
<1>2. op' = [op EXCEPT ![s] = o]
  BY DEF Start
<1> HIDE DEF o
<1> QED BY <1>1, <1>2, Replaced DEF Becomes

LEMMA WriteFacts ==
    ASSUME op \in [Sessions -> Ops], NEW s \in Sessions, NEW p \in Paths,
           Top(s) \in Names, StartWrite(s, p)
    PROVE  /\ op' \in [Sessions -> Ops] /\ Others(s)
           /\ op'[s].at = "write" /\ op'[s].agent = Top(s) /\ op'[s].todo = {p}
           /\ op'[s].child = NoName
<1> DEFINE o == [Idle EXCEPT !.at = "write", !.agent = Top(s),
                             !.todo = {p}, !.new = file[p] = NoFile]
<1>1. /\ o \in Ops /\ o.at = "write" /\ o.agent = Top(s) /\ o.todo = {p}
      /\ o.child = NoName
  BY IdleFacts DEF Ops, Stages
<1>2. op' = [op EXCEPT ![s] = o]
  BY DEF StartWrite
<1> HIDE DEF o
<1> QED BY <1>1, <1>2, Replaced DEF Becomes

LEMMA SuspendFacts ==
    ASSUME op \in [Sessions -> Ops], NEW s \in Sessions, NEW a \in Names,
           NEW child \in Names \cup {NoName}, StartSuspend(s, a, child)
    PROVE  /\ op' \in [Sessions -> Ops] /\ Others(s)
           /\ op'[s].at = IF HeldBy(s, a) = {} THEN "switch" ELSE "suspendHash"
           /\ op'[s].agent = a /\ op'[s].todo = HeldBy(s, a)
           /\ op'[s].child = child
<1> DEFINE at == IF HeldBy(s, a) = {} THEN "switch" ELSE "suspendHash"
           o == [Idle EXCEPT !.at = at, !.agent = a, !.todo = HeldBy(s, a), !.child = child]
<1>1. at \in Stages /\ HeldBy(s, a) \in SUBSET Paths
  BY DEF Stages, HeldBy
<1>2. op' = [op EXCEPT ![s] = o]
  BY DEF StartSuspend
<1> HIDE DEF at
<1>3. /\ o \in Ops /\ o.at = at /\ o.agent = a /\ o.todo = HeldBy(s, a)
      /\ o.child = child
  BY <1>1, IdleFacts DEF Ops
<1> HIDE DEF o
<1>4. /\ op' \in [Sessions -> Ops] /\ Others(s)
      /\ op'[s].at = at
      /\ op'[s].agent = a /\ op'[s].todo = HeldBy(s, a)
      /\ op'[s].child = child
  BY <1>2, <1>3, Replaced DEF Becomes
<1> QED BY <1>4 DEF at

LEMMA HashFacts ==
    ASSUME op \in [Sessions -> Ops], file \in [Paths -> Contents \cup {NoFile}],
           NEW s \in Sessions, SuspendHash(s)
    PROVE  /\ op' \in [Sessions -> Ops] /\ Others(s)
           /\ op'[s].at = "suspendMem" /\ op'[s].agent = op[s].agent
           /\ op'[s].todo = op[s].todo /\ op'[s].child = op[s].child
           /\ \A p \in Paths : op'[s].snap[p] = IF p \in op[s].todo THEN file[p] ELSE NoFile
<1> DEFINE sn == [p \in Paths |-> IF p \in op[s].todo THEN file[p] ELSE NoFile]
           o == [op[s] EXCEPT !.at = "suspendMem", !.snap = sn]
<1>1. sn \in Snapshots /\ \A p \in Paths : sn[p] = IF p \in op[s].todo THEN file[p] ELSE NoFile
  BY DEF Snapshots
<1>2. op' = [op EXCEPT ![s] = o]
  BY DEF SuspendHash
<1> HIDE DEF sn
<1>3. /\ o \in Ops /\ o.at = "suspendMem" /\ o.agent = op[s].agent
      /\ o.todo = op[s].todo /\ o.child = op[s].child /\ o.snap = sn
  BY <1>1 DEF Ops, Stages
<1> HIDE DEF o
<1> QED BY <1>1, <1>2, <1>3, Replaced DEF Becomes

LEMMA RowFacts ==
    ASSUME op \in [Sessions -> Ops], NEW s \in Sessions, NEW p \in Paths, SuspendDb(s, p)
    PROVE  /\ op' \in [Sessions -> Ops] /\ Others(s)
           /\ op'[s].at = IF op[s].todo = {p} THEN "switch" ELSE "suspendDb"
           /\ op'[s].agent = op[s].agent /\ op'[s].todo = op[s].todo \ {p}
           /\ op'[s].child = op[s].child
<1> DEFINE at == IF op[s].todo = {p} THEN "switch" ELSE op[s].at
           o == [op[s] EXCEPT !.todo = op[s].todo \ {p}, !.at = at]
<1>1. op' = [op EXCEPT ![s] = o]
  BY DEF SuspendDb
<1>2. at \in Stages /\ at = IF op[s].todo = {p} THEN "switch" ELSE "suspendDb"
  BY DEF Stages, SuspendDb
<1> HIDE DEF at
<1>3. /\ o \in Ops /\ o.at = at /\ o.agent = op[s].agent
      /\ o.todo = op[s].todo \ {p} /\ o.child = op[s].child
  BY <1>2 DEF Ops
<1> HIDE DEF o
<1> QED BY <1>1, <1>2, <1>3, Replaced DEF Becomes

LEMMA TakeFacts ==
    ASSUME op \in [Sessions -> Ops], NEW s \in Sessions, suspended[Me(s)] \in Snapshots,
           ResumeTake(s)
    PROVE  /\ op' \in [Sessions -> Ops] /\ Others(s)
           /\ op'[s].at = "resumeHash" /\ op'[s].agent = op[s].agent
           /\ op'[s].todo = op[s].todo /\ op'[s].child = op[s].child
           /\ op'[s].snap = suspended[Me(s)]
<1> DEFINE o == [op[s] EXCEPT !.at = "resumeHash", !.snap = suspended[Me(s)]]
<1>1. op' = [op EXCEPT ![s] = o]
  BY DEF ResumeTake
<1>2. /\ o \in Ops /\ o.at = "resumeHash" /\ o.agent = op[s].agent
      /\ o.todo = op[s].todo /\ o.child = op[s].child /\ o.snap = suspended[Me(s)]
  BY DEF Ops, Stages
<1> HIDE DEF o
<1> QED BY <1>1, <1>2, Replaced DEF Becomes

LEMMA RehashFacts ==
    ASSUME op \in [Sessions -> Ops], NEW s \in Sessions, ResumeHash(s)
    PROVE  /\ op' \in [Sessions -> Ops] /\ Others(s)
           /\ op'[s].at = "resumeMem" /\ op'[s].agent = op[s].agent
           /\ op'[s].child = op[s].child
           /\ \A p \in op'[s].todo : op[s].snap[p] # NoFile /\ file[p] = op[s].snap[p]
           /\ reads' = reads \ {Read(s, op[s].agent, p) :
                 p \in {q \in Paths : op[s].snap[q] # NoFile /\ file[q] # op[s].snap[q]}}
<1> DEFINE inSnap == {p \in Paths : op[s].snap[p] # NoFile}
           drifted == {p \in inSnap : file[p] # op[s].snap[p]}
           todo == inSnap \ drifted
           o == [op[s] EXCEPT !.at = "resumeMem", !.todo = todo]
<1>1. op' = [op EXCEPT ![s] = o] /\ reads' = reads \ {Read(s, op[s].agent, p) : p \in drifted}
  BY DEF ResumeHash
<1>2. todo \in SUBSET Paths /\ \A p \in todo : op[s].snap[p] # NoFile /\ file[p] = op[s].snap[p]
  OBVIOUS
<1>3. drifted = {q \in Paths : op[s].snap[q] # NoFile /\ file[q] # op[s].snap[q]}
  OBVIOUS
<1> HIDE DEF todo, drifted
<1>4. /\ o \in Ops /\ o.at = "resumeMem" /\ o.agent = op[s].agent
      /\ o.todo = todo /\ o.child = op[s].child
  BY <1>2 DEF Ops, Stages
<1> HIDE DEF o
<1> QED BY <1>1, <1>2, <1>3, <1>4, Replaced DEF Becomes

LEMMA RegrantFacts ==
    ASSUME op \in [Sessions -> Ops], NEW s \in Sessions, ResumeMem(s)
    PROVE  LET free == {p \in op[s].todo : held[p] = NoOne} IN
           /\ op' \in [Sessions -> Ops] /\ Others(s)
           /\ free = {} => op'[s] = Idle
           /\ free # {} => /\ op'[s].at = "resumeDb" /\ op'[s].agent = op[s].agent
                           /\ op'[s].child = op[s].child /\ op'[s].todo = free
           /\ \A p \in Paths : held'[p] = IF p \in free THEN Me(s) ELSE held[p]
<1> DEFINE free == {p \in op[s].todo : held[p] = NoOne}
           o == [op[s] EXCEPT !.at = "resumeDb", !.todo = free]
<1>1. free \in SUBSET Paths
  BY DEF Ops
<1>2. \A p \in Paths : held'[p] = IF p \in free THEN Me(s) ELSE held[p]
  BY DEF ResumeMem
<1>3. IF free = {} THEN Done(s) ELSE op' = [op EXCEPT ![s] = o]
  BY DEF ResumeMem
<1> HIDE DEF free
<1>4. /\ o \in Ops /\ o.at = "resumeDb" /\ o.agent = op[s].agent
      /\ o.todo = free /\ o.child = op[s].child
  BY <1>1 DEF Ops, Stages
<1> HIDE DEF o
<1>5. CASE free = {}
  BY <1>2, <1>3, <1>5, EndFacts DEF Becomes, free
<1>6. CASE free # {}
  BY <1>2, <1>3, <1>4, <1>6, Replaced DEF Becomes, free
<1> QED BY <1>5, <1>6

LEMMA RegrantDbFacts ==
    ASSUME op \in [Sessions -> Ops], NEW s \in Sessions, NEW p \in Paths, ResumeDb(s, p)
    PROVE  /\ op' \in [Sessions -> Ops] /\ Others(s)
           /\ op[s].todo = {p} => op'[s] = Idle
           /\ op[s].todo # {p} =>
                /\ op'[s].at = "resumeDb" /\ op'[s].agent = op[s].agent
                /\ op'[s].child = op[s].child /\ op'[s].todo = op[s].todo \ {p}
<1> DEFINE o == [op[s] EXCEPT !.todo = op[s].todo \ {p}]
<1>1. IF op[s].todo = {p} THEN Done(s) ELSE op' = [op EXCEPT ![s] = o]
  BY DEF ResumeDb
<1>2. /\ o \in Ops /\ o.at = op[s].at /\ o.agent = op[s].agent
      /\ o.todo = op[s].todo \ {p} /\ o.child = op[s].child
  BY DEF Ops
<1>3. op[s].at = "resumeDb"
  BY DEF ResumeDb
<1> HIDE DEF o
<1>4. CASE op[s].todo = {p}
  BY <1>1, <1>4, EndFacts DEF Becomes
<1>5. CASE op[s].todo # {p}
  BY <1>1, <1>2, <1>3, <1>5, Replaced DEF Becomes
<1> QED BY <1>4, <1>5

-----------------------------------------------------------------------------
(* What a step leaves on the stacks. *)

LEMMA LastFrame ==
    ASSUME NEW q \in Seq(Frames), q # <<>>
    PROVE  Len(q) \in Nat \ {0} /\ Last(q) = q[Len(q)] /\ Last(q) \in Frames
<1>1. Len(q) \in Nat \ {0}
  BY EmptySeq
<1>2. q[Len(q)] \in Frames
  BY <1>1, ElementOfSeq
<1> QED BY <1>1, <1>2 DEF Last

LEMMA TopFacts ==
    ASSUME stack \in [Sessions -> Seq(Frames)], NEW s \in Sessions, stack[s] # <<>>
    PROVE  /\ Len(stack[s]) \in Nat \ {0}
           /\ Top(s) = stack[s][Len(stack[s])].name
           /\ Top(s) \in Names
BY LastFrame DEF Top, Frames

\* A sequence of frames, by its length and the names on it.
LEMMA FirstFrame ==
    ASSUME stack \in [Sessions -> Seq(Frames)], NEW s \in Sessions, NEW b \in Names,
           stack' = [stack EXCEPT ![s] = <<[name |-> b, had |-> {}]>>]
    PROVE  /\ stack' \in [Sessions -> Seq(Frames)]
           /\ Len(stack'[s]) = 1 /\ stack'[s][1].name = b
           /\ stack'[s] # <<>> /\ Top(s)' = b
           /\ \A t \in Sessions : t # s => stack'[t] = stack[t]
<1>1. [name |-> b, had |-> {}] \in Frames
  BY DEF Frames
<1>2. /\ <<[name |-> b, had |-> {}]>> \in Seq(Frames)
      /\ Len(<<[name |-> b, had |-> {}]>>) = 1
      /\ <<[name |-> b, had |-> {}]>>[1].name = b
      /\ <<[name |-> b, had |-> {}]>> # <<>>
  BY <1>1
<1> DEFINE q == <<[name |-> b, had |-> {}]>>
<1>3. Last(q).name = b
  BY <1>2, LastFrame
<1> HIDE DEF q
<1>4. stack' = [stack EXCEPT ![s] = q]
  BY DEF q
<1> QED BY <1>2, <1>3, <1>4 DEF Top, q

LEMMA MarkedFrame ==
    ASSUME stack \in [Sessions -> Seq(Frames)], NEW s \in Sessions, stack[s] # <<>>,
           NEW h \in SUBSET Paths,
           stack' = [stack EXCEPT ![s][Len(stack[s])].had = h]
    PROVE  /\ stack' \in [Sessions -> Seq(Frames)]
           /\ \A t \in Sessions :
                /\ Len(stack'[t]) = Len(stack[t])
                /\ \A i \in 1 .. Len(stack[t]) : stack'[t][i].name = stack[t][i].name
           /\ \A t \in Sessions : t # s => stack'[t] = stack[t]
           /\ stack'[s] # <<>> /\ Top(s)' = Top(s)
<1> DEFINE q == stack[s]
           n == Len(stack[s])
           e == [stack[s][n] EXCEPT !.had = h]
<1>1. q \in Seq(Frames) /\ n \in 1 .. Len(q)
  BY TopFacts
<1>2. q[n] \in Frames
  BY <1>1, ElementOfSeq
<1>3. e \in Frames /\ e.name = q[n].name
  BY <1>2 DEF Frames
<1>4. stack' = [stack EXCEPT ![s] = [q EXCEPT ![n] = e]]
  OBVIOUS
<1> HIDE DEF e, n
<1>5. /\ [q EXCEPT ![n] = e] \in Seq(Frames) /\ Len([q EXCEPT ![n] = e]) = Len(q)
      /\ \A j \in 1 .. Len(q) : [q EXCEPT ![n] = e][j] = IF j = n THEN e ELSE q[j]
  BY <1>1, <1>3, ExceptSeq
<1>6. \A j \in 1 .. Len(q) : [q EXCEPT ![n] = e][j].name = q[j].name
  BY <1>3, <1>5
<1>7. stack' \in [Sessions -> Seq(Frames)] /\ stack'[s] = [q EXCEPT ![n] = e]
  BY <1>4, <1>5
<1>8. \A t \in Sessions : t # s => stack'[t] = stack[t]
  BY <1>4
<1>9. ASSUME NEW t \in Sessions
      PROVE  /\ Len(stack'[t]) = Len(stack[t])
             /\ \A i \in 1 .. Len(stack[t]) : stack'[t][i].name = stack[t][i].name
  <2>1. CASE t = s
    BY <2>1, <1>5, <1>6, <1>7
  <2>2. CASE t # s
    BY <2>2, <1>8
  <2> QED BY <2>1, <2>2
<1>10. stack'[s] \in Seq(Frames) /\ Len(stack'[s]) = Len(q)
  BY <1>5, <1>7
<1>11. stack'[s] # <<>>
  BY <1>1, <1>10, EmptySeq
<1>12. Top(s)' = Top(s)
  <2>1. Last(stack'[s]) = stack'[s][Len(stack'[s])]
    BY <1>10, <1>11, LastFrame
  <2>2. Last(q) = q[Len(q)] /\ Len(q) \in Nat \ {0}
    BY <1>1, LastFrame
  <2>3. Len(q) \in 1 .. Len(q)
    BY <2>2
  <2>4. stack'[s][Len(q)].name = q[Len(q)].name
    BY <1>6, <1>7, <2>3
  <2> QED BY <1>10, <2>1, <2>2, <2>4 DEF Top
<1> QED BY <1>7, <1>8, <1>9, <1>11, <1>12

LEMMA PoppedFrame ==
    ASSUME stack \in [Sessions -> Seq(Frames)], NEW s \in Sessions, stack[s] # <<>>,
           stack' = [stack EXCEPT ![s] = Front(@)]
    PROVE  /\ stack' \in [Sessions -> Seq(Frames)]
           /\ Len(stack'[s]) = Len(stack[s]) - 1
           /\ \A i \in 1 .. Len(stack[s]) - 1 : stack'[s][i] = stack[s][i]
           /\ \A t \in Sessions : t # s => stack'[t] = stack[t]
<1> DEFINE q == stack[s]
           n == Len(stack[s])
           f == SubSeq(q, 1, n - 1)
<1>1. q \in Seq(Frames) /\ n \in Nat \ {0}
  BY TopFacts
<1>2. n - 1 \in Int /\ \A i \in 1 .. n - 1 : q[i] \in Frames
  BY <1>1, ElementOfSeq
<1> HIDE DEF n, q
<1>3. /\ f \in Seq(Frames) /\ Len(f) = IF 1 <= n - 1 THEN (n - 1) - 1 + 1 ELSE 0
      /\ \A i \in 1 .. (n - 1) - 1 + 1 : f[i] = q[1 + i - 1]
  BY <1>2, SubSeqProperties
<1>5. Len(f) = n - 1 /\ \A i \in 1 .. n - 1 : f[i] = q[i]
  BY <1>1, <1>3
<1> USE DEF n, q
<1>4. stack' = [stack EXCEPT ![s] = f]
  BY DEF Front
<1> HIDE DEF f
<1> QED BY <1>3, <1>4, <1>5

LEMMA PushedFrame ==
    ASSUME stack \in [Sessions -> Seq(Frames)], NEW s \in Sessions, NEW b \in Names,
           stack' = [stack EXCEPT ![s] = Append(@, [name |-> b, had |-> {}])]
    PROVE  /\ stack' \in [Sessions -> Seq(Frames)]
           /\ Len(stack'[s]) = Len(stack[s]) + 1
           /\ stack'[s][Len(stack[s]) + 1].name = b
           /\ stack'[s] # <<>> /\ Top(s)' = b
           /\ \A i \in 1 .. Len(stack[s]) : stack'[s][i] = stack[s][i]
           /\ \A t \in Sessions : t # s => stack'[t] = stack[t]
<1> DEFINE e == [name |-> b, had |-> {}]
           q == Append(stack[s], e)
<1>1. e \in Frames /\ e.name = b
  BY DEF Frames
<1>2. stack[s] \in Seq(Frames) /\ stack' = [stack EXCEPT ![s] = q]
  OBVIOUS
<1> HIDE DEF e
<1>3. /\ q \in Seq(Frames) /\ Len(q) = Len(stack[s]) + 1
      /\ q[Len(stack[s]) + 1] = e
      /\ \A i \in 1 .. Len(stack[s]) : q[i] = stack[s][i]
  BY <1>1, <1>2, AppendProperties
<1>4. q # <<>>
  BY <1>1, <1>2, AppendProperties
<1> HIDE DEF q
<1>5. stack'[s] = q /\ Last(q) = e
  BY <1>2, <1>3, <1>4, LastFrame
<1> QED BY <1>1, <1>2, <1>3, <1>4, <1>5 DEF Top

-----------------------------------------------------------------------------
(* The shape of the state. *)

\* A path and a session's own agent make a record the tables may hold.
LEMMA OwnAgent ==
    ASSUME TypeOK, OwnNames, NEW s \in Sessions
    PROVE  /\ \A a \in Names : Agent(s, a) \in Agents /\ Agent(s, a) # NoOne
           /\ \A a \in Names : Agent(s, a).session = s /\ Agent(s, a).agent = a
           /\ NamesOf[s] \subseteq Names
           /\ op[s].at # "idle" => op[s].agent \in Names /\ Me(s) \in Agents /\ Me(s) # NoOne
                                   /\ Me(s).session = s /\ Me(s).agent = op[s].agent
           /\ \A p \in Paths, a \in Names : Read(s, a, p) \in Reads
<1>1. NamesOf[s] \subseteq Names
  BY NamesOfAssumption
<1>2. op[s].at # "idle" => op[s].agent \in Names
  BY <1>1 DEF OwnNames
<1>3. \A a \in Names : Agent(s, a) \in Agents
  BY DEF Agent, Agents
<1> QED BY <1>1, <1>2, <1>3, NullsAssumption DEF Agent, Agents, Me, Read, Reads

LEMMA OpStep ==
    ASSUME TypeOK, OwnNames, [Next]_vars
    PROVE  op' \in [Sessions -> Ops]
<1> USE DEF TypeOK, Stages
<1>1. ASSUME NEW s \in Sessions, NEW p \in Paths, StartReadlock(s, p) PROVE op' \in [Sessions -> Ops]
  BY <1>1, TopFacts, StartFacts, OwnAgent DEF StartReadlock, Active, TakeLock
<1>2. ASSUME NEW s \in Sessions, NEW p \in Paths, AcquireDb(s, p) PROVE op' \in [Sessions -> Ops]
  BY <1>2, GotoFacts, OwnAgent DEF AcquireDb, DbAcquire
<1>3. ASSUME NEW s \in Sessions, NEW p \in Paths, StartRead(s, p) PROVE op' \in [Sessions -> Ops]
  BY <1>3, TopFacts, StartFacts, OwnAgent DEF StartRead, Active
<1>4. ASSUME NEW s \in Sessions, NEW p \in Paths, NoteDb(s, p) PROVE op' \in [Sessions -> Ops]
  BY <1>4, EndFacts, IdleFacts, OwnAgent DEF NoteDb, Becomes
<1>5. ASSUME NEW s \in Sessions, NEW p \in Paths, StartUnlock(s, p) PROVE op' \in [Sessions -> Ops]
  BY <1>5, TopFacts, StartFacts, OwnAgent DEF StartUnlock, Active, MayRelease
<1>6. ASSUME NEW s \in Sessions, NEW p \in Paths, UnlockDb(s, p) PROVE op' \in [Sessions -> Ops]
  BY <1>6, EndFacts, IdleFacts, OwnAgent DEF UnlockDb, DbRelease, Becomes
<1>7. ASSUME NEW s \in Sessions, NEW p \in Paths, StartWrite(s, p) PROVE op' \in [Sessions -> Ops]
  BY <1>7, TopFacts, WriteFacts, OwnAgent DEF StartWrite, Active
<1>8. ASSUME NEW s \in Sessions, NEW p \in Paths, WriteFile(s, p) PROVE op' \in [Sessions -> Ops]
  BY <1>8, GotoFacts, OwnAgent DEF WriteFile
<1>9. ASSUME NEW s \in Sessions, NEW p \in Paths, ReleaseWritten(s, p) PROVE op' \in [Sessions -> Ops]
  BY <1>9, GotoFacts, OwnAgent DEF ReleaseWritten, MayRelease
<1>10. ASSUME NEW s \in Sessions, NEW p \in Paths, NothingToRelease(s, p) PROVE op' \in [Sessions -> Ops]
  BY <1>10, GotoFacts, OwnAgent DEF NothingToRelease
<1>11. ASSUME NEW s \in Sessions, NEW p \in Paths, ReleaseRefused(s, p) PROVE op' \in [Sessions -> Ops]
  BY <1>11, EndFacts, IdleFacts, OwnAgent DEF ReleaseRefused, Becomes
<1>12. ASSUME NEW s \in Sessions, NEW p \in Paths, ReleaseDb(s, p) PROVE op' \in [Sessions -> Ops]
  BY <1>12, GotoFacts, OwnAgent DEF ReleaseDb, DbRelease
<1>13. ASSUME NEW s \in Sessions, NEW p \in Paths, NoteWritten(s, p) PROVE op' \in [Sessions -> Ops]
  BY <1>13, GotoFacts, OwnAgent DEF NoteWritten
<1>14. ASSUME NEW s \in Sessions, NEW p \in Paths, SuspendDb(s, p) PROVE op' \in [Sessions -> Ops]
  BY <1>14, RowFacts, OwnAgent DEF SuspendDb, DbRelease
<1>15. ASSUME NEW s \in Sessions, NEW p \in Paths, ResumeDb(s, p) PROVE op' \in [Sessions -> Ops]
  BY <1>15, RegrantDbFacts, IdleFacts, OwnAgent DEF ResumeDb, DbAcquire
<1>16. ASSUME NEW s \in Sessions, NEW b \in NamesOf[s], Delegate(s, b) PROVE op' \in [Sessions -> Ops]
  <2>1. CASE stack[s] = <<>>
    BY <1>16, <2>1 DEF Delegate
  <2>2. CASE stack[s] # <<>>
    BY <1>16, <2>2, OwnAgent, TopFacts, SuspendFacts DEF Delegate
  <2> QED BY <2>1, <2>2
<1>17. ASSUME NEW s \in Sessions, Finish(s) PROVE op' \in [Sessions -> Ops]
  BY <1>17, TopFacts, SuspendFacts, OwnAgent DEF Finish, Active
<1>18. ASSUME NEW s \in Sessions, SuspendHash(s) PROVE op' \in [Sessions -> Ops]
  BY <1>18, HashFacts, OwnAgent DEF SuspendHash
<1>19. ASSUME NEW s \in Sessions, SuspendMem(s) PROVE op' \in [Sessions -> Ops]
  BY <1>19, GotoFacts, OwnAgent DEF SuspendMem
<1>20. ASSUME NEW s \in Sessions, Push(s) PROVE op' \in [Sessions -> Ops]
  BY <1>20, EndFacts, IdleFacts, OwnAgent DEF Push, Becomes
<1>21. ASSUME NEW s \in Sessions, Pop(s) PROVE op' \in [Sessions -> Ops]
  <2>1. CASE stack[s] = <<>>
    BY <1>21, <2>1, EndFacts DEF Pop, Becomes
  <2>2. CASE stack[s] # <<>>
    BY <1>21, <2>2, TopFacts, StartFacts DEF Pop
  <2> QED BY <2>1, <2>2
<1>22. ASSUME NEW s \in Sessions, ResumeTake(s) PROVE op' \in [Sessions -> Ops]
  <2>1. suspended[Me(s)] \in Snapshots
    BY <1>22, OwnAgent DEF ResumeTake
  <2> QED BY <1>22, <2>1, TakeFacts DEF ResumeTake
<1>23. ASSUME NEW s \in Sessions, ResumeHash(s) PROVE op' \in [Sessions -> Ops]
  BY <1>23, RehashFacts, OwnAgent DEF ResumeHash
<1>24. ASSUME NEW s \in Sessions, ResumeMem(s) PROVE op' \in [Sessions -> Ops]
  BY <1>24, RegrantFacts, IdleFacts, OwnAgent DEF ResumeMem
<1>25. ASSUME NEW s \in Sessions, DbError(s) PROVE op' \in [Sessions -> Ops]
  BY <1>25, EndFacts, IdleFacts, GotoFacts, OwnAgent DEF DbError, Becomes
<1>26. ASSUME Restart PROVE op' \in [Sessions -> Ops]
  BY <1>26, IdleFacts, OwnAgent DEF Restart
<1>27. CASE UNCHANGED vars
  BY <1>27 DEF vars, memory, mirror, faults
<1> QED BY <1>1, <1>2, <1>3, <1>4, <1>5, <1>6, <1>7, <1>8, <1>9, <1>10, <1>11,
    <1>12, <1>13, <1>14, <1>15, <1>16, <1>17, <1>18, <1>19, <1>20, <1>21, <1>22,
    <1>23, <1>24, <1>25, <1>26, <1>27
    DEF Next, Call, Switch

\* The stack changes in a delegation, a return and a restart only.
LEMMA StackSteps ==
    ASSUME [Next]_vars
    PROVE  \/ \E s \in Sessions : \/ \E b \in NamesOf[s] : Delegate(s, b)
                                  \/ Finish(s) \/ Push(s)
           \/ Restart
           \/ UNCHANGED stack
<1>1. ASSUME NEW s \in Sessions, NEW p \in Paths, Call(s, p) PROVE UNCHANGED stack
  BY <1>1 DEF Call, StartReadlock, AcquireDb, StartRead, NoteDb, StartUnlock, UnlockDb,
      StartWrite, WriteFile, ReleaseWritten, NothingToRelease, ReleaseRefused, ReleaseDb,
      NoteWritten, SuspendDb, ResumeDb
<1>2. ASSUME NEW s \in Sessions, Switch(s) PROVE UNCHANGED stack \/ Finish(s) \/ Push(s)
  BY <1>2 DEF Switch, SuspendHash, SuspendMem, Pop, ResumeTake, ResumeHash, ResumeMem
<1>3. ASSUME NEW s \in Sessions, DbError(s) PROVE UNCHANGED stack
  BY <1>3 DEF DbError
<1> QED BY <1>1, <1>2, <1>3 DEF Next, vars

LEMMA StackStep ==
    ASSUME TypeOK, OwnNames, [Next]_vars
    PROVE  stack' \in [Sessions -> Seq(Frames)]
<1> USE DEF TypeOK
<1>1. ASSUME NEW s \in Sessions, NEW b \in NamesOf[s], Delegate(s, b)
      PROVE  stack' \in [Sessions -> Seq(Frames)]
  <2>1. CASE stack[s] = <<>>
    <3>1. b \in Names /\ stack' = [stack EXCEPT ![s] = <<[name |-> b, had |-> {}]>>]
      BY <1>1, <2>1, OwnAgent DEF Delegate
    <3> QED BY <3>1, FirstFrame
  <2>2. CASE stack[s] # <<>>
    <3>1. stack' = [stack EXCEPT ![s][Len(stack[s])].had = HeldBy(s, Top(s))]
      BY <1>1, <2>2 DEF Delegate
    <3>2. HeldBy(s, Top(s)) \in SUBSET Paths
      BY DEF HeldBy
    <3> QED BY <2>2, <3>1, <3>2, MarkedFrame
  <2> QED BY <2>1, <2>2
<1>2. ASSUME NEW s \in Sessions, Finish(s) PROVE stack' \in [Sessions -> Seq(Frames)]
  BY <1>2, PoppedFrame DEF Finish, Active
<1>3. ASSUME NEW s \in Sessions, Push(s) PROVE stack' \in [Sessions -> Seq(Frames)]
  <2>1. op[s].child \in Names
    BY <1>3, OwnAgent DEF Push, OwnNames
  <2> QED BY <1>3, <2>1, PushedFrame DEF Push
<1>4. CASE Restart
  BY <1>4, EmptySeq DEF Restart
<1>5. CASE UNCHANGED stack
  BY <1>5
<1> QED BY <1>1, <1>2, <1>3, <1>4, <1>5, StackSteps

\* TypeOK without the calls and the stacks.
Tables ==
    /\ held \in [Paths -> Agents \cup {NoOne}] /\ reads \subseteq Reads
    /\ suspended \in [Agents -> Snapshots]
    /\ dbHeld \in [Paths -> Agents \cup {NoOne}] /\ dbReads \subseteq Reads
    /\ file \in [Paths -> Contents \cup {NoFile}]
    /\ restarts \in Nat /\ dbFailed \in BOOLEAN

LEMMA TableStep ==
    ASSUME TypeOK, OwnNames, [Next]_vars
    PROVE  Tables'
<1> USE DEF TypeOK, Tables, memory, mirror, faults
<1>1. ASSUME NEW s \in Sessions, NEW p \in Paths, StartReadlock(s, p) PROVE Tables'
  BY <1>1, OwnAgent, TopFacts DEF StartReadlock, Active, TakeLock
<1>2. ASSUME NEW s \in Sessions, NEW p \in Paths, AcquireDb(s, p) PROVE Tables'
  BY <1>2, OwnAgent DEF AcquireDb, DbAcquire
<1>3. ASSUME NEW s \in Sessions, NEW p \in Paths, StartRead(s, p) PROVE Tables'
  BY <1>3, OwnAgent, TopFacts DEF StartRead, Active
<1>4. ASSUME NEW s \in Sessions, NEW p \in Paths, NoteDb(s, p) PROVE Tables'
  BY <1>4, OwnAgent DEF NoteDb, Becomes
<1>5. ASSUME NEW s \in Sessions, NEW p \in Paths, StartUnlock(s, p) PROVE Tables'
  BY <1>5, OwnAgent, TopFacts DEF StartUnlock, Active, MayRelease
<1>6. ASSUME NEW s \in Sessions, NEW p \in Paths, UnlockDb(s, p) PROVE Tables'
  BY <1>6, OwnAgent DEF UnlockDb, DbRelease, Becomes
<1>7. ASSUME NEW s \in Sessions, NEW p \in Paths, StartWrite(s, p) PROVE Tables'
  BY <1>7, OwnAgent, TopFacts DEF StartWrite, Active
<1>8. ASSUME NEW s \in Sessions, NEW p \in Paths, WriteFile(s, p) PROVE Tables'
  <2>1. PICK c \in Contents : file' = [file EXCEPT ![p] = c]
    BY <1>8 DEF WriteFile
  <2> QED BY <1>8, <2>1 DEF WriteFile
<1>9. ASSUME NEW s \in Sessions, NEW p \in Paths, ReleaseWritten(s, p) PROVE Tables'
  BY <1>9, OwnAgent DEF ReleaseWritten, MayRelease
<1>10. ASSUME NEW s \in Sessions, NEW p \in Paths, NothingToRelease(s, p) PROVE Tables'
  BY <1>10, OwnAgent DEF NothingToRelease
<1>11. ASSUME NEW s \in Sessions, NEW p \in Paths, ReleaseRefused(s, p) PROVE Tables'
  BY <1>11, OwnAgent DEF ReleaseRefused, Becomes
<1>12. ASSUME NEW s \in Sessions, NEW p \in Paths, ReleaseDb(s, p) PROVE Tables'
  BY <1>12, OwnAgent DEF ReleaseDb, DbRelease
<1>13. ASSUME NEW s \in Sessions, NEW p \in Paths, NoteWritten(s, p) PROVE Tables'
  BY <1>13, OwnAgent DEF NoteWritten
<1>14. ASSUME NEW s \in Sessions, NEW p \in Paths, SuspendDb(s, p) PROVE Tables'
  BY <1>14, OwnAgent DEF SuspendDb, DbRelease
<1>15. ASSUME NEW s \in Sessions, NEW p \in Paths, ResumeDb(s, p) PROVE Tables'
  BY <1>15, OwnAgent DEF ResumeDb, DbAcquire
<1>16. ASSUME NEW s \in Sessions, NEW b \in NamesOf[s], Delegate(s, b) PROVE Tables'
  BY <1>16, OwnAgent DEF Delegate, HeldBy
<1>17. ASSUME NEW s \in Sessions, Finish(s) PROVE Tables'
  BY <1>17, OwnAgent, TopFacts DEF Finish, Active
<1>18. ASSUME NEW s \in Sessions, SuspendHash(s) PROVE Tables'
  BY <1>18, OwnAgent DEF SuspendHash
<1>19. ASSUME NEW s \in Sessions, SuspendMem(s) PROVE Tables'
  <2>1. op[s].snap \in Snapshots
    BY DEF Ops
  <2> QED BY <1>19, <2>1, OwnAgent DEF SuspendMem
<1>20. ASSUME NEW s \in Sessions, Push(s) PROVE Tables'
  BY <1>20, OwnAgent DEF Push, Becomes
<1>21. ASSUME NEW s \in Sessions, Pop(s) PROVE Tables'
  BY <1>21, OwnAgent DEF Pop, Becomes
<1>22. ASSUME NEW s \in Sessions, ResumeTake(s) PROVE Tables'
  <2>1. NoSnapshot \in Snapshots
    BY DEF NoSnapshot, Snapshots
  <2> QED BY <1>22, <2>1 DEF ResumeTake
<1>23. ASSUME NEW s \in Sessions, ResumeHash(s) PROVE Tables'
  BY <1>23, OwnAgent DEF ResumeHash
<1>24. ASSUME NEW s \in Sessions, ResumeMem(s) PROVE Tables'
  BY <1>24, OwnAgent DEF ResumeMem
<1>25. ASSUME NEW s \in Sessions, DbError(s) PROVE Tables'
  BY <1>25, OwnAgent DEF DbError, Becomes
<1>26. ASSUME Restart PROVE Tables'
  <2>1. NoSnapshot \in Snapshots
    BY DEF NoSnapshot, Snapshots
  <2> QED BY <1>26, <2>1 DEF Restart
<1>27. CASE UNCHANGED vars
  BY <1>27 DEF vars
<1> QED BY <1>1, <1>2, <1>3, <1>4, <1>5, <1>6, <1>7, <1>8, <1>9, <1>10, <1>11,
    <1>12, <1>13, <1>14, <1>15, <1>16, <1>17, <1>18, <1>19, <1>20, <1>21, <1>22,
    <1>23, <1>24, <1>25, <1>26, <1>27
    DEF Next, Call, Switch

LEMMA TypeStep ==
    ASSUME TypeOK, OwnNames, [Next]_vars
    PROVE  TypeOK'
BY OpStep, StackStep, TableStep DEF TypeOK, Tables

-----------------------------------------------------------------------------
(* What a step of one session leaves to the others. *)

\* A step of session s.
Act(s) ==
    \/ \E p \in Paths : Call(s, p)
    \/ \E b \in NamesOf[s] : Delegate(s, b)
    \/ Switch(s)
    \/ DbError(s)

LEMMA NextActs ==
    ASSUME [Next]_vars
    PROVE  (\E s \in Sessions : Act(s)) \/ Restart \/ UNCHANGED vars
BY DEF Next, Act

\* The stack of another session is what it was; a lock of another session is what it
\* was, or is gone.
Rest(s) ==
    /\ Others(s)
    /\ \A t \in Sessions : t # s => stack'[t] = stack[t]
    /\ \A p \in Paths : held'[p] # NoOne => held'[p] = held[p] \/ held'[p].session = s
    /\ restarts' = restarts

LEMMA OwnTop ==
    ASSUME TypeOK, OwnNames, NEW s \in Sessions, stack[s] # <<>>
    PROVE  Top(s) \in NamesOf[s] /\ Top(s) \in Names /\ Agent(s, Top(s)) \in Agents
<1>1. Len(stack[s]) \in 1 .. Len(stack[s]) /\ Top(s) = stack[s][Len(stack[s])].name
  BY TopFacts DEF TypeOK
<1> QED BY <1>1, OwnAgent DEF OwnNames

LEMMA AgentFacts ==
    /\ \A s \in Sessions, a \in Names :
          Agent(s, a) # NoOne /\ Agent(s, a).session = s /\ Agent(s, a).agent = a
    /\ \A g \in Agents : g.session \in Sessions /\ g.agent \in Names
                         /\ g = Agent(g.session, g.agent)
BY NullsAssumption DEF Agent, Agents

LEMMA RestStep ==
    ASSUME TypeOK, OwnNames, NEW s \in Sessions, Act(s)
    PROVE  Rest(s)
<1>a. op \in [Sessions -> Ops] /\ stack \in [Sessions -> Seq(Frames)]
      /\ held \in [Paths -> Agents \cup {NoOne}]
  BY DEF TypeOK
<1>b. op[s].at # "idle" => Me(s) = Agent(s, op[s].agent) /\ op[s].agent \in Names
  BY OwnAgent DEF Me
<1>c. stack[s] # <<>> => Top(s) \in Names
  BY TopFacts DEF TypeOK
<1> USE AgentFacts
<1>1. ASSUME NEW p \in Paths, StartReadlock(s, p) PROVE Rest(s)
  BY <1>1, TopFacts, StartFacts, <1>a, <1>b, <1>c
    DEF StartReadlock, Active, TakeLock, Rest, Stages, memory, mirror, faults
<1>2. ASSUME NEW p \in Paths, AcquireDb(s, p) PROVE Rest(s)
  BY <1>2, GotoFacts, <1>a, <1>b, <1>c
    DEF AcquireDb, DbAcquire, Rest, Stages, memory, mirror, faults
<1>3. ASSUME NEW p \in Paths, StartRead(s, p) PROVE Rest(s)
  BY <1>3, TopFacts, StartFacts, <1>a, <1>b, <1>c
    DEF StartRead, Active, Rest, Stages, memory, mirror, faults
<1>4. ASSUME NEW p \in Paths, NoteDb(s, p) PROVE Rest(s)
  BY <1>4, EndFacts, IdleFacts, <1>a, <1>b, <1>c
    DEF NoteDb, Becomes, Rest, Stages, memory, mirror, faults
<1>5. ASSUME NEW p \in Paths, StartUnlock(s, p) PROVE Rest(s)
  BY <1>5, TopFacts, StartFacts, <1>a, <1>b, <1>c
    DEF StartUnlock, Active, MayRelease, Rest, Stages, memory, mirror, faults
<1>6. ASSUME NEW p \in Paths, UnlockDb(s, p) PROVE Rest(s)
  BY <1>6, EndFacts, IdleFacts, <1>a, <1>b, <1>c
    DEF UnlockDb, DbRelease, Becomes, Rest, Stages, memory, mirror, faults
<1>7. ASSUME NEW p \in Paths, StartWrite(s, p) PROVE Rest(s)
  <2>1. UNCHANGED <<held, stack, restarts>> /\ stack[s] # <<>>
    BY <1>7 DEF StartWrite, Active, memory, faults
  <2> QED BY <1>7, <2>1, <1>a, <1>c, WriteFacts DEF Rest
<1>8. ASSUME NEW p \in Paths, WriteFile(s, p) PROVE Rest(s)
  BY <1>8, GotoFacts, <1>a, <1>b, <1>c
    DEF WriteFile, Rest, Stages, memory, mirror, faults
<1>9. ASSUME NEW p \in Paths, ReleaseWritten(s, p) PROVE Rest(s)
  BY <1>9, GotoFacts, <1>a, <1>b, <1>c
    DEF ReleaseWritten, MayRelease, Rest, Stages, memory, mirror, faults
<1>10. ASSUME NEW p \in Paths, NothingToRelease(s, p) PROVE Rest(s)
  BY <1>10, GotoFacts, <1>a, <1>b, <1>c
    DEF NothingToRelease, Rest, Stages, memory, mirror, faults
<1>11. ASSUME NEW p \in Paths, ReleaseRefused(s, p) PROVE Rest(s)
  BY <1>11, EndFacts, IdleFacts, <1>a, <1>b, <1>c
    DEF ReleaseRefused, Becomes, Rest, Stages, memory, mirror, faults
<1>12. ASSUME NEW p \in Paths, ReleaseDb(s, p) PROVE Rest(s)
  BY <1>12, GotoFacts, <1>a, <1>b, <1>c
    DEF ReleaseDb, DbRelease, Rest, Stages, memory, mirror, faults
<1>13. ASSUME NEW p \in Paths, NoteWritten(s, p) PROVE Rest(s)
  BY <1>13, GotoFacts, <1>a, <1>b, <1>c
    DEF NoteWritten, Rest, Stages, memory, mirror, faults
<1>14. ASSUME NEW p \in Paths, SuspendDb(s, p) PROVE Rest(s)
  <2>1. UNCHANGED <<held, stack, restarts>>
    BY <1>14 DEF SuspendDb, memory, faults
  <2> QED BY <1>14, <2>1, <1>a, RowFacts DEF Rest
<1>15. ASSUME NEW p \in Paths, ResumeDb(s, p) PROVE Rest(s)
  <2>1. UNCHANGED <<held, stack, restarts>>
    BY <1>15 DEF ResumeDb, memory, faults
  <2> QED BY <1>15, <2>1, <1>a, RegrantDbFacts DEF Rest
<1>16. ASSUME NEW b \in NamesOf[s], Delegate(s, b) PROVE Rest(s)
  <2>1. CASE stack[s] = <<>>
    <3>1. b \in Names /\ stack' = [stack EXCEPT ![s] = <<[name |-> b, had |-> {}]>>]
      BY <1>16, <2>1, OwnAgent DEF Delegate
    <3>2. \A t \in Sessions : t # s => stack'[t] = stack[t]
      BY <3>1, <1>a, FirstFrame
    <3> QED BY <1>16, <2>1, <3>2 DEF Delegate, Rest, Others, memory, faults
  <2>2. CASE stack[s] # <<>>
    <3>1. /\ stack' = [stack EXCEPT ![s][Len(stack[s])].had = HeldBy(s, Top(s))]
          /\ StartSuspend(s, Top(s), b)
      BY <1>16, <2>2 DEF Delegate
    <3>2. HeldBy(s, Top(s)) \in SUBSET Paths /\ b \in Names
      BY OwnAgent DEF HeldBy
    <3>3. \A t \in Sessions : t # s => stack'[t] = stack[t]
      BY <2>2, <3>1, <3>2, <1>a, MarkedFrame
    <3>4. Others(s)
      BY <2>2, <3>1, <3>2, <1>a, <1>c, SuspendFacts
    <3> QED BY <1>16, <3>3, <3>4 DEF Delegate, Rest, memory, faults
  <2> QED BY <2>1, <2>2
<1>17. CASE Finish(s)
  <2>1. stack[s] # <<>> /\ stack' = [stack EXCEPT ![s] = Front(stack[s])] /\ StartSuspend(s, Top(s), NoName)
    BY <1>17 DEF Finish, Active
  <2>2. \A t \in Sessions : t # s => stack'[t] = stack[t]
    BY <2>1, <1>a, PoppedFrame
  <2>3. Others(s)
    BY <2>1, <1>a, <1>c, SuspendFacts
  <2> QED BY <1>17, <2>2, <2>3 DEF Finish, Rest, memory, faults
<1>18. CASE SuspendHash(s)
  <2>1. UNCHANGED <<held, stack, restarts>> /\ file \in [Paths -> Contents \cup {NoFile}]
    BY <1>18 DEF SuspendHash, memory, faults, TypeOK
  <2> QED BY <1>18, <2>1, <1>a, HashFacts DEF Rest
<1>19. CASE SuspendMem(s)
  BY <1>19, GotoFacts, <1>a, <1>b, <1>c
    DEF SuspendMem, Rest, Stages, memory, mirror, faults
<1>20. CASE Push(s)
  <2>1. op[s].child \in Names
    BY <1>20, OwnAgent DEF Push, OwnNames
  <2>2. \A t \in Sessions : t # s => stack'[t] = stack[t]
    BY <1>20, <2>1, <1>a, PushedFrame DEF Push
  <2>3. Others(s)
    BY <1>20, <1>a, EndFacts DEF Push, Becomes
  <2> QED BY <1>20, <2>2, <2>3 DEF Push, Rest, memory, faults
<1>21. CASE Pop(s)
  <2>1. CASE stack[s] = <<>>
    BY <1>21, <2>1, <1>a, EndFacts DEF Pop, Becomes, Rest, memory, faults
  <2>2. CASE stack[s] # <<>>
    BY <1>21, <2>2, <1>a, <1>c, StartFacts DEF Pop, Stages, Rest, memory, faults
  <2> QED BY <2>1, <2>2
<1>22. CASE ResumeTake(s)
  <2>1. suspended[Me(s)] \in Snapshots
    BY <1>22, OwnAgent DEF ResumeTake, TypeOK
  <2>2. UNCHANGED <<held, stack, restarts>>
    BY <1>22 DEF ResumeTake, faults
  <2> QED BY <1>22, <2>1, <2>2, <1>a, TakeFacts DEF Rest
<1>23. CASE ResumeHash(s)
  <2>2. UNCHANGED <<held, stack, restarts>>
    BY <1>23 DEF ResumeHash, faults
  <2> QED BY <1>23, <2>2, <1>a, RehashFacts DEF Rest
<1>24. CASE ResumeMem(s)
  <2>1. op[s].at = "resumeMem" /\ UNCHANGED <<stack, restarts>>
    BY <1>24 DEF ResumeMem, faults
  <2> QED BY <1>24, <2>1, <1>a, <1>b, RegrantFacts DEF Rest
<1>25. CASE DbError(s)
  BY <1>25, EndFacts, IdleFacts, GotoFacts, <1>a, <1>b, <1>c
    DEF DbError, Becomes, Rest, Stages, memory, mirror, faults
<1> QED BY <1>1, <1>2, <1>3, <1>4, <1>5, <1>6, <1>7, <1>8, <1>9, <1>10, <1>11,
    <1>12, <1>13, <1>14, <1>15, <1>16, <1>17, <1>18, <1>19, <1>20, <1>21, <1>22,
    <1>23, <1>24, <1>25 DEF Act, Call, Switch

-----------------------------------------------------------------------------
(* Names, paths of a call, and who is resumed. *)

\* Every lock and every row names an agent of its session.
LocksNamed ==
    \A p \in Paths :
        /\ held[p] # NoOne => held[p].agent \in NamesOf[held[p].session]
        /\ dbHeld[p] # NoOne => dbHeld[p].agent \in NamesOf[dbHeld[p].session]

\* The call of s names agents of s.
CallNamed(s) ==
    /\ op[s].at # "idle" => op[s].agent \in NamesOf[s]
    /\ op[s].child # NoName => op[s].child \in NamesOf[s]

LEMMA LockNamesStep ==
    ASSUME TypeOK, OwnNames, [Next]_vars
    PROVE  LocksNamed'
<1> USE DEF TypeOK, OwnNames, LocksNamed, memory, mirror, faults
<1>1. ASSUME NEW s \in Sessions, NEW p \in Paths, StartReadlock(s, p) PROVE LocksNamed'
  BY <1>1, OwnAgent, OwnTop DEF StartReadlock, Active, TakeLock
<1>2. ASSUME NEW s \in Sessions, NEW p \in Paths, AcquireDb(s, p) PROVE LocksNamed'
  BY <1>2, OwnAgent DEF AcquireDb, DbAcquire
<1>3. ASSUME NEW s \in Sessions, NEW p \in Paths, StartRead(s, p) PROVE LocksNamed'
  BY <1>3, OwnAgent, OwnTop DEF StartRead, Active
<1>4. ASSUME NEW s \in Sessions, NEW p \in Paths, NoteDb(s, p) PROVE LocksNamed'
  BY <1>4, OwnAgent DEF NoteDb, Becomes
<1>5. ASSUME NEW s \in Sessions, NEW p \in Paths, StartUnlock(s, p) PROVE LocksNamed'
  BY <1>5, OwnAgent, OwnTop DEF StartUnlock, Active, MayRelease
<1>6. ASSUME NEW s \in Sessions, NEW p \in Paths, UnlockDb(s, p) PROVE LocksNamed'
  BY <1>6, OwnAgent DEF UnlockDb, DbRelease, Becomes
<1>7. ASSUME NEW s \in Sessions, NEW p \in Paths, StartWrite(s, p) PROVE LocksNamed'
  BY <1>7, OwnAgent, OwnTop DEF StartWrite, Active
<1>8. ASSUME NEW s \in Sessions, NEW p \in Paths, WriteFile(s, p) PROVE LocksNamed'
  BY <1>8, OwnAgent DEF WriteFile
<1>9. ASSUME NEW s \in Sessions, NEW p \in Paths, ReleaseWritten(s, p) PROVE LocksNamed'
  BY <1>9, OwnAgent DEF ReleaseWritten, MayRelease
<1>10. ASSUME NEW s \in Sessions, NEW p \in Paths, NothingToRelease(s, p) PROVE LocksNamed'
  BY <1>10, OwnAgent DEF NothingToRelease
<1>11. ASSUME NEW s \in Sessions, NEW p \in Paths, ReleaseRefused(s, p) PROVE LocksNamed'
  BY <1>11, OwnAgent DEF ReleaseRefused, Becomes
<1>12. ASSUME NEW s \in Sessions, NEW p \in Paths, ReleaseDb(s, p) PROVE LocksNamed'
  BY <1>12, OwnAgent DEF ReleaseDb, DbRelease
<1>13. ASSUME NEW s \in Sessions, NEW p \in Paths, NoteWritten(s, p) PROVE LocksNamed'
  BY <1>13, OwnAgent DEF NoteWritten
<1>14. ASSUME NEW s \in Sessions, NEW p \in Paths, SuspendDb(s, p) PROVE LocksNamed'
  BY <1>14, OwnAgent DEF SuspendDb, DbRelease
<1>15. ASSUME NEW s \in Sessions, NEW p \in Paths, ResumeDb(s, p) PROVE LocksNamed'
  BY <1>15, OwnAgent DEF ResumeDb, DbAcquire
<1>16. ASSUME NEW s \in Sessions, NEW b \in NamesOf[s], Delegate(s, b) PROVE LocksNamed'
  BY <1>16, OwnAgent DEF Delegate, HeldBy
<1>17. ASSUME NEW s \in Sessions, Finish(s) PROVE LocksNamed'
  BY <1>17, OwnAgent, OwnTop DEF Finish, Active
<1>18. ASSUME NEW s \in Sessions, SuspendHash(s) PROVE LocksNamed'
  BY <1>18, OwnAgent DEF SuspendHash
<1>19. ASSUME NEW s \in Sessions, SuspendMem(s) PROVE LocksNamed'
  BY <1>19, OwnAgent DEF SuspendMem
<1>20. ASSUME NEW s \in Sessions, Push(s) PROVE LocksNamed'
  BY <1>20, OwnAgent DEF Push, Becomes
<1>21. ASSUME NEW s \in Sessions, Pop(s) PROVE LocksNamed'
  BY <1>21, OwnAgent DEF Pop, Becomes
<1>22. ASSUME NEW s \in Sessions, ResumeTake(s) PROVE LocksNamed'
  BY <1>22, OwnAgent DEF ResumeTake
<1>23. ASSUME NEW s \in Sessions, ResumeHash(s) PROVE LocksNamed'
  BY <1>23, OwnAgent DEF ResumeHash
<1>24. ASSUME NEW s \in Sessions, ResumeMem(s) PROVE LocksNamed'
  BY <1>24, OwnAgent DEF ResumeMem
<1>25. ASSUME NEW s \in Sessions, DbError(s) PROVE LocksNamed'
  BY <1>25, OwnAgent DEF DbError, Becomes
<1>26. ASSUME Restart PROVE LocksNamed'
  BY <1>26, OwnAgent DEF Restart
<1>27. CASE UNCHANGED vars
  BY <1>27 DEF vars
<1> QED BY <1>1, <1>2, <1>3, <1>4, <1>5, <1>6, <1>7, <1>8, <1>9, <1>10, <1>11,
    <1>12, <1>13, <1>14, <1>15, <1>16, <1>17, <1>18, <1>19, <1>20, <1>21, <1>22,
    <1>23, <1>24, <1>25, <1>26, <1>27
    DEF Next, Call, Switch

LEMMA CallNamesStep ==
    ASSUME TypeOK, OwnNames, [Next]_vars
    PROVE  \A s \in Sessions : CallNamed(s)'
<1>a. op \in [Sessions -> Ops] /\ stack \in [Sessions -> Seq(Frames)]
  BY DEF TypeOK
<1>b. /\ \A s \in Sessions : CallNamed(s)
      /\ \A s \in Sessions : NamesOf[s] \subseteq Names
      /\ \A s \in Sessions : stack[s] # <<>> => Top(s) \in NamesOf[s] /\ Top(s) \in Names
  BY OwnAgent, OwnTop DEF OwnNames, CallNamed
<1>c. NoName \notin Names
  BY NullsAssumption
<1>1. ASSUME NEW s \in Sessions, NEW p \in Paths, StartReadlock(s, p) PROVE CallNamed(s)'
  BY <1>1, TopFacts, StartFacts, <1>a, <1>b, <1>c
    DEF StartReadlock, Active, TakeLock, CallNamed, Stages
<1>2. ASSUME NEW s \in Sessions, NEW p \in Paths, AcquireDb(s, p) PROVE CallNamed(s)'
  BY <1>2, GotoFacts, <1>a, <1>b, <1>c DEF AcquireDb, DbAcquire, CallNamed, Stages
<1>3. ASSUME NEW s \in Sessions, NEW p \in Paths, StartRead(s, p) PROVE CallNamed(s)'
  BY <1>3, TopFacts, StartFacts, <1>a, <1>b, <1>c
    DEF StartRead, Active, CallNamed, Stages
<1>4. ASSUME NEW s \in Sessions, NEW p \in Paths, NoteDb(s, p) PROVE CallNamed(s)'
  BY <1>4, EndFacts, IdleFacts, <1>a, <1>b, <1>c
    DEF NoteDb, Becomes, CallNamed, Stages
<1>5. ASSUME NEW s \in Sessions, NEW p \in Paths, StartUnlock(s, p) PROVE CallNamed(s)'
  BY <1>5, TopFacts, StartFacts, <1>a, <1>b, <1>c
    DEF StartUnlock, Active, MayRelease, CallNamed, Stages
<1>6. ASSUME NEW s \in Sessions, NEW p \in Paths, UnlockDb(s, p) PROVE CallNamed(s)'
  BY <1>6, EndFacts, IdleFacts, <1>a, <1>b, <1>c
    DEF UnlockDb, DbRelease, Becomes, CallNamed, Stages
<1>7. ASSUME NEW s \in Sessions, NEW p \in Paths, StartWrite(s, p) PROVE CallNamed(s)'
  BY ZenonT(40), <1>7, TopFacts, WriteFacts, <1>a, <1>b, <1>c
    DEF StartWrite, Active, CallNamed, Stages
<1>8. ASSUME NEW s \in Sessions, NEW p \in Paths, WriteFile(s, p) PROVE CallNamed(s)'
  BY <1>8, GotoFacts, <1>a, <1>b, <1>c DEF WriteFile, CallNamed, Stages
<1>9. ASSUME NEW s \in Sessions, NEW p \in Paths, ReleaseWritten(s, p) PROVE CallNamed(s)'
  BY <1>9, GotoFacts, <1>a, <1>b, <1>c
    DEF ReleaseWritten, MayRelease, CallNamed, Stages
<1>10. ASSUME NEW s \in Sessions, NEW p \in Paths, NothingToRelease(s, p) PROVE CallNamed(s)'
  BY <1>10, GotoFacts, <1>a, <1>b, <1>c DEF NothingToRelease, CallNamed, Stages
<1>11. ASSUME NEW s \in Sessions, NEW p \in Paths, ReleaseRefused(s, p) PROVE CallNamed(s)'
  BY <1>11, EndFacts, IdleFacts, <1>a, <1>b, <1>c
    DEF ReleaseRefused, Becomes, CallNamed, Stages
<1>12. ASSUME NEW s \in Sessions, NEW p \in Paths, ReleaseDb(s, p) PROVE CallNamed(s)'
  BY <1>12, GotoFacts, <1>a, <1>b, <1>c DEF ReleaseDb, DbRelease, CallNamed, Stages
<1>13. ASSUME NEW s \in Sessions, NEW p \in Paths, NoteWritten(s, p) PROVE CallNamed(s)'
  BY <1>13, GotoFacts, <1>a, <1>b, <1>c DEF NoteWritten, CallNamed, Stages
<1>14. ASSUME NEW s \in Sessions, NEW p \in Paths, SuspendDb(s, p) PROVE CallNamed(s)'
  BY <1>14, RowFacts, <1>a, <1>b, <1>c DEF SuspendDb, DbRelease, CallNamed, Stages
<1>15. ASSUME NEW s \in Sessions, NEW p \in Paths, ResumeDb(s, p) PROVE CallNamed(s)'
  BY <1>15, RegrantDbFacts, IdleFacts, <1>a, <1>b, <1>c
    DEF ResumeDb, DbAcquire, CallNamed, Stages
<1>16. ASSUME NEW s \in Sessions, NEW b \in NamesOf[s], Delegate(s, b) PROVE CallNamed(s)'
  <2>1. CASE stack[s] = <<>>
    BY <1>16, <2>1, <1>b DEF Delegate, CallNamed
  <2>2. CASE stack[s] # <<>>
    BY <1>16, <2>2, <1>a, <1>b, SuspendFacts DEF Delegate, CallNamed
  <2> QED BY <2>1, <2>2
<1>17. ASSUME NEW s \in Sessions, Finish(s) PROVE CallNamed(s)'
  BY <1>17, TopFacts, SuspendFacts, <1>a, <1>b, <1>c
    DEF Finish, Active, CallNamed, Stages
<1>18. ASSUME NEW s \in Sessions, SuspendHash(s) PROVE CallNamed(s)'
  <2>1. file \in [Paths -> Contents \cup {NoFile}]
    BY DEF TypeOK
  <2> QED BY <1>18, <2>1, <1>a, <1>b, HashFacts DEF SuspendHash, CallNamed
<1>19. ASSUME NEW s \in Sessions, SuspendMem(s) PROVE CallNamed(s)'
  BY <1>19, GotoFacts, <1>a, <1>b, <1>c DEF SuspendMem, CallNamed, Stages
<1>20. ASSUME NEW s \in Sessions, Push(s) PROVE CallNamed(s)'
  BY <1>20, EndFacts, IdleFacts, <1>a, <1>b, <1>c DEF Push, Becomes, CallNamed, Stages
<1>21. ASSUME NEW s \in Sessions, Pop(s) PROVE CallNamed(s)'
  <2>1. CASE stack[s] = <<>>
    BY <1>21, <2>1, <1>a, EndFacts, IdleFacts DEF Pop, Becomes, CallNamed
  <2>2. CASE stack[s] # <<>>
    BY <1>21, <2>2, <1>a, <1>b, StartFacts DEF Pop, CallNamed, Stages
  <2> QED BY <2>1, <2>2
<1>22. ASSUME NEW s \in Sessions, ResumeTake(s) PROVE CallNamed(s)'
  <2>1. suspended[Me(s)] \in Snapshots
    BY <1>22, OwnAgent DEF ResumeTake, TypeOK
  <2> QED BY <1>22, <2>1, <1>a, <1>b, TakeFacts DEF ResumeTake, CallNamed
<1>23. ASSUME NEW s \in Sessions, ResumeHash(s) PROVE CallNamed(s)'
  BY <1>23, RehashFacts, <1>a, <1>b, <1>c DEF ResumeHash, CallNamed, Stages
<1>24. ASSUME NEW s \in Sessions, ResumeMem(s) PROVE CallNamed(s)'
  BY <1>24, RegrantFacts, IdleFacts, <1>a, <1>b, <1>c DEF ResumeMem, CallNamed, Stages
<1>25. ASSUME NEW s \in Sessions, DbError(s) PROVE CallNamed(s)'
  BY <1>25, EndFacts, IdleFacts, GotoFacts, <1>a, <1>b, <1>c
    DEF DbError, Becomes, CallNamed, Stages
<1>26. CASE Restart
  BY <1>26, IdleFacts DEF Restart, CallNamed
<1>27. CASE UNCHANGED vars
  BY <1>27, <1>b DEF vars, CallNamed
<1>28. ASSUME NEW s \in Sessions, Act(s) PROVE CallNamed(s)'
  BY <1>28, <1>1, <1>2, <1>3, <1>4, <1>5, <1>6, <1>7, <1>8, <1>9, <1>10, <1>11,
    <1>12, <1>13, <1>14, <1>15, <1>16, <1>17, <1>18, <1>19, <1>20, <1>21, <1>22,
    <1>23, <1>24, <1>25 DEF Act, Call, Switch
<1>29. ASSUME NEW s \in Sessions, Act(s), NEW t \in Sessions, t # s PROVE CallNamed(t)'
  BY <1>29, RestStep, <1>b DEF Rest, Others, CallNamed
<1> QED BY <1>26, <1>27, <1>28, <1>29, NextActs

\* Every frame names an agent of its session.
FramesNamed ==
    \A s \in Sessions : \A i \in 1 .. Len(stack[s]) : stack[s][i].name \in NamesOf[s]

LEMMA FrameNamesStep ==
    ASSUME TypeOK, OwnNames, [Next]_vars
    PROVE  FramesNamed'
<1> USE DEF TypeOK, OwnNames, FramesNamed
<1>0. \A s \in Sessions : Len(stack[s]) \in Nat
  BY LenProperties
<1>1. ASSUME NEW s \in Sessions, NEW b \in NamesOf[s], Delegate(s, b) PROVE FramesNamed'
  <2>1. CASE stack[s] = <<>>
    <3>1. b \in Names /\ stack' = [stack EXCEPT ![s] = <<[name |-> b, had |-> {}]>>]
      BY <1>1, <2>1, OwnAgent DEF Delegate
    <3>2. /\ Len(stack'[s]) = 1 /\ stack'[s][1].name = b
          /\ \A t \in Sessions : t # s => stack'[t] = stack[t]
      BY <3>1, FirstFrame
    <3> QED BY <3>2
  <2>2. CASE stack[s] # <<>>
    <3>1. stack' = [stack EXCEPT ![s][Len(stack[s])].had = HeldBy(s, Top(s))]
      BY <1>1, <2>2 DEF Delegate
    <3>2. HeldBy(s, Top(s)) \in SUBSET Paths
      BY DEF HeldBy
    <3> QED BY <2>2, <3>1, <3>2, MarkedFrame
  <2> QED BY <2>1, <2>2
<1>2. ASSUME NEW s \in Sessions, Finish(s) PROVE FramesNamed'
  <2>1. /\ Len(stack'[s]) = Len(stack[s]) - 1
        /\ \A i \in 1 .. Len(stack[s]) - 1 : stack'[s][i] = stack[s][i]
        /\ \A t \in Sessions : t # s => stack'[t] = stack[t]
    BY <1>2, PoppedFrame DEF Finish, Active
  <2>2. ASSUME NEW t \in Sessions, NEW i \in 1 .. Len(stack'[t])
        PROVE  stack'[t][i].name \in NamesOf[t]
    <3>1. CASE t = s
      <4>1. i \in 1 .. Len(stack[s]) - 1 /\ i \in 1 .. Len(stack[s])
        BY <1>0, <2>1, <3>1
      <4> QED BY <2>1, <3>1, <4>1
    <3>2. CASE t # s
      BY <2>1, <3>2
    <3> QED BY <3>1, <3>2
  <2> QED BY <2>2
<1>3. ASSUME NEW s \in Sessions, Push(s) PROVE FramesNamed'
  <2>1. op[s].child \in NamesOf[s] /\ op[s].child \in Names
    BY <1>3, OwnAgent DEF Push
  <2>2. /\ Len(stack'[s]) = Len(stack[s]) + 1
        /\ stack'[s][Len(stack[s]) + 1].name = op[s].child
        /\ \A i \in 1 .. Len(stack[s]) : stack'[s][i] = stack[s][i]
        /\ \A t \in Sessions : t # s => stack'[t] = stack[t]
    BY <1>3, <2>1, PushedFrame DEF Push
  <2>3. ASSUME NEW t \in Sessions, NEW i \in 1 .. Len(stack'[t])
        PROVE  stack'[t][i].name \in NamesOf[t]
    <3>1. CASE t = s /\ i = Len(stack[s]) + 1
      BY <2>1, <2>2, <3>1
    <3>2. CASE t = s /\ i # Len(stack[s]) + 1
      BY SMTT(20), <1>0, <2>2, <3>2
    <3>3. CASE t # s
      BY <2>2, <3>3
    <3> QED BY <3>1, <3>2, <3>3
  <2> QED BY <2>3
<1>4. CASE Restart
  BY <1>4 DEF Restart
<1>5. CASE UNCHANGED stack
  BY <1>5
<1> QED BY <1>1, <1>2, <1>3, <1>4, <1>5, StackSteps

LEMMA OwnNamesStep ==
    ASSUME TypeOK, OwnNames, [Next]_vars
    PROVE  OwnNames'
BY LockNamesStep, CallNamesStep, FrameNamesStep
   DEF OwnNames, LocksNamed, CallNamed, FramesNamed

-----------------------------------------------------------------------------
LEMMA OnePathStep ==
    ASSUME TypeOK, OwnNames, OnePath, [Next]_vars
    PROVE  \A s \in Sessions : SinglePath(s)'
<1>a. op \in [Sessions -> Ops] /\ stack \in [Sessions -> Seq(Frames)]
  BY DEF TypeOK
<1>b. \A s \in Sessions : SinglePath(s)
  BY DEF OnePath
<1>c. \A s \in Sessions : stack[s] # <<>> => Top(s) \in Names
  BY TopFacts DEF TypeOK
<1>1. ASSUME NEW s \in Sessions, NEW p \in Paths, StartReadlock(s, p) PROVE SinglePath(s)'
  BY <1>1, TopFacts, StartFacts, <1>a, <1>b, <1>c
    DEF StartReadlock, Active, TakeLock, SinglePath, Single, Stages
<1>2. ASSUME NEW s \in Sessions, NEW p \in Paths, AcquireDb(s, p) PROVE SinglePath(s)'
  BY <1>2, GotoFacts, <1>a, <1>b, <1>c
    DEF AcquireDb, DbAcquire, SinglePath, Single, Stages
<1>3. ASSUME NEW s \in Sessions, NEW p \in Paths, StartRead(s, p) PROVE SinglePath(s)'
  BY <1>3, TopFacts, StartFacts, <1>a, <1>b, <1>c
    DEF StartRead, Active, SinglePath, Single, Stages
<1>4. ASSUME NEW s \in Sessions, NEW p \in Paths, NoteDb(s, p) PROVE SinglePath(s)'
  BY <1>4, EndFacts, IdleFacts, <1>a, <1>b, <1>c
    DEF NoteDb, Becomes, SinglePath, Single, Stages
<1>5. ASSUME NEW s \in Sessions, NEW p \in Paths, StartUnlock(s, p) PROVE SinglePath(s)'
  BY <1>5, TopFacts, StartFacts, <1>a, <1>b, <1>c
    DEF StartUnlock, Active, MayRelease, SinglePath, Single, Stages
<1>6. ASSUME NEW s \in Sessions, NEW p \in Paths, UnlockDb(s, p) PROVE SinglePath(s)'
  BY <1>6, EndFacts, IdleFacts, <1>a, <1>b, <1>c
    DEF UnlockDb, DbRelease, Becomes, SinglePath, Single, Stages
<1>7. ASSUME NEW s \in Sessions, NEW p \in Paths, StartWrite(s, p) PROVE SinglePath(s)'
  BY <1>7, TopFacts, WriteFacts, <1>a, <1>b, <1>c
    DEF StartWrite, Active, SinglePath, Single, Stages
<1>8. ASSUME NEW s \in Sessions, NEW p \in Paths, WriteFile(s, p) PROVE SinglePath(s)'
  BY <1>8, GotoFacts, <1>a, <1>b, <1>c DEF WriteFile, SinglePath, Single, Stages
<1>9. ASSUME NEW s \in Sessions, NEW p \in Paths, ReleaseWritten(s, p) PROVE SinglePath(s)'
  BY <1>9, GotoFacts, <1>a, <1>b, <1>c
    DEF ReleaseWritten, MayRelease, SinglePath, Single, Stages
<1>10. ASSUME NEW s \in Sessions, NEW p \in Paths, NothingToRelease(s, p) PROVE SinglePath(s)'
  BY <1>10, GotoFacts, <1>a, <1>b, <1>c
    DEF NothingToRelease, SinglePath, Single, Stages
<1>11. ASSUME NEW s \in Sessions, NEW p \in Paths, ReleaseRefused(s, p) PROVE SinglePath(s)'
  BY <1>11, EndFacts, IdleFacts, <1>a, <1>b, <1>c
    DEF ReleaseRefused, Becomes, SinglePath, Single, Stages
<1>12. ASSUME NEW s \in Sessions, NEW p \in Paths, ReleaseDb(s, p) PROVE SinglePath(s)'
  BY <1>12, GotoFacts, <1>a, <1>b, <1>c
    DEF ReleaseDb, DbRelease, SinglePath, Single, Stages
<1>13. ASSUME NEW s \in Sessions, NEW p \in Paths, NoteWritten(s, p) PROVE SinglePath(s)'
  BY <1>13, GotoFacts, <1>a, <1>b, <1>c DEF NoteWritten, SinglePath, Single, Stages
<1>14. ASSUME NEW s \in Sessions, NEW p \in Paths, SuspendDb(s, p) PROVE SinglePath(s)'
  <2>1. UNCHANGED stack
    BY <1>14 DEF SuspendDb
  <2> QED BY <1>14, <2>1, <1>a, <1>b, <1>c, RowFacts DEF SinglePath, Single
<1>15. ASSUME NEW s \in Sessions, NEW p \in Paths, ResumeDb(s, p) PROVE SinglePath(s)'
  BY <1>15, RegrantDbFacts, IdleFacts, <1>a, <1>b, <1>c
    DEF ResumeDb, DbAcquire, SinglePath, Single, Stages
<1>16. ASSUME NEW s \in Sessions, NEW b \in NamesOf[s], Delegate(s, b) PROVE SinglePath(s)'
  <2>1. CASE stack[s] = <<>>
    BY <1>16, <2>1, <1>b DEF Delegate, SinglePath
  <2>2. CASE stack[s] # <<>>
    <3>1. b \in Names
      BY OwnAgent
    <3> QED BY <1>16, <2>2, <3>1, <1>a, <1>b, <1>c, SuspendFacts DEF Delegate, SinglePath, Single
  <2> QED BY <2>1, <2>2
<1>17. ASSUME NEW s \in Sessions, Finish(s) PROVE SinglePath(s)'
  BY <1>17, TopFacts, SuspendFacts, <1>a, <1>b, <1>c
    DEF Finish, Active, SinglePath, Single, Stages
<1>18. ASSUME NEW s \in Sessions, SuspendHash(s) PROVE SinglePath(s)'
  <2>1. file \in [Paths -> Contents \cup {NoFile}]
    BY DEF TypeOK
  <2> QED BY <1>18, <2>1, <1>a, <1>b, <1>c, HashFacts DEF SuspendHash, SinglePath, Single
<1>19. ASSUME NEW s \in Sessions, SuspendMem(s) PROVE SinglePath(s)'
  BY <1>19, GotoFacts, <1>a, <1>b, <1>c DEF SuspendMem, SinglePath, Single, Stages
<1>20. ASSUME NEW s \in Sessions, Push(s) PROVE SinglePath(s)'
  BY <1>20, EndFacts, IdleFacts, <1>a, <1>b, <1>c
    DEF Push, Becomes, SinglePath, Single, Stages
<1>21. ASSUME NEW s \in Sessions, Pop(s) PROVE SinglePath(s)'
  <2>1. CASE stack[s] = <<>>
    BY <1>21, <2>1, <1>a, EndFacts, IdleFacts DEF Pop, Becomes, SinglePath, Single
  <2>2. CASE stack[s] # <<>>
    BY <1>21, <2>2, <1>a, <1>b, <1>c, StartFacts DEF Pop, SinglePath, Stages, Single
  <2> QED BY <2>1, <2>2
<1>22. ASSUME NEW s \in Sessions, ResumeTake(s) PROVE SinglePath(s)'
  <2>1. suspended[Me(s)] \in Snapshots
    BY <1>22, OwnAgent DEF ResumeTake, TypeOK
  <2> QED BY <1>22, <2>1, <1>a, <1>b, <1>c, TakeFacts DEF ResumeTake, SinglePath, Single
<1>23. ASSUME NEW s \in Sessions, ResumeHash(s) PROVE SinglePath(s)'
  BY <1>23, RehashFacts, <1>a, <1>b, <1>c DEF ResumeHash, SinglePath, Single, Stages
<1>24. ASSUME NEW s \in Sessions, ResumeMem(s) PROVE SinglePath(s)'
  BY <1>24, RegrantFacts, IdleFacts, <1>a, <1>b, <1>c
    DEF ResumeMem, SinglePath, Single, Stages
<1>25. ASSUME NEW s \in Sessions, DbError(s) PROVE SinglePath(s)'
  BY <1>25, EndFacts, IdleFacts, GotoFacts, <1>a, <1>b, <1>c
    DEF DbError, Becomes, SinglePath, Single, Stages
<1>26. CASE Restart
  BY <1>26, IdleFacts DEF Restart, SinglePath, Single
<1>27. CASE UNCHANGED vars
  BY <1>27, <1>b DEF vars, SinglePath
<1>28. ASSUME NEW s \in Sessions, Act(s) PROVE SinglePath(s)'
  BY <1>28, <1>1, <1>2, <1>3, <1>4, <1>5, <1>6, <1>7, <1>8, <1>9, <1>10, <1>11,
    <1>12, <1>13, <1>14, <1>15, <1>16, <1>17, <1>18, <1>19, <1>20, <1>21, <1>22,
    <1>23, <1>24, <1>25 DEF Act, Call, Switch
<1>29. ASSUME NEW s \in Sessions, Act(s), NEW t \in Sessions, t # s PROVE SinglePath(t)'
  BY <1>29, RestStep, <1>b DEF Rest, Others, SinglePath
<1> QED BY <1>26, <1>27, <1>28, <1>29, NextActs

LEMMA ResumesTopStep ==
    ASSUME TypeOK, OwnNames, ResumesTop, [Next]_vars
    PROVE  \A s \in Sessions : OnTop(s)'
<1>a. op \in [Sessions -> Ops] /\ stack \in [Sessions -> Seq(Frames)]
  BY DEF TypeOK
<1>b. \A s \in Sessions : OnTop(s)
  BY DEF ResumesTop
<1>c. \A s \in Sessions : stack[s] # <<>> => Top(s) \in Names
  BY TopFacts DEF TypeOK
<1>1. ASSUME NEW s \in Sessions, NEW p \in Paths, StartReadlock(s, p) PROVE OnTop(s)'
  BY <1>1, TopFacts, StartFacts, <1>a, <1>b, <1>c
    DEF StartReadlock, Active, TakeLock, OnTop, Resuming, Stages, Top
<1>2. ASSUME NEW s \in Sessions, NEW p \in Paths, AcquireDb(s, p) PROVE OnTop(s)'
  BY <1>2, GotoFacts, <1>a, <1>b, <1>c
    DEF AcquireDb, DbAcquire, OnTop, Resuming, Stages, Top
<1>3. ASSUME NEW s \in Sessions, NEW p \in Paths, StartRead(s, p) PROVE OnTop(s)'
  BY <1>3, TopFacts, StartFacts, <1>a, <1>b, <1>c
    DEF StartRead, Active, OnTop, Resuming, Stages, Top
<1>4. ASSUME NEW s \in Sessions, NEW p \in Paths, NoteDb(s, p) PROVE OnTop(s)'
  BY <1>4, EndFacts, IdleFacts, <1>a, <1>b, <1>c
    DEF NoteDb, Becomes, OnTop, Resuming, Stages, Top
<1>5. ASSUME NEW s \in Sessions, NEW p \in Paths, StartUnlock(s, p) PROVE OnTop(s)'
  BY <1>5, TopFacts, StartFacts, <1>a, <1>b, <1>c
    DEF StartUnlock, Active, MayRelease, OnTop, Resuming, Stages, Top
<1>6. ASSUME NEW s \in Sessions, NEW p \in Paths, UnlockDb(s, p) PROVE OnTop(s)'
  BY <1>6, EndFacts, IdleFacts, <1>a, <1>b, <1>c
    DEF UnlockDb, DbRelease, Becomes, OnTop, Resuming, Stages, Top
<1>7. ASSUME NEW s \in Sessions, NEW p \in Paths, StartWrite(s, p) PROVE OnTop(s)'
  BY <1>7, TopFacts, WriteFacts, <1>a, <1>b, <1>c
    DEF StartWrite, Active, OnTop, Resuming, Stages, Top
<1>8. ASSUME NEW s \in Sessions, NEW p \in Paths, WriteFile(s, p) PROVE OnTop(s)'
  BY <1>8, GotoFacts, <1>a, <1>b, <1>c DEF WriteFile, OnTop, Resuming, Stages, Top
<1>9. ASSUME NEW s \in Sessions, NEW p \in Paths, ReleaseWritten(s, p) PROVE OnTop(s)'
  BY <1>9, GotoFacts, <1>a, <1>b, <1>c
    DEF ReleaseWritten, MayRelease, OnTop, Resuming, Stages, Top
<1>10. ASSUME NEW s \in Sessions, NEW p \in Paths, NothingToRelease(s, p) PROVE OnTop(s)'
  BY <1>10, GotoFacts, <1>a, <1>b, <1>c
    DEF NothingToRelease, OnTop, Resuming, Stages, Top
<1>11. ASSUME NEW s \in Sessions, NEW p \in Paths, ReleaseRefused(s, p) PROVE OnTop(s)'
  BY <1>11, EndFacts, IdleFacts, <1>a, <1>b, <1>c
    DEF ReleaseRefused, Becomes, OnTop, Resuming, Stages, Top
<1>12. ASSUME NEW s \in Sessions, NEW p \in Paths, ReleaseDb(s, p) PROVE OnTop(s)'
  BY <1>12, GotoFacts, <1>a, <1>b, <1>c
    DEF ReleaseDb, DbRelease, OnTop, Resuming, Stages, Top
<1>13. ASSUME NEW s \in Sessions, NEW p \in Paths, NoteWritten(s, p) PROVE OnTop(s)'
  BY <1>13, GotoFacts, <1>a, <1>b, <1>c DEF NoteWritten, OnTop, Resuming, Stages, Top
<1>14. ASSUME NEW s \in Sessions, NEW p \in Paths, SuspendDb(s, p) PROVE OnTop(s)'
  <2>1. UNCHANGED stack
    BY <1>14 DEF SuspendDb
  <2> QED BY <1>14, <2>1, <1>a, <1>b, <1>c, RowFacts DEF OnTop, Resuming, Top
<1>15. ASSUME NEW s \in Sessions, NEW p \in Paths, ResumeDb(s, p) PROVE OnTop(s)'
  BY <1>15, RegrantDbFacts, IdleFacts, <1>a, <1>b, <1>c
    DEF ResumeDb, DbAcquire, OnTop, Resuming, Stages, Top
<1>16. ASSUME NEW s \in Sessions, NEW b \in NamesOf[s], Delegate(s, b) PROVE OnTop(s)'
  <2>1. CASE stack[s] = <<>>
    <3>1. b \in Names /\ stack' = [stack EXCEPT ![s] = <<[name |-> b, had |-> {}]>>]
      BY <1>16, <2>1, OwnAgent DEF Delegate
    <3>2. stack'[s] # <<>> /\ Top(s)' = b
      BY <3>1, <1>a, FirstFrame
    <3> QED BY <1>16, <2>1, <3>2, <1>b DEF Delegate, OnTop, Resuming
  <2>2. CASE stack[s] # <<>>
    <3>1. stack' = [stack EXCEPT ![s][Len(stack[s])].had = HeldBy(s, Top(s))]
      BY <1>16, <2>2 DEF Delegate
    <3>2. HeldBy(s, Top(s)) \in SUBSET Paths /\ b \in Names
      BY OwnAgent DEF HeldBy
    <3>3. stack'[s] # <<>> /\ Top(s)' = Top(s)
      BY <2>2, <3>1, <3>2, <1>a, MarkedFrame
    <3>4. StartSuspend(s, Top(s), b)
      BY <1>16, <2>2 DEF Delegate
    <3> QED BY <1>16, <2>2, <3>2, <3>3, <3>4, <1>a, <1>c, SuspendFacts, <1>b DEF OnTop, Resuming
  <2> QED BY <2>1, <2>2
<1>17. ASSUME NEW s \in Sessions, Finish(s) PROVE OnTop(s)'
  <2>1. stack[s] # <<>> /\ StartSuspend(s, Top(s), NoName)
    BY <1>17 DEF Finish, Active
  <2> QED BY <1>17, <2>1, <1>a, <1>c, SuspendFacts, <1>b DEF OnTop, Resuming
<1>18. ASSUME NEW s \in Sessions, SuspendHash(s) PROVE OnTop(s)'
  <2>1. file \in [Paths -> Contents \cup {NoFile}]
    BY DEF TypeOK
  <2> QED BY <1>18, <2>1, <1>a, <1>b, <1>c, HashFacts DEF SuspendHash, OnTop, Resuming, Top
<1>19. ASSUME NEW s \in Sessions, SuspendMem(s) PROVE OnTop(s)'
  BY <1>19, GotoFacts, <1>a, <1>b, <1>c DEF SuspendMem, OnTop, Resuming, Stages, Top
<1>20. ASSUME NEW s \in Sessions, Push(s) PROVE OnTop(s)'
  <2>1. op[s].child \in Names
    BY <1>20, OwnAgent DEF Push, OwnNames
  <2>2. stack'[s] # <<>> /\ Top(s)' = op[s].child
    BY <1>20, <2>1, <1>a, PushedFrame DEF Push
  <2> QED BY <1>20, <2>2, <1>a, EndFacts, IdleFacts, <1>b DEF Push, Becomes, OnTop, Resuming
<1>21. ASSUME NEW s \in Sessions, Pop(s) PROVE OnTop(s)'
  <2>1. CASE stack[s] = <<>>
    BY <1>21, <2>1, <1>a, EndFacts, IdleFacts DEF Pop, Becomes, OnTop, Resuming, Top
  <2>2. CASE stack[s] # <<>>
    BY <1>21, <2>2, <1>a, <1>b, <1>c, StartFacts DEF Pop, OnTop, Stages, Resuming, Top
  <2> QED BY <2>1, <2>2
<1>22. ASSUME NEW s \in Sessions, ResumeTake(s) PROVE OnTop(s)'
  <2>1. suspended[Me(s)] \in Snapshots
    BY <1>22, OwnAgent DEF ResumeTake, TypeOK
  <2> QED BY <1>22, <2>1, <1>a, <1>b, <1>c, TakeFacts DEF ResumeTake, OnTop, Resuming, Top
<1>23. ASSUME NEW s \in Sessions, ResumeHash(s) PROVE OnTop(s)'
  BY <1>23, RehashFacts, <1>a, <1>b, <1>c DEF ResumeHash, OnTop, Resuming, Stages, Top
<1>24. ASSUME NEW s \in Sessions, ResumeMem(s) PROVE OnTop(s)'
  BY <1>24, RegrantFacts, IdleFacts, <1>a, <1>b, <1>c
    DEF ResumeMem, OnTop, Resuming, Stages, Top
<1>25. ASSUME NEW s \in Sessions, DbError(s) PROVE OnTop(s)'
  BY <1>25, EndFacts, IdleFacts, GotoFacts, <1>a, <1>b, <1>c
    DEF DbError, Becomes, OnTop, Resuming, Stages, Top
<1>26. CASE Restart
  BY <1>26, IdleFacts DEF Restart, OnTop, Resuming
<1>27. CASE UNCHANGED vars
  BY <1>27, <1>b DEF vars, OnTop, Top
<1>28. ASSUME NEW s \in Sessions, Act(s) PROVE OnTop(s)'
  BY <1>28, <1>1, <1>2, <1>3, <1>4, <1>5, <1>6, <1>7, <1>8, <1>9, <1>10, <1>11,
    <1>12, <1>13, <1>14, <1>15, <1>16, <1>17, <1>18, <1>19, <1>20, <1>21, <1>22,
    <1>23, <1>24, <1>25 DEF Act, Call, Switch
<1>29. ASSUME NEW s \in Sessions, Act(s), NEW t \in Sessions, t # s PROVE OnTop(t)'
  BY <1>29, RestStep, <1>b DEF Rest, Others, OnTop, Top
<1> QED BY <1>26, <1>27, <1>28, <1>29, NextActs


\* Where its stage lets the active agent hold locks, a slot is right if it was and
\* nothing was added but a lock of its own.
LEMMA SlotKeeps ==
    ASSUME NEW s \in Sessions, Slot(s), UNCHANGED <<stack, restarts>>,
           op[s].at \in Settled, op'[s].at \in Settled,
           \A p \in Paths : held'[p] # NoOne =>
               \/ held'[p] = held[p]
               \/ stack[s] # <<>> /\ held'[p].agent = Top(s)
    PROVE  Slot(s)'
<1>1. Top(s)' = Top(s)
  BY DEF Top
<1>2. op[s].at \notin Losing
  BY DEF Settled, Losing, Single
<1> HIDE DEF Settled, Losing
<1> QED BY <1>1, <1>2 DEF Slot

\* Where a session holds nothing, its slot is right.
LEMMA SlotEmpty ==
    ASSUME NEW s \in Sessions,
           restarts' = 0 => \A p \in Paths : held'[p] # NoOne => held'[p].session # s
    PROVE  Slot(s)'
BY DEF Slot

\* In the other stages, and for the root agent, a session holds nothing.
LEMMA HoldsNothing ==
    ASSUME NEW s \in Sessions, Slot(s),
           op[s].at \notin Settled \cup Losing \/ (op[s].at \in Settled /\ stack[s] = <<>>)
    PROVE  restarts = 0 => \A p \in Paths : held[p] # NoOne => held[p].session # s
BY DEF Slot, Settled, Losing, Single

LEMMA SlotsStep ==
    ASSUME TypeOK, OwnNames, ResumesTop, Slots, [Next]_vars
    PROVE  \A s \in Sessions : Slot(s)'
<1>a. op \in [Sessions -> Ops] /\ stack \in [Sessions -> Seq(Frames)]
      /\ held \in [Paths -> Agents \cup {NoOne}] /\ restarts \in Nat
  BY DEF TypeOK
<1>b. \A s \in Sessions : Slot(s)
  BY DEF Slots
<1>c. \A s \in Sessions : stack[s] # <<>> => Top(s) \in Names
  BY TopFacts DEF TypeOK
<1>d. \A s \in Sessions : op[s].at # "idle" => Me(s) = Agent(s, op[s].agent) /\ op[s].agent \in Names
  BY OwnAgent DEF Me
<1>e. \A s \in Sessions : OnTop(s)
  BY DEF ResumesTop
<1> USE AgentFacts
<1>1. ASSUME NEW s \in Sessions, NEW p \in Paths, StartReadlock(s, p) PROVE Slot(s)'
  <2>1. UNCHANGED <<stack, restarts>> /\ op[s].at \in Settled /\ op'[s].at \in Settled
    BY <1>1, TopFacts, StartFacts, <1>a, <1>c DEF StartReadlock, Active, TakeLock,
        Settled, Single, Stages, memory, faults
  <2>2. \A q \in Paths : held'[q] # NoOne =>
          held'[q] = held[q] \/ (stack[s] # <<>> /\ held'[q].agent = Top(s))
    BY <1>1, <1>a, <1>c DEF StartReadlock, Active, TakeLock, memory
  <2> QED BY <2>1, <2>2, <1>b, SlotKeeps
<1>2. ASSUME NEW s \in Sessions, NEW p \in Paths, AcquireDb(s, p) PROVE Slot(s)'
  <2>1. UNCHANGED <<stack, restarts>> /\ op[s].at \in Settled /\ op'[s].at \in Settled
    BY <1>2, GotoFacts, <1>a, <1>c DEF AcquireDb, DbAcquire,
        Settled, Single, Stages, memory, faults
  <2>2. \A q \in Paths : held'[q] # NoOne =>
          held'[q] = held[q] \/ (stack[s] # <<>> /\ held'[q].agent = Top(s))
    BY <1>2, <1>a, <1>c DEF AcquireDb, DbAcquire, memory
  <2> QED BY <2>1, <2>2, <1>b, SlotKeeps
<1>3. ASSUME NEW s \in Sessions, NEW p \in Paths, StartRead(s, p) PROVE Slot(s)'
  <2>1. UNCHANGED <<stack, restarts>> /\ op[s].at \in Settled /\ op'[s].at \in Settled
    BY <1>3, TopFacts, StartFacts, <1>a, <1>c DEF StartRead, Active,
        Settled, Single, Stages, memory, faults
  <2>2. \A q \in Paths : held'[q] # NoOne =>
          held'[q] = held[q] \/ (stack[s] # <<>> /\ held'[q].agent = Top(s))
    BY <1>3, <1>a, <1>c DEF StartRead, Active, memory
  <2> QED BY <2>1, <2>2, <1>b, SlotKeeps
<1>4. ASSUME NEW s \in Sessions, NEW p \in Paths, NoteDb(s, p) PROVE Slot(s)'
  <2>1. UNCHANGED <<stack, restarts>> /\ op[s].at \in Settled /\ op'[s].at \in Settled
    BY <1>4, EndFacts, IdleFacts, <1>a, <1>c DEF NoteDb, Becomes,
        Settled, Single, Stages, memory, faults
  <2>2. \A q \in Paths : held'[q] # NoOne =>
          held'[q] = held[q] \/ (stack[s] # <<>> /\ held'[q].agent = Top(s))
    BY <1>4, <1>a, <1>c DEF NoteDb, Becomes, memory
  <2> QED BY <2>1, <2>2, <1>b, SlotKeeps
<1>5. ASSUME NEW s \in Sessions, NEW p \in Paths, StartUnlock(s, p) PROVE Slot(s)'
  <2>1. UNCHANGED <<stack, restarts>> /\ op[s].at \in Settled /\ op'[s].at \in Settled
    BY <1>5, TopFacts, StartFacts, <1>a, <1>c DEF StartUnlock, Active, MayRelease,
        Settled, Single, Stages, memory, faults
  <2>2. \A q \in Paths : held'[q] # NoOne =>
          held'[q] = held[q] \/ (stack[s] # <<>> /\ held'[q].agent = Top(s))
    BY <1>5, <1>a, <1>c DEF StartUnlock, Active, MayRelease, memory
  <2> QED BY <2>1, <2>2, <1>b, SlotKeeps
<1>6. ASSUME NEW s \in Sessions, NEW p \in Paths, UnlockDb(s, p) PROVE Slot(s)'
  <2>1. UNCHANGED <<stack, restarts>> /\ op[s].at \in Settled /\ op'[s].at \in Settled
    BY <1>6, EndFacts, IdleFacts, <1>a, <1>c DEF UnlockDb, DbRelease, Becomes,
        Settled, Single, Stages, memory, faults
  <2>2. \A q \in Paths : held'[q] # NoOne =>
          held'[q] = held[q] \/ (stack[s] # <<>> /\ held'[q].agent = Top(s))
    BY <1>6, <1>a, <1>c DEF UnlockDb, DbRelease, Becomes, memory
  <2> QED BY <2>1, <2>2, <1>b, SlotKeeps
<1>7. ASSUME NEW s \in Sessions, NEW p \in Paths, StartWrite(s, p) PROVE Slot(s)'
  <2>1. UNCHANGED <<stack, restarts>> /\ op[s].at \in Settled /\ op'[s].at \in Settled
    BY <1>7, TopFacts, WriteFacts, <1>a, <1>c DEF StartWrite, Active,
        Settled, Single, Stages, memory, faults
  <2>2. \A q \in Paths : held'[q] # NoOne =>
          held'[q] = held[q] \/ (stack[s] # <<>> /\ held'[q].agent = Top(s))
    BY <1>7, <1>a, <1>c DEF StartWrite, Active, memory
  <2> QED BY <2>1, <2>2, <1>b, SlotKeeps
<1>8. ASSUME NEW s \in Sessions, NEW p \in Paths, WriteFile(s, p) PROVE Slot(s)'
  <2>1. UNCHANGED <<stack, restarts>> /\ op[s].at \in Settled /\ op'[s].at \in Settled
    BY <1>8, GotoFacts, <1>a, <1>c DEF WriteFile,
        Settled, Single, Stages, memory, faults
  <2>2. \A q \in Paths : held'[q] # NoOne =>
          held'[q] = held[q] \/ (stack[s] # <<>> /\ held'[q].agent = Top(s))
    BY <1>8, <1>a, <1>c DEF WriteFile, memory
  <2> QED BY <2>1, <2>2, <1>b, SlotKeeps
<1>9. ASSUME NEW s \in Sessions, NEW p \in Paths, ReleaseWritten(s, p) PROVE Slot(s)'
  <2>1. UNCHANGED <<stack, restarts>> /\ op[s].at \in Settled /\ op'[s].at \in Settled
    BY <1>9, GotoFacts, <1>a, <1>c DEF ReleaseWritten, MayRelease,
        Settled, Single, Stages, memory, faults
  <2>2. \A q \in Paths : held'[q] # NoOne =>
          held'[q] = held[q] \/ (stack[s] # <<>> /\ held'[q].agent = Top(s))
    BY <1>9, <1>a, <1>c DEF ReleaseWritten, MayRelease, memory
  <2> QED BY <2>1, <2>2, <1>b, SlotKeeps
<1>10. ASSUME NEW s \in Sessions, NEW p \in Paths, NothingToRelease(s, p) PROVE Slot(s)'
  <2>1. UNCHANGED <<stack, restarts>> /\ op[s].at \in Settled /\ op'[s].at \in Settled
    BY <1>10, GotoFacts, <1>a, <1>c DEF NothingToRelease,
        Settled, Single, Stages, memory, faults
  <2>2. \A q \in Paths : held'[q] # NoOne =>
          held'[q] = held[q] \/ (stack[s] # <<>> /\ held'[q].agent = Top(s))
    BY <1>10, <1>a, <1>c DEF NothingToRelease, memory
  <2> QED BY <2>1, <2>2, <1>b, SlotKeeps
<1>11. ASSUME NEW s \in Sessions, NEW p \in Paths, ReleaseRefused(s, p) PROVE Slot(s)'
  <2>1. UNCHANGED <<stack, restarts>> /\ op[s].at \in Settled /\ op'[s].at \in Settled
    BY <1>11, EndFacts, IdleFacts, <1>a, <1>c DEF ReleaseRefused, Becomes,
        Settled, Single, Stages, memory, faults
  <2>2. \A q \in Paths : held'[q] # NoOne =>
          held'[q] = held[q] \/ (stack[s] # <<>> /\ held'[q].agent = Top(s))
    BY <1>11, <1>a, <1>c DEF ReleaseRefused, Becomes, memory
  <2> QED BY <2>1, <2>2, <1>b, SlotKeeps
<1>12. ASSUME NEW s \in Sessions, NEW p \in Paths, ReleaseDb(s, p) PROVE Slot(s)'
  <2>1. UNCHANGED <<stack, restarts>> /\ op[s].at \in Settled /\ op'[s].at \in Settled
    BY <1>12, GotoFacts, <1>a, <1>c DEF ReleaseDb, DbRelease,
        Settled, Single, Stages, memory, faults
  <2>2. \A q \in Paths : held'[q] # NoOne =>
          held'[q] = held[q] \/ (stack[s] # <<>> /\ held'[q].agent = Top(s))
    BY <1>12, <1>a, <1>c DEF ReleaseDb, DbRelease, memory
  <2> QED BY <2>1, <2>2, <1>b, SlotKeeps
<1>13. ASSUME NEW s \in Sessions, NEW p \in Paths, NoteWritten(s, p) PROVE Slot(s)'
  <2>1. UNCHANGED <<stack, restarts>> /\ op[s].at \in Settled /\ op'[s].at \in Settled
    BY <1>13, GotoFacts, <1>a, <1>c DEF NoteWritten,
        Settled, Single, Stages, memory, faults
  <2>2. \A q \in Paths : held'[q] # NoOne =>
          held'[q] = held[q] \/ (stack[s] # <<>> /\ held'[q].agent = Top(s))
    BY <1>13, <1>a, <1>c DEF NoteWritten, memory
  <2> QED BY <2>1, <2>2, <1>b, SlotKeeps
<1>14. ASSUME NEW s \in Sessions, NEW p \in Paths, SuspendDb(s, p) PROVE Slot(s)'
  <2>1. op[s].at \notin Settled \cup Losing /\ held' = held /\ restarts' = restarts
    BY <1>14 DEF SuspendDb, Settled, Single, Losing, memory, faults
  <2> QED BY <2>1, <1>b, HoldsNothing, SlotEmpty
<1>15. ASSUME NEW s \in Sessions, NEW p \in Paths, ResumeDb(s, p) PROVE Slot(s)'
  <2>1. UNCHANGED <<stack, restarts>> /\ op[s].at \in Settled /\ op'[s].at \in Settled
    BY <1>15, RegrantDbFacts, IdleFacts, <1>a, <1>c DEF ResumeDb, DbAcquire,
        Settled, Single, Stages, memory, faults
  <2>2. \A q \in Paths : held'[q] # NoOne =>
          held'[q] = held[q] \/ (stack[s] # <<>> /\ held'[q].agent = Top(s))
    BY <1>15, <1>a, <1>c DEF ResumeDb, DbAcquire, memory
  <2> QED BY <2>1, <2>2, <1>b, SlotKeeps
<1>16. ASSUME NEW s \in Sessions, NEW b \in NamesOf[s], Delegate(s, b) PROVE Slot(s)'
  <2>1. CASE stack[s] = <<>>
    <3>1. op[s].at = "idle" /\ UNCHANGED <<held, restarts>>
      BY <1>16, <2>1 DEF Delegate, memory, faults
    <3>2. op[s].at \in Settled
      BY <3>1 DEF Settled
    <3> QED BY <2>1, <3>1, <3>2, <1>b, HoldsNothing, SlotEmpty
  <2>2. CASE stack[s] # <<>>
    <3>1. StartSuspend(s, Top(s), b) /\ UNCHANGED <<held, restarts>> /\ op[s].at = "idle"
      BY <1>16, <2>2 DEF Delegate, Active, memory, faults
    <3>2. /\ op'[s].at = IF HeldBy(s, Top(s)) = {} THEN "switch" ELSE "suspendHash"
          /\ op'[s].agent = Top(s) /\ op'[s].todo = HeldBy(s, Top(s))
      BY <3>1, <2>2, <1>a, <1>c, OwnAgent, SuspendFacts
    <3>3. restarts = 0 => \A p \in Paths : held[p] # NoOne /\ held[p].session = s =>
            held[p].agent = Top(s) /\ p \in HeldBy(s, Top(s))
      BY <1>a, <1>b, <3>1 DEF Slot, HeldBy, Losing
    <3> QED BY <3>1, <3>2, <3>3 DEF Slot, Losing
  <2> QED BY <2>1, <2>2
<1>17. ASSUME NEW s \in Sessions, Finish(s) PROVE Slot(s)'
  <2>2. stack[s] # <<>>
    BY <1>17 DEF Finish, Active
  <2>3. StartSuspend(s, Top(s), NoName) /\ UNCHANGED <<held, restarts>> /\ op[s].at = "idle"
    BY <1>17, <2>2 DEF Finish, Active, memory, faults
  <2>4. /\ op'[s].at = IF HeldBy(s, Top(s)) = {} THEN "switch" ELSE "suspendHash"
        /\ op'[s].agent = Top(s) /\ op'[s].todo = HeldBy(s, Top(s))
    BY <2>3, <2>2, <1>a, <1>c, OwnAgent, SuspendFacts
  <2>5. restarts = 0 => \A p \in Paths : held[p] # NoOne /\ held[p].session = s =>
          held[p].agent = Top(s) /\ p \in HeldBy(s, Top(s))
    BY <1>a, <1>b, <2>3 DEF Slot, HeldBy, Losing
  <2> QED BY <2>3, <2>4, <2>5 DEF Slot, Losing
<1>18. ASSUME NEW s \in Sessions, SuspendHash(s) PROVE Slot(s)'
  <2>1. /\ op[s].at \in Losing \ Settled /\ op'[s].at \in Losing
        /\ op'[s].agent = op[s].agent /\ op'[s].todo = op[s].todo
        /\ UNCHANGED <<held, restarts>>
    <3>1. file \in [Paths -> Contents \cup {NoFile}]
      BY DEF TypeOK
    <3>2. op[s].at = "suspendHash" /\ UNCHANGED <<held, restarts>>
      BY <1>18 DEF SuspendHash, memory, faults
    <3> QED BY <1>18, <3>1, <3>2, <1>a, HashFacts DEF Settled, Single, Losing
  <2> QED BY <2>1, <1>b DEF Slot
<1>19. ASSUME NEW s \in Sessions, SuspendMem(s) PROVE Slot(s)'
  <2>1. /\ op[s].at \in Losing \ Settled /\ restarts' = restarts
        /\ \A p \in Paths : held'[p] = IF p \in op[s].todo THEN NoOne ELSE held[p]
    BY <1>19 DEF SuspendMem, faults, Settled, Single, Losing
  <2> QED BY <2>1, <1>b, SlotEmpty DEF Slot
<1>20. ASSUME NEW s \in Sessions, Push(s) PROVE Slot(s)'
  <2>1. op[s].at \notin Settled \cup Losing /\ held' = held /\ restarts' = restarts
    BY <1>20 DEF Push, Settled, Single, Losing, memory, faults
  <2> QED BY <2>1, <1>b, HoldsNothing, SlotEmpty
<1>21. ASSUME NEW s \in Sessions, Pop(s) PROVE Slot(s)'
  <2>1. op[s].at \notin Settled \cup Losing /\ held' = held /\ restarts' = restarts
    BY <1>21 DEF Pop, Settled, Single, Losing, memory, faults
  <2> QED BY <2>1, <1>b, HoldsNothing, SlotEmpty
<1>22. ASSUME NEW s \in Sessions, ResumeTake(s) PROVE Slot(s)'
  <2>1. op[s].at \notin Settled \cup Losing /\ held' = held /\ restarts' = restarts
    BY <1>22 DEF ResumeTake, Settled, Single, Losing, memory, faults
  <2> QED BY <2>1, <1>b, HoldsNothing, SlotEmpty
<1>23. ASSUME NEW s \in Sessions, ResumeHash(s) PROVE Slot(s)'
  <2>1. op[s].at \notin Settled \cup Losing /\ held' = held /\ restarts' = restarts
    BY <1>23 DEF ResumeHash, Settled, Single, Losing, memory, faults
  <2> QED BY <2>1, <1>b, HoldsNothing, SlotEmpty
<1>24. ASSUME NEW s \in Sessions, ResumeMem(s) PROVE Slot(s)'
  <2>1. op[s].at = "resumeMem" /\ UNCHANGED <<stack, restarts>>
    BY <1>24 DEF ResumeMem, faults
  <2>2. op[s].at \notin Settled \cup Losing /\ stack[s] # <<>> /\ Me(s).agent = Top(s)
    BY <2>1, <1>d, <1>e DEF OnTop, Settled, Single, Losing, Resuming
  <2>3. restarts = 0 => \A p \in Paths : held[p] # NoOne => held[p].session # s
    BY <2>2, <1>b, HoldsNothing
  <2>4. /\ op'[s].at \in Settled
        /\ \A p \in Paths : held'[p] = held[p] \/ held'[p] = Me(s)
    BY <1>24, <1>a, RegrantFacts, IdleFacts DEF Settled, Single
  <2>5. stack'[s] # <<>> /\ Top(s)' = Top(s)
    BY <2>1, <2>2 DEF Top
  <2> QED BY <2>1, <2>2, <2>3, <2>4, <2>5 DEF Slot
<1>25. ASSUME NEW s \in Sessions, DbError(s) PROVE Slot(s)'
  <2>1. UNCHANGED <<held, stack, restarts>>
    BY <1>25 DEF DbError, memory
  <2>2. CASE op[s].at = "suspendDb"
    <3>1. op[s].at \notin Settled \cup Losing
      BY <2>2 DEF Settled, Single, Losing
    <3> QED BY <2>1, <3>1, <1>b, HoldsNothing, SlotEmpty
  <2>3. CASE op[s].at # "suspendDb"
    <3>1. Done(s) /\ op[s].at \in Settled
      BY <1>25, <2>3 DEF DbError, Settled, Single
    <3>2. op'[s].at \in Settled
      BY <3>1, <1>a, EndFacts, IdleFacts DEF Becomes, Settled
    <3> QED BY <2>1, <3>1, <3>2, <1>b, SlotKeeps
  <2> QED BY <2>2, <2>3
<1>26. CASE Restart
  BY <1>26, <1>a DEF Restart, Slot
<1>27. CASE UNCHANGED vars
  BY <1>27, <1>b DEF vars, Slot, Top
<1>28. ASSUME NEW s \in Sessions, Act(s) PROVE Slot(s)'
  BY <1>28, <1>1, <1>2, <1>3, <1>4, <1>5, <1>6, <1>7, <1>8, <1>9, <1>10, <1>11,
    <1>12, <1>13, <1>14, <1>15, <1>16, <1>17, <1>18, <1>19, <1>20, <1>21, <1>22,
    <1>23, <1>24, <1>25 DEF Act, Call, Switch
<1>29. ASSUME NEW s \in Sessions, Act(s), NEW t \in Sessions, t # s PROVE Slot(t)'
  BY <1>29, RestStep, <1>b DEF Rest, Others, Slot, Top
<1> QED BY <1>26, <1>27, <1>28, <1>29, NextActs

-----------------------------------------------------------------------------
(* Two sessions whose agents have different names. *)

\* Who shares a name with an agent of s is of s.
LEMMA SameSession ==
    ASSUME TypeOK, OwnNames, NamesApart, NEW s \in Sessions, NEW a \in NamesOf[s], NEW p \in Paths
    PROVE  /\ held[p] # NoOne /\ held[p].agent = a => held[p] = Agent(s, a)
           /\ dbHeld[p] # NoOne /\ dbHeld[p].agent = a => dbHeld[p] = Agent(s, a)
<1>1. ASSUME NEW g \in Agents, g.agent \in NamesOf[g.session], g.agent = a
      PROVE  g = Agent(s, a)
  BY <1>1, AgentFacts DEF NamesApart
<1>2. /\ held[p] # NoOne => held[p] \in Agents /\ held[p].agent \in NamesOf[held[p].session]
      /\ dbHeld[p] # NoOne => dbHeld[p] \in Agents /\ dbHeld[p].agent \in NamesOf[dbHeld[p].session]
  BY DEF TypeOK, OwnNames
<1> QED BY <1>1, <1>2

\* The steps that take or give up locks.
LEMMA LockMoves ==
    ASSUME NEW s \in Sessions, Act(s)
    PROVE  \/ \E p \in Paths : StartReadlock(s, p) \/ StartUnlock(s, p) \/ ReleaseWritten(s, p)
           \/ SuspendMem(s) \/ ResumeMem(s)
           \/ UNCHANGED held
<1>1. ASSUME NEW p \in Paths, Call(s, p)
      PROVE  \/ StartReadlock(s, p) \/ StartUnlock(s, p) \/ ReleaseWritten(s, p)
             \/ UNCHANGED held
  BY <1>1 DEF Call, memory, AcquireDb, StartRead, NoteDb, UnlockDb, StartWrite, WriteFile,
      NothingToRelease, ReleaseRefused, ReleaseDb, NoteWritten, SuspendDb, ResumeDb
<1>2. Switch(s) => SuspendMem(s) \/ ResumeMem(s) \/ UNCHANGED held
  BY DEF Switch, memory, Finish, SuspendHash, Push, Pop, ResumeTake, ResumeHash
<1>3. (\E b \in NamesOf[s] : Delegate(s, b)) \/ DbError(s) => UNCHANGED held
  BY DEF Delegate, DbError, memory
<1> QED BY <1>1, <1>2, <1>3 DEF Act

\* What a step of s takes away was a lock of s.
Spares(s) ==
    \A p \in Paths : held[p] # NoOne /\ held[p].session # s => held'[p] = held[p]

LEMMA SparesStep ==
    ASSUME TypeOK, OwnNames, NamesApart, NEW s \in Sessions, Half(s), Act(s)
    PROVE  Spares(s)
<1>a. /\ held \in [Paths -> Agents \cup {NoOne}]
      /\ op[s] \in Ops /\ op[s].todo \subseteq Paths
      /\ op[s].at # "idle" => Me(s).session = s
  BY OwnAgent DEF TypeOK, Ops
<1>1. ASSUME NEW p \in Paths, StartReadlock(s, p) PROVE Spares(s)
  BY <1>1, <1>a DEF StartReadlock, TakeLock, Spares
<1>2. ASSUME NEW p \in Paths, StartUnlock(s, p) PROVE Spares(s)
  <2>1. held[p] = Agent(s, Top(s)) /\ held' = [held EXCEPT ![p] = NoOne]
    BY <1>2, OwnTop, SameSession DEF StartUnlock, Active, MayRelease
  <2>2. Top(s) \in Names
    BY <1>2, OwnTop DEF StartUnlock, Active
  <2> QED BY <1>a, <2>1, <2>2, AgentFacts DEF Spares
<1>3. ASSUME NEW p \in Paths, ReleaseWritten(s, p) PROVE Spares(s)
  <2>1. op[s].agent \in NamesOf[s] /\ op[s].agent \in Names
    BY <1>3, OwnAgent DEF ReleaseWritten, OwnNames
  <2>2. held[p] = Agent(s, op[s].agent) /\ held' = [held EXCEPT ![p] = NoOne]
    BY <1>3, <2>1, SameSession DEF ReleaseWritten, MayRelease
  <2> QED BY <1>a, <2>1, <2>2, AgentFacts DEF Spares
<1>4. CASE SuspendMem(s)
  <2>1. \A p \in op[s].todo : held[p].session = s
    BY <1>4, <1>a DEF SuspendMem, Half, Losing
  <2> QED BY <1>4, <2>1 DEF SuspendMem, Spares
<1>5. CASE ResumeMem(s)
  BY <1>5 DEF ResumeMem, Spares
<1>6. CASE UNCHANGED held
  BY <1>6 DEF Spares
<1> QED BY <1>1, <1>2, <1>3, <1>4, <1>5, <1>6, LockMoves

LEMMA HalvesStep ==
    ASSUME TypeOK, OwnNames, OnePath, NamesApart, Halves, [Next]_vars
    PROVE  \A s \in Sessions : Half(s)'
<1>a. op \in [Sessions -> Ops] /\ held \in [Paths -> Agents \cup {NoOne}]
      /\ \A s \in Sessions : op[s].todo \subseteq Paths
  BY DEF TypeOK, Ops
<1>b. \A s \in Sessions : Half(s)
  BY DEF Halves
<1>c. \A s \in Sessions : stack[s] # <<>> => Top(s) \in Names
  BY TopFacts DEF TypeOK
<1>d. \A s \in Sessions : op[s].at # "idle" => Me(s) = Agent(s, op[s].agent) /\ op[s].agent \in Names
  BY OwnAgent DEF Me
<1>e. \A s \in Sessions : SinglePath(s)
  BY DEF OnePath
<1>f. "idle" \notin Writing \cup Losing \cup Deleting
  BY DEF Writing, Losing, Deleting
<1> USE AgentFacts
<1>1. ASSUME NEW s \in Sessions, NEW p \in Paths, StartReadlock(s, p) PROVE Half(s)'
  <2>1. Start(s, Top(s), "acquireDb", {p}) /\ held'[p] = Agent(s, Top(s)) /\ stack[s] # <<>>
    BY <1>1, <1>a DEF StartReadlock, TakeLock, Active
  <2>2. op'[s].at = "acquireDb" /\ op'[s].agent = Top(s) /\ op'[s].todo = {p}
    BY <2>1, <1>a, <1>c, StartFacts DEF Stages
  <2> QED BY <2>1, <2>2 DEF Half, Me, Writing, Losing, Deleting
<1>2. ASSUME NEW s \in Sessions, NEW p \in Paths, AcquireDb(s, p) PROVE Half(s)'
  <2>1. op'[s].at \notin Writing \cup Losing \cup Deleting
    BY <1>2, GotoFacts, <1>a, <1>c DEF AcquireDb, Becomes, Active,
        Writing, Losing, Deleting, Stages
  <2> QED BY <2>1 DEF Half
<1>3. ASSUME NEW s \in Sessions, NEW p \in Paths, StartRead(s, p) PROVE Half(s)'
  <2>1. op'[s].at \notin Writing \cup Losing \cup Deleting
    BY <1>3, TopFacts, StartFacts, <1>a, <1>c DEF StartRead, Becomes, Active,
        Writing, Losing, Deleting, Stages
  <2> QED BY <2>1 DEF Half
<1>4. ASSUME NEW s \in Sessions, NEW p \in Paths, NoteDb(s, p) PROVE Half(s)'
  <2>1. op'[s].at \notin Writing \cup Losing \cup Deleting
    BY <1>4, EndFacts, IdleFacts, <1>a, <1>c DEF NoteDb, Becomes, Active,
        Writing, Losing, Deleting, Stages
  <2> QED BY <2>1 DEF Half
<1>5. ASSUME NEW s \in Sessions, NEW p \in Paths, StartUnlock(s, p) PROVE Half(s)'
  <2>1. Start(s, Top(s), "unlockDb", {p}) /\ held'[p] = NoOne /\ stack[s] # <<>>
    BY <1>5, <1>a DEF StartUnlock, Active
  <2>2. op'[s].at = "unlockDb" /\ op'[s].agent = Top(s) /\ op'[s].todo = {p}
    BY <2>1, <1>a, <1>c, StartFacts DEF Stages
  <2> QED BY <2>1, <2>2, <1>c DEF Half, Me, Writing, Losing, Deleting
<1>6. ASSUME NEW s \in Sessions, NEW p \in Paths, UnlockDb(s, p) PROVE Half(s)'
  <2>1. op'[s].at \notin Writing \cup Losing \cup Deleting
    BY <1>6, EndFacts, IdleFacts, <1>a, <1>c DEF UnlockDb, Becomes, Active,
        Writing, Losing, Deleting, Stages
  <2> QED BY <2>1 DEF Half
<1>7. ASSUME NEW s \in Sessions, NEW p \in Paths, StartWrite(s, p) PROVE Half(s)'
  <2>1. op'[s].at \notin Writing \cup Losing \cup Deleting
    BY <1>7, TopFacts, WriteFacts, <1>a, <1>c DEF StartWrite, Becomes, Active,
        Writing, Losing, Deleting, Stages
  <2> QED BY <2>1 DEF Half
<1>8. ASSUME NEW s \in Sessions, NEW p \in Paths, WriteFile(s, p) PROVE Half(s)'
  <2>1. op'[s].at \notin Writing \cup Losing \cup Deleting
    BY <1>8, GotoFacts, <1>a, <1>c DEF WriteFile, Becomes, Active,
        Writing, Losing, Deleting, Stages
  <2> QED BY <2>1 DEF Half
<1>9. ASSUME NEW s \in Sessions, NEW p \in Paths, ReleaseWritten(s, p) PROVE Half(s)'
  <2>1. Goto(s, "releaseDb") /\ held'[p] = NoOne /\ op[s].at = "release" /\ p \in op[s].todo
    BY <1>9, <1>a DEF ReleaseWritten
  <2>2. op'[s].at = "releaseDb" /\ op'[s].agent = op[s].agent /\ op'[s].todo = op[s].todo
    BY <2>1, <1>a, GotoFacts DEF Stages
  <2>3. op[s].todo = {p}
    BY <2>1, <1>e DEF SinglePath, Single
  <2> QED BY <2>1, <2>2, <2>3, <1>d DEF Half, Me, Writing, Losing, Deleting
<1>10. ASSUME NEW s \in Sessions, NEW p \in Paths, NothingToRelease(s, p) PROVE Half(s)'
  <2>1. op'[s].at \notin Writing \cup Losing \cup Deleting
    BY <1>10, GotoFacts, <1>a, <1>c DEF NothingToRelease, Becomes, Active,
        Writing, Losing, Deleting, Stages
  <2> QED BY <2>1 DEF Half
<1>11. ASSUME NEW s \in Sessions, NEW p \in Paths, ReleaseRefused(s, p) PROVE Half(s)'
  <2>1. op'[s].at \notin Writing \cup Losing \cup Deleting
    BY <1>11, EndFacts, IdleFacts, <1>a, <1>c DEF ReleaseRefused, Becomes, Active,
        Writing, Losing, Deleting, Stages
  <2> QED BY <2>1 DEF Half
<1>12. ASSUME NEW s \in Sessions, NEW p \in Paths, ReleaseDb(s, p) PROVE Half(s)'
  <2>1. op'[s].at \notin Writing \cup Losing \cup Deleting
    BY <1>12, GotoFacts, <1>a, <1>c DEF ReleaseDb, Becomes, Active,
        Writing, Losing, Deleting, Stages
  <2> QED BY <2>1 DEF Half
<1>13. ASSUME NEW s \in Sessions, NEW p \in Paths, NoteWritten(s, p) PROVE Half(s)'
  <2>1. op'[s].at \notin Writing \cup Losing \cup Deleting
    BY <1>13, GotoFacts, <1>a, <1>c DEF NoteWritten, Becomes, Active,
        Writing, Losing, Deleting, Stages
  <2> QED BY <2>1 DEF Half
<1>14. ASSUME NEW s \in Sessions, NEW p \in Paths, SuspendDb(s, p) PROVE Half(s)'
  <2>1. op[s].at = "suspendDb" /\ UNCHANGED held
    BY <1>14 DEF SuspendDb, memory
  <2>2. /\ op'[s].at \in {"suspendDb", "switch"}
        /\ op'[s].agent = op[s].agent /\ op'[s].todo \subseteq op[s].todo
    BY <1>14, <1>a, RowFacts
  <2> QED BY <2>1, <2>2, <1>b DEF Half, Me, Writing, Losing, Deleting
<1>15. ASSUME NEW s \in Sessions, NEW p \in Paths, ResumeDb(s, p) PROVE Half(s)'
  <2>1. op[s].at = "resumeDb" /\ UNCHANGED held
    BY <1>15 DEF ResumeDb, memory
  <2>2. \/ op'[s].at = "idle"
        \/ /\ op'[s].at = "resumeDb" /\ op'[s].agent = op[s].agent
           /\ op'[s].todo \subseteq op[s].todo
    BY <1>15, <1>a, RegrantDbFacts, IdleFacts
  <2> QED BY <2>1, <2>2, <1>b DEF Half, Me, Writing, Losing, Deleting
<1>16. ASSUME NEW s \in Sessions, NEW b \in NamesOf[s], Delegate(s, b) PROVE Half(s)'
  <2>1. CASE stack[s] = <<>>
    <3>1. op'[s] = op[s] /\ op[s].at = "idle"
      BY <1>16, <2>1 DEF Delegate
    <3> QED BY <3>1, <1>f DEF Half
  <2>2. CASE stack[s] # <<>>
    <3>1. StartSuspend(s, Top(s), b) /\ UNCHANGED held
      BY <1>16, <2>2 DEF Delegate, memory
    <3>2. /\ op'[s].at = IF HeldBy(s, Top(s)) = {} THEN "switch" ELSE "suspendHash"
          /\ op'[s].agent = Top(s) /\ op'[s].todo = HeldBy(s, Top(s))
      BY <3>1, <2>2, <1>a, <1>c, OwnAgent, SuspendFacts
    <3> QED BY <3>1, <3>2 DEF Half, HeldBy, Me, Writing, Losing, Deleting
  <2> QED BY <2>1, <2>2
<1>17. ASSUME NEW s \in Sessions, Finish(s) PROVE Half(s)'
  <2>1. StartSuspend(s, Top(s), NoName) /\ UNCHANGED held /\ stack[s] # <<>>
    BY <1>17 DEF Finish, Active, memory
  <2>2. /\ op'[s].at = IF HeldBy(s, Top(s)) = {} THEN "switch" ELSE "suspendHash"
        /\ op'[s].agent = Top(s) /\ op'[s].todo = HeldBy(s, Top(s))
    BY <2>1, <1>a, <1>c, SuspendFacts
  <2> QED BY <2>1, <2>2 DEF Half, HeldBy, Me, Writing, Losing, Deleting
<1>18. ASSUME NEW s \in Sessions, SuspendHash(s) PROVE Half(s)'
  <2>1. file \in [Paths -> Contents \cup {NoFile}] /\ op[s].at = "suspendHash" /\ UNCHANGED held
    BY <1>18 DEF SuspendHash, memory, TypeOK
  <2>2. op'[s].at = "suspendMem" /\ op'[s].agent = op[s].agent /\ op'[s].todo = op[s].todo
    BY <1>18, <2>1, <1>a, HashFacts
  <2> QED BY <2>1, <2>2, <1>b DEF Half, Me, Writing, Losing, Deleting
<1>19. ASSUME NEW s \in Sessions, SuspendMem(s) PROVE Half(s)'
  <2>1. \A p \in Paths : held'[p] = IF p \in op[s].todo THEN NoOne ELSE held[p]
    BY <1>19 DEF SuspendMem
  <2>2. /\ op'[s].at = "suspendDb" /\ op'[s].agent = op[s].agent /\ op'[s].todo = op[s].todo
        /\ op[s].at # "idle"
    BY <1>19, <1>a, GotoFacts DEF SuspendMem, Stages
  <2> QED BY <2>1, <2>2, <1>a, <1>d DEF Half, Me, Writing, Losing, Deleting
<1>20. ASSUME NEW s \in Sessions, Push(s) PROVE Half(s)'
  <2>1. op'[s].at \notin Writing \cup Losing \cup Deleting
    BY <1>20, EndFacts, IdleFacts, <1>a, <1>f DEF Push, Becomes
  <2> QED BY <2>1 DEF Half
<1>21. ASSUME NEW s \in Sessions, Pop(s) PROVE Half(s)'
  <2>1. op'[s].at \notin Writing \cup Losing \cup Deleting
    <3>1. CASE stack[s] = <<>>
      BY <1>21, <3>1, EndFacts, IdleFacts, <1>a, <1>f DEF Pop, Becomes
    <3>2. CASE stack[s] # <<>>
      BY <1>21, <3>2, StartFacts, <1>a, <1>c DEF Pop, Stages, Writing, Losing, Deleting
    <3> QED BY <3>1, <3>2
  <2> QED BY <2>1 DEF Half
<1>22. ASSUME NEW s \in Sessions, ResumeTake(s) PROVE Half(s)'
  <2>1. suspended[Me(s)] \in Snapshots
    BY <1>22, OwnAgent DEF ResumeTake, TypeOK
  <2>2. op'[s].at = "resumeHash"
    BY <1>22, <2>1, <1>a, TakeFacts
  <2> QED BY <2>2 DEF Half, Writing, Losing, Deleting
<1>23. ASSUME NEW s \in Sessions, ResumeHash(s) PROVE Half(s)'
  <2>1. op'[s].at \notin Writing \cup Losing \cup Deleting
    BY <1>23, RehashFacts, <1>a, <1>c DEF ResumeHash, Becomes, Active,
        Writing, Losing, Deleting, Stages
  <2> QED BY <2>1 DEF Half
<1>24. ASSUME NEW s \in Sessions, ResumeMem(s) PROVE Half(s)'
  <2>1. \/ op'[s].at = "idle"
        \/ /\ op'[s].at = "resumeDb" /\ op'[s].agent = op[s].agent
           /\ \A p \in op'[s].todo : p \in Paths /\ held'[p] = Me(s)
    BY <1>24, <1>a, RegrantFacts, IdleFacts
  <2> QED BY <2>1 DEF Half, Me, Writing, Losing, Deleting
<1>25. ASSUME NEW s \in Sessions, DbError(s) PROVE Half(s)'
  <2>1. op'[s].at \notin Writing \cup Losing \cup Deleting
    BY <1>25, EndFacts, IdleFacts, GotoFacts, <1>a DEF DbError, Becomes,
        Writing, Losing, Deleting, Stages
  <2> QED BY <2>1 DEF Half
<1>26. CASE Restart
  BY <1>26, IdleFacts DEF Restart, Half
<1>27. CASE UNCHANGED vars
  BY <1>27, <1>b DEF vars, Half, Me
<1>28. ASSUME NEW s \in Sessions, Act(s) PROVE Half(s)'
  BY <1>28, <1>1, <1>2, <1>3, <1>4, <1>5, <1>6, <1>7, <1>8, <1>9, <1>10, <1>11,
    <1>12, <1>13, <1>14, <1>15, <1>16, <1>17, <1>18, <1>19, <1>20, <1>21, <1>22,
    <1>23, <1>24, <1>25 DEF Act, Call, Switch
<1>29. ASSUME NEW s \in Sessions, Act(s), NEW t \in Sessions, t # s PROVE Half(t)'
  BY <1>29, RestStep, SparesStep, <1>a, <1>b, <1>d, <1>f
  DEF Rest, Others, Spares, Half, Me
<1> QED BY <1>26, <1>27, <1>28, <1>29, NextActs

-----------------------------------------------------------------------------
(* The mirror. *)

\* A step of s that touches neither table, from a stage in which s has no half open.
LEMMA PendingQuiet ==
    ASSUME TypeOK, Pending, NEW s \in Sessions, Others(s),
           UNCHANGED <<held, dbHeld, dbFailed>>,
           op[s].at \notin Writing \cup Deleting
    PROVE  Pending'
<1>1. \A p \in Paths :
        /\ held[p] # NoOne => held[p].session \in Sessions
        /\ dbHeld[p] # NoOne => dbHeld[p].session \in Sessions
  BY AgentFacts DEF TypeOK
<1>2. \A t \in Sessions, p \in Paths : \A a :
        /\ Writes(op[t], p) => op'[t] = op[t]
        /\ Deletes(op[t], a, p) => op'[t] = op[t]
  BY DEF Writes, Deletes, Others
<1> QED BY <1>1, <1>2 DEF Pending

\* A row of s is deleted: the table keeps the rows of the others.
LEMMA PendingDelete ==
    ASSUME TypeOK, OwnNames, NamesApart, Pending, NEW s \in Sessions, Half(s), Others(s),
           NEW p \in op[s].todo, op[s].at \in Deleting,
           UNCHANGED <<held, dbFailed>>, DbRelease(op[s].agent, p),
           \A q \in op[s].todo : q # p =>
               op'[s].at \in Deleting /\ q \in op'[s].todo /\ op'[s].agent = op[s].agent
    PROVE  Pending'
<1>a. /\ p \in Paths /\ op[s].agent \in NamesOf[s] /\ op[s].at \notin Writing
      /\ op[s].agent \in Names /\ Me(s) = Agent(s, op[s].agent)
  BY OwnAgent DEF TypeOK, Ops, OwnNames, Deleting, Writing, Me
<1>b. \A q \in Paths :
        /\ held[q] # NoOne => held[q] \in Agents /\ held[q].session \in Sessions
        /\ dbHeld[q] # NoOne => dbHeld[q] \in Agents /\ dbHeld[q].session \in Sessions
  BY AgentFacts DEF TypeOK
<1>1. /\ \A q \in Paths : q # p => dbHeld'[q] = dbHeld[q]
      /\ dbHeld'[p] = IF dbHeld[p] = Me(s) THEN NoOne ELSE dbHeld[p]
  <2>1. dbHeld[p] # NoOne /\ dbHeld[p].agent = op[s].agent <=> dbHeld[p] = Me(s)
    BY <1>a, AgentFacts, SameSession
  <2>2. dbHeld' = [dbHeld EXCEPT ![p] =
                     IF dbHeld[p] # NoOne /\ dbHeld[p].agent = op[s].agent THEN NoOne ELSE dbHeld[p]]
    BY DEF DbRelease
  <2> QED BY <1>a, <2>1, <2>2 DEF TypeOK
<1> SUFFICES ASSUME ~ dbFailed, NEW q \in Paths, held[q] # dbHeld'[q]
             PROVE  /\ held[q] # NoOne => Writes(op'[held[q].session], q)
                    /\ dbHeld'[q] # NoOne => Deletes(op'[dbHeld'[q].session], dbHeld'[q].agent, q)
  BY DEF Pending
<1>2. ASSUME held[q] # NoOne PROVE Writes(op'[held[q].session], q)
  <2>1. held[q] # dbHeld[q]
    BY <1>1, <1>2, <1>a DEF Half
  <2>2. Writes(op[held[q].session], q)
    BY <1>2, <2>1 DEF Pending
  <2>3. held[q].session # s
    BY <2>2, <1>a DEF Writes
  <2> QED BY <1>2, <1>b, <2>2, <2>3 DEF Others
<1>3. ASSUME dbHeld'[q] # NoOne PROVE Deletes(op'[dbHeld'[q].session], dbHeld'[q].agent, q)
  <2>1. dbHeld'[q] = dbHeld[q] /\ (q = p => dbHeld[q] # Me(s))
    BY <1>1, <1>3
  <2>2. Deletes(op[dbHeld[q].session], dbHeld[q].agent, q)
    BY <1>3, <2>1 DEF Pending
  <2>3. CASE dbHeld[q].session = s
    <3>1. dbHeld[q] = Me(s) /\ q \in op[s].todo
      BY <1>3, <1>a, <1>b, <2>1, <2>2, <2>3, AgentFacts DEF Deletes
    <3> QED BY <2>1, <2>2, <2>3, <3>1 DEF Deletes
  <2>4. CASE dbHeld[q].session # s
    BY <1>3, <1>b, <2>1, <2>2, <2>4 DEF Others
  <2> QED BY <2>3, <2>4
<1> QED BY <1>2, <1>3

\* A row of s is written: it names the holder.
LEMMA PendingWrite ==
    ASSUME TypeOK, OwnNames, Pending, NEW s \in Sessions, Half(s), Others(s),
           NEW p \in op[s].todo, op[s].at \in Writing,
           UNCHANGED <<held, dbFailed>>, DbAcquire(s, op[s].agent, p),
           \A q \in op[s].todo : q # p => op'[s].at \in Writing /\ q \in op'[s].todo
    PROVE  Pending'
<1>a. p \in Paths /\ op[s].at \notin Deleting
  BY DEF TypeOK, Ops, Deleting, Writing
<1>b. \A q \in Paths :
        /\ held[q] # NoOne => held[q].session \in Sessions
        /\ dbHeld[q] # NoOne => dbHeld[q].session \in Sessions
  BY AgentFacts DEF TypeOK
<1>1. (\A q \in Paths : q # p => dbHeld'[q] = dbHeld[q]) /\ dbHeld'[p] = held[p]
  BY <1>a DEF DbAcquire, Half, Me, TypeOK
<1> SUFFICES ASSUME ~ dbFailed, NEW q \in Paths, q # p, held[q] # dbHeld[q]
             PROVE  /\ held[q] # NoOne => Writes(op'[held[q].session], q)
                    /\ dbHeld[q] # NoOne => Deletes(op'[dbHeld[q].session], dbHeld[q].agent, q)
  BY <1>1 DEF Pending
<1>2. ASSUME held[q] # NoOne PROVE Writes(op'[held[q].session], q)
  <2>1. Writes(op[held[q].session], q)
    BY <1>2 DEF Pending
  <2>2. CASE held[q].session = s
    BY <2>1, <2>2 DEF Writes
  <2>3. CASE held[q].session # s
    BY <1>2, <1>b, <2>1, <2>3 DEF Others
  <2> QED BY <2>2, <2>3
<1>3. ASSUME dbHeld[q] # NoOne PROVE Deletes(op'[dbHeld[q].session], dbHeld[q].agent, q)
  <2>1. Deletes(op[dbHeld[q].session], dbHeld[q].agent, q)
    BY <1>3 DEF Pending
  <2>2. dbHeld[q].session # s
    BY <2>1, <1>a DEF Deletes
  <2> QED BY <1>3, <1>b, <2>1, <2>2 DEF Others
<1> QED BY <1>2, <1>3

\* Session s changes the locks T: those it takes were free, those it gives up were its
\* own, and it has the half of every one of them open afterwards.
LEMMA PendingMove ==
    ASSUME TypeOK, OwnNames, Pending, NEW s \in Sessions, Others(s),
           UNCHANGED <<dbHeld, dbFailed>>, op[s].at \notin Writing \cup Deleting,
           NEW T \in SUBSET Paths, \A q \in Paths \ T : held'[q] = held[q],
           NEW g \in Agents, g.session = s, op'[s].agent = g.agent,
           \/ /\ op'[s].at \in Writing
              /\ \A q \in T : held[q] = NoOne /\ held'[q] = g
           \/ /\ op'[s].at \in Deleting
              /\ \A q \in T : held[q] = g /\ held'[q] = NoOne,
           T \subseteq op'[s].todo
    PROVE  Pending'
<1>b. \A q \in Paths :
        /\ held[q] # NoOne => held[q].session \in Sessions
        /\ dbHeld[q] # NoOne => dbHeld[q].session \in Sessions
  BY AgentFacts DEF TypeOK
<1>c. g # NoOne
  BY NullsAssumption DEF Agents
<1> SUFFICES ASSUME ~ dbFailed, NEW q \in Paths, held'[q] # dbHeld[q]
             PROVE  /\ held'[q] # NoOne => Writes(op'[held'[q].session], q)
                    /\ dbHeld[q] # NoOne => Deletes(op'[dbHeld[q].session], dbHeld[q].agent, q)
  BY DEF Pending
<1>1. CASE q \notin T
  <2>1. held'[q] = held[q]
    BY <1>1
  <2>2. ASSUME held[q] # NoOne PROVE Writes(op'[held[q].session], q)
    <3>1. Writes(op[held[q].session], q)
      BY <2>1, <2>2 DEF Pending
    <3>2. held[q].session # s
      BY <3>1 DEF Writes
    <3> QED BY <1>b, <2>2, <3>1, <3>2 DEF Others
  <2>3. ASSUME dbHeld[q] # NoOne PROVE Deletes(op'[dbHeld[q].session], dbHeld[q].agent, q)
    <3>1. Deletes(op[dbHeld[q].session], dbHeld[q].agent, q)
      BY <2>1, <2>3 DEF Pending
    <3>2. dbHeld[q].session # s
      BY <3>1 DEF Deletes
    <3> QED BY <1>b, <2>3, <3>1, <3>2 DEF Others
  <2> QED BY <2>1, <2>2, <2>3
<1>2. CASE q \in T /\ op'[s].at \in Writing /\ held[q] = NoOne /\ held'[q] = g
  <2>1. Writes(op'[s], q)
    BY <1>2 DEF Writes
  <2>2. ASSUME dbHeld[q] # NoOne PROVE Deletes(op'[dbHeld[q].session], dbHeld[q].agent, q)
    <3>1. Deletes(op[dbHeld[q].session], dbHeld[q].agent, q)
      BY <1>2, <2>2 DEF Pending
    <3>2. dbHeld[q].session # s
      BY <3>1 DEF Deletes
    <3> QED BY <1>b, <2>2, <3>1, <3>2 DEF Others
  <2> QED BY <1>2, <2>1, <2>2
<1>3. CASE q \in T /\ op'[s].at \in Deleting /\ held[q] = g /\ held'[q] = NoOne
  <2>1. dbHeld[q] = g
    <3>1. ~ Writes(op[s], q)
      BY DEF Writes
    <3> QED BY <1>3, <1>c, <3>1 DEF Pending
  <2> QED BY <1>3, <2>1 DEF Deletes
<1>4. q \in T => \/ op'[s].at \in Writing /\ held[q] = NoOne /\ held'[q] = g
                 \/ op'[s].at \in Deleting /\ held[q] = g /\ held'[q] = NoOne
  OBVIOUS
<1> QED BY <1>1, <1>2, <1>3, <1>4

LEMMA PendingAct ==
    ASSUME TypeOK, OwnNames, OnePath, NamesApart, Halves, Pending,
           NEW s \in Sessions, Act(s)
    PROVE  Pending'
<1>o. Others(s) /\ Half(s) /\ SinglePath(s)
  BY RestStep DEF Rest, Halves, OnePath
<1>a. op \in [Sessions -> Ops] /\ held \in [Paths -> Agents \cup {NoOne}]
      /\ op[s].todo \subseteq Paths
  BY DEF TypeOK, Ops
<1>b. op[s].at # "idle" => Me(s) = Agent(s, op[s].agent) /\ op[s].agent \in Names
  BY OwnAgent DEF Me
<1>c. \A a \in Names : Agent(s, a) \in Agents /\ Agent(s, a).session = s /\ Agent(s, a).agent = a
  BY OwnAgent
<1>1. ASSUME NEW p \in Paths, StartReadlock(s, p) PROVE Pending'
  <2>1. /\ Start(s, Top(s), "acquireDb", {p}) /\ stack[s] # <<>>
        /\ held[p] = NoOne /\ held' = [held EXCEPT ![p] = Agent(s, Top(s))]
        /\ UNCHANGED <<dbHeld, dbFailed>> /\ op[s].at = "idle"
    BY <1>1 DEF StartReadlock, TakeLock, Active, mirror, faults
  <2>2. Top(s) \in Names
    BY <2>1, OwnTop
  <2>3. op'[s].at = "acquireDb" /\ op'[s].agent = Top(s) /\ op'[s].todo = {p}
    BY <2>1, <2>2, <1>a, StartFacts DEF Stages
  <2> DEFINE g == Agent(s, Top(s))
  <2>4. g \in Agents /\ g.session = s /\ g.agent = Top(s)
    BY <2>2, <1>c
  <2>5. /\ \A q \in Paths \ {p} : held'[q] = held[q]
        /\ \A q \in {p} : held[q] = NoOne /\ held'[q] = g
    BY <2>1, <1>a
  <2>6. op'[s].at \in Writing /\ op[s].at \notin Writing \cup Deleting
    BY <2>1, <2>3 DEF Writing, Deleting
  <2> HIDE DEF g
  <2> QED BY <1>o, <2>1, <2>3, <2>4, <2>5, <2>6, PendingMove
<1>2. ASSUME NEW p \in Paths, AcquireDb(s, p) PROVE Pending'
  <2>1. /\ op[s].at = "acquireDb" /\ p \in op[s].todo
        /\ DbAcquire(s, op[s].agent, p) /\ UNCHANGED <<held, dbFailed>>
    BY <1>2 DEF AcquireDb, memory, faults
  <2>2. op[s].at \in Writing /\ \A q \in op[s].todo : q = p
    BY <2>1, <1>o DEF Writing, SinglePath, Single
  <2> QED BY <2>1, <2>2, <1>o, PendingWrite
<1>3. ASSUME NEW p \in Paths, StartUnlock(s, p) PROVE Pending'
  <2>1. /\ Start(s, Top(s), "unlockDb", {p}) /\ stack[s] # <<>> /\ MayRelease(Top(s), p)
        /\ held' = [held EXCEPT ![p] = NoOne]
        /\ UNCHANGED <<dbHeld, dbFailed>> /\ op[s].at = "idle"
    BY <1>3 DEF StartUnlock, Active, mirror, faults
  <2>2. Top(s) \in Names /\ Top(s) \in NamesOf[s]
    BY <2>1, OwnTop
  <2>3. op'[s].at = "unlockDb" /\ op'[s].agent = Top(s) /\ op'[s].todo = {p}
    BY <2>1, <2>2, <1>a, StartFacts DEF Stages
  <2> DEFINE g == Agent(s, Top(s))
  <2>4. g \in Agents /\ g.session = s /\ g.agent = Top(s)
    BY <2>2, <1>c
  <2>5. held[p] = g
    BY <2>1, <2>2, SameSession DEF MayRelease
  <2>6. /\ \A q \in Paths \ {p} : held'[q] = held[q]
        /\ \A q \in {p} : held[q] = g /\ held'[q] = NoOne
    BY <2>1, <2>5, <1>a
  <2>7. op'[s].at \in Deleting /\ op[s].at \notin Writing \cup Deleting
    BY <2>1, <2>3 DEF Writing, Deleting
  <2> HIDE DEF g
  <2> QED BY <1>o, <2>1, <2>3, <2>4, <2>6, <2>7, PendingMove
<1>4. ASSUME NEW p \in Paths, UnlockDb(s, p) \/ ReleaseDb(s, p) PROVE Pending'
  <2>1. /\ op[s].at \in {"unlockDb", "releaseDb"} /\ p \in op[s].todo
        /\ DbRelease(op[s].agent, p) /\ UNCHANGED <<held, dbFailed>>
    BY <1>4 DEF UnlockDb, ReleaseDb, memory, faults
  <2>2. op[s].at \in Deleting /\ \A q \in op[s].todo : q = p
    BY <2>1, <1>o DEF Deleting, SinglePath, Single
  <2> QED BY <2>1, <2>2, <1>o, PendingDelete
<1>5. ASSUME NEW p \in Paths, SuspendDb(s, p) PROVE Pending'
  <2>1. /\ op[s].at = "suspendDb" /\ p \in op[s].todo
        /\ DbRelease(op[s].agent, p) /\ UNCHANGED <<held, dbFailed>>
    BY <1>5 DEF SuspendDb, memory, faults
  <2>2. /\ op'[s].at = IF op[s].todo = {p} THEN "switch" ELSE "suspendDb"
        /\ op'[s].agent = op[s].agent /\ op'[s].todo = op[s].todo \ {p}
    BY <1>5, <1>a, RowFacts
  <2>3. op[s].at \in Deleting
        /\ \A q \in op[s].todo : q # p =>
              op'[s].at \in Deleting /\ q \in op'[s].todo /\ op'[s].agent = op[s].agent
    BY <2>1, <2>2 DEF Deleting
  <2> QED BY <2>1, <2>3, <1>o, PendingDelete
<1>6. ASSUME NEW p \in Paths, ResumeDb(s, p) PROVE Pending'
  <2>1. /\ op[s].at = "resumeDb" /\ p \in op[s].todo
        /\ DbAcquire(s, op[s].agent, p) /\ UNCHANGED <<held, dbFailed>>
    BY <1>6 DEF ResumeDb, memory, faults
  <2>2. op[s].todo # {p} => op'[s].at = "resumeDb" /\ op'[s].todo = op[s].todo \ {p}
    BY <1>6, <1>a, RegrantDbFacts
  <2>3. op[s].at \in Writing
        /\ \A q \in op[s].todo : q # p => op'[s].at \in Writing /\ q \in op'[s].todo
    BY <2>1, <2>2 DEF Writing
  <2> QED BY <2>1, <2>3, <1>o, PendingWrite
<1>7. ASSUME NEW p \in Paths, ReleaseWritten(s, p) PROVE Pending'
  <2>1. /\ Goto(s, "releaseDb") /\ MayRelease(op[s].agent, p)
        /\ held' = [held EXCEPT ![p] = NoOne] /\ p \in op[s].todo
        /\ UNCHANGED <<dbHeld, dbFailed>> /\ op[s].at = "release"
    BY <1>7 DEF ReleaseWritten, mirror, faults
  <2>2. op[s].agent \in Names /\ op[s].agent \in NamesOf[s]
    BY <2>1, <1>b DEF OwnNames
  <2>3. op'[s].at = "releaseDb" /\ op'[s].agent = op[s].agent /\ op'[s].todo = op[s].todo
    BY <2>1, <1>a, GotoFacts DEF Stages
  <2> DEFINE g == Agent(s, op[s].agent)
  <2>4. g \in Agents /\ g.session = s /\ g.agent = op[s].agent
    BY <2>2, <1>c
  <2>5. held[p] = g
    BY <2>1, <2>2, SameSession DEF MayRelease
  <2>6. /\ \A q \in Paths \ {p} : held'[q] = held[q]
        /\ \A q \in {p} : held[q] = g /\ held'[q] = NoOne
        /\ {p} \subseteq op'[s].todo /\ {p} \in SUBSET Paths
    BY <2>1, <2>3, <2>5, <1>a
  <2>7. op'[s].at \in Deleting /\ op[s].at \notin Writing \cup Deleting
    BY <2>1, <2>3 DEF Writing, Deleting
  <2> HIDE DEF g
  <2> QED BY <1>o, <2>1, <2>3, <2>4, <2>6, <2>7, PendingMove
<1>8. CASE SuspendMem(s)
  <2>1. /\ Goto(s, "suspendDb") /\ UNCHANGED <<dbHeld, dbFailed>> /\ op[s].at = "suspendMem"
        /\ \A p \in Paths : held'[p] = IF p \in op[s].todo THEN NoOne ELSE held[p]
    BY <1>8 DEF SuspendMem, mirror, faults
  <2>2. op'[s].at = "suspendDb" /\ op'[s].agent = op[s].agent /\ op'[s].todo = op[s].todo
    BY <2>1, <1>a, GotoFacts DEF Stages
  <2> DEFINE g == Agent(s, op[s].agent)
  <2>3. g \in Agents /\ g.session = s /\ g.agent = op[s].agent
    BY <2>1, <1>b, <1>c
  <2>4. /\ \A q \in Paths \ op[s].todo : held'[q] = held[q]
        /\ \A q \in op[s].todo : held[q] = g /\ held'[q] = NoOne
    BY <2>1, <1>a, <1>b, <1>o DEF Half, Losing
  <2>5. op'[s].at \in Deleting /\ op[s].at \notin Writing \cup Deleting
    BY <2>1, <2>2 DEF Writing, Deleting
  <2> HIDE DEF g
  <2> QED BY <1>o, <1>a, <2>1, <2>2, <2>3, <2>4, <2>5, PendingMove
<1>9. CASE ResumeMem(s)
  <2> DEFINE free == {p \in op[s].todo : held[p] = NoOne}
             g == Agent(s, op[s].agent)
  <2>1. /\ UNCHANGED <<dbHeld, dbFailed>> /\ op[s].at = "resumeMem"
        /\ held' = [p \in Paths |-> IF p \in free THEN Me(s) ELSE held[p]]
    BY <1>9 DEF ResumeMem, mirror, faults
  <2>2. op[s].at \notin Writing \cup Deleting
    BY <2>1 DEF Writing, Deleting
  <2>3. CASE free = {}
    <3>1. held' = held
      BY <2>1, <2>3, <1>a
    <3> QED BY <2>1, <2>2, <3>1, <1>o, PendingQuiet
  <2>4. CASE free # {}
    <3>1. op'[s].at = "resumeDb" /\ op'[s].agent = op[s].agent /\ op'[s].todo = free
      BY <1>9, <1>a, <2>4, RegrantFacts
    <3>2. g \in Agents /\ g.session = s /\ g.agent = op[s].agent
      BY <2>1, <1>b, <1>c
    <3>3. /\ \A q \in Paths \ free : held'[q] = held[q]
          /\ \A q \in free : held[q] = NoOne /\ held'[q] = g
      BY <2>1, <1>a, <1>b
    <3>4. free \in SUBSET Paths /\ op'[s].at \in Writing
      BY <1>a, <3>1 DEF Writing
    <3> HIDE DEF free, g
    <3> QED BY <1>o, <2>1, <2>2, <3>1, <3>2, <3>3, <3>4, PendingMove
  <2> QED BY <2>3, <2>4
<1>10. CASE DbError(s)
  BY <1>10 DEF DbError, Pending
<1>11. CASE /\ UNCHANGED <<held, dbHeld, dbFailed>>
            /\ op[s].at \notin Writing \cup Deleting
  BY <1>11, <1>o, PendingQuiet
<1>12. ASSUME NEW p \in Paths, Call(s, p)
       PROVE  \/ StartReadlock(s, p) \/ AcquireDb(s, p) \/ StartUnlock(s, p)
              \/ UnlockDb(s, p) \/ ReleaseDb(s, p) \/ ReleaseWritten(s, p)
              \/ SuspendDb(s, p) \/ ResumeDb(s, p)
              \/ UNCHANGED <<held, dbHeld, dbFailed>> /\ op[s].at \notin Writing \cup Deleting
  BY <1>12 DEF Call, StartRead, NoteDb, StartWrite, WriteFile, NothingToRelease,
      ReleaseRefused, NoteWritten, Active, memory, mirror, faults, Writing, Deleting
<1>13. Switch(s) =>
              \/ SuspendMem(s) \/ ResumeMem(s)
              \/ UNCHANGED <<held, dbHeld, dbFailed>> /\ op[s].at \notin Writing \cup Deleting
  BY DEF Switch, Finish, SuspendHash, Push, Pop, ResumeTake, ResumeHash,
      Active, memory, mirror, faults, Writing, Deleting
<1>14. (\E b \in NamesOf[s] : Delegate(s, b)) =>
              UNCHANGED <<held, dbHeld, dbFailed>> /\ op[s].at \notin Writing \cup Deleting
  BY DEF Delegate, memory, mirror, faults, Writing, Deleting
<1> QED BY <1>1, <1>2, <1>3, <1>4, <1>5, <1>6, <1>7, <1>8, <1>9, <1>10, <1>11, <1>12,
           <1>13, <1>14 DEF Act

LEMMA PendingStep ==
    ASSUME TypeOK, OwnNames, OnePath, NamesApart, Halves, Pending, [Next]_vars
    PROVE  Pending'
<1>1. CASE Restart
  BY <1>1 DEF Restart, mirror, Pending
<1>2. CASE UNCHANGED vars
  BY <1>2 DEF vars, Pending, Writes, Deletes
<1> QED BY <1>1, <1>2, PendingAct, NextActs

-----------------------------------------------------------------------------
(* The invariant, and what it implies. *)

IInv ==
    /\ TypeOK /\ OwnNames /\ OnePath /\ ResumesTop /\ Slots
    /\ NamesApart => Halves /\ Pending

LEMMA InitIInv == Init => IInv
<1> SUFFICES ASSUME Init PROVE IInv
  OBVIOUS
<1>1. TypeOK
  <2>1. NoSnapshot \in Snapshots
    BY DEF NoSnapshot, Snapshots
  <2> QED BY <2>1, IdleFacts, EmptySeq DEF Init, TypeOK
<1>2. OwnNames
  BY IdleFacts DEF Init, OwnNames
<1>3. OnePath /\ ResumesTop
  BY IdleFacts DEF Init, OnePath, SinglePath, ResumesTop, OnTop, Single, Resuming
<1>4. Slots
  BY DEF Init, Slots, Slot
<1>5. Halves /\ Pending
  BY IdleFacts DEF Init, Halves, Half, Pending
<1> QED BY <1>1, <1>2, <1>3, <1>4, <1>5 DEF IInv

LEMMA StepIInv == IInv /\ [Next]_vars => IInv'
<1> SUFFICES ASSUME IInv, [Next]_vars PROVE IInv'
  OBVIOUS
<1>1. TypeOK' /\ OwnNames'
  BY TypeStep, OwnNamesStep DEF IInv
<1>2. OnePath' /\ ResumesTop' /\ Slots'
  BY OnePathStep, ResumesTopStep, SlotsStep DEF IInv, OnePath, ResumesTop, Slots
<1>3. NamesApart => Halves' /\ Pending'
  BY HalvesStep, PendingStep DEF IInv, Halves
<1>4. NamesApart' <=> NamesApart
  BY DEF NamesApart
<1> QED BY <1>1, <1>2, <1>3, <1>4 DEF IInv

THEOREM Invariance == Spec => []IInv
BY InitIInv, StepIInv, PTL DEF Spec

\* The state has the shape TypeOK gives it, whatever fails or crashes.
THEOREM TypeCorrect == Spec => []TypeOK
<1>1. IInv => TypeOK
  BY DEF IInv
<1> QED BY <1>1, Invariance, PTL

\* suspend_agent and resume_agent, around every change of the active slot: until the
\* daemon dies, no lock outlives the slot of its agent.
THEOREM LocksOfActive == Spec => []OnlyActiveHolds
<1>1. ASSUME IInv PROVE OnlyActiveHolds
  <2> SUFFICES ASSUME restarts = 0, NEW p \in Paths, held[p] # NoOne
               PROVE  LET s == held[p].session IN
                      \/ stack[s] # <<>> /\ held[p].agent = Top(s)
                      \/ op[s].at \in {"suspendHash", "suspendMem"} /\ held[p].agent = op[s].agent
    BY DEF OnlyActiveHolds, LocksDieWithAgents
  <2>1. held[p].session \in Sessions
    BY <1>1, AgentFacts DEF IInv, TypeOK
  <2> QED BY <1>1, <2>1 DEF IInv, Slots, Slot, Losing
<1> QED BY <1>1, Invariance, PTL

\* Every call first changes the manager and then the mirror: where the two disagree,
\* a call is between the halves, as long as every statement succeeds.
THEOREM MirrorCoherent == NamesApart => (Spec => []MirrorAgrees)
<1> SUFFICES ASSUME NamesApart PROVE Spec => []MirrorAgrees
  OBVIOUS
<1>1. ASSUME IInv PROVE MirrorAgrees
  <2> SUFFICES ASSUME ~ dbFailed, NEW p \in Paths, held[p] # dbHeld[p]
               PROVE  \E s \in Sessions :
                        /\ p \in op[s].todo
                        /\ op[s].at \in {"acquireDb", "unlockDb", "releaseDb", "suspendDb", "resumeDb"}
    BY DEF MirrorAgrees
  <2>1. /\ held[p] # NoOne => held[p].session \in Sessions
        /\ dbHeld[p] # NoOne => dbHeld[p].session \in Sessions
    BY <1>1, AgentFacts DEF IInv, TypeOK
  <2>2. /\ held[p] # NoOne => Writes(op[held[p].session], p)
        /\ dbHeld[p] # NoOne => Deletes(op[dbHeld[p].session], dbHeld[p].agent, p)
    BY <1>1 DEF IInv, Pending
  <2>3. CASE held[p] # NoOne
    BY <2>1, <2>2, <2>3 DEF Writes, Writing
  <2>4. CASE dbHeld[p] # NoOne
    BY <2>1, <2>2, <2>4 DEF Deletes, Deleting
  <2> QED BY <2>3, <2>4
<1> QED BY <1>1, Invariance, PTL

\* Who moves a lock moves on itself.
LEMMA ActsOnLocks ==
    ASSUME TypeOK, OwnNames, NEW s \in Sessions, Act(s)
    PROVE  UNCHANGED held \/ op'[s] # op[s]
<1>a. op \in [Sessions -> Ops]
  BY DEF TypeOK
<1>1. ASSUME NEW p \in Paths, StartReadlock(s, p) \/ StartUnlock(s, p) PROVE op'[s] # op[s]
  <2>1. /\ stack[s] # <<>> /\ op[s].at = "idle"
        /\ \E at \in {"acquireDb", "unlockDb"} : Start(s, Top(s), at, {p})
    BY <1>1 DEF StartReadlock, StartUnlock, Active
  <2>2. op'[s].at \in {"acquireDb", "unlockDb"}
    BY <2>1, <1>a, OwnTop, StartFacts DEF Stages
  <2> QED BY <2>1, <2>2
<1>2. ASSUME NEW p \in Paths, ReleaseWritten(s, p) PROVE op'[s] # op[s]
  BY <1>2, <1>a, GotoFacts DEF ReleaseWritten, Stages
<1>3. CASE SuspendMem(s)
  BY <1>3, <1>a, GotoFacts DEF SuspendMem, Stages
<1>4. CASE ResumeMem(s)
  <2>1. op[s].at = "resumeMem"
    BY <1>4 DEF ResumeMem
  <2> QED BY <1>4, <2>1, <1>a, RegrantFacts, IdleFacts
<1> QED BY <1>1, <1>2, <1>3, <1>4, LockMoves

\* LockManager::release and suspend_agent compare names: where no two sessions share
\* one, a lock is given up by its own session only.
THEOREM OwnerReleases == NamesApart => (Spec => ReleasedByOwner)
<1> SUFFICES ASSUME NamesApart PROVE Spec => ReleasedByOwner
  OBVIOUS
<1> DEFINE Step == \A p \in Paths :
                held[p] # NoOne /\ held'[p] # held[p] /\ restarts' = restarts =>
                    Acts(held[p].session)
<1>1. ASSUME IInv, [Next]_vars PROVE [Step]_vars
  <2>1. CASE Restart
    <3>1. restarts' # restarts
      BY <1>1, <2>1 DEF Restart, IInv, TypeOK
    <3> QED BY <3>1
  <2>2. ASSUME NEW s \in Sessions, Act(s) PROVE Step
    <3>1. Spares(s)
      BY <1>1, <2>2, SparesStep DEF IInv, Halves
    <3>2. UNCHANGED held \/ op'[s] # op[s]
      BY <1>1, <2>2, ActsOnLocks DEF IInv
    <3> QED BY <3>1, <3>2 DEF Spares, Acts
  <2> QED BY <1>1, <2>1, <2>2, NextActs
<1>2. IInv /\ [Next]_vars => [Step]_vars
  BY <1>1
<1> QED BY <1>2, Invariance, PTL DEF Spec, ReleasedByOwner

=============================================================================
