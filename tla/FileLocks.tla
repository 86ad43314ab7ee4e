------------------------------ MODULE FileLocks ------------------------------
(***************************************************************************)
(* The daemon-wide file-lock manager (locks/mod.rs), its SQLite mirror     *)
(* (db/locks.rs), the file tools that use it (read, readlock, unlock,      *)
(* writeunlock, editunlock) and the driver's agent stack, which suspends   *)
(* the locks of an agent that loses the active slot and resumes them when  *)
(* it gets the slot back.                                                  *)
(*                                                                         *)
(* A session runs one call at a time; calls of different sessions          *)
(* interleave.  The manager's mutex is held only for the in-memory part of *)
(* a call: hashing, writing the file and every SQLite statement happen     *)
(* outside it, so each of them is an action of its own.  The daemon may    *)
(* die between any two of them and is rebuilt from the mirror.             *)
(*                                                                         *)
(* The root agent of a session (Build, Plan, Auto) holds no lock tool and  *)
(* is the empty stack.                                                     *)
(***************************************************************************)
EXTENDS Naturals, Sequences, SequencesExt

CONSTANTS Sessions, \* the sessions served by the daemon
          Names,    \* agent names; the agent id of a lock is the agent's name
          NamesOf,  \* NamesOf[s]: the agents that run in session s
          Paths,    \* canonical paths
          Contents, \* contents of a file (its hash stands for the content)
          NoFile,   \* the file does not exist
          NoOne,    \* nobody holds the lock
          NoName,   \* no agent
          MaxDepth,    \* bound: frames on an agent stack
          MaxRestarts, \* bound: crashes of the daemon
          DbMayFail    \* whether a SQLite statement may fail (once)

ASSUME NamesOfAssumption == NamesOf \in [Sessions -> SUBSET Names]
ASSUME NullsAssumption ==
    /\ NoFile \notin Contents
    /\ NoName \notin Names
    /\ NoOne \notin [session : Sessions, agent : Names]
ASSUME BoundsAssumption ==
    /\ MaxDepth \in Nat /\ MaxRestarts \in Nat /\ DbMayFail \in BOOLEAN

VARIABLES
    held,      \* LockState.held: path -> holder
    reads,     \* LockState.read_tracker, as a set of records
    suspended, \* LockState.suspended: agent -> snapshot (path -> content)
    dbHeld,    \* table lock_state
    dbReads,   \* table lock_reads
    file,      \* the files on disk
    stack,     \* stack[s]: the driver's frames above the root agent
    op,        \* op[s]: the call session s is executing
    restarts,  \* crashes so far
    dbFailed   \* history: a SQLite statement has failed

memory == <<held, reads, suspended>>
mirror == <<dbHeld, dbReads>>
faults == <<restarts, dbFailed>>
vars == <<held, reads, suspended, dbHeld, dbReads, file, stack, op, restarts, dbFailed>>

Agent(s, a) == [session |-> s, agent |-> a]
Agents == [session : Sessions, agent : Names]
Read(s, a, p) == [session |-> s, agent |-> a, path |-> p]
Reads == [session : Sessions, agent : Names, path : Paths]

\* A snapshot maps the suspended paths to their content, every other path to
\* NoFile; an agent without a snapshot has the empty one.
Snapshots == [Paths -> Contents \cup {NoFile}]
NoSnapshot == [p \in Paths |-> NoFile]

\* A frame of the driver's stack.  `had` is history: the locks the frame held
\* when it lost the active slot.
Frames == [name : Names, had : SUBSET Paths]

\* The stages of a call after its first critical section.
Stages == {"idle", "acquireDb", "noteDb", "write", "release", "releaseDb",
           "noteMem", "unlockDb", "suspendHash", "suspendMem", "suspendDb",
           "switch", "resumeTake", "resumeHash", "resumeMem", "resumeDb"}

\* `new`: the file did not exist when the write was checked; `child`: the agent
\* to be pushed, or NoName while the stack is being popped.
Ops == [at : Stages, agent : Names \cup {NoName}, todo : SUBSET Paths,
        snap : Snapshots, new : BOOLEAN, child : Names \cup {NoName}]

Idle == [at |-> "idle", agent |-> NoName, todo |-> {}, snap |-> NoSnapshot,
         new |-> FALSE, child |-> NoName]

Init ==
    /\ held = [p \in Paths |-> NoOne]
    /\ reads = {}
    /\ suspended = [g \in Agents |-> NoSnapshot]
    /\ dbHeld = [p \in Paths |-> NoOne]
    /\ dbReads = {}
    /\ file \in [Paths -> Contents \cup {NoFile}]
    /\ stack = [s \in Sessions |-> <<>>]
    /\ op = [s \in Sessions |-> Idle]
    /\ restarts = 0
    /\ dbFailed = FALSE

-----------------------------------------------------------------------------
\* The agent in the active slot of s, and the locks an agent holds.
Top(s) == Last(stack[s]).name
Active(s) == op[s].at = "idle" /\ stack[s] # <<>>
HeldBy(s, a) == {p \in Paths : held[p] = Agent(s, a)}
Me(s) == Agent(s, op[s].agent)

Goto(s, at) == op' = [op EXCEPT ![s].at = at]
Done(s) == op' = [op EXCEPT ![s] = Idle]
Start(s, a, at, todo) ==
    op' = [op EXCEPT ![s] = [Idle EXCEPT !.at = at, !.agent = a, !.todo = todo]]

-----------------------------------------------------------------------------
(***************************************************************************)
(* LockManager::acquire, called by readlock.                               *)
(***************************************************************************)

\* The critical section of an acquisition that is granted.
TakeLock(s, a, p) ==
    /\ held' = [held EXCEPT ![p] = Agent(s, a)]
    /\ reads' = reads \cup {Read(s, a, p)}

\* A free lock is granted; a lock held by another agent is an error and changes
\* nothing; a lock the caller holds already is StartRead.
StartReadlock(s, p) ==
    /\ Active(s)
    /\ held[p] = NoOne
    /\ TakeLock(s, Top(s), p)
    /\ Start(s, Top(s), "acquireDb", {p})
    /\ UNCHANGED <<suspended, mirror, file, stack, faults>>

\* Db::lock_acquire: the row of a path is overwritten.
DbAcquire(s, a, p) == dbHeld' = [dbHeld EXCEPT ![p] = Agent(s, a)]

AcquireDb(s, p) ==
    /\ op[s].at = "acquireDb" /\ p \in op[s].todo
    /\ DbAcquire(s, op[s].agent, p)
    /\ Goto(s, "noteDb")
    /\ UNCHANGED <<memory, dbReads, file, stack, faults>>

-----------------------------------------------------------------------------
(***************************************************************************)
(* LockManager::note_read, called by read, by readlock after a successful  *)
(* read and by the write tools.  The second note of a fresh readlock       *)
(* changes nothing that acquire has not done.                              *)
(***************************************************************************)
StartRead(s, p) ==
    /\ Active(s)
    /\ file[p] # NoFile
    /\ reads' = reads \cup {Read(s, Top(s), p)}
    /\ Start(s, Top(s), "noteDb", {p})
    /\ UNCHANGED <<held, suspended, mirror, file, stack, faults>>

NoteDb(s, p) ==
    /\ op[s].at = "noteDb" /\ p \in op[s].todo
    /\ dbReads' = dbReads \cup {Read(s, op[s].agent, p)}
    /\ Done(s)
    /\ UNCHANGED <<memory, dbHeld, file, stack, faults>>

-----------------------------------------------------------------------------
(***************************************************************************)
(* LockManager::release, called by unlock and after a write.               *)
(***************************************************************************)

\* Faulty variant: whoever asks may release.
MayRelease_Anyone(a, p) == held[p] # NoOne

\* The lock is compared with the agent's name only, not with its session.
MayRelease(a, p) == held[p] # NoOne /\ held[p].agent = a

StartUnlock(s, p) ==
    /\ Active(s)
    /\ MayRelease(Top(s), p)
    /\ held' = [held EXCEPT ![p] = NoOne]
    /\ Start(s, Top(s), "unlockDb", {p})
    /\ UNCHANGED <<reads, suspended, mirror, file, stack, faults>>

\* Faulty variant: the row is deleted whoever it names.
DbRelease_AnyAgent(a, p) == dbHeld' = [dbHeld EXCEPT ![p] = NoOne]

\* Db::lock_release: DELETE ... WHERE path = p AND agent_id = a.
DbRelease(a, p) ==
    dbHeld' = [dbHeld EXCEPT ![p] = IF @ # NoOne /\ @.agent = a THEN NoOne ELSE @]

UnlockDb(s, p) ==
    /\ op[s].at = "unlockDb" /\ p \in op[s].todo
    /\ DbRelease(op[s].agent, p)
    /\ Done(s)
    /\ UNCHANGED <<memory, dbReads, file, stack, faults>>

-----------------------------------------------------------------------------
(***************************************************************************)
(* writeunlock and editunlock.                                             *)
(***************************************************************************)

\* check_write_permitted: the holder may write; without a holder, whoever has
\* read the file in this session may.
WritePermitted(s, a, p) ==
    \/ held[p] = Agent(s, a)
    \/ held[p] = NoOne /\ Read(s, a, p) \in reads

\* A file that does not exist is written without the check (writeunlock).
StartWrite(s, p) ==
    /\ Active(s)
    /\ file[p] = NoFile \/ WritePermitted(s, Top(s), p)
    /\ op' = [op EXCEPT ![s] = [Idle EXCEPT !.at = "write", !.agent = Top(s),
                                            !.todo = {p}, !.new = file[p] = NoFile]]
    /\ UNCHANGED <<memory, mirror, file, stack, faults>>

\* write_and_release: the file, ...
WriteFile(s, p) ==
    /\ op[s].at = "write" /\ p \in op[s].todo
    /\ \E c \in Contents : file' = [file EXCEPT ![p] = c]
    /\ Goto(s, "release")
    /\ UNCHANGED <<memory, mirror, stack, faults>>

\* ... then the lock: released, ...
ReleaseWritten(s, p) ==
    /\ op[s].at = "release" /\ p \in op[s].todo
    /\ MayRelease(op[s].agent, p)
    /\ held' = [held EXCEPT ![p] = NoOne]
    /\ Goto(s, "releaseDb")
    /\ UNCHANGED <<reads, suspended, mirror, file, stack, faults>>

\* ... or not held by anybody, ...
NothingToRelease(s, p) ==
    /\ op[s].at = "release" /\ p \in op[s].todo
    /\ held[p] = NoOne
    /\ Goto(s, "noteMem")
    /\ UNCHANGED <<memory, mirror, file, stack, faults>>

\* ... or held by someone else by now: the call fails after the file is written.
ReleaseRefused(s, p) ==
    /\ op[s].at = "release" /\ p \in op[s].todo
    /\ held[p] # NoOne /\ ~ MayRelease(op[s].agent, p)
    /\ Done(s)
    /\ UNCHANGED <<memory, mirror, file, stack, faults>>

ReleaseDb(s, p) ==
    /\ op[s].at = "releaseDb" /\ p \in op[s].todo
    /\ DbRelease(op[s].agent, p)
    /\ Goto(s, "noteMem")
    /\ UNCHANGED <<memory, dbReads, file, stack, faults>>

\* ... and the file counts as read.
NoteWritten(s, p) ==
    /\ op[s].at = "noteMem" /\ p \in op[s].todo
    /\ reads' = reads \cup {Read(s, op[s].agent, p)}
    /\ Goto(s, "noteDb")
    /\ UNCHANGED <<held, suspended, mirror, file, stack, faults>>

-----------------------------------------------------------------------------
(***************************************************************************)
(* suspend_agent, when the driver pushes a child (`child` is its name) or  *)
(* after it popped one.  Nothing held: the call returns at once.           *)
(***************************************************************************)
StartSuspend(s, a, child) ==
    op' = [op EXCEPT ![s] = [Idle EXCEPT
            !.at = IF HeldBy(s, a) = {} THEN "switch" ELSE "suspendHash",
            !.agent = a, !.todo = HeldBy(s, a), !.child = child]]

\* The active agent delegates to an interactive child (TurnOutcome::
\* SpawnSubagent).  The root holds no locks and only pushes.
Delegate(s, b) ==
    /\ op[s].at = "idle"
    /\ Len(stack[s]) < MaxDepth
    /\ \A i \in DOMAIN stack[s] : stack[s][i].name # b
    /\ IF stack[s] = <<>>
       THEN /\ stack' = [stack EXCEPT ![s] = <<[name |-> b, had |-> {}]>>]
            /\ UNCHANGED op
       ELSE /\ StartSuspend(s, Top(s), b)
            /\ stack' = [stack EXCEPT ![s][Len(stack[s])].had = HeldBy(s, Top(s))]
    /\ UNCHANGED <<memory, mirror, file, faults>>

\* Faulty variant: the frame is popped and its locks are forgotten.
Finish_KeepsLocks(s) ==
    /\ Active(s)
    /\ op' = [op EXCEPT ![s] = [Idle EXCEPT !.at = "switch", !.agent = Top(s)]]
    /\ stack' = [stack EXCEPT ![s] = Front(@)]
    /\ UNCHANGED <<memory, mirror, file, faults>>

\* The active agent is done (TurnOutcome::Done) and popped.
Finish(s) ==
    /\ Active(s)
    /\ StartSuspend(s, Top(s), NoName)
    /\ stack' = [stack EXCEPT ![s] = Front(@)]
    /\ UNCHANGED <<memory, mirror, file, faults>>

\* The released files are hashed while the locks are still held.
SuspendHash(s) ==
    /\ op[s].at = "suspendHash"
    /\ op' = [op EXCEPT ![s].at = "suspendMem",
                        ![s].snap = [p \in Paths |-> IF p \in op[s].todo THEN file[p] ELSE NoFile]]
    /\ UNCHANGED <<memory, mirror, file, stack, faults>>

SuspendMem(s) ==
    /\ op[s].at = "suspendMem"
    /\ held' = [p \in Paths |-> IF p \in op[s].todo THEN NoOne ELSE held[p]]
    /\ suspended' = [suspended EXCEPT ![Me(s)] = op[s].snap]
    /\ Goto(s, "suspendDb")
    /\ UNCHANGED <<reads, mirror, file, stack, faults>>

\* One row after the other is deleted; then the driver goes on.
SuspendDb(s, p) ==
    /\ op[s].at = "suspendDb" /\ p \in op[s].todo
    /\ DbRelease(op[s].agent, p)
    /\ op' = [op EXCEPT ![s].todo = @ \ {p},
                        ![s].at = IF op[s].todo = {p} THEN "switch" ELSE @]
    /\ UNCHANGED <<memory, dbReads, file, stack, faults>>

\* The driver pushes the child, or resumes the frame that is on top again.
Push(s) ==
    /\ op[s].at = "switch" /\ op[s].child # NoName
    /\ stack' = [stack EXCEPT ![s] = Append(@, [name |-> op[s].child, had |-> {}])]
    /\ Done(s)
    /\ UNCHANGED <<memory, mirror, file, faults>>

Pop(s) ==
    /\ op[s].at = "switch" /\ op[s].child = NoName
    /\ IF stack[s] = <<>> THEN Done(s) ELSE Start(s, Top(s), "resumeTake", {})
    /\ UNCHANGED <<memory, mirror, file, stack, faults>>

-----------------------------------------------------------------------------
(***************************************************************************)
(* resume_agent.                                                           *)
(***************************************************************************)
ResumeTake(s) ==
    /\ op[s].at = "resumeTake"
    /\ suspended' = [suspended EXCEPT ![Me(s)] = NoSnapshot]
    /\ op' = [op EXCEPT ![s].at = "resumeHash", ![s].snap = suspended[Me(s)]]
    /\ UNCHANGED <<held, reads, mirror, file, stack, faults>>

\* Each file of the snapshot is hashed again: one that changed must be read
\* again before a write, one that did not is a candidate for regranting.
ResumeHash(s) ==
    /\ op[s].at = "resumeHash"
    /\ LET snap    == op[s].snap
           inSnap  == {p \in Paths : snap[p] # NoFile}
           drifted == {p \in inSnap : file[p] # snap[p]}
       IN
        /\ reads' = reads \ {Read(s, op[s].agent, p) : p \in drifted}
        /\ op' = [op EXCEPT ![s].at = "resumeMem", ![s].todo = inSnap \ drifted]
    /\ UNCHANGED <<held, suspended, mirror, file, stack, faults>>

\* The candidates nobody took meanwhile are granted again.
ResumeMem(s) ==
    /\ op[s].at = "resumeMem"
    /\ LET free == {p \in op[s].todo : held[p] = NoOne} IN
        /\ held' = [p \in Paths |-> IF p \in free THEN Me(s) ELSE held[p]]
        /\ IF free = {} THEN Done(s)
           ELSE op' = [op EXCEPT ![s].at = "resumeDb", ![s].todo = free]
    /\ UNCHANGED <<reads, suspended, mirror, file, stack, faults>>

ResumeDb(s, p) ==
    /\ op[s].at = "resumeDb" /\ p \in op[s].todo
    /\ DbAcquire(s, op[s].agent, p)
    /\ IF op[s].todo = {p} THEN Done(s) ELSE op' = [op EXCEPT ![s].todo = @ \ {p}]
    /\ UNCHANGED <<memory, dbReads, file, stack, faults>>

-----------------------------------------------------------------------------
(***************************************************************************)
(* Failures.                                                               *)
(***************************************************************************)

\* A statement fails: the call returns the error and does nothing more.  The
\* driver only logs an error of suspend_agent or resume_agent and goes on.  A
\* behaviour has one failing statement or crashes, not both.
DbError(s) ==
    /\ DbMayFail /\ ~ dbFailed /\ restarts = 0
    /\ dbFailed' = TRUE
    /\ \/ op[s].at \in {"acquireDb", "noteDb", "unlockDb", "releaseDb", "resumeDb"} /\ Done(s)
       \/ op[s].at = "suspendDb" /\ Goto(s, "switch")
    /\ UNCHANGED <<memory, mirror, file, stack, restarts>>

\* The daemon dies and is started again; from_db rebuilds the manager: every
\* lock row, and the read records of the sessions that hold a lock.  Sessions
\* restart with their root agent.
Restart ==
    /\ restarts < MaxRestarts /\ ~ dbFailed
    /\ held' = dbHeld
    /\ reads' = {r \in dbReads : \E p \in Paths : dbHeld[p] # NoOne /\ dbHeld[p].session = r.session}
    /\ suspended' = [g \in Agents |-> NoSnapshot]
    /\ stack' = [s \in Sessions |-> <<>>]
    /\ op' = [s \in Sessions |-> Idle]
    /\ restarts' = restarts + 1
    /\ UNCHANGED <<mirror, file, dbFailed>>

-----------------------------------------------------------------------------
Call(s, p) ==
    \/ StartReadlock(s, p) \/ AcquireDb(s, p)
    \/ StartRead(s, p) \/ NoteDb(s, p)
    \/ StartUnlock(s, p) \/ UnlockDb(s, p)
    \/ StartWrite(s, p) \/ WriteFile(s, p) \/ ReleaseWritten(s, p)
    \/ NothingToRelease(s, p) \/ ReleaseRefused(s, p) \/ ReleaseDb(s, p) \/ NoteWritten(s, p)
    \/ SuspendDb(s, p) \/ ResumeDb(s, p)

Switch(s) ==
    \/ Finish(s) \/ SuspendHash(s) \/ SuspendMem(s) \/ Push(s) \/ Pop(s)
    \/ ResumeTake(s) \/ ResumeHash(s) \/ ResumeMem(s)

Next ==
    \/ \E s \in Sessions :
        \/ \E p \in Paths : Call(s, p)
        \/ \E b \in NamesOf[s] : Delegate(s, b)
        \/ Switch(s)
        \/ DbError(s)
    \/ Restart

Spec == Init /\ [][Next]_vars

-----------------------------------------------------------------------------
(***************************************************************************)
(* Properties.                                                             *)
(***************************************************************************)

\* The shape of the state; a session runs, and its locks name, its own agents.
TypeOK ==
    /\ held \in [Paths -> Agents \cup {NoOne}]
    /\ reads \subseteq Reads
    /\ suspended \in [Agents -> Snapshots]
    /\ dbHeld \in [Paths -> Agents \cup {NoOne}]
    /\ dbReads \subseteq Reads
    /\ file \in [Paths -> Contents \cup {NoFile}]
    /\ stack \in [Sessions -> Seq(Frames)]
    /\ op \in [Sessions -> Ops]
    /\ restarts \in Nat
    /\ dbFailed \in BOOLEAN

\* A session takes a step exactly when its op (or, for the root, its stack)
\* changes; a restart is a step of nobody.
Acts(s) == op'[s] # op[s]

\* A lock is given up only by the session that holds it: neither a release nor
\* a suspension of another session takes it away.  Holds when no two sessions
\* run agents of the same name.
ReleasedByOwner ==
    [][\A p \in Paths :
         held[p] # NoOne /\ held'[p] # held[p] /\ restarts' = restarts =>
            Acts(held[p].session)]_vars

\* "a daemon crash leaves a coherent on-disk view": memory and mirror disagree
\* on a path only while some session is between its two halves of a call on it,
\* so that a restart loses at most calls that have not returned.
MirrorAgrees ==
    ~ dbFailed => \A p \in Paths : held[p] # dbHeld[p] =>
        \E s \in Sessions :
            /\ p \in op[s].todo
            /\ op[s].at \in {"acquireDb", "unlockDb", "releaseDb", "suspendDb", "resumeDb"}

\* Until the daemon dies, locks are held only by the agent in the active slot of
\* its session (or the one that is just losing it): no lock outlives its frame,
\* whatever fails on the way ("When an agent's task is cancelled, completes, or
\* its supervisor declares it dead, all its held locks are released", plan.md).
LocksDieWithAgents ==
    \A p \in Paths : held[p] # NoOne =>
        LET s == held[p].session IN
        \/ stack[s] # <<>> /\ held[p].agent = Top(s)
        \/ op[s].at \in {"suspendHash", "suspendMem"} /\ held[p].agent = op[s].agent

OnlyActiveHolds == restarts = 0 => LocksDieWithAgents

\* Until the daemon dies, whoever holds a lock counts as a reader of the file,
\* also after its locks were suspended and regranted.
HolderHasRead ==
    restarts = 0 => \A p \in Paths : held[p] # NoOne =>
        Read(held[p].session, held[p].agent, p) \in reads

\* "Persisted so the guard survives a daemon restart": the restart loads the
\* read records of every session.
ReadsSurviveRestart == [][restarts' # restarts => dbReads \subseteq reads']_vars

\* "no silent re-grant on stale content": a restart gives no agent a read record
\* that was taken away from it because the file drifted.
RestartGrantsNoRead == [][restarts' # restarts => reads' \subseteq reads]_vars

\* "for every file the agent had locked at suspend time": a resumed frame gets
\* back at most the locks it had when it lost the active slot.
ResumesOwnLocks ==
    [][\A s \in Sessions : op[s].at = "resumeMem" /\ Acts(s) /\ restarts' = restarts =>
         {p \in Paths : held'[p] # held[p]} \subseteq Last(stack[s]).had]_vars

\* "reacquire the lock iff the on-disk hash still matches the snapshot".
RegrantsUnchangedFiles ==
    [][\A s \in Sessions : op[s].at = "resumeMem" /\ Acts(s) /\ restarts' = restarts =>
         \A p \in Paths : held'[p] # held[p] => file[p] = op[s].snap[p]]_vars

\* "the lock proves no one else is editing it" (readlock): a locked file is
\* written only by the session that holds the lock.
LockedFilesStable ==
    [][\A p \in Paths :
         held[p] # NoOne /\ held'[p] = held[p] /\ file'[p] # file[p] =>
            Acts(held[p].session)]_vars
=============================================================================
