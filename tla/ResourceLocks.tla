---------------------------- MODULE ResourceLocks ----------------------------
(***************************************************************************)
(* The keyed resource lock of the plan executor (engine/exec/reslock.rs).  *)
(* A test declared `exclusive: <key>` holds the lock on its key while it   *)
(* runs.  The lock is a map behind a std Mutex; every action below is one  *)
(* critical section of that mutex (or the wake-up of a parked future), so  *)
(* tasks on different worker threads interleave exactly at those points.   *)
(*                                                                         *)
(* acquire() takes the mutex twice before it first parks: once in the fast *)
(* path, once to enqueue.  Between the two the entry of the key may have   *)
(* been dropped; `expect("key inserted above")` then panics with the mutex *)
(* held, which poisons it: every later lock().unwrap() panics as well.     *)
(***************************************************************************)
EXTENDS Naturals, Sequences, SequencesExt

CONSTANTS Keys,   \* the resource strings in use
          Tasks,  \* the tasks (test futures) that acquire them
          NoKey,  \* a task that is not acquiring or holding anything
          NoTask  \* nobody: the holder of a free key, in the abstract view

ASSUME KeysAssumption == NoKey \notin Keys
ASSUME TasksAssumption == NoTask \notin Tasks

VARIABLES
    present,   \* State.keys: the keys that have an entry in the map
    held,      \* the keys whose KeyState.held is true
    waiters,   \* KeyState.waiters: FIFO of Notify handles, one per waiting task
    permit,    \* permit[t]: t's Notify holds a stored wake-up
    pc,        \* where the future of t is
    want,      \* the key t is acquiring or holds
    poisoned   \* a panic happened while the mutex was held

vars == <<present, held, waiters, permit, pc, want, poisoned>>

PC == {"idle", "enqueue", "check", "parked", "holding", "dead"}

Init ==
    /\ present  = {}
    /\ held     = {}
    /\ waiters  = [k \in Keys |-> <<>>]
    /\ permit   = [t \in Tasks |-> 0]
    /\ pc       = [t \in Tasks |-> "idle"]
    /\ want     = [t \in Tasks |-> NoKey]
    /\ poisoned = FALSE

-----------------------------------------------------------------------------
\* notify_one on the Notify at the head of k's queue q, if there is one; a
\* second wake-up before the first is consumed is absorbed.
NotifyHead(q) == IF q = <<>> THEN permit ELSE [permit EXCEPT ![Head(q)] = 1]

\* Faulty variants: the fast path forgets one of its two conditions.
CanTakeFast_IgnoresHolder(k) == waiters[k] = <<>>
CanTakeFast_Barges(k) == k \notin held

\* A key is taken at once only when it is free and nobody waits for it.
CanTakeFast(k) == k \notin held /\ waiters[k] = <<>>

\* acquire(), first critical section: insert the entry, try the fast path.
FastPath(t, k) ==
    /\ ~ poisoned
    /\ pc[t] = "idle"
    /\ present' = present \cup {k}
    /\ want' = [want EXCEPT ![t] = k]
    /\ IF CanTakeFast(k)
       THEN held' = held \cup {k} /\ pc' = [pc EXCEPT ![t] = "holding"]
       ELSE UNCHANGED held        /\ pc' = [pc EXCEPT ![t] = "enqueue"]
    /\ UNCHANGED <<waiters, permit, poisoned>>

\* acquire(), second critical section: a fresh Notify goes to the queue's end.
Enqueue(t) ==
    /\ ~ poisoned
    /\ pc[t] = "enqueue"
    /\ want[t] \in present
    /\ waiters' = [waiters EXCEPT ![want[t]] = Append(@, t)]
    /\ permit'  = [permit EXCEPT ![t] = 0]
    /\ pc'      = [pc EXCEPT ![t] = "check"]
    /\ UNCHANGED <<present, held, want, poisoned>>

\* The entry vanished since the fast path: expect() panics under the mutex.
EnqueuePanics(t) ==
    /\ ~ poisoned
    /\ pc[t] = "enqueue"
    /\ want[t] \notin present
    /\ poisoned' = TRUE
    /\ pc' = [pc EXCEPT ![t] = "dead"]
    /\ UNCHANGED <<present, held, waiters, permit, want>>

AtHead(t) == waiters[want[t]] # <<>> /\ Head(waiters[want[t]]) = t

\* acquire(), the loop's critical section, won: leave the queue, hold the key.
Claim(t) ==
    /\ ~ poisoned
    /\ pc[t] = "check"
    /\ AtHead(t) /\ want[t] \notin held
    /\ waiters' = [waiters EXCEPT ![want[t]] = Tail(@)]
    /\ held'    = held \cup {want[t]}
    /\ pc'      = [pc EXCEPT ![t] = "holding"]
    /\ UNCHANGED <<present, permit, want, poisoned>>

\* ... or not our turn: park on notified().await.
Park(t) ==
    /\ ~ poisoned
    /\ pc[t] = "check"
    /\ ~ (AtHead(t) /\ want[t] \notin held)
    /\ pc' = [pc EXCEPT ![t] = "parked"]
    /\ UNCHANGED <<present, held, waiters, permit, want, poisoned>>

\* notified() consumes the stored permit and the loop goes round.
Wake(t) ==
    /\ pc[t] = "parked"
    /\ permit[t] = 1
    /\ permit' = [permit EXCEPT ![t] = 0]
    /\ pc'     = [pc EXCEPT ![t] = "check"]
    /\ UNCHANGED <<present, held, waiters, want, poisoned>>

\* The guard is dropped: the key is free again; who is woken and which entries
\* stay is said by the caller.
ReleaseWith(t, nextPermit, nextPresent) ==
    /\ ~ poisoned
    /\ pc[t] = "holding"
    /\ held'    = held \ {want[t]}
    /\ permit'  = nextPermit
    /\ present' = nextPresent
    /\ pc'      = [pc EXCEPT ![t] = "idle"]
    /\ want'    = [want EXCEPT ![t] = NoKey]
    /\ UNCHANGED <<waiters, poisoned>>

\* Faulty variants: no wake-up, an entry that is never dropped.
Release_NoWake(t) == ReleaseWith(t, permit,
    IF waiters[want[t]] = <<>> THEN present \ {want[t]} ELSE present)
Release_KeepsEntry(t) == ReleaseWith(t, NotifyHead(waiters[want[t]]), present)

\* The guard is dropped (the test ended, or its future was cancelled):
\* free the key and wake the head, or drop an entry nobody waits on.
Release(t) == ReleaseWith(t, NotifyHead(waiters[want[t]]),
    IF waiters[want[t]] = <<>> THEN present \ {want[t]} ELSE present)

\* Faulty variant: a cancelled head keeps the wake-up to itself.
CancelAt_KeepsWakeup(t, i) ==
    /\ ~ poisoned
    /\ pc[t] = "parked"
    /\ waiters[want[t]][i] = t
    /\ waiters' = [waiters EXCEPT ![want[t]] = RemoveAt(@, i)]
    /\ present' = IF want[t] \notin held /\ Len(waiters[want[t]]) = 1
                  THEN present \ {want[t]} ELSE present
    /\ pc'   = [pc EXCEPT ![t] = "idle"]
    /\ want' = [want EXCEPT ![t] = NoKey]
    /\ UNCHANGED <<held, permit, poisoned>>

\* The future is dropped while it waits: WaiterCleanup::drop takes its Notify
\* out of the queue, passes a possible wake-up on, and tidies the map.
CancelAt(t, i) ==
    /\ ~ poisoned
    /\ pc[t] = "parked"
    /\ waiters[want[t]][i] = t
    /\ LET k    == want[t]
           rest == RemoveAt(waiters[k], i)
       IN
        /\ waiters' = [waiters EXCEPT ![k] = rest]
        /\ permit'  = IF k \in held THEN permit ELSE NotifyHead(rest)
        /\ present' = IF k \notin held /\ rest = <<>> THEN present \ {k} ELSE present
    /\ pc'   = [pc EXCEPT ![t] = "idle"]
    /\ want' = [want EXCEPT ![t] = NoKey]
    /\ UNCHANGED <<held, poisoned>>

Cancel(t) == \E i \in DOMAIN waiters[want[t]] : CancelAt(t, i)

\* Once the mutex is poisoned, whoever takes it next panics and is gone; what
\* it held or queued stays as it was.  A parked task dies when it is dropped.
DiePoisoned(t) ==
    /\ poisoned
    /\ pc[t] # "dead"
    /\ pc' = [pc EXCEPT ![t] = "dead"]
    /\ UNCHANGED <<present, held, waiters, permit, want, poisoned>>

-----------------------------------------------------------------------------
TaskStep(t) ==
    \/ Enqueue(t) \/ EnqueuePanics(t)
    \/ Claim(t) \/ Park(t) \/ Wake(t)

Next ==
    \E t \in Tasks :
        \/ \E k \in Keys : FastPath(t, k)
        \/ TaskStep(t)
        \/ Release(t)
        \/ pc[t] = "parked" /\ Cancel(t)
        \/ DiePoisoned(t)

Spec == Init /\ [][Next]_vars

\* The runtime keeps polling a future that can make progress, and a test that
\* holds a key ends some day.  Nothing forces a task to acquire or to cancel.
Fairness == \A t \in Tasks : WF_vars(TaskStep(t)) /\ WF_vars(Release(t))

FairSpec == Spec /\ Fairness

-----------------------------------------------------------------------------
(***************************************************************************)
(* Properties.                                                             *)
(***************************************************************************)

Waiting(t) == pc[t] \in {"check", "parked"}
Holding(t, k) == pc[t] = "holding" /\ want[t] = k
InQueue(t, k) == \E i \in DOMAIN waiters[k] : waiters[k][i] = t

\* The shape of the state.
TypeOK ==
    /\ present \in SUBSET Keys
    /\ held \in SUBSET Keys
    /\ waiters \in [Keys -> Seq(Tasks)]
    /\ permit \in [Tasks -> 0..1]
    /\ pc \in [Tasks -> PC]
    /\ want \in [Tasks -> Keys \cup {NoKey}]
    /\ poisoned \in BOOLEAN

\* "No two tests holding the same key run simultaneously" (the module's header):
\* whatever fast paths, queue grants, cancellations and releases interleave.
MutualExclusion ==
    \A k \in Keys : \A t, u \in Tasks : Holding(t, k) /\ Holding(u, k) => t = u

\* The wake-up is never lost: a free key with a queue has a head that is about
\* to look at the queue or has a stored wake-up, even when the head that was
\* woken is cancelled before it runs (WaiterCleanup passes the wake-up on).
NoLostWakeup ==
    poisoned \/ \A k \in Keys :
        k \notin held /\ waiters[k] # <<>> =>
            LET h == Head(waiters[k]) IN pc[h] = "check" \/ permit[h] = 1

\* The map does not grow with the keys ever used, and no key is left held by
\* nobody: an entry exists exactly while someone holds the key or waits for it,
\* and a held key has a living holder.
EntriesInUse ==
    /\ \A k \in Keys : k \in present <=> k \in held \/ waiters[k] # <<>>
    /\ poisoned \/ \A k \in held : \E t \in Tasks : Holding(t, k)

\* "key present while waiting" (the second expect of acquire): a task in the
\* wait loop is in the queue of its key, once, and the entry is there.
WaiterIsQueued ==
    \A t \in Tasks : Waiting(t) =>
        /\ want[t] \in present
        /\ \E i \in DOMAIN waiters[want[t]] : \A j \in DOMAIN waiters[want[t]] :
              waiters[want[t]][j] = t <=> i = j

\* "key inserted above" (the first expect of acquire): between the two critical
\* sections of acquire() the entry of the key stays in the map, so no task
\* panics while it holds the mutex.
KeyInsertedAbove == ~ poisoned

\* Under fairness, a task that queued up gets the key, unless it is cancelled
\* (then it is no longer waiting) or the mutex is poisoned.
EveryWaiterServed ==
    \A t \in Tasks, k \in Keys :
        InQueue(t, k) ~> (Holding(t, k) \/ pc[t] = "idle" \/ poisoned)

\* The abstract FIFO lock: the holder of a key is the task that has its guard.
HolderOf == [k \in Keys |-> IF \E t \in Tasks : want[t] = k /\ pc[t] = "holding"
                           THEN CHOOSE t \in Tasks : want[t] = k /\ pc[t] = "holding"
                           ELSE NoTask]

Fifo == INSTANCE FifoLock WITH holder <- HolderOf, queue <- waiters

\* Keys are granted in arrival order and nobody barges past a queue, as long as
\* the mutex is not poisoned (after that nothing is granted at all).
FifoInit == Fifo!Init
ServesInOrder == [][~ poisoned' => [Fifo!Next]_Fifo!fifoVars]_vars
=============================================================================
