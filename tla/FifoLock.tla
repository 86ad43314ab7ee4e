------------------------------ MODULE FifoLock ------------------------------
(***************************************************************************)
(* What the keyed resource lock promises to the tests of a plan: a key has *)
(* at most one holder, tasks that have to wait are served in the order in  *)
(* which they arrived, nobody overtakes the queue, and a task that gives   *)
(* up leaves the queue without disturbing the others.                      *)
(***************************************************************************)
EXTENDS Naturals, Sequences, SequencesExt

CONSTANTS Keys,   \* the opaque resource strings ("port:8080", "gpu0", ...)
          Tasks,  \* the tasks that run exclusive tests
          NoTask  \* "nobody holds the key"

VARIABLES holder, \* holder[k]: the task that holds k, or NoTask
          queue   \* queue[k]: the tasks waiting for k, in arrival order

fifoVars == <<holder, queue>>

Init ==
    /\ holder = [k \in Keys |-> NoTask]
    /\ queue  = [k \in Keys |-> <<>>]

\* A task is busy with a key while it holds it or waits for it.
Busy(t) ==
    \E k \in Keys : holder[k] = t \/ \E i \in DOMAIN queue[k] : queue[k][i] = t

\* A free key nobody waits for is taken at once.
Take(t, k) ==
    /\ ~ Busy(t)
    /\ holder[k] = NoTask /\ queue[k] = <<>>
    /\ holder' = [holder EXCEPT ![k] = t]
    /\ UNCHANGED queue

\* Any other request goes to the end of the queue.
Request(t, k) ==
    /\ ~ Busy(t)
    /\ queue' = [queue EXCEPT ![k] = Append(@, t)]
    /\ UNCHANGED holder

\* A free key goes to the head of its queue and to nobody else.
Grant(k) ==
    /\ holder[k] = NoTask /\ queue[k] # <<>>
    /\ holder' = [holder EXCEPT ![k] = Head(queue[k])]
    /\ queue'  = [queue EXCEPT ![k] = Tail(@)]

\* Only the holder frees a key.
Free(t, k) ==
    /\ holder[k] = t
    /\ holder' = [holder EXCEPT ![k] = NoTask]
    /\ UNCHANGED queue

\* A waiting task gives up; the others keep their order.
GiveUp(k, i) ==
    /\ i \in DOMAIN queue[k]
    /\ queue' = [queue EXCEPT ![k] = RemoveAt(@, i)]
    /\ UNCHANGED holder

Next ==
    \E k \in Keys :
        \/ Grant(k)
        \/ \E t \in Tasks : Take(t, k) \/ Request(t, k) \/ Free(t, k)
        \/ \E i \in DOMAIN queue[k] : GiveUp(k, i)

Spec == Init /\ [][Next]_fifoVars
=============================================================================
