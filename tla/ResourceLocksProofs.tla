------------------------- MODULE ResourceLocksProofs -------------------------
(***************************************************************************)
(* Machine-checked proofs about the keyed resource lock, for any set of    *)
(* keys and any set of tasks.                                              *)
(*                                                                         *)
(* IInv is TypeOK, the four safety invariants, and the two facts they rest *)
(* on: whoever is in a queue is waiting for that key (or died waiting),    *)
(* and nobody is in a queue twice.                                         *)
(***************************************************************************)
EXTENDS ResourceLocks, Approvals, SequenceTheorems, TLAPS

\* A holding task's key is marked held.
HoldersMarked == \A t \in Tasks : pc[t] = "holding" => want[t] \in held

\* Outside "idle", a task has a key.
BusyHasKey == \A t \in Tasks : pc[t] \in PC \ {"idle", "dead"} => want[t] \in Keys

\* A queue holds only tasks that wait for its key, or died waiting.
QueuedWaits ==
    \A k \in Keys : \A i \in DOMAIN waiters[k] :
        /\ want[waiters[k][i]] = k
        /\ pc[waiters[k][i]] \in {"check", "parked", "dead"}

\* Nobody is in a queue twice.
NoDuplicates ==
    \A k \in Keys : \A i, j \in DOMAIN waiters[k] : waiters[k][i] = waiters[k][j] => i = j

-----------------------------------------------------------------------------
\* Removing position i shifts the elements behind it forward by one.
LEMMA RemoveAtFacts ==
    ASSUME NEW S, NEW q \in Seq(S), NEW i \in 1..Len(q)
    PROVE  /\ RemoveAt(q, i) \in Seq(S)
           /\ Len(RemoveAt(q, i)) = Len(q) - 1
           /\ \A j \in 1..(Len(q) - 1) :
                RemoveAt(q, i)[j] = IF j < i THEN q[j] ELSE q[j + 1]
<1> DEFINE a == SubSeq(q, 1, i - 1)
           b == SubSeq(q, i + 1, Len(q))
<1>0. Len(q) \in Nat
  BY LenProperties
<1>1. /\ a \in Seq(S) /\ Len(a) = i - 1
      /\ \A j \in 1..(i - 1) : a[j] = q[j]
  <2>1. \A j \in 1..(i - 1) : j \in 1..Len(q)
    BY <1>0
  <2> QED BY <1>0, <2>1, SubSeqProperties
<1>2. /\ b \in Seq(S) /\ Len(b) = Len(q) - i
      /\ \A j \in 1..(Len(q) - i) : b[j] = q[i + j]
  BY <1>0, SubSeqProperties
<1>3. RemoveAt(q, i) = a \o b
  BY DEF RemoveAt
<1>. HIDE DEF a, b
<1>4. /\ a \o b \in Seq(S) /\ Len(a \o b) = Len(a) + Len(b)
      /\ \A j \in 1..(Len(a) + Len(b)) :
            (a \o b)[j] = IF j <= Len(a) THEN a[j] ELSE b[j - Len(a)]
  BY <1>1, <1>2, ConcatProperties
<1>5. ASSUME NEW j \in 1..(Len(q) - 1)
      PROVE  (a \o b)[j] = IF j < i THEN q[j] ELSE q[j + 1]
  <2>0. (a \o b)[j] = IF j <= i - 1 THEN a[j] ELSE b[j - (i - 1)]
    BY <1>0, <1>1, <1>2, <1>4
  <2>1. CASE j < i
    BY <2>0, <2>1, <1>0, <1>1
  <2>2. CASE ~ (j < i)
    <3>1. j - (i - 1) \in 1..(Len(q) - i) /\ i + (j - (i - 1)) = j + 1
      BY <2>2, <1>0
    <3>2. b[j - (i - 1)] = q[i + (j - (i - 1))]
      BY <3>1, <1>2
    <3> QED BY <2>0, <3>1, <3>2, <2>2, <1>0
  <2> QED BY <2>1, <2>2
<1> QED BY <1>0, <1>1, <1>2, <1>3, <1>4, <1>5

-----------------------------------------------------------------------------
\* The type invariant is inductive together with BusyHasKey.
Typed == TypeOK /\ BusyHasKey

LEMMA InitTyped == Init => Typed
<1>1. <<>> \in Seq(Tasks)
  BY EmptySeq
<1>2. ASSUME Init PROVE waiters \in [Keys -> Seq(Tasks)]
  BY <1>1, <1>2 DEF Init
<1>3. ASSUME Init PROVE poisoned \in BOOLEAN
  BY <1>3 DEF Init
<1>4. ASSUME Init PROVE BusyHasKey
  BY <1>4 DEF Init, BusyHasKey
<1>5. ASSUME Init PROVE permit \in [Tasks -> 0..1]
  BY <1>5 DEF Init
<1>6. ASSUME Init PROVE pc \in [Tasks -> PC] /\ want \in [Tasks -> Keys \cup {NoKey}]
  BY <1>6 DEF Init, PC
<1>7. ASSUME Init PROVE present \in SUBSET Keys /\ held \in SUBSET Keys
  BY <1>7 DEF Init
<1> QED BY <1>2, <1>3, <1>4, <1>5, <1>6, <1>7 DEF Typed, TypeOK

\* A wake-up leaves the permits well typed.
LEMMA NotifyTyped ==
    ASSUME TypeOK, NEW q \in Seq(Tasks)
    PROVE  NotifyHead(q) \in [Tasks -> 0..1]
BY DEF TypeOK, NotifyHead

LEMMA StepTyped == Typed /\ [Next]_vars => Typed'
<1> SUFFICES ASSUME Typed, [Next]_vars PROVE Typed'
  OBVIOUS
<1> USE DEF Typed, TypeOK, BusyHasKey, PC
<1>1. ASSUME NEW t \in Tasks, NEW k \in Keys, FastPath(t, k) PROVE Typed'
  BY <1>1 DEF FastPath
<1>2. ASSUME NEW t \in Tasks, Enqueue(t) PROVE Typed'
  <2>1. want[t] \in Keys /\ waiters[want[t]] \in Seq(Tasks)
    BY <1>2 DEF Enqueue
  <2>2. Append(waiters[want[t]], t) \in Seq(Tasks)
    BY <2>1, AppendProperties
  <2> QED BY <1>2, <2>1, <2>2 DEF Enqueue
<1>3. ASSUME NEW t \in Tasks, EnqueuePanics(t) PROVE Typed'
  BY <1>3 DEF EnqueuePanics
<1>4. ASSUME NEW t \in Tasks, Claim(t) PROVE Typed'
  <2>1. /\ want[t] \in Keys /\ waiters[want[t]] \in Seq(Tasks)
        /\ waiters[want[t]] # <<>>
    BY <1>4 DEF Claim, AtHead
  <2>2. Tail(waiters[want[t]]) \in Seq(Tasks)
    BY <2>1, HeadTailProperties
  <2> QED BY <1>4, <2>1, <2>2 DEF Claim
<1>5. ASSUME NEW t \in Tasks, Park(t) PROVE Typed'
  BY <1>5 DEF Park
<1>6. ASSUME NEW t \in Tasks, Wake(t) PROVE Typed'
  BY <1>6 DEF Wake
<1>7. ASSUME NEW t \in Tasks, Release(t) PROVE Typed'
  <2>1. want[t] \in Keys /\ waiters[want[t]] \in Seq(Tasks)
    BY <1>7 DEF Release, ReleaseWith
  <2>2. NotifyHead(waiters[want[t]]) \in [Tasks -> 0..1]
    BY <2>1, NotifyTyped
  <2> QED BY <1>7, <2>1, <2>2 DEF Release, ReleaseWith
<1>8. ASSUME NEW t \in Tasks, NEW i \in DOMAIN waiters[want[t]], CancelAt(t, i) PROVE Typed'
  <2>1. want[t] \in Keys /\ waiters[want[t]] \in Seq(Tasks)
    BY <1>8 DEF CancelAt
  <2>2. RemoveAt(waiters[want[t]], i) \in Seq(Tasks)
    BY <2>1, RemoveAtFacts, LenProperties
  <2>3. NotifyHead(RemoveAt(waiters[want[t]], i)) \in [Tasks -> 0..1]
    BY <2>2, NotifyTyped
  <2> QED BY <1>8, <2>1, <2>2, <2>3 DEF CancelAt
<1>9. ASSUME NEW t \in Tasks, DiePoisoned(t) PROVE Typed'
  BY <1>9 DEF DiePoisoned
<1>10. CASE UNCHANGED vars
  BY <1>10 DEF vars
<1> QED
  BY <1>1, <1>2, <1>3, <1>4, <1>5, <1>6, <1>7, <1>8, <1>9, <1>10 DEF Next, TaskStep, Cancel

\* The shape of the state, in every reachable state.
THEOREM TypeCorrect == Spec => []TypeOK
<1>1. Spec => []Typed
  BY InitTyped, StepTyped, PTL DEF Spec
<1>2. Typed => TypeOK
  BY DEF Typed
<1> QED BY <1>1, <1>2, PTL

-----------------------------------------------------------------------------
(***************************************************************************)
(* Mutual exclusion.  It is not inductive alone: the fast path and Claim   *)
(* look at `held`, so every holder's key must be marked there.             *)
(***************************************************************************)
Exclusive == HoldersMarked /\ MutualExclusion

LEMMA StepExclusive == Typed /\ Exclusive /\ [Next]_vars => Exclusive'
<1> SUFFICES ASSUME Typed, Exclusive, [Next]_vars PROVE Exclusive'
  OBVIOUS
<1> USE DEF Typed, TypeOK, BusyHasKey, PC, Exclusive, HoldersMarked, MutualExclusion, Holding
<1>1. ASSUME NEW t \in Tasks, NEW k \in Keys, FastPath(t, k) PROVE Exclusive'
  BY <1>1 DEF FastPath, CanTakeFast
<1>2. ASSUME NEW t \in Tasks, Enqueue(t) PROVE Exclusive'
  BY <1>2 DEF Enqueue
<1>3. ASSUME NEW t \in Tasks, EnqueuePanics(t) PROVE Exclusive'
  BY <1>3 DEF EnqueuePanics
<1>4. ASSUME NEW t \in Tasks, Claim(t) PROVE Exclusive'
  BY <1>4 DEF Claim
<1>5. ASSUME NEW t \in Tasks, Park(t) PROVE Exclusive'
  BY <1>5 DEF Park
<1>6. ASSUME NEW t \in Tasks, Wake(t) PROVE Exclusive'
  BY <1>6 DEF Wake
<1>7. ASSUME NEW t \in Tasks, Release(t) PROVE Exclusive'
  BY <1>7 DEF Release, ReleaseWith
<1>8. ASSUME NEW t \in Tasks, NEW i \in DOMAIN waiters[want[t]], CancelAt(t, i) PROVE Exclusive'
  BY <1>8 DEF CancelAt
<1>9. ASSUME NEW t \in Tasks, DiePoisoned(t) PROVE Exclusive'
  BY <1>9 DEF DiePoisoned
<1>10. CASE UNCHANGED vars
  BY <1>10 DEF vars
<1> QED
  BY <1>1, <1>2, <1>3, <1>4, <1>5, <1>6, <1>7, <1>8, <1>9, <1>10 DEF Next, TaskStep, Cancel

\* No two tests that hold the same key run at the same time.
THEOREM MutuallyExclusive == Spec => []MutualExclusion
<1>1. Init => Exclusive
  BY DEF Init, Exclusive, HoldersMarked, MutualExclusion, Holding
<1>2. Spec => []Typed
  BY InitTyped, StepTyped, PTL DEF Spec
<1>3. Spec => []Exclusive
  BY <1>1, <1>2, StepExclusive, PTL DEF Spec
<1>4. Exclusive => MutualExclusion
  BY DEF Exclusive
<1> QED BY <1>3, <1>4, PTL

-----------------------------------------------------------------------------
(***************************************************************************)
(* The queues.  Each action changes the queue of at most one key: Enqueue  *)
(* appends, Claim drops the head, Cancel removes one position.             *)
(***************************************************************************)
Queues == QueuedWaits /\ NoDuplicates

LEMMA StepQueues == Typed /\ Queues /\ [Next]_vars => Queues'
<1> SUFFICES ASSUME Typed, Queues, [Next]_vars PROVE Queues'
  OBVIOUS
<1> USE DEF Typed, TypeOK, BusyHasKey, PC, Queues, QueuedWaits, NoDuplicates
<1>0. \A k \in Keys : /\ waiters[k] \in Seq(Tasks) /\ Len(waiters[k]) \in Nat
                     /\ DOMAIN waiters[k] = 1..Len(waiters[k])
                     /\ \A i \in DOMAIN waiters[k] : waiters[k][i] \in Tasks
  BY LenProperties, ElementOfSeq
<1>1. ASSUME NEW t \in Tasks, NEW k \in Keys, FastPath(t, k) PROVE Queues'
  <2>1. pc[t] = "idle" /\ waiters' = waiters
    BY <1>1 DEF FastPath
  <2>2. \A u \in Tasks \ {t} : pc'[u] = pc[u] /\ want'[u] = want[u]
    BY <1>1 DEF FastPath
  <2>3. \A j \in Keys : \A i \in DOMAIN waiters[j] : waiters[j][i] \in Tasks \ {t}
    BY <1>0, <2>1
  <2>4. QueuedWaits'
    BY <2>1, <2>2, <2>3
  <2> QED BY <2>1, <2>4
<1>2. ASSUME NEW t \in Tasks, Enqueue(t) PROVE Queues'
  <2> DEFINE w == want[t]
  <2>1. w \in Keys /\ pc[t] = "enqueue"
    BY <1>2 DEF Enqueue
  <2>2. /\ waiters' = [waiters EXCEPT ![w] = Append(waiters[w], t)]
        /\ pc' = [pc EXCEPT ![t] = "check"] /\ want' = want
    BY <1>2 DEF Enqueue
  <2>3. /\ Append(waiters[w], t) \in Seq(Tasks)
        /\ Len(Append(waiters[w], t)) = Len(waiters[w]) + 1
        /\ \A i \in 1..Len(waiters[w]) : Append(waiters[w], t)[i] = waiters[w][i]
        /\ Append(waiters[w], t)[Len(waiters[w]) + 1] = t
    BY <1>0, <2>1, AppendProperties
  <2>4. \A k \in Keys : \A i \in DOMAIN waiters[k] : waiters[k][i] # t
    BY <2>1
  <2>5. DOMAIN Append(waiters[w], t) = 1..(Len(waiters[w]) + 1)
    BY <2>3, LenProperties
  <2>6. \A k \in Keys : waiters'[k] = IF k = w THEN Append(waiters[w], t) ELSE waiters[k]
    BY <2>1, <2>2
  <2>7. QueuedWaits'
    <3> SUFFICES ASSUME NEW k \in Keys, NEW i \in DOMAIN waiters'[k]
                 PROVE  /\ want'[waiters'[k][i]] = k
                        /\ pc'[waiters'[k][i]] \in {"check", "parked", "dead"}
      OBVIOUS
    <3>1. CASE k # w
      BY <3>1, <1>0, <2>2, <2>4, <2>6
    <3>2. CASE k = w /\ i \in 1..Len(waiters[w])
      <4>1. waiters'[k][i] = waiters[k][i] /\ i \in DOMAIN waiters[k]
        BY <3>2, <1>0, <2>3, <2>6
      <4>2. waiters[k][i] \in Tasks /\ waiters[k][i] # t
        BY <4>1, <1>0, <2>4
      <4>3. /\ want[waiters[k][i]] = k
            /\ pc[waiters[k][i]] \in {"check", "parked", "dead"}
        BY <4>1
      <4> QED BY <4>1, <4>2, <4>3, <2>2
    <3>3. CASE k = w /\ i = Len(waiters[w]) + 1
      <4>1. waiters'[k][i] = t
        BY <3>3, <2>3, <2>6
      <4> QED BY <4>1, <3>3, <2>2
    <3>4. k = w => i \in 1..(Len(waiters[w]) + 1) /\ Len(waiters[w]) \in Nat
      BY <1>0, <2>1, <2>5, <2>6
    <3>5. k = w => i \in 1..Len(waiters[w]) \/ i = Len(waiters[w]) + 1
      BY <3>4
    <3> QED BY <3>1, <3>2, <3>3, <3>5
  <2>8. NoDuplicates'
    <3> SUFFICES ASSUME NEW k \in Keys, NEW i \in DOMAIN waiters'[k], NEW j \in DOMAIN waiters'[k],
                        waiters'[k][i] = waiters'[k][j]
                 PROVE  i = j
      OBVIOUS
    <3>1. CASE k # w
      BY <3>1, <2>6
    <3>2. CASE k = w
      <4>1. i \in 1..(Len(waiters[w]) + 1) /\ j \in 1..(Len(waiters[w]) + 1)
        BY <3>2, <2>5, <2>6
      <4>2. \A l \in 1..Len(waiters[w]) : waiters'[k][l] = waiters[w][l] /\ waiters[w][l] # t
        <5>1. waiters'[k] = Append(waiters[w], t) /\ DOMAIN waiters[w] = 1..Len(waiters[w])
          BY <3>2, <2>1, <2>6, <1>0
        <5> QED BY <5>1, <2>1, <2>3, <2>4
      <4>3. waiters'[k][Len(waiters[w]) + 1] = t
        BY <3>2, <2>3, <2>6
      <4>4. CASE i \in 1..Len(waiters[w]) /\ j \in 1..Len(waiters[w])
        BY <4>4, <4>2, <3>2, <1>0
      <4>5. Len(waiters[w]) \in Nat
        BY <1>0, <2>1
      <4>6. \A l \in 1..(Len(waiters[w]) + 1) :
               l \in 1..Len(waiters[w]) \/ l = Len(waiters[w]) + 1
        BY <4>5
      <4>7. \A l \in 1..Len(waiters[w]) : waiters'[k][l] # t
        BY <4>2
      <4> HIDE DEF w
      <4> QED BY <4>1, <4>3, <4>4, <4>6, <4>7
    <3> QED BY <3>1, <3>2
  <2> QED BY <2>7, <2>8
<1>3. ASSUME NEW t \in Tasks, EnqueuePanics(t) PROVE Queues'
  BY <1>0, <1>3 DEF EnqueuePanics
<1>4. ASSUME NEW t \in Tasks, Claim(t) PROVE Queues'
  <2> DEFINE w == want[t]
  <2>1. /\ w \in Keys /\ waiters[w] # <<>> /\ waiters[w][1] = t
        /\ waiters' = [waiters EXCEPT ![w] = Tail(waiters[w])]
        /\ pc' = [pc EXCEPT ![t] = "holding"] /\ want' = want
    BY <1>4 DEF Claim, AtHead
  <2>2. /\ Tail(waiters[w]) \in Seq(Tasks) /\ Len(Tail(waiters[w])) = Len(waiters[w]) - 1
        /\ \A i \in 1..(Len(waiters[w]) - 1) : Tail(waiters[w])[i] = waiters[w][i + 1]
    BY <1>0, <2>1, HeadTailProperties
  <2>3. DOMAIN Tail(waiters[w]) = 1..(Len(waiters[w]) - 1) /\ Len(waiters[w]) \in Nat \ {0}
    BY <2>1, <2>2, <1>0, LenProperties, EmptySeq
  <2>4. \A k \in Keys : waiters'[k] = IF k = w THEN Tail(waiters[w]) ELSE waiters[k]
    BY <2>1
  <2>5. \A k \in Keys \ {w} : \A i \in DOMAIN waiters[k] : waiters[k][i] # t
    BY <2>1
  <2>6. \A i \in 1..(Len(waiters[w]) - 1) : i + 1 \in DOMAIN waiters[w] /\ waiters[w][i + 1] # t
    <3>1. 1 \in DOMAIN waiters[w] /\ \A i \in 1..(Len(waiters[w]) - 1) : i + 1 \in DOMAIN waiters[w] /\ i + 1 # 1
      BY <1>0, <2>1, <2>3
    <3> QED BY <3>1, <2>1
  <2>7. QueuedWaits'
    <3> SUFFICES ASSUME NEW k \in Keys, NEW i \in DOMAIN waiters'[k]
                 PROVE  /\ want'[waiters'[k][i]] = k
                        /\ pc'[waiters'[k][i]] \in {"check", "parked", "dead"}
      OBVIOUS
    <3>1. CASE k # w
      BY <3>1, <1>0, <2>1, <2>4, <2>5
    <3>2. CASE k = w
      <4>1. /\ i + 1 \in DOMAIN waiters[w] /\ waiters'[k][i] = waiters[w][i + 1]
            /\ waiters[w][i + 1] # t
        BY <3>2, <2>2, <2>3, <2>4, <2>6
      <4> QED BY <4>1, <3>2, <1>0, <2>1
    <3> QED BY <3>1, <3>2
  <2>8. NoDuplicates'
    <3> SUFFICES ASSUME NEW k \in Keys, NEW i \in DOMAIN waiters'[k], NEW j \in DOMAIN waiters'[k],
                        waiters'[k][i] = waiters'[k][j]
                 PROVE  i = j
      OBVIOUS
    <3>1. CASE k # w
      BY <3>1, <2>4
    <3>2. CASE k = w
      <4>1. i \in 1..(Len(waiters[w]) - 1) /\ j \in 1..(Len(waiters[w]) - 1)
        BY <3>2, <2>3, <2>4
      <4>2. waiters'[k][i] = waiters[w][i + 1] /\ waiters'[k][j] = waiters[w][j + 1]
        BY <3>2, <4>1, <2>2, <2>4
      <4>3. i + 1 \in DOMAIN waiters[w] /\ j + 1 \in DOMAIN waiters[w]
        BY <4>1, <2>6
      <4>4. i + 1 = j + 1
        <5> DEFINE m == i + 1
                   n == j + 1
        <5>1. m \in DOMAIN waiters[w] /\ n \in DOMAIN waiters[w] /\ waiters[w][m] = waiters[w][n]
          BY <4>2, <4>3
        <5> HIDE DEF m, n
        <5>2. m = n
          BY <5>1, <2>1
        <5> QED BY <5>2 DEF m, n
      <4> QED BY <4>1, <4>4, <2>3
    <3> QED BY <3>1, <3>2
  <2> QED BY <2>7, <2>8
<1>5. ASSUME NEW t \in Tasks, Park(t) PROVE Queues'
  BY <1>0, <1>5 DEF Park
<1>6. ASSUME NEW t \in Tasks, Wake(t) PROVE Queues'
  BY <1>0, <1>6 DEF Wake
<1>7. ASSUME NEW t \in Tasks, Release(t) PROVE Queues'
  BY <1>0, <1>7 DEF Release, ReleaseWith
<1>8. ASSUME NEW t \in Tasks, NEW i0 \in DOMAIN waiters[want[t]], CancelAt(t, i0) PROVE Queues'
  <2> DEFINE w == want[t]
             rest == RemoveAt(waiters[w], i0)
             old(i) == IF i < i0 THEN i ELSE i + 1
  <2>1. /\ w \in Keys /\ waiters[w][i0] = t
        /\ waiters' = [waiters EXCEPT ![w] = rest]
        /\ pc' = [pc EXCEPT ![t] = "idle"] /\ want' = [want EXCEPT ![t] = NoKey]
    BY <1>8 DEF CancelAt
  <2>2. /\ rest \in Seq(Tasks) /\ Len(rest) = Len(waiters[w]) - 1
        /\ \A i \in 1..(Len(waiters[w]) - 1) : rest[i] = IF i < i0 THEN waiters[w][i] ELSE waiters[w][i + 1]
    <3>1. waiters[w] \in Seq(Tasks) /\ i0 \in 1..Len(waiters[w])
      BY <1>0, <2>1
    <3>2. \A q \in Seq(Tasks) : \A i \in 1..Len(q) :
             /\ RemoveAt(q, i) \in Seq(Tasks) /\ Len(RemoveAt(q, i)) = Len(q) - 1
             /\ \A j \in 1..(Len(q) - 1) :
                  RemoveAt(q, i)[j] = IF j < i THEN q[j] ELSE q[j + 1]
      BY RemoveAtFacts
    <3> QED BY <3>1, <3>2
  <2>3. DOMAIN rest = 1..(Len(waiters[w]) - 1) /\ i0 \in 1..Len(waiters[w]) /\ Len(waiters[w]) \in Nat
    BY <2>1, <2>2, <1>0, LenProperties
  <2> HIDE DEF rest
  <2>4. \A k \in Keys : waiters'[k] = IF k = w THEN rest ELSE waiters[k]
    BY <2>1
  <2>5. \A k \in Keys \ {w} : \A i \in DOMAIN waiters[k] : waiters[k][i] # t
    BY <2>1
  <2>6. \A i \in DOMAIN rest : /\ old(i) \in DOMAIN waiters[w] /\ old(i) # i0
                              /\ rest[i] = waiters[w][old(i)]
    BY <2>1, <2>2, <2>3, <1>0
  <2>7. \A i \in DOMAIN rest : rest[i] # t
    <3> SUFFICES ASSUME NEW i \in DOMAIN rest PROVE rest[i] # t
      OBVIOUS
    <3>1. old(i) \in DOMAIN waiters[w] /\ old(i) # i0 /\ rest[i] = waiters[w][old(i)]
      BY <2>6
    <3> HIDE DEF old
    <3> QED BY <3>1, <2>1
  <2>8. QueuedWaits'
    <3> SUFFICES ASSUME NEW k \in Keys, NEW i \in DOMAIN waiters'[k]
                 PROVE  /\ want'[waiters'[k][i]] = k
                        /\ pc'[waiters'[k][i]] \in {"check", "parked", "dead"}
      OBVIOUS
    <3>1. CASE k # w
      BY <3>1, <1>0, <2>1, <2>4, <2>5
    <3>2. CASE k = w
      <4>1. /\ old(i) \in DOMAIN waiters[w] /\ waiters'[k][i] = waiters[w][old(i)]
            /\ waiters[w][old(i)] # t
        BY <3>2, <2>4, <2>6, <2>7
      <4> QED BY <4>1, <3>2, <1>0, <2>1
    <3> QED BY <3>1, <3>2
  <2>9. NoDuplicates'
    <3> SUFFICES ASSUME NEW k \in Keys, NEW i \in DOMAIN waiters'[k], NEW j \in DOMAIN waiters'[k],
                        waiters'[k][i] = waiters'[k][j]
                 PROVE  i = j
      OBVIOUS
    <3>1. CASE k # w
      BY <3>1, <2>4
    <3>2. CASE k = w
      <4>1. i \in DOMAIN rest /\ j \in DOMAIN rest /\ rest[i] = rest[j]
        BY <3>2, <2>4
      <4>2. old(i) = old(j)
        <5>1. /\ old(i) \in DOMAIN waiters[w] /\ old(j) \in DOMAIN waiters[w]
              /\ waiters[w][old(i)] = waiters[w][old(j)]
          BY <4>1, <2>6
        <5> HIDE DEF old
        <5> QED BY <5>1, <2>1
      <4> QED BY <4>1, <4>2, <2>3
    <3> QED BY <3>1, <3>2
  <2> QED BY <2>8, <2>9
<1>9. ASSUME NEW t \in Tasks, DiePoisoned(t) PROVE Queues'
  BY <1>0, <1>9 DEF DiePoisoned
<1>10. CASE UNCHANGED vars
  BY <1>10 DEF vars
<1> QED
  BY <1>1, <1>2, <1>3, <1>4, <1>5, <1>6, <1>7, <1>8, <1>9, <1>10 DEF Next, TaskStep, Cancel

LEMMA InitQueues == Init => Queues
BY DEF Init, Queues, QueuedWaits, NoDuplicates

\* The queues as sequences, in a well-typed state.
LEMMA QueueIsSeq ==
    ASSUME Typed, NEW k \in Keys
    PROVE  /\ waiters[k] \in Seq(Tasks) /\ Len(waiters[k]) \in Nat
           /\ DOMAIN waiters[k] = 1..Len(waiters[k])
           /\ \A i \in DOMAIN waiters[k] : waiters[k][i] \in Tasks
           /\ waiters[k] # <<>> => /\ 1 \in DOMAIN waiters[k]
                                  /\ Head(waiters[k]) = waiters[k][1]
                                  /\ Head(waiters[k]) \in Tasks
BY LenProperties, ElementOfSeq, EmptySeq DEF Typed, TypeOK

\* Whoever is at the head of a queue waits for its key, or died waiting.
LEMMA HeadWaits ==
    ASSUME Typed, Queues, NEW k \in Keys, waiters[k] # <<>>
    PROVE  /\ Head(waiters[k]) \in Tasks
           /\ want[Head(waiters[k])] = k
           /\ pc[Head(waiters[k])] \in {"check", "parked", "dead"}
BY QueueIsSeq DEF Queues, QueuedWaits

-----------------------------------------------------------------------------
(***************************************************************************)
(* The map: no entry without a holder or a waiter, no held key without a   *)
(* living holder.                                                          *)
(***************************************************************************)
LEMMA StepEntries == Typed /\ Exclusive /\ EntriesInUse /\ [Next]_vars => EntriesInUse'
<1> SUFFICES ASSUME Typed, Exclusive, EntriesInUse, [Next]_vars PROVE EntriesInUse'
  OBVIOUS
<1> USE DEF Typed, TypeOK, BusyHasKey, PC, EntriesInUse, Holding
<1>1. ASSUME NEW t \in Tasks, NEW k \in Keys, FastPath(t, k) PROVE EntriesInUse'
  <2>1. /\ ~ poisoned /\ pc[t] = "idle" /\ waiters' = waiters
        /\ present' = present \cup {k} /\ want' = [want EXCEPT ![t] = k]
    BY <1>1 DEF FastPath
  <2>2. CASE CanTakeFast(k)
    BY <1>1, <2>1, <2>2 DEF FastPath
  <2>3. CASE ~ CanTakeFast(k)
    BY <1>1, <2>1, <2>3 DEF FastPath, CanTakeFast
  <2> QED BY <2>2, <2>3
<1>2. ASSUME NEW t \in Tasks, Enqueue(t) PROVE EntriesInUse'
  <2>1. want[t] \in Keys /\ waiters[want[t]] \in Seq(Tasks)
    BY <1>2 DEF Enqueue
  <2>2. Append(waiters[want[t]], t) # <<>>
    BY <2>1, AppendProperties
  <2> QED BY <1>2, <2>1, <2>2 DEF Enqueue
<1>3. ASSUME NEW t \in Tasks, EnqueuePanics(t) PROVE EntriesInUse'
  BY <1>3 DEF EnqueuePanics
<1>4. ASSUME NEW t \in Tasks, Claim(t) PROVE EntriesInUse'
  <2>1. want[t] \in Keys /\ waiters[want[t]] # <<>>
    BY <1>4 DEF Claim, AtHead
  <2>2. /\ ~ poisoned /\ present' = present /\ held' = held \cup {want[t]}
        /\ want' = want /\ pc[t] = "check" /\ pc' = [pc EXCEPT ![t] = "holding"]
        /\ \A k \in Keys \ {want[t]} : waiters'[k] = waiters[k]
    BY <1>4, <2>1 DEF Claim
  <2>3. want[t] \in present
    BY <2>1, <2>2
  <2> QED BY <2>1, <2>2, <2>3
<1>5. ASSUME NEW t \in Tasks, Park(t) PROVE EntriesInUse'
  BY <1>5 DEF Park
<1>6. ASSUME NEW t \in Tasks, Wake(t) PROVE EntriesInUse'
  BY <1>6 DEF Wake
<1>7. ASSUME NEW t \in Tasks, Release(t) PROVE EntriesInUse'
  BY <1>7 DEF Release, ReleaseWith, Exclusive, MutualExclusion
<1>8. ASSUME NEW t \in Tasks, NEW i \in DOMAIN waiters[want[t]], CancelAt(t, i) PROVE EntriesInUse'
  BY <1>8 DEF CancelAt
<1>9. ASSUME NEW t \in Tasks, DiePoisoned(t) PROVE EntriesInUse'
  BY <1>9 DEF DiePoisoned
<1>10. CASE UNCHANGED vars
  BY <1>10 DEF vars
<1> QED
  BY <1>1, <1>2, <1>3, <1>4, <1>5, <1>6, <1>7, <1>8, <1>9, <1>10 DEF Next, TaskStep, Cancel

-----------------------------------------------------------------------------
(***************************************************************************)
(* The wake-up: the head of the queue of a free key always has one.        *)
(***************************************************************************)
LEMMA StepWakeup == Typed /\ Queues /\ NoLostWakeup /\ [Next]_vars => NoLostWakeup'
<1> SUFFICES ASSUME Typed, Queues, NoLostWakeup, [Next]_vars,
                    ~ poisoned', NEW k \in Keys, k \notin held', waiters'[k] # <<>>
             PROVE  LET h == Head(waiters'[k]) IN pc'[h] = "check" \/ permit'[h] = 1
  BY DEF NoLostWakeup
<1> DEFINE h == Head(waiters'[k])
           Goal == pc'[h] = "check" \/ permit'[h] = 1
<1>a. k \notin held /\ waiters[k] # <<>> /\ ~ poisoned =>
         pc[Head(waiters[k])] = "check" \/ permit[Head(waiters[k])] = 1
  BY DEF NoLostWakeup
<1>b. waiters[k] # <<>> =>
         /\ Head(waiters[k]) \in Tasks
         /\ want[Head(waiters[k])] = k
         /\ pc[Head(waiters[k])] \in {"check", "parked", "dead"}
  BY HeadWaits
<1> USE DEF Typed, TypeOK, BusyHasKey, PC
<1>1. ASSUME NEW t \in Tasks, NEW l \in Keys, FastPath(t, l) PROVE Goal
  BY <1>1, <1>a, <1>b DEF FastPath
<1>2. ASSUME NEW t \in Tasks, Enqueue(t) PROVE Goal
  <2>1. want[t] \in Keys /\ waiters[want[t]] \in Seq(Tasks)
    BY <1>2 DEF Enqueue
  <2>2. Head(Append(waiters[want[t]], t)) =
          IF waiters[want[t]] = <<>> THEN t ELSE Head(waiters[want[t]])
    BY <2>1, HeadTailAppend
  <2>3. CASE k = want[t] /\ waiters[k] = <<>>
    BY <1>2, <2>1, <2>2, <2>3 DEF Enqueue
  <2>4. CASE ~ (k = want[t] /\ waiters[k] = <<>>)
    <3>1. waiters[k] # <<>> /\ h = Head(waiters[k])
      BY <1>2, <2>1, <2>2, <2>4 DEF Enqueue
    <3> QED BY <1>2, <1>a, <1>b, <3>1 DEF Enqueue
  <2> QED BY <2>3, <2>4
<1>3. ASSUME NEW t \in Tasks, EnqueuePanics(t) PROVE Goal
  BY <1>3 DEF EnqueuePanics
<1>4. ASSUME NEW t \in Tasks, Claim(t) PROVE Goal
  <2>1. want[t] \in Keys /\ k # want[t] /\ k \notin held /\ ~ poisoned
    BY <1>4 DEF Claim
  <2>2. waiters'[k] = waiters[k]
    BY <1>4, <2>1 DEF Claim
  <2> QED BY <1>4, <1>a, <1>b, <2>1, <2>2 DEF Claim
<1>5. ASSUME NEW t \in Tasks, Park(t) PROVE Goal
  BY <1>5, <1>a, <1>b DEF Park, AtHead
<1>6. ASSUME NEW t \in Tasks, Wake(t) PROVE Goal
  BY <1>6, <1>a, <1>b DEF Wake
<1>7. ASSUME NEW t \in Tasks, Release(t) PROVE Goal
  <2>1. /\ want[t] \in Keys /\ waiters' = waiters /\ pc[t] = "holding" /\ ~ poisoned
        /\ held' = held \ {want[t]} /\ permit' = NotifyHead(waiters[want[t]])
        /\ pc' = [pc EXCEPT ![t] = "idle"]
    BY <1>7 DEF Release, ReleaseWith
  <2>2. CASE k = want[t]
    BY <2>1, <2>2, <1>b DEF NotifyHead
  <2>3. CASE k # want[t]
    BY <2>1, <2>3, <1>a, <1>b DEF NotifyHead
  <2> QED BY <2>2, <2>3
<1>8. ASSUME NEW t \in Tasks, NEW i \in DOMAIN waiters[want[t]], CancelAt(t, i) PROVE Goal
  <2> DEFINE w == want[t]
             rest == RemoveAt(waiters[w], i)
  <2>1. /\ w \in Keys /\ pc[t] = "parked" /\ ~ poisoned /\ held' = held
        /\ waiters' = [waiters EXCEPT ![w] = rest]
        /\ permit' = IF w \in held THEN permit ELSE NotifyHead(rest)
        /\ pc' = [pc EXCEPT ![t] = "idle"] /\ want[t] = w
    BY <1>8 DEF CancelAt
  <2>2. rest \in Seq(Tasks) /\ (rest # <<>> => Head(rest) \in Tasks)
    <3>1. i \in 1..Len(waiters[w]) /\ waiters[w] \in Seq(Tasks)
      BY <2>1, QueueIsSeq
    <3>2. rest \in Seq(Tasks)
      BY <3>1, RemoveAtFacts
    <3> HIDE DEF rest
    <3> QED BY <3>2, HeadTailProperties
  <2> HIDE DEF rest, w
  <2>3. CASE k = w
    BY <2>1, <2>2, <2>3 DEF NotifyHead
  <2>4. CASE k # w
    <3>1. h = Head(waiters[k]) /\ waiters[k] # <<>> /\ Head(waiters[k]) # t
      BY <2>1, <2>4, <1>b
    <3> QED BY <2>1, <2>2, <3>1, <1>a, <1>b DEF NotifyHead
  <2> QED BY <2>3, <2>4
<1>9. ASSUME NEW t \in Tasks, DiePoisoned(t) PROVE Goal
  BY <1>9 DEF DiePoisoned
<1>10. CASE UNCHANGED vars
  BY <1>10, <1>a DEF vars
<1> QED
  BY <1>1, <1>2, <1>3, <1>4, <1>5, <1>6, <1>7, <1>8, <1>9, <1>10 DEF Next, TaskStep, Cancel

-----------------------------------------------------------------------------
(***************************************************************************)
(* Whoever is in the wait loop is in the queue of its key.                 *)
(***************************************************************************)
WaitersQueued ==
    \A t \in Tasks : Waiting(t) => \E i \in DOMAIN waiters[want[t]] : waiters[want[t]][i] = t

LEMMA StepWaiters == Typed /\ Queues /\ WaitersQueued /\ [Next]_vars => WaitersQueued'
<1> SUFFICES ASSUME Typed, Queues, WaitersQueued, [Next]_vars,
                    NEW u \in Tasks, Waiting(u)'
             PROVE  \E i \in DOMAIN waiters'[want'[u]] : waiters'[want'[u]][i] = u
  BY DEF WaitersQueued
<1> DEFINE Goal == \E i \in DOMAIN waiters'[want'[u]] : waiters'[want'[u]][i] = u
<1>a. Waiting(u) => \E i \in DOMAIN waiters[want[u]] : waiters[want[u]][i] = u
  BY DEF WaitersQueued
<1> USE DEF Typed, TypeOK, BusyHasKey, PC, Waiting
<1>1. ASSUME NEW t \in Tasks, NEW k \in Keys, FastPath(t, k) PROVE Goal
  BY <1>1, <1>a DEF FastPath
<1>2. ASSUME NEW t \in Tasks, Enqueue(t) PROVE Goal
  <2> DEFINE w == want[t]
             q == Append(waiters[w], t)
  <2>1. /\ w \in Keys /\ want' = want /\ waiters' = [waiters EXCEPT ![w] = q]
        /\ pc' = [pc EXCEPT ![t] = "check"]
    BY <1>2 DEF Enqueue
  <2>2. /\ Len(waiters[w]) \in Nat /\ DOMAIN waiters[w] = 1..Len(waiters[w])
        /\ DOMAIN q = 1..(Len(waiters[w]) + 1)
        /\ \A i \in 1..Len(waiters[w]) : q[i] = waiters[w][i]
        /\ q[Len(waiters[w]) + 1] = t
    BY <2>1, QueueIsSeq, AppendProperties, LenProperties
  <2>3. CASE u = t
    <3>1. Len(waiters[w]) + 1 \in DOMAIN q
      BY <2>2
    <3> QED BY <2>1, <2>2, <2>3, <3>1
  <2>4. CASE u # t
    <3>1. PICK i \in DOMAIN waiters[want[u]] : waiters[want[u]][i] = u
      BY <1>a, <2>1, <2>4
    <3>2. want[u] \in Keys
      BY <2>1, <2>4
    <3>3. CASE want[u] = w
      <4>1. i \in DOMAIN q /\ q[i] = u
        BY <3>1, <3>3, <2>2
      <4> QED BY <4>1, <3>3, <2>1
    <3>4. CASE want[u] # w
      BY <3>1, <3>2, <3>4, <2>1
    <3> QED BY <3>3, <3>4
  <2> QED BY <2>3, <2>4
<1>3. ASSUME NEW t \in Tasks, EnqueuePanics(t) PROVE Goal
  BY <1>3, <1>a DEF EnqueuePanics
<1>4. ASSUME NEW t \in Tasks, Claim(t) PROVE Goal
  <2> DEFINE w == want[t]
             q == Tail(waiters[w])
  <2>1. /\ w \in Keys /\ waiters[w] # <<>> /\ want' = want
        /\ waiters' = [waiters EXCEPT ![w] = q] /\ Head(waiters[w]) = t
        /\ pc' = [pc EXCEPT ![t] = "holding"]
    BY <1>4 DEF Claim, AtHead
  <2>2. /\ Len(waiters[w]) \in Nat /\ DOMAIN waiters[w] = 1..Len(waiters[w])
        /\ waiters[w][1] = t
    BY <2>1, QueueIsSeq
  <2>3. /\ DOMAIN q = 1..(Len(waiters[w]) - 1)
        /\ \A i \in 1..(Len(waiters[w]) - 1) : q[i] = waiters[w][i + 1]
    BY <2>1, QueueIsSeq, HeadTailProperties, LenProperties
  <2>4. u # t /\ Waiting(u)
    BY <2>1
  <2>5. PICK i \in DOMAIN waiters[want[u]] : waiters[want[u]][i] = u
    BY <1>a, <2>4
  <2>6. want[u] \in Keys
    BY <2>4
  <2>7. CASE want[u] = w
    <3>1. i # 1 /\ i \in 1..Len(waiters[w])
      BY <2>2, <2>4, <2>5, <2>7
    <3>2. i - 1 \in 1..(Len(waiters[w]) - 1) /\ (i - 1) + 1 = i
      BY <2>2, <3>1
    <3>3. i - 1 \in DOMAIN q /\ q[i - 1] = u
      BY <2>3, <2>5, <2>7, <3>2
    <3> QED BY <2>1, <2>7, <3>3
  <2>8. CASE want[u] # w
    BY <2>1, <2>5, <2>6, <2>8
  <2> QED BY <2>7, <2>8
<1>5. ASSUME NEW t \in Tasks, Park(t) PROVE Goal
  BY <1>5, <1>a DEF Park
<1>6. ASSUME NEW t \in Tasks, Wake(t) PROVE Goal
  BY <1>6, <1>a DEF Wake
<1>7. ASSUME NEW t \in Tasks, Release(t) PROVE Goal
  BY <1>7, <1>a DEF Release, ReleaseWith
<1>8. ASSUME NEW t \in Tasks, NEW i0 \in DOMAIN waiters[want[t]], CancelAt(t, i0) PROVE Goal
  <2> DEFINE w == want[t]
             q == RemoveAt(waiters[w], i0)
  <2>1. /\ w \in Keys /\ waiters[w][i0] = t
        /\ waiters' = [waiters EXCEPT ![w] = q]
        /\ pc' = [pc EXCEPT ![t] = "idle"] /\ want' = [want EXCEPT ![t] = NoKey]
    BY <1>8 DEF CancelAt
  <2>2. /\ Len(waiters[w]) \in Nat /\ DOMAIN waiters[w] = 1..Len(waiters[w])
        /\ waiters[w] \in Seq(Tasks) /\ i0 \in 1..Len(waiters[w])
    BY <2>1, QueueIsSeq
  <2>3. /\ DOMAIN q = 1..(Len(waiters[w]) - 1)
        /\ \A i \in 1..(Len(waiters[w]) - 1) :
              q[i] = IF i < i0 THEN waiters[w][i] ELSE waiters[w][i + 1]
    <3>1. /\ q \in Seq(Tasks) /\ Len(q) = Len(waiters[w]) - 1
          /\ \A i \in 1..(Len(waiters[w]) - 1) :
                q[i] = IF i < i0 THEN waiters[w][i] ELSE waiters[w][i + 1]
      BY <2>2, RemoveAtFacts
    <3>2. DOMAIN q = 1..Len(q)
      BY <3>1, LenProperties
    <3> QED BY <3>1, <3>2
  <2> HIDE DEF q
  <2>4. u # t /\ Waiting(u)
    BY <2>1
  <2>5. PICK i \in DOMAIN waiters[want[u]] : waiters[want[u]][i] = u
    BY <1>a, <2>4
  <2>6. want[u] \in Keys /\ want'[u] = want[u]
    BY <2>1, <2>4
  <2>7. CASE want[u] = w
    <3>1. i # i0 /\ i \in 1..Len(waiters[w])
      BY <2>1, <2>2, <2>4, <2>5, <2>7
    <3>2. CASE i < i0
      <4>1. i \in DOMAIN q /\ q[i] = u
        BY <2>2, <2>3, <2>5, <2>7, <3>1, <3>2
      <4> QED BY <2>1, <2>6, <2>7, <4>1
    <3>3. CASE i > i0
      <4>1. i - 1 \in 1..(Len(waiters[w]) - 1) /\ (i - 1) + 1 = i /\ ~ (i - 1 < i0)
        BY <2>2, <3>1, <3>3
      <4>2. i - 1 \in DOMAIN q /\ q[i - 1] = u
        BY <2>3, <2>5, <2>7, <4>1
      <4> QED BY <2>1, <2>6, <2>7, <4>2
    <3> QED BY <2>2, <3>1, <3>2, <3>3
  <2>8. CASE want[u] # w
    BY <2>1, <2>5, <2>6, <2>8
  <2> QED BY <2>7, <2>8
<1>9. ASSUME NEW t \in Tasks, DiePoisoned(t) PROVE Goal
  BY <1>9, <1>a DEF DiePoisoned
<1>10. CASE UNCHANGED vars
  BY <1>10, <1>a DEF vars
<1> QED
  BY <1>1, <1>2, <1>3, <1>4, <1>5, <1>6, <1>7, <1>8, <1>9, <1>10 DEF Next, TaskStep, Cancel

-----------------------------------------------------------------------------
(***************************************************************************)
(* The inductive invariant as a whole, and what follows from it.           *)
(***************************************************************************)
IInv == Typed /\ Exclusive /\ Queues /\ EntriesInUse /\ NoLostWakeup /\ WaitersQueued

THEOREM Invariance == Spec => []IInv
<1>1. Init => IInv
  BY InitTyped, InitQueues DEF IInv, Init, Exclusive, HoldersMarked, MutualExclusion, Holding,
     EntriesInUse, NoLostWakeup, WaitersQueued, Waiting
<1>2. IInv /\ [Next]_vars => IInv'
  BY StepTyped, StepExclusive, StepQueues, StepEntries, StepWakeup, StepWaiters DEF IInv
<1> QED BY <1>1, <1>2, PTL DEF Spec

\* A free key with a queue always has a head that has been told to look.
THEOREM WakeupsKept == Spec => []NoLostWakeup
<1>1. IInv => NoLostWakeup
  BY DEF IInv
<1> QED BY <1>1, Invariance, PTL

\* The map holds no unused entry and no held key is without a living holder.
THEOREM NoUnusedEntries == Spec => []EntriesInUse
<1>1. IInv => EntriesInUse
  BY DEF IInv
<1> QED BY <1>1, Invariance, PTL

\* "key present while waiting": a task in the wait loop finds the entry of its
\* key in the map and itself in the queue, once.
THEOREM WaitersStayQueued == Spec => []WaiterIsQueued
<1>1. ASSUME IInv PROVE WaiterIsQueued
  <2> SUFFICES ASSUME NEW t \in Tasks, Waiting(t)
               PROVE  /\ want[t] \in present
                      /\ \E i \in DOMAIN waiters[want[t]] : \A j \in DOMAIN waiters[want[t]] :
                            waiters[want[t]][j] = t <=> i = j
    BY DEF WaiterIsQueued
  <2>1. want[t] \in Keys
    BY <1>1 DEF IInv, Typed, TypeOK, BusyHasKey, Waiting, PC
  <2>2. PICK i \in DOMAIN waiters[want[t]] : waiters[want[t]][i] = t
    BY <1>1 DEF IInv, WaitersQueued
  <2>3. \A j \in DOMAIN waiters[want[t]] : waiters[want[t]][j] = t <=> i = j
    BY <1>1, <2>1, <2>2 DEF IInv, Queues, NoDuplicates
  <2>4. waiters[want[t]] # <<>>
    BY <2>2
  <2> QED BY <1>1, <2>1, <2>2, <2>3, <2>4 DEF IInv, EntriesInUse
<1> QED BY <1>1, Invariance, PTL
-----------------------------------------------------------------------------
(***************************************************************************)
(* The lock implements FifoLock: the state maps to a holder per key and    *)
(* the queues, a step maps to a step of FifoLock or leaves both alone.     *)
(***************************************************************************)

\* HolderOf, as a function of the two variables it reads.
HolderIn(w, p) ==
    [k \in Keys |-> IF \E t \in Tasks : w[t] = k /\ p[t] = "holding"
                    THEN CHOOSE t \in Tasks : w[t] = k /\ p[t] = "holding"
                    ELSE NoTask]

LEMMA HolderIs ==
    ASSUME NEW w, NEW p, NEW k \in Keys,
           \A t, u \in Tasks : p[t] = "holding" /\ w[t] = k /\ p[u] = "holding" /\ w[u] = k => t = u
    PROVE  /\ \A t \in Tasks : HolderIn(w, p)[k] = t <=> p[t] = "holding" /\ w[t] = k
           /\ HolderIn(w, p)[k] = NoTask <=> ~ \E t \in Tasks : p[t] = "holding" /\ w[t] = k
           /\ HolderIn(w, p)[k] \in Tasks \cup {NoTask}
<1>1. CASE \E t \in Tasks : w[t] = k /\ p[t] = "holding"
  <2>1. PICK t \in Tasks : w[t] = k /\ p[t] = "holding"
    BY <1>1
  <2>2. HolderIn(w, p)[k] = CHOOSE u \in Tasks : w[u] = k /\ p[u] = "holding"
    BY <1>1 DEF HolderIn
  <2>3. HolderIn(w, p)[k] \in Tasks /\ w[HolderIn(w, p)[k]] = k /\ p[HolderIn(w, p)[k]] = "holding"
    BY <2>1, <2>2
  <2> QED BY <2>1, <2>3, TasksAssumption
<1>2. CASE ~ \E t \in Tasks : w[t] = k /\ p[t] = "holding"
  <2>1. HolderIn(w, p)[k] = NoTask
    BY <1>2 DEF HolderIn
  <2> QED BY <1>2, <2>1, TasksAssumption
<1> QED BY <1>1, <1>2

\* The same, of the state ...
LEMMA HolderNow ==
    ASSUME MutualExclusion, NEW k \in Keys
    PROVE  /\ \A t \in Tasks : HolderOf[k] = t <=> Holding(t, k)
           /\ HolderOf[k] = NoTask <=> ~ \E t \in Tasks : Holding(t, k)
           /\ HolderOf[k] \in Tasks \cup {NoTask}
<1>1. HolderOf = HolderIn(want, pc)
  BY DEF HolderOf, HolderIn
<1>2. \A t, u \in Tasks : pc[t] = "holding" /\ want[t] = k /\ pc[u] = "holding" /\ want[u] = k => t = u
  BY DEF MutualExclusion, Holding
<1> QED BY <1>1, <1>2, HolderIs DEF Holding

\* ... and of the next one.
LEMMA HolderNext ==
    ASSUME MutualExclusion', NEW k \in Keys
    PROVE  /\ \A t \in Tasks : HolderOf'[k] = t <=> Holding(t, k)'
           /\ HolderOf'[k] = NoTask <=> ~ \E t \in Tasks : Holding(t, k)'
           /\ HolderOf'[k] \in Tasks \cup {NoTask}
<1>1. HolderOf' = HolderIn(want', pc')
  BY DEF HolderOf, HolderIn
<1>2. \A t, u \in Tasks :
        pc'[t] = "holding" /\ want'[t] = k /\ pc'[u] = "holding" /\ want'[u] = k => t = u
  BY DEF MutualExclusion, Holding
<1> QED BY <1>1, <1>2, HolderIs DEF Holding

\* A step after which the same tasks hold the same keys moves no holder, ...
LEMMA HoldersSame ==
    ASSUME MutualExclusion, MutualExclusion',
           \A k \in Keys, t \in Tasks : Holding(t, k)' = Holding(t, k)
    PROVE  HolderOf' = HolderOf
<1>1. ASSUME NEW k \in Keys PROVE HolderOf'[k] = HolderOf[k]
  BY HolderNow, HolderNext
<1>2. HolderOf = [k \in Keys |-> HolderOf[k]] /\ HolderOf' = [k \in Keys |-> HolderOf'[k]]
  BY DEF HolderOf
<1> QED BY <1>1, <1>2

\* ... one after which t holds k moves only k's, ...
LEMMA HolderMoves ==
    ASSUME MutualExclusion, MutualExclusion', NEW k \in Keys, NEW t \in Tasks, Holding(t, k)',
           \A j \in Keys \ {k}, u \in Tasks : Holding(u, j)' = Holding(u, j)
    PROVE  HolderOf' = [HolderOf EXCEPT ![k] = t]
<1>1. HolderOf'[k] = t
  BY HolderNext
<1>2. ASSUME NEW j \in Keys \ {k} PROVE HolderOf'[j] = HolderOf[j]
  BY HolderNow, HolderNext
<1>3. HolderOf = [j \in Keys |-> HolderOf[j]] /\ HolderOf' = [j \in Keys |-> HolderOf'[j]]
  BY DEF HolderOf
<1> QED BY <1>1, <1>2, <1>3

\* ... and so does one after which nobody does.
LEMMA HolderLeaves ==
    ASSUME MutualExclusion, MutualExclusion', NEW k \in Keys,
           \A u \in Tasks : ~ Holding(u, k)',
           \A j \in Keys \ {k}, u \in Tasks : Holding(u, j)' = Holding(u, j)
    PROVE  HolderOf' = [HolderOf EXCEPT ![k] = NoTask]
<1>1. HolderOf'[k] = NoTask
  BY HolderNext
<1>2. ASSUME NEW j \in Keys \ {k} PROVE HolderOf'[j] = HolderOf[j]
  BY HolderNow, HolderNext
<1>3. HolderOf = [j \in Keys |-> HolderOf[j]] /\ HolderOf' = [j \in Keys |-> HolderOf'[j]]
  BY DEF HolderOf
<1> QED BY <1>1, <1>2, <1>3

\* A task that is about to ask for a key holds none and is in no queue.
LEMMA AskerIsFree ==
    ASSUME IInv, NEW t \in Tasks, pc[t] \in {"idle", "enqueue"}
    PROVE  ~ Fifo!Busy(t)
<1>1. \A k \in Keys : HolderOf[k] # t
  BY HolderNow DEF IInv, Exclusive, Holding
<1>2. \A k \in Keys : \A i \in DOMAIN waiters[k] : waiters[k][i] # t
  BY DEF IInv, Queues, QueuedWaits
<1> QED BY <1>1, <1>2 DEF Fifo!Busy

\* A key that is free in the map has no holder.
LEMMA FreeKey ==
    ASSUME IInv, NEW k \in Keys, k \notin held
    PROVE  HolderOf[k] = NoTask /\ \A u \in Tasks : ~ Holding(u, k)
  BY HolderNow DEF IInv, Exclusive, HoldersMarked, Holding

\* At first nobody holds a key and nobody waits, as FifoLock says.
LEMMA StartsFree == Init => FifoInit
<1> SUFFICES ASSUME Init PROVE FifoInit
  OBVIOUS
<1>1. HolderOf = [k \in Keys |-> NoTask]
  <2>1. \A k \in Keys : ~ \E t \in Tasks : want[t] = k /\ pc[t] = "holding"
    BY DEF Init
  <2> QED BY <2>1 DEF HolderOf
<1> QED BY <1>1 DEF Init, FifoInit, Fifo!Init

\* As long as the mutex is not poisoned, keys are granted in arrival order, nobody
\* barges past a queue and a waiter that is cancelled leaves the order alone.
THEOREM GrantsInOrder == Spec => FifoInit /\ ServesInOrder
<1> DEFINE Served == ~ poisoned' => [Fifo!Next]_Fifo!fifoVars
<1>1. ASSUME IInv, IInv', [Next]_vars, ~ poisoned' PROVE [Fifo!Next]_Fifo!fifoVars
  <2> USE <1>1
  <2>a. /\ MutualExclusion /\ MutualExclusion'
        /\ want \in [Tasks -> Keys \cup {NoKey}] /\ pc \in [Tasks -> PC]
        /\ waiters \in [Keys -> Seq(Tasks)]
    BY DEF IInv, Exclusive, Typed, TypeOK
  <2>b. ASSUME waiters' = waiters, \A k \in Keys, t \in Tasks : Holding(t, k)' = Holding(t, k)
        PROVE  UNCHANGED Fifo!fifoVars
    BY <2>a, <2>b, HoldersSame DEF Fifo!fifoVars
  <2>1. ASSUME NEW t \in Tasks, NEW k \in Keys, FastPath(t, k) PROVE [Fifo!Next]_Fifo!fifoVars
    <3>1. /\ pc[t] = "idle" /\ want' = [want EXCEPT ![t] = k] /\ waiters' = waiters
      BY <2>1 DEF FastPath
    <3>2. CASE CanTakeFast(k)
      <4>1. pc' = [pc EXCEPT ![t] = "holding"] /\ k \notin held /\ waiters[k] = <<>>
        BY <2>1, <3>2 DEF FastPath, CanTakeFast
      <4>2. Holding(t, k)' /\ \A j \in Keys \ {k}, u \in Tasks : Holding(u, j)' = Holding(u, j)
        BY <2>a, <3>1, <4>1 DEF Holding
      <4>3. HolderOf' = [HolderOf EXCEPT ![k] = t]
        BY <2>a, <4>2, HolderMoves
      <4>4. Fifo!Take(t, k)
        BY <3>1, <4>1, <4>3, AskerIsFree, FreeKey DEF Fifo!Take
      <4> QED BY <4>4 DEF Fifo!Next
    <3>3. CASE ~ CanTakeFast(k)
      <4>1. pc' = [pc EXCEPT ![t] = "enqueue"]
        BY <2>1, <3>3 DEF FastPath
      <4>2. \A j \in Keys, u \in Tasks : Holding(u, j)' = Holding(u, j)
        BY <2>a, <3>1, <4>1 DEF Holding
      <4> QED BY <2>b, <3>1, <4>2
    <3> QED BY <3>2, <3>3
  <2>2. ASSUME NEW t \in Tasks, Enqueue(t) PROVE [Fifo!Next]_Fifo!fifoVars
    <3>1. /\ pc[t] = "enqueue" /\ pc' = [pc EXCEPT ![t] = "check"] /\ want' = want
          /\ waiters' = [waiters EXCEPT ![want[t]] = Append(@, t)]
      BY <2>2 DEF Enqueue
    <3>2. want[t] \in Keys
      BY <3>1 DEF IInv, Typed, BusyHasKey, PC
    <3>3. \A j \in Keys, u \in Tasks : Holding(u, j)' = Holding(u, j)
      BY <2>a, <3>1 DEF Holding
    <3>4. HolderOf' = HolderOf
      BY <2>a, <3>3, HoldersSame
    <3>5. Fifo!Request(t, want[t])
      BY <3>1, <3>4, AskerIsFree DEF Fifo!Request
    <3> QED BY <3>2, <3>5 DEF Fifo!Next
  <2>3. ASSUME NEW t \in Tasks, Claim(t) PROVE [Fifo!Next]_Fifo!fifoVars
    <3>0. PICK k \in Keys : k = want[t]
      BY <2>3 DEF Claim, IInv, Typed, BusyHasKey, PC
    <3>1. /\ pc[t] = "check" /\ pc' = [pc EXCEPT ![t] = "holding"] /\ want' = want
          /\ waiters' = [waiters EXCEPT ![k] = Tail(@)]
          /\ waiters[k] # <<>> /\ Head(waiters[k]) = t /\ k \notin held
      BY <2>3, <3>0 DEF Claim, AtHead
    <3>3. Holding(t, k)' /\ \A j \in Keys \ {k}, u \in Tasks : Holding(u, j)' = Holding(u, j)
      BY <2>a, <3>1, <3>0 DEF Holding
    <3>4. HolderOf[k] = NoTask
      BY <3>1, FreeKey
    <3>5. HolderOf' = [HolderOf EXCEPT ![k] = t]
      BY <2>a, <3>3, HolderMoves
    <3>6. Fifo!Grant(k)
      BY <3>1, <3>4, <3>5 DEF Fifo!Grant
    <3> QED BY <3>6 DEF Fifo!Next
  <2>4. ASSUME NEW t \in Tasks, Release(t) PROVE [Fifo!Next]_Fifo!fifoVars
    <3>0. PICK k \in Keys : k = want[t]
      BY <2>4 DEF Release, ReleaseWith, IInv, Typed, BusyHasKey, PC
    <3>1. /\ pc[t] = "holding" /\ pc' = [pc EXCEPT ![t] = "idle"]
          /\ want' = [want EXCEPT ![t] = NoKey] /\ waiters' = waiters
      BY <2>4 DEF Release, ReleaseWith
    <3>3. Holding(t, k)
      BY <3>1, <3>0 DEF Holding
    <3>4. HolderOf[k] = t
      BY <2>a, <3>3, HolderNow
    <3>5. ASSUME NEW u \in Tasks PROVE ~ Holding(u, k)'
      <4>1. Holding(u, k) => u = t
        BY <2>a, <3>3 DEF MutualExclusion
      <4> QED BY <2>a, <3>1, <4>1, KeysAssumption DEF Holding
    <3>6. \A j \in Keys \ {k}, u \in Tasks : Holding(u, j)' = Holding(u, j)
      <4>1. \A j \in Keys \ {k} : ~ Holding(t, j)
        BY <3>0 DEF Holding
      <4> QED BY <2>a, <3>1, <4>1, KeysAssumption DEF Holding
    <3>7. HolderOf' = [HolderOf EXCEPT ![k] = NoTask]
      BY <2>a, <3>5, <3>6, HolderLeaves
    <3>8. Fifo!Free(t, k)
      BY <3>1, <3>4, <3>7 DEF Fifo!Free
    <3> QED BY <3>8 DEF Fifo!Next
  <2>5. ASSUME NEW t \in Tasks, pc[t] = "parked", NEW i \in DOMAIN waiters[want[t]], CancelAt(t, i)
        PROVE  [Fifo!Next]_Fifo!fifoVars
    <3>0. PICK k \in Keys : k = want[t]
      BY <2>5 DEF IInv, Typed, BusyHasKey, PC
    <3>1. /\ pc' = [pc EXCEPT ![t] = "idle"] /\ want' = [want EXCEPT ![t] = NoKey]
          /\ waiters' = [waiters EXCEPT ![k] = RemoveAt(waiters[k], i)]
      BY <2>5, <3>0 DEF CancelAt
    <3>3. \A j \in Keys, u \in Tasks : Holding(u, j)' = Holding(u, j)
      BY <2>a, <2>5, <3>1, KeysAssumption DEF Holding
    <3>4. HolderOf' = HolderOf
      BY <2>a, <3>3, HoldersSame
    <3>5. Fifo!GiveUp(k, i)
      BY <2>5, <3>1, <3>0, <3>4 DEF Fifo!GiveUp, RemoveAt, Fifo!RemoveAt
    <3> QED BY <2>5, <3>0, <3>5 DEF Fifo!Next
  <2>6. ASSUME NEW t \in Tasks, Park(t) \/ Wake(t) PROVE [Fifo!Next]_Fifo!fifoVars
    <3>1. /\ waiters' = waiters /\ want' = want /\ pc[t] \in {"check", "parked"}
          /\ \E at \in {"check", "parked"} : pc' = [pc EXCEPT ![t] = at]
      BY <2>6 DEF Park, Wake
    <3>2. \A j \in Keys, u \in Tasks : Holding(u, j)' = Holding(u, j)
      BY <2>a, <3>1 DEF Holding
    <3> QED BY <2>b, <3>1, <3>2
  <2>7. ASSUME NEW t \in Tasks, EnqueuePanics(t) \/ DiePoisoned(t) PROVE FALSE
    BY <2>7 DEF EnqueuePanics, DiePoisoned
  <2>8. CASE UNCHANGED vars
    BY <2>b, <2>8 DEF vars, Holding
  <2> QED BY <2>1, <2>2, <2>3, <2>4, <2>5, <2>6, <2>7, <2>8 DEF Next, TaskStep, Cancel
<1>2. IInv /\ IInv' /\ [Next]_vars => [Served]_vars
  BY <1>1
<1> QED BY <1>2, StartsFree, Invariance, PTL DEF Spec, ServesInOrder
-----------------------------------------------------------------------------
(***************************************************************************)
(* The other gate of a tool call: the approval store, for any sessions,    *)
(* projects, items, chains and signatures, and for any number of calls,    *)
(* removals and deaths of the daemon.                                      *)
(*                                                                         *)
(* A file on which no two writers have overlapped holds exactly the        *)
(* decisions that were recorded in it and not removed.  For this the write *)
(* under way is followed: what it will store is what stands with its own   *)
(* change, and at its last step the temporary file holds that.             *)
(***************************************************************************)
Grants == [item : Items]
Rules == [sig : Signatures, verdict : Verdicts]
Storing == {"load", "open", "write", "rename"}
Active == {"open", "write", "rename"}
Ops == [at : Stages, chain : Seq(Items \cup Signatures), on : Files,
        adds : SUBSET Entries, drops : SUBSET Entries,
        img : SUBSET Entries, fd : {"tmp", "file", "gone"}]

\* What the stage of a call says of the rest of it.  A rule is stored for a project.
StageOK(w, o) ==
    /\ o.at = "idle" => o.chain = <<>>
    /\ o.at \in {"check", "ask"} => o.chain \in Seq(Items)
    /\ o.at \in {"ask", "repeat"} => o.chain # <<>>
    /\ o.at = "repeat" => o.chain \in Seq(Signatures)
    /\ w = Pane => o.at \in {"idle"} \cup Storing
    /\ o.at \in Storing =>
         \/ w = Pane /\ o.adds = {}
         \/ w # Pane /\ o.adds \subseteq Grants /\ o.chain \in Seq(Items) /\ o.chain # <<>>
         \/ w # Pane /\ o.on # Global /\ \E r \in Rules : o.adds = {r}

\* The decisions that stand for file f.
Stand(f) == {e \in Entries : [at |-> f, what |-> e] \in standing}

\* The write under way, on a file of its own.
WriteOK(w) ==
    LET o == op[w] IN
    o.at \in Active /\ o.on \notin clash =>
        /\ o.img = (Stand(o.on) \ o.drops) \cup o.adds
        /\ o.at = "write" => o.fd = "tmp" /\ tmp[o.on] = Blank
        /\ o.at = "rename" => tmp[o.on] = Image(o.img)
        /\ \A x \in Writers \ {w} : op[x].at \in Active => op[x].on # o.on

FileTruth == \A f \in Files \ clash : file[f].has = Stand(f)

GlobalHasNoRule == \A e \in Stand(Global) : e \in Grants

ApprovalInv ==
    /\ ApprovalTypeOK
    /\ \A w \in Writers : StageOK(w, op[w]) /\ WriteOK(w)
    /\ FileTruth /\ GlobalHasNoRule

LEMMA EntriesApart ==
    /\ Entries = Grants \cup Rules
    /\ \A e \in Rules : e \notin Grants
    /\ \A k \in Items : Grant(k) \in Grants
    /\ \A g \in Signatures, v \in Verdicts : Rule(g, v) \in Rules
<1>1. Entries = Grants \cup Rules
  BY DEF Entries, Grants, Rules
<1>2. ASSUME NEW e \in Rules PROVE e \notin Grants
  <2>1. DOMAIN e = {"sig", "verdict"}
    BY DEF Rules
  <2>2. ASSUME e \in Grants PROVE DOMAIN e = {"item"}
    BY <2>2 DEF Grants
  <2>3. "sig" \notin {"item"}
    OBVIOUS
  <2> QED BY <2>1, <2>2, <2>3
<1>3. \A k \in Items : Grant(k) \in Grants
  BY DEF Grants, Grant
<1>4. \A g \in Signatures, v \in Verdicts : Rule(g, v) \in Rules
  BY DEF Rules, Rule
<1> QED BY <1>1, <1>2, <1>3, <1>4

LEMMA IdleTyped ==
    /\ Idle \in Ops /\ Idle.at = "idle" /\ Idle.chain = <<>>
    /\ Idle.fd = "gone" /\ Idle.on = Global
    /\ \A w : StageOK(w, Idle)
<1>1. Idle \in Ops
  BY DEF Idle, Ops, Stages, Files
<1>2. Idle.at = "idle" /\ Idle.chain = <<>> /\ Idle.fd = "gone"
      /\ Idle.on = Global
  BY DEF Idle
<1> QED BY <1>1, <1>2 DEF StageOK, Storing

LEMMA RestOfChain ==
    ASSUME NEW S, NEW q \in Seq(S), q # <<>>
    PROVE  Head(q) \in S /\ Tail(q) \in Seq(S)
BY HeadTailProperties, EmptySeq

\* What a writer does when its store has ended.
LEMMA AfterStore ==
    ASSUME NEW w \in Writers, NEW recorded \in BOOLEAN,
           op[w] \in Ops, StageOK(w, op[w]), op[w].at \in Storing
    PROVE  /\ After(w, recorded) \in Ops /\ StageOK(w, After(w, recorded))
           /\ After(w, recorded).at \notin Storing
<1> DEFINE o == op[w]
           rules == {e \in o.adds : e \notin [item : Items]}
           a == After(w, recorded)
<1>a. /\ Idle \in Ops /\ StageOK(w, Idle) /\ Idle.at = "idle"
  BY IdleTyped
<1>1. CASE w = Pane
  BY <1>a, <1>1 DEF After, Storing
<1>2. CASE w # Pane /\ o.adds \subseteq Grants /\ o.chain \in Seq(Items) /\ o.chain # <<>>
  <2>1. rules = {}
    BY <1>2 DEF Grants
  <2>2. a = IF recorded THEN [Idle EXCEPT !.at = "check", !.chain = Tail(o.chain)] ELSE Idle
    BY <1>2, <2>1 DEF After
  <2> DEFINE b == [Idle EXCEPT !.at = "check", !.chain = Tail(o.chain)]
  <2>3. Tail(o.chain) \in Seq(Items)
    BY <1>2, RestOfChain
  <2>4. Tail(o.chain) \in Seq(Items \cup Signatures)
    BY <2>3
  <2>5. b \in Ops /\ b.at = "check" /\ b.chain = Tail(o.chain)
    BY <1>a, <2>4 DEF Ops, Stages
  <2> HIDE DEF b
  <2>6. StageOK(w, b)
    BY <1>2, <2>3, <2>5 DEF StageOK, Storing
  <2> QED BY <1>a, <2>2, <2>5, <2>6 DEF Storing, b
<1>3. CASE w # Pane /\ \E r \in Rules : o.adds = {r}
  <2>1. PICK r \in Rules : o.adds = {r}
    BY <1>3
  <2>2. rules = {r}
    BY <2>1, EntriesApart DEF Grants
  <2>3. (CHOOSE e \in rules : TRUE) = r
    BY <2>2
  <2>4. a = [Idle EXCEPT !.at = r.verdict]
    BY <1>3, <2>2, <2>3 DEF After
  <2>5. r.verdict \in {"accept", "reject"}
    BY DEF Rules, Verdicts
  <2>6. a \in Ops /\ a.at = r.verdict
    BY <1>a, <2>4, <2>5 DEF Ops, Stages
  <2> QED BY <1>3, <2>5, <2>6 DEF StageOK, Storing
<1> QED BY <1>1, <1>2, <1>3 DEF StageOK

\* A step of a session that decides: it is not in the middle of a write, before or after.
LEMMA DecideTyped ==
    ASSUME ApprovalTypeOK, NEW s \in Sessions, StageOK(s, op[s]),
           Decide(s)
    PROVE  /\ \E o \in Ops : /\ op' = [op EXCEPT ![s] = o]
                             /\ StageOK(s, o) /\ o.at \notin Active
           /\ op[s].at \notin Active
           /\ UNCHANGED <<file, tmp, standing, clash>>
           /\ granted' \subseteq [at : Sessions, item : Items]
           /\ ruled' \subseteq [at : Sessions, sig : Signatures, verdict : Verdicts]
           /\ calls' \in Nat /\ deletes' \in Nat /\ crashes' \in Nat
<1>a. /\ s # Pane /\ s \in Writers /\ op[s] \in Ops
      /\ Requests \subseteq Seq(Items) /\ Consults(s) \subseteq Files
      /\ ProjectOf[s] \in Consults(s) /\ ProjectOf[s] # Global
  BY SessionsAssumption, ItemsAssumption, BoundsAssumption DEF Writers, ApprovalTypeOK, Ops,
       Consults, Files
<1>b. /\ Idle \in Ops /\ Idle.at = "idle" /\ Idle.chain = <<>>
      /\ StageOK(s, Idle)
  BY IdleTyped
<1>c. /\ granted \subseteq [at : Sessions, item : Items]
      /\ ruled \subseteq [at : Sessions, sig : Signatures, verdict : Verdicts]
      /\ calls \in Nat /\ deletes \in Nat /\ crashes \in Nat
  BY DEF ApprovalTypeOK
<1>d. \A S \in {Items, Signatures} : Seq(S) \subseteq Seq(Items \cup Signatures)
  OBVIOUS
<1> DEFINE Moves(o) == /\ op' = [op EXCEPT ![s] = o] /\ o \in Ops
                       /\ StageOK(s, o) /\ o.at \notin Active
\* The stage alone changes, or the chain with it.
<1>e. ASSUME NEW at \in {"check", "ask", "accept", "reject"}, NEW chain \in Seq(Items),
             at = "ask" => chain # <<>>
      PROVE  LET o == [op[s] EXCEPT !.at = at, !.chain = chain] IN
             o \in Ops /\ StageOK(s, o) /\ o.at \notin Active
  <2> DEFINE o == [op[s] EXCEPT !.at = at, !.chain = chain]
  <2>1. o \in Ops /\ o.at = at /\ o.chain = chain
    BY <1>a, <1>d DEF Ops, Stages
  <2> HIDE DEF o
  <2>2. o \in Ops /\ StageOK(s, o) /\ o.at \notin Active
    BY <1>a, <1>e, <2>1 DEF StageOK, Storing, Active
  <2> QED BY <2>2 DEF o
<1>f. ASSUME op[s].at \in {"check", "ask"} PROVE op[s].chain \in Seq(Items)
  BY <1>f DEF StageOK
<1>g. ASSUME op[s].at = "ask" PROVE op[s].chain # <<>> /\ Head(op[s].chain) \in Items
                                    /\ Tail(op[s].chain) \in Seq(Items)
  BY <1>f, <1>g, RestOfChain DEF StageOK
<1>h. ASSUME op' = [op EXCEPT ![s] = Idle] PROVE Moves(Idle)
  BY <1>b, <1>h DEF Active
<1>1. CASE Begin(s)
  <2>1. PICK r \in Requests : op' = [op EXCEPT ![s] = [Idle EXCEPT !.at = "check", !.chain = r]]
    BY <1>1 DEF Begin
  <2> DEFINE o == [Idle EXCEPT !.at = "check", !.chain = r]
  <2>2. r \in Seq(Items) /\ r \in Seq(Items \cup Signatures)
    BY <1>a, <1>d
  <2>3. o \in Ops /\ o.at = "check" /\ o.chain = r
    BY <1>b, <2>2 DEF Ops, Stages
  <2> HIDE DEF o
  <2>4. Moves(o)
    BY <1>a, <2>1, <2>2, <2>3 DEF StageOK, Storing, Active, o
  <2>5. /\ op[s].at = "idle" /\ UNCHANGED <<file, tmp, standing, clash, granted, ruled, deletes, crashes>>
        /\ calls' = calls + 1
    BY <1>1 DEF Begin, db, disk, ghost
  <2>6. calls' \in Nat /\ deletes' \in Nat /\ crashes' \in Nat /\ op[s].at \notin Active
    BY <1>c, <2>5 DEF Active
  <2> QED BY <1>c, <2>4, <2>5, <2>6
<1>2. CASE Pass(s)
  <2>1. /\ op[s].at = "check" /\ op[s].chain # <<>>
        /\ op' = [op EXCEPT ![s] = [op[s] EXCEPT !.at = "check", !.chain = Tail(op[s].chain)]]
    BY <1>2, <1>a DEF Pass, Ops
  <2>2. Tail(op[s].chain) \in Seq(Items)
    BY <1>f, <2>1, RestOfChain
  <2>3. UNCHANGED <<file, tmp, standing, clash, granted, ruled, calls, deletes, crashes>>
    BY <1>2 DEF Pass, db, disk, ghost, count
  <2> QED BY <1>c, <1>e, <2>1, <2>2, <2>3 DEF Active
<1>3. CASE Prompt(s)
  <2>1. /\ op[s].at = "check" /\ op[s].chain # <<>>
        /\ op' = [op EXCEPT ![s] = [op[s] EXCEPT !.at = "ask", !.chain = op[s].chain]]
    BY <1>3, <1>a DEF Prompt, Goto, Ops
  <2>2. UNCHANGED <<file, tmp, standing, clash, granted, ruled, calls, deletes, crashes>>
    BY <1>3 DEF Prompt, db, disk, ghost, count
  <2> QED BY <1>c, <1>e, <1>f, <2>1, <2>2 DEF Active
<1>4. CASE Allow(s) \/ Deny(s) \/ Return(s)
  <2>1. /\ op' = [op EXCEPT ![s] = Idle] /\ op[s].at \in {"check", "ask", "accept", "reject"}
        /\ UNCHANGED <<file, tmp, standing, clash, granted, ruled, calls, deletes, crashes>>
    BY <1>4 DEF Allow, Deny, Return, Done, Verdicts, db, disk,
       ghost, count
  <2> QED BY <1>c, <1>h, <1>b, <2>1 DEF Active
<1>5. CASE ApproveOnce(s) \/ ApproveSession(s)
  <2>1. /\ op[s].at = "ask"
        /\ op' = [op EXCEPT ![s] = [op[s] EXCEPT !.at = "check", !.chain = Tail(op[s].chain)]]
    BY <1>5, <1>a DEF ApproveOnce, ApproveSession, Ops
  <2>2. UNCHANGED <<file, tmp, standing, clash, ruled, calls, deletes, crashes>>
    BY <1>5 DEF ApproveOnce, ApproveSession, db, disk, ghost, count
  <2>3. granted' \subseteq granted \cup {[at |-> s, item |-> Head(op[s].chain)]}
    BY <1>5 DEF ApproveOnce, ApproveSession, db
  <2>4. [at |-> s, item |-> Head(op[s].chain)] \in [at : Sessions, item : Items]
    BY <1>g, <2>1
  <2> QED BY <1>c, <1>e, <1>g, <2>1, <2>2, <2>3, <2>4 DEF Active
<1>6. CASE ApproveInFile(s)
  <2>1. PICK f \in Consults(s) :
           op' = [op EXCEPT ![s] = [op[s] EXCEPT !.at = "load", !.on = f,
                                      !.adds = {Grant(Head(op[s].chain))}]]
    BY <1>6, <1>a DEF ApproveInFile
  <2> DEFINE o == [op[s] EXCEPT !.at = "load", !.on = f, !.adds = {Grant(Head(op[s].chain))}]
  <2>2. op[s].at = "ask" /\ Grant(Head(op[s].chain)) \in Grants
    BY <1>6, <1>g, EntriesApart DEF ApproveInFile
  <2>3. /\ o \in Ops /\ o.at = "load" /\ o.adds \subseteq Grants /\ o.chain = op[s].chain
    BY <1>a, <2>2, EntriesApart DEF Ops, Stages
  <2> HIDE DEF o
  <2>4. Moves(o)
    BY <1>a, <1>f, <1>g, <2>1, <2>2, <2>3 DEF StageOK, Storing, Active, o
  <2>5. UNCHANGED <<file, tmp, standing, clash, granted, ruled, calls, deletes, crashes>>
    BY <1>6 DEF ApproveInFile, db, disk, ghost, count
  <2> QED BY <1>c, <2>2, <2>4, <2>5 DEF Active
<1>7. CASE BeginRepeat(s)
  <2>1. PICK g \in Signatures, at \in {"accept", "reject", "repeat"} :
            op' = [op EXCEPT ![s] = [Idle EXCEPT !.at = at, !.chain = <<g>>]]
    <3>1. \A g : LoopRule(s, g) \subseteq {"accept", "reject"}
      <4>1. \A f, g : OfFile(f, g) \subseteq Verdicts
        BY DEF OfFile, FileVerdicts, Verdicts
      <4>2. \A g : OfSession(s, g) \subseteq Verdicts
        BY <1>c DEF OfSession
      <4> QED BY <4>1, <4>2 DEF LoopRule, OfProject, Verdicts
    <3> QED BY <1>7, <3>1 DEF BeginRepeat
  <2> DEFINE o == [Idle EXCEPT !.at = at, !.chain = <<g>>]
  <2>2. <<g>> \in Seq(Signatures) /\ <<g>> # <<>>
    OBVIOUS
  <2>3. o \in Ops /\ o.at = at /\ o.chain = <<g>>
    BY <1>b, <1>d, <2>2 DEF Ops, Stages
  <2> HIDE DEF o
  <2>4. Moves(o)
    BY <1>a, <2>1, <2>2, <2>3 DEF StageOK, Storing, Active, o
  <2>5. /\ op[s].at = "idle" /\ UNCHANGED <<file, tmp, standing, clash, granted, ruled, deletes, crashes>>
        /\ calls' = calls + 1
    BY <1>7 DEF BeginRepeat, db, disk, ghost
  <2>6. calls' \in Nat /\ deletes' \in Nat /\ crashes' \in Nat /\ op[s].at \notin Active
    BY <1>c, <2>5 DEF Active
  <2> QED BY <1>c, <2>4, <2>5, <2>6
<1>8. CASE VerdictOnce(s) \/ VerdictSession(s)
  <2>1. PICK v \in Verdicts : op' = [op EXCEPT ![s] = [op[s] EXCEPT !.at = v]]
    BY <1>8, <1>a DEF VerdictOnce, VerdictSession, Goto
  <2> DEFINE o == [op[s] EXCEPT !.at = v]
  <2>2. v \in {"accept", "reject"}
    BY DEF Verdicts
  <2>3. o \in Ops /\ o.at = v
    BY <1>a, <2>2 DEF Ops, Stages
  <2> HIDE DEF o
  <2>4. Moves(o)
    BY <1>a, <2>1, <2>2, <2>3 DEF StageOK, Storing, Active, o
  <2>5. /\ op[s].at = "repeat"
        /\ UNCHANGED <<file, tmp, standing, clash, granted, calls, deletes, crashes>>
    BY <1>8 DEF VerdictOnce, VerdictSession, db, disk, ghost, count
  <2>6. Head(op[s].chain) \in Signatures
    BY <2>5, RestOfChain DEF StageOK
  <2>7. \A u \in Verdicts :
           [at |-> s, sig |-> Head(op[s].chain), verdict |-> u]
             \in [at : Sessions, sig : Signatures, verdict : Verdicts]
    BY <2>6
  <2>8. ruled' \subseteq ruled \cup {[at |-> s, sig |-> Head(op[s].chain), verdict |-> u] : u \in Verdicts}
    BY <1>8 DEF VerdictOnce, VerdictSession, db
  <2> QED BY <1>c, <2>4, <2>5, <2>7, <2>8 DEF Active
<1>9. CASE VerdictInFile(s)
  <2>1. PICK v \in Verdicts :
           op' = [op EXCEPT ![s] = [op[s] EXCEPT !.at = "load", !.on = ProjectOf[s],
                    !.adds = {Rule(Head(op[s].chain), v)},
                    !.drops = {Rule(Head(op[s].chain), u) : u \in Verdicts \ {v}}]]
    BY <1>9, <1>a DEF VerdictInFile
  <2> DEFINE o == [op[s] EXCEPT !.at = "load", !.on = ProjectOf[s],
                    !.adds = {Rule(Head(op[s].chain), v)},
                    !.drops = {Rule(Head(op[s].chain), u) : u \in Verdicts \ {v}}]
  <2>2. op[s].at = "repeat"
    BY <1>9 DEF VerdictInFile
  <2>3. Head(op[s].chain) \in Signatures
    BY <2>2, RestOfChain DEF StageOK
  <2>4. \A u \in Verdicts : Rule(Head(op[s].chain), u) \in Rules
    BY <2>3, EntriesApart
  <2>5. ProjectOf[s] \in Files
    BY <1>a
  <2>a. {Rule(Head(op[s].chain), v)} \in SUBSET Entries
    BY <2>4, EntriesApart
  <2>b. {Rule(Head(op[s].chain), u) : u \in Verdicts \ {v}} \in SUBSET Entries
    BY <2>4, EntriesApart
  <2>6. o \in Ops /\ o.at = "load" /\ o.on = ProjectOf[s] /\ o.adds = {Rule(Head(op[s].chain), v)}
    BY <1>a, <2>5, <2>a, <2>b DEF Ops, Stages
  <2> HIDE DEF o
  <2>7. Moves(o)
    BY <1>a, <2>1, <2>4, <2>6 DEF StageOK, Storing, Active, o
  <2>8. UNCHANGED <<file, tmp, standing, clash, granted, ruled, calls, deletes, crashes>>
    BY <1>9 DEF VerdictInFile, db, disk, ghost, count
  <2> QED BY <1>c, <2>2, <2>7, <2>8 DEF Active
<1> QED BY <1>1, <1>2, <1>3, <1>4, <1>5, <1>6, <1>7, <1>8, <1>9 DEF Decide

OpsOK == op \in [Writers -> Ops] /\ \A w \in Writers : StageOK(w, op[w])
Truths == /\ \A w \in Writers : WriteOK(w)
          /\ FileTruth /\ GlobalHasNoRule

LEMMA InvOps ==
    ASSUME ApprovalInv
    PROVE  /\ OpsOK /\ Truths
           /\ file \in [Files -> Contents] /\ tmp \in [Files -> Contents]
           /\ standing \subseteq [at : Files, what : Entries] /\ clash \subseteq Files
BY DEF ApprovalInv, ApprovalTypeOK, Ops, OpsOK, Truths

\* Whoever moves does not come to be in the middle of a write.
LEMMA WritesLeft ==
    ASSUME ApprovalInv,
           op' = [x \in Writers |-> op'[x]],
           \A x \in Writers :
              op'[x] = op[x] \/ (op'[x] \in Ops /\ StageOK(x, op'[x]) /\ op'[x].at \notin Active),
           UNCHANGED <<file, tmp, standing, clash>>
    PROVE  OpsOK' /\ Truths'
<1>1. OpsOK /\ Truths
  BY InvOps
<1>2. OpsOK'
  BY <1>1 DEF OpsOK
<1>3. \A f : Stand(f)' = Stand(f)
  BY DEF Stand
<1>4. \A w \in Writers : WriteOK(w)'
  <2> SUFFICES ASSUME NEW w \in Writers, op'[w].at \in Active PROVE WriteOK(w)'
    BY DEF WriteOK
  <2>1. op'[w] = op[w] /\ WriteOK(w)
    BY <1>1 DEF Truths
  <2>2. \A x \in Writers : op'[x].at \in Active => op'[x] = op[x]
    OBVIOUS
  <2> QED BY <1>3, <2>1, <2>2 DEF WriteOK
<1>5. FileTruth' /\ GlobalHasNoRule'
  BY <1>1, <1>3 DEF Truths, FileTruth, GlobalHasNoRule
<1> QED BY <1>2, <1>4, <1>5 DEF Truths

LEMMA WriterMoves ==
    ASSUME ApprovalInv, NEW w \in Writers, NEW o \in Ops,
           op' = [op EXCEPT ![w] = o], StageOK(w, o), o.at \notin Active,
           UNCHANGED <<file, tmp, standing, clash>>
    PROVE  OpsOK' /\ Truths'
<1>1. op \in [Writers -> Ops]
  BY InvOps DEF OpsOK
<1>2. op' = [x \in Writers |-> op'[x]]
  BY <1>1
<1>3. \A x \in Writers : op'[x] = op[x] \/ (op'[x] \in Ops /\ StageOK(x, op'[x]) /\ op'[x].at \notin Active)
  BY <1>1
<1> QED BY <1>2, <1>3, WritesLeft

LEMMA ContentsTyped ==
    ASSUME NEW E \in SUBSET Entries
    PROVE  /\ Image(E) \in Contents /\ Image(E).has = E
           /\ Blank \in Contents /\ Missing \in Contents
           /\ \A old : Over(old, E) \subseteq Contents
           /\ Over(Blank, E) = {Image(E)}
BY DEF Contents, Image, Over

LEMMA LoadKept ==
    ASSUME ApprovalInv, NEW w \in Writers, Load(w)
    PROVE  /\ OpsOK' /\ Truths' /\ clash' \subseteq Files
           /\ UNCHANGED <<file, tmp, standing, granted, ruled, calls, deletes, crashes>>
<1>a. /\ OpsOK /\ Truths /\ op[w] \in Ops /\ StageOK(w, op[w]) /\ op[w].at = "load"
      /\ file \in [Files -> Contents] /\ clash \subseteq Files
      /\ UNCHANGED <<file, tmp, standing, granted, ruled, calls, deletes, crashes>>
  BY InvOps DEF OpsOK, Load, db, disk, count
<1>1. CASE op' = [op EXCEPT ![w] = Idle] /\ UNCHANGED clash
  <2>1. Idle \in Ops /\ StageOK(w, Idle) /\ Idle.at \notin Active
    BY IdleTyped DEF Active
  <2> QED BY <1>1, <1>a, <2>1, WriterMoves
<1>2. CASE ~ (op' = [op EXCEPT ![w] = Idle] /\ UNCHANGED clash)
  <2> DEFINE f == op[w].on
             img == (file[f].has \ op[w].drops) \cup op[w].adds
             o == [op[w] EXCEPT !.at = "open", !.img = img]
  <2>1. /\ op' = [op EXCEPT ![w] = o]
        /\ clash' = IF Overlaps(w) THEN clash \cup {f} ELSE clash
    BY <1>2 DEF Load, Done, Changed
  <2>2. f \in Files /\ op[w].adds \subseteq Entries
    BY <1>a DEF Ops
  <2>3. file[f].has \subseteq Entries
    <3>1. file[f] \in Contents
      BY <1>a, <2>2
    <3>2. CASE file[f] \in {Missing, Blank, Torn}
      <4>1. file[f].has = {}
        BY <3>2 DEF Missing, Blank, Torn
      <4> QED BY <4>1
    <3>3. ASSUME NEW E \in SUBSET Entries, file[f] = Image(E)
          PROVE  file[f].has \subseteq Entries
      BY <3>3, ContentsTyped
    <3> QED BY <3>1, <3>2, <3>3 DEF Contents
  <2>4. img \in SUBSET Entries
    BY <2>2, <2>3
  <2>5. /\ o \in Ops /\ o.at = "open" /\ o.img = img /\ o.on = f
        /\ o.adds = op[w].adds /\ o.drops = op[w].drops /\ o.chain = op[w].chain
    BY <1>a, <2>4 DEF Ops, Stages
  <2> HIDE DEF o
  <2>6. StageOK(w, o)
    BY <1>a, <2>5 DEF StageOK, Storing
  <2>7. OpsOK'
    BY <1>a, <2>1, <2>5, <2>6 DEF OpsOK
  <2>8. \A g : Stand(g)' = Stand(g)
    BY <1>a DEF Stand
  <2>9. op'[w] = o /\ \A x \in Writers \ {w} : op'[x] = op[x]
    BY <1>a, <2>1 DEF OpsOK
  <2>10. WriteOK(w)'
    <3> SUFFICES ASSUME f \notin clash'
                 PROVE  /\ img = (Stand(f) \ o.drops) \cup o.adds
                        /\ \A x \in Writers \ {w} : op[x].at \in Active => op[x].on # f
      BY <2>5, <2>8, <2>9 DEF WriteOK
    <3>1. f \notin clash /\ ~ Overlaps(w)
      BY <2>1
    <3>2. file[f].has = Stand(f)
      BY <1>a, <2>2, <3>1 DEF Truths, FileTruth
    <3> QED BY <2>5, <3>1, <3>2 DEF Overlaps, Active
  <2>11. ASSUME NEW x \in Writers \ {w} PROVE WriteOK(x)'
    <3> SUFFICES ASSUME op[x].at \in Active, op[x].on \notin clash' PROVE WriteOK(x)'
      BY <2>9 DEF WriteOK
    <3>1. op[x].on # f
      BY <2>1 DEF Overlaps, Active
    <3>2. WriteOK(x) /\ op[x].on \notin clash
      BY <1>a, <2>1 DEF Truths
    <3> QED BY <1>a, <2>5, <2>8, <2>9, <3>1, <3>2 DEF WriteOK
  <2>12. FileTruth' /\ GlobalHasNoRule' /\ clash' \subseteq Files
    BY <1>a, <2>1, <2>2, <2>8 DEF Truths, FileTruth, GlobalHasNoRule
  <2> QED BY <1>a, <2>7, <2>10, <2>11, <2>12 DEF Truths
<1> QED BY <1>1, <1>2

LEMMA OpenKept ==
    ASSUME ApprovalInv, NEW w \in Writers, Open(w)
    PROVE  /\ OpsOK' /\ Truths' /\ tmp' \in [Files -> Contents]
           /\ UNCHANGED <<file, standing, clash, granted, ruled, calls, deletes, crashes>>
<1> DEFINE f == op[w].on
           o == [op[w] EXCEPT !.at = "write", !.fd = "tmp"]
<1>a. /\ OpsOK /\ Truths /\ op[w] \in Ops /\ StageOK(w, op[w]) /\ op[w].at = "open"
      /\ tmp \in [Files -> Contents] /\ f \in Files
      /\ UNCHANGED <<file, standing, clash, granted, ruled, calls, deletes, crashes>>
  BY InvOps DEF OpsOK, Ops, Open, db, ghost, count
<1>1. op' = [op EXCEPT ![w] = o] /\ tmp' = [tmp EXCEPT ![f] = Blank]
  BY DEF Open
<1>2. /\ o \in Ops /\ o.at = "write" /\ o.fd = "tmp" /\ o.img = op[w].img /\ o.on = f
      /\ o.adds = op[w].adds /\ o.drops = op[w].drops /\ o.chain = op[w].chain
  BY <1>a DEF Ops, Stages
<1> HIDE DEF o
<1>3. OpsOK'
  BY <1>a, <1>1, <1>2 DEF OpsOK, StageOK, Storing
<1>4. \A g : Stand(g)' = Stand(g)
  BY <1>a DEF Stand
<1>5. op'[w] = o /\ \A x \in Writers \ {w} : op'[x] = op[x]
  BY <1>a, <1>1 DEF OpsOK
<1>6. WriteOK(w)'
  BY <1>a, <1>1, <1>2, <1>4, <1>5 DEF Truths, WriteOK, Active
<1>7. ASSUME NEW x \in Writers \ {w} PROVE WriteOK(x)'
  <2> SUFFICES ASSUME op[x].at \in Active, op[x].on \notin clash PROVE WriteOK(x)'
    BY <1>a, <1>5 DEF WriteOK
  <2>1. WriteOK(x)
    BY <1>a DEF Truths
  <2>2. op[x].on # f
    BY <1>a, <2>1 DEF WriteOK, Active
  <2>3. tmp'[op[x].on] = tmp[op[x].on]
    BY <1>a, <1>1, <2>2
  <2> QED BY <1>a, <1>2, <1>4, <1>5, <2>1, <2>2, <2>3 DEF WriteOK
<1>8. FileTruth' /\ GlobalHasNoRule'
  BY <1>a, <1>4 DEF Truths, FileTruth, GlobalHasNoRule
<1>9. tmp' \in [Files -> Contents]
  BY <1>a, <1>1, ContentsTyped
<1> QED BY <1>a, <1>3, <1>6, <1>7, <1>8, <1>9 DEF Truths

LEMMA WriteKept ==
    ASSUME ApprovalInv, NEW w \in Writers, Write(w)
    PROVE  /\ OpsOK' /\ Truths'
           /\ file' \in [Files -> Contents] /\ tmp' \in [Files -> Contents]
           /\ UNCHANGED <<standing, clash, granted, ruled, calls, deletes, crashes>>
<1> DEFINE f == op[w].on
           o == [op[w] EXCEPT !.at = "rename", !.fd = "gone"]
<1>a. /\ OpsOK /\ Truths /\ op[w] \in Ops /\ StageOK(w, op[w]) /\ op[w].at = "write"
      /\ file \in [Files -> Contents]
      /\ tmp \in [Files -> Contents] /\ f \in Files /\ op[w].img \in SUBSET Entries
      /\ UNCHANGED <<standing, clash, granted, ruled, calls, deletes, crashes>>
  BY InvOps DEF OpsOK, Ops, Write, db, ghost, count
<1>1. op' = [op EXCEPT ![w] = o]
  BY DEF Write
<1>2. /\ o \in Ops /\ o.at = "rename" /\ o.fd = "gone" /\ o.img = op[w].img /\ o.on = f
      /\ o.adds = op[w].adds /\ o.drops = op[w].drops /\ o.chain = op[w].chain
  BY <1>a DEF Ops, Stages
<1> HIDE DEF o
<1>3. OpsOK'
  BY <1>a, <1>1, <1>2 DEF OpsOK, StageOK, Storing
<1>4. \A g : Stand(g)' = Stand(g)
  BY <1>a DEF Stand
<1>5. op'[w] = o /\ \A x \in Writers \ {w} : op'[x] = op[x]
  BY <1>a, <1>1 DEF OpsOK
\* Only the file that is written changes, or the temporary one beside it.
<1>6. /\ \E c \in Contents : tmp' = [tmp EXCEPT ![f] = c]
      /\ \E c \in Contents : file' = [file EXCEPT ![f] = c]
      /\ op[w].fd = "tmp" => /\ file' = file
                             /\ tmp[f] = Blank => tmp'[f] = Image(op[w].img)
  <2> DEFINE E == op[w].img
  <2>a. E \in SUBSET Entries
    BY <1>a
  <2>b. tmp = [tmp EXCEPT ![f] = tmp[f]] /\ file = [file EXCEPT ![f] = file[f]]
        /\ tmp[f] \in Contents /\ file[f] \in Contents
    BY <1>a
  <2>1. CASE /\ op[w].fd = "tmp" /\ file' = file
             /\ \E c \in Over(tmp[f], E) : tmp' = [tmp EXCEPT ![f] = c]
    <3>1. PICK c \in Over(tmp[f], E) : tmp' = [tmp EXCEPT ![f] = c]
      BY <2>1
    <3>2. c \in Contents /\ (tmp[f] = Blank => c = Image(E))
      BY <2>a, <3>1, ContentsTyped
    <3>3. tmp'[f] = c
      BY <1>a, <3>1
    <3> QED BY <2>1, <2>b, <3>1, <3>2, <3>3
  <2>2. CASE /\ op[w].fd = "file" /\ tmp' = tmp
             /\ \E c \in Over(file[f], E) : file' = [file EXCEPT ![f] = c]
    <3>1. PICK c \in Over(file[f], E) : file' = [file EXCEPT ![f] = c]
      BY <2>2
    <3>2. c \in Contents
      BY <2>a, <3>1, ContentsTyped
    <3> QED BY <2>2, <2>b, <3>1, <3>2
  <2>3. CASE op[w].fd = "gone" /\ file' = file /\ tmp' = tmp
    BY <2>3, <2>b
  <2> QED BY <2>1, <2>2, <2>3 DEF Write, disk
<1>7. /\ file' \in [Files -> Contents] /\ tmp' \in [Files -> Contents]
      /\ \A g \in Files \ {f} : file'[g] = file[g] /\ tmp'[g] = tmp[g]
  BY <1>a, <1>6
<1>8. ASSUME f \notin clash PROVE WriteOK(w)' /\ file' = file
  <2>1. op[w].fd = "tmp" /\ tmp[f] = Blank
    BY <1>a, <1>8 DEF Truths, WriteOK, Active
  <2>2. file' = file /\ tmp'[f] = Image(o.img)
    BY <1>2, <1>6, <2>1
  <2> QED BY <1>a, <1>2, <1>4, <1>5, <1>8, <2>2 DEF Truths, WriteOK, Active
<1>9. WriteOK(w)'
  BY <1>a, <1>2, <1>5, <1>8 DEF WriteOK
<1>10. ASSUME NEW x \in Writers \ {w} PROVE WriteOK(x)'
  <2> SUFFICES ASSUME op[x].at \in Active, op[x].on \notin clash PROVE WriteOK(x)'
    BY <1>a, <1>5 DEF WriteOK
  <2>1. WriteOK(x)
    BY <1>a DEF Truths
  <2>2. op[x].on # f
    BY <1>a, <2>1 DEF WriteOK, Active
  <2>3. op[x].on \in Files
    BY <1>a DEF OpsOK, Ops
  <2>4. tmp'[op[x].on] = tmp[op[x].on]
    BY <1>7, <2>2, <2>3
  <2> QED BY <1>a, <1>2, <1>4, <1>5, <2>1, <2>2, <2>4 DEF WriteOK
<1>11. FileTruth'
  <2> SUFFICES ASSUME NEW g \in Files \ clash PROVE file'[g].has = Stand(g)
    BY <1>a, <1>4 DEF FileTruth
  <2>1. file'[g] = file[g]
    BY <1>7, <1>8
  <2> QED BY <1>a, <2>1 DEF Truths, FileTruth
<1>12. GlobalHasNoRule'
  BY <1>a, <1>4 DEF Truths, GlobalHasNoRule
<1> QED BY <1>a, <1>3, <1>7, <1>9, <1>10, <1>11, <1>12 DEF Truths

LEMMA OneLine ==
    ASSUME NEW f, NEW g, NEW d, NEW e, [at |-> f, what |-> d] = [at |-> g, what |-> e]
    PROVE  f = g /\ d = e
<1>1. [at |-> f, what |-> d].at = f /\ [at |-> f, what |-> d].what = d
  OBVIOUS
<1>2. [at |-> g, what |-> e].at = g /\ [at |-> g, what |-> e].what = e
  OBVIOUS
<1> QED BY <1>1, <1>2

LEMMA RenameKept ==
    ASSUME ApprovalInv, NEW w \in Writers, Rename(w)
    PROVE  /\ OpsOK' /\ Truths'
           /\ file' \in [Files -> Contents] /\ tmp' \in [Files -> Contents]
           /\ standing' \subseteq [at : Files, what : Entries]
           /\ UNCHANGED <<clash, granted, ruled, calls, deletes, crashes>>
<1> DEFINE a == After(w, TRUE)
<1>0. PICK f : f = op[w].on
  OBVIOUS
<1>a. /\ OpsOK /\ Truths /\ op[w] \in Ops /\ StageOK(w, op[w]) /\ op[w].at = "rename"
      /\ file \in [Files -> Contents]
      /\ tmp \in [Files -> Contents] /\ f \in Files
      /\ op[w].adds \subseteq Entries /\ op[w].drops \subseteq Entries
      /\ standing \subseteq [at : Files, what : Entries]
      /\ UNCHANGED <<clash, granted, ruled, calls, deletes, crashes>>
  BY <1>0, InvOps DEF OpsOK, Ops, Rename, db, count
<1>1. /\ file' = [file EXCEPT ![f] = tmp[f]] /\ tmp' = [tmp EXCEPT ![f] = Missing]
      /\ op' = [x \in Writers |-> IF x = w THEN a ELSE Moved(x, f)]
      /\ standing' = (standing \ {[at |-> f, what |-> e] : e \in op[w].drops})
                            \cup {[at |-> f, what |-> e] : e \in op[w].adds}
  BY <1>0 DEF Rename
<1>2. a \in Ops /\ StageOK(w, a) /\ a.at \notin Active
  BY <1>a, AfterStore DEF Storing, Active
<1> HIDE DEF a
<1>3. ASSUME NEW x \in Writers \ {w}
      PROVE  /\ op'[x] \in Ops /\ op'[x].at = op[x].at /\ op'[x].on = op[x].on
             /\ op'[x].chain = op[x].chain /\ op'[x].adds = op[x].adds
             /\ op[x].on # f => op'[x] = op[x]
  <2>1. op[x] \in Ops
    BY <1>a DEF OpsOK
  <2>2. CASE op[x].on # f
    BY <1>1, <2>1, <2>2 DEF Moved
  <2>3. CASE op[x].on = f
    <3> DEFINE fd == IF op[x].fd = "tmp" THEN "file" ELSE "gone"
    <3>1. op'[x] = [op[x] EXCEPT !.fd = fd]
      BY <1>1, <2>3 DEF Moved
    <3>2. fd \in {"tmp", "file", "gone"}
      OBVIOUS
    <3> HIDE DEF fd
    <3> QED BY <2>1, <2>3, <3>1, <3>2 DEF Ops
  <2> QED BY <2>2, <2>3
<1>4. op'[w] = a
  BY <1>1
<1>5. OpsOK'
  <2>1. op' \in [Writers -> Ops]
    BY <1>1, <1>2, <1>3, <1>4
  <2>2. \A x \in Writers : StageOK(x, op'[x])
    BY <1>a, <1>2, <1>3, <1>4 DEF OpsOK, StageOK
  <2> QED BY <2>1, <2>2 DEF OpsOK
<1>6. Stand(f)' = (Stand(f) \ op[w].drops) \cup op[w].adds
  <2>1. ASSUME NEW e \in Entries
        PROVE  [at |-> f, what |-> e] \in standing'
                 <=> ([at |-> f, what |-> e] \in standing /\ e \notin op[w].drops) \/ e \in op[w].adds
    <3>1. \A S : [at |-> f, what |-> e] \in {[at |-> f, what |-> d] : d \in S} <=> e \in S
      <4>1. ASSUME NEW S, NEW d \in S, [at |-> f, what |-> e] = [at |-> f, what |-> d] PROVE e \in S
        <5>1. e = d
          BY <4>1, OneLine
        <5> QED BY <5>1
      <4> QED BY <4>1
    <3> QED BY <1>1, <3>1
  <2>2. \A e : e \in Stand(f)' <=> e \in Entries /\ [at |-> f, what |-> e] \in standing'
    BY DEF Stand
  <2>3. \A e : e \in Stand(f) <=> e \in Entries /\ [at |-> f, what |-> e] \in standing
    BY DEF Stand
  <2>4. ASSUME NEW e PROVE e \in Stand(f)' <=> e \in (Stand(f) \ op[w].drops) \cup op[w].adds
    <3>1. CASE e \in Entries
      BY <2>1, <2>2, <2>3, <3>1
    <3>2. CASE e \notin Entries
      BY <1>a, <2>2, <2>3, <3>2
    <3> QED BY <3>1, <3>2
  <2> QED BY <2>4
<1>7. ASSUME NEW g, g # f PROVE Stand(g)' = Stand(g)
  <2>1. \A e, d : [at |-> g, what |-> e] # [at |-> f, what |-> d]
    BY <1>7, OneLine
  <2>2. ASSUME NEW e PROVE [at |-> g, what |-> e] \in standing' <=> [at |-> g, what |-> e] \in standing
    BY <1>1, <2>1
  <2> QED BY <2>2 DEF Stand
<1>8. ASSUME NEW x \in Writers PROVE WriteOK(x)'
  <2> SUFFICES ASSUME x # w, op[x].at \in Active, op[x].on \notin clash PROVE WriteOK(x)'
    BY <1>a, <1>2, <1>3, <1>4 DEF WriteOK
  <2>1. WriteOK(x)
    BY <1>a DEF Truths
  <2>2. op[x].on # f
    BY <1>0, <1>a, <2>1 DEF WriteOK, Active
  <2>3. op[x].on \in Files
    BY <1>a DEF OpsOK, Ops
  <2>4. tmp'[op[x].on] = tmp[op[x].on] /\ op'[x] = op[x] /\ Stand(op[x].on)' = Stand(op[x].on)
    BY <1>a, <1>1, <1>3, <1>7, <2>2, <2>3
  <2>5. \A y \in Writers \ {x} : op'[y].at \in Active =>
           y # w /\ op[y].at \in Active /\ op'[y].on = op[y].on
    BY <1>2, <1>3, <1>4
  <2> QED BY <1>a, <2>1, <2>4, <2>5 DEF WriteOK
<1>9. FileTruth'
  <2> SUFFICES ASSUME NEW g \in Files \ clash PROVE file'[g].has = Stand(g)'
    BY <1>a DEF FileTruth
  <2>1. CASE g # f
    BY <1>a, <1>1, <1>7, <2>1 DEF Truths, FileTruth
  <2>2. CASE g = f
    <3>1. /\ op[w].img = (Stand(f) \ op[w].drops) \cup op[w].adds
          /\ tmp[f] = Image(op[w].img)
      BY <1>0, <1>a, <2>2 DEF Truths, WriteOK, Active
    <3>2. file'[f] = Image(op[w].img) /\ op[w].img \in SUBSET Entries
      BY <1>a, <1>1, <3>1 DEF Ops
    <3>3. Image(op[w].img).has = op[w].img
      BY <3>2, ContentsTyped
    <3>4. file'[g].has = op[w].img
      BY <2>2, <3>2, <3>3
    <3>5. Stand(g)' = Stand(f)'
      BY <2>2 DEF Stand
    <3> QED BY <1>6, <3>1, <3>4, <3>5
  <2> QED BY <2>1, <2>2
<1>10. GlobalHasNoRule'
  <2>1. CASE f # Global
    BY <1>a, <1>7, <2>1 DEF Truths, GlobalHasNoRule
  <2>2. CASE f = Global
    <3>1. op[w].adds \subseteq Grants
      BY <1>0, <1>a, <2>2 DEF StageOK, Storing
    <3>2. Stand(Global)' = Stand(f)' /\ Stand(Global) = Stand(f)
      BY <1>a, <2>2 DEF Stand
    <3>3. \A e \in Stand(Global) : e \in Grants
      BY <1>a DEF Truths, GlobalHasNoRule
    <3> QED BY <1>6, <3>1, <3>2, <3>3 DEF GlobalHasNoRule
  <2> QED BY <2>1, <2>2
<1>11. file' \in [Files -> Contents] /\ tmp' \in [Files -> Contents]
  BY <1>a, <1>1, ContentsTyped
<1>12. standing' \subseteq [at : Files, what : Entries]
  BY <1>a, <1>1
<1> QED BY <1>a, <1>5, <1>8, <1>9, <1>10, <1>11, <1>12 DEF Truths

LEMMA StoreFailsKept ==
    ASSUME ApprovalInv, NEW w \in Writers, StoreFails(w)
    PROVE  /\ OpsOK' /\ Truths'
           /\ UNCHANGED <<file, tmp, standing, clash, granted, ruled, calls, deletes, crashes>>
<1>1. /\ op[w] \in Ops /\ StageOK(w, op[w]) /\ op[w].at \in Active
      /\ op' = [op EXCEPT ![w] = After(w, FALSE)]
      /\ UNCHANGED <<file, tmp, standing, clash, granted, ruled, calls, deletes, crashes>>
  BY InvOps DEF OpsOK, StoreFails, Active, db, disk, ghost, count
<1>2. /\ After(w, FALSE) \in Ops /\ StageOK(w, After(w, FALSE))
      /\ After(w, FALSE).at \notin Active
  BY <1>1, AfterStore DEF Active, Storing
<1> QED BY <1>1, <1>2, WriterMoves

LEMMA StartDeleteKept ==
    ASSUME ApprovalInv, StartDelete
    PROVE  /\ OpsOK' /\ Truths' /\ deletes' \in Nat
           /\ UNCHANGED <<file, tmp, standing, clash, granted, ruled, calls, crashes>>
<1>1. PICK f \in Files, e \in Entries :
         op' = [op EXCEPT ![Pane] = [Idle EXCEPT !.at = "load", !.on = f, !.drops = {e}]]
  BY DEF StartDelete
<1> DEFINE o == [Idle EXCEPT !.at = "load", !.on = f, !.drops = {e}]
<1>0. op' = [op EXCEPT ![Pane] = o]
  BY <1>1
<1>2. Idle \in Ops /\ Idle.adds = {}
  BY IdleTyped DEF Idle
<1>3. o \in Ops /\ o.at = "load" /\ o.adds = {}
  BY <1>2 DEF Ops, Stages
<1> HIDE DEF o
<1>4. StageOK(Pane, o) /\ o.at \notin Active
  BY <1>3 DEF StageOK, Storing, Active
<1>5. /\ deletes' = deletes + 1 /\ deletes \in Nat
      /\ UNCHANGED <<file, tmp, standing, clash, granted, ruled, calls, crashes>>
  BY DEF StartDelete, db, disk, ghost, ApprovalInv, ApprovalTypeOK
<1>6. Pane \in Writers
  BY DEF Writers
<1>7. OpsOK' /\ Truths'
  BY <1>0, <1>3, <1>4, <1>5, <1>6, WriterMoves
<1>8. deletes' \in Nat
  BY <1>5
<1> QED BY <1>5, <1>7, <1>8

LEMMA CrashKept ==
    ASSUME ApprovalInv, Crash
    PROVE  /\ OpsOK' /\ Truths' /\ crashes' \in Nat
           /\ UNCHANGED <<file, tmp, standing, clash, granted, ruled, calls, deletes>>
<1>1. /\ op' = [x \in Writers |-> IF x = Pane THEN op[x] ELSE Idle]
      /\ crashes' = crashes + 1 /\ crashes \in Nat
      /\ UNCHANGED <<file, tmp, standing, clash, granted, ruled, calls, deletes>>
  BY DEF Crash, db, disk, ghost, ApprovalInv, ApprovalTypeOK
<1>2. op' = [x \in Writers |-> op'[x]]
  BY <1>1
<1>3. \A x \in Writers :
         op'[x] = op[x] \/ (op'[x] \in Ops /\ StageOK(x, op'[x]) /\ op'[x].at \notin Active)
  BY <1>1, IdleTyped DEF Active
<1> QED BY <1>1, <1>2, <1>3, WritesLeft

LEMMA ApprovalInvOf ==
    ASSUME OpsOK, Truths,
           granted \subseteq [at : Sessions, item : Items],
           ruled \subseteq [at : Sessions, sig : Signatures, verdict : Verdicts],
           file \in [Files -> Contents], tmp \in [Files -> Contents],
           standing \subseteq [at : Files, what : Entries], clash \subseteq Files,
           calls \in Nat, deletes \in Nat, crashes \in Nat
    PROVE  ApprovalInv
BY DEF ApprovalInv, OpsOK, Truths, ApprovalTypeOK, Ops

LEMMA ApprovalStarts ==
    ASSUME ApprovalInit
    PROVE  ApprovalInv
<1>1. /\ granted = {} /\ ruled = {} /\ standing = {} /\ clash = {}
      /\ calls = 0 /\ deletes = 0 /\ crashes = 0
      /\ file = [f \in Files |-> Missing] /\ tmp = [f \in Files |-> Missing]
      /\ op = [w \in Writers |-> Idle]
  BY DEF ApprovalInit
<1>2. OpsOK
  BY <1>1, IdleTyped DEF OpsOK
<1>3. \A f : Stand(f) = {}
  BY <1>1 DEF Stand
<1>4. Truths
  <2>1. \A w \in Writers : op[w].at \notin Active
    BY <1>1, IdleTyped DEF Active
  <2>2. \A f \in Files : file[f].has = {}
    BY <1>1 DEF Missing
  <2> QED BY <1>3, <2>1, <2>2 DEF Truths, WriteOK, FileTruth, GlobalHasNoRule
<1>5. file \in [Files -> Contents] /\ tmp \in [Files -> Contents]
  BY <1>1 DEF Contents
<1> QED BY <1>1, <1>2, <1>4, <1>5, ApprovalInvOf

LEMMA ApprovalStep ==
    ASSUME ApprovalInv, [ApprovalNext]_approvalVars
    PROVE  ApprovalInv'
<1>a. /\ granted \subseteq [at : Sessions, item : Items]
      /\ ruled \subseteq [at : Sessions, sig : Signatures, verdict : Verdicts]
      /\ file \in [Files -> Contents] /\ tmp \in [Files -> Contents]
      /\ standing \subseteq [at : Files, what : Entries] /\ clash \subseteq Files
      /\ calls \in Nat /\ deletes \in Nat /\ crashes \in Nat
  BY DEF ApprovalInv, ApprovalTypeOK
<1> DEFINE Rest == /\ (granted \subseteq [at : Sessions, item : Items])'
                   /\ (ruled \subseteq [at : Sessions, sig : Signatures, verdict : Verdicts])'
                   /\ file' \in [Files -> Contents] /\ tmp' \in [Files -> Contents]
                   /\ standing' \subseteq [at : Files, what : Entries]
                   /\ clash' \subseteq Files
                   /\ calls' \in Nat /\ deletes' \in Nat /\ crashes' \in Nat
<1>b. ASSUME OpsOK', Truths', Rest PROVE ApprovalInv'
  BY <1>b, ApprovalInvOf DEF ApprovalInv, OpsOK, Truths, ApprovalTypeOK, Ops
<1>1. ASSUME NEW s \in Sessions, Decide(s) PROVE ApprovalInv'
  <2>1. s \in Writers /\ StageOK(s, op[s]) /\ ApprovalTypeOK
    BY InvOps DEF Writers, OpsOK, ApprovalInv
  <2>2. PICK o \in Ops : op' = [op EXCEPT ![s] = o] /\ StageOK(s, o) /\ o.at \notin Active
    BY <1>1, <2>1, DecideTyped
  <2>3. /\ UNCHANGED <<file, tmp, standing, clash>>
        /\ granted' \subseteq [at : Sessions, item : Items]
        /\ ruled' \subseteq [at : Sessions, sig : Signatures, verdict : Verdicts]
        /\ calls' \in Nat /\ deletes' \in Nat /\ crashes' \in Nat
    BY <1>1, <2>1, DecideTyped
  <2>4. OpsOK' /\ Truths'
    BY <2>1, <2>2, <2>3, WriterMoves
  <2> QED BY <1>a, <1>b, <2>3, <2>4
<1>2. ASSUME NEW w \in Writers, Store(w) PROVE ApprovalInv'
  <2>1. CASE Load(w)
    BY <1>a, <1>b, <2>1, LoadKept
  <2>2. CASE Open(w)
    BY <1>a, <1>b, <2>2, OpenKept
  <2>3. CASE Write(w)
    BY <1>a, <1>b, <2>3, WriteKept
  <2>4. CASE Rename(w)
    BY <1>a, <1>b, <2>4, RenameKept
  <2>5. CASE StoreFails(w)
    BY <1>a, <1>b, <2>5, StoreFailsKept
  <2> QED BY <1>2, <2>1, <2>2, <2>3, <2>4, <2>5 DEF Store
<1>3. CASE StartDelete
  BY <1>a, <1>b, <1>3, StartDeleteKept
<1>4. CASE Crash
  BY <1>a, <1>b, <1>4, CrashKept
<1>5. CASE UNCHANGED approvalVars
  <2>1. UNCHANGED <<granted, ruled, file, tmp, op, standing, clash, calls, deletes, crashes>>
    BY <1>5 DEF approvalVars, db, disk, ghost, count
  <2>2. op' = [x \in Writers |-> op'[x]]
    BY <2>1, InvOps DEF OpsOK
  <2>3. OpsOK' /\ Truths'
    BY <2>1, <2>2, WritesLeft
  <2> QED BY <1>a, <1>b, <2>1, <2>3
<1> QED BY <1>1, <1>2, <1>3, <1>4, <1>5 DEF ApprovalNext

\* A file on which no two writers have overlapped holds exactly the decisions that were
\* recorded in it and not removed, wherever the daemon has died, and the user's file
\* holds no verdict on a repeat.
THEOREM ApprovalInvariance ==
    ApprovalSpec => []ApprovalInv
<1>1. ApprovalInit => ApprovalInv
  BY ApprovalStarts
<1>2. ApprovalInv /\ [ApprovalNext]_approvalVars => ApprovalInv'
  BY ApprovalStep
<1> QED BY <1>1, <1>2, PTL DEF ApprovalSpec

\* What a step does to the call a session decides, unless it decides it or stores for it.
LEMMA CallMoves ==
    ASSUME ApprovalInv, [ApprovalNext]_approvalVars, NEW s \in Sessions
    PROVE  \/ Decide(s)
           \/ op[s].at \in Storing
           \/ op'[s].at = op[s].at /\ op'[s].chain = op[s].chain
           \/ op'[s].at = "idle" /\ op'[s].chain = <<>>
<1>a. /\ s \in Writers /\ s # Pane /\ op \in [Writers -> Ops] /\ ApprovalTypeOK
      /\ \A w \in Writers : StageOK(w, op[w])
  BY InvOps, SessionsAssumption, ItemsAssumption, BoundsAssumption DEF Writers, OpsOK, ApprovalInv
<1> DEFINE Same == op'[s].at = op[s].at /\ op'[s].chain = op[s].chain
<1>b. ASSUME NEW w, NEW o, op' = [op EXCEPT ![w] = o], w # s PROVE Same
  BY <1>a, <1>b
<1>1. ASSUME NEW t \in Sessions, Decide(t), t # s PROVE Same
  <2>1. \E o \in Ops : op' = [op EXCEPT ![t] = o]
    BY <1>a, <1>1, DecideTyped DEF Writers
  <2> QED BY <1>b, <1>1, <2>1
<1>2. ASSUME NEW w \in Writers, Store(w), w # s PROVE Same
  <2>1. CASE Load(w) \/ Open(w) \/ Write(w) \/ StoreFails(w)
    <3>1. \E o : op' = [op EXCEPT ![w] = o]
      BY <1>a, <2>1 DEF Load, Open, Write, StoreFails, Done
    <3> QED BY <1>b, <1>2, <3>1
  <2>2. CASE Rename(w)
    <3>1. op'[s] = Moved(s, op[w].on)
      BY <1>a, <1>2, <2>2 DEF Rename
    <3>2. op[s] \in Ops
      BY <1>a
    <3> QED BY <3>1, <3>2 DEF Moved, Ops
  <2> QED BY <1>2, <2>1, <2>2 DEF Store
<1>3. ASSUME Store(s) PROVE op[s].at \in Storing
  BY <1>3 DEF Store, Load, Open, Write, Rename, StoreFails, Storing
<1>4. CASE StartDelete
  <2>1. \E o : op' = [op EXCEPT ![Pane] = o]
    BY <1>4 DEF StartDelete
  <2> QED BY <1>a, <1>b, <2>1
<1>5. CASE Crash
  <2>1. op'[s] = Idle
    BY <1>a, <1>5 DEF Crash
  <2> QED BY <2>1 DEF Idle
<1>6. CASE UNCHANGED approvalVars
  BY <1>6 DEF approvalVars
<1> QED BY <1>1, <1>2, <1>3, <1>4, <1>5, <1>6 DEF ApprovalNext

\* On files no two writers overlapped on, what is read is what stands.
LEMMA FilesTrue ==
    ASSUME ApprovalInv, NEW s \in Sessions, Undisturbed(s),
           NEW f \in Consults(s)
    PROVE  \A e \in Entries : e \in file[f].has <=> Says(f, e)
<1>1. f \in Files \ clash
  BY SessionsAssumption, ItemsAssumption, BoundsAssumption DEF Consults, Undisturbed, Files
<1>2. file[f].has = Stand(f)
  BY <1>1 DEF ApprovalInv, FileTruth
<1> QED BY <1>2 DEF Stand, Says

LEMMA GrantedIsRemembered ==
    ASSUME ApprovalInv, NEW s \in Sessions, Undisturbed(s),
           NEW k \in Items
    PROVE  Granted(s, k) <=> Remembered(s, k)
<1>1. ASSUME NEW g \in Covers[k] PROVE Grant(g) \in Entries
  BY EntriesApart, SessionsAssumption, ItemsAssumption, BoundsAssumption
<1>2. \A g \in Covers[k], f \in Consults(s) :
         Grant(g) \in file[f].has <=> Says(f, Grant(g))
  BY <1>1, FilesTrue
<1> QED BY <1>2 DEF Granted, Remembered, SessionHas

\* Of a session that checks, the next item and what becomes of the chain.
LEMMA ChecksItem ==
    ASSUME ApprovalInv, NEW s \in Sessions, op[s].at = "check",
           op[s].chain # <<>>
    PROVE  Head(op[s].chain) \in Items
<1>1. StageOK(s, op[s])
  BY DEF ApprovalInv, Writers
<1> QED BY <1>1, RestOfChain DEF StageOK

LEMMA DecideFromCheck ==
    ASSUME NEW s \in Sessions, op[s].at = "check", Decide(s)
    PROVE  Pass(s) \/ Prompt(s) \/ Allow(s)
BY DEF Decide, Begin, Deny, ApproveOnce, ApproveSession,
       ApproveInFile, BeginRepeat, VerdictOnce, VerdictSession,
       VerdictInFile, Return, Verdicts

\* A command or path passes without a prompt only on a decision the human made to
\* remember, for this session, its project or everywhere, and has not removed; a wrapper
\* never does (Approver::approve_command, approve_path).
THEOREM ApprovalNeedsConsent ==
    ApprovalSpec => PassesOnConsent
<1> DEFINE Consented ==
             \A s \in Sessions :
                 op[s].at = "check" /\ op'[s].at = "check" /\ op'[s].chain # op[s].chain =>
                    LET k == Head(op[s].chain) IN
                    /\ k \notin Wrappers
                    /\ Undisturbed(s) => Remembered(s, k)
<1>1. ASSUME ApprovalInv, [ApprovalNext]_approvalVars PROVE Consented
  <2> SUFFICES ASSUME NEW s \in Sessions,
                      op[s].at = "check", op'[s].at = "check", op'[s].chain # op[s].chain
               PROVE  /\ Head(op[s].chain) \notin Wrappers
                      /\ Undisturbed(s) => Remembered(s, Head(op[s].chain))
    OBVIOUS
  <2>1. Decide(s)
    BY <1>1, CallMoves DEF Storing
  <2>2. op \in [Writers -> Ops] /\ s \in Writers
    BY <1>1, InvOps DEF OpsOK, Writers
  <2>3. ~ Prompt(s) /\ ~ Allow(s)
    BY <2>2 DEF Prompt, Allow, Goto, Done, Idle, Ops
  <2>4. Pass(s)
    BY <2>1, <2>3, DecideFromCheck
  <2>5. /\ op[s].chain # <<>> /\ Head(op[s].chain) \notin Wrappers
        /\ Granted(s, Head(op[s].chain))
    BY <2>4 DEF Pass
  <2>6. Head(op[s].chain) \in Items
    BY <1>1, <2>5, ChecksItem
  <2> QED BY <1>1, <2>5, <2>6, GrantedIsRemembered
<1>2. ApprovalInv /\ [ApprovalNext]_approvalVars => [Consented]_approvalVars
  BY <1>1
<1>3. ApprovalSpec => []ApprovalInv
  BY ApprovalInvariance
<1> QED BY <1>2, <1>3, PTL DEF ApprovalSpec, PassesOnConsent

\* "Records grants so a future access skips the prompt": the human is not asked again for
\* what has been recorded and not removed, by whatever session shares the scope, and
\* across a death of the daemon between any two steps of a write.
THEOREM ApprovalAsksOnce ==
    ApprovalSpec => AsksOnce
<1> DEFINE Asked ==
             \A s \in Sessions :
                 op[s].at = "check" /\ op'[s].at = "ask" /\ Undisturbed(s) =>
                    LET k == Head(op[s].chain) IN k \in Wrappers \/ ~ Remembered(s, k)
<1>1. ASSUME ApprovalInv, [ApprovalNext]_approvalVars PROVE Asked
  <2> SUFFICES ASSUME NEW s \in Sessions,
                      op[s].at = "check", op'[s].at = "ask", Undisturbed(s)
               PROVE  Head(op[s].chain) \in Wrappers \/ ~ Remembered(s, Head(op[s].chain))
    OBVIOUS
  <2>1. Decide(s)
    BY <1>1, CallMoves DEF Storing
  <2>2. op \in [Writers -> Ops] /\ s \in Writers
    BY <1>1, InvOps DEF OpsOK, Writers
  <2>3. ~ Pass(s)
    <3>1. Pass(s) => op' = [op EXCEPT ![s].chain = Tail(@)]
      BY DEF Pass
    <3>2. Pass(s) => op'[s].at = "check"
      BY <3>1, <2>2 DEF Ops
    <3> QED BY <3>2
  <2>4. ~ Allow(s)
    BY <2>2 DEF Allow, Done, Idle
  <2>5. Prompt(s)
    BY <2>1, <2>3, <2>4, DecideFromCheck
  <2>6. /\ op[s].chain # <<>>
        /\ Head(op[s].chain) \in Wrappers \/ ~ Granted(s, Head(op[s].chain))
    BY <2>5 DEF Prompt
  <2>7. Head(op[s].chain) \in Items
    BY <1>1, <2>6, ChecksItem
  <2> QED BY <1>1, <2>6, <2>7, GrantedIsRemembered
<1>2. ApprovalInv /\ [ApprovalNext]_approvalVars => [Asked]_approvalVars
  BY <1>1
<1>3. ApprovalSpec => []ApprovalInv
  BY ApprovalInvariance
<1> QED BY <1>2, <1>3, PTL DEF ApprovalSpec, AsksOnce

\* The rule that decides a repeat is that of the nearest scope.
LEMMA NearestDecides ==
    ASSUME ApprovalInv, NEW s \in Sessions, Undisturbed(s),
           NEW g \in Signatures
    PROVE  /\ LoopRule(s, g) \subseteq NearestRules(s, g)
           /\ LoopRule(s, g) = {} => NearestRules(s, g) = {}
<1> DEFINE own == {v \in Verdicts : [at |-> s, sig |-> g, verdict |-> v] \in ruled}
           projects == {v \in Verdicts : Says(ProjectOf[s], Rule(g, v))}
<1>1. OfSession(s, g) = own
  <2>1. ruled \subseteq [at : Sessions, sig : Signatures, verdict : Verdicts]
    BY DEF ApprovalInv, ApprovalTypeOK
  <2>2. ASSUME NEW r \in ruled, r.at = s, r.sig = g
        PROVE  r.verdict \in Verdicts /\ r = [at |-> s, sig |-> g, verdict |-> r.verdict]
    <3>1. r \in [at : Sessions, sig : Signatures, verdict : Verdicts]
      BY <2>1
    <3> QED BY <2>2, <3>1
  <2>3. OfSession(s, g) \subseteq own
    BY <2>2 DEF OfSession
  <2>4. ASSUME NEW v \in own PROVE v \in OfSession(s, g)
    <3> DEFINE r == [at |-> s, sig |-> g, verdict |-> v]
    <3>1. r \in ruled /\ r.at = s /\ r.sig = g /\ r.verdict = v
      OBVIOUS
    <3> QED BY <3>1 DEF OfSession
  <2> QED BY <2>3, <2>4
<1>2. \A v \in Verdicts, f \in Consults(s) :
         Rule(g, v) \in file[f].has <=> Says(f, Rule(g, v))
  BY FilesTrue, EntriesApart
<1>3. ProjectOf[s] \in Consults(s) /\ Global \in Consults(s)
  BY DEF Consults
<1>4. FileVerdicts(ProjectOf[s], g) = projects
  BY <1>2, <1>3 DEF FileVerdicts
<1>5. OfProject(s, g) \subseteq projects /\ (OfProject(s, g) = {} => projects = {})
  BY <1>4 DEF OfProject, OfFile
<1>6. OfFile(Global, g) = {}
  <2>1. ASSUME NEW v \in Verdicts PROVE ~ Says(Global, Rule(g, v))
    <3>1. Rule(g, v) \in Entries /\ Rule(g, v) \notin Grants
      BY EntriesApart
    <3> QED BY <3>1 DEF ApprovalInv, GlobalHasNoRule, Stand, Says
  <2>2. FileVerdicts(Global, g) = {}
    BY <1>2, <1>3, <2>1 DEF FileVerdicts
  <2> QED BY <2>2 DEF OfFile
<1> QED BY <1>1, <1>5, <1>6 DEF LoopRule, NearestRules

\* "Session > project > global": a repeat gets the verdict of the nearest scope in which
\* the human left one, and is asked for or rejected if there is none
\* (Approver::approve_repeat, loop_rule).
THEOREM ApprovalHonoursRules ==
    ApprovalSpec => RulesHonoured
<1> DEFINE Honoured ==
             \A s \in Sessions, g \in Signatures :
                 op[s].at = "idle" /\ op'[s].chain = <<g>> /\ Undisturbed(s) =>
                    op'[s].at \in IF NearestRules(s, g) # {} THEN NearestRules(s, g)
                                  ELSE {"repeat", "reject"}
<1>1. ASSUME ApprovalInv, [ApprovalNext]_approvalVars PROVE Honoured
  <2> SUFFICES ASSUME NEW s \in Sessions, NEW g \in Signatures,
                      op[s].at = "idle", op'[s].chain = <<g>>, Undisturbed(s)
               PROVE  op'[s].at \in IF NearestRules(s, g) # {} THEN NearestRules(s, g)
                                    ELSE {"repeat", "reject"}
    OBVIOUS
  <2>1. op \in [Writers -> Ops] /\ s \in Writers /\ op[s].chain = <<>>
    BY <1>1, InvOps DEF OpsOK, Writers, StageOK
  <2>a. op'[s].chain # <<>> /\ op[s].at \notin Storing
    BY DEF Storing
  <2>2. Decide(s)
    BY <1>1, <2>1, <2>a, CallMoves
  <2>3. Begin(s) \/ BeginRepeat(s)
    BY <2>2 DEF Decide, Pass, Prompt, Allow, Deny, ApproveOnce,
       ApproveSession, ApproveInFile, VerdictOnce, VerdictSession,
       VerdictInFile, Return, Verdicts
  <2>4. ~ Begin(s)
    <3>1. ASSUME Begin(s) PROVE FALSE
      <4>1. PICK r \in Requests : op' = [op EXCEPT ![s] = [Idle EXCEPT !.at = "check", !.chain = r]]
        BY <3>1 DEF Begin
      <4>2. op'[s].chain = r
        BY <2>1, <4>1 DEF Idle
      <4>3. r \in Seq(Items) /\ r = <<g>>
        BY <4>2, SessionsAssumption, ItemsAssumption, BoundsAssumption
      <4>4. g \in Items
        BY <4>3
      <4> QED BY <4>4, SessionsAssumption, ItemsAssumption, BoundsAssumption
    <3> QED BY <3>1
  <2>5. PICK h \in Signatures, interactive \in BOOLEAN :
           \E at \in IF LoopRule(s, h) # {} THEN LoopRule(s, h)
                     ELSE IF interactive THEN {"repeat"} ELSE {"reject"} :
              op' = [op EXCEPT ![s] = [Idle EXCEPT !.at = at, !.chain = <<h>>]]
    BY <2>3, <2>4 DEF BeginRepeat
  <2>6. PICK at \in IF LoopRule(s, h) # {} THEN LoopRule(s, h)
                     ELSE IF interactive THEN {"repeat"} ELSE {"reject"} :
              op' = [op EXCEPT ![s] = [Idle EXCEPT !.at = at, !.chain = <<h>>]]
    BY <2>5
  <2>7. op'[s].chain = <<h>> /\ op'[s].at = at
    BY <2>1, <2>6 DEF Idle
  <2>8. h = g
    BY <2>7
  <2> QED BY <1>1, <2>6, <2>7, <2>8, NearestDecides
<1>2. ApprovalInv /\ [ApprovalNext]_approvalVars => [Honoured]_approvalVars
  BY <1>1
<1>3. ApprovalSpec => []ApprovalInv
  BY ApprovalInvariance
<1> QED BY <1>2, <1>3, PTL DEF ApprovalSpec, RulesHonoured
=============================================================================
