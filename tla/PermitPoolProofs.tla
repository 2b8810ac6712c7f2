-------------------------- MODULE PermitPoolProofs --------------------------
(***************************************************************************)
(* Safety of the permit pool for any number of tasks, any clamp and any    *)
(* schedule of acquire, drop, set_max and cancellation.                    *)
(***************************************************************************)
EXTENDS PermitPoolContract, FiniteSetTheorems, SequenceTheorems, TLAPS

Permitted == {"granted", "holding"}

\* The inductive invariant: neither the accounting nor the wake-up argument
\* survives a pop unless the queue is known to hold each waiting task once.
IInv == TypeOK /\ Accounting /\ NoLostWakeup /\ QueuedOnce

-----------------------------------------------------------------------------

\* Clamping yields a legal maximum.
LEMMA ClampType == ASSUME NEW n \in Nat PROVE Clamp(n) \in 1..MaxPermits
  BY MaxPermitsAssumption DEF Clamp

\* Sets of tasks are finite, so their cardinalities are numbers.
LEMMA TaskSets == ASSUME NEW S \in SUBSET Tasks
                  PROVE  IsFiniteSet(S) /\ Cardinality(S) \in Nat
  BY TasksAssumption, FS_Subset, FS_CardinalityType

\* Popping one more sender wakes at most one more task.
LEMMA WokenGrows ==
  ASSUME TypeOK, NEW k \in 1..Len(waiters)
  PROVE  Cardinality(Woken(k)) <= Cardinality(Woken(k - 1)) + 1
<1>1. Woken(k) \in SUBSET (Woken(k - 1) \cup {waiters[k]})
  BY DEF Woken, TypeOK
<1>2. Woken(k - 1) \in SUBSET Tasks /\ Woken(k) \in SUBSET Tasks
  BY DEF Woken
<1>3. /\ IsFiniteSet(Woken(k - 1)) /\ Cardinality(Woken(k - 1)) \in Nat
      /\ Cardinality(Woken(k)) \in Nat
  BY <1>2, TaskSets
<1>4. /\ IsFiniteSet(Woken(k - 1) \cup {waiters[k]})
      /\ Cardinality(Woken(k - 1) \cup {waiters[k]}) <= Cardinality(Woken(k - 1)) + 1
  <2>1. IsFiniteSet(Woken(k - 1) \cup {waiters[k]})
    BY <1>3, FS_AddElement
  <2>2. Cardinality(Woken(k - 1) \cup {waiters[k]}) =
          IF waiters[k] \in Woken(k - 1) THEN Cardinality(Woken(k - 1))
                                         ELSE Cardinality(Woken(k - 1)) + 1
    BY <1>3, FS_AddElement
  <2> QED
    BY <2>1, <2>2, <1>3
<1>5. Cardinality(Woken(k)) <= Cardinality(Woken(k - 1) \cup {waiters[k]})
  BY <1>1, <1>4, FS_Subset
<1>6. Cardinality(Woken(k - 1) \cup {waiters[k]}) \in Nat
  BY <1>4, FS_CardinalityType
<1> QED
  BY <1>3, <1>4, <1>5, <1>6

\* What one run of grant_waiters establishes, from any counter value i and any
\* statuses s that agree with the queue: the queue stays exact, every wake-up
\* is paid for by one permit, and the pool is full or nobody waits.
LEMMA Granting ==
  ASSUME TypeOK, QueuedOnce,
         NEW m \in Nat, NEW i \in Nat, NEW s \in [Tasks -> Status],
         \A t \in Tasks : s[t] = "waiting" <=> st[t] = "waiting",
         i = Cardinality({t \in Tasks : s[t] \in Permitted}) + lost,
         GrantWaiters(m, i, s)
  PROVE  /\ inflight' \in Nat
         /\ waiters' \in Seq(Tasks \cup {Dead})
         /\ st' \in [Tasks -> Status]
         /\ QueuedOnce'
         /\ inflight' = Cardinality({t \in Tasks : st'[t] \in Permitted}) + lost
         /\ waiters' # <<>> => inflight' >= m
         /\ inflight' > i => inflight' <= m
<1> DEFINE Had == {t \in Tasks : s[t] \in Permitted}
<1>1. PICK k \in 0..Len(waiters) :
        /\ k = Len(waiters) \/ i + Cardinality(Woken(k)) >= m
        /\ k > 0 => i + Cardinality(Woken(k - 1)) < m
        /\ waiters' = SubSeq(waiters, k + 1, Len(waiters))
        /\ inflight' = i + Cardinality(Woken(k))
        /\ st' = [t \in Tasks |-> IF t \in Woken(k) THEN "granted" ELSE s[t]]
  BY DEF GrantWaiters
<1>2. waiters \in Seq(Tasks \cup {Dead}) /\ Len(waiters) \in Nat /\ lost \in Nat
  BY DEF TypeOK
<1>3. Woken(k) \in SUBSET Tasks /\ Had \in SUBSET Tasks
  BY DEF Woken
<1>4. /\ IsFiniteSet(Woken(k)) /\ Cardinality(Woken(k)) \in Nat
      /\ IsFiniteSet(Had) /\ Cardinality(Had) \in Nat
  BY <1>3, TaskSets
<1>5. inflight' \in Nat
  BY <1>1, <1>4
<1>6. st' \in [Tasks -> Status]
  BY <1>1 DEF Status
<1>7. /\ waiters' \in Seq(Tasks \cup {Dead})
      /\ Len(waiters') = Len(waiters) - k
      /\ \A j \in 1..Len(waiters') : waiters'[j] = waiters[k + j]
  BY <1>1, <1>2, SubSeqProperties
<1>8. DOMAIN waiters' = 1..(Len(waiters) - k) /\ DOMAIN waiters = 1..Len(waiters)
  BY <1>2, <1>7
<1>9. QueuedOnce'
  <2>1. ASSUME NEW t \in Tasks
        PROVE  (st'[t] = "waiting") <=> \E j \in DOMAIN waiters' : waiters'[j] = t
    <3>1. t # Dead
      BY TasksAssumption
    <3>2. CASE t \in Woken(k)
      <4>1. PICK j \in 1..k : waiters[j] = t
        BY <3>2 DEF Woken
      <4>2. st'[t] = "granted"
        BY <1>1, <3>2
      <4>3. ASSUME NEW n \in DOMAIN waiters', waiters'[n] = t
            PROVE  FALSE
        <5>1. k + n \in DOMAIN waiters /\ j \in DOMAIN waiters /\ k + n # j
          BY <1>8, <4>1, <1>2
        <5>2. waiters[k + n] = t
          BY <4>3, <1>7, <1>8, <1>2
        <5> QED
          BY <5>1, <5>2, <4>1, <3>1 DEF QueuedOnce
      <4> QED
        BY <4>2, <4>3
    <3>3. CASE t \notin Woken(k)
      <4>1. st'[t] = s[t]
        BY <1>1, <3>3
      <4>2. st'[t] = "waiting" <=> \E j \in DOMAIN waiters : waiters[j] = t
        BY <4>1 DEF QueuedOnce
      <4>3. ASSUME NEW j \in DOMAIN waiters, waiters[j] = t
            PROVE  \E n \in DOMAIN waiters' : waiters'[n] = t
        <5>1. j \notin 1..k
          BY <4>3, <3>3 DEF Woken
        <5>2. j - k \in DOMAIN waiters' /\ k + (j - k) = j
          BY <5>1, <1>8, <1>2
        <5> QED
          BY <5>2, <4>3, <1>7, <1>8, <1>2
      <4>4. ASSUME NEW n \in DOMAIN waiters', waiters'[n] = t
            PROVE  \E j \in DOMAIN waiters : waiters[j] = t
        <5>1. n \in 1..(Len(waiters) - k)
          BY <1>8
        <5>2. k + n \in DOMAIN waiters
          BY <5>1, <1>8, <1>2
        <5> QED
          BY <5>1, <5>2, <4>4, <1>7
      <4> QED
        BY <4>2, <4>3, <4>4
    <3> QED
      BY <3>2, <3>3
  <2>2. ASSUME NEW a \in DOMAIN waiters', NEW b \in DOMAIN waiters',
               waiters'[a] = waiters'[b], waiters'[a] # Dead
        PROVE  a = b
    <3>1. /\ k + a \in DOMAIN waiters /\ k + b \in DOMAIN waiters
          /\ waiters'[a] = waiters[k + a] /\ waiters'[b] = waiters[k + b]
      <4>1. a \in 1..(Len(waiters) - k) /\ b \in 1..(Len(waiters) - k)
        BY <1>8
      <4>2. k + a \in DOMAIN waiters /\ k + b \in DOMAIN waiters
        BY <4>1, <1>8, <1>2
      <4> QED
        BY <4>1, <4>2, <1>7
    <3>2. k + a = k + b
      BY <3>1, <2>2 DEF QueuedOnce
    <3> QED
      BY <3>2, <1>8, <1>2
  <2> QED
    BY <2>1, <2>2 DEF QueuedOnce
<1>10. inflight' = Cardinality({t \in Tasks : st'[t] \in Permitted}) + lost
  <2>1. ASSUME NEW t \in Woken(k) PROVE s[t] = "waiting"
    BY <1>8, <1>2 DEF Woken, QueuedOnce
  <2>2. Woken(k) \cap Had = {}
    BY <2>1 DEF Permitted
  <2>3. {t \in Tasks : st'[t] \in Permitted} = Had \cup Woken(k)
    BY <1>1, <1>3 DEF Permitted
  <2>4. Cardinality(Had \cup Woken(k)) = Cardinality(Had) + Cardinality(Woken(k))
    <3> HIDE DEF Had
    <3>1. Cardinality(Had \cap Woken(k)) = 0
      BY <2>2, FS_EmptySet
    <3>2. Cardinality(Had \cup Woken(k)) =
            Cardinality(Had) + Cardinality(Woken(k)) - Cardinality(Had \cap Woken(k))
      BY <1>4, FS_Union
    <3> QED
      BY <3>1, <3>2, <1>4
  <2>5. i = Cardinality(Had) + lost
    OBVIOUS
  <2> HIDE DEF Had
  <2>6. inflight' = Cardinality(Had \cup Woken(k)) + lost
    BY <2>4, <2>5, <1>1, <1>2, <1>4
  <2> QED
    BY <2>3, <2>6
<1>11. waiters' # <<>> => inflight' >= m
  <2>1. k = Len(waiters) => waiters' = <<>>
    BY <1>7, <1>2
  <2> QED
    BY <2>1, <1>1, <1>4
<1>12. inflight' > i => inflight' <= m
  <2>1. CASE k = 0
    <3>1. Woken(k) = {}
      BY <2>1 DEF Woken
    <3> QED
      BY <3>1, <1>1, FS_EmptySet
  <2>2. CASE k > 0
    <3>1. Cardinality(Woken(k)) <= Cardinality(Woken(k - 1)) + 1
      BY <2>2, WokenGrows
    <3>2. Woken(k - 1) \in SUBSET Tasks
      BY DEF Woken
    <3>3. Cardinality(Woken(k - 1)) \in Nat
      BY <3>2, TaskSets
    <3> QED
      BY <3>1, <3>3, <2>2, <1>1, <1>4
  <2> QED
    BY <2>1, <2>2
<1> QED
  BY <1>5, <1>6, <1>7, <1>9, <1>10, <1>11, <1>12

-----------------------------------------------------------------------------

\* A pool starts empty with nobody parked.
LEMMA InitInv == Init => IInv
<1> SUFFICES ASSUME Init PROVE IInv
  OBVIOUS
<1>1. max \in 1..MaxPermits
  BY ClampType, RequestsAssumption DEF Init
<1>2. InState({"granted", "holding"}) = {} /\ Cardinality({}) = 0
  BY FS_EmptySet DEF Init, InState
<1>3. TypeOK
  BY <1>1, EmptySeq DEF Init, TypeOK, Status
<1>4. Accounting
  <2>1. inflight = 0 /\ lost = 0 /\ Cardinality(InState({"granted", "holding"})) = 0
    BY <1>2 DEF Init
  <2> QED
    BY <2>1 DEF Accounting
<1>5. QueuedOnce
  BY DEF Init, QueuedOnce
<1> QED
  BY <1>3, <1>4, <1>5 DEF Init, IInv, NoLostWakeup

\* An acquirer that finds a free permit takes it; nobody is parked then.
LEMMA AcquireFreeStep ==
  ASSUME IInv, NEW t \in Tasks, AcquireFree(t)
  PROVE  IInv' /\ waiters = <<>> /\ inflight' <= max'
<1> USE DEF IInv, AcquireFree
<1>1. TypeOK'
  BY DEF TypeOK, Status
<1>2. waiters = <<>>
  BY DEF NoLostWakeup, TypeOK
<1>3. QueuedOnce'
  BY <1>2 DEF QueuedOnce, TypeOK
<1>4. Accounting'
  <2> DEFINE Held == InState({"granted", "holding"})
  <2>1. Held \in SUBSET Tasks /\ t \notin Held /\ Held' = Held \cup {t}
    BY DEF InState, TypeOK
  <2>2. IsFiniteSet(Held) /\ Cardinality(Held) \in Nat
    BY <2>1, TaskSets
  <2>3. inflight = Cardinality(Held) + lost /\ inflight \in Nat /\ lost \in Nat
    BY DEF Accounting, TypeOK
  <2>4. Cardinality(Held \cup {t}) = Cardinality(Held) + 1
    <3> HIDE DEF Held
    <3> QED
      BY <2>1, <2>2, FS_AddElement
  <2>5. inflight' = Cardinality(Held \cup {t}) + lost'
    <3> HIDE DEF Held
    <3> QED
      BY <2>2, <2>3, <2>4
  <2> QED
    BY <2>1, <2>5 DEF Accounting
<1> QED
  BY <1>1, <1>2, <1>3, <1>4 DEF NoLostWakeup, TypeOK

\* An acquirer that finds the pool full parks behind everyone.
LEMMA AcquireParkStep ==
  ASSUME IInv, NEW t \in Tasks, AcquirePark(t)
  PROVE  IInv'
<1> USE DEF IInv, AcquirePark
<1>1. waiters \in Seq(Tasks \cup {Dead}) /\ Len(waiters) \in Nat
  BY DEF TypeOK
<1>2. /\ waiters' \in Seq(Tasks \cup {Dead})
      /\ Len(waiters') = Len(waiters) + 1
      /\ \A j \in 1..Len(waiters) : waiters'[j] = waiters[j]
      /\ waiters'[Len(waiters) + 1] = t
  BY <1>1, AppendProperties
<1>3. /\ DOMAIN waiters = 1..Len(waiters)
      /\ DOMAIN waiters' = (DOMAIN waiters) \cup {Len(waiters) + 1}
      /\ Len(waiters) + 1 \notin DOMAIN waiters
  BY <1>1, <1>2
<1>4. TypeOK'
  BY <1>2 DEF TypeOK, Status
<1>5. Accounting'
  <2>1. InState({"granted", "holding"})' = InState({"granted", "holding"})
    BY DEF InState, TypeOK
  <2> QED
    BY <2>1 DEF Accounting
<1>6. \A j \in DOMAIN waiters : waiters[j] # t
  BY DEF QueuedOnce
<1>7. QueuedOnce'
  <2>1. ASSUME NEW u \in Tasks
        PROVE  (st'[u] = "waiting") <=> \E j \in DOMAIN waiters' : waiters'[j] = u
    <3>1. CASE u = t
      BY <3>1, <1>2, <1>3 DEF TypeOK
    <3>2. CASE u # t
      BY <3>2, <1>2, <1>3 DEF QueuedOnce, TypeOK
    <3> QED
      BY <3>1, <3>2
  <2>2. ASSUME NEW a \in DOMAIN waiters', NEW b \in DOMAIN waiters',
               waiters'[a] = waiters'[b], waiters'[a] # Dead
        PROVE  a = b
    BY <2>2, <1>2, <1>3, <1>6 DEF QueuedOnce
  <2> QED
    BY <2>1, <2>2 DEF QueuedOnce
<1> QED
  BY <1>4, <1>5, <1>7 DEF NoLostWakeup

\* The resumed task was already counted.
LEMMA ResumeStep == ASSUME IInv, NEW t \in Tasks, Resume(t) PROVE IInv'
<1> USE DEF IInv, Resume
<1>1. InState({"granted", "holding"})' = InState({"granted", "holding"})
  BY DEF InState, TypeOK
<1> QED
  BY <1>1 DEF TypeOK, Status, Accounting, NoLostWakeup, QueuedOnce

\* A returned permit goes to the head of the queue, or becomes free with nobody
\* parked; the counter it is taken from is never 0.
LEMMA ReleaseStep ==
  ASSUME IInv, NEW t \in Tasks, Release(t)
  PROVE  IInv' /\ (inflight' > inflight => inflight' <= max')
<1> DEFINE s == [st EXCEPT ![t] = "idle"]
           Held == InState({"granted", "holding"})
<1> USE DEF IInv, Release
<1>1. Held \in SUBSET Tasks /\ t \in Held
  BY DEF InState
<1>2. IsFiniteSet(Held) /\ Cardinality(Held) \in Nat
  BY <1>1, TaskSets
<1>3. {u \in Tasks : s[u] \in Permitted} = Held \ {t}
  BY DEF InState, Permitted, TypeOK
<1>4. Cardinality(Held \ {t}) = Cardinality(Held) - 1 /\ Cardinality(Held \ {t}) \in Nat
  <2> HIDE DEF Held
  <2>1. Cardinality(Held \ {t}) = Cardinality(Held) - 1 /\ IsFiniteSet(Held \ {t})
    BY <1>1, <1>2, FS_RemoveElement
  <2> QED
    BY <2>1, FS_CardinalityType
<1>5. inflight \in Nat /\ lost \in Nat /\ inflight = Cardinality(Held) + lost
  BY DEF TypeOK, Accounting
<1>6. inflight # 0 /\ inflight - 1 \in Nat
  BY <1>4, <1>5, <1>2
<1>7. GrantWaiters(max, inflight - 1, s) /\ UNCHANGED <<max, lost>>
  BY <1>6
<1>8. s \in [Tasks -> Status] /\ \A u \in Tasks : s[u] = "waiting" <=> st[u] = "waiting"
  BY DEF TypeOK, Status
<1>9. inflight - 1 = Cardinality({u \in Tasks : s[u] \in Permitted}) + lost
  <2> HIDE DEF Held, s
  <2>1. inflight - 1 = Cardinality(Held \ {t}) + lost
    BY <1>4, <1>5, <1>2
  <2> QED
    BY <2>1, <1>3
<1>10. max \in Nat
  BY MaxPermitsAssumption DEF TypeOK
<1> HIDE DEF s
<1>11. /\ inflight' \in Nat
       /\ waiters' \in Seq(Tasks \cup {Dead})
       /\ st' \in [Tasks -> Status]
       /\ QueuedOnce'
       /\ inflight' = Cardinality({u \in Tasks : st'[u] \in Permitted}) + lost
       /\ waiters' # <<>> => inflight' >= max
       /\ inflight' > inflight - 1 => inflight' <= max
  BY <1>6, <1>7, <1>8, <1>9, <1>10, Granting
<1> QED
  BY <1>7, <1>11, <1>5
  DEF TypeOK, Accounting, NoLostWakeup, InState, Permitted

\* Resizing wakes exactly what fits under the new maximum.
LEMMA SetMaxStep ==
  ASSUME IInv, NEW n \in Requests, SetMax(n)
  PROVE  IInv' /\ (inflight' > inflight => inflight' <= max')
<1> USE DEF IInv, SetMax
<1>1. Clamp(n) \in 1..MaxPermits /\ Clamp(n) \in Nat
  BY ClampType, RequestsAssumption, MaxPermitsAssumption
<1>2. inflight = Cardinality({u \in Tasks : st[u] \in Permitted}) + lost
  BY DEF Accounting, InState, Permitted
<1>3. inflight \in Nat /\ st \in [Tasks -> Status] /\ lost' = lost
  BY DEF TypeOK
<1>4. /\ inflight' \in Nat
      /\ waiters' \in Seq(Tasks \cup {Dead})
      /\ st' \in [Tasks -> Status]
      /\ QueuedOnce'
      /\ inflight' = Cardinality({u \in Tasks : st'[u] \in Permitted}) + lost
      /\ waiters' # <<>> => inflight' >= Clamp(n)
      /\ inflight' > inflight => inflight' <= Clamp(n)
  BY <1>1, <1>2, <1>3, Granting
<1> QED
  BY <1>1, <1>3, <1>4
  DEF TypeOK, Accounting, NoLostWakeup, InState, Permitted

\* A dropped future leaves a dead sender behind, or a permit that stays counted.
LEMMA AbandonStep == ASSUME IInv, NEW t \in Tasks, Abandon(t) PROVE IInv'
<1> DEFINE Held == InState({"granted", "holding"})
<1> USE DEF IInv, Abandon
<1>1. waiters \in Seq(Tasks \cup {Dead}) /\ Len(waiters) \in Nat
  BY DEF TypeOK
<1>2. DOMAIN waiters = 1..Len(waiters)
  BY <1>1
<1>3. /\ waiters' \in Seq(Tasks \cup {Dead})
      /\ DOMAIN waiters' = DOMAIN waiters
      /\ \A j \in DOMAIN waiters : waiters'[j] = IF waiters[j] = t THEN Dead ELSE waiters[j]
  <2>1. waiters' \in [1..Len(waiters) -> Tasks \cup {Dead}]
    BY <1>1, <1>2
  <2> QED
    BY <2>1, <1>1, <1>2, SeqDef
<1>4. waiters = <<>> => waiters' = <<>>
  BY <1>1, <1>3
<1>5. TypeOK'
  BY <1>3 DEF TypeOK, Status
<1>6. QueuedOnce'
  <2>1. t # Dead /\ st'[t] = "idle" /\ \A u \in Tasks \ {t} : st'[u] = st[u] /\ u # Dead
    BY TasksAssumption DEF TypeOK
  <2>2. ASSUME NEW u \in Tasks
        PROVE  (st'[u] = "waiting") <=> \E j \in DOMAIN waiters' : waiters'[j] = u
    <3>1. CASE u = t
      BY <3>1, <2>1, <1>3
    <3>2. CASE u # t
      BY <3>2, <2>1, <1>3 DEF QueuedOnce
    <3> QED
      BY <3>1, <3>2
  <2>3. ASSUME NEW a \in DOMAIN waiters', NEW b \in DOMAIN waiters',
               waiters'[a] = waiters'[b], waiters'[a] # Dead
        PROVE  a = b
    BY <2>3, <1>3 DEF QueuedOnce
  <2> QED
    BY <2>2, <2>3 DEF QueuedOnce
<1>7. Accounting'
  <2>1. Held \in SUBSET Tasks /\ Held' = Held \ {t}
    BY DEF InState, TypeOK
  <2>2. IsFiniteSet(Held) /\ Cardinality(Held) \in Nat
    BY <2>1, TaskSets
  <2>3. CASE st[t] = "granted"
    <3>1. t \in Held
      BY <2>3 DEF InState
    <3>2. Cardinality(Held \ {t}) = Cardinality(Held) - 1
      <4> HIDE DEF Held
      <4> QED
        BY <3>1, <2>2, FS_RemoveElement
    <3>3. /\ lost' = lost + 1 /\ inflight' = inflight /\ lost \in Nat
          /\ inflight = Cardinality(Held) + lost
      BY <2>3 DEF Accounting, TypeOK
    <3>4. inflight' = Cardinality(Held \ {t}) + lost'
      <4> HIDE DEF Held
      <4> QED
        BY <3>2, <3>3, <2>2
    <3> QED
      BY <3>4, <2>1 DEF Accounting
  <2>4. CASE st[t] = "waiting"
    <3>1. Held' = Held /\ lost' = lost /\ inflight' = inflight
      BY <2>1, <2>4 DEF InState, TypeOK
    <3> QED
      BY <3>1 DEF Accounting
  <2> QED
    BY <2>3, <2>4
<1> QED
  BY <1>4, <1>5, <1>6, <1>7 DEF NoLostWakeup

-----------------------------------------------------------------------------

\* Every step of a task, every resize and every stutter keeps the invariant.
LEMMA NextInv == IInv /\ [Next]_vars => IInv'
<1> SUFFICES ASSUME IInv, [Next]_vars PROVE IInv'
  OBVIOUS
<1>1. ASSUME NEW t \in Tasks, Acquire(t) PROVE IInv'
  BY <1>1, AcquireFreeStep, AcquireParkStep DEF Acquire
<1>2. ASSUME NEW t \in Tasks, Resume(t) PROVE IInv'
  BY <1>2, ResumeStep
<1>3. ASSUME NEW t \in Tasks, Release(t) PROVE IInv'
  BY <1>3, ReleaseStep
<1>4. ASSUME NEW t \in Tasks, Abandon(t) PROVE IInv'
  BY <1>4, AbandonStep
<1>5. ASSUME NEW n \in Requests, SetMax(n) PROVE IInv'
  BY <1>5, SetMaxStep
<1>6. CASE UNCHANGED vars
  BY <1>6 DEF vars, IInv, TypeOK, Accounting, NoLostWakeup, QueuedOnce, InState
<1> QED
  BY <1>1, <1>2, <1>3, <1>4, <1>5, <1>6 DEF Next

\* The invariant holds in every reachable state of limiter.rs.
THEOREM Invariance == Spec => []IInv
<1> QED
  BY InitInv, NextInv, PTL DEF Spec

\* Type correctness of the pool's state.
THEOREM TypeCorrect == Spec => []TypeOK
<1>1. IInv => TypeOK
  BY DEF IInv
<1> QED
  BY <1>1, Invariance, PTL

\* The counter in limiter.rs is always the number of permits out, so the
\* saturating subtraction in Drop never saturates.
THEOREM CounterExact == Spec => []Accounting
<1>1. IInv => Accounting
  BY DEF IInv
<1> QED
  BY <1>1, Invariance, PTL

\* No interleaving of acquire, drop, set_max and cancellation leaves a task
\* parked while a permit is free.
THEOREM WakeupsNotLost == Spec => []NoLostWakeup
<1>1. IInv => NoLostWakeup
  BY DEF IInv
<1> QED
  BY <1>1, Invariance, PTL

\* Handing out permits never exceeds the maximum in force.
THEOREM GrantsBounded == Spec => NoOvergrant
<1>1. IInv /\ [Next]_vars => [inflight' > inflight => inflight' <= max']_vars
  <2> SUFFICES ASSUME IInv, Next, inflight' > inflight PROVE inflight' <= max'
    BY DEF vars
  <2>1. inflight \in Nat
    BY DEF IInv, TypeOK
  <2>2. ASSUME NEW t \in Tasks, Acquire(t) PROVE inflight' <= max'
    <3>1. CASE AcquireFree(t)
      BY <3>1, AcquireFreeStep
    <3>2. CASE AcquirePark(t)
      BY <3>2, <2>1 DEF AcquirePark
    <3> QED
      BY <2>2, <3>1, <3>2 DEF Acquire
  <2>3. ASSUME NEW t \in Tasks, Resume(t) \/ Abandon(t) PROVE inflight' <= max'
    BY <2>1, <2>3 DEF Resume, Abandon
  <2>4. ASSUME NEW t \in Tasks, Release(t) PROVE inflight' <= max'
    BY <2>4, ReleaseStep
  <2>5. ASSUME NEW n \in Requests, SetMax(n) PROVE inflight' <= max'
    BY <2>5, SetMaxStep
  <2> QED
    BY <2>2, <2>3, <2>4, <2>5 DEF Next
<1> QED
  BY <1>1, Invariance, PTL DEF Spec, NoOvergrant

\* A task that arrives while others are parked does not overtake them.
THEOREM ArrivalsQueue == Spec => NoBarging
<1> DEFINE A == \A t \in Tasks : st[t] = "idle" /\ st'[t] = "holding" => waiters = <<>>
<1>1. IInv /\ [Next]_vars => [A]_vars
  <2> SUFFICES ASSUME IInv, Next, NEW u \in Tasks, st[u] = "idle", st'[u] = "holding"
               PROVE  waiters = <<>>
    BY DEF vars
  <2>1. ASSUME NEW t \in Tasks, Acquire(t) PROVE waiters = <<>>
    <3>1. CASE AcquireFree(t)
      BY <3>1, AcquireFreeStep
    <3>2. CASE AcquirePark(t)
      BY <3>2 DEF AcquirePark, IInv, TypeOK
    <3> QED
      BY <2>1, <3>1, <3>2 DEF Acquire
  <2>2. ASSUME NEW t \in Tasks, Resume(t) \/ Abandon(t) PROVE waiters = <<>>
    BY <2>2 DEF Resume, Abandon, IInv, TypeOK
  <2>3. ASSUME NEW t \in Tasks, Release(t) PROVE waiters = <<>>
    <3>1. PICK k \in 0..Len(waiters) :
              st' = [v \in Tasks |-> IF v \in Woken(k) THEN "granted"
                                     ELSE [st EXCEPT ![t] = "idle"][v]]
      BY <2>3 DEF Release, GrantWaiters
    <3>2. st \in [Tasks -> Status]
      BY DEF IInv, TypeOK
    <3> QED
      BY <3>1, <3>2
  <2>4. ASSUME NEW n \in Requests, SetMax(n) PROVE waiters = <<>>
    <3>1. PICK k \in 0..Len(waiters) :
              st' = [t \in Tasks |-> IF t \in Woken(k) THEN "granted" ELSE st[t]]
      BY <2>4 DEF SetMax, GrantWaiters
    <3> QED
      BY <3>1
  <2> QED
    BY <2>1, <2>2, <2>3, <2>4 DEF Next
<1> QED
  BY <1>1, Invariance, PTL DEF Spec, NoBarging

-----------------------------------------------------------------------------
(***************************************************************************)
(* The contract.  The semaphore's queue is the line of the tasks whose     *)
(* senders are live, so what has to be shown is what the line becomes when *)
(* a sender is queued, dies or is popped.  Places are counted with tasks,  *)
(* of which each has one sender (QueuedOnce).                              *)
(***************************************************************************)
Orderly(q) ==
    /\ q \in Seq(Tasks \cup {Dead})
    /\ \A i, j \in DOMAIN q : q[i] = q[j] /\ q[i] # Dead => i = j

\* Of two tasks in line one is up to the other.
LEMMA UpToOrder ==
  ASSUME NEW q, Orderly(q), NEW t \in Parked(q), NEW u \in Parked(q)
  PROVE  /\ t \in UpTo(q, t) /\ UpTo(q, t) \subseteq Parked(q)
         /\ t \in UpTo(q, u) => UpTo(q, t) \subseteq UpTo(q, u)
         /\ t \notin UpTo(q, u) => u \in UpTo(q, t)
         /\ t \in UpTo(q, u) /\ u \in UpTo(q, t) => t = u
<1>1. PICK a \in DOMAIN q : q[a] = t BY DEF Parked
<1>2. PICK b \in DOMAIN q : q[b] = u BY DEF Parked
<1>3. /\ t \in Tasks /\ u \in Tasks /\ t # Dead /\ u # Dead BY TasksAssumption DEF Parked
<1>4. /\ \A i \in DOMAIN q : i \in Nat /\ (q[i] = t => i = a) /\ (q[i] = u => i = b)
  BY <1>1, <1>2, <1>3, LenProperties DEF Orderly
<1>5. \A v : v \in UpTo(q, t) <=> v \in Tasks /\ \E i \in DOMAIN q : i <= a /\ q[i] = v
  BY <1>1, <1>4 DEF UpTo
<1>6. \A v : v \in UpTo(q, u) <=> v \in Tasks /\ \E i \in DOMAIN q : i <= b /\ q[i] = v
  BY <1>2, <1>4 DEF UpTo
<1>7. (t \in UpTo(q, u) <=> a <= b) /\ (u \in UpTo(q, t) <=> b <= a)
  BY <1>1, <1>2, <1>3, <1>4, <1>5, <1>6
<1>8. t \in UpTo(q, t) BY <1>1, <1>3, <1>4, <1>5
<1>9. UpTo(q, t) \subseteq Parked(q) BY DEF UpTo, Parked
<1>10. ASSUME a <= b PROVE UpTo(q, t) \subseteq UpTo(q, u)
  <2> SUFFICES ASSUME NEW v \in UpTo(q, t) PROVE v \in UpTo(q, u) OBVIOUS
  <2>1. PICK i \in DOMAIN q : i <= a /\ q[i] = v BY <1>5
  <2>2. i <= b BY <1>4, <1>10, <2>1
  <2> QED BY <1>5, <1>6, <2>1, <2>2
<1> QED BY <1>1, <1>2, <1>4, <1>7, <1>8, <1>9, <1>10

\* The tasks in line have the places 1, 2, ..., each its own, in the order of
\* their senders.
LEMMA Places ==
  ASSUME NEW q, Orderly(q)
  PROVE  /\ IsFiniteSet(Parked(q)) /\ Cardinality(Parked(q)) \in Nat
         /\ \A t \in Parked(q) : Place(q, t) \in 1..Cardinality(Parked(q))
         /\ \A t, u \in Parked(q) : t \in UpTo(q, u) <=> Place(q, t) <= Place(q, u)
         /\ \A t, u \in Parked(q) : Place(q, t) = Place(q, u) => t = u
         /\ \A n \in 1..Cardinality(Parked(q)) : \E t \in Parked(q) : Place(q, t) = n
<1> DEFINE P == Parked(q)
           N == Cardinality(P)
<1>1. P \in SUBSET Tasks /\ IsFiniteSet(P) /\ N \in Nat BY TaskSets DEF Parked
<1>2. ASSUME NEW t \in P
      PROVE  /\ t \in UpTo(q, t) /\ UpTo(q, t) \in SUBSET P
             /\ IsFiniteSet(UpTo(q, t)) /\ Place(q, t) \in 1..N
  <2>1. t \in UpTo(q, t) /\ UpTo(q, t) \in SUBSET P BY UpToOrder
  <2>2. IsFiniteSet(UpTo(q, t)) /\ Place(q, t) <= N
    <3> HIDE DEF P
    <3> QED BY <1>1, <2>1, FS_Subset DEF Place
  <2>3. Place(q, t) \in Nat BY <2>2, FS_CardinalityType DEF Place
  <2>4. Place(q, t) # 0 BY <2>1, <2>2, FS_EmptySet DEF Place
  <2> HIDE DEF N
  <2> QED BY <1>1, <2>1, <2>2, <2>3, <2>4
<1>3. ASSUME NEW t \in P, NEW u \in P, t \in UpTo(q, u) PROVE Place(q, t) <= Place(q, u)
  <2>1. UpTo(q, t) \in SUBSET UpTo(q, u) BY <1>3, UpToOrder
  <2> QED BY <1>2, <2>1, FS_Subset DEF Place
<1>4. ASSUME NEW t \in P, NEW u \in P, t \in UpTo(q, u), t # u PROVE Place(q, t) < Place(q, u)
  <2>1. UpTo(q, t) \in SUBSET UpTo(q, u) /\ u \in UpTo(q, u) /\ u \notin UpTo(q, t)
    BY <1>4, UpToOrder
  <2>2. Place(q, t) # Place(q, u) BY <1>2, <2>1, FS_Subset DEF Place
  <2>3. Place(q, t) \in Nat /\ Place(q, u) \in Nat BY <1>2
  <2> QED BY <1>3, <1>4, <2>2, <2>3
<1>5. ASSUME NEW t \in P, NEW u \in P, t \notin UpTo(q, u) PROVE Place(q, u) < Place(q, t)
  <2>1. u \in UpTo(q, t) /\ t # u BY <1>2, <1>5, UpToOrder
  <2> QED BY <1>4, <2>1
<1>6. \A t, u \in P : t \in UpTo(q, u) <=> Place(q, t) <= Place(q, u)
  <2> SUFFICES ASSUME NEW t \in P, NEW u \in P
               PROVE  t \in UpTo(q, u) <=> Place(q, t) <= Place(q, u)
    OBVIOUS
  <2>1. Place(q, t) \in Nat /\ Place(q, u) \in Nat BY <1>2
  <2> QED BY <1>3, <1>5, <2>1
<1>7. \A t, u \in P : Place(q, t) = Place(q, u) => t = u
  <2> SUFFICES ASSUME NEW t \in P, NEW u \in P, Place(q, t) = Place(q, u) PROVE t = u
    OBVIOUS
  <2>1. Place(q, t) \in Nat /\ Place(q, u) \in Nat BY <1>2
  <2>2. t \in UpTo(q, u) /\ u \in UpTo(q, t) BY <1>6, <2>1
  <2> QED BY <2>2, UpToOrder
<1>8. \A n \in 1..N : \E t \in P : Place(q, t) = n
  <2> DEFINE f == [t \in P |-> Place(q, t)]
  <2>1. f \in [P -> 1..N] BY <1>2
  <2>2. f \in Injection(P, 1..N) BY <1>7, <2>1 DEF Injection, IsInjective
  <2>3. IsFiniteSet(1..N) /\ Cardinality(1..N) = N BY <1>1, FS_Interval
  <2>4. f \in Surjection(P, 1..N)
    <3> HIDE DEF f, P
    <3> QED BY <1>1, <2>2, <2>3, FS_Injection
  <2> QED BY <2>4 DEF Surjection
<1> QED BY <1>1, <1>2, <1>6, <1>7, <1>8

\* Who stands where in the line.
LEMMA InLine ==
  ASSUME NEW q, Orderly(q)
  PROVE  /\ Line(q) \in Seq(Tasks) /\ Len(Line(q)) = Cardinality(Parked(q))
         /\ \A t \in Parked(q) : Line(q)[Place(q, t)] = t
         /\ \A n \in 1..Cardinality(Parked(q)) :
               Line(q)[n] \in Parked(q) /\ Place(q, Line(q)[n]) = n
<1> DEFINE N == Cardinality(Parked(q))
           at(n) == CHOOSE t \in Parked(q) : Place(q, t) = n
<1>1. /\ N \in Nat
      /\ \A t \in Parked(q) : Place(q, t) \in 1..N
      /\ \A t, u \in Parked(q) : Place(q, t) = Place(q, u) => t = u
      /\ \A n \in 1..N : \E t \in Parked(q) : Place(q, t) = n
  BY Places
<1>2. Line(q) = [n \in 1..N |-> at(n)] BY DEF Line
<1>3. \A n \in 1..N : at(n) \in Parked(q) /\ Place(q, at(n)) = n BY <1>1
<1>4. Parked(q) \subseteq Tasks BY DEF Parked
<1> HIDE DEF N, at
<1>5. Line(q) \in [1..N -> Tasks] BY <1>2, <1>3, <1>4
<1>6. Line(q) \in Seq(Tasks) /\ Len(Line(q)) = N BY <1>1, <1>5, SeqDef, LenProperties
<1>7. \A n \in 1..N : Line(q)[n] \in Parked(q) /\ Place(q, Line(q)[n]) = n BY <1>2, <1>3
<1>8. \A t \in Parked(q) : Line(q)[Place(q, t)] = t BY <1>1, <1>7
<1> QED BY <1>6, <1>7, <1>8 DEF N

\* A line is known by where its tasks stand.
LEMMA LineIs ==
  ASSUME NEW q, Orderly(q), NEW u \in Seq(Tasks), Len(u) = Cardinality(Parked(q)),
         \A t \in Parked(q) : u[Place(q, t)] = t
  PROVE  Line(q) = u
<1>1. /\ Line(q) \in Seq(Tasks) /\ Len(Line(q)) = Cardinality(Parked(q))
      /\ \A n \in 1..Cardinality(Parked(q)) :
            Line(q)[n] \in Parked(q) /\ Place(q, Line(q)[n]) = n
  BY InLine
<1>2. \A n \in 1..Len(u) : Line(q)[n] = u[n] BY <1>1
<1> QED BY <1>1, <1>2, SeqEqual

\* A sender queued puts its task at the end of the line.
LEMMA LineAppend ==
  ASSUME NEW q, Orderly(q), NEW t \in Tasks, t \notin Parked(q)
  PROVE  Line(Append(q, t)) = Append(Line(q), t)
<1> DEFINE P == Parked(q)
           N == Cardinality(P)
<1>1. PICK r : r = Append(q, t) OBVIOUS
<1>2. /\ r \in Seq(Tasks \cup {Dead}) /\ Len(q) \in Nat
      /\ DOMAIN q = 1..Len(q) /\ DOMAIN r = 1..(Len(q) + 1)
      /\ \A j \in DOMAIN q : r[j] = q[j]
      /\ r[Len(q) + 1] = t
  BY <1>1, AppendProperties, LenProperties DEF Orderly
<1>3. DOMAIN r = DOMAIN q \cup {Len(q) + 1} /\ \A j \in DOMAIN q : j <= Len(q) BY <1>2
<1>4. \A j \in DOMAIN q : q[j] # t BY DEF Parked
<1>5. Orderly(r) BY <1>2, <1>3, <1>4 DEF Orderly
<1>6. Parked(r) = P \cup {t} BY <1>2, <1>3 DEF Parked
<1>7. ASSUME NEW u \in P PROVE UpTo(r, u) = UpTo(q, u)
  <2>1. u # t OBVIOUS
  <2> QED BY <1>2, <1>3, <2>1 DEF UpTo
<1>8. UpTo(r, t) = P \cup {t}
  <2>1. ASSUME NEW u \in P \cup {t} PROVE u \in UpTo(r, t)
    <3>1. u \in Tasks BY DEF Parked
    <3>2. PICK i \in DOMAIN r : r[i] = u BY <1>6 DEF Parked
    <3>3. i <= Len(q) + 1 /\ Len(q) + 1 \in DOMAIN r BY <1>2, <1>3
    <3> QED BY <1>2, <3>1, <3>2, <3>3 DEF UpTo
  <2>2. UpTo(r, t) \subseteq Parked(r) BY DEF UpTo, Parked
  <2> QED BY <1>6, <2>1, <2>2
<1>9. /\ IsFiniteSet(P) /\ N \in Nat
      /\ \A u \in P : Place(q, u) \in 1..N
      /\ Line(q) \in Seq(Tasks) /\ Len(Line(q)) = N
      /\ \A u \in P : Line(q)[Place(q, u)] = u
  BY Places, InLine
<1>10. Cardinality(P \cup {t}) = N + 1
  <2>1. t \notin P OBVIOUS
  <2> HIDE DEF P
  <2> QED BY <1>9, <2>1, FS_AddElement
<1>11. PICK v : v = Append(Line(q), t) OBVIOUS
<1> HIDE DEF N
<1>12. /\ v \in Seq(Tasks) /\ Len(v) = N + 1
       /\ \A n \in 1..N : v[n] = Line(q)[n]
       /\ v[N + 1] = t
  BY <1>9, <1>11, AppendProperties
<1>13. ASSUME NEW u \in Parked(r) PROVE v[Place(r, u)] = u
  <2>1. CASE u \in P
    <3>1. Place(r, u) = Place(q, u) BY <1>7, <2>1 DEF Place
    <3> QED BY <1>9, <1>12, <2>1, <3>1
  <2>2. CASE u = t
    <3>1. Place(r, t) = N + 1 BY <1>8, <1>10 DEF Place
    <3> QED BY <1>12, <2>2, <3>1
  <2> QED BY <1>6, <2>1, <2>2
<1>14. Len(v) = Cardinality(Parked(r)) BY <1>6, <1>10, <1>12
<1>15. Line(r) = v BY <1>5, <1>12, <1>13, <1>14, LineIs
<1> QED BY <1>1, <1>11, <1>15

\* A sender that dies takes its task out of the line, wherever it stands.
LEMMA LineLess ==
  ASSUME NEW q, Orderly(q), NEW t \in Parked(q), NEW r,
         r = [j \in DOMAIN q |-> IF q[j] = t THEN Dead ELSE q[j]]
  PROVE  \E n \in DOMAIN Line(q) :
            /\ Line(q)[n] = t
            /\ Line(r) = SubSeq(Line(q), 1, n - 1) \o SubSeq(Line(q), n + 1, Len(Line(q)))
<1> DEFINE P == Parked(q)
<1>1. PICK N : N = Cardinality(P) OBVIOUS
<1>2. PICK n : n = Place(q, t) OBVIOUS
<1>3. PICK u : u = Line(q) OBVIOUS
<1>4. /\ IsFiniteSet(P) /\ N \in Nat
      /\ \A x \in P : Place(q, x) \in 1..N
      /\ \A x, y \in P : x \in UpTo(q, y) <=> Place(q, x) <= Place(q, y)
      /\ \A x, y \in P : Place(q, x) = Place(q, y) => x = y
      /\ u \in Seq(Tasks) /\ Len(u) = N
      /\ \A x \in P : u[Place(q, x)] = x
  BY <1>1, <1>3, Places, InLine
<1>5. n \in 1..N /\ u[n] = t /\ DOMAIN u = 1..N BY <1>2, <1>4, LenProperties
<1>6. q \in Seq(Tasks \cup {Dead}) /\ DOMAIN q = 1..Len(q) /\ Len(q) \in Nat
  BY LenProperties DEF Orderly
<1>7. t \in Tasks /\ t # Dead /\ Dead \notin Tasks BY TasksAssumption DEF Parked
<1>8. DOMAIN r = DOMAIN q /\ \A j \in DOMAIN q : r[j] = IF q[j] = t THEN Dead ELSE q[j]
  OBVIOUS
<1>9. Orderly(r)
  <2>1. r \in [1..Len(q) -> Tasks \cup {Dead}]
    <3>1. \A j \in 1..Len(q) : q[j] \in Tasks \cup {Dead} BY <1>6, ElementOfSeq
    <3> QED BY <1>6, <3>1
  <2>2. r \in Seq(Tasks \cup {Dead}) BY <1>6, <2>1, SeqDef
  <2> QED BY <1>8, <2>2 DEF Orderly
<1>10. Parked(r) = P \ {t}
  <2>1. ASSUME NEW x \in Parked(r) PROVE x \in P \ {t}
    <3>1. PICK j \in DOMAIN q : r[j] = x /\ x \in Tasks BY <1>8 DEF Parked
    <3>2. q[j] = x /\ x # t BY <1>7, <1>8, <3>1
    <3> QED BY <3>1, <3>2 DEF Parked
  <2>2. ASSUME NEW x \in P \ {t} PROVE x \in Parked(r)
    <3>1. PICK j \in DOMAIN q : q[j] = x /\ x \in Tasks BY DEF Parked
    <3>2. r[j] = x BY <1>8, <2>2, <3>1
    <3> QED BY <1>8, <3>1, <3>2 DEF Parked
  <2> QED BY <2>1, <2>2
<1>11. ASSUME NEW x \in P \ {t} PROVE UpTo(r, x) = UpTo(q, x) \ {t}
  <2>1. \A j \in DOMAIN q : \A y \in Tasks : r[j] = y <=> q[j] = y /\ y # t BY <1>7, <1>8
  <2>2. x \in Tasks /\ x # t BY DEF Parked
  <2> QED BY <1>8, <2>1, <2>2 DEF UpTo
<1>12. Cardinality(P \ {t}) = N - 1
  <2>1. t \in P /\ IsFiniteSet(P) BY <1>4
  <2> HIDE DEF P
  <2> QED BY <1>1, <2>1, FS_RemoveElement
<1>13. PICK v : v = SubSeq(u, 1, n - 1) \o SubSeq(u, n + 1, N) OBVIOUS
<1>14. /\ v \in Seq(Tasks) /\ Len(v) = N - 1
       /\ \A i \in 1..(n - 1) : v[i] = u[i]
       /\ \A i \in n..(N - 1) : v[i] = u[i + 1]
  <2>1. PICK a : a = SubSeq(u, 1, n - 1) OBVIOUS
  <2>2. PICK b : b = SubSeq(u, n + 1, N) OBVIOUS
  <2>0. N \in Nat /\ n \in 1..N BY <1>4, <1>5
  <2>3. \A i \in 1..N : u[i] \in Tasks BY <1>4, ElementOfSeq
  <2>4. /\ a \in Seq(Tasks) /\ Len(a) = n - 1
        /\ \A i \in 1..(n - 1) : a[i] = u[i]
    <3>1. 1 \in Int /\ n - 1 \in Int /\ \A i \in 1..(n - 1) : u[i] \in Tasks
      BY <1>4, <1>5, <2>3
    <3>2. /\ a \in Seq(Tasks)
          /\ Len(a) = IF 1 <= n - 1 THEN n - 1 - 1 + 1 ELSE 0
          /\ \A i \in 1..(n - 1 - 1 + 1) : a[i] = u[1 + i - 1]
      BY <2>1, <3>1, SubSeqProperties
    <3> QED BY <2>0, <3>2
  <2>5. /\ b \in Seq(Tasks) /\ Len(b) = N - n
        /\ \A i \in 1..(N - n) : b[i] = u[n + i]
    <3>1. n + 1 \in Int /\ N \in Int /\ \A i \in (n + 1)..N : u[i] \in Tasks
      BY <1>4, <1>5, <2>3
    <3>2. /\ b \in Seq(Tasks)
          /\ Len(b) = IF n + 1 <= N THEN N - (n + 1) + 1 ELSE 0
          /\ \A i \in 1..(N - (n + 1) + 1) : b[i] = u[n + 1 + i - 1]
      BY <2>2, <3>1, SubSeqProperties
    <3> QED BY <2>0, <3>2
  <2>6. /\ v \in Seq(Tasks) /\ Len(v) = Len(a) + Len(b)
        /\ \A i \in 1..(Len(a) + Len(b)) : v[i] = IF i <= Len(a) THEN a[i] ELSE b[i - Len(a)]
    <3>1. v = a \o b BY <1>13, <2>1, <2>2
    <3>2. a \in Seq(Tasks) /\ b \in Seq(Tasks) BY <2>4, <2>5
    <3> QED BY <3>1, <3>2, ConcatProperties
  <2>7. Len(v) = N - 1 /\ \A i \in 1..(n - 1) : v[i] = u[i]
    BY <2>0, <2>4, <2>5, <2>6
  <2>8. ASSUME NEW i \in n..(N - 1) PROVE v[i] = u[i + 1]
    <3>1. /\ i \in 1..(Len(a) + Len(b)) /\ ~(i <= Len(a))
          /\ i - Len(a) \in 1..(N - n) /\ n + (i - Len(a)) = i + 1
      BY <2>0, <2>4, <2>5
    <3> QED BY <2>5, <2>6, <3>1
  <2> QED BY <2>6, <2>7, <2>8
<1>15. ASSUME NEW x \in P \ {t} PROVE v[Place(r, x)] = x
  <2>1. PICK m : m = Place(q, x) OBVIOUS
  <2>2. m \in 1..N /\ m # n /\ u[m] = x BY <1>2, <1>4, <2>1
  <2>3. IsFiniteSet(UpTo(q, x)) /\ m = Cardinality(UpTo(q, x))
    <3>1. UpTo(q, x) \in SUBSET Tasks BY DEF UpTo
    <3> QED BY <2>1, <3>1, TaskSets DEF Place
  <2>4. Place(r, x) = IF n <= m THEN m - 1 ELSE m
    <3>1. t \in UpTo(q, x) <=> n <= m BY <1>2, <1>4, <2>1
    <3>2. Cardinality(UpTo(q, x) \ {t}) = IF t \in UpTo(q, x) THEN m - 1 ELSE m
      BY <2>3, FS_RemoveElement
    <3> QED BY <1>11, <3>1, <3>2 DEF Place
  <2>5. CASE n <= m
    <3>1. m - 1 \in n..(N - 1) /\ (m - 1) + 1 = m BY <1>4, <1>5, <2>2, <2>5
    <3> QED BY <1>14, <2>2, <2>4, <2>5, <3>1
  <2>6. CASE ~(n <= m)
    <3>1. m \in 1..(n - 1) BY <1>5, <2>2, <2>6
    <3> QED BY <1>14, <2>2, <2>4, <2>6, <3>1
  <2> QED BY <2>5, <2>6
<1>16. Line(r) = v BY <1>9, <1>10, <1>12, <1>14, <1>15, LineIs
<1> QED BY <1>3, <1>4, <1>5, <1>13, <1>16

\* The tasks behind the first k senders.
Among(q, k) == {t \in Tasks : \E j \in 1..k : q[j] = t}

\* Senders popped take their tasks from the front of the line.
LEMMA LineRest ==
  ASSUME NEW q, Orderly(q), NEW k \in 0..Len(q), NEW W,
         W = Among(q, k)
  PROVE  /\ IsFiniteSet(W) /\ Cardinality(W) \in Nat /\ Cardinality(W) <= Len(Line(q))
         /\ W = {Line(q)[n] : n \in 1..Cardinality(W)}
         /\ Line(SubSeq(q, k + 1, Len(q))) = SubSeq(Line(q), Cardinality(W) + 1, Len(Line(q)))
         /\ k = Len(q) => Cardinality(W) = Len(Line(q))
<1> DEFINE P == Parked(q)
<1> USE DEF Among
<1>1. PICK N : N = Cardinality(P) OBVIOUS
<1>2. PICK n : n = Cardinality(W) OBVIOUS
<1>3. PICK u : u = Line(q) OBVIOUS
<1>4. /\ IsFiniteSet(P) /\ N \in Nat
      /\ \A x \in P : Place(q, x) \in 1..N
      /\ \A x, y \in P : x \in UpTo(q, y) <=> Place(q, x) <= Place(q, y)
      /\ u \in Seq(Tasks) /\ Len(u) = N
      /\ \A x \in P : u[Place(q, x)] = x
      /\ \A i \in 1..N : u[i] \in P /\ Place(q, u[i]) = i
  BY <1>1, <1>3, Places, InLine
<1>5. /\ q \in Seq(Tasks \cup {Dead}) /\ DOMAIN q = 1..Len(q) /\ Len(q) \in Nat
      /\ \A j \in 1..Len(q) : q[j] \in Tasks \cup {Dead}
      /\ k \in Nat /\ k <= Len(q) /\ k + 1 \in Int
  BY LenProperties, ElementOfSeq DEF Orderly
<1>6. /\ W \in SUBSET P /\ IsFiniteSet(W) /\ n \in Nat /\ n <= N
  <2>1. W \in SUBSET P BY <1>5 DEF Parked
  <2>2. IsFiniteSet(W) /\ n <= N
    <3> HIDE DEF P
    <3> QED BY <1>1, <1>2, <1>4, <2>1, FS_Subset
  <2> QED BY <1>2, <2>1, <2>2, FS_CardinalityType
<1>7. PICK r : r = SubSeq(q, k + 1, Len(q)) OBVIOUS
<1>8. /\ r \in Seq(Tasks \cup {Dead}) /\ Len(r) = Len(q) - k
      /\ DOMAIN r = 1..(Len(q) - k)
      /\ \A j \in DOMAIN r : r[j] = q[k + j] /\ k + j \in DOMAIN q
  <2>1. /\ r \in Seq(Tasks \cup {Dead})
        /\ Len(r) = IF k + 1 <= Len(q) THEN Len(q) - (k + 1) + 1 ELSE 0
        /\ \A j \in 1..(Len(q) - (k + 1) + 1) : r[j] = q[k + 1 + j - 1]
    <3>1. \A j \in (k + 1)..Len(q) : q[j] \in Tasks \cup {Dead} BY <1>5
    <3> QED BY <1>5, <1>7, <3>1, SubSeqProperties
  <2>2. DOMAIN r = 1..Len(r) BY <2>1, LenProperties
  <2>3. Len(q) \in Nat /\ k \in Nat /\ k <= Len(q) /\ DOMAIN q = 1..Len(q) BY <1>5
  <2>4. Len(r) = Len(q) - k
    <3>1. Len(r) = IF k + 1 <= Len(q) THEN Len(q) - (k + 1) + 1 ELSE 0 BY <2>1
    <3>2. CASE k + 1 <= Len(q)
      <4>1. Len(q) - (k + 1) + 1 = Len(q) - k BY <2>3
      <4> QED BY <3>1, <3>2, <4>1
    <3>3. CASE ~(k + 1 <= Len(q))
      <4>1. PICK l : l = Len(q) OBVIOUS
      <4>2. l \in Nat /\ k \in Nat /\ k <= l /\ ~(k + 1 <= l) BY <2>3, <3>3, <4>1
      <4>3. k = l BY <4>2
      <4>4. l - k = 0 BY <4>2, <4>3
      <4> QED BY <3>1, <3>3, <4>1, <4>4
    <3> QED BY <3>2, <3>3
  <2>5. ASSUME NEW j \in DOMAIN r PROVE r[j] = q[k + j] /\ k + j \in DOMAIN q
    <3>1. /\ j \in 1..(Len(q) - (k + 1) + 1) /\ k + 1 + j - 1 = k + j
          /\ k + j \in 1..Len(q)
      BY <2>2, <2>3, <2>4
    <3> QED BY <2>1, <2>3, <3>1
  <2> QED BY <2>1, <2>2, <2>4, <2>5
<1>9. Orderly(r)
  <2> SUFFICES ASSUME NEW i \in DOMAIN r, NEW j \in DOMAIN r, r[i] = r[j], r[i] # Dead
               PROVE  i = j
    BY <1>8 DEF Orderly
  <2>1. k + i = k + j BY <1>8 DEF Orderly
  <2> QED BY <1>5, <1>8, <2>1
<1>10. \A i, j \in DOMAIN q : q[i] = q[j] /\ q[i] \in Tasks => i = j
  BY TasksAssumption DEF Orderly
<1>11. ASSUME NEW x \in Tasks, NEW i \in DOMAIN q, q[i] = x
       PROVE  (x \in W <=> i <= k) /\ (x \in Parked(r) <=> i > k)
  <2>1. x \in W <=> i <= k BY <1>5, <1>10, <1>11
  <2>2. ASSUME x \in Parked(r) PROVE i > k
    <3>1. PICK j \in DOMAIN r : r[j] = x BY <2>2 DEF Parked
    <3>2. k + j = i BY <1>8, <1>10, <1>11, <3>1
    <3> QED BY <1>5, <1>8, <3>2
  <2>3. ASSUME i > k PROVE x \in Parked(r)
    <3>1. i - k \in DOMAIN r /\ k + (i - k) = i BY <1>5, <1>8, <2>3
    <3>2. r[i - k] = x BY <1>8, <1>11, <3>1
    <3> QED BY <3>1, <3>2 DEF Parked
  <2> QED BY <1>5, <2>1, <2>2, <2>3
<1>12. Parked(r) = P \ W
  <2>1. Parked(r) \subseteq P BY <1>8 DEF Parked
  <2>2. ASSUME NEW x \in P PROVE x \in Parked(r) <=> x \notin W
    <3>1. PICK i \in DOMAIN q : q[i] = x BY DEF Parked
    <3>2. x \in Tasks BY DEF Parked
    <3> QED BY <1>5, <1>11, <3>1, <3>2
  <2> QED BY <2>1, <2>2
<1>13. ASSUME NEW x \in P \ W PROVE W \in SUBSET UpTo(q, x) /\ UpTo(r, x) = UpTo(q, x) \ W
  <2>1. PICK a \in DOMAIN q : q[a] = x BY DEF Parked
  <2>2. x \in Tasks /\ a > k /\ a \in Nat
    <3>1. x \in Tasks BY DEF Parked
    <3> QED BY <1>5, <1>11, <2>1, <3>1
  <2>3. \A y : y \in UpTo(q, x) <=> y \in Tasks /\ \E i \in DOMAIN q : i <= a /\ q[i] = y
    BY <1>10, <2>1, <2>2 DEF UpTo
  <2>4. W \subseteq UpTo(q, x)
    <3> SUFFICES ASSUME NEW y \in W PROVE y \in UpTo(q, x) OBVIOUS
    <3>1. PICK i \in 1..k : q[i] = y OBVIOUS
    <3>2. i \in DOMAIN q /\ i <= a /\ y \in Tasks BY <1>5, <2>2, <3>1
    <3> QED BY <2>3, <3>1, <3>2
  <2>5. ASSUME NEW y \in UpTo(r, x) PROVE y \in UpTo(q, x) \ W
    <3>1. y \in Tasks /\ y \in Parked(r) BY DEF UpTo, Parked
    <3>2. PICK i \in DOMAIN r : \E j \in DOMAIN r : i <= j /\ r[i] = y /\ r[j] = x BY DEF UpTo
    <3>3. PICK j \in DOMAIN r : i <= j /\ r[i] = y /\ r[j] = x BY <3>2
    <3>4. k + j = a /\ k + i <= k + j
      BY <1>5, <1>8, <1>10, <2>1, <2>2, <3>3
    <3>5. y \in UpTo(q, x) BY <1>8, <2>3, <3>1, <3>3, <3>4
    <3> QED BY <1>12, <3>1, <3>5
  <2>6. ASSUME NEW y \in UpTo(q, x) \ W PROVE y \in UpTo(r, x)
    <3>1. PICK i \in DOMAIN q : i <= a /\ q[i] = y /\ y \in Tasks BY <2>3
    <3>2. i > k BY <1>5, <1>11, <3>1
    <3>3. /\ i - k \in DOMAIN r /\ a - k \in DOMAIN r /\ i - k <= a - k
          /\ k + (i - k) = i /\ k + (a - k) = a
      BY <1>5, <1>8, <2>2, <3>1, <3>2
    <3>4. r[i - k] = y /\ r[a - k] = x BY <1>8, <2>1, <3>1, <3>3
    <3> QED BY <3>1, <3>3, <3>4 DEF UpTo
  <2> QED BY <2>4, <2>5, <2>6
<1>14. ASSUME NEW x \in P \ W PROVE Place(r, x) = Place(q, x) - n /\ Place(q, x) \in (n + 1)..N
  <2>1. IsFiniteSet(UpTo(q, x)) /\ UpTo(q, x) \in SUBSET Tasks
    <3>1. UpTo(q, x) \in SUBSET Tasks BY DEF UpTo
    <3> QED BY <3>1, TaskSets
  <2>2. Cardinality(UpTo(q, x) \ W) = Cardinality(UpTo(q, x)) - n
    <3>1. UpTo(q, x) \cap W = W BY <1>13
    <3>2. Cardinality(UpTo(q, x) \ W) = Cardinality(UpTo(q, x)) - Cardinality(UpTo(q, x) \cap W)
      BY <2>1, FS_Difference
    <3> QED BY <1>2, <3>1, <3>2
  <2>3. x \in UpTo(r, x) BY <1>9, <1>12, UpToOrder
  <2>4. Place(r, x) \in Nat /\ Place(r, x) # 0
    <3>1. UpTo(r, x) \in SUBSET Tasks BY DEF UpTo
    <3>2. IsFiniteSet(UpTo(r, x)) /\ Cardinality(UpTo(r, x)) \in Nat BY <3>1, TaskSets
    <3> QED BY <2>3, <3>2, FS_EmptySet DEF Place
  <2>5. Place(r, x) = Place(q, x) - n BY <1>13, <2>2 DEF Place
  <2> QED BY <1>4, <1>6, <2>4, <2>5
<1>15. ASSUME NEW x \in W PROVE Place(q, x) \in 1..n
  <2>1. UpTo(q, x) \in SUBSET W
    <3> SUFFICES ASSUME NEW y \in UpTo(q, x), y \notin W PROVE FALSE OBVIOUS
    <3>1. y \in P /\ y \in P \ W BY DEF UpTo, Parked
    <3>2. x \in P /\ x \in UpTo(q, y) BY <1>6, <1>13, <3>1
    <3>3. x = y BY <3>1, <3>2, UpToOrder
    <3> QED BY <3>3
  <2>2. Place(q, x) <= n BY <1>2, <1>6, <2>1, FS_Subset DEF Place
  <2> QED BY <1>4, <1>6, <2>2
<1>16. W = {u[i] : i \in 1..n}
  <2>1. ASSUME NEW x \in W PROVE x \in {u[i] : i \in 1..n} BY <1>4, <1>6, <1>15
  <2>2. ASSUME NEW i \in 1..n PROVE u[i] \in W
    <3>1. i \in 1..N BY <1>4, <1>6
    <3>2. u[i] \in P /\ Place(q, u[i]) = i BY <1>4, <3>1
    <3> QED BY <1>6, <1>14, <3>2
  <2> QED BY <2>1, <2>2
<1>17. PICK v : v = SubSeq(u, n + 1, N) OBVIOUS
<1>18. /\ v \in Seq(Tasks) /\ Len(v) = N - n
       /\ \A i \in 1..(N - n) : v[i] = u[n + i]
  <2>1. n + 1 \in Int /\ N \in Int /\ \A i \in (n + 1)..N : u[i] \in Tasks
    BY <1>4, <1>6, ElementOfSeq
  <2>2. /\ v \in Seq(Tasks)
        /\ Len(v) = IF n + 1 <= N THEN N - (n + 1) + 1 ELSE 0
        /\ \A i \in 1..(N - (n + 1) + 1) : v[i] = u[n + 1 + i - 1]
    BY <1>17, <2>1, SubSeqProperties
  <2> QED BY <1>4, <1>6, <2>2
<1>19. Cardinality(Parked(r)) = N - n
  <2>1. P \cap W = W BY <1>6
  <2>2. Cardinality(P \ W) = Cardinality(P) - Cardinality(P \cap W) 
    <3> HIDE DEF P
    <3> QED BY <1>4, FS_Difference
  <2> QED BY <1>1, <1>2, <1>12, <2>1, <2>2
<1>20. ASSUME NEW x \in Parked(r) PROVE v[Place(r, x)] = x
  <2>1. x \in P /\ x \in P \ W BY <1>12
  <2>2. PICK m : m = Place(q, x) OBVIOUS
  <2>3. u[m] = x /\ m \in (n + 1)..N /\ Place(r, x) = m - n BY <1>4, <1>14, <2>1, <2>2
  <2>4. m - n \in 1..(N - n) /\ n + (m - n) = m BY <1>4, <1>6, <2>3
  <2> QED BY <1>18, <2>3, <2>4
<1>21. Line(r) = v BY <1>9, <1>18, <1>19, <1>20, LineIs
<1>22. k = Len(q) => n = N
  <2> SUFFICES ASSUME k = Len(q) PROVE n = N OBVIOUS
  <2>1. W = P BY <1>5 DEF Parked
  <2> QED BY <1>1, <1>2, <2>1
<1>23. /\ IsFiniteSet(W) /\ n \in Nat /\ n <= Len(u) /\ W = {u[i] : i \in 1..n}
       /\ Line(r) = SubSeq(u, n + 1, Len(u)) /\ (k = Len(q) => n = Len(u))
  BY <1>4, <1>6, <1>16, <1>17, <1>21, <1>22
<1> QED BY <1>2, <1>3, <1>7, <1>23

-----------------------------------------------------------------------------

\* The library operators of the semaphore are the pool's.
LEMMA SemCount == ASSUME NEW S PROVE Sem!Cardinality(S) = Cardinality(S)
BY Zenon DEF Sem!Cardinality, Cardinality

\* The pool's queue is orderly, and its line holds who waits.
LEMMA WaitersLine ==
  ASSUME TypeOK, QueuedOnce
  PROVE  /\ Orderly(waiters) /\ Parked(waiters) = InState({"waiting"})
         /\ Line(waiters) \in Seq(Tasks)
         /\ Parked(waiters) = {Line(waiters)[n] : n \in DOMAIN Line(waiters)}
<1>1. Orderly(waiters) BY DEF TypeOK, QueuedOnce, Orderly
<1>2. Parked(waiters) = InState({"waiting"}) BY DEF QueuedOnce, Parked, InState
<1>3. PICK u : u = Line(waiters) OBVIOUS
<1>4. /\ u \in Seq(Tasks) /\ Len(u) = Cardinality(Parked(waiters))
      /\ \A t \in Parked(waiters) : u[Place(waiters, t)] = t
      /\ \A n \in 1..Cardinality(Parked(waiters)) : u[n] \in Parked(waiters)
      /\ \A t \in Parked(waiters) : Place(waiters, t) \in 1..Cardinality(Parked(waiters))
  BY <1>1, <1>3, InLine, Places
<1>5. DOMAIN u = 1..Cardinality(Parked(waiters)) BY <1>4, LenProperties
<1>6. Parked(waiters) = {u[n] : n \in DOMAIN u} BY <1>4, <1>5
<1> QED BY <1>1, <1>2, <1>3, <1>4, <1>6

\* With an empty queue nobody is in line.
LEMMA EmptyLine ==
  ASSUME TypeOK, QueuedOnce
  PROVE  /\ waiters = <<>> => Line(waiters) = <<>>
         /\ Line(waiters) = <<>> => InState({"waiting"}) = {}
<1>1. /\ Orderly(waiters) /\ Parked(waiters) = InState({"waiting"})
      /\ Line(waiters) \in Seq(Tasks)
      /\ Parked(waiters) = {Line(waiters)[n] : n \in DOMAIN Line(waiters)}
  BY WaitersLine
<1>2. ASSUME waiters = <<>> PROVE Line(waiters) = <<>>
  <2>1. Parked(waiters) = {} BY <1>2 DEF Parked
  <2>2. Len(Line(waiters)) = 0 BY <1>1, <2>1, InLine, FS_EmptySet
  <2> QED BY <1>1, <2>2, EmptySeq, LenProperties
<1>3. ASSUME Line(waiters) = <<>> PROVE InState({"waiting"}) = {}
  <2>1. DOMAIN Line(waiters) = {} BY <1>3
  <2> QED BY <1>1, <2>1
<1> QED BY <1>2, <1>3

\* One run of grant_waiters admits from the line what the limit allows beside
\* those that own a permit.
LEMMA Admission ==
  ASSUME TypeOK, QueuedOnce,
         NEW m \in Nat, NEW i \in Nat, NEW s \in [Tasks -> Status],
         NEW own, own = {t \in Tasks : s[t] \in Permitted},
         \A t \in Tasks : s[t] = "waiting" <=> st[t] = "waiting",
         i = Cardinality(own) + lost,
         GrantWaiters(m, i, s), lost' = lost
  PROVE  Sem!Admit(m, own)
<1>1. PICK k \in 0..Len(waiters) :
        /\ k = Len(waiters) \/ i + Cardinality(Woken(k)) >= m
        /\ k > 0 => i + Cardinality(Woken(k - 1)) < m
        /\ waiters' = SubSeq(waiters, k + 1, Len(waiters))
        /\ inflight' = i + Cardinality(Woken(k))
        /\ st' = [t \in Tasks |-> IF t \in Woken(k) THEN "granted" ELSE s[t]]
  BY DEF GrantWaiters
<1>2. PICK W : W = Woken(k) OBVIOUS
<1>3. PICK n : n = Cardinality(W) OBVIOUS
<1>4. PICK u : u = Line(waiters) OBVIOUS
<1>5. Orderly(waiters) /\ u \in Seq(Tasks) /\ Len(u) \in Nat BY <1>4, WaitersLine
<1>6. W = {t \in Tasks : \E j \in 1..k : waiters[j] = t} BY <1>2 DEF Woken
<1>7. /\ n \in Nat /\ n <= Len(u) /\ W = {u[j] : j \in 1..n}
      /\ Line(waiters') = SubSeq(u, n + 1, Len(u))
      /\ k = Len(waiters) => n = Len(u)
  <2>1. /\ IsFiniteSet(W) /\ Cardinality(W) \in Nat /\ Cardinality(W) <= Len(Line(waiters))
        /\ W = {Line(waiters)[j] : j \in 1..Cardinality(W)}
        /\ Line(SubSeq(waiters, k + 1, Len(waiters)))
             = SubSeq(Line(waiters), Cardinality(W) + 1, Len(Line(waiters)))
        /\ k = Len(waiters) => Cardinality(W) = Len(Line(waiters))
    <3>1. PICK q : q = waiters OBVIOUS
    <3>2. k \in 0..Len(q) /\ Orderly(q) BY <1>5, <3>1
    <3>3. W = Among(q, k) BY <1>6, <3>1 DEF Among
    <3>4. /\ IsFiniteSet(W) /\ Cardinality(W) \in Nat /\ Cardinality(W) <= Len(Line(q))
          /\ W = {Line(q)[j] : j \in 1..Cardinality(W)}
          /\ Line(SubSeq(q, k + 1, Len(q))) = SubSeq(Line(q), Cardinality(W) + 1, Len(Line(q)))
          /\ k = Len(q) => Cardinality(W) = Len(Line(q))
      BY <3>2, <3>3, LineRest
    <3> QED BY <3>1, <3>4
  <2> QED BY <1>1, <1>3, <1>4, <2>1
<1>8. InState({"granted", "holding"})' = own \cup W
  <2>1. W \subseteq Tasks BY <1>6
  <2> QED BY <1>1, <1>2, <2>1 DEF InState, Permitted
<1>9. own \in SUBSET Tasks /\ Cardinality(own) \in Nat /\ lost \in Nat
  <2>1. own \in SUBSET Tasks OBVIOUS
  <2> QED BY <2>1, TaskSets DEF TypeOK
<1>10. PICK free : free = m - Cardinality(own) - lost OBVIOUS
<1>11. free \in Int /\ free = m - i BY <1>9, <1>10
<1>12. n = IF free > 0 THEN Sem!Lesser(free, Len(u)) ELSE 0
  <2>1. CASE k = 0
    <3>1. W = {} BY <1>6, <2>1
    <3>2. n = 0 BY <1>3, <3>1, FS_EmptySet
    <3>3. free > 0 => Len(u) = 0
      <4>1. k = Len(waiters) \/ i + n >= m BY <1>1, <1>2, <1>3
      <4>2. free > 0 => k = Len(waiters) BY <1>11, <3>2, <4>1
      <4> QED BY <1>7, <3>2, <4>2
    <3> QED BY <1>5, <1>11, <3>2, <3>3 DEF Sem!Lesser
  <2>2. CASE k > 0
    <3>1. Cardinality(Woken(k)) <= Cardinality(Woken(k - 1)) + 1 BY <2>2, WokenGrows
    <3>2. Woken(k - 1) \in SUBSET Tasks BY DEF Woken
    <3>3. Cardinality(Woken(k - 1)) \in Nat BY <3>2, TaskSets
    <3>4. i + Cardinality(Woken(k - 1)) < m BY <1>1, <2>2
    <3>5. n <= Cardinality(Woken(k - 1)) + 1 BY <1>2, <1>3, <3>1
    <3>6. free > 0 /\ n <= free
      <4>1. n \in Nat BY <1>7
      <4> QED BY <1>11, <3>3, <3>4, <3>5, <4>1
    <3>7. k = Len(waiters) \/ n >= free
      <4>1. k = Len(waiters) \/ i + n >= m BY <1>1, <1>2, <1>3
      <4>2. n \in Nat BY <1>7
      <4> QED BY <1>11, <4>1, <4>2
    <3>8. n = Len(u) \/ n = free
      <4>1. n \in Nat /\ (k = Len(waiters) => n = Len(u)) BY <1>7
      <4> QED BY <1>11, <3>6, <3>7, <4>1
    <3> QED BY <1>5, <1>7, <1>11, <3>6, <3>8 DEF Sem!Lesser
  <2> QED BY <1>1, <2>1, <2>2
<1>13. /\ InState({"granted", "holding"})' = own \cup {u[j] : j \in 1..n}
       /\ Line(waiters)' = SubSeq(u, n + 1, Len(u))
  <2>1. Line(waiters)' = Line(waiters') OBVIOUS
  <2> QED BY <1>7, <1>8, <2>1
<1> QED BY <1>4, <1>10, <1>12, <1>13, SemCount DEF Sem!Admit

\* acquire() with a permit free enters the semaphore and owns one.
LEMMA FreeEnters == ASSUME IInv, NEW t \in Tasks, AcquireFree(t) PROVE Sem!Enter(t)
<1> USE DEF IInv, AcquireFree
<1>1. waiters = <<>> BY AcquireFreeStep
<1>2. Line(waiters) = <<>> BY <1>1, EmptyLine
<1>3. t \notin InState({"granted", "holding"}) BY DEF InState
<1>4. InState({"granted", "holding"})' = InState({"granted", "holding"}) \cup {t}
  BY DEF InState, TypeOK
<1>5. Line(waiters)' = Line(waiters) BY DEF Line, Parked, Place, UpTo
<1>6. ~Sem!Queued(t) BY <1>2 DEF Sem!Queued
<1>7. Sem!Cardinality(InState({"granted", "holding"})) + lost < max
  BY SemCount DEF Accounting
<1> QED BY <1>2, <1>3, <1>4, <1>5, <1>6, <1>7 DEF Sem!Enter

\* acquire() with none free enters at the end of the line.
LEMMA ParkEnters == ASSUME IInv, NEW t \in Tasks, AcquirePark(t) PROVE Sem!Enter(t)
<1> USE DEF IInv, AcquirePark
<1>1. t \notin InState({"granted", "holding"}) /\ t \notin InState({"waiting"}) BY DEF InState
<1>2. InState({"granted", "holding"})' = InState({"granted", "holding"})
  BY DEF InState, TypeOK
<1>3. /\ Orderly(waiters) /\ t \notin Parked(waiters)
      /\ Parked(waiters) = {Line(waiters)[n] : n \in DOMAIN Line(waiters)}
  BY <1>1, WaitersLine
<1>4. Line(waiters)' = Append(Line(waiters), t)
  <2>1. Line(Append(waiters, t)) = Append(Line(waiters), t) BY <1>3, LineAppend
  <2>2. Line(waiters)' = Line(waiters') OBVIOUS
  <2> QED BY <2>1, <2>2
<1>5. ~Sem!Queued(t) BY <1>3 DEF Sem!Queued
<1>6. ~(Sem!Cardinality(InState({"granted", "holding"})) + lost < max)
  <2>1. Sem!Cardinality(InState({"granted", "holding"})) + lost = inflight
    BY SemCount DEF Accounting
  <2>2. inflight \in Nat /\ max \in Nat BY MaxPermitsAssumption DEF TypeOK
  <2> QED BY <2>1, <2>2
<1> QED BY <1>1, <1>2, <1>4, <1>5, <1>6 DEF Sem!Enter

\* Polling a woken task changes nothing its callers can tell.
LEMMA ResumeStutters == ASSUME IInv, NEW t \in Tasks, Resume(t) PROVE UNCHANGED Sem!vars
<1> USE DEF IInv, Resume
<1>1. InState({"granted", "holding"})' = InState({"granted", "holding"})
  BY DEF InState, TypeOK
<1>2. Line(waiters)' = Line(waiters) BY DEF Line, Parked, Place, UpTo
<1> QED BY <1>1, <1>2 DEF Sem!vars

\* Dropping a permit leaves the semaphore, which admits the next in line.
LEMMA ReleaseLeaves == ASSUME IInv, NEW t \in Tasks, Release(t) PROVE Sem!Leave(t)
<1> DEFINE s == [st EXCEPT ![t] = "idle"]
           Held == InState({"granted", "holding"})
<1> USE DEF IInv, Release
<1>1. Held \in SUBSET Tasks /\ t \in Held BY DEF InState
<1>2. IsFiniteSet(Held) /\ Cardinality(Held) \in Nat BY <1>1, TaskSets
<1>3. Held \ {t} = {u \in Tasks : s[u] \in Permitted} BY DEF InState, Permitted, TypeOK
<1>4. Cardinality(Held \ {t}) = Cardinality(Held) - 1 /\ Cardinality(Held \ {t}) \in Nat
  <2> HIDE DEF Held
  <2>1. Cardinality(Held \ {t}) = Cardinality(Held) - 1 /\ IsFiniteSet(Held \ {t})
    BY <1>1, <1>2, FS_RemoveElement
  <2> QED BY <2>1, FS_CardinalityType
<1>5. inflight \in Nat /\ lost \in Nat /\ inflight = Cardinality(Held) + lost
  BY DEF TypeOK, Accounting
<1>6. inflight # 0 /\ inflight - 1 \in Nat /\ inflight - 1 = Cardinality(Held \ {t}) + lost
  <2> HIDE DEF Held
  <2> QED BY <1>2, <1>4, <1>5
<1>7. GrantWaiters(max, inflight - 1, s) /\ UNCHANGED <<max, lost>> BY <1>6
<1>8. s \in [Tasks -> Status] /\ \A u \in Tasks : s[u] = "waiting" <=> st[u] = "waiting"
  BY DEF TypeOK, Status
<1>9. max \in Nat /\ lost' = lost BY MaxPermitsAssumption DEF TypeOK
<1>10. Sem!Admit(max, Held \ {t})
  <2> HIDE DEF s, Held
  <2> QED BY <1>3, <1>6, <1>7, <1>8, <1>9, Admission
<1> QED BY <1>1, <1>7, <1>10 DEF Sem!Leave

\* Resizing the pool resizes the semaphore.
LEMMA SetMaxResizes == ASSUME IInv, NEW n \in Requests, SetMax(n) PROVE Sem!Resize
<1> DEFINE Held == InState({"granted", "holding"})
<1> USE DEF IInv, SetMax
<1>1. Clamp(n) \in 1..MaxPermits /\ Clamp(n) \in Nat
  BY ClampType, RequestsAssumption, MaxPermitsAssumption
<1>2. Held = {u \in Tasks : st[u] \in Permitted} /\ inflight = Cardinality(Held) + lost
  BY DEF Accounting, InState, Permitted
<1>3. inflight \in Nat /\ st \in [Tasks -> Status] /\ lost' = lost BY DEF TypeOK
<1>4. Sem!Admit(Clamp(n), Held)
  <2> HIDE DEF Held
  <2> QED BY <1>1, <1>2, <1>3, Admission
<1> QED BY <1>1, <1>4 DEF Sem!Resize

\* A future dropped while parked withdraws; dropped with its permit sent, it
\* vanishes with the permit.
LEMMA AbandonLeaves ==
  ASSUME IInv, NEW t \in Tasks, Abandon(t)
  PROVE  Sem!Withdraw(t) \/ Sem!Vanish(t)
<1> DEFINE Held == InState({"granted", "holding"})
           r == [j \in DOMAIN waiters |-> IF waiters[j] = t THEN Dead ELSE waiters[j]]
<1> USE DEF IInv, Abandon
<1>1. /\ Orderly(waiters) /\ Parked(waiters) = InState({"waiting"})
      /\ waiters' = r /\ max' = max
  BY WaitersLine
<1>2. Line(waiters)' = Line(r)
  <2>1. Line(waiters)' = Line(waiters') OBVIOUS
  <2> QED BY <1>1, <2>1
<1>3. CASE st[t] = "waiting"
  <2>1. t \in Parked(waiters) BY <1>1, <1>3 DEF InState
  <2>2. \E n \in DOMAIN Line(waiters) :
           /\ Line(waiters)[n] = t
           /\ Line(r) = SubSeq(Line(waiters), 1, n - 1)
                          \o SubSeq(Line(waiters), n + 1, Len(Line(waiters)))
    BY <1>1, <2>1, LineLess
  <2>3. Held' = Held /\ lost' = lost BY <1>3 DEF InState, TypeOK
  <2> HIDE DEF r
  <2> QED BY <1>1, <1>2, <2>2, <2>3 DEF Sem!Withdraw
<1>4. CASE st[t] = "granted"
  <2>1. t \in Held /\ Held' = Held \ {t} /\ lost' = lost + 1 BY <1>4 DEF InState, TypeOK
  <2>2. \A j \in DOMAIN waiters : waiters[j] # t BY <1>1, <1>4 DEF InState, Parked
  <2>3. r = waiters BY <2>2 DEF TypeOK
  <2> QED BY <1>1, <1>2, <2>1, <2>3 DEF Sem!Vanish
<1> QED BY <1>3, <1>4

\* A new pool is a semaphore nobody uses.
LEMMA InitContract == ASSUME Init PROVE Sem!Init
<1>1. max \in 1..MaxPermits BY ClampType, RequestsAssumption DEF Init
<1>2. InState({"granted", "holding"}) = {} BY DEF Init, InState
<1>3. Line(waiters) = <<>>
  <2>1. TypeOK /\ QueuedOnce BY InitInv DEF IInv
  <2> QED BY <2>1, EmptyLine DEF Init
<1> QED BY <1>1, <1>2, <1>3 DEF Init, Sem!Init

\* Every critical section of limiter.rs is a step of the semaphore or none.
LEMMA NextContract == ASSUME IInv, [Next]_vars PROVE [Sem!Next]_(Sem!vars)
<1>1. ASSUME NEW t \in Tasks, Acquire(t) PROVE Sem!Next
  BY <1>1, FreeEnters, ParkEnters DEF Acquire, Sem!Next
<1>2. ASSUME NEW t \in Tasks, Resume(t) PROVE UNCHANGED Sem!vars BY <1>2, ResumeStutters
<1>3. ASSUME NEW t \in Tasks, Release(t) PROVE Sem!Next BY <1>3, ReleaseLeaves DEF Sem!Next
<1>4. ASSUME NEW t \in Tasks, Abandon(t) PROVE Sem!Next BY <1>4, AbandonLeaves DEF Sem!Next
<1>5. ASSUME NEW n \in Requests, SetMax(n) PROVE Sem!Next BY <1>5, SetMaxResizes DEF Sem!Next
<1>6. ASSUME UNCHANGED vars PROVE UNCHANGED Sem!vars
  <2>1. InState({"granted", "holding"})' = InState({"granted", "holding"})
    BY <1>6 DEF vars, InState
  <2>2. Line(waiters)' = Line(waiters) BY <1>6 DEF vars, Line, Parked, Place, UpTo
  <2> QED BY <1>6, <2>1, <2>2 DEF vars, Sem!vars
<1> QED BY <1>1, <1>2, <1>3, <1>4, <1>5, <1>6 DEF Next

\* The pool of limiter.rs is a first-come-first-served semaphore with a variable
\* limit, for any number of tasks, whichever of them drop their futures.
THEOREM PoolIsSemaphore == Spec => ImplementsSemaphore
<1>1. Init => Sem!Init BY InitContract
<1>2. IInv /\ [Next]_vars => [Sem!Next]_(Sem!vars) BY NextContract
<1> QED BY <1>1, <1>2, Invariance, PTL DEF Spec, ImplementsSemaphore, Sem!Spec
=============================================================================
