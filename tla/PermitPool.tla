----------------------------- MODULE PermitPool -----------------------------
(***************************************************************************)
(* The permit pool of crates/gpui_common/src/limiter.rs: a counter of      *)
(* permits in flight, a resizable maximum and a queue of parked acquirers, *)
(* all under one mutex, so every critical section is one action.           *)
(*                                                                         *)
(* A task is an async function that calls acquire() and later drops the    *)
(* permit it got.  Between grant_waiters sending on the waiter's channel   *)
(* and the acquirer being polled again the permit is counted but nobody    *)
(* holds it: that window is the status "granted".                          *)
(***************************************************************************)
EXTENDS Integers, Sequences, FiniteSets

CONSTANTS Tasks,        \* tasks that acquire permits
          Cancellable,  \* those whose acquire() future a caller may drop
          Dead,         \* a queued sender whose receiver is gone
          MaxPermits,   \* upper end of the clamp (15 in the code)
          Requests,     \* sizes passed to set_max, before clamping
          MaxAbandoned  \* bound: dead senders queued plus permits lost

ASSUME TasksAssumption == IsFiniteSet(Tasks) /\ Dead \notin Tasks
ASSUME CancellableAssumption == Cancellable \subseteq Tasks
ASSUME MaxPermitsAssumption == MaxPermits \in Nat \ {0}
ASSUME RequestsAssumption == Requests \subseteq Nat /\ MaxAbandoned \in Nat

VARIABLES max,       \* PermitPoolState::max
          inflight,  \* PermitPoolState::inflight
          waiters,   \* PermitPoolState::waiters: the task behind each sender
          st,        \* where each task is in acquire() / with its permit
          lost       \* history: permits granted to a future dropped unresumed

vars == <<max, inflight, waiters, st, lost>>

Status == {"idle", "waiting", "granted", "holding"}

InState(S) == {t \in Tasks : st[t] \in S}

\* usize::clamp(1, MaxPermits)
Clamp(n) == IF n < 1 THEN 1 ELSE IF n > MaxPermits THEN MaxPermits ELSE n

\* The tasks whose sender is among the first k of the queue.
Woken(k) == {t \in Tasks : \E j \in 1..k : waiters[j] = t}

\* Mutant of GrantWaiters: an `if` stands for the `while`, so a dead sender
\* uses up the turn.
GrantOnce(m, i, s) ==
    LET k == IF i < m /\ waiters # <<>> THEN 1 ELSE 0
    IN  /\ waiters' = SubSeq(waiters, k + 1, Len(waiters))
        /\ inflight' = i + Cardinality(Woken(k))
        /\ st' = [t \in Tasks |-> IF t \in Woken(k) THEN "granted" ELSE s[t]]

\* grant_waiters run with maximum m and i permits in flight: it pops the first
\* k senders, where k is the first count that fills the pool or empties the
\* queue; a send to a dropped receiver fails and grants nothing.  `s` is the
\* status of the tasks before the senders are woken.
GrantWaiters(m, i, s) ==
    \E k \in 0..Len(waiters) :
        /\ k = Len(waiters) \/ i + Cardinality(Woken(k)) >= m
        /\ k > 0 => i + Cardinality(Woken(k - 1)) < m
        /\ waiters' = SubSeq(waiters, k + 1, Len(waiters))
        /\ inflight' = i + Cardinality(Woken(k))
        /\ st' = [t \in Tasks |-> IF t \in Woken(k) THEN "granted" ELSE s[t]]

Init ==
    /\ max \in {Clamp(n) : n \in Requests}
    /\ inflight = 0
    /\ waiters = <<>>
    /\ st = [t \in Tasks |-> "idle"]
    /\ lost = 0

-----------------------------------------------------------------------------

\* acquire(), fast path: a permit is free when the lock is taken.
AcquireFree(t) ==
    /\ st[t] = "idle"
    /\ inflight < max
    /\ inflight' = inflight + 1
    /\ st' = [st EXCEPT ![t] = "holding"]
    /\ UNCHANGED <<max, waiters, lost>>

\* Mutant: the newcomer is parked at the head of the queue.
AcquireParkFirst(t) ==
    /\ st[t] = "idle"
    /\ inflight >= max
    /\ waiters' = <<t>> \o waiters
    /\ st' = [st EXCEPT ![t] = "waiting"]
    /\ UNCHANGED <<max, inflight, lost>>

\* acquire(), slow path: park a sender and wait on its receiver.
AcquirePark(t) ==
    /\ st[t] = "idle"
    /\ inflight >= max
    /\ waiters' = Append(waiters, t)
    /\ st' = [st EXCEPT ![t] = "waiting"]
    /\ UNCHANGED <<max, inflight, lost>>

Acquire(t) == AcquireFree(t) \/ AcquirePark(t)

\* rx.recv() returns Ok and acquire() builds the permit.
Resume(t) ==
    /\ st[t] = "granted"
    /\ st' = [st EXCEPT ![t] = "holding"]
    /\ UNCHANGED <<max, inflight, waiters, lost>>

\* Drop for PermitPoolPermit; saturating_sub is a subtraction floored at 0.
Release(t) ==
    /\ st[t] = "holding"
    /\ LET left == IF inflight = 0 THEN 0 ELSE inflight - 1
       IN  GrantWaiters(max, left, [st EXCEPT ![t] = "idle"])
    /\ UNCHANGED <<max, lost>>

\* Mutant: the new maximum is stored but nobody is woken under it.
SetMaxSilently(n) ==
    /\ Clamp(n) # max
    /\ max' = Clamp(n)
    /\ UNCHANGED <<inflight, waiters, st, lost>>

\* set_max: clamp, return early when nothing changes, else grant under the
\* new maximum.
SetMax(n) ==
    /\ Clamp(n) # max
    /\ max' = Clamp(n)
    /\ GrantWaiters(Clamp(n), inflight, st)
    /\ UNCHANGED lost

\* The caller drops the acquire() future.  A parked sender stays queued with
\* no receiver behind it; a permit already sent is counted and never returned.
Abandon(t) ==
    /\ t \in Cancellable
    /\ st[t] \in {"waiting", "granted"}
    /\ lost + Cardinality({j \in DOMAIN waiters : waiters[j] = Dead}) < MaxAbandoned
    /\ waiters' = [j \in DOMAIN waiters |->
                      IF waiters[j] = t THEN Dead ELSE waiters[j]]
    /\ lost' = lost + (IF st[t] = "granted" THEN 1 ELSE 0)
    /\ st' = [st EXCEPT ![t] = "idle"]
    /\ UNCHANGED <<max, inflight>>

Next ==
    \/ \E t \in Tasks : Acquire(t) \/ Resume(t) \/ Release(t) \/ Abandon(t)
    \/ \E n \in Requests : SetMax(n)

\* The executor polls a woken task, and a permit's holder finishes; nobody is
\* obliged to acquire, to resize or to cancel.
Fairness == \A t \in Tasks : WF_vars(Resume(t)) /\ WF_vars(Release(t))

Spec == Init /\ [][Next]_vars
FairSpec == Spec /\ Fairness

-----------------------------------------------------------------------------

TypeOK ==
    /\ max \in 1..MaxPermits
    /\ inflight \in Nat
    /\ waiters \in Seq(Tasks \cup {Dead})
    /\ st \in [Tasks -> Status]
    /\ lost \in Nat

\* Accounting: the counter is exactly the permits held, the permits sent to a
\* task that was not polled yet, and the permits lost with a dropped future,
\* so saturating_sub in Drop never hides an underflow.
Accounting == inflight = Cardinality(InState({"granted", "holding"})) + lost

\* No lost wake-up: whatever order acquire, drop and set_max take the lock in,
\* nobody is parked while a permit is free.
NoLostWakeup == waiters # <<>> => inflight >= max

\* A task waits exactly when one live sender of its is queued; a second sender
\* would let one acquire() consume two permits.
QueuedOnce ==
    /\ \A t \in Tasks : st[t] = "waiting" <=> \E j \in DOMAIN waiters : waiters[j] = t
    /\ \A i, j \in DOMAIN waiters : waiters[i] = waiters[j] /\ waiters[i] # Dead => i = j

\* A step that hands out permits never ends above the maximum it ran under;
\* only lowering the maximum can leave more in flight than it allows.
NoOvergrant == [][inflight' > inflight => inflight' <= max']_vars

\* A task that arrives while others are parked does not overtake them, even
\* when a permit is being returned at that moment.
NoBarging ==
    [][\A t \in Tasks : st[t] = "idle" /\ st'[t] = "holding" => waiters = <<>>]_vars

\* Every parked acquire() that its caller keeps is eventually given a permit,
\* as long as fewer permits were lost than the pool allows; the fairness is
\* that holders finish.
WaitersServed ==
    \A t \in Tasks \ Cancellable : st[t] = "waiting" ~> (st[t] = "holding" \/ lost >= max)
=============================================================================
