------------------------- MODULE PermitPoolContract -------------------------
(***************************************************************************)
(* The permit pool as an implementation of the semaphore its callers rely  *)
(* on.  A client owns its permit from the moment grant_waiters sends it,   *)
(* so the granted-but-not-polled window is invisible to the contract; so   *)
(* are dead senders, and a permit sent to a dropped future is gone.        *)
(***************************************************************************)
EXTENDS PermitPool

\* The tasks behind the live senders of q, and those whose sender is not after
\* the sender of t.
Parked(q) == {t \in Tasks : \E j \in DOMAIN q : q[j] = t}
UpTo(q, t) == {u \in Tasks : \E i, j \in DOMAIN q : i <= j /\ q[i] = u /\ q[j] = t}
Place(q, t) == Cardinality(UpTo(q, t))

\* The order in which the tasks behind q will be served: q without its dead
\* senders.
Line(q) == [n \in 1..Cardinality(Parked(q)) |-> CHOOSE t \in Parked(q) : Place(q, t) = n]

Sem == INSTANCE Semaphore WITH
           Clients  <- Tasks,
           MaxLimit <- MaxPermits,
           limit    <- max,
           owners   <- InState({"granted", "holding"}),
           gone     <- lost,
           queue    <- Line(waiters)

\* The pool implements the first-come-first-served semaphore its callers rely
\* on: every critical section of limiter.rs is one of its steps or a stutter.
ImplementsSemaphore == Sem!Spec
=============================================================================
