------------------------------ MODULE Semaphore ------------------------------
(***************************************************************************)
(* What the permit pool promises its callers: a first-come-first-served    *)
(* counting semaphore whose limit may be changed at any time.  There are   *)
(* no channels, no counter and no window between being granted a permit    *)
(* and running with it: a client queues or owns.  A client may stop        *)
(* waiting; a client that goes away with a permit takes it along.          *)
(***************************************************************************)
EXTENDS Integers, Sequences, FiniteSets

CONSTANTS Clients, MaxLimit

VARIABLES limit,   \* how many clients may own a permit
          owners,  \* the clients that own one
          gone,    \* how many permits went away with their owners
          queue    \* the clients that wait, in arrival order

vars == <<limit, owners, gone, queue>>

Lesser(a, b) == IF a < b THEN a ELSE b

\* Admit as many of the queue's front as the limit allows beside `own`.
Admit(lim, own) ==
    LET free == lim - Cardinality(own) - gone
        n    == IF free > 0 THEN Lesser(free, Len(queue)) ELSE 0
    IN  /\ owners' = own \cup {queue[j] : j \in 1..n}
        /\ queue'  = SubSeq(queue, n + 1, Len(queue))
        /\ UNCHANGED gone

Init ==
    /\ limit \in 1..MaxLimit
    /\ owners = {}
    /\ gone = 0
    /\ queue = <<>>

Queued(c) == \E j \in DOMAIN queue : queue[j] = c

\* A client gets a permit at once only when nobody is in front of it.
Enter(c) ==
    /\ c \notin owners /\ ~Queued(c)
    /\ IF queue = <<>> /\ Cardinality(owners) + gone < limit
       THEN owners' = owners \cup {c} /\ UNCHANGED queue
       ELSE queue' = Append(queue, c) /\ UNCHANGED owners
    /\ UNCHANGED <<limit, gone>>

Leave(c) ==
    /\ c \in owners
    /\ Admit(limit, owners \ {c})
    /\ UNCHANGED limit

Withdraw(c) ==
    /\ \E j \in DOMAIN queue :
          /\ queue[j] = c
          /\ queue' = SubSeq(queue, 1, j - 1) \o SubSeq(queue, j + 1, Len(queue))
    /\ UNCHANGED <<limit, owners, gone>>

Vanish(c) ==
    /\ c \in owners
    /\ owners' = owners \ {c}
    /\ gone' = gone + 1
    /\ UNCHANGED <<limit, queue>>

Resize ==
    /\ limit' \in (1..MaxLimit) \ {limit}
    /\ Admit(limit', owners)

Next == Resize \/ \E c \in Clients : Enter(c) \/ Leave(c) \/ Withdraw(c) \/ Vanish(c)

Spec == Init /\ [][Next]_vars
=============================================================================
