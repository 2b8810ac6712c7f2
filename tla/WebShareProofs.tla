--------------------------- MODULE WebShareProofs ---------------------------
(***************************************************************************)
(* Web shares: the access rules of one shared terminal (WebShare), how its *)
(* screens reach the browsers (WebScreens), and the window that keeps the  *)
(* shares of all terminals (WebShareDesktop), for any number of websockets *)
(* and requests, any capacities, screens, terminals and attempts.          *)
(*                                                                         *)
(* The safety properties of WebShare are inductive together with two       *)
(* facts: a websocket that has not authenticated yet is known nowhere and  *)
(* has an empty queue (Newcomers), which is why it starts read-only with   *)
(* room for its first two messages; and of a client that lost control, the *)
(* inputs written since and those still to come never exceed what was      *)
(* under way when it lost it (InputsCounted).                              *)
(*                                                                         *)
(* Those of WebScreens are inductive by themselves once the types are      *)
(* known.  For UpdateNotLost the steps to look at are those that use up a  *)
(* token: they leave the broadcaster awake.  For UpdatesAddUp it is the    *)
(* broadcast: the rows it leaves out are those that did not change since   *)
(* the last one, which the browser already shows.                          *)
(*                                                                         *)
(* Those of WebShareDesktop are inductive together with three facts that   *)
(* the code never states: a share is kept under its own terminal           *)
(* (OwnTerminal); a terminal that waits for its start has a tab            *)
(* (StartsHaveTabs), because closing the tab gives the start up; and what  *)
(* loops and counts refer to was open once (OnceOpen), so that a server    *)
(* that opens is new to them.                                              *)
(***************************************************************************)
EXTENDS WebShare, WebScreens, WebShareDesktop, SequenceTheorems, FiniteSetTheorems, TLAPS

Newcomers ==
    \A c \in Clients : phase[c] \in {"new", "open"} =>
        c \notin listed \cup known /\ queued[c] = 0

\* The inputs of c in the channel, and with the one its handler is sending.
InputsOf(q, c) == {i \in DOMAIN q : q[i] = c}
ToCome(c) == Cardinality(InputsOf(inputQ, c)) + (IF phase[c] = "typing" THEN 1 ELSE 0)

InputsCounted ==
    \A c \in Clients : IF controller = c THEN late[c] = 0
                       ELSE late[c] + ToCome(c) <= MaxInput + 1

IInv == /\ TypeOK /\ SameClients /\ ControlIsKnown /\ PendingReachesDesktop
        /\ ViewTrue /\ Newcomers /\ InputsCounted

-----------------------------------------------------------------------------

\* broadcast_access: those it is meant for are told or known to have missed it,
\* the others are left alone.
LEMMA BroadcastAccessFacts ==
  ASSUME TypeOK, NEW S \in SUBSET Clients, NEW ctl, BroadcastAccess(S, ctl)
  PROVE  /\ queued' \in [Clients -> 0..MaxOut]
         /\ view' \in [Clients -> {"none", "read", "control"}]
         /\ missed' \subseteq Clients
         /\ \A c \in S \ missed' : view'[c] = Access(c, ctl)
         /\ \A c \in Clients \ S : queued'[c] = queued[c]
<1> DEFINE told == {c \in S : Fits(c)}
<1> USE DEF BroadcastAccess
<1>1. /\ queued' = [c \in Clients |-> IF c \in told THEN queued[c] + 1 ELSE queued[c]]
      /\ view' = [c \in Clients |-> IF c \in told THEN Access(c, ctl) ELSE view[c]]
      /\ missed' = (missed \ told) \cup (S \ told)
  OBVIOUS
<1>2. \A c \in told : queued[c] < MaxOut
  BY DEF Fits
<1>3. queued' \in [Clients -> 0..MaxOut]
  BY <1>1, <1>2, WebShareAssumption DEF TypeOK
<1>4. view' \in [Clients -> {"none", "read", "control"}]
  BY <1>1 DEF TypeOK, Access
<1>5. missed' \subseteq Clients
  BY <1>1 DEF TypeOK
<1>6. \A c \in S \ missed' : view'[c] = Access(c, ctl)
  BY <1>1
<1>7. \A c \in Clients \ S : queued'[c] = queued[c]
  BY <1>1
<1> QED
  BY <1>3, <1>4, <1>5, <1>6, <1>7

\* ShareAccess::disconnect: who is left keeps what it had.
LEMMA DisconnectFacts ==
  ASSUME TypeOK, ControlIsKnown, NEW S \in SUBSET Clients, Disconnect(S)
  PROVE  /\ known' = known \ S /\ pending' \subseteq pending
         /\ controller' \in Clients \cup {NoClient}
         /\ controller' = IF controller \in S THEN NoClient ELSE controller
         /\ ControlIsKnown'
BY DEF Disconnect, ControlIsKnown, TypeOK

\* No client has more inputs in the channel than there are.
LEMMA CountInputs ==
  ASSUME NEW q \in Seq(Clients), NEW c
  PROVE  /\ IsFiniteSet(InputsOf(q, c)) /\ Cardinality(InputsOf(q, c)) \in Nat
         /\ Cardinality(InputsOf(q, c)) <= Len(q)
<1>1. Len(q) \in Nat /\ DOMAIN q = 1..Len(q)
  OBVIOUS
<1>2. IsFiniteSet(1..Len(q)) /\ Cardinality(1..Len(q)) = Len(q)
  BY <1>1, FS_Interval
<1>3. InputsOf(q, c) \subseteq 1..Len(q)
  BY <1>1 DEF InputsOf
<1> QED
  BY <1>2, <1>3, FS_Subset, FS_CardinalityType

\* An input sent counts for its sender.
LEMMA CountSent ==
  ASSUME NEW q \in Seq(Clients), NEW d \in Clients, NEW c
  PROVE  Cardinality(InputsOf(Append(q, d), c)) =
            Cardinality(InputsOf(q, c)) + (IF d = c THEN 1 ELSE 0)
<1>1. /\ Len(q) \in Nat /\ DOMAIN q = 1..Len(q) /\ DOMAIN Append(q, d) = 1..(Len(q) + 1)
      /\ \A i \in 1..Len(q) : Append(q, d)[i] = q[i]
      /\ Append(q, d)[Len(q) + 1] = d
  OBVIOUS
<1>2. IsFiniteSet(InputsOf(q, c)) /\ Cardinality(InputsOf(q, c)) \in Nat
  BY CountInputs
<1>3. Len(q) + 1 \notin InputsOf(q, c)
  BY <1>1 DEF InputsOf
<1>4. CASE d = c
  <2>1. InputsOf(Append(q, d), c) = InputsOf(q, c) \cup {Len(q) + 1}
    BY <1>1, <1>4 DEF InputsOf
  <2> QED
    BY <2>1, <1>2, <1>3, <1>4, FS_AddElement
<1>5. CASE d # c
  <2>1. InputsOf(Append(q, d), c) = InputsOf(q, c)
    BY <1>1, <1>5 DEF InputsOf
  <2> QED
    BY <2>1, <1>2, <1>5
<1> QED
  BY <1>4, <1>5

\* An input taken no longer counts for its sender.
LEMMA CountTaken ==
  ASSUME NEW q \in Seq(Clients), q # <<>>, NEW c
  PROVE  Cardinality(InputsOf(q, c)) =
            Cardinality(InputsOf(Tail(q), c)) + (IF Head(q) = c THEN 1 ELSE 0)
<1> DEFINE S == InputsOf(Tail(q), c)
           T == {i \in InputsOf(q, c) : i # 1}
<1>1. /\ Len(q) \in Nat \ {0} /\ DOMAIN q = 1..Len(q) /\ Head(q) = q[1]
      /\ Tail(q) \in Seq(Clients) /\ DOMAIN Tail(q) = 1..(Len(q) - 1)
      /\ \A i \in 1..(Len(q) - 1) : Tail(q)[i] = q[i + 1]
  BY EmptySeq
<1>2. IsFiniteSet(S) /\ Cardinality(S) \in Nat
  BY <1>1, CountInputs
<1>3. IsFiniteSet(T) /\ Cardinality(T) = Cardinality(S)
  <2>1. [i \in S |-> i + 1] \in Bijection(S, T)
    <3>1. /\ \A i \in S : i \in Nat \ {0} /\ i + 1 \in T
          /\ \A j \in T : j - 1 \in S /\ (j - 1) + 1 = j
      BY <1>1 DEF InputsOf
    <3>2. [i \in S |-> i + 1] \in Injection(S, T)
      BY <3>1 DEF Injection, IsInjective
    <3>3. [i \in S |-> i + 1] \in Surjection(S, T)
      BY <3>1 DEF Surjection
    <3> QED
      BY <3>2, <3>3 DEF Bijection
  <2>2. ExistsBijection(S, T)
    BY <2>1 DEF ExistsBijection
  <2> QED
    BY <2>2, <1>2, FS_Bijection
<1>4. CASE Head(q) = c
  <2>1. InputsOf(q, c) = T \cup {1} /\ 1 \notin T
    BY <1>1, <1>4 DEF InputsOf
  <2> HIDE DEF S, T
  <2>2. Cardinality(T \cup {1}) = Cardinality(T) + 1
    BY <2>1, <1>3, FS_AddElement
  <2>3. Cardinality(InputsOf(q, c)) = Cardinality(S) + 1
    BY <2>1, <2>2, <1>3
  <2> QED
    BY <2>3, <1>4 DEF S
<1>5. CASE Head(q) # c
  <2>1. InputsOf(q, c) = T
    BY <1>1, <1>5 DEF InputsOf
  <2> HIDE DEF S, T
  <2>2. Cardinality(InputsOf(q, c)) = Cardinality(S) + 0
    BY <2>1, <1>2, <1>3
  <2> QED
    BY <2>2, <1>5 DEF S
<1> QED
  BY <1>4, <1>5

\* While no input moves and nobody gains control or starts to type without it, the
\* counts hold; who loses control now has no more to come than what is under way.
LEMMA InputsStay ==
  ASSUME TypeOK, InputsCounted, UNCHANGED <<inputQ, late>>,
         \A c \in Clients : phase'[c] = "typing" => phase[c] = "typing" \/ controller' = c,
         \A c \in Clients : controller' = c => controller = c
  PROVE  InputsCounted'
<1> SUFFICES ASSUME NEW c \in Clients
             PROVE  IF controller' = c THEN late[c] = 0
                    ELSE late[c] + ToCome(c)' <= MaxInput + 1
  BY DEF InputsCounted
<1>1. CASE controller' = c
  BY <1>1 DEF InputsCounted
<1>2. CASE controller' # c
  <2>1. /\ Cardinality(InputsOf(inputQ, c)) \in Nat /\ Cardinality(InputsOf(inputQ, c)) <= Len(inputQ)
        /\ Len(inputQ) \in Nat /\ Len(inputQ) <= MaxInput /\ MaxInput \in Nat /\ late[c] \in Nat
    BY CountInputs, WebShareAssumption DEF TypeOK
  <2>2. ToCome(c)' = Cardinality(InputsOf(inputQ, c)) + (IF phase'[c] = "typing" THEN 1 ELSE 0)
    BY DEF ToCome, InputsOf
  <2>3. CASE controller = c
    <3>1. late[c] = 0
      BY <2>3 DEF InputsCounted
    <3> QED
      BY <3>1, <2>1, <2>2, <1>2
  <2>4. CASE controller # c
    <3>1. late[c] + ToCome(c) <= MaxInput + 1
      BY <2>4 DEF InputsCounted
    <3>2. phase'[c] = "typing" => phase[c] = "typing"
      BY <1>2
    <3> QED
      BY <3>1, <3>2, <2>1, <2>2, <1>2 DEF ToCome
  <2> QED
    BY <2>3, <2>4
<1> QED
  BY <1>1, <1>2

-----------------------------------------------------------------------------

\* A share starts with no client and no controller.
LEMMA InitInv == Init => IInv
<1> SUFFICES ASSUME Init PROVE IInv
  OBVIOUS
<1>1. TypeOK
  <2>1. <<>> \in Seq(Request) /\ Len(<<>>) = 0 /\ <<>> \in Seq(Clients)
    OBVIOUS
  <2>2. 0 <= MaxControl /\ 0 <= MaxInput /\ 0 \in 0..MaxOut /\ 1 \in 1..(MaxRequests + 1)
    BY WebShareAssumption
  <2>3. /\ controlQ = <<>> /\ inputQ = <<>> /\ nextId = 1
        /\ queued \in [Clients -> 0..MaxOut]
        /\ late \in [Clients -> Nat] /\ view \in [Clients -> {"none", "read", "control"}]
        /\ phase \in [Clients -> Phases]
    BY <2>2 DEF Init, Phases
  <2> QED
    BY <2>1, <2>2, <2>3 DEF Init, TypeOK
<1>2. ControlIsKnown /\ PendingReachesDesktop /\ SameClients /\ ViewTrue
  BY DEF Init, ControlIsKnown, PendingReachesDesktop, SameClients, ViewTrue
<1>3. InputsCounted
  <2>2. \A c \in Clients : InputsOf(inputQ, c) = {}
    BY DEF Init, InputsOf
  <2>3. Cardinality({}) = 0
    BY FS_EmptySet
  <2>4. ASSUME NEW c \in Clients PROVE ToCome(c) = 0 /\ late[c] = 0
    <3>1. phase[c] # "typing" /\ late[c] = 0
      BY DEF Init
    <3>2. Cardinality(InputsOf(inputQ, c)) = 0
      BY <2>2, <2>3
    <3> QED
      BY <3>1, <3>2 DEF ToCome
  <2> QED
    BY <2>4, WebShareAssumption DEF InputsCounted
<1> QED
  BY <1>1, <1>2, <1>3 DEF Init, IInv, Newcomers

\* The handler gets to its loop.
LEMMA AcceptStep == ASSUME IInv, NEW c \in Clients, Accept(c) \/ Fail(c) PROVE IInv'
<1>1. /\ phase' \in [Clients -> Phases]
      /\ \A d \in Clients \ {c} : phase'[d] = phase[d]
      /\ phase'[c] \in {"open", "failed"}
      /\ phase'[c] = "open" => phase[c] = "new"
      /\ UNCHANGED <<accessVars, outVars, deskVars, inputVars, serverVars>>
  BY DEF Accept, Fail, Phases, IInv, TypeOK
<1>2. TypeOK'
  BY <1>1 DEF IInv, TypeOK, accessVars, outVars, deskVars, inputVars, serverVars
<1>3. SameClients' /\ Newcomers'
  BY <1>1 DEF IInv, SameClients, Newcomers, accessVars, outVars, inputVars, serverVars
<1>4. ControlIsKnown' /\ PendingReachesDesktop' /\ ViewTrue'
  BY <1>1 DEF IInv, ControlIsKnown, PendingReachesDesktop, ViewTrue, Access,
              accessVars, outVars, deskVars, inputVars, serverVars
<1>5. InputsCounted'
  BY <1>1, InputsStay DEF IInv, accessVars, inputVars
<1> QED
  BY <1>2, <1>3, <1>4, <1>5 DEF IInv

\* A newcomer starts read-only, and controls nothing.
LEMMA AuthenticateStep == ASSUME IInv, NEW c \in Clients, Authenticate(c) PROVE IInv'
<1> USE DEF IInv, Authenticate
<1>1. c \notin listed \cup known /\ queued[c] = 0 /\ controller # c
  BY WebShareAssumption DEF Newcomers, ControlIsKnown, TypeOK
<1>2. TypeOK'
  <2>1. queued' \in [Clients -> 0..MaxOut]
    BY <1>1, WebShareAssumption DEF TypeOK
  <2>2. phase' \in [Clients -> Phases] /\ view' \in [Clients -> {"none", "read", "control"}]
    BY DEF TypeOK, Phases
  <2> QED
    BY <2>1, <2>2 DEF TypeOK, deskVars, inputVars
<1>3. SameClients' /\ ControlIsKnown'
  BY DEF SameClients, ControlIsKnown, TypeOK
<1>4. ViewTrue'
  BY <1>1 DEF ViewTrue, Access, TypeOK
<1>5. Newcomers'
  BY DEF Newcomers, TypeOK, inputVars
<1>6. PendingReachesDesktop'
  BY DEF PendingReachesDesktop, deskVars
<1>7. InputsCounted'
  <2>1. \A d \in Clients : phase'[d] = "typing" => phase[d] = "typing"
    BY DEF TypeOK
  <2> QED
    BY <2>1, InputsStay DEF inputVars
<1> QED
  BY <1>2, <1>3, <1>4, <1>5, <1>6, <1>7

\* A client leaves: it is forgotten and the others are told who controls now.
LEMMA LeaveStep == ASSUME IInv, NEW c \in Clients, Leave(c) PROVE IInv'
<1> USE DEF IInv, Leave
<1>1. /\ known' = known \ {c} /\ pending' \subseteq pending
      /\ controller' \in Clients \cup {NoClient}
      /\ controller' = IF controller \in {c} THEN NoClient ELSE controller
      /\ ControlIsKnown'
  BY DisconnectFacts
<1>2. /\ queued' \in [Clients -> 0..MaxOut]
      /\ view' \in [Clients -> {"none", "read", "control"}]
      /\ missed' \subseteq Clients
      /\ \A d \in (listed \ {c}) \ missed' : view'[d] = Access(d, controller')
      /\ \A d \in Clients \ (listed \ {c}) : queued'[d] = queued[d]
  <2>1. listed \ {c} \in SUBSET Clients
    BY DEF TypeOK
  <2> QED
    BY <2>1, BroadcastAccessFacts
<1>3. /\ phase' \in [Clients -> Phases] /\ phase'[c] = "ended"
      /\ \A d \in Clients \ {c} : phase'[d] = phase[d]
      /\ listed' = listed \ {c}
      /\ UNCHANGED <<nextId, deskVars, inputVars, cut, dirty, closed>>
  BY DEF TypeOK, Phases
<1> HIDE DEF Leave
<1>4. TypeOK'
  BY <1>1, <1>2, <1>3 DEF TypeOK, deskVars, inputVars
<1>5. SameClients'
  BY <1>1, <1>3 DEF SameClients
<1>6. PendingReachesDesktop'
  BY <1>1, <1>3 DEF PendingReachesDesktop, deskVars
<1>7. ViewTrue'
  BY <1>2, <1>3 DEF ViewTrue
<1>8. Newcomers'
  BY <1>1, <1>2, <1>3 DEF Newcomers
<1>9. InputsCounted'
  BY <1>1, <1>3, InputsStay, WebShareAssumption DEF inputVars
<1> QED
  BY <1>1, <1>4, <1>5, <1>6, <1>7, <1>8, <1>9

\* A message is written to the socket, or a refusal queued.
LEMMA QueueStep ==
  ASSUME IInv, NEW c \in Clients, SendOut(c) \/ RequestRefused(c) PROVE IInv'
<1>1. /\ queued' \in [Clients -> 0..MaxOut]
      /\ \A d \in Clients : phase[d] \in {"new", "open"} => queued'[d] = 0
      /\ UNCHANGED <<phase, accessVars, view, missed, deskVars, inputVars, serverVars>>
  <2>1. CASE SendOut(c)
    BY <2>1, WebShareAssumption DEF SendOut, IInv, TypeOK, Newcomers
  <2>2. CASE RequestRefused(c)
    BY <2>2, WebShareAssumption DEF RequestRefused, Offer, Fits, IInv, TypeOK, Newcomers
  <2> QED
    BY <2>1, <2>2
<1>2. TypeOK'
  BY <1>1 DEF IInv, TypeOK, accessVars, deskVars, inputVars, serverVars
<1>3. SameClients' /\ Newcomers'
  BY <1>1 DEF IInv, SameClients, Newcomers, accessVars, inputVars, serverVars
<1>4. ControlIsKnown' /\ PendingReachesDesktop' /\ ViewTrue'
  BY <1>1 DEF IInv, ControlIsKnown, PendingReachesDesktop, ViewTrue, Access,
              accessVars, deskVars, inputVars, serverVars
<1>5. InputsCounted'
  BY <1>1, InputsStay DEF IInv, accessVars, inputVars
<1> QED
  BY <1>2, <1>3, <1>4, <1>5 DEF IInv

\* A request is granted an id and stays with its handler.
LEMMA RequestStep == ASSUME IInv, NEW c \in Clients, RequestControl(c) PROVE IInv'
<1> DEFINE r == [id |-> nextId, client |-> c]
<1>1. /\ phase[c] = "auth" /\ c \in known /\ nextId <= MaxRequests
      /\ pending' = {r} /\ asking' = asking \cup {r} /\ nextId' = nextId + 1
      /\ phase' = [phase EXCEPT ![c] = "asking"]
      /\ UNCHANGED <<known, controller, outVars, controlQ, prompt, inputVars, serverVars>>
  BY DEF RequestControl
<1>2. r \in Request /\ r.client = c
  BY <1>1 DEF Request, IInv, TypeOK
<1> HIDE DEF r
<1>3. TypeOK'
  <2>1. nextId' \in 1..(MaxRequests + 1)
    BY <1>1, WebShareAssumption DEF IInv, TypeOK
  <2>2. phase' \in [Clients -> Phases]
    BY <1>1 DEF IInv, TypeOK, Phases
  <2> QED
    BY <1>1, <1>2, <2>1, <2>2 DEF IInv, TypeOK, outVars, inputVars, serverVars
<1>4. ControlIsKnown' /\ PendingReachesDesktop'
  BY <1>1, <1>2 DEF IInv, ControlIsKnown, PendingReachesDesktop
<1>5. SameClients' /\ Newcomers'
  BY <1>1 DEF IInv, SameClients, Newcomers, TypeOK, outVars, inputVars, serverVars
<1>6. ViewTrue'
  BY <1>1 DEF IInv, ViewTrue, Access, outVars, inputVars, serverVars
<1>7. InputsCounted'
  <2>1. \A d \in Clients : phase'[d] = "typing" => phase[d] = "typing"
    BY <1>1 DEF IInv, TypeOK
  <2> QED
    BY <1>1, <2>1, InputsStay DEF IInv, inputVars
<1> QED
  BY <1>3, <1>4, <1>5, <1>6, <1>7 DEF IInv

\* The request goes from its handler into the control channel.
LEMMA SendRequestStep == ASSUME IInv, NEW c \in Clients, SendRequest(c) PROVE IInv'
<1>1. PICK r \in asking :
        /\ asking' = asking \ {r}
        /\ controlQ' = Append(controlQ, r)
  BY DEF SendRequest
<1>2. /\ Len(controlQ) < MaxControl
      /\ phase[c] = "asking" /\ phase' = [phase EXCEPT ![c] = "auth"]
      /\ UNCHANGED <<accessVars, outVars, prompt, inputVars, serverVars>>
  BY DEF SendRequest
<1>3. controlQ \in Seq(Request) /\ r \in Request /\ Len(controlQ) \in Nat
  BY DEF IInv, TypeOK
<1>4. /\ controlQ' \in Seq(Request) /\ Len(controlQ') = Len(controlQ) + 1
      /\ \A i \in 1..Len(controlQ) : controlQ'[i] = controlQ[i]
      /\ controlQ'[Len(controlQ) + 1] = r
  BY <1>1, <1>3, AppendProperties
<1>5. TypeOK'
  <2>1. Len(controlQ') <= MaxControl
    BY <1>2, <1>3, <1>4, WebShareAssumption
  <2>2. phase' \in [Clients -> Phases]
    BY <1>2 DEF IInv, TypeOK, Phases
  <2> QED
    BY <1>1, <1>2, <1>4, <2>1, <2>2
    DEF IInv, TypeOK, accessVars, outVars, inputVars, serverVars
<1>6. PendingReachesDesktop'
  <2> SUFFICES ASSUME NEW q \in pending
               PROVE  q \in asking' \/ q = prompt \/ \E i \in DOMAIN controlQ' : controlQ'[i] = q
    BY <1>2 DEF PendingReachesDesktop, accessVars
  <2>1. DOMAIN controlQ' = 1..(Len(controlQ) + 1) /\ DOMAIN controlQ = 1..Len(controlQ)
    BY <1>3, <1>4
  <2>2. CASE q = r
    BY <2>1, <2>2, <1>3, <1>4
  <2>3. CASE q \in asking /\ q # r
    BY <2>3, <1>1
  <2>4. CASE \E i \in DOMAIN controlQ : controlQ[i] = q
    BY <2>1, <2>4, <1>3, <1>4
  <2> QED
    BY <2>2, <2>3, <2>4 DEF IInv, PendingReachesDesktop
<1>7. SameClients' /\ Newcomers' /\ ControlIsKnown'
  BY <1>2 DEF IInv, SameClients, Newcomers, ControlIsKnown, TypeOK,
              accessVars, outVars, inputVars, serverVars
<1>8. ViewTrue'
  BY <1>2 DEF IInv, ViewTrue, Access, accessVars, outVars, inputVars, serverVars
<1>9. InputsCounted'
  <2>1. \A d \in Clients : phase'[d] = "typing" => phase[d] = "typing"
    BY <1>2 DEF IInv, TypeOK
  <2> QED
    BY <1>2, <2>1, InputsStay DEF IInv, accessVars, inputVars
<1> QED
  BY <1>5, <1>6, <1>7, <1>8, <1>9 DEF IInv

\* Control is given back or taken back, and everyone listed is told.
LEMMA FreedStep ==
  ASSUME IInv, Revoke \/ \E c \in Clients : ReleaseControl(c) PROVE IInv'
<1>1. /\ controller' = NoClient
      /\ BroadcastAccess(listed, NoClient)
      /\ UNCHANGED <<phase, known, pending, nextId, deskVars, inputVars, serverVars>>
  BY DEF Revoke, ReleaseControl
<1>2. /\ queued' \in [Clients -> 0..MaxOut]
      /\ view' \in [Clients -> {"none", "read", "control"}]
      /\ missed' \subseteq Clients
      /\ \A d \in listed \ missed' : view'[d] = Access(d, NoClient)
      /\ \A d \in Clients \ listed : queued'[d] = queued[d]
  <2>1. TypeOK /\ listed \in SUBSET Clients
    BY DEF IInv, TypeOK
  <2> QED
    BY <1>1, <2>1, BroadcastAccessFacts
<1>3. TypeOK'
  BY <1>1, <1>2 DEF IInv, TypeOK, deskVars, inputVars, serverVars
<1>4. SameClients' /\ ControlIsKnown' /\ PendingReachesDesktop'
  BY <1>1 DEF IInv, SameClients, ControlIsKnown, PendingReachesDesktop, deskVars, serverVars
<1>5. ViewTrue'
  BY <1>1, <1>2 DEF ViewTrue, serverVars
<1>6. Newcomers'
  BY <1>1, <1>2, WebShareAssumption
  DEF IInv, Newcomers, inputVars, serverVars
<1>7. InputsCounted'
  <2>1. \A c \in Clients : controller' # c
    BY <1>1, WebShareAssumption
  <2> QED
    BY <1>1, <2>1, InputsStay DEF IInv, inputVars
<1> QED
  BY <1>3, <1>4, <1>5, <1>6, <1>7 DEF IInv

\* An input is checked, and then sent on without another look at the rules.
LEMMA InputStep ==
  ASSUME IInv, NEW c \in Clients, Input(c) \/ SendInput(c) PROVE IInv'
<1>1. /\ phase' \in [Clients -> Phases]
      /\ \A d \in Clients \ {c} : phase'[d] = phase[d]
      /\ phase[c] \in {"auth", "typing"} /\ phase'[c] \in {"auth", "typing"}
      /\ UNCHANGED <<accessVars, outVars, deskVars, listening, serverVars>>
  BY DEF Input, SendInput, IInv, TypeOK, Phases, inputVars
<1>2. late' = late /\ InputsCounted'
  <2>1. CASE Input(c)
    <3>1. controller' = c /\ UNCHANGED <<inputQ, late>> /\ \A d \in Clients : controller' = d => controller = d
      BY <2>1 DEF Input, accessVars, inputVars
    <3>2. \A d \in Clients : phase'[d] = "typing" => phase[d] = "typing" \/ controller' = d
      BY <3>1, <1>1
    <3> QED
      BY <3>1, <3>2, InputsStay DEF IInv
  <2>2. CASE SendInput(c)
    <3>1. PICK q \in Seq(Clients) : q = inputQ
      BY DEF IInv, TypeOK
    <3>2. /\ inputQ' = Append(q, c) /\ phase[c] = "typing" /\ phase'[c] = "auth"
          /\ late' = late /\ controller' = controller
      BY <2>2, <3>1, <1>1 DEF SendInput, IInv, TypeOK, accessVars
    <3>3. \A d \in Clients : ToCome(d)' = ToCome(d)
      <4> SUFFICES ASSUME NEW d \in Clients PROVE ToCome(d)' = ToCome(d)
        OBVIOUS
      <4>1. Cardinality(InputsOf(Append(q, c), d)) =
               Cardinality(InputsOf(q, d)) + (IF c = d THEN 1 ELSE 0)
        BY CountSent
      <4>2. Cardinality(InputsOf(q, d)) \in Nat
        BY CountInputs
      <4>3. Cardinality(InputsOf(inputQ', d)) = Cardinality(InputsOf(q, d)) + (IF c = d THEN 1 ELSE 0)
        BY <4>1, <3>2
      <4>4. ToCome(d)' = Cardinality(InputsOf(inputQ', d)) + (IF phase'[d] = "typing" THEN 1 ELSE 0)
        BY DEF ToCome, InputsOf
      <4>5. ToCome(d) = Cardinality(InputsOf(q, d)) + (IF phase[d] = "typing" THEN 1 ELSE 0)
        BY <3>1 DEF ToCome
      <4>6. CASE c = d
        BY <4>2, <4>3, <4>4, <4>5, <4>6, <3>2
      <4>7. CASE c # d
        BY <4>2, <4>3, <4>4, <4>5, <4>7, <1>1
      <4> QED
        BY <4>6, <4>7
    <3> QED
      BY <3>2, <3>3 DEF IInv, InputsCounted
  <2> QED
    BY <2>1, <2>2
<1>3. inputQ' \in Seq(Clients) /\ Len(inputQ') <= MaxInput
  <2>1. CASE Input(c)
    BY <2>1 DEF Input, IInv, TypeOK, inputVars
  <2>2. CASE SendInput(c)
    <3>1. inputQ \in Seq(Clients) /\ Len(inputQ) \in Nat /\ Len(inputQ) < MaxInput
      BY <2>2 DEF SendInput, IInv, TypeOK
    <3>2. inputQ' \in Seq(Clients) /\ Len(inputQ') = Len(inputQ) + 1
      BY <2>2, <3>1, AppendProperties DEF SendInput
    <3> QED
      BY <3>1, <3>2, WebShareAssumption
  <2> QED
    BY <2>1, <2>2
<1>4. TypeOK'
  BY <1>1, <1>2, <1>3 DEF IInv, TypeOK, accessVars, outVars, deskVars, serverVars
<1>5. SameClients' /\ Newcomers'
  BY <1>1 DEF IInv, SameClients, Newcomers, accessVars, outVars, serverVars
<1>6. ControlIsKnown' /\ PendingReachesDesktop' /\ ViewTrue'
  BY <1>1 DEF IInv, ControlIsKnown, PendingReachesDesktop, ViewTrue, Access,
              accessVars, outVars, deskVars, serverVars
<1> QED
  BY <1>2, <1>4, <1>5, <1>6 DEF IInv

\* The input loop took the next input, and wrote it unless the terminal was gone.
Taken ==
    /\ inputQ # <<>> /\ inputQ' = Tail(inputQ)
    /\ late' \in {late, [late EXCEPT ![Head(inputQ)] = IF controller = Head(inputQ) THEN 0 ELSE @ + 1]}

\* An input written is no longer to come.
LEMMA TakenCounted ==
  ASSUME TypeOK, InputsCounted, UNCHANGED <<phase, controller>>, Taken
  PROVE  late' \in [Clients -> Nat] /\ InputsCounted'
<1>1. PICK q \in Seq(Clients) : q = inputQ /\ q # <<>>
  BY DEF TypeOK, Taken
<1>2. PICK h \in Clients : h = Head(q)
  BY <1>1, HeadTailProperties
<1>3. inputQ' = Tail(q) /\ late \in [Clients -> Nat]
  BY <1>1 DEF Taken, TypeOK
<1>3a. PICK n \in Nat : n = IF controller = h THEN 0 ELSE late[h] + 1
  BY <1>3
<1>3b. late' = late \/ late' = [late EXCEPT ![h] = n]
  BY <1>1, <1>2, <1>3a DEF Taken
<1>4. /\ late' \in [Clients -> Nat]
      /\ \A c \in Clients : late'[c] = late[c] \/ (c = h /\ late'[c] = n)
  <2>1. CASE late' = late
    BY <2>1, <1>3
  <2>2. CASE late' = [late EXCEPT ![h] = n]
    BY <2>2, <1>3, <1>3a
  <2> QED
    BY <1>3b, <2>1, <2>2
<1>5. ASSUME NEW c \in Clients, controller # c PROVE late'[c] + ToCome(c)' <= MaxInput + 1
  <2>1. Cardinality(InputsOf(q, c)) =
           Cardinality(InputsOf(Tail(q), c)) + (IF Head(q) = c THEN 1 ELSE 0)
    BY <1>1, CountTaken
  <2>2. PICK k : k = Cardinality(InputsOf(Tail(q), c))
    OBVIOUS
  <2>3. k \in Nat
    BY <1>1, <2>2, HeadTailProperties, CountInputs
  <2>4. PICK typing \in {0, 1} : typing = IF phase[c] = "typing" THEN 1 ELSE 0
    OBVIOUS
  <2>5. ToCome(c) = k + (IF h = c THEN 1 ELSE 0) + typing
    BY <1>1, <1>2, <2>1, <2>2, <2>4 DEF ToCome
  <2>6. ToCome(c)' = k + typing
    <3>1. ToCome(c)' = Cardinality(InputsOf(inputQ', c)) + (IF phase[c] = "typing" THEN 1 ELSE 0)
      BY DEF ToCome, InputsOf
    <3> QED
      BY <3>1, <1>3, <2>2, <2>4
  <2>7. late[c] + ToCome(c) <= MaxInput + 1 /\ late[c] \in Nat /\ MaxInput \in Nat
    BY <1>3, <1>5, WebShareAssumption DEF InputsCounted
  <2>8. CASE late'[c] = late[c]
    BY <2>3, <2>4, <2>5, <2>6, <2>7, <2>8
  <2>9. CASE c = h /\ late'[c] = late[c] + 1
    BY <2>3, <2>4, <2>5, <2>6, <2>7, <2>9
  <2> QED
    BY <1>3a, <1>4, <1>5, <2>8, <2>9
<1>6. ASSUME NEW c \in Clients, controller = c PROVE late'[c] = 0
  BY <1>3a, <1>4, <1>6 DEF InputsCounted
<1> QED
  BY <1>4, <1>5, <1>6 DEF InputsCounted

\* The screen changes, an input is written to the terminal, or the share ends.
LEMMA AsideStep ==
  ASSUME IInv, UpdateSnapshot \/ TakeInput \/ Shutdown PROVE IInv'
<1>1. /\ UNCHANGED <<phase, accessVars, outVars, deskVars>>
      /\ cut' \subseteq Clients /\ dirty' \in BOOLEAN /\ closed' \in BOOLEAN
      /\ listed' \subseteq listed
      /\ ~closed' => ~closed /\ listed' = listed
      /\ listening' \in BOOLEAN
      /\ (inputQ' = inputQ /\ late' = late) \/ Taken
  BY DEF UpdateSnapshot, TakeInput, WriteInput, Shutdown, Taken, IInv, TypeOK, inputVars, serverVars
<1>2. inputQ' \in Seq(Clients) /\ Len(inputQ') <= MaxInput
  <2>1. inputQ \in Seq(Clients) /\ Len(inputQ) \in Nat /\ Len(inputQ) <= MaxInput
    BY DEF IInv, TypeOK
  <2>2. CASE Taken
    <3>1. inputQ' \in Seq(Clients) /\ Len(inputQ') = Len(inputQ) - 1
      BY <2>1, <2>2, HeadTailProperties DEF Taken
    <3> QED
      BY <2>1, <3>1, WebShareAssumption
  <2> QED
    BY <1>1, <2>1, <2>2
<1>2a. late' \in [Clients -> Nat] /\ InputsCounted'
  <2>1. CASE inputQ' = inputQ /\ late' = late
    BY <2>1, <1>1, InputsStay DEF IInv, TypeOK, accessVars
  <2>2. CASE Taken
    BY <2>2, <1>1, TakenCounted DEF IInv, accessVars
  <2> QED
    BY <1>1, <2>1, <2>2
<1>3. TypeOK'
  BY <1>1, <1>2, <1>2a DEF IInv, TypeOK, accessVars, outVars, deskVars
<1>4. SameClients' /\ Newcomers'
  BY <1>1 DEF IInv, SameClients, Newcomers, accessVars, outVars
<1>6. ControlIsKnown' /\ PendingReachesDesktop' /\ ViewTrue'
  BY <1>1 DEF IInv, ControlIsKnown, PendingReachesDesktop, ViewTrue, Access,
              accessVars, outVars, deskVars
<1> QED
  BY <1>2a, <1>3, <1>4, <1>6 DEF IInv

\* The update goes to every client that has room; the others are cut off, and
\* losing its controller tells nobody else anything new.
LEMMA BroadcastStep == ASSUME IInv, Broadcast PROVE IInv'
<1> DEFINE out == {c \in listed : ~Fits(c)}
<1>1. /\ queued' = [c \in Clients |-> IF c \in listed \ out THEN queued[c] + 1 ELSE queued[c]]
      /\ listed' = listed \ out /\ cut' = cut \cup out
      /\ Disconnect(out) /\ dirty' = FALSE
      /\ UNCHANGED <<phase, nextId, view, missed, deskVars, inputVars, closed>>
  BY DEF Broadcast
<1>2. out \in SUBSET Clients /\ \A c \in listed \ out : queued[c] < MaxOut
  BY DEF IInv, TypeOK, Fits
<1> HIDE DEF out
<1>3. /\ known' = known \ out /\ pending' \subseteq pending
      /\ controller' \in Clients \cup {NoClient}
      /\ controller' = IF controller \in out THEN NoClient ELSE controller
      /\ ControlIsKnown'
  BY <1>1, <1>2, DisconnectFacts DEF IInv
<1>4. queued' \in [Clients -> 0..MaxOut]
  BY <1>1, <1>2, WebShareAssumption DEF IInv, TypeOK
<1>5. TypeOK'
  BY <1>1, <1>2, <1>3, <1>4 DEF IInv, TypeOK, deskVars, inputVars
<1>6. SameClients'
  BY <1>1, <1>3 DEF IInv, SameClients
<1>7. PendingReachesDesktop'
  BY <1>1, <1>3 DEF IInv, PendingReachesDesktop, deskVars
<1>8. ViewTrue'
  BY <1>1, <1>3, WebShareAssumption DEF IInv, TypeOK, ViewTrue, Access
<1>9. Newcomers'
  BY <1>1, <1>3 DEF IInv, TypeOK, Newcomers
<1>10. InputsCounted'
  <2>1. \A c \in Clients : controller' = c => controller = c
    BY <1>3, WebShareAssumption
  <2> QED
    BY <1>1, <2>1, InputsStay DEF IInv, inputVars
<1> QED
  BY <1>3, <1>5, <1>6, <1>7, <1>8, <1>9, <1>10 DEF IInv

\* The approval loop opens the dialog of the request at the channel's head.
LEMMA OpenPromptStep == ASSUME IInv, OpenPrompt PROVE IInv'
<1>1. /\ prompt = NoClient /\ controlQ # <<>>
      /\ prompt' = Head(controlQ) /\ controlQ' = Tail(controlQ)
      /\ UNCHANGED <<phase, accessVars, outVars, asking, inputVars, serverVars>>
  BY DEF OpenPrompt
<1>2. controlQ \in Seq(Request) /\ Len(controlQ) \in Nat /\ Len(controlQ) <= MaxControl
  BY DEF IInv, TypeOK
<1>3. /\ controlQ' \in Seq(Request) /\ Len(controlQ') = Len(controlQ) - 1
      /\ \A i \in 1..Len(controlQ') : controlQ'[i] = controlQ[i + 1]
      /\ prompt' = controlQ[1] /\ prompt' \in Request
  BY <1>1, <1>2, HeadTailProperties
<1>4. TypeOK'
  <2>1. Len(controlQ') <= MaxControl
    BY <1>2, <1>3, WebShareAssumption
  <2> QED
    BY <1>1, <1>3, <2>1 DEF IInv, TypeOK, accessVars, outVars, inputVars, serverVars
<1>5. PendingReachesDesktop'
  <2> SUFFICES ASSUME NEW q \in pending
               PROVE  q \in asking \/ q = prompt' \/ \E i \in DOMAIN controlQ' : controlQ'[i] = q
    BY <1>1 DEF PendingReachesDesktop, accessVars
  <2>1. CASE q \in asking
    BY <2>1
  <2>2. ASSUME NEW i \in DOMAIN controlQ, controlQ[i] = q
        PROVE  q = prompt' \/ \E j \in DOMAIN controlQ' : controlQ'[j] = q
    <3>1. i \in 1..Len(controlQ)
      BY <1>2
    <3>2. CASE i = 1
      BY <3>2, <2>2, <1>3
    <3>3. CASE i # 1
      <4>1. i - 1 \in 1..Len(controlQ') /\ i = (i - 1) + 1
        BY <3>1, <3>3, <1>2, <1>3
      <4>2. controlQ'[i - 1] = q /\ i - 1 \in DOMAIN controlQ'
        BY <4>1, <2>2, <1>3
      <4> QED
        BY <4>2
    <3> QED
      BY <3>2, <3>3
  <2>3. q # prompt
    BY <1>1, WebShareAssumption DEF IInv, TypeOK
  <2> QED
    BY <2>1, <2>2, <2>3 DEF IInv, PendingReachesDesktop
<1>6. SameClients' /\ Newcomers' /\ ControlIsKnown'
  BY <1>1 DEF IInv, SameClients, Newcomers, ControlIsKnown,
              accessVars, outVars, inputVars, serverVars
<1>7. ViewTrue'
  BY <1>1 DEF IInv, ViewTrue, Access, accessVars, outVars, inputVars, serverVars
<1>8. InputsCounted'
  BY <1>1, InputsStay DEF IInv, accessVars, inputVars
<1> QED
  BY <1>4, <1>5, <1>6, <1>7, <1>8 DEF IInv

\* Who gains control starts to count anew; who loses it to another is counted.
LEMMA InputsGain ==
  ASSUME TypeOK, InputsCounted, NEW p \in Clients, controller' = p, UNCHANGED <<phase, inputQ>>,
         late' \in [Clients -> Nat], late'[p] = 0, \A d \in Clients \ {p} : late'[d] = late[d]
  PROVE  InputsCounted'
<1> SUFFICES ASSUME NEW c \in Clients, c # p PROVE late'[c] + ToCome(c)' <= MaxInput + 1
  BY DEF InputsCounted
<1>1. late'[c] = late[c] /\ ToCome(c)' = ToCome(c)
  BY DEF ToCome, InputsOf
<1>2. CASE controller = c
  <2>1. /\ Cardinality(InputsOf(inputQ, c)) \in Nat /\ Cardinality(InputsOf(inputQ, c)) <= Len(inputQ)
        /\ Len(inputQ) \in Nat /\ Len(inputQ) <= MaxInput /\ MaxInput \in Nat
    BY CountInputs, WebShareAssumption DEF TypeOK
  <2>2. late[c] = 0
    BY <1>2 DEF InputsCounted
  <2> QED
    BY <1>1, <2>1, <2>2 DEF ToCome
<1>3. CASE controller # c
  BY <1>1, <1>3 DEF InputsCounted
<1> QED
  BY <1>2, <1>3

\* The dialog is answered: a request that is still pending gets control, any
\* other changes nothing.
LEMMA AnswerStep == ASSUME IInv, Approve \/ Deny PROVE IInv'
<1>1. CASE Approve /\ prompt \in pending /\ prompt.client \in known
  <2> DEFINE p == prompt.client
  <2>1. /\ controller' = p /\ pending' = {} /\ prompt' = NoClient
        /\ BroadcastAccess(listed, p)
        /\ late' = [late EXCEPT ![p] = 0]
        /\ UNCHANGED <<phase, known, nextId, asking, controlQ, inputQ, listening, serverVars>>
    BY <1>1 DEF Approve
  <2>2. p \in known /\ p \in Clients /\ TypeOK /\ listed \in SUBSET Clients
    BY <1>1 DEF IInv, TypeOK
  <2> HIDE DEF p
  <2>3. /\ queued' \in [Clients -> 0..MaxOut]
        /\ view' \in [Clients -> {"none", "read", "control"}]
        /\ missed' \subseteq Clients
        /\ \A d \in listed \ missed' : view'[d] = Access(d, p)
        /\ \A d \in Clients \ listed : queued'[d] = queued[d]
    BY <2>1, <2>2, BroadcastAccessFacts
  <2>4. /\ late' \in [Clients -> Nat] /\ late'[p] = 0
        /\ \A d \in Clients \ {p} : late'[d] = late[d]
    BY <2>1, <2>2 DEF TypeOK
  <2>5. TypeOK'
    BY <2>1, <2>2, <2>3, <2>4 DEF TypeOK, serverVars
  <2>6. SameClients' /\ ControlIsKnown' /\ PendingReachesDesktop'
    BY <2>1, <2>2 DEF IInv, SameClients, ControlIsKnown, PendingReachesDesktop, serverVars
  <2>7. ViewTrue'
    BY <2>1, <2>3 DEF ViewTrue, serverVars
  <2>8. Newcomers'
    BY <2>1, <2>3 DEF IInv, Newcomers, serverVars
  <2>9. InputsCounted'
    BY <2>1, <2>2, <2>4, InputsGain DEF IInv
  <2> QED
    BY <2>5, <2>6, <2>7, <2>8, <2>9 DEF IInv
<1>2. CASE Deny \/ (Approve /\ ~(prompt \in pending /\ prompt.client \in known))
  <2>1. /\ pending' = pending \ {prompt} /\ prompt' = NoClient
        /\ UNCHANGED <<phase, known, controller, nextId, outVars, asking, controlQ,
                       inputVars, serverVars>>
    BY <1>2 DEF Approve, Deny, inputVars
  <2>2. TypeOK'
    BY <2>1 DEF IInv, TypeOK, outVars, inputVars, serverVars
  <2>3. ControlIsKnown' /\ PendingReachesDesktop'
    BY <2>1 DEF IInv, ControlIsKnown, PendingReachesDesktop
  <2>4. SameClients' /\ Newcomers'
    BY <2>1 DEF IInv, SameClients, Newcomers, outVars, inputVars, serverVars
  <2>5. ViewTrue'
    BY <2>1 DEF IInv, ViewTrue, Access, outVars, inputVars, serverVars
  <2>6. InputsCounted'
    BY <2>1, InputsStay DEF IInv, inputVars
  <2> QED
    BY <2>2, <2>3, <2>4, <2>5, <2>6 DEF IInv
<1> QED
  BY <1>1, <1>2

\* A stuttering step.
LEMMA StutterStep == ASSUME IInv, UNCHANGED vars PROVE IInv'
<1>1. UNCHANGED <<phase, accessVars, outVars, deskVars, inputVars, serverVars>>
  BY DEF vars
<1>2. TypeOK'
  BY <1>1 DEF IInv, TypeOK, accessVars, outVars, deskVars, inputVars, serverVars
<1>3. SameClients' /\ Newcomers' /\ ControlIsKnown' /\ PendingReachesDesktop'
  BY <1>1 DEF IInv, SameClients, Newcomers, ControlIsKnown, PendingReachesDesktop,
              accessVars, outVars, deskVars, inputVars, serverVars
<1>4. ViewTrue'
  BY <1>1 DEF IInv, ViewTrue, Access, accessVars, outVars, inputVars, serverVars
<1>5. InputsCounted'
  BY <1>1, InputsStay DEF IInv, accessVars, inputVars
<1> QED
  BY <1>2, <1>3, <1>4, <1>5 DEF IInv

\* Every step of a websocket, the desktop and the broadcaster keeps it.
LEMMA NextInv == IInv /\ [Next]_vars => IInv'
<1> SUFFICES ASSUME IInv, [Next]_vars PROVE IInv'
  OBVIOUS
<1>1. ASSUME NEW c \in Clients, Handler(c) PROVE IInv'
  BY <1>1, AcceptStep, AuthenticateStep, LeaveStep, QueueStep, RequestStep, SendRequestStep,
     FreedStep, InputStep DEF Handler
<1>2. CASE UpdateSnapshot
  BY <1>2, AsideStep
<1>3. CASE Broadcast
  BY <1>3, BroadcastStep
<1>4. CASE Desktop
  BY <1>4, OpenPromptStep, AnswerStep, FreedStep, AsideStep DEF Desktop
<1>5. CASE UNCHANGED vars
  BY <1>5, StutterStep
<1> QED
  BY <1>1, <1>2, <1>3, <1>4, <1>5 DEF Next

\* The access rules and everything that depends on them, in every reachable
\* state of a share.
THEOREM Invariance == Spec => []IInv
<1> QED
  BY InitInv, NextInv, PTL DEF Spec

\* Every variable of a share keeps its type: queues stay within their capacities.
THEOREM TypeCorrect == Spec => []TypeOK
<1>1. IInv => TypeOK
  BY DEF IInv
<1> QED
  BY <1>1, Invariance, PTL

\* List and access rules name the same clients, whatever way each came and
\* went, and neither control nor the open request is left with one that is gone.
THEOREM AccessKept == Spec => []AccessConsistent
<1>1. IInv => AccessConsistent
  BY DEF IInv, AccessConsistent
<1> QED
  BY <1>1, Invariance, PTL

\* The request that shuts out the others is never lost on its way to the dialog.
THEOREM RequestsArrive == Spec => []PendingReachesDesktop
<1>1. IInv => PendingReachesDesktop
  BY DEF IInv
<1> QED
  BY <1>1, Invariance, PTL

\* A client that was reached by the last news knows who controls.
THEOREM ViewsTrue == Spec => []ViewTrue
<1>1. IInv => ViewTrue
  BY DEF IInv
<1> QED
  BY <1>1, Invariance, PTL

\* Of a client that lost control, at most what fits in the channel and the one input
\* its handler was sending is still written, however long it goes on.
THEOREM LateInputsBounded == Spec => []LateInputBounded
<1>1. IInv => LateInputBounded
  <2> SUFFICES ASSUME IInv, NEW c \in Clients PROVE late[c] <= MaxInput + 1
    BY DEF LateInputBounded
  <2>1. /\ Cardinality(InputsOf(inputQ, c)) \in Nat /\ late[c] \in Nat /\ MaxInput \in Nat
    BY CountInputs, WebShareAssumption DEF IInv, TypeOK
  <2> QED
    BY <2>1 DEF IInv, InputsCounted, ToCome
<1> QED
  BY <1>1, Invariance, PTL

\* Control is only ever given to the client whose dialog was approved while its
\* request was the open one.
THEOREM OnlyApproved == Spec => StaleApprovalsIgnored
<1> DEFINE A == controller' # controller /\ controller' # NoClient =>
                  \E r \in pending : r = prompt /\ r.client = controller' /\ r.client \in known
<1>1. [Next]_vars => [A]_vars
  <2> SUFFICES ASSUME Next, controller' # controller, controller' # NoClient
               PROVE  \E r \in pending : r = prompt /\ r.client = controller' /\ r.client \in known
    OBVIOUS
  <2>1. CASE Approve
    BY <2>1 DEF Approve
  <2>2. ASSUME NEW c \in Clients, Handler(c) PROVE FALSE
    BY <2>2 DEF Handler, Accept, Authenticate, Leave, Fail, SendOut, RequestControl,
       RequestRefused, SendRequest, ReleaseControl, Input, SendInput, Disconnect, accessVars
  <2>3. CASE UpdateSnapshot \/ Broadcast
    BY <2>3 DEF UpdateSnapshot, Broadcast, Disconnect, accessVars
  <2>4. CASE OpenPrompt \/ Deny \/ Revoke \/ TakeInput \/ Shutdown
    BY <2>4 DEF OpenPrompt, Deny, Revoke, TakeInput, Shutdown, accessVars
  <2> QED
    BY <2>1, <2>2, <2>3, <2>4 DEF Next, Desktop
<1> QED
  BY <1>1, PTL DEF Spec, StaleApprovalsIgnored

-----------------------------------------------------------------------------
(* WebScreens: how the screens reach the browsers. *)

ScreenInv == ScreenTypeOK /\ UpdateNotLost /\ UpdatesAddUp

\* At the start of a share everything shows the same screen and nobody listens.
LEMMA ScreenInitInv == ScreenInit => ScreenInv
<1> SUFFICES ASSUME ScreenInit PROVE ScreenInv
  OBVIOUS
<1>1. ScreenTypeOK
  BY DEF ScreenInit, ScreenTypeOK, Screens
<1> QED
  BY <1>1 DEF ScreenInit, ScreenInv, UpdateNotLost, UpdatesAddUp

\* The terminal is written between two runs of update_snapshot.
LEMMA ScreenWrite == ASSUME ScreenInv, NEW r \in Rows, NEW t \in Texts, Write(r, t)
  PROVE ScreenInv'
<1> USE DEF ScreenInv, Write
<1>1. ScreenTypeOK'
  BY DEF ScreenTypeOK, Screens
<1> QED
  BY <1>1 DEF UpdateNotLost, UpdatesAddUp

\* A step of update_snapshot: the new screen is stored, then its token sent.
LEMMA ScreenUpdate == ASSUME ScreenInv, StoreSnapshot \/ SendToken
  PROVE ScreenInv'
<1>1. ScreenTypeOK'
  BY DEF ScreenInv, StoreSnapshot, SendToken, ScreenTypeOK
<1>2. UpdateNotLost'
  BY DEF ScreenInv, StoreSnapshot, SendToken, UpdateNotLost
<1>3. UpdatesAddUp'
  BY DEF ScreenInv, StoreSnapshot, SendToken, UpdatesAddUp
<1> QED
  BY <1>1, <1>2, <1>3 DEF ScreenInv

\* A token is used up only by a broadcaster that stays awake.
LEMMA ScreenAwake == ASSUME ScreenInv, Wake \/ Drain PROVE ScreenInv'
<1>1. ScreenTypeOK'
  BY DEF ScreenInv, Wake, Drain, ScreenTypeOK
<1>2. UpdateNotLost'
  BY DEF ScreenInv, Wake, Drain, UpdateNotLost
<1>3. UpdatesAddUp'
  BY DEF ScreenInv, Wake, Drain, UpdatesAddUp
<1> QED
  BY <1>1, <1>2, <1>3 DEF ScreenInv

\* The broadcast brings every browser in step from the last one to this one.
LEMMA ScreenBroadcast == ASSUME ScreenInv, BroadcastScreen PROVE ScreenInv'
<1> USE DEF ScreenInv, BroadcastScreen
<1>1. /\ snapshot \in [Rows -> Texts] /\ broadcast \in [Rows -> Texts]
      /\ shown \in [Browsers -> [Rows -> Texts \cup {Blank}]]
      /\ joined \subseteq Browsers /\ inStep \subseteq joined
  BY DEF ScreenTypeOK, Screens
<1>2. ScreenTypeOK'
  <2>1. shown' \in [Browsers -> [Rows -> Texts \cup {Blank}]]
    BY <1>1
  <2> QED
    BY <2>1 DEF ScreenTypeOK
<1>3. ASSUME NEW c \in inStep PROVE shown'[c] = snapshot
  <2>1. shown[c] = broadcast /\ c \in Browsers /\ c \in joined
    BY <1>1 DEF UpdatesAddUp
  <2>2. shown'[c] = [r \in Rows |-> IF r \in Changed THEN snapshot[r] ELSE shown[c][r]]
    BY <2>1
  <2>3. \A r \in Rows : r \notin Changed => broadcast[r] = snapshot[r]
    BY DEF Changed
  <2>4. shown'[c] = [r \in Rows |-> snapshot[r]]
    BY <2>1, <2>2, <2>3
  <2> QED
    BY <2>4, <1>1
<1>4. UpdatesAddUp'
  BY <1>3 DEF UpdatesAddUp
<1>5. UpdateNotLost'
  BY DEF UpdateNotLost
<1> QED
  BY <1>2, <1>4, <1>5

\* A client that joins with nothing unsent is sent the last broadcast.
LEMMA ScreenAuthenticate == ASSUME ScreenInv, NEW c \in Browsers, SendFirstScreen(c)
  PROVE ScreenInv'
<1> USE DEF ScreenInv, SendFirstScreen
<1>1. snapshot \in [Rows -> Texts \cup {Blank}]
  BY DEF ScreenTypeOK, Screens
<1>2. ScreenTypeOK'
  BY <1>1 DEF ScreenTypeOK
<1>3. UpdatesAddUp'
  BY DEF UpdatesAddUp, ScreenTypeOK
<1> QED
  BY <1>2, <1>3 DEF UpdateNotLost

\* Every step of the UI thread, the broadcaster and the websockets.
LEMMA ScreenNextInv == ScreenInv /\ [ScreenNext]_screenVars => ScreenInv'
<1> SUFFICES ASSUME ScreenInv, [ScreenNext]_screenVars PROVE ScreenInv'
  OBVIOUS
<1>1. ASSUME NEW r \in Rows, NEW t \in Texts, Write(r, t) PROVE ScreenInv'
  BY <1>1, ScreenWrite
<1>2. CASE StoreSnapshot \/ SendToken
  BY <1>2, ScreenUpdate
<1>3. CASE Wake \/ Drain
  BY <1>3, ScreenAwake
<1>4. CASE BroadcastScreen
  BY <1>4, ScreenBroadcast
<1>5. ASSUME NEW c \in Browsers, SendFirstScreen(c) PROVE ScreenInv'
  BY <1>5, ScreenAuthenticate
<1>6. CASE UNCHANGED (screenVars)
  BY <1>6 DEF screenVars, ScreenInv, ScreenTypeOK, UpdateNotLost, UpdatesAddUp
<1> QED
  BY <1>1, <1>2, <1>3, <1>4, <1>5, <1>6 DEF ScreenNext

\* The inductive invariant holds of every behaviour of the share's screens.
THEOREM ScreenInvariance == ScreenSpec => []ScreenInv
<1> QED
  BY ScreenInitInv, ScreenNextInv, PTL DEF ScreenSpec

\* The screens and the broadcaster keep their types.
THEOREM ScreensTyped == ScreenSpec => []ScreenTypeOK
<1>1. ScreenInv => ScreenTypeOK
  BY DEF ScreenInv
<1> QED
  BY <1>1, ScreenInvariance, PTL

\* However the UI thread and the broadcaster interleave, a snapshot that was
\* not broadcast has a token, or a broadcaster awake to send it.
THEOREM UpdatesNotLost == ScreenSpec => []UpdateNotLost
<1>1. ScreenInv => UpdateNotLost
  BY DEF ScreenInv
<1> QED
  BY <1>1, ScreenInvariance, PTL

\* A browser that joined with nothing unsent shows the last broadcast for good.
THEOREM BrowsersInStep == ScreenSpec => []UpdatesAddUp
<1>1. ScreenInv => UpdatesAddUp
  BY DEF ScreenInv
<1> QED
  BY <1>1, ScreenInvariance, PTL

-----------------------------------------------------------------------------
(* WebShareDesktop: the window's book-keeping of its shares. *)

\* A share is kept under the terminal it was started for, and its loop runs.
OwnTerminal ==
    \A t \in Terminals : shares[t] # None =>
        of[shares[t]] = t /\ server[shares[t]] = "open" /\ shares[t] \in expiring

StartsHaveTabs == starting \subseteq tabs

\* Loops and counts are of servers that were open once.
OnceOpen ==
    /\ \A a \in expiring : server[a] \in {"open", "shut"}
    /\ \A t \in Terminals : counted[t] # None => server[counted[t]] \in {"open", "shut"}

WindowInv == /\ WindowTypeOK /\ NoOrphans /\ NothingUnderLock /\ SlotIsOpen
        /\ CountSoonRight /\ HubServesRunning
        /\ OwnTerminal /\ StartsHaveTabs /\ OnceOpen

\* The properties that speak of starts and shares of a terminal only; they are
\* what stopping shares keeps whatever the reason.
Books == /\ WindowTypeOK /\ NoOrphans /\ SlotIsOpen
         /\ CountSoonRight /\ HubServesRunning
         /\ OwnTerminal /\ OnceOpen

-----------------------------------------------------------------------------

\* shutdown of any servers: those that run are shut, nothing else changes, and
\* the hub still serves exactly those that run.
LEMMA ShutDownFacts ==
  ASSUME WindowTypeOK, HubServesRunning, NEW S \in SUBSET Starts, ShutDown(S)
  PROVE  /\ \A a \in Starts : server'[a] = IF a \in S /\ Running(a) THEN "shut" ELSE server[a]
         /\ server' \in [Starts -> {"unused", "binding", "bound", "refused",
                                    "open", "shut", "failed"}]
         /\ sessions' \subseteq Starts /\ hub' \in {"none", "open", "closed"}
         /\ listener' \in BOOLEAN
         /\ HubServesRunning'
<1> USE DEF ShutDown, WindowTypeOK
<1> DEFINE live == {a \in S : Running(a)}
<1>1. \A a \in Starts : server'[a] = IF a \in live THEN "shut" ELSE server[a]
  OBVIOUS
<1>2. server' \in [Starts -> {"unused", "binding", "bound", "refused",
                              "open", "shut", "failed"}]
  OBVIOUS
<1>3. sessions' = sessions \ live /\ sessions' \subseteq Starts
  OBVIOUS
<1>4. sessions' = {a \in Starts : Running(a)'}
  BY <1>1, <1>3 DEF HubServesRunning, Running
<1>5. hub' = IF live = {} THEN hub ELSE HubAfter(sessions \ live)
  OBVIOUS
<1>6. hub' = "open" <=> sessions' # {}
  <2>1. CASE live = {}
    BY <2>1, <1>3, <1>5 DEF HubServesRunning
  <2>2. CASE live # {}
    <3>1. PICK a \in live : TRUE
      BY <2>2
    <3>2. a \in sessions
      BY <3>1 DEF HubServesRunning
    <3>3. hub = "open"
      BY <3>2 DEF HubServesRunning
    <3> QED
      BY <2>2, <3>3, <1>3, <1>5 DEF HubAfter
  <2> QED
    BY <2>1, <2>2
<1>7. hub' \in {"none", "open", "closed"}
  BY <1>5 DEF HubAfter
<1> QED
  BY <1>1, <1>2, <1>3, <1>4, <1>6, <1>7 DEF HubServesRunning

\* stop_web_share_for_terminal for any terminals: their servers are shut and
\* the others go on.
LEMMA StopFacts ==
  ASSUME Books, NEW T \in SUBSET Terminals, StopShares(T),
         UNCHANGED <<of, counted, expiring>>,
         tabs' \subseteq Terminals, locked' \in BOOLEAN
  PROVE  /\ Books'
         /\ \A a \in Starts : server'[a] = "open" => server[a] = "open" /\ of[a] \notin T
         /\ starting' = starting \ T
<1> USE DEF Books, StopShares
<1> DEFINE S == {shares[t] : t \in T \cap Shared}
<1>1. S \in SUBSET Starts
  BY DEF Shared, WindowTypeOK
<1>2. /\ \A a \in Starts : server'[a] = IF a \in S /\ Running(a) THEN "shut" ELSE server[a]
      /\ server' \in [Starts -> {"unused", "binding", "bound", "refused",
                                 "open", "shut", "failed"}]
      /\ sessions' \subseteq Starts /\ hub' \in {"none", "open", "closed"}
      /\ listener' \in BOOLEAN
      /\ HubServesRunning'
  BY <1>1, ShutDownFacts
<1>3. \A a \in S : server[a] = "open" /\ of[a] \in T
  BY DEF Shared, OwnTerminal
<1>4. /\ shares' \in [Terminals -> Starts \cup {None}]
      /\ \A t \in Terminals : shares'[t] = IF t \in T THEN None ELSE shares[t]
      /\ starting' = starting \ T /\ indicator' = indicator \ T
  BY DEF WindowTypeOK
<1>5. WindowTypeOK'
  <2>1. \A a \in Starts : of'[a] = None <=> server'[a] = "unused"
    BY <1>2, <1>3 DEF WindowTypeOK
  <2> QED
    BY <2>1, <1>2, <1>4 DEF WindowTypeOK
<1>6. \A a \in Starts : server'[a] = "open" <=> server[a] = "open" /\ of[a] \notin T
  <2> SUFFICES ASSUME NEW a \in Starts
               PROVE  server'[a] = "open" <=> server[a] = "open" /\ of[a] \notin T
    OBVIOUS
  <2>1. CASE server[a] = "open" /\ of[a] \in T
    <3>1. shares[of[a]] = a /\ of[a] \in T \cap Shared
      BY <2>1, StartsAssumption DEF NoOrphans, Shared
    <3> QED
      BY <2>1, <3>1, <1>2 DEF Running
  <2>2. CASE ~(server[a] = "open" /\ of[a] \in T)
    BY <2>2, <1>2, <1>3
  <2> QED
    BY <2>1, <2>2
<1>7. NoOrphans'
  <2>1. ASSUME NEW a \in Starts
        PROVE  server'[a] = "open" <=> of'[a] \in Terminals /\ shares'[of'[a]] = a
    BY <1>4, <1>6, StartsAssumption DEF NoOrphans, WindowTypeOK
  <2>2. indicator' = Shared'
    BY <1>4 DEF NoOrphans, Shared
  <2> QED
    BY <2>1, <2>2 DEF NoOrphans
<1>8. SlotIsOpen'
  <2> SUFFICES ASSUME NEW t \in starting'
               PROVE  /\ shares'[t] = None
                      /\ \E a \in Starts : of'[a] = t /\ server'[a] \in {"binding", "bound", "refused"}
    BY DEF SlotIsOpen
  <2>1. t \in starting /\ t \notin T /\ t \in Terminals
    BY <1>4 DEF WindowTypeOK
  <2>2. PICK a \in Starts : of[a] = t /\ server[a] \in {"binding", "bound", "refused"}
    BY <2>1 DEF SlotIsOpen
  <2>3. server'[a] = server[a]
    BY <2>2, <1>2, <1>3
  <2> QED
    BY <2>1, <2>2, <2>3, <1>4 DEF SlotIsOpen
<1>9. OwnTerminal'
  BY <1>4, <1>6 DEF OwnTerminal, WindowTypeOK
<1>10. CountSoonRight'
  BY <1>4 DEF CountSoonRight, Shared
<1>11. OnceOpen'
  BY <1>2 DEF OnceOpen, WindowTypeOK
<1> QED
  BY <1>2, <1>4, <1>5, <1>6, <1>7, <1>8, <1>9, <1>10, <1>11

-----------------------------------------------------------------------------

\* The window opens with its tabs, nothing shared and no hub.
LEMMA WindowInitInv == WindowInit => WindowInv
<1> SUFFICES ASSUME WindowInit PROVE WindowInv
  OBVIOUS
<1>1. WindowTypeOK
  BY DEF WindowInit, WindowTypeOK
<1>2. NoOrphans
  BY StartsAssumption DEF WindowInit, NoOrphans, Shared
<1>3. HubServesRunning
  BY DEF WindowInit, HubServesRunning, Running
<1> QED
  BY <1>1, <1>2, <1>3
  DEF WindowInit, WindowInv, NothingUnderLock, SlotIsOpen,
      CountSoonRight, Shared,
      OwnTerminal, StartsHaveTabs, OnceOpen

\* The toggle starts a share: the terminal gets its slot and the attempt binds.
LEMMA StartStep ==
  ASSUME WindowInv, NEW t \in Terminals, NEW a \in Starts, Start(t, a)
  PROVE WindowInv'
<1> USE DEF WindowInv, Start
<1>1. /\ of' \in [Starts -> Terminals \cup {None}]
      /\ of'[a] = t /\ \A b \in Starts \ {a} : of'[b] = of[b]
      /\ server'[a] = "binding" /\ \A b \in Starts \ {a} : server'[b] = server[b]
      /\ of[a] = None /\ server[a] = "unused"
  BY DEF WindowTypeOK
<1>2. WindowTypeOK'
  BY <1>1, StartsAssumption DEF WindowTypeOK, hubVars
<1>3. NoOrphans'
  BY <1>1, StartsAssumption DEF NoOrphans, Shared, WindowTypeOK
<1>4. SlotIsOpen'
  <2> SUFFICES ASSUME NEW u \in starting'
               PROVE  /\ shares'[u] = None
                      /\ \E b \in Starts : of'[b] = u /\ server'[b] \in {"binding", "bound", "refused"}
    BY DEF SlotIsOpen
  <2>1. CASE u = t
    BY <2>1, <1>1
  <2>2. CASE u # t
    <3>1. u \in starting
      BY <2>2
    <3>2. PICK b \in Starts : of[b] = u /\ server[b] \in {"binding", "bound", "refused"}
      BY <3>1 DEF SlotIsOpen
    <3>3. b # a
      BY <3>2, <1>1
    <3> QED
      BY <3>1, <3>2, <3>3, <1>1 DEF SlotIsOpen
  <2> QED
    BY <2>1, <2>2
<1>5. HubServesRunning'
  BY <1>1 DEF HubServesRunning, Running, hubVars
<1>6. OwnTerminal'
  BY <1>1 DEF OwnTerminal, WindowTypeOK
<1>7. NothingUnderLock' /\ CountSoonRight' /\ StartsHaveTabs'
  BY <1>1 DEF NothingUnderLock, CountSoonRight, Shared, StartsHaveTabs
<1>8. OnceOpen'
  BY <1>1 DEF OnceOpen, WindowTypeOK
<1> QED
  BY <1>2, <1>3, <1>4, <1>5, <1>6, <1>7, <1>8

\* A server binds, by joining an open hub or with a new one, or is refused.
LEMMA BindStep ==
  ASSUME WindowInv, NEW a \in Starts, Bind(a) PROVE WindowInv'
<1> USE DEF WindowInv, Bind
<1>1. /\ server[a] = "binding" /\ server'[a] \in {"bound", "refused"}
      /\ \A b \in Starts \ {a} : server'[b] = server[b]
      /\ UNCHANGED <<of, windowVars, tabs, locked>>
  BY DEF WindowTypeOK
<1>2. WindowTypeOK'
  BY <1>1 DEF WindowTypeOK, windowVars, hubVars
<1>3. HubServesRunning'
  <2>1. CASE server'[a] = "bound"
    <3>1. sessions' = sessions \cup {a} /\ hub' = "open"
      BY <2>1 DEF WindowTypeOK
    <3> QED
      BY <2>1, <3>1, <1>1 DEF HubServesRunning, Running
  <2>2. CASE server'[a] = "refused"
    <3>1. sessions' = sessions /\ hub' = hub
      BY <2>2 DEF WindowTypeOK, hubVars
    <3> QED
      BY <2>2, <3>1, <1>1 DEF HubServesRunning, Running
  <2> QED
    BY <2>1, <2>2, <1>1
<1>4. NoOrphans'
  BY <1>1 DEF NoOrphans, Shared, windowVars
<1>5. SlotIsOpen'
  <2> SUFFICES ASSUME NEW u \in starting
               PROVE  /\ shares[u] = None
                      /\ \E b \in Starts : of[b] = u /\ server'[b] \in {"binding", "bound", "refused"}
    BY <1>1 DEF SlotIsOpen, windowVars
  <2>1. PICK b \in Starts : of[b] = u /\ server[b] \in {"binding", "bound", "refused"}
    BY DEF SlotIsOpen
  <2>2. server'[b] \in {"binding", "bound", "refused"}
    BY <2>1, <1>1
  <2> QED
    BY <2>1, <2>2 DEF SlotIsOpen
<1>6. OwnTerminal'
  BY <1>1 DEF OwnTerminal, WindowTypeOK, windowVars
<1>7. NothingUnderLock' /\ CountSoonRight' /\ StartsHaveTabs'
  BY <1>1 DEF NothingUnderLock, CountSoonRight, Shared, StartsHaveTabs,
      windowVars
<1>8. OnceOpen'
  BY <1>1 DEF OnceOpen, WindowTypeOK, windowVars
<1> QED
  BY <1>2, <1>3, <1>4, <1>5, <1>6, <1>7, <1>8

\* A start is refused, or completes into its slot, or finds it gone.
LEMMA CompleteStep ==
  ASSUME WindowInv, NEW a \in Starts, Complete(a) PROVE WindowInv'
<1> USE DEF WindowInv, Complete
<1>1. of[a] \in Terminals /\ server[a] \in {"bound", "refused"}
  BY DEF WindowTypeOK
<1>2. shares[of[a]] # a
  BY <1>1, StartsAssumption DEF OwnTerminal, WindowTypeOK
<1>3. CASE server[a] = "bound" /\ of[a] \in starting /\ ~locked
  <2>1. /\ shares' = [shares EXCEPT ![of[a]] = a]
        /\ indicator' = indicator \cup {of[a]}
        /\ counted' = [counted EXCEPT ![of[a]] = a]
        /\ expiring' = expiring \cup {a}
        /\ server' = [server EXCEPT ![a] = "open"]
        /\ starting' = starting \ {of[a]}
        /\ UNCHANGED <<of, tabs, locked, sessions, hub, listener>>
    BY <1>3 DEF hubVars
  <2>2. shares[of[a]] = None /\ of[a] \in tabs
    BY <1>3 DEF SlotIsOpen, StartsHaveTabs
  <2>3. WindowTypeOK'
    BY <2>1, <1>1 DEF WindowTypeOK
  <2>4. NoOrphans'
    <3>1. ASSUME NEW b \in Starts
          PROVE  server'[b] = "open" <=> of[b] \in Terminals /\ shares'[of[b]] = b
      <4>1. CASE b = a
        BY <4>1, <2>1, <1>1 DEF WindowTypeOK
      <4>2. CASE b # a
        <5>1. server'[b] = server[b]
          BY <4>2, <2>1 DEF WindowTypeOK
        <5>2. CASE of[b] = of[a]
          BY <5>1, <5>2, <4>2, <2>1, <2>2, <1>1, StartsAssumption DEF NoOrphans, WindowTypeOK
        <5>3. CASE of[b] # of[a]
          BY <5>1, <5>3, <2>1, <1>1 DEF NoOrphans, WindowTypeOK
        <5> QED
          BY <5>2, <5>3
      <4> QED
        BY <4>1, <4>2
    <3>2. indicator' = Shared'
      BY <2>1, <1>1, StartsAssumption DEF NoOrphans, Shared, WindowTypeOK
    <3> QED
      BY <3>1, <3>2, <2>1 DEF NoOrphans
  <2>5. SlotIsOpen'
    <3> SUFFICES ASSUME NEW u \in starting'
                 PROVE  /\ shares'[u] = None
                        /\ \E b \in Starts : of[b] = u /\ server'[b] \in {"binding", "bound", "refused"}
      BY <2>1 DEF SlotIsOpen
    <3>1. u \in starting /\ u # of[a]
      BY <2>1
    <3>2. PICK b \in Starts : of[b] = u /\ server[b] \in {"binding", "bound", "refused"}
      BY <3>1 DEF SlotIsOpen
    <3>3. server'[b] = server[b] /\ shares'[u] = shares[u]
      BY <3>1, <3>2, <2>1 DEF WindowTypeOK
    <3> QED
      BY <3>1, <3>2, <3>3 DEF SlotIsOpen
  <2>6. HubServesRunning'
    BY <2>1, <1>3 DEF HubServesRunning, Running, WindowTypeOK
  <2>7. OwnTerminal'
    BY <2>1, <2>2, <1>1 DEF OwnTerminal, WindowTypeOK
  <2>8. CountSoonRight'
    <3> SUFFICES ASSUME NEW t \in Terminals, shares'[t] # None, counted'[t] # shares'[t]
                 PROVE  counted'[t] \notin expiring' /\ shares'[t] \in expiring'
      BY DEF CountSoonRight, Shared
    <3>1. t # of[a] /\ shares'[t] = shares[t] /\ counted'[t] = counted[t]
      BY <2>1, <1>1 DEF WindowTypeOK
    <3>2. counted[t] \notin expiring /\ shares[t] \in expiring
      BY <3>1 DEF CountSoonRight, Shared
    <3>3. counted[t] # a
      BY <3>1, <1>1, <1>3, StartsAssumption DEF OnceOpen, WindowTypeOK
    <3> QED
      BY <3>1, <3>2, <3>3, <2>1
  <2>9. NothingUnderLock' /\ StartsHaveTabs'
    BY <2>1, <2>2, <1>3 DEF NothingUnderLock, StartsHaveTabs, WindowTypeOK
  <2>10. OnceOpen'
    BY <2>1, <1>1 DEF OnceOpen, WindowTypeOK
  <2> QED
    BY <2>3, <2>4, <2>5, <2>6, <2>7, <2>8, <2>9, <2>10
<1>4. CASE ~(server[a] = "bound" /\ of[a] \in starting /\ ~locked)
  <2>1. /\ starting' = starting \ {of[a]}
        /\ UNCHANGED <<of, shares, indicator, counted, expiring, tabs, locked>>
    BY <1>4
  <2>2. /\ server' \in [Starts -> {"unused", "binding", "bound", "refused",
                                   "open", "shut", "failed"}]
        /\ server'[a] \in {"shut", "failed"}
        /\ \A b \in Starts \ {a} : server'[b] = server[b]
        /\ sessions' \subseteq Starts /\ hub' \in {"none", "open", "closed"}
        /\ listener' \in BOOLEAN
        /\ HubServesRunning'
    <3>1. CASE server[a] = "bound"
      <4>1. ShutDown({a})
        BY <3>1, <1>4
      <4> QED
        BY <4>1, <3>1, ShutDownFacts DEF Running
    <3>2. CASE server[a] = "refused"
      <4>1. server' = [server EXCEPT ![a] = "failed"] /\ UNCHANGED hubVars
        BY <3>2, <1>4
      <4> QED
        BY <4>1, <3>2 DEF hubVars, WindowTypeOK, HubServesRunning, Running
    <3> QED
      BY <3>1, <3>2, <1>1
  <2>3. WindowTypeOK'
    BY <2>1, <2>2, <1>1 DEF WindowTypeOK
  <2>4. NoOrphans'
    BY <2>1, <2>2, <1>1 DEF NoOrphans, Shared
  <2>5. SlotIsOpen'
    <3> SUFFICES ASSUME NEW u \in starting'
                 PROVE  /\ shares[u] = None
                        /\ \E b \in Starts : of[b] = u /\ server'[b] \in {"binding", "bound", "refused"}
      BY <2>1 DEF SlotIsOpen
    <3>1. u \in starting /\ u # of[a]
      BY <2>1
    <3>2. PICK b \in Starts : of[b] = u /\ server[b] \in {"binding", "bound", "refused"}
      BY <3>1 DEF SlotIsOpen
    <3>3. server'[b] = server[b]
      BY <3>1, <3>2, <2>2
    <3> QED
      BY <3>1, <3>2, <3>3 DEF SlotIsOpen
  <2>6. OwnTerminal'
    BY <2>1, <2>2, <1>1 DEF OwnTerminal, WindowTypeOK
  <2>7. OnceOpen'
    BY <2>1, <2>2, <1>1 DEF OnceOpen, WindowTypeOK
  <2>8. CountSoonRight' /\ NothingUnderLock' /\ StartsHaveTabs'
    BY <2>1, <2>2 DEF CountSoonRight, Shared, NothingUnderLock,
        StartsHaveTabs
  <2> QED
    BY <2>2, <2>3, <2>4, <2>5, <2>6, <2>7, <2>8
<1> QED
  BY <1>3, <1>4

\* A second passes in a loop: its count is shown, and it goes on or ends with
\* its server.
LEMMA TickStep ==
  ASSUME WindowInv, NEW a \in Starts, Tick(a) PROVE WindowInv'
<1> USE DEF WindowInv, Tick
<1>1. /\ a \in expiring /\ server[a] \in {"open", "shut"} /\ of[a] \in Terminals
      /\ counted' = [counted EXCEPT ![of[a]] = IF of[a] \in indicator THEN a ELSE @]
      /\ UNCHANGED <<of, starting, tabs, locked>>
  BY DEF OnceOpen, WindowTypeOK
<1>2. server[a] = "open" <=> shares[of[a]] = a
  BY <1>1 DEF NoOrphans
<1>3. CASE server[a] = "open" /\ UNCHANGED <<server, shares, indicator, expiring, hubVars>>
  <2>1. counted' = [counted EXCEPT ![of[a]] = a] /\ shares[of[a]] = a
    <3>1. shares[of[a]] = a /\ of[a] \in Shared
      BY <1>1, <1>2, <1>3, StartsAssumption DEF Shared
    <3>2. of[a] \in indicator
      BY <3>1 DEF NoOrphans
    <3> QED
      BY <3>1, <3>2, <1>1
  <2>2. WindowTypeOK'
    BY <1>1, <1>3, <2>1 DEF WindowTypeOK, hubVars
  <2>3. CountSoonRight'
    BY <1>1, <1>3, <2>1 DEF CountSoonRight, Shared, WindowTypeOK
  <2>4. OnceOpen'
    BY <1>1, <1>3, <2>1 DEF OnceOpen, WindowTypeOK
  <2>5. HubServesRunning' /\ NoOrphans' /\ SlotIsOpen' /\ OwnTerminal'
    BY <1>1, <1>3 DEF HubServesRunning, Running, NoOrphans,
        Shared, SlotIsOpen, OwnTerminal, hubVars
  <2> QED
    BY <1>1, <1>3, <2>2, <2>3, <2>4, <2>5 DEF NothingUnderLock, StartsHaveTabs
<1>4. CASE ExpireOwn(a) /\ ShutDown({a}) /\ expiring' = expiring \ {a}
  <2>1. /\ shares' \in [Terminals -> Starts \cup {None}]
        /\ \A t \in Terminals : shares'[t] = IF shares[t] = a THEN None ELSE shares[t]
        /\ indicator' = {t \in indicator : shares[t] # a}
    <3>1. \A t \in Terminals : shares[t] = a => t = of[a]
      BY StartsAssumption DEF OwnTerminal, WindowTypeOK
    <3>2. indicator \subseteq Terminals
      BY DEF WindowTypeOK
    <3>3. CASE shares[of[a]] = a
      <4>1. /\ shares' = [shares EXCEPT ![of[a]] = None]
            /\ indicator' = indicator \ {of[a]}
        BY <1>4, <3>3 DEF ExpireOwn
      <4> QED
        BY <4>1, <3>1, <3>2, <3>3, <1>1 DEF WindowTypeOK
    <3>4. CASE shares[of[a]] # a
      <4>1. UNCHANGED <<shares, indicator>>
        BY <1>4, <3>4 DEF ExpireOwn
      <4> QED
        BY <4>1, <3>1, <3>2, <3>4, <1>1 DEF WindowTypeOK
    <3> QED
      BY <3>3, <3>4
  <2>2. /\ server' \in [Starts -> {"unused", "binding", "bound", "refused",
                                   "open", "shut", "failed"}]
        /\ server'[a] = "shut" /\ \A b \in Starts \ {a} : server'[b] = server[b]
        /\ sessions' \subseteq Starts /\ hub' \in {"none", "open", "closed"}
        /\ listener' \in BOOLEAN
        /\ HubServesRunning'
    BY <1>1, <1>4, ShutDownFacts DEF Running
  <2>3. WindowTypeOK'
    <3>1. counted' \in [Terminals -> Starts \cup {None}]
      BY <1>1 DEF WindowTypeOK
    <3>2. \A b \in Starts : of[b] = None <=> server'[b] = "unused"
      BY <1>1, <2>2 DEF WindowTypeOK
    <3> HIDE DEF Tick
    <3> QED
      BY <1>1, <1>4, <2>1, <2>2, <3>1, <3>2 DEF WindowTypeOK
  <2>4. NoOrphans'
    <3>1. ASSUME NEW b \in Starts
          PROVE  server'[b] = "open" <=> of[b] \in Terminals /\ shares'[of[b]] = b
      <4>1. CASE b = a
        BY <4>1, <1>1, <2>1, <2>2, StartsAssumption
      <4>2. CASE b # a
        BY <4>2, <2>1, <2>2, StartsAssumption DEF NoOrphans, WindowTypeOK
      <4> QED
        BY <4>1, <4>2
    <3>2. indicator' = Shared'
      BY <2>1 DEF NoOrphans, Shared
    <3> QED
      BY <3>1, <3>2, <1>1 DEF NoOrphans
  <2>5. SlotIsOpen'
    <3> SUFFICES ASSUME NEW u \in starting
                 PROVE  /\ shares'[u] = None
                        /\ \E b \in Starts : of[b] = u /\ server'[b] \in {"binding", "bound", "refused"}
      BY <1>1 DEF SlotIsOpen
    <3>1. PICK b \in Starts : of[b] = u /\ server[b] \in {"binding", "bound", "refused"}
      BY DEF SlotIsOpen
    <3>2. server'[b] = server[b]
      BY <3>1, <1>1, <2>2
    <3> QED
      BY <3>1, <3>2, <2>1 DEF SlotIsOpen, WindowTypeOK
  <2>6. OwnTerminal'
    BY <1>1, <1>4, <2>1, <2>2 DEF OwnTerminal, WindowTypeOK
  <2>7. OnceOpen'
    BY <1>1, <1>4, <2>2 DEF OnceOpen, WindowTypeOK
  <2>8. CountSoonRight'
    <3> SUFFICES ASSUME NEW t \in Terminals, shares'[t] # None, counted'[t] # shares'[t]
                 PROVE  counted'[t] \notin expiring' /\ shares'[t] \in expiring'
      BY DEF CountSoonRight, Shared
    <3>1. shares'[t] = shares[t] /\ shares[t] # a /\ shares[t] \in expiring
      BY <2>1 DEF OwnTerminal
    <3>2. counted'[t] = a \/ counted'[t] = counted[t]
      BY <1>1 DEF WindowTypeOK
    <3>3. CASE counted'[t] = a
      BY <3>1, <3>3, <1>4
    <3>4. CASE counted'[t] = counted[t]
      BY <3>1, <3>4, <1>4 DEF CountSoonRight, Shared
    <3> QED
      BY <3>2, <3>3, <3>4
  <2>9. NothingUnderLock' /\ StartsHaveTabs'
    BY <1>1, <2>2 DEF NothingUnderLock, StartsHaveTabs
  <2> QED
    BY <2>2, <2>3, <2>4, <2>5, <2>6, <2>7, <2>8, <2>9
<1> QED
  BY <1>3, <1>4

\* The user, a closed tab or the lock stop shares.
LEMMA StopStep ==
  ASSUME WindowInv, \/ Lock
               \/ \E t \in Terminals : Stop(t) \/ CloseTab(t)
  PROVE  WindowInv'
<1>1. Books
  BY DEF WindowInv, Books
<1>2. CASE Lock
  <2>1. /\ StopShares(Terminals) /\ UNCHANGED <<of, counted, expiring>>
        /\ tabs' \subseteq Terminals /\ locked' \in BOOLEAN
    BY <1>2 DEF Lock, WindowInv, WindowTypeOK
  <2>2. Books' /\ starting' = starting \ Terminals
        /\ \A a \in Starts : server'[a] = "open" => server[a] = "open" /\ of[a] \notin Terminals
    BY <1>1, <2>1, StopFacts
  <2>3. \A a \in Starts : server'[a] # "open"
    BY <2>2 DEF Books, NoOrphans, WindowInv
  <2>4. NothingUnderLock'
    BY <2>3 DEF NothingUnderLock
  <2>5. StartsHaveTabs'
    BY <2>2 DEF StartsHaveTabs, WindowInv, WindowTypeOK
  <2> QED
    BY <2>2, <2>4, <2>5 DEF WindowInv, Books
<1>3. ASSUME NEW t \in Terminals, Stop(t) \/ CloseTab(t) PROVE WindowInv'
  <2>1. /\ StopShares({t}) /\ UNCHANGED <<of, counted, expiring, locked>>
        /\ tabs' \in {tabs, tabs \ {t}}
        /\ tabs' \subseteq Terminals /\ locked' \in BOOLEAN
    BY <1>3 DEF Stop, CloseTab, WindowInv, WindowTypeOK
  <2>2. Books' /\ starting' = starting \ {t}
        /\ \A a \in Starts : server'[a] = "open" => server[a] = "open" /\ of[a] \notin {t}
    BY <1>1, <2>1, StopFacts
  <2>3. NothingUnderLock'
    BY <2>1, <2>2 DEF NothingUnderLock, WindowInv
  <2>4. StartsHaveTabs'
    BY <2>1, <2>2 DEF StartsHaveTabs, WindowInv
  <2> QED
    BY <2>2, <2>3, <2>4 DEF WindowInv, Books
<1> QED
  BY <1>2, <1>3

\* What changes nothing the window keeps.
LEMMA QuietStep ==
  ASSUME WindowInv, Unlock \/ ListenerEnds \/ UNCHANGED (shareVars)
  PROVE WindowInv'
<1>1. /\ UNCHANGED <<of, server, starting, shares, indicator, counted, expiring, tabs,
                     sessions, hub>>
      /\ locked' = locked \/ ~locked'
      /\ locked' \in BOOLEAN /\ listener' \in BOOLEAN
  BY DEF Unlock, ListenerEnds, shareVars, windowVars, hubVars,
      WindowInv, WindowTypeOK
<1>2. WindowTypeOK' /\ NothingUnderLock'
  BY <1>1 DEF WindowInv, WindowTypeOK, NothingUnderLock
<1> QED
  BY <1>1, <1>2 DEF WindowInv, NoOrphans, Shared, SlotIsOpen,
      CountSoonRight, HubServesRunning,
                    Running, OwnTerminal, StartsHaveTabs, OnceOpen

\* Every step of the window, the servers and the hub keeps the invariant.
LEMMA WindowNextInv == WindowInv /\ [WindowNext]_shareVars => WindowInv'
<1> SUFFICES ASSUME WindowInv, [WindowNext]_shareVars PROVE WindowInv'
  OBVIOUS
<1>1. ASSUME NEW t \in Terminals, NEW a \in Starts, Start(t, a) PROVE WindowInv'
  BY <1>1, StartStep
<1>2. ASSUME NEW a \in Starts, Bind(a) PROVE WindowInv'
  BY <1>2, BindStep
<1>3. ASSUME NEW a \in Starts, Complete(a) PROVE WindowInv'
  BY <1>3, CompleteStep
<1>4. ASSUME NEW a \in Starts, Tick(a) PROVE WindowInv'
  BY <1>4, TickStep
<1>5. ASSUME NEW t \in Terminals, Stop(t) \/ CloseTab(t) PROVE WindowInv'
  BY <1>5, StopStep
<1>6. CASE Lock
  BY <1>6, StopStep
<1>7. CASE Unlock \/ ListenerEnds \/ UNCHANGED (shareVars)
  BY <1>7, QuietStep
<1> QED
  BY <1>1, <1>2, <1>3, <1>4, <1>5, <1>6, <1>7 DEF WindowNext

\* All of the window's book-keeping, in every reachable state.
THEOREM WindowInvariance == WindowSpec => []WindowInv
<1> QED
  BY WindowInitInv, WindowNextInv, PTL DEF WindowSpec

\* The window's book-keeping keeps its types.
THEOREM WindowTyped == WindowSpec => []WindowTypeOK
<1>1. WindowInv => WindowTypeOK
  BY DEF WindowInv
<1> QED
  BY <1>1, WindowInvariance, PTL

\* A server is open exactly while the window keeps it for its terminal, and the
\* indicator shows just these terminals.
THEOREM SharesKept == WindowSpec => []NoOrphans
<1>1. WindowInv => NoOrphans
  BY DEF WindowInv
<1> QED
  BY <1>1, WindowInvariance, PTL

\* Nothing is shared under the screen lock or without a tab, whatever starts
\* were under way when the lock came or the tab went.
THEOREM LockHolds == WindowSpec => []NothingUnderLock
<1>1. WindowInv => NothingUnderLock
  BY DEF WindowInv
<1> QED
  BY <1>1, WindowInvariance, PTL

\* A completing start never overwrites a share, and no slot waits for nothing.
THEOREM SlotsSound == WindowSpec => []SlotIsOpen
<1>1. WindowInv => SlotIsOpen
  BY DEF WindowInv
<1> QED
  BY <1>1, WindowInvariance, PTL

\* A stale client count is the last word of a loop that ended.
THEOREM CountsSettle == WindowSpec => []CountSoonRight
<1>1. WindowInv => CountSoonRight
  BY DEF WindowInv
<1> QED
  BY <1>1, WindowInvariance, PTL

\* The hub of a port is open exactly while it has servers to serve.
THEOREM HubMatches == WindowSpec => []HubServesRunning
<1>1. WindowInv => HubServesRunning
  BY DEF WindowInv
<1> QED
  BY <1>1, WindowInvariance, PTL
=============================================================================
