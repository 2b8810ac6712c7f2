--------------------------- MODULE SshOpenProofs ---------------------------
(***************************************************************************)
(* What opening SSH sessions keeps true, for any sessions, routes, tabs    *)
(* and hosts and any number of attempts.                                   *)
(*                                                                         *)
(* The argument has three parts, each inductive on top of the one before.  *)
(* Attempts are numbered in the order they are made and those not made yet *)
(* are untouched (Base).  What the window shows as being opened keeps an   *)
(* attempt that will end it (Shown).  A session thread that asked a        *)
(* question is blocked on it, so an answer always belongs to the host the  *)
(* thread is at, and everything past the check of a key was vouched for    *)
(* (Trust).                                                                *)
(***************************************************************************)
EXTENDS SshOpen, SequenceTheorems, TLAPS

\* Attempts above `made` are as at the start; the others have a session and
\* are at a host of its route.
Numbered ==
    \A a \in Attempts :
        /\ a <= made => /\ of[a] \in Sessions /\ phase[a] # "idle"
                        /\ hop[a] \in 1..Len(Route[of[a]])
        /\ a > made => /\ phase[a] = "idle" /\ thread[a] = "none" /\ hop[a] = 1
                       /\ question[a] = "none" /\ events[a] = <<>>

DialogsMade == \A i \in DOMAIN dialogs : dialogs[i].attempt <= made

Base == TypeOK /\ Numbered /\ DialogsMade

-----------------------------------------------------------------------------

\* A dialog belongs to an attempt.
LEMMA DialogTypes ==
  ASSUME TypeOK, NEW i \in DOMAIN dialogs
  PROVE  /\ dialogs[i] \in [kind : {"verify", "mismatch"}, attempt : Attempts]
         /\ dialogs[i].attempt \in Attempts /\ dialogs[i].attempt \in Int
<1>1. dialogs \in Seq([kind : {"verify", "mismatch"}, attempt : Attempts])
  BY DEF TypeOK
<1>2. i \in 1..Len(dialogs)
  BY <1>1, LenProperties
<1>3. dialogs[i] \in [kind : {"verify", "mismatch"}, attempt : Attempts]
  BY <1>1, <1>2, ElementOfSeq
<1> QED
  BY <1>3, SshAssumption DEF Attempts

\* Closing the dialog on top leaves the others where they are.
LEMMA CloseTopFacts ==
  ASSUME TypeOK, dialogs # <<>>, CloseTop
  PROVE  /\ dialogs' \in Seq([kind : {"verify", "mismatch"}, attempt : Attempts])
         /\ Len(dialogs) \in DOMAIN dialogs
         /\ Top.attempt \in Attempts
         /\ DOMAIN dialogs' = DOMAIN dialogs \ {Len(dialogs)}
         /\ \A i \in DOMAIN dialogs' : dialogs'[i] = dialogs[i]
<1> DEFINE D == [kind : {"verify", "mismatch"}, attempt : Attempts]
           n == Len(dialogs)
<1>1. dialogs \in Seq(D) /\ n \in Nat \ {0} /\ DOMAIN dialogs = 1..n
  BY EmptySeq, LenProperties DEF TypeOK
<1>2. \A i \in 1..n : dialogs[i] \in D
  <2> HIDE DEF D
  <2> QED
    BY <1>1, ElementOfSeq
<1>3. dialogs' = SubSeq(dialogs, 1, n - 1)
  BY DEF CloseTop
<1> HIDE DEF D, n
<1>4. /\ dialogs' \in Seq(D)
      /\ Len(dialogs') = n - 1
      /\ \A i \in 1..(n - 1) : dialogs'[i] = dialogs[i]
  BY <1>1, <1>2, <1>3, SubSeqProperties
<1>5. DOMAIN dialogs' = 1..(n - 1)
  BY <1>4, LenProperties
<1>6. Top.attempt \in Attempts
  BY <1>1, DialogTypes DEF Top, n
<1> QED
  BY <1>1, <1>4, <1>5, <1>6 DEF D, n

\* A new dialog comes on top.
LEMMA OpenFacts ==
  ASSUME TypeOK, NEW k \in {"verify", "mismatch"}, NEW a \in Attempts,
         dialogs' = Append(dialogs, [kind |-> k, attempt |-> a])
  PROVE  /\ dialogs' \in Seq([kind : {"verify", "mismatch"}, attempt : Attempts])
         /\ Len(dialogs) + 1 \in DOMAIN dialogs'
         /\ dialogs'[Len(dialogs) + 1] = [kind |-> k, attempt |-> a]
         /\ DOMAIN dialogs' = DOMAIN dialogs \cup {Len(dialogs) + 1}
         /\ \A i \in DOMAIN dialogs : i \in DOMAIN dialogs' /\ dialogs'[i] = dialogs[i]
<1> DEFINE D == [kind : {"verify", "mismatch"}, attempt : Attempts]
           d == [kind |-> k, attempt |-> a]
<1>1. dialogs \in Seq(D) /\ d \in D
  BY DEF TypeOK
<1> HIDE DEF D, d
<1>2. Len(dialogs) \in Nat /\ DOMAIN dialogs = 1..Len(dialogs)
  BY <1>1, LenProperties
<1>3. dialogs' = Append(dialogs, d)
  BY DEF d
<1>4. /\ dialogs' \in Seq(D)
      /\ Len(dialogs') = Len(dialogs) + 1
      /\ \A i \in 1..Len(dialogs) : dialogs'[i] = dialogs[i]
      /\ dialogs'[Len(dialogs) + 1] = d
  BY <1>1, <1>3, AppendProperties
<1>5. DOMAIN dialogs' = 1..(Len(dialogs) + 1)
  BY <1>4, LenProperties
<1> QED
  BY <1>2, <1>4, <1>5 DEF D, d

\* The session thread posts an event and goes on to its next stop.
LEMMA PostFacts ==
  ASSUME TypeOK, NEW a \in Attempts, NEW e \in Kinds, NEW n, Post(a, e, n)
  PROVE  /\ events' \in [Attempts -> Seq(Kinds)]
         /\ \A b \in Attempts \ {a} : events'[b] = events[b] /\ thread'[b] = thread[b]
         /\ thread'[a] = n
         /\ DOMAIN events[a] = 1..Len(events[a]) /\ Len(events[a]) \in Nat
         /\ DOMAIN events'[a] = 1..(Len(events[a]) + 1)
         /\ Len(events'[a]) = Len(events[a]) + 1
         /\ \A i \in DOMAIN events[a] : events'[a][i] = events[a][i]
         /\ events'[a][Len(events[a]) + 1] = e
<1>1. events[a] \in Seq(Kinds) /\ events'[a] = Append(events[a], e)
  BY DEF TypeOK, Post
<1>2. DOMAIN events[a] = 1..Len(events[a]) /\ Len(events[a]) \in Nat
  BY <1>1, LenProperties
<1>3. /\ events'[a] \in Seq(Kinds)
      /\ Len(events'[a]) = Len(events[a]) + 1
      /\ \A i \in 1..Len(events[a]) : events'[a][i] = events[a][i]
      /\ events'[a][Len(events[a]) + 1] = e
  BY <1>1, AppendProperties
<1>4. DOMAIN events'[a] = 1..(Len(events[a]) + 1)
  BY <1>3, LenProperties
<1>5. /\ events' \in [Attempts -> Seq(Kinds)] /\ thread'[a] = n
      /\ \A b \in Attempts \ {a} : events'[b] = events[b] /\ thread'[b] = thread[b]
  BY <1>1, <1>3 DEF TypeOK, Post
<1> QED
  BY <1>2, <1>3, <1>4, <1>5

\* The oldest event is taken off the channel.
LEMMA TakeFacts ==
  ASSUME TypeOK, NEW a \in Attempts, events[a] # <<>>,
         events' = [events EXCEPT ![a] = Tail(@)]
  PROVE  /\ events' \in [Attempts -> Seq(Kinds)]
         /\ \A b \in Attempts \ {a} : events'[b] = events[b]
         /\ Head(events[a]) \in Kinds /\ Head(events[a]) = events[a][1]
         /\ 1 \in DOMAIN events[a] /\ Len(events[a]) \in Nat
         /\ Len(events'[a]) = Len(events[a]) - 1
         /\ DOMAIN events'[a] = 1..(Len(events[a]) - 1)
         /\ \A i \in DOMAIN events'[a] :
               i + 1 \in DOMAIN events[a] /\ events'[a][i] = events[a][i + 1]
<1>1. events[a] \in Seq(Kinds) /\ events'[a] = Tail(events[a])
  BY DEF TypeOK
<1>2. Len(events[a]) \in Nat \ {0} /\ DOMAIN events[a] = 1..Len(events[a])
  BY <1>1, EmptySeq, LenProperties
<1>3. /\ Head(events[a]) \in Kinds /\ events'[a] \in Seq(Kinds)
      /\ Len(events'[a]) = Len(events[a]) - 1
      /\ \A i \in 1..Len(events'[a]) : events'[a][i] = events[a][i + 1]
  BY <1>1, HeadTailProperties
<1>4. DOMAIN events'[a] = 1..(Len(events[a]) - 1)
  BY <1>3, LenProperties
<1>5. Head(events[a]) = events[a][1]
  BY <1>1, <1>2
<1>6. events' \in [Attempts -> Seq(Kinds)] /\ \A b \in Attempts \ {a} : events'[b] = events[b]
  BY <1>1, <1>3 DEF TypeOK
<1> QED
  BY <1>2, <1>3, <1>4, <1>5, <1>6

\* Before the window opens anything no attempt has a number.
LEMMA InitBase == Init => Base
<1> SUFFICES ASSUME Init PROVE Base
  OBVIOUS
<1>1. /\ <<>> \in Seq([kind : {"verify", "mismatch"}, attempt : Attempts])
      /\ <<>> \in Seq(Kinds)
  OBVIOUS
<1>2. TypeOK
  BY <1>1, SshAssumption DEF Init, TypeOK, Entries, NoKeys
<1> QED
  BY <1>2, SshAssumption DEF Init, Base, Numbered, DialogsMade, Attempts

\* What StartAttempt changes: the variables of attempt made + 1.
Started(s, l, t) ==
    /\ made' = made + 1 /\ made' \in Attempts
    /\ of' \in [Attempts -> Sessions \cup {None}] /\ linked' \in [Attempts -> BOOLEAN]
    /\ into' \in [Attempts -> Tabs \cup {None}]
    /\ phase' \in [Attempts -> {"idle"} \cup Running \cup Results \cup Ended]
    /\ thread' \in [Attempts -> {"none", "dial", "verify", "confirm", "trusted", "declined",
                                 "auth", "answer", "up", "gone"}]
    /\ of'[made'] = s /\ linked'[made'] = l /\ into'[made'] = t
    /\ phase'[made'] = "login" /\ thread'[made'] = "dial"
    /\ \A a \in Attempts \ {made'} :
          /\ of'[a] = of[a] /\ linked'[a] = linked[a] /\ into'[a] = into[a]
          /\ phase'[a] = phase[a] /\ thread'[a] = thread[a]
    /\ asked' = asked /\ question' = question /\ reply' = reply
    /\ hop' = hop /\ events' = events /\ snapshot' = snapshot

\* A new attempt takes the next number and no other's state.
LEMMA StartBase ==
  ASSUME Base, NEW s \in Sessions, NEW l \in BOOLEAN, NEW t \in Tabs \cup {None},
         StartAttempt(s, l, t)
  PROVE  Started(s, l, t) /\ Numbered'
<1>1. made + 1 \in Attempts
  BY SshAssumption DEF Base, TypeOK, StartAttempt, Attempts
<1>2. /\ made' = made + 1
      /\ of' = [of EXCEPT ![made'] = s] /\ linked' = [linked EXCEPT ![made'] = l]
      /\ into' = [into EXCEPT ![made'] = t]
      /\ phase' = [phase EXCEPT ![made'] = "login"]
      /\ thread' = [thread EXCEPT ![made'] = "dial"]
      /\ UNCHANGED <<asked, question, reply, hop, events, snapshot>>
  BY DEF StartAttempt
<1>3. /\ of' \in [Attempts -> Sessions \cup {None}] /\ linked' \in [Attempts -> BOOLEAN]
      /\ into' \in [Attempts -> Tabs \cup {None}]
      /\ phase' \in [Attempts -> {"idle"} \cup Running \cup Results \cup Ended]
      /\ thread' \in [Attempts -> {"none", "dial", "verify", "confirm", "trusted", "declined",
                                   "auth", "answer", "up", "gone"}]
  BY <1>1, <1>2 DEF Base, TypeOK, Running
<1>4. /\ of'[made'] = s /\ linked'[made'] = l /\ into'[made'] = t
      /\ phase'[made'] = "login" /\ thread'[made'] = "dial"
      /\ \A a \in Attempts \ {made'} :
            /\ of'[a] = of[a] /\ linked'[a] = linked[a] /\ into'[a] = into[a]
            /\ phase'[a] = phase[a] /\ thread'[a] = thread[a]
  BY <1>1, <1>2 DEF Base, TypeOK
<1>5. Numbered'
  <2>1. hop[made'] = 1 /\ Route[s] # <<>> /\ Route[s] \in Seq(Hosts)
    BY <1>1, <1>2, SshAssumption DEF Base, Numbered, TypeOK
  <2>2. 1 \in 1..Len(Route[s])
    BY <2>1, EmptySeq, LenProperties
  <2>3. made \in Int /\ Attempts \subseteq Int
    BY DEF Base, TypeOK, Attempts
  <2>4. ASSUME NEW a \in Attempts
        PROVE  /\ a =< made' => (/\ of'[a] \in Sessions /\ phase'[a] # "idle"
                                 /\ hop'[a] \in 1..Len(Route[of'[a]]))
               /\ a > made' => (/\ phase'[a] = "idle" /\ thread'[a] = "none" /\ hop'[a] = 1
                                /\ question'[a] = "none" /\ events'[a] = <<>>)
    <3>1. CASE a = made'
      BY <3>1, <1>2, <1>4, <2>1, <2>2, <2>3
    <3>2. CASE a # made'
      <4>1. /\ of'[a] = of[a] /\ phase'[a] = phase[a] /\ thread'[a] = thread[a]
            /\ hop'[a] = hop[a] /\ question'[a] = question[a] /\ events'[a] = events[a]
        BY <3>2, <1>2, <1>4
      <4>2. (a =< made' => a =< made) /\ (a > made' => a > made)
        BY <3>2, <1>2, <2>3
      <4> QED
        BY <4>1, <4>2 DEF Base, Numbered
    <3> QED
      BY <3>1, <3>2
  <2> QED
    BY <2>4 DEF Numbered
<1> QED
  BY <1>1, <1>2, <1>3, <1>4, <1>5 DEF Started

\* The sidebar and the restored tabs.
LEMMA SidebarBase ==
  ASSUME Base, NEW s \in Sessions, Sidebar(s)
  PROVE  Base'
<1>1. CASE Click(s)
  <2>1. CASE s \in stored \cap complete
    <3>1. StartAttempt(s, TRUE, None)
      BY <1>1, <2>1 DEF Click, OpenSession
    <3>2. Started(s, TRUE, None) /\ Numbered'
      BY <3>1, StartBase
    <3>3. TypeOK'
      BY <1>1, <3>2 DEF Click, Base, TypeOK, windowVars, keyVars, Attempts, Started
    <3>4. DialogsMade'
      <4>1. dialogs' = dialogs /\ made' = made + 1 /\ made \in Int
        BY <1>1, <3>2, SshAssumption DEF Click, Base, TypeOK, windowVars, Started
      <4>2. \A i \in DOMAIN dialogs : dialogs[i].attempt \in Int
        BY DialogTypes DEF Base
      <4> QED
        BY <4>1, <4>2 DEF Base, DialogsMade
    <3> QED
      BY <3>2, <3>3, <3>4 DEF Base
  <2>2. CASE s \notin stored \cap complete
    BY <1>1, <2>2 DEF Click, OpenSession, Base, TypeOK, Numbered, DialogsMade, windowVars, keyVars,
       jobVars, loginVars, threadVars
  <2> QED
    BY <2>1, <2>2
<1>2. CASE Delete(s) \/ DeleteReturns(s)
  BY <1>2 DEF Delete, DeleteReturns, Base, TypeOK, Numbered, DialogsMade, windowVars, keyVars,
     jobVars, loginVars, threadVars
<1> QED
  BY <1>1, <1>2 DEF Sidebar

\* Restoring or closing a tab starts at most one attempt and touches no other.
LEMMA TabBase ==
  ASSUME Base, NEW t \in Tabs, RestoreTab(t) \/ CloseTab(t)
  PROVE  Base'
<1>1. CASE RestoreTab(t)
  <2>1. CASE Restorable(t)
    <3>1. StartAttempt(Link[t], TRUE, t) /\ Link[t] \in Sessions
      BY <1>1, <2>1 DEF RestoreTab, Restorable, Base, TypeOK
    <3>2. Started(Link[t], TRUE, t) /\ Numbered'
      BY <3>1, StartBase
    <3>3. TypeOK'
      <4>1. tab' \in [Tabs -> {"restoring", "error", "terminal", "closed"}]
        BY <1>1 DEF RestoreTab, Base, TypeOK
      <4>2. unvisited' \subseteq Tabs
        BY <1>1 DEF RestoreTab, Base, TypeOK
      <4> QED
        BY <1>1, <3>2, <4>1, <4>2 DEF RestoreTab, Base, TypeOK, sidebarVars, keyVars, Attempts,
           Started
    <3>4. DialogsMade'
      <4>1. dialogs' = dialogs /\ made' = made + 1 /\ made \in Int
        BY <1>1, <3>2, SshAssumption DEF RestoreTab, Base, TypeOK, Started
      <4>2. \A i \in DOMAIN dialogs : dialogs[i].attempt \in Int
        BY DialogTypes DEF Base
      <4> QED
        BY <4>1, <4>2 DEF Base, DialogsMade
    <3> QED
      BY <3>2, <3>3, <3>4 DEF Base
  <2>2. CASE ~Restorable(t)
    BY <1>1, <2>2 DEF RestoreTab, Base, TypeOK, Numbered, DialogsMade, sidebarVars, keyVars,
       jobVars, loginVars, threadVars
  <2> QED
    BY <2>1, <2>2
<1>2. CASE CloseTab(t)
  BY <1>2 DEF CloseTab, Base, TypeOK, Numbered, DialogsMade, sidebarVars, keyVars,
     jobVars, loginVars, threadVars
<1> QED
  BY <1>1, <1>2

\* The session thread, its drain, the login and the terminal it waits for.
LEMMA ThreadBase ==
  ASSUME Base, NEW a \in Attempts, SessionThread(a)
  PROVE  Base'
<1> DEFINE T == {"none", "dial", "verify", "confirm", "trusted", "declined", "auth", "answer",
                 "up", "gone"}
           Goes == \E n \in T : thread' = [thread EXCEPT ![a] = n] /\ events' = events
           Posts == \E e \in Kinds, n \in T : Post(a, e, n)
<1>1. a <= made /\ of[a] \in Sessions /\ hop[a] \in 1..Len(Route[of[a]]) /\ Here(a) \in Hosts
  <2>1. thread[a] # "none"
    BY DEF SessionThread, ThreadDials, ThreadVerifies, ThreadConfirmed, ThreadDeclined,
       ThreadAuthenticates, ThreadStops
  <2>2. a <= made /\ of[a] \in Sessions /\ hop[a] \in 1..Len(Route[of[a]])
    BY <2>1, SshAssumption DEF Base, Numbered, TypeOK, Attempts
  <2> QED
    BY <2>2, SshAssumption, ElementOfSeq DEF Here
<1>a. Goes \/ Posts
  <2>1. CASE ThreadDials(a)
    BY <2>1 DEF ThreadDials, Kinds
  <2>2. CASE ThreadVerifies(a)
    BY <2>2 DEF ThreadVerifies, LookUp, Kinds
  <2>3. CASE ThreadConfirmed(a)
    BY <2>3 DEF ThreadConfirmed, Kinds
  <2>4. CASE ThreadDeclined(a)
    BY <2>4 DEF ThreadDeclined, Kinds
  <2>5. CASE ThreadAuthenticates(a)
    BY <2>5 DEF ThreadAuthenticates, Kinds
  <2>6. CASE ThreadStops(a)
    BY <2>6 DEF ThreadStops
  <2> QED
    BY <2>1, <2>2, <2>3, <2>4, <2>5, <2>6 DEF SessionThread
<1>2. UNCHANGED <<connecting, deleting, stored, complete, tab, unvisited, dialogs, made, of,
                  linked, into, phase, asked, question, reply, exists, trusted>>
  BY DEF SessionThread, ThreadDials, ThreadVerifies, ThreadConfirmed, ThreadDeclined,
     ThreadAuthenticates, ThreadStops, sidebarVars, jobVars, loginVars, windowVars, keyVars
<1>3. thread' \in [Attempts -> T] /\ \A b \in Attempts \ {a} : thread'[b] = thread[b]
  <2>1. \E n \in T : thread' = [thread EXCEPT ![a] = n]
    BY <1>a DEF Post
  <2>2. thread \in [Attempts -> T]
    BY DEF Base, TypeOK
  <2> QED
    BY <2>1, <2>2
<1>4. events' \in [Attempts -> Seq(Kinds)] /\ \A b \in Attempts \ {a} : events'[b] = events[b]
  <2>1. CASE events' = events
    BY <2>1 DEF Base, TypeOK
  <2>2. CASE Posts
    BY <2>2, PostFacts DEF Base
  <2> QED
    BY <1>a, <2>1, <2>2
<1>5. /\ hop' \in [Attempts -> Nat \ {0}] /\ \A b \in Attempts \ {a} : hop'[b] = hop[b]
      /\ hop'[a] \in 1..Len(Route[of[a]])
  <2>1. hop' = hop \/ (~Last(a) /\ hop' = [hop EXCEPT ![a] = @ + 1])
    BY DEF SessionThread, ThreadDials, ThreadVerifies, ThreadConfirmed, ThreadDeclined,
       ThreadAuthenticates, ThreadStops
  <2>2. Len(Route[of[a]]) \in Nat
    BY <1>1, SshAssumption, LenProperties
  <2>3. CASE hop' = hop
    BY <1>1, <2>3 DEF Base, TypeOK
  <2>4. CASE ~Last(a) /\ hop' = [hop EXCEPT ![a] = hop[a] + 1]
    <3>1. hop[a] + 1 \in 1..Len(Route[of[a]])
      BY <1>1, <2>2, <2>4 DEF Last
    <3>2. hop \in [Attempts -> Nat \ {0}]
      BY DEF Base, TypeOK
    <3> QED
      BY <2>4, <3>1, <3>2
  <2> QED
    BY <2>1, <2>3, <2>4
<1>6. snapshot' \in [Attempts -> [Hosts -> Entries]] /\ file' \in [Hosts -> Entries]
  <2>1. CASE ThreadConfirmed(a)
    <3> DEFINE known == [snapshot[a] EXCEPT ![Here(a)] = "right"]
    <3>1. known \in [Hosts -> Entries] /\ PartOf(known) \subseteq [Hosts -> Entries]
      <4>1. known \in [Hosts -> Entries]
        BY DEF Base, TypeOK, Entries
      <4> QED
        BY <4>1 DEF PartOf, Entries
    <3>2. file' = known \/ file' \in {file} \cup PartOf(known)
      BY <2>1 DEF ThreadConfirmed
    <3>3. snapshot' \in [Attempts -> [Hosts -> Entries]]
      BY <2>1 DEF ThreadConfirmed, Forget, NoKeys, Base, TypeOK, Entries
    <3> QED
      BY <3>1, <3>2, <3>3 DEF Base, TypeOK
  <2>2. CASE ThreadVerifies(a)
    <3>1. snapshot' = snapshot \/ snapshot' = [snapshot EXCEPT ![a] = file]
      BY <2>2 DEF ThreadVerifies, LookUp
    <3>2. file' = file
      BY <2>2 DEF ThreadVerifies, keyVars
    <3>3. snapshot \in [Attempts -> [Hosts -> Entries]] /\ file \in [Hosts -> Entries]
      BY DEF Base, TypeOK
    <3> QED
      BY <3>1, <3>2, <3>3
  <2>3. CASE ThreadDeclined(a)
    BY <2>3 DEF ThreadDeclined, Forget, NoKeys, keyVars, Base, TypeOK, Entries
  <2>4. CASE snapshot' = snapshot /\ file' = file
    BY <2>4 DEF Base, TypeOK
  <2> QED
    BY <2>1, <2>2, <2>3, <2>4 DEF SessionThread, ThreadDials, ThreadAuthenticates, ThreadStops,
       keyVars
<1>7. TypeOK'
  BY <1>2, <1>3, <1>4, <1>5, <1>6 DEF Base, TypeOK
<1>8. Numbered' /\ DialogsMade'
  BY <1>1, <1>2, <1>3, <1>4, <1>5, SshAssumption DEF Base, Numbered, DialogsMade, TypeOK, Attempts
<1> QED
  BY <1>7, <1>8 DEF Base

\* What the login, its drain and the terminal's opening leave alone.
LEMMA LoginBase ==
  ASSUME Base, NEW a \in Attempts, Login(a) \/ PtyReturns(a) \/ Drain(a)
  PROVE  Base'
<1> DEFINE T == {"none", "dial", "verify", "confirm", "trusted", "declined", "auth", "answer",
                 "up", "gone"}
           P == {"idle"} \cup Running \cup Results \cup Ended
<1> USE DEF Running, Results, Ended
<1>1. UNCHANGED <<connecting, deleting, stored, complete, tab, unvisited, dialogs, made, of,
                  linked, into, hop, snapshot, exists, file, trusted>>
  BY DEF Login, GetBanner, GetHostVerify, GetPrompt, GetEnd, LoginTimesOut, GetDecision,
     QuestionTimesOut, Decide, PtyReturns, Drain, sidebarVars, jobVars, loginVars, threadVars,
     windowVars, keyVars
<1>2. phase[a] # "idle"
  BY DEF Login, GetBanner, GetHostVerify, GetPrompt, GetEnd, LoginTimesOut, GetDecision,
     QuestionTimesOut, Received, PtyReturns, Drain
<1>3. a <= made
  BY <1>2, SshAssumption DEF Base, Numbered, TypeOK, Attempts
<1>4. \/ events' = events
      \/ events[a] # <<>> /\ events' = [events EXCEPT ![a] = Tail(@)]
  BY DEF Login, GetBanner, GetHostVerify, GetPrompt, GetEnd, LoginTimesOut, GetDecision,
     QuestionTimesOut, Decide, Received, PtyReturns, Drain, threadVars
<1>5. events' \in [Attempts -> Seq(Kinds)] /\ \A b \in Attempts \ {a} : events'[b] = events[b]
  <2>1. CASE events' = events
    BY <2>1 DEF Base, TypeOK
  <2>2. CASE events[a] # <<>> /\ events' = [events EXCEPT ![a] = Tail(@)]
    BY <2>2, TakeFacts DEF Base
  <2> QED
    BY <1>4, <2>1, <2>2
<1>6. \E p \in P \ {"idle"} : phase' = [phase EXCEPT ![a] = p] \/ phase' = phase
  BY DEF Login, GetBanner, GetHostVerify, GetPrompt, GetEnd, LoginTimesOut, GetDecision,
     QuestionTimesOut, Decide, PtyReturns, Drain, loginVars
<1>7. phase' \in [Attempts -> P] /\ phase'[a] # "idle"
      /\ \A b \in Attempts \ {a} : phase'[b] = phase[b]
  BY <1>2, <1>6 DEF Base, TypeOK
<1>8. \E n \in T : thread' = [thread EXCEPT ![a] = n] \/ thread' = thread
  <2>1. CASE Login(a) \/ PtyReturns(a)
    BY <2>1 DEF Login, GetBanner, GetHostVerify, GetPrompt, GetEnd, LoginTimesOut, GetDecision,
       QuestionTimesOut, Decide, Answer, PtyReturns, threadVars
  <2>2. CASE Drain(a)
    <3>1. thread[a] \in T
      BY DEF Base, TypeOK
    <3> QED
      BY <2>2, <3>1 DEF Drain, Drained
  <2> QED
    BY <2>1, <2>2
<1>9. thread' \in [Attempts -> T] /\ \A b \in Attempts \ {a} : thread'[b] = thread[b]
  BY <1>8 DEF Base, TypeOK
<1>10. /\ question' \in [Attempts -> {"none", "queued", "shown"}]
       /\ reply' \in [Attempts -> {"none", "trust", "reject"}]
       /\ \A b \in Attempts \ {a} : question'[b] = question[b]
  BY DEF Login, GetBanner, GetHostVerify, GetPrompt, GetEnd, LoginTimesOut, GetDecision,
     QuestionTimesOut, Decide, PtyReturns, Drain, loginVars, Base, TypeOK
<1>11. asked' \in [Attempts -> 0..MaxPasswordPrompts]
  <2>1. asked' = asked \/ (MayAnswer(a) /\ asked' = [asked EXCEPT ![a] = @ + 1])
    BY DEF Login, GetBanner, GetHostVerify, GetPrompt, GetEnd, LoginTimesOut, GetDecision,
       QuestionTimesOut, Decide, PtyReturns, Drain, loginVars
  <2>2. asked \in [Attempts -> 0..MaxPasswordPrompts]
    BY DEF Base, TypeOK
  <2>3. asked[a] < MaxPasswordPrompts => asked[a] + 1 \in 0..MaxPasswordPrompts
    BY <2>2, SshAssumption
  <2> QED
    BY <2>1, <2>2, <2>3 DEF MayAnswer
<1>12. TypeOK'
  BY <1>1, <1>5, <1>7, <1>9, <1>10, <1>11 DEF Base, TypeOK
<1>13. Numbered' /\ DialogsMade'
  BY <1>1, <1>3, <1>5, <1>7, <1>9, <1>10, SshAssumption
     DEF Base, Numbered, DialogsMade, TypeOK, Attempts
<1> QED
  BY <1>12, <1>13 DEF Base

\* The window shows a question or the end of an attempt.
LEMMA WindowBase ==
  ASSUME Base, NEW a \in Attempts, ShowQuestion(a) \/ Finish(a)
  PROVE  Base'
<1>1. CASE ShowQuestion(a)
  <2>1. a <= made
    BY <1>1, SshAssumption DEF ShowQuestion, Base, Numbered, TypeOK, Attempts
  <2>2. dialogs' = Append(dialogs, [kind |-> "verify", attempt |-> a])
    BY <1>1 DEF ShowQuestion
  <2>3. TypeOK'
    BY <1>1, <2>2, OpenFacts DEF ShowQuestion, Base, TypeOK, threadVars, jobVars, sidebarVars,
       keyVars
  <2>4. Numbered'
    BY <1>1, <2>1, SshAssumption DEF ShowQuestion, Base, Numbered, TypeOK, Attempts, threadVars,
       jobVars
  <2>5. DialogsMade'
    BY <1>1, <2>1, <2>2, OpenFacts DEF ShowQuestion, Base, DialogsMade, jobVars
  <2> QED
    BY <2>3, <2>4, <2>5 DEF Base
<1>2. CASE Finish(a)
  <2>1. phase[a] \in Results /\ a <= made
    <3>1. phase[a] \in Results
      BY <1>2 DEF Finish
    <3>2. phase[a] # "idle"
      BY <3>1 DEF Results
    <3>3. a <= made
      BY <3>2, SshAssumption DEF Base, Numbered, TypeOK, Attempts
    <3> QED
      BY <3>1, <3>3
  <2>3. /\ dialogs' \in Seq([kind : {"verify", "mismatch"}, attempt : Attempts])
        /\ DialogsMade'
    <3>1. CASE phase[a] = "mismatch"
      <4>1. dialogs' = Append(dialogs, [kind |-> "mismatch", attempt |-> a])
        BY <1>2, <3>1 DEF Finish
      <4>2. made' = made
        BY <1>2 DEF Finish, jobVars
      <4>3. /\ dialogs' \in Seq([kind : {"verify", "mismatch"}, attempt : Attempts])
            /\ DOMAIN dialogs' = DOMAIN dialogs \cup {Len(dialogs) + 1}
            /\ dialogs'[Len(dialogs) + 1] = [kind |-> "mismatch", attempt |-> a]
            /\ \A i \in DOMAIN dialogs : dialogs'[i] = dialogs[i]
        <5>1. TypeOK /\ "mismatch" \in {"verify", "mismatch"}
          BY DEF Base
        <5> QED
          BY <4>1, <5>1, OpenFacts
      <4> QED
        BY <2>1, <4>2, <4>3 DEF Base, DialogsMade
    <3>2. CASE phase[a] # "mismatch"
      BY <1>2, <3>2 DEF Finish, Base, DialogsMade, TypeOK, jobVars
    <3> QED
      BY <3>1, <3>2
  <2>4. /\ phase' \in [Attempts -> {"idle"} \cup Running \cup Results \cup Ended]
        /\ phase'[a] # "idle" /\ \A b \in Attempts \ {a} : phase'[b] = phase[b]
    BY <1>2, <2>1 DEF Finish, Base, TypeOK, Results, Ended
  <2>5. tab' \in [Tabs -> {"restoring", "error", "terminal", "closed"}]
    BY <1>2 DEF Finish, ShowIn, Base, TypeOK
  <2>6. connecting' \subseteq Sessions
    BY <1>2 DEF Finish, ClearConnecting, Base, TypeOK
  <2>7. TypeOK'
    BY <1>2, <2>3, <2>4, <2>5, <2>6 DEF Finish, Base, TypeOK, threadVars, jobVars, keyVars
  <2>8. Numbered'
    BY <1>2, <2>1, <2>4, SshAssumption DEF Finish, Base, Numbered, TypeOK, Attempts, threadVars,
       jobVars
  <2> QED
    BY <2>3, <2>7, <2>8 DEF Base
<1> QED
  BY <1>1, <1>2

\* The user answers a dialog.
LEMMA UserBase ==
  ASSUME Base, AnswerQuestion \/ CancelMismatch \/ RetryMismatch
  PROVE  Base'
<1>1. dialogs # <<>> /\ CloseTop
  BY DEF AnswerQuestion, CancelMismatch, RetryMismatch, OnMismatch
<1>2. /\ dialogs' \in Seq([kind : {"verify", "mismatch"}, attempt : Attempts])
      /\ Top.attempt \in Attempts /\ Top.attempt <= made
      /\ \A i \in DOMAIN dialogs' : i \in DOMAIN dialogs /\ dialogs'[i] = dialogs[i]
  BY <1>1, CloseTopFacts DEF Base, DialogsMade, Top
<1>3. of[Top.attempt] \in Sessions /\ Here(Top.attempt) \in Hosts
  <2>1. of[Top.attempt] \in Sessions /\ hop[Top.attempt] \in 1..Len(Route[of[Top.attempt]])
    BY <1>2 DEF Base, Numbered
  <2> QED
    BY <2>1, SshAssumption, ElementOfSeq DEF Here
<1>4. CASE AnswerQuestion
  <2>1. /\ reply' \in [Attempts -> {"none", "trust", "reject"}]
        /\ question' \in [Attempts -> {"none", "queued", "shown"}]
        /\ \A b \in Attempts : question'[b] \in {question[b], "none"}
        /\ trusted' \subseteq Hosts
    BY <1>2, <1>3, <1>4 DEF AnswerQuestion, Base, TypeOK
  <2>2. TypeOK'
    BY <1>2, <1>4, <2>1 DEF AnswerQuestion, Base, TypeOK, threadVars, jobVars, sidebarVars
  <2>3. Numbered' /\ DialogsMade'
    BY <1>2, <1>4, <2>1 DEF AnswerQuestion, Base, Numbered, DialogsMade, threadVars, jobVars
  <2> QED
    BY <2>2, <2>3 DEF Base
<1>5. CASE CancelMismatch
  BY <1>2, <1>5 DEF CancelMismatch, OnMismatch, Base, TypeOK, Numbered, DialogsMade, threadVars,
     jobVars, loginVars, sidebarVars
<1>6. CASE RetryMismatch
  <2>1. StartAttempt(of[Top.attempt], FALSE, None)
    BY <1>6 DEF RetryMismatch
  <2>2. Started(of[Top.attempt], FALSE, None) /\ Numbered'
    BY <1>3, <2>1, StartBase
  <2>3. file' \in [Hosts -> Entries]
    BY <1>6 DEF RetryMismatch, Base, TypeOK, Entries
  <2>4. UNCHANGED <<connecting, deleting, stored, complete, tab, unvisited, exists,
                    trusted>>
    BY <1>6 DEF RetryMismatch, OnMismatch, sidebarVars
  <2>5. TypeOK'
    BY <1>2, <2>2, <2>3, <2>4 DEF Base, TypeOK, Started, Attempts
  <2>6. DialogsMade'
    <3>1. made' = made + 1 /\ made \in Int
      BY <2>2, SshAssumption DEF Started, Base, TypeOK
    <3>2. \A i \in DOMAIN dialogs : dialogs[i].attempt \in Int
      BY DialogTypes DEF Base
    <3> QED
      BY <1>2, <3>1, <3>2 DEF Base, DialogsMade
  <2> QED
    BY <2>2, <2>5, <2>6 DEF Base
<1> QED
  BY <1>4, <1>5, <1>6

\* Every step keeps the types and the numbering of the attempts.
LEMMA NextBase == Base /\ [Next]_vars => Base'
<1> SUFFICES ASSUME Base, [Next]_vars PROVE Base'
  OBVIOUS
<1>1. ASSUME NEW s \in Sessions, Sidebar(s) PROVE Base'
  BY <1>1, SidebarBase
<1>2. ASSUME NEW t \in Tabs, RestoreTab(t) \/ CloseTab(t) PROVE Base'
  BY <1>2, TabBase
<1>3. ASSUME NEW a \in Attempts, SessionThread(a) PROVE Base'
  BY <1>3, ThreadBase
<1>4. ASSUME NEW a \in Attempts, Login(a) \/ PtyReturns(a) \/ Drain(a) PROVE Base'
  BY <1>4, LoginBase
<1>5. ASSUME NEW a \in Attempts, ShowQuestion(a) \/ Finish(a) PROVE Base'
  BY <1>5, WindowBase
<1>6. CASE AnswerQuestion \/ CancelMismatch \/ RetryMismatch
  BY <1>6, UserBase
<1>7. CASE UNCHANGED vars
  BY <1>7 DEF vars, sidebarVars, jobVars, loginVars, threadVars, windowVars, keyVars, Base,
     TypeOK, Numbered, DialogsMade
<1> QED
  BY <1>1, <1>2, <1>3, <1>4, <1>5, <1>6, <1>7 DEF Next

\* The numbering of attempts, in every reachable state.
THEOREM AttemptsNumbered == Spec => []Base
<1> QED
  BY InitBase, NextBase, PTL DEF Spec

\* Everything that takes part in opening a session keeps its type.
THEOREM TypeCorrect == Spec => []TypeOK
<1>1. Base => TypeOK
  BY DEF Base
<1> QED
  BY <1>1, AttemptsNumbered, PTL

-----------------------------------------------------------------------------

\* What is shown as being opened.
Shown == MarkedIsUnderWay /\ RestoringIsUnderWay

\* At first nothing is marked, and every restoring tab is still to be visited.
LEMMA InitShown == Init => Shown
BY DEF Init, Shown, MarkedIsUnderWay, RestoringIsUnderWay

Live == Running \cup Results

\* Attempts that are under way, or whose changed key is in a dialog, stay so.
LiveStay ==
    /\ \A a \in Attempts : phase[a] \in Live =>
          /\ of'[a] = of[a] /\ linked'[a] = linked[a] /\ into'[a] = into[a]
          /\ phase'[a] \in Live
    /\ \A a \in Attempts : phase[a] = "mismatched" =>
          into'[a] = into[a] /\ phase'[a] = "mismatched"

\* What is shown stays true where attempts stay and whatever is newly shown has
\* an attempt.
LEMMA KeepShown ==
  ASSUME Shown, LiveStay, stored' \subseteq stored, complete' = complete,
         \A s \in (connecting' \ connecting) \cap stored' \cap complete' :
             \E a \in Attempts : of'[a] = s /\ linked'[a] /\ phase'[a] \in Live,
         \A t \in Tabs \ unvisited' : tab'[t] = "restoring" =>
             \/ t \notin unvisited /\ tab[t] = "restoring"
             \/ \E a \in Attempts : into'[a] = t /\ phase'[a] \in Live
             \/ Link[t] \in Sessions \ complete
  PROVE  Shown'
<1>1. MarkedIsUnderWay'
  <2> SUFFICES ASSUME NEW s \in connecting' \cap stored' \cap complete'
               PROVE  \E a \in Attempts : of'[a] = s /\ linked'[a] /\ phase'[a] \in Live
    BY DEF MarkedIsUnderWay, UnderWay, Live
  <2>1. CASE s \in connecting
    <3>1. PICK a \in Attempts : of[a] = s /\ linked[a] /\ phase[a] \in Live
      BY <2>1 DEF Shown, MarkedIsUnderWay, UnderWay, Live
    <3> QED
      BY <3>1 DEF LiveStay
  <2>2. CASE s \notin connecting
    BY <2>2
  <2> QED
    BY <2>1, <2>2
<1>2. RestoringIsUnderWay'
  <2> SUFFICES ASSUME NEW t \in Tabs \ unvisited', tab'[t] = "restoring"
               PROVE  \/ \E a \in Attempts :
                            into'[a] = t /\ (phase'[a] \in Live \/ phase'[a] = "mismatched")
                      \/ Link[t] \in Sessions \ complete'
    BY DEF RestoringIsUnderWay, UnderWay, Live
  <2>1. CASE t \notin unvisited /\ tab[t] = "restoring"
    <3>1. CASE Link[t] \in Sessions \ complete
      BY <3>1
    <3>2. ASSUME NEW a \in Attempts, into[a] = t, phase[a] \in Live \/ phase[a] = "mismatched"
          PROVE  into'[a] = t /\ (phase'[a] \in Live \/ phase'[a] = "mismatched")
      BY <3>2 DEF LiveStay
    <3> QED
      BY <2>1, <3>1, <3>2 DEF Shown, RestoringIsUnderWay, UnderWay, Live
  <2>2. CASE ~(t \notin unvisited /\ tab[t] = "restoring")
    BY <2>2
  <2> QED
    BY <2>1, <2>2
<1> QED
  BY <1>1, <1>2 DEF Shown

\* A new attempt is under way and leaves the others alone.
LEMMA StartShown ==
  ASSUME Base, made' = made + 1, made' \in Attempts, phase'[made'] = "login",
         \A a \in Attempts \ {made'} :
             /\ of'[a] = of[a] /\ linked'[a] = linked[a] /\ into'[a] = into[a]
             /\ phase'[a] = phase[a]
  PROVE  LiveStay /\ phase'[made'] \in Live
<1>1. made' > made
  BY SshAssumption DEF Base, TypeOK
<1>2. phase[made'] = "idle"
  BY <1>1 DEF Base, Numbered
<1> QED
  BY <1>2 DEF LiveStay, Live, Running, Results

\* Nothing new is shown and no attempt moves.
LEMMA QuietShown ==
  ASSUME Shown, of' = of, linked' = linked, into' = into, phase' = phase,
         connecting' \subseteq connecting, stored' \subseteq stored, complete' = complete,
         unvisited' = unvisited, \A t \in Tabs : tab'[t] = "restoring" => tab[t] = "restoring"
  PROVE  Shown'
BY KeepShown DEF LiveStay

\* A click marks its session only with an attempt behind it, or for a
\* session that MarkedIsUnderWay excepts; an edit or a deletion marks none.
LEMMA SidebarShown ==
  ASSUME Base, Shown, NEW s \in Sessions, Sidebar(s)
  PROVE  Shown'
<1>1. CASE Click(s)
  <2>1. CASE s \in stored \cap complete
    <3>1. StartAttempt(s, TRUE, None)
      BY <1>1, <2>1 DEF Click, OpenSession
    <3>2. Started(s, TRUE, None)
      BY <3>1, StartBase
    <3>3. LiveStay /\ \E a \in Attempts : of'[a] = s /\ linked'[a] /\ phase'[a] \in Live
      <4>1. LiveStay /\ phase'[made'] \in Live
        BY <3>2, StartShown DEF Started
      <4> QED
        BY <3>2, <4>1 DEF Started
    <3>4. connecting' = connecting \cup {s} /\ UNCHANGED <<stored, complete, tab, unvisited>>
      BY <1>1 DEF Click, windowVars
    <3> QED
      BY <3>3, <3>4, KeepShown
  <2>2. CASE s \notin stored \cap complete
    <3>1. LiveStay
      BY <1>1, <2>2 DEF Click, OpenSession, LiveStay, jobVars, loginVars
    <3>2. connecting' = connecting \cup {s} /\ UNCHANGED <<stored, complete, tab, unvisited>>
      BY <1>1 DEF Click, windowVars
    <3> QED
      BY <2>2, <3>1, <3>2, KeepShown
  <2> QED
    BY <2>1, <2>2
<1>2. CASE Delete(s) \/ DeleteReturns(s)
  BY <1>2, QuietShown DEF Delete, DeleteReturns, jobVars, loginVars, windowVars
<1> QED
  BY <1>1, <1>2 DEF Sidebar

\* A tab stays at "restoring" only when its attempt started.
LEMMA TabShown ==
  ASSUME Base, Shown, NEW t \in Tabs, RestoreTab(t) \/ CloseTab(t)
  PROVE  Shown'
<1>1. CASE RestoreTab(t)
  <2>1. CASE Restorable(t)
    <3>1. StartAttempt(Link[t], TRUE, t) /\ Link[t] \in Sessions
      BY <1>1, <2>1 DEF RestoreTab, Restorable, Base, TypeOK
    <3>2. Started(Link[t], TRUE, t)
      BY <3>1, StartBase
    <3>3. LiveStay /\ \E a \in Attempts : into'[a] = t /\ phase'[a] \in Live
      <4>1. LiveStay /\ phase'[made'] \in Live
        BY <3>2, StartShown DEF Started
      <4> QED
        BY <3>2, <4>1 DEF Started
    <3>4. /\ unvisited' = unvisited \ {t} /\ \A u \in Tabs \ {t} : tab'[u] = tab[u]
          /\ UNCHANGED <<connecting, stored, complete>>
      BY <1>1 DEF RestoreTab, sidebarVars, Base, TypeOK
    <3> QED
      BY <3>3, <3>4, KeepShown
  <2>2. CASE ~Restorable(t)
    <3>1. LiveStay
      BY <1>1, <2>2 DEF RestoreTab, LiveStay, jobVars, loginVars
    <3>2. /\ unvisited' = unvisited \ {t} /\ \A u \in Tabs \ {t} : tab'[u] = tab[u]
          /\ UNCHANGED <<connecting, stored, complete>>
      BY <1>1 DEF RestoreTab, sidebarVars, Base, TypeOK
    <3>3. tab'[t] = "restoring" => Link[t] \in Sessions \ complete
      BY <1>1, <2>2 DEF RestoreTab, Restorable, Base, TypeOK
    <3> QED
      BY <3>1, <3>2, <3>3, KeepShown
  <2> QED
    BY <2>1, <2>2
<1>2. CASE CloseTab(t)
  BY <1>2, QuietShown DEF CloseTab, Base, TypeOK, jobVars, loginVars, sidebarVars
<1> QED
  BY <1>1, <1>2

\* No step of a thread or a login clears a mark or settles a tab: an attempt
\* that ends there keeps its result for the window to show.
LEMMA ThreadShown ==
  ASSUME Base, Shown, NEW a \in Attempts,
         SessionThread(a) \/ Login(a) \/ PtyReturns(a) \/ Drain(a) \/ ShowQuestion(a)
  PROVE  Shown'
<1>1. UNCHANGED <<of, linked, into, connecting, stored, complete, unvisited, tab>>
  BY DEF SessionThread, ThreadDials, ThreadVerifies, ThreadConfirmed, ThreadDeclined,
     ThreadAuthenticates, ThreadStops, Login, GetBanner, GetHostVerify, GetPrompt, GetEnd,
     LoginTimesOut, GetDecision, QuestionTimesOut, Decide, PtyReturns, Drain, ShowQuestion,
     sidebarVars, jobVars, windowVars
<1>2. \/ phase' = phase
      \/ \E p \in Running \cup Results : phase[a] \in Running /\ phase' = [phase EXCEPT ![a] = p]
  <2>1. CASE Login(a) \/ PtyReturns(a)
    BY <2>1 DEF Login, GetBanner, GetHostVerify, GetPrompt, GetEnd, LoginTimesOut, GetDecision,
       QuestionTimesOut, Decide, Received, PtyReturns, Running, Results
  <2>2. CASE SessionThread(a) \/ Drain(a) \/ ShowQuestion(a)
    BY <2>2 DEF SessionThread, ThreadDials, ThreadVerifies, ThreadConfirmed, ThreadDeclined,
       ThreadAuthenticates, ThreadStops, Drain, ShowQuestion, loginVars
  <2> QED
    BY <2>1, <2>2
<1>3. LiveStay
  BY <1>1, <1>2 DEF Base, TypeOK, LiveStay, Live, Running, Results
<1> QED
  BY <1>1, <1>3, KeepShown

\* The end of an attempt clears the mark and the tab it was made for, and no
\* other attempt relied on either.
LEMMA FinishShown ==
  ASSUME Base, Shown, NEW a \in Attempts, Finish(a)
  PROVE  Shown'
<1>1. /\ UNCHANGED <<of, linked, into, stored, complete, unvisited>>
      /\ phase[a] \in Results
      /\ phase[a] = "mismatch" => phase'[a] = "mismatched"
      /\ \A b \in Attempts \ {a} : phase'[b] = phase[b]
  BY DEF Finish, Base, TypeOK, jobVars
<1>2. \A b \in Attempts \ {a} : UnderWay(b) => UnderWay(b)'
  BY <1>1 DEF UnderWay
<1>3. MarkedIsUnderWay'
  <2>1. connecting' = IF linked[a] THEN connecting \ {of[a]} ELSE connecting
    BY DEF Finish, ClearConnecting
  <2> QED
    BY <1>1, <1>2, <2>1 DEF Shown, MarkedIsUnderWay
<1>4. RestoringIsUnderWay'
  <2>1. \A t \in Tabs : tab'[t] = "restoring" =>
            tab[t] = "restoring" /\ (into[a] # t \/ phase[a] = "mismatch")
    BY DEF Finish, ShowIn, Base, TypeOK
  <2> QED
    BY <1>1, <1>2, <2>1 DEF Shown, RestoringIsUnderWay
<1> QED
  BY <1>3, <1>4 DEF Shown

\* A dialog that is answered takes no mark and no tab along; a retry starts an
\* attempt of its own.
LEMMA UserShown ==
  ASSUME Base, Shown, AnswerQuestion \/ CancelMismatch \/ RetryMismatch
  PROVE  Shown'
<1>1. CASE AnswerQuestion \/ CancelMismatch
  BY <1>1, QuietShown DEF AnswerQuestion, CancelMismatch, OnMismatch, jobVars, loginVars,
     sidebarVars
<1>2. CASE RetryMismatch
  <2>1. StartAttempt(of[Top.attempt], FALSE, None)
    BY <1>2 DEF RetryMismatch
  <2>2. of[Top.attempt] \in Sessions
    BY <1>2, CloseTopFacts DEF RetryMismatch, OnMismatch, Base, DialogsMade, Numbered, Top
  <2>3. Started(of[Top.attempt], FALSE, None)
    BY <2>1, <2>2, StartBase
  <2>4. UNCHANGED <<connecting, stored, complete, tab, unvisited>>
    BY <1>2 DEF RetryMismatch, OnMismatch, sidebarVars
  <2>5. LiveStay
    BY <2>3, StartShown DEF Started
  <2> QED
    BY <2>4, <2>5, KeepShown
<1> QED
  BY <1>1, <1>2

\* Every step keeps marks and restoring tabs backed by an attempt.
LEMMA NextShown == Base /\ Shown /\ [Next]_vars => Shown'
<1> SUFFICES ASSUME Base, Shown, [Next]_vars PROVE Shown'
  OBVIOUS
<1>1. ASSUME NEW s \in Sessions, Sidebar(s) PROVE Shown'
  BY <1>1, SidebarShown
<1>2. ASSUME NEW t \in Tabs, RestoreTab(t) \/ CloseTab(t) PROVE Shown'
  BY <1>2, TabShown
<1>3. ASSUME NEW a \in Attempts, SessionThread(a) \/ Login(a) \/ PtyReturns(a) \/ Drain(a)
                                \/ ShowQuestion(a)
      PROVE  Shown'
  BY <1>3, ThreadShown
<1>4. ASSUME NEW a \in Attempts, Finish(a) PROVE Shown'
  BY <1>4, FinishShown
<1>5. CASE AnswerQuestion \/ CancelMismatch \/ RetryMismatch
  BY <1>5, UserShown
<1>6. CASE UNCHANGED vars
  BY <1>6, QuietShown DEF vars, sidebarVars, jobVars, loginVars, windowVars
<1> QED
  BY <1>1, <1>2, <1>3, <1>4, <1>5, <1>6 DEF Next

\* A session marked as connecting and a tab that says "Restoring" have an
\* attempt under way that will clear them.
THEOREM ShownTrue == Spec => []ShownIsUnderWay
<1>1. Shown => ShownIsUnderWay
  BY DEF Shown, ShownIsUnderWay
<1> QED
  BY InitShown, NextShown, AttemptsNumbered, <1>1, PTL DEF Spec

-----------------------------------------------------------------------------

\* At first nobody is asked anything.
LEMMA InitAsked == Init => AskedIsShown
BY DEF Init, AskedIsShown

\* No login starts to wait and nothing is closed or answered.
LEMMA QuietAsked ==
  ASSUME AskedIsShown, question' = question, reply' = reply, dialogs' = dialogs,
         \A a \in Attempts : phase'[a] = "asking" => phase[a] = "asking"
  PROVE  AskedIsShown'
BY DEF AskedIsShown

\* A login comes to wait only by asking, and goes on only by an answer.
LEMMA LoginAsked ==
  ASSUME Base, AskedIsShown, NEW a \in Attempts, Login(a) \/ PtyReturns(a)
  PROVE  AskedIsShown'
<1>1. CASE GetHostVerify(a)
  BY <1>1 DEF GetHostVerify, AskedIsShown, Base, TypeOK, windowVars
<1>2. CASE GetBanner(a) \/ GetPrompt(a) \/ GetEnd(a) \/ LoginTimesOut(a) \/ PtyReturns(a)
  <2>1. question' = question /\ reply' = reply /\ dialogs' = dialogs
    BY <1>2 DEF GetBanner, GetPrompt, GetEnd, LoginTimesOut, PtyReturns, windowVars
  <2>2. \/ phase' = phase
        \/ \E p \in {"login", "error", "mismatch", "pty", "connected"} :
              phase' = [phase EXCEPT ![a] = p]
    BY <1>2 DEF GetBanner, GetPrompt, GetEnd, LoginTimesOut, PtyReturns
  <2> QED
    BY <2>1, <2>2, QuietAsked DEF Base, TypeOK
<1>3. CASE GetDecision(a) \/ QuestionTimesOut(a)
  <2>1. /\ question' = question /\ dialogs' = dialogs /\ phase'[a] # "asking"
        /\ \A b \in Attempts \ {a} : phase'[b] = phase[b] /\ reply'[b] = reply[b]
    BY <1>3 DEF GetDecision, QuestionTimesOut, Decide, windowVars, Base, TypeOK
  <2> QED
    BY <2>1 DEF AskedIsShown
<1> QED
  BY <1>1, <1>2, <1>3 DEF Login

\* A dialog opens on top of those that are open, and the answer to one closes
\* that one only.
LEMMA WindowAsked ==
  ASSUME Base, AskedIsShown,
         \/ \E a \in Attempts : ShowQuestion(a) \/ Finish(a)
         \/ AnswerQuestion \/ CancelMismatch
  PROVE  AskedIsShown'
<1>1. ASSUME NEW a \in Attempts, ShowQuestion(a) PROVE AskedIsShown'
  <2>1. dialogs' = Append(dialogs, [kind |-> "verify", attempt |-> a])
    BY <1>1 DEF ShowQuestion
  <2>2. TypeOK /\ "verify" \in {"verify", "mismatch"}
    BY DEF Base
  <2>3. /\ \E i \in DOMAIN dialogs' : dialogs'[i] = [kind |-> "verify", attempt |-> a]
        /\ \A i \in DOMAIN dialogs : i \in DOMAIN dialogs' /\ dialogs'[i] = dialogs[i]
    BY <2>1, <2>2, OpenFacts
  <2>4. /\ phase' = phase /\ reply' = reply
        /\ \A b \in Attempts \ {a} : question'[b] = question[b]
    BY <1>1 DEF ShowQuestion, Base, TypeOK
  <2> SUFFICES ASSUME NEW b \in Attempts, phase'[b] = "asking"
               PROVE  \/ reply'[b] # "none" \/ question'[b] = "queued"
                      \/ \E i \in DOMAIN dialogs' :
                             dialogs'[i] = [kind |-> "verify", attempt |-> b]
    BY DEF AskedIsShown
  <2>5. CASE b = a
    BY <2>3, <2>5
  <2>6. CASE b # a
    BY <2>3, <2>4, <2>6 DEF AskedIsShown
  <2> QED
    BY <2>5, <2>6
<1>2. ASSUME NEW a \in Attempts, Finish(a) PROVE AskedIsShown'
  <2>1. \A i \in DOMAIN dialogs : i \in DOMAIN dialogs' /\ dialogs'[i] = dialogs[i]
    <3>1. CASE phase[a] = "mismatch"
      <4>1. dialogs' = Append(dialogs, [kind |-> "mismatch", attempt |-> a])
        BY <1>2, <3>1 DEF Finish
      <4>2. TypeOK /\ "mismatch" \in {"verify", "mismatch"}
        BY DEF Base
      <4> QED
        BY <4>1, <4>2, OpenFacts
    <3>2. CASE phase[a] # "mismatch"
      BY <1>2, <3>2 DEF Finish
    <3> QED
      BY <3>1, <3>2
  <2>2. \A b \in Attempts : phase'[b] = "asking" => phase[b] = "asking"
    BY <1>2 DEF Finish, Results, Base, TypeOK
  <2>3. reply' = reply /\ question' = question
    BY <1>2 DEF Finish
  <2> SUFFICES ASSUME NEW b \in Attempts, phase'[b] = "asking"
               PROVE  \/ reply'[b] # "none" \/ question'[b] = "queued"
                      \/ \E i \in DOMAIN dialogs' :
                             dialogs'[i] = [kind |-> "verify", attempt |-> b]
    BY DEF AskedIsShown
  <2> QED
    BY <2>1, <2>2, <2>3 DEF AskedIsShown
<1>3. CASE AnswerQuestion \/ CancelMismatch
  <2>1. dialogs # <<>> /\ CloseTop /\ TypeOK
    BY <1>3 DEF AnswerQuestion, CancelMismatch, OnMismatch, Base
  <2>2. /\ Top.attempt \in Attempts
        /\ \A i \in DOMAIN dialogs : dialogs[i] # Top =>
              i \in DOMAIN dialogs' /\ dialogs'[i] = dialogs[i]
    BY <2>1, CloseTopFacts DEF Top
  <2>3. phase' = phase
    BY <1>3 DEF AnswerQuestion, CancelMismatch, loginVars
  <2>4. CASE AnswerQuestion
    <3>1. \A b \in Attempts \ {Top.attempt} : reply'[b] = reply[b] /\ question'[b] = question[b]
      BY <2>4 DEF AnswerQuestion, Base, TypeOK
    <3>2. phase[Top.attempt] = "asking" => reply'[Top.attempt] # "none"
      BY <2>2, <2>4 DEF AnswerQuestion, Base, TypeOK
    <3> QED
      BY <2>2, <2>3, <3>1, <3>2 DEF AskedIsShown
  <2>5. CASE CancelMismatch
    <3>1. reply' = reply /\ question' = question /\ Top.kind = "mismatch"
      BY <2>5 DEF CancelMismatch, OnMismatch, loginVars
    <3> QED
      BY <2>2, <2>3, <3>1 DEF AskedIsShown
  <2> QED
    BY <1>3, <2>4, <2>5
<1> QED
  BY <1>1, <1>2, <1>3

\* A new attempt does not ask yet.
LEMMA StartAsked ==
  ASSUME Base, NEW s \in Sessions, NEW l \in BOOLEAN, NEW t \in Tabs \cup {None},
         StartAttempt(s, l, t)
  PROVE  /\ question' = question /\ reply' = reply
         /\ \A a \in Attempts : phase'[a] = "asking" => phase[a] = "asking"
BY StartBase DEF Started

\* Every step keeps the dialog of each login that waits for the user.
LEMMA NextAsked == Base /\ AskedIsShown /\ [Next]_vars => AskedIsShown'
<1> SUFFICES ASSUME Base, AskedIsShown, [Next]_vars PROVE AskedIsShown'
  OBVIOUS
<1>1. ASSUME NEW s \in Sessions, Sidebar(s) PROVE AskedIsShown'
  <2>1. CASE Click(s) /\ s \in stored \cap complete
    <3>1. StartAttempt(s, TRUE, None) /\ dialogs' = dialogs
      BY <2>1 DEF Click, OpenSession, windowVars
    <3> QED
      BY <3>1, StartAsked, QuietAsked
  <2>2. CASE Click(s) /\ s \notin stored \cap complete
    BY <2>2, QuietAsked DEF Click, OpenSession, windowVars, loginVars
  <2>3. CASE Delete(s) \/ DeleteReturns(s)
    BY <2>3, QuietAsked DEF Delete, DeleteReturns, windowVars, loginVars
  <2> QED
    BY <1>1, <2>1, <2>2, <2>3 DEF Sidebar
<1>2. ASSUME NEW t \in Tabs, RestoreTab(t) \/ CloseTab(t) PROVE AskedIsShown'
  <2>1. CASE RestoreTab(t) /\ Restorable(t)
    <3>1. StartAttempt(Link[t], TRUE, t) /\ Link[t] \in Sessions /\ dialogs' = dialogs
      BY <2>1 DEF RestoreTab, Restorable, Base, TypeOK
    <3> QED
      BY <3>1, StartAsked, QuietAsked
  <2>2. CASE RestoreTab(t) /\ ~Restorable(t)
    BY <2>2, QuietAsked DEF RestoreTab, loginVars
  <2>3. CASE CloseTab(t)
    BY <2>3, QuietAsked DEF CloseTab, loginVars
  <2> QED
    BY <1>2, <2>1, <2>2, <2>3
<1>3. ASSUME NEW a \in Attempts, SessionThread(a) \/ Drain(a) PROVE AskedIsShown'
  BY <1>3, QuietAsked DEF SessionThread, ThreadDials, ThreadVerifies, ThreadConfirmed,
     ThreadDeclined, ThreadAuthenticates, ThreadStops, Drain, loginVars, windowVars
<1>4. ASSUME NEW a \in Attempts, Login(a) \/ PtyReturns(a) PROVE AskedIsShown'
  BY <1>4, LoginAsked
<1>5. CASE \/ \E a \in Attempts : ShowQuestion(a) \/ Finish(a)
           \/ AnswerQuestion \/ CancelMismatch
  BY <1>5, WindowAsked
<1>6. CASE RetryMismatch
  <2>1. dialogs # <<>> /\ CloseTop /\ TypeOK /\ Top.kind = "mismatch"
    BY <1>6 DEF RetryMismatch, OnMismatch, Base
  <2>2. \A i \in DOMAIN dialogs : dialogs[i] # Top =>
            i \in DOMAIN dialogs' /\ dialogs'[i] = dialogs[i]
    BY <2>1, CloseTopFacts DEF Top
  <2>3. of[Top.attempt] \in Sessions
    BY <2>1, CloseTopFacts DEF Base, DialogsMade, Numbered, Top
  <2>4. StartAttempt(of[Top.attempt], FALSE, None)
    BY <1>6 DEF RetryMismatch
  <2>5. /\ question' = question /\ reply' = reply
        /\ \A a \in Attempts : phase'[a] = "asking" => phase[a] = "asking"
    BY <2>3, <2>4, StartAsked
  <2> QED
    BY <2>1, <2>2, <2>5 DEF AskedIsShown
<1>7. CASE UNCHANGED vars
  BY <1>7, QuietAsked DEF vars, loginVars, windowVars
<1> QED
  BY <1>1, <1>2, <1>3, <1>4, <1>5, <1>6, <1>7 DEF Next

\* A login never waits for a dialog that is not there.
THEOREM QuestionsShown == Spec => []AskedIsShown
<1> QED
  BY InitAsked, NextAsked, AttemptsNumbered, PTL DEF Spec

-----------------------------------------------------------------------------

\* Hosts a session thread gets past: those vouched for, and without a
\* known_hosts file all of them.
Cleared == IF exists THEN Vouched ELSE Hosts
AllCleared(a) == \A i \in DOMAIN Route[of[a]] : Route[of[a]][i] \in Cleared

\* A thread that asked a question is blocked on it, and the question is the
\* last event of its channel; it reports success when all hosts are cleared.
Blocked(a) ==
    \A i \in DOMAIN events[a] :
        /\ events[a][i] = "HostVerify" => thread[a] = "confirm" /\ i = Len(events[a])
        /\ events[a][i] \in {"Password", "Question"} => thread[a] = "answer" /\ i = Len(events[a])
        /\ events[a][i] = "Authenticated" => AllCleared(a)

\* A login that asks the user has emptied the channel, and a trusting answer to
\* it is about the host the thread is at.
Waits(a) ==
    phase[a] = "asking" => /\ thread[a] = "confirm" /\ DOMAIN events[a] = {}
                           /\ reply[a] = "trust" => Here(a) \in trusted

\* Whatever is past the check of a host's key was vouched for, or there was no
\* file to check it against; what is about to be written was vouched for.
Past(a) ==
    /\ thread[a] = "trusted" => Here(a) \in Vouched
    /\ thread[a] \in {"trusted", "auth", "answer"} => Here(a) \in Cleared
    /\ a <= made => \A i \in 1..(hop[a] - 1) : Route[of[a]][i] \in Cleared
    /\ phase[a] \in {"pty", "connected", "opened"} => AllCleared(a)
    /\ \A h \in Hosts : snapshot[a][h] = "right" => h \in Vouched

Sound(a) == Blocked(a) /\ Waits(a) /\ Past(a)

KeysVouched == \A h \in Hosts : file[h] = "right" => h \in Vouched

Trust == KeysVouched /\ \A a \in Attempts : Sound(a)

\* At first known_hosts holds what it held and no thread runs.
LEMMA InitTrust == Init => Trust
<1> SUFFICES ASSUME Init PROVE Trust
  OBVIOUS
<1>1. KeysVouched
  BY DEF Init, KeysVouched, Vouched
<1>2. ASSUME NEW a \in Attempts PROVE Blocked(a)
  BY <1>2 DEF Init, Blocked
<1>3. ASSUME NEW a \in Attempts PROVE Waits(a) /\ Past(a)
  BY <1>3, SshAssumption DEF Init, Waits, Past, NoKeys, Attempts
<1> QED
  BY <1>1, <1>2, <1>3 DEF Trust, Sound

\* Trust is never withdrawn.
LEMMA VouchedGrows ==
  ASSUME trusted \subseteq trusted', exists' = exists
  PROVE  /\ Vouched \subseteq Vouched' /\ Cleared \subseteq Cleared'
         /\ \A a \in Attempts : of'[a] = of[a] /\ AllCleared(a) => AllCleared(a)'
BY DEF Vouched, Cleared, AllCleared

\* An attempt nothing happens to.
LEMMA StillSound ==
  ASSUME NEW a \in Attempts, Sound(a), trusted \subseteq trusted', exists' = exists,
         a <= made' => a <= made,
         of'[a] = of[a], hop'[a] = hop[a], events'[a] = events[a], thread'[a] = thread[a],
         phase'[a] \in {"asking", "pty", "connected"} => phase'[a] = phase[a],
         phase'[a] = "opened" => phase[a] \in {"opened", "connected"},
         phase'[a] = "asking" => reply'[a] = reply[a], snapshot'[a] = snapshot[a]
  PROVE  Sound(a)'
<1>1. /\ Vouched \subseteq Vouched' /\ Cleared \subseteq Cleared'
      /\ (AllCleared(a) => AllCleared(a)') /\ Here(a)' = Here(a)
  BY VouchedGrows DEF Here
<1>2. Blocked(a)'
  BY <1>1 DEF Sound, Blocked
<1>3. Waits(a)'
  BY <1>1 DEF Sound, Waits
<1>4. Past(a)'
  BY <1>1 DEF Sound, Past
<1> QED
  BY <1>2, <1>3, <1>4 DEF Sound

\* A new attempt has not been anywhere yet.
LEMMA StartTrust ==
  ASSUME Base, Trust, NEW s \in Sessions, NEW l \in BOOLEAN, NEW t \in Tabs \cup {None},
         StartAttempt(s, l, t), trusted' = trusted, exists' = exists
  PROVE  \A a \in Attempts : Sound(a)'
<1>1. Started(s, l, t)
  BY StartBase
<1>2. ASSUME NEW a \in Attempts \ {made'} PROVE Sound(a)'
  <2>1. a <= made' => a <= made
    BY <1>1, <1>2, SshAssumption DEF Started, Base, TypeOK, Attempts
  <2>2. /\ of'[a] = of[a] /\ hop'[a] = hop[a] /\ events'[a] = events[a]
        /\ thread'[a] = thread[a] /\ phase'[a] = phase[a] /\ reply'[a] = reply[a]
        /\ snapshot'[a] = snapshot[a]
    BY <1>1, <1>2 DEF Started
  <2>3. Sound(a)
    BY <1>2 DEF Trust
  <2> QED
    BY <2>1, <2>2, <2>3, StillSound
<1>3. ASSUME NEW a \in Attempts, a = made' PROVE Sound(a)'
  <2>1. /\ hop'[a] = 1 /\ events'[a] = <<>> /\ thread'[a] = "dial" /\ phase'[a] = "login"
        /\ snapshot'[a] = snapshot[a]
    <3>1. a > made
      BY <1>1, <1>3, SshAssumption DEF Started, Base, TypeOK
    <3> QED
      BY <1>1, <1>3, <3>1 DEF Started, Base, Numbered
  <2>2. Vouched' = Vouched /\ Cleared' = Cleared
    BY DEF Vouched, Cleared
  <2>3. Blocked(a)' /\ Waits(a)'
    BY <2>1 DEF Blocked, Waits
  <2>4. Past(a)'
    BY <2>1, <2>2, <1>3 DEF Past, Trust, Sound
  <2> QED
    BY <2>3, <2>4 DEF Sound
<1> QED
  BY <1>2, <1>3

\* The thread of attempt a posts an event: what it was blocked on before is over.
LEMMA PostTrust ==
  ASSUME Base, Trust, NEW a \in Attempts, NEW e \in Kinds, NEW n, Post(a, e, n),
         UNCHANGED <<of, hop, phase, reply, made, exists, trusted>>,
         thread[a] \notin {"confirm", "answer"},
         e = "HostVerify" <=> n = "confirm",
         e \in {"Password", "Question"} <=> n = "answer",
         e = "Authenticated" => AllCleared(a),
         n = "answer" => thread[a] = "auth", n \notin {"trusted", "auth"},
         \A h \in Hosts : snapshot'[a][h] = "right" => h \in Vouched
  PROVE  Sound(a)'
<1> DEFINE m == Len(events[a])
<1>1. /\ thread'[a] = n
      /\ DOMAIN events[a] = 1..m /\ m \in Nat
      /\ DOMAIN events'[a] = 1..(m + 1) /\ Len(events'[a]) = m + 1
      /\ \A i \in DOMAIN events[a] : events'[a][i] = events[a][i]
      /\ events'[a][m + 1] = e
  BY PostFacts DEF Base
<1>2. /\ Vouched' = Vouched /\ Cleared' = Cleared /\ (AllCleared(a) => AllCleared(a)')
      /\ Here(a)' = Here(a)
  BY VouchedGrows DEF Vouched, Cleared, Here
<1>3. Sound(a)
  BY DEF Trust
<1>4. Blocked(a)'
  <2> SUFFICES ASSUME NEW i \in 1..(m + 1)
               PROVE  /\ events'[a][i] = "HostVerify" => thread'[a] = "confirm" /\ i = m + 1
                      /\ events'[a][i] \in {"Password", "Question"} =>
                             thread'[a] = "answer" /\ i = m + 1
                      /\ events'[a][i] = "Authenticated" => AllCleared(a)'
    BY <1>1 DEF Blocked
  <2>1. CASE i = m + 1
    BY <1>1, <1>2, <2>1
  <2>2. CASE i # m + 1
    BY <1>1, <1>2, <1>3, <2>2 DEF Sound, Blocked
  <2> QED
    BY <2>1, <2>2
<1>5. Waits(a)'
  BY <1>3 DEF Sound, Waits
<1>6. Past(a)'
  BY <1>1, <1>2, <1>3 DEF Sound, Past
<1> QED
  BY <1>4, <1>5, <1>6 DEF Sound

\* The session thread: a key is only written, and a host only passed, once it
\* was vouched for.
LEMMA ThreadTrust ==
  ASSUME Base, Trust, NEW a \in Attempts, SessionThread(a)
  PROVE  Trust'
<1> DEFINE Same == UNCHANGED <<of, phase, reply, made, exists, trusted>>
           Others == \A b \in Attempts \ {a} : /\ thread'[b] = thread[b] /\ events'[b] = events[b]
                                              /\ hop'[b] = hop[b] /\ snapshot'[b] = snapshot[b]
<1>0. /\ a <= made /\ of[a] \in Sessions /\ hop[a] \in 1..Len(Route[of[a]])
      /\ Len(Route[of[a]]) \in Nat /\ DOMAIN Route[of[a]] = 1..Len(Route[of[a]])
      /\ Here(a) \in Hosts
  <2>1. thread[a] # "none"
    BY DEF SessionThread, ThreadDials, ThreadVerifies, ThreadConfirmed, ThreadDeclined,
       ThreadAuthenticates, ThreadStops
  <2>2. a <= made /\ of[a] \in Sessions /\ hop[a] \in 1..Len(Route[of[a]])
    BY <2>1, SshAssumption DEF Base, Numbered, TypeOK, Attempts
  <2> QED
    BY <2>2, SshAssumption, ElementOfSeq, LenProperties DEF Here
<1>1. Same
  BY DEF SessionThread, ThreadDials, ThreadVerifies, ThreadConfirmed, ThreadDeclined,
     ThreadAuthenticates, ThreadStops, jobVars, loginVars, keyVars
<1>2. Others
  <2>1. CASE ThreadDials(a) \/ ThreadDeclined(a)
    BY <2>1 DEF ThreadDials, ThreadDeclined, Forget, Post, Base, TypeOK
  <2>2. CASE ThreadVerifies(a)
    <3>1. \E n : thread' = [thread EXCEPT ![a] = n]
      BY <2>2 DEF ThreadVerifies, LookUp, Post
    <3>2. events' = events \/ \E e : events' = [events EXCEPT ![a] = Append(@, e)]
      BY <2>2 DEF ThreadVerifies, LookUp, Post
    <3>3. hop' = hop /\ (snapshot' = snapshot \/ snapshot' = [snapshot EXCEPT ![a] = file])
      BY <2>2 DEF ThreadVerifies, LookUp
    <3> QED
      BY <3>1, <3>2, <3>3 DEF Base, TypeOK
  <2>3. CASE ThreadConfirmed(a)
    BY <2>3 DEF ThreadConfirmed, Post, Forget, Base, TypeOK
  <2>4. CASE ThreadAuthenticates(a)
    BY <2>4 DEF ThreadAuthenticates, Post, Base, TypeOK
  <2>5. CASE ThreadStops(a)
    BY <2>5 DEF ThreadStops, Base, TypeOK
  <2> QED
    BY <2>1, <2>2, <2>3, <2>4, <2>5 DEF SessionThread
<1>3. \A b \in Attempts \ {a} : Sound(b)'
  BY <1>1, <1>2, StillSound DEF Trust
<1>5. /\ Sound(a) /\ KeysVouched /\ Vouched' = Vouched /\ Cleared' = Cleared
      /\ Here(a) = Route[of[a]][hop[a]] /\ Vouched \subseteq Hosts /\ Vouched \subseteq Cleared
  <2>1. Vouched \subseteq Hosts
    BY DEF Vouched, Base, TypeOK
  <2> QED
    BY <1>1, <2>1 DEF Trust, Vouched, Cleared, Here
<1>6. CASE ThreadDials(a)
  <2>1. Sound(a)'
    BY <1>1, <1>5, <1>6, PostTrust DEF ThreadDials, Kinds, Sound, Past
  <2>2. KeysVouched'
    BY <1>5, <1>6 DEF ThreadDials, KeysVouched, keyVars
  <2> QED
    BY <1>3, <2>1, <2>2 DEF Trust
<1>7. CASE ThreadVerifies(a)
  <2>1. /\ thread[a] = "verify" /\ file' = file /\ hop' = hop
        /\ snapshot' = snapshot \/ snapshot' = [snapshot EXCEPT ![a] = file]
    BY <1>7 DEF ThreadVerifies, LookUp, keyVars
  <2>2. KeysVouched' /\ \A h \in Hosts : snapshot'[a][h] = "right" => h \in Vouched
    BY <1>5, <2>1 DEF KeysVouched, Sound, Past, Base, TypeOK
  <2>3. ASSUME thread' = [thread EXCEPT ![a] = "auth"], events' = events, Here(a) \in Cleared
        PROVE  Sound(a)'
    <3>1. thread'[a] = "auth" /\ events'[a] = events[a]
      BY <2>3 DEF Base, TypeOK
    <3>2. Here(a)' = Here(a) /\ (AllCleared(a) => AllCleared(a)')
      BY <1>1, <2>1, VouchedGrows DEF Here
    <3>3. Blocked(a)' /\ Waits(a)'
      BY <1>1, <1>5, <2>1, <3>1, <3>2 DEF Sound, Blocked, Waits
    <3>4. Past(a)'
      BY <1>1, <1>5, <2>1, <2>2, <2>3, <3>1, <3>2 DEF Sound, Past
    <3> QED
      BY <3>3, <3>4 DEF Sound
  <2>4. CASE exists /\ LookUp(a)
    <3>1. CASE /\ file[Here(a)] = "right"
               /\ thread' = [thread EXCEPT ![a] = "auth"] /\ events' = events
      <4>1. Here(a) \in Cleared
        BY <1>0, <1>5, <3>1 DEF KeysVouched
      <4>2. Sound(a)'
        BY <2>3, <3>1, <4>1
      <4> QED
        BY <1>3, <2>2, <4>2 DEF Trust
    <3>2. CASE Post(a, "HostVerify", "confirm")
      <4>1. Sound(a)'
        BY <1>1, <2>1, <2>2, <3>2, PostTrust DEF Kinds
      <4> QED
        BY <1>3, <2>2, <4>1 DEF Trust
    <3>3. CASE Post(a, "HostVerificationFailed", "gone")
      <4>1. Sound(a)'
        BY <1>1, <2>1, <2>2, <3>3, PostTrust DEF Kinds
      <4> QED
        BY <1>3, <2>2, <4>1 DEF Trust
    <3> QED
      BY <2>4, <3>1, <3>2, <3>3 DEF LookUp
  <2>5. CASE ~exists /\ thread' = [thread EXCEPT ![a] = "auth"] /\ events' = events
    <3>1. Here(a) \in Cleared
      BY <1>0, <2>5 DEF Cleared
    <3> QED
      BY <1>3, <2>2, <2>3, <2>5, <3>1 DEF Trust
  <2>6. CASE Post(a, "Error", "gone")
    <3>1. Sound(a)'
      BY <1>1, <2>1, <2>2, <2>6, PostTrust DEF Kinds
    <3> QED
      BY <1>3, <2>2, <3>1 DEF Trust
  <2> QED
    BY <1>7, <2>4, <2>5, <2>6 DEF ThreadVerifies
<1>8. CASE ThreadConfirmed(a)
  <2> DEFINE known == [snapshot[a] EXCEPT ![Here(a)] = "right"]
  <2>1. /\ thread[a] = "trusted" /\ hop' = hop
        /\ \A h \in Hosts : snapshot'[a][h] = "absent"
        /\ file' = known \/ file' \in {file} \cup PartOf(known)
    BY <1>8 DEF ThreadConfirmed, Forget, NoKeys, Base, TypeOK
  <2>2. \A h \in Hosts : known[h] = "right" => h \in Vouched
    <3>1. Here(a) \in Vouched /\ snapshot[a] \in [Hosts -> Entries]
      BY <1>5, <2>1 DEF Sound, Past, Base, TypeOK
    <3> QED
      BY <1>5, <3>1 DEF Sound, Past
  <2>3. KeysVouched'
    <3>1. ASSUME NEW f \in PartOf(known), NEW h \in Hosts, f[h] = "right" PROVE h \in Vouched
      <4>1. f[h] = known[h] \/ f[h] = "absent"
        BY <3>1 DEF PartOf
      <4> QED
        BY <2>2, <3>1, <4>1
    <3> QED
      BY <1>5, <2>1, <2>2, <3>1 DEF KeysVouched
  <2>4. Here(a)' = Here(a) /\ (AllCleared(a) => AllCleared(a)')
    BY <1>1, <2>1, VouchedGrows DEF Here
  <2>5. CASE thread' = [thread EXCEPT ![a] = "auth"] /\ events' = events
    <3>1. thread'[a] = "auth" /\ events'[a] = events[a]
      BY <2>5 DEF Base, TypeOK
    <3>2. Blocked(a)' /\ Waits(a)'
      BY <1>1, <1>5, <2>1, <2>4, <3>1 DEF Sound, Blocked, Waits
    <3>3. Past(a)'
      BY <1>1, <1>5, <2>1, <2>4, <3>1 DEF Sound, Past
    <3> QED
      BY <1>3, <2>3, <3>2, <3>3 DEF Trust, Sound
  <2>6. CASE Post(a, "Error", "gone")
    <3>1. Sound(a)'
      BY <1>1, <2>1, <2>6, PostTrust DEF Kinds
    <3> QED
      BY <1>3, <2>3, <3>1 DEF Trust
  <2> QED
    BY <1>8, <2>5, <2>6 DEF ThreadConfirmed
<1>9. CASE ThreadDeclined(a)
  <2>1. \A h \in Hosts : snapshot'[a][h] = "absent"
    BY <1>9 DEF ThreadDeclined, Forget, NoKeys, Base, TypeOK
  <2>2. Post(a, "Error", "gone") /\ thread[a] = "declined" /\ hop' = hop
    BY <1>9 DEF ThreadDeclined
  <2>3. Sound(a)'
    BY <1>1, <2>1, <2>2, PostTrust DEF Kinds
  <2>4. KeysVouched'
    BY <1>5, <1>9 DEF ThreadDeclined, KeysVouched, keyVars
  <2> QED
    BY <1>3, <2>3, <2>4 DEF Trust
<1>10. CASE ThreadAuthenticates(a)
  <2>1. /\ thread[a] = "auth" /\ snapshot' = snapshot /\ file' = file
        /\ Here(a) \in Cleared
        /\ \A h \in Hosts : snapshot'[a][h] = "right" => h \in Vouched
    BY <1>5, <1>10 DEF ThreadAuthenticates, Sound, Past, keyVars
  <2>2. KeysVouched'
    BY <1>5, <2>1 DEF KeysVouched
  <2>3. CASE /\ ~Last(a) /\ hop' = [hop EXCEPT ![a] = @ + 1]
             /\ thread' = [thread EXCEPT ![a] = "dial"] /\ events' = events
    <3>1. hop'[a] = hop[a] + 1 /\ thread'[a] = "dial" /\ events' = events
      BY <2>3 DEF Base, TypeOK
    <3>2. AllCleared(a) => AllCleared(a)'
      BY <1>1, VouchedGrows
    <3>3. Blocked(a)' /\ Waits(a)'
      BY <1>1, <1>5, <2>1, <3>1, <3>2 DEF Sound, Blocked, Waits
    <3>4. \A i \in 1..(hop'[a] - 1) : Route[of'[a]][i] \in Cleared'
      <4>1. \A i \in 1..(hop[a] - 1) : Route[of[a]][i] \in Cleared
        BY <1>0, <1>5 DEF Sound, Past
      <4> QED
        BY <1>1, <1>0, <1>5, <2>1, <3>1, <4>1
    <3>5. /\ phase'[a] \in {"pty", "connected", "opened"} => AllCleared(a)'
          /\ \A h \in Hosts : snapshot'[a][h] = "right" => h \in Vouched'
      BY <1>1, <1>5, <2>1, <3>2 DEF Sound, Past
    <3>6. Past(a)'
      BY <3>1, <3>4, <3>5 DEF Past
    <3> QED
      BY <1>3, <2>2, <3>3, <3>6 DEF Trust, Sound
  <2>4. CASE Last(a) /\ Post(a, "Authenticated", "up") /\ hop' = hop
    <3>1. AllCleared(a)
      <4>1. \A i \in 1..(hop[a] - 1) : Route[of[a]][i] \in Cleared
        BY <1>0, <1>5 DEF Sound, Past
      <4>2. hop[a] = Len(Route[of[a]])
        BY <2>4 DEF Last
      <4> QED
        BY <1>0, <1>5, <2>1, <4>1, <4>2 DEF AllCleared
    <3>2. Sound(a)'
      BY <1>1, <2>1, <2>4, <3>1, PostTrust DEF Kinds
    <3> QED
      BY <1>3, <2>2, <3>2 DEF Trust
  <2>5. CASE hop' = hop /\ \E e \in {"Password", "Question"} : Post(a, e, "answer")
    <3>1. Sound(a)'
      BY <1>1, <2>1, <2>5, PostTrust DEF Kinds
    <3> QED
      BY <1>3, <2>2, <3>1 DEF Trust
  <2>6. CASE hop' = hop /\ Post(a, "Error", "gone")
    <3>1. Sound(a)'
      BY <1>1, <2>1, <2>6, PostTrust DEF Kinds
    <3> QED
      BY <1>3, <2>2, <3>1 DEF Trust
  <2> QED
    BY <1>10, <2>3, <2>4, <2>5, <2>6 DEF ThreadAuthenticates
<1>11. CASE ThreadStops(a)
  <2>1. /\ thread'[a] = "gone" /\ thread[a] = "up" /\ phase[a] # "asking"
        /\ hop' = hop /\ events' = events /\ snapshot' = snapshot /\ file' = file
    BY <1>11 DEF ThreadStops, keyVars, Base, TypeOK
  <2>2. (AllCleared(a) => AllCleared(a)')
    BY <1>1, VouchedGrows
  <2>3. Sound(a)'
    BY <1>1, <1>5, <2>1, <2>2 DEF Sound, Blocked, Waits, Past
  <2>4. KeysVouched'
    BY <1>5, <2>1 DEF KeysVouched
  <2> QED
    BY <1>3, <2>3, <2>4 DEF Trust
<1> QED
  BY <1>6, <1>7, <1>8, <1>9, <1>10, <1>11 DEF SessionThread

\* The login: it passes trust on only when the answer it waited for says so,
\* and comes to a terminal only after a success.
LEMMA LoginTrust ==
  ASSUME Base, Trust, NEW a \in Attempts, Login(a) \/ PtyReturns(a) \/ Drain(a)
  PROVE  Trust'
<1> DEFINE Same == UNCHANGED <<of, hop, made, snapshot, exists, file, trusted>>
           Others == \A b \in Attempts \ {a} : /\ thread'[b] = thread[b] /\ events'[b] = events[b]
                                              /\ phase'[b] = phase[b] /\ reply'[b] = reply[b]
<1>1. Same
  BY DEF Login, GetBanner, GetHostVerify, GetPrompt, GetEnd, LoginTimesOut, GetDecision,
     QuestionTimesOut, Decide, PtyReturns, Drain, jobVars, threadVars, keyVars
<1>2. Others
  BY DEF Login, GetBanner, GetHostVerify, GetPrompt, GetEnd, LoginTimesOut, GetDecision,
     QuestionTimesOut, Decide, Answer, Received, PtyReturns, Drain, loginVars, threadVars, Base,
     TypeOK
<1>3. \A b \in Attempts \ {a} : Sound(b)'
  BY <1>1, <1>2, StillSound DEF Trust
<1>4. /\ Sound(a) /\ KeysVouched /\ Vouched' = Vouched /\ Here(a)' = Here(a)
      /\ Cleared' = Cleared /\ (AllCleared(a) => AllCleared(a)') /\ KeysVouched'
      /\ Vouched \subseteq Cleared
  <2>1. Vouched \subseteq Hosts
    BY DEF Vouched, Base, TypeOK
  <2> QED
    BY <1>1, <2>1, VouchedGrows DEF Trust, Vouched, Cleared, Here, KeysVouched
<1>5. SUFFICES Sound(a)'
  BY <1>3, <1>4 DEF Trust
\* What taking an event off the channel leaves.
<1>6. ASSUME events[a] # <<>>, events' = [events EXCEPT ![a] = Tail(@)]
      PROVE  /\ Head(events[a]) = events[a][1] /\ 1 \in DOMAIN events[a]
             /\ Len(events[a]) \in Nat /\ Len(events'[a]) = Len(events[a]) - 1
             /\ DOMAIN events'[a] = 1..(Len(events[a]) - 1)
             /\ \A i \in DOMAIN events'[a] :
                   i + 1 \in DOMAIN events[a] /\ events'[a][i] = events[a][i + 1]
             /\ thread'[a] = thread[a] => Blocked(a)'
             /\ Head(events[a]) \in {"HostVerify", "Password", "Question"} =>
                   DOMAIN events'[a] = {}
  <2>1. /\ Head(events[a]) = events[a][1] /\ 1 \in DOMAIN events[a]
        /\ Len(events[a]) \in Nat /\ Len(events'[a]) = Len(events[a]) - 1
        /\ DOMAIN events'[a] = 1..(Len(events[a]) - 1)
        /\ \A i \in DOMAIN events'[a] :
              i + 1 \in DOMAIN events[a] /\ events'[a][i] = events[a][i + 1]
    BY <1>6, TakeFacts DEF Base
  <2>2. Blocked(a)
    BY <1>4 DEF Sound
  <2>3. thread'[a] = thread[a] => Blocked(a)'
    BY <1>4, <2>1, <2>2 DEF Blocked
  <2>4. Head(events[a]) \in {"HostVerify", "Password", "Question"} => DOMAIN events'[a] = {}
    BY <2>1, <2>2 DEF Blocked
  <2> QED
    BY <2>1, <2>3, <2>4
<1>7. CASE GetBanner(a)
  <2>1. thread' = thread /\ phase' = phase /\ phase[a] = "login" /\ Blocked(a)'
    BY <1>6, <1>7 DEF GetBanner, Received
  <2> QED
    BY <1>1, <1>4, <2>1 DEF Sound, Waits, Past
<1>8. CASE GetHostVerify(a)
  <2>1. /\ thread' = thread /\ phase'[a] = "asking" /\ reply'[a] = "none" /\ Blocked(a)'
        /\ DOMAIN events'[a] = {}
    BY <1>6, <1>8 DEF GetHostVerify, Received, Base, TypeOK
  <2>2. thread[a] = "confirm"
    BY <1>4, <1>6, <1>8 DEF GetHostVerify, Received, Sound, Blocked
  <2>3. Waits(a)'
    BY <2>1, <2>2 DEF Waits
  <2>4. Past(a)'
    BY <1>1, <1>4, <2>1, <2>2 DEF Sound, Past
  <2> QED
    BY <2>1, <2>3, <2>4 DEF Sound
<1>9. CASE GetPrompt(a)
  <2>1. /\ thread'[a] = "auth" /\ phase'[a] \in {"login", "error"} /\ DOMAIN events'[a] = {}
    BY <1>6, <1>9 DEF GetPrompt, Received, Answer, Base, TypeOK
  <2>2. thread[a] = "answer"
    BY <1>4, <1>6, <1>9 DEF GetPrompt, Received, Sound, Blocked
  <2>3. Blocked(a)' /\ Waits(a)'
    BY <2>1 DEF Blocked, Waits
  <2>4. Past(a)'
    BY <1>1, <1>4, <2>1, <2>2 DEF Sound, Past
  <2> QED
    BY <2>3, <2>4 DEF Sound
<1>10. CASE GetEnd(a)
  <2>1. /\ thread' = thread /\ Blocked(a)' /\ phase'[a] \in {"error", "mismatch", "pty"}
        /\ phase'[a] = "pty" => Head(events[a]) = "Authenticated"
    BY <1>6, <1>10 DEF GetEnd, Received, Base, TypeOK
  <2>2. phase'[a] = "pty" => AllCleared(a)
    BY <1>4, <1>6, <1>10, <2>1 DEF GetEnd, Received, Sound, Blocked
  <2>3. Waits(a)'
    BY <2>1 DEF Waits
  <2>4. Past(a)'
    BY <1>1, <1>4, <2>1, <2>2 DEF Sound, Past
  <2> QED
    BY <2>1, <2>3, <2>4 DEF Sound
<1>11. CASE PtyReturns(a) \/ LoginTimesOut(a)
  <2>1. /\ thread' = thread /\ events' = events /\ phase'[a] \in {"connected", "error"}
        /\ phase'[a] = "connected" => phase[a] = "pty"
    BY <1>11 DEF PtyReturns, LoginTimesOut, threadVars, Base, TypeOK
  <2>2. Blocked(a)'
    BY <1>4, <2>1 DEF Sound, Blocked
  <2>3. Waits(a)'
    BY <2>1 DEF Waits
  <2>4. Past(a)'
    BY <1>1, <1>4, <2>1 DEF Sound, Past
  <2> QED
    BY <2>2, <2>3, <2>4 DEF Sound
<1>12. CASE GetDecision(a) \/ QuestionTimesOut(a)
  <2>1. /\ phase[a] = "asking" /\ events' = events /\ phase'[a] \in {"login", "error"}
        /\ thread'[a] \in {"trusted", "declined"}
        /\ thread'[a] = "trusted" => reply[a] = "trust"
    BY <1>12 DEF GetDecision, QuestionTimesOut, Decide, Base, TypeOK
  <2>2. DOMAIN events[a] = {} /\ (reply[a] = "trust" => Here(a) \in Vouched)
    BY <1>4, <2>1 DEF Sound, Waits, Vouched
  <2>3. Blocked(a)' /\ Waits(a)'
    BY <2>1, <2>2 DEF Blocked, Waits
  <2>4. Past(a)'
    BY <1>1, <1>4, <2>1, <2>2 DEF Sound, Past
  <2> QED
    BY <2>3, <2>4 DEF Sound
<1>13. CASE Drain(a)
  <2>1. /\ phase' = phase /\ phase[a] # "asking" /\ thread'[a] = Drained(Head(events[a]), thread[a])
        /\ events[a] # <<>> /\ events' = [events EXCEPT ![a] = Tail(@)]
    BY <1>13 DEF Drain, loginVars, Base, TypeOK
  <2>2. Waits(a)'
    BY <2>1 DEF Waits
  <2>3. CASE Head(events[a]) = "HostVerify"
    <3>1. thread'[a] = "declined" /\ DOMAIN events'[a] = {}
      BY <1>6, <2>1, <2>3 DEF Drained
    <3> QED
      BY <1>1, <1>4, <2>1, <2>2, <3>1 DEF Sound, Blocked, Past
  <2>4. CASE Head(events[a]) \in {"Password", "Question"}
    <3>1. thread'[a] = "auth" /\ DOMAIN events'[a] = {}
      BY <1>6, <2>1, <2>4 DEF Drained
    <3>2. thread[a] = "answer"
      BY <1>4, <1>6, <2>1, <2>4 DEF Sound, Blocked
    <3> QED
      BY <1>1, <1>4, <2>1, <2>2, <3>1, <3>2 DEF Sound, Blocked, Past
  <2>5. CASE Head(events[a]) \notin {"HostVerify", "Password", "Question"}
    <3>1. thread'[a] = thread[a]
      BY <2>1, <2>5 DEF Drained
    <3>2. Blocked(a)'
      BY <1>6, <2>1, <3>1
    <3> QED
      BY <1>1, <1>4, <2>1, <2>2, <3>1, <3>2 DEF Sound, Past
  <2> QED
    BY <2>3, <2>4, <2>5
<1> QED
  BY <1>7, <1>8, <1>9, <1>10, <1>11, <1>12, <1>13 DEF Login

\* The window and the user: an answer counts as trust while its login waits.
LEMMA WindowTrust ==
  ASSUME Base, Trust,
         \/ \E a \in Attempts : ShowQuestion(a) \/ Finish(a)
         \/ AnswerQuestion \/ CancelMismatch \/ RetryMismatch
  PROVE  Trust'
<1>1. ASSUME NEW a \in Attempts, ShowQuestion(a) \/ Finish(a) PROVE Trust'
  <2>1. UNCHANGED <<of, hop, made, reply, events, thread, snapshot, exists, file, trusted>>
    BY <1>1 DEF ShowQuestion, Finish, jobVars, threadVars, keyVars
  <2>2. \A b \in Attempts :
            /\ phase'[b] \in {"asking", "pty", "connected"} => phase'[b] = phase[b]
            /\ phase'[b] = "opened" => phase[b] \in {"opened", "connected"}
    <3>1. CASE ShowQuestion(a)
      BY <3>1 DEF ShowQuestion
    <3>2. CASE Finish(a)
      <4>1. /\ phase[a] \in Results /\ phase'[a] \in Ended
            /\ phase'[a] = "opened" => phase[a] = "connected"
            /\ \A b \in Attempts \ {a} : phase'[b] = phase[b]
        BY <3>2 DEF Finish, Results, Ended, Base, TypeOK
      <4> QED
        BY <4>1 DEF Ended
    <3> QED
      BY <1>1, <3>1, <3>2
  <2>3. \A b \in Attempts : Sound(b)'
    BY <2>1, <2>2, StillSound DEF Trust
  <2>4. KeysVouched'
    BY <2>1 DEF Trust, KeysVouched, Vouched
  <2> QED
    BY <2>3, <2>4 DEF Trust
<1>2. CASE AnswerQuestion
  <2>1. /\ UNCHANGED <<of, hop, made, phase, events, thread, snapshot, exists, file>>
        /\ trusted \subseteq trusted'
    BY <1>2 DEF AnswerQuestion, jobVars, threadVars
  <2>2. Top.attempt \in Attempts
    BY <1>2, CloseTopFacts DEF AnswerQuestion, Base
  <2>3. ASSUME NEW b \in Attempts, b # Top.attempt \/ phase[b] # "asking" PROVE Sound(b)'
    <3>1. reply'[b] = reply[b] \/ phase[b] # "asking"
      BY <1>2, <2>2, <2>3 DEF AnswerQuestion, Base, TypeOK
    <3> QED
      BY <2>1, <3>1, StillSound DEF Trust
  <2>4. ASSUME NEW b \in Attempts, b = Top.attempt, phase[b] = "asking" PROVE Sound(b)'
    <3>1. reply'[b] = "trust" => Here(b) \in trusted'
      BY <1>2, <2>4 DEF AnswerQuestion, Base, TypeOK
    <3>2. /\ Here(b)' = Here(b) /\ Vouched \subseteq Vouched' /\ Cleared \subseteq Cleared'
          /\ (AllCleared(b) => AllCleared(b)')
      BY <2>1, VouchedGrows DEF Here
    <3>3. Sound(b)
      BY DEF Trust
    <3>4. Blocked(b)'
      BY <2>1, <3>2, <3>3 DEF Sound, Blocked
    <3>5. Waits(b)'
      BY <2>1, <3>1, <3>2, <3>3 DEF Sound, Waits
    <3>6. Past(b)'
      BY <2>1, <3>2, <3>3 DEF Sound, Past
    <3> QED
      BY <3>4, <3>5, <3>6 DEF Sound
  <2>5. KeysVouched'
    BY <2>1, VouchedGrows DEF Trust, KeysVouched
  <2> QED
    BY <2>3, <2>4, <2>5 DEF Trust
<1>3. CASE CancelMismatch
  <2>1. UNCHANGED <<of, hop, made, phase, reply, events, thread, snapshot, exists, file, trusted>>
    BY <1>3 DEF CancelMismatch, OnMismatch, jobVars, loginVars, threadVars
  <2> QED
    BY <2>1, StillSound DEF Trust, KeysVouched, Vouched
<1>4. CASE RetryMismatch
  <2>1. of[Top.attempt] \in Sessions
    BY <1>4, CloseTopFacts DEF RetryMismatch, OnMismatch, Base, DialogsMade, Numbered, Top
  <2>2. StartAttempt(of[Top.attempt], FALSE, None) /\ trusted' = trusted /\ exists' = exists
    BY <1>4 DEF RetryMismatch, OnMismatch
  <2>3. \A a \in Attempts : Sound(a)'
    BY <2>1, <2>2, StartTrust
  <2>4. KeysVouched'
    BY <1>4, <2>2 DEF RetryMismatch, Trust, KeysVouched, Vouched, Base, TypeOK
  <2> QED
    BY <2>3, <2>4 DEF Trust
<1> QED
  BY <1>1, <1>2, <1>3, <1>4

\* Every step keeps what threads and the file hold within what was vouched for.
LEMMA NextTrust == Base /\ Trust /\ [Next]_vars => Trust'
<1> SUFFICES ASSUME Base, Trust, [Next]_vars PROVE Trust'
  OBVIOUS
<1>1. ASSUME NEW s \in Sessions, Sidebar(s) PROVE Trust'
  <2>1. file' = file /\ trusted' = trusted /\ exists' = exists
    BY <1>1 DEF Sidebar, Click, Delete, DeleteReturns, keyVars
  <2>2. CASE Click(s) /\ s \in stored \cap complete
    <3>1. StartAttempt(s, TRUE, None)
      BY <2>2 DEF Click, OpenSession
    <3>2. \A a \in Attempts : Sound(a)'
      BY <2>1, <3>1, StartTrust
    <3> QED
      BY <2>1, <3>2 DEF Trust, KeysVouched, Vouched
  <2>3. CASE (Click(s) /\ s \notin stored \cap complete) \/ Delete(s) \/ DeleteReturns(s)
    <3>1. UNCHANGED <<of, hop, made, phase, reply, events, thread, snapshot>>
      BY <2>3 DEF Click, OpenSession, Delete, DeleteReturns, jobVars, loginVars, threadVars
    <3> QED
      BY <2>1, <3>1, StillSound DEF Trust, KeysVouched, Vouched
  <2> QED
    BY <1>1, <2>2, <2>3 DEF Sidebar
<1>2. ASSUME NEW t \in Tabs, RestoreTab(t) \/ CloseTab(t) PROVE Trust'
  <2>1. file' = file /\ trusted' = trusted /\ exists' = exists
    BY <1>2 DEF RestoreTab, CloseTab, keyVars
  <2>2. CASE RestoreTab(t) /\ Restorable(t)
    <3>1. StartAttempt(Link[t], TRUE, t) /\ Link[t] \in Sessions
      BY <2>2 DEF RestoreTab, Restorable, Base, TypeOK
    <3>2. \A a \in Attempts : Sound(a)'
      BY <2>1, <3>1, StartTrust
    <3> QED
      BY <2>1, <3>2 DEF Trust, KeysVouched, Vouched
  <2>3. CASE (RestoreTab(t) /\ ~Restorable(t)) \/ CloseTab(t)
    <3>1. UNCHANGED <<of, hop, made, phase, reply, events, thread, snapshot>>
      BY <2>3 DEF RestoreTab, CloseTab, jobVars, loginVars, threadVars
    <3> QED
      BY <2>1, <3>1, StillSound DEF Trust, KeysVouched, Vouched
  <2> QED
    BY <1>2, <2>2, <2>3
<1>3. ASSUME NEW a \in Attempts, SessionThread(a) PROVE Trust'
  BY <1>3, ThreadTrust
<1>4. ASSUME NEW a \in Attempts, Login(a) \/ PtyReturns(a) \/ Drain(a) PROVE Trust'
  BY <1>4, LoginTrust
<1>5. CASE \/ \E a \in Attempts : ShowQuestion(a) \/ Finish(a)
           \/ AnswerQuestion \/ CancelMismatch \/ RetryMismatch
  BY <1>5, WindowTrust
<1>6. CASE UNCHANGED vars
  <2>1. UNCHANGED <<of, hop, made, phase, reply, events, thread, snapshot, exists, file, trusted>>
    BY <1>6 DEF vars, jobVars, loginVars, threadVars, keyVars
  <2> QED
    BY <2>1, StillSound DEF Trust, KeysVouched, Vouched
<1> QED
  BY <1>1, <1>2, <1>3, <1>4, <1>5, <1>6 DEF Next

\* Where every session thread and every login stand: with a known_hosts file
\* a thread is past the hosts vouched for and no others, and without one past
\* any; what it has read and is about to write are keys vouched for.
THEOREM TrustFollowed == Spec => []Trust
<1> QED
  BY InitTrust, NextTrust, AttemptsNumbered, PTL DEF Spec

\* Where there is a known_hosts file no key enters it, and no terminal opens
\* through a host, that the user did not trust while the question was open.
\* Without a file the program asks nobody.
THEOREM NoSilentTrust == Spec => []TrustIsAsked
<1>1. ASSUME Trust, exists
      PROVE  /\ \A h \in Hosts : file[h] = "right" => h \in Vouched
             /\ \A a \in Attempts : phase[a] \in {"connected", "opened"} => AllVouched(a)
  <2>1. Cleared = Vouched
    BY <1>1 DEF Cleared
  <2>2. \A a \in Attempts : phase[a] \in {"connected", "opened"} => AllCleared(a)
    BY <1>1 DEF Trust, Sound, Past
  <2> QED
    BY <1>1, <2>1, <2>2 DEF Trust, KeysVouched, AllCleared, AllVouched
<1>2. Trust => TrustIsAsked
  BY <1>1 DEF TrustIsAsked
<1> QED
  BY <1>2, TrustFollowed, PTL
=============================================================================
