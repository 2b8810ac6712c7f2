-------------------------- MODULE DropUploadProofs --------------------------
(***************************************************************************)
(* Files dropped on a terminal, for any number of drops, files and chunks, *)
(* any names in use on the server and any suffixes, and whatever the       *)
(* permit pool does.                                                       *)
(*                                                                         *)
(* The word that ends a file passes from its worker to the drop's channel, *)
(* from there to the terminal's events and from these to its row.  The     *)
(* invariant follows it: Channels says what a queue holds of a file by     *)
(* where its worker is, EventsTrue and RowsTrue what an event and a row    *)
(* say by whether the loop heard the end, and WrittenOut that whoever      *)
(* claims the file was uploaded, at any of these places, is right.         *)
(***************************************************************************)
EXTENDS DropUpload, FiniteSetTheorems, SequenceTheorems, WellFoundedInduction, TLAPS

\* Where a worker is: before its copy loop, in it, or done.
Before == {"waiting", "spawned", "acquiring", "opening"}
Copying == {"reading", "writing", "removing"}
Over == {"returning", "gone"}
Phases == Before \cup Copying \cup Over
Stages == {"none", "resolving", "planning", "running", "over"}

\* A drop's messages, and the terminal's events: those of files and notices.
Kinds == Verdicts \cup {"Progress"}
Messages == [kind : Kinds, file : Files, sent : Nat]
Notices == [kind : {"Aborted", "Complete"}, drop : Drops, count : Nat]
Events == Messages \cup Notices
IsFile(e) == e.kind \in Kinds

\* What a queue of messages tells of a file: nothing, progress only, or its
\* verdict after any progress and nothing behind it.
Silent(q, f) == \A i \in DOMAIN q : q[i].file # f
Talking(q, f) == \A i \in DOMAIN q : q[i].file = f => q[i].kind = "Progress"
Ended(q, f) ==
    \E i \in DOMAIN q :
        /\ q[i].file = f /\ q[i].kind \in Verdicts
        /\ \A j \in DOMAIN q : q[j].file = f /\ j # i => j < i /\ q[j].kind = "Progress"

\* The loop of f's drop received its verdict.
Heard(f) == phase[f] \in Over /\ Silent(chan[Of[f]], f)
\* Workers started whose end the loop does not know.
AtLarge(b) == {f \in Members(b) : phase[f] # "waiting" /\ ~Heard(f)}
AllWaiting(b) == \A f \in Members(b) : phase[f] = "waiting"
\* The row of f should show it in progress.
Owed(f) == \/ stage[Of[f]] \in {"resolving", "planning"}
           \/ stage[Of[f]] = "running" /\ ~Heard(f)
Running(f) == f \in DOMAIN tasks /\ tasks[f].status = "InProgress"
UnderWay == {b \in Drops : stage[b] \notin {"none", "over"}}

(***************************************************************************)
(* The inductive invariant.                                                *)
(***************************************************************************)
Typed ==
    /\ stage \in [Drops -> Stages] /\ probe \in [Drops -> Names]
    /\ name \in [Files -> Names \cup {Absent}]
    /\ active \in [Drops -> Nat] /\ uploaded \in [Drops -> SUBSET Files]
    /\ phase \in [Files -> Phases] /\ sent \in [Files -> Nat]
    /\ chan \in [Drops -> Seq(Messages)]
    /\ entry \in [Names -> Files \cup {Absent, Foreign}]
    /\ handle \in [Files -> Files \cup {Absent}] /\ DOMAIN data = Files \cup {Foreign}
    /\ timers \subseteq Files /\ alive \in BOOLEAN
    /\ emitted \in Seq(Events) /\ told \in [Drops -> SUBSET Notices]
    /\ DOMAIN tasks \subseteq Files /\ retired \subseteq Files

\* Names are planned before workers start; a drop that plans has a file left and
\* asks about a name it has not reserved; a drop that runs counts its workers;
\* one that is over has heard them all, or never started any.
Staged ==
    /\ \A f \in Files :
          /\ stage[Of[f]] \in {"none", "resolving"} => name[f] = Absent
          /\ stage[Of[f]] \in {"none", "resolving", "planning"} => phase[f] = "waiting"
          /\ stage[Of[f]] = "running" \/ phase[f] # "waiting" => name[f] # Absent
    /\ \A b \in Drops :
          /\ stage[b] = "planning" => Unplanned(b) # {} /\ probe[b] \notin Reserved(b, name)
          /\ stage[b] = "running" => active[b] = Cardinality(AtLarge(b))
          /\ stage[b] = "over" => AllWaiting(b) \/ \A f \in Members(b) : Heard(f)

\* A drop's names are distinct; a file of a drop stands under its name only; and
\* a worker's handle is of a file planned under the same name.
Served ==
    /\ \A f, g \in Files : f # g /\ Of[f] = Of[g] /\ name[f] = name[g] => name[f] = Absent
    /\ \A k \in Names :
          /\ entry[k] \in Files => name[entry[k]] = k
          /\ entry[k] = Foreign => \A f \in Files : name[f] # k
    /\ \A f \in Files :
          /\ handle[f] # Absent => name[f] # Absent /\ name[handle[f]] = name[f]
          /\ phase[f] \in Copying => handle[f] # Absent

\* A channel carries its own drop's messages; a worker sends one verdict, as its
\* last word.
Channels ==
    /\ \A b \in Drops : \A i \in DOMAIN chan[b] : Of[chan[b][i].file] = b
    /\ \A f \in Files :
          /\ phase[f] \in Before => Silent(chan[Of[f]], f)
          /\ phase[f] \in Copying => Talking(chan[Of[f]], f)
          /\ phase[f] \in Over => Silent(chan[Of[f]], f) \/ Ended(chan[Of[f]], f)

\* Somebody says that f was uploaded: its worker, an event, the loop or the row.
Sending(f) ==
    \E i \in DOMAIN chan[Of[f]] : chan[Of[f]][i].file = f /\ chan[Of[f]][i].kind = "Finished"
Claimed(f) ==
    \/ f \in uploaded[Of[f]] \/ Sending(f)
    \/ \E i \in DOMAIN emitted : emitted[i].kind = "Finished" /\ emitted[i].file = f
    \/ f \in DOMAIN tasks /\ tasks[f].status = "Finished"

\* The server has what the worker wrote, as long as no other drop interferes.
Intact(f) == entry[name[f]] = f /\ data[f] = [i \in 1..sent[f] |-> f]

FileWritten(f) ==
    /\ phase[f] \in Before => sent[f] = 0
    /\ phase[f] \in Copying => sent[f] <= Chunks[f]
    /\ phase[f] = "writing" => sent[f] < Chunks[f]
    /\ Claimed(f) => phase[f] \in Over /\ sent[f] = Chunks[f]
    /\ Undisputed(f) /\ (phase[f] \in Copying \/ Claimed(f)) => Intact(f)
    /\ Undisputed(f) /\ phase[f] \in Copying => handle[f] = f

WrittenOut == \A f \in Files : FileWritten(f)

\* A notice counts what the loop counted, once the drop is over.
NoticeTrue(e) ==
    /\ stage[e.drop] = "over"
    /\ e.kind = "Complete" => e.count = Cardinality(uploaded[e.drop])
    /\ e.kind = "Aborted" => AllWaiting(e.drop)

ToldTrue ==
    /\ \A b \in Drops : \A f \in uploaded[b] : Of[f] = b /\ Heard(f)
    /\ \A b \in Drops : \A e \in told[b] : e.drop = b /\ NoticeTrue(e)
    /\ \A i \in DOMAIN emitted : ~IsFile(emitted[i]) => NoticeTrue(emitted[i])

\* An event about a file is progress if the file is under way and its end if
\* that was heard, of a file whose row was not dismissed, and the only one about
\* it; a drop is given up in an update of its own.
EventTrue(e) ==
    /\ e.file \notin retired /\ e.kind # "Failed"
    /\ e.kind = "Progress" <=> Owed(e.file)
    /\ e.kind # "Progress" => Heard(e.file)

EventsTrue ==
    /\ \A i \in DOMAIN emitted : IsFile(emitted[i]) => EventTrue(emitted[i])
    /\ \A i, j \in DOMAIN emitted :
          IsFile(emitted[i]) /\ IsFile(emitted[j]) /\ i # j => emitted[i].file # emitted[j].file
    /\ \A i \in DOMAIN emitted : emitted[i].kind = "Aborted" => DOMAIN emitted = {1}
    /\ ~alive => emitted = <<>>

\* No event not yet handled will change the row of f.
Settled(f) ==
    \A i \in DOMAIN emitted :
        /\ IsFile(emitted[i]) => emitted[i].file # f
        /\ emitted[i].kind = "Aborted" => emitted[i].drop # Of[f]

\* Rows are found under their drop.
Indexed ==
    /\ \A f \in DOMAIN tasks :
          tasks[f].id = f /\ tasks[f].group = Of[f] /\ Of[f] \in DOMAIN groupTasks
    /\ \A b \in DOMAIN groupTasks : groupTasks[b] = {f \in DOMAIN tasks : Of[f] = b}

\* A timer or a removal follows the end of the file or of its drop; and but for
\* events on their way, the rows in progress are those owed.
RowsTrue ==
    /\ Indexed
    /\ \A f \in timers : Heard(f)
    /\ \A f \in retired : Heard(f) \/ stage[Of[f]] = "over"
    /\ alive => \A f \in Files : Settled(f) => (Running(f) <=> Owed(f))

Counted == alive => IsFiniteSet(UnderWay) /\ running = Cardinality(UnderWay)

DInv == /\ Typed /\ Staged /\ Served /\ Channels /\ WrittenOut
        /\ ToldTrue /\ EventsTrue /\ RowsTrue /\ Counted

-----------------------------------------------------------------------------
(***************************************************************************)
(* Facts of the plan, of names and of queues of messages.                  *)
(***************************************************************************)

\* Every file belongs to the one drop that has it, at one place of its plan, and
\* a drop has finitely many.
LEMMA Planned ==
  /\ \A b \in Drops : Members(b) \subseteq Files /\ IsFiniteSet(Members(b))
  /\ \A f \in Files : Of[f] \in Drops /\ f \in Members(Of[f])
  /\ \A b \in Drops : \A f \in Files : f \in Members(b) <=> Of[f] = b
  /\ \A f \in Files : Chunks[f] \in Nat
<1>1. ASSUME NEW b \in Drops PROVE Members(b) \subseteq Files /\ IsFiniteSet(Members(b))
  <2>1. Plan[b] \in Seq(Files) BY DropAssumption
  <2>2. \A i \in DOMAIN Plan[b] : Plan[b][i] \in Files BY <2>1, ElementOfSeq, LenProperties
  <2>3. Members(b) \in SUBSET Files BY <2>2 DEF Members
  <2> QED BY <2>3, DropAssumption, FS_Subset
<1>2. ASSUME NEW f \in Files PROVE Of[f] \in Drops /\ f \in Members(Of[f])
  <2>1. \E b \in Drops : f \in Members(b) BY DropAssumption DEF Members
  <2>2. Of[f] = CHOOSE b \in Drops : f \in Members(b) BY DEF Of
  <2> QED BY <2>1, <2>2
<1>3. ASSUME NEW b \in Drops, NEW f \in Files, f \in Members(b) PROVE Of[f] = b
  <2>1. PICK i \in DOMAIN Plan[b] : Plan[b][i] = f BY <1>3 DEF Members
  <2>2. PICK j \in DOMAIN Plan[Of[f]] : Plan[Of[f]][j] = f BY <1>2 DEF Members
  <2>3. Of[f] \in Drops BY <1>2
  <2> QED BY <2>1, <2>2, <2>3, DropAssumption
<1> QED BY <1>1, <1>2, <1>3, DropAssumption

\* No file is mistaken for another mark.
LEMMA Marks == Absent \notin Files /\ Absent \notin Nat /\ Absent # Foreign /\ Foreign \notin Files
BY DropAssumption

\* Every file has its place in the plan of its drop.
LEMMA Places ==
  ASSUME NEW f \in Files
  PROVE  /\ Index[f] \in DOMAIN Plan[Of[f]] /\ Plan[Of[f]][Index[f]] = f
         /\ Index[f] \in Nat
<1>1. \E i \in DOMAIN Plan[Of[f]] : Plan[Of[f]][i] = f BY Planned DEF Members
<1>2. Index[f] = CHOOSE i \in DOMAIN Plan[Of[f]] : Plan[Of[f]][i] = f BY DEF Index
<1>3. Index[f] \in DOMAIN Plan[Of[f]] /\ Plan[Of[f]][Index[f]] = f BY <1>1, <1>2
<1>4. Plan[Of[f]] \in Seq(Files) BY Planned, DropAssumption
<1> QED BY <1>3, <1>4, LenProperties

\* A set of numbers that is not empty has a least one.
LEMMA LeastNumber ==
  ASSUME NEW S \in SUBSET Nat, S # {}
  PROVE  \E x \in S : \A y \in S : x <= y
<1> DEFINE R == {ss \in Nat \X Nat : ss[1] < ss[2]}
<1>1. IsWellFoundedOn(R, Nat) BY NatLessThanWellFounded DEF OpToRel
<1>2. \A x, y \in Nat : ~(x <= y) => <<y, x>> \in R OBVIOUS
<1> HIDE DEF R
<1>3. PICK x \in S : \A y \in S : <<y, x>> \notin R BY <1>1, WFMin
<1> QED BY <1>2, <1>3

\* The file planned next is one that has no name yet.
LEMMA NextIsUnplanned ==
  ASSUME NEW b \in Drops, Unplanned(b) # {}
  PROVE  NextFile(b) \in Unplanned(b)
<1>1. Unplanned(b) \subseteq Files BY Planned DEF Unplanned
<1> DEFINE S == {Index[f] : f \in Unplanned(b)}
<1>2. S \in SUBSET Nat /\ S # {} BY <1>1, Places
<1>3. PICK x \in S : \A y \in S : x <= y
  <2> HIDE DEF S
  <2> QED BY <1>2, LeastNumber
<1>4. PICK f \in Unplanned(b) : x = Index[f] BY <1>3
<1>5. \A g \in Unplanned(b) : Index[f] <= Index[g] BY <1>3, <1>4
<1> QED BY <1>5 DEF NextFile

\* Among one more numbers than there are files, one is not reserved; the first
\* such is a name.
LEMMA UnreservedIs ==
  ASSUME NEW b \in Drops, NEW names, NEW k \in 0..MaxSuffix
  PROVE  Unreserved(b, names, k) \in Names /\ Unreserved(b, names, k) \notin Reserved(b, names)
<1> DEFINE n == Cardinality(Files)
           room == k..(k + n)
           S == {j \in room : j \notin Reserved(b, names)}
<1>1. n \in Nat /\ MaxSuffix \in Nat BY DropAssumption, FS_CardinalityType
<1>2. S # {}
  <2> SUFFICES ASSUME room \subseteq Reserved(b, names) PROVE FALSE OBVIOUS
  <2> DEFINE owner == [j \in room |-> CHOOSE f \in Members(b) : names[f] = j]
  <2>1. \A j \in room : \E f \in Members(b) : names[f] = j BY DEF Reserved
  <2>2. \A j \in room : owner[j] \in Members(b) /\ names[owner[j]] = j BY <2>1
  <2>3. owner \in [room -> Files] BY <2>2, Planned
  <2>4. IsFiniteSet(room) /\ Cardinality(room) = n + 1
    <3>1. k \in Int /\ k + n \in Int /\ ~(k > k + n) /\ (k + n) - k + 1 = n + 1 BY <1>1
    <3> HIDE DEF n
    <3> QED BY <3>1, FS_Interval
  <2>5. n < Cardinality(room) BY <1>1, <2>4
  <2>6. \E x, y \in room : x # y /\ owner[x] = owner[y]
    <3> HIDE DEF room, owner
    <3> QED BY <2>3, <2>4, <2>5, DropAssumption, FS_PigeonHole
  <2> QED BY <2>2, <2>6
<1>3. S \in SUBSET Nat BY <1>1
<1>4. PICK j \in S : \A i \in S : j <= i
  <2> HIDE DEF S
  <2> QED BY <1>2, <1>3, LeastNumber
<1>5. /\ j \in k..(k + Cardinality(Files)) /\ j \notin Reserved(b, names)
      /\ \A i \in k..(j - 1) : i \in Reserved(b, names)
  BY <1>1, <1>4
<1>6. /\ Unreserved(b, names, k) \in k..(k + Cardinality(Files))
      /\ Unreserved(b, names, k) \notin Reserved(b, names)
  BY <1>5 DEF Unreserved
<1> QED BY <1>1, <1>6 DEF Names

\* Where the entries of two queues are after one is put behind the other.
LEMMA Concats ==
  ASSUME NEW q \in Seq(Messages), NEW msgs \in Seq(Messages)
  PROVE  LET r == q \o msgs IN
         /\ r \in Seq(Messages)
         /\ \A i \in DOMAIN r : i \in Nat /\ (i \in DOMAIN q \/ i - Len(q) \in DOMAIN msgs)
         /\ \A i \in DOMAIN q : i \in DOMAIN r /\ r[i] = q[i] /\ i \in Nat /\ i <= Len(q)
         /\ \A i \in DOMAIN msgs :
               i \in Nat /\ i > 0 /\ Len(q) + i \in DOMAIN r /\ r[Len(q) + i] = msgs[i]
         /\ Len(q) \in Nat
<1>1. /\ DOMAIN q = 1..Len(q) /\ DOMAIN msgs = 1..Len(msgs) /\ Len(q) \in Nat /\ Len(msgs) \in Nat
  BY LenProperties
<1>2. /\ q \o msgs \in Seq(Messages) /\ Len(q \o msgs) = Len(q) + Len(msgs)
      /\ \A i \in 1 .. Len(q) + Len(msgs) : (q \o msgs)[i] =
           IF i <= Len(q) THEN q[i] ELSE msgs[i - Len(q)]
  BY ConcatProperties
<1>3. DOMAIN (q \o msgs) = 1..(Len(q) + Len(msgs)) BY <1>1, <1>2, LenProperties
<1> DEFINE r == q \o msgs
<1> HIDE DEF r
<1>4. \A i \in DOMAIN r : i \in Nat /\ (i \in DOMAIN q \/ i - Len(q) \in DOMAIN msgs)
  BY <1>1, <1>3 DEF r
<1>5. \A i \in DOMAIN q : i \in DOMAIN r /\ r[i] = q[i] /\ i \in Nat /\ i <= Len(q)
  BY <1>1, <1>2, <1>3 DEF r
<1>6. ASSUME NEW i \in DOMAIN msgs
      PROVE  i \in Nat /\ i > 0 /\ Len(q) + i \in DOMAIN r /\ r[Len(q) + i] = msgs[i]
  <2>1. i \in Nat /\ i > 0 /\ i <= Len(msgs) BY <1>1
  <2>2. /\ Len(q) + i \in 1..(Len(q) + Len(msgs))
        /\ ~(Len(q) + i <= Len(q)) /\ (Len(q) + i) - Len(q) = i
    BY <1>1, <2>1
  <2> QED BY <1>2, <1>3, <2>1, <2>2 DEF r
<1> QED BY <1>1, <1>2, <1>4, <1>5, <1>6 DEF r

\* What one worker sends changes nothing that the queue tells of another file.
LEMMA OthersUnheard ==
  ASSUME NEW q \in Seq(Messages), NEW msgs \in Seq(Messages), NEW f, NEW g,
         \A i \in DOMAIN msgs : msgs[i].file = f, g # f
  PROVE  /\ Silent(q \o msgs, g) <=> Silent(q, g)
         /\ Talking(q, g) => Talking(q \o msgs, g)
         /\ Ended(q, g) => Ended(q \o msgs, g)
<1> DEFINE r == q \o msgs
<1>1. /\ \A i \in DOMAIN q : i \in DOMAIN r /\ r[i] = q[i]
      /\ \A i \in DOMAIN r : i \in Nat /\ (i \in DOMAIN q \/ i - Len(q) \in DOMAIN msgs)
      /\ \A i \in DOMAIN msgs : i \in Nat /\ r[Len(q) + i] = msgs[i]
      /\ Len(q) \in Nat
  BY Concats
<1> HIDE DEF r
<1>2. \A i \in DOMAIN r : r[i].file = g => i \in DOMAIN q
  <2> SUFFICES ASSUME NEW i \in DOMAIN r, i \notin DOMAIN q PROVE r[i].file = f OBVIOUS
  <2>1. i - Len(q) \in DOMAIN msgs /\ i = Len(q) + (i - Len(q)) BY <1>1
  <2> QED BY <1>1, <2>1
<1>3. Silent(r, g) <=> Silent(q, g) BY <1>1, <1>2 DEF Silent
<1>4. Talking(q, g) => Talking(r, g) BY <1>1, <1>2 DEF Talking
<1>5. Ended(q, g) => Ended(r, g)
  <2> SUFFICES ASSUME NEW i \in DOMAIN q, q[i].file = g, q[i].kind \in Verdicts,
                      \A j \in DOMAIN q : q[j].file = g /\ j # i => j < i /\ q[j].kind = "Progress"
               PROVE  Ended(r, g)
    BY DEF Ended
  <2>1. i \in DOMAIN r /\ r[i] = q[i] BY <1>1
  <2>2. \A j \in DOMAIN r : r[j].file = g /\ j # i => j < i /\ r[j].kind = "Progress"
    BY <1>1, <1>2
  <2> QED BY <2>1, <2>2 DEF Ended
<1> QED BY <1>3, <1>4, <1>5 DEF r

\* A worker that told progress so far tells progress or ends, as the messages
\* it sends do.
LEMMA SpeaksOn ==
  ASSUME NEW q \in Seq(Messages), NEW msgs \in Seq(Messages), NEW f,
         \A i \in DOMAIN msgs : msgs[i].file = f, Talking(q, f)
  PROVE  /\ Talking(msgs, f) => Talking(q \o msgs, f)
         /\ Ended(msgs, f) => Ended(q \o msgs, f)
<1> DEFINE r == q \o msgs
<1>1. /\ \A i \in DOMAIN q : i \in DOMAIN r /\ r[i] = q[i] /\ i \in Nat /\ i <= Len(q)
      /\ \A i \in DOMAIN r : i \in Nat /\ (i \in DOMAIN q \/ i - Len(q) \in DOMAIN msgs)
      /\ \A i \in DOMAIN msgs :
               i \in Nat /\ i > 0 /\ Len(q) + i \in DOMAIN r /\ r[Len(q) + i] = msgs[i]
      /\ Len(q) \in Nat
  BY Concats
<1> HIDE DEF r
<1>2. \A i \in DOMAIN r : i \notin DOMAIN q =>
        i - Len(q) \in DOMAIN msgs /\ r[i] = msgs[i - Len(q)]
  <2> SUFFICES ASSUME NEW i \in DOMAIN r, i \notin DOMAIN q
               PROVE  i - Len(q) \in DOMAIN msgs /\ r[i] = msgs[i - Len(q)]
    OBVIOUS
  <2>1. i - Len(q) \in DOMAIN msgs /\ i = Len(q) + (i - Len(q)) BY <1>1
  <2> QED BY <1>1, <2>1
<1>3. Talking(msgs, f) => Talking(r, f) BY <1>1, <1>2 DEF Talking
<1>4. Ended(msgs, f) => Ended(r, f)
  <2> SUFFICES ASSUME NEW i \in DOMAIN msgs, msgs[i].file = f, msgs[i].kind \in Verdicts,
                      \A j \in DOMAIN msgs : msgs[j].file = f /\ j # i =>
                            j < i /\ msgs[j].kind = "Progress"
               PROVE  Ended(r, f)
    BY DEF Ended
  <2> DEFINE k == Len(q) + i
  <2>1. k \in DOMAIN r /\ r[k] = msgs[i] /\ k \in Nat /\ k > Len(q) BY <1>1
  <2>2. ASSUME NEW j \in DOMAIN r, r[j].file = f, j # k PROVE j < k /\ r[j].kind = "Progress"
    <3>1. CASE j \in DOMAIN q BY <1>1, <2>1, <2>2, <3>1 DEF Talking
    <3>2. CASE j \notin DOMAIN q
      <4>1. j - Len(q) \in DOMAIN msgs /\ r[j] = msgs[j - Len(q)] BY <1>2, <3>2
      <4>2. j \in Nat /\ i \in Nat BY <1>1
      <4>3. j - Len(q) # i BY <1>1, <2>2, <4>2
      <4>4. j - Len(q) < i /\ msgs[j - Len(q)].kind = "Progress" BY <2>2, <4>1, <4>3
      <4> QED BY <1>1, <4>1, <4>2, <4>4
    <3> QED BY <3>1, <3>2
  <2> HIDE DEF k
  <2> QED BY <2>1, <2>2 DEF Ended
<1> QED BY <1>3, <1>4 DEF r

\* Where the entries of a queue are once its head is received.
LEMMA Tails ==
  ASSUME NEW S, NEW q \in Seq(S), q # <<>>
  PROVE  /\ Tail(q) \in Seq(S) /\ Head(q) \in S
         /\ 1 \in DOMAIN q /\ Head(q) = q[1]
         /\ \A i \in DOMAIN Tail(q) :
               i \in Nat /\ i >= 1 /\ i + 1 \in DOMAIN q /\ Tail(q)[i] = q[i + 1]
         /\ \A i \in DOMAIN q :
               i \in Nat /\ i >= 1 /\ (i = 1 \/ (i - 1 \in DOMAIN Tail(q) /\ Tail(q)[i - 1] = q[i]))
<1> DEFINE t == Tail(q)
<1>1. /\ Head(q) \in S /\ t \in Seq(S) /\ Len(t) = Len(q) - 1
      /\ \A i \in 1..Len(t) : t[i] = q[i + 1]
  BY HeadTailProperties
<1>2. DOMAIN q = 1..Len(q) /\ DOMAIN t = 1..Len(t) /\ Len(q) \in Nat /\ Len(t) \in Nat
  BY <1>1, LenProperties
<1>3. Head(q) = q[1] OBVIOUS
<1> HIDE DEF t
<1>4. 1 \in DOMAIN q BY <1>1, <1>2
<1>5. ASSUME NEW i \in DOMAIN t PROVE i \in Nat /\ i >= 1 /\ i + 1 \in DOMAIN q /\ t[i] = q[i + 1]
  BY <1>1, <1>2
<1>6. ASSUME NEW i \in DOMAIN q, i # 1
      PROVE  i \in Nat /\ i >= 1 /\ i - 1 \in DOMAIN t /\ t[i - 1] = q[i]
  <2>1. i - 1 \in 1..Len(t) /\ (i - 1) + 1 = i BY <1>1, <1>2, <1>6
  <2> QED BY <1>1, <1>2, <2>1
<1> QED BY <1>1, <1>3, <1>4, <1>5, <1>6 DEF t

\* Receiving the head keeps what the queue tells of every file; the verdict of a
\* file is the last that is heard of it.
LEMMA TailKeeps ==
  ASSUME NEW q \in Seq(Messages), q # <<>>, NEW g
  PROVE  /\ Silent(q, g) => Silent(Tail(q), g)
         /\ Talking(q, g) => Talking(Tail(q), g)
         /\ Head(q).file # g /\ Silent(Tail(q), g) => Silent(q, g)
         /\ Ended(q, g) /\ (Head(q).file # g \/ Head(q).kind \notin Verdicts) => Ended(Tail(q), g)
         /\ Ended(q, g) /\ Head(q).file = g /\ Head(q).kind \in Verdicts => Silent(Tail(q), g)
<1> DEFINE t == Tail(q)
<1>1. /\ 1 \in DOMAIN q /\ Head(q) = q[1]
      /\ \A i \in DOMAIN t : i \in Nat /\ i >= 1 /\ i + 1 \in DOMAIN q /\ t[i] = q[i + 1]
      /\ \A i \in DOMAIN q :
            i \in Nat /\ i >= 1 /\ (i = 1 \/ (i - 1 \in DOMAIN t /\ t[i - 1] = q[i]))
  BY Tails
<1> HIDE DEF t
<1>2. Silent(q, g) => Silent(t, g) BY <1>1 DEF Silent
<1>3. Talking(q, g) => Talking(t, g) BY <1>1 DEF Talking
<1>4. Head(q).file # g /\ Silent(t, g) => Silent(q, g)
  <2> SUFFICES ASSUME q[1].file # g, Silent(t, g), NEW i \in DOMAIN q PROVE q[i].file # g
    BY <1>1 DEF Silent
  <2>1. i = 1 \/ (i - 1 \in DOMAIN t /\ t[i - 1] = q[i]) BY <1>1
  <2> QED BY <2>1 DEF Silent
<1>5. ASSUME Ended(q, g), q[1].file # g \/ q[1].kind \notin Verdicts PROVE Ended(t, g)
  <2>1. PICK i \in DOMAIN q : /\ q[i].file = g /\ q[i].kind \in Verdicts
                              /\ \A j \in DOMAIN q : q[j].file = g /\ j # i =>
                                    j < i /\ q[j].kind = "Progress"
    BY <1>5 DEF Ended
  <2>2. i # 1 BY <1>5, <2>1
  <2> DEFINE k == i - 1
  <2>3. i \in Nat /\ k \in DOMAIN t /\ t[k] = q[i] BY <1>1, <2>2
  <2>4. ASSUME NEW j \in DOMAIN t, t[j].file = g, j # k PROVE j < k /\ t[j].kind = "Progress"
    <3>1. j \in Nat /\ j + 1 \in DOMAIN q /\ t[j] = q[j + 1] BY <1>1
    <3>2. j + 1 # i BY <2>3, <2>4, <3>1
    <3>3. j + 1 < i /\ q[j + 1].kind = "Progress" BY <2>1, <2>4, <3>1, <3>2
    <3> QED BY <2>3, <3>1, <3>3
  <2> HIDE DEF k
  <2> QED BY <2>1, <2>3, <2>4 DEF Ended
<1>6. ASSUME Ended(q, g), q[1].file = g, q[1].kind \in Verdicts PROVE Silent(t, g)
  <2>1. PICK i \in DOMAIN q : /\ q[i].file = g /\ q[i].kind \in Verdicts
                              /\ \A j \in DOMAIN q : q[j].file = g /\ j # i =>
                                    j < i /\ q[j].kind = "Progress"
    BY <1>6 DEF Ended
  <2>2. "Progress" \notin Verdicts BY DEF Verdicts
  <2>3. i = 1 BY <1>1, <1>6, <2>1, <2>2
  <2> SUFFICES ASSUME NEW j \in DOMAIN t, t[j].file = g PROVE FALSE BY DEF Silent
  <2>4. j \in Nat /\ j >= 1 /\ j + 1 \in DOMAIN q /\ q[j + 1].file = g BY <1>1
  <2> QED BY <2>1, <2>3, <2>4
<1> QED BY <1>1, <1>2, <1>3, <1>4, <1>5, <1>6 DEF t

\* A queue with a verdict of a file is neither silent of it nor mere progress.
LEMMA EndedSpoke == ASSUME NEW q, NEW f, Ended(q, f) PROVE ~Silent(q, f) /\ ~Talking(q, f)
BY DEF Ended, Silent, Talking, Verdicts

\* A queue of one message.
LEMMA OneMessage ==
  ASSUME NEW m \in Messages
  PROVE  <<m>> \in Seq(Messages) /\ DOMAIN <<m>> = {1} /\ <<m>>[1] = m
<1>1. <<m>> \in Seq(Messages) /\ <<m>>[1] = m OBVIOUS
<1>2. Len(<<m>>) = 1 OBVIOUS
<1> QED BY <1>1, <1>2, LenProperties

\* A queue of two messages.
LEMMA TwoMessages ==
  ASSUME NEW m \in Messages, NEW n \in Messages
  PROVE  /\ <<m, n>> \in Seq(Messages) /\ DOMAIN <<m, n>> = {1, 2}
         /\ <<m, n>>[1] = m /\ <<m, n>>[2] = n
<1>1. <<m, n>> \in Seq(Messages) /\ <<m, n>>[1] = m /\ <<m, n>>[2] = n OBVIOUS
<1>2. Len(<<m, n>>) = 2 OBVIOUS
<1> QED BY <1>1, <1>2, LenProperties

-----------------------------------------------------------------------------
(***************************************************************************)
(* What a worker says in one step, and what its channel tells then.        *)
(***************************************************************************)

\* Progress only, or its verdict last.
Says(f, p, msgs) ==
    /\ msgs \in Seq(Messages)
    /\ \A i \in DOMAIN msgs : msgs[i].file = f
    /\ \/ p \in Copying /\ Talking(msgs, f)
       \/ p \in Over /\ Ended(msgs, f)
Finishing(msgs) == \E i \in DOMAIN msgs : msgs[i].kind = "Finished"

\* The loop goes on without a message.
LEMMA SaysNothing ==
  ASSUME NEW f \in Files, NEW p \in Copying
  PROVE  Says(f, p, <<>>) /\ ~Finishing(<<>>)
<1>1. <<>> \in Seq(Messages) /\ Len(<<>>) = 0 BY EmptySeq
<1>2. DOMAIN <<>> = {} BY <1>1, LenProperties
<1> QED BY <1>1, <1>2 DEF Says, Talking, Finishing

\* It goes on with a progress message.
LEMMA SaysProgress ==
  ASSUME NEW f \in Files, NEW p \in Copying, NEW n \in Nat
  PROVE  LET msgs == <<Msg("Progress", f, n)>> IN Says(f, p, msgs) /\ ~Finishing(msgs)
<1> DEFINE m == Msg("Progress", f, n)
<1>1. m \in Messages /\ m.file = f /\ m.kind = "Progress" BY DEF Msg, Messages, Kinds
<1> HIDE DEF m
<1>2. <<m>> \in Seq(Messages) /\ DOMAIN <<m>> = {1} /\ <<m>>[1] = m BY <1>1, OneMessage
<1> QED BY <1>1, <1>2 DEF Says, Talking, Finishing, m

\* A worker ends with its verdict alone: an error, or a cancellation.
LEMMA SaysVerdict ==
  ASSUME NEW f \in Files, NEW p \in Over, NEW kind \in {"Cancelled", "Failed"}, NEW n \in Nat
  PROVE  LET msgs == <<Msg(kind, f, n)>> IN Says(f, p, msgs) /\ ~Finishing(msgs)
<1> DEFINE m == Msg(kind, f, n)
<1>1. m \in Messages /\ m.file = f /\ m.kind = kind BY DEF Msg, Messages, Kinds, Verdicts
<1> HIDE DEF m
<1>2. <<m>> \in Seq(Messages) /\ DOMAIN <<m>> = {1} /\ <<m>>[1] = m BY <1>1, OneMessage
<1>3. Ended(<<m>>, f) BY <1>1, <1>2 DEF Ended, Verdicts
<1>4. ~Finishing(<<m>>) BY <1>1, <1>2 DEF Finishing
<1> QED BY <1>1, <1>2, <1>3, <1>4 DEF Says, m

\* A worker ends with a progress message and its verdict behind it.
LEMMA SaysBoth ==
  ASSUME NEW f \in Files, NEW kind \in Verdicts, NEW n \in Nat, NEW k \in Nat
  PROVE  LET msgs == <<Msg("Progress", f, n), Msg(kind, f, k)>> IN
         Says(f, "returning", msgs) /\ (Finishing(msgs) => kind = "Finished")
<1> DEFINE a == Msg("Progress", f, n)
           m == Msg(kind, f, k)
<1>1. m \in Messages /\ m.file = f /\ m.kind = kind BY DEF Msg, Messages, Kinds
<1>2. a \in Messages /\ a.file = f /\ a.kind = "Progress" BY DEF Msg, Messages, Kinds
<1> HIDE DEF a, m
<1>3. <<a, m>> \in Seq(Messages) /\ DOMAIN <<a, m>> = {1, 2} /\ <<a, m>>[1] = a /\ <<a, m>>[2] = m
  BY <1>1, <1>2, TwoMessages
<1>4. Ended(<<a, m>>, f) BY <1>1, <1>2, <1>3 DEF Ended
<1>5. Finishing(<<a, m>>) => kind = "Finished" BY <1>1, <1>2, <1>3 DEF Finishing
<1> QED BY <1>1, <1>2, <1>3, <1>4, <1>5 DEF Says, Over, a, m

\* The verdicts heard, who waits, and who claims what: what a worker's step may
\* change of them.
Unheard(f, msgs) ==
    /\ chan' \in [Drops -> Seq(Messages)] /\ phase' \in [Files -> Phases] /\ Channels'
    /\ \A g \in Files : Heard(g)' <=> Heard(g)
    /\ \A g \in Files : phase'[g] = "waiting" <=> phase[g] = "waiting"
    /\ \A g \in Files : g # f => phase'[g] = phase[g] /\ (Sending(g)' <=> Sending(g))
    /\ ~Heard(f) => (Sending(f)' => Sending(f) \/ Finishing(msgs))

\* A worker that is not done says something: its messages join its channel.
LEMMA Speaks ==
  ASSUME Typed, Channels, NEW f \in Files, phase[f] \notin Over \cup {"waiting"},
         NEW p, NEW msgs, Says(f, p, msgs),
         phase' = [phase EXCEPT ![f] = p], Send(f, msgs)
  PROVE  Unheard(f, msgs) /\ ~Sending(f) /\ ~Heard(f) /\ phase'[f] = p
<1> DEFINE b == Of[f]
<1>1. phase \in [Files -> Phases] /\ chan \in [Drops -> Seq(Messages)] BY DEF Typed
<1>2. b \in Drops /\ chan[b] \in Seq(Messages) BY <1>1, Planned
<1>3. msgs \in Seq(Messages) /\ \A i \in DOMAIN msgs : msgs[i].file = f BY DEF Says
<1>4. /\ chan' \in [Drops -> Seq(Messages)] /\ chan'[b] = chan[b] \o msgs
      /\ \A c \in Drops : c # b => chan'[c] = chan[c]
  <2>1. chan[b] \o msgs \in Seq(Messages) BY <1>2, <1>3, Concats
  <2>2. chan' = [chan EXCEPT ![b] = chan[b] \o msgs] BY DEF Send
  <2> HIDE DEF b
  <2> QED BY <1>1, <1>2, <2>1, <2>2
<1>5. Talking(chan[b], f)
  <2>1. phase[f] \in Before \/ phase[f] \in Copying BY <1>1 DEF Phases
  <2> QED BY <2>1 DEF Channels, Silent, Talking
<1>6. \/ p \in Copying /\ Talking(chan'[b], f)
      \/ p \in Over /\ Ended(chan'[b], f)
  <2>1. /\ Talking(msgs, f) => Talking(chan[b] \o msgs, f)
        /\ Ended(msgs, f) => Ended(chan[b] \o msgs, f)
    BY <1>2, <1>3, <1>5, SpeaksOn
  <2> QED BY <1>4, <2>1 DEF Says
<1>7. /\ phase'[f] = p /\ p \in Phases /\ p # "waiting" /\ phase' \in [Files -> Phases]
      /\ \A g \in Files : g # f => phase'[g] = phase[g]
  BY <1>1, <1>6 DEF Phases, Copying, Over
<1> DEFINE q == chan[b]
           r == q \o msgs
<1>8. /\ r = chan'[b]
      /\ \A i \in DOMAIN r : i \in Nat /\ (i \in DOMAIN q \/ i - Len(q) \in DOMAIN msgs)
      /\ \A i \in DOMAIN q : i \in DOMAIN r /\ r[i] = q[i]
      /\ \A j \in DOMAIN msgs : j \in Nat /\ r[Len(q) + j] = msgs[j]
      /\ Len(q) \in Nat
  <2>1. r = chan'[b] BY <1>4
  <2>2. q \in Seq(Messages) BY <1>2
  <2> HIDE DEF q, b
  <2> QED BY <1>3, <2>1, <2>2, Concats
<1>9. q = chan[b] OBVIOUS
<1> HIDE DEF r, q, b
<1>10. \A i \in DOMAIN r : \/ i \in DOMAIN q /\ r[i] = q[i]
                           \/ i - Len(q) \in DOMAIN msgs /\ r[i] = msgs[i - Len(q)]
  <2> SUFFICES ASSUME NEW i \in DOMAIN r, i \notin DOMAIN q
               PROVE  i - Len(q) \in DOMAIN msgs /\ r[i] = msgs[i - Len(q)]
    BY <1>8
  <2>1. i - Len(q) \in DOMAIN msgs /\ i = Len(q) + (i - Len(q)) BY <1>8
  <2> QED BY <1>8, <2>1
<1>11. b = Of[f] BY DEF b
<1>12. ASSUME NEW g \in Files, g # f
       PROVE  /\ Silent(chan'[Of[g]], g) <=> Silent(chan[Of[g]], g)
              /\ Talking(chan[Of[g]], g) => Talking(chan'[Of[g]], g)
              /\ Ended(chan[Of[g]], g) => Ended(chan'[Of[g]], g)
              /\ Sending(g)' <=> Sending(g)
  <2>1. CASE Of[g] = b
    <3>1. /\ Silent(q \o msgs, g) <=> Silent(q, g)
          /\ Talking(q, g) => Talking(q \o msgs, g)
          /\ Ended(q, g) => Ended(q \o msgs, g)
      BY <1>2, <1>3, <1>9, <1>12, OthersUnheard
    <3>2. (\E i \in DOMAIN r : r[i].file = g /\ r[i].kind = "Finished")
             <=> \E i \in DOMAIN q : q[i].file = g /\ q[i].kind = "Finished"
      <4>1. \A i \in DOMAIN r : r[i].file = g => i \in DOMAIN q /\ r[i] = q[i]
        BY <1>3, <1>10, <1>12
      <4> QED BY <1>8, <4>1
    <3> QED BY <1>4, <1>8, <1>9, <2>1, <3>1, <3>2 DEF Sending
  <2>2. CASE Of[g] # b
    <3>1. Of[g] \in Drops BY Planned
    <3>2. chan'[Of[g]] = chan[Of[g]] BY <1>4, <2>2, <3>1
    <3> QED BY <3>2 DEF Sending
  <2> QED BY <2>1, <2>2
<1>13. ~Sending(f) BY <1>5, <1>11 DEF Sending, Talking
<1>14. Sending(f)' => Finishing(msgs)
  <2> SUFFICES ASSUME NEW i \in DOMAIN r, r[i].file = f, r[i].kind = "Finished"
               PROVE  Finishing(msgs)
    BY <1>8, <1>11 DEF Sending
  <2>1. ~(i \in DOMAIN q /\ r[i] = q[i]) BY <1>5, <1>9 DEF Talking
  <2> QED BY <1>10, <2>1 DEF Finishing
<1>15. ~Heard(f) BY DEF Heard
<1>16. ~Heard(f)' BY <1>6, <1>7, <1>11, EndedSpoke DEF Heard, Over, Copying
<1>17. \A g \in Files : Heard(g)' <=> Heard(g) BY <1>7, <1>12, <1>15, <1>16 DEF Heard
<1>18. Channels'
  <2>1. ASSUME NEW g \in Files
        PROVE  /\ phase'[g] \in Before => Silent(chan'[Of[g]], g)
               /\ phase'[g] \in Copying => Talking(chan'[Of[g]], g)
               /\ phase'[g] \in Over => Silent(chan'[Of[g]], g) \/ Ended(chan'[Of[g]], g)
    <3>1. CASE g = f BY <1>6, <1>7, <1>11, <3>1 DEF Before, Copying, Over
    <3>2. CASE g # f BY <1>7, <1>12, <3>2 DEF Channels
    <3> QED BY <3>1, <3>2
  <2>2. ASSUME NEW c \in Drops, NEW i \in DOMAIN chan'[c] PROVE Of[chan'[c][i].file] = c
    <3>1. CASE c # b BY <1>4, <3>1 DEF Channels
    <3>2. CASE c = b
      <4>1. i \in DOMAIN r /\ chan'[c][i] = r[i] BY <1>8, <2>2, <3>2
      <4>2. CASE i \in DOMAIN q /\ r[i] = q[i] BY <1>2, <1>9, <3>2, <4>1, <4>2 DEF Channels
      <4>3. CASE i - Len(q) \in DOMAIN msgs /\ r[i] = msgs[i - Len(q)]
        BY <1>3, <1>11, <3>2, <4>1, <4>3
      <4> QED BY <1>10, <4>1, <4>2, <4>3
    <3> QED BY <3>1, <3>2
  <2> QED BY <2>1, <2>2 DEF Channels
<1> QED BY <1>4, <1>7, <1>12, <1>13, <1>14, <1>15, <1>17, <1>18 DEF Unheard

\* A worker that runs moves on without a word.
LEMMA Moves ==
  ASSUME Typed, Channels, NEW f \in Files, NEW p,
         \/ phase[f] \in {"spawned", "acquiring"} /\ p \in {"acquiring", "opening"}
         \/ phase[f] = "reading" /\ p = "writing"
         \/ phase[f] = "returning" /\ p = "gone",
         phase' = [phase EXCEPT ![f] = p], chan' = chan
  PROVE  /\ Unheard(f, <<>>) /\ phase'[f] = p
         /\ Sending(f)' <=> Sending(f)
<1>1. phase \in [Files -> Phases] /\ chan \in [Drops -> Seq(Messages)] BY DEF Typed
<1>2. p \in Phases /\ phase' \in [Files -> Phases] /\ phase'[f] = p
      /\ \A g \in Files : g # f => phase'[g] = phase[g]
  BY <1>1 DEF Phases, Before, Copying, Over
<1>3. /\ phase[f] \in Before <=> p \in Before
      /\ phase[f] \in Copying <=> p \in Copying
      /\ phase[f] \in Over <=> p \in Over
      /\ p # "waiting" /\ phase[f] # "waiting"
  BY DEF Before, Copying, Over
<1>4. \A g \in Files : /\ phase[g] \in Before <=> phase'[g] \in Before
                       /\ phase[g] \in Copying <=> phase'[g] \in Copying
                       /\ phase[g] \in Over <=> phase'[g] \in Over
                       /\ phase[g] = "waiting" <=> phase'[g] = "waiting"
  BY <1>2, <1>3
<1>5. \A g \in Files : Heard(g)' <=> Heard(g) BY <1>4 DEF Heard
<1>6. Channels' BY <1>4 DEF Channels
<1>7. \A g \in Files : Sending(g)' <=> Sending(g) BY DEF Sending
<1> QED BY <1>1, <1>2, <1>4, <1>5, <1>6, <1>7 DEF Unheard

-----------------------------------------------------------------------------
(***************************************************************************)
(* The steps of a worker.                                                  *)
(***************************************************************************)

\* The parts of the invariant.
LEMMA Facts ==
  ASSUME DInv
  PROVE  /\ stage \in [Drops -> Stages] /\ probe \in [Drops -> Names]
         /\ name \in [Files -> Names \cup {Absent}]
         /\ active \in [Drops -> Nat] /\ uploaded \in [Drops -> SUBSET Files]
         /\ phase \in [Files -> Phases] /\ sent \in [Files -> Nat]
         /\ chan \in [Drops -> Seq(Messages)]
         /\ entry \in [Names -> Files \cup {Absent, Foreign}]
         /\ handle \in [Files -> Files \cup {Absent}] /\ DOMAIN data = Files \cup {Foreign}
         /\ timers \subseteq Files /\ alive \in BOOLEAN
         /\ emitted \in Seq(Events) /\ told \in [Drops -> SUBSET Notices]
         /\ DOMAIN tasks \subseteq Files /\ retired \subseteq Files
         /\ Typed /\ Staged /\ Served /\ Channels /\ WrittenOut
         /\ ToldTrue /\ EventsTrue /\ RowsTrue /\ Counted
BY DEF DInv, Typed

\* An event that is not of a file is a notice of a drop.
LEMMA EventKinds ==
  ASSUME emitted \in Seq(Events), NEW i \in DOMAIN emitted
  PROVE  /\ emitted[i] \in Events
         /\ IsFile(emitted[i]) => emitted[i] \in Messages /\ emitted[i].file \in Files
         /\ ~IsFile(emitted[i]) => emitted[i] \in Notices /\ emitted[i].drop \in Drops
         /\ emitted[i].kind = "Aborted" => ~IsFile(emitted[i])
<1>1. emitted[i] \in Events BY ElementOfSeq, LenProperties
<1>2. emitted[i] \in Messages => IsFile(emitted[i]) /\ emitted[i].file \in Files
  BY DEF Messages, IsFile
<1>3. emitted[i] \in Notices => ~IsFile(emitted[i]) /\ emitted[i].drop \in Drops
  BY DEF Notices, IsFile, Kinds, Verdicts
<1>4. emitted[i].kind = "Aborted" => ~IsFile(emitted[i]) BY DEF IsFile, Kinds, Verdicts
<1> QED BY <1>1, <1>2, <1>3, <1>4 DEF Events

\* What notices say of drops stays true if stages and counts stay, and waiting
\* workers do.
LEMMA NoticesStay ==
  ASSUME stage' = stage, uploaded' = uploaded,
         \A g \in Files : phase'[g] = "waiting" <=> phase[g] = "waiting",
         NEW e \in Notices
  PROVE  NoticeTrue(e)' <=> NoticeTrue(e)
<1>1. e.drop \in Drops BY DEF Notices
<1>2. AllWaiting(e.drop)' <=> AllWaiting(e.drop) BY <1>1, Planned DEF AllWaiting, Members
<1> QED BY <1>2 DEF NoticeTrue

\* A step of a worker is seen by the loop only through its channel, and by the
\* window not at all.
LEMMA WorkerFrame ==
  ASSUME DInv, NEW f \in Files, NEW msgs, Unheard(f, msgs),
         UNCHANGED <<listVars, dropVars, windowVars, alive, running>>,
         sent' \in [Files -> Nat], entry' \in [Names -> Files \cup {Absent, Foreign}],
         handle' \in [Files -> Files \cup {Absent}], DOMAIN data' = Files \cup {Foreign},
         Served', WrittenOut'
  PROVE  DInv'
<1>0. /\ emitted \in Seq(Events) /\ told \in [Drops -> SUBSET Notices]
      /\ uploaded \in [Drops -> SUBSET Files] /\ timers \subseteq Files /\ retired \subseteq Files
      /\ Typed /\ Staged /\ ToldTrue /\ EventsTrue /\ RowsTrue /\ Counted
  BY Facts
<1>1. /\ tasks' = tasks /\ groupTasks' = groupTasks /\ retired' = retired
      /\ stage' = stage /\ probe' = probe /\ name' = name /\ limit' = limit
      /\ active' = active /\ uploaded' = uploaded
      /\ emitted' = emitted /\ told' = told /\ timers' = timers
      /\ alive' = alive /\ running' = running
  BY DEF listVars, dropVars, windowVars
<1>2. /\ chan' \in [Drops -> Seq(Messages)] /\ phase' \in [Files -> Phases] /\ Channels'
      /\ \A g \in Files : Heard(g)' <=> Heard(g)
      /\ \A g \in Files : phase'[g] = "waiting" <=> phase[g] = "waiting"
  BY DEF Unheard
<1>3. Typed' BY <1>0, <1>1, <1>2 DEF Typed
<1>4. Staged'
  <2>1. ASSUME NEW g \in Files
        PROVE  /\ stage'[Of[g]] \in {"none", "resolving"} => name'[g] = Absent
               /\ stage'[Of[g]] \in {"none", "resolving", "planning"} => phase'[g] = "waiting"
               /\ stage'[Of[g]] = "running" \/ phase'[g] # "waiting" => name'[g] # Absent
    BY <1>0, <1>1, <1>2 DEF Staged
  <2>2. ASSUME NEW b \in Drops
        PROVE  /\ stage'[b] = "planning" => Unplanned(b)' # {} /\ probe'[b] \notin Reserved(b, name)'
               /\ stage'[b] = "running" => active'[b] = Cardinality(AtLarge(b)')
               /\ stage'[b] = "over" => AllWaiting(b)' \/ \A g \in Members(b) : Heard(g)'
    <3>1. \A g \in Members(b) : g \in Files BY Planned
    <3>2. AtLarge(b)' = AtLarge(b) BY <1>2, <3>1 DEF AtLarge, Members
    <3>3. Unplanned(b)' = Unplanned(b) /\ Reserved(b, name)' = Reserved(b, name)
      BY <1>1 DEF Unplanned, Reserved, Members
    <3>4. AllWaiting(b)' <=> AllWaiting(b) BY <1>2, <3>1 DEF AllWaiting, Members
    <3>5. (\A g \in Members(b) : Heard(g)') <=> (\A g \in Members(b) : Heard(g)) BY <1>2, <3>1
    <3> QED BY <1>0, <1>1, <3>2, <3>3, <3>4, <3>5 DEF Staged
  <2> QED BY <2>1, <2>2 DEF Staged, Members
<1>5. ToldTrue'
  <2>1. \A e \in Notices : NoticeTrue(e)' <=> NoticeTrue(e) BY <1>1, <1>2, NoticesStay
  <2>2. \A b \in Drops : \A g \in uploaded[b] : Of[g] = b /\ Heard(g)'
    BY <1>0, <1>2 DEF ToldTrue
  <2>3. \A b \in Drops : \A e \in told[b] : e.drop = b /\ NoticeTrue(e)'
    BY <1>0, <2>1 DEF ToldTrue
  <2>4. \A i \in DOMAIN emitted : ~IsFile(emitted[i]) => NoticeTrue(emitted[i])'
    <3> SUFFICES ASSUME NEW i \in DOMAIN emitted, ~IsFile(emitted[i])
                 PROVE  NoticeTrue(emitted[i])'
      OBVIOUS
    <3> DEFINE e == emitted[i]
    <3>1. e \in Notices /\ NoticeTrue(e) BY <1>0, EventKinds DEF ToldTrue
    <3>2. PICK n \in Notices : n = e BY <3>1
    <3>3. NoticeTrue(n)' BY <2>1, <3>1, <3>2
    <3> QED BY <1>1, <3>2, <3>3 DEF NoticeTrue, AllWaiting, Members
  <2> QED BY <1>1, <2>2, <2>3, <2>4 DEF ToldTrue, NoticeTrue, AllWaiting, Members
<1>6. \A g \in Files : Owed(g)' <=> Owed(g) BY <1>1, <1>2 DEF Owed
<1>7. EventsTrue'
  <2>1. ASSUME NEW i \in DOMAIN emitted, IsFile(emitted[i]) PROVE EventTrue(emitted[i])'
    <3>1. emitted[i].file \in Files /\ EventTrue(emitted[i]) BY <1>0, <2>1, EventKinds DEF EventsTrue
    <3> QED BY <1>1, <1>2, <1>6, <3>1 DEF EventTrue, Owed, Heard
  <2> QED BY <1>0, <1>1, <2>1 DEF EventsTrue, EventTrue, Owed, Heard, IsFile
<1>8. RowsTrue'
  <2>1. \A g \in Files : (Settled(g)' <=> Settled(g)) /\ (Running(g)' <=> Running(g))
    BY <1>1 DEF Settled, Running
  <2>2. \A g \in timers : Heard(g)' BY <1>0, <1>2 DEF RowsTrue
  <2>3. \A g \in retired : Heard(g)' \/ stage'[Of[g]] = "over" BY <1>0, <1>1, <1>2 DEF RowsTrue
  <2>4. alive' => \A g \in Files : Settled(g)' => (Running(g)' <=> Owed(g)')
    BY <1>0, <1>1, <1>6, <2>1 DEF RowsTrue
  <2>5. Indexed' BY <1>0, <1>1 DEF RowsTrue, Indexed
  <2> QED BY <1>1, <2>2, <2>3, <2>4, <2>5 DEF RowsTrue
<1>9. Counted' BY <1>0, <1>1 DEF Counted, UnderWay
<1> QED BY <1>2, <1>3, <1>4, <1>5, <1>7, <1>8, <1>9 DEF DInv

\* A file that no other drop disputes shares its remote name with nobody.
LEMMA Apart ==
  ASSUME DInv, NEW f \in Files, NEW g \in Files, f # g, Undisputed(g), name[f] = name[g]
  PROVE  name[f] = Absent
<1>1. Of[f] = Of[g] BY DEF Undisputed
<1> QED BY <1>1 DEF DInv, Served

\* A worker that changes at most the remote file of its own name, and claims at
\* most its own file, leaves what is said of the others true.
LEMMA OthersWritten ==
  ASSUME DInv, NEW f \in Files, phase[f] # "waiting", NEW msgs, Unheard(f, msgs),
         UNCHANGED <<listVars, dropVars, windowVars>>,
         \A g \in Files : g # f => sent'[g] = sent[g] /\ handle'[g] = handle[g],
         \A k \in Names : k # name[f] => entry'[k] = entry[k],
         \A h \in Files : name[h] # name[f] => data'[h] = data[h],
         FileWritten(f)'
  PROVE  WrittenOut'
<1>0. name \in [Files -> Names \cup {Absent}] /\ Staged /\ WrittenOut /\ Served BY Facts
<1>1. /\ tasks' = tasks /\ name' = name /\ uploaded' = uploaded /\ emitted' = emitted
  BY DEF listVars, dropVars, windowVars
<1>2. name[f] # Absent BY <1>0 DEF Staged
<1>3. ASSUME NEW g \in Files, g # f PROVE FileWritten(g)'
  <2>1. /\ phase'[g] = phase[g] /\ sent'[g] = sent[g] /\ handle'[g] = handle[g]
        /\ Sending(g)' <=> Sending(g)
    BY <1>3 DEF Unheard
  <2>2. Claimed(g)' <=> Claimed(g) BY <1>1, <2>1 DEF Claimed
  <2>3. Undisputed(g)' <=> Undisputed(g) BY <1>1 DEF Undisputed
  <2>4. FileWritten(g) BY <1>0 DEF WrittenOut
  <2>5. ASSUME Undisputed(g), phase[g] \in Copying \/ Claimed(g) PROVE Intact(g)'
    <3>1. Intact(g) BY <2>4, <2>5 DEF FileWritten
    <3>2. name[g] # name[f] BY <1>2, <1>3, <2>5, Apart
    <3>3. name[g] # Absent
      <4>1. phase[g] # "waiting" BY <2>4, <2>5 DEF FileWritten, Copying, Over
      <4> QED BY <1>0, <4>1 DEF Staged
    <3>4. entry'[name[g]] = entry[name[g]] BY <1>0, <3>2, <3>3
    <3>5. data'[g] = data[g] BY <3>2
    <3> QED BY <1>1, <2>1, <3>1, <3>4, <3>5 DEF Intact
  <2> QED BY <2>1, <2>2, <2>3, <2>4, <2>5 DEF FileWritten
<1> QED BY <1>3 DEF WrittenOut

\* A step that leaves the server alone: a worker moves on, tells, or ends.
LEMMA Undisturbed ==
  ASSUME DInv, NEW f \in Files, phase[f] # "waiting", NEW msgs, Unheard(f, msgs),
         UNCHANGED <<listVars, dropVars, serverVars, windowVars, alive, running>>, sent' = sent,
         phase'[f] \in Before => phase[f] \in Before,
         phase'[f] \in Copying => phase[f] \in Copying,
         phase'[f] = "writing" => sent[f] < Chunks[f],
         phase[f] \in Over => phase'[f] \in Over,
         Sending(f)' => Sending(f) \/ (phase[f] \in Copying /\ phase'[f] \in Over
                                       /\ sent[f] = Chunks[f])
  PROVE  DInv'
<1>0. /\ sent \in [Files -> Nat] /\ entry \in [Names -> Files \cup {Absent, Foreign}]
      /\ handle \in [Files -> Files \cup {Absent}] /\ DOMAIN data = Files \cup {Foreign}
      /\ Served /\ WrittenOut
  BY Facts
<1>1. /\ entry' = entry /\ handle' = handle /\ data' = data /\ name' = name
      /\ tasks' = tasks /\ uploaded' = uploaded /\ emitted' = emitted
  BY DEF serverVars, dropVars, listVars, windowVars
<1>2. \A g \in Files : phase'[g] \in Copying => phase[g] \in Copying BY DEF Unheard
<1>3. Served' BY <1>0, <1>1, <1>2 DEF Served
<1>4. Claimed(f)' => Claimed(f) \/ (phase[f] \in Copying /\ phase'[f] \in Over
                                    /\ sent[f] = Chunks[f])
  BY <1>1 DEF Claimed
<1>5. Undisputed(f)' <=> Undisputed(f) BY <1>1 DEF Undisputed
<1>6. Intact(f)' <=> Intact(f) BY <1>1 DEF Intact
<1>7. FileWritten(f) BY <1>0 DEF WrittenOut
<1>8. FileWritten(f)' BY <1>1, <1>4, <1>5, <1>6, <1>7 DEF FileWritten
<1>9. WrittenOut' BY <1>1, <1>8, OthersWritten
<1> QED BY <1>0, <1>1, <1>3, <1>9, WorkerFrame

\* Byte counts reported are numbers.
LEMMA Counts ==
  ASSUME NEW f \in Files, NEW n \in Nat
  PROVE  Bounded(f, n) \in Nat
BY Planned DEF Bounded, Size

\* A worker ends with an error or a cancellation, and leaves the server alone.
LEMMA EndStep ==
  ASSUME DInv, NEW f \in Files, phase[f] \notin Over \cup {"waiting"},
         NEW p \in Over, NEW kind \in {"Cancelled", "Failed"}, NEW n \in Nat,
         Send(f, <<Msg(kind, f, n)>>), phase' = [phase EXCEPT ![f] = p],
         UNCHANGED <<listVars, dropVars, serverVars, windowVars, alive, running>>, sent' = sent
  PROVE  DInv'
<1> DEFINE msgs == <<Msg(kind, f, n)>>
<1>1. Says(f, p, msgs) /\ ~Finishing(msgs) BY SaysVerdict
<1>2. Typed /\ Channels BY Facts
<1> HIDE DEF msgs
<1>3. Unheard(f, msgs) /\ ~Sending(f) /\ ~Heard(f) /\ phase'[f] = p BY <1>1, <1>2, Speaks DEF msgs
<1>4. ~Sending(f)' BY <1>1, <1>3 DEF Unheard
<1>5. p \notin Before \cup Copying BY DEF Over, Before, Copying
<1> QED BY <1>3, <1>4, <1>5, Undisturbed DEF Copying

\* A worker moves on without a word and leaves the server alone.
LEMMA MoveStep ==
  ASSUME DInv, NEW f \in Files, NEW p,
         \/ phase[f] \in {"spawned", "acquiring"} /\ p \in {"acquiring", "opening"}
         \/ phase[f] = "reading" /\ p = "writing" /\ sent[f] < Chunks[f]
         \/ phase[f] = "returning" /\ p = "gone",
         phase' = [phase EXCEPT ![f] = p], chan' = chan,
         UNCHANGED <<listVars, dropVars, serverVars, windowVars, alive, running>>, sent' = sent
  PROVE  DInv'
<1>1. Typed /\ Channels BY Facts
<1>2. Unheard(f, <<>>) /\ phase'[f] = p /\ (Sending(f)' <=> Sending(f)) BY <1>1, Moves
<1>3. /\ p \in Before => phase[f] \in Before
      /\ p \in Copying => phase[f] \in Copying
      /\ p = "writing" => sent[f] < Chunks[f]
      /\ phase[f] \in Over => p \in Over
      /\ phase[f] # "waiting"
  BY DEF Before, Copying, Over
<1> QED BY <1>2, <1>3, Undisturbed

\* The cancel flag is read before the permit is waited for.
LEMMA StartStep == ASSUME DInv, NEW f \in Files, WorkerStarts(f) PROVE DInv'
<1>1. CASE Send(f, <<Msg("Cancelled", f, 0)>>) /\ phase' = [phase EXCEPT ![f] = "gone"]
  BY <1>1, EndStep DEF WorkerStarts, Over
<1>2. CASE phase' = [phase EXCEPT ![f] = "acquiring"] /\ chan' = chan
  BY <1>2, MoveStep DEF WorkerStarts
<1> QED BY <1>1, <1>2 DEF WorkerStarts

\* The permit is there, and later it is given back.
LEMMA PermitStep == ASSUME DInv, NEW f \in Files, GotPermit(f) \/ WorkerReturns(f) PROVE DInv'
<1>1. CASE GotPermit(f) BY <1>1, MoveStep DEF GotPermit
<1>2. CASE WorkerReturns(f) BY <1>2, MoveStep DEF WorkerReturns
<1> QED BY <1>1, <1>2

\* The local file is at its end, fails, or gives a chunk.
LEMMA ReadStep == ASSUME DInv, NEW f \in Files, ReadReturns(f) PROVE DInv'
<1>0. /\ phase[f] = "reading" /\ sent' = sent /\ sent[f] \in Nat
      /\ UNCHANGED <<listVars, dropVars, serverVars, windowVars, alive, running>>
  BY Facts DEF ReadReturns
<1>1. Bounded(f, sent[f]) \in Nat BY <1>0, Counts
<1>2. CASE sent[f] = Chunks[f] /\ EndWith(f, <<Msg("Progress", f, Bounded(f, sent[f])),
                                               Msg("Finished", f, sent[f])>>)
  <2> DEFINE msgs == <<Msg("Progress", f, Bounded(f, sent[f])), Msg("Finished", f, sent[f])>>
  <2>1. "Finished" \in Verdicts BY DEF Verdicts
  <2>2. Says(f, "returning", msgs) BY <1>0, <1>1, <2>1, SaysBoth
  <2>3. Typed /\ Channels BY Facts
  <2>4. Send(f, msgs) /\ phase' = [phase EXCEPT ![f] = "returning"] BY <1>2 DEF EndWith
  <2> HIDE DEF msgs
  <2>5. Unheard(f, msgs) /\ phase'[f] = "returning"
    BY <1>0, <2>2, <2>3, <2>4, Speaks DEF Over
  <2>6. "returning" \in Over /\ "returning" \notin Before \cup Copying /\ phase[f] \in Copying
    BY <1>0 DEF Over, Before, Copying
  <2> QED BY <1>0, <1>2, <2>5, <2>6, Undisturbed
<1>3. CASE EndWith(f, <<Msg("Failed", f, Bounded(f, sent[f]))>>)
  BY <1>0, <1>1, <1>3, EndStep DEF EndWith, Over
<1>4. CASE sent[f] < Chunks[f] /\ phase' = [phase EXCEPT ![f] = "writing"] /\ chan' = chan
  BY <1>0, <1>4, MoveStep
<1> QED BY <1>2, <1>3, <1>4 DEF ReadReturns

\* A step that may change the remote file of the worker's name.
LEMMA TouchStep ==
  ASSUME DInv, NEW f \in Files, phase[f] # "waiting", NEW msgs, Unheard(f, msgs),
         UNCHANGED <<listVars, dropVars, windowVars, alive, running>>,
         sent' \in [Files -> Nat], entry' \in [Names -> Files \cup {Absent, Foreign}],
         handle' \in [Files -> Files \cup {Absent}], DOMAIN data' = Files \cup {Foreign},
         \A g \in Files : g # f => sent'[g] = sent[g] /\ handle'[g] = handle[g],
         \A k \in Names : k # name[f] => entry'[k] = entry[k],
         \A h \in Files : name[h] # name[f] => data'[h] = data[h],
         entry'[name[f]] # Foreign, entry'[name[f]] \in Files => name[entry'[name[f]]] = name[f],
         handle'[f] # Absent, name[handle'[f]] = name[f],
         FileWritten(f)'
  PROVE  DInv'
<1>0. name \in [Files -> Names \cup {Absent}] /\ Served /\ Staged BY Facts
<1>1. name' = name BY DEF dropVars
<1>2. name[f] # Absent /\ name[f] \in Names BY <1>0 DEF Staged
<1>3. Served'
  <2>1. ASSUME NEW k \in Names
        PROVE  /\ entry'[k] \in Files => name[entry'[k]] = k
               /\ entry'[k] = Foreign => \A g \in Files : name[g] # k
    <3>1. CASE k = name[f] BY <3>1
    <3>2. CASE k # name[f] BY <1>0, <3>2 DEF Served
    <3> QED BY <3>1, <3>2
  <2>2. ASSUME NEW g \in Files
        PROVE  /\ handle'[g] # Absent => name[g] # Absent /\ name[handle'[g]] = name[g]
               /\ phase'[g] \in Copying => handle'[g] # Absent
    <3>1. CASE g = f BY <1>2, <3>1
    <3>2. CASE g # f BY <1>0, <3>2 DEF Served, Unheard
    <3> QED BY <3>1, <3>2
  <2> QED BY <1>0, <1>1, <2>1, <2>2 DEF Served
<1>4. WrittenOut' BY OthersWritten
<1> QED BY <1>3, <1>4, WorkerFrame

\* What the worker's loop does next, cancelled or not, after a report.
LEMMA LoopTopSays ==
  ASSUME DInv, NEW f \in Files, phase[f] \notin Over \cup {"waiting"}, NEW n \in Nat,
         NEW report \in {<<>>, <<Msg("Progress", f, n)>>}, LoopTop(f, report)
  PROVE  /\ Unheard(f, report) /\ ~Sending(f) /\ ~Sending(f)'
         /\ phase'[f] \in {"reading", "removing"}
<1> DEFINE p == IF f \in cancel THEN "removing" ELSE "reading"
<1>1. p \in Copying /\ p \in {"reading", "removing"} BY DEF Copying
<1>2. phase' = [phase EXCEPT ![f] = p] /\ Send(f, report) BY DEF LoopTop
<1>3. Typed /\ Channels BY Facts
<1> HIDE DEF p
<1>4. Says(f, p, report) /\ ~Finishing(report) BY <1>1, SaysNothing, SaysProgress
<1>5. Unheard(f, report) /\ ~Sending(f) /\ ~Heard(f) /\ phase'[f] = p
  BY <1>2, <1>3, <1>4, Speaks
<1> QED BY <1>1, <1>4, <1>5 DEF Unheard

\* Where a worker is about to touch its remote file: the name is its own, and
\* the file there is one planned under that name, itself if nobody disputes it.
LEMMA OwnName ==
  ASSUME DInv, NEW f \in Files, phase[f] # "waiting"
  PROVE  /\ name[f] \in Names /\ name[f] # Absent
         /\ entry[name[f]] # Absent =>
               entry[name[f]] \in Files /\ name[entry[name[f]]] = name[f]
         /\ \A h \in Files : name[h] = name[f] /\ Undisputed(f) => h = f
<1>1. /\ name \in [Files -> Names \cup {Absent}] /\ Served /\ Staged
      /\ entry \in [Names -> Files \cup {Absent, Foreign}]
  BY Facts
<1>2. name[f] \in Names /\ name[f] # Absent BY <1>1 DEF Staged
<1>3. entry[name[f]] # Foreign BY <1>1, <1>2 DEF Served
<1>4. entry[name[f]] # Absent => entry[name[f]] \in Files BY <1>1, <1>2, <1>3
<1>5. entry[name[f]] \in Files => name[entry[name[f]]] = name[f] BY <1>1, <1>2 DEF Served
<1>6. \A h \in Files : name[h] = name[f] /\ Undisputed(f) => h = f BY <1>2, Apart
<1> QED BY <1>2, <1>4, <1>5, <1>6

\* Nothing written yet.
LEMMA NothingWritten == ASSUME NEW f PROVE <<>> = [i \in 1..0 |-> f]
<1>1. 1..0 = {} OBVIOUS
<1>2. <<>> \in Seq({f}) /\ Len(<<>>) = 0 BY EmptySeq
<1>3. <<>> \in [1..0 -> {f}] BY <1>2, LenProperties
<1> QED BY <1>1, <1>3

\* The remote file is opened, and the copy begins or the local file fails.
LEMMA OpenStep == ASSUME DInv, NEW f \in Files, OpenFiles(f) PROVE DInv'
<1>0. /\ name \in [Files -> Names \cup {Absent}] /\ sent \in [Files -> Nat]
      /\ entry \in [Names -> Files \cup {Absent, Foreign}]
      /\ handle \in [Files -> Files \cup {Absent}] /\ DOMAIN data = Files \cup {Foreign}
      /\ Typed /\ Channels /\ WrittenOut
  BY Facts
<1>1. /\ phase[f] = "opening" /\ sent' = sent
      /\ UNCHANGED <<listVars, dropVars, windowVars, alive, running>>
  BY DEF OpenFiles
<1>2. CASE EndWith(f, <<Msg("Failed", f, 0)>>) /\ UNCHANGED serverVars
  BY <1>1, <1>2, EndStep DEF EndWith, Over
<1>3. ASSUME NEW file, file = IF entry[name[f]] = Absent THEN f ELSE entry[name[f]],
             entry' = [entry EXCEPT ![name[f]] = file], handle' = [handle EXCEPT ![f] = file],
             data' = [data EXCEPT ![file] = <<>>],
             LoopTop(f, <<>>) \/ EndWith(f, <<Msg("Failed", f, 0)>>)
      PROVE  DInv'
  <2>1. /\ name[f] \in Names /\ name[f] # Absent
        /\ file \in Files /\ name[file] = name[f] /\ (Undisputed(f) => file = f)
    BY <1>1, <1>3, OwnName
  <2>2. \E msgs : Unheard(f, msgs) /\ ~Sending(f) /\ ~Sending(f)'
                  /\ phase'[f] \in {"reading", "removing", "returning"}
    <3>1. CASE LoopTop(f, <<>>) BY <1>1, <3>1, LoopTopSays DEF Over
    <3>2. CASE EndWith(f, <<Msg("Failed", f, 0)>>)
      <4> DEFINE msgs == <<Msg("Failed", f, 0)>>
      <4>1. Says(f, "returning", msgs) /\ ~Finishing(msgs) BY SaysVerdict DEF Over
      <4> HIDE DEF msgs
      <4>2. Unheard(f, msgs) /\ ~Sending(f) /\ ~Heard(f) /\ phase'[f] = "returning"
        BY <1>0, <1>1, <3>2, <4>1, Speaks DEF EndWith, Over, msgs
      <4> QED BY <4>1, <4>2 DEF Unheard
    <3> QED BY <1>3, <3>1, <3>2
  <2>3. PICK msgs : Unheard(f, msgs) /\ ~Sending(f) /\ ~Sending(f)'
                    /\ phase'[f] \in {"reading", "removing", "returning"}
    BY <2>2
  <2>4. /\ entry' \in [Names -> Files \cup {Absent, Foreign}] /\ entry'[name[f]] = file
        /\ \A k \in Names : k # name[f] => entry'[k] = entry[k]
    BY <1>0, <1>3, <2>1
  <2>5. /\ handle' \in [Files -> Files \cup {Absent}] /\ handle'[f] = file
        /\ \A g \in Files : g # f => handle'[g] = handle[g]
    BY <1>0, <1>3, <2>1
  <2>6. /\ DOMAIN data' = Files \cup {Foreign} /\ data'[file] = <<>>
        /\ \A h \in Files : name[h] # name[f] => data'[h] = data[h]
    BY <1>0, <1>3, <2>1
  <2>7. file # Absent /\ file # Foreign BY <2>1, DropAssumption
  <2>8. FileWritten(f)'
    <3>1. /\ name' = name /\ tasks' = tasks /\ uploaded' = uploaded /\ emitted' = emitted
      BY <1>1 DEF dropVars, listVars, windowVars
    <3>2. sent[f] = 0 /\ ~Claimed(f)
      BY <1>0, <1>1 DEF WrittenOut, FileWritten, Before, Over
    <3>3. ~Claimed(f)' BY <2>3, <3>1, <3>2 DEF Claimed
    <3>4. Undisputed(f)' <=> Undisputed(f) BY <3>1 DEF Undisputed
    <3>5. Undisputed(f) => Intact(f)'
      BY <1>1, <2>1, <2>4, <2>6, <3>1, <3>2, NothingWritten DEF Intact
    <3>6. Chunks[f] \in Nat BY Planned
    <3> QED BY <1>1, <2>1, <2>3, <2>5, <3>2, <3>3, <3>4, <3>5, <3>6
            DEF FileWritten, Before, Copying
  <2> QED BY <1>0, <1>1, <2>1, <2>3, <2>4, <2>5, <2>6, <2>7, <2>8, TouchStep
<1> QED BY <1>1, <1>2, <1>3 DEF OpenFiles

\* The contents of a file with one chunk more.
LEMMA NextChunk ==
  ASSUME NEW f \in Files, handle[f] = f, sent[f] \in Nat, data[f] = [i \in 1..sent[f] |-> f]
  PROVE  Written(f) = [i \in 1..(sent[f] + 1) |-> f]
<1> DEFINE n == sent[f]
           old == [i \in 1..n |-> f]
<1>1. old \in Seq(Files) BY IsASeq
<1>2. Len(old) = n BY <1>1, LenProperties
<1>3. \A i \in 1..n : old[i] = f OBVIOUS
<1> HIDE DEF old
<1>4. data[f] = old BY DEF old
<1>5. (IF Len(old) < n + 1 THEN n + 1 ELSE Len(old)) = n + 1 BY <1>2
<1>6. \A i \in 1..(n + 1) : (IF i = n + 1 THEN f ELSE IF i <= Len(old) THEN old[i] ELSE Absent) = f
  BY <1>2, <1>3
<1>7. Written(f) = [i \in 1..(IF Len(old) < n + 1 THEN n + 1 ELSE Len(old)) |->
                       IF i = n + 1 THEN f ELSE IF i <= Len(old) THEN old[i] ELSE Absent]
  BY <1>4 DEF Written
<1> QED BY <1>5, <1>6, <1>7

\* A chunk is written, or writing fails.
LEMMA WriteStep == ASSUME DInv, NEW f \in Files, WriteReturns(f) PROVE DInv'
<1>0. /\ name \in [Files -> Names \cup {Absent}] /\ sent \in [Files -> Nat]
      /\ entry \in [Names -> Files \cup {Absent, Foreign}]
      /\ handle \in [Files -> Files \cup {Absent}] /\ DOMAIN data = Files \cup {Foreign}
      /\ Served /\ WrittenOut
  BY Facts
<1>1. /\ phase[f] = "writing" /\ entry' = entry /\ handle' = handle /\ sent[f] \in Nat
      /\ UNCHANGED <<listVars, dropVars, windowVars, alive, running>>
  BY <1>0 DEF WriteReturns
<1>2. CASE EndWith(f, <<Msg("Failed", f, Bounded(f, sent[f]))>>) /\ UNCHANGED <<sent, data>>
  <2>1. Bounded(f, sent[f]) \in Nat BY <1>1, Counts
  <2> QED BY <1>1, <1>2, <2>1, EndStep DEF EndWith, Over, serverVars
<1>3. ASSUME sent' = [sent EXCEPT ![f] = @ + 1], data' = [data EXCEPT ![handle[f]] = Written(f)],
             NEW report \in {<<>>, <<Msg("Progress", f, Bounded(f, sent[f] + 1))>>},
             LoopTop(f, report)
      PROVE  DInv'
  <2>1. Bounded(f, sent[f] + 1) \in Nat BY <1>1, Counts
  <2>2. /\ Unheard(f, report) /\ ~Sending(f) /\ ~Sending(f)'
        /\ phase'[f] \in {"reading", "removing"}
    BY <1>1, <1>3, <2>1, LoopTopSays DEF Over
  <2>3. /\ name[f] \in Names /\ name[f] # Absent
        /\ entry[name[f]] # Absent =>
               entry[name[f]] \in Files /\ name[entry[name[f]]] = name[f]
    BY <1>1, OwnName
  <2>4. handle[f] # Absent /\ handle[f] \in Files /\ name[handle[f]] = name[f]
    BY <1>0, <1>1 DEF Served, Copying
  <2>5. sent' \in [Files -> Nat] /\ sent'[f] = sent[f] + 1 /\ \A g \in Files : g # f => sent'[g] = sent[g]
    BY <1>0, <1>3
  <2>6. /\ DOMAIN data' = Files \cup {Foreign} /\ data'[handle[f]] = Written(f)
        /\ \A h \in Files : name[h] # name[f] => data'[h] = data[h]
    BY <1>0, <1>3, <2>4
  <2>7. /\ entry'[name[f]] # Foreign
        /\ entry'[name[f]] \in Files => name[entry'[name[f]]] = name[f]
    BY <1>1, <2>3, Marks
  <2>9. /\ entry' \in [Names -> Files \cup {Absent, Foreign}]
        /\ handle' \in [Files -> Files \cup {Absent}]
        /\ handle'[f] # Absent /\ name[handle'[f]] = name[f]
        /\ \A g \in Files : g # f => handle'[g] = handle[g]
        /\ \A k \in Names : k # name[f] => entry'[k] = entry[k]
        /\ phase[f] # "waiting"
    BY <1>0, <1>1, <2>4
  <2>8. FileWritten(f)'
    <3>1. /\ name' = name /\ tasks' = tasks /\ uploaded' = uploaded /\ emitted' = emitted
      BY <1>1 DEF dropVars, listVars, windowVars
    <3>2. sent[f] < Chunks[f] /\ ~Claimed(f) /\ FileWritten(f) /\ Chunks[f] \in Nat
      BY <1>0, <1>1, Planned DEF WrittenOut, FileWritten, Over
    <3>3. ~Claimed(f)' BY <2>2, <3>1, <3>2 DEF Claimed
    <3>4. Undisputed(f)' <=> Undisputed(f) BY <3>1 DEF Undisputed
    <3>5. ASSUME Undisputed(f) PROVE Intact(f)' /\ handle'[f] = f
      <4>1. Intact(f) /\ handle[f] = f BY <1>1, <3>2, <3>5 DEF FileWritten, Copying
      <4>2. data[f] = [i \in 1..sent[f] |-> f] /\ entry[name[f]] = f BY <4>1 DEF Intact
      <4>3. Written(f) = [i \in 1..(sent[f] + 1) |-> f] BY <1>1, <4>1, <4>2, NextChunk
      <4> QED BY <1>1, <2>5, <2>6, <3>1, <4>1, <4>2, <4>3 DEF Intact
    <3> QED BY <1>1, <2>2, <2>5, <3>2, <3>3, <3>4, <3>5 DEF FileWritten, Before, Copying
  <2> QED BY <1>1, <2>2, <2>5, <2>6, <2>7, <2>8, <2>9, TouchStep
<1> QED BY <1>1, <1>2, <1>3 DEF WriteReturns

\* A cancelled worker removes its file, or fails to, and ends.
LEMMA RemovalStep == ASSUME DInv, NEW f \in Files, RemoveReturns(f) PROVE DInv'
<1>0. /\ name \in [Files -> Names \cup {Absent}] /\ sent \in [Files -> Nat]
      /\ entry \in [Names -> Files \cup {Absent, Foreign}]
      /\ handle \in [Files -> Files \cup {Absent}] /\ DOMAIN data = Files \cup {Foreign}
      /\ Typed /\ Channels /\ Served /\ WrittenOut
  BY Facts
<1>1. /\ phase[f] = "removing" /\ sent' = sent /\ handle' = handle /\ data' = data
      /\ sent[f] \in Nat
      /\ UNCHANGED <<listVars, dropVars, windowVars, alive, running>>
  BY <1>0 DEF RemoveReturns
<1> DEFINE msgs == <<Msg("Progress", f, Bounded(f, sent[f])), Msg("Cancelled", f, Bounded(f, sent[f]))>>
<1>2. Says(f, "returning", msgs) /\ ~Finishing(msgs)
  <2>1. Bounded(f, sent[f]) \in Nat /\ "Cancelled" \in Verdicts BY <1>1, Counts DEF Verdicts
  <2> QED BY <2>1, SaysBoth
<1>3. Send(f, msgs) /\ phase' = [phase EXCEPT ![f] = "returning"] BY DEF RemoveReturns, EndWith
<1> HIDE DEF msgs
<1>4. Unheard(f, msgs) /\ ~Sending(f) /\ ~Heard(f) /\ phase'[f] = "returning"
  BY <1>0, <1>1, <1>2, <1>3, Speaks DEF Over
<1>5. ~Sending(f)' BY <1>2, <1>4 DEF Unheard
<1>6. /\ name[f] \in Names /\ name[f] # Absent
      /\ entry[name[f]] # Absent =>
               entry[name[f]] \in Files /\ name[entry[name[f]]] = name[f]
  BY <1>1, OwnName
<1>7. handle[f] # Absent /\ handle[f] \in Files /\ name[handle[f]] = name[f]
  BY <1>0, <1>1 DEF Served, Copying
<1>8. /\ entry' \in [Names -> Files \cup {Absent, Foreign}]
      /\ entry'[name[f]] \in {entry[name[f]], Absent}
      /\ \A k \in Names : k # name[f] => entry'[k] = entry[k]
  BY <1>0, <1>6 DEF RemoveReturns
<1>9. entry'[name[f]] # Foreign /\ (entry'[name[f]] \in Files => name[entry'[name[f]]] = name[f])
  <2>1. CASE entry'[name[f]] = Absent BY <2>1, Marks
  <2>2. CASE entry'[name[f]] # Absent
    <3>1. entry'[name[f]] = entry[name[f]] BY <1>8, <2>2
    <3> QED BY <1>6, <2>2, <3>1, Marks
  <2> QED BY <2>1, <2>2
<1>10. FileWritten(f)'
  <2>1. /\ name' = name /\ tasks' = tasks /\ uploaded' = uploaded /\ emitted' = emitted
    BY <1>1 DEF dropVars, listVars, windowVars
  <2>2. ~Claimed(f) BY <1>0, <1>1 DEF WrittenOut, FileWritten, Over
  <2>3. ~Claimed(f)' BY <1>5, <2>1, <2>2 DEF Claimed
  <2> QED BY <1>4, <2>3 DEF FileWritten, Before, Copying
<1> QED BY <1>0, <1>1, <1>4, <1>6, <1>7, <1>8, <1>9, <1>10, TouchStep

\* Whatever a worker does.
LEMMA WorkerStep == ASSUME DInv, NEW f \in Files, Worker(f) PROVE DInv'
BY StartStep, PermitStep, OpenStep, ReadStep, WriteStep, RemovalStep DEF Worker


-----------------------------------------------------------------------------
(***************************************************************************)
(* The steps of a drop: its own stage, names, queue and count, its workers *)
(* as they are spawned, and the events of one update.                      *)
(***************************************************************************)

\* The events of one update, each true when it is emitted.
Update(b, q) ==
    /\ q \in Seq(Events)
    /\ \A i \in DOMAIN q :
          /\ IsFile(q[i]) => Of[q[i].file] = b /\ EventTrue(q[i])
          /\ ~IsFile(q[i]) => NoticeTrue(q[i])
          /\ q[i].kind = "Aborted" => DOMAIN q = {1}
    /\ \A i, j \in DOMAIN q : IsFile(q[i]) /\ IsFile(q[j]) /\ i # j => q[i].file # q[j].file

\* Workers are spawned, and otherwise left alone.
Spawns(b) ==
    \A g \in Files : \/ phase'[g] = phase[g]
                     \/ Of[g] = b /\ phase[g] = "waiting" /\ phase'[g] = "spawned"

\* What a drop leaves alone.
OnlyDrop(b) ==
    /\ \A c \in Drops : c # b => /\ stage'[c] = stage[c] /\ probe'[c] = probe[c]
                                 /\ active'[c] = active[c] /\ uploaded'[c] = uploaded[c]
                                 /\ chan'[c] = chan[c]
    /\ \A g \in Files : Of[g] # b => name'[g] = name[g]
    /\ Spawns(b)
    /\ UNCHANGED <<listVars, serverVars, sent, told, timers, alive>>

\* What must be shown of the drop that takes the step.
DropStaged(b) ==
    /\ \A g \in Files : Of[g] = b =>
          /\ stage[b] \in {"none", "resolving"} => name[g] = Absent
          /\ stage[b] \in {"none", "resolving", "planning"} => phase[g] = "waiting"
          /\ stage[b] = "running" \/ phase[g] # "waiting" => name[g] # Absent
    /\ stage[b] = "planning" => Unplanned(b) # {} /\ probe[b] \notin Reserved(b, name)
    /\ stage[b] = "running" => active[b] = Cardinality(AtLarge(b))
    /\ stage[b] = "over" => AllWaiting(b) \/ \A f \in Members(b) : Heard(f)

\* What a drop that is not over yet does is no business of the others.
LEMMA OthersHeard ==
  ASSUME NEW b \in Drops, OnlyDrop(b), NEW g \in Files, Of[g] # b
  PROVE  /\ stage'[Of[g]] = stage[Of[g]] /\ phase'[g] = phase[g] /\ name'[g] = name[g]
         /\ chan'[Of[g]] = chan[Of[g]]
         /\ Heard(g)' <=> Heard(g)
         /\ Owed(g)' <=> Owed(g)
<1>1. Of[g] \in Drops BY Planned
<1>2. /\ stage'[Of[g]] = stage[Of[g]] /\ phase'[g] = phase[g] /\ name'[g] = name[g]
      /\ chan'[Of[g]] = chan[Of[g]]
  BY <1>1 DEF OnlyDrop, Spawns
<1>3. Heard(g)' <=> Heard(g) BY <1>2 DEF Heard
<1> QED BY <1>2, <1>3 DEF Owed

\* A step of another drop leaves a drop's stage facts as they were.
LEMMA OthersStaged ==
  ASSUME DInv, NEW b \in Drops, OnlyDrop(b), DropStaged(b)'
  PROVE  Staged'
<1>0. Staged BY Facts
<1>1. ASSUME NEW g \in Files
      PROVE  /\ stage'[Of[g]] \in {"none", "resolving"} => name'[g] = Absent
             /\ stage'[Of[g]] \in {"none", "resolving", "planning"} => phase'[g] = "waiting"
             /\ stage'[Of[g]] = "running" \/ phase'[g] # "waiting" => name'[g] # Absent
  <2>1. CASE Of[g] = b BY <2>1 DEF DropStaged
  <2>2. CASE Of[g] # b
    <3>1. stage'[Of[g]] = stage[Of[g]] /\ phase'[g] = phase[g] /\ name'[g] = name[g]
      BY <2>2, OthersHeard
    <3> QED BY <1>0, <3>1 DEF Staged
  <2> QED BY <2>1, <2>2
<1>2. ASSUME NEW c \in Drops
      PROVE  /\ stage'[c] = "planning" => Unplanned(c)' # {} /\ probe'[c] \notin Reserved(c, name)'
             /\ stage'[c] = "running" => active'[c] = Cardinality(AtLarge(c)')
             /\ stage'[c] = "over" => AllWaiting(c)' \/ \A g \in Members(c) : Heard(g)'
  <2>1. CASE c = b BY <2>1 DEF DropStaged, Members
  <2>2. CASE c # b
    <3>1. stage'[c] = stage[c] /\ probe'[c] = probe[c] /\ active'[c] = active[c]
      BY <2>2 DEF OnlyDrop
    <3>2. \A g \in Members(c) : /\ g \in Files /\ phase'[g] = phase[g] /\ name'[g] = name[g]
                                /\ Heard(g)' <=> Heard(g)
      <4> SUFFICES ASSUME NEW g \in Members(c)
                   PROVE  /\ g \in Files /\ phase'[g] = phase[g] /\ name'[g] = name[g]
                          /\ Heard(g)' <=> Heard(g)
        OBVIOUS
      <4>1. g \in Files /\ Of[g] = c BY Planned
      <4> QED BY <2>2, <4>1, OthersHeard
    <3>3. AtLarge(c)' = AtLarge(c) BY <3>2 DEF AtLarge, Members
    <3>4. Unplanned(c)' = Unplanned(c) /\ Reserved(c, name)' = Reserved(c, name)
      BY <3>2 DEF Unplanned, Reserved, Members
    <3>5. AllWaiting(c)' <=> AllWaiting(c) BY <3>2 DEF AllWaiting, Members
    <3>6. (\A g \in Members(c) : Heard(g)') <=> (\A g \in Members(c) : Heard(g)) BY <3>2
    <3> QED BY <1>0, <3>1, <3>3, <3>4, <3>5, <3>6 DEF Staged
  <2> QED BY <2>1, <2>2
<1> QED BY <1>1, <1>2 DEF Staged, Members

\* The rows, and what was said before, follow a step of a drop.
LEMMA DropFrame ==
  ASSUME DInv, Quiet, NEW b \in Drops, stage[b] # "over", OnlyDrop(b), DropStaged(b)',
         stage' \in [Drops -> Stages], probe' \in [Drops -> Names],
         name' \in [Files -> Names \cup {Absent}],
         active' \in [Drops -> Nat], uploaded' \in [Drops -> SUBSET Files],
         phase' \in [Files -> Phases], chan' \in [Drops -> Seq(Messages)],
         \A g \in Files : Heard(g) => Heard(g)',
         \A g \in uploaded'[b] : Of[g] = b /\ Heard(g)',
         NEW q, emitted' = q, Update(b, q)', ~alive => q = <<>>,
         alive => \A g \in Files : Of[g] = b /\ Settled(g)' => (Running(g) <=> Owed(g)'),
         Served', Channels', WrittenOut', Counted'
  PROVE  DInv'
<1>0. /\ entry \in [Names -> Files \cup {Absent, Foreign}]
      /\ handle \in [Files -> Files \cup {Absent}] /\ DOMAIN data = Files \cup {Foreign}
      /\ timers \subseteq Files /\ alive \in BOOLEAN /\ sent \in [Files -> Nat]
      /\ told \in [Drops -> SUBSET Notices]
      /\ DOMAIN tasks \subseteq Files /\ retired \subseteq Files
      /\ ToldTrue /\ RowsTrue
  BY Facts
<1>1. /\ tasks' = tasks /\ groupTasks' = groupTasks /\ retired' = retired
      /\ entry' = entry /\ handle' = handle /\ data' = data /\ sent' = sent
      /\ told' = told /\ timers' = timers /\ alive' = alive
  BY DEF OnlyDrop, listVars, serverVars
<1>2. emitted' \in Seq(Events) BY DEF Update
<1>3. Typed' BY <1>0, <1>1, <1>2 DEF Typed
<1>4. Staged' BY OthersStaged
<1>5. ToldTrue'
  <2>1. ASSUME NEW c \in Drops, NEW g \in uploaded'[c] PROVE Of[g] = c /\ Heard(g)'
    <3>1. CASE c = b BY <3>1, <2>1
    <3>2. CASE c # b
      <4>1. g \in uploaded[c] BY <2>1, <3>2 DEF OnlyDrop
      <4>2. g \in Files BY <2>1
      <4> QED BY <1>0, <4>1, <4>2 DEF ToldTrue
    <3> QED BY <3>1, <3>2
  <2>2. ASSUME NEW c \in Drops, NEW e \in told'[c] PROVE e.drop = c /\ NoticeTrue(e)'
    <3>1. e.drop = c /\ NoticeTrue(e) BY <1>0, <1>1, <2>2 DEF ToldTrue
    <3>2. stage[c] = "over" /\ c # b BY <3>1 DEF NoticeTrue
    <3>3. stage'[c] = stage[c] /\ uploaded'[c] = uploaded[c] BY <3>2 DEF OnlyDrop
    <3>4. \A g \in Members(c) : phase'[g] = phase[g]
      <4> SUFFICES ASSUME NEW g \in Members(c) PROVE phase'[g] = phase[g] OBVIOUS
      <4>1. g \in Files /\ Of[g] = c BY Planned
      <4> QED BY <3>2, <4>1, OthersHeard
    <3>5. AllWaiting(c)' <=> AllWaiting(c) BY <3>4 DEF AllWaiting, Members
    <3> QED BY <3>1, <3>3, <3>5 DEF NoticeTrue, AllWaiting, Members
  <2>3. \A i \in DOMAIN q : ~IsFile(q[i]) => NoticeTrue(q[i])' BY DEF Update
  <2>4. (\A i \in DOMAIN emitted : ~IsFile(emitted[i]) => NoticeTrue(emitted[i]))'
    <3> SUFFICES ASSUME NEW i \in DOMAIN q, ~IsFile(q[i])
                 PROVE  NoticeTrue(emitted[i])'
      BY DEF IsFile
    <3>1. NoticeTrue(q[i])' BY <2>3
    <3>2. PICK e : e = q[i] OBVIOUS
    <3>3. NoticeTrue(e)' BY <3>1, <3>2 DEF NoticeTrue, AllWaiting, Members
    <3> QED BY <3>2, <3>3 DEF NoticeTrue, AllWaiting, Members
  <2>5. (\A c \in Drops : \A e \in told[c] : e.drop = c /\ NoticeTrue(e))' BY <2>2
  <2>6. (\A c \in Drops : \A g \in uploaded[c] : Of[g] = c /\ Heard(g))' BY <2>1
  <2> QED BY <2>4, <2>5, <2>6 DEF ToldTrue
<1>6. EventsTrue'
  <2>1. \A i \in DOMAIN q : IsFile(q[i]) => EventTrue(q[i])' BY DEF Update
  <2>2. /\ \A i, j \in DOMAIN q : IsFile(q[i]) /\ IsFile(q[j]) /\ i # j => q[i].file # q[j].file
        /\ \A i \in DOMAIN q : q[i].kind = "Aborted" => DOMAIN q = {1}
    BY DEF Update
  <2> QED BY <1>1, <2>1, <2>2 DEF EventsTrue, EventTrue, Owed, Heard, IsFile
<1>7. RowsTrue'
  <2>1. \A g \in Files : Running(g)' <=> Running(g) BY <1>1 DEF Running
  <2>2. \A g \in timers : Heard(g)' BY <1>0 DEF RowsTrue
  <2>3. ASSUME NEW g \in retired PROVE Heard(g)' \/ stage'[Of[g]] = "over"
    <3>1. g \in Files /\ (Heard(g) \/ stage[Of[g]] = "over") BY <1>0 DEF RowsTrue
    <3>2. CASE Heard(g) BY <3>1, <3>2
    <3>3. CASE stage[Of[g]] = "over"
      <4>1. Of[g] # b BY <3>3
      <4> QED BY <3>1, <3>3, <4>1, OthersHeard
    <3> QED BY <3>1, <3>2, <3>3
  <2>4. ASSUME alive, NEW g \in Files, Settled(g)' PROVE Running(g)' <=> Owed(g)'
    <3>1. CASE Of[g] = b BY <2>1, <2>4, <3>1
    <3>2. CASE Of[g] # b
      <4>1. Settled(g)
        <5>1. DOMAIN emitted = {} BY DEF Quiet
        <5> QED BY <5>1 DEF Settled
      <4>2. Running(g) <=> Owed(g) BY <1>0, <2>4, <4>1 DEF RowsTrue
      <4>3. Owed(g)' <=> Owed(g) BY <3>2, OthersHeard
      <4> QED BY <2>1, <4>2, <4>3
    <3> QED BY <3>1, <3>2
  <2>5. Indexed' BY <1>0, <1>1 DEF RowsTrue, Indexed
  <2> QED BY <1>1, <2>2, <2>3, <2>4, <2>5 DEF RowsTrue
<1> QED BY <1>3, <1>4, <1>5, <1>6, <1>7 DEF DInv

\* As long as names are only added, the server is as the invariant says.
LEMMA NamesAdded ==
  ASSUME DInv, NEW b \in Drops, OnlyDrop(b),
         \A g \in Files : name'[g] = name[g] \/ (name[g] = Absent /\ phase[g] = "waiting"),
         \A g \in Files : Claimed(g)' => Claimed(g)
  PROVE  WrittenOut'
<1>0. name \in [Files -> Names \cup {Absent}] /\ Staged /\ WrittenOut BY Facts
<1>1. entry' = entry /\ handle' = handle /\ data' = data /\ sent' = sent
  BY DEF OnlyDrop, serverVars
<1>2. ASSUME NEW g \in Files PROVE FileWritten(g)'
  <2>1. FileWritten(g) BY <1>0 DEF WrittenOut
  <2>2. phase'[g] = phase[g] \/ (phase[g] = "waiting" /\ phase'[g] = "spawned")
    BY DEF OnlyDrop, Spawns
  <2>3. ASSUME Undisputed(g)', phase[g] \in Copying \/ Claimed(g)
        PROVE  name'[g] = name[g] /\ Undisputed(g)
    <3>1. phase[g] # "waiting" BY <2>1, <2>3 DEF FileWritten, Copying, Over
    <3>2. name'[g] = name[g] BY <3>1
    <3>3. name[g] # Absent BY <1>0, <3>1 DEF Staged
    <3>4. \A h \in Files : Of[h] # Of[g] => name[h] # name[g]
      BY <2>3, <3>2, <3>3 DEF Undisputed
    <3> QED BY <3>2, <3>4 DEF Undisputed
  <2>4. Claimed(g)' => Claimed(g) OBVIOUS
  <2>5. /\ phase'[g] \in Before => phase[g] \in Before
        /\ phase'[g] \in Copying => phase[g] \in Copying
        /\ phase'[g] = "writing" => phase[g] = "writing"
        /\ phase[g] \in Over => phase'[g] \in Over
    BY <2>2 DEF Before, Copying, Over
  <2>6. Intact(g)' <=> IF name'[g] = name[g] THEN Intact(g) ELSE Intact(g)'
    BY <1>1 DEF Intact
  <2>7. Undisputed(g)' /\ (phase'[g] \in Copying \/ Claimed(g)') => Intact(g)'
    BY <2>1, <2>3, <2>4, <2>5, <2>6 DEF FileWritten
  <2>8. Undisputed(g)' /\ phase'[g] \in Copying => handle'[g] = g
    BY <1>1, <2>1, <2>3, <2>5 DEF FileWritten
  <2> QED BY <1>1, <2>1, <2>4, <2>5, <2>7, <2>8 DEF FileWritten
<1> QED BY <1>2 DEF WrittenOut

\* As long as no name is added, nothing changes on the server.
LEMMA ServedOn ==
  ASSUME DInv, NEW b \in Drops, OnlyDrop(b), name' = name
  PROVE  Served'
<1>1. entry' = entry /\ handle' = handle BY DEF OnlyDrop, serverVars
<1>2. \A g \in Files : phase'[g] \in Copying => phase[g] \in Copying
  BY DEF OnlyDrop, Spawns, Copying
<1> QED BY <1>1, <1>2, Facts DEF Served

\* A drop that has no worker at large takes a step.
LEMMA PlanFrame ==
  ASSUME DInv, Quiet, NEW b \in Drops, stage[b] \in {"none", "resolving", "planning"},
         OnlyDrop(b), DropStaged(b)', uploaded' = uploaded, chan' = chan,
         stage' \in [Drops -> Stages], probe' \in [Drops -> Names],
         name' \in [Files -> Names \cup {Absent}],
         active' \in [Drops -> Nat], phase' \in [Files -> Phases],
         \A g \in Files : name'[g] = name[g] \/ (name[g] = Absent /\ phase[g] = "waiting"),
         NEW q, emitted' = q, Update(b, q)', \A i \in DOMAIN q : q[i].kind # "Finished",
         ~alive => q = <<>>,
         alive => \A g \in Files : Of[g] = b /\ Settled(g)' => (Owed(g) <=> Owed(g)'),
         Served', Counted'
  PROVE  DInv'
<1>0. /\ uploaded \in [Drops -> SUBSET Files] /\ chan \in [Drops -> Seq(Messages)]
      /\ Staged /\ Channels /\ ToldTrue /\ RowsTrue
  BY Facts
<1>1. tasks' = tasks BY DEF OnlyDrop, listVars
<1>2. \A g \in Files : Heard(g) => Heard(g)' BY DEF OnlyDrop, Spawns, Heard, Over
<1>3. \A g \in uploaded'[b] : Of[g] = b /\ Heard(g)'
  <2>1. \A g \in uploaded[b] : g \in Files BY <1>0
  <2> QED BY <1>0, <1>2, <2>1 DEF ToldTrue
<1>4. Channels'
  <2>1. \A g \in Files : /\ phase'[g] \in Before => phase[g] \in Before
                         /\ phase'[g] \in Copying => phase[g] \in Copying
                         /\ phase'[g] \in Over => phase[g] \in Over
    BY DEF OnlyDrop, Spawns, Before, Copying, Over
  <2> QED BY <1>0, <2>1 DEF Channels
<1>5. \A g \in Files : Claimed(g)' => Claimed(g) BY <1>1 DEF Claimed, Sending
<1>6. WrittenOut' BY <1>5, NamesAdded
<1>7. ASSUME alive, NEW g \in Files, Of[g] = b, Settled(g)' PROVE Running(g) <=> Owed(g)'
  <2>1. DOMAIN emitted = {} BY DEF Quiet
  <2>2. Settled(g) BY <2>1 DEF Settled
  <2>3. Running(g) <=> Owed(g) BY <1>0, <1>7, <2>2 DEF RowsTrue
  <2> QED BY <1>7, <2>3
<1>8. uploaded' \in [Drops -> SUBSET Files] /\ chan' \in [Drops -> Seq(Messages)] BY <1>0
<1> QED BY <1>2, <1>3, <1>4, <1>6, <1>7, <1>8, DropFrame

\* An update emits its events to an empty queue, or nothing without the terminal.
LEMMA Emits ==
  ASSUME Quiet, NEW q \in Seq(Events), Emit(q)
  PROVE  emitted' = IF alive THEN q ELSE <<>>
<1>1. <<>> \o q = q BY ConcatEmptySeq
<1>2. emitted = <<>> BY DEF Quiet
<1> QED BY <1>1, <1>2 DEF Emit

\* An update without an event.
LEMMA NoEvents ==
  ASSUME NEW b
  PROVE  Update(b, <<>>) /\ Update(b, <<>>)' /\ <<>> \in Seq(Events) /\ DOMAIN <<>> = {}
<1>1. <<>> \in Seq(Events) /\ Len(<<>>) = 0 BY EmptySeq
<1>2. DOMAIN <<>> = {} BY <1>1, LenProperties
<1> QED BY <1>1, <1>2 DEF Update

\* A drop is announced by one progress event for each of its files.
LEMMA Announced ==
  ASSUME NEW b \in Drops
  PROVE  LET q == Announce(b) IN
         /\ q \in Seq(Messages) /\ q \in Seq(Events)
         /\ \A i \in DOMAIN q : q[i].kind = "Progress" /\ q[i].file \in Files /\ Of[q[i].file] = b
         /\ \A i, j \in DOMAIN q : i # j => q[i].file # q[j].file
         /\ \A f \in Files : Of[f] = b => \E i \in DOMAIN q : q[i].file = f
<1> DEFINE q == Announce(b)
<1>1. Plan[b] \in Seq(Files) BY DropAssumption
<1>2. DOMAIN Plan[b] = 1..Len(Plan[b]) /\ Len(Plan[b]) \in Nat BY <1>1, LenProperties
<1>3. \A i \in DOMAIN Plan[b] : Plan[b][i] \in Files /\ Of[Plan[b][i]] = b
  <2> SUFFICES ASSUME NEW i \in DOMAIN Plan[b] PROVE Plan[b][i] \in Files /\ Of[Plan[b][i]] = b
    OBVIOUS
  <2>1. Plan[b][i] \in Members(b) BY DEF Members
  <2> QED BY <2>1, Planned
<1>4. \A i \in DOMAIN Plan[b] : Msg("Progress", Plan[b][i], 0) \in Messages
  BY <1>3 DEF Msg, Messages, Kinds
<1>5. /\ q = [i \in 1..Len(Plan[b]) |-> Msg("Progress", Plan[b][i], 0)]
      /\ DOMAIN q = DOMAIN Plan[b]
  BY <1>2 DEF Announce
<1>6. q \in Seq(Messages) /\ q \in Seq(Events)
  <2>1. \A i \in 1..Len(Plan[b]) : Msg("Progress", Plan[b][i], 0) \in Messages BY <1>2, <1>4
  <2>2. [i \in 1..Len(Plan[b]) |-> Msg("Progress", Plan[b][i], 0)] \in Seq(Messages)
    BY <1>2, <2>1, IsASeq
  <2>3. q \in Seq(Messages) BY <1>5, <2>2
  <2>4. Messages \subseteq Events BY DEF Events
  <2>5. q \in [1..Len(q) -> Messages] /\ Len(q) \in Nat BY <2>3, LenProperties
  <2> HIDE DEF q
  <2>6. q \in Seq(Events) BY <2>4, <2>5, SeqDef
  <2> QED BY <2>3, <2>6
<1>7. \A i \in DOMAIN q : q[i].kind = "Progress" /\ q[i].file = Plan[b][i]
  BY <1>5 DEF Announce, Msg
<1>8. \A i, j \in DOMAIN q : i # j => q[i].file # q[j].file BY <1>5, <1>7, DropAssumption
<1>9. ASSUME NEW f \in Files, Of[f] = b PROVE \E i \in DOMAIN q : q[i].file = f
  <2>1. Index[f] \in DOMAIN Plan[b] /\ Plan[b][Index[f]] = f BY <1>9, Places
  <2> QED BY <1>5, <1>7, <2>1
<1>10. DOMAIN q = DOMAIN Plan[b] BY <1>5
<1> HIDE DEF q
<1>11. \A i \in DOMAIN q : q[i].kind = "Progress" /\ q[i].file \in Files /\ Of[q[i].file] = b
  BY <1>3, <1>7, <1>10
<1> QED BY <1>6, <1>8, <1>9, <1>11 DEF q

\* The announcement is true of a drop whose files are all under way.
LEMMA AnnounceTrue ==
  ASSUME NEW b \in Drops, NEW q, q = Announce(b),
         \A g \in Files : Of[g] = b => g \notin retired' /\ Owed(g)'
  PROVE  /\ Update(b, q)' /\ \A i \in DOMAIN q : q[i].kind # "Finished"
         /\ emitted' = q => \A g \in Files : Of[g] = b => ~Settled(g)'
<1>1. /\ q \in Seq(Events)
      /\ \A i \in DOMAIN q : q[i].kind = "Progress" /\ q[i].file \in Files /\ Of[q[i].file] = b
      /\ \A i, j \in DOMAIN q : i # j => q[i].file # q[j].file
      /\ \A f \in Files : Of[f] = b => \E i \in DOMAIN q : q[i].file = f
  BY Announced
<1>2. ASSUME NEW i \in DOMAIN q PROVE EventTrue(q[i])' /\ IsFile(q[i])
  <2>1. PICK e : e = q[i] OBVIOUS
  <2>2. e.file \notin retired' /\ Owed(e.file)' /\ e.kind = "Progress" BY <1>1, <2>1
  <2>3. EventTrue(e)' /\ IsFile(e) BY <2>2 DEF EventTrue, IsFile, Kinds
  <2> QED BY <2>1, <2>3 DEF EventTrue
<1>3. Update(b, q)'
  <2>1. \A i \in DOMAIN q : q[i].kind # "Aborted" BY <1>1
  <2> QED BY <1>1, <1>2, <2>1 DEF Update
<1>4. ASSUME emitted' = q, NEW g \in Files, Of[g] = b PROVE ~Settled(g)'
  <2>1. PICK i \in DOMAIN q : q[i].file = g BY <1>1, <1>4
  <2> QED BY <1>2, <1>4, <2>1 DEF Settled
<1> QED BY <1>1, <1>3, <1>4

\* Drops under way are counted.
LEMMA CountSame ==
  ASSUME Counted, NEW b \in Drops, stage \in [Drops -> Stages],
         NEW s, stage' = [stage EXCEPT ![b] = s], alive' = alive, running' = running,
         stage[b] \notin {"none", "over"}, s \notin {"none", "over"}
  PROVE  Counted'
<1>1. UnderWay' = UnderWay BY DEF UnderWay
<1> QED BY <1>1 DEF Counted

\* A drop that gets under way adds one to those under way.
LEMMA CountMore ==
  ASSUME Counted, NEW b \in Drops, stage \in [Drops -> Stages],
         stage' = [stage EXCEPT ![b] = "resolving"], alive' = alive, running' = running + 1,
         stage[b] = "none"
  PROVE  Counted'
<1>1. UnderWay' = UnderWay \cup {b} /\ b \notin UnderWay BY DEF UnderWay
<1>2. ASSUME alive
      PROVE  IsFiniteSet(UnderWay \cup {b}) /\ running + 1 = Cardinality(UnderWay \cup {b})
  <2>1. IsFiniteSet(UnderWay) /\ running = Cardinality(UnderWay) BY <1>2 DEF Counted
  <2> QED BY <1>1, <2>1, FS_AddElement
<1> QED BY <1>1, <1>2 DEF Counted

\* A drop that ends takes one from those under way.
LEMMA CountLess ==
  ASSUME Counted, NEW b \in Drops, stage \in [Drops -> Stages],
         stage' = [stage EXCEPT ![b] = "over"], alive' = alive,
         running' = IF alive THEN running - 1 ELSE running,
         stage[b] \notin {"none", "over"}
  PROVE  Counted'
<1>1. UnderWay' = UnderWay \ {b} /\ b \in UnderWay BY DEF UnderWay
<1>2. ASSUME alive
      PROVE  IsFiniteSet(UnderWay \ {b}) /\ running - 1 = Cardinality(UnderWay \ {b})
  <2>1. IsFiniteSet(UnderWay) /\ running = Cardinality(UnderWay) BY <1>2 DEF Counted
  <2> QED BY <1>1, <2>1, FS_RemoveElement
<1> QED BY <1>1, <1>2 DEF Counted

\* No file of a drop that is not over, and has no worker yet, was dismissed.
LEMMA NoneRetired ==
  ASSUME DInv, NEW g \in Files, stage[Of[g]] # "over", phase[g] = "waiting"
  PROVE  g \notin retired
BY Facts DEF RowsTrue, Heard, Over

\* The drop is confirmed and announced.
LEMMA ConfirmStep == ASSUME DInv, NEW b \in Drops, NEW n \in Requests, Confirm(b, n) PROVE DInv'
<1>0. /\ stage \in [Drops -> Stages] /\ probe \in [Drops -> Names]
      /\ name \in [Files -> Names \cup {Absent}]
      /\ active \in [Drops -> Nat] /\ phase \in [Files -> Phases]
      /\ Staged /\ RowsTrue /\ Counted
  BY Facts
<1>1. /\ Quiet /\ alive /\ stage[b] = "none" /\ stage' = [stage EXCEPT ![b] = "resolving"]
      /\ running' = running + 1 /\ Emit(Announce(b))
      /\ UNCHANGED <<listVars, probe, name, active, uploaded, workVars, serverVars,
                     told, timers, alive>>
  BY DEF Confirm
<1>2. /\ name' = name /\ active' = active /\ uploaded' = uploaded /\ probe' = probe
      /\ phase' = phase /\ sent' = sent /\ chan' = chan /\ retired' = retired /\ alive' = alive
  BY <1>1 DEF workVars, listVars
<1>3. /\ stage'[b] = "resolving" /\ stage' \in [Drops -> Stages]
      /\ \A c \in Drops : c # b => stage'[c] = stage[c]
  BY <1>0, <1>1 DEF Stages
<1>4. OnlyDrop(b) BY <1>1, <1>2, <1>3 DEF OnlyDrop, Spawns
<1>5. \A g \in Files : Of[g] = b => /\ name[g] = Absent /\ phase[g] = "waiting" /\ ~Owed(g)
                                    /\ g \notin retired' /\ Owed(g)'
  <2> SUFFICES ASSUME NEW g \in Files, Of[g] = b
               PROVE  /\ name[g] = Absent /\ phase[g] = "waiting" /\ ~Owed(g)
                      /\ g \notin retired' /\ Owed(g)'
    OBVIOUS
  <2>1. name[g] = Absent /\ phase[g] = "waiting" BY <1>0, <1>1 DEF Staged
  <2>2. g \notin retired' BY <1>1, <1>2, <2>1, NoneRetired
  <2> QED BY <1>1, <1>3, <2>1, <2>2 DEF Owed
<1>6. DropStaged(b)' BY <1>2, <1>3, <1>5 DEF DropStaged
<1>7. PICK q : q = Announce(b) OBVIOUS
<1>8. emitted' = q
  <2>1. q \in Seq(Events) BY <1>7, Announced
  <2> QED BY <1>1, <1>7, <2>1, Emits
<1>9. /\ Update(b, q)' /\ \A i \in DOMAIN q : q[i].kind # "Finished"
      /\ \A g \in Files : Of[g] = b => ~Settled(g)'
  BY <1>5, <1>7, <1>8, AnnounceTrue
<1>10. Served' BY <1>2, <1>4, ServedOn
<1>11. Counted' BY <1>0, <1>1, <1>2, CountMore
<1> QED BY <1>0, <1>1, <1>2, <1>3, <1>4, <1>6, <1>8, <1>9, <1>10, <1>11, PlanFrame

\* A drop is given up before any worker of it was started.
LEMMA GiveUpStep ==
  ASSUME DInv, NEW b \in Drops, Quiet, stage[b] \in {"resolving", "planning"}, GiveUp(b),
         UNCHANGED <<poolVars, listVars, limit, uploaded, sent, chan, serverVars,
                     told, timers, cancel, alive>>
  PROVE  DInv'
<1>0. /\ stage \in [Drops -> Stages] /\ probe \in [Drops -> Names]
      /\ name \in [Files -> Names \cup {Absent}]
      /\ active \in [Drops -> Nat] /\ phase \in [Files -> Phases] /\ alive \in BOOLEAN
      /\ Staged /\ RowsTrue /\ Counted
  BY Facts
<1>1. /\ stage' = [stage EXCEPT ![b] = "over"] /\ Emit(Notice(b, "Aborted", 0))
      /\ running' = IF alive THEN running - 1 ELSE running
      /\ probe' = probe /\ name' = name /\ active' = active /\ phase' = phase
      /\ uploaded' = uploaded /\ sent' = sent /\ chan' = chan /\ alive' = alive
  BY DEF GiveUp
<1>2. /\ stage'[b] = "over" /\ stage' \in [Drops -> Stages]
      /\ \A c \in Drops : c # b => stage'[c] = stage[c]
  BY <1>0, <1>1 DEF Stages
<1>3. OnlyDrop(b) BY <1>1, <1>2 DEF OnlyDrop, Spawns
<1>4. \A g \in Files : Of[g] = b => phase[g] = "waiting" BY <1>0 DEF Staged
<1>5. AllWaiting(b)' BY <1>1, <1>4, Planned DEF AllWaiting, Members
<1>6. DropStaged(b)' BY <1>1, <1>2, <1>4, <1>5 DEF DropStaged
<1> DEFINE m == [kind |-> "Aborted", drop |-> b, count |-> 0]
<1>7. m \in Notices /\ m.kind = "Aborted" /\ m.drop = b /\ m \in Events BY DEF Notices, Events
<1>8. Notice(b, "Aborted", 0) = <<m>> BY DEF Notice
<1> HIDE DEF m
<1>9. <<m>> \in Seq(Events) /\ DOMAIN <<m>> = {1} /\ <<m>>[1] = m
  <2>1. <<m>> \in Seq(Events) /\ Len(<<m>>) = 1 /\ <<m>>[1] = m BY <1>7
  <2> QED BY <2>1, LenProperties
<1>10. PICK q : q = IF alive THEN <<m>> ELSE <<>> OBVIOUS
<1>11. emitted' = q BY <1>1, <1>8, <1>9, <1>10, Emits
<1>12. ~IsFile(m) BY <1>7 DEF IsFile, Kinds, Verdicts
<1>13. NoticeTrue(m)'
  <2>1. m.kind # "Complete" BY <1>7
  <2> QED BY <1>2, <1>5, <1>7, <2>1 DEF NoticeTrue, AllWaiting, Members
<1>14. /\ Update(b, q)' /\ \A i \in DOMAIN q : q[i].kind # "Finished"
       /\ alive => q = <<m>>
       /\ ~alive => q = <<>>
  <2>1. CASE alive
    <3>1. q = <<m>> BY <1>10, <2>1
    <3>2. \A i \in DOMAIN q : q[i] = m BY <1>9, <3>1
    <3>3. \A i \in DOMAIN q : ~IsFile(q[i]) /\ NoticeTrue(q[i])'
      BY <1>12, <1>13, <3>2 DEF NoticeTrue
    <3>4. Update(b, q)' BY <1>9, <3>1, <3>3 DEF Update
    <3> QED BY <1>7, <2>1, <3>1, <3>2, <3>4
  <2>2. CASE ~alive BY <1>10, <2>2, NoEvents
  <2> QED BY <2>1, <2>2
<1>15. ASSUME alive, NEW g \in Files, Of[g] = b PROVE ~Settled(g)'
  <2>1. 1 \in DOMAIN emitted' /\ emitted'[1] = m BY <1>9, <1>11, <1>14, <1>15
  <2> QED BY <1>7, <1>15, <2>1 DEF Settled
<1>16. Served' BY <1>1, <1>3, ServedOn
<1>17. Counted' BY <1>0, <1>1, CountLess
<1> QED BY <1>0, <1>1, <1>2, <1>3, <1>6, <1>11, <1>14, <1>15, <1>16, <1>17, PlanFrame

\* The next name is asked for.
LEMMA ResolveStep == ASSUME DInv, NEW b \in Drops, Resolve(b) PROVE DInv'
<1>0. /\ stage \in [Drops -> Stages] /\ probe \in [Drops -> Names]
      /\ name \in [Files -> Names \cup {Absent}] /\ alive \in BOOLEAN
      /\ active \in [Drops -> Nat] /\ phase \in [Files -> Phases]
      /\ Staged /\ RowsTrue /\ Counted
  BY Facts
<1>1. /\ Quiet /\ stage[b] = "resolving"
      /\ UNCHANGED <<poolVars, listVars, limit, uploaded, sent, chan, serverVars,
                     told, timers, cancel, alive>>
  BY DEF Resolve
<1>2. CASE GiveUp(b) BY <1>1, <1>2, GiveUpStep
<1>3. CASE /\ Plan[b] # <<>> /\ stage' = [stage EXCEPT ![b] = "planning"]
           /\ UNCHANGED <<probe, name, active, phase, emitted, running>>
  <2>1. /\ stage'[b] = "planning" /\ stage' \in [Drops -> Stages]
        /\ \A c \in Drops : c # b => stage'[c] = stage[c]
    BY <1>0, <1>3 DEF Stages
  <2>2. /\ probe' = probe /\ name' = name /\ active' = active /\ phase' = phase
        /\ emitted' = emitted /\ running' = running
        /\ uploaded' = uploaded /\ sent' = sent /\ chan' = chan /\ alive' = alive
    BY <1>1, <1>3
  <2>3. OnlyDrop(b) BY <1>1, <2>1, <2>2 DEF OnlyDrop, Spawns
  <2>4. \A g \in Files : Of[g] = b => name[g] = Absent /\ phase[g] = "waiting"
    BY <1>0, <1>1 DEF Staged
  <2>5. \A g \in Members(b) : g \in Files /\ Of[g] = b BY Planned
  <2>6. Members(b) # {}
    <3>1. Plan[b] \in Seq(Files) BY DropAssumption
    <3>2. 1 \in DOMAIN Plan[b] BY <1>3, <3>1, EmptySeq, LenProperties
    <3> QED BY <3>2 DEF Members
  <2>7. Unplanned(b)' # {} BY <2>2, <2>4, <2>5, <2>6 DEF Unplanned, Members
  <2>8. Reserved(b, name)' = {} BY <2>2, <2>4, <2>5 DEF Reserved, Members
  <2>9. DropStaged(b)' BY <2>1, <2>2, <2>4, <2>7, <2>8 DEF DropStaged
  <2>10. emitted' = <<>> BY <1>1, <2>2 DEF Quiet
  <2>11. Update(b, <<>>)' /\ DOMAIN <<>> = {} BY NoEvents
  <2>12. \A g \in Files : Of[g] = b => (Owed(g) <=> Owed(g)') BY <1>1, <2>1 DEF Owed
  <2>13. Served' BY <2>2, <2>3, ServedOn
  <2>14. Counted'
    <3>1. UnderWay' = UnderWay BY <1>0, <1>1, <1>3 DEF UnderWay
    <3> QED BY <1>0, <2>2, <3>1 DEF Counted
  <2> QED BY <1>0, <1>1, <2>1, <2>2, <2>3, <2>9, <2>10, <2>11, <2>12, <2>13, <2>14, PlanFrame
<1> QED BY <1>1, <1>2, <1>3 DEF Resolve

\* The workers that start, and the count of those at large.
LEMMA Spawning ==
  ASSUME NEW b \in Drops, NEW n \in Nat, SpawnWorkers(b, phase, n),
         phase \in [Files -> Phases], active \in [Drops -> Nat]
  PROVE  /\ Spawns(b) /\ phase' \in [Files -> Phases] /\ active' \in [Drops -> Nat]
         /\ \A c \in Drops : c # b => active'[c] = active[c]
         /\ \E now \in SUBSET Queue(b, phase) :
               /\ IsFiniteSet(now) /\ active'[b] = n + Cardinality(now)
               /\ \A g \in Files : phase'[g] = IF g \in now THEN "spawned" ELSE phase[g]
               /\ now = Spawned(b, phase, n)
<1>1. PICK now : now = Spawned(b, phase, n) OBVIOUS
<1>2. now \in SUBSET Queue(b, phase) BY <1>1 DEF Spawned
<1>3. Queue(b, phase) \subseteq Members(b) BY DEF Queue
<1>4. Members(b) \subseteq Files /\ IsFiniteSet(Members(b)) BY Planned
<1>5. IsFiniteSet(now) /\ Cardinality(now) \in Nat
  <2>1. now \in SUBSET Members(b) BY <1>2, <1>3
  <2> QED BY <1>4, <2>1, FS_Subset, FS_CardinalityType
<1>6. /\ phase' = [f \in Files |-> IF f \in now THEN "spawned" ELSE phase[f]]
      /\ active' = [active EXCEPT ![b] = n + Cardinality(now)]
  BY <1>1 DEF SpawnWorkers
<1>7. \A g \in now : g \in Files /\ Of[g] = b /\ phase[g] = "waiting"
  BY <1>2, <1>4, Planned DEF Queue
<1>8. "spawned" \in Phases BY DEF Phases, Before
<1> QED BY <1>1, <1>2, <1>5, <1>6, <1>7, <1>8 DEF Spawns

\* A name that nobody has at the server is planned for a file.
LEMMA NameServed ==
  ASSUME DInv, NEW b \in Drops, OnlyDrop(b), NEW f \in Files, Of[f] = b, name[f] = Absent,
         NEW k \in Names, entry[k] = Absent, k \notin Reserved(b, name),
         name' = [name EXCEPT ![f] = k]
  PROVE  Served'
<1>0. /\ name \in [Files -> Names \cup {Absent}] /\ Served
      /\ entry \in [Names -> Files \cup {Absent, Foreign}]
      /\ handle \in [Files -> Files \cup {Absent}]
  BY Facts
<1>1. entry' = entry /\ handle' = handle BY DEF OnlyDrop, serverVars
<1>2. \A g \in Files : phase'[g] \in Copying => phase[g] \in Copying
  BY DEF OnlyDrop, Spawns, Copying
<1>3. name'[f] = k /\ \A g \in Files : g # f => name'[g] = name[g] BY <1>0
<1>4. k # Absent
  <2>1. k \in Nat BY DropAssumption, FS_CardinalityType DEF Names
  <2> QED BY <2>1, Marks
<1>5. \A g \in Files : Of[g] = b => name[g] # k BY <1>4, Planned DEF Reserved
<1>6. ASSUME NEW g \in Files, NEW h \in Files, g # h, Of[g] = Of[h], name'[g] = name'[h]
      PROVE  name'[g] = Absent
  <2>1. CASE g = f BY <1>3, <1>5, <1>6, <2>1
  <2>2. CASE h = f BY <1>3, <1>5, <1>6, <2>2
  <2>3. CASE g # f /\ h # f BY <1>0, <1>3, <1>6, <2>3 DEF Served
  <2> QED BY <2>1, <2>2, <2>3
<1>7. ASSUME NEW j \in Names
      PROVE  /\ entry[j] \in Files => name'[entry[j]] = j
             /\ entry[j] = Foreign => \A g \in Files : name'[g] # j
  <2>1. j # Absent
    <3>1. j \in Nat BY DropAssumption, FS_CardinalityType DEF Names
    <3> QED BY <3>1, Marks
  <2>2. entry[j] \in Files => entry[j] # f BY <1>0, <2>1 DEF Served
  <2>3. entry[j] = Foreign => j # k BY Marks
  <2> QED BY <1>0, <1>3, <2>2, <2>3 DEF Served
<1>8. ASSUME NEW g \in Files
      PROVE  /\ handle[g] # Absent => name'[g] # Absent /\ name'[handle[g]] = name'[g]
             /\ phase'[g] \in Copying => handle[g] # Absent
  <2>1. handle[g] # Absent => name[g] # Absent /\ name[handle[g]] = name[g] BY <1>0 DEF Served
  <2>2. handle[g] # Absent => g # f /\ handle[g] # f /\ handle[g] \in Files BY <1>0, <2>1
  <2>3. phase'[g] \in Copying => handle[g] # Absent BY <1>0, <1>2 DEF Served
  <2> QED BY <1>3, <2>1, <2>2, <2>3
<1> QED BY <1>1, <1>6, <1>7, <1>8 DEF Served

\* A taken name is passed over for the next one not reserved.
LEMMA PassOver ==
  ASSUME DInv, Quiet, NEW b \in Drops, stage[b] = "planning", probe[b] < MaxSuffix,
         NEW k, k = Unreserved(b, name, probe[b] + 1), probe' = [probe EXCEPT ![b] = k],
         UNCHANGED <<stage, name, active, phase, emitted, running>>,
         UNCHANGED <<poolVars, listVars, limit, uploaded, sent, chan, serverVars,
                     told, timers, cancel, alive>>
  PROVE  DInv'
<1>0. /\ stage \in [Drops -> Stages] /\ probe \in [Drops -> Names]
      /\ name \in [Files -> Names \cup {Absent}] /\ alive \in BOOLEAN
      /\ active \in [Drops -> Nat] /\ phase \in [Files -> Phases]
      /\ Staged /\ RowsTrue /\ Counted
  BY Facts
<1>1. k \in Names /\ k \notin Reserved(b, name)
  <2>1. probe[b] + 1 \in 0..MaxSuffix
    <3>1. probe[b] \in Nat /\ MaxSuffix \in Nat
      BY <1>0, DropAssumption, FS_CardinalityType DEF Names
    <3> QED BY <3>1
  <2> QED BY <2>1, UnreservedIs
<1>2. /\ stage' = stage /\ name' = name /\ active' = active /\ phase' = phase
      /\ emitted' = emitted /\ running' = running
      /\ uploaded' = uploaded /\ sent' = sent /\ chan' = chan /\ alive' = alive
  OBVIOUS
<1>3. /\ probe' \in [Drops -> Names] /\ probe'[b] = k
      /\ \A c \in Drops : c # b => probe'[c] = probe[c]
  BY <1>0, <1>1
<1>4. OnlyDrop(b) BY <1>2, <1>3 DEF OnlyDrop, Spawns
<1>5. DropStaged(b)'
  <2>1. \A g \in Files : Of[g] = b => phase[g] = "waiting" BY <1>0 DEF Staged
  <2>2. Unplanned(b)' = Unplanned(b) /\ Reserved(b, name)' = Reserved(b, name)
    BY <1>2 DEF Unplanned, Reserved, Members
  <2>3. Unplanned(b) # {} BY <1>0 DEF Staged
  <2> QED BY <1>1, <1>2, <1>3, <2>1, <2>2, <2>3 DEF DropStaged
<1>6. emitted' = <<>> BY <1>2 DEF Quiet
<1>7. Update(b, <<>>)' /\ DOMAIN <<>> = {} BY NoEvents
<1>8. \A g \in Files : Of[g] = b => (Owed(g) <=> Owed(g)') BY <1>2 DEF Owed, Heard
<1>9. Served' BY <1>2, <1>4, ServedOn
<1>10. Counted' BY <1>0, <1>2 DEF Counted, UnderWay
<1> QED BY <1>0, <1>2, <1>3, <1>4, <1>5, <1>6, <1>7, <1>8, <1>9, <1>10, PlanFrame

\* A free name is planned for the next file; after the last file the workers start.
LEMMA PlanName ==
  ASSUME DInv, Quiet, NEW b \in Drops, stage[b] = "planning", entry[probe[b]] = Absent,
         NEW f, f = NextFile(b), NEW names, names = [name EXCEPT ![f] = probe[b]],
         name' = names, UNCHANGED running,
         UNCHANGED <<poolVars, listVars, limit, uploaded, sent, chan, serverVars,
                     told, timers, cancel, alive>>,
         \/ /\ Unplanned(b) # {f}
            /\ probe' = [probe EXCEPT ![b] = Unreserved(b, names, 0)]
            /\ UNCHANGED <<stage, active, phase, emitted>>
         \/ /\ Unplanned(b) = {f}
            /\ stage' = [stage EXCEPT ![b] = "running"]
            /\ Emit(Announce(b)) /\ SpawnWorkers(b, phase, 0) /\ UNCHANGED probe
  PROVE  DInv'
<1>0. /\ stage \in [Drops -> Stages] /\ probe \in [Drops -> Names]
      /\ name \in [Files -> Names \cup {Absent}] /\ alive \in BOOLEAN
      /\ active \in [Drops -> Nat] /\ phase \in [Files -> Phases]
      /\ Staged /\ RowsTrue /\ Counted
  BY Facts
<1>1. Unplanned(b) # {} /\ probe[b] \notin Reserved(b, name) BY <1>0 DEF Staged
<1>2. f \in Unplanned(b) BY <1>1, NextIsUnplanned
<1>3. f \in Files /\ Of[f] = b /\ name[f] = Absent /\ f \in Members(b)
  BY <1>2, Planned DEF Unplanned
<1>4. PICK k \in Names : k = probe[b] BY <1>0
<1>5. k # Absent
  <2>1. k \in Nat BY DropAssumption, FS_CardinalityType DEF Names
  <2> QED BY <2>1, Marks
<1>6. /\ name' = [name EXCEPT ![f] = k] /\ name'[f] = k
      /\ \A g \in Files : g # f => name'[g] = name[g]
      /\ name' \in [Files -> Names \cup {Absent}]
  BY <1>0, <1>3, <1>4
<1>7. \A g \in Files : Of[g] = b => phase[g] = "waiting" /\ g \notin retired /\ Owed(g)
  <2> SUFFICES ASSUME NEW g \in Files, Of[g] = b
               PROVE  phase[g] = "waiting" /\ g \notin retired /\ Owed(g)
    OBVIOUS
  <2>1. phase[g] = "waiting" BY <1>0 DEF Staged
  <2> QED BY <2>1, NoneRetired DEF Owed
<1>8. \A g \in Files : name'[g] = name[g] \/ (name[g] = Absent /\ phase[g] = "waiting")
  BY <1>3, <1>6, <1>7
<1>9. /\ uploaded' = uploaded /\ sent' = sent /\ chan' = chan /\ alive' = alive
      /\ retired' = retired /\ running' = running
  BY DEF listVars
<1>10. entry[k] = Absent /\ k \notin Reserved(b, name) BY <1>1, <1>4
<1>11. CASE /\ Unplanned(b) # {f} /\ probe' = [probe EXCEPT ![b] = Unreserved(b, names, 0)]
            /\ UNCHANGED <<stage, active, phase, emitted>>
  <2>1. PICK j : j = Unreserved(b, names, 0) OBVIOUS
  <2>2. j \in Names /\ j \notin Reserved(b, names)
    <3>1. 0 \in 0..MaxSuffix BY DropAssumption
    <3> QED BY <2>1, <3>1, UnreservedIs
  <2>3. /\ probe' \in [Drops -> Names] /\ probe'[b] = j
        /\ \A c \in Drops : c # b => probe'[c] = probe[c]
    BY <1>0, <1>11, <2>1, <2>2
  <2>4. stage' = stage /\ active' = active /\ phase' = phase /\ emitted' = emitted BY <1>11
  <2>5. OnlyDrop(b) BY <1>3, <1>6, <1>9, <2>3, <2>4 DEF OnlyDrop, Spawns
  <2>6. DropStaged(b)'
    <3>1. PICK g \in Unplanned(b) : g # f BY <1>1, <1>2, <1>11
    <3>2. g \in Files /\ g \in Members(b) /\ name'[g] = Absent
      BY <1>6, <3>1, Planned DEF Unplanned
    <3>3. g \in Unplanned(b)' BY <3>2 DEF Unplanned, Members
    <3>4. Reserved(b, name)' = Reserved(b, names) BY DEF Reserved, Members
    <3> QED BY <1>7, <2>2, <2>3, <2>4, <3>3, <3>4 DEF DropStaged
  <2>7. emitted' = <<>> BY <2>4 DEF Quiet
  <2>8. Update(b, <<>>)' /\ DOMAIN <<>> = {} BY NoEvents
  <2>9. \A g \in Files : Of[g] = b => (Owed(g) <=> Owed(g)') BY <1>9, <2>4 DEF Owed, Heard
  <2>10. Served' BY <1>3, <1>6, <1>10, <2>5, NameServed
  <2>11. Counted' BY <1>0, <1>9, <2>4 DEF Counted, UnderWay
  <2> QED BY <1>0, <1>6, <1>8, <1>9, <2>3, <2>4, <2>5, <2>6, <2>7, <2>8, <2>9, <2>10, <2>11,
             PlanFrame
<1>12. CASE /\ Unplanned(b) = {f} /\ stage' = [stage EXCEPT ![b] = "running"]
            /\ Emit(Announce(b)) /\ SpawnWorkers(b, phase, 0) /\ UNCHANGED probe
  <2>1. /\ stage'[b] = "running" /\ stage' \in [Drops -> Stages] /\ probe' = probe
        /\ \A c \in Drops : c # b => stage'[c] = stage[c]
    BY <1>0, <1>12 DEF Stages
  <2>2. /\ Spawns(b) /\ phase' \in [Files -> Phases] /\ active' \in [Drops -> Nat]
        /\ \A c \in Drops : c # b => active'[c] = active[c]
        /\ \E now \in SUBSET Queue(b, phase) :
               /\ IsFiniteSet(now) /\ active'[b] = 0 + Cardinality(now)
               /\ \A g \in Files : phase'[g] = IF g \in now THEN "spawned" ELSE phase[g]
               /\ now = Spawned(b, phase, 0)
    BY <1>0, <1>12, Spawning
  <2>3. PICK now \in SUBSET Queue(b, phase) :
               /\ IsFiniteSet(now) /\ active'[b] = 0 + Cardinality(now)
               /\ \A g \in Files : phase'[g] = IF g \in now THEN "spawned" ELSE phase[g]
    BY <2>2
  <2>4. OnlyDrop(b) BY <1>3, <1>6, <1>9, <2>1, <2>2 DEF OnlyDrop
  <2>5. \A g \in Files : Of[g] = b => phase'[g] \notin Over /\ ~Heard(g)'
    BY <1>7, <2>3 DEF Heard, Over
  <2>6. \A g \in Files : Of[g] = b => g \notin retired' /\ Owed(g)'
    BY <1>7, <1>9, <2>1, <2>5 DEF Owed
  <2>7. AtLarge(b)' = now
    <3>1. \A g \in Members(b) : /\ g \in Files /\ Of[g] = b
                                /\ phase'[g] # "waiting" <=> g \in now
      BY <1>7, <2>3, Planned
    <3>2. now \subseteq Members(b) BY DEF Queue
    <3> QED BY <2>5, <3>1, <3>2 DEF AtLarge, Members
  <2>8. active'[b] = Cardinality(now)
    <3>1. Cardinality(now) \in Nat BY <2>3, FS_CardinalityType
    <3> QED BY <2>3, <3>1
  <2>9. \A g \in Files : Of[g] = b => name'[g] # Absent
    <3> SUFFICES ASSUME NEW g \in Files, Of[g] = b, name'[g] = Absent PROVE FALSE OBVIOUS
    <3>1. g # f BY <1>5, <1>6
    <3>2. g \in Unplanned(b) BY <1>6, <3>1, Planned DEF Unplanned
    <3> QED BY <1>12, <3>1, <3>2
  <2>10. DropStaged(b)' BY <2>1, <2>7, <2>8, <2>9 DEF DropStaged
  <2>11. PICK a : a = Announce(b) OBVIOUS
  <2>12. a \in Seq(Events) BY <2>11, Announced
  <2>13. PICK q : q = IF alive THEN a ELSE <<>> OBVIOUS
  <2>14. emitted' = q BY <1>12, <2>11, <2>12, <2>13, Emits
  <2>15. /\ Update(b, q)' /\ \A i \in DOMAIN q : q[i].kind # "Finished"
         /\ ~alive => q = <<>>
         /\ alive => \A g \in Files : Of[g] = b => ~Settled(g)'
    <3>1. CASE alive
      <4>1. q = a BY <2>13, <3>1
      <4> QED BY <2>6, <2>11, <2>14, <3>1, <4>1, AnnounceTrue
    <3>2. CASE ~alive BY <2>13, <3>2, NoEvents
    <3> QED BY <3>1, <3>2
  <2>16. Served' BY <1>3, <1>6, <1>10, <2>4, NameServed
  <2>17. Counted' BY <1>0, <1>9, <1>12, CountSame
  <2> QED BY <1>0, <1>6, <1>8, <1>9, <2>1, <2>2, <2>4, <2>10, <2>14, <2>15, <2>16, <2>17, PlanFrame
<1> QED BY <1>11, <1>12

\* The server answers.
LEMMA MetadataStep == ASSUME DInv, NEW b \in Drops, MetadataReturns(b) PROVE DInv'
<1>1. /\ Quiet /\ stage[b] = "planning"
      /\ UNCHANGED <<poolVars, listVars, limit, uploaded, sent, chan, serverVars,
                     told, timers, cancel, alive>>
  BY DEF MetadataReturns
<1>2. CASE GiveUp(b) BY <1>1, <1>2, GiveUpStep
<1>3. CASE /\ probe[b] < MaxSuffix
           /\ probe' = [probe EXCEPT ![b] = Unreserved(b, name, @ + 1)]
           /\ UNCHANGED <<stage, name, active, phase, emitted, running>>
  <2>1. PICK k : k = Unreserved(b, name, probe[b] + 1) OBVIOUS
  <2>2. probe' = [probe EXCEPT ![b] = k] BY <1>3, <2>1
  <2> QED BY <1>1, <1>3, <2>1, <2>2, PassOver
<1>4. CASE /\ entry[probe[b]] = Absent
           /\ LET f     == NextFile(b)
                  names == [name EXCEPT ![f] = probe[b]]
              IN  /\ name' = names
                  /\ IF Unplanned(b) # {f}
                     THEN /\ probe' = [probe EXCEPT ![b] = Unreserved(b, names, 0)]
                          /\ UNCHANGED <<stage, active, phase, emitted>>
                     ELSE /\ stage' = [stage EXCEPT ![b] = "running"]
                          /\ Emit(Announce(b))
                          /\ SpawnWorkers(b, phase, 0)
                          /\ UNCHANGED probe
           /\ UNCHANGED running
  <2>1. PICK f : f = NextFile(b) OBVIOUS
  <2>2. PICK names : names = [name EXCEPT ![f] = probe[b]] OBVIOUS
  <2>3. \/ /\ Unplanned(b) # {f}
           /\ probe' = [probe EXCEPT ![b] = Unreserved(b, names, 0)]
           /\ UNCHANGED <<stage, active, phase, emitted>>
        \/ /\ Unplanned(b) = {f}
           /\ stage' = [stage EXCEPT ![b] = "running"]
           /\ Emit(Announce(b)) /\ SpawnWorkers(b, phase, 0) /\ UNCHANGED probe
    BY <1>4, <2>1, <2>2
  <2>4. name' = names /\ running' = running BY <1>4, <2>1, <2>2
  <2> QED BY <1>1, <1>4, <2>1, <2>2, <2>3, <2>4, PlanName
<1> QED BY <1>1, <1>2, <1>3, <1>4 DEF MetadataReturns

\* What the loop of a drop knows once it received a message: a verdict is the
\* last of its file, and nothing else changes.
LEMMA Received ==
  ASSUME DInv, NEW b \in Drops, chan[b] # <<>>, NEW m, m = Head(chan[b]),
         chan' = [chan EXCEPT ![b] = Tail(@)],
         phase' \in [Files -> Phases], Spawns(b)
  PROVE  /\ m \in Messages /\ m.file \in Files /\ Of[m.file] = b
         /\ chan' \in [Drops -> Seq(Messages)] /\ Channels'
         /\ \A c \in Drops : c # b => chan'[c] = chan[c]
         /\ ~Heard(m.file) /\ phase[m.file] # "waiting" /\ (Heard(m.file)' <=> EndsWorker(m))
         /\ \A g \in Files : g # m.file => (Heard(g)' <=> Heard(g))
         /\ \A g \in Files : Sending(g)' => Sending(g)
         /\ m.kind = "Finished" => Sending(m.file)
<1>0. phase \in [Files -> Phases] /\ chan \in [Drops -> Seq(Messages)] /\ Channels BY Facts
<1>1. PICK s \in Seq(Messages) : s = chan[b] BY <1>0
<1>2. PICK t : t = Tail(s) OBVIOUS
<1> DEFINE f == m.file
<1>3. /\ t \in Seq(Messages) /\ m \in Messages /\ 1 \in DOMAIN s /\ m = s[1] /\ s # <<>>
      /\ \A i \in DOMAIN t : i + 1 \in DOMAIN s /\ t[i] = s[i + 1]
  BY <1>1, <1>2, Tails
<1>4. f \in Files /\ Of[f] = b BY <1>0, <1>1, <1>3 DEF Messages, Channels
<1>5. /\ chan' \in [Drops -> Seq(Messages)] /\ chan'[b] = t
      /\ \A c \in Drops : c # b => chan'[c] = chan[c]
  BY <1>0, <1>1, <1>2, <1>3
<1>6. ~Silent(s, f) BY <1>3 DEF Silent
<1>7. \A g : /\ Silent(s, g) => Silent(t, g)
             /\ Talking(s, g) => Talking(t, g)
             /\ f # g /\ Silent(t, g) => Silent(s, g)
             /\ Ended(s, g) /\ (f # g \/ m.kind \notin Verdicts) => Ended(t, g)
             /\ Ended(s, g) /\ f = g /\ m.kind \in Verdicts => Silent(t, g)
  <2>1. m = Head(s) BY <1>1
  <2> QED BY <1>2, <1>3, <2>1, TailKeeps
<1> HIDE DEF f
<1>8. phase[f] \in Copying \cup Over
  <2>1. phase[f] \notin Before BY <1>0, <1>1, <1>4, <1>6 DEF Channels
  <2> QED BY <1>0, <1>4, <2>1 DEF Phases
<1>9. \A g \in Files : /\ phase'[g] \in Before <=> phase[g] \in Before
                       /\ phase'[g] \in Copying <=> phase[g] \in Copying
                       /\ phase'[g] \in Over <=> phase[g] \in Over
  BY DEF Spawns, Before, Copying, Over
<1>10. ~Heard(f) BY <1>1, <1>4, <1>6 DEF Heard
<1>11. phase[f] # "waiting" BY <1>8 DEF Copying, Over
<1>12. phase[f] \in Over => Ended(s, f) BY <1>0, <1>1, <1>4, <1>6 DEF Channels
<1>13. Heard(f)' <=> EndsWorker(m)
  <2>1. CASE EndsWorker(m)
    <3>1. m.kind \in Verdicts BY <2>1 DEF EndsWorker
    <3>2. ~Talking(s, f) BY <1>3, <3>1 DEF Talking, Verdicts, f
    <3>3. phase[f] \in Over BY <1>0, <1>1, <1>4, <1>8, <3>2 DEF Channels
    <3>4. Silent(t, f) BY <1>7, <1>12, <3>1, <3>3
    <3> QED BY <1>4, <1>5, <1>9, <2>1, <3>3, <3>4 DEF Heard
  <2>2. CASE ~EndsWorker(m)
    <3>1. m.kind \notin Verdicts BY <2>2 DEF EndsWorker
    <3>2. phase[f] \in Over => ~Silent(t, f) BY <1>7, <1>12, <3>1, EndedSpoke
    <3> QED BY <1>4, <1>5, <1>9, <2>2, <3>2 DEF Heard
  <2> QED BY <2>1, <2>2
<1>14. ASSUME NEW g \in Files PROVE chan'[Of[g]] = IF Of[g] = b THEN t ELSE chan[Of[g]]
  BY <1>5, Planned
<1>15. ASSUME NEW g \in Files, g # f PROVE Heard(g)' <=> Heard(g)
  <2>1. CASE Of[g] = b
    <3>1. Silent(t, g) <=> Silent(s, g) BY <1>7, <1>15
    <3> QED BY <1>1, <1>5, <1>9, <2>1, <3>1 DEF Heard
  <2>2. CASE Of[g] # b BY <1>9, <1>14, <2>2 DEF Heard
  <2> QED BY <2>1, <2>2
<1>16. ASSUME NEW g \in Files, Sending(g)' PROVE Sending(g)
  <2>1. CASE Of[g] = b
    <3>1. PICK i \in DOMAIN t : t[i].file = g /\ t[i].kind = "Finished"
      BY <1>5, <1>16, <2>1 DEF Sending
    <3>2. i + 1 \in DOMAIN s /\ s[i + 1].file = g /\ s[i + 1].kind = "Finished" BY <1>3, <3>1
    <3> QED BY <1>1, <2>1, <3>2 DEF Sending
  <2>2. CASE Of[g] # b BY <1>14, <1>16, <2>2 DEF Sending
  <2> QED BY <2>1, <2>2
<1>17. m.kind = "Finished" => Sending(f) BY <1>1, <1>3, <1>4 DEF Sending, f
<1>18. Channels'
  <2>1. ASSUME NEW c \in Drops, NEW i \in DOMAIN chan'[c] PROVE Of[chan'[c][i].file] = c
    <3>1. CASE c = b
      <4>1. i \in DOMAIN t /\ chan'[c][i] = t[i] BY <1>5, <2>1, <3>1
      <4>2. i + 1 \in DOMAIN s /\ t[i] = s[i + 1] BY <1>3, <4>1
      <4> QED BY <1>0, <1>1, <3>1, <4>1, <4>2 DEF Channels
    <3>2. CASE c # b BY <1>0, <1>5, <2>1, <3>2 DEF Channels
    <3> QED BY <3>1, <3>2
  <2>2. ASSUME NEW g \in Files
        PROVE  /\ phase'[g] \in Before => Silent(chan'[Of[g]], g)
               /\ phase'[g] \in Copying => Talking(chan'[Of[g]], g)
               /\ phase'[g] \in Over => Silent(chan'[Of[g]], g) \/ Ended(chan'[Of[g]], g)
    <3>1. CASE Of[g] = b
      <4>1. /\ phase[g] \in Before => Silent(s, g)
            /\ phase[g] \in Copying => Talking(s, g)
            /\ phase[g] \in Over => Silent(s, g) \/ Ended(s, g)
        BY <1>0, <1>1, <3>1 DEF Channels
      <4>2. Ended(s, g) => Ended(t, g) \/ Silent(t, g) BY <1>7
      <4> QED BY <1>5, <1>7, <1>9, <3>1, <4>1, <4>2
    <3>2. CASE Of[g] # b BY <1>0, <1>9, <1>14, <3>2 DEF Channels
    <3> QED BY <3>1, <3>2
  <2> QED BY <2>1, <2>2 DEF Channels
<1> QED BY <1>3, <1>4, <1>5, <1>10, <1>11, <1>13, <1>15, <1>16, <1>17, <1>18 DEF f

\* The workers at large once a message was received and others were spawned.
LEMMA AtLargeAfter ==
  ASSUME DInv, NEW b \in Drops, stage[b] = "running",
         NEW f \in Files, Of[f] = b, ~Heard(f), phase[f] # "waiting",
         NEW m, Heard(f)' <=> EndsWorker(m),
         \A g \in Files : g # f => (Heard(g)' <=> Heard(g)),
         NEW now \in SUBSET Queue(b, phase), IsFiniteSet(now),
         \A g \in Files : phase'[g] = IF g \in now THEN "spawned" ELSE phase[g],
         NEW n, n = active[b] - (IF EndsWorker(m) THEN 1 ELSE 0)
  PROVE  /\ n \in Nat /\ Cardinality(AtLarge(b)') = n + Cardinality(now)
         /\ ~EndsWorker(m) => n # 0
         /\ n = 0 /\ Queue(b, phase) = {} => \A g \in Members(b) : Heard(g)'
<1>0. active \in [Drops -> Nat] /\ Staged BY Facts
<1>1. active[b] \in Nat /\ active[b] = Cardinality(AtLarge(b)) BY <1>0 DEF Staged
<1>2. Members(b) \subseteq Files /\ IsFiniteSet(Members(b)) /\ f \in Members(b) BY Planned
<1>3. PICK L : L = AtLarge(b) OBVIOUS
<1>4. f \in L /\ L \subseteq Members(b) BY <1>2, <1>3 DEF AtLarge
<1>5. IsFiniteSet(L) BY <1>2, <1>4, FS_Subset
<1>6. PICK K : K = IF EndsWorker(m) THEN L \ {f} ELSE L OBVIOUS
<1>7. IsFiniteSet(K) /\ Cardinality(K) = n /\ n \in Nat
  <2>1. /\ IsFiniteSet(L \ {f}) /\ Cardinality(L \ {f}) = Cardinality(L) - 1
        /\ Cardinality(L \ {f}) \in Nat
    BY <1>4, <1>5, FS_RemoveElement, FS_CardinalityType
  <2> QED BY <1>1, <1>3, <1>5, <1>6, <2>1
<1>8. ~EndsWorker(m) => n # 0
  <2> SUFFICES ASSUME ~EndsWorker(m), n = 0 PROVE FALSE OBVIOUS
  <2>1. Cardinality(L) = 0 /\ IsFiniteSet(L) BY <1>6, <1>7
  <2>2. L = {} BY <2>1, FS_EmptySet
  <2> QED BY <1>4, <2>2
<1>9. \A g \in now : g \in Members(b) /\ phase[g] = "waiting" BY DEF Queue
<1>10. AtLarge(b)' = K \cup now
  <2>1. ASSUME NEW g \in Members(b)
        PROVE  phase'[g] # "waiting" /\ ~Heard(g)' <=> g \in K \cup now
    <3>1. g \in Files BY <1>2
    <3>2. CASE g \in now
      <4>1. phase'[g] = "spawned" BY <3>1, <3>2
      <4>2. ~Heard(g)' BY <4>1 DEF Heard, Over
      <4> QED BY <3>2, <4>1, <4>2
    <3>3. CASE g \notin now
      <4>1. phase'[g] = phase[g] BY <3>1, <3>3
      <4>2. g \in L <=> phase[g] # "waiting" /\ ~Heard(g) BY <1>3 DEF AtLarge
      <4>3. CASE g = f BY <1>4, <1>6, <3>3, <4>1, <4>2, <4>3
      <4>4. CASE g # f BY <1>6, <3>1, <3>3, <4>1, <4>2, <4>4
      <4> QED BY <4>3, <4>4
    <3> QED BY <3>2, <3>3
  <2>2. K \cup now \subseteq Members(b) BY <1>4, <1>6, <1>9
  <2> QED BY <2>1, <2>2 DEF AtLarge, Members
<1>11. K \cap now = {} BY <1>3, <1>6, <1>9 DEF AtLarge
<1>12. Cardinality(K \cup now) = n + Cardinality(now)
  <2>1. Cardinality(K \cap now) = 0 BY <1>11, FS_EmptySet
  <2>2. Cardinality(K \cup now) = Cardinality(K) + Cardinality(now) - Cardinality(K \cap now)
    BY <1>7, FS_Union
  <2>3. Cardinality(now) \in Nat BY FS_CardinalityType
  <2> QED BY <1>7, <2>1, <2>2, <2>3
<1>13. ASSUME n = 0, Queue(b, phase) = {}, NEW g \in Members(b) PROVE Heard(g)'
  <2>1. K = {} BY <1>7, <1>13, FS_EmptySet
  <2>2. now = {} /\ phase[g] # "waiting" BY <1>13 DEF Queue
  <2>3. g \in Files BY <1>2
  <2>4. g \notin AtLarge(b)' BY <1>10, <2>1, <2>2
  <2>5. phase'[g] = phase[g] BY <2>2, <2>3
  <2> QED BY <2>2, <2>4, <2>5 DEF AtLarge, Members
<1> QED BY <1>7, <1>8, <1>10, <1>12, <1>13

\* The event of a message, and the last word of the drop if it was the last.
LEMMA ReceivedTrue ==
  ASSUME NEW b \in Drops, NEW m \in Messages, m.file \in Files, Of[m.file] = b,
         m.file \notin retired', Heard(m.file)' <=> EndsWorker(m),
         NEW q, NEW k \in Nat,
         \/ q = <<EventOf(m)>> /\ stage'[b] = "running"
         \/ /\ q = <<EventOf(m)>> \o Notice(b, "Complete", k)
            /\ stage'[b] = "over" /\ k = Cardinality(uploaded'[b]) /\ EndsWorker(m)
  PROVE  /\ Update(b, q)' /\ q \in Seq(Events)
         /\ \A i \in DOMAIN q : q[i].kind = "Finished" => m.kind = "Finished" /\ q[i].file = m.file
         /\ emitted' = q => ~Settled(m.file)'
<1>1. PICK e : e = EventOf(m) OBVIOUS
<1>2. /\ e \in Messages /\ e.file = m.file /\ e.kind # "Failed" /\ e.kind \in Kinds
      /\ e.kind = "Finished" <=> m.kind = "Finished"
      /\ e.kind = "Progress" <=> ~EndsWorker(m)
  BY <1>1 DEF EventOf, EndsWorker, Messages, Kinds, Verdicts
<1>3. e \in Events /\ IsFile(e) /\ e.kind # "Aborted" BY <1>2 DEF Events, IsFile, Kinds, Verdicts
<1>4. Owed(e.file)' <=> ~EndsWorker(m) BY <1>2 DEF Owed
<1>5. EventTrue(e)' BY <1>2, <1>4 DEF EventTrue
<1>6. <<e>> \in Seq(Events) /\ Len(<<e>>) = 1 /\ DOMAIN <<e>> = {1} /\ <<e>>[1] = e
  <2>1. <<e>> \in Seq(Events) /\ Len(<<e>>) = 1 /\ <<e>>[1] = e BY <1>3
  <2> QED BY <2>1, LenProperties
<1>7. CASE q = <<EventOf(m)>> /\ stage'[b] = "running"
  <2>1. q \in Seq(Events) /\ DOMAIN q = {1} /\ q[1] = e BY <1>1, <1>6, <1>7
  <2>2. \A i \in DOMAIN q : q[i] = e BY <2>1
  <2>3. \A i \in DOMAIN q : IsFile(q[i]) /\ EventTrue(q[i])' /\ Of[q[i].file] = b
    BY <1>2, <1>3, <1>5, <2>2 DEF EventTrue
  <2>4. Update(b, q)' BY <2>1, <2>3, <1>3 DEF Update
  <2>5. emitted' = q => ~Settled(m.file)' BY <1>2, <1>3, <2>1 DEF Settled
  <2> QED BY <1>2, <2>1, <2>2, <2>4, <2>5
<1>8. CASE /\ q = <<EventOf(m)>> \o Notice(b, "Complete", k)
           /\ stage'[b] = "over" /\ k = Cardinality(uploaded'[b]) /\ EndsWorker(m)
  <2> DEFINE w == [kind |-> "Complete", drop |-> b, count |-> k]
  <2>1. /\ w \in Notices /\ w.kind = "Complete" /\ w.drop = b /\ w.count = k /\ w \in Events
        /\ Notice(b, "Complete", k) = <<w>>
    BY DEF Notices, Events, Notice
  <2> HIDE DEF w
  <2>2. <<w>> \in Seq(Events) /\ Len(<<w>>) = 1 /\ <<w>>[1] = w BY <2>1
  <2>3. q = <<e>> \o <<w>> BY <1>1, <1>8, <2>1
  <2>4. /\ q \in Seq(Events) /\ Len(q) = 2
        /\ \A i \in 1..2 : q[i] = IF i <= 1 THEN <<e>>[i] ELSE <<w>>[i - 1]
    BY <1>6, <2>2, <2>3, ConcatProperties
  <2>5. DOMAIN q = {1, 2} BY <2>4, LenProperties
  <2>6. q[1] = e /\ q[2] = w BY <1>6, <2>2, <2>4
  <2>7. ~IsFile(w) /\ w.kind # "Aborted" BY <2>1 DEF IsFile, Kinds, Verdicts
  <2>8. NoticeTrue(w)' BY <1>8, <2>1, <2>7 DEF NoticeTrue
  <2>9. ASSUME NEW i \in DOMAIN q
        PROVE  /\ IsFile(q[i]) => i = 1 /\ Of[q[i].file] = b /\ EventTrue(q[i])'
               /\ ~IsFile(q[i]) => NoticeTrue(q[i])'
               /\ q[i].kind # "Aborted"
    <3>1. CASE i = 1 BY <1>2, <1>3, <1>5, <2>6, <3>1 DEF EventTrue
    <3>2. CASE i = 2 BY <2>6, <2>7, <2>8, <3>2 DEF NoticeTrue, AllWaiting, Members
    <3> QED BY <2>5, <3>1, <3>2
  <2>10. Update(b, q)' BY <2>4, <2>9 DEF Update
  <2>11. emitted' = q => ~Settled(m.file)' BY <1>2, <1>3, <2>5, <2>6 DEF Settled
  <2>12. \A i \in DOMAIN q : q[i].kind = "Finished" => m.kind = "Finished" /\ q[i].file = m.file
    BY <1>2, <2>1, <2>5, <2>6
  <2> QED BY <2>4, <2>10, <2>11, <2>12
<1> QED BY <1>7, <1>8

\* One turn of the loop: the message, the workers then active, the files
\* uploaded and what is emitted.
Turn(b, m, n, done, q) ==
    /\ Quiet /\ stage[b] = "running" /\ chan[b] # <<>>
    /\ m = Head(chan[b]) /\ n = active[b] - (IF EndsWorker(m) THEN 1 ELSE 0)
    /\ done = uploaded[b] \cup (IF m.kind = "Finished" THEN {m.file} ELSE {})
    /\ uploaded' = [uploaded EXCEPT ![b] = done]
    /\ IF EndsWorker(m) THEN SpawnWorkers(b, phase, n) ELSE UNCHANGED <<phase, active>>
    /\ Emit(q)
    /\ \/ /\ n = 0 /\ Queue(b, phase) = {} /\ stage' = [stage EXCEPT ![b] = "over"]
          /\ q = <<EventOf(m)>> \o Notice(b, "Complete", Cardinality(done))
          /\ running' = IF alive THEN running - 1 ELSE running
       \/ /\ ~(n = 0 /\ Queue(b, phase) = {}) /\ q = <<EventOf(m)>>
          /\ UNCHANGED <<stage, running>>
    /\ chan' = [chan EXCEPT ![b] = Tail(@)]
    /\ UNCHANGED <<poolVars, listVars, probe, name, limit, sent, serverVars,
                   told, timers, cancel, alive>>

\* A turn of a drop's loop, whatever the message it took.
LEMMA TurnStep ==
  ASSUME DInv, NEW b \in Drops, NEW m, NEW n, NEW done, NEW q, Turn(b, m, n, done, q)
  PROVE  DInv'
<1> USE DEF Turn
<1>0. /\ stage \in [Drops -> Stages] /\ probe \in [Drops -> Names]
      /\ name \in [Files -> Names \cup {Absent}] /\ alive \in BOOLEAN
      /\ active \in [Drops -> Nat] /\ phase \in [Files -> Phases]
      /\ uploaded \in [Drops -> SUBSET Files]
      /\ Staged /\ ToldTrue /\ RowsTrue /\ Counted
  BY Facts
<1>1. /\ probe' = probe /\ name' = name /\ sent' = sent /\ alive' = alive
      /\ tasks' = tasks /\ retired' = retired
  BY DEF listVars
<1>3. /\ Spawns(b) /\ phase' \in [Files -> Phases] /\ active' \in [Drops -> Nat]
      /\ \A c \in Drops : c # b => active'[c] = active[c]
      /\ n \in Nat
      /\ \E now \in SUBSET Queue(b, phase) :
            /\ IsFiniteSet(now) /\ active'[b] = n + Cardinality(now)
            /\ \A g \in Files : phase'[g] = IF g \in now THEN "spawned" ELSE phase[g]
  <2>1. m \in Messages /\ m.file \in Files /\ Of[m.file] = b
    <3>1. chan \in [Drops -> Seq(Messages)] /\ Channels BY Facts
    <3>2. m \in Messages /\ 1 \in DOMAIN chan[b] /\ m = chan[b][1] BY <3>1, Tails
    <3> QED BY <3>1, <3>2 DEF Channels, Messages
  <2>2. active[b] \in Nat /\ active[b] = Cardinality(AtLarge(b)) BY <1>0 DEF Staged
  <2>3. n \in Nat
    <3>1. CASE ~EndsWorker(m) BY <2>2, <3>1
    <3>2. CASE EndsWorker(m)
      <4>1. ~Silent(chan[b], m.file) /\ phase[m.file] # "waiting"
        <5>1. chan \in [Drops -> Seq(Messages)] /\ Channels BY Facts
        <5>2. 1 \in DOMAIN chan[b] /\ m = chan[b][1] BY <5>1, Tails
        <5>3. ~Silent(chan[b], m.file) BY <5>2 DEF Silent
        <5> QED BY <2>1, <5>1, <5>3 DEF Channels, Before
      <4>2. ~Heard(m.file) BY <2>1, <4>1 DEF Heard
      <4>3. m.file \in AtLarge(b) BY <2>1, <4>1, <4>2, Planned DEF AtLarge
      <4>4. IsFiniteSet(AtLarge(b))
        <5>1. AtLarge(b) \in SUBSET Members(b) BY DEF AtLarge
        <5> QED BY <5>1, Planned, FS_Subset
      <4>5. active[b] # 0 BY <2>2, <4>3, <4>4, FS_EmptySet
      <4> QED BY <2>2, <3>2, <4>5
    <3> QED BY <3>1, <3>2
  <2>4. CASE EndsWorker(m)
    <3>1. SpawnWorkers(b, phase, n) BY <2>4
    <3> QED BY <1>0, <2>3, <3>1, Spawning
  <2>5. CASE ~EndsWorker(m)
    <3>1. phase' = phase /\ active' = active /\ n = active[b] BY <2>2, <2>5
    <3>2. IsFiniteSet({}) /\ Cardinality({}) = 0 BY FS_EmptySet
    <3>3. \E now \in SUBSET Queue(b, phase) :
            /\ IsFiniteSet(now) /\ active'[b] = n + Cardinality(now)
            /\ \A g \in Files : phase'[g] = IF g \in now THEN "spawned" ELSE phase[g]
      <4>1. {} \in SUBSET Queue(b, phase) OBVIOUS
      <4>2. active'[b] = n + Cardinality({}) BY <2>2, <3>1, <3>2
      <4> QED BY <3>1, <3>2, <4>1, <4>2
    <3> QED BY <1>0, <2>3, <3>1, <3>3 DEF Spawns
  <2> QED BY <2>4, <2>5
<1>4. PICK now \in SUBSET Queue(b, phase) :
            /\ IsFiniteSet(now) /\ active'[b] = n + Cardinality(now)
            /\ \A g \in Files : phase'[g] = IF g \in now THEN "spawned" ELSE phase[g]
  BY <1>3
<1>5. /\ m \in Messages /\ m.file \in Files /\ Of[m.file] = b
      /\ chan' \in [Drops -> Seq(Messages)] /\ Channels'
      /\ \A c \in Drops : c # b => chan'[c] = chan[c]
      /\ ~Heard(m.file) /\ phase[m.file] # "waiting" /\ (Heard(m.file)' <=> EndsWorker(m))
      /\ \A g \in Files : g # m.file => (Heard(g)' <=> Heard(g))
      /\ \A g \in Files : Sending(g)' => Sending(g)
      /\ m.kind = "Finished" => Sending(m.file)
  BY <1>3, Received
<1>23. /\ Quiet /\ stage[b] = "running" /\ n = active[b] - (IF EndsWorker(m) THEN 1 ELSE 0)
       /\ done = uploaded[b] \cup (IF m.kind = "Finished" THEN {m.file} ELSE {})
       /\ uploaded' = [uploaded EXCEPT ![b] = done] /\ Emit(q)
       /\ \/ /\ n = 0 /\ Queue(b, phase) = {} /\ stage' = [stage EXCEPT ![b] = "over"]
             /\ q = <<EventOf(m)>> \o Notice(b, "Complete", Cardinality(done))
             /\ running' = IF alive THEN running - 1 ELSE running
          \/ /\ ~(n = 0 /\ Queue(b, phase) = {}) /\ q = <<EventOf(m)>>
             /\ UNCHANGED <<stage, running>>
       /\ UNCHANGED <<poolVars, listVars, probe, name, limit, sent, serverVars,
                      told, timers, cancel, alive>>
  OBVIOUS
<1> HIDE DEF Turn
<1>6. /\ Cardinality(AtLarge(b)') = n + Cardinality(now)
      /\ ~EndsWorker(m) => n # 0
      /\ n = 0 /\ Queue(b, phase) = {} => \A g \in Members(b) : Heard(g)'
  <2>1. stage[b] = "running" /\ n = active[b] - (IF EndsWorker(m) THEN 1 ELSE 0) BY <1>23
  <2>2. PICK f \in Files : f = m.file BY <1>5
  <2>3. /\ Of[f] = b /\ ~Heard(f) /\ phase[f] # "waiting" /\ (Heard(f)' <=> EndsWorker(m))
        /\ \A g \in Files : g # f => (Heard(g)' <=> Heard(g))
    BY <1>5, <2>2
  <2> QED BY <1>4, <2>1, <2>2, <2>3, AtLargeAfter
<1>7. /\ stage' \in [Drops -> Stages] /\ stage'[b] \in {"running", "over"}
      /\ \A c \in Drops : c # b => stage'[c] = stage[c]
      /\ stage'[b] = "over" <=> n = 0 /\ Queue(b, phase) = {}
  BY <1>23, <1>0 DEF Stages
<1>8. /\ uploaded' \in [Drops -> SUBSET Files] /\ uploaded'[b] = done
      /\ \A c \in Drops : c # b => uploaded'[c] = uploaded[c]
      /\ done \in SUBSET Files
  <2>1. done \in SUBSET Files BY <1>23, <1>0, <1>5 
  <2> QED BY <1>23, <1>0, <2>1
<1>9. OnlyDrop(b) BY <1>23, <1>1, <1>3, <1>5, <1>7, <1>8 DEF OnlyDrop
<1>10. DropStaged(b)'
  <2>1. \A g \in Files : Of[g] = b => name[g] # Absent BY <1>23, <1>0 DEF Staged
  <2> QED BY <1>1, <1>4, <1>6, <1>7, <2>1 DEF DropStaged, Members
<1>11. \A g \in Files : Heard(g) => Heard(g)' BY <1>23, <1>5
<1>12. \A g \in uploaded'[b] : Of[g] = b /\ Heard(g)'
  <2> SUFFICES ASSUME NEW g \in done PROVE Of[g] = b /\ Heard(g)' BY <1>23, <1>8
  <2>1. CASE g \in uploaded[b] BY <1>23, <1>8, <1>11, <1>0, <2>1 DEF ToldTrue
  <2>2. CASE m.kind = "Finished" /\ g = m.file
    <3>1. EndsWorker(m) BY <2>2 DEF EndsWorker, Verdicts
    <3> QED BY <1>5, <2>2, <3>1
  <2> QED BY <1>23, <2>1, <2>2
<1>13. m.file \notin retired'
  <2>1. ~Heard(m.file) /\ stage[Of[m.file]] # "over" BY <1>23, <1>5
  <2> QED BY <1>0, <1>1, <2>1 DEF RowsTrue
<1>14. /\ Update(b, q)' /\ q \in Seq(Events)
       /\ \A i \in DOMAIN q : q[i].kind = "Finished" => m.kind = "Finished" /\ q[i].file = m.file
       /\ emitted' = q => ~Settled(m.file)'
  <2>1. PICK k : k = Cardinality(done) OBVIOUS
  <2>2. k \in Nat
    <3>1. done \in SUBSET Files BY <1>23, <1>8
    <3> QED BY <2>1, <3>1, DropAssumption, FS_Subset, FS_CardinalityType
  <2>3. n = 0 /\ Queue(b, phase) = {} => EndsWorker(m) BY <1>6
  <2>4. \/ q = <<EventOf(m)>> /\ stage'[b] = "running"
        \/ /\ q = <<EventOf(m)>> \o Notice(b, "Complete", k)
           /\ stage'[b] = "over" /\ k = Cardinality(uploaded'[b]) /\ EndsWorker(m)
    BY <1>23, <1>7, <1>8, <2>1, <2>3
  <2>5. m.file \in Files /\ Of[m.file] = b /\ m.file \notin retired'
        /\ (Heard(m.file)' <=> EndsWorker(m))
    BY <1>5, <1>13
  <2> QED BY <1>5, <2>2, <2>4, <2>5, ReceivedTrue
<1>15. emitted' = IF alive THEN q ELSE <<>> BY <1>23, <1>14, Emits
<1>16. PICK r : r = IF alive THEN q ELSE <<>> OBVIOUS
<1>17. emitted' = r /\ Update(b, r)' /\ (~alive => r = <<>>)
  <2>1. Update(b, <<>>)' BY NoEvents
  <2> QED BY <1>14, <1>15, <1>16, <2>1
<1>18. \A g \in Files : Claimed(g)' => Claimed(g)
  <2> SUFFICES ASSUME NEW g \in Files, Claimed(g)' PROVE Claimed(g) OBVIOUS
  <2>1. CASE g \in uploaded'[Of[g]]
    <3>1. g \in uploaded[Of[g]] \/ (m.kind = "Finished" /\ g = m.file)
      <4>1. Of[g] \in Drops BY Planned
      <4> QED BY <1>23, <1>8, <2>1, <4>1 
    <3> QED BY <1>5, <3>1 DEF Claimed
  <2>2. CASE Sending(g)' BY <1>5, <2>2 DEF Claimed
  <2>3. CASE \E i \in DOMAIN emitted' : emitted'[i].kind = "Finished" /\ emitted'[i].file = g
    <3>1. alive /\ emitted' = q
      <4>1. DOMAIN <<>> = {} BY NoEvents
      <4> QED BY <1>15, <2>3, <4>1
    <3>2. m.kind = "Finished" /\ g = m.file BY <1>14, <2>3, <3>1
    <3> QED BY <1>5, <3>2 DEF Claimed
  <2>4. CASE g \in DOMAIN tasks' /\ tasks'[g].status = "Finished" BY <1>1, <2>4 DEF Claimed
  <2> QED BY <2>1, <2>2, <2>3, <2>4 DEF Claimed
<1>19. WrittenOut' BY <1>1, <1>9, <1>18, NamesAdded
<1>20. Served' BY <1>1, <1>9, ServedOn
<1>21. ASSUME alive, NEW g \in Files, Of[g] = b, Settled(g)' PROVE Running(g) <=> Owed(g)'
  <2>1. g # m.file BY <1>14, <1>15, <1>21
  <2>2. Running(g) <=> Owed(g)
    <3>1. DOMAIN emitted = {} BY <1>23, <1>23 DEF Quiet
    <3>2. Settled(g) BY <3>1 DEF Settled
    <3> QED BY <1>0, <1>21, <3>2 DEF RowsTrue
  <2>3. Owed(g) <=> ~Heard(g) BY <1>23, <1>21 DEF Owed
  <2>4. Heard(g)' <=> Heard(g) BY <1>5, <2>1
  <2>5. stage'[b] = "over" => Heard(g)' BY <1>6, <1>7, <1>21, Planned
  <2> QED BY <1>7, <1>21, <2>2, <2>3, <2>4, <2>5 DEF Owed
<1>22. Counted'
  <2>1. CASE stage' = [stage EXCEPT ![b] = "over"] /\ running' = IF alive THEN running - 1 ELSE running
    BY <1>0, <1>1, <1>23, <2>1, CountLess
  <2>2. CASE stage' = stage /\ running' = running BY <1>0, <1>1, <2>2 DEF Counted, UnderWay
  <2> QED BY <1>23, <2>1, <2>2
<1>24. Quiet /\ stage[b] # "over" BY <1>23
<1>25. /\ stage' \in [Drops -> Stages] /\ probe' \in [Drops -> Names]
       /\ name' \in [Files -> Names \cup {Absent}]
       /\ active' \in [Drops -> Nat] /\ uploaded' \in [Drops -> SUBSET Files]
       /\ phase' \in [Files -> Phases] /\ chan' \in [Drops -> Seq(Messages)] /\ Channels'
  BY <1>0, <1>1, <1>3, <1>5, <1>7, <1>8
<1> QED BY <1>9, <1>10, <1>11, <1>12, <1>17, <1>19, <1>20, <1>21, <1>22, <1>24, <1>25, DropFrame

\* The loop of a drop takes a message: Receive is a turn and the event of the
\* message (handle_upload_msg).
LEMMA ReceiveStep == ASSUME DInv, NEW b \in Drops, Receive(b) PROVE DInv'
<1>1. \E m, n, done, q : Turn(b, m, n, done, q)
  <2> DEFINE m == Head(chan[b])
             n == active[b] - (IF EndsWorker(m) THEN 1 ELSE 0)
             done == uploaded[b] \cup (IF m.kind = "Finished" THEN {m.file} ELSE {})
             last == n = 0 /\ Queue(b, phase) = {}
             q == IF last THEN <<EventOf(m)>> \o Notice(b, "Complete", Cardinality(done))
                          ELSE <<EventOf(m)>>
  <2>1. Turn(b, m, n, done, q) BY DEF Receive, Turn
  <2> HIDE DEF m, n, done, q
  <2> QED BY <2>1
<1> QED BY <1>1, TurnStep

-----------------------------------------------------------------------------
(***************************************************************************)
(* The steps of the window.                                                *)
(***************************************************************************)

\* The index of the list follows a row that is reported.
LEMMA Joins ==
  ASSUME Indexed, NEW r, r.id \in Files, r.group = Of[r.id], List!Upsert(r)
  PROVE  /\ DOMAIN tasks' = DOMAIN tasks \cup {r.id} /\ tasks'[r.id].status = r.status
         /\ \A g \in DOMAIN tasks : g # r.id => tasks'[g] = tasks[g]
         /\ retired' = retired /\ Indexed'
<1> DEFINE f == r.id
           b == Of[f]
<1>1. b \in Drops /\ b # "none" BY Planned, DropAssumption
<1>2. \A g \in DOMAIN tasks : tasks[g].id = g /\ tasks[g].group = Of[g] /\ Of[g] \in DOMAIN groupTasks
  BY DEF Indexed
<1>3. \A c \in DOMAIN groupTasks : groupTasks[c] = {g \in DOMAIN tasks : Of[g] = c}
  BY DEF Indexed
<1>4. \E row : /\ row.id = f /\ row.group = b /\ row.status = r.status
               /\ tasks' = List!Put(tasks, f, row) /\ retired' = retired
               /\ groupTasks' = List!Put(groupTasks, b,
                     (IF b \in DOMAIN groupTasks THEN groupTasks[b] ELSE {}) \cup {f})
  <2>1. CASE List!Insert(r)
    <3> DEFINE row == [id |-> r.id, group |-> r.group, status |-> r.status,
                       done |-> r.done, total |-> r.total]
    <3>1. /\ tasks' = List!Put(tasks, f, row) /\ retired' = retired
          /\ groupTasks' = List!EnterGroup(List!Maps(groupTasks, groups), row, r.groupTotal).gt
      BY <2>1 DEF List!Insert, List!Store
    <3>2. row.id = f /\ row.group = b /\ row.status = r.status OBVIOUS
    <3> HIDE DEF row
    <3>3. List!EnterGroup(List!Maps(groupTasks, groups), row, r.groupTotal).gt
             = List!Put(groupTasks, b,
                  (IF b \in DOMAIN groupTasks THEN groupTasks[b] ELSE {}) \cup {row.id})
      BY <1>1, <3>2 DEF List!EnterGroup, List!Maps, List!Grouped
    <3> QED BY <3>1, <3>2, <3>3
  <2>2. CASE List!Replace(r)
    <3> DEFINE row == List!Carry(r)
               mp  == List!Vacated(r)
    <3>1. /\ tasks' = List!Put(tasks, f, row) /\ retired' = retired /\ f \in DOMAIN tasks
          /\ groupTasks' = List!EnterGroup(mp, row, r.groupTotal).gt
      BY <2>2 DEF List!Replace, List!Store
    <3>2. row.group = b /\ row.status = r.status /\ row.id = f BY DEF List!Carry
    <3> HIDE DEF row
    <3>3. groupTasks' = List!Put(mp.gt, b, (IF b \in DOMAIN mp.gt THEN mp.gt[b] ELSE {}) \cup {f})
      BY <1>1, <3>1, <3>2 DEF List!EnterGroup, List!Maps, List!Grouped
    <3>4. tasks[f].id = f /\ tasks[f].group = b /\ b \in DOMAIN groupTasks /\ f \in groupTasks[b]
      BY <1>2, <1>3, <3>1
    <3>5. mp.gt = IF groupTasks[b] \subseteq {tasks[f].id} THEN List!Without(groupTasks, b)
                  ELSE List!Put(groupTasks, b, groupTasks[b] \ {tasks[f].id})
      BY <1>1, <3>4 DEF List!Vacated, List!LeaveGroup, List!Maps, List!Grouped
    <3> HIDE DEF mp
    <3>6. groupTasks' = List!Put(groupTasks, b, groupTasks[b] \cup {f})
      <4>1. CASE groupTasks[b] \subseteq {f}
        <5>1. mp.gt = List!Without(groupTasks, b) BY <3>4, <3>5, <4>1
        <5>2. b \notin DOMAIN mp.gt BY <5>1 DEF List!Without
        <5>3. groupTasks' = List!Put(mp.gt, b, {f}) BY <3>3, <5>2
        <5>4. groupTasks[b] \cup {f} = {f} BY <4>1
        <5> QED BY <3>4, <5>1, <5>3, <5>4 DEF List!Put, List!Without
      <4>2. CASE ~(groupTasks[b] \subseteq {f})
        <5> DEFINE rest == groupTasks[b] \ {f}
        <5>1. mp.gt = List!Put(groupTasks, b, rest) BY <3>4, <3>5, <4>2
        <5>2. b \in DOMAIN mp.gt /\ mp.gt[b] = rest BY <5>1 DEF List!Put
        <5>3. groupTasks' = List!Put(mp.gt, b, rest \cup {f}) BY <3>3, <5>2
        <5>4. groupTasks[b] \cup {f} = rest \cup {f} OBVIOUS
        <5> HIDE DEF rest
        <5> QED BY <3>4, <5>1, <5>3, <5>4 DEF List!Put
      <4> QED BY <4>1, <4>2
    <3> QED BY <3>1, <3>2, <3>4, <3>6
  <2> QED BY <2>1, <2>2 DEF List!Upsert
<1>5. PICK row : /\ row.id = f /\ row.group = b /\ row.status = r.status
                 /\ tasks' = List!Put(tasks, f, row) /\ retired' = retired
                 /\ groupTasks' = List!Put(groupTasks, b,
                       (IF b \in DOMAIN groupTasks THEN groupTasks[b] ELSE {}) \cup {f})
  BY <1>4
<1>6. /\ DOMAIN tasks' = DOMAIN tasks \cup {f} /\ tasks'[f] = row
      /\ \A g \in DOMAIN tasks : g # f => tasks'[g] = tasks[g]
  BY <1>5 DEF List!Put
<1>7. /\ DOMAIN groupTasks' = DOMAIN groupTasks \cup {b}
      /\ groupTasks'[b] = (IF b \in DOMAIN groupTasks THEN groupTasks[b] ELSE {}) \cup {f}
      /\ \A c \in DOMAIN groupTasks : c # b => groupTasks'[c] = groupTasks[c]
  BY <1>5 DEF List!Put
<1>8. Of[f] = b OBVIOUS
<1> HIDE DEF f, b
<1>9. ASSUME NEW c \in DOMAIN groupTasks' PROVE groupTasks'[c] = {g \in DOMAIN tasks' : Of[g] = c}
  <2>1. CASE c = b
    <3>1. (IF b \in DOMAIN groupTasks THEN groupTasks[b] ELSE {}) = {g \in DOMAIN tasks : Of[g] = b}
      BY <1>2, <1>3
    <3> QED BY <1>6, <1>7, <1>8, <2>1, <3>1
  <2>2. CASE c # b BY <1>3, <1>6, <1>7, <1>8, <1>9, <2>2
  <2> QED BY <2>1, <2>2
<1>10. ASSUME NEW g \in DOMAIN tasks' 
      PROVE  tasks'[g].id = g /\ tasks'[g].group = Of[g] /\ Of[g] \in DOMAIN groupTasks'
  BY <1>2, <1>5, <1>6, <1>7, <1>8
<1>11. Indexed' BY <1>9, <1>10 DEF Indexed
<1> QED BY <1>5, <1>6, <1>11 DEF f

\* The index follows a row that is dismissed.
LEMMA Leaves ==
  ASSUME Indexed, NEW f \in Files, List!Remove(f)
  PROVE  /\ DOMAIN tasks' = DOMAIN tasks \ {f}
         /\ \A g \in DOMAIN tasks' : tasks'[g] = tasks[g]
         /\ retired' = retired \cup {f} /\ Indexed'
<1> DEFINE b == Of[f]
           row == tasks[f]
           mp == List!Dismissed(f)
           out == List!ClearedWhenLast(DOMAIN tasks \ {f}, mp)
<1>1. /\ f \in DOMAIN tasks /\ tasks' = List!Without(tasks, f)
      /\ groupTasks' = out.gt /\ retired' = retired \cup {f}
  BY DEF List!Remove, List!Store
<1>2. b \in Drops /\ b # "none" BY Planned, DropAssumption
<1>3. \A g \in DOMAIN tasks : tasks[g].id = g /\ tasks[g].group = Of[g] /\ Of[g] \in DOMAIN groupTasks
  BY DEF Indexed
<1>4. \A c \in DOMAIN groupTasks : groupTasks[c] = {g \in DOMAIN tasks : Of[g] = c}
  BY DEF Indexed
<1>5. row.id = f /\ row.group = b /\ b \in DOMAIN groupTasks BY <1>1, <1>3
<1>6. mp.gt = IF groupTasks[b] \subseteq {f} THEN List!Without(groupTasks, b)
              ELSE List!Put(groupTasks, b, groupTasks[b] \ {f})
  BY <1>2, <1>5 DEF List!Dismissed, List!LeaveGroup, List!Maps, List!Grouped
<1>7. out.gt = IF DOMAIN tasks \ {f} = {} THEN <<>> ELSE mp.gt
  BY DEF List!ClearedWhenLast, List!Maps
<1> HIDE DEF row, mp, out
<1>8. DOMAIN tasks' = DOMAIN tasks \ {f} /\ \A g \in DOMAIN tasks' : tasks'[g] = tasks[g]
  BY <1>1 DEF List!Without
<1>9. \A c \in DOMAIN mp.gt : c \in DOMAIN groupTasks /\ mp.gt[c] = groupTasks[c] \ {f}
  <2>1. CASE groupTasks[b] \subseteq {f}
    <3>1. mp.gt = List!Without(groupTasks, b) BY <1>6, <2>1
    <3>2. \A c \in DOMAIN groupTasks : c # b => groupTasks[c] \ {f} = groupTasks[c]
      BY <1>4
    <3> QED BY <3>1, <3>2 DEF List!Without
  <2>2. CASE ~(groupTasks[b] \subseteq {f})
    <3>1. mp.gt = List!Put(groupTasks, b, groupTasks[b] \ {f}) BY <1>6, <2>2
    <3>2. \A c \in DOMAIN groupTasks : c # b => groupTasks[c] \ {f} = groupTasks[c]
      BY <1>4
    <3> QED BY <1>5, <3>1, <3>2 DEF List!Put
  <2> QED BY <2>1, <2>2
<1>10. \A c \in DOMAIN groupTasks : groupTasks[c] \ {f} # {} => c \in DOMAIN mp.gt
  BY <1>5, <1>6 DEF List!Put, List!Without
<1>11. ASSUME NEW c \in DOMAIN groupTasks' PROVE groupTasks'[c] = {g \in DOMAIN tasks' : Of[g] = c}
  <2>1. DOMAIN <<>> = {} BY NoEvents
  <2>2. groupTasks' = mp.gt BY <1>1, <1>7, <1>11, <2>1
  <2>3. groupTasks'[c] = groupTasks[c] \ {f} /\ c \in DOMAIN groupTasks BY <1>9, <1>11, <2>2
  <2> QED BY <1>4, <1>8, <2>3
<1>12. ASSUME NEW g \in DOMAIN tasks'
       PROVE  tasks'[g].id = g /\ tasks'[g].group = Of[g] /\ Of[g] \in DOMAIN groupTasks'
  <2>1. g \in DOMAIN tasks /\ g # f /\ tasks'[g] = tasks[g] BY <1>8
  <2>2. g \in groupTasks[Of[g]] \ {f} /\ Of[g] \in DOMAIN groupTasks BY <1>3, <1>4, <2>1
  <2>3. groupTasks' = mp.gt BY <1>1, <1>7, <1>8
  <2> QED BY <1>3, <1>10, <2>1, <2>2, <2>3
<1>13. Indexed' BY <1>11, <1>12 DEF Indexed
<1> QED BY <1>1, <1>8, <1>13

\* The index follows a drop whose rows are all removed.
LEMMA Forgets ==
  ASSUME Indexed, NEW b \in Drops, List!RemoveGroup(b)
  PROVE  /\ DOMAIN tasks' = {g \in DOMAIN tasks : Of[g] # b}
         /\ \A g \in DOMAIN tasks' : tasks'[g] = tasks[g]
         /\ \A g \in retired' : g \in retired \/ (g \in DOMAIN tasks /\ Of[g] = b)
         /\ Indexed'
<1> DEFINE ids == UNION {groupTasks[g] : g \in {b} \cap DOMAIN groupTasks}
           rest == DOMAIN tasks \ ids
           mp == List!Maps([g \in DOMAIN groupTasks \ {b} |-> groupTasks[g]], List!TotalsWithout({b}))
           out == IF ids = {} THEN mp ELSE List!ClearedWhenLast(rest, mp)
<1>1. /\ tasks' = [id \in rest |-> tasks[id]] /\ groupTasks' = out.gt /\ retired' = retired \cup ids
  BY DEF List!RemoveGroup, List!RemoveGroups, List!Store
<1>2. \A g \in DOMAIN tasks : tasks[g].id = g /\ tasks[g].group = Of[g] /\ Of[g] \in DOMAIN groupTasks
  BY DEF Indexed
<1>3. \A c \in DOMAIN groupTasks : groupTasks[c] = {g \in DOMAIN tasks : Of[g] = c}
  BY DEF Indexed
<1>4. ids = {g \in DOMAIN tasks : Of[g] = b}
  <2>1. CASE b \in DOMAIN groupTasks
    <3>1. ids = groupTasks[b] BY <2>1
    <3> QED BY <1>3, <2>1, <3>1
  <2>2. CASE b \notin DOMAIN groupTasks
    <3>1. ids = {} BY <2>2
    <3> QED BY <1>2, <2>2, <3>1
  <2> QED BY <2>1, <2>2
<1>5. mp.gt = [g \in DOMAIN groupTasks \ {b} |-> groupTasks[g]] BY DEF List!Maps
<1>6. out.gt = IF ids # {} /\ rest = {} THEN <<>> ELSE mp.gt BY DEF List!ClearedWhenLast, List!Maps
<1> HIDE DEF ids, mp, out
<1>7. rest = {g \in DOMAIN tasks : Of[g] # b} BY <1>4
<1>8. DOMAIN tasks' = rest /\ \A g \in DOMAIN tasks' : tasks'[g] = tasks[g] BY <1>1
<1>9. ASSUME NEW c \in DOMAIN groupTasks' PROVE groupTasks'[c] = {g \in DOMAIN tasks' : Of[g] = c}
  <2>1. DOMAIN <<>> = {} BY NoEvents
  <2>2. groupTasks' = mp.gt BY <1>1, <1>6, <1>9, <2>1
  <2>3. c \in DOMAIN groupTasks /\ c # b /\ groupTasks'[c] = groupTasks[c] BY <1>5, <1>9, <2>2
  <2> QED BY <1>3, <1>7, <1>8, <2>3
<1>10. ASSUME NEW g \in DOMAIN tasks'
       PROVE  tasks'[g].id = g /\ tasks'[g].group = Of[g] /\ Of[g] \in DOMAIN groupTasks'
  <2>1. g \in DOMAIN tasks /\ Of[g] # b /\ tasks'[g] = tasks[g] BY <1>7, <1>8
  <2>2. groupTasks' = mp.gt BY <1>1, <1>6, <1>8
  <2> QED BY <1>2, <1>5, <2>1, <2>2
<1>11. Indexed' BY <1>9, <1>10 DEF Indexed
<1>12. \A g \in retired' : g \in retired \/ (g \in DOMAIN tasks /\ Of[g] = b) BY <1>1, <1>4
<1> QED BY <1>7, <1>8, <1>11, <1>12

\* What the window does changes nothing for the drops and their workers.
LEMMA WindowFrame ==
  ASSUME DInv, UNCHANGED <<dropVars, workVars, serverVars, running>>,
         timers' \in SUBSET Files, alive' \in BOOLEAN, emitted' \in Seq(Events),
         told' \in [Drops -> SUBSET Notices],
         DOMAIN tasks' \subseteq Files, retired' \subseteq Files,
         \A b \in Drops : \A e \in told'[b] : e.drop = b /\ NoticeTrue(e),
         \A i \in DOMAIN emitted' : ~IsFile(emitted'[i]) => NoticeTrue(emitted'[i]),
         \A g \in Files : Claimed(g)' => Claimed(g),
         EventsTrue', RowsTrue', alive' => alive
  PROVE  DInv'
<1>0. /\ stage \in [Drops -> Stages] /\ probe \in [Drops -> Names]
      /\ name \in [Files -> Names \cup {Absent}]
      /\ active \in [Drops -> Nat] /\ uploaded \in [Drops -> SUBSET Files]
      /\ phase \in [Files -> Phases] /\ sent \in [Files -> Nat]
      /\ chan \in [Drops -> Seq(Messages)]
      /\ entry \in [Names -> Files \cup {Absent, Foreign}]
      /\ handle \in [Files -> Files \cup {Absent}] /\ DOMAIN data = Files \cup {Foreign}
      /\ Staged /\ Served /\ Channels /\ WrittenOut /\ ToldTrue /\ Counted
  BY Facts
<1>1. /\ stage' = stage /\ probe' = probe /\ name' = name /\ limit' = limit /\ active' = active
      /\ uploaded' = uploaded /\ phase' = phase /\ sent' = sent /\ chan' = chan
      /\ entry' = entry /\ handle' = handle /\ data' = data /\ running' = running
  BY DEF dropVars, workVars, serverVars
<1>2. Typed' BY <1>0, <1>1 DEF Typed
<1>3. Staged'
  <2>1. ASSUME NEW b \in Drops
        PROVE  /\ Unplanned(b)' = Unplanned(b) /\ Reserved(b, name)' = Reserved(b, name)
               /\ AtLarge(b)' = AtLarge(b) /\ (AllWaiting(b)' <=> AllWaiting(b))
               /\ (\A g \in Members(b) : Heard(g)') <=> (\A g \in Members(b) : Heard(g))
    BY <1>1 DEF Unplanned, Reserved, AtLarge, AllWaiting, Heard, Members
  <2>2. ASSUME NEW g \in Files
        PROVE  /\ stage'[Of[g]] \in {"none", "resolving"} => name'[g] = Absent
               /\ stage'[Of[g]] \in {"none", "resolving", "planning"} => phase'[g] = "waiting"
               /\ stage'[Of[g]] = "running" \/ phase'[g] # "waiting" => name'[g] # Absent
    BY <1>0, <1>1 DEF Staged
  <2>3. ASSUME NEW b \in Drops
        PROVE  /\ stage'[b] = "planning" => Unplanned(b)' # {} /\ probe'[b] \notin Reserved(b, name)'
               /\ stage'[b] = "running" => active'[b] = Cardinality(AtLarge(b)')
               /\ stage'[b] = "over" => AllWaiting(b)' \/ \A g \in Members(b) : Heard(g)'
    BY <1>0, <1>1, <2>1 DEF Staged
  <2> QED BY <2>2, <2>3 DEF Staged, Members
<1>4. Served' BY <1>0, <1>1 DEF Served
<1>5. Channels' BY <1>0, <1>1 DEF Channels
<1>6. ASSUME NEW g \in Files PROVE FileWritten(g)'
  <2>1. FileWritten(g) /\ (Claimed(g)' => Claimed(g)) BY <1>0 DEF WrittenOut
  <2> QED BY <1>1, <2>1 DEF FileWritten, Undisputed, Intact
<1>7. WrittenOut' BY <1>6 DEF WrittenOut
<1>8. ToldTrue'
  <2>1. (\A b \in Drops : \A f \in uploaded[b] : Of[f] = b /\ Heard(f))'
    BY <1>0, <1>1 DEF ToldTrue, Heard
  <2>2. (\A b \in Drops : \A e \in told[b] : e.drop = b /\ NoticeTrue(e))'
    BY <1>1 DEF NoticeTrue, AllWaiting, Members
  <2>3. (\A i \in DOMAIN emitted : ~IsFile(emitted[i]) => NoticeTrue(emitted[i]))'
    BY <1>1 DEF NoticeTrue, AllWaiting, Members, IsFile
  <2> QED BY <2>1, <2>2, <2>3 DEF ToldTrue
<1>9. Counted' BY <1>0, <1>1 DEF Counted, UnderWay
<1> QED BY <1>2, <1>3, <1>4, <1>5, <1>7, <1>8, <1>9 DEF DInv

\* The events left once the window handled the first: all still true, and the
\* first says nothing of their files.
LEMMA FirstEvent ==
  ASSUME DInv, ~Quiet, NEW e, e = Head(emitted), emitted' = Tail(emitted)
  PROVE  /\ alive /\ e \in Events /\ emitted' \in Seq(Events)
         /\ IsFile(e) => e \in Messages /\ e.file \in Files /\ EventTrue(e)
         /\ ~IsFile(e) => e \in Notices /\ e.drop \in Drops /\ NoticeTrue(e)
         /\ \A i \in DOMAIN emitted' : \E j \in DOMAIN emitted : emitted'[i] = emitted[j]
         /\ \A i \in DOMAIN emitted' :
               /\ ~IsFile(emitted'[i]) => NoticeTrue(emitted'[i])
               /\ IsFile(emitted'[i]) => EventTrue(emitted'[i]) /\ emitted'[i].file \in Files
               /\ emitted'[i].kind # "Aborted"
         /\ \A i, j \in DOMAIN emitted' :
               IsFile(emitted'[i]) /\ IsFile(emitted'[j]) /\ i # j => emitted'[i].file # emitted'[j].file
         /\ e.kind = "Aborted" => emitted' = <<>>
         /\ \E i \in DOMAIN emitted : emitted[i] = e
         /\ \A g \in Files : Settled(g)' =>
               \/ Settled(g) \/ (IsFile(e) /\ e.file = g)
               \/ (e.kind = "Aborted" /\ e.drop = Of[g])
<1>0. emitted \in Seq(Events) /\ alive \in BOOLEAN /\ EventsTrue /\ ToldTrue BY Facts
<1>1. PICK s \in Seq(Events) : s = emitted BY <1>0
<1>2. PICK t : t = Tail(s) OBVIOUS
<1>3. /\ s # <<>> /\ alive /\ t = emitted' /\ e = Head(s)
  BY <1>0, <1>1, <1>2 DEF Quiet, EventsTrue
<1>4. /\ t \in Seq(Events) /\ e \in Events /\ 1 \in DOMAIN s /\ e = s[1]
      /\ \A i \in DOMAIN t : i \in Nat /\ i >= 1 /\ i + 1 \in DOMAIN s /\ t[i] = s[i + 1]
      /\ \A i \in DOMAIN s : i \in Nat /\ i >= 1 /\ (i = 1 \/ (i - 1 \in DOMAIN t /\ t[i - 1] = s[i]))
  BY <1>2, <1>3, Tails
<1>5. ASSUME NEW i \in DOMAIN s
      PROVE  /\ IsFile(s[i]) => s[i] \in Messages /\ s[i].file \in Files /\ EventTrue(s[i])
             /\ ~IsFile(s[i]) => s[i] \in Notices /\ s[i].drop \in Drops /\ NoticeTrue(s[i])
             /\ s[i].kind = "Aborted" => DOMAIN s = {1}
  BY <1>0, <1>1, EventKinds DEF EventsTrue, ToldTrue
<1>6. \A i, j \in DOMAIN s : IsFile(s[i]) /\ IsFile(s[j]) /\ i # j => s[i].file # s[j].file
  BY <1>0, <1>1 DEF EventsTrue
<1>7. ASSUME NEW i \in DOMAIN t
      PROVE  /\ \E j \in DOMAIN s : t[i] = s[j]
             /\ ~IsFile(t[i]) => NoticeTrue(t[i])
             /\ IsFile(t[i]) => EventTrue(t[i]) /\ t[i].file \in Files
             /\ t[i].kind # "Aborted"
  <2>1. i + 1 \in DOMAIN s /\ t[i] = s[i + 1] /\ i + 1 # 1 BY <1>4
  <2> QED BY <1>5, <2>1
<1>8. ASSUME NEW i \in DOMAIN t, NEW j \in DOMAIN t, IsFile(t[i]), IsFile(t[j]), i # j
      PROVE  t[i].file # t[j].file
  <2>1. /\ i + 1 \in DOMAIN s /\ t[i] = s[i + 1] /\ j + 1 \in DOMAIN s /\ t[j] = s[j + 1]
        /\ i + 1 # j + 1
    BY <1>4, <1>8
  <2> QED BY <1>6, <1>8, <2>1
<1>9. e.kind = "Aborted" => t = <<>>
  <2> SUFFICES ASSUME e.kind = "Aborted" PROVE t = <<>> OBVIOUS
  <2>1. DOMAIN s = {1} BY <1>4, <1>5
  <2>2. DOMAIN t = {}
    <3> SUFFICES ASSUME NEW i \in DOMAIN t PROVE FALSE OBVIOUS
    <3> QED BY <1>4, <2>1
  <2> QED BY <1>4, <2>2, EmptySeq, LenProperties
<1>10. ASSUME NEW g \in Files, Settled(g)', ~(IsFile(e) /\ e.file = g),
              ~(e.kind = "Aborted" /\ e.drop = Of[g])
       PROVE  Settled(g)
  <2> SUFFICES ASSUME NEW i \in DOMAIN s
               PROVE  /\ IsFile(s[i]) => s[i].file # g
                      /\ s[i].kind = "Aborted" => s[i].drop # Of[g]
    BY <1>1 DEF Settled
  <2>1. CASE i = 1 BY <1>4, <1>10, <2>1
  <2>2. CASE i # 1
    <3>1. i - 1 \in DOMAIN t /\ t[i - 1] = s[i] BY <1>4, <2>2
    <3>2. \A j \in DOMAIN t : /\ IsFile(t[j]) => t[j].file # g
                              /\ t[j].kind = "Aborted" => t[j].drop # Of[g]
      BY <1>3, <1>10 DEF Settled, IsFile
    <3> QED BY <3>1, <3>2
  <2> QED BY <2>1, <2>2
<1> HIDE DEF Settled
<1>11. t = emitted' /\ s = emitted BY <1>1, <1>3
<1>12. \E i \in DOMAIN s : s[i] = e BY <1>4
<1> QED BY <1>3, <1>4, <1>5, <1>7, <1>8, <1>9, <1>10, <1>11, <1>12

\* What is left of the events is true after any step that keeps what they speak of.
LEMMA EventsLeft ==
  ASSUME DInv, ~Quiet, NEW e, e = Head(emitted), emitted' = Tail(emitted),
         UNCHANGED <<dropVars, workVars, alive>>, retired' = retired \/ e.kind = "Aborted"
  PROVE  EventsTrue'
<1>1. /\ alive
      /\ \A i \in DOMAIN emitted' :
            /\ IsFile(emitted'[i]) => EventTrue(emitted'[i]) /\ emitted'[i].file \in Files
            /\ emitted'[i].kind # "Aborted"
      /\ \A i, j \in DOMAIN emitted' :
            IsFile(emitted'[i]) /\ IsFile(emitted'[j]) /\ i # j => emitted'[i].file # emitted'[j].file
      /\ e.kind = "Aborted" => emitted' = <<>>
  BY FirstEvent
<1>2. stage' = stage /\ phase' = phase /\ chan' = chan /\ alive' = alive
  BY DEF dropVars, workVars
<1>3. PICK q : q = emitted' OBVIOUS
<1>4. ASSUME NEW i \in DOMAIN q, IsFile(q[i]) PROVE EventTrue(q[i])'
  <2>1. DOMAIN <<>> = {} BY NoEvents
  <2>2. retired' = retired BY <1>1, <1>3, <1>4, <2>1
  <2>3. EventTrue(q[i]) BY <1>1, <1>3, <1>4
  <2> QED BY <1>2, <2>2, <2>3 DEF EventTrue, Owed, Heard
<1>5. (\A i \in DOMAIN emitted : IsFile(emitted[i]) => EventTrue(emitted[i]))'
  BY <1>3, <1>4 DEF EventTrue, Owed, Heard, IsFile
<1>6. (\A i, j \in DOMAIN emitted :
          IsFile(emitted[i]) /\ IsFile(emitted[j]) /\ i # j => emitted[i].file # emitted[j].file)'
  BY <1>1 DEF IsFile
<1> QED BY <1>1, <1>2, <1>5, <1>6 DEF EventsTrue

\* What is claimed is claimed by fewer.
LEMMA ClaimsLeft ==
  ASSUME DInv, UNCHANGED <<dropVars, workVars>>,
         \A i \in DOMAIN emitted' : \E j \in DOMAIN emitted : emitted'[i] = emitted[j],
         \A g \in DOMAIN tasks' : tasks'[g].status = "Finished" =>
             \/ g \in DOMAIN tasks /\ tasks'[g] = tasks[g]
             \/ \E i \in DOMAIN emitted : emitted[i].kind = "Finished" /\ emitted[i].file = g
  PROVE  \A g \in Files : Claimed(g)' => Claimed(g)
<1> SUFFICES ASSUME NEW g \in Files, Claimed(g)' PROVE Claimed(g) OBVIOUS
<1>1. uploaded' = uploaded /\ chan' = chan BY DEF dropVars, workVars
<1>2. CASE g \in uploaded'[Of[g]] \/ Sending(g)' BY <1>1, <1>2 DEF Claimed, Sending
<1>3. CASE \E i \in DOMAIN emitted' : emitted'[i].kind = "Finished" /\ emitted'[i].file = g
  <2>1. PICK i \in DOMAIN emitted' : emitted'[i].kind = "Finished" /\ emitted'[i].file = g
    BY <1>3
  <2>2. PICK j \in DOMAIN emitted : emitted'[i] = emitted[j] OBVIOUS
  <2> QED BY <2>1, <2>2 DEF Claimed
<1>4. CASE g \in DOMAIN tasks' /\ tasks'[g].status = "Finished" BY <1>4 DEF Claimed
<1> QED BY <1>2, <1>3, <1>4 DEF Claimed

\* The window shows what an event says of a file.
LEMMA FileEventStep ==
  ASSUME DInv, ~Quiet, NEW e, e = Head(emitted), IsFile(e), FileEvent(e),
         emitted' = Tail(emitted),
         UNCHANGED <<poolVars, dropVars, workVars, serverVars, cancel, alive, running>>
  PROVE  DInv'
<1>0. /\ timers \subseteq Files /\ alive \in BOOLEAN /\ told \in [Drops -> SUBSET Notices]
      /\ DOMAIN tasks \subseteq Files /\ retired \subseteq Files /\ ToldTrue /\ RowsTrue
  BY Facts
<1>1. /\ alive /\ emitted' \in Seq(Events) /\ e \in Messages /\ e.file \in Files /\ EventTrue(e)
      /\ \A i \in DOMAIN emitted' : \E j \in DOMAIN emitted : emitted'[i] = emitted[j]
      /\ \A i \in DOMAIN emitted' : ~IsFile(emitted'[i]) => NoticeTrue(emitted'[i])
      /\ \E i \in DOMAIN emitted : emitted[i] = e
      /\ \A g \in Files : Settled(g)' => Settled(g) \/ e.file = g
  <2>1. e.kind # "Aborted" BY DEF IsFile, Kinds, Verdicts
  <2> QED BY <2>1, FirstEvent
<1>2. /\ told' = told /\ stage' = stage /\ phase' = phase /\ chan' = chan /\ alive' = alive
  BY DEF FileEvent, dropVars, workVars
<1>3. e.kind \in {"Progress", "Finished", "Cancelled"} /\ e.file \notin retired
      /\ (e.kind = "Progress" <=> Owed(e.file)) /\ (e.kind # "Progress" => Heard(e.file))
  BY <1>1 DEF EventTrue, Messages, Kinds, Verdicts
<1>4. \E r : /\ r.id = e.file /\ r.group = Of[e.file] /\ List!Upsert(r)
             /\ r.status = IF e.kind = "Progress" THEN "InProgress" ELSE e.kind
  <2>1. CASE e.kind = "Progress"
    <3>1. List!Upsert(Row(e.file, "InProgress", e.sent, Size(e.file))) BY <2>1 DEF FileEvent
    <3> DEFINE r == Row(e.file, "InProgress", e.sent, Size(e.file))
    <3>2. r.id = e.file /\ r.group = Of[e.file] /\ r.status = "InProgress" BY DEF Row
    <3> HIDE DEF r
    <3> QED BY <2>1, <3>1, <3>2 DEF r
  <2>2. CASE e.kind = "Finished"
    <3>1. List!Upsert(Row(e.file, "Finished", e.sent, e.sent)) BY <2>2 DEF FileEvent
    <3> DEFINE r == Row(e.file, "Finished", e.sent, e.sent)
    <3>2. r.id = e.file /\ r.group = Of[e.file] /\ r.status = "Finished" BY DEF Row
    <3> HIDE DEF r
    <3> QED BY <2>2, <3>1, <3>2 DEF r
  <2>3. CASE e.kind = "Cancelled"
    <3>1. List!Upsert(Row(e.file, "Cancelled", e.sent, Size(e.file))) BY <2>3 DEF FileEvent
    <3> DEFINE r == Row(e.file, "Cancelled", e.sent, Size(e.file))
    <3>2. r.id = e.file /\ r.group = Of[e.file] /\ r.status = "Cancelled" BY DEF Row
    <3> HIDE DEF r
    <3> QED BY <2>3, <3>1, <3>2 DEF r
  <2> QED BY <1>3, <2>1, <2>2, <2>3
<1>5. PICK r : /\ r.id = e.file /\ r.group = Of[e.file] /\ List!Upsert(r)
               /\ r.status = IF e.kind = "Progress" THEN "InProgress" ELSE e.kind
  BY <1>4
<1>6. PICK f \in Files : f = e.file BY <1>1
<1>7. /\ DOMAIN tasks' = DOMAIN tasks \cup {f}
      /\ tasks'[f].status = IF e.kind = "Progress" THEN "InProgress" ELSE e.kind
      /\ \A g \in DOMAIN tasks : g # f => tasks'[g] = tasks[g]
      /\ retired' = retired /\ Indexed'
  BY <1>0, <1>5, <1>6, Joins DEF RowsTrue
<1>8. timers' = IF e.kind = "Progress" THEN timers ELSE timers \cup {f}
  BY <1>6 DEF FileEvent, TimersAfter
<1>9. \A g \in Files : Claimed(g)' => Claimed(g)
  <2>1. ASSUME NEW g \in DOMAIN tasks', tasks'[g].status = "Finished"
        PROVE  \/ g \in DOMAIN tasks /\ tasks'[g] = tasks[g]
               \/ \E i \in DOMAIN emitted : emitted[i].kind = "Finished" /\ emitted[i].file = g
    <3>1. CASE g = f
      <4>1. e.kind = "Finished" BY <1>7, <2>1, <3>1
      <4> QED BY <1>1, <1>6, <3>1, <4>1
    <3>2. CASE g # f BY <1>7, <2>1, <3>2
    <3> QED BY <3>1, <3>2
  <2> QED BY <1>1, <2>1, ClaimsLeft
<1>10. EventsTrue' BY <1>7, EventsLeft
<1>11. RowsTrue'
  <2>1. ASSUME NEW g \in Files PROVE (Heard(g)' <=> Heard(g)) /\ (Owed(g)' <=> Owed(g))
    BY <1>2 DEF Heard, Owed
  <2>2. \A g \in timers' : Heard(g)'
    <3> SUFFICES ASSUME NEW g \in timers' PROVE Heard(g)' OBVIOUS
    <3>1. g \in timers \/ (g = f /\ e.kind # "Progress") BY <1>8
    <3>2. g \in Files /\ Heard(g) BY <1>0, <1>3, <1>6, <3>1 DEF RowsTrue
    <3> QED BY <2>1, <3>2
  <2>3. \A g \in retired' : Heard(g)' \/ stage'[Of[g]] = "over"
    BY <1>0, <1>2, <1>7, <2>1 DEF RowsTrue
  <2>4. ASSUME NEW g \in Files, Settled(g)' PROVE Running(g)' <=> Owed(g)'
    <3>1. CASE g = f
      <4>1. Running(g)' <=> e.kind = "Progress" BY <1>3, <1>7, <3>1 DEF Running
      <4> QED BY <1>3, <1>6, <2>1, <3>1, <4>1
    <3>2. CASE g # f
      <4>1. Settled(g) BY <1>1, <1>6, <2>4, <3>2
      <4>2. Running(g) <=> Owed(g) BY <1>0, <1>1, <4>1 DEF RowsTrue
      <4>3. Running(g)' <=> Running(g) BY <1>7, <3>2 DEF Running
      <4> QED BY <2>1, <4>2, <4>3
    <3> QED BY <3>1, <3>2
  <2> QED BY <1>7, <2>2, <2>3, <2>4 DEF RowsTrue
<1>12. /\ timers' \in SUBSET Files /\ DOMAIN tasks' \subseteq Files /\ retired' \subseteq Files
       /\ told' \in [Drops -> SUBSET Notices] /\ alive' \in BOOLEAN /\ (alive' => alive)
       /\ \A b \in Drops : \A e2 \in told'[b] : e2.drop = b /\ NoticeTrue(e2)
  BY <1>0, <1>2, <1>7, <1>8 DEF ToldTrue
<1> QED BY <1>1, <1>9, <1>10, <1>11, <1>12, WindowFrame

\* The window notes the end of a drop; of one given up the rows are removed.
LEMMA DropEventStep ==
  ASSUME DInv, ~Quiet, NEW e, e = Head(emitted), ~IsFile(e), DropEvent(e),
         emitted' = Tail(emitted),
         UNCHANGED <<poolVars, dropVars, workVars, serverVars, cancel, alive, running>>
  PROVE  DInv'
<1>0. /\ timers \subseteq Files /\ alive \in BOOLEAN /\ told \in [Drops -> SUBSET Notices]
      /\ DOMAIN tasks \subseteq Files /\ retired \subseteq Files /\ ToldTrue /\ RowsTrue
  BY Facts
<1>1. /\ alive /\ emitted' \in Seq(Events) /\ e \in Notices /\ e.drop \in Drops /\ NoticeTrue(e)
      /\ \A i \in DOMAIN emitted' : \E j \in DOMAIN emitted : emitted'[i] = emitted[j]
      /\ \A i \in DOMAIN emitted' : ~IsFile(emitted'[i]) => NoticeTrue(emitted'[i])
      /\ \A g \in Files : Settled(g)' => Settled(g) \/ (e.kind = "Aborted" /\ e.drop = Of[g])
  BY FirstEvent
<1>2. /\ stage' = stage /\ phase' = phase /\ chan' = chan /\ alive' = alive /\ timers' = timers
      /\ told' = [told EXCEPT ![e.drop] = @ \cup {e}]
  BY DEF DropEvent, dropVars, workVars
<1>3. PICK b \in Drops : b = e.drop BY <1>1
<1>4. /\ told' \in [Drops -> SUBSET Notices]
      /\ \A c \in Drops : \A e2 \in told'[c] : e2.drop = c /\ NoticeTrue(e2)
  <2>1. /\ told' \in [Drops -> SUBSET Notices]
        /\ \A c \in Drops : told'[c] = IF c = b THEN told[c] \cup {e} ELSE told[c]
    BY <1>0, <1>1, <1>2, <1>3
  <2>2. ASSUME NEW c \in Drops, NEW e2 \in told'[c] PROVE e2.drop = c /\ NoticeTrue(e2)
    <3>1. CASE e2 \in told[c] BY <1>0, <3>1 DEF ToldTrue
    <3>2. CASE e2 = e /\ c = b BY <1>1, <1>3, <3>2
    <3> QED BY <2>1, <2>2, <3>1, <3>2
  <2> QED BY <2>1, <2>2
<1>5. stage[b] = "over" BY <1>1, <1>3 DEF NoticeTrue
<1>6. /\ DOMAIN tasks' \subseteq DOMAIN tasks
      /\ \A g \in DOMAIN tasks' : tasks'[g] = tasks[g]
      /\ \A g \in DOMAIN tasks : g \notin DOMAIN tasks' => Of[g] = b
      /\ e.kind = "Aborted" => \A g \in DOMAIN tasks' : Of[g] # b
      /\ \A g \in retired' : g \in retired \/ (g \in Files /\ Of[g] = b)
      /\ retired' = retired \/ e.kind = "Aborted"
      /\ Indexed'
  <2>1. CASE e.kind = "Aborted"
    <3>1. List!RemoveGroup(b) BY <1>3, <2>1 DEF DropEvent, ForgetRows
    <3>2. /\ DOMAIN tasks' = {g \in DOMAIN tasks : Of[g] # b}
          /\ \A g \in DOMAIN tasks' : tasks'[g] = tasks[g]
          /\ \A g \in retired' : g \in retired \/ (g \in DOMAIN tasks /\ Of[g] = b)
          /\ Indexed'
      BY <1>0, <3>1, Forgets DEF RowsTrue
    <3> QED BY <1>0, <2>1, <3>2
  <2>2. CASE e.kind # "Aborted"
    <3>1. tasks' = tasks /\ retired' = retired /\ groupTasks' = groupTasks
      BY <2>2 DEF DropEvent, listVars
    <3> QED BY <1>0, <2>2, <3>1 DEF RowsTrue, Indexed
  <2> QED BY <2>1, <2>2
<1>7. \A g \in Files : Claimed(g)' => Claimed(g) BY <1>1, <1>6, ClaimsLeft
<1>8. EventsTrue' BY <1>6, EventsLeft
<1>9. RowsTrue'
  <2>1. ASSUME NEW g \in Files PROVE (Heard(g)' <=> Heard(g)) /\ (Owed(g)' <=> Owed(g))
    BY <1>2 DEF Heard, Owed
  <2>2. \A g \in timers' : Heard(g)' BY <1>0, <1>2, <2>1 DEF RowsTrue
  <2>3. \A g \in retired' : Heard(g)' \/ stage'[Of[g]] = "over"
    BY <1>0, <1>2, <1>5, <1>6, <2>1 DEF RowsTrue
  <2>4. ASSUME NEW g \in Files, Settled(g)' PROVE Running(g)' <=> Owed(g)'
    <3>1. CASE Settled(g) /\ (Of[g] # b \/ e.kind # "Aborted")
      <4>1. Running(g) <=> Owed(g) BY <1>0, <1>1, <3>1 DEF RowsTrue
      <4>2. CASE Of[g] # b
        <5>1. g \in DOMAIN tasks' <=> g \in DOMAIN tasks BY <1>6, <4>2
        <5>2. Running(g)' <=> Running(g) BY <1>6, <5>1 DEF Running
        <5> QED BY <2>1, <4>1, <5>2
      <4>3. CASE e.kind # "Aborted"
        <5>1. tasks' = tasks BY <4>3 DEF DropEvent, listVars
        <5> QED BY <2>1, <4>1, <5>1 DEF Running
      <4> QED BY <3>1, <4>2, <4>3
    <3>2. CASE e.kind = "Aborted" /\ Of[g] = b
      <4>1. ~Running(g)' BY <1>6, <3>2 DEF Running
      <4>2. ~Owed(g) BY <1>5, <3>2 DEF Owed
      <4> QED BY <2>1, <4>1, <4>2
    <3> QED BY <1>1, <1>3, <2>4, <3>1, <3>2
  <2> QED BY <1>6, <2>2, <2>3, <2>4 DEF RowsTrue
<1>10. /\ timers' \in SUBSET Files /\ DOMAIN tasks' \subseteq Files /\ retired' \subseteq Files
       /\ alive' \in BOOLEAN /\ (alive' => alive)
  BY <1>0, <1>2, <1>6
<1> QED BY <1>1, <1>4, <1>7, <1>8, <1>9, <1>10, WindowFrame

\* A row is dismissed after the end of its file was heard.
LEMMA TimerStep == ASSUME DInv, NEW f \in Files, TimerFires(f) PROVE DInv'
<1>0. /\ timers \subseteq Files /\ alive \in BOOLEAN /\ told \in [Drops -> SUBSET Notices]
      /\ phase \in [Files -> Phases] /\ emitted \in Seq(Events)
      /\ DOMAIN tasks \subseteq Files /\ retired \subseteq Files
      /\ Staged /\ ToldTrue /\ EventsTrue /\ RowsTrue
  BY Facts
<1>1. /\ Quiet /\ f \in timers /\ List!Remove(f) /\ timers' = timers \ {f}
      /\ UNCHANGED <<poolVars, dropVars, workVars, serverVars, emitted, told, cancel, alive, running>>
  BY DEF TimerFires
<1>2. /\ stage' = stage /\ phase' = phase /\ chan' = chan /\ alive' = alive
      /\ told' = told /\ emitted' = emitted
  BY <1>1 DEF dropVars, workVars
<1>3. /\ DOMAIN tasks' = DOMAIN tasks \ {f}
      /\ \A g \in DOMAIN tasks' : tasks'[g] = tasks[g]
      /\ retired' = retired \cup {f} /\ Indexed'
  BY <1>0, <1>1, Leaves DEF RowsTrue
<1>4. emitted = <<>> /\ DOMAIN emitted = {} BY <1>1, NoEvents DEF Quiet
<1>5. Heard(f) /\ ~Owed(f)
  <2>1. Heard(f) BY <1>0, <1>1 DEF RowsTrue
  <2>2. phase[f] # "waiting" BY <2>1 DEF Heard, Over
  <2> QED BY <1>0, <2>1, <2>2 DEF Owed, Staged
<1>6. \A g \in Files : Claimed(g)' => Claimed(g)
  <2>1. \A i \in DOMAIN emitted' : \E j \in DOMAIN emitted : emitted'[i] = emitted[j]
    BY <1>2
  <2> QED BY <1>1, <1>3, <2>1, ClaimsLeft
<1>7. EventsTrue' BY <1>2, <1>4 DEF EventsTrue
<1>8. RowsTrue'
  <2>1. ASSUME NEW g \in Files PROVE (Heard(g)' <=> Heard(g)) /\ (Owed(g)' <=> Owed(g))
    BY <1>2 DEF Heard, Owed
  <2>2. \A g \in timers' : Heard(g)' BY <1>0, <1>1, <2>1 DEF RowsTrue
  <2>3. \A g \in retired' : Heard(g)' \/ stage'[Of[g]] = "over"
    <3> SUFFICES ASSUME NEW g \in retired' PROVE Heard(g)' \/ stage'[Of[g]] = "over" OBVIOUS
    <3>1. g \in Files /\ (Heard(g) \/ stage[Of[g]] = "over") BY <1>0, <1>3, <1>5 DEF RowsTrue
    <3> QED BY <1>2, <2>1, <3>1
  <2>4. ASSUME alive', NEW g \in Files PROVE Running(g)' <=> Owed(g)'
    <3>1. CASE g = f BY <1>3, <1>5, <2>1, <3>1 DEF Running
    <3>2. CASE g # f
      <4>1. Settled(g) BY <1>4 DEF Settled
      <4>2. Running(g) <=> Owed(g) BY <1>0, <1>2, <2>4, <4>1 DEF RowsTrue
      <4>3. Running(g)' <=> Running(g) BY <1>3, <3>2 DEF Running
      <4> QED BY <2>1, <4>2, <4>3
    <3> QED BY <3>1, <3>2
  <2> QED BY <1>3, <2>2, <2>3, <2>4 DEF RowsTrue
<1>9. /\ timers' \in SUBSET Files /\ DOMAIN tasks' \subseteq Files /\ retired' \subseteq Files
      /\ alive' \in BOOLEAN /\ (alive' => alive) /\ told' \in [Drops -> SUBSET Notices]
      /\ emitted' \in Seq(Events)
      /\ \A b \in Drops : \A e \in told'[b] : e.drop = b /\ NoticeTrue(e)
      /\ \A i \in DOMAIN emitted' : ~IsFile(emitted'[i]) => NoticeTrue(emitted'[i])
  BY <1>0, <1>1, <1>2, <1>3, <1>4 DEF ToldTrue
<1> QED BY <1>1, <1>6, <1>7, <1>8, <1>9, WindowFrame

\* A step that only the pool or the cancel flags see, or the end of the terminal.
LEMMA ListStays ==
  ASSUME DInv, UNCHANGED <<listVars, dropVars, workVars, serverVars, windowVars, running>>,
         alive' = alive \/ (Quiet /\ alive' = FALSE)
  PROVE  DInv'
<1>0. /\ timers \subseteq Files /\ alive \in BOOLEAN /\ told \in [Drops -> SUBSET Notices]
      /\ emitted \in Seq(Events)
      /\ DOMAIN tasks \subseteq Files /\ retired \subseteq Files
      /\ ToldTrue /\ EventsTrue /\ RowsTrue
  BY Facts
<1>1. /\ stage' = stage /\ phase' = phase /\ chan' = chan /\ tasks' = tasks
      /\ groupTasks' = groupTasks /\ retired' = retired
      /\ told' = told /\ emitted' = emitted /\ timers' = timers
  BY DEF listVars, dropVars, workVars, windowVars
<1>2. \A g \in Files : Claimed(g)' => Claimed(g) BY <1>1, ClaimsLeft
<1>3. alive' \in BOOLEAN /\ (alive' => alive) /\ (~alive' => emitted' = <<>>)
  <2>1. CASE alive' = alive
    <3>1. ~alive => emitted = <<>> BY <1>0 DEF EventsTrue
    <3> QED BY <1>0, <1>1, <2>1, <3>1
  <2>2. CASE Quiet /\ alive' = FALSE
    <3>1. emitted = <<>> BY <2>2 DEF Quiet
    <3> QED BY <1>1, <2>2, <3>1
  <2> QED BY <2>1, <2>2
<1>4. EventsTrue'
  <2>1. (\A i \in DOMAIN emitted : IsFile(emitted[i]) => EventTrue(emitted[i]))'
    BY <1>0, <1>1 DEF EventsTrue, EventTrue, Owed, Heard, IsFile
  <2> QED BY <1>0, <1>1, <1>3, <2>1 DEF EventsTrue, IsFile
<1>5. RowsTrue'
  <2>1. ASSUME NEW g \in Files
        PROVE  /\ Heard(g)' <=> Heard(g)
               /\ Owed(g)' <=> Owed(g)
               /\ Running(g)' <=> Running(g)
               /\ Settled(g)' <=> Settled(g)
    BY <1>1 DEF Heard, Owed, Running, Settled, IsFile
  <2>2. Indexed' BY <1>0, <1>1 DEF RowsTrue, Indexed
  <2>3. (\A g \in timers' : Heard(g)') /\ (\A g \in retired' : Heard(g)' \/ stage'[Of[g]] = "over")
    BY <1>0, <1>1, <2>1 DEF RowsTrue
  <2>4. alive' => \A g \in Files : Settled(g)' => (Running(g)' <=> Owed(g)')
    BY <1>0, <1>3, <2>1 DEF RowsTrue
  <2> QED BY <2>2, <2>3, <2>4 DEF RowsTrue
<1>6. /\ timers' \in SUBSET Files /\ DOMAIN tasks' \subseteq Files /\ retired' \subseteq Files
      /\ told' \in [Drops -> SUBSET Notices] /\ emitted' \in Seq(Events)
      /\ \A b \in Drops : \A e \in told'[b] : e.drop = b /\ NoticeTrue(e)
      /\ \A i \in DOMAIN emitted' : ~IsFile(emitted'[i]) => NoticeTrue(emitted'[i])
  BY <1>0, <1>1 DEF ToldTrue
<1> QED BY <1>2, <1>3, <1>4, <1>5, <1>6, WindowFrame

\* Whatever the window does.
LEMMA WindowStep ==
  ASSUME DInv,
         \/ HandleEvent \/ CloseTerminal \/ Rival \/ UNCHANGED vars
         \/ \E f \in Files : Cancel(f) \/ TimerFires(f)
  PROVE  DInv'
<1>1. CASE HandleEvent
  <2>1. PICK e : e = Head(emitted) OBVIOUS
  <2>2. /\ ~Quiet /\ emitted' = Tail(emitted)
        /\ UNCHANGED <<poolVars, dropVars, workVars, serverVars, cancel, alive, running>>
        /\ IF e.kind \in {"Aborted", "Complete"} THEN DropEvent(e) ELSE FileEvent(e)
    BY <1>1, <2>1 DEF HandleEvent
  <2>3. IsFile(e) <=> e.kind \notin {"Aborted", "Complete"}
    <3>1. /\ IsFile(e) => e \in Messages
          /\ ~IsFile(e) => e \in Notices
      BY <2>1, <2>2, FirstEvent
    <3> QED BY <3>1 DEF IsFile, Kinds, Verdicts, Notices
  <2>4. CASE IsFile(e) BY <2>1, <2>2, <2>3, <2>4, FileEventStep
  <2>5. CASE ~IsFile(e) BY <2>1, <2>2, <2>3, <2>5, DropEventStep
  <2> QED BY <2>4, <2>5
<1>2. CASE CloseTerminal BY <1>2, ListStays DEF CloseTerminal
<1>3. CASE Rival BY <1>3, ListStays DEF Rival
<1>4. CASE UNCHANGED vars BY <1>4, ListStays DEF vars
<1>5. ASSUME NEW f \in Files, Cancel(f) PROVE DInv' BY <1>5, ListStays DEF Cancel
<1>6. ASSUME NEW f \in Files, TimerFires(f) PROVE DInv' BY <1>6, TimerStep
<1> QED BY <1>1, <1>2, <1>3, <1>4, <1>5, <1>6

-----------------------------------------------------------------------------
(***************************************************************************)
(* The theorems.                                                           *)
(***************************************************************************)

\* Nothing was dropped yet: no row, no event, no claim.
LEMMA InitInv == ASSUME Init PROVE DInv
<1>0. <<>> \in Seq(Messages) /\ <<>> \in Seq(Events) /\ DOMAIN <<>> = {}
  BY EmptySeq, NoEvents
<1>1. /\ stage = [b \in Drops |-> "none"] /\ probe = [b \in Drops |-> 0]
      /\ name = [f \in Files |-> Absent] /\ active = [b \in Drops |-> 0]
      /\ uploaded = [b \in Drops |-> {}] /\ phase = [f \in Files |-> "waiting"]
      /\ sent = [f \in Files |-> 0] /\ chan = [b \in Drops |-> <<>>]
      /\ entry = [k \in Names |-> IF k \in Taken THEN Foreign ELSE Absent]
      /\ handle = [f \in Files |-> Absent] /\ data = [f \in Files \cup {Foreign} |-> <<>>]
      /\ timers = {} /\ alive = TRUE /\ running = 0 /\ emitted = <<>>
      /\ told = [b \in Drops |-> {}]
      /\ tasks = <<>> /\ groupTasks = <<>> /\ retired = {}
  BY DEF Init, List!Init
<1>2. 0 \in Names
  <2>1. MaxSuffix \in Nat /\ Cardinality(Files) \in Nat BY DropAssumption, FS_CardinalityType
  <2> QED BY <2>1 DEF Names
<1>3. Typed BY <1>0, <1>1, <1>2 DEF Typed, Stages, Phases, Before
<1>4. \A f \in Files : Of[f] \in Drops BY Planned
<1>5. Staged BY <1>1, <1>4 DEF Staged
<1>6. \A k \in Names : k # Absent
  <2>1. \A k \in Names : k \in Nat BY DropAssumption, FS_CardinalityType DEF Names
  <2> QED BY <2>1, Marks
<1>7. Served BY <1>1, <1>6, Marks DEF Served, Copying
<1>8. Channels BY <1>0, <1>1, <1>4 DEF Channels, Silent, Copying, Over
<1>9. WrittenOut BY <1>0, <1>1, <1>4 DEF WrittenOut, FileWritten, Claimed, Sending, Copying
<1>10. ToldTrue BY <1>0, <1>1 DEF ToldTrue
<1>11. EventsTrue BY <1>0, <1>1 DEF EventsTrue
<1>12. RowsTrue BY <1>0, <1>1, <1>4 DEF RowsTrue, Indexed, Running, Owed
<1>13. Counted
  <2>1. UnderWay = {} BY <1>1 DEF UnderWay
  <2> QED BY <1>1, <2>1, FS_EmptySet DEF Counted
<1> QED BY <1>3, <1>5, <1>7, <1>8, <1>9, <1>10, <1>11, <1>12, <1>13 DEF DInv

\* Every step of a worker, a drop or the window keeps the invariant.
LEMMA NextInv == ASSUME DInv, [Next]_vars PROVE DInv'
<1>1. CASE HandleEvent \/ CloseTerminal \/ Rival \/ UNCHANGED vars BY <1>1, WindowStep
<1>2. ASSUME NEW b \in Drops, DropTask(b) PROVE DInv'
  BY <1>2, ResolveStep, MetadataStep, ReceiveStep DEF DropTask
<1>3. ASSUME NEW b \in Drops, NEW n \in Requests, Confirm(b, n) PROVE DInv'
  BY <1>3, ConfirmStep
<1>4. ASSUME NEW f \in Files, Worker(f) PROVE DInv' BY <1>4, WorkerStep
<1>5. ASSUME NEW f \in Files, Cancel(f) \/ TimerFires(f) PROVE DInv' BY <1>5, WindowStep
<1> QED BY <1>1, <1>2, <1>3, <1>4, <1>5 DEF Next

\* The inductive invariant of drop uploads: the word that ends a file reaches its
\* row by way of channel, loop and event, and whoever claims a file was uploaded
\* is right.
THEOREM DropInvariant == Spec => []DInv
<1>1. Init => DInv BY InitInv
<1>2. DInv /\ [Next]_vars => DInv' BY NextInv
<1> QED BY <1>1, <1>2, PTL DEF Spec

\* A file shown as uploaded stands on the server whole and under its name, unless
\* another drop planned that name too.
THEOREM DropUploadsKept == Spec => []UploadsKept
<1>1. ASSUME DInv PROVE UploadsKept
  <2> SUFFICES ASSUME NEW f \in DOMAIN tasks, tasks[f].status = "Finished", Undisputed(f)
               PROVE  entry[name[f]] = f /\ data[f] = [i \in 1..Chunks[f] |-> f]
    BY DEF UploadsKept
  <2>1. DOMAIN tasks \subseteq Files /\ WrittenOut BY <1>1, Facts
  <2>2. f \in Files /\ FileWritten(f) /\ Claimed(f) BY <2>1 DEF WrittenOut, Claimed
  <2> QED BY <2>2 DEF FileWritten, Intact
<1> QED BY <1>1, DropInvariant, PTL

\* While the terminal exists, the rows in progress are those of the files whose
\* end its loops do not know, no event speaks of a row that is gone, and the
\* terminal counts the drops under way.
THEOREM DropRowsMatchWorkers == Spec => []RowsMatchWorkers
<1>1. ASSUME DInv PROVE RowsMatchWorkers
  <2> SUFFICES ASSUME alive
               PROVE  /\ Quiet => \A f \in Files :
                            (f \in DOMAIN tasks /\ tasks[f].status = "InProgress") <=> Outstanding(f)
                      /\ \A i \in DOMAIN emitted :
                            emitted[i].kind \in {"Progress", "Finished", "Cancelled"} =>
                                emitted[i].file \notin retired
                      /\ running = Cardinality({b \in Drops : stage[b] \notin {"none", "over"}})
    BY DEF RowsMatchWorkers
  <2>0. /\ phase \in [Files -> Phases] /\ Channels /\ EventsTrue /\ RowsTrue /\ Counted
    BY <1>1, Facts
  <2>1. ASSUME NEW f \in Files PROVE Owed(f) <=> Outstanding(f)
    <3> DEFINE q == chan[Of[f]]
    <3>1. phase[f] \in Over <=> phase[f] \in {"returning", "gone"} BY DEF Over
    <3>2. phase[f] \in Over => (Silent(q, f) <=> ~\E i \in DOMAIN q : q[i].file = f /\ EndsWorker(q[i]))
      BY <2>0 DEF Channels, Silent, Ended, EndsWorker
    <3> QED BY <3>1, <3>2 DEF Owed, Outstanding, Heard
  <2>2. ASSUME Quiet, NEW f \in Files PROVE Running(f) <=> Outstanding(f)
    <3>1. DOMAIN emitted = {} BY <2>2, NoEvents DEF Quiet
    <3>2. Settled(f) BY <3>1 DEF Settled
    <3> QED BY <2>0, <2>1, <3>2 DEF RowsTrue
  <2>3. \A i \in DOMAIN emitted : emitted[i].kind \in {"Progress", "Finished", "Cancelled"} =>
            emitted[i].file \notin retired
    BY <2>0 DEF EventsTrue, EventTrue, IsFile, Kinds, Verdicts
  <2>4. running = Cardinality({b \in Drops : stage[b] \notin {"none", "over"}})
    BY <2>0 DEF Counted, UnderWay
  <2> QED BY <2>2, <2>3, <2>4 DEF Running
<1> QED BY <1>1, DropInvariant, PTL

\* The last word of a drop counts the files written to their end, and comes when
\* no worker of it can send anything any more.
THEOREM DropLastWordTrue == Spec => []LastWordTrue
<1>1. ASSUME DInv PROVE LastWordTrue
  <2>0. /\ uploaded \in [Drops -> SUBSET Files] /\ chan \in [Drops -> Seq(Messages)]
        /\ Staged /\ Channels /\ WrittenOut /\ ToldTrue
    BY <1>1, Facts
  <2>1. ASSUME NEW b \in Drops, stage[b] = "over"
        PROVE  chan[b] = <<>> /\ \A f \in Members(b) : phase[f] \in {"waiting", "returning", "gone"}
    <3>1. \A f \in Members(b) : f \in Files /\ Of[f] = b BY Planned
    <3>2. AllWaiting(b) \/ \A f \in Members(b) : Heard(f) BY <2>0, <2>1 DEF Staged
    <3>3. \A f \in Members(b) : phase[f] \in {"waiting", "returning", "gone"}
      BY <3>2 DEF AllWaiting, Heard, Over
    <3>4. \A f \in Members(b) : Silent(chan[b], f)
      BY <2>0, <3>1, <3>2 DEF AllWaiting, Heard, Channels, Before
    <3>5. PICK q \in Seq(Messages) : q = chan[b] BY <2>0
    <3>6. ASSUME NEW i \in DOMAIN q PROVE FALSE
      <4>1. q[i] \in Messages BY <3>6, ElementOfSeq, LenProperties
      <4>2. q[i].file \in Files /\ Of[q[i].file] = b BY <2>0, <3>5, <3>6, <4>1 DEF Messages, Channels
      <4>3. q[i].file \in Members(b) BY <4>2, Planned
      <4> QED BY <3>4, <3>5, <3>6, <4>3 DEF Silent
    <3>7. DOMAIN q = {} BY <3>6
    <3>8. q = <<>> BY <3>7, EmptySeq, LenProperties
    <3> QED BY <3>3, <3>5, <3>8
  <2>2. ASSUME NEW b \in Drops, NEW e \in told[b]
        PROVE  /\ e.kind = "Complete" =>
                    e.count = Cardinality({f \in Members(b) : f \in uploaded[b] /\ sent[f] = Chunks[f]})
               /\ e.kind = "Aborted" => \A f \in Members(b) : phase[f] = "waiting"
    <3>1. e.drop = b /\ NoticeTrue(e) BY <2>0 DEF ToldTrue
    <3>2. \A f \in uploaded[b] : f \in Members(b) /\ sent[f] = Chunks[f]
      <4> SUFFICES ASSUME NEW f \in uploaded[b] PROVE f \in Members(b) /\ sent[f] = Chunks[f]
        OBVIOUS
      <4>1. f \in Files /\ Of[f] = b BY <2>0 DEF ToldTrue
      <4>2. Claimed(f) BY <4>1 DEF Claimed
      <4> QED BY <2>0, <4>1, <4>2, Planned DEF WrittenOut, FileWritten
    <3>3. uploaded[b] = {f \in Members(b) : f \in uploaded[b] /\ sent[f] = Chunks[f]} BY <3>2
    <3> QED BY <3>1, <3>3 DEF NoticeTrue, AllWaiting
  <2> QED BY <2>1, <2>2 DEF LastWordTrue
<1> QED BY <1>1, DropInvariant, PTL
=============================================================================
