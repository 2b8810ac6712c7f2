-------------------------- MODULE SftpUploadProofs --------------------------
(***************************************************************************)
(* Uploads, for any files, batches, plans and sizes: a running upload      *)
(* keeps its row, the toast of a batch tells the truth, a verdict is       *)
(* final, a cancelled worker starts no write, and the workers use the      *)
(* permit pool by its own specification, so what is proved of the pool     *)
(* holds of it here and no worker touches a file without a permit.         *)
(*                                                                         *)
(* A worker and its row agree only through the batch's channel: the worker *)
(* may be gone while its verdict is still queued behind the messages of    *)
(* the others.  The invariant therefore speaks of the upload as "heard"    *)
(* when its worker is over and nothing of it is left in the channel.       *)
(***************************************************************************)
EXTENDS SftpUpload, FiniteSetTheorems, SequenceTheorems, TLAPS

\* Where a worker is: before its copy loop, in it (Copying), or done.
Early == {"planned", "listed", "acquiring", "opening"}
Over == {"returning", "gone"}
Phases == Early \cup Copying \cup Over
\* The messages of the channel and the counts of a batch.
Kinds == Outcomes \cup {"Progress"}
Messages == [kind : Kinds, file : Files, sent : Nat]

\* What a queue of messages tells of a file: nothing, progress only, or its
\* verdict after any progress and nothing behind it.
Silent(q, f) == \A i \in DOMAIN q : q[i].file # f
Talking(q, f) == \A i \in DOMAIN q : q[i].file = f => q[i].kind = "Progress"
Ended(q, f) ==
    \E i \in DOMAIN q :
        /\ q[i].file = f /\ q[i].kind \in Outcomes
        /\ \A j \in DOMAIN q : q[j].file = f /\ j # i => j < i /\ q[j].kind = "Progress"
\* The verdict of a file was received, and of a batch, the files so heard of.
Heard(f) == phase[f] \in Over /\ Silent(chan[Of[f]], f)
HeardOf(b) == {f \in Files : Of[f] = b /\ Heard(f)}
WholeOf(b) == {f \in HeardOf(b) : sent[f] = Chunks[f]}

Results == [uploaded : Nat, cancelled : Nat, failed : Nat]

(***************************************************************************)
(* The inductive invariant.                                                *)
(***************************************************************************)
Typed ==
    /\ phase \in [Files -> Phases] /\ sent \in [Files -> Nat]
    /\ cancel \subseteq Files /\ timers \subseteq Files
    /\ chan \in [Batches -> Seq(Messages)]
    /\ result \in [Batches -> Results]
    /\ toast \in [Batches -> {"none", "Info", "Warning", "Critical"}]
    /\ DOMAIN tasks \subseteq Files /\ retired \subseteq Files
    /\ retired \cap DOMAIN tasks = {}

\* The chunks written, by where the worker is: a flush follows the last one.
Writes == \A f \in Files :
    /\ sent[f] <= Chunks[f]
    /\ phase[f] \in Early => sent[f] = 0
    /\ phase[f] = "writing" => sent[f] < Chunks[f]
    /\ phase[f] = "flushing" => sent[f] = Chunks[f]

\* A channel carries its own batch's messages, "Finished" only for a file that
\* is complete; a worker sends one verdict, as its last word.
Channels ==
    /\ \A b \in Batches : \A i \in DOMAIN chan[b] :
          /\ Of[chan[b][i].file] = b
          /\ chan[b][i].kind = "Finished" => sent[chan[b][i].file] = Chunks[chan[b][i].file]
    /\ \A f \in Files :
          /\ phase[f] \in Early => Silent(chan[Of[f]], f)
          /\ phase[f] \in Copying => Talking(chan[Of[f]], f)
          /\ phase[f] \in Over => Silent(chan[Of[f]], f) \/ Ended(chan[Of[f]], f)

\* The row: none before the upload is listed, in progress and without a timer
\* until the verdict is heard, and after it the verdict with a timer, or gone.
RowMatches(f) ==
    /\ phase[f] = "planned" => f \notin DOMAIN tasks \cup retired \cup timers
    /\ phase[f] # "planned" /\ ~Heard(f) =>
          f \in DOMAIN tasks /\ tasks[f].status = "InProgress" /\ f \notin timers
    /\ Heard(f) =>
          /\ f \in timers <=> f \in DOMAIN tasks
          /\ f \in DOMAIN tasks => /\ tasks[f].status \in Outcomes
                                   /\ tasks[f].status = "Finished" => sent[f] = Chunks[f]

RowsMatch == \A f \in Files : RowMatches(f)

\* The counts of a batch are the verdicts heard; those counted as uploaded are
\* at most the complete files; the toast is made of the final counts.
BatchTallied(b) ==
    /\ Completed(b) = Cardinality(HeardOf(b))
    /\ result[b].uploaded <= Cardinality(WholeOf(b))
    /\ toast[b] # "none" => toast[b] = Classify(b) /\ Completed(b) = Cardinality(Members(b))

Tallied == \A b \in Batches : BatchTallied(b)

UInv == Typed /\ Writes /\ Channels /\ RowsMatch /\ Tallied

-----------------------------------------------------------------------------
(***************************************************************************)
(* Facts of the plan and of queues of messages.                            *)
(***************************************************************************)

\* Every file belongs to a batch that has it, and a batch has finitely many.
LEMMA Planned ==
  /\ \A b \in Batches : Members(b) \subseteq Files /\ IsFiniteSet(Members(b))
  /\ \A f \in Files : Of[f] \in Batches /\ f \in Members(Of[f])
  /\ \A f \in Files : Chunks[f] \in Nat
<1>1. ASSUME NEW b \in Batches PROVE Members(b) \subseteq Files /\ IsFiniteSet(Members(b))
  <2>1. Plan[b] \in Seq(Files) BY UploadAssumption
  <2>2. \A i \in DOMAIN Plan[b] : Plan[b][i] \in Files BY <2>1, ElementOfSeq, LenProperties
  <2>3. Members(b) \in SUBSET Files BY <2>2 DEF Members
  <2> QED BY <2>3, UploadAssumption, FS_Subset
<1>2. ASSUME NEW f \in Files PROVE Of[f] \in Batches /\ f \in Members(Of[f])
  <2>1. \E b \in Batches : f \in Members(b) BY UploadAssumption DEF Members
  <2>2. Of[f] = CHOOSE b \in Batches : f \in Members(b) BY DEF Of
  <2> QED BY <2>1, <2>2
<1> QED BY <1>1, <1>2, UploadAssumption

\* Where the entries of two queues are after one is put behind the other.
LEMMA Concats ==
  ASSUME NEW q \in Seq(Messages), NEW msgs \in Seq(Messages)
  PROVE  LET r == q \o msgs IN
         /\ r \in Seq(Messages)
         /\ \A i \in DOMAIN r : i \in Nat /\ (i \in DOMAIN q \/ i - Len(q) \in DOMAIN msgs)
         /\ \A i \in DOMAIN q : i \in DOMAIN r /\ r[i] = q[i] /\ i \in Nat /\ i <= Len(q)
         /\ \A i \in DOMAIN msgs :
               i \in Nat /\ i > 0 /\ Len(q) + i \in DOMAIN r /\ r[Len(q) + i] = msgs[i]
         /\ Len(q) \in Nat
<1>1. /\ DOMAIN q = 1..Len(q) /\ DOMAIN msgs = 1..Len(msgs) /\ Len(q) \in Nat /\ Len(msgs) \in Nat
  BY LenProperties
<1>2. /\ q \o msgs \in Seq(Messages) /\ Len(q \o msgs) = Len(q) + Len(msgs)
      /\ \A i \in 1 .. Len(q) + Len(msgs) : (q \o msgs)[i] =
           IF i <= Len(q) THEN q[i] ELSE msgs[i - Len(q)]
  BY ConcatProperties
<1>3. DOMAIN (q \o msgs) = 1..(Len(q) + Len(msgs)) BY <1>1, <1>2, LenProperties
<1> DEFINE r == q \o msgs
<1> HIDE DEF r
<1>4. \A i \in DOMAIN r : i \in Nat /\ (i \in DOMAIN q \/ i - Len(q) \in DOMAIN msgs)
  BY <1>1, <1>3 DEF r
<1>5. \A i \in DOMAIN q : i \in DOMAIN r /\ r[i] = q[i] /\ i \in Nat /\ i <= Len(q)
  BY <1>1, <1>2, <1>3 DEF r
<1>6. ASSUME NEW i \in DOMAIN msgs
      PROVE  i \in Nat /\ i > 0 /\ Len(q) + i \in DOMAIN r /\ r[Len(q) + i] = msgs[i]
  <2>1. i \in Nat /\ i > 0 /\ i <= Len(msgs) BY <1>1
  <2>2. /\ Len(q) + i \in 1..(Len(q) + Len(msgs))
        /\ ~(Len(q) + i <= Len(q)) /\ (Len(q) + i) - Len(q) = i
    BY <1>1, <2>1
  <2> QED BY <1>2, <1>3, <2>1, <2>2 DEF r
<1> QED BY <1>1, <1>2, <1>4, <1>5, <1>6 DEF r

\* What one worker sends changes nothing that the queue tells of another file.
LEMMA OthersUnheard ==
  ASSUME NEW q \in Seq(Messages), NEW msgs \in Seq(Messages), NEW f, NEW g,
         \A i \in DOMAIN msgs : msgs[i].file = f, g # f
  PROVE  /\ Silent(q \o msgs, g) <=> Silent(q, g)
         /\ Talking(q, g) => Talking(q \o msgs, g)
         /\ Ended(q, g) => Ended(q \o msgs, g)
<1> DEFINE r == q \o msgs
<1>1. /\ \A i \in DOMAIN q : i \in DOMAIN r /\ r[i] = q[i]
      /\ \A i \in DOMAIN r : i \in Nat /\ (i \in DOMAIN q \/ i - Len(q) \in DOMAIN msgs)
      /\ \A i \in DOMAIN msgs : i \in Nat /\ r[Len(q) + i] = msgs[i]
      /\ Len(q) \in Nat
  BY Concats
<1> HIDE DEF r
<1>2. \A i \in DOMAIN r : r[i].file = g => i \in DOMAIN q
  <2> SUFFICES ASSUME NEW i \in DOMAIN r, i \notin DOMAIN q PROVE r[i].file = f OBVIOUS
  <2>1. i - Len(q) \in DOMAIN msgs /\ i = Len(q) + (i - Len(q)) BY <1>1
  <2> QED BY <1>1, <2>1
<1>3. Silent(r, g) <=> Silent(q, g) BY <1>1, <1>2 DEF Silent
<1>4. Talking(q, g) => Talking(r, g) BY <1>1, <1>2 DEF Talking
<1>5. Ended(q, g) => Ended(r, g)
  <2> SUFFICES ASSUME NEW i \in DOMAIN q, q[i].file = g, q[i].kind \in Outcomes,
                      \A j \in DOMAIN q : q[j].file = g /\ j # i => j < i /\ q[j].kind = "Progress"
               PROVE  Ended(r, g)
    BY DEF Ended
  <2>1. i \in DOMAIN r /\ r[i] = q[i] BY <1>1
  <2>2. \A j \in DOMAIN r : r[j].file = g /\ j # i => j < i /\ r[j].kind = "Progress"
    BY <1>1, <1>2
  <2> QED BY <2>1, <2>2 DEF Ended
<1> QED BY <1>3, <1>4, <1>5 DEF r

\* A worker that told progress so far tells progress or ends, as the messages
\* it sends do.
LEMMA SpeaksOn ==
  ASSUME NEW q \in Seq(Messages), NEW msgs \in Seq(Messages), NEW f,
         \A i \in DOMAIN msgs : msgs[i].file = f, Talking(q, f)
  PROVE  /\ Talking(msgs, f) => Talking(q \o msgs, f)
         /\ Ended(msgs, f) => Ended(q \o msgs, f)
<1> DEFINE r == q \o msgs
<1>1. /\ \A i \in DOMAIN q : i \in DOMAIN r /\ r[i] = q[i] /\ i \in Nat /\ i <= Len(q)
      /\ \A i \in DOMAIN r : i \in Nat /\ (i \in DOMAIN q \/ i - Len(q) \in DOMAIN msgs)
      /\ \A i \in DOMAIN msgs :
               i \in Nat /\ i > 0 /\ Len(q) + i \in DOMAIN r /\ r[Len(q) + i] = msgs[i]
      /\ Len(q) \in Nat
  BY Concats
<1> HIDE DEF r
<1>2. \A i \in DOMAIN r : i \notin DOMAIN q =>
        i - Len(q) \in DOMAIN msgs /\ r[i] = msgs[i - Len(q)]
  <2> SUFFICES ASSUME NEW i \in DOMAIN r, i \notin DOMAIN q
               PROVE  i - Len(q) \in DOMAIN msgs /\ r[i] = msgs[i - Len(q)]
    OBVIOUS
  <2>1. i - Len(q) \in DOMAIN msgs /\ i = Len(q) + (i - Len(q)) BY <1>1
  <2> QED BY <1>1, <2>1
<1>3. Talking(msgs, f) => Talking(r, f) BY <1>1, <1>2 DEF Talking
<1>4. Ended(msgs, f) => Ended(r, f)
  <2> SUFFICES ASSUME NEW i \in DOMAIN msgs, msgs[i].file = f, msgs[i].kind \in Outcomes,
                      \A j \in DOMAIN msgs : msgs[j].file = f /\ j # i =>
                            j < i /\ msgs[j].kind = "Progress"
               PROVE  Ended(r, f)
    BY DEF Ended
  <2> DEFINE k == Len(q) + i
  <2>1. k \in DOMAIN r /\ r[k] = msgs[i] /\ k \in Nat /\ k > Len(q) BY <1>1
  <2>2. ASSUME NEW j \in DOMAIN r, r[j].file = f, j # k PROVE j < k /\ r[j].kind = "Progress"
    <3>1. CASE j \in DOMAIN q BY <1>1, <2>1, <2>2, <3>1 DEF Talking
    <3>2. CASE j \notin DOMAIN q
      <4>1. j - Len(q) \in DOMAIN msgs /\ r[j] = msgs[j - Len(q)] BY <1>2, <3>2
      <4>2. j \in Nat /\ i \in Nat BY <1>1
      <4>3. j - Len(q) # i BY <1>1, <2>2, <4>2
      <4>4. j - Len(q) < i /\ msgs[j - Len(q)].kind = "Progress" BY <2>2, <4>1, <4>3
      <4> QED BY <1>1, <4>1, <4>2, <4>4
    <3> QED BY <3>1, <3>2
  <2> HIDE DEF k
  <2> QED BY <2>1, <2>2 DEF Ended
<1> QED BY <1>3, <1>4 DEF r

\* Where the entries of a queue are once its head is received.
LEMMA Tails ==
  ASSUME NEW q \in Seq(Messages), q # <<>>
  PROVE  /\ Tail(q) \in Seq(Messages) /\ Head(q) \in Messages
         /\ 1 \in DOMAIN q /\ Head(q) = q[1]
         /\ \A i \in DOMAIN Tail(q) :
               i \in Nat /\ i >= 1 /\ i + 1 \in DOMAIN q /\ Tail(q)[i] = q[i + 1]
         /\ \A i \in DOMAIN q :
               i \in Nat /\ i >= 1 /\ (i = 1 \/ (i - 1 \in DOMAIN Tail(q) /\ Tail(q)[i - 1] = q[i]))
<1> DEFINE t == Tail(q)
<1>1. /\ Head(q) \in Messages /\ t \in Seq(Messages) /\ Len(t) = Len(q) - 1
      /\ \A i \in 1..Len(t) : t[i] = q[i + 1]
  BY HeadTailProperties
<1>2. DOMAIN q = 1..Len(q) /\ DOMAIN t = 1..Len(t) /\ Len(q) \in Nat /\ Len(t) \in Nat
  BY <1>1, LenProperties
<1>3. Head(q) = q[1] OBVIOUS
<1> HIDE DEF t
<1>4. 1 \in DOMAIN q BY <1>1, <1>2
<1>5. ASSUME NEW i \in DOMAIN t PROVE i \in Nat /\ i >= 1 /\ i + 1 \in DOMAIN q /\ t[i] = q[i + 1]
  BY <1>1, <1>2
<1>6. ASSUME NEW i \in DOMAIN q, i # 1
      PROVE  i \in Nat /\ i >= 1 /\ i - 1 \in DOMAIN t /\ t[i - 1] = q[i]
  <2>1. i - 1 \in 1..Len(t) /\ (i - 1) + 1 = i BY <1>1, <1>2, <1>6
  <2> QED BY <1>1, <1>2, <2>1
<1> QED BY <1>1, <1>3, <1>4, <1>5, <1>6 DEF t

\* Receiving the head keeps what the queue tells of every file; the verdict of a
\* file is the last that is heard of it.
LEMMA TailKeeps ==
  ASSUME NEW q \in Seq(Messages), q # <<>>, NEW g
  PROVE  /\ Silent(q, g) => Silent(Tail(q), g)
         /\ Talking(q, g) => Talking(Tail(q), g)
         /\ Head(q).file # g /\ Silent(Tail(q), g) => Silent(q, g)
         /\ Ended(q, g) /\ (Head(q).file # g \/ Head(q).kind \notin Outcomes) => Ended(Tail(q), g)
         /\ Ended(q, g) /\ Head(q).file = g /\ Head(q).kind \in Outcomes => Silent(Tail(q), g)
<1> DEFINE t == Tail(q)
<1>1. /\ 1 \in DOMAIN q /\ Head(q) = q[1]
      /\ \A i \in DOMAIN t : i \in Nat /\ i >= 1 /\ i + 1 \in DOMAIN q /\ t[i] = q[i + 1]
      /\ \A i \in DOMAIN q :
            i \in Nat /\ i >= 1 /\ (i = 1 \/ (i - 1 \in DOMAIN t /\ t[i - 1] = q[i]))
  BY Tails
<1> HIDE DEF t
<1>2. Silent(q, g) => Silent(t, g) BY <1>1 DEF Silent
<1>3. Talking(q, g) => Talking(t, g) BY <1>1 DEF Talking
<1>4. Head(q).file # g /\ Silent(t, g) => Silent(q, g)
  <2> SUFFICES ASSUME q[1].file # g, Silent(t, g), NEW i \in DOMAIN q PROVE q[i].file # g
    BY <1>1 DEF Silent
  <2>1. i = 1 \/ (i - 1 \in DOMAIN t /\ t[i - 1] = q[i]) BY <1>1
  <2> QED BY <2>1 DEF Silent
<1>5. ASSUME Ended(q, g), q[1].file # g \/ q[1].kind \notin Outcomes PROVE Ended(t, g)
  <2>1. PICK i \in DOMAIN q : /\ q[i].file = g /\ q[i].kind \in Outcomes
                              /\ \A j \in DOMAIN q : q[j].file = g /\ j # i =>
                                    j < i /\ q[j].kind = "Progress"
    BY <1>5 DEF Ended
  <2>2. i # 1 BY <1>5, <2>1
  <2> DEFINE k == i - 1
  <2>3. i \in Nat /\ k \in DOMAIN t /\ t[k] = q[i] BY <1>1, <2>2
  <2>4. ASSUME NEW j \in DOMAIN t, t[j].file = g, j # k PROVE j < k /\ t[j].kind = "Progress"
    <3>1. j \in Nat /\ j + 1 \in DOMAIN q /\ t[j] = q[j + 1] BY <1>1
    <3>2. j + 1 # i BY <2>3, <2>4, <3>1
    <3>3. j + 1 < i /\ q[j + 1].kind = "Progress" BY <2>1, <2>4, <3>1, <3>2
    <3> QED BY <2>3, <3>1, <3>3
  <2> HIDE DEF k
  <2> QED BY <2>1, <2>3, <2>4 DEF Ended
<1>6. ASSUME Ended(q, g), q[1].file = g, q[1].kind \in Outcomes PROVE Silent(t, g)
  <2>1. PICK i \in DOMAIN q : /\ q[i].file = g /\ q[i].kind \in Outcomes
                              /\ \A j \in DOMAIN q : q[j].file = g /\ j # i =>
                                    j < i /\ q[j].kind = "Progress"
    BY <1>6 DEF Ended
  <2>2. "Progress" \notin Outcomes BY DEF Outcomes
  <2>3. i = 1 BY <1>1, <1>6, <2>1, <2>2
  <2> SUFFICES ASSUME NEW j \in DOMAIN t, t[j].file = g PROVE FALSE BY DEF Silent
  <2>4. j \in Nat /\ j >= 1 /\ j + 1 \in DOMAIN q /\ q[j + 1].file = g BY <1>1
  <2> QED BY <2>1, <2>3, <2>4
<1> QED BY <1>1, <1>2, <1>3, <1>4, <1>5, <1>6 DEF t

\* A queue with a verdict of a file is neither silent of it nor mere progress.
LEMMA EndedSpoke == ASSUME NEW q, NEW f, Ended(q, f) PROVE ~Silent(q, f) /\ ~Talking(q, f)
BY DEF Ended, Silent, Talking, Outcomes

\* A queue of one message.
LEMMA OneMessage ==
  ASSUME NEW m \in Messages
  PROVE  <<m>> \in Seq(Messages) /\ DOMAIN <<m>> = {1} /\ <<m>>[1] = m
<1>1. <<m>> \in Seq(Messages) /\ <<m>>[1] = m OBVIOUS
<1>2. Len(<<m>>) = 1 OBVIOUS
<1> QED BY <1>1, <1>2, LenProperties

\* A queue of two messages.
LEMMA TwoMessages ==
  ASSUME NEW m \in Messages, NEW n \in Messages
  PROVE  /\ <<m, n>> \in Seq(Messages) /\ DOMAIN <<m, n>> = {1, 2}
         /\ <<m, n>>[1] = m /\ <<m, n>>[2] = n
<1>1. <<m, n>> \in Seq(Messages) /\ <<m, n>>[1] = m /\ <<m, n>>[2] = n OBVIOUS
<1>2. Len(<<m, n>>) = 2 OBVIOUS
<1> QED BY <1>1, <1>2, LenProperties

\* A message behind one other: progress, then the verdict.
LEMMA AppendOne ==
  ASSUME NEW a \in Messages, NEW m \in Messages
  PROVE  Append(<<a>>, m) = <<a, m>>
<1>1. /\ <<a>> \in Seq(Messages) /\ DOMAIN <<a>> = {1} /\ <<a>>[1] = a BY OneMessage
<1>2. Len(<<a>>) = 1 OBVIOUS
<1>3. /\ Append(<<a>>, m) \in Seq(Messages) /\ Len(Append(<<a>>, m)) = 2
      /\ Append(<<a>>, m)[1] = a /\ Append(<<a>>, m)[2] = m
  BY <1>1, <1>2, AppendProperties
<1>4. <<a, m>> \in Seq(Messages) /\ <<a, m>>[1] = a /\ <<a, m>>[2] = m BY TwoMessages
<1>5. Len(<<a, m>>) = 2 OBVIOUS
<1>6. \A i \in 1..2 : Append(<<a>>, m)[i] = <<a, m>>[i]
  <2> SUFFICES ASSUME NEW i \in 1..2 PROVE Append(<<a>>, m)[i] = <<a, m>>[i] OBVIOUS
  <2>1. i = 1 \/ i = 2 OBVIOUS
  <2> QED BY <1>3, <1>4, <2>1
<1> QED BY <1>3, <1>4, <1>5, <1>6, SeqEqual

-----------------------------------------------------------------------------
(***************************************************************************)
(* What a worker says in one step.                                         *)
(***************************************************************************)

\* Progress only, or its verdict last; no more is claimed than was written.
Says(f, p, msgs, n) ==
    /\ msgs \in Seq(Messages)
    /\ \A i \in DOMAIN msgs : msgs[i].file = f /\ (msgs[i].kind = "Finished" => n = Chunks[f])
    /\ \/ p \in {"reading", "flushing"} /\ Talking(msgs, f)
       \/ p = "returning" /\ Ended(msgs, f)
    /\ p = "flushing" => n = Chunks[f]

\* The loop goes on, or ends at the last chunk, without a message.
LEMMA SaysNothing ==
  ASSUME NEW f \in Files, NEW p \in {"reading", "flushing"}, NEW n, p = "flushing" => n = Chunks[f]
  PROVE  Says(f, p, <<>>, n)
<1>1. <<>> \in Seq(Messages) /\ Len(<<>>) = 0 BY EmptySeq
<1>2. DOMAIN <<>> = {} BY <1>1, LenProperties
<1> QED BY <1>1, <1>2 DEF Says, Talking

\* It does so with a progress message.
LEMMA SaysProgress ==
  ASSUME NEW f \in Files, NEW p \in {"reading", "flushing"}, NEW n \in Nat,
         p = "flushing" => n = Chunks[f]
  PROVE  Says(f, p, <<Msg("Progress", f, n)>>, n)
<1> DEFINE m == Msg("Progress", f, n)
<1>1. m \in Messages /\ m.file = f /\ m.kind = "Progress" BY DEF Msg, Messages, Kinds
<1> HIDE DEF m
<1>2. <<m>> \in Seq(Messages) /\ DOMAIN <<m>> = {1} /\ <<m>>[1] = m BY <1>1, OneMessage
<1> QED BY <1>1, <1>2 DEF Says, Talking, m

\* A worker ends with its verdict alone: an error, or a cancellation.
LEMMA SaysVerdict ==
  ASSUME NEW f \in Files, NEW kind \in Outcomes, NEW n, kind = "Finished" => n = Chunks[f]
  PROVE  Says(f, "returning", <<Msg(kind, f, 0)>>, n)
<1> DEFINE m == Msg(kind, f, 0)
<1>1. m \in Messages /\ m.file = f /\ m.kind = kind BY DEF Msg, Messages, Kinds
<1> HIDE DEF m
<1>2. <<m>> \in Seq(Messages) /\ DOMAIN <<m>> = {1} /\ <<m>>[1] = m BY <1>1, OneMessage
<1>3. Ended(<<m>>, f) BY <1>1, <1>2 DEF Ended
<1> QED BY <1>1, <1>2, <1>3 DEF Says, m

\* A worker ends with a progress message and its verdict behind it.
LEMMA SaysBoth ==
  ASSUME NEW f \in Files, NEW k \in Nat, NEW kind \in Outcomes, NEW n,
         kind = "Finished" => n = Chunks[f]
  PROVE  Says(f, "returning", <<Msg("Progress", f, k), Msg(kind, f, 0)>>, n)
<1> DEFINE a == Msg("Progress", f, k)
           m == Msg(kind, f, 0)
<1>1. m \in Messages /\ m.file = f /\ m.kind = kind BY DEF Msg, Messages, Kinds
<1>2. a \in Messages /\ a.file = f /\ a.kind = "Progress" BY DEF Msg, Messages, Kinds
<1> HIDE DEF a, m
<1>3. <<a, m>> \in Seq(Messages) /\ DOMAIN <<a, m>> = {1, 2} /\ <<a, m>>[1] = a /\ <<a, m>>[2] = m
  BY <1>1, <1>2, TwoMessages
<1>4. Ended(<<a, m>>, f) BY <1>1, <1>2, <1>3 DEF Ended
<1> QED BY <1>1, <1>2, <1>3, <1>4 DEF Says, a, m

\* Whatever the top of the copy loop decides, the worker says progress only and
\* goes on, or says its verdict last; cancelled, it goes on only to the flush of
\* a complete file.
LEMMA LoopTopSays ==
  ASSUME NEW f \in Files, NEW n \in Nat, n <= Chunks[f],
         NEW report \in {<<>>, <<Msg("Progress", f, n)>>}, LoopTop(f, n, report)
  PROVE  \E p, msgs : Says(f, p, msgs, n) /\ Send(f, msgs) /\ phase' = [phase EXCEPT ![f] = p]
<1>0. Chunks[f] \in Nat BY Planned
<1>1. CASE f \notin cancel /\ phase' = [phase EXCEPT ![f] = "reading"] /\ Send(f, report)
  <2>1. Says(f, "reading", report, n) BY SaysNothing, SaysProgress
  <2> QED BY <1>1, <2>1
<1>2. CASE /\ f \in cancel /\ Total(f) # 0 /\ n >= Total(f)
           /\ phase' = [phase EXCEPT ![f] = "flushing"] /\ Send(f, report)
  <2>1. n = Chunks[f] BY <1>0, <1>2 DEF Total
  <2>2. Says(f, "flushing", report, n) BY <2>1, SaysNothing, SaysProgress
  <2> QED BY <1>2, <2>2
<1>3. CASE EndWith(f, Append(report, Msg("Cancelled", f, 0)))
  <2> DEFINE msgs == Append(report, Msg("Cancelled", f, 0))
  <2>1. "Cancelled" \in Outcomes BY DEF Outcomes
  <2>2. Says(f, "returning", msgs, n)
    <3>1. CASE report = <<>>
      <4>1. msgs = <<Msg("Cancelled", f, 0)>> BY <3>1
      <4> QED BY <2>1, <4>1, SaysVerdict
    <3>2. CASE report = <<Msg("Progress", f, n)>>
      <4> DEFINE a == Msg("Progress", f, n)
                 m == Msg("Cancelled", f, 0)
      <4>1. Append(<<a>>, m) = <<a, m>>
        <5>1. a \in Messages /\ m \in Messages BY DEF Msg, Messages, Kinds, Outcomes
        <5> HIDE DEF a, m
        <5> QED BY <5>1, AppendOne
      <4>2. msgs = <<a, m>> BY <3>2, <4>1
      <4> QED BY <2>1, <4>2, SaysBoth
    <3> QED BY <3>1, <3>2
  <2> QED BY <1>3, <2>2 DEF EndWith
<1> QED BY <1>1, <1>2, <1>3 DEF LoopTop

-----------------------------------------------------------------------------
(***************************************************************************)
(* Every step keeps the invariant, and the verdicts with it.               *)
(***************************************************************************)

\* The rows that ended keep their verdict, and what was dismissed stays so.
VerdictsKept ==
    /\ \A f \in DOMAIN tasks \cap DOMAIN tasks' :
          tasks[f].status \in Outcomes => tasks'[f].status = tasks[f].status
    /\ retired \subseteq retired'

Kept == UInv' /\ VerdictsKept

\* The parts of the invariant.
LEMMA Facts ==
  ASSUME UInv
  PROVE  /\ phase \in [Files -> Phases] /\ sent \in [Files -> Nat]
         /\ cancel \subseteq Files /\ timers \subseteq Files
         /\ chan \in [Batches -> Seq(Messages)]
         /\ result \in [Batches -> Results]
         /\ toast \in [Batches -> {"none", "Info", "Warning", "Critical"}]
         /\ DOMAIN tasks \subseteq Files /\ retired \subseteq Files
         /\ retired \cap DOMAIN tasks = {}
         /\ Writes /\ Channels /\ RowsMatch /\ Tallied
BY DEF UInv, Typed

\* A step after which the same files are heard, each as complete as before, and
\* the counts and toasts unchanged, leaves the tallies true.
LEMMA SameHeard ==
  ASSUME \A f \in Files : Heard(f)' <=> Heard(f), \A f \in Files : Heard(f) => sent'[f] = sent[f],
         result' = result, toast' = toast, Tallied
  PROVE  Tallied'
<1> SUFFICES ASSUME NEW b \in Batches PROVE BatchTallied(b)' BY DEF Tallied
<1>1. HeardOf(b)' = HeardOf(b) BY DEF HeardOf
<1>2. WholeOf(b)' = WholeOf(b) BY <1>1 DEF WholeOf, HeardOf
<1>3. Completed(b)' = Completed(b) /\ Classify(b)' = Classify(b)
  BY DEF Completed, Classify, Members
<1> QED BY <1>1, <1>2, <1>3 DEF Tallied, BatchTallied

\* A step of a worker that opens, reads, writes or flushes and says something:
\* its messages join its channel, and nothing else of the batch changes.
LEMMA SpeakStep ==
  ASSUME UInv, NEW f \in Files, phase[f] \in {"opening"} \cup Copying,
         NEW p, NEW msgs, NEW n \in Nat, n <= Chunks[f], Says(f, p, msgs, n),
         phase' = [phase EXCEPT ![f] = p], Send(f, msgs), sent' = [sent EXCEPT ![f] = n],
         UNCHANGED <<listVars, cancel, result, toast, timers>>
  PROVE  Kept
<1> DEFINE b == Of[f]
<1>0. /\ phase \in [Files -> Phases] /\ sent \in [Files -> Nat]
      /\ cancel \subseteq Files /\ timers \subseteq Files
      /\ chan \in [Batches -> Seq(Messages)]
      /\ result \in [Batches -> Results]
      /\ toast \in [Batches -> {"none", "Info", "Warning", "Critical"}]
      /\ DOMAIN tasks \subseteq Files /\ retired \subseteq Files
      /\ retired \cap DOMAIN tasks = {}
      /\ Writes /\ Channels /\ RowsMatch /\ Tallied
  BY Facts
<1>1. /\ tasks' = tasks /\ retired' = retired /\ cancel' = cancel
      /\ result' = result /\ toast' = toast /\ timers' = timers
  BY DEF listVars
<1>2. b \in Batches /\ chan[b] \in Seq(Messages) BY <1>0, Planned
<1>3. msgs \in Seq(Messages) /\ \A i \in DOMAIN msgs : msgs[i].file = f BY DEF Says
<1>4. /\ chan' \in [Batches -> Seq(Messages)] /\ chan'[b] = chan[b] \o msgs
      /\ \A c \in Batches : c # b => chan'[c] = chan[c]
  <2>1. chan[b] \o msgs \in Seq(Messages) BY <1>2, <1>3, Concats
  <2>2. chan' = [chan EXCEPT ![b] = chan[b] \o msgs] BY DEF Send
  <2> HIDE DEF b
  <2> QED BY <1>0, <1>2, <2>1, <2>2
<1>5. Talking(chan[b], f)
  <2>1. phase[f] \in Early => Silent(chan[b], f) BY <1>0 DEF Channels
  <2>2. phase[f] \in Copying => Talking(chan[b], f) BY <1>0 DEF Channels
  <2> QED BY <2>1, <2>2 DEF Silent, Talking, Early
<1>6. \/ p \in {"reading", "flushing"} /\ Talking(chan'[b], f)
      \/ p = "returning" /\ Ended(chan'[b], f)
  <2>1. /\ Talking(msgs, f) => Talking(chan[b] \o msgs, f)
        /\ Ended(msgs, f) => Ended(chan[b] \o msgs, f)
    BY <1>2, <1>3, <1>5, SpeaksOn
  <2> QED BY <1>4, <2>1 DEF Says
<1>7. ASSUME NEW g \in Files, g # f
      PROVE  /\ Silent(chan'[Of[g]], g) <=> Silent(chan[Of[g]], g)
             /\ Talking(chan[Of[g]], g) => Talking(chan'[Of[g]], g)
             /\ Ended(chan[Of[g]], g) => Ended(chan'[Of[g]], g)
             /\ phase'[g] = phase[g] /\ sent'[g] = sent[g]
  <2>1. phase'[g] = phase[g] /\ sent'[g] = sent[g] BY <1>0, <1>7
  <2>2. CASE Of[g] = b
    <3>1. /\ Silent(chan[b] \o msgs, g) <=> Silent(chan[b], g)
          /\ Talking(chan[b], g) => Talking(chan[b] \o msgs, g)
          /\ Ended(chan[b], g) => Ended(chan[b] \o msgs, g)
      BY <1>2, <1>3, <1>7, OthersUnheard
    <3> QED BY <1>4, <2>1, <2>2, <3>1
  <2>3. CASE Of[g] # b
    <3>1. Of[g] \in Batches BY Planned
    <3>2. chan'[Of[g]] = chan[Of[g]] BY <1>4, <2>3, <3>1
    <3> QED BY <2>1, <3>2
  <2> QED BY <2>2, <2>3
<1>8. /\ phase'[f] = p /\ sent'[f] = n /\ p \in Phases
      /\ phase' \in [Files -> Phases] /\ sent' \in [Files -> Nat]
  BY <1>0, <1>6 DEF Phases, Copying, Over
<1>9. ~Heard(f) /\ ~Heard(f)'
  <2>1. phase[f] \notin Over BY DEF Over, Copying
  <2>2. ~(phase'[f] \in Over /\ Silent(chan'[b], f)) BY <1>6, <1>8, EndedSpoke DEF Over
  <2> QED BY <2>1, <2>2 DEF Heard
<1>10. \A g \in Files : Heard(g)' <=> Heard(g) BY <1>7, <1>9 DEF Heard
<1>11. \A g \in Files : Heard(g) => sent'[g] = sent[g] BY <1>7, <1>9
<1>12. Tallied' BY <1>0, <1>1, <1>10, <1>11, SameHeard
<1>13. Writes'
  <2>1. p \notin Early BY <1>6 DEF Early
  <2> QED BY <1>0, <1>7, <1>8, <2>1 DEF Writes, Says
<1>14. Typed' BY <1>0, <1>1, <1>4, <1>8 DEF Typed
<1>15. RowsMatch'
  <2>1. phase[f] # "planned" /\ p # "planned" BY <1>6 DEF Copying
  <2> QED BY <1>0, <1>1, <1>7, <1>8, <1>9, <1>10, <2>1 DEF RowsMatch, RowMatches
<1>16. Channels'
  <2>1. ASSUME NEW g \in Files
        PROVE  /\ phase'[g] \in Early => Silent(chan'[Of[g]], g)
               /\ phase'[g] \in Copying => Talking(chan'[Of[g]], g)
               /\ phase'[g] \in Over => Silent(chan'[Of[g]], g) \/ Ended(chan'[Of[g]], g)
    <3>1. CASE g = f BY <1>6, <1>8, <3>1 DEF Early, Copying, Over
    <3>2. CASE g # f BY <1>0, <1>7, <3>2 DEF Channels
    <3> QED BY <3>1, <3>2
  <2>2. ASSUME NEW c \in Batches, NEW i \in DOMAIN chan'[c]
        PROVE  /\ Of[chan'[c][i].file] = c
               /\ chan'[c][i].kind = "Finished" =>
                     sent'[chan'[c][i].file] = Chunks[chan'[c][i].file]
    <3>1. ASSUME i \in DOMAIN chan[c], chan'[c][i] = chan[c][i]
          PROVE  /\ Of[chan'[c][i].file] = c
                 /\ chan'[c][i].kind = "Finished" =>
                       sent'[chan'[c][i].file] = Chunks[chan'[c][i].file]
      <4> DEFINE m == chan[c][i]
      <4>1. Of[m.file] = c /\ (m.kind = "Finished" => sent[m.file] = Chunks[m.file])
        BY <1>0, <3>1 DEF Channels
      <4>2. m \in Messages BY <1>0, <3>1, ElementOfSeq, LenProperties
      <4>3. m.file \in Files BY <4>2 DEF Messages
      <4>4. m.file = f => m.kind # "Finished"
        <5> SUFFICES ASSUME m.file = f PROVE m.kind = "Progress" OBVIOUS
        <5>1. c = b BY <4>1
        <5> QED BY <1>5, <3>1, <5>1 DEF Talking
      <4> HIDE DEF m
      <4>5. m.kind = "Finished" => sent'[m.file] = sent[m.file] BY <1>7, <4>3, <4>4
      <4> QED BY <3>1, <4>1, <4>5 DEF m
    <3>2. CASE c # b BY <1>4, <3>1, <3>2
    <3>3. CASE c = b
      <4>1. chan'[b] = chan[b] \o msgs BY <1>4
      <4>2. /\ i \in Nat /\ (i \in DOMAIN chan[b] \/ i - Len(chan[b]) \in DOMAIN msgs)
            /\ i \in DOMAIN chan[b] => chan'[b][i] = chan[b][i]
            /\ \A j \in DOMAIN msgs : j \in Nat /\ chan'[b][Len(chan[b]) + j] = msgs[j]
            /\ Len(chan[b]) \in Nat
        <5> DEFINE q == chan[b]
                   r == q \o msgs
        <5>1. /\ \A k \in DOMAIN r : k \in Nat /\ (k \in DOMAIN q \/ k - Len(q) \in DOMAIN msgs)
              /\ \A k \in DOMAIN q : r[k] = q[k]
              /\ \A j \in DOMAIN msgs : j \in Nat /\ r[Len(q) + j] = msgs[j]
              /\ Len(q) \in Nat
          BY <1>2, <1>3, Concats
        <5>2. i \in DOMAIN r BY <2>2, <3>3, <4>1
        <5> HIDE DEF r
        <5> QED BY <4>1, <5>1, <5>2 DEF r
      <4>3. CASE i \in DOMAIN chan[b] BY <3>1, <3>3, <4>2, <4>3
      <4>4. CASE i \notin DOMAIN chan[b]
        <5> DEFINE j == i - Len(chan[b])
        <5>1. j \in DOMAIN msgs /\ i = Len(chan[b]) + j BY <4>2, <4>4
        <5>2. chan'[b][i] = msgs[j] BY <4>2, <5>1
        <5>3. msgs[j].file = f /\ (msgs[j].kind = "Finished" => n = Chunks[f])
          BY <5>1 DEF Says
        <5> QED BY <1>8, <3>3, <5>2, <5>3
      <4> QED BY <4>3, <4>4
    <3> QED BY <3>2, <3>3
  <2> QED BY <2>1, <2>2 DEF Channels
<1>17. VerdictsKept BY <1>1 DEF VerdictsKept
<1> QED BY <1>12, <1>13, <1>14, <1>15, <1>16, <1>17 DEF Kept, UInv

\* A worker moves on without a word: to its permit, to the next write, to the
\* flush of a complete file, or out.
LEMMA MoveStep ==
  ASSUME UInv, NEW f \in Files, NEW p,
         \/ phase[f] \in {"listed", "acquiring"} /\ p \in {"acquiring", "opening"}
         \/ phase[f] = "reading" /\ p = "flushing" /\ sent[f] = Chunks[f]
         \/ phase[f] = "reading" /\ p = "writing" /\ sent[f] < Chunks[f]
         \/ phase[f] = "returning" /\ p = "gone",
         phase' = [phase EXCEPT ![f] = p],
         UNCHANGED <<listVars, chan, sent, cancel, result, toast, timers>>
  PROVE  Kept
<1>0. /\ phase \in [Files -> Phases] /\ sent \in [Files -> Nat]
      /\ Writes /\ Channels /\ RowsMatch /\ Tallied
  BY Facts
<1>1. /\ tasks' = tasks /\ retired' = retired /\ chan' = chan /\ sent' = sent /\ cancel' = cancel
      /\ result' = result /\ toast' = toast /\ timers' = timers
  BY DEF listVars
<1>2. p \in Phases /\ phase' \in [Files -> Phases] /\ phase'[f] = p
      /\ \A g \in Files : g # f => phase'[g] = phase[g]
  BY <1>0 DEF Phases, Early, Copying, Over
<1>3. /\ phase[f] \in Early <=> p \in Early
      /\ phase[f] \in Copying <=> p \in Copying
      /\ phase[f] \in Over <=> p \in Over
      /\ p # "planned" /\ phase[f] # "planned"
  BY DEF Early, Copying, Over
<1>4. \A g \in Files : /\ phase[g] \in Early <=> phase'[g] \in Early
                       /\ phase[g] \in Copying <=> phase'[g] \in Copying
                       /\ phase[g] \in Over <=> phase'[g] \in Over
                       /\ phase[g] = "planned" <=> phase'[g] = "planned"
  BY <1>2, <1>3
<1>5. \A g \in Files : Heard(g)' <=> Heard(g) BY <1>1, <1>4 DEF Heard
<1>6. Tallied' BY <1>0, <1>1, <1>5, SameHeard
<1>7. Typed' BY <1>1, <1>2 DEF UInv, Typed
<1>8. Writes' BY <1>0, <1>1, <1>2, <1>4 DEF Writes
<1>9. Channels' BY <1>0, <1>1, <1>4 DEF Channels
<1>10. RowsMatch' BY <1>0, <1>1, <1>4, <1>5 DEF RowsMatch, RowMatches
<1>11. VerdictsKept BY <1>1 DEF VerdictsKept
<1> QED BY <1>6, <1>7, <1>8, <1>9, <1>10, <1>11 DEF Kept, UInv

\* What upsert does to the row of a report, whichever it is.
LEMMA Upserts ==
  ASSUME NEW r, List!Upsert(r)
  PROVE  /\ DOMAIN tasks' = DOMAIN tasks \cup {r.id} /\ retired' = retired
         /\ tasks'[r.id].status = r.status
         /\ \A g \in DOMAIN tasks : g # r.id => tasks'[g] = tasks[g]
<1>1. CASE List!Replace(r)
  <2>1. tasks' = List!Put(tasks, r.id, List!Carry(r)) /\ retired' = retired
    BY <1>1 DEF List!Replace, List!Store
  <2>2. List!Carry(r).status = r.status BY DEF List!Carry
  <2> QED BY <2>1, <2>2 DEF List!Put
<1>2. CASE List!Insert(r)
  <2> DEFINE row == [id |-> r.id, group |-> r.group, status |-> r.status,
                     done |-> r.done, total |-> r.total]
  <2>1. tasks' = List!Put(tasks, r.id, row) /\ retired' = retired
    BY <1>2 DEF List!Insert, List!Store
  <2>2. row.status = r.status OBVIOUS
  <2> HIDE DEF row
  <2> QED BY <2>1, <2>2 DEF List!Put
<1> QED BY <1>1, <1>2 DEF List!Upsert

\* begin_upload_transfers lists a file that never had a row.
LEMMA BeginStep == ASSUME UInv, NEW f \in Files, BeginTransfer(f) PROVE Kept
<1>0. /\ phase \in [Files -> Phases] /\ sent \in [Files -> Nat]
      /\ DOMAIN tasks \subseteq Files /\ retired \subseteq Files /\ retired \cap DOMAIN tasks = {}
      /\ Writes /\ Channels /\ RowsMatch /\ Tallied
  BY Facts
<1>1. /\ phase[f] = "planned" /\ phase' = [phase EXCEPT ![f] = "listed"]
      /\ sent' = sent /\ cancel' = cancel /\ chan' = chan /\ result' = result
      /\ toast' = toast /\ timers' = timers
  BY DEF BeginTransfer, batchVars
<1>2. PICK r \in {Report(f, "InProgress", {0}, IF Total(f) > 0 THEN {Total(f)} ELSE {})} :
          List!Upsert(r)
  BY DEF BeginTransfer
<1>3. r.id = f /\ r.status = "InProgress" BY DEF Report
<1>4. /\ DOMAIN tasks' = DOMAIN tasks \cup {f} /\ retired' = retired
      /\ tasks'[f].status = "InProgress"
      /\ \A g \in DOMAIN tasks : g # f => tasks'[g] = tasks[g]
  BY <1>2, <1>3, Upserts
<1>5. f \notin DOMAIN tasks \cup retired \cup timers BY <1>0, <1>1 DEF RowsMatch, RowMatches
<1>6. /\ phase' \in [Files -> Phases] /\ phase'[f] = "listed"
      /\ \A g \in Files : g # f => phase'[g] = phase[g]
  BY <1>0, <1>1 DEF Phases, Early
<1>7. \A g \in Files : /\ phase[g] \in Early <=> phase'[g] \in Early
                       /\ phase[g] \in Copying <=> phase'[g] \in Copying
                       /\ phase[g] \in Over <=> phase'[g] \in Over
  BY <1>1, <1>6 DEF Early, Copying, Over
<1>8. \A g \in Files : Heard(g)' <=> Heard(g) BY <1>1, <1>7 DEF Heard
<1>9. Tallied' BY <1>0, <1>1, <1>8, SameHeard
<1>10. Typed'
  <2>1. retired' \cap DOMAIN tasks' = {} /\ DOMAIN tasks' \subseteq Files BY <1>0, <1>4, <1>5
  <2> QED BY <1>1, <1>4, <1>6, <2>1 DEF UInv, Typed
<1>11. Writes' BY <1>0, <1>1, <1>6, <1>7 DEF Writes
<1>12. Channels' BY <1>0, <1>1, <1>7 DEF Channels
<1>13. ~Heard(f)' BY <1>6 DEF Heard, Over
<1>14. RowsMatch'
  <2> SUFFICES ASSUME NEW g \in Files PROVE RowMatches(g)' BY DEF RowsMatch
  <2>1. CASE g = f BY <1>1, <1>4, <1>5, <1>6, <1>13, <2>1 DEF RowMatches
  <2>2. CASE g # f BY <1>0, <1>1, <1>4, <1>6, <1>8, <2>2 DEF RowsMatch, RowMatches
  <2> QED BY <2>1, <2>2
<1>15. VerdictsKept BY <1>4, <1>5 DEF VerdictsKept
<1> QED BY <1>9, <1>10, <1>11, <1>12, <1>14, <1>15 DEF Kept, UInv

\* A dismiss timer fires: its upload was heard, so the row it removes has ended.
LEMMA TimerStep == ASSUME UInv, NEW f \in Files, TimerFires(f) PROVE Kept
<1>0. /\ DOMAIN tasks \subseteq Files /\ retired \subseteq Files /\ retired \cap DOMAIN tasks = {}
      /\ timers \subseteq Files /\ Writes /\ Channels /\ RowsMatch /\ Tallied
  BY Facts
<1>1. /\ f \in timers /\ timers' = timers \ {f} /\ phase' = phase /\ sent' = sent
      /\ cancel' = cancel /\ chan' = chan /\ result' = result /\ toast' = toast
  BY DEF TimerFires, workVars, batchVars
<1>2. Heard(f) /\ f \in DOMAIN tasks /\ tasks[f].status \in Outcomes
  BY <1>0, <1>1 DEF RowsMatch, RowMatches
<1>3. List!Remove(f) BY <1>2 DEF TimerFires, Dismissable, Outcomes
<1>4. tasks' = List!Without(tasks, f) /\ retired' = retired \cup {f}
  BY <1>3 DEF List!Remove, List!Store
<1>5. /\ DOMAIN tasks' = DOMAIN tasks \ {f} /\ \A g \in DOMAIN tasks' : tasks'[g] = tasks[g]
  BY <1>4 DEF List!Without
<1>6. \A g \in Files : Heard(g)' <=> Heard(g) BY <1>1 DEF Heard
<1>7. Tallied' BY <1>0, <1>1, <1>6, SameHeard
<1>8. Typed'
  <2>1. /\ retired' \cap DOMAIN tasks' = {} /\ DOMAIN tasks' \subseteq Files
        /\ retired' \subseteq Files
    BY <1>0, <1>4, <1>5
  <2> QED BY <1>0, <1>1, <2>1 DEF UInv, Typed
<1>9. Writes' BY <1>0, <1>1 DEF Writes
<1>10. Channels' BY <1>0, <1>1 DEF Channels
<1>11. phase[f] # "planned" BY <1>2 DEF Heard, Over
<1>12. RowsMatch'
  <2> SUFFICES ASSUME NEW g \in Files PROVE RowMatches(g)' BY DEF RowsMatch
  <2>1. CASE g = f BY <1>1, <1>2, <1>5, <1>6, <1>11, <2>1 DEF RowMatches
  <2>2. CASE g # f BY <1>0, <1>1, <1>4, <1>5, <1>6, <2>2 DEF RowsMatch, RowMatches
  <2> QED BY <2>1, <2>2
<1>13. VerdictsKept BY <1>4, <1>5 DEF VerdictsKept
<1> QED BY <1>7, <1>8, <1>9, <1>10, <1>12, <1>13 DEF Kept, UInv

\* Steps that only raise a cancel flag or move permits.
LEMMA QuietStep ==
  ASSUME UInv, UNCHANGED <<listVars, phase, sent, chan, result, timers>>,
         cancel' \subseteq Files, toast' = toast
  PROVE  Kept
<1>0. Writes /\ Channels /\ RowsMatch /\ Tallied BY Facts
<1>1. /\ tasks' = tasks /\ retired' = retired /\ phase' = phase /\ sent' = sent /\ chan' = chan
      /\ result' = result /\ timers' = timers
  BY DEF listVars
<1>2. \A g \in Files : Heard(g)' <=> Heard(g) BY <1>1 DEF Heard
<1>3. Tallied' BY <1>0, <1>1, <1>2, SameHeard
<1>4. Typed' BY <1>1 DEF UInv, Typed
<1>5. Writes' BY <1>0, <1>1 DEF Writes
<1>6. Channels' BY <1>0, <1>1 DEF Channels
<1>7. RowsMatch' BY <1>0, <1>1, <1>2 DEF RowsMatch, RowMatches
<1>8. VerdictsKept BY <1>1 DEF VerdictsKept
<1> QED BY <1>3, <1>4, <1>5, <1>6, <1>7, <1>8 DEF Kept, UInv

\* finish_upload_batch makes the toast of the final counts.
LEMMA FinishStep == ASSUME UInv, NEW b \in Batches, FinishBatch(b) PROVE Kept
<1>0. /\ toast \in [Batches -> {"none", "Info", "Warning", "Critical"}]
      /\ Writes /\ Channels /\ RowsMatch /\ Tallied
  BY Facts
<1>1. /\ tasks' = tasks /\ retired' = retired /\ phase' = phase /\ sent' = sent /\ chan' = chan
      /\ result' = result /\ timers' = timers /\ cancel' = cancel
      /\ Completed(b) = Cardinality(Members(b)) /\ toast' = [toast EXCEPT ![b] = Classify(b)]
  BY DEF FinishBatch, listVars, workVars
<1>2. \A g \in Files : Heard(g)' <=> Heard(g) BY <1>1 DEF Heard
<1>3. /\ toast'[b] = Classify(b) /\ \A c \in Batches : c # b => toast'[c] = toast[c]
      /\ toast' \in [Batches -> {"none", "Info", "Warning", "Critical"}]
  BY <1>0, <1>1 DEF Classify
<1>4. Tallied'
  <2> SUFFICES ASSUME NEW c \in Batches PROVE BatchTallied(c)' BY DEF Tallied
  <2>1. HeardOf(c)' = HeardOf(c) BY <1>2 DEF HeardOf
  <2>2. WholeOf(c)' = WholeOf(c) BY <1>1, <2>1 DEF WholeOf, HeardOf
  <2>3. Completed(c)' = Completed(c) /\ Classify(c)' = Classify(c)
    BY <1>1 DEF Completed, Classify, Members
  <2> QED BY <1>0, <1>1, <1>3, <2>1, <2>2, <2>3 DEF Tallied, BatchTallied
<1>5. Typed' BY <1>1, <1>3 DEF UInv, Typed
<1>6. Writes' BY <1>0, <1>1 DEF Writes
<1>7. Channels' BY <1>0, <1>1 DEF Channels
<1>8. RowsMatch' BY <1>0, <1>1, <1>2 DEF RowsMatch, RowMatches
<1>9. VerdictsKept BY <1>1 DEF VerdictsKept
<1> QED BY <1>4, <1>5, <1>6, <1>7, <1>8, <1>9 DEF Kept, UInv

\* The collector receives a message.  Its file was not heard yet, so its row is
\* in progress; a verdict is the last word of its file, which is heard from now
\* on and counted once.
LEMMA CollectStep == ASSUME UInv, NEW b \in Batches, Collect(b) PROVE Kept
<1>q. PICK q : q = chan[b] OBVIOUS
<1> DEFINE m == Head(q)
           f == m.file
<1>0. /\ phase \in [Files -> Phases] /\ sent \in [Files -> Nat] /\ timers \subseteq Files
      /\ chan \in [Batches -> Seq(Messages)] /\ result \in [Batches -> Results]
      /\ DOMAIN tasks \subseteq Files /\ retired \subseteq Files /\ retired \cap DOMAIN tasks = {}
      /\ Writes /\ Channels /\ RowsMatch /\ Tallied
  BY Facts
<1>1. /\ toast[b] = "none" /\ q # <<>> /\ chan' = [chan EXCEPT ![b] = Tail(q)]
      /\ phase' = phase /\ sent' = sent /\ cancel' = cancel /\ toast' = toast
      /\ List!Upsert(ReportOf(m))
      /\ IF m.kind = "Progress" THEN result' = result /\ timers' = timers
         ELSE /\ result' = [result EXCEPT ![b] = Tally(result[b], m.kind)]
              /\ timers' = timers \cup {f}
  BY <1>q DEF Collect, workVars
<1>2. q \in Seq(Messages) BY <1>q, <1>0
<1>3. /\ Tail(q) \in Seq(Messages) /\ m \in Messages /\ 1 \in DOMAIN q /\ m = q[1]
      /\ \A i \in DOMAIN Tail(q) : i + 1 \in DOMAIN q /\ Tail(q)[i] = q[i + 1]
  BY <1>1, <1>2, Tails
<1>4. f \in Files /\ m.kind \in Kinds BY <1>3 DEF Messages
<1>5. Of[f] = b /\ (m.kind = "Finished" => sent[f] = Chunks[f])
  BY <1>q, <1>0, <1>3 DEF Channels
<1>6. ~Silent(q, f) BY <1>3 DEF Silent
<1>7. ~Heard(f) /\ phase[f] \notin Early BY <1>q, <1>0, <1>4, <1>5, <1>6 DEF Heard, Channels
<1>8. f \in DOMAIN tasks /\ tasks[f].status = "InProgress" /\ f \notin timers
  BY <1>0, <1>4, <1>7 DEF RowsMatch, RowMatches, Early
<1>9. /\ DOMAIN tasks' = DOMAIN tasks /\ retired' = retired
      /\ tasks'[f].status = IF m.kind = "Progress" THEN "InProgress" ELSE m.kind
      /\ \A g \in DOMAIN tasks : g # f => tasks'[g] = tasks[g]
  <2>1. /\ ReportOf(m).id = f
        /\ ReportOf(m).status = IF m.kind = "Progress" THEN "InProgress" ELSE m.kind
    BY DEF ReportOf, Report
  <2>2. PICK r : r = ReportOf(m) OBVIOUS
  <2>3. List!Upsert(r) BY <1>1, <2>2
  <2>4. /\ DOMAIN tasks' = DOMAIN tasks \cup {r.id} /\ retired' = retired
        /\ tasks'[r.id].status = r.status
        /\ \A g \in DOMAIN tasks : g # r.id => tasks'[g] = tasks[g]
    BY <2>3, Upserts
  <2> HIDE DEF m, f
  <2> QED BY <1>8, <2>1, <2>2, <2>4
<1>10. /\ chan' \in [Batches -> Seq(Messages)] /\ chan'[b] = Tail(q)
       /\ \A c \in Batches : c # b => chan'[c] = chan[c]
  BY <1>0, <1>1, <1>3
<1>11. ASSUME NEW g \in Files, Of[g] = b
       PROVE  /\ Silent(q, g) => Silent(Tail(q), g)
              /\ Talking(q, g) => Talking(Tail(q), g)
              /\ f # g /\ Silent(Tail(q), g) => Silent(q, g)
              /\ Ended(q, g) /\ (f # g \/ m.kind \notin Outcomes) => Ended(Tail(q), g)
              /\ Ended(q, g) /\ f = g /\ m.kind \in Outcomes => Silent(Tail(q), g)
  BY <1>1, <1>2, TailKeeps
<1> HIDE DEF m, f
<1>12. \A g \in Files : Of[g] # b => chan'[Of[g]] = chan[Of[g]] BY <1>10, Planned
<1>13. \A g \in Files : g # f => (Heard(g)' <=> Heard(g))
  <2> SUFFICES ASSUME NEW g \in Files, g # f
               PROVE  Silent(chan'[Of[g]], g) <=> Silent(chan[Of[g]], g)
    BY <1>1 DEF Heard
  <2> QED BY <1>q, <1>10, <1>11, <1>12
<1>14. VerdictsKept BY <1>8, <1>9 DEF VerdictsKept, Outcomes
<1>15. Writes' BY <1>0, <1>1 DEF Writes
<1>16. Channels'
  <2>1. ASSUME NEW g \in Files
        PROVE  /\ phase'[g] \in Early => Silent(chan'[Of[g]], g)
               /\ phase'[g] \in Copying => Talking(chan'[Of[g]], g)
               /\ phase'[g] \in Over => Silent(chan'[Of[g]], g) \/ Ended(chan'[Of[g]], g)
    <3>1. CASE Of[g] # b BY <1>0, <1>1, <1>12, <3>1 DEF Channels
    <3>2. CASE Of[g] = b
      <4>1. /\ phase[g] \in Early => Silent(q, g)
            /\ phase[g] \in Copying => Talking(q, g)
            /\ phase[g] \in Over => Silent(q, g) \/ Ended(q, g)
        BY <1>q, <1>0, <3>2 DEF Channels
      <4>2. Ended(q, g) => Silent(Tail(q), g) \/ Ended(Tail(q), g) BY <1>11, <3>2
      <4> QED BY <1>1, <1>10, <1>11, <3>2, <4>1, <4>2
    <3> QED BY <3>1, <3>2
  <2>2. ASSUME NEW c \in Batches, NEW i \in DOMAIN chan'[c]
        PROVE  /\ Of[chan'[c][i].file] = c
               /\ chan'[c][i].kind = "Finished" =>
                     sent'[chan'[c][i].file] = Chunks[chan'[c][i].file]
    <3>1. PICK j \in DOMAIN chan[c] : chan'[c][i] = chan[c][j]
      <4>1. CASE c # b BY <1>10, <2>2, <4>1
      <4>2. CASE c = b BY <1>q, <1>3, <1>10, <2>2, <4>2
      <4> QED BY <4>1, <4>2
    <3> QED BY <1>0, <1>1, <3>1 DEF Channels
  <2> QED BY <2>1, <2>2 DEF Channels
<1>17. CASE m.kind = "Progress"
  <2>1. m.kind \notin Outcomes BY <1>17 DEF Outcomes
  <2>2. result' = result /\ timers' = timers BY <1>1, <1>17
  <2>3. ~Heard(f)'
    <3> SUFFICES ASSUME phase[f] \in Over PROVE ~Silent(chan'[b], f) BY <1>1, <1>5 DEF Heard
    <3>1. Ended(q, f) BY <1>q, <1>0, <1>4, <1>5, <1>6 DEF Channels
    <3>2. Ended(Tail(q), f) BY <1>4, <1>5, <1>11, <2>1, <3>1
    <3> QED BY <1>10, <3>2, EndedSpoke
  <2>4. \A g \in Files : Heard(g)' <=> Heard(g) BY <1>7, <1>13, <2>3
  <2>5. Tallied' BY <1>0, <1>1, <2>2, <2>4, SameHeard
  <2>6. Typed' BY <1>1, <1>9, <1>10, <2>2 DEF UInv, Typed
  <2>7. RowsMatch'
    <3> SUFFICES ASSUME NEW g \in Files PROVE RowMatches(g)' BY DEF RowsMatch
    <3>1. CASE g = f BY <1>1, <1>7, <1>8, <1>9, <1>17, <2>2, <2>3, <3>1
         DEF Early, RowMatches
    <3>2. CASE g # f BY <1>0, <1>1, <1>9, <2>2, <2>4, <3>2 DEF RowsMatch, RowMatches
    <3> QED BY <3>1, <3>2
  <2> QED BY <1>14, <1>15, <1>16, <2>5, <2>6, <2>7 DEF Kept, UInv
<1>18. CASE m.kind # "Progress"
  <2>1. m.kind \in Outcomes BY <1>4, <1>18 DEF Kinds
  <2>2. result' = [result EXCEPT ![b] = Tally(result[b], m.kind)] /\ timers' = timers \cup {f}
    BY <1>1, <1>18
  <2>3. Heard(f)' /\ phase[f] \in Over
    <3>1. ~Talking(q, f) BY <1>q, <1>3, <1>18 DEF Talking, f
    <3>2. phase[f] \notin Copying BY <1>q, <1>0, <1>4, <1>5, <3>1 DEF Channels
    <3>3. phase[f] \in Over BY <1>0, <1>4, <1>7, <3>2 DEF Phases
    <3>4. Ended(q, f) BY <1>q, <1>0, <1>4, <1>5, <1>6, <3>3 DEF Channels
    <3>5. Silent(Tail(q), f) BY <1>4, <1>5, <1>11, <2>1, <3>4
    <3> QED BY <1>1, <1>5, <1>10, <3>3, <3>5 DEF Heard
  <2>4. /\ result' \in [Batches -> Results] /\ \A c \in Batches : c # b => result'[c] = result[c]
        /\ Completed(b)' = Completed(b) + 1
        /\ result'[b].uploaded = result[b].uploaded + (IF m.kind = "Finished" THEN 1 ELSE 0)
        /\ Completed(b) \in Nat /\ result[b].uploaded \in Nat
    <3> DEFINE old == result[b]
               new == Tally(old, m.kind)
    <3>1. old \in Results BY <1>0
    <3> HIDE DEF old
    <3>2. /\ old = [uploaded |-> old.uploaded, cancelled |-> old.cancelled, failed |-> old.failed]
          /\ old.uploaded \in Nat /\ old.cancelled \in Nat /\ old.failed \in Nat
      BY <3>1 DEF Results
    <3>3. /\ new \in Results
          /\ new.uploaded + new.cancelled + new.failed =
                old.uploaded + old.cancelled + old.failed + 1
          /\ new.uploaded = IF m.kind = "Finished" THEN old.uploaded + 1 ELSE old.uploaded
      <4>1. CASE m.kind = "Finished"
        <5>1. new = [old EXCEPT !.uploaded = @ + 1] BY <4>1 DEF Tally
        <5>2. new = [uploaded |-> old.uploaded + 1, cancelled |-> old.cancelled,
                     failed |-> old.failed]
          BY <3>2, <5>1
        <5> HIDE DEF new
        <5> QED BY <3>2, <4>1, <5>2 DEF Results
      <4>2. CASE m.kind = "Cancelled"
        <5>1. new = [old EXCEPT !.cancelled = @ + 1] BY <4>2 DEF Tally
        <5>2. new = [uploaded |-> old.uploaded, cancelled |-> old.cancelled + 1,
                     failed |-> old.failed]
          BY <3>2, <5>1
        <5> HIDE DEF new
        <5> QED BY <3>2, <4>2, <5>2 DEF Results
      <4>3. CASE m.kind = "Failed"
        <5>1. new = [old EXCEPT !.failed = @ + 1] BY <4>3 DEF Tally
        <5>2. new = [uploaded |-> old.uploaded, cancelled |-> old.cancelled,
                     failed |-> old.failed + 1]
          BY <3>2, <5>1
        <5> HIDE DEF new
        <5> QED BY <3>2, <4>3, <5>2 DEF Results
      <4> QED BY <2>1, <4>1, <4>2, <4>3 DEF Outcomes
    <3> HIDE DEF new
    <3>4. /\ result'[b] = new /\ result' \in [Batches -> Results]
          /\ \A c \in Batches : c # b => result'[c] = result[c]
      BY <1>0, <2>2, <3>3 DEF new, old
    <3> QED BY <3>2, <3>3, <3>4 DEF Completed, old
  <2>5. HeardOf(b)' = HeardOf(b) \cup {f} /\ f \notin HeardOf(b)
    BY <1>4, <1>5, <1>7, <1>13, <2>3 DEF HeardOf
  <2>6. WholeOf(b)' = IF sent[f] = Chunks[f] THEN WholeOf(b) \cup {f} ELSE WholeOf(b)
    BY <1>1, <2>5 DEF WholeOf
  <2>7. /\ IsFiniteSet(HeardOf(b)) /\ IsFiniteSet(WholeOf(b)) /\ f \notin WholeOf(b)
        /\ Cardinality(WholeOf(b)) \in Nat
    <3>1. HeardOf(b) \in SUBSET Files /\ WholeOf(b) \in SUBSET Files BY DEF HeardOf, WholeOf
    <3>2. IsFiniteSet(WholeOf(b)) BY <3>1, UploadAssumption, FS_Subset
    <3> QED BY <2>5, <3>1, <3>2, UploadAssumption, FS_Subset, FS_CardinalityType DEF WholeOf
  <2>8. /\ Cardinality(HeardOf(b)') = Cardinality(HeardOf(b)) + 1
        /\ Cardinality(WholeOf(b) \cup {f}) = Cardinality(WholeOf(b)) + 1
    BY <2>5, <2>7, FS_AddElement
  <2>9. Tallied'
    <3> SUFFICES ASSUME NEW c \in Batches PROVE BatchTallied(c)' BY DEF Tallied
    <3>1. CASE c = b
      <4>1. Completed(b) = Cardinality(HeardOf(b)) /\ result[b].uploaded <= Cardinality(WholeOf(b))
        BY <1>0 DEF Tallied, BatchTallied
      <4>2. Completed(b)' = Cardinality(HeardOf(b)') BY <2>4, <2>8, <4>1
      <4>3. result'[b].uploaded <= Cardinality(WholeOf(b)')
        BY <1>5, <2>4, <2>6, <2>7, <2>8, <4>1
      <4> QED BY <1>1, <3>1, <4>2, <4>3 DEF BatchTallied
    <3>2. CASE c # b
      <4>1. HeardOf(c)' = HeardOf(c) BY <1>5, <1>13, <3>2 DEF HeardOf
      <4>2. WholeOf(c)' = WholeOf(c) BY <1>1, <4>1 DEF WholeOf
      <4>3. Completed(c)' = Completed(c) /\ Classify(c)' = Classify(c)
        BY <2>4, <3>2 DEF Completed, Classify, Members
      <4> QED BY <1>0, <1>1, <2>4, <3>2, <4>1, <4>2, <4>3 DEF Tallied, BatchTallied
    <3> QED BY <3>1, <3>2
  <2>10. Typed' BY <1>0, <1>1, <1>4, <1>9, <1>10, <2>2, <2>4 DEF UInv, Typed
  <2>11. RowsMatch'
    <3> SUFFICES ASSUME NEW g \in Files PROVE RowMatches(g)' BY DEF RowsMatch
    <3>1. CASE g = f BY <1>1, <1>5, <1>8, <1>9, <1>18, <2>1, <2>2, <2>3, <3>1
         DEF Over, RowMatches
    <3>2. CASE g # f BY <1>0, <1>1, <1>9, <1>13, <2>2, <3>2 DEF RowsMatch, RowMatches
    <3> QED BY <3>1, <3>2
  <2> QED BY <1>14, <1>15, <1>16, <2>9, <2>10, <2>11 DEF Kept, UInv
<1> QED BY <1>17, <1>18

\* Each step of a worker is one that moves or one that says something.
LEMMA WorkerStep == ASSUME UInv, NEW f \in Files, Worker(f) PROVE Kept
<1>0. /\ phase \in [Files -> Phases] /\ sent \in [Files -> Nat] /\ cancel \subseteq Files /\ Writes
      /\ chan \in [Batches -> Seq(Messages)]
  BY Facts
<1>1. /\ Chunks[f] \in Nat /\ sent[f] \in Nat /\ sent[f] <= Chunks[f] /\ Total(f) \in Nat
      /\ phase[f] = "writing" => sent[f] < Chunks[f]
      /\ phase[f] = "flushing" => sent[f] = Chunks[f]
  BY <1>0, Planned DEF Writes, Total
<1>2. sent = [sent EXCEPT ![f] = sent[f]] BY <1>0
<1>3. /\ "Failed" \in Outcomes /\ "Cancelled" \in Outcomes /\ "Finished" \in Outcomes
      /\ "reading" \in Copying /\ "writing" \in Copying /\ "flushing" \in Copying
  BY DEF Outcomes, Copying
\* The worker ends its upload with a verdict other than "Finished".
<1>4. ASSUME NEW kind \in {"Failed", "Cancelled"}, EndWith(f, <<Msg(kind, f, 0)>>),
             phase[f] \in {"opening"} \cup Copying, sent' = sent,
             UNCHANGED <<listVars, cancel, result, toast, timers>>
      PROVE  Kept
  <2>1. Says(f, "returning", <<Msg(kind, f, 0)>>, sent[f]) BY <1>3, SaysVerdict
  <2> QED BY <1>1, <1>2, <1>4, <2>1, SpeakStep DEF EndWith
<1>5. CASE AskPermit(f) BY <1>5, MoveStep DEF AskPermit, batchVars
<1>6. CASE GotPermit(f) BY <1>6, MoveStep DEF GotPermit, batchVars
<1>7. CASE OpenFiles(f)
  <2>1. /\ phase[f] = "opening" /\ sent' = sent
        /\ UNCHANGED <<listVars, cancel, result, toast, timers>>
    BY <1>7 DEF OpenFiles
  <2>2. CASE LoopTop(f, 0, <<>>)
    <3>1. PICK n \in Nat : n = 0 OBVIOUS
    <3>2. PICK report \in {<<>>, <<Msg("Progress", f, n)>>} : LoopTop(f, n, report)
      BY <2>2, <3>1
    <3>3. n <= Chunks[f] BY <1>1, <3>1
    <3>4. PICK p, msgs : Says(f, p, msgs, n) /\ Send(f, msgs) /\ phase' = [phase EXCEPT ![f] = p]
      BY <3>2, <3>3, LoopTopSays
    <3>5. sent[f] = n BY <1>0, <2>1, <3>1 DEF Writes, Early
    <3> QED BY <1>1, <1>2, <2>1, <3>4, <3>5, SpeakStep
  <2>3. CASE EndWith(f, <<Msg("Failed", f, 0)>>) BY <1>4, <2>1, <2>3
  <2> QED BY <1>7, <2>2, <2>3 DEF OpenFiles
<1>8. CASE ReadReturns(f)
  <2>1. /\ phase[f] = "reading" /\ sent' = sent
        /\ UNCHANGED <<listVars, cancel, result, toast, timers>>
    BY <1>8 DEF ReadReturns
  <2>2. CASE sent[f] = Chunks[f] /\ phase' = [phase EXCEPT ![f] = "flushing"] /\ UNCHANGED chan
    BY <2>1, <2>2, MoveStep
  <2>3. CASE EndWith(f, <<Msg("Failed", f, 0)>>) BY <1>3, <1>4, <2>1, <2>3
  <2>4. CASE EndWith(f, <<Msg("Cancelled", f, 0)>>) BY <1>3, <1>4, <2>1, <2>4
  <2>5. CASE sent[f] < Chunks[f] /\ phase' = [phase EXCEPT ![f] = "writing"] /\ UNCHANGED chan
    BY <2>1, <2>5, MoveStep
  <2> QED BY <1>8, <2>2, <2>3, <2>4, <2>5 DEF ReadReturns
<1>9. CASE WriteReturns(f)
  <2>1. phase[f] = "writing" /\ UNCHANGED <<listVars, cancel, result, toast, timers>>
    BY <1>9 DEF WriteReturns
  <2>2. CASE EndWith(f, <<Msg("Failed", f, 0)>>) /\ UNCHANGED sent BY <1>3, <1>4, <2>1, <2>2
  <2>3. CASE /\ sent' = [sent EXCEPT ![f] = @ + 1]
             /\ \E report \in {<<>>, <<Msg("Progress", f, sent[f] + 1)>>} :
                    LoopTop(f, sent[f] + 1, report)
    <3>1. PICK n \in Nat : n = sent[f] + 1 BY <1>1
    <3>2. n <= Chunks[f] /\ sent' = [sent EXCEPT ![f] = n] BY <1>1, <2>1, <2>3, <3>1
    <3>3. PICK report \in {<<>>, <<Msg("Progress", f, n)>>} : LoopTop(f, n, report)
      BY <2>3, <3>1
    <3>4. PICK p, msgs : Says(f, p, msgs, n) /\ Send(f, msgs) /\ phase' = [phase EXCEPT ![f] = p]
      BY <3>2, <3>3, LoopTopSays
    <3>5. phase[f] \in {"opening"} \cup Copying BY <1>3, <2>1
    <3> QED BY <2>1, <3>2, <3>4, <3>5, SpeakStep
  <2> QED BY <1>9, <2>2, <2>3 DEF WriteReturns
<1>10. CASE FlushReturns(f)
  <2>1. /\ phase[f] = "flushing" /\ sent' = sent
        /\ UNCHANGED <<listVars, cancel, result, toast, timers>>
        /\ Send(f, FinalMessages(f)) /\ phase' = [phase EXCEPT ![f] = "returning"]
    BY <1>10 DEF FlushReturns, EndWith
  <2>2. Says(f, "returning", FinalMessages(f), sent[f])
    BY <1>1, <1>3, <2>1, SaysBoth DEF FinalMessages
  <2>3. phase[f] \in {"opening"} \cup Copying BY <1>3, <2>1
  <2> QED BY <1>1, <1>2, <2>1, <2>2, <2>3, SpeakStep
<1>11. CASE WorkerReturns(f) BY <1>11, MoveStep DEF WorkerReturns, batchVars
<1> QED BY <1>5, <1>6, <1>7, <1>8, <1>9, <1>10, <1>11 DEF Worker

\* The program starts in the invariant: nothing is listed, sent or heard.
LEMMA UploadInit == Init => UInv
<1> SUFFICES ASSUME Init PROVE UInv OBVIOUS
<1>1. /\ phase = [f \in Files |-> "planned"] /\ sent = [f \in Files |-> 0] /\ cancel = {}
      /\ chan = [b \in Batches |-> <<>>] /\ result = [b \in Batches |-> NoResult]
      /\ toast = [b \in Batches |-> "none"] /\ timers = {} /\ tasks = <<>> /\ retired = {}
  BY DEF Init, List!Init
<1>2. <<>> \in Seq(Messages) /\ DOMAIN <<>> = {}
  <2>1. <<>> \in Seq(Messages) /\ Len(<<>>) = 0 BY EmptySeq
  <2> QED BY <2>1, LenProperties
<1>3. Typed BY <1>1, <1>2 DEF Typed, Phases, Early, Results, NoResult
<1>4. Writes BY <1>1, Planned DEF Writes
<1>5. Channels BY <1>1, <1>2, Planned DEF Channels, Silent, Early, Copying, Over
<1>6. \A f \in Files : ~Heard(f) BY <1>1 DEF Heard, Over
<1>7. RowsMatch BY <1>1, <1>2, <1>6 DEF RowsMatch, RowMatches
<1>8. Tallied
  <2> SUFFICES ASSUME NEW b \in Batches PROVE BatchTallied(b) BY DEF Tallied
  <2>1. HeardOf(b) = {} /\ WholeOf(b) = {} BY <1>6 DEF HeardOf, WholeOf
  <2>2. Cardinality({}) = 0 BY FS_EmptySet
  <2>3. Completed(b) = 0 /\ result[b].uploaded = 0 BY <1>1 DEF Completed, NoResult
  <2> QED BY <1>1, <2>1, <2>2, <2>3 DEF BatchTallied
<1> QED BY <1>3, <1>4, <1>5, <1>7, <1>8 DEF UInv

\* Every step keeps the invariant and the verdicts.
LEMMA UploadNext == UInv /\ [Next]_vars => Kept
<1> SUFFICES ASSUME UInv, [Next]_vars PROVE Kept OBVIOUS
<1>0. cancel \subseteq Files /\ DOMAIN tasks \subseteq Files BY Facts
<1>1. ASSUME NEW f \in Files, BeginTransfer(f) PROVE Kept BY <1>1, BeginStep
<1>2. ASSUME NEW f \in Files, Worker(f) PROVE Kept BY <1>2, WorkerStep
<1>3. ASSUME NEW f \in Files, Cancel(f) PROVE Kept
  BY <1>0, <1>3, QuietStep DEF Cancel, batchVars
<1>4. ASSUME NEW f \in Files, TimerFires(f) PROVE Kept BY <1>4, TimerStep
<1>5. ASSUME NEW b \in Batches, Collector(b) PROVE Kept
  BY <1>5, CollectStep, FinishStep DEF Collector
<1>6. ASSUME NEW n \in Requests, Resize(n) PROVE Kept
  BY <1>0, <1>6, QuietStep DEF Resize, workVars, batchVars
<1>7. ASSUME UNCHANGED vars PROVE Kept
  BY <1>0, <1>7, QuietStep DEF vars, workVars, batchVars
<1> QED BY <1>1, <1>2, <1>3, <1>4, <1>5, <1>6, <1>7 DEF Next

\* In every reachable state the rows of the uploads, the messages under way, the
\* chunks written and the counts of the batches agree.
THEOREM UploadInvariant == Spec => []UInv
<1>1. UInv /\ [Next]_vars => UInv' BY UploadNext DEF Kept
<1> QED BY <1>1, UploadInit, PTL DEF Spec

-----------------------------------------------------------------------------
(***************************************************************************)
(* The properties of the uploads.                                          *)
(***************************************************************************)

\* An upload that is not over was not heard, so its row is in progress.
LEMMA InvRunningRowsListed == UInv => RunningRowsListed
<1> SUFFICES ASSUME UInv, NEW f \in Files,
                    phase[f] \in {"listed", "acquiring", "opening"} \cup Copying
             PROVE  f \in DOMAIN tasks /\ tasks[f].status = "InProgress"
  BY DEF RunningRowsListed
<1>1. phase[f] # "planned" /\ ~Heard(f) BY DEF Heard, Over, Copying
<1> QED BY <1>1, Facts DEF RowsMatch, RowMatches

\* Until its worker has ended, an upload is listed as in progress: no dismiss
\* timer, message of another file or resize takes its row or its cancel button.
THEOREM UploadRunningRowsListed == Spec => []RunningRowsListed
BY UploadInvariant, InvRunningRowsListed, PTL

\* A batch whose counts are complete has heard of every file of it.
LEMMA AllHeard ==
  ASSUME UInv, NEW b \in Batches, Completed(b) = Cardinality(Members(b))
  PROVE  HeardOf(b) = Members(b)
<1>1. HeardOf(b) \in SUBSET Members(b) BY Planned DEF HeardOf
<1>2. Cardinality(HeardOf(b)) = Cardinality(Members(b)) BY Facts DEF Tallied, BatchTallied
<1> QED BY <1>1, <1>2, Planned, FS_Subset

\* All files heard leaves the channel empty; as many uploads counted as files
\* makes every file complete, since only complete files are counted.
LEMMA InvToastTruthful == UInv => ToastTruthful
<1> SUFFICES ASSUME UInv PROVE ToastTruthful OBVIOUS
<1>0. /\ DOMAIN tasks \subseteq Files /\ chan \in [Batches -> Seq(Messages)]
      /\ Channels /\ RowsMatch /\ Tallied
  BY Facts
<1>1. ASSUME NEW f \in DOMAIN tasks, tasks[f].status = "Finished" PROVE sent[f] = Chunks[f]
  <2>1. Heard(f) BY <1>0, <1>1 DEF RowsMatch, RowMatches
  <2> QED BY <1>0, <1>1, <2>1 DEF RowsMatch, RowMatches
<1>2. ASSUME NEW b \in Batches, toast[b] # "none" PROVE chan[b] = <<>>
  <2>1. HeardOf(b) = Members(b) BY <1>0, <1>2, AllHeard DEF Tallied, BatchTallied
  <2> SUFFICES ASSUME chan[b] # <<>> PROVE FALSE OBVIOUS
  <2> DEFINE m == chan[b][1]
  <2>2. 1 \in DOMAIN chan[b] /\ m \in Messages BY <1>0, Tails
  <2>3. m.file \in Files BY <2>2 DEF Messages
  <2>4. Of[m.file] = b BY <1>0, <2>2 DEF Channels
  <2>5. m.file \in HeardOf(b) BY <2>1, <2>3, <2>4, Planned
  <2>6. Silent(chan[b], m.file) BY <2>4, <2>5 DEF HeardOf, Heard
  <2> QED BY <2>2, <2>6 DEF Silent
<1>3. ASSUME NEW b \in Batches, toast[b] = "Info" PROVE \A f \in Members(b) : sent[f] = Chunks[f]
  <2>1. toast[b] = Classify(b) /\ result[b].uploaded <= Cardinality(WholeOf(b))
    BY <1>0, <1>3 DEF Tallied, BatchTallied
  <2>2. result[b].uploaded = Cardinality(Members(b)) BY <1>3, <2>1 DEF Classify
  <2>3. WholeOf(b) \in SUBSET Members(b) BY Planned DEF WholeOf, HeardOf
  <2>4. /\ Cardinality(WholeOf(b)) <= Cardinality(Members(b)) /\ IsFiniteSet(WholeOf(b))
        /\ Cardinality(Members(b)) = Cardinality(WholeOf(b)) => Members(b) = WholeOf(b)
    BY <2>3, Planned, FS_Subset
  <2>5. Cardinality(WholeOf(b)) \in Nat /\ Cardinality(Members(b)) \in Nat
    BY <2>4, Planned, FS_CardinalityType
  <2>6. Members(b) = WholeOf(b) BY <2>1, <2>2, <2>4, <2>5
  <2> QED BY <2>6 DEF WholeOf
<1>4. ASSUME NEW b \in Batches, toast[b] = "Critical"
      PROVE  result[b].failed = Cardinality(Members(b))
  <2>1. toast[b] = Classify(b) BY <1>0, <1>4 DEF Tallied, BatchTallied
  <2> QED BY <1>4, <2>1 DEF Classify
<1> QED BY <1>1, <1>2, <1>3, <1>4 DEF ToastTruthful

\* A row reads finished only for a file written to its end; the toast comes after
\* every message of the batch and reports success only when all files are whole.
THEOREM UploadToastTruthful == Spec => []ToastTruthful
BY UploadInvariant, InvToastTruthful, PTL

\* No message, however late, changes a verdict that is shown or lists a dismissed
\* upload again.
THEOREM UploadVerdictsFinal == Spec => VerdictsFinal
<1> DEFINE A == \A f \in Files :
          /\ f \in DOMAIN tasks /\ tasks[f].status \in Outcomes /\ f \in DOMAIN tasks'
                => tasks'[f].status = tasks[f].status
          /\ f \in retired => f \notin DOMAIN tasks'
<1>1. UInv /\ [Next]_vars => A
  <2> SUFFICES ASSUME UInv, [Next]_vars PROVE A OBVIOUS
  <2>1. UInv' /\ VerdictsKept BY UploadNext DEF Kept
  <2>2. retired' \cap DOMAIN tasks' = {} BY <2>1 DEF UInv, Typed
  <2> QED BY <2>1, <2>2 DEF VerdictsKept
<1>2. UInv /\ [Next]_vars => [A]_vars BY <1>1
<1> HIDE DEF A
<1>3. Spec => [][A]_vars BY <1>2, UploadInvariant, PTL DEF Spec
<1> QED BY <1>3 DEF VerdictsFinal, A

\* Once its cancel flag is raised, a worker of run_upload_worker starts no write.
THEOREM UploadCancelStopsWrites == Spec => CancelStopsWrites
<1> DEFINE A == \A f \in Files : f \in cancel /\ phase'[f] = "writing" => phase[f] = "writing"
<1>1. UInv /\ [Next]_vars => [A]_vars
  <2> SUFFICES ASSUME UInv, Next, NEW f \in Files, f \in cancel, phase'[f] = "writing"
               PROVE  phase[f] = "writing"
    OBVIOUS
  <2>0. phase \in [Files -> Phases] BY Facts
  <2>1. ASSUME NEW g \in Files, NEW p, phase' = [phase EXCEPT ![g] = p], p # "writing"
        PROVE  phase[f] = "writing"
    BY <2>0, <2>1
  <2>2. ASSUME phase' = phase PROVE phase[f] = "writing" BY <2>2
  <2>3. ASSUME NEW g \in Files, NEW msgs, EndWith(g, msgs) PROVE phase[f] = "writing"
    BY <2>1, <2>3 DEF EndWith
  <2>4. ASSUME NEW g \in Files, NEW n, NEW report, LoopTop(g, n, report) PROVE phase[f] = "writing"
    BY <2>1, <2>3, <2>4 DEF LoopTop
  <2>5. ASSUME NEW g \in Files, Worker(g) PROVE phase[f] = "writing"
    <3>1. CASE AskPermit(g) BY <2>1, <3>1 DEF AskPermit
    <3>2. CASE GotPermit(g) BY <2>1, <3>2 DEF GotPermit
    <3>3. CASE OpenFiles(g) BY <2>3, <2>4, <3>3 DEF OpenFiles
    <3>4. CASE ReadReturns(g)
      <4>1. CASE g = f BY <2>1, <2>3, <3>4, <4>1 DEF ReadReturns
      <4>2. CASE g # f
        <5>1. CASE g \notin cancel /\ phase' = [phase EXCEPT ![g] = "writing"]
          BY <2>0, <4>2, <5>1
        <5> QED BY <2>1, <2>3, <3>4, <5>1 DEF ReadReturns
      <4> QED BY <4>1, <4>2
    <3>5. CASE WriteReturns(g) BY <2>3, <2>4, <3>5 DEF WriteReturns
    <3>6. CASE FlushReturns(g) BY <2>3, <3>6 DEF FlushReturns
    <3>7. CASE WorkerReturns(g) BY <2>1, <3>7 DEF WorkerReturns
    <3> QED BY <2>5, <3>1, <3>2, <3>3, <3>4, <3>5, <3>6, <3>7 DEF Worker
  <2>6. ASSUME NEW g \in Files, BeginTransfer(g) PROVE phase[f] = "writing"
    BY <2>1, <2>6 DEF BeginTransfer
  <2>7. ASSUME NEW g \in Files, Cancel(g) \/ TimerFires(g) PROVE phase[f] = "writing"
    BY <2>2, <2>7 DEF Cancel, TimerFires, workVars
  <2>8. ASSUME NEW b \in Batches, Collector(b) PROVE phase[f] = "writing"
    BY <2>2, <2>8 DEF Collector, Collect, FinishBatch, workVars
  <2>9. ASSUME NEW n \in Requests, Resize(n) PROVE phase[f] = "writing"
    BY <2>2, <2>9 DEF Resize, workVars
  <2> QED BY <2>5, <2>6, <2>7, <2>8, <2>9 DEF Next
<1> HIDE DEF A
<1>2. Spec => [][A]_vars BY <1>1, UploadInvariant, PTL DEF Spec
<1> QED BY <1>2 DEF CancelStopsWrites, A

-----------------------------------------------------------------------------
(***************************************************************************)
(* The permit pool as the uploads use it.  Each worker is a task of the    *)
(* pool that never drops its acquire() future, so the pool's specification *)
(* is instantiated with no cancellable task.                               *)
(***************************************************************************)
PoolProof == INSTANCE PermitPoolProofs WITH
                 Tasks <- Files, Cancellable <- {}, MaxAbandoned <- 0

\* The uploads' constants meet the assumptions of the pool.
LEMMA PoolConstants ==
  /\ PoolProof!IsFiniteSet(Files) /\ Dead \notin Files
  /\ {} \subseteq Files /\ MaxPermits \in Nat \ {0}
  /\ Requests \subseteq Nat /\ 0 \in Nat
BY UploadAssumption DEF Dead, PoolProof!IsFiniteSet, IsFiniteSet

\* The uploads start with the pool as the pool starts.
LEMMA PoolInit == Init => PoolProof!Init
BY DEF Init, Pool!Init, PoolProof!Init, Pool!Clamp, PoolProof!Clamp

\* acquire() in a worker is acquire() of the pool.
LEMMA PoolAcquire == ASSUME NEW f \in Files, Pool!Acquire(f) PROVE PoolProof!Acquire(f)
BY DEF Pool!Acquire, PoolProof!Acquire, Pool!AcquireFree, PoolProof!AcquireFree,
       Pool!AcquirePark, PoolProof!AcquirePark

\* A worker polled with its permit is a task resumed.
LEMMA PoolResume == ASSUME NEW f \in Files, Pool!Resume(f) PROVE PoolProof!Resume(f)
BY DEF Pool!Resume, PoolProof!Resume

\* The library operators of the two instances of the pool are the same.
LEMMA PoolCount == ASSUME NEW S PROVE Pool!Cardinality(S) = PoolProof!Cardinality(S)
BY Zenon DEF Pool!Cardinality, PoolProof!Cardinality

\* The same tasks are woken.
LEMMA PoolWoken == ASSUME NEW k PROVE Pool!Woken(k) = PoolProof!Woken(k)
BY DEF Pool!Woken, PoolProof!Woken

\* grant_waiters grants the same permits.
LEMMA PoolGrants ==
  ASSUME NEW m, NEW i, NEW s, Pool!GrantWaiters(m, i, s) PROVE PoolProof!GrantWaiters(m, i, s)
BY PoolCount, PoolWoken DEF Pool!GrantWaiters, PoolProof!GrantWaiters

\* A worker that returns drops its permit as a task does.
LEMMA PoolRelease == ASSUME NEW f \in Files, Pool!Release(f) PROVE PoolProof!Release(f)
BY PoolGrants DEF Pool!Release, PoolProof!Release

\* The setting reaches the pool as set_max.
LEMMA PoolSetMax == ASSUME NEW n \in Requests, Pool!SetMax(n) PROVE PoolProof!SetMax(n)
<1>1. Pool!Clamp(n) = PoolProof!Clamp(n) BY DEF Pool!Clamp, PoolProof!Clamp
<1> QED BY <1>1, PoolGrants DEF Pool!SetMax, PoolProof!SetMax

\* Every step of the uploads is a step of the pool or leaves the pool alone.
LEMMA PoolNext == [Next]_vars => [PoolProof!Next]_(PoolProof!vars)
<1> SUFFICES ASSUME [Next]_vars PROVE PoolProof!Next \/ UNCHANGED PoolProof!vars OBVIOUS
<1>1. ASSUME UNCHANGED poolVars PROVE UNCHANGED PoolProof!vars
  BY <1>1 DEF poolVars, PoolProof!vars
<1>2. ASSUME NEW f \in Files, Worker(f) PROVE PoolProof!Next \/ UNCHANGED PoolProof!vars
  <2>1. CASE AskPermit(f) BY <2>1, PoolAcquire DEF AskPermit, PoolProof!Next
  <2>2. CASE GotPermit(f) BY <1>1, <2>2, PoolResume DEF GotPermit, PoolProof!Next
  <2>3. CASE WorkerReturns(f)
    BY <2>3, PoolRelease DEF WorkerReturns, DropPermit, PoolProof!Next
  <2>4. CASE OpenFiles(f) \/ ReadReturns(f) \/ WriteReturns(f) \/ FlushReturns(f)
    BY <1>1, <2>4 DEF OpenFiles, ReadReturns, WriteReturns, FlushReturns
  <2> QED BY <1>2, <2>1, <2>2, <2>3, <2>4 DEF Worker
<1>3. ASSUME NEW f \in Files, BeginTransfer(f) \/ Cancel(f) \/ TimerFires(f)
      PROVE UNCHANGED PoolProof!vars
  BY <1>1, <1>3 DEF BeginTransfer, Cancel, TimerFires
<1>4. ASSUME NEW b \in Batches, Collector(b) PROVE UNCHANGED PoolProof!vars
  BY <1>1, <1>4 DEF Collector, Collect, FinishBatch
<1>5. ASSUME NEW n \in Requests, Resize(n) PROVE PoolProof!Next
  BY <1>5, PoolSetMax DEF Resize, PoolProof!Next
<1>6. ASSUME UNCHANGED vars PROVE UNCHANGED PoolProof!vars BY <1>1, <1>6 DEF vars
<1> QED BY <1>2, <1>3, <1>4, <1>5, <1>6 DEF Next

\* The uploads implement the pool: whatever workers, collectors, timers and the
\* user do, the pool only ever makes its own steps.
THEOREM UploadUsesPool == Spec => PoolProof!Spec
BY PoolInit, PoolNext, PTL DEF Spec, PoolProof!Spec

\* So the pool's invariant holds of the uploads: the counter is exact, no worker
\* waits while a permit is free, and each waits with one sender in the queue.
THEOREM UploadPoolExact == Spec => []PoolProof!IInv
BY UploadUsesPool, PoolConstants, PoolProof!Invariance, PTL

\* And what it is to the uploads is the semaphore of its contract: permits in the
\* order of asking, whatever else the workers do.
THEOREM UploadsShareSemaphore == Spec => PoolProof!ImplementsSemaphore
BY UploadUsesPool, PoolConstants, PoolProof!PoolIsSemaphore

\* Workers between acquire() and their return, and a worker's place in the pool.
Working == {"opening", "returning"} \cup Copying

PermitsMatch ==
    \A f \in Files :
        /\ phase[f] \in {"planned", "listed", "gone"} => st[f] = "idle"
        /\ phase[f] = "acquiring" => st[f] \in {"waiting", "granted", "holding"}
        /\ phase[f] \in Working => st[f] = "holding"

\* At work means with a permit; at most so many as the pool counts in flight.
AtWork == {f \in Files : phase[f] \in Working}

WorkersHoldPermits ==
    /\ \A f \in AtWork : st[f] = "holding"
    /\ IsFiniteSet(AtWork) /\ Cardinality(AtWork) <= inflight

\* The invariant of the pair of a worker's phase and its permit.
PermitInv == Typed /\ PoolProof!IInv /\ PermitsMatch

\* grant_waiters wakes workers that wait in acquire(), and no other.
LEMMA WakesTheWaiting ==
  ASSUME PoolProof!IInv, NEW k \in 0..Len(waiters)
  PROVE  \A f \in Pool!Woken(k) : f \in Files /\ st[f] = "waiting"
<1>1. waiters \in Seq(Files \cup {Dead}) BY DEF PoolProof!IInv, PoolProof!TypeOK
<1>2. 1..k \subseteq DOMAIN waiters BY <1>1, LenProperties
<1> QED BY <1>2 DEF Pool!Woken, PoolProof!IInv, PoolProof!QueuedOnce

\* Waking them keeps every worker's place, also when a permit drops first.
LEMMA GrantsKeepMatch ==
  ASSUME PermitInv, NEW m, NEW i, NEW s \in [Files -> PoolProof!Status],
         NEW p \in [Files -> Phases],
         Pool!GrantWaiters(m, i, s), phase' = p,
         \A f \in Files : \/ p[f] = phase[f] /\ s[f] = st[f]
                          \/ p[f] = "gone" /\ s[f] = "idle" /\ st[f] = "holding"
  PROVE  PermitsMatch'
<1>1. PICK k \in 0..Len(waiters) :
        st' = [t \in Files |-> IF t \in Pool!Woken(k) THEN "granted" ELSE s[t]]
  BY DEF Pool!GrantWaiters
<1>2. \A f \in Pool!Woken(k) : f \in Files /\ st[f] = "waiting"
  BY WakesTheWaiting DEF PermitInv
<1>3. ASSUME NEW f \in Files
      PROVE  /\ p[f] \in {"planned", "listed", "gone"} => st'[f] = "idle"
             /\ p[f] = "acquiring" => st'[f] \in {"waiting", "granted", "holding"}
             /\ p[f] \in Working => st'[f] = "holding"
  <2>1. CASE f \in Pool!Woken(k)
    <3>1. st[f] = "waiting" /\ st'[f] = "granted" /\ p[f] = phase[f] BY <1>1, <1>2, <2>1
    <3>2. phase[f] \in Phases BY DEF PermitInv, Typed
    <3>3. phase[f] = "acquiring"
      BY <3>1, <3>2 DEF PermitInv, PermitsMatch, Phases, Early, Over, Working
    <3> QED BY <3>1, <3>3 DEF Working, Copying
  <2>2. CASE f \notin Pool!Woken(k)
    <3>1. st'[f] = s[f] BY <1>1, <2>2
    <3> QED BY <3>1 DEF PermitInv, PermitsMatch, Working, Copying
  <2> QED BY <2>1, <2>2
<1> QED BY <1>3 DEF PermitsMatch

\* Every step keeps the places of the workers.
LEMMA MatchNext == PermitInv /\ [Next]_vars => PermitsMatch'
<1> SUFFICES ASSUME PermitInv, [Next]_vars PROVE PermitsMatch' OBVIOUS
<1> USE DEF PermitInv
<1>s. st \in [Files -> PoolProof!Status] BY DEF PoolProof!IInv, PoolProof!TypeOK
<1>p. phase \in [Files -> Phases] BY DEF Typed
<1>1. ASSUME UNCHANGED <<phase, poolVars>> PROVE PermitsMatch'
  BY <1>1 DEF poolVars, PermitsMatch
<1>m. ASSUME NEW f \in Files, NEW x \in Working, phase[f] \in Working \ {"returning"},
             phase' = [phase EXCEPT ![f] = x], UNCHANGED poolVars
      PROVE  PermitsMatch'
  BY <1>m, <1>s, <1>p DEF poolVars, PermitsMatch, Working, Copying
<1>2. ASSUME NEW f \in Files, Worker(f) PROVE PermitsMatch'
  <2>1. CASE AskPermit(f)
    <3>1. phase' = [phase EXCEPT ![f] = "acquiring"] BY <2>1 DEF AskPermit
    <3>2. \/ st' = [st EXCEPT ![f] = "holding"] \/ st' = [st EXCEPT ![f] = "waiting"]
      BY <2>1 DEF AskPermit, Pool!Acquire, Pool!AcquireFree, Pool!AcquirePark
    <3> QED BY <3>1, <3>2, <1>s, <1>p DEF PermitsMatch, Working, Copying
  <2>2. CASE GotPermit(f)
    <3>1. phase[f] = "acquiring" /\ phase' = [phase EXCEPT ![f] = "opening"]
      BY <2>2 DEF GotPermit
    <3>2. (st' = st /\ st[f] = "holding") \/ st' = [st EXCEPT ![f] = "holding"]
      BY <2>2 DEF GotPermit, Pool!Resume, poolVars
    <3> QED BY <3>1, <3>2, <1>s, <1>p DEF PermitsMatch, Working, Copying
  <2>3. CASE WorkerReturns(f)
    <3>1. PICK p : p = [phase EXCEPT ![f] = "gone"] OBVIOUS
    <3>2. PICK s : s = [st EXCEPT ![f] = "idle"] OBVIOUS
    <3>3. phase' = p /\ phase[f] = "returning" BY <2>3, <3>1 DEF WorkerReturns
    <3>4. st[f] = "holding" BY <2>3 DEF WorkerReturns, DropPermit, Pool!Release
    <3>5. PICK i : Pool!GrantWaiters(max, i, s)
      BY <2>3, <3>2 DEF WorkerReturns, DropPermit, Pool!Release
    <3>6. p \in [Files -> Phases] BY <3>1, <1>p DEF Phases, Over
    <3>7. s \in [Files -> PoolProof!Status] BY <3>2, <1>s DEF PoolProof!Status
    <3>8. \A g \in Files : \/ p[g] = phase[g] /\ s[g] = st[g]
                           \/ p[g] = "gone" /\ s[g] = "idle" /\ st[g] = "holding"
      BY <3>1, <3>2, <3>4, <1>s, <1>p
    <3> QED BY <3>3, <3>5, <3>6, <3>7, <3>8, GrantsKeepMatch
  <2>4. CASE OpenFiles(f)
    <3>1. PICK x \in Working : phase' = [phase EXCEPT ![f] = x]
      BY <2>4 DEF OpenFiles, LoopTop, EndWith, Working, Copying
    <3> QED BY <1>m, <2>4, <3>1 DEF OpenFiles, Working
  <2>5. CASE ReadReturns(f)
    <3>1. PICK x \in Working : phase' = [phase EXCEPT ![f] = x]
      BY <2>5 DEF ReadReturns, EndWith, Working, Copying
    <3> QED BY <1>m, <2>5, <3>1 DEF ReadReturns, Working, Copying
  <2>6. CASE WriteReturns(f)
    <3>1. PICK x \in Working : phase' = [phase EXCEPT ![f] = x]
      BY <2>6 DEF WriteReturns, LoopTop, EndWith, Working, Copying
    <3> QED BY <1>m, <2>6, <3>1 DEF WriteReturns, Working, Copying
  <2>7. CASE FlushReturns(f)
    <3>1. phase' = [phase EXCEPT ![f] = "returning"] BY <2>7 DEF FlushReturns, EndWith
    <3> QED BY <1>m, <2>7, <3>1 DEF FlushReturns, Working, Copying
  <2> QED BY <1>2, <2>1, <2>2, <2>3, <2>4, <2>5, <2>6, <2>7 DEF Worker
<1>3. ASSUME NEW f \in Files, BeginTransfer(f) PROVE PermitsMatch'
  <2>1. phase[f] = "planned" /\ phase' = [phase EXCEPT ![f] = "listed"] /\ UNCHANGED st
    BY <1>3 DEF BeginTransfer, poolVars
  <2> QED BY <2>1, <1>p DEF PermitsMatch, Working, Copying
<1>4. ASSUME NEW f \in Files, Cancel(f) \/ TimerFires(f) PROVE UNCHANGED <<phase, poolVars>>
  BY <1>4 DEF Cancel, TimerFires, workVars
<1>5. ASSUME NEW b \in Batches, Collector(b) PROVE UNCHANGED <<phase, poolVars>>
  BY <1>5 DEF Collector, Collect, FinishBatch, workVars
<1>6. ASSUME NEW n \in Requests, Resize(n) PROVE PermitsMatch'
  <2>1. phase' = phase BY <1>6 DEF Resize, workVars
  <2>2. PICK m, i : Pool!GrantWaiters(m, i, st) BY <1>6 DEF Resize, Pool!SetMax
  <2> QED BY <1>s, <1>p, <2>1, <2>2, GrantsKeepMatch
<1>7. ASSUME UNCHANGED vars PROVE UNCHANGED <<phase, poolVars>> BY <1>7 DEF vars, workVars
<1> QED BY <1>1, <1>2, <1>3, <1>4, <1>5, <1>6, <1>7 DEF Next

\* Nobody has asked for a permit at the start.
LEMMA MatchInit == Init => PermitsMatch
BY DEF Init, Pool!Init, PermitsMatch, Working, Copying

\* Who works holds a permit, and the counter counts every permit held.
LEMMA MatchBounds == PermitInv => WorkersHoldPermits
<1> SUFFICES ASSUME PermitInv PROVE WorkersHoldPermits OBVIOUS
<1>1. \A f \in AtWork : st[f] = "holding" BY DEF PermitInv, PermitsMatch, AtWork
<1>2. PICK H : H = {t \in Files : st[t] \in {"granted", "holding"}} OBVIOUS
<1>3. AtWork \subseteq H /\ H \subseteq Files BY <1>1, <1>2 DEF AtWork
<1>4. IsFiniteSet(Files) BY UploadAssumption
<1>5. IsFiniteSet(H) BY <1>3, <1>4, FS_Subset
<1>6. IsFiniteSet(AtWork) /\ Cardinality(AtWork) <= Cardinality(H) BY <1>3, <1>5, FS_Subset
<1>7. PoolProof!Cardinality(H) = Cardinality(H)
  BY Zenon DEF PoolProof!Cardinality, Cardinality
<1>8. H = PoolProof!InState({"granted", "holding"}) BY <1>2 DEF PoolProof!InState
<1>9. inflight = PoolProof!Cardinality(H) + lost /\ lost \in Nat /\ inflight \in Nat
  BY <1>8 DEF PermitInv, PoolProof!IInv, PoolProof!Accounting, PoolProof!TypeOK
<1>10. Cardinality(H) \in Nat /\ Cardinality(AtWork) \in Nat BY <1>5, <1>6, FS_CardinalityType
<1> QED BY <1>1, <1>6, <1>7, <1>9, <1>10 DEF WorkersHoldPermits

\* A worker that opens, copies or is about to return holds a permit, and no more
\* of them are at work than the pool counts: concurrency stays what was set.
THEOREM UploadsHoldPermits == Spec => []WorkersHoldPermits
<1>1. UInv => Typed BY DEF UInv
<1>2. Typed /\ PoolProof!IInv /\ PermitsMatch => PermitInv BY DEF PermitInv
<1> QED
  BY UploadInvariant, UploadPoolExact, MatchInit, MatchNext, MatchBounds, <1>1, <1>2, PTL
         DEF Spec
=============================================================================
