-------------------------- MODULE SftpBrowserProofs --------------------------
(***************************************************************************)
(* What the panel shows of the server and what it still has to list, for   *)
(* any paths, any users and any number of requests under way.              *)
(***************************************************************************)
EXTENDS SftpBrowser, TLAPS, FiniteSetTheorems, SequenceTheorems

Places == Paths \cup {Home}
Changes == {"create", "rename", "move", "remove"}

\* The requests the panel makes.
Requested ==
    {r \in [op : {"list"} \cup Changes, at : Places, to : Places] :
        /\ r.op = "list" => r.at \in Dirs
        /\ r.op \in Changes => r.to \in Paths
        /\ r.op = "create" => r.at \in Dirs
        /\ r.op \in Changes \ {"create"} => r.at \in Paths}

Answered ==
    {a \in [op : {"list"} \cup Changes, at : Places, to : Places, ok : BOOLEAN,
            found : SUBSET Paths] : Request(a.op, a.at, a.to) \in Requested}

Trees ==
    {t \in [root : Dirs, kids : UNION {[N -> SUBSET Paths] : N \in SUBSET Places},
            loaded : SUBSET Dirs, expanded : SUBSET Dirs] : t.loaded \subseteq DOMAIN t.kids}

Typed ==
    /\ disk \subseteq Paths
    /\ tree \in Trees
    /\ visible \subseteq Paths /\ selected \subseteq Paths
    /\ loading \subseteq Dirs
    /\ online \in BOOLEAN
    /\ deletion \in Deletions \cup {None}
    /\ requests \in Seq(Requested) /\ answers \in Seq(Answered)
    /\ fresh \subseteq Dirs /\ owed \subseteq Dirs

\* The panel removes one path at a time, and only while it deletes.
Removing(q) == {i \in DOMAIN q : q[i].op = "remove"}

OneRemoval ==
    /\ deletion = None => Removing(requests) = {} /\ Removing(answers) = {}
    /\ \A i, j \in Removing(requests) : i = j
    /\ \A i, j \in Removing(answers) : i = j
    /\ Removing(requests) = {} \/ Removing(answers) = {}

\* The answers that bring a listing of d.
Bringing(q, d) == {i \in DOMAIN q : q[i].op = "list" /\ q[i].at = d /\ q[i].ok}

\* Of a directory that did not change since it was last listed, the last listing
\* under way, or else the tree, is what the server has.
Listings ==
    \A d \in fresh :
        /\ \A i \in Bringing(answers, d) :
              (\A j \in Bringing(answers, d) : j <= i) => answers[i].found = Listing(disk, d)
        /\ Bringing(answers, d) = {} /\ d \in tree.loaded => tree.kids[d] = Listing(disk, d)

IInv == Typed /\ RowsInStep /\ OneRemoval /\ Listings /\ ChangesFollowedUp

AskedIn(q, d) == \E i \in DOMAIN q : q[i].op = "list" /\ q[i].at = d

-----------------------------------------------------------------------------
(* Paths, requests and queues of them. *)

\* The login directory is a directory; every path has a last name and a parent.
LEMMA PathFacts ==
    /\ Home \in Dirs /\ Dirs \subseteq Places /\ IsFiniteSet(Dirs)
    /\ \A p \in Paths : /\ p \in Seq(Names) /\ Len(p) \in Nat \ {0}
                        /\ Parent(p) \in Dirs
<1>1. Home \in Dirs /\ Dirs \subseteq Places
  BY DEF Dirs, IsDir, Places
<1>2. IsFiniteSet(Places)
  BY BrowserAssumption, FS_AddElement DEF Places
<1>3. IsFiniteSet(Dirs)
  BY <1>1, <1>2, FS_Subset
<1>4. ASSUME NEW p \in Paths PROVE p \in Seq(Names) /\ Len(p) \in Nat \ {0} /\ Parent(p) \in Dirs
  <2>1. p \in Seq(Names) /\ p # << >> /\ Parent(p) \in Dirs
    BY BrowserAssumption DEF Home
  <2> QED
    BY <2>1, EmptySeq
<1> QED
  BY <1>1, <1>3, <1>4

\* A request changes directories only, and its answer has all it owes listed.
LEMMA OwedDirs ==
  ASSUME NEW r, r \in Requested \/ r \in Answered
  PROVE  /\ Owes(r) \subseteq Dirs
         /\ r \in Answered => ToRefresh(r) \subseteq Dirs
         /\ r \in Answered /\ r.ok => Owes(r) \subseteq ToRefresh(r)
<1>1. /\ r.op = "create" => r.to \in Paths /\ r.at \in Dirs
      /\ r.op \in {"rename", "move", "remove"} => r.at \in Paths /\ r.to \in Paths
      /\ r \in Answered => r.ok \in BOOLEAN
  BY DEF Requested, Answered, Request, Changes
<1>2. Touched(r) \subseteq Dirs
  BY <1>1, PathFacts DEF Touched
<1>3. NameTyped(r) => DialogDir(r) \in Dirs
  BY <1>1, PathFacts DEF NameTyped, DialogDir
<1> QED
  BY <1>1, <1>2, <1>3 DEF Owes, ToRefresh

\* An order of a set lists its elements and nothing else.
LEMMA OrdersProps ==
  ASSUME NEW S \in SUBSET Dirs, NEW s \in Orders(S)
  PROVE  s \in Seq(S) /\ {s[i] : i \in DOMAIN s} = S
<1>1. IsFiniteSet(S) /\ Cardinality(S) \in Nat
  BY PathFacts, FS_Subset, FS_CardinalityType
<1> QED
  BY <1>1 DEF Orders

\* Requests for the listings of S, put behind what a queue holds.
Lists(q, S, all) ==
    /\ all \in Seq(Requested)
    /\ \A d : AskedIn(all, d) <=> AskedIn(q, d) \/ d \in S
    /\ Removing(all) = Removing(q)

\* The listings of S asked for in any order.
LEMMA ListsBehind ==
  ASSUME NEW q \in Seq(Requested), NEW S \in SUBSET Dirs, NEW s \in Orders(S), NEW all,
         all = q \o [i \in DOMAIN s |-> Request("list", s[i], s[i])]
  PROVE  Lists(q, S, all)
<1> DEFINE new == [i \in DOMAIN s |-> Request("list", s[i], s[i])]
<1>1. s \in Seq(S) /\ {s[i] : i \in DOMAIN s} = S
  BY OrdersProps
<1>2. \A x \in S : Request("list", x, x) \in Requested
  BY PathFacts DEF Request, Requested, Changes
<1>3. new \in Seq(Requested) /\ Len(new) = Len(s) /\ DOMAIN s = 1..Len(s)
  BY <1>1, <1>2
<1>4. \A i \in 1..Len(s) : new[i].op = "list" /\ new[i].at = s[i]
  BY <1>3 DEF Request
<1> HIDE DEF new
<1>5. all = q \o new
  BY DEF new
<1>6. /\ Len(q) \in Nat /\ Len(new) \in Nat /\ DOMAIN q = 1..Len(q) /\ DOMAIN new = 1..Len(new)
  BY <1>3, LenProperties
<1>7. /\ q \o new \in Seq(Requested) /\ Len(q \o new) = Len(q) + Len(new)
       /\ \A i \in 1..Len(q) + Len(new) : (q \o new)[i] = IF i <= Len(q) THEN q[i] ELSE new[i - Len(q)]
  BY <1>3, ConcatProperties
<1>8. /\ all \in Seq(Requested) /\ Len(all) = Len(q) + Len(new)
       /\ \A i \in 1..Len(q) + Len(new) : all[i] = IF i <= Len(q) THEN q[i] ELSE new[i - Len(q)]
  BY <1>5, <1>7, Zenon
<1>9. DOMAIN all = 1..(Len(q) + Len(new))
  BY <1>8, LenProperties
<1>10. Removing(all) = Removing(q)
  <2>1. \A i \in 1..Len(q) : i \in DOMAIN all /\ all[i] = q[i]
    BY <1>6, <1>8, <1>9
  <2>2. ASSUME NEW i \in DOMAIN all, all[i].op = "remove" PROVE i \in DOMAIN q
    <3>1. SUFFICES ASSUME ~(i <= Len(q)) PROVE FALSE
      BY <1>6, <1>9
    <3>2. i - Len(q) \in 1..Len(s) /\ all[i] = new[i - Len(q)]
      BY <3>1, <1>3, <1>6, <1>8, <1>9
    <3> QED
      BY <3>2, <2>2, <1>4
  <2> QED
    BY <2>1, <2>2, <1>6 DEF Removing
<1>11. ASSUME NEW d PROVE AskedIn(all, d) <=> AskedIn(q, d) \/ d \in S
  <2>1. ASSUME AskedIn(q, d) PROVE AskedIn(all, d)
    BY <2>1, <1>6, <1>8, <1>9 DEF AskedIn
  <2>2. ASSUME d \in S PROVE AskedIn(all, d)
    <3>1. PICK i \in 1..Len(s) : s[i] = d
      BY <2>2, <1>1, <1>3
    <3>2. i + Len(q) \in 1..Len(q) + Len(new) /\ ~(i + Len(q) <= Len(q)) /\ (i + Len(q)) - Len(q) = i
      BY <1>3, <1>6
    <3>3. i + Len(q) \in DOMAIN all /\ all[i + Len(q)] = new[i]
      BY <3>2, <1>8, <1>9
    <3> QED
      BY <3>1, <3>3, <1>4 DEF AskedIn
  <2>3. ASSUME AskedIn(all, d) PROVE AskedIn(q, d) \/ d \in S
    <3>1. PICK i \in DOMAIN all : all[i].op = "list" /\ all[i].at = d
      BY <2>3 DEF AskedIn
    <3>2. CASE i <= Len(q)
      BY <3>1, <3>2, <1>6, <1>8, <1>9 DEF AskedIn
    <3>3. CASE ~(i <= Len(q))
      <4>1. i - Len(q) \in 1..Len(s) /\ all[i] = new[i - Len(q)]
        BY <3>3, <1>3, <1>6, <1>8, <1>9
      <4> QED
        BY <4>1, <3>1, <1>1, <1>3, <1>4
    <3> QED
      BY <3>2, <3>3
  <2> QED
    BY <2>1, <2>2, <2>3
<1> QED
  BY <1>8, <1>10, <1>11 DEF Lists

\* One more at the end of a queue.
LEMMA OneBehind ==
  ASSUME NEW S, NEW q \in Seq(S), NEW r \in S
  PROVE  /\ Append(q, r) \in Seq(S)
         /\ \A d : AskedIn(Append(q, r), d) <=> AskedIn(q, d) \/ (r.op = "list" /\ r.at = d)
         /\ Removing(Append(q, r)) =
               Removing(q) \cup (IF r.op = "remove" THEN {Len(q) + 1} ELSE {})
         /\ \A d : Bringing(Append(q, r), d) = Bringing(q, d) \cup
                      (IF r.op = "list" /\ r.at = d /\ r.ok THEN {Len(q) + 1} ELSE {})
         /\ DOMAIN q = 1..Len(q) /\ Len(q) \in Nat
         /\ \A i \in DOMAIN q : Append(q, r)[i] = q[i]
         /\ Append(q, r)[Len(q) + 1] = r
         /\ DOMAIN Append(q, r) = 1..(Len(q) + 1)
<1> DEFINE all == Append(q, r)
<1>1. /\ all \in Seq(S) /\ DOMAIN all = 1..(Len(q) + 1) /\ DOMAIN q = 1..Len(q) /\ Len(q) \in Nat
      /\ \A i \in DOMAIN q : all[i] = q[i]
      /\ all[Len(q) + 1] = r
  OBVIOUS
<1> HIDE DEF all
<1>2. \A i : i \in DOMAIN all <=> i \in DOMAIN q \/ i = Len(q) + 1
  BY <1>1
<1>3. Len(q) + 1 \notin DOMAIN q
  BY <1>1
<1>4. Removing(all) = Removing(q) \cup (IF r.op = "remove" THEN {Len(q) + 1} ELSE {})
  BY <1>1, <1>2, <1>3 DEF Removing
<1>5. \A d : Bringing(all, d) = Bringing(q, d) \cup
                      (IF r.op = "list" /\ r.at = d /\ r.ok THEN {Len(q) + 1} ELSE {})
  BY <1>1, <1>2, <1>3 DEF Bringing
<1>6. \A d : AskedIn(all, d) <=> AskedIn(q, d) \/ (r.op = "list" /\ r.at = d)
  BY <1>1, <1>2 DEF AskedIn
<1> QED
  BY <1>1, <1>4, <1>5, <1>6 DEF all

\* The oldest taken from a queue.
LEMMA OneTaken ==
  ASSUME NEW S, NEW q \in Seq(S), q # <<>>
  PROVE  /\ Tail(q) \in Seq(S) /\ Head(q) \in S /\ Head(q) = q[1] /\ 1 \in DOMAIN q
         /\ \A i : i \in DOMAIN Tail(q) <=> i \in Nat \ {0} /\ i + 1 \in DOMAIN q
         /\ \A i \in DOMAIN Tail(q) : Tail(q)[i] = q[i + 1]
         /\ \A i \in DOMAIN q : i \in Nat /\ (i = 1 \/ i - 1 \in DOMAIN Tail(q))
         /\ \A d : AskedIn(q, d) <=> AskedIn(Tail(q), d) \/ (Head(q).op = "list" /\ Head(q).at = d)
<1>1. Len(q) \in Nat \ {0} /\ DOMAIN q = 1..Len(q)
  BY EmptySeq
<1>2. /\ Tail(q) \in Seq(S) /\ Head(q) = q[1] /\ DOMAIN Tail(q) = 1..(Len(q) - 1)
      /\ \A i \in 1..(Len(q) - 1) : Tail(q)[i] = q[i + 1]
  BY <1>1
<1>3. /\ \A i : i \in DOMAIN Tail(q) <=> i \in Nat \ {0} /\ i + 1 \in DOMAIN q
      /\ \A i \in DOMAIN q : i \in Nat /\ (i = 1 \/ i - 1 \in DOMAIN Tail(q))
  BY <1>1, <1>2
<1>4. 1 \in DOMAIN q /\ q[1] \in S
  BY <1>1
<1>5. \A i \in DOMAIN Tail(q) : Tail(q)[i] = q[i + 1]
  BY <1>2
<1>6. ASSUME NEW d PROVE AskedIn(q, d) <=> AskedIn(Tail(q), d) \/ (Head(q).op = "list" /\ Head(q).at = d)
  <2>1. ASSUME AskedIn(Tail(q), d) PROVE AskedIn(q, d)
    <3>1. PICK i \in DOMAIN Tail(q) : Tail(q)[i].op = "list" /\ Tail(q)[i].at = d
      BY <2>1 DEF AskedIn
    <3> QED
      BY <3>1, <1>3, <1>5 DEF AskedIn
  <2>2. ASSUME AskedIn(q, d) PROVE AskedIn(Tail(q), d) \/ (Head(q).op = "list" /\ Head(q).at = d)
    <3>1. PICK i \in DOMAIN q : q[i].op = "list" /\ q[i].at = d
      BY <2>2 DEF AskedIn
    <3>2. CASE i = 1
      BY <3>1, <3>2, <1>2
    <3>3. CASE i # 1
      <4>1. i - 1 \in DOMAIN Tail(q) /\ Tail(q)[i - 1] = q[i]
        BY <3>3, <1>3, <1>5
      <4> QED
        BY <4>1, <3>1 DEF AskedIn
    <3> QED
      BY <3>2, <3>3
  <2> QED
    BY <2>1, <2>2, <1>2, <1>4 DEF AskedIn
<1> QED
  BY <1>2, <1>3, <1>4, <1>5, <1>6

-----------------------------------------------------------------------------
(* The steps. *)

\* What changes of the queues is put behind, and a tree is a tree again.
LEMMA UpsertTree ==
  ASSUME NEW t \in Trees, NEW d \in Dirs, NEW found \in SUBSET Paths
  PROVE  LET u == UpsertChildren(t, d, found)
         IN  /\ u \in Trees
             /\ u.loaded \subseteq t.loaded \cup {d}
             /\ t.loaded \subseteq u.loaded
             /\ d \in u.loaded => u.kids[d] = found
             /\ \A x \in t.loaded : x # d => u.kids[x] = t.kids[x]
<1> DEFINE nodes == DOMAIN t.kids \cup found
           kids == [x \in nodes |-> IF x = d THEN found
                                   ELSE IF x \in DOMAIN t.kids THEN t.kids[x] ELSE {}]
           now == IF d \in nodes THEN t.loaded \cup {d} ELSE t.loaded
           u == UpsertChildren(t, d, found)
<1>1. /\ t.root \in Dirs /\ t.loaded \in SUBSET Dirs /\ t.expanded \in SUBSET Dirs
      /\ t.loaded \subseteq DOMAIN t.kids /\ DOMAIN t.kids \subseteq Places
      /\ t.kids \in [DOMAIN t.kids -> SUBSET Paths]
  BY DEF Trees
<1>2. nodes \in SUBSET Places /\ kids \in [nodes -> SUBSET Paths] /\ now \in SUBSET Dirs
  BY <1>1 DEF Places
<1>3. u = [t EXCEPT !.kids = kids, !.loaded = now]
  BY DEF UpsertChildren
<1>4. DOMAIN t = {"root", "kids", "loaded", "expanded"}
  BY DEF Trees
<1>5. u = [root |-> t.root, kids |-> kids, loaded |-> now, expanded |-> t.expanded]
  BY <1>3 DEF Trees
<1>6. now \subseteq nodes /\ now \subseteq t.loaded \cup {d} /\ t.loaded \subseteq now
  BY <1>1
<1>7. d \in now => kids[d] = found
  BY <1>6
<1>8. \A x \in t.loaded : x # d => kids[x] = t.kids[x]
  BY <1>1
<1>9. DOMAIN kids = nodes
  OBVIOUS
<1> HIDE DEF nodes, kids, now
<1>10. kids \in UNION {[N -> SUBSET Paths] : N \in SUBSET Places}
  BY <1>2
<1>11. u \in Trees
  BY <1>1, <1>2, <1>5, <1>6, <1>9, <1>10 DEF Trees
<1> QED
  BY <1>5, <1>6, <1>7, <1>8, <1>11

\* A refresh keeps the rows drawn, marks what it asks for, and asks for all of it.
LEMMA RefreshStep ==
  ASSUME Typed, NEW t \in Trees, NEW spin \in SUBSET Dirs, NEW sel \in SUBSET Paths,
         NEW ds \in SUBSET Dirs, RefreshDirs(t, spin, sel, ds)
  PROVE  /\ tree' \in Trees /\ tree'.kids = t.kids /\ tree'.loaded = t.loaded
         /\ visible' = Rows(tree') /\ selected' \subseteq visible' /\ visible' \subseteq Paths
         /\ requests' \in Seq(Requested)
         /\ Removing(requests') = Removing(requests)
         /\ \A d : AskedIn(requests, d) => AskedIn(requests', d)
         /\ online => \A d \in ds : AskedIn(requests', d)
         /\ loading' \subseteq Dirs
         /\ \A d \in loading' : d \in spin \/ AskedIn(requests', d)
<1>1. PICK go \in SUBSET Dirs : go = (IF online THEN ds ELSE {})
  OBVIOUS
<1> DEFINE new == [t EXCEPT !.expanded = @ \cup go]
<1>2. PICK s \in Orders(go) : requests' = requests \o [i \in DOMAIN s |-> Request("list", s[i], s[i])]
  BY <1>1 DEF RefreshDirs
<1>3. tree' = new /\ loading' = spin \cup go /\ visible' = Rows(tree') /\ selected' = sel \cap Rows(tree')
  BY <1>1 DEF RefreshDirs, RebuildVisible
<1>4. new \in Trees /\ new.kids = t.kids /\ new.loaded = t.loaded
  BY <1>1 DEF Trees
<1>5. Rows(tree') \subseteq Paths
  BY DEF Rows
<1>6. online => go = ds
  BY <1>1
<1> HIDE DEF new
<1>7. PICK q \in Seq(Requested) : q = requests
  BY DEF Typed
<1>7a. PICK all : all = requests'
  OBVIOUS
<1>8. /\ requests' \in Seq(Requested) /\ Removing(requests') = Removing(requests)
      /\ \A d : AskedIn(requests', d) <=> AskedIn(requests, d) \/ d \in go
  <2>1. all = q \o [i \in DOMAIN s |-> Request("list", s[i], s[i])]
    BY <1>2, <1>7, <1>7a
  <2>2. Lists(q, go, all)
    BY <1>2, <2>1, ListsBehind, Zenon
  <2> QED
    BY <2>2, <1>7, <1>7a DEF Lists
<1> QED
  BY <1>1, <1>3, <1>4, <1>5, <1>6, <1>8

\* A tree keeps or loses directories that were read; what they hold stays.
Keeps(t) == \A d \in t.loaded : d \in tree.loaded /\ t.kids[d] = tree.kids[d]

\* A refresh asked for by the user.
LEMMA UserRefresh ==
  ASSUME IInv, NEW t \in Trees, Keeps(t), NEW spin \in SUBSET loading, NEW sel \in SUBSET Paths,
         NEW ds \in SUBSET Dirs, RefreshDirs(t, spin, sel, ds),
         UNCHANGED <<serverVars, online, deletion, answers>>
  PROVE  IInv'
<1>1. spin \in SUBSET Dirs
  BY DEF IInv, Typed
<1>2. /\ tree' \in Trees /\ tree'.kids = t.kids /\ tree'.loaded = t.loaded
      /\ visible' = Rows(tree') /\ selected' \subseteq visible' /\ visible' \subseteq Paths
      /\ requests' \in Seq(Requested)
      /\ Removing(requests') = Removing(requests)
      /\ \A d : AskedIn(requests, d) => AskedIn(requests', d)
      /\ loading' \subseteq Dirs
      /\ \A d \in loading' : d \in spin \/ AskedIn(requests', d)
  <2>1. Typed
    BY DEF IInv
  <2> QED
    BY <1>1, <2>1, RefreshStep
<1>3. Typed'
  BY <1>2 DEF IInv, Typed, serverVars
<1>4. RowsInStep'
  BY <1>2 DEF RowsInStep
<1>5. OneRemoval'
  BY <1>2 DEF IInv, OneRemoval
<1>6. Listings'
  BY <1>2 DEF IInv, Listings, Keeps, serverVars, Listing, Bringing
<1>7. ChangesFollowedUp'
  <2>1. /\ \A d \in loading : AskedIn(requests, d) \/ AskedIn(answers, d)
        /\ online => \A d \in owed :
              \/ AskedIn(requests, d)
              \/ \E i \in DOMAIN answers : answers[i].ok /\ d \in Owes(answers[i])
              \/ deletion # None /\ d \in deletion.parents
    BY DEF IInv, ChangesFollowedUp, Asked, Told, AskedIn
  <2>2. /\ \A d \in loading' : d \in Dirs /\ (AskedIn(requests', d) \/ AskedIn(answers', d))
        /\ online' => \A d \in owed' :
              \/ AskedIn(requests', d)
              \/ \E i \in DOMAIN answers' : answers'[i].ok /\ d \in Owes(answers'[i])
              \/ deletion' # None /\ d \in deletion'.parents
    BY <1>2, <2>1 DEF serverVars
  <2> QED
    BY <2>2 DEF ChangesFollowedUp, Asked, Told, AskedIn
<1> QED
  BY <1>3, <1>4, <1>5, <1>6, <1>7 DEF IInv

\* Rows selected are rows drawn.
LEMMA SelectStep == ASSUME IInv, NEW S \in SUBSET visible, Select(S) PROVE IInv'
<1> USE DEF Select, serverVars
<1>1. Typed' /\ RowsInStep'
  BY DEF IInv, Typed, RowsInStep
<1>2. OneRemoval' /\ Listings'
  BY DEF IInv, OneRemoval, Listings, Removing, Bringing, Listing
<1>3. ChangesFollowedUp'
  BY DEF IInv, ChangesFollowedUp, Asked, Told, Owes, Touched, NameTyped, DialogDir
<1> QED
  BY <1>1, <1>2, <1>3 DEF IInv

\* Without its session the panel owes no listing and shows no spinner.
LEMMA DisconnectStep == ASSUME IInv, Disconnect PROVE IInv'
<1> USE DEF Disconnect, serverVars
<1>1. Typed' /\ RowsInStep'
  BY DEF IInv, Typed, RowsInStep
<1>2. OneRemoval' /\ Listings'
  BY DEF IInv, OneRemoval, Listings, Removing, Bringing, Listing
<1>3. ChangesFollowedUp'
  BY DEF IInv, ChangesFollowedUp
<1> QED
  BY <1>1, <1>2, <1>3 DEF IInv

\* The arrow, the refresh, the end of an upload and cd.
LEMMA RefreshingStep ==
  ASSUME IInv, RefreshOpen \/ \E d \in Dirs : ToggleDir(d) \/ Cd(d) \/ UploadEnds(d)
  PROVE  IInv'
<1>1. /\ tree \in Trees /\ selected \in SUBSET Paths /\ loading \in SUBSET loading
      /\ {} \in SUBSET loading /\ {} \in SUBSET Dirs
  BY DEF IInv, Typed
<1>2. Keeps(tree)
  BY DEF Keeps
<1>3. ASSUME RefreshOpen PROVE IInv'
  <2> DEFINE ds == {d \in Rows(tree) \cup {tree.root} : IsDir(d) /\ d \in tree.expanded}
  <2>1. PICK open \in SUBSET Dirs : open = ds
    BY <1>1 DEF Trees
  <2>2. RefreshDirs(tree, loading, selected, open) /\ UNCHANGED <<serverVars, online, deletion, answers>>
    BY <1>3, <2>1 DEF RefreshOpen
  <2> QED
    BY <1>1, <1>2, <2>2, UserRefresh
<1>4. ASSUME NEW d \in Dirs, ToggleDir(d) PROVE IInv'
  <2> DEFINE shut == [tree EXCEPT !.expanded = @ \ {d}]
             open == [tree EXCEPT !.expanded = @ \cup {d}]
             unread == IF d \in tree.loaded THEN {} ELSE {d}
  <2>1. shut \in Trees /\ Keeps(shut) /\ open \in Trees /\ Keeps(open) /\ unread \in SUBSET Dirs
    BY <1>1 DEF Trees, Keeps
  <2>2. UNCHANGED <<serverVars, online, deletion, answers>>
    BY <1>4 DEF ToggleDir
  <2>3. \/ RefreshDirs(shut, loading, selected, {})
        \/ RefreshDirs(open, loading, selected, unread)
    BY <1>4 DEF ToggleDir
  <2> HIDE DEF shut, open, unread
  <2> QED
    BY <1>1, <2>1, <2>2, <2>3, UserRefresh
<1>5. ASSUME NEW d \in Dirs, Cd(d) PROVE IInv'
  <2>1. NewTree(d) \in Trees /\ Keeps(NewTree(d))
    BY DEF NewTree, Trees, Keeps, Dirs, Places
  <2>2. RefreshDirs(NewTree(d), {}, selected, {d}) /\ UNCHANGED <<serverVars, online, deletion, answers>>
    BY <1>5 DEF Cd
  <2>3. {d} \in SUBSET Dirs
    OBVIOUS
  <2> QED
    BY <1>1, <2>1, <2>2, <2>3, UserRefresh
<1>6. ASSUME NEW d \in Dirs, UploadEnds(d) PROVE IInv'
  <2>1. RefreshDirs(tree, loading, selected, {d}) /\ UNCHANGED <<serverVars, online, deletion, answers>>
    BY <1>6 DEF UploadEnds
  <2>2. {d} \in SUBSET Dirs
    OBVIOUS
  <2> QED
    BY <1>1, <1>2, <2>1, <2>2, UserRefresh
<1> QED
  BY <1>3, <1>4, <1>5, <1>6

\* The promises about what is listed, over the queues as they are.
LEMMA FollowedForm ==
  ChangesFollowedUp <=>
    /\ \A d \in loading : d \in Dirs /\ (AskedIn(requests, d) \/ AskedIn(answers, d))
    /\ online => \A d \in owed :
          \/ AskedIn(requests, d)
          \/ \E i \in DOMAIN answers : answers[i].ok /\ d \in Owes(answers[i])
          \/ deletion # None /\ d \in deletion.parents
BY DEF ChangesFollowedUp, Asked, Told, AskedIn

\* A change asked for, a removal only if none is under way.
LEMMA AskStep ==
  ASSUME IInv, NEW r \in Requested, r.op \in Changes, requests' = Append(requests, r),
         UNCHANGED <<serverVars, viewVars, online, answers>>,
         \/ r.op # "remove" /\ UNCHANGED deletion
         \/ /\ Removing(requests) = {} /\ Removing(answers) = {}
            /\ deletion' \in Deletions
            /\ deletion # None => deletion'.parents = deletion.parents
  PROVE  IInv'
<1> USE DEF serverVars, viewVars
<1>1. PICK q \in Seq(Requested) : q = requests
  BY DEF IInv, Typed
<1>2. /\ Append(q, r) \in Seq(Requested)
      /\ \A d : AskedIn(Append(q, r), d) <=> AskedIn(q, d) \/ (r.op = "list" /\ r.at = d)
      /\ Removing(Append(q, r)) = Removing(q) \cup (IF r.op = "remove" THEN {Len(q) + 1} ELSE {})
  BY OneBehind
<1>3. /\ requests' \in Seq(Requested)
      /\ \A d : AskedIn(requests', d) <=> AskedIn(requests, d)
      /\ Removing(requests') = Removing(requests) \cup (IF r.op = "remove" THEN {Len(q) + 1} ELSE {})
  BY <1>1, <1>2 DEF Changes
<1>4. Typed'
  BY <1>3 DEF IInv, Typed
<1>5. RowsInStep'
  BY DEF IInv, RowsInStep
<1>6. OneRemoval'
  <2>1. CASE r.op # "remove" /\ UNCHANGED deletion
    BY <2>1, <1>3 DEF IInv, OneRemoval
  <2>2. CASE /\ Removing(requests) = {} /\ Removing(answers) = {}
             /\ deletion' \in Deletions
    <3>1. Removing(answers') = {} /\ Removing(requests') \subseteq {Len(q) + 1}
      BY <2>2, <1>3
    <3>2. deletion' # None
      BY <2>2, BrowserAssumption
    <3> QED
      BY <3>1, <3>2 DEF OneRemoval
  <2> QED
    BY <2>1, <2>2
<1>7. Listings'
  BY DEF IInv, Listings, Listing, Bringing
<1>8. ChangesFollowedUp'
  <2>1. deletion # None /\ deletion' # deletion => deletion' # None /\ deletion'.parents = deletion.parents
    BY BrowserAssumption
  <2>2. /\ \A d \in loading' : d \in Dirs /\ (AskedIn(requests', d) \/ AskedIn(answers', d))
        /\ online' => \A d \in owed' :
              \/ AskedIn(requests', d)
              \/ \E i \in DOMAIN answers' : answers'[i].ok /\ d \in Owes(answers'[i])
              \/ deletion' # None /\ d \in deletion'.parents
    BY <1>3, <2>1, FollowedForm DEF IInv
  <2> QED
    BY <2>2 DEF ChangesFollowedUp, Asked, Told, AskedIn
<1> QED
  BY <1>4, <1>5, <1>6, <1>7, <1>8 DEF IInv

\* A rename, a new folder or a move is asked for.
LEMMA ChangeStep ==
  ASSUME IInv, NEW p \in Paths, NEW to \in Paths, NEW parent \in Dirs,
         ConfirmFolder(parent, to) \/ ConfirmRename(p, to) \/ Move(p, to)
  PROVE  IInv'
<1>1. /\ Request("create", parent, to) \in Requested
      /\ Request("rename", p, to) \in Requested
      /\ Request("move", p, to) \in Requested
  BY PathFacts DEF Request, Requested, Changes, Places
<1>2. PICK r \in Requested : /\ r.op \in Changes \ {"remove"} /\ requests' = Append(requests, r)
                             /\ UNCHANGED <<serverVars, viewVars, online, answers, deletion>>
  <2>1. CASE ConfirmFolder(parent, to)
    BY <1>1, <2>1 DEF ConfirmFolder, Request, Changes
  <2>2. CASE ConfirmRename(p, to)
    BY <1>1, <2>2 DEF ConfirmRename, Request, Changes
  <2>3. CASE Move(p, to)
    BY <1>1, <2>3 DEF Move, Request, Changes
  <2> QED
    BY <2>1, <2>2, <2>3
<1> QED
  BY <1>2, AskStep

\* The next path to go is asked for.
LEMMA RemoveNextAsks ==
  ASSUME NEW left \in SUBSET Paths, NEW parents \in SUBSET Dirs, RemoveNext(left, parents)
  PROVE  \E r \in Requested : /\ r.op = "remove" /\ requests' = Append(requests, r)
                               /\ deletion' \in Deletions /\ deletion'.parents = parents
<1>1. PICK p \in left : /\ deletion' = [left |-> left \ {p}, parents |-> parents]
                        /\ requests' = Append(requests, Request("remove", p, p))
  BY DEF RemoveNext
<1>2. Request("remove", p, p) \in Requested /\ Request("remove", p, p).op = "remove"
  BY DEF Request, Requested, Changes, Places
<1>3. deletion' \in Deletions /\ deletion'.parents = parents
  BY <1>1 DEF Deletions
<1> QED
  BY <1>1, <1>2, <1>3

\* The delete task starts with a removal, when none is under way.
LEMMA DeleteStep == ASSUME IInv, NEW row \in Paths, Delete(row) PROVE IInv'
<1>1. DeleteTargets(row) \in SUBSET Paths /\ {} \in SUBSET Dirs
  BY DEF IInv, Typed, DeleteTargets
<1>2. PICK r \in Requested : /\ r.op = "remove" /\ requests' = Append(requests, r)
                             /\ deletion' \in Deletions /\ deletion'.parents = {}
  BY <1>1, RemoveNextAsks DEF Delete
<1>3. deletion = None /\ UNCHANGED <<serverVars, viewVars, online, answers>>
  BY DEF Delete
<1>4. Removing(requests) = {} /\ Removing(answers) = {} /\ r.op \in Changes
  BY <1>2, <1>3 DEF IInv, OneRemoval, Changes
<1> QED
  BY <1>2, <1>3, <1>4, AskStep

\* Somebody else changes the server: a directory that looks different is not fresh.
LEMMA ElsewhereStep == ASSUME IInv, NEW p \in Others, Elsewhere(p) PROVE IInv'
<1> USE DEF Elsewhere, viewVars
<1>1. p \in Paths
  BY BrowserAssumption
<1>2. disk' \subseteq Paths /\ fresh' \subseteq fresh
  BY <1>1 DEF IInv, Typed, Unchanged
<1>3. Typed' /\ RowsInStep'
  BY <1>2 DEF IInv, Typed, RowsInStep
<1>4. OneRemoval'
  BY DEF IInv, OneRemoval, Removing
<1>5. Listings'
  <2>1. \A d \in fresh' : d \in fresh /\ Listing(disk', d) = Listing(disk, d)
    BY DEF Unchanged
  <2> QED
    BY <2>1 DEF IInv, Listings, Bringing
<1>6. ChangesFollowedUp'
  BY DEF IInv, ChangesFollowedUp, Asked, Told, Owes, Touched, NameTyped, DialogDir
<1> QED
  BY <1>3, <1>4, <1>5, <1>6 DEF IInv

\* The server answers the oldest request.
LEMMA ServeStep == ASSUME IInv, Serve PROVE IInv'
<1>1. PICK q \in Seq(Requested) : q = requests /\ q # <<>>
  BY DEF IInv, Typed, Serve
<1>2. PICK r \in Requested : r = Head(q)
  BY <1>1, OneTaken
<1>3. PICK ok \in BOOLEAN : /\ answers' = Append(answers, Answer(r, ok))
                            /\ ok => Grantable(r) /\ disk' = Effect(r)
                            /\ ~ok => UNCHANGED <<disk, fresh>>
                            /\ ok /\ r.op = "list" => fresh' = fresh \cup {r.at}
                            /\ ok /\ r.op # "list" => /\ fresh' = Unchanged(Effect(r))
                                                      /\ owed' = owed \cup Owes(r)
                            /\ r.op = "list" => owed' = owed \ {r.at}
                            /\ ~ok /\ r.op # "list" => owed' = owed
  BY <1>1, <1>2 DEF Serve
<1>4. requests' = Tail(q) /\ UNCHANGED <<viewVars, online, deletion>>
  BY <1>1 DEF Serve
<1>5. PICK a \in Answered : /\ a = Answer(r, ok) /\ a.op = r.op /\ a.at = r.at /\ a.ok = ok
                            /\ Owes(a) = Owes(r)
                            /\ ok /\ r.op = "list" => a.found = Listing(disk, r.at)
  <2>1. Request(r.op, r.at, r.to) = r
    BY DEF Request, Requested
  <2>2. Answer(r, ok).found \in SUBSET Paths
    BY DEF Answer, Listing, IInv, Typed
  <2>3. Answer(r, ok) \in Answered
    BY <2>1, <2>2 DEF Answer, Answered, Requested
  <2> QED
    BY <2>3 DEF Answer, Owes, Touched, NameTyped, DialogDir
<1>6. PICK b \in Seq(Answered) : b = answers
  BY DEF IInv, Typed
<1>7. /\ Tail(q) \in Seq(Requested) /\ Head(q) = q[1] /\ 1 \in DOMAIN q
      /\ \A i : i \in DOMAIN Tail(q) <=> i \in Nat \ {0} /\ i + 1 \in DOMAIN q
      /\ \A i \in DOMAIN Tail(q) : Tail(q)[i] = q[i + 1]
      /\ \A d : AskedIn(q, d) <=> AskedIn(Tail(q), d) \/ (Head(q).op = "list" /\ Head(q).at = d)
  BY <1>1, OneTaken
<1>8. /\ Append(b, a) \in Seq(Answered)
      /\ \A d : AskedIn(Append(b, a), d) <=> AskedIn(b, d) \/ (a.op = "list" /\ a.at = d)
      /\ Removing(Append(b, a)) = Removing(b) \cup (IF a.op = "remove" THEN {Len(b) + 1} ELSE {})
      /\ \A d : Bringing(Append(b, a), d) = Bringing(b, d) \cup
                   (IF a.op = "list" /\ a.at = d /\ a.ok THEN {Len(b) + 1} ELSE {})
      /\ DOMAIN b = 1..Len(b) /\ Len(b) \in Nat
      /\ \A i \in DOMAIN b : Append(b, a)[i] = b[i]
      /\ Append(b, a)[Len(b) + 1] = a
      /\ DOMAIN Append(b, a) = 1..(Len(b) + 1)
  BY OneBehind
<1>9. PICK more : more = Append(b, a) /\ more = answers'
  BY <1>3, <1>5, <1>6
<1>10. /\ more \in Seq(Answered)
       /\ \A d : AskedIn(more, d) <=> AskedIn(b, d) \/ (r.op = "list" /\ r.at = d)
       /\ Removing(more) = Removing(b) \cup (IF r.op = "remove" THEN {Len(b) + 1} ELSE {})
       /\ \A d : Bringing(more, d) = Bringing(b, d) \cup
                   (IF r.op = "list" /\ r.at = d /\ ok THEN {Len(b) + 1} ELSE {})
       /\ \A i \in DOMAIN b : i \in DOMAIN more /\ more[i] = b[i] /\ i <= Len(b)
       /\ more[Len(b) + 1] = a /\ Len(b) + 1 \in DOMAIN more /\ Len(b) \in Nat
  BY <1>5, <1>8, <1>9
<1>11. Typed'
  <2>1. Owes(r) \subseteq Dirs /\ (r.op = "list" => r.at \in Dirs)
    BY OwedDirs DEF Requested
  <2>2. ok => Effect(r) \subseteq Paths
    BY <1>3 DEF IInv, Typed, Effect, Grantable, Requested, Changes
  <2>3. disk' \subseteq Paths /\ fresh' \subseteq Dirs /\ owed' \subseteq Dirs
    BY <1>3, <2>1, <2>2 DEF IInv, Typed, Unchanged
  <2> QED
    BY <1>4, <1>7, <1>9, <1>10, <2>3 DEF IInv, Typed, viewVars
<1>12. RowsInStep'
  BY <1>4 DEF IInv, RowsInStep, viewVars
<1>13. OneRemoval'
  <2>1. \A i \in Removing(Tail(q)) : i + 1 \in Removing(q) /\ i \in Nat /\ i + 1 # 1
    BY <1>7 DEF Removing
  <2>2. /\ deletion = None => Removing(q) = {} /\ Removing(b) = {}
        /\ \A i, j \in Removing(q) : i = j
        /\ \A i, j \in Removing(b) : i = j
        /\ Removing(q) = {} \/ Removing(b) = {}
    BY <1>1, <1>6 DEF IInv, OneRemoval
  <2>3. \A i, j \in Removing(Tail(q)) : i = j
    BY <2>1, <2>2
  <2>4. CASE r.op = "remove"
    <3>1. 1 \in Removing(q)
      BY <1>2, <1>7, <2>4 DEF Removing
    <3>2. Removing(Tail(q)) = {} /\ Removing(b) = {} /\ deletion # None
      BY <3>1, <2>1, <2>2
    <3>3. Removing(more) = {Len(b) + 1}
      BY <3>2, <1>10, <2>4
    <3> QED
      BY <3>2, <3>3, <1>4, <1>9 DEF OneRemoval
  <2>5. CASE r.op # "remove"
    <3>1. Removing(more) = Removing(b)
      BY <2>5, <1>10
    <3> QED
      BY <3>1, <2>1, <2>2, <2>3, <1>4, <1>9 DEF OneRemoval
  <2> QED
    BY <2>4, <2>5
<1>14. Listings'
  <2>1. \A d \in fresh :
        /\ \A i \in Bringing(b, d) :
              (\A j \in Bringing(b, d) : j <= i) => b[i].found = Listing(disk, d)
        /\ Bringing(b, d) = {} /\ d \in tree.loaded => tree.kids[d] = Listing(disk, d)
    BY <1>6 DEF IInv, Listings
  <2>2. ASSUME NEW d \in fresh'
        PROVE  /\ \A i \in Bringing(more, d) :
                    (\A j \in Bringing(more, d) : j <= i) => more[i].found = Listing(disk', d)
               /\ Bringing(more, d) = {} /\ d \in tree.loaded => tree.kids[d] = Listing(disk', d)
    <3>1. CASE r.op = "list" /\ r.at = d /\ ok
      <4>1. disk' = disk
        BY <3>1, <1>3 DEF Effect
      <4>2. Bringing(more, d) = Bringing(b, d) \cup {Len(b) + 1} /\ Bringing(b, d) \subseteq 1..Len(b)
        <5>1. Bringing(b, d) \subseteq DOMAIN b
          BY DEF Bringing
        <5> QED
          BY <5>1, <3>1, <1>8, <1>10
      <4>3. \A i \in Bringing(more, d) : (\A j \in Bringing(more, d) : j <= i) => i = Len(b) + 1
        BY <4>2, <1>8
      <4>4. more[Len(b) + 1].found = Listing(disk', d)
        BY <3>1, <4>1, <1>5, <1>10
      <4> QED
        BY <4>2, <4>3, <4>4
    <3>2. CASE ~(r.op = "list" /\ r.at = d /\ ok)
      <4>1. Bringing(more, d) = Bringing(b, d)
        BY <3>2, <1>10
      <4>2. d \in fresh /\ Listing(disk', d) = Listing(disk, d)
        <5>1. CASE ~ok
          BY <5>1, <1>3
        <5>2. CASE ok /\ r.op = "list"
          BY <5>2, <3>2, <1>3 DEF Effect
        <5>3. CASE ok /\ r.op # "list"
          BY <5>3, <1>3 DEF Unchanged
        <5> QED
          BY <5>1, <5>2, <5>3
      <4>3. \A i \in Bringing(b, d) : more[i] = b[i]
        BY <1>10 DEF Bringing
      <4> QED
        BY <4>1, <4>2, <4>3, <2>1
    <3> QED
      BY <3>1, <3>2
  <2> QED
    BY <2>2, <1>4, <1>9 DEF Listings, viewVars
<1>15. ChangesFollowedUp'
  <2>1. /\ \A d \in loading : d \in Dirs /\ (AskedIn(q, d) \/ AskedIn(b, d))
        /\ online => \A d \in owed :
              \/ AskedIn(q, d)
              \/ \E i \in DOMAIN b : b[i].ok /\ d \in Owes(b[i])
              \/ deletion # None /\ d \in deletion.parents
    BY <1>1, <1>6, FollowedForm DEF IInv
  <2>2. \A d : AskedIn(q, d) \/ AskedIn(b, d) => AskedIn(Tail(q), d) \/ AskedIn(more, d)
    BY <1>2, <1>7, <1>10
  <2>3. ASSUME online, NEW d \in owed'
        PROVE  \/ AskedIn(Tail(q), d)
               \/ \E i \in DOMAIN more : more[i].ok /\ d \in Owes(more[i])
               \/ deletion # None /\ d \in deletion.parents
    <3>1. CASE d \in owed /\ ~(r.op = "list" /\ r.at = d)
      <4>1. AskedIn(q, d) => AskedIn(Tail(q), d)
        BY <3>1, <1>2, <1>7
      <4>2. (\E i \in DOMAIN b : b[i].ok /\ d \in Owes(b[i]))
               => \E i \in DOMAIN more : more[i].ok /\ d \in Owes(more[i])
        BY <1>10
      <4> QED
        BY <3>1, <2>3, <2>1, <4>1, <4>2
    <3>2. CASE ~(d \in owed /\ ~(r.op = "list" /\ r.at = d))
      <4>1. ok /\ d \in Owes(r)
        BY <3>2, <2>3, <1>3
      <4> QED
        BY <4>1, <1>5, <1>10
    <3> QED
      BY <3>1, <3>2
  <2>4. /\ \A d \in loading' : d \in Dirs /\ (AskedIn(requests', d) \/ AskedIn(answers', d))
        /\ online' => \A d \in owed' :
              \/ AskedIn(requests', d)
              \/ \E i \in DOMAIN answers' : answers'[i].ok /\ d \in Owes(answers'[i])
              \/ deletion' # None /\ d \in deletion'.parents
    BY <2>1, <2>2, <2>3, <1>4, <1>9 DEF viewVars
  <2> QED
    BY <2>4 DEF ChangesFollowedUp, Asked, Told, AskedIn
<1> QED
  BY <1>11, <1>12, <1>13, <1>14, <1>15 DEF IInv

-----------------------------------------------------------------------------
(* Answers. *)

\* The tree takes what the answer brings and nothing else.
Takes(a) ==
    \A d \in tree'.loaded :
        IF a.op = "list" /\ a.at = d /\ a.ok THEN tree'.kids[d] = a.found
        ELSE d \in tree.loaded /\ tree'.kids[d] = tree.kids[d]

\* A tree that takes the oldest answer shows what the later ones do not bring.
LEMMA TakenListings ==
  ASSUME Typed, Listings, answers # <<>>, Takes(Head(answers)), answers' = Tail(answers),
         UNCHANGED serverVars
  PROVE  Listings'
<1>1. PICK b \in Seq(Answered) : b = answers /\ b # <<>>
  BY DEF Typed
<1>2. PICK a : a = Head(b)
  OBVIOUS
<1>3. PICK rest : rest = Tail(b)
  OBVIOUS
<1>4. /\ rest \in Seq(Answered) /\ a = b[1] /\ 1 \in DOMAIN b
      /\ \A i : i \in DOMAIN rest <=> i \in Nat \ {0} /\ i + 1 \in DOMAIN b
      /\ \A i \in DOMAIN rest : rest[i] = b[i + 1]
      /\ \A i \in DOMAIN b : i \in Nat /\ (i = 1 \/ i - 1 \in DOMAIN rest)
  BY <1>1, <1>2, <1>3, OneTaken
<1>5. ASSUME NEW d \in fresh
      PROVE  /\ \A i \in Bringing(rest, d) :
                    (\A j \in Bringing(rest, d) : j <= i) => rest[i].found = Listing(disk, d)
             /\ Bringing(rest, d) = {} /\ d \in tree'.loaded => tree'.kids[d] = Listing(disk, d)
  <2>1. /\ \A i \in Bringing(b, d) :
              (\A j \in Bringing(b, d) : j <= i) => b[i].found = Listing(disk, d)
        /\ Bringing(b, d) = {} /\ d \in tree.loaded => tree.kids[d] = Listing(disk, d)
    BY <1>1 DEF Listings
  <2>2. \A i \in Bringing(rest, d) : i \in Nat \ {0} /\ i + 1 \in Bringing(b, d) /\ rest[i] = b[i + 1]
    BY <1>4 DEF Bringing
  <2>3. \A i \in Bringing(b, d) : i \in Nat /\ (i = 1 \/ i - 1 \in Bringing(rest, d))
    <3>1. \A i \in DOMAIN b : i # 1 => i - 1 \in DOMAIN rest /\ rest[i - 1] = b[i]
      BY <1>4
    <3> QED
      BY <3>1, <1>4 DEF Bringing
  <2>4. ASSUME NEW i \in Bringing(rest, d), \A j \in Bringing(rest, d) : j <= i
        PROVE  rest[i].found = Listing(disk, d)
    <3>1. \A j \in Bringing(b, d) : j <= i + 1
      BY <2>2, <2>3, <2>4
    <3> QED
      BY <3>1, <2>1, <2>2
  <2>5. ASSUME Bringing(rest, d) = {}, d \in tree'.loaded PROVE tree'.kids[d] = Listing(disk, d)
    <3>1. \A i \in Bringing(b, d) : i = 1
      BY <2>3, <2>5
    <3>2. CASE a.op = "list" /\ a.at = d /\ a.ok
      <4>1. 1 \in Bringing(b, d) /\ \A j \in Bringing(b, d) : j <= 1
        BY <3>1, <3>2, <1>4 DEF Bringing
      <4>2. a.found = Listing(disk, d)
        BY <4>1, <2>1, <1>4
      <4>3. tree'.kids[d] = a.found
        BY <3>2, <2>5, <1>1, <1>2 DEF Takes
      <4> QED
        BY <4>2, <4>3
    <3>3. CASE ~(a.op = "list" /\ a.at = d /\ a.ok)
      <4>1. 1 \notin Bringing(b, d)
        BY <3>3, <1>4 DEF Bringing
      <4>2. Bringing(b, d) = {}
        BY <4>1, <3>1
      <4> QED
        BY <4>2, <3>3, <2>1, <2>5, <1>1, <1>2 DEF Takes
    <3> QED
      BY <3>2, <3>3
  <2> QED
    BY <2>4, <2>5
<1> QED
  BY <1>1, <1>3, <1>5 DEF Listings, serverVars

\* What taking the first answer leaves of the answers.
Left(a, rest) ==
    /\ rest \in Seq(Answered) /\ a \in Answered
    /\ \A d : AskedIn(answers, d) <=> AskedIn(rest, d) \/ (a.op = "list" /\ a.at = d)
    /\ (\A i \in Removing(rest) : i + 1 \in Removing(answers)) /\ Removing(rest) \subseteq Nat \ {0}
    /\ a.op = "remove" => 1 \in Removing(answers)
    /\ \A d : (\E i \in DOMAIN answers : answers[i].ok /\ d \in Owes(answers[i]))
             => \/ a.ok /\ d \in Owes(a)
                \/ \E i \in DOMAIN rest : rest[i].ok /\ d \in Owes(rest[i])

\* The oldest answer is what the rest lacks.
LEMMA TakenAnswers ==
  ASSUME Typed, answers # <<>> PROVE Left(Head(answers), Tail(answers))
<1>1. PICK b \in Seq(Answered) : b = answers /\ b # <<>>
  BY DEF Typed
<1>2. PICK a : a = Head(b)
  OBVIOUS
<1>3. PICK rest : rest = Tail(b)
  OBVIOUS
<1>4. /\ rest \in Seq(Answered) /\ a = b[1] /\ 1 \in DOMAIN b /\ a \in Answered
      /\ \A i : i \in DOMAIN rest <=> i \in Nat \ {0} /\ i + 1 \in DOMAIN b
      /\ \A i \in DOMAIN rest : rest[i] = b[i + 1]
      /\ \A i \in DOMAIN b : i \in Nat /\ (i = 1 \/ i - 1 \in DOMAIN rest)
      /\ \A d : AskedIn(b, d) <=> AskedIn(rest, d) \/ (a.op = "list" /\ a.at = d)
  BY <1>1, <1>2, <1>3, OneTaken
<1>5. /\ \A i \in Removing(rest) : i + 1 \in Removing(b)
      /\ Removing(rest) \subseteq Nat \ {0}
      /\ a.op = "remove" => 1 \in Removing(b)
  BY <1>4 DEF Removing
<1>6. \A i \in DOMAIN b : i # 1 => i - 1 \in DOMAIN rest /\ rest[i - 1] = b[i]
  BY <1>4
<1>7. \A d : (\E i \in DOMAIN b : b[i].ok /\ d \in Owes(b[i]))
             => \/ a.ok /\ d \in Owes(a)
                \/ \E i \in DOMAIN rest : rest[i].ok /\ d \in Owes(rest[i])
  BY <1>4, <1>6
<1> QED
  BY <1>1, <1>2, <1>3, <1>4, <1>5, <1>7 DEF Left

\* A removal answered was the only one.
LEMMA RemovalTaken ==
  ASSUME OneRemoval, NEW a, NEW rest, Left(a, rest), a.op = "remove"
  PROVE  deletion # None /\ Removing(requests) = {} /\ Removing(rest) = {}
<1>1. 1 \in Removing(answers) /\ \A i, j \in Removing(answers) : i = j
  BY DEF Left, OneRemoval
<1>2. \A i \in Removing(rest) : i + 1 \in Removing(answers) /\ i \in Nat \ {0}
  BY DEF Left
<1>3. Removing(rest) = {}
  BY <1>1, <1>2
<1> QED
  BY <1>1, <1>3 DEF OneRemoval

\* A listing is put into the tree, however late it comes.
LEMMA ListedStep ==
  ASSUME IInv, NEW a, NEW rest, Left(a, rest), answers' = rest, a = Head(answers), answers # <<>>,
         rest = Tail(answers), a.op = "list", Listed(a), UNCHANGED <<serverVars, online>>
  PROVE  IInv'
<1> USE DEF serverVars
<1>1. a.at \in Dirs /\ a.found \in SUBSET Paths /\ a.ok \in BOOLEAN /\ rest \in Seq(Answered)
  BY DEF Left, Answered, Requested, Request
<1>2. tree \in Trees
  BY DEF IInv, Typed
<1>3. PICK t : t = TreeAfter(a)
  OBVIOUS
<1>4. /\ t \in Trees
      /\ \A d \in t.loaded : IF a.at = d /\ a.ok THEN t.kids[d] = a.found
                            ELSE d \in tree.loaded /\ t.kids[d] = tree.kids[d]
  <2>1. CASE a.ok
    <3>1. t = UpsertChildren(tree, a.at, a.found)
      BY <2>1, <1>3 DEF TreeAfter
    <3> QED
      BY <3>1, <2>1, <1>1, <1>2, UpsertTree
  <2>2. CASE ~a.ok
    BY <2>2, <1>2, <1>3 DEF TreeAfter
  <2> QED
    BY <2>1, <2>2
<1>5. /\ tree' = t /\ loading' = loading \ {a.at} /\ visible' = Rows(tree')
      /\ selected' \subseteq Rows(tree') /\ UNCHANGED <<deletion, requests>>
  BY <1>3 DEF Listed, RebuildVisible, SpinnersAfter
<1>6. Rows(tree') \subseteq Paths
  BY DEF Rows
<1>7. Typed' /\ RowsInStep'
  BY <1>1, <1>4, <1>5, <1>6 DEF IInv, Typed, RowsInStep
<1>8. OneRemoval'
  <2>1. \A i \in Removing(rest) : i + 1 \in Removing(answers) /\ i \in Nat
    BY DEF Left
  <2> QED
    BY <2>1, <1>5 DEF IInv, OneRemoval
<1>9. Listings'
  <2>1. Takes(Head(answers))
    BY <1>4, <1>5 DEF Takes
  <2> QED
    BY <2>1, TakenListings DEF IInv
<1>10. ChangesFollowedUp'
  <2>1. /\ \A d \in loading' : d \in Dirs /\ (AskedIn(requests', d) \/ AskedIn(answers', d))
        /\ online' => \A d \in owed' :
              \/ AskedIn(requests', d)
              \/ \E i \in DOMAIN answers' : answers'[i].ok /\ d \in Owes(answers'[i])
              \/ deletion' # None /\ d \in deletion'.parents
    <3>1. Owes(a) = {}
      BY DEF Owes, Touched, NameTyped, DialogDir
    <3> QED
      BY <3>1, <1>5, FollowedForm DEF IInv, Left
  <2> QED
    BY <2>1 DEF ChangesFollowedUp, Asked, Told, AskedIn
<1> QED
  BY <1>7, <1>8, <1>9, <1>10 DEF IInv

\* An answer that ends in a refresh: of a change, or of the last removal.
LEMMA RefreshingAnswer ==
  ASSUME IInv, NEW a, NEW rest, Left(a, rest), answers' = rest, a = Head(answers), answers # <<>>,
         rest = Tail(answers), a.op \in Changes, NEW sel \in SUBSET Paths, NEW ds \in SUBSET Dirs,
         RefreshDirs(tree, loading, sel, ds), UNCHANGED <<serverVars, online>>,
         a.ok => Owes(a) \subseteq ds,
         \/ UNCHANGED deletion
         \/ /\ a.op = "remove" /\ deletion' = None
            /\ deletion # None => deletion.parents \subseteq ds
  PROVE  IInv'
<1> USE DEF serverVars
<1>1. tree \in Trees /\ loading \in SUBSET Dirs /\ Typed
  BY DEF IInv, Typed
<1>2. /\ tree' \in Trees /\ tree'.kids = tree.kids /\ tree'.loaded = tree.loaded
      /\ visible' = Rows(tree') /\ selected' \subseteq visible' /\ visible' \subseteq Paths
      /\ requests' \in Seq(Requested)
      /\ Removing(requests') = Removing(requests)
      /\ \A d : AskedIn(requests, d) => AskedIn(requests', d)
      /\ online => \A d \in ds : AskedIn(requests', d)
      /\ loading' \subseteq Dirs
      /\ \A d \in loading' : d \in loading \/ AskedIn(requests', d)
  BY <1>1, RefreshStep
<1>3. Typed' /\ RowsInStep'
  BY <1>2 DEF IInv, Typed, RowsInStep, Left
<1>4. OneRemoval'
  <2>1. \A i \in Removing(rest) : i + 1 \in Removing(answers) /\ i \in Nat
    BY DEF Left
  <2>2. CASE UNCHANGED deletion
    BY <2>1, <2>2, <1>2 DEF IInv, OneRemoval
  <2>3. CASE a.op = "remove" /\ deletion' = None
    <3>1. Removing(requests) = {} /\ Removing(rest) = {}
      BY <2>3, RemovalTaken DEF IInv
    <3> QED
      BY <3>1, <1>2 DEF OneRemoval
  <2> QED
    BY <2>2, <2>3
<1>5. Listings'
  <2>1. Takes(Head(answers))
    BY <1>2 DEF Takes, Changes
  <2> QED
    BY <2>1, TakenListings DEF IInv
<1>6. ChangesFollowedUp'
  <2>1. /\ \A d \in loading : d \in Dirs /\ (AskedIn(requests, d) \/ AskedIn(answers, d))
        /\ online => \A d \in owed :
              \/ AskedIn(requests, d)
              \/ \E i \in DOMAIN answers : answers[i].ok /\ d \in Owes(answers[i])
              \/ deletion # None /\ d \in deletion.parents
    BY FollowedForm DEF IInv
  <2>2. \A d : AskedIn(answers, d) => AskedIn(answers', d)
    BY DEF Left, Changes
  <2>3. \A d \in loading' : d \in Dirs /\ (AskedIn(requests', d) \/ AskedIn(answers', d))
    BY <2>1, <2>2, <1>2
  <2>4. ASSUME online, NEW d \in owed
        PROVE  \/ AskedIn(requests', d)
               \/ \E i \in DOMAIN answers' : answers'[i].ok /\ d \in Owes(answers'[i])
               \/ deletion' # None /\ d \in deletion'.parents
    <3>1. CASE AskedIn(requests, d)
      BY <3>1, <1>2
    <3>2. CASE \E i \in DOMAIN answers : answers[i].ok /\ d \in Owes(answers[i])
      <4>1. \/ a.ok /\ d \in Owes(a)
            \/ \E i \in DOMAIN rest : rest[i].ok /\ d \in Owes(rest[i])
        BY <3>2 DEF Left
      <4> QED
        BY <4>1, <2>4, <1>2
    <3>3. CASE deletion # None /\ d \in deletion.parents
      BY <3>3, <2>4, <1>2
    <3> QED
      BY <2>1, <2>4, <3>1, <3>2, <3>3
  <2>5. /\ \A d \in loading' : d \in Dirs /\ (AskedIn(requests', d) \/ AskedIn(answers', d))
        /\ online' => \A d \in owed' :
              \/ AskedIn(requests', d)
              \/ \E i \in DOMAIN answers' : answers'[i].ok /\ d \in Owes(answers'[i])
              \/ deletion' # None /\ d \in deletion'.parents
    BY <2>3, <2>4
  <2> QED
    BY <2>5 DEF ChangesFollowedUp, Asked, Told, AskedIn
<1> QED
  BY <1>3, <1>4, <1>5, <1>6 DEF IInv

\* The delete task asks for the next removal and remembers what the last one changed.
LEMMA NextRemoval ==
  ASSUME IInv, NEW a, NEW rest, Left(a, rest), answers' = rest, a = Head(answers), answers # <<>>,
         rest = Tail(answers), a.op = "remove", UNCHANGED <<serverVars, viewVars, online>>,
         NEW left \in SUBSET Paths, NEW parents \in SUBSET Dirs, RemoveNext(left, parents),
         deletion # None => deletion.parents \subseteq parents,
         a.ok => Owes(a) \subseteq parents
  PROVE  IInv'
<1> USE DEF serverVars, viewVars
<1>1. PICK r \in Requested : /\ r.op = "remove" /\ requests' = Append(requests, r)
                             /\ deletion' \in Deletions /\ deletion'.parents = parents
  BY RemoveNextAsks
<1>2. PICK q \in Seq(Requested) : q = requests
  BY DEF IInv, Typed
<1>3. /\ Append(q, r) \in Seq(Requested)
      /\ \A d : AskedIn(Append(q, r), d) <=> AskedIn(q, d) \/ (r.op = "list" /\ r.at = d)
      /\ Removing(Append(q, r)) = Removing(q) \cup (IF r.op = "remove" THEN {Len(q) + 1} ELSE {})
  BY OneBehind
<1>4. deletion # None /\ Removing(requests) = {} /\ Removing(rest) = {} /\ deletion' # None
  BY <1>1, RemovalTaken, BrowserAssumption DEF IInv
<1>5. /\ requests' \in Seq(Requested)
      /\ \A d : AskedIn(requests', d) <=> AskedIn(requests, d)
      /\ Removing(requests') = {Len(q) + 1}
  BY <1>1, <1>2, <1>3, <1>4
<1>6. Typed' /\ RowsInStep'
  BY <1>1, <1>5 DEF IInv, Typed, RowsInStep, Left
<1>7. OneRemoval'
  BY <1>4, <1>5 DEF OneRemoval
<1>8. Listings'
  <2>1. Takes(Head(answers))
    BY DEF Takes
  <2> QED
    BY <2>1, TakenListings DEF IInv
<1>9. ChangesFollowedUp'
  <2>1. /\ \A d \in loading : d \in Dirs /\ (AskedIn(requests, d) \/ AskedIn(answers, d))
        /\ online => \A d \in owed :
              \/ AskedIn(requests, d)
              \/ \E i \in DOMAIN answers : answers[i].ok /\ d \in Owes(answers[i])
              \/ deletion # None /\ d \in deletion.parents
    BY FollowedForm DEF IInv
  <2>2. \A d : AskedIn(answers, d) => AskedIn(answers', d)
    BY DEF Left
  <2>3. \A d : (\E i \in DOMAIN answers : answers[i].ok /\ d \in Owes(answers[i]))
             => \/ d \in parents
                \/ \E i \in DOMAIN answers' : answers'[i].ok /\ d \in Owes(answers'[i])
    BY DEF Left
  <2>4. /\ \A d \in loading' : d \in Dirs /\ (AskedIn(requests', d) \/ AskedIn(answers', d))
        /\ online' => \A d \in owed' :
              \/ AskedIn(requests', d)
              \/ \E i \in DOMAIN answers' : answers'[i].ok /\ d \in Owes(answers'[i])
              \/ deletion' # None /\ d \in deletion'.parents
    BY <2>1, <2>2, <2>3, <1>1, <1>4, <1>5
  <2> QED
    BY <2>4 DEF ChangesFollowedUp, Asked, Told, AskedIn
<1> QED
  BY <1>6, <1>7, <1>8, <1>9 DEF IInv

\* The UI thread takes an answer.
LEMMA TakeAnswerStep == ASSUME IInv, TakeAnswer PROVE IInv'
<1>1. PICK a, rest : a = Head(answers) /\ rest = Tail(answers)
  OBVIOUS
<1>2. answers # <<>> /\ answers' = rest /\ UNCHANGED <<serverVars, online>>
  BY <1>1 DEF TakeAnswer
<1>3. Left(a, rest)
  BY <1>1, <1>2, TakenAnswers DEF IInv
<1>4. /\ a \in Answered /\ Owes(a) \subseteq Dirs /\ ToRefresh(a) \in SUBSET Dirs
      /\ a.ok => Owes(a) \subseteq ToRefresh(a)
  BY <1>3, OwedDirs DEF Left
<1>5. selected \in SUBSET Paths /\ {} \in SUBSET Paths
  BY DEF IInv, Typed
<1>6. CASE a.op = "list" /\ Listed(a)
  BY <1>1, <1>2, <1>3, <1>6, ListedStep
<1>7. CASE a.op \in {"create", "rename", "move"} /\ Changed(a)
  <2>1. RefreshDirs(tree, loading, selected, ToRefresh(a)) /\ UNCHANGED deletion /\ a.op \in Changes
    BY <1>7 DEF Changed, Changes
  <2>2. PICK ds \in SUBSET Dirs : ds = ToRefresh(a)
    BY <1>4
  <2> QED
    BY <1>1, <1>2, <1>3, <1>4, <1>5, <2>1, <2>2, RefreshingAnswer
<1>8. CASE a.op = "remove" /\ Removed(a)
  <2>1. deletion # None /\ deletion \in Deletions /\ a.op \in Changes
    BY <1>3, <1>8, RemovalTaken DEF IInv, Typed, Changes
  <2>2. PICK parents \in SUBSET Dirs : parents = deletion.parents \cup ToRefresh(a)
    BY <1>4, <2>1 DEF Deletions
  <2>3. PICK left \in SUBSET Paths : left = deletion.left
    BY <2>1 DEF Deletions
  <2>4. \/ RemoveNext(left, parents) /\ UNCHANGED viewVars
        \/ RefreshDirs(tree, loading, {}, parents) /\ deletion' = None
    BY <1>8, <2>2, <2>3 DEF Removed
  <2>5. (deletion # None => deletion.parents \subseteq parents) /\ (a.ok => Owes(a) \subseteq parents)
    BY <1>4, <2>2
  <2>6. CASE RemoveNext(left, parents) /\ UNCHANGED viewVars
    BY <1>1, <1>2, <1>3, <1>8, <2>5, <2>6, NextRemoval
  <2>7. CASE RefreshDirs(tree, loading, {}, parents) /\ deletion' = None
    BY <1>1, <1>2, <1>3, <1>5, <1>8, <2>1, <2>5, <2>7, RefreshingAnswer
  <2> QED
    BY <2>4, <2>6, <2>7
<1> QED
  BY <1>1, <1>6, <1>7, <1>8 DEF TakeAnswer

-----------------------------------------------------------------------------
(* The theorems. *)

\* The login directory is being read, and nothing is drawn yet.
LEMMA BrowserInit == Init => IInv
<1> SUFFICES ASSUME Init PROVE IInv
  OBVIOUS
<1>1. Home \in Dirs /\ Home \in Places
  BY PathFacts DEF Places
<1>2. tree = [root |-> Home, kids |-> [x \in {Home} |-> {}], loaded |-> {}, expanded |-> {Home}]
  BY DEF Init, NewTree
<1>3. PICK r : r = Request("list", Home, Home)
  OBVIOUS
<1>4. r \in Requested /\ requests = <<r>> /\ r.op = "list" /\ r.at = Home
  BY <1>1, <1>3 DEF Init, Request, Requested, Changes
<1>5. requests \in Seq(Requested) /\ DOMAIN requests = {1} /\ requests[1] = r
  BY <1>4
<1>6. answers = <<>> /\ answers \in Seq(Answered) /\ DOMAIN answers = {}
  BY DEF Init
<1>7. tree \in Trees
  <2>1. [x \in {Home} |-> {}] \in [{Home} -> SUBSET Paths] /\ {Home} \in SUBSET Places
    BY <1>1
  <2> QED
    BY <2>1, <1>1, <1>2 DEF Trees
<1>8. Typed
  BY <1>1, <1>5, <1>6, <1>7 DEF Typed, Init
<1>9. Rows(tree) = {}
  <2>1. ASSUME NEW p \in Rows(tree) PROVE FALSE
    <3>1. p \in Paths /\ Len(p) \in Nat \ {0} /\ p \in Seq(Names)
      BY PathFacts DEF Rows
    <3>2. Len(tree.root) = 0
      BY <1>2 DEF Home
    <3>3. 0 \in Len(tree.root)..(Len(p) - 1)
      BY <3>1, <3>2
    <3>4. /\ SubSeq(p, 1, 0) \in DOMAIN tree.kids
          /\ SubSeq(p, 1, 0 + 1) \in tree.kids[SubSeq(p, 1, 0)]
      BY <3>3 DEF Rows
    <3> QED
      BY <3>4, <1>2
  <2> QED
    BY <2>1
<1>10. RowsInStep
  BY <1>9 DEF Init, RowsInStep
<1>11. OneRemoval
  BY <1>4, <1>5, <1>6 DEF OneRemoval, Removing
<1>12. Listings
  BY DEF Listings, Init
<1>13. ChangesFollowedUp
  BY <1>1, <1>4, <1>5 DEF ChangesFollowedUp, Init, Asked
<1> QED
  BY <1>8, <1>10, <1>11, <1>12, <1>13 DEF IInv

\* Every step of the user, the session, the server and the UI thread.
LEMMA BrowserNext == IInv /\ [Next]_vars => IInv'
<1> SUFFICES ASSUME IInv, [Next]_vars PROVE IInv'
  OBVIOUS
<1>1. CASE User
  <2>1. ASSUME NEW S \in SUBSET visible, Select(S) PROVE IInv'
    BY <2>1, SelectStep
  <2>2. CASE RefreshOpen \/ \E d \in Dirs : ToggleDir(d) \/ Cd(d) \/ UploadEnds(d)
    BY <2>2, RefreshingStep
  <2>3. CASE Disconnect
    BY <2>3, DisconnectStep
  <2>4. ASSUME NEW to \in Paths, NEW p \in Paths, ConfirmRename(p, to) \/ Move(p, to) PROVE IInv'
    BY <2>4, PathFacts, ChangeStep
  <2>5. ASSUME NEW to \in Paths, NEW parent \in Dirs, ConfirmFolder(parent, to) PROVE IInv'
    BY <2>5, ChangeStep
  <2>6. ASSUME NEW row \in Paths, Delete(row) PROVE IInv'
    BY <2>6, DeleteStep
  <2> QED
    BY <1>1, <2>1, <2>2, <2>3, <2>4, <2>5, <2>6 DEF User
<1>2. CASE Serve
  BY <1>2, ServeStep
<1>3. CASE TakeAnswer
  BY <1>3, TakeAnswerStep
<1>4. ASSUME NEW p \in Others, Elsewhere(p) PROVE IInv'
  BY <1>4, ElsewhereStep
<1>5. CASE UNCHANGED vars
  <2>1. /\ UNCHANGED <<disk, tree, visible, selected, loading, online, deletion, fresh, owed>>
        /\ requests' = requests /\ answers' = answers
    BY <1>5 DEF vars, serverVars, viewVars
  <2>2. Typed' /\ RowsInStep'
    BY <2>1 DEF IInv, Typed, RowsInStep
  <2>3. OneRemoval' /\ Listings'
    BY <2>1 DEF IInv, OneRemoval, Listings, Removing, Bringing, Listing
  <2>4. ChangesFollowedUp'
    BY <2>1 DEF IInv, ChangesFollowedUp, Asked, Told, Owes, Touched, NameTyped, DialogDir
  <2> QED
    BY <2>2, <2>3, <2>4 DEF IInv
<1> QED
  BY <1>1, <1>2, <1>3, <1>4, <1>5 DEF Next

\* The inductive invariant holds of every behaviour of the panel and its server.
THEOREM BrowserInvariant == Spec => []IInv
<1> QED
  BY BrowserInit, BrowserNext, PTL DEF Spec

\* The rows drawn are the tree's, and nothing is selected that is not drawn,
\* after every callback of refresh_dir, toggle_dir, cd and the delete task.
THEOREM BrowserRowsInStep == Spec => []RowsInStep
<1>1. IInv => RowsInStep
  BY DEF IInv
<1> QED
  BY <1>1, BrowserInvariant, PTL

\* However listings of refresh_dir overlap with changes, with cd and with each
\* other, a directory unchanged since it was last listed is shown as it is.
THEOREM BrowserListingsCurrent == Spec => []ListingsCurrent
<1>1. IInv => ListingsCurrent
  BY DEF IInv, Listings, ListingsCurrent, Told, Bringing
<1> QED
  BY <1>1, BrowserInvariant, PTL

\* What move and delete changed, and rename and new folder in the directory of their
\* dialog, is listed again, and every spinner is of a listing under way.
THEOREM BrowserChangesFollowedUp == Spec => []ChangesFollowedUp
<1>1. IInv => ChangesFollowedUp
  BY DEF IInv
<1> QED
  BY <1>1, BrowserInvariant, PTL

\* delete_selected_ids removes one path at a time: there is at most one removal
\* among the requests and answers, and none unless a deletion is under way.
THEOREM BrowserOneRemoval == Spec => []OneRemoval
<1>1. IInv => OneRemoval
  BY DEF IInv
<1> QED
  BY <1>1, BrowserInvariant, PTL
=============================================================================
