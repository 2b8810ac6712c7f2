------------------------- MODULE SftpDownloadProofs -------------------------
(***************************************************************************)
(* The transfer list keeps its rows, its order, its index by group and the *)
(* totals of its groups in step for any ids, groups and reports, and the   *)
(* row of a download tells what became of the file whatever other          *)
(* transfers do to the list meanwhile.                                     *)
(*                                                                         *)
(* The list's helpers rewrite both group maps at once.  The proofs speak   *)
(* of them through Fits(rows, tables, old): the tables describe the rows   *)
(* given, where the ids in `old` once had rows and count no more as them.  *)
(* Leaving a group and entering one each keep Fits (LeaveFits, EnterFits), *)
(* and every operation of the list is a sequence of the two.               *)
(***************************************************************************)
EXTENDS SftpDownload, FiniteSetTheorems, SequenceTheorems, TLAPS

(***************************************************************************)
(* Partial functions, as the hash maps of the list are.                    *)
(***************************************************************************)
Partial(A, B) == UNION {[D -> B] : D \in SUBSET A}
\* The shapes of a row, of a group's totals and of the two group maps.
Rows == [id : Ids, group : Groups \cup {NoGroup}, status : Statuses,
         done : Opt(Totals), total : Opt(Totals)]
Pairs == Nat \X Nat
IdSets == SUBSET Ids
States == [total : Nat, completed : SUBSET Ids, bytes : Partial(Ids, Pairs)]
GroupTables == [gt : Partial(Groups, IdSets), gs : Partial(Groups, States)]

\* The empty map, with which the list starts and to which it is cleared, is a
\* partial function of any kind.
LEMMA EmptyFcn == ASSUME NEW A, NEW B PROVE /\ <<>> \in Partial(A, B) /\ DOMAIN <<>> = {}
<1>1. <<>> \in Seq(B) /\ Len(<<>>) = 0 BY EmptySeq
<1>2. <<>> \in [1..0 -> B] BY <1>1, LenProperties
<1>3. 1..0 = {} OBVIOUS
<1>4. DOMAIN <<>> = {} BY <1>2, <1>3
<1>5. <<>> \in [{} -> B] BY <1>2, <1>3
<1>6. {} \in SUBSET A OBVIOUS
<1> QED BY <1>4, <1>5, <1>6 DEF Partial

\* Put, an insert into a hash map, keeps a map's kind.
LEMMA PutType ==
  ASSUME NEW A, NEW B, NEW f \in Partial(A, B), NEW x \in A, NEW v \in B
  PROVE  Put(f, x, v) \in Partial(A, B)
<1>1. PICK D \in SUBSET A : f \in [D -> B] BY DEF Partial
<1>2. Put(f, x, v) \in [D \cup {x} -> B] BY <1>1 DEF Put
<1>3. D \cup {x} \in SUBSET A OBVIOUS
<1> QED BY <1>2, <1>3 DEF Partial

\* Put adds one key, sets its value and leaves every other entry alone.
LEMMA PutIs ==
  ASSUME NEW f, NEW x, NEW v
  PROVE  /\ DOMAIN Put(f, x, v) = DOMAIN f \cup {x}
         /\ Put(f, x, v)[x] = v
         /\ \A y \in DOMAIN f : y # x => Put(f, x, v)[y] = f[y]
BY DEF Put

\* Without, a remove from a hash map, keeps a map's kind.
LEMMA WithoutType ==
  ASSUME NEW A, NEW B, NEW f \in Partial(A, B), NEW x
  PROVE  Without(f, x) \in Partial(A, B)
<1>1. PICK D \in SUBSET A : f \in [D -> B] BY DEF Partial
<1>2. Without(f, x) \in [D \ {x} -> B] BY <1>1 DEF Without
<1>3. D \ {x} \in SUBSET A OBVIOUS
<1> QED BY <1>2, <1>3 DEF Partial

\* Without takes one key out and leaves every other entry alone.
LEMMA WithoutIs ==
  ASSUME NEW f, NEW x
  PROVE  /\ DOMAIN Without(f, x) = DOMAIN f \ {x}
         /\ \A y \in DOMAIN f : y # x => Without(f, x)[y] = f[y]
BY DEF Without

\* The keys and the values of a partial function.
LEMMA PartialProps == ASSUME NEW A, NEW B, NEW f \in Partial(A, B)
   PROVE  /\ DOMAIN f \subseteq A
          /\ \A x \in DOMAIN f : f[x] \in B
          /\ f = [x \in DOMAIN f |-> f[x]]
BY DEF Partial

\* A byte count reported, or else the default, is a byte count.
LEMMA OptProps == ASSUME NEW S, NEW o \in Opt(S), NEW d \in S
   PROVE OrElse(o, d) \in S
BY DEF Opt, OrElse, The

-----------------------------------------------------------------------------
(***************************************************************************)
(* What the group helpers do to the maps.                                  *)
(***************************************************************************)

\* A group's totals once a row is withdrawn from them.
AfterWithdrawal(w, s, row, rc) ==
    /\ w \in States
    /\ w.total = s.total
    /\ w.completed = IF rc THEN s.completed \ {row.id} ELSE s.completed
    /\ DOMAIN w.bytes = IF rc \/ row.status = "InProgress" THEN DOMAIN s.bytes \ {row.id}
                                                           ELSE DOMAIN s.bytes
    /\ ~rc /\ row.status # "InProgress" => w = s

\* A row that leaves its group takes along what it is asked to take, and a row
\* that ended and is only dismissed takes nothing.
LEMMA WithdrawnProps ==
  ASSUME NEW s \in States, NEW row \in Rows, NEW rc \in BOOLEAN
  PROVE  AfterWithdrawal(Withdrawn(s, row, rc), s, row, rc)
<1> DEFINE w == Withdrawn(s, row, rc)
           b == IF rc \/ row.status = "InProgress" THEN Without(s.bytes, row.id)
                                                   ELSE s.bytes
           c == IF rc THEN s.completed \ {row.id} ELSE s.completed
<1>0. s.total \in Nat /\ s.completed \in SUBSET Ids /\ s.bytes \in Partial(Ids, Pairs)
  BY DEF States
<1>1. w.total = s.total /\ w.completed = c /\ w.bytes = b BY DEF Withdrawn, States
<1>2. w = [total |-> s.total, completed |-> c, bytes |-> b]
  <2>1. s = [total |-> s.total, completed |-> s.completed, bytes |-> s.bytes] BY DEF States
  <2> DEFINE v == [s EXCEPT !.completed = c]
  <2>2. v = [total |-> s.total, completed |-> c, bytes |-> s.bytes]
    <3> HIDE DEF c
    <3> QED BY <2>1
  <2>3. w = [v EXCEPT !.bytes = b] BY DEF Withdrawn
  <2> HIDE DEF v, w, b, c
  <2> QED BY <2>1, <2>2, <2>3
<1>3. /\ b \in Partial(Ids, Pairs)
      /\ DOMAIN b = IF rc \/ row.status = "InProgress" THEN DOMAIN s.bytes \ {row.id}
                                                       ELSE DOMAIN s.bytes
  <2>1. CASE rc \/ row.status = "InProgress"
    <3>1. b = Without(s.bytes, row.id) BY <2>1
    <3>2. /\ Without(s.bytes, row.id) \in Partial(Ids, Pairs)
          /\ DOMAIN Without(s.bytes, row.id) = DOMAIN s.bytes \ {row.id}
      BY <1>0, WithoutType, WithoutIs
    <3> HIDE DEF b
    <3> QED BY <2>1, <3>1, <3>2
  <2>2. CASE ~(rc \/ row.status = "InProgress") BY <1>0, <2>2
  <2> QED BY <2>1, <2>2
<1>4. c \in SUBSET Ids BY <1>0
<1>5. w \in States 
  <2> HIDE DEF w, b, c
  <2> QED BY <1>0, <1>2, <1>3, <1>4 DEF States
<1>6. ~rc /\ row.status # "InProgress" => w = s BY DEF Withdrawn, States
<1> SUFFICES AfterWithdrawal(w, s, row, rc) OBVIOUS
<1> HIDE DEF w
<1> QED BY <1>1, <1>3, <1>5, <1>6 DEF AfterWithdrawal

\* The group maps once a row left its group.
AfterLeaving(out, mp, row, rc, preserve) ==
    LET g    == row.group
        last == mp.gt[g] \subseteq {row.id}
    IN  /\ out \in GroupTables
        /\ DOMAIN out.gt = IF last THEN DOMAIN mp.gt \ {g} ELSE DOMAIN mp.gt
        /\ \A h \in DOMAIN out.gt : out.gt[h] = IF h = g THEN mp.gt[g] \ {row.id}
                                                         ELSE mp.gt[h]
        /\ DOMAIN out.gs = IF last /\ ~preserve THEN DOMAIN mp.gs \ {g} ELSE DOMAIN mp.gs
        /\ \A h \in DOMAIN out.gs :
              out.gs[h] = IF h = g THEN Withdrawn(mp.gs[g], row, rc) ELSE mp.gs[h]

\* remove_task_from_group_state takes the row out of its group's ids, and the
\* group out of the maps when nothing of it is to stay; other groups keep theirs.
LEMMA LeaveProps ==
  ASSUME NEW mp \in GroupTables, NEW row \in Rows, NEW rc \in BOOLEAN, NEW preserve \in BOOLEAN,
         row.group # NoGroup, row.group \in DOMAIN mp.gt, row.group \in DOMAIN mp.gs
  PROVE  AfterLeaving(LeaveGroup(mp, row, rc, preserve), mp, row, rc, preserve)
<1> DEFINE g == row.group
           last == mp.gt[g] \subseteq {row.id}
           out == LeaveGroup(mp, row, rc, preserve)
           gt == IF last THEN Without(mp.gt, g) ELSE Put(mp.gt, g, mp.gt[g] \ {row.id})
           w  == Withdrawn(mp.gs[g], row, rc)
           gs == IF last /\ ~preserve THEN Without(mp.gs, g) ELSE Put(mp.gs, g, w)
<1>1. mp.gt \in Partial(Groups, IdSets) /\ mp.gs \in Partial(Groups, States)
  BY DEF GroupTables
<1>2. mp.gt[g] \in IdSets /\ mp.gs[g] \in States /\ g \in Groups BY <1>1, PartialProps
<1>3. w \in States
  <2>1. AfterWithdrawal(w, mp.gs[g], row, rc) BY <1>2, WithdrawnProps
  <2> QED BY <2>1 DEF AfterWithdrawal
<1>4. out = Maps(gt, gs)
  <2>1. last \in BOOLEAN OBVIOUS
  <2> HIDE DEF last, w
  <2> QED BY DEF LeaveGroup, Grouped, last, w
<1>5. out.gt = gt /\ out.gs = gs /\ out = [gt |-> gt, gs |-> gs]
  <2> HIDE DEF gt, gs, out
  <2> QED BY <1>4 DEF Maps
<1>6. /\ gt \in Partial(Groups, IdSets) 
      /\ DOMAIN gt = IF last THEN DOMAIN mp.gt \ {g} ELSE DOMAIN mp.gt
      /\ \A h \in DOMAIN gt : gt[h] = IF h = g THEN mp.gt[g] \ {row.id} ELSE mp.gt[h]
  <2>1. CASE last
    <3>1. gt = Without(mp.gt, g) BY <2>1
    <3>2. /\ Without(mp.gt, g) \in Partial(Groups, IdSets)
          /\ DOMAIN Without(mp.gt, g) = DOMAIN mp.gt \ {g}
          /\ \A h \in DOMAIN mp.gt : h # g => Without(mp.gt, g)[h] = mp.gt[h]
      BY <1>1, WithoutType, WithoutIs
    <3> HIDE DEF gt
    <3> QED BY <2>1, <3>1, <3>2
  <2>2. CASE ~last
    <3>1. gt = Put(mp.gt, g, mp.gt[g] \ {row.id}) BY <2>2
    <3>2. mp.gt[g] \ {row.id} \in IdSets BY <1>2 DEF IdSets
    <3> DEFINE ids == mp.gt[g] \ {row.id}
    <3>3. /\ Put(mp.gt, g, ids) \in Partial(Groups, IdSets)
      BY <1>1, <1>2, <3>2, PutType
    <3>4. /\ DOMAIN Put(mp.gt, g, ids) = DOMAIN mp.gt \cup {g}
          /\ Put(mp.gt, g, ids)[g] = ids
          /\ \A h \in DOMAIN mp.gt : h # g => Put(mp.gt, g, ids)[h] = mp.gt[h]
      BY DEF Put
    <3> HIDE DEF gt
    <3> QED BY <2>2, <3>1, <3>3, <3>4, <1>2
  <2> QED BY <2>1, <2>2
<1>7. /\ gs \in Partial(Groups, States) 
      /\ DOMAIN gs = IF last /\ ~preserve THEN DOMAIN mp.gs \ {g} ELSE DOMAIN mp.gs
      /\ \A h \in DOMAIN gs : gs[h] = IF h = g THEN w ELSE mp.gs[h]
  <2>1. CASE last /\ ~preserve
    <3>1. gs = Without(mp.gs, g) BY <2>1
    <3>2. /\ Without(mp.gs, g) \in Partial(Groups, States)
          /\ DOMAIN Without(mp.gs, g) = DOMAIN mp.gs \ {g}
          /\ \A h \in DOMAIN mp.gs : h # g => Without(mp.gs, g)[h] = mp.gs[h]
      BY <1>1, WithoutType, WithoutIs
    <3> HIDE DEF gs, w
    <3> QED BY <2>1, <3>1, <3>2
  <2>2. CASE ~(last /\ ~preserve)
    <3>1. gs = Put(mp.gs, g, w) BY <2>2
    <3> HIDE DEF w
    <3>2. /\ Put(mp.gs, g, w) \in Partial(Groups, States)
      BY <1>1, <1>2, <1>3, PutType
    <3>3. /\ DOMAIN Put(mp.gs, g, w) = DOMAIN mp.gs \cup {g}
          /\ Put(mp.gs, g, w)[g] = w
          /\ \A h \in DOMAIN mp.gs : h # g => Put(mp.gs, g, w)[h] = mp.gs[h]
      BY DEF Put
    <3> HIDE DEF gs
    <3> QED BY <2>2, <3>1, <3>2, <3>3
  <2> QED BY <2>1, <2>2
<1>8. out \in GroupTables
  <2> HIDE DEF gt, gs, out
  <2> QED BY <1>5, <1>6, <1>7 DEF GroupTables
<1> SUFFICES AfterLeaving(out, mp, row, rc, preserve) OBVIOUS
<1> HIDE DEF gt, gs, out
<1> QED BY <1>5, <1>6, <1>7, <1>8 DEF AfterLeaving

\* The group maps once a row joined its group.
AfterEntering(out, mp, row) ==
    LET g   == row.group
        old == IF g \in DOMAIN mp.gs THEN mp.gs[g] ELSE EmptyGroup
    IN  /\ out \in GroupTables
        /\ DOMAIN out.gt = DOMAIN mp.gt \cup {g}
        /\ out.gt[g] = (IF g \in DOMAIN mp.gt THEN mp.gt[g] ELSE {}) \cup {row.id}
        /\ \A h \in DOMAIN mp.gt : h # g => out.gt[h] = mp.gt[h]
        /\ DOMAIN out.gs = DOMAIN mp.gs \cup {g}
        /\ \A h \in DOMAIN mp.gs : h # g => out.gs[h] = mp.gs[h]
        /\ out.gs[g].completed = IF row.status \in Terminal THEN old.completed \cup {row.id}
                                                           ELSE old.completed
        /\ DOMAIN out.gs[g].bytes \subseteq DOMAIN old.bytes \cup {row.id}

\* apply_task_to_group_state adds the row to its group's ids and counts it when
\* it ended; other groups keep theirs.
LEMMA EnterProps ==
  ASSUME NEW mp \in GroupTables, NEW row \in Rows, NEW gtot \in Opt(Totals), row.group # NoGroup
  PROVE  AfterEntering(EnterGroup(mp, row, gtot), mp, row)
<1> DEFINE g == row.group
           old == IF g \in DOMAIN mp.gs THEN mp.gs[g] ELSE EmptyGroup
           ids == IF g \in DOMAIN mp.gt THEN mp.gt[g] ELSE {}
           out == EnterGroup(mp, row, gtot)
           length == OrElse(row.total, 0)
           default == IF row.status = "Finished" THEN length ELSE 0
           pair == <<Least(OrElse(row.done, default), length), length>>
           t == GrownTotal(old.total, gtot)
           b == IF length > 0 THEN Put(old.bytes, row.id, pair) ELSE old.bytes
           c == IF row.status \in Terminal THEN old.completed \cup {row.id}
                                           ELSE old.completed
           new == [old EXCEPT !.total = t, !.bytes = b, !.completed = c]
           gt == Put(mp.gt, g, ids \cup {row.id})
           gs == Put(mp.gs, g, new)
<1>1. /\ mp.gt \in Partial(Groups, IdSets) /\ mp.gs \in Partial(Groups, States)
      /\ g \in Groups /\ row.id \in Ids /\ row.total \in Opt(Totals) /\ row.done \in Opt(Totals)
  BY DEF GroupTables, Rows
<1>2. ids \in IdSets /\ ids \cup {row.id} \in IdSets
  <2>1. ids \in IdSets BY <1>1, PartialProps DEF IdSets
  <2> QED BY <1>1, <2>1 DEF IdSets
<1>3. old \in States
  <2>1. EmptyGroup \in States
    <3>1. <<>> \in Partial(Ids, Pairs) BY EmptyFcn
    <3> QED BY <3>1 DEF EmptyGroup, States
  <2> QED BY <1>1, <2>1, PartialProps
<1>4. old.total \in Nat /\ old.completed \in SUBSET Ids /\ old.bytes \in Partial(Ids, Pairs)
  <2> HIDE DEF old
  <2> QED BY <1>3 DEF States
<1>5. /\ new = [total |-> t, completed |-> c, bytes |-> b]
      /\ new.total = t /\ new.completed = c /\ new.bytes = b
  <2>1. old = [total |-> old.total, completed |-> old.completed, bytes |-> old.bytes]
    <3> HIDE DEF old
    <3> QED BY <1>3 DEF States
  <2> DEFINE v == [old EXCEPT !.total = t]
             w == [v EXCEPT !.bytes = b]
  <2>2. v = [total |-> t, completed |-> old.completed, bytes |-> old.bytes]
    <3> HIDE DEF old, t
    <3> QED BY <2>1
  <2>3. w = [total |-> t, completed |-> old.completed, bytes |-> b]
    <3> HIDE DEF old, t, b, v
    <3> QED BY <2>2
  <2>4. new = [w EXCEPT !.completed = c] OBVIOUS
  <2>5. new = [total |-> t, completed |-> c, bytes |-> b]
    <3> HIDE DEF old, t, b, c, w, new
    <3> QED BY <2>3, <2>4
  <2> HIDE DEF old, t, b, c, w, new
  <2> QED BY <2>5
<1>6. t \in Nat
  <2>1. OrElse(gtot, 0) \in Nat BY TotalsAssumption DEF OrElse, Opt, The
  <2> HIDE DEF old
  <2> QED BY <1>4, <2>1 DEF GrownTotal, Most
<1>7. b \in Partial(Ids, Pairs) /\ DOMAIN b \subseteq DOMAIN old.bytes \cup {row.id}
  <2>1. length \in Nat BY <1>1, TotalsAssumption DEF OrElse, Opt, The
  <2>2. default \in Nat BY <2>1
  <2>3. OrElse(row.done, default) \in Nat 
    <3> HIDE DEF default
    <3> QED BY <1>1, <2>2, TotalsAssumption DEF OrElse, Opt, The
  <2>4. pair \in Pairs
    <3> HIDE DEF default, length
    <3> QED BY <2>1, <2>3 DEF Least, Pairs
  <2>5. Put(old.bytes, row.id, pair) \in Partial(Ids, Pairs)
    <3> HIDE DEF old, pair
    <3> QED BY <1>1, <1>4, <2>4, PutType
  <2>6. DOMAIN Put(old.bytes, row.id, pair) = DOMAIN old.bytes \cup {row.id} BY DEF Put
  <2> HIDE DEF old, pair, length
  <2> QED BY <1>4, <2>5, <2>6
<1>8. c \in SUBSET Ids BY <1>1, <1>4
<1>9. new \in States
  <2> HIDE DEF new, t, b, c
  <2> QED BY <1>5, <1>6, <1>7, <1>8 DEF States
<1>10. out = Maps(gt, gs)
  <2>1. Grouped(row) BY DEF Grouped
  <2> QED BY <2>1 DEF EnterGroup
<1>11. out.gt = gt /\ out.gs = gs /\ out = [gt |-> gt, gs |-> gs]
  <2> HIDE DEF gt, gs, out
  <2> QED BY <1>10 DEF Maps
<1> HIDE DEF new, ids
<1>12. /\ gt \in Partial(Groups, IdSets) /\ gs \in Partial(Groups, States)
  BY <1>1, <1>2, <1>9, PutType
<1>13. /\ DOMAIN gt = DOMAIN mp.gt \cup {g} /\ gt[g] = ids \cup {row.id}
       /\ \A h \in DOMAIN mp.gt : h # g => gt[h] = mp.gt[h]
  BY DEF Put
<1>14. /\ DOMAIN gs = DOMAIN mp.gs \cup {g} /\ gs[g] = new
       /\ \A h \in DOMAIN mp.gs : h # g => gs[h] = mp.gs[h]
  BY DEF Put
<1>15. out \in GroupTables
  <2> HIDE DEF gt, gs, out
  <2> QED BY <1>11, <1>12 DEF GroupTables
<1>16. out.gs[g].completed = c /\ DOMAIN out.gs[g].bytes \subseteq DOMAIN old.bytes \cup {row.id}
  <2> HIDE DEF gs, old, b, c, out
  <2> QED BY <1>5, <1>7, <1>11, <1>14
<1> SUFFICES AfterEntering(out, mp, row) OBVIOUS
<1> HIDE DEF gt, gs, out
<1> QED BY <1>11, <1>13, <1>14, <1>15, <1>16 DEF AfterEntering, ids

-----------------------------------------------------------------------------
(***************************************************************************)
(* When group maps describe rows.                                          *)
(***************************************************************************)

\* A group lists exactly the rows that name it, and never none.
Indexed(rows, gt) ==
    /\ \A g \in DOMAIN gt : gt[g] # {} /\ gt[g] = {id \in DOMAIN rows : rows[id].group = g}
    /\ \A id \in DOMAIN rows : rows[id].group # NoGroup => rows[id].group \in DOMAIN gt
\* Bytes belong to a row of the group or to one that ended in it.
Owned(rows, gs) ==
    \A g \in DOMAIN gs : \A id \in DOMAIN gs[g].bytes :
        (id \in DOMAIN rows /\ rows[id].group = g) \/ id \in gs[g].completed
\* A row that ended is counted by its group; whoever a group counts ended in it
\* and is still listed there or in `old`; nobody is counted twice.
Counted(rows, gs, old) ==
    /\ \A id \in DOMAIN rows :
          rows[id].group # NoGroup /\ rows[id].status \in Terminal => id \in gs[rows[id].group].completed
    /\ \A g \in DOMAIN gs : \A id \in gs[g].completed :
          id \in old \/ (id \in DOMAIN rows /\ rows[id].group = g /\ rows[id].status \in Terminal)
    /\ \A g, h \in DOMAIN gs : \A id \in gs[g].completed \cap gs[h].completed : g = h
\* Rows under their own ids, and none for an id in `old`.
RowsFit(rows, old) ==
    /\ rows \in Partial(Ids, Rows)
    /\ \A id \in DOMAIN rows : rows[id].id = id
    /\ old \subseteq Ids /\ old \cap DOMAIN rows = {}
Fits(rows, mp, old) ==
    /\ RowsFit(rows, old)
    /\ mp \in GroupTables /\ DOMAIN mp.gt \subseteq DOMAIN mp.gs
    /\ Indexed(rows, mp.gt) /\ Owned(rows, mp.gs) /\ Counted(rows, mp.gs, old)

\* A row taken out of the list through remove_task_from_group_state leaves maps
\* that describe the remaining rows: its id is forgotten when its completion is
\* withdrawn (the row is about to be replaced), and joins `old` when not.
LEMMA LeaveFits ==
  ASSUME NEW rows, NEW mp, NEW old, Fits(rows, mp, old), NEW id \in DOMAIN rows,
         NEW rc \in BOOLEAN, NEW preserve \in BOOLEAN
  PROVE  Fits(Without(rows, id), LeaveGroup(mp, rows[id], rc, preserve),
              IF rc THEN old ELSE old \cup {id})
<1> DEFINE row == rows[id]
           g == row.group
           out == LeaveGroup(mp, row, rc, preserve)
           rest == Without(rows, id)
           new == IF rc THEN old ELSE old \cup {id}
           last == mp.gt[g] \subseteq {row.id}
<1> SUFFICES Fits(rest, out, new) OBVIOUS
<1>0. row = rows[id] OBVIOUS
<1>1. /\ RowsFit(rows, old) /\ mp \in GroupTables /\ DOMAIN mp.gt \subseteq DOMAIN mp.gs
      /\ Indexed(rows, mp.gt) /\ Owned(rows, mp.gs) /\ Counted(rows, mp.gs, old)
  BY DEF Fits
<1>2. /\ rows \in Partial(Ids, Rows) /\ row \in Rows /\ row.id = id /\ id \in Ids /\ id \notin old
      /\ \A k \in DOMAIN rows : rows[k].id = k
      /\ old \subseteq Ids /\ old \cap DOMAIN rows = {}
  BY <1>0, <1>1, PartialProps DEF RowsFit
<1>3. DOMAIN rest = DOMAIN rows \ {id} /\ \A k \in DOMAIN rest : rest[k] = rows[k]
  BY DEF Without
<1>4. RowsFit(rest, new)
  <2>1. rest \in Partial(Ids, Rows) BY <1>2, WithoutType
  <2>2. new \subseteq Ids /\ new \cap DOMAIN rest = {} BY <1>2, <1>3
  <2> HIDE DEF rest, new
  <2> QED BY <1>2, <1>3, <2>1, <2>2 DEF RowsFit
<1>5. CASE g = NoGroup
  <2>1. out = mp BY <1>5 DEF LeaveGroup, Grouped
  <2>2. Indexed(rest, mp.gt)
    <3>1. ASSUME NEW h \in DOMAIN mp.gt
          PROVE  mp.gt[h] # {} /\ mp.gt[h] = {k \in DOMAIN rest : rest[k].group = h}
      <4>1. h # NoGroup BY <1>1, PartialProps, GroupsAssumption DEF GroupTables
      <4>2. mp.gt[h] # {} /\ mp.gt[h] = {k \in DOMAIN rows : rows[k].group = h}
        BY <1>1 DEF Indexed
      <4> HIDE DEF rest
      <4> QED BY <1>3, <1>5, <4>1, <4>2
    <3> HIDE DEF rest
    <3> QED BY <1>1, <1>3, <3>1 DEF Indexed
  <2>3. Owned(rest, mp.gs)
    <3> SUFFICES ASSUME NEW h \in DOMAIN mp.gs, NEW k \in DOMAIN mp.gs[h].bytes, k \notin mp.gs[h].completed
                 PROVE  k \in DOMAIN rest /\ rest[k].group = h
      BY DEF Owned
    <3>1. h # NoGroup BY <1>1, PartialProps, GroupsAssumption DEF GroupTables
    <3>2. k \in DOMAIN rows /\ rows[k].group = h BY <1>1 DEF Owned
    <3> HIDE DEF rest
    <3> QED BY <1>3, <1>5, <3>1, <3>2
  <2>4. Counted(rest, mp.gs, new)
    <3>1. \A k \in DOMAIN rest : rest[k].group # NoGroup /\ rest[k].status \in Terminal
                                   => k \in mp.gs[rest[k].group].completed
      <4> HIDE DEF rest
      <4> QED BY <1>1, <1>3 DEF Counted
    <3>2. ASSUME NEW h \in DOMAIN mp.gs, NEW k \in mp.gs[h].completed
         
          PROVE  k \in new \/ (k \in DOMAIN rest /\ rest[k].group = h /\ rest[k].status \in Terminal)
      <4>1. h # NoGroup BY <1>1, PartialProps, GroupsAssumption DEF GroupTables
      <4>2. k \in old \/ (k \in DOMAIN rows /\ rows[k].group = h /\ rows[k].status \in Terminal)
        BY <1>1 DEF Counted
      <4> HIDE DEF rest
      <4> QED BY <1>3, <1>5, <4>1, <4>2
    <3>3. \A h, k \in DOMAIN mp.gs : \A j \in mp.gs[h].completed \cap mp.gs[k].completed : h = k
      BY <1>1 DEF Counted
    <3> HIDE DEF rest, new
    <3> QED BY <3>1, <3>2, <3>3 DEF Counted
  <2> HIDE DEF rest, out, new
  <2> QED BY <1>1, <1>4, <2>1, <2>2, <2>3, <2>4 DEF Fits
<1>6. CASE g # NoGroup
  <2>1. g \in DOMAIN mp.gt /\ g \in DOMAIN mp.gs BY <1>1, <1>6 DEF Indexed
  <2> DEFINE w == Withdrawn(mp.gs[g], row, rc)
  <2>2a. /\ out \in GroupTables
         /\ DOMAIN out.gt = IF last THEN DOMAIN mp.gt \ {g} ELSE DOMAIN mp.gt
         /\ \A h \in DOMAIN out.gt : out.gt[h] = IF h = g THEN mp.gt[g] \ {row.id}
                                                          ELSE mp.gt[h]
         /\ DOMAIN out.gs = IF last /\ ~preserve THEN DOMAIN mp.gs \ {g} ELSE DOMAIN mp.gs
         /\ \A h \in DOMAIN out.gs : out.gs[h] = IF h = g THEN w ELSE mp.gs[h]
    <3>1. AfterLeaving(out, mp, row, rc, preserve)
      <4> HIDE DEF row
      <4> QED BY <1>1, <1>2, <1>6, <2>1, LeaveProps
    <3> HIDE DEF row, out
    <3> QED BY <3>1 DEF AfterLeaving
  <2>2. /\ out \in GroupTables
        /\ DOMAIN out.gt = IF last THEN DOMAIN mp.gt \ {g} ELSE DOMAIN mp.gt
        /\ \A h \in DOMAIN out.gt : out.gt[h] = IF h = g THEN mp.gt[g] \ {id} ELSE mp.gt[h]
        /\ DOMAIN out.gs = IF last /\ ~preserve THEN DOMAIN mp.gs \ {g} ELSE DOMAIN mp.gs
        /\ \A h \in DOMAIN out.gs : out.gs[h] = IF h = g THEN w ELSE mp.gs[h]
    <3> row.id = id BY <1>2
    <3> HIDE DEF last, w, out, row
    <3> QED BY <2>2a
  <2>3. /\ w.completed = IF rc THEN mp.gs[g].completed \ {id} ELSE mp.gs[g].completed
        /\ DOMAIN w.bytes = IF rc \/ row.status = "InProgress" THEN DOMAIN mp.gs[g].bytes \ {id}
                                                               ELSE DOMAIN mp.gs[g].bytes
    <3>1. mp.gs[g] \in States BY <1>1, <2>1, PartialProps DEF GroupTables
    <3>2. /\ w.completed = IF rc THEN mp.gs[g].completed \ {row.id} ELSE mp.gs[g].completed
          /\ DOMAIN w.bytes = IF rc \/ row.status = "InProgress" THEN DOMAIN mp.gs[g].bytes \ {row.id}
                                                                 ELSE DOMAIN mp.gs[g].bytes
      <4>1. AfterWithdrawal(w, mp.gs[g], row, rc) BY <1>2, <3>1, WithdrawnProps
      <4> HIDE DEF w, row
      <4> QED BY <4>1 DEF AfterWithdrawal
    <3> HIDE DEF w
    <3> QED BY <1>2, <3>2
  <2> HIDE DEF out, w
  <2>4. DOMAIN out.gt \subseteq DOMAIN out.gs BY <1>1, <2>2
  <2>5. Indexed(rest, out.gt)
    <3>1. ASSUME NEW h \in DOMAIN out.gt
          PROVE  out.gt[h] # {} /\ out.gt[h] = {k \in DOMAIN rest : rest[k].group = h}
      <4>1. mp.gt[h] # {} /\ mp.gt[h] = {k \in DOMAIN rows : rows[k].group = h}
        BY <1>1, <2>2 DEF Indexed
      <4>2. {k \in DOMAIN rest : rest[k].group = h} = {k \in DOMAIN rows : rows[k].group = h} \ {id}
        <5> HIDE DEF rest
        <5> QED BY <1>3
      <4>3. CASE h = g BY <1>2, <2>2, <4>1, <4>2, <4>3
      <4>4. CASE h # g BY <2>2, <4>1, <4>2, <4>4
      <4> QED BY <4>3, <4>4
    <3>2. ASSUME NEW k \in DOMAIN rest, rest[k].group # NoGroup
          PROVE  rest[k].group \in DOMAIN out.gt
      <4>1. k \in DOMAIN rows /\ k # id /\ rest[k] = rows[k] BY <1>3
      <4>2. rows[k].group \in DOMAIN mp.gt /\ k \in mp.gt[rows[k].group]
        BY <1>1, <3>2, <4>1 DEF Indexed
      <4> HIDE DEF rest
      <4> QED BY <1>2, <2>2, <4>1, <4>2
    <3> HIDE DEF rest
    <3> QED BY <3>1, <3>2 DEF Indexed
  <2>6. Owned(rest, out.gs)
    <3> SUFFICES ASSUME NEW h \in DOMAIN out.gs, NEW k \in DOMAIN out.gs[h].bytes, k \notin out.gs[h].completed
                 PROVE  k \in DOMAIN rest /\ rest[k].group = h
      BY DEF Owned
    <3>0. h \in DOMAIN mp.gs BY <2>2
    <3>1. CASE h # g
      <4>1. k \in DOMAIN rows /\ rows[k].group = h BY <1>1, <2>2, <3>0, <3>1 DEF Owned
      <4> HIDE DEF rest
      <4> QED BY <1>3, <3>1, <4>1
    <3>2. CASE h = g
      <4>0. out.gs[h] = w BY <2>2, <3>2
      <4>1. k # id \/ row.status # "InProgress" BY <2>3, <4>0
      <4>2. k \in DOMAIN mp.gs[g].bytes BY <2>3, <4>0
      <4>3. k # id
        <5>1. CASE row.status = "InProgress" BY <4>1, <5>1
        <5>2. CASE row.status # "InProgress" /\ rc BY <2>3, <4>0, <5>2
        <5>3. CASE row.status # "InProgress" /\ ~rc
          <6>1. row.status \in Terminal BY <1>2, <5>3 DEF Rows, Statuses
          <6>2. id \in mp.gs[g].completed BY <1>1, <1>6, <6>1 DEF Counted
          <6> QED BY <2>3, <4>0, <5>3, <6>2
        <5> QED BY <5>1, <5>2, <5>3
      <4>4. k \notin mp.gs[g].completed BY <2>3, <4>0, <4>3
      <4>5. k \in DOMAIN rows /\ rows[k].group = g BY <1>1, <2>1, <4>2, <4>4 DEF Owned
      <4> HIDE DEF rest
      <4> QED BY <1>3, <3>2, <4>3, <4>5
    <3> QED BY <3>1, <3>2
  <2>7. \A h \in DOMAIN out.gs : /\ h \in DOMAIN mp.gs
                                 /\ out.gs[h].completed = IF h = g /\ rc THEN mp.gs[h].completed \ {id}
                                                                        ELSE mp.gs[h].completed
    BY <2>2, <2>3
  <2>8. Counted(rest, out.gs, new)
    <3>1. ASSUME NEW k \in DOMAIN rest, rest[k].group # NoGroup, rest[k].status \in Terminal
          PROVE  k \in out.gs[rest[k].group].completed
      <4>1. k \in DOMAIN rows /\ k # id /\ rest[k] = rows[k] BY <1>3
      <4> HIDE DEF rest
      <4>2. k \in mp.gs[rows[k].group].completed BY <1>1, <3>1, <4>1 DEF Counted
      <4>3. rows[k].group \in DOMAIN out.gs
        <5>1. rows[k].group \in DOMAIN out.gt BY <2>5, <3>1, <4>1 DEF Indexed
        <5> QED BY <2>4, <5>1
      <4> QED BY <2>7, <4>1, <4>2, <4>3
    <3>2. ASSUME NEW h \in DOMAIN out.gs, NEW k \in out.gs[h].completed
         
          PROVE  k \in new \/ (k \in DOMAIN rest /\ rest[k].group = h /\ rest[k].status \in Terminal)
      <4>1. h \in DOMAIN mp.gs /\ k \in mp.gs[h].completed /\ ~(h = g /\ rc /\ k = id)
        BY <2>7
      <4>2. k \in old \/ (k \in DOMAIN rows /\ rows[k].group = h /\ rows[k].status \in Terminal)
        BY <1>1, <4>1 DEF Counted
      <4> HIDE DEF rest
      <4> QED BY <1>3, <4>1, <4>2
    <3>3. \A h, k \in DOMAIN out.gs : \A j \in out.gs[h].completed \cap out.gs[k].completed : h = k
      <4> SUFFICES ASSUME NEW h \in DOMAIN out.gs, NEW k \in DOMAIN out.gs,
                          NEW j \in out.gs[h].completed, j \in out.gs[k].completed
                   PROVE  h = k
        OBVIOUS
      <4>1. /\ h \in DOMAIN mp.gs /\ k \in DOMAIN mp.gs
            /\ j \in mp.gs[h].completed /\ j \in mp.gs[k].completed
        BY <2>7
      <4> QED BY <1>1, <4>1 DEF Counted
    <3> HIDE DEF rest, new
    <3> QED BY <3>1, <3>2, <3>3 DEF Counted
  <2> HIDE DEF rest, new
  <2> QED BY <1>4, <2>2, <2>4, <2>5, <2>6, <2>8 DEF Fits
<1> QED BY <1>5, <1>6

\* A row put in the list through apply_task_to_group_state leaves maps that
\* describe the rows with it, if its id is neither listed nor in `old`.
LEMMA EnterFits ==
  ASSUME NEW rows, NEW mp, NEW old, Fits(rows, mp, old), NEW row \in Rows, NEW gtot \in Opt(Totals),
         row.id \notin DOMAIN rows, row.id \notin old
  PROVE  Fits(Put(rows, row.id, row), EnterGroup(mp, row, gtot), old)
<1> DEFINE g == row.group
           id == row.id
           out == EnterGroup(mp, row, gtot)
           more == Put(rows, id, row)
<1> SUFFICES Fits(more, out, old) OBVIOUS
<1>1. /\ RowsFit(rows, old) /\ mp \in GroupTables /\ DOMAIN mp.gt \subseteq DOMAIN mp.gs
      /\ Indexed(rows, mp.gt) /\ Owned(rows, mp.gs) /\ Counted(rows, mp.gs, old)
  BY DEF Fits
<1>2. /\ rows \in Partial(Ids, Rows) /\ id \in Ids
      /\ \A k \in DOMAIN rows : rows[k].id = k
      /\ old \subseteq Ids /\ old \cap DOMAIN rows = {}
      /\ g \in Groups \cup {NoGroup} /\ row.status \in Statuses
  BY <1>1 DEF RowsFit, Rows
<1>3. /\ DOMAIN more = DOMAIN rows \cup {id} /\ more[id] = row
      /\ \A k \in DOMAIN rows : more[k] = rows[k]
  BY DEF Put
<1>4. RowsFit(more, old)
  <2>1. more \in Partial(Ids, Rows) BY <1>2, PutType
  <2>2. old \cap DOMAIN more = {} BY <1>2, <1>3
  <2> HIDE DEF more
  <2> QED BY <1>2, <1>3, <2>1, <2>2 DEF RowsFit
<1> HIDE DEF more, out
<1>5. CASE g = NoGroup
  <2>1. out = mp BY <1>5 DEF EnterGroup, Grouped, out
  <2>2. Indexed(more, mp.gt)
    <3>1. ASSUME NEW h \in DOMAIN mp.gt
          PROVE  mp.gt[h] # {} /\ mp.gt[h] = {k \in DOMAIN more : more[k].group = h}
      <4>1. h # NoGroup BY <1>1, PartialProps, GroupsAssumption DEF GroupTables
      <4>2. mp.gt[h] # {} /\ mp.gt[h] = {k \in DOMAIN rows : rows[k].group = h}
        BY <1>1 DEF Indexed
      <4> QED BY <1>3, <1>5, <4>1, <4>2
    <3> QED BY <1>1, <1>3, <1>5, <3>1 DEF Indexed
  <2>3. Owned(more, mp.gs) BY <1>1, <1>3 DEF Owned
  <2>4. Counted(more, mp.gs, old)
    <3>1. \A k \in DOMAIN more : more[k].group # NoGroup /\ more[k].status \in Terminal
                                   => k \in mp.gs[more[k].group].completed
      BY <1>1, <1>3, <1>5 DEF Counted
    <3>2. \A h \in DOMAIN mp.gs : \A k \in mp.gs[h].completed :
             k \in old \/ (k \in DOMAIN more /\ more[k].group = h /\ more[k].status \in Terminal)
      BY <1>1, <1>3 DEF Counted
    <3>3. \A h, k \in DOMAIN mp.gs : \A j \in mp.gs[h].completed \cap mp.gs[k].completed : h = k
      BY <1>1 DEF Counted
    <3> QED BY <3>1, <3>2, <3>3 DEF Counted
  <2> QED BY <1>1, <1>4, <2>1, <2>2, <2>3, <2>4 DEF Fits
<1>6. CASE g # NoGroup
  <2> DEFINE was == IF g \in DOMAIN mp.gs THEN mp.gs[g] ELSE EmptyGroup
  <2>1. /\ out \in GroupTables
        /\ DOMAIN out.gt = DOMAIN mp.gt \cup {g}
        /\ out.gt[g] = (IF g \in DOMAIN mp.gt THEN mp.gt[g] ELSE {}) \cup {id}
        /\ \A h \in DOMAIN mp.gt : h # g => out.gt[h] = mp.gt[h]
        /\ DOMAIN out.gs = DOMAIN mp.gs \cup {g}
        /\ \A h \in DOMAIN mp.gs : h # g => out.gs[h] = mp.gs[h]
        /\ out.gs[g].completed = IF row.status \in Terminal THEN was.completed \cup {id}
                                                           ELSE was.completed
        /\ DOMAIN out.gs[g].bytes \subseteq DOMAIN was.bytes \cup {id}
    <3>1. AfterEntering(out, mp, row) BY <1>1, <1>6, EnterProps DEF out
    <3> QED BY <3>1 DEF AfterEntering
  <2>2. /\ was.completed = IF g \in DOMAIN mp.gs THEN mp.gs[g].completed ELSE {}
        /\ DOMAIN was.bytes = IF g \in DOMAIN mp.gs THEN DOMAIN mp.gs[g].bytes ELSE {}
    BY EmptyFcn DEF EmptyGroup
  <2> HIDE DEF was
  <2>3. DOMAIN out.gt \subseteq DOMAIN out.gs BY <1>1, <2>1
  <2>4. Indexed(more, out.gt)
    <3>1. ASSUME NEW h \in DOMAIN out.gt
          PROVE  out.gt[h] # {} /\ out.gt[h] = {k \in DOMAIN more : more[k].group = h}
      <4>1. CASE h # g
        <5>1. h \in DOMAIN mp.gt BY <2>1, <4>1
        <5>2. mp.gt[h] # {} /\ mp.gt[h] = {k \in DOMAIN rows : rows[k].group = h}
          BY <1>1, <5>1 DEF Indexed
        <5> QED BY <1>3, <2>1, <4>1, <5>1, <5>2
      <4>2. CASE h = g
        <5>1. (IF g \in DOMAIN mp.gt THEN mp.gt[g]
                                     ELSE {}) = {k \in DOMAIN rows : rows[k].group = g}
          BY <1>1, <1>6 DEF Indexed
        <5> QED BY <1>3, <2>1, <4>2, <5>1
      <4> QED BY <4>1, <4>2
    <3>2. \A k \in DOMAIN more : more[k].group # NoGroup => more[k].group \in DOMAIN out.gt
      BY <1>1, <1>3, <2>1 DEF Indexed
    <3> QED BY <3>1, <3>2 DEF Indexed
  <2>5. ASSUME NEW h \in DOMAIN out.gs, NEW k \in out.gs[h].completed
        PROVE  \/ h \in DOMAIN mp.gs /\ k \in mp.gs[h].completed
               \/ h = g /\ k = id /\ row.status \in Terminal
    <3>1. CASE h # g BY <2>1, <3>1
    <3>2. CASE h = g BY <2>1, <2>2, <3>2
    <3> QED BY <3>1, <3>2
  <2>6. ASSUME NEW h \in DOMAIN mp.gs, NEW k \in mp.gs[h].completed
        PROVE  h \in DOMAIN out.gs /\ k \in out.gs[h].completed /\ k # id
    <3>1. h \in DOMAIN out.gs /\ k \in out.gs[h].completed
      <4>1. CASE h # g BY <2>1, <4>1
      <4>2. CASE h = g BY <2>1, <2>2, <4>2
      <4> QED BY <4>1, <4>2
    <3>2. k # id BY <1>1 DEF Counted
    <3> QED BY <3>1, <3>2
  <2>7. Owned(more, out.gs)
    <3> SUFFICES ASSUME NEW h \in DOMAIN out.gs, NEW k \in DOMAIN out.gs[h].bytes, k \notin out.gs[h].completed
                 PROVE  k \in DOMAIN more /\ more[k].group = h
      BY DEF Owned
    <3>1. \/ h \in DOMAIN mp.gs /\ k \in DOMAIN mp.gs[h].bytes
          \/ h = g /\ k = id
      <4>1. CASE h # g BY <2>1, <4>1
      <4>2. CASE h = g BY <2>1, <2>2, <4>2
      <4> QED BY <4>1, <4>2
    <3>2. CASE h = g /\ k = id BY <1>3, <3>2
    <3>3. CASE h \in DOMAIN mp.gs /\ k \in DOMAIN mp.gs[h].bytes
      <4>1. k \notin mp.gs[h].completed BY <2>6, <3>3
      <4>2. k \in DOMAIN rows /\ rows[k].group = h BY <1>1, <3>3, <4>1 DEF Owned
      <4> QED BY <1>3, <4>2
    <3> QED BY <3>1, <3>2, <3>3
  <2>8. Counted(more, out.gs, old)
    <3>1. ASSUME NEW k \in DOMAIN more, more[k].group # NoGroup, more[k].status \in Terminal
          PROVE  k \in out.gs[more[k].group].completed
      <4>1. CASE k = id BY <1>3, <2>1, <3>1, <4>1
      <4>2. CASE k # id
        <5>1. k \in DOMAIN rows /\ more[k] = rows[k] BY <1>3, <4>2
        <5>2. k \in mp.gs[rows[k].group].completed BY <1>1, <3>1, <5>1 DEF Counted
        <5>3. rows[k].group \in DOMAIN mp.gs BY <1>1, <3>1, <5>1 DEF Indexed
        <5> QED BY <2>6, <5>1, <5>2, <5>3
      <4> QED BY <4>1, <4>2
    <3>2. ASSUME NEW h \in DOMAIN out.gs, NEW k \in out.gs[h].completed
         
          PROVE  k \in old \/ (k \in DOMAIN more /\ more[k].group = h /\ more[k].status \in Terminal)
      <4>1. CASE h = g /\ k = id /\ row.status \in Terminal BY <1>3, <4>1
      <4>2. CASE h \in DOMAIN mp.gs /\ k \in mp.gs[h].completed
        <5>1. k \in old \/ (k \in DOMAIN rows /\ rows[k].group = h /\ rows[k].status \in Terminal)
          BY <1>1, <4>2 DEF Counted
        <5> QED BY <1>3, <5>1
      <4> QED BY <2>5, <4>1, <4>2
    <3>3. ASSUME NEW h \in DOMAIN out.gs, NEW k \in DOMAIN out.gs,
                 NEW j \in out.gs[h].completed, j \in out.gs[k].completed
          PROVE  h = k
      <4>1. CASE j = id
        <5>1. h = g BY <2>5, <2>6, <4>1
        <5>2. k = g BY <2>5, <2>6, <3>3, <4>1
        <5> QED BY <5>1, <5>2
      <4>2. CASE j # id
        <5>1. h \in DOMAIN mp.gs /\ j \in mp.gs[h].completed BY <2>5, <4>2
        <5>2. k \in DOMAIN mp.gs /\ j \in mp.gs[k].completed BY <2>5, <3>3, <4>2
        <5> QED BY <1>1, <5>1, <5>2 DEF Counted
      <4> QED BY <4>1, <4>2
    <3> QED BY <3>1, <3>2, <3>3 DEF Counted
  <2> QED BY <1>4, <2>1, <2>3, <2>4, <2>7, <2>8 DEF Fits
<1> QED BY <1>2, <1>5, <1>6

\* Forgetting all groups with the last row keeps the maps in step.
LEMMA ClearedFits ==
  ASSUME NEW rows, NEW mp, NEW old, Fits(rows, mp, old)
  PROVE  Fits(rows, ClearedWhenLast(DOMAIN rows, mp), old)
<1>1. CASE DOMAIN rows # {} BY <1>1 DEF ClearedWhenLast
<1>2. CASE DOMAIN rows = {}
  <2> DEFINE none == Maps(<<>>, <<>>)
  <2>1. <<>> \in Partial(Groups, IdSets) /\ <<>> \in Partial(Groups, States) /\ DOMAIN <<>> = {}
    BY EmptyFcn
  <2>2. none.gt = <<>> /\ none.gs = <<>> /\ none \in GroupTables
    BY <2>1 DEF Maps, GroupTables
  <2>3. DOMAIN none.gt = {} /\ DOMAIN none.gs = {} BY <2>1, <2>2
  <2>4. ClearedWhenLast(DOMAIN rows, mp) = none BY <1>2 DEF ClearedWhenLast
  <2> HIDE DEF none
  <2>5. Indexed(rows, none.gt) BY <1>2, <2>3 DEF Indexed
  <2>6. Owned(rows, none.gs) BY <1>2, <2>3 DEF Owned
  <2>7. Counted(rows, none.gs, old) BY <1>2, <2>3 DEF Counted
  <2> QED BY <2>2, <2>3, <2>4, <2>5, <2>6, <2>7 DEF Fits
<1> QED BY <1>1, <1>2

-----------------------------------------------------------------------------
(***************************************************************************)
(* The order.                                                              *)
(***************************************************************************)
Listed(s) == {s[i] : i \in DOMAIN s}
Distinct(s) == \A i, j \in DOMAIN s : s[i] = s[j] => i = j

\* The elements of a finite set of numbers are numbered 1, 2, ... by how many of
\* the set are no greater: the places that order.retain gives the ids it keeps.
LEMMA RankBijection ==
  ASSUME NEW K, K \subseteq Nat, IsFiniteSet(K)
  PROVE  LET rank(i) == Cardinality({j \in K : j <= i}) IN
         /\ Cardinality(K) \in Nat
         /\ \A i \in K : rank(i) \in 1..Cardinality(K)
         /\ \A i, j \in K : i < j => rank(i) < rank(j)
         /\ \A n \in 1..Cardinality(K) : \E i \in K : rank(i) = n
<1> DEFINE Upto(i) == {j \in K : j <= i}
           rank(i) == Cardinality(Upto(i))
<1>1. Cardinality(K) \in Nat BY FS_CardinalityType
<1>2. ASSUME NEW i \in K
      PROVE  IsFiniteSet(Upto(i)) /\ rank(i) \in Nat /\ rank(i) <= Cardinality(K) /\ rank(i) # 0
  <2>1. Upto(i) \in SUBSET K OBVIOUS
  <2>2. IsFiniteSet(Upto(i)) /\ rank(i) <= Cardinality(K) BY <2>1, FS_Subset
  <2>3. rank(i) \in Nat BY <2>2, FS_CardinalityType
  <2>4. i \in Upto(i) OBVIOUS
  <2>5. rank(i) # 0 BY <2>2, <2>4, FS_EmptySet
  <2> QED BY <2>2, <2>3, <2>5
<1>3. ASSUME NEW i \in K, NEW j \in K, i < j PROVE rank(i) < rank(j)
  <2>1. Upto(i) \in SUBSET Upto(j)
    <3> SUFFICES ASSUME NEW k \in K, k <= i PROVE k <= j OBVIOUS
    <3>1. i \in Nat /\ j \in Nat /\ k \in Nat OBVIOUS
    <3> QED BY <1>3, <3>1
  <2>2. j \in Upto(j) /\ j \notin Upto(i) BY <1>3
  <2>3. rank(i) <= rank(j) /\ rank(i) # rank(j) BY <1>2, <2>1, <2>2, FS_Subset
  <2>4. rank(i) \in Nat /\ rank(j) \in Nat BY <1>2
  <2> HIDE DEF rank
  <2> QED BY <2>3, <2>4
<1>4. ASSUME NEW n \in 1..Cardinality(K), \A i \in K : rank(i) # n PROVE FALSE
  <2> DEFINE T == (1..Cardinality(K)) \ {n}
             f == [i \in K |-> rank(i)]
  <2>1. IsFiniteSet(1..Cardinality(K)) /\ Cardinality(1..Cardinality(K)) = Cardinality(K)
    BY <1>1, FS_Interval
  <2>2. IsFiniteSet(T) /\ Cardinality(T) = Cardinality(K) - 1 BY <2>1, FS_RemoveElement
  <2>3. f \in [K -> T]
    <3>1. \A i \in K : rank(i) \in T
      <4> SUFFICES ASSUME NEW i \in K PROVE rank(i) \in T OBVIOUS
      <4>1. rank(i) \in Nat /\ rank(i) <= Cardinality(K) /\ rank(i) # 0 /\ rank(i) # n
        BY <1>2, <1>4
      <4> HIDE DEF rank
      <4> QED BY <1>1, <4>1
    <3> HIDE DEF rank, T
    <3> QED BY <3>1
  <2>4. Cardinality(T) < Cardinality(K) BY <1>1, <2>2
  <2>5. PICK x \in K, y \in K : x # y /\ f[x] = f[y]
    <3> HIDE DEF T, f
    <3> QED BY <2>2, <2>3, <2>4, FS_PigeonHole
  <2>6. x < y \/ y < x BY <2>5
  <2>7. rank(x) # rank(y)
    <3>1. rank(x) \in Nat /\ rank(y) \in Nat BY <1>2
    <3> HIDE DEF rank
    <3> QED BY <1>3, <2>6, <3>1
  <2> QED BY <2>5, <2>7
<1>5. \A i \in K : rank(i) \in 1..Cardinality(K)
  <2> SUFFICES ASSUME NEW i \in K PROVE rank(i) \in 1..Cardinality(K) OBVIOUS
  <2>1. rank(i) \in Nat /\ rank(i) <= Cardinality(K) /\ rank(i) # 0 BY <1>2
  <2> HIDE DEF rank
  <2> QED BY <1>1, <2>1
<1> HIDE DEF rank
<1>6. \A n \in 1..Cardinality(K) : \E i \in K : rank(i) = n BY <1>4
<1> QED BY <1>1, <1>3, <1>5, <1>6 DEF rank

\* order.retain keeps the ids not removed, each as often as it was listed.
LEMMA UnlistedProps ==
  ASSUME order \in Seq(Ids), NEW ids
  PROVE  /\ Unlisted(ids) \in Seq(Ids)
         /\ Listed(Unlisted(ids)) = Listed(order) \ ids
         /\ Distinct(order) => Distinct(Unlisted(ids))
<1> DEFINE K == {i \in DOMAIN order : order[i] \notin ids}
           rank(i) == Cardinality({j \in K : j <= i})
           nth(n) == CHOOSE i \in K : rank(i) = n
           u == [n \in 1..Cardinality(K) |-> order[nth(n)]]
<1>1. Unlisted(ids) = u BY DEF Unlisted
<1>2. /\ Len(order) \in Nat /\ DOMAIN order = 1..Len(order)
      /\ \A i \in DOMAIN order : order[i] \in Ids
  BY LenProperties, ElementOfSeq
<1>3. IsFiniteSet(K) /\ K \subseteq Nat
  <2>1. IsFiniteSet(1..Len(order)) BY <1>2, FS_Interval
  <2>2. K \in SUBSET (1..Len(order)) BY <1>2
  <2> QED BY <1>2, <2>1, <2>2, FS_Subset
<1>4. /\ Cardinality(K) \in Nat
      /\ \A i \in K : rank(i) \in 1..Cardinality(K)
      /\ \A i, j \in K : i < j => rank(i) < rank(j)
      /\ \A n \in 1..Cardinality(K) : \E i \in K : rank(i) = n
  <2> HIDE DEF K
  <2> QED BY <1>3, RankBijection
<1>5. \A n \in 1..Cardinality(K) : nth(n) \in K /\ rank(nth(n)) = n
  <2> HIDE DEF rank, K
  <2> QED BY <1>4
<1>6. \A i \in K : nth(rank(i)) = i
  <2> HIDE DEF rank, nth
  <2> SUFFICES ASSUME NEW i \in K PROVE nth(rank(i)) = i OBVIOUS
  <2>1. nth(rank(i)) \in K /\ rank(nth(rank(i))) = rank(i) BY <1>4, <1>5
  <2>2. ~(nth(rank(i)) < i) /\ ~(i < nth(rank(i))) 
    <3>1. rank(i) \in Nat BY <1>4
    <3> HIDE DEF K
    <3> QED BY <1>4, <2>1, <3>1
  <2> QED BY <1>2, <2>1, <2>2
<1> HIDE DEF rank, nth
<1>7. u \in Seq(Ids)
  <2>1. u \in [1..Cardinality(K) -> Ids] BY <1>2, <1>5
  <2> HIDE DEF u, K
  <2> QED BY <1>4, <2>1, SeqDef
<1>8. DOMAIN u = 1..Cardinality(K) OBVIOUS
<1>9. Listed(u) = Listed(order) \ ids
  <2>1. ASSUME NEW n \in DOMAIN u PROVE u[n] \in Listed(order) \ ids BY <1>5 DEF Listed
  <2>2. ASSUME NEW i \in DOMAIN order, order[i] \notin ids PROVE order[i] \in Listed(u)
    <3>1. i \in K BY <2>2
    <3>2. rank(i) \in DOMAIN u /\ u[rank(i)] = order[i] BY <1>4, <1>6, <3>1
    <3> QED BY <3>2 DEF Listed
  <2> HIDE DEF u
  <2> QED BY <2>1, <2>2 DEF Listed
<1>10. ASSUME Distinct(order) PROVE Distinct(u)
  <2> SUFFICES ASSUME NEW m \in DOMAIN u, NEW n \in DOMAIN u, u[m] = u[n] PROVE m = n
    BY DEF Distinct
  <2>1. nth(m) \in DOMAIN order /\ nth(n) \in DOMAIN order /\ order[nth(m)] = order[nth(n)]
    BY <1>5
  <2>2. nth(m) = nth(n) BY <1>10, <2>1 DEF Distinct
  <2> QED BY <1>5, <2>2
<1> HIDE DEF u
<1> QED BY <1>1, <1>7, <1>9, <1>10

-----------------------------------------------------------------------------
(***************************************************************************)
(* The inductive invariant of the list.  Beyond IndexExact and TotalsTrue  *)
(* it says whom the totals of a group may count: a row of that group that  *)
(* ended, or an id no longer used.  Without that a new row could be        *)
(* counted as done before it ended.                                        *)
(***************************************************************************)
ListInv ==
    /\ Fits(tasks, Maps(groupTasks, groups), retired)
    /\ order \in Seq(Ids) /\ Listed(order) = DOMAIN tasks /\ Distinct(order)
    /\ DOMAIN tasks = {} => DOMAIN groups = {}

\* The two maps are all there is to a pair of maps.
LEMMA TablesProps ==
  ASSUME NEW mp \in GroupTables
  PROVE  Maps(mp.gt, mp.gs) = mp
BY DEF Maps, GroupTables

\* What was shown of the rows and maps computed holds once they are stored.
LEMMA StoreFits ==
  ASSUME NEW rows, NEW mp, Fits(rows, mp, retired'), Store(rows, mp)
  PROVE  Fits(tasks', Maps(groupTasks', groups'), retired')
<1>1. Maps(mp.gt, mp.gs) = mp BY TablesProps DEF Fits
<1> QED BY <1>1 DEF Store

\* An empty list is in step.
LEMMA ListInit == Init => ListInv
<1> SUFFICES ASSUME Init PROVE ListInv OBVIOUS
<1> DEFINE none == Maps(<<>>, <<>>)
<1>1. /\ tasks = <<>> /\ order = <<>> /\ groups = <<>> /\ groupTasks = <<>> /\ retired = {}
  BY DEF Init
<1>2. /\ <<>> \in Partial(Groups, IdSets) /\ <<>> \in Partial(Groups, States)
      /\ <<>> \in Partial(Ids, Rows) /\ DOMAIN <<>> = {}
  BY EmptyFcn
<1>3. none.gt = <<>> /\ none.gs = <<>> /\ none \in GroupTables BY <1>2 DEF Maps, GroupTables
<1> HIDE DEF none
<1>4. RowsFit(<<>>, {}) BY <1>2 DEF RowsFit
<1>5. Indexed(<<>>, none.gt) /\ Owned(<<>>, none.gs) /\ Counted(<<>>, none.gs, {})
  BY <1>2, <1>3 DEF Indexed, Owned, Counted
<1>6. Fits(<<>>, none, {}) BY <1>2, <1>3, <1>4, <1>5 DEF Fits
<1>7. <<>> \in Seq(Ids) /\ Listed(<<>>) = {} /\ Distinct(<<>>)
  BY <1>2, EmptySeq DEF Listed, Distinct
<1> QED BY <1>1, <1>2, <1>6, <1>7 DEF ListInv, none

\* What is known of the list's parts.
LEMMA ListParts ==
  ASSUME ListInv
  PROVE  /\ Fits(tasks, Maps(groupTasks, groups), retired)
         /\ tasks \in Partial(Ids, Rows) /\ DOMAIN tasks \subseteq Ids
         /\ \A id \in DOMAIN tasks : tasks[id] \in Rows /\ tasks[id].id = id
         /\ retired \subseteq Ids /\ retired \cap DOMAIN tasks = {}
         /\ groupTasks \in Partial(Groups, IdSets) /\ groups \in Partial(Groups, States)
         /\ DOMAIN groupTasks \subseteq DOMAIN groups
         /\ Indexed(tasks, groupTasks) /\ Owned(tasks, groups) /\ Counted(tasks, groups, retired)
<1> DEFINE mp == Maps(groupTasks, groups)
<1>1. mp.gt = groupTasks /\ mp.gs = groups BY DEF Maps
<1> HIDE DEF mp
<1>2. Fits(tasks, mp, retired) BY DEF ListInv, mp
<1>3. RowsFit(tasks, retired) /\ mp \in GroupTables BY <1>2 DEF Fits
<1>4. tasks \in Partial(Ids, Rows) BY <1>3 DEF RowsFit
<1>5. DOMAIN tasks \subseteq Ids /\ \A id \in DOMAIN tasks : tasks[id] \in Rows
  BY <1>4, PartialProps
<1>6. groupTasks \in Partial(Groups, IdSets) /\ groups \in Partial(Groups, States)
  BY <1>1, <1>3 DEF GroupTables
<1> QED BY <1>1, <1>2, <1>3, <1>4, <1>5, <1>6 DEF Fits, RowsFit, mp

\* upsert keeps the list in step, whether the id is new, stays in its group or
\* moves to another; it sets one row and leaves every other row alone.
LEMMA UpsertStep ==
  ASSUME ListInv, NEW r \in Reports, Upsert(r)
  PROVE  /\ ListInv'
         /\ DOMAIN tasks' = DOMAIN tasks \cup {r.id}
         /\ tasks'[r.id].status = r.status /\ tasks'[r.id].group = r.group
         /\ \A id \in DOMAIN tasks : id # r.id => tasks'[id] = tasks[id]
<1> DEFINE mp == Maps(groupTasks, groups)
<1>0. /\ r.id \in Ids /\ r.group \in Groups \cup {NoGroup} /\ r.groupTotal \in Opt(Totals)
      /\ r.status \in Statuses /\ r.done \in Opt(Totals) /\ r.total \in Opt(Totals)
  BY DEF Reports
<1>1. CASE Replace(r)
  <2> DEFINE row == Carry(r)
             old == tasks[r.id]
             same == old.group = r.group
             rest == Without(tasks, r.id)
             out == EnterGroup(Vacated(r), row, r.groupTotal)
  <2>1. /\ r.id \in DOMAIN tasks /\ Store(Put(tasks, r.id, row), out)
        /\ order' = order /\ retired' = retired
    BY <1>1 DEF Replace
  <2>2. old \in Rows /\ old.done \in Opt(Totals) /\ old.total \in Opt(Totals)
    BY <2>1, ListParts DEF Rows
  <2>3. row \in Rows /\ row.id = r.id /\ row.group = r.group /\ row.status = r.status
    <3> HIDE DEF old
    <3>1. /\ (IF same /\ r.done = {} THEN old.done ELSE r.done) \in Opt(Totals)
          /\ (IF same /\ r.total = {} THEN old.total ELSE r.total) \in Opt(Totals)
      BY <1>0, <2>2
    <3> QED BY <1>0, <3>1 DEF Carry, Rows, old
  <2>4. Vacated(r) = LeaveGroup(mp, old, TRUE, same) BY DEF Vacated
  <2>5. same \in BOOLEAN OBVIOUS
  <2>6. Fits(tasks, mp, retired) BY DEF ListInv
  <2>7. Fits(rest, Vacated(r), retired)
    <3>1. Fits(rest, LeaveGroup(mp, old, TRUE, same), IF TRUE THEN retired
                                                              ELSE retired \cup {r.id})
      <4> HIDE DEF mp, same
      <4> QED BY <2>1, <2>5, <2>6, LeaveFits
    <3> QED BY <2>4, <3>1
  <2>8. r.id \notin DOMAIN rest /\ r.id \notin retired
    BY <2>1, ListParts DEF Without
  <2>9. Fits(Put(rest, r.id, row), out, retired)
    <3> HIDE DEF row, rest
    <3> QED BY <1>0, <2>3, <2>7, <2>8, EnterFits DEF out
  <2>10. Put(rest, r.id, row) = Put(tasks, r.id, row)
    <3> HIDE DEF row
    <3>1. DOMAIN rest = DOMAIN tasks \ {r.id} /\ \A k \in DOMAIN rest : rest[k] = tasks[k]
      BY DEF Without
    <3>2. DOMAIN rest \cup {r.id} = DOMAIN tasks \cup {r.id} BY <3>1
    <3> HIDE DEF rest
    <3> QED BY <3>1, <3>2 DEF Put
  <2> HIDE DEF row, out, rest
  <2>11. Fits(tasks', Maps(groupTasks', groups'), retired') BY <2>1, <2>9, <2>10, StoreFits
  <2>12. tasks' = Put(tasks, r.id, row) BY <2>1 DEF Store
  <2>13. /\ DOMAIN tasks' = DOMAIN tasks \cup {r.id} /\ tasks'[r.id] = row
         /\ \A id \in DOMAIN tasks : id # r.id => tasks'[id] = tasks[id]
    BY <2>12 DEF Put
  <2>14. ListInv'
    <3>1. DOMAIN tasks' = DOMAIN tasks BY <2>1, <2>13
    <3> QED BY <2>1, <2>11, <2>13, <3>1 DEF ListInv, Listed, Distinct
  <2> QED BY <2>3, <2>13, <2>14
<1>2. CASE Insert(r)
  <2> DEFINE row == [id |-> r.id, group |-> r.group, status |-> r.status,
                     done |-> r.done, total |-> r.total]
             out == EnterGroup(mp, row, r.groupTotal)
  <2>1. /\ r.id \notin DOMAIN tasks /\ r.id \notin retired
        /\ Store(Put(tasks, r.id, row), out)
        /\ order' = Append(order, r.id) /\ retired' = retired
    BY <1>2 DEF Insert
  <2>2. row \in Rows /\ row.id = r.id /\ row.group = r.group /\ row.status = r.status
    BY <1>0 DEF Rows
  <2>3. Fits(tasks, mp, retired) BY DEF ListInv
  <2> HIDE DEF row
  <2>4. Fits(Put(tasks, r.id, row), out, retired)
    <3> HIDE DEF mp
    <3> QED BY <1>0, <2>1, <2>2, <2>3, EnterFits
  <2> HIDE DEF out
  <2>5. Fits(tasks', Maps(groupTasks', groups'), retired') BY <2>1, <2>4, StoreFits
  <2>6. tasks' = Put(tasks, r.id, row) BY <2>1 DEF Store
  <2>7. /\ DOMAIN tasks' = DOMAIN tasks \cup {r.id} /\ tasks'[r.id] = row
        /\ \A id \in DOMAIN tasks : id # r.id => tasks'[id] = tasks[id]
    BY <2>6 DEF Put
  <2>8. /\ order \in Seq(Ids) /\ Listed(order) = DOMAIN tasks /\ Distinct(order)
    BY DEF ListInv
  <2>9. order' \in Seq(Ids) BY <1>0, <2>1, <2>8, AppendProperties
  <2>10. /\ DOMAIN order' = DOMAIN order \cup {Len(order) + 1} /\ Len(order) + 1 \notin DOMAIN order
         /\ order'[Len(order) + 1] = r.id
         /\ \A i \in DOMAIN order : order'[i] = order[i]
    BY <1>0, <2>1, <2>8, AppendProperties, LenProperties
  <2>11. Listed(order') = DOMAIN tasks' BY <2>7, <2>8, <2>10 DEF Listed
  <2>12. \A i \in DOMAIN order : order[i] # r.id BY <2>1, <2>8 DEF Listed
  <2>13. Distinct(order') BY <2>8, <2>10, <2>12 DEF Distinct
  <2>14. DOMAIN tasks' # {} BY <2>7
  <2> QED BY <2>2, <2>5, <2>7, <2>9, <2>11, <2>13, <2>14 DEF ListInv, Listed, Distinct
<1> QED BY <1>1, <1>2 DEF Upsert

\* remove keeps the list in step and takes out one row.
LEMMA RemoveStep ==
  ASSUME ListInv, NEW id, Remove(id)
  PROVE  /\ ListInv'
         /\ DOMAIN tasks' = DOMAIN tasks \ {id}
         /\ \A k \in DOMAIN tasks' : tasks'[k] = tasks[k]
<1> DEFINE mp == Maps(groupTasks, groups)
           row == tasks[id]
           preserve == row.status # "InProgress"
           rest == Without(tasks, id)
           out == ClearedWhenLast(DOMAIN tasks \ {id}, Dismissed(id))
<1>1. /\ id \in DOMAIN tasks /\ Store(rest, out)
      /\ order' = Unlisted({id}) /\ retired' = retired \cup {id}
  BY DEF Remove
<1>2. Fits(tasks, mp, retired) BY DEF ListInv
<1>3. Dismissed(id) = LeaveGroup(mp, row, FALSE, preserve) BY DEF Dismissed
<1>4. preserve \in BOOLEAN OBVIOUS
<1>5. Fits(rest, Dismissed(id), retired \cup {id})
  <2>1. Fits(rest, LeaveGroup(mp, tasks[id], FALSE, preserve), IF FALSE THEN retired
                                                                        ELSE retired \cup {id})
    <3> HIDE DEF mp, preserve
    <3> QED BY <1>1, <1>2, <1>4, LeaveFits
  <2> QED BY <1>3, <2>1
<1>6. /\ DOMAIN rest = DOMAIN tasks \ {id} /\ \A k \in DOMAIN rest : rest[k] = tasks[k]
  BY DEF Without
<1> HIDE DEF rest
<1>7. Fits(rest, out, retired')
  <2>1. Fits(rest, ClearedWhenLast(DOMAIN rest, Dismissed(id)), retired \cup {id})
    BY <1>5, ClearedFits
  <2> QED BY <1>1, <1>6, <2>1
<1> HIDE DEF out
<1>8. Fits(tasks', Maps(groupTasks', groups'), retired') BY <1>1, <1>7, StoreFits
<1>9. tasks' = rest /\ groups' = out.gs BY <1>1 DEF Store
<1>10. order \in Seq(Ids) /\ Listed(order) = DOMAIN tasks /\ Distinct(order) BY DEF ListInv
<1>11. order' \in Seq(Ids) /\ Listed(order') = DOMAIN tasks' /\ Distinct(order')
  BY <1>1, <1>6, <1>9, <1>10, UnlistedProps
<1>12. DOMAIN tasks' = {} => DOMAIN groups' = {}
  <2> SUFFICES ASSUME DOMAIN tasks' = {} PROVE DOMAIN out.gs = {} BY <1>9
  <2>1. out = Maps(<<>>, <<>>) BY <1>6, <1>9 DEF out, ClearedWhenLast
  <2>2. out.gs = <<>> BY <2>1 DEF Maps
  <2> QED BY <2>2, EmptyFcn
<1>13. ListInv' BY <1>8, <1>11, <1>12 DEF ListInv, Listed, Distinct
<1> QED BY <1>6, <1>9, <1>13

\* remove_group and remove_groups_with_prefix keep the list in step and take out
\* the rows of those groups only.
LEMMA RemoveGroupsStep ==
  ASSUME ListInv, NEW G \in SUBSET Groups, RemoveGroups(G)
  PROVE  /\ ListInv'
         /\ DOMAIN tasks' = {id \in DOMAIN tasks : tasks[id].group \notin G}
         /\ \A k \in DOMAIN tasks' : tasks'[k] = tasks[k]
<1> DEFINE ids == UNION {groupTasks[g] : g \in G \cap DOMAIN groupTasks}
           left == DOMAIN tasks \ ids
           gt == [g \in DOMAIN groupTasks \ G |-> groupTasks[g]]
           gs == TotalsWithout(G)
           mp == Maps(gt, gs)
           rest == [id \in left |-> tasks[id]]
           out == IF ids = {} THEN mp ELSE ClearedWhenLast(left, mp)
<1>1. Store(rest, out) /\ order' = Unlisted(ids) /\ retired' = retired \cup ids
  BY DEF RemoveGroups
<1>2. /\ tasks \in Partial(Ids, Rows) /\ DOMAIN tasks \subseteq Ids
      /\ \A id \in DOMAIN tasks : tasks[id] \in Rows /\ tasks[id].id = id
      /\ retired \subseteq Ids /\ retired \cap DOMAIN tasks = {}
      /\ groupTasks \in Partial(Groups, IdSets) /\ groups \in Partial(Groups, States)
      /\ DOMAIN groupTasks \subseteq DOMAIN groups
      /\ Indexed(tasks, groupTasks) /\ Owned(tasks, groups) /\ Counted(tasks, groups, retired)
  BY ListParts
<1>3. /\ \A g \in DOMAIN groupTasks : groupTasks[g] # {} /\ groupTasks[g] = {id \in DOMAIN tasks : tasks[id].group = g}
      /\ \A id \in DOMAIN tasks : tasks[id].group # NoGroup => tasks[id].group \in DOMAIN groupTasks
  BY <1>2 DEF Indexed
<1>4. ids = {id \in DOMAIN tasks : tasks[id].group \in G}
  <2>1. ASSUME NEW id \in ids PROVE id \in DOMAIN tasks /\ tasks[id].group \in G BY <1>3
  <2>2. ASSUME NEW id \in DOMAIN tasks, tasks[id].group \in G PROVE id \in ids
    <3>1. tasks[id].group # NoGroup BY <2>2, GroupsAssumption
    <3>2. tasks[id].group \in G \cap DOMAIN groupTasks /\ id \in groupTasks[tasks[id].group]
      BY <1>3, <2>2, <3>1
    <3> QED BY <3>2
  <2> HIDE DEF ids
  <2> QED BY <2>1, <2>2
<1> HIDE DEF ids
<1>5. /\ DOMAIN rest = left /\ \A k \in DOMAIN rest : rest[k] = tasks[k] OBVIOUS
<1>6. /\ DOMAIN gt = DOMAIN groupTasks \ G /\ \A g \in DOMAIN gt : gt[g] = groupTasks[g]
      /\ DOMAIN gs = DOMAIN groups \ G /\ \A g \in DOMAIN gs : gs[g] = groups[g]
  BY DEF TotalsWithout
<1>7. left \subseteq DOMAIN tasks /\ \A id \in DOMAIN tasks : id \in left <=> tasks[id].group \notin G
  BY <1>4
<1>8. mp.gt = gt /\ mp.gs = gs BY DEF Maps
<1>9. mp \in GroupTables
  <2>1. gt \in Partial(Groups, IdSets)
    <3>1. PICK D \in SUBSET Groups : groupTasks \in [D -> IdSets] BY <1>2 DEF Partial
    <3>2. gt \in [D \ G -> IdSets] BY <3>1
    <3>3. D \ G \in SUBSET Groups OBVIOUS
    <3> QED BY <3>2, <3>3 DEF Partial
  <2>2. gs \in Partial(Groups, States)
    <3>1. PICK D \in SUBSET Groups : groups \in [D -> States] BY <1>2 DEF Partial
    <3>2. gs \in [D \ G -> States] BY <3>1 DEF TotalsWithout
    <3>3. D \ G \in SUBSET Groups OBVIOUS
    <3> QED BY <3>2, <3>3 DEF Partial
  <2> HIDE DEF gt, gs
  <2> QED BY <2>1, <2>2 DEF Maps, GroupTables
<1>10. RowsFit(rest, retired \cup ids)
  <2>1. rest \in Partial(Ids, Rows)
    <3>1. rest \in [left -> Rows] BY <1>2, <1>7
    <3>2. left \in SUBSET Ids BY <1>2, <1>7
    <3> QED BY <3>1, <3>2 DEF Partial
  <2>2. retired \cup ids \subseteq Ids /\ (retired \cup ids) \cap left = {} BY <1>2, <1>4
  <2> HIDE DEF rest, left
  <2> QED BY <1>2, <1>5, <1>7, <2>1, <2>2 DEF RowsFit
<1> HIDE DEF gt, gs, mp, rest, left
<1>11. Indexed(rest, mp.gt)
  <2>1. ASSUME NEW g \in DOMAIN gt
        PROVE  gt[g] # {} /\ gt[g] = {k \in DOMAIN rest : rest[k].group = g}
    <3>1. g \notin G /\ g \in DOMAIN groupTasks /\ gt[g] = groupTasks[g] BY <1>6
    <3>2. gt[g] # {} /\ gt[g] = {k \in DOMAIN tasks : tasks[k].group = g} BY <1>3, <3>1
    <3>3. {k \in DOMAIN rest : rest[k].group = g} = {k \in DOMAIN tasks : tasks[k].group = g}
      BY <1>5, <1>7, <3>1
    <3> QED BY <3>2, <3>3
  <2>2. \A k \in DOMAIN rest : rest[k].group # NoGroup => rest[k].group \in DOMAIN gt
    BY <1>3, <1>5, <1>6, <1>7
  <2> QED BY <1>8, <2>1, <2>2 DEF Indexed
<1>12. Owned(rest, mp.gs)
  <2> SUFFICES ASSUME NEW g \in DOMAIN gs, NEW k \in DOMAIN gs[g].bytes, k \notin gs[g].completed
               PROVE  k \in DOMAIN rest /\ rest[k].group = g
    BY <1>8 DEF Owned
  <2>1. g \notin G /\ g \in DOMAIN groups /\ gs[g] = groups[g] BY <1>6
  <2>2. k \in DOMAIN tasks /\ tasks[k].group = g BY <1>2, <2>1 DEF Owned
  <2> QED BY <1>5, <1>7, <2>1, <2>2
<1>13. Counted(rest, mp.gs, retired \cup ids)
  <2>1. ASSUME NEW k \in DOMAIN rest, rest[k].group # NoGroup, rest[k].status \in Terminal
        PROVE  k \in gs[rest[k].group].completed
    <3>1. k \in DOMAIN tasks /\ rest[k] = tasks[k] /\ tasks[k].group \notin G BY <1>5, <1>7
    <3>2. tasks[k].group \in DOMAIN gs BY <1>2, <1>3, <1>6, <2>1, <3>1
    <3>3. k \in groups[tasks[k].group].completed BY <1>2, <2>1, <3>1 DEF Counted
    <3> QED BY <1>6, <3>1, <3>2, <3>3
  <2>2. ASSUME NEW g \in DOMAIN gs, NEW k \in gs[g].completed
       
        PROVE  k \in retired \cup ids \/ (k \in DOMAIN rest /\ rest[k].group = g /\ rest[k].status \in Terminal)
    <3>1. g \notin G /\ g \in DOMAIN groups /\ gs[g] = groups[g] BY <1>6
    <3>2. k \in retired \/ (k \in DOMAIN tasks /\ tasks[k].group = g /\ tasks[k].status \in Terminal)
      BY <1>2, <3>1 DEF Counted
    <3> QED BY <1>5, <1>7, <3>1, <3>2
  <2>3. ASSUME NEW g \in DOMAIN gs, NEW h \in DOMAIN gs, NEW j \in gs[g].completed, j \in gs[h].completed
        PROVE  g = h
    BY <1>2, <1>6, <2>3 DEF Counted
  <2> QED BY <1>8, <2>1, <2>2, <2>3 DEF Counted
<1>14. Fits(rest, mp, retired \cup ids)
  BY <1>2, <1>6, <1>8, <1>9, <1>10, <1>11, <1>12, <1>13 DEF Fits
<1>15. Fits(rest, out, retired')
  <2>1. Fits(rest, ClearedWhenLast(DOMAIN rest, mp), retired \cup ids) BY <1>14, ClearedFits
  <2> QED BY <1>1, <1>5, <1>14, <2>1
<1>16. Fits(tasks', Maps(groupTasks', groups'), retired')
  <2> HIDE DEF out
  <2> QED BY <1>1, <1>15, StoreFits
<1>17. tasks' = rest /\ groups' = out.gs BY <1>1 DEF Store
<1>18. order \in Seq(Ids) /\ Listed(order) = DOMAIN tasks /\ Distinct(order)
       /\ (DOMAIN tasks = {} => DOMAIN groups = {})
  BY DEF ListInv
<1>19. order' \in Seq(Ids) /\ Listed(order') = DOMAIN tasks' /\ Distinct(order')
  <2>1. /\ Unlisted(ids) \in Seq(Ids) /\ Listed(Unlisted(ids)) = DOMAIN tasks \ ids
        /\ Distinct(Unlisted(ids))
    BY <1>18, UnlistedProps
  <2> QED BY <1>1, <1>5, <1>17, <2>1 DEF left
<1>20. DOMAIN tasks' = {} => DOMAIN groups' = {}
  <2> SUFFICES ASSUME DOMAIN tasks' = {} PROVE DOMAIN out.gs = {} BY <1>17
  <2>1. CASE ids = {}
    <3>1. DOMAIN tasks = {} BY <1>5, <1>17, <2>1 DEF left
    <3>2. DOMAIN gs = {} BY <1>6, <1>18, <3>1
    <3> QED BY <1>8, <2>1, <3>2
  <2>2. CASE ids # {}
    <3>1. out = Maps(<<>>, <<>>) BY <1>5, <1>17, <2>2 DEF ClearedWhenLast
    <3>2. out.gs = <<>> BY <3>1 DEF Maps
    <3> QED BY <3>2, EmptyFcn
  <2> QED BY <2>1, <2>2
<1> HIDE DEF out
<1>21. ListInv' BY <1>16, <1>19, <1>20 DEF ListInv, Listed, Distinct
<1>22. DOMAIN tasks' = {id \in DOMAIN tasks : tasks[id].group \notin G}
       /\ \A k \in DOMAIN tasks' : tasks'[k] = tasks[k]
  BY <1>5, <1>7, <1>17
<1> QED BY <1>21, <1>22

\* A list in step shows every row once and finds it under its group (IndexExact).
LEMMA InvIndexExact == ListInv => IndexExact
<1> SUFFICES ASSUME ListInv PROVE IndexExact OBVIOUS
<1>1. Listed(order) = DOMAIN tasks /\ Distinct(order) BY DEF ListInv
<1>2. groupTasks \in Partial(Groups, IdSets) /\ DOMAIN groupTasks \subseteq DOMAIN groups
      /\ Indexed(tasks, groupTasks)
  BY ListParts
<1>3. NoGroup \notin DOMAIN groupTasks BY <1>2, PartialProps, GroupsAssumption
<1>4. DOMAIN groupTasks = {tasks[id].group : id \in DOMAIN tasks} \ {NoGroup}
  <2>1. ASSUME NEW g \in DOMAIN groupTasks
        PROVE  g \in {tasks[id].group : id \in DOMAIN tasks} \ {NoGroup}
    <3>1. PICK id \in groupTasks[g] : id \in DOMAIN tasks /\ tasks[id].group = g
      BY <1>2 DEF Indexed
    <3> QED BY <1>3, <3>1
  <2>2. ASSUME NEW id \in DOMAIN tasks, tasks[id].group # NoGroup
        PROVE  tasks[id].group \in DOMAIN groupTasks
    BY <1>2, <2>2 DEF Indexed
  <2> QED BY <2>1, <2>2
<1> QED BY <1>1, <1>2, <1>4 DEF IndexExact, Indexed, Listed, Distinct

\* The totals of a list in step are what its rows did (TotalsTrue).
LEMMA InvTotalsTrue == ListInv => TotalsTrue
<1> SUFFICES ASSUME ListInv PROVE TotalsTrue OBVIOUS
<1>1. /\ retired \cap DOMAIN tasks = {} /\ DOMAIN groupTasks \subseteq DOMAIN groups
      /\ Indexed(tasks, groupTasks) /\ Owned(tasks, groups) /\ Counted(tasks, groups, retired)
  BY ListParts
<1>2. BytesOwned BY <1>1 DEF BytesOwned, Owned, ListInv
<1>3. ASSUME NEW id \in DOMAIN tasks, tasks[id].group # NoGroup
      PROVE  id \in groups[tasks[id].group].completed <=> tasks[id].status \in Terminal
  <2>1. tasks[id].group \in DOMAIN groups BY <1>1, <1>3 DEF Indexed
  <2>2. id \notin retired BY <1>1
  <2> QED BY <1>1, <1>3, <2>1, <2>2 DEF Counted
<1>4. CountedOnce BY <1>1, <1>3 DEF CountedOnce, Counted
<1> QED BY <1>2, <1>4 DEF TotalsTrue

\* Dismissing a row that ended changes no group's totals while other rows
\* remain: remove asks remove_task_from_group_state to preserve them.
LEMMA DismissStep ==
  ASSUME ListInv, NEW id \in DOMAIN tasks, tasks[id].status \in Terminal, Remove(id),
         DOMAIN tasks' # {}
  PROVE  groups' = groups
<1> DEFINE mp == Maps(groupTasks, groups)
           row == tasks[id]
           out == LeaveGroup(mp, row, FALSE, TRUE)
<1>1. row.status # "InProgress" BY DEF Terminal
<1>2. Dismissed(id) = out BY <1>1 DEF Dismissed
<1>3. tasks' = Without(tasks, id) /\ groups' = ClearedWhenLast(DOMAIN tasks \ {id}, Dismissed(id)).gs
  BY DEF Remove, Store
<1>4. DOMAIN tasks \ {id} # {} BY <1>3 DEF Without
<1>5. groups' = out.gs BY <1>2, <1>3, <1>4 DEF ClearedWhenLast
<1>6. mp.gs = groups /\ mp.gt = groupTasks BY DEF Maps
<1>7. /\ row \in Rows /\ groups \in Partial(Groups, States)
      /\ DOMAIN groupTasks \subseteq DOMAIN groups /\ Indexed(tasks, groupTasks)
  BY ListParts
<1>8. CASE row.group = NoGroup
  <2>1. out = mp BY <1>8 DEF LeaveGroup, Grouped
  <2> QED BY <1>5, <1>6, <2>1
<1>9. CASE row.group # NoGroup
  <2> DEFINE g == row.group
  <2>1. g \in DOMAIN groupTasks /\ g \in DOMAIN groups BY <1>7, <1>9 DEF Indexed
  <2>2. groups[g] \in States BY <1>7, <2>1, PartialProps
  <2>3. Fits(tasks, mp, retired) BY DEF ListInv
  <2>4. mp \in GroupTables BY <2>3 DEF Fits
  <2> HIDE DEF mp, row
  <2>5. AfterLeaving(out, mp, row, FALSE, TRUE) BY <1>6, <1>7, <1>9, <2>1, <2>4, LeaveProps
  <2>6. AfterWithdrawal(Withdrawn(groups[g], row, FALSE), groups[g], row, FALSE)
    BY <1>7, <2>2, WithdrawnProps
  <2>7. Withdrawn(groups[g], row, FALSE) = groups[g] BY <1>1, <2>6 DEF AfterWithdrawal
  <2> HIDE DEF out
  <2>8. DOMAIN out.gs = DOMAIN groups /\ \A h \in DOMAIN groups : out.gs[h] = groups[h]
    BY <1>6, <2>5, <2>7 DEF AfterLeaving
  <2>9. out \in GroupTables BY <2>5 DEF AfterLeaving
  <2>10. out.gs \in Partial(Groups, States) BY <2>9 DEF GroupTables
  <2>11. /\ out.gs = [h \in DOMAIN out.gs |-> out.gs[h]] /\ groups = [h \in DOMAIN groups |-> groups[h]]
    BY <1>7, <2>10, PartialProps
  <2>12. out.gs = groups BY <2>8, <2>11
  <2> QED BY <1>5, <2>12
<1> QED BY <1>8, <1>9

\* Every operation of the list keeps it in step.
LEMMA ListNext == ListInv /\ [Next]_vars => ListInv'
<1> SUFFICES ASSUME ListInv, [Next]_vars PROVE ListInv' OBVIOUS
<1>1. ASSUME NEW r \in Reported, Upsert(r) PROVE ListInv'
  BY <1>1, UpsertStep, ReportedAssumption
<1>2. ASSUME NEW id \in Ids, Remove(id) PROVE ListInv' BY <1>2, RemoveStep
<1>3. ASSUME NEW G \in (SUBSET Groups) \ {{}}, RemoveGroups(G) PROVE ListInv'
  BY <1>3, RemoveGroupsStep
<1>4. ASSUME UNCHANGED vars PROVE ListInv'
  <2>1. tasks' = tasks /\ order' = order /\ groups' = groups /\ groupTasks' = groupTasks /\ retired' = retired
    BY <1>4 DEF vars
  <2> QED BY <2>1 DEF ListInv, Listed, Distinct
<1> QED BY <1>1, <1>2, <1>3, <1>4 DEF Next

-----------------------------------------------------------------------------
(***************************************************************************)
(* The list with callers that report and remove as they like.              *)
(***************************************************************************)

\* The list is in step after any mix of updates, moves and removals.
THEOREM ListInvariant == Spec => []ListInv
BY ListInit, ListNext, PTL DEF Spec

\* Rows, order and index by group never diverge.
THEOREM ListIndexExact == Spec => []IndexExact
BY ListInvariant, InvIndexExact, PTL

\* A group's bytes and completions are those of its rows.
THEOREM ListTotalsTrue == Spec => []TotalsTrue
BY ListInvariant, InvTotalsTrue, PTL

\* The same in terms of the counts and bytes that the footbar draws.
LEMMA KeepsTotals ==
  ASSUME ListInv
  PROVE  \A id \in DOMAIN tasks :
          tasks[id].status \in Terminal /\ Remove(id) /\ DOMAIN tasks' # {}
             => \A g \in DOMAIN groups :
                   /\ g \in DOMAIN groups'
                   /\ GroupDone(g)' = GroupDone(g)
                   /\ GroupBytes(g)' = GroupBytes(g)
<1> SUFFICES ASSUME NEW id \in DOMAIN tasks, tasks[id].status \in Terminal, Remove(id),
                    DOMAIN tasks' # {}, NEW g \in DOMAIN groups
             PROVE  /\ g \in DOMAIN groups'
                    /\ GroupDone(g)' = GroupDone(g)
                    /\ GroupBytes(g)' = GroupBytes(g)
  OBVIOUS
<1>1. groups' = groups BY DismissStep
<1> QED BY <1>1 DEF GroupDone, GroupBytes

\* Dismissing a row that ended never moves the footbar's counts or bytes.
THEOREM ListDismissKeepsTotals == Spec => DismissKeepsTotals
BY ListInvariant, KeepsTotals, PTL DEF Spec, DismissKeepsTotals

-----------------------------------------------------------------------------
(***************************************************************************)
(* A download among other transfers.  RowTellsTruth alone is not kept: why *)
(* the pause may end in "Finished" was decided before the pause began, and *)
(* a row that runs can be removed by remove_group unless it is ungrouped.  *)
(* TaskInv remembers both.                                                 *)
(***************************************************************************)
Stages == {"metadata", "opening", "creating", "looping", "reading", "writing", "pausing", "ended"}
Sizes == 0..(Length + 1)

TaskType ==
    /\ stage \in Stages /\ size \in Opt(Sizes) /\ received \in 0..Length
    /\ cancelled \in BOOLEAN /\ timer \in BOOLEAN

\* The file is as long as it was announced.
Announced == \E n \in size : 0 < n /\ n <= received

TaskInv ==
    /\ stage = "writing" => received < Length
    /\ stage = "metadata" => Download \notin DOMAIN tasks
    /\ timer => stage = "ended"
    /\ stage = "pausing" => received = Length \/ (cancelled /\ Announced)
    /\ Download \in DOMAIN tasks => tasks[Download].group = NoGroup

DownloadInv == ListInv /\ TaskType /\ TaskInv /\ RowTellsTruth

\* What the constants of a download give the list.
LEMMA DownloadFacts == Download \in Ids /\ Length \in Nat /\ Sizes \subseteq Totals
BY DownloadAssumption DEF Sizes

\* build_download_task reports on the download's own row, in no group.
LEMMA RowReport ==
  ASSUME NEW o \in Opt(Sizes), NEW status \in Statuses, NEW done \in Opt(Sizes)
  PROVE  /\ Row(o, status, done) \in Reports
         /\ Row(o, status, done).id = Download /\ Row(o, status, done).group = NoGroup
         /\ Row(o, status, done).status = status
<1>1. o \ {0} \in Opt(Totals) /\ done \in Opt(Totals) BY DownloadFacts DEF Opt
<1>2. {} \in Opt(Totals) BY DEF Opt
<1> QED BY <1>1, <1>2, DownloadFacts DEF Row, Reports

\* The list is in step and the download's row has this status.
RowSet(status) ==
    /\ ListInv'
    /\ Download \in DOMAIN tasks'
    /\ tasks'[Download].status = status /\ tasks'[Download].group = NoGroup

\* An upsert of the download's row sets its status.
LEMMA RowStep ==
  ASSUME ListInv, NEW o \in Opt(Sizes), NEW status \in Statuses, NEW done \in Opt(Sizes),
         Upsert(Row(o, status, done))
  PROVE  RowSet(status)
<1> DEFINE r == Row(o, status, done)
<1>1. r \in Reports /\ r.id = Download /\ r.group = NoGroup /\ r.status = status
  BY RowReport
<1> HIDE DEF r
<1>2. /\ ListInv' /\ DOMAIN tasks' = DOMAIN tasks \cup {r.id}
      /\ tasks'[r.id].status = r.status /\ tasks'[r.id].group = r.group
  BY <1>1, UpsertStep DEF r
<1> QED BY <1>1, <1>2 DEF RowSet

\* A step that leaves the list alone keeps it in step.
LEMMA ListUnchanged == ListInv /\ UNCHANGED vars => ListInv' /\ tasks' = tasks
<1> SUFFICES ASSUME ListInv, UNCHANGED vars PROVE ListInv' /\ tasks' = tasks OBVIOUS
<1>1. tasks' = tasks /\ order' = order /\ groups' = groups /\ groupTasks' = groupTasks /\ retired' = retired
  BY DEF vars
<1> QED BY <1>1 DEF ListInv, Listed, Distinct

\* A step that only moves the task on.
LEMMA GotoStep ==
  ASSUME ListInv, NEW next, Goto(next)
  PROVE  /\ ListInv' /\ tasks' = tasks /\ stage' = next
         /\ size' = size /\ received' = received /\ cancelled' = cancelled /\ timer' = timer
BY ListUnchanged DEF Goto

\* set_download_terminal_in_center ends the task and its row.
LEMMA EndStep ==
  ASSUME ListInv, TaskType, NEW status \in Statuses, EndAs(status)
  PROVE  /\ RowSet(status) /\ stage' = "ended" /\ timer' = TRUE
         /\ size' = size /\ received' = received /\ cancelled' = cancelled
<1>1. size \in Opt(Sizes) /\ {} \in Opt(Sizes) BY DEF TaskType, Opt
<1> QED BY <1>1, RowStep DEF EndAs

\* A progress report leaves the row running.
LEMMA ProgressStep ==
  ASSUME ListInv, TaskType, NEW n \in Sizes, Progress(n)
  PROVE  RowSet("InProgress")
<1>1. size \in Opt(Sizes) /\ {n} \in Opt(Sizes) BY DEF TaskType, Opt
<1>2. "InProgress" \in Statuses BY DEF Statuses
<1> QED BY <1>1, <1>2, RowStep DEF Progress

\* finish_download_success leaves the row running through the pause.
LEMMA SucceedStep ==
  ASSUME ListInv, TaskType, NEW n \in Sizes, Succeed(n)
  PROVE  /\ RowSet("InProgress") /\ stage' = "pausing"
         /\ size' = size /\ received' = received /\ cancelled' = cancelled /\ timer' = timer
<1>1. OrElse(size, n) \in Sizes BY OptProps DEF TaskType
<1> QED BY <1>1, ProgressStep DEF Succeed

\* A download that has not begun has no row.
LEMMA DownloadInvInit == DownloadInit => DownloadInv
<1> SUFFICES ASSUME DownloadInit PROVE DownloadInv OBVIOUS
<1>1. /\ Init /\ stage = "metadata" /\ size = {} /\ received = 0 /\ cancelled = FALSE /\ timer = FALSE
  BY DEF DownloadInit
<1>2. ListInv BY <1>1, ListInit
<1>3. Download \notin DOMAIN tasks BY <1>1, EmptyFcn DEF Init
<1>4. TaskType
  <2>1. {} \in Opt(Sizes) BY DEF Opt
  <2>2. 0 \in 0..Length BY DownloadFacts
  <2> QED BY <1>1, <2>1, <2>2 DEF TaskType, Stages
<1>5. TaskInv BY <1>1, <1>3 DEF TaskInv
<1>6. RowTellsTruth BY <1>1, <1>3 DEF RowTellsTruth
<1> QED BY <1>2, <1>4, <1>5, <1>6 DEF DownloadInv

\* A status is running or terminal, never both.
LEMMA StatusFacts ==
  /\ "InProgress" \in Statuses /\ Terminal \subseteq Statuses /\ "InProgress" \notin Terminal
  /\ "Finished" \in Terminal /\ "Cancelled" \in Terminal /\ "Failed" \in Terminal
BY DEF Statuses, Terminal

\* The invariant holds when the task ended with its row, if the row has reason to
\* say so.
LEMMA EndKeeps ==
  ASSUME DownloadInv, NEW status \in Terminal, RowSet(status),
         stage' = "ended", timer' = TRUE, size' \in Opt(Sizes), received' \in 0..Length,
         cancelled' \in BOOLEAN,
         status = "Finished" => received' = Length \/ (cancelled' /\ Announced'),
         status = "Cancelled" => cancelled'
  PROVE  DownloadInv'
<1>1. /\ ListInv' /\ Download \in DOMAIN tasks'
      /\ tasks'[Download].status = status /\ tasks'[Download].group = NoGroup
  BY DEF RowSet
<1>2. TaskType' BY DEF TaskType, Stages
<1>3. TaskInv' BY <1>1 DEF TaskInv
<1>4. RowTellsTruth' BY <1>1, StatusFacts DEF RowTellsTruth, Announced
<1> QED BY <1>1, <1>2, <1>3, <1>4 DEF DownloadInv

\* The invariant holds while task and row both run.
LEMMA RunKeeps ==
  ASSUME DownloadInv, RowSet("InProgress"),
         stage' \in Stages \ {"metadata", "ended"}, timer' = FALSE, size' \in Opt(Sizes),
         received' \in 0..Length, cancelled' \in BOOLEAN,
         stage' = "writing" => received' < Length,
         stage' = "pausing" => received' = Length \/ (cancelled' /\ Announced')
  PROVE  DownloadInv'
<1>1. /\ ListInv' /\ Download \in DOMAIN tasks'
      /\ tasks'[Download].status = "InProgress" /\ tasks'[Download].group = NoGroup
  BY DEF RowSet
<1>2. TaskType' BY DEF TaskType
<1>3. TaskInv' BY <1>1 DEF TaskInv
<1>4. RowTellsTruth' BY <1>1, StatusFacts DEF RowTellsTruth
<1> QED BY <1>1, <1>2, <1>3, <1>4 DEF DownloadInv

\* Between its first report and its end a download has a running row.
LEMMA RunsIn ==
  ASSUME DownloadInv, stage \notin {"metadata", "ended"}
  PROVE  /\ Download \in DOMAIN tasks /\ tasks[Download].status = "InProgress"
         /\ tasks[Download].group = NoGroup /\ timer = FALSE
BY DEF DownloadInv, RowTellsTruth, TaskInv, TaskType

\* A step that only moves the task on keeps the invariant.
LEMMA MoveKeeps ==
  ASSUME DownloadInv, stage \notin {"metadata", "ended"},
         NEW next \in Stages \ {"metadata", "ended", "pausing"}, Goto(next),
         next = "writing" => received < Length
  PROVE  DownloadInv'
<1>0. ListInv /\ TaskType BY DEF DownloadInv
<1>1. /\ ListInv' /\ tasks' = tasks /\ stage' = next
      /\ size' = size /\ received' = received /\ cancelled' = cancelled /\ timer' = timer
  BY <1>0, GotoStep
<1>2. RowSet("InProgress") BY <1>1, RunsIn DEF RowSet
<1>3. timer' = FALSE BY <1>1, RunsIn
<1> QED BY <1>0, <1>1, <1>2, <1>3, RunKeeps DEF TaskType

\* The task may end in any way it has reason to.
LEMMA EndAsKeeps ==
  ASSUME DownloadInv, NEW status \in Terminal, EndAs(status),
         status = "Finished" => received = Length \/ (cancelled /\ Announced),
         status = "Cancelled" => cancelled
  PROVE  DownloadInv'
<1>0. ListInv /\ TaskType /\ status \in Statuses BY StatusFacts DEF DownloadInv
<1>1. /\ RowSet(status) /\ stage' = "ended" /\ timer' = TRUE
      /\ size' = size /\ received' = received /\ cancelled' = cancelled
  BY <1>0, EndStep
<1>2. Announced' = Announced BY <1>1 DEF Announced
<1> QED BY <1>0, <1>1, <1>2, EndKeeps DEF TaskType

\* The pause begins when the file was read to its end or is long enough.
LEMMA SucceedKeeps ==
  ASSUME DownloadInv, stage \notin {"metadata", "ended"}, Succeed(received),
         received = Length \/ (cancelled /\ Announced)
  PROVE  DownloadInv'
<1>0. ListInv /\ TaskType BY DEF DownloadInv
<1>1. received \in Sizes BY <1>0, DownloadFacts DEF TaskType, Sizes
<1>2. /\ RowSet("InProgress") /\ stage' = "pausing"
      /\ size' = size /\ received' = received /\ cancelled' = cancelled /\ timer' = timer
  BY <1>0, <1>1, SucceedStep
<1>3. Announced' = Announced BY <1>2 DEF Announced
<1>4. timer' = FALSE BY <1>2, RunsIn
<1> QED BY <1>0, <1>2, <1>3, <1>4, RunKeeps DEF TaskType, Stages

\* The task of the download has not moved, its row neither.
LEMMA OthersKeep ==
  ASSUME DownloadInv, ListInv', UNCHANGED taskVars,
         Download \in DOMAIN tasks' <=> Download \in DOMAIN tasks,
         Download \in DOMAIN tasks => tasks'[Download] = tasks[Download]
  PROVE  DownloadInv'
<1>1. /\ stage' = stage /\ size' = size /\ received' = received
      /\ cancelled' = cancelled /\ timer' = timer
  BY DEF taskVars
<1>2. TaskType' BY <1>1 DEF DownloadInv, TaskType
<1>3. TaskInv' BY <1>1 DEF DownloadInv, TaskInv, Announced
<1>4. RowTellsTruth' BY <1>1 DEF DownloadInv, RowTellsTruth
<1> QED BY <1>2, <1>3, <1>4 DEF DownloadInv

\* Every step of the download and of the transfers beside it keeps the
\* invariant: the row is ungrouped, so no removal of groups reaches it.
LEMMA DownloadInvNext == DownloadInv /\ [DownloadNext]_allVars => DownloadInv'
<1> SUFFICES ASSUME DownloadInv, [DownloadNext]_allVars PROVE DownloadInv' OBVIOUS
<1>0. ListInv /\ TaskType /\ TaskInv /\ RowTellsTruth BY DEF DownloadInv
<1>1. CASE MetadataReturns
  <2>1. PICK o \in Opt(Sizes) : size' = o /\ Upsert(Row(o, "InProgress", {0}))
    BY <1>1 DEF MetadataReturns, Sizes
  <2>2. {0} \in Opt(Sizes) BY DownloadFacts DEF Opt, Sizes
  <2>3. RowSet("InProgress") BY <1>0, <2>1, <2>2, StatusFacts, RowStep
  <2>4. stage' = "opening" /\ received' = received /\ cancelled' = cancelled /\ timer' = FALSE
    BY <1>0, <1>1 DEF MetadataReturns, TaskInv, TaskType
  <2> QED BY <1>0, <2>1, <2>3, <2>4, RunKeeps DEF Stages, TaskType
<1>2. CASE OpenReturns
  <2>1. CASE Goto(IF stage = "opening" THEN "creating" ELSE "looping")
    <3> DEFINE next == IF stage = "opening" THEN "creating" ELSE "looping"
    <3>1. next \in Stages \ {"metadata", "ended", "pausing", "writing"} BY DEF Stages
    <3>2. stage \notin {"metadata", "ended"} BY <1>2 DEF OpenReturns
    <3>3. Goto(next) BY <2>1
    <3> HIDE DEF next
    <3> QED BY <3>1, <3>2, <3>3, MoveKeeps
  <2>2. CASE EndAs("Failed") BY <2>2, StatusFacts, EndAsKeeps
  <2> QED BY <1>2, <2>1, <2>2 DEF OpenReturns
<1>3. CASE LoopTop
  <2>1. stage = "looping" BY <1>3 DEF LoopTop
  <2>2. CASE ~cancelled /\ Goto("reading") BY <2>1, <2>2, MoveKeeps DEF Stages
  <2>3. CASE cancelled /\ Whole /\ Succeed(received)
    <3>1. Announced
      <4>1. PICK n \in size : n # 0 /\ received >= n BY <2>3 DEF Whole
      <4>2. n \in Sizes BY <1>0, <4>1 DEF TaskType, Opt
      <4>3. n \in Nat /\ received \in Nat BY <1>0, <4>2, DownloadFacts DEF Sizes, TaskType
      <4> QED BY <4>1, <4>3 DEF Announced
    <3> QED BY <2>1, <2>3, <3>1, SucceedKeeps
  <2>4. CASE cancelled /\ ~Whole /\ EndAs("Cancelled") BY <2>4, StatusFacts, EndAsKeeps
  <2> QED BY <1>3, <2>2, <2>3, <2>4 DEF LoopTop
<1>4. CASE ReadReturns
  <2>1. stage = "reading" BY <1>4 DEF ReadReturns
  <2>2. CASE received = Length /\ Succeed(received) BY <2>1, <2>2, SucceedKeeps
  <2>3. CASE EndAs("Failed") BY <2>3, StatusFacts, EndAsKeeps
  <2>4. CASE received < Length /\ ~cancelled /\ Goto("writing")
    BY <2>1, <2>4, MoveKeeps DEF Stages
  <2>5. CASE received < Length /\ cancelled /\ EndAs("Cancelled")
    BY <2>5, StatusFacts, EndAsKeeps
  <2> QED BY <1>4, <2>2, <2>3, <2>4, <2>5 DEF ReadReturns
<1>5. CASE WriteReturns
  <2>1. stage = "writing" BY <1>5 DEF WriteReturns
  <2>2. CASE EndAs("Failed") BY <2>2, StatusFacts, EndAsKeeps
  <2>3. CASE /\ received' = received + 1 /\ UNCHANGED <<size, cancelled>>
             /\ IF cancelled
                THEN /\ Upsert(Row(size, "Cancelled", {}))
                     /\ stage' = "ended" /\ timer' = TRUE
                ELSE /\ Progress(received + 1)
                     /\ stage' = "looping" /\ timer' = timer
    <3>1. received + 1 \in 0..Length /\ received + 1 \in Sizes
      BY <1>0, <2>1, DownloadFacts DEF TaskType, TaskInv, Sizes
    <3>2. size' = size /\ cancelled' = cancelled /\ received' = received + 1 BY <2>3
    <3>3. size \in Opt(Sizes) /\ {} \in Opt(Sizes) BY <1>0 DEF TaskType, Opt
    <3>4. CASE cancelled
      <4>1. RowSet("Cancelled") BY <1>0, <2>3, <3>3, <3>4, StatusFacts, RowStep
      <4> QED BY <1>0, <2>3, <3>1, <3>2, <3>4, <4>1, StatusFacts, EndKeeps DEF TaskType
    <3>5. CASE ~cancelled
      <4>1. RowSet("InProgress") BY <1>0, <2>3, <3>1, <3>5, ProgressStep
      <4>2. timer' = FALSE /\ stage' = "looping" BY <2>1, <2>3, <3>5, RunsIn
      <4> QED BY <1>0, <3>1, <3>2, <4>1, <4>2, RunKeeps DEF TaskType, Stages
    <3> QED BY <3>4, <3>5
  <2> QED BY <1>5, <2>2, <2>3 DEF WriteReturns
<1>6. CASE PauseEnds
  <2>1. stage = "pausing" /\ EndAs("Finished") BY <1>6 DEF PauseEnds
  <2>2. received = Length \/ (cancelled /\ Announced) BY <1>0, <2>1 DEF TaskInv
  <2> QED BY <2>1, <2>2, StatusFacts, EndAsKeeps
<1>7. CASE Cancel
  <2>1. /\ Download \in DOMAIN tasks /\ tasks[Download].status = "InProgress"
        /\ cancelled' = TRUE /\ UNCHANGED vars
        /\ stage' = stage /\ size' = size /\ received' = received /\ timer' = timer
    BY <1>7 DEF Cancel
  <2>2. ListInv' /\ tasks' = tasks BY <1>0, <2>1, ListUnchanged
  <2>3. Announced' = Announced BY <2>1 DEF Announced
  <2>4. TaskType' BY <1>0, <2>1 DEF TaskType
  <2>5. TaskInv' BY <1>0, <2>1, <2>2, <2>3 DEF TaskInv
  <2>6. RowTellsTruth' BY <1>0, <2>1, <2>2, StatusFacts DEF RowTellsTruth
  <2> QED BY <2>2, <2>4, <2>5, <2>6 DEF DownloadInv
<1>8. CASE TimerFires
  <2>1. /\ timer /\ Remove(Download) /\ timer' = FALSE
        /\ stage' = stage /\ size' = size /\ received' = received /\ cancelled' = cancelled
    BY <1>8 DEF TimerFires
  <2>2. ListInv' /\ DOMAIN tasks' = DOMAIN tasks \ {Download} BY <1>0, <2>1, RemoveStep
  <2>3. stage = "ended" BY <1>0, <2>1 DEF TaskInv
  <2>4. TaskType' BY <1>0, <2>1 DEF TaskType
  <2>5. TaskInv' BY <2>1, <2>2, <2>3 DEF TaskInv
  <2>6. RowTellsTruth' BY <2>1, <2>2, <2>3 DEF RowTellsTruth
  <2> QED BY <2>2, <2>4, <2>5, <2>6 DEF DownloadInv
<1>9. CASE Others
  <2>1. UNCHANGED taskVars BY <1>9 DEF Others
  <2>2. CASE \E r \in Reported : Upsert(r)
    <3>1. PICK r \in Reported : Upsert(r) BY <2>2
    <3>2. r \in Reports /\ r.id # Download BY ReportedAssumption, DownloadAssumption
    <3>3. /\ ListInv' /\ DOMAIN tasks' = DOMAIN tasks \cup {r.id}
          /\ \A id \in DOMAIN tasks : id # r.id => tasks'[id] = tasks[id]
      BY <1>0, <3>1, <3>2, UpsertStep
    <3> QED BY <2>1, <3>2, <3>3, OthersKeep
  <2>3. CASE \E id \in Ids \ {Download} : Remove(id)
    <3>1. PICK id \in Ids \ {Download} : Remove(id) BY <2>3
    <3>2. /\ ListInv' /\ DOMAIN tasks' = DOMAIN tasks \ {id}
          /\ \A k \in DOMAIN tasks' : tasks'[k] = tasks[k]
      BY <1>0, <3>1, RemoveStep
    <3> QED BY <2>1, <3>2, OthersKeep
  <2>4. CASE \E G \in (SUBSET Groups) \ {{}} : RemoveGroups(G)
    <3>1. PICK G \in SUBSET Groups : RemoveGroups(G) BY <2>4
    <3>2. /\ ListInv' /\ DOMAIN tasks' = {id \in DOMAIN tasks : tasks[id].group \notin G}
          /\ \A k \in DOMAIN tasks' : tasks'[k] = tasks[k]
      BY <1>0, <3>1, RemoveGroupsStep
    <3>3. Download \in DOMAIN tasks => tasks[Download].group \notin G
      BY <1>0, GroupsAssumption DEF TaskInv
    <3> QED BY <2>1, <3>2, <3>3, OthersKeep
  <2> QED BY <1>9, <2>2, <2>3, <2>4 DEF Others
<1>10. CASE UNCHANGED allVars
  <2>1. UNCHANGED vars /\ UNCHANGED taskVars BY <1>10 DEF allVars
  <2>2. ListInv' /\ tasks' = tasks BY <1>0, <2>1, ListUnchanged
  <2> QED BY <2>1, <2>2, OthersKeep
<1> QED BY <1>1, <1>2, <1>3, <1>4, <1>5, <1>6, <1>7, <1>8, <1>9, <1>10 DEF DownloadNext

\* The invariant holds for a file of any length among any other transfers.
THEOREM DownloadInvariant == DownloadSpec => []DownloadInv
BY DownloadInvInit, DownloadInvNext, PTL DEF DownloadSpec

\* The list beside a download is exact.
THEOREM DownloadIndexExact == DownloadSpec => []IndexExact
<1>1. DownloadInv => IndexExact BY InvIndexExact DEF DownloadInv
<1> QED BY <1>1, DownloadInvariant, PTL

\* Its totals are those of its rows.
THEOREM DownloadTotalsTrue == DownloadSpec => []TotalsTrue
<1>1. DownloadInv => TotalsTrue BY InvTotalsTrue DEF DownloadInv
<1> QED BY <1>1, DownloadInvariant, PTL

\* A row that says "Finished" means a file read to its end or as long as it was
\* announced, one that says "Cancelled" means a download that was cancelled, and
\* the row runs exactly while the task does.
THEOREM DownloadRowTellsTruth == DownloadSpec => []RowTellsTruth
<1>1. DownloadInv => RowTellsTruth BY DEF DownloadInv
<1> QED BY <1>1, DownloadInvariant, PTL

\* Dismissing any row that ended never moves the footbar's counts or bytes.
THEOREM DownloadDismissKeepsTotals == DownloadSpec => DismissKeepsTotals
<1>1. DownloadInv => ListInv BY DEF DownloadInv
<1> QED BY <1>1, DownloadInvariant, KeepsTotals, PTL DEF DismissKeepsTotals
=============================================================================
