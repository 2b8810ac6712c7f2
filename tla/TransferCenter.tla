--------------------------- MODULE TransferCenter ---------------------------
(***************************************************************************)
(* The transfer list behind the footbar: TransferCenterState of            *)
(* crates/gpui_transfer/src/lib.rs.  Rows are keyed by task id; a group    *)
(* (one upload batch, say) keeps its own totals so that the counts shown   *)
(* stay stable while finished rows are dismissed one by one.               *)
(*                                                                         *)
(* An optional number is a set with at most one element, as in Opt(S).     *)
(***************************************************************************)
EXTENDS Integers, Sequences, FiniteSets

CONSTANTS Ids,      \* task ids
          Groups,   \* group ids
          NoGroup,  \* group_id = None
          Totals,   \* values of group_total and of the byte counts
          Reported  \* the reports callers hand to upsert

ASSUME IdsAssumption == IsFiniteSet(Ids)
ASSUME GroupsAssumption == NoGroup \notin Groups
ASSUME TotalsAssumption == Totals \subseteq Nat

VARIABLES tasks,       \* tasks: id -> row, for the ids listed
          order,       \* order: the ids in insertion order
          groups,      \* groups: group -> [total, completed, bytes]
          groupTasks,  \* group_tasks: group -> ids listed under it
          retired      \* history: ids that were listed and removed

vars == <<tasks, order, groups, groupTasks, retired>>

Opt(S) == {{}} \cup {{n} : n \in S}
The(o) == CHOOSE n \in o : TRUE
OrElse(o, d) == IF o = {} THEN d ELSE The(o)
Least(a, b) == IF a < b THEN a ELSE b
Most(a, b) == IF a < b THEN b ELSE a

Terminal == {"Finished", "Cancelled", "Failed"}
Statuses == {"InProgress"} \cup Terminal

\* A report handed to upsert (title, kind, progress bar and cancel token are
\* left out: nothing here depends on them).
Reports == [id : Ids, group : Groups \cup {NoGroup}, groupTotal : Opt(Totals),
            status : Statuses, done : Opt(Totals), total : Opt(Totals)]

ASSUME ReportedAssumption == Reported \subseteq Reports

Without(f, x) == [y \in DOMAIN f \ {x} |-> f[y]]
Put(f, x, v) == [y \in DOMAIN f \cup {x} |-> IF y = x THEN v ELSE f[y]]

EmptyGroup == [total |-> 0, completed |-> {}, bytes |-> <<>>]

\* A pair of the two group maps, so that a helper may rewrite both.
Maps(gt, gs) == [gt |-> gt, gs |-> gs]

Grouped(row) == row.group # NoGroup

\* What is left of a group's state when a row leaves it.
Withdrawn(st, row, removeCompletion) ==
    [st EXCEPT
        !.completed = IF removeCompletion THEN @ \ {row.id} ELSE @,
        !.bytes = IF removeCompletion \/ row.status = "InProgress"
                  THEN Without(@, row.id) ELSE @]

\* A group's total only grows with the totals reported.
GrownTotal(old, groupTotal) == Most(old, OrElse(groupTotal, 0))

\* remove_task_from_group_state: the row leaves its group's id set; when it was
\* the last one and the group is not to be preserved the group goes with it;
\* otherwise its completion and its bytes are withdrawn as asked.
LeaveGroup(mp, row, removeCompletion, preserve) ==
    LET g    == row.group
        last == g \in DOMAIN mp.gt /\ mp.gt[g] \subseteq {row.id}
        gt   == CASE g \notin DOMAIN mp.gt -> mp.gt
                  [] last -> Without(mp.gt, g)
                  [] OTHER -> Put(mp.gt, g, mp.gt[g] \ {row.id})
        gs   == CASE last /\ ~preserve -> Without(mp.gs, g)
                  [] g \in DOMAIN mp.gs /\ (preserve \/ ~last) ->
                        Put(mp.gs, g, Withdrawn(mp.gs[g], row, removeCompletion))
                  [] OTHER -> mp.gs
    IN  IF Grouped(row) THEN Maps(gt, gs) ELSE mp

\* apply_task_to_group_state: the row joins its group; known byte counts are
\* recorded, a finished row without a count as complete.
EnterGroup(mp, row, groupTotal) ==
    LET g       == row.group
        ids     == IF g \in DOMAIN mp.gt THEN mp.gt[g] ELSE {}
        old     == IF g \in DOMAIN mp.gs THEN mp.gs[g] ELSE EmptyGroup
        size    == OrElse(row.total, 0)
        default == IF row.status = "Finished" THEN size ELSE 0
        new     == [old EXCEPT
                      !.total = GrownTotal(@, groupTotal),
                      !.bytes = IF size > 0
                                THEN Put(@, row.id, <<Least(OrElse(row.done, default), size), size>>)
                                ELSE @,
                      !.completed = IF row.status \in Terminal THEN @ \cup {row.id} ELSE @]
    IN  IF Grouped(row) THEN Maps(Put(mp.gt, g, ids \cup {row.id}), Put(mp.gs, g, new)) ELSE mp

Init ==
    /\ tasks = <<>>
    /\ order = <<>>
    /\ groups = <<>>
    /\ groupTasks = <<>>
    /\ retired = {}

-----------------------------------------------------------------------------

\* The row upsert stores for report r when its id is already listed: missing
\* byte counts are carried over unless the row moves to another group.
Carry(r) ==
    LET old  == tasks[r.id]
        same == old.group = r.group
    IN  [id |-> r.id, group |-> r.group, status |-> r.status,
         done  |-> IF same /\ r.done = {} THEN old.done ELSE r.done,
         total |-> IF same /\ r.total = {} THEN old.total ELSE r.total]

\* The new rows and group maps take effect together.
Store(rows, mp) ==
    /\ tasks' = rows
    /\ groupTasks' = mp.gt
    /\ groups' = mp.gs

\* Mutant: the old row is not taken out of its group.
NotVacated(r) == Maps(groupTasks, groups)

\* The group maps with the row that report r replaces taken out.
Vacated(r) ==
    LET old == tasks[r.id]
    IN  LeaveGroup(Maps(groupTasks, groups), old, TRUE, old.group = r.group)

\* upsert, the id is listed.
Replace(r) ==
    /\ r.id \in DOMAIN tasks
    /\ Store(Put(tasks, r.id, Carry(r)), EnterGroup(Vacated(r), Carry(r), r.groupTotal))
    /\ UNCHANGED <<order, retired>>

\* upsert, the id is new; callers number their transfers, so an id whose row
\* was removed is not used again.
Insert(r) ==
    /\ r.id \notin DOMAIN tasks
    /\ r.id \notin retired
    /\ LET row == [id |-> r.id, group |-> r.group, status |-> r.status,
                   done |-> r.done, total |-> r.total]
       IN  Store(Put(tasks, r.id, row),
                 EnterGroup(Maps(groupTasks, groups), row, r.groupTotal))
    /\ order' = Append(order, r.id)
    /\ UNCHANGED retired

Upsert(r) == Replace(r) \/ Insert(r)

\* Mutant: a dismissed row takes its completion with it.
DismissedUncounted(id) ==
    LeaveGroup(Maps(groupTasks, groups), tasks[id], TRUE, tasks[id].status # "InProgress")

\* The group maps once the row of `id` is dismissed: what a row that ended
\* contributed to its group stays.
Dismissed(id) ==
    LeaveGroup(Maps(groupTasks, groups), tasks[id], FALSE, tasks[id].status # "InProgress")

\* Mutant: finished batches outlive the last row.
NeverCleared(rows, mp) == mp

\* With the last row everything about groups is forgotten.
ClearedWhenLast(rows, mp) == IF rows = {} THEN Maps(<<>>, <<>>) ELSE mp

\* order.retain: the nth id kept is the one with n of the kept up to it.
Unlisted(ids) ==
    LET kept   == {i \in DOMAIN order : order[i] \notin ids}
        nth(n) == CHOOSE i \in kept : Cardinality({j \in kept : j <= i}) = n
    IN  [n \in 1..Cardinality(kept) |-> order[nth(n)]]

\* remove
Remove(id) ==
    /\ id \in DOMAIN tasks
    /\ Store(Without(tasks, id), ClearedWhenLast(DOMAIN tasks \ {id}, Dismissed(id)))
    /\ order' = Unlisted({id})
    /\ retired' = retired \cup {id}

TotalsWithout(G) == [g \in DOMAIN groups \ G |-> groups[g]]

\* remove_group and remove_groups_with_prefix, for the matching groups G: each
\* listed row is removed as by remove, then the group itself, listed or not.
\* The order of the removals does not show in the result.
RemoveGroups(G) ==
    LET ids  == UNION {groupTasks[g] : g \in G \cap DOMAIN groupTasks}
        rest == DOMAIN tasks \ ids
        mp   == Maps([g \in DOMAIN groupTasks \ G |-> groupTasks[g]], TotalsWithout(G))
    IN  /\ Store([id \in rest |-> tasks[id]],
                 IF ids = {} THEN mp ELSE ClearedWhenLast(rest, mp))
        /\ order' = Unlisted(ids)
        /\ retired' = retired \cup ids

RemoveGroup(g) == RemoveGroups({g})

Next ==
    \/ \E r \in Reported : Upsert(r)
    \/ \E id \in Ids : Remove(id)
    \/ \E G \in (SUBSET Groups) \ {{}} : RemoveGroups(G)

Spec == Init /\ [][Next]_vars

-----------------------------------------------------------------------------

\* TransferGroupState::summary for group g, and the share of ungrouped rows.
GroupDone(g) == Least(Cardinality(groups[g].completed), groups[g].total)
GroupBytes(g) == {<<id, groups[g].bytes[id]>> : id \in DOMAIN groups[g].bytes}

\* The list drawn in the popover, the map of rows and the reverse index never
\* diverge, after any mix of updates, moves and removals: every row is shown
\* exactly once and found under its group, and every group with rows has totals.
\* remove_group would otherwise miss rows, or summary() lose a running batch.
IndexExact ==
    /\ {order[i] : i \in DOMAIN order} = DOMAIN tasks
    /\ \A i, j \in DOMAIN order : order[i] = order[j] => i = j
    /\ DOMAIN groupTasks = {tasks[id].group : id \in DOMAIN tasks} \ {NoGroup}
    /\ \A g \in DOMAIN groupTasks :
          groupTasks[g] = {id \in DOMAIN tasks : tasks[id].group = g}
    /\ DOMAIN groupTasks \subseteq DOMAIN groups

\* Byte totals belong to somebody: to a listed row of the group, or to a row
\* that ended and was dismissed, and to nobody once the list is empty.  A row
\* that moves or is removed while running leaves no bytes behind that would
\* skew the progress bar for good.
BytesOwned ==
    /\ DOMAIN tasks = {} => DOMAIN groups = {}
    /\ \A g \in DOMAIN groups : \A id \in DOMAIN groups[g].bytes :
          \/ id \in DOMAIN tasks /\ tasks[id].group = g
          \/ id \in groups[g].completed

\* A row still running is never counted as done, a row that ended and is still
\* listed always is, and no row is counted by two groups: a dismissed or moved
\* row stays with the group it ended in.
CountedOnce ==
    /\ \A id \in DOMAIN tasks : tasks[id].group # NoGroup =>
          (id \in groups[tasks[id].group].completed <=> tasks[id].status \in Terminal)
    /\ \A g, h \in DOMAIN groups : \A id \in groups[g].completed \cap groups[h].completed : g = h

\* What the footbar adds up for a group is what its rows did.
TotalsTrue == BytesOwned /\ CountedOnce

\* Dismissing a row that ended does not move the footbar's counts or bytes
\* while other rows remain.
DismissKeepsTotals ==
    [][\A id \in DOMAIN tasks :
          tasks[id].status \in Terminal /\ Remove(id) /\ DOMAIN tasks' # {}
             => \A g \in DOMAIN groups :
                   /\ g \in DOMAIN groups'
                   /\ GroupDone(g)' = GroupDone(g)
                   /\ GroupBytes(g)' = GroupBytes(g)]_vars
=============================================================================
