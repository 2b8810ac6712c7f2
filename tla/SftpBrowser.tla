----------------------------- MODULE SftpBrowser -----------------------------
(***************************************************************************)
(* The directory tree of the SFTP panel: TreeState of                      *)
(* crates/gpui_sftp/src/state.rs, and the operations that read and change  *)
(* remote directories (view/table/navigation.rs and actions.rs).           *)
(*                                                                         *)
(* Every request goes to the thread of the SSH session, which serves one   *)
(* after the other (wezterm-ssh, sessioninner.rs); the UI thread takes the *)
(* answers in the order they were given.  A step is a callback of the UI   *)
(* thread, or one request served.                                          *)
(*                                                                         *)
(* A path is the sequence of its names below the login directory, and its  *)
(* last name tells directories from files.  Sorting decides where a row    *)
(* is, never whether; a row addressed by its number may be any row.  The   *)
(* filter of hidden names and the previews are left out.                   *)
(***************************************************************************)
EXTENDS Naturals, Sequences, FiniteSets

CONSTANTS Names,       \* names of files and directories
          DirNames,    \* names of directories
          Paths,       \* the paths below the login directory
          Others,      \* bound: paths that come and go without the panel
          None,        \* no deletion
          MaxUnderWay  \* bound: requests under way when the user acts

Home == <<>>
Parent(p) == SubSeq(p, 1, Len(p) - 1)
IsDir(p) == p = Home \/ p[Len(p)] \in DirNames
Dirs == {p \in Paths \cup {Home} : IsDir(p)}
Deletions == [left : SUBSET Paths, parents : SUBSET Dirs]
Within(p, q) == Len(p) <= Len(q) /\ SubSeq(q, 1, Len(p)) = p

ASSUME BrowserAssumption ==
    /\ IsFiniteSet(Paths) /\ Paths \subseteq Seq(Names) \ {Home}
    /\ \A p \in Paths : Parent(p) \in Dirs
    /\ None \notin Deletions
    /\ Others \subseteq Paths
    /\ MaxUnderWay \in Nat

VARIABLES
    disk,        \* what the server has
    tree,        \* TreeState: root, children of each node, nodes loaded, expanded
    visible,     \* the rows drawn, computed from the tree
    selected,    \* selected_ids
    loading,     \* directories with a spinner
    online,      \* the panel has its session
    deletion,    \* the delete task: paths to go, parents to refresh
    requests,    \* requests to the session, oldest first
    answers,     \* answers not yet handled
    fresh,       \* history: directories unchanged since they were last listed
    owed         \* history: directories changed that an operation owes a listing

viewVars == <<tree, visible, selected, loading>>
serverVars == <<disk, fresh, owed>>
vars == <<serverVars, viewVars, online, deletion, requests, answers>>

-----------------------------------------------------------------------------
(* The tree and its rows. *)

\* TreeState::new
NewTree(d) == [root |-> d, kids |-> [x \in {d} |-> {}], loaded |-> {}, expanded |-> {d}]

\* visible_rows_sorted without the root row: every directory on the way down is
\* expanded and has the next one as its child.
Rows(t) ==
    {p \in Paths : p # t.root /\ Within(t.root, p)
        /\ \A i \in Len(t.root)..(Len(p) - 1) :
              LET a == SubSeq(p, 1, i)
              IN  a \in t.expanded /\ a \in DOMAIN t.kids /\ SubSeq(p, 1, i + 1) \in t.kids[a]}

\* Mutant: entries that are gone stay.
Merge(t, d, found) ==
    LET nodes == DOMAIN t.kids \cup found
    IN  [t EXCEPT !.kids = [x \in nodes |->
                               IF x = d THEN found \cup (IF x \in DOMAIN t.kids THEN t.kids[x] ELSE {})
                               ELSE IF x \in DOMAIN t.kids THEN t.kids[x] ELSE {}],
                  !.loaded = IF d \in nodes THEN @ \cup {d} ELSE @]

\* upsert_children: new entries become nodes, known ones keep what they have;
\* the listed directory gets its children if it is a node itself.
UpsertChildren(t, d, found) ==
    LET nodes == DOMAIN t.kids \cup found
    IN  [t EXCEPT !.kids = [x \in nodes |-> IF x = d THEN found
                                            ELSE IF x \in DOMAIN t.kids THEN t.kids[x] ELSE {}],
                  !.loaded = IF d \in nodes THEN @ \cup {d} ELSE @]

\* rebuild_visible: rows are drawn again and the selection keeps to them.
RebuildVisible(t, sel) ==
    /\ visible' = Rows(t)
    /\ selected' = sel \cap Rows(t)

Orders(S) == {s \in [1..Cardinality(S) -> S] : {s[i] : i \in DOMAIN s} = S}
Request(op, at, to) == [op |-> op, at |-> at, to |-> to]

\* refresh_dir for the directories ds, on top of a tree t, spinners and a
\* selection; without a session it only says so, and drawing an unchanged tree
\* again leaves the rows as they are.
RefreshDirs(t, spin, sel, ds) ==
    LET go  == IF online THEN ds ELSE {}
        new == [t EXCEPT !.expanded = @ \cup go]
    IN  /\ tree' = new
        /\ loading' = spin \cup go
        /\ RebuildVisible(new, sel)
        /\ \E s \in Orders(go) :
              requests' = requests \o [i \in DOMAIN s |-> Request("list", s[i], s[i])]

-----------------------------------------------------------------------------
(* The user. *)

\* Clicks, ranges and drags select rows that are drawn.
Select(S) ==
    /\ S # selected
    /\ selected' = S
    /\ UNCHANGED <<serverVars, tree, visible, loading, online, deletion, requests, answers>>

\* refresh_at: the root and every open directory in view.
RefreshOpen ==
    /\ online
    /\ RefreshDirs(tree, loading, selected,
                   {d \in Rows(tree) \cup {tree.root} : IsDir(d) /\ d \in tree.expanded})
    /\ UNCHANGED <<serverVars, online, deletion, answers>>

\* The arrow of a directory; one that was never read is read.
ToggleDir(d) ==
    /\ d \in visible /\ IsDir(d)
    /\ IF d \in tree.expanded
       THEN RefreshDirs([tree EXCEPT !.expanded = @ \ {d}], loading, selected, {})
       ELSE RefreshDirs([tree EXCEPT !.expanded = @ \cup {d}], loading, selected,
                        IF d \in tree.loaded THEN {} ELSE {d})
    /\ UNCHANGED <<serverVars, online, deletion, answers>>

\* cd: a double click, a breadcrumb or a path typed in, existing or not.
Cd(d) ==
    /\ online
    /\ RefreshDirs(NewTree(d), {}, selected, {d})
    /\ UNCHANGED <<serverVars, online, deletion, answers>>

\* The SSH terminal is closed.
Disconnect ==
    /\ online
    /\ online' = FALSE
    /\ loading' = {}
    /\ UNCHANGED <<serverVars, tree, visible, selected, deletion, requests, answers>>

\* The dialogs of open_rename and open_new_folder stay open while rows come and
\* go, so what they were opened on need not be drawn any more at confirm.  The
\* name typed is put behind the dialog's directory as it is: with a slash or dots
\* in it, `to` may be anywhere.
ConfirmRename(p, to) ==
    /\ online
    /\ IsDir(to) = IsDir(p)
    /\ requests' = Append(requests, Request("rename", p, to))
    /\ UNCHANGED <<serverVars, viewVars, online, deletion, answers>>

ConfirmFolder(parent, to) ==
    /\ online
    /\ IsDir(to)
    /\ requests' = Append(requests, Request("create", parent, to))
    /\ UNCHANGED <<serverVars, viewVars, online, deletion, answers>>

\* move_remote_entry_to_dir: a file dropped on a directory or a blank area.
Move(p, to) ==
    /\ online
    /\ p \in visible /\ ~IsDir(p)
    /\ Parent(to) \in {tree.root} \cup visible /\ to[Len(to)] = p[Len(p)] /\ to # p
    /\ requests' = Append(requests, Request("move", p, to))
    /\ UNCHANGED <<serverVars, viewVars, online, deletion, answers>>

RemoveNext(left, parents) ==
    \E p \in left :
        /\ deletion' = [left |-> left \ {p}, parents |-> parents]
        /\ requests' = Append(requests, Request("remove", p, p))

\* delete_target_ids: the selection, or the row `row` when nothing is selected.
DeleteTargets(row) == IF selected # {} THEN selected ELSE {row}

\* delete_selected_ids, one deletion at a time.
Delete(row) ==
    /\ online /\ deletion = None
    /\ row \in visible
    /\ RemoveNext(DeleteTargets(row), {})
    /\ UNCHANGED <<serverVars, viewVars, online, answers>>

\* finish_upload_batch reads the directory uploaded to.
UploadEnds(d) ==
    /\ online
    /\ RefreshDirs(tree, loading, selected, {d})
    /\ UNCHANGED <<serverVars, online, deletion, answers>>

-----------------------------------------------------------------------------
(* The server. *)

Listing(files, d) == {p \in files : Parent(p) = d}

Moved(files, p, to) ==
    {q \in files : ~Within(p, q)}
        \cup {to \o SubSeq(q, Len(p) + 1, Len(q)) : q \in {x \in files : Within(p, x)}}

\* What a request leaves on the server when it is granted.
Effect(r) ==
    CASE r.op = "create" -> disk \cup {r.to}
      [] r.op \in {"rename", "move"} -> Moved(disk, r.at, r.to)
      [] r.op = "remove" -> disk \ {r.at}
      [] OTHER -> disk

Grantable(r) ==
    CASE r.op = "list" -> r.at \in disk \cup {Home}
      [] r.op = "create" -> r.to \notin disk /\ Parent(r.to) \in disk \cup {Home}
      [] r.op \in {"rename", "move"} -> /\ r.at \in disk /\ r.to \notin disk \ {r.at}
                                        /\ r.to = r.at \/ ~Within(r.at, r.to)
                                        /\ Parent(r.to) \in disk \cup {Home}
                                        /\ Effect(r) \subseteq Paths
      [] r.op = "remove" -> r.at \in disk /\ Listing(disk, r.at) = {}

\* The directories a request other than a listing changes.
Touched(r) ==
    CASE r.op = "create" -> {Parent(r.to)}
      [] r.op \in {"rename", "move", "remove"} -> {Parent(r.at), Parent(r.to)}
      [] OTHER -> {}

\* SftpOpKind: the operations whose name is typed, and the directory their dialog
\* was opened in.
NameTyped(r) == r.op \in {"create", "rename"}
DialogDir(r) == IF r.op = "create" THEN r.at ELSE Parent(r.at)

\* A change owes the panel a listing of every directory it is made in; a name that
\* leads out of the dialog's directory is the user's own affair.
Owes(r) == IF NameTyped(r) THEN Touched(r) \cap {DialogDir(r)} ELSE Touched(r)

Unchanged(files) ==
    {d \in fresh : d \in files \cup {Home} /\ Listing(files, d) = Listing(disk, d)}

Answer(r, ok) == [op |-> r.op, at |-> r.at, to |-> r.to, ok |-> ok,
                  found |-> IF ok /\ r.op = "list" THEN Listing(disk, r.at) ELSE {}]

\* The oldest request is served, or refused.
Serve ==
    /\ requests # <<>>
    /\ LET r == Head(requests)
       IN  \/ /\ Grantable(r)
              /\ disk' = Effect(r)
              /\ fresh' = IF r.op = "list" THEN fresh \cup {r.at} ELSE Unchanged(Effect(r))
              /\ owed' = IF r.op = "list" THEN owed \ {r.at} ELSE owed \cup Owes(r)
              /\ answers' = Append(answers, Answer(r, TRUE))
           \/ /\ r.op = "list" => owed' = owed \ {r.at}
              /\ r.op # "list" => UNCHANGED owed
              /\ answers' = Append(answers, Answer(r, FALSE))
              /\ UNCHANGED <<disk, fresh>>
    /\ requests' = Tail(requests)
    /\ UNCHANGED <<viewVars, online, deletion>>

\* Somebody else, an upload for one, adds or removes an entry.
Elsewhere(p) ==
    /\ IF p \in disk THEN Listing(disk, p) = {} ELSE Parent(p) \in disk \cup {Home}
    /\ disk' = IF p \in disk THEN disk \ {p} ELSE disk \cup {p}
    /\ fresh' = Unchanged(disk')
    /\ UNCHANGED <<owed, viewVars, online, deletion, requests, answers>>

-----------------------------------------------------------------------------
(* Answers, on the UI thread. *)

SpinnersAfter(a) == loading \ {a.at}

TreeAfter(a) == IF a.ok THEN UpsertChildren(tree, a.at, a.found) ELSE tree

\* Mutant: the rows are not drawn again.
ListedUndrawn(a) ==
    /\ tree' = TreeAfter(a)
    /\ loading' = SpinnersAfter(a)
    /\ UNCHANGED <<visible, selected, deletion, requests>>

\* refresh_dir after its await: nothing is compared with what was asked.
Listed(a) ==
    /\ tree' = TreeAfter(a)
    /\ loading' = SpinnersAfter(a)
    /\ RebuildVisible(TreeAfter(a), selected)
    /\ UNCHANGED <<deletion, requests>>

\* Mutant: a move refreshes the directory the file came from.
ToRefreshSource(a) == IF a.ok THEN {Parent(a.at)} ELSE {}

\* confirm reads its dialog's directory, whatever name was typed; a move both ends,
\* a deletion where it removed.
ToRefresh(a) ==
    CASE ~a.ok -> {}
      [] a.ok /\ NameTyped(a) -> {DialogDir(a)}
      [] OTHER -> Touched(a)

Changed(a) ==
    /\ RefreshDirs(tree, loading, selected, ToRefresh(a))
    /\ UNCHANGED deletion

\* The delete task goes on; in the end the selection is cleared.
Removed(a) ==
    LET parents == deletion.parents \cup ToRefresh(a)
    IN  \/ /\ deletion.left # {}
           /\ RemoveNext(deletion.left, parents)
           /\ UNCHANGED viewVars
        \/ /\ deletion.left = {}
           /\ RefreshDirs(tree, loading, {}, parents)
           /\ deletion' = None

TakeAnswer ==
    /\ answers # <<>>
    /\ LET a == Head(answers)
       IN  \/ a.op = "list" /\ Listed(a)
           \/ a.op \in {"create", "rename", "move"} /\ Changed(a)
           \/ a.op = "remove" /\ Removed(a)
    /\ answers' = Tail(answers)
    /\ UNCHANGED <<serverVars, online>>

-----------------------------------------------------------------------------

\* bootstrap_root has found the login directory, on a server with whatever files,
\* and reads it; the panel's first tree had no rows.
Init ==
    /\ disk \in {S \in SUBSET Paths : \A p \in S : Parent(p) \in S \cup {Home}}
    /\ tree = NewTree(Home) /\ visible = {} /\ selected = {}
    /\ loading = {Home} /\ online = TRUE
    /\ deletion = None
    /\ requests = <<Request("list", Home, Home)>> /\ answers = <<>>
    /\ fresh = {} /\ owed = {}

Room == Len(requests) + Len(answers) < MaxUnderWay

User ==
    /\ Room
    /\ \/ \E S \in SUBSET visible : Select(S)
       \/ RefreshOpen \/ Disconnect
       \/ \E d \in Dirs : ToggleDir(d) \/ Cd(d) \/ UploadEnds(d)
       \/ \E to \in Paths : \/ \E parent \in Dirs : ConfirmFolder(parent, to)
                           \/ \E p \in Paths : ConfirmRename(p, to) \/ Move(p, to)
       \/ \E row \in Paths : Delete(row)

Next == User \/ Serve \/ TakeAnswer \/ \E p \in Others : Elsewhere(p)

Spec == Init /\ [][Next]_vars

-----------------------------------------------------------------------------

\* A listing of d was asked for and is not in the tree yet.
Asked(d) == \E i \in DOMAIN requests : requests[i].op = "list" /\ requests[i].at = d
Told(d) == \E i \in DOMAIN answers : answers[i].op = "list" /\ answers[i].at = d

\* The rows drawn are the tree's at all times, whatever answer came in late, and
\* nothing is selected that is not drawn: Delete acts on the selection.
RowsInStep ==
    /\ visible = Rows(tree)
    /\ selected \subseteq visible

\* A directory that did not change since it was last listed is shown as it is,
\* however many listings of it, changes of directory and failures overlapped:
\* answers of overlapping listings never leave the older one behind.
ListingsCurrent ==
    \A d \in fresh \cap tree.loaded : ~Told(d) => tree.kids[d] = Listing(disk, d)

\* What a move, a deletion, a new folder or a new name changed is going to be listed
\* again: both ends of a move, every directory a selection was deleted from, and the
\* directory of the dialog.  A typed name that leads elsewhere changes a directory
\* that nobody lists; of that nothing is said.  A spinner is of a listing under way.
ChangesFollowedUp ==
    /\ loading \subseteq {d \in Dirs : Asked(d) \/ Told(d)}
    /\ online => \A d \in owed :
          \/ Asked(d)
          \/ \E i \in DOMAIN answers : answers[i].ok /\ d \in Owes(answers[i])
          \/ deletion # None /\ d \in deletion.parents
=============================================================================
