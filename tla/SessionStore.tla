---------------------------- MODULE SessionStore ----------------------------
(***************************************************************************)
(* Saved sessions: the rows of the SQLite table and the passwords in the   *)
(* credential manager (session/store.rs), the windows that save and edit   *)
(* sessions (window/new_session), the sidebar that lists and deletes them  *)
(* (panel/sessions_sidebar/actions.rs) and the commands that tell it to    *)
(* list them again (app_state.rs, window/main_window/actions.rs).          *)
(*                                                                         *)
(* A row and its password live in two stores without a common transaction: *)
(* every operation is two steps on the background executor, one after the  *)
(* other, and operations run side by side.  What a row says is abstracted  *)
(* to the operation that wrote it, a password to the one that stored it.   *)
(***************************************************************************)
EXTENDS Naturals, Sequences, FiniteSets

CONSTANTS MaxOps,     \* bound: operations on the store
          MaxSaves,   \* bound: how many of them save a new session
          MaxFaults   \* bound: failing accesses to either store, and restarts

ASSUME StoreAssumption == MaxOps \in Nat /\ MaxSaves \in Nat /\ MaxFaults \in Nat

Ops == 1..MaxOps
Ids == 1..MaxSaves      \* primary keys: each save uses one up
Auths == {"password", "other"}   \* other: SSH by config, local shell, serial port

NoRow == [by |-> 0, born |-> 0, auth |-> "other"]
NoRows == [id \in Ids |-> NoRow]

VARIABLES
    rows,       \* the table: which operation wrote each row, and which inserted it
    nextId,     \* the AUTOINCREMENT counter
    secret,     \* the credential manager: the operation that stored each password, or 0
    issued,     \* operations begun so far
    kind, auth, target,   \* what each operation is, and the session it is about
    at,         \* its next step, or how it ended
    editing,    \* sessions with an edit window
    queue,      \* pending_commands
    shown,      \* sessions of the sidebar
    reload,     \* reload_in_flight: where the background task is
    pending,    \* reload_pending
    snapshot,   \* what the task has read
    error,      \* error of the sidebar
    deleting,   \* deleting_session_ids
    clean,      \* history: the last operation on a session ran alone and whole
    missed,     \* history: why the sidebar was not told of a change
    faults      \* failures so far

diskVars == <<rows, nextId, secret>>
opVars == <<issued, kind, auth, target, at>>
sidebarVars == <<shown, reload, pending, snapshot, error, deleting, missed>>
vars == <<diskVars, opVars, editing, queue, sidebarVars, clean, faults>>

Exists(id) == rows[id] # NoRow
OnDisk(n) == at[n] \in {"row", "secret"}
Busy(id) == \E n \in Ops : OnDisk(n) /\ target[n] = id

Init ==
    /\ rows = NoRows /\ nextId = 1
    /\ secret = [id \in Ids |-> 0]
    /\ issued = 0
    /\ kind = [n \in Ops |-> "none"] /\ auth = [n \in Ops |-> "other"]
    /\ target = [n \in Ops |-> 0]
    /\ at = [n \in Ops |-> "idle"]
    /\ editing = {} /\ queue = <<>>
    /\ shown = rows /\ reload = "idle" /\ pending = FALSE /\ snapshot = rows
    /\ error = "none" /\ deleting = {}
    /\ clean = [id \in Ids |-> TRUE] /\ missed = {}
    /\ faults = 0

Fault ==
    /\ faults < MaxFaults
    /\ faults' = faults + 1

-----------------------------------------------------------------------------
(* Operations begin on the user interface's thread. *)

Begin(k, a, id, first) ==
    LET n == issued + 1 IN
    /\ issued < MaxOps
    /\ issued' = n
    /\ kind' = [kind EXCEPT ![n] = k] /\ auth' = [auth EXCEPT ![n] = a]
    /\ target' = [target EXCEPT ![n] = id]
    /\ at' = [at EXCEPT ![n] = first]

\* The form is submitted: the session is saved in the background while the
\* main window is told to open its terminal.
Connect(a) ==
    /\ Cardinality({n \in Ops : kind[n] = "save"}) < MaxSaves
    /\ Begin("save", a, 0, "row")
    /\ queue' = Append(queue, "open")
    /\ UNCHANGED <<diskVars, editing, sidebarVars, clean, faults>>

\* open_edit loads the session into a window of its own.
OpenEdit(id) ==
    /\ shown[id] # NoRow /\ Exists(id) /\ issued < MaxOps
    /\ editing' = editing \cup {id}
    /\ UNCHANGED <<diskVars, opVars, queue, sidebarVars, clean, faults>>

\* The session is gone, or could not be loaded.
OpenEditFails(id) ==
    /\ shown[id] # NoRow /\ ~Exists(id)
    /\ error' = "operation"
    /\ UNCHANGED <<diskVars, opVars, editing, queue, shown, reload, pending,
                   snapshot, deleting, missed, clean, faults>>

\* Mutant: an edit that needs no password leaves the old one behind.
FirstOfEditKeepsSecret(a) == "row"

\* A row is written before its password, and a password deleted before the
\* row that no longer needs it is written.
FirstOfEdit(a) == IF a = "password" THEN "row" ELSE "secret"

\* save_edit_session; submit_in_flight is of one window, and a session may
\* have several.
SaveEdit(id, a) ==
    /\ id \in editing
    /\ Begin("update", a, id, FirstOfEdit(a))
    /\ clean' = [clean EXCEPT ![id] = ~Busy(id) /\ Exists(id)]
    /\ UNCHANGED <<diskVars, editing, queue, sidebarVars, faults>>

\* delete_session_by_id: one at a time for each session.
Delete(id) ==
    /\ shown[id] # NoRow /\ id \notin deleting
    /\ Begin("delete", "other", id, "secret")
    /\ deleting' = deleting \cup {id}
    /\ clean' = [clean EXCEPT ![id] = ~Busy(id)]
    /\ UNCHANGED <<diskVars, editing, queue, shown, reload, pending, snapshot,
                   error, missed, faults>>

-----------------------------------------------------------------------------
(* Steps of an operation on the background executor. *)

Step(n, next) ==
    /\ at' = [at EXCEPT ![n] = next]
    /\ UNCHANGED <<issued, kind, auth, editing, queue, sidebarVars>>

AfterRow(n) == IF auth[n] = "password" THEN "secret" ELSE "report"

\* INSERT INTO sessions: the key has never been used before.
InsertRow(n) ==
    /\ kind[n] = "save" /\ at[n] = "row" /\ nextId \in Ids
    /\ rows' = [rows EXCEPT ![nextId] = [by |-> n, born |-> n, auth |-> auth[n]]]
    /\ nextId' = nextId + 1
    /\ target' = [target EXCEPT ![n] = nextId]
    /\ Step(n, AfterRow(n))
    /\ UNCHANGED <<secret, clean, faults>>

\* UPDATE ... WHERE id: of a row that is gone it updates none, and succeeds.
UpdateRow(n) ==
    /\ kind[n] = "update" /\ at[n] = "row"
    /\ rows' = IF Exists(target[n])
               THEN [rows EXCEPT ![target[n]].by = n, ![target[n]].auth = auth[n]]
               ELSE rows
    /\ Step(n, AfterRow(n))
    /\ UNCHANGED <<nextId, secret, target, clean, faults>>

DeleteRow(n) ==
    /\ kind[n] = "delete" /\ at[n] = "row"
    /\ rows' = [rows EXCEPT ![target[n]] = NoRow]
    /\ Step(n, "report")
    /\ UNCHANGED <<nextId, secret, target, clean, faults>>

\* The database cannot be opened or written: the operation ends with an error.
RowFails(n) ==
    /\ at[n] = "row" /\ Fault
    /\ clean' = [id \in Ids |-> clean[id] /\ id # target[n]]
    /\ Step(n, "failed")
    /\ UNCHANGED <<diskVars, target>>

Stores(n) == auth[n] = "password"
AfterSecret(n) == IF Stores(n) THEN "report" ELSE "row"

\* store_ssh_password_if_present and delete_ssh_password_if_present.
WriteSecret(n) ==
    /\ at[n] = "secret"
    /\ secret' = [secret EXCEPT ![target[n]] = IF Stores(n) THEN n ELSE 0]
    /\ Step(n, AfterSecret(n))
    /\ UNCHANGED <<rows, nextId, target, clean, faults>>

\* A failing credential manager is logged, and the operation goes on.
SecretFails(n) ==
    /\ at[n] = "secret" /\ Fault
    /\ clean' = [clean EXCEPT ![target[n]] = FALSE]
    /\ Step(n, AfterSecret(n))
    /\ UNCHANGED <<diskVars, target>>

-----------------------------------------------------------------------------
(* Results come back to the user interface's thread. *)

\* pending_command: one reload in the queue is enough.
Coalesced(q) == IF \E i \in DOMAIN q : q[i] = "reload" THEN q ELSE Append(q, "reload")

\* start_reload_sessions_async
StartReload ==
    IF reload = "idle" THEN reload' = "started" /\ pending' = FALSE
                       ELSE reload' = reload /\ pending' = TRUE

Reported(n) ==
    /\ at[n] \in {"report", "failed"}
    /\ at' = [at EXCEPT ![n] = "done"]
    /\ auth' = [auth EXCEPT ![n] = "other"] /\ target' = [target EXCEPT ![n] = 0]
    /\ UNCHANGED <<diskVars, issued, kind, editing, shown, snapshot, clean, faults>>

\* spawn_store_op_detached: told by the main window, whatever became of its own.
SaveReported(n) ==
    /\ kind[n] = "save" /\ Reported(n)
    /\ queue' = IF at[n] = "report" THEN Coalesced(queue) ELSE Append(queue, "error")
    /\ UNCHANGED <<reload, pending, error, deleting, missed>>

\* save_edit_session: told by the window of the edit; a failure is shown there.
EditReported(n) ==
    /\ kind[n] = "update" /\ Reported(n)
    /\ queue' = IF at[n] = "report" THEN Coalesced(queue) ELSE queue
    /\ UNCHANGED <<reload, pending, error, deleting, missed>>

\* The window was closed before its operation ended: update_in fails.
EditOrphaned(n) ==
    /\ kind[n] = "update" /\ Reported(n)
    /\ missed' = IF at[n] = "report" THEN missed \cup {"closed"} ELSE missed
    /\ UNCHANGED <<queue, reload, pending, error, deleting>>

\* Mutant: the sidebar is not listed again.
DeleteReportedQuietly(n) ==
    /\ kind[n] = "delete" /\ Reported(n)
    /\ deleting' = deleting \ {target[n]}
    /\ error' = IF at[n] = "report" THEN error ELSE "operation"
    /\ UNCHANGED <<queue, reload, pending, missed>>

\* The sidebar waits for its own deletions, and lists what is left.
DeleteReported(n) ==
    /\ kind[n] = "delete" /\ Reported(n)
    /\ deleting' = deleting \ {target[n]}
    /\ error' = IF at[n] = "report" THEN error ELSE "operation"
    /\ StartReload
    /\ UNCHANGED <<queue, missed>>

Calls == {i \in DOMAIN queue : queue[i] \in {"open", "reload"}}
Errors == {i \in DOMAIN queue : queue[i] = "error"}
Clears == {i \in DOMAIN queue : queue[i] = "reload"}

\* process_pending_commands takes the whole queue: opening a terminal reloads
\* the sidebar too, and a reload command first clears the error of an operation.
ProcessPending ==
    /\ queue # <<>>
    /\ queue' = <<>>
    /\ IF Calls = {} THEN UNCHANGED <<reload, pending>>
       ELSE IF reload = "idle"
            THEN reload' = "started" /\ pending' = (\E i, j \in Calls : i # j)
            ELSE reload' = reload /\ pending' = TRUE
    /\ error' = IF \E i \in Errors : \A j \in Clears : j < i THEN "operation"
                ELSE IF Clears # {} /\ (error = "operation" \/ Errors # {}) THEN "none"
                ELSE error
    /\ UNCHANGED <<diskVars, opVars, editing, shown, snapshot, deleting, clean,
                   missed, faults>>

-----------------------------------------------------------------------------
(* The sidebar lists the sessions again: start_reload_sessions_async. *)

\* load_all_sessions
ReadList ==
    /\ reload = "started"
    /\ reload' = "read" /\ snapshot' = rows
    /\ missed' = {}
    /\ UNCHANGED <<diskVars, opVars, editing, queue, shown, pending, error,
                   deleting, clean, faults>>

ReadListFails ==
    /\ reload = "started" /\ Fault
    /\ reload' = "failed"
    /\ UNCHANGED <<diskVars, opVars, editing, queue, shown, pending, snapshot,
                   error, deleting, clean, missed>>

\* Mutant: a request that came meanwhile is forgotten.
FinishReloadOnce ==
    /\ reload \in {"read", "failed"}
    /\ IF reload = "read"
       THEN /\ shown' = snapshot
            /\ error' = IF error = "load" THEN "none" ELSE error
            /\ UNCHANGED missed
       ELSE /\ error' = "load"
            /\ missed' = missed \cup {"unread"}
            /\ UNCHANGED shown
    /\ reload' = "idle" /\ pending' = FALSE /\ snapshot' = NoRows
    /\ UNCHANGED <<diskVars, opVars, editing, queue, deleting, clean, faults>>

\* The list is shown; a request that came meanwhile starts the next one.
FinishReload ==
    /\ reload \in {"read", "failed"}
    /\ IF reload = "read"
       THEN /\ shown' = snapshot
            /\ error' = IF error = "load" THEN "none" ELSE error
            /\ UNCHANGED missed
       ELSE /\ error' = "load"
            /\ missed' = missed \cup {"unread"}
            /\ UNCHANGED shown
    /\ reload' = IF pending THEN "started" ELSE "idle"
    /\ pending' = FALSE /\ snapshot' = NoRows
    /\ UNCHANGED <<diskVars, opVars, editing, queue, deleting, clean, faults>>

-----------------------------------------------------------------------------

\* The program ends between any two steps: the next one reads the list as it
\* builds the sidebar, and knows nothing of the operations under way.
Quit ==
    /\ Fault
    /\ at' = [n \in Ops |-> IF at[n] = "idle" THEN "idle" ELSE "done"]
    /\ clean' = [id \in Ids |-> clean[id] /\ ~Busy(id)]
    /\ editing' = {} /\ queue' = <<>> /\ deleting' = {}
    /\ reload' = "idle" /\ pending' = FALSE
    /\ \/ shown' = rows /\ error' = "none" /\ missed' = {}
       \/ shown' = NoRows /\ error' = "load" /\ missed' = {"unread"}
    /\ snapshot' = NoRows
    /\ auth' = [n \in Ops |-> "other"] /\ target' = [n \in Ops |-> 0]
    /\ UNCHANGED <<diskVars, issued, kind>>

OnScreen(id) == \/ OpenEdit(id) \/ OpenEditFails(id)
                \/ (\E a \in Auths : SaveEdit(id, a))
                \/ Delete(id)

StoreStep(n) == InsertRow(n) \/ UpdateRow(n) \/ DeleteRow(n) \/ WriteSecret(n)
StoreFault(n) == RowFails(n) \/ SecretFails(n)
Report(n) == SaveReported(n) \/ EditReported(n) \/ EditOrphaned(n) \/ DeleteReported(n)

Next == \/ \E a \in Auths : Connect(a)
        \/ \E id \in Ids : OnScreen(id)
        \/ \E n \in Ops : StoreStep(n) \/ StoreFault(n) \/ Report(n)
        \/ ProcessPending \/ ReadList \/ ReadListFails \/ FinishReload
        \/ Quit

Spec == Init /\ [][Next]_vars

Background == (\E n \in Ops : StoreStep(n)) \/ ReadList
Foreground == (\E n \in Ops : Report(n)) \/ ProcessPending \/ FinishReload

\* The background executor goes on with some task, and the user interface's
\* thread with some result or queued command, as long as there is one.
FairSpec == Spec /\ WF_vars(Background) /\ WF_vars(Foreground)

-----------------------------------------------------------------------------
(* Properties. *)

\* Row and password agree: a password session has the password that was typed
\* with it, any other session and any deleted one has none.
Agree(id) == secret[id] = IF Exists(id) /\ rows[id].auth = "password" THEN rows[id].by ELSE 0

\* A session never logs in with a password saved for another one, a deleted
\* one whose password was left behind included.
NoneInherited ==
    \A id \in Ids : Exists(id) /\ secret[id] # 0 /\ kind[secret[id]] = "save"
                    => secret[id] = rows[id].born

\* Once an operation ran alone and whole on a session, its row and its password
\* agree, whatever went wrong before; and whatever failed, was cut short or
\* overlapped, no session inherits a password.
SecretsFollowRows ==
    /\ \A id \in Ids : clean[id] /\ ~Busy(id) => Agree(id)
    /\ NoneInherited

\* Operations that have changed the table and not reported it yet.
Unreported == {n \in Ops : at[n] = "report" \/ (at[n] = "secret" /\ Stores(n))}

\* Somebody has yet to read the table.
ToBeRead == \/ reload \in {"started", "failed"} \/ pending
            \/ Calls # {} \/ Unreported # {}

\* Why nobody will: the window that should have asked was closed while its
\* edit was being saved, or the list could not be read and an error says so.
Excused == "closed" \in missed \/ ("unread" \in missed /\ error # "none")

\* A sidebar that does not show what the table says is about to be listed
\* again; no request is lost because a listing is already under way.
Stale == shown # rows
SidebarOwed == Stale => ToBeRead \/ Excused \/ (reload = "read" /\ snapshot = rows)

\* And once nobody changes sessions any more it does show them.
SidebarSettles == Stale ~> (~Stale \/ Excused)
=============================================================================
