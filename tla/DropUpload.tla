----------------------------- MODULE DropUpload -----------------------------
(***************************************************************************)
(* Files dropped on an SSH terminal: module sftp_upload of                 *)
(* crates/gpui_term/src/terminal.rs (names planned on the server, a queue  *)
(* of workers per drop, the loop that receives their messages), the events *)
(* it emits on the terminal, and the window that turns them into rows of   *)
(* the transfer list (termua/src/window/main_window/actions/sftp.rs).      *)
(*                                                                         *)
(* The pool and the list are shared with the SFTP panel: `rival` is one of *)
(* its workers, as far as the pool knows it.  The terminal may be closed   *)
(* at any time: the tasks of a drop go on, but emit nothing any more.      *)
(***************************************************************************)
EXTENDS Integers, Sequences, FiniteSets

CONSTANTS Files,       \* local files, one worker each; all of one base name
          Drops,       \* drops on the terminal, one upload batch each
          Plan,        \* the files of each drop, in order; each at one place of one
          Chunks,      \* length of each file, in chunks
          Unsized,     \* files whose size could not be read: size = 0
          MaxSuffix,   \* last suffix tried for a remote name (999 in the code)
          Taken,       \* remote names in use before the first drop
          Foreign,     \* the file behind a name in use
          Absent,      \* no file under a remote name, or no name yet
          MaxPermits, Requests  \* of the permit pool

ASSUME DropAssumption ==
    /\ IsFiniteSet(Files)
    /\ Plan \in [Drops -> Seq(Files)]
    /\ \A f \in Files : \E b \in Drops : \E i \in DOMAIN Plan[b] : Plan[b][i] = f
    /\ \A b, c \in Drops : \A i \in DOMAIN Plan[b], j \in DOMAIN Plan[c] :
          Plan[b][i] = Plan[c][j] => b = c /\ i = j
    /\ Chunks \in [Files -> Nat]
    /\ Unsized \subseteq Files
    /\ MaxSuffix \in Nat /\ Taken \subseteq 0..MaxSuffix
    /\ Absent \notin Files \cup Nat \cup {Foreign} /\ Foreign \notin Files
    /\ "none" \notin Drops

VARIABLES
    max, inflight, waiters, st, lost,            \* the permit pool
    tasks, order, groups, groupTasks, retired,   \* the transfer list
    stage,    \* where each drop is in run_start
    probe,    \* the suffix a drop asks the server about while it plans
    name,     \* each file's planned remote name, by its suffix
    limit,    \* max_concurrency of each drop
    active,   \* workers of a drop whose end is not known to its loop
    phase,    \* where each worker is
    sent,     \* chunks written by each worker
    cancel,   \* files whose cancel flag is set
    chan,     \* each drop's channel of UploadMsg
    uploaded, \* files each drop's loop counts as uploaded
    entry,    \* remote directory: the file behind each name, by its creator
    handle,   \* the remote file each worker has open
    data,     \* contents of a remote file: whose chunk stands at each place
    alive,    \* the terminal exists
    running,  \* sftp_upload_active_groups of the terminal
    emitted,  \* terminal events not handled by the window yet
    told,     \* what the window said about the end of each drop
    timers    \* files with a dismiss timer running

poolVars == <<max, inflight, waiters, st, lost>>
listVars == <<tasks, order, groups, groupTasks, retired>>
dropVars == <<stage, probe, name, limit, active, uploaded>>
workVars == <<phase, sent, chan>>
serverVars == <<entry, handle, data>>
windowVars == <<emitted, told, timers>>
vars == <<poolVars, listVars, dropVars, workVars, serverVars, windowVars,
          cancel, alive, running>>

rival == "rival"
Pool == INSTANCE PermitPool WITH
            Tasks <- Files \cup {rival}, Cancellable <- {}, MaxAbandoned <- 0, Dead <- "dead"

List == INSTANCE TransferCenter WITH
            Ids <- Files, Groups <- Drops, NoGroup <- "none",
            Totals <- 0..1, Reported <- {}

Members(b) == {Plan[b][i] : i \in DOMAIN Plan[b]}
Of[f \in Files] == CHOOSE b \in Drops : f \in Members(b)
Index[f \in Files] == CHOOSE i \in DOMAIN Plan[Of[f]] : Plan[Of[f]][i] = f
Size(f) == IF f \in Unsized THEN 0 ELSE Chunks[f]
Bounded(f, n) == IF n < Size(f) THEN n ELSE Size(f)

\* A drop steps over names it reserved itself even past the last suffix.
Names == 0..(MaxSuffix + Cardinality(Files))
Verdicts == {"Finished", "Cancelled", "Failed"}

\* Messages of a worker, and the terminal's events about a file.
Msg(kind, f, n) == [kind |-> kind, file |-> f, sent |-> n]
Send(f, msgs) == chan' = [chan EXCEPT ![Of[f]] = @ \o msgs]

\* Terminal::update of a task that may outlive the terminal: without it
\* nothing is emitted.
Emit(events) == emitted' = IF alive THEN emitted \o events ELSE emitted

\* One progress event for each file of a drop, in order.
Announce(b) == [i \in DOMAIN Plan[b] |-> Msg("Progress", Plan[b][i], 0)]
Notice(b, kind, n) == <<[kind |-> kind, drop |-> b, count |-> n]>>

Init ==
    /\ Pool!Init /\ List!Init
    /\ stage = [b \in Drops |-> "none"]
    /\ probe = [b \in Drops |-> 0]
    /\ name = [f \in Files |-> Absent]
    /\ limit = [b \in Drops |-> 1]
    /\ active = [b \in Drops |-> 0]
    /\ uploaded = [b \in Drops |-> {}]
    /\ phase = [f \in Files |-> "waiting"]
    /\ sent = [f \in Files |-> 0]
    /\ chan = [b \in Drops |-> <<>>]
    /\ entry = [k \in Names |-> IF k \in Taken THEN Foreign ELSE Absent]
    /\ handle = [f \in Files |-> Absent]
    /\ data = [f \in Files \cup {Foreign} |-> <<>>]
    /\ cancel = {} /\ timers = {}
    /\ alive = TRUE /\ running = 0
    /\ emitted = <<>>
    /\ told = [b \in Drops |-> {}]

\* The window handles what an update emitted before the UI thread runs
\* anything else.
Quiet == emitted = <<>>

-----------------------------------------------------------------------------
(* A drop: start_sftp_upload and run_start. *)

\* The drop is confirmed: placeholders, and the pool takes the setting n.
Confirm(b, n) ==
    /\ Quiet /\ alive
    /\ stage[b] = "none"
    /\ stage' = [stage EXCEPT ![b] = "resolving"]
    /\ limit' = [limit EXCEPT ![b] = Pool!Clamp(n)]
    /\ Pool!SetMax(n) \/ (Pool!Clamp(n) = max /\ UNCHANGED poolVars)
    /\ running' = running + 1
    /\ Emit(Announce(b))
    /\ UNCHANGED <<listVars, probe, name, active, uploaded, workVars, serverVars,
                   told, timers, cancel, alive>>

\* cancel_upload: the whole drop is given up before any worker.
GiveUp(b) ==
    /\ stage' = [stage EXCEPT ![b] = "over"]
    /\ Emit(Notice(b, "Aborted", 0))
    /\ running' = IF alive THEN running - 1 ELSE running
    /\ UNCHANGED <<probe, name, active, phase>>

\* Mutant: names are not reserved within a drop.
ReservedNone(b, names) == {}

\* Names reserved for earlier files of the drop.
Reserved(b, names) == {names[f] : f \in Members(b)} \ {Absent}

\* The first suffix from k on that no file of the drop has reserved.
Unreserved(b, names, k) ==
    CHOOSE j \in k..(k + Cardinality(Files)) :
        /\ j \notin Reserved(b, names)
        /\ \A i \in k..(j - 1) : i \in Reserved(b, names)

\* prepare_upload up to the first metadata request.
Resolve(b) ==
    /\ Quiet
    /\ stage[b] = "resolving"
    /\ \/ /\ Plan[b] # <<>>
          /\ stage' = [stage EXCEPT ![b] = "planning"]
          /\ UNCHANGED <<probe, name, active, phase, emitted, running>>
       \/ GiveUp(b)
    /\ UNCHANGED <<poolVars, listVars, limit, uploaded, sent, chan, serverVars,
                   told, timers, cancel, alive>>

\* Files of drop b that wait in its queue, given the phases of all workers.
Queue(b, ph) == {f \in Members(b) : ph[f] = "waiting"}

\* try_spawn_workers with n workers active: the workers that start.
Spawned(b, ph, n) ==
    {f \in Queue(b, ph) :
        n + Cardinality({g \in Queue(b, ph) : Index[g] <= Index[f]}) <= limit[b]}

SpawnWorkers(b, ph, n) ==
    LET now == Spawned(b, ph, n)
    IN  /\ phase' = [f \in Files |-> IF f \in now THEN "spawned" ELSE ph[f]]
        /\ active' = [active EXCEPT ![b] = n + Cardinality(now)]

Unplanned(b) == {f \in Members(b) : name[f] = Absent}
NextFile(b) == CHOOSE f \in Unplanned(b) : \A g \in Unplanned(b) : Index[f] <= Index[g]

\* plan_files: the server answers whether the name is taken.
MetadataReturns(b) ==
    /\ Quiet
    /\ stage[b] = "planning"
    /\ \/ GiveUp(b)
       \/ /\ entry[probe[b]] # Absent
          /\ probe[b] < MaxSuffix
          /\ probe' = [probe EXCEPT ![b] = Unreserved(b, name, @ + 1)]
          /\ UNCHANGED <<stage, name, active, phase, emitted, running>>
       \/ /\ entry[probe[b]] = Absent
          /\ LET f     == NextFile(b)
                 names == [name EXCEPT ![f] = probe[b]]
             IN  /\ name' = names
                 /\ IF Unplanned(b) # {f}
                    THEN /\ probe' = [probe EXCEPT ![b] = Unreserved(b, names, 0)]
                         /\ UNCHANGED <<stage, active, phase, emitted>>
                    ELSE /\ stage' = [stage EXCEPT ![b] = "running"]
                         /\ Emit(Announce(b))
                         /\ SpawnWorkers(b, phase, 0)
                         /\ UNCHANGED probe
          /\ UNCHANGED running
    /\ UNCHANGED <<poolVars, listVars, limit, uploaded, sent, chan, serverVars,
                   told, timers, cancel, alive>>

EndsWorker(m) == m.kind \in Verdicts

\* The event a message becomes: a failure is shown as a cancellation.
EventOf(m) == IF m.kind = "Failed" THEN [m EXCEPT !.kind = "Cancelled"] ELSE m

\* One turn of run_upload_loop: the message becomes an event, workers take the
\* place of the one that ended, and after the last the drop is over.
Receive(b) ==
    /\ Quiet
    /\ stage[b] = "running" /\ chan[b] # <<>>
    /\ LET m    == Head(chan[b])
           n    == active[b] - (IF EndsWorker(m) THEN 1 ELSE 0)
           done == uploaded[b] \cup (IF m.kind = "Finished" THEN {m.file} ELSE {})
       IN  /\ uploaded' = [uploaded EXCEPT ![b] = done]
           /\ IF EndsWorker(m) THEN SpawnWorkers(b, phase, n) ELSE UNCHANGED <<phase, active>>
           /\ IF n = 0 /\ Queue(b, phase) = {}
              THEN /\ stage' = [stage EXCEPT ![b] = "over"]
                   /\ Emit(<<EventOf(m)>> \o Notice(b, "Complete", Cardinality(done)))
                   /\ running' = IF alive THEN running - 1 ELSE running
              ELSE Emit(<<EventOf(m)>>) /\ UNCHANGED <<stage, running>>
    /\ chan' = [chan EXCEPT ![b] = Tail(@)]
    /\ UNCHANGED <<poolVars, listVars, probe, name, limit, sent, serverVars,
                   told, timers, cancel, alive>>

-----------------------------------------------------------------------------
(* A worker: upload_one_file. *)

EndWith(f, msgs) ==
    /\ Send(f, msgs)
    /\ phase' = [phase EXCEPT ![f] = "returning"]

\* The flag is read once before the permit is waited for.
WorkerStarts(f) ==
    /\ phase[f] = "spawned"
    /\ \/ /\ f \in cancel
          /\ Send(f, <<Msg("Cancelled", f, 0)>>)
          /\ phase' = [phase EXCEPT ![f] = "gone"]
          /\ UNCHANGED poolVars
       \/ /\ f \notin cancel
          /\ Pool!Acquire(f)
          /\ phase' = [phase EXCEPT ![f] = "acquiring"]
          /\ UNCHANGED chan
    /\ UNCHANGED <<listVars, dropVars, sent, serverVars, windowVars, cancel, alive, running>>

GotPermit(f) ==
    /\ phase[f] = "acquiring"
    /\ (st[f] = "holding" /\ UNCHANGED poolVars) \/ Pool!Resume(f)
    /\ phase' = [phase EXCEPT ![f] = "opening"]
    /\ UNCHANGED <<listVars, dropVars, sent, chan, serverVars, windowVars, cancel, alive, running>>

\* Top of copy_local_to_remote's loop, after the messages `report`.
LoopTop(f, report) ==
    /\ phase' = [phase EXCEPT ![f] = IF f \in cancel THEN "removing" ELSE "reading"]
    /\ Send(f, report)

\* The remote file is opened, created or cut to nothing; then the local one.
OpenFiles(f) ==
    /\ phase[f] = "opening"
    /\ \/ EndWith(f, <<Msg("Failed", f, 0)>>) /\ UNCHANGED serverVars
       \/ LET file == IF entry[name[f]] = Absent THEN f ELSE entry[name[f]]
          IN  /\ entry' = [entry EXCEPT ![name[f]] = file]
              /\ handle' = [handle EXCEPT ![f] = file]
              /\ data' = [data EXCEPT ![file] = <<>>]
              /\ LoopTop(f, <<>>) \/ EndWith(f, <<Msg("Failed", f, 0)>>)
    /\ UNCHANGED <<poolVars, listVars, dropVars, sent, windowVars, cancel, alive, running>>

\* Mutant: a short read ends the loop as end-of-file does.
ReadShort(f) ==
    /\ phase[f] = "reading"
    /\ EndWith(f, <<Msg("Progress", f, Bounded(f, sent[f])), Msg("Finished", f, sent[f])>>)
    /\ UNCHANGED <<poolVars, listVars, dropVars, sent, serverVars, windowVars, cancel, alive, running>>

\* local.read returns: the end, after which the file is closed and reported
\* finished whatever closing says; an error; or a chunk.
ReadReturns(f) ==
    /\ phase[f] = "reading"
    /\ \/ /\ sent[f] = Chunks[f]
          /\ EndWith(f, <<Msg("Progress", f, Bounded(f, sent[f])), Msg("Finished", f, sent[f])>>)
       \/ EndWith(f, <<Msg("Failed", f, Bounded(f, sent[f]))>>)
       \/ /\ sent[f] < Chunks[f]
          /\ phase' = [phase EXCEPT ![f] = "writing"]
          /\ UNCHANGED chan
    /\ UNCHANGED <<poolVars, listVars, dropVars, sent, serverVars, windowVars, cancel, alive, running>>

\* What the server holds after f wrote its next chunk through its own handle.
Written(f) ==
    LET old == data[handle[f]]
        at  == sent[f] + 1
    IN  [i \in 1..(IF Len(old) < at THEN at ELSE Len(old)) |->
            IF i = at THEN f ELSE IF i <= Len(old) THEN old[i] ELSE Absent]

\* remote.write_all returns; progress is reported at most every 200 ms.
WriteReturns(f) ==
    /\ phase[f] = "writing"
    /\ \/ EndWith(f, <<Msg("Failed", f, Bounded(f, sent[f]))>>) /\ UNCHANGED <<sent, data>>
       \/ /\ sent' = [sent EXCEPT ![f] = @ + 1]
          /\ data' = [data EXCEPT ![handle[f]] = Written(f)]
          /\ \E report \in {<<>>, <<Msg("Progress", f, Bounded(f, sent[f] + 1))>>} :
                 LoopTop(f, report)
    /\ UNCHANGED <<poolVars, listVars, dropVars, entry, handle, windowVars, cancel, alive, running>>

\* finalize_cancelled: the remote file is removed by its name, or not.
RemoveReturns(f) ==
    /\ phase[f] = "removing"
    /\ entry' \in {entry, [entry EXCEPT ![name[f]] = Absent]}
    /\ EndWith(f, <<Msg("Progress", f, Bounded(f, sent[f])),
                    Msg("Cancelled", f, Bounded(f, sent[f]))>>)
    /\ UNCHANGED <<poolVars, listVars, dropVars, sent, handle, data, windowVars,
                   cancel, alive, running>>

\* Mutant: a path out of the worker forgets the permit.
ForgetPermit(f) == UNCHANGED poolVars

DropPermit(f) == Pool!Release(f)

WorkerReturns(f) ==
    /\ phase[f] = "returning"
    /\ DropPermit(f)
    /\ phase' = [phase EXCEPT ![f] = "gone"]
    /\ UNCHANGED <<listVars, dropVars, sent, chan, serverVars, windowVars, cancel, alive, running>>

Worker(f) ==
    \/ WorkerStarts(f) \/ GotPermit(f) \/ OpenFiles(f) \/ ReadReturns(f)
    \/ WriteReturns(f) \/ RemoveReturns(f) \/ WorkerReturns(f)

-----------------------------------------------------------------------------
(* The window: events of the terminal, the footbar, the timers. *)

\* build_sftp_upload_task; the group's total grows with the index reported.
Row(f, status, done, total) ==
    [id |-> f, group |-> Of[f], groupTotal |-> {Index[f]}, status |-> status,
     done |-> {done}, total |-> IF total > 0 THEN {total} ELSE {}]

TimersAfter(e) == IF e.kind = "Progress" THEN timers ELSE timers \cup {e.file}

FileEvent(e) ==
    /\ \E r \in {CASE e.kind = "Progress" -> Row(e.file, "InProgress", e.sent, Size(e.file))
                   [] e.kind = "Finished" -> Row(e.file, "Finished", e.sent, e.sent)
                   [] e.kind = "Cancelled" -> Row(e.file, "Cancelled", e.sent, Size(e.file))} :
           List!Upsert(r)
    /\ timers' = TimersAfter(e)
    /\ UNCHANGED told

\* Mutant: a drop that is given up leaves its rows.
KeepRows(b) == UNCHANGED listVars

ForgetRows(b) == List!RemoveGroup(b)

DropEvent(e) ==
    /\ told' = [told EXCEPT ![e.drop] = @ \cup {e}]
    /\ IF e.kind = "Aborted" THEN ForgetRows(e.drop) ELSE UNCHANGED listVars
    /\ UNCHANGED timers

HandleEvent ==
    /\ ~Quiet
    /\ LET e == Head(emitted)
       IN  IF e.kind \in {"Aborted", "Complete"} THEN DropEvent(e) ELSE FileEvent(e)
    /\ emitted' = Tail(emitted)
    /\ UNCHANGED <<poolVars, dropVars, workVars, serverVars, cancel, alive, running>>

\* The footbar's cancel button of a row in progress.
Cancel(f) ==
    /\ Quiet
    /\ f \in DOMAIN tasks /\ tasks[f].status = "InProgress"
    /\ f \notin cancel
    /\ cancel' = cancel \cup {f}
    /\ UNCHANGED <<poolVars, listVars, dropVars, workVars, serverVars, windowVars, alive, running>>

\* schedule_transfer_auto_dismiss fires; the row goes whatever its status (an
\* id that is not listed would be left alone, but every timer has its row).
TimerFires(f) ==
    /\ Quiet
    /\ f \in timers
    /\ List!Remove(f)
    /\ timers' = timers \ {f}
    /\ UNCHANGED <<poolVars, dropVars, workVars, serverVars, emitted, told, cancel, alive, running>>

\* The tab is closed and the terminal dropped.
CloseTerminal ==
    /\ Quiet /\ alive
    /\ alive' = FALSE
    /\ UNCHANGED <<poolVars, listVars, dropVars, workVars, serverVars, windowVars, cancel, running>>

\* The panel's worker asks for a permit, gets it, and gives it back.
Rival ==
    /\ Pool!Acquire(rival) \/ Pool!Resume(rival) \/ Pool!Release(rival)
    /\ UNCHANGED <<listVars, dropVars, workVars, serverVars, windowVars, cancel, alive, running>>

DropTask(b) == Resolve(b) \/ MetadataReturns(b) \/ Receive(b)

Next ==
    \/ HandleEvent \/ CloseTerminal \/ Rival
    \/ \E b \in Drops : DropTask(b) \/ \E n \in Requests : Confirm(b, n)
    \/ \E f \in Files : Worker(f) \/ Cancel(f) \/ TimerFires(f)

\* The executors run what is ready, the server answers every request and a
\* holder of a permit finishes; nobody has to drop, to cancel or to close.
Fairness ==
    /\ WF_vars(HandleEvent)
    /\ WF_poolVars(Pool!Resume(rival) /\ Rival) /\ WF_poolVars(Pool!Release(rival) /\ Rival)
    /\ \A b \in Drops : WF_vars(DropTask(b))
    /\ \A f \in Files : WF_vars(Worker(f)) /\ WF_vars(TimerFires(f))

Spec == Init /\ [][Next]_vars
FairSpec == Spec /\ Fairness

-----------------------------------------------------------------------------

\* No file of another drop was planned under the same remote name.
Undisputed(f) == \A g \in Files : Of[g] # Of[f] => name[g] # name[f]

\* A file shown as uploaded stands on the server, whole and under its name: no
\* other file of its drop overwrites it, and no cancellation removes it.  (Two
\* drops may plan one name, since names are reserved within a drop.)
UploadsKept ==
    \A f \in DOMAIN tasks :
        tasks[f].status = "Finished" /\ Undisputed(f) =>
            /\ entry[name[f]] = f
            /\ data[f] = [i \in 1..Chunks[f] |-> f]

\* As long as the terminal exists: the rows in progress are exactly the files of
\* drops under way whose end the loop does not know yet, so each can still be
\* cancelled and none stays behind; and no event speaks of a row that is gone.
\* The terminal counts the drops under way.
Outstanding(f) ==
    \/ stage[Of[f]] \in {"resolving", "planning"}
    \/ /\ stage[Of[f]] = "running"
       /\ \/ phase[f] \notin {"returning", "gone"}
          \/ \E i \in DOMAIN chan[Of[f]] :
                chan[Of[f]][i].file = f /\ EndsWorker(chan[Of[f]][i])

RowsMatchWorkers ==
    alive =>
        /\ Quiet => \A f \in Files :
              (f \in DOMAIN tasks /\ tasks[f].status = "InProgress") <=> Outstanding(f)
        /\ \A i \in DOMAIN emitted :
              emitted[i].kind \in {"Progress", "Finished", "Cancelled"} =>
                  emitted[i].file \notin retired
        /\ running = Cardinality({b \in Drops : stage[b] \notin {"none", "over"}})

\* The drop's last word counts the files that were written to their end, and
\* comes when no worker of the drop can send anything any more.
LastWordTrue ==
    \A b \in Drops :
        /\ stage[b] = "over" => chan[b] = <<>> /\ \A f \in Members(b) :
                                    phase[f] \in {"waiting", "returning", "gone"}
        /\ \A e \in told[b] :
              /\ e.kind = "Complete" =>
                    e.count = Cardinality({f \in Members(b) : f \in uploaded[b] /\ sent[f] = Chunks[f]})
              /\ e.kind = "Aborted" => \A f \in Members(b) : phase[f] = "waiting"

\* Whatever fails, is cancelled or closed, every drop ends and gives back its
\* permits; and unless the terminal was closed no row of it stays behind.
DropsEnd ==
    <>[](/\ \A b \in Drops : stage[b] \in {"none", "over"}
         /\ \A f \in Files : st[f] = "idle" /\ phase[f] \in {"waiting", "gone"}
         /\ alive => DOMAIN tasks = {} /\ timers = {})
=============================================================================
