----------------------------- MODULE SftpUpload -----------------------------
(***************************************************************************)
(* Uploads of the SFTP panel, crates/gpui_sftp/src/view/table/actions.rs:  *)
(* one detached worker per file, the shared permit pool, one message       *)
(* channel per batch, the batch's collector on the UI thread, the cancel   *)
(* flag set from the footbar, the transfer list and the dismiss timers.    *)
(*                                                                         *)
(* A worker step is the code between two awaits.  File contents are chunks *)
(* counted by number; the server and the disk answer every request, with   *)
(* data or with an error.                                                  *)
(***************************************************************************)
EXTENDS Integers, Sequences, FiniteSets

CONSTANTS Files,       \* files to upload, one worker each
          Batches,     \* upload batches, one collector each
          Plan,        \* the files of each batch, in the order planned
          Chunks,      \* length of each file, in chunks
          Unsized,     \* files whose metadata could not be read: total = 0
          MaxPermits, Requests  \* of the permit pool

ASSUME UploadAssumption ==
    /\ IsFiniteSet(Files)
    /\ Plan \in [Batches -> Seq(Files)]
    /\ \A f \in Files : \E b \in Batches : \E i \in DOMAIN Plan[b] : Plan[b][i] = f
    /\ Chunks \in [Files -> Nat]
    /\ Unsized \subseteq Files
    /\ MaxPermits \in Nat \ {0} /\ Requests \subseteq Nat /\ "dead" \notin Files

VARIABLES
    max, inflight, waiters, st, lost,            \* the permit pool
    tasks, order, groups, groupTasks, retired,   \* the transfer list
    phase,    \* where each worker is in run_upload_worker
    sent,     \* chunks written by each worker
    cancel,   \* the files whose cancel flag is set
    chan,     \* each batch's channel of UploadMsg
    result,   \* each batch's UploadBatchResult
    toast,    \* each batch's final toast, "none" before it
    timers    \* files with a dismiss timer running

poolVars == <<max, inflight, waiters, st, lost>>
listVars == <<tasks, order, groups, groupTasks, retired>>
workVars == <<phase, sent, cancel>>
batchVars == <<chan, result, toast>>
vars == <<poolVars, listVars, workVars, batchVars, timers>>

Dead == "dead"
Pool == INSTANCE PermitPool WITH Tasks <- Files, Cancellable <- {}, MaxAbandoned <- 0

List == INSTANCE TransferCenter WITH
            Ids <- Files, Groups <- Batches, NoGroup <- "none",
            Totals <- UNION {0..Chunks[f] : f \in Files},
            Reported <- {}

Members(b) == {Plan[b][i] : i \in DOMAIN Plan[b]}
Of[f \in Files] == CHOOSE b \in Batches : f \in Members(b)

Total(f) == IF f \in Unsized THEN 0 ELSE Chunks[f]

\* Workers that hold a permit and work on an open file.
Copying == {"reading", "writing", "flushing"}
Outcomes == {"Finished", "Cancelled", "Failed"}

Msg(kind, f, n) == [kind |-> kind, file |-> f, sent |-> n]
Send(f, msgs) == chan' = [chan EXCEPT ![Of[f]] = @ \o msgs]

\* build_upload_task with its optional byte counts.
Report(f, status, done, total) ==
    [id |-> f, group |-> Of[f], groupTotal |-> {Cardinality(Members(Of[f]))},
     status |-> status, done |-> done, total |-> total]

NoResult == [uploaded |-> 0, cancelled |-> 0, failed |-> 0]
Completed(b) == result[b].uploaded + result[b].cancelled + result[b].failed

Init ==
    /\ Pool!Init /\ List!Init
    /\ phase = [f \in Files |-> "planned"]
    /\ sent = [f \in Files |-> 0]
    /\ cancel = {}
    /\ chan = [b \in Batches |-> <<>>]
    /\ result = [b \in Batches |-> NoResult]
    /\ toast = [b \in Batches |-> "none"]
    /\ timers = {}

-----------------------------------------------------------------------------
(* The batch starts: begin_upload_transfers, then one worker per file. *)

\* Files of a batch whose listing has begun but not ended.
Unlisted(b) == {f \in Members(b) : phase[f] = "planned"}
Listing == \E b \in Batches : Unlisted(b) \notin {{}, Members(b)}

\* begin_upload_transfers lists the files of a batch in planned order within
\* one update of the global, so nothing else runs between two of these steps.
BeginTransfer(f) ==
    /\ phase[f] = "planned"
    /\ \A i, j \in DOMAIN Plan[Of[f]] :
          j < i /\ Plan[Of[f]][i] = f => phase[Plan[Of[f]][j]] # "planned"
    /\ \A b \in Batches : b # Of[f] => Unlisted(b) \in {{}, Members(b)}
    /\ \E r \in {Report(f, "InProgress", {0}, IF Total(f) > 0 THEN {Total(f)} ELSE {})} :
           List!Upsert(r)
    /\ phase' = [phase EXCEPT ![f] = "listed"]
    /\ UNCHANGED <<poolVars, sent, cancel, batchVars, timers>>

\* The worker is spawned once its batch is listed, and calls acquire().
AskPermit(f) ==
    /\ phase[f] = "listed"
    /\ Pool!Acquire(f)
    /\ phase' = [phase EXCEPT ![f] = "acquiring"]
    /\ UNCHANGED <<listVars, sent, cancel, batchVars, timers>>

\* acquire() returns at once or when the pool wakes the worker.
GotPermit(f) ==
    /\ phase[f] = "acquiring"
    /\ \/ st[f] = "holding" /\ UNCHANGED poolVars
       \/ Pool!Resume(f)
    /\ phase' = [phase EXCEPT ![f] = "opening"]
    /\ UNCHANGED <<listVars, sent, cancel, batchVars, timers>>

\* The worker ends with the messages msgs; its permit drops when it returns.
EndWith(f, msgs) ==
    /\ Send(f, msgs)
    /\ phase' = [phase EXCEPT ![f] = "returning"]

\* Top of upload_copy_loop with n chunks written, after the messages `report`:
\* a cancelled file that is already complete still counts as uploaded.
LoopTop(f, n, report) ==
    \/ /\ f \notin cancel
       /\ phase' = [phase EXCEPT ![f] = "reading"]
       /\ Send(f, report)
    \/ /\ f \in cancel /\ Total(f) # 0 /\ n >= Total(f)
       /\ phase' = [phase EXCEPT ![f] = "flushing"]
       /\ Send(f, report)
    \/ /\ f \in cancel /\ ~(Total(f) # 0 /\ n >= Total(f))
       /\ EndWith(f, Append(report, Msg("Cancelled", f, 0)))

\* Opening the local and then the remote file (with the create fallback): an
\* error of either fails the upload, cancelled or not.
OpenFiles(f) ==
    /\ phase[f] = "opening"
    /\ LoopTop(f, 0, <<>>) \/ EndWith(f, <<Msg("Failed", f, 0)>>)
    /\ UNCHANGED <<poolVars, listVars, sent, cancel, result, toast, timers>>

\* Mutant: a short read ends the loop as end-of-file does.
ReadShort(f) ==
    /\ phase[f] = "reading"
    /\ phase' = [phase EXCEPT ![f] = "flushing"]
    /\ UNCHANGED <<poolVars, listVars, sent, cancel, batchVars, timers>>

\* Mutant: the flag is not looked at again after the read.
ReadUnchecked(f) ==
    /\ phase[f] = "reading"
    /\ IF sent[f] = Chunks[f] THEN phase' = [phase EXCEPT ![f] = "flushing"]
       ELSE phase' = [phase EXCEPT ![f] = "writing"]
    /\ UNCHANGED <<poolVars, listVars, sent, cancel, batchVars, timers>>

\* local_f.read returns: end of file, an error, or a chunk.
ReadReturns(f) ==
    /\ phase[f] = "reading"
    /\ \/ /\ sent[f] = Chunks[f]
          /\ phase' = [phase EXCEPT ![f] = "flushing"]
          /\ UNCHANGED chan
       \/ EndWith(f, <<Msg("Failed", f, 0)>>)
       \/ /\ sent[f] < Chunks[f]
          /\ \/ f \in cancel /\ EndWith(f, <<Msg("Cancelled", f, 0)>>)
             \/ /\ f \notin cancel
                /\ phase' = [phase EXCEPT ![f] = "writing"]
                /\ UNCHANGED chan
    /\ UNCHANGED <<poolVars, listVars, sent, cancel, result, toast, timers>>

\* remote_f.write_all returns; a progress message goes out when 200 ms passed
\* since the last one, and the loop starts over in the same poll.
WriteReturns(f) ==
    /\ phase[f] = "writing"
    /\ \/ EndWith(f, <<Msg("Failed", f, 0)>>) /\ UNCHANGED sent
       \/ /\ sent' = [sent EXCEPT ![f] = @ + 1]
          /\ \E report \in {<<>>, <<Msg("Progress", f, sent[f] + 1)>>} :
                 LoopTop(f, sent[f] + 1, report)
    /\ UNCHANGED <<poolVars, listVars, cancel, result, toast, timers>>

\* Mutant: the final progress message follows the terminal one.
FinishedBeforeProgress(f) == <<Msg("Finished", f, 0), Msg("Progress", f, Total(f))>>

\* The two messages of a finished upload.
FinalMessages(f) == <<Msg("Progress", f, Total(f)), Msg("Finished", f, 0)>>

\* The flush returns, well or not; the upload is reported finished.
FlushReturns(f) ==
    /\ phase[f] = "flushing"
    /\ EndWith(f, FinalMessages(f))
    /\ UNCHANGED <<poolVars, listVars, sent, cancel, result, toast, timers>>

\* Mutant: an early return forgets the permit.
ForgetPermit(f) == UNCHANGED poolVars

DropPermit(f) == Pool!Release(f)

\* The worker function returns and its permit is dropped.
WorkerReturns(f) ==
    /\ phase[f] = "returning"
    /\ DropPermit(f)
    /\ phase' = [phase EXCEPT ![f] = "gone"]
    /\ UNCHANGED <<listVars, sent, cancel, batchVars, timers>>

-----------------------------------------------------------------------------
(* The collector of a batch: run_upload_workers and finish_upload_batch. *)

Tally(r, kind) ==
    CASE kind = "Finished"  -> [r EXCEPT !.uploaded = @ + 1]
      [] kind = "Cancelled" -> [r EXCEPT !.cancelled = @ + 1]
      [] kind = "Failed"    -> [r EXCEPT !.failed = @ + 1]

\* Mutant: a progress message that reaches the total already ends the row.
ReportEndsEarly(m) ==
    Report(m.file, IF m.kind # "Progress" THEN m.kind
                   ELSE IF m.sent = Chunks[m.file] THEN "Finished" ELSE "InProgress",
           {}, {})

\* The report a message turns into.
ReportOf(m) ==
    LET f == m.file
    IN  IF m.kind = "Progress" THEN Report(f, "InProgress", {m.sent}, {Total(f)})
        ELSE Report(f, m.kind, IF m.kind = "Finished" THEN {Total(f)} ELSE {},
                    IF Total(f) > 0 THEN {Total(f)} ELSE {})

\* The collector receives one message while uploads are outstanding.
Collect(b) ==
    /\ toast[b] = "none"
    /\ chan[b] # <<>>
    /\ Completed(b) < Cardinality(Members(b))
    /\ \E m \in {Head(chan[b])}, r \in {ReportOf(Head(chan[b]))} :
           /\ List!Upsert(r)
           /\ IF m.kind = "Progress" THEN UNCHANGED <<result, timers>>
              ELSE /\ result' = [result EXCEPT ![b] = Tally(@, m.kind)]
                   /\ timers' = timers \cup {m.file}
    /\ chan' = [chan EXCEPT ![b] = Tail(@)]
    /\ UNCHANGED <<poolVars, workVars, toast>>

\* classify_upload_batch
Classify(b) ==
    IF result[b].uploaded = Cardinality(Members(b)) THEN "Info"
    ELSE IF result[b].failed = Cardinality(Members(b)) THEN "Critical" ELSE "Warning"

\* finish_upload_batch; the directory refresh belongs to the browser.
FinishBatch(b) ==
    /\ toast[b] = "none"
    /\ Members(b) # {} /\ Completed(b) = Cardinality(Members(b))
    /\ toast' = [toast EXCEPT ![b] = Classify(b)]
    /\ UNCHANGED <<poolVars, listVars, workVars, chan, result, timers>>

-----------------------------------------------------------------------------
(* The user, the settings and the timers. *)

\* The footbar's cancel button, offered while the row is in progress.
Cancel(f) ==
    /\ f \in DOMAIN tasks /\ tasks[f].status = "InProgress"
    /\ f \notin cancel
    /\ cancel' = cancel \cup {f}
    /\ UNCHANGED <<poolVars, listVars, phase, sent, batchVars, timers>>

\* remove_transfer_if_terminal's test.
Dismissable(f) == f \in DOMAIN tasks /\ tasks[f].status # "InProgress"

\* schedule_transfer_auto_dismiss fires.
TimerFires(f) ==
    /\ f \in timers
    /\ IF Dismissable(f) THEN List!Remove(f) ELSE UNCHANGED listVars
    /\ timers' = timers \ {f}
    /\ UNCHANGED <<poolVars, workVars, batchVars>>

\* The concurrency setting is changed.
Resize(n) ==
    /\ Pool!SetMax(n)
    /\ UNCHANGED <<listVars, workVars, batchVars, timers>>

Worker(f) ==
    \/ AskPermit(f) \/ GotPermit(f) \/ OpenFiles(f)
    \/ ReadReturns(f) \/ WriteReturns(f) \/ FlushReturns(f) \/ WorkerReturns(f)

Collector(b) == Collect(b) \/ FinishBatch(b)

Next ==
    \/ \E f \in Files : BeginTransfer(f)
    \/ /\ ~Listing
       /\ \/ \E f \in Files : Worker(f) \/ Cancel(f) \/ TimerFires(f)
          \/ \E b \in Batches : Collector(b)
          \/ \E n \in Requests : Resize(n)

\* The executors run what is ready, requests are answered and timers fire;
\* nobody has to cancel or to resize.
Fairness ==
    /\ \A f \in Files : /\ WF_phase(BeginTransfer(f))
                       /\ WF_phase(~Listing /\ Worker(f))
                       /\ WF_timers(~Listing /\ TimerFires(f))
    /\ \A b \in Batches : WF_batchVars(~Listing /\ Collector(b))

Spec == Init /\ [][Next]_vars
FairSpec == Spec /\ Fairness

-----------------------------------------------------------------------------

\* The row of an upload whose verdict is not in yet is listed as in progress:
\* no timer, no message of another file and no resize makes it disappear or
\* end early, so the cancel button stays available.
RunningRowsListed ==
    \A f \in Files :
        phase[f] \in {"listed", "acquiring", "opening"} \cup Copying =>
            f \in DOMAIN tasks /\ tasks[f].status = "InProgress"

\* A row shown as finished was written to the last chunk, even when the cancel
\* flag was raised on the way; the batch's toast comes after every verdict and
\* tells success only when every file was written completely.
ToastTruthful ==
    /\ \A f \in DOMAIN tasks : tasks[f].status = "Finished" => sent[f] = Chunks[f]
    /\ \A b \in Batches :
          /\ toast[b] # "none" => chan[b] = <<>>
          /\ toast[b] = "Info" => \A f \in Members(b) : sent[f] = Chunks[f]
          /\ toast[b] = "Critical" => result[b].failed = Cardinality(Members(b))

\* A verdict is final: no late progress message puts a row back in progress,
\* turns it into another verdict, or lists it again after its dismissal.
VerdictsFinal ==
    [][\A f \in Files :
          /\ f \in DOMAIN tasks /\ tasks[f].status \in Outcomes /\ f \in DOMAIN tasks'
                => tasks'[f].status = tasks[f].status
          /\ f \in retired => f \notin DOMAIN tasks']_vars

\* Once the cancel flag of a file is raised, at most the write in flight still
\* reaches the server: the worker starts no other.
CancelStopsWrites ==
    [][\A f \in Files :
          f \in cancel /\ phase'[f] = "writing" => phase[f] = "writing"]_vars

\* Whatever fails, is cancelled or resized, every batch ends with its toast, and
\* in the end no row is left in the footbar and every permit is back.
BatchEnds ==
    <>[](/\ \A b \in Batches : Members(b) # {} => toast[b] # "none"
         /\ DOMAIN tasks = {} /\ inflight = 0 /\ timers = {})
=============================================================================
