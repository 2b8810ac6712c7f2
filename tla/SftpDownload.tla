---------------------------- MODULE SftpDownload ----------------------------
(***************************************************************************)
(* A download of the SFTP panel: download and download_to_path of          *)
(* crates/gpui_sftp/src/view/table/actions.rs, with its row in the         *)
(* transfer list beside the rows of other transfers.  A download waits for *)
(* no permit; it is one task that runs from the chosen path to its row's   *)
(* last status.                                                            *)
(***************************************************************************)
EXTENDS TransferCenter

CONSTANTS Download,  \* the id of its row
          Length     \* chunks of the remote file

ASSUME DownloadAssumption ==
    /\ Download \in Ids
    /\ \A r \in Reported : r.id # Download
    /\ Length \in Nat /\ 0..(Length + 1) \subseteq Totals

VARIABLES stage,     \* where the task is
          size,      \* ctx.total: the size metadata gave, if it gave one
          received,  \* chunks read and handed to the local file, which nothing flushes
          cancelled, \* the cancel flag
          timer      \* the dismiss timer runs

taskVars == <<stage, size, received, cancelled, timer>>

DownloadInit ==
    /\ Init
    /\ stage = "metadata" /\ size = {} /\ received = 0
    /\ cancelled = FALSE /\ timer = FALSE

\* build_download_task: a size of zero is not shown.
Row(o, status, done) ==
    [id |-> Download, group |-> NoGroup, groupTotal |-> {}, status |-> status,
     done |-> done, total |-> o \ {0}]

Progress(n) == Upsert(Row(size, "InProgress", {n}))

\* set_download_terminal_in_center
EndAs(status) ==
    /\ stage' = "ended" /\ timer' = TRUE
    /\ Upsert(Row(size, status, {}))
    /\ UNCHANGED <<size, received, cancelled>>

\* A step that only moves the task on.
Goto(next) ==
    /\ stage' = next
    /\ UNCHANGED <<vars, size, received, cancelled, timer>>

\* sftp.metadata, whose error counts as no size; the file may have another
\* size by the time it is read.  The row begins.
MetadataReturns ==
    /\ stage = "metadata"
    /\ \E o \in Opt(0..(Length + 1)) :
          /\ size' = o
          /\ Upsert(Row(o, "InProgress", {0}))
    /\ stage' = "opening"
    /\ UNCHANGED <<received, cancelled, timer>>

\* The remote file is opened, then the local one created.
OpenReturns ==
    /\ stage \in {"opening", "creating"}
    /\ \/ Goto(IF stage = "opening" THEN "creating" ELSE "looping")
       \/ EndAs("Failed")

\* Mutant: what was received is not compared with the size.
WholeIfSized == \E n \in size : n # 0

\* The file is complete as far as its announced size goes.
Whole == \E n \in size : n # 0 /\ received >= n

\* finish_download_success, up to the pause before the row ends.
Succeed(n) ==
    /\ stage' = "pausing"
    /\ Progress(OrElse(size, n))
    /\ UNCHANGED <<size, received, cancelled, timer>>

\* The top of download_copy_loop.
LoopTop ==
    /\ stage = "looping"
    /\ \/ ~cancelled /\ Goto("reading")
       \/ cancelled /\ Whole /\ Succeed(received)
       \/ cancelled /\ ~Whole /\ EndAs("Cancelled")

\* The end of the file, an error, or a chunk; the flag is read again after it.
ReadReturns ==
    /\ stage = "reading"
    /\ \/ received = Length /\ Succeed(received)
       \/ EndAs("Failed")
       \/ received < Length /\ ~cancelled /\ Goto("writing")
       \/ received < Length /\ cancelled /\ EndAs("Cancelled")

\* write_all of the chunk.  The flag is read once more, before the progress:
\* a download cancelled during its last write ends as cancelled.
WriteReturns ==
    /\ stage = "writing"
    /\ \/ EndAs("Failed")
       \/ /\ received' = received + 1
          /\ UNCHANGED <<size, cancelled>>
          /\ IF cancelled
             THEN /\ Upsert(Row(size, "Cancelled", {}))
                  /\ stage' = "ended" /\ timer' = TRUE
             ELSE /\ Progress(received + 1)
                  /\ stage' = "looping" /\ timer' = timer

\* 150 ms after the last progress.
PauseEnds == stage = "pausing" /\ EndAs("Finished")

\* The footbar's cancel button.
Cancel ==
    /\ Download \in DOMAIN tasks /\ tasks[Download].status = "InProgress" /\ ~cancelled
    /\ cancelled' = TRUE
    /\ UNCHANGED <<vars, stage, size, received, timer>>

\* schedule_transfer_auto_dismiss fires (remove_transfer_if_terminal; the row has ended before the timer starts).
TimerFires ==
    /\ timer
    /\ tasks[Download].status \in Terminal /\ Remove(Download)
    /\ timer' = FALSE
    /\ UNCHANGED <<stage, size, received, cancelled>>

\* Other transfers report, and their rows go.
Others ==
    /\ \/ \E r \in Reported : Upsert(r)
       \/ \E id \in Ids \ {Download} : Remove(id)
       \/ \E G \in (SUBSET Groups) \ {{}} : RemoveGroups(G)
    /\ UNCHANGED taskVars

DownloadNext ==
    \/ MetadataReturns \/ OpenReturns \/ LoopTop \/ ReadReturns \/ WriteReturns \/ PauseEnds
    \/ Cancel \/ TimerFires \/ Others

allVars == <<vars, taskVars>>
DownloadSpec == DownloadInit /\ [][DownloadNext]_allVars

-----------------------------------------------------------------------------
\* The row tells what became of the file: it runs exactly while the task does,
\* its last status is never taken back, and "Finished" means that the file was
\* read to its end or is as long as it was announced when the cancel came,
\* whatever other transfers do to the list meanwhile.
RowTellsTruth ==
    /\ stage \notin {"metadata", "ended"} =>
          Download \in DOMAIN tasks /\ tasks[Download].status = "InProgress"
    /\ stage = "ended" => (timer <=> Download \in DOMAIN tasks)
    /\ Download \in DOMAIN tasks =>
          /\ tasks[Download].status = "Finished" =>
                \/ received = Length
                \/ cancelled /\ \E n \in size : 0 < n /\ n <= received
          /\ tasks[Download].status = "Cancelled" => cancelled
          /\ tasks[Download].status \in Terminal => stage = "ended"
=============================================================================
