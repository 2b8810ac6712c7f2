--------------------------- MODULE MCSftpDownload ---------------------------
(* The transfer list on small instances: a download of two chunks beside the
   rows of other transfers. *)
EXTENDS SftpDownload, TLC

CONSTANTS a, b, d

\* The other ids are interchangeable, and so are groups.
Symmetry == Permutations({a, b}) \cup Permutations(Groups)

\* Rows in two batches or in none, running or finished, of known size or not.
SmallReports == {r \in Reports : /\ r.id \in {a, b}
                                 /\ r.status \in {"InProgress", "Finished"}
                                 /\ r.groupTotal = {2}
                                 /\ r.done = {}
                                 /\ r.total \in {{}, {2}}}
=============================================================================
