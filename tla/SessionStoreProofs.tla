------------------------- MODULE SessionStoreProofs -------------------------
(***************************************************************************)
(* Theorems about SessionStore, for any number of operations and failures: *)
(* rows and passwords agree, and a stale sidebar is owed a listing.        *)
(***************************************************************************)
EXTENDS SessionStore, TLAPS

Rows == [by : Ops, born : Ops, auth : Auths] \cup {NoRow}

TypeOK ==
    /\ rows \in [Ids -> Rows] /\ nextId \in Nat \ {0}
    /\ secret \in [Ids -> Ops \cup {0}]
    /\ issued \in 0..MaxOps
    /\ kind \in [Ops -> {"none", "save", "update", "delete"}]
    /\ auth \in [Ops -> Auths]
    /\ target \in [Ops -> Nat]
    /\ at \in [Ops -> {"idle", "row", "secret", "report", "failed", "done"}]
    /\ editing \subseteq Ids
    /\ queue \in Seq({"open", "reload", "error"})
    /\ shown \in [Ids -> Rows] /\ snapshot \in [Ids -> Rows]
    /\ reload \in {"idle", "started", "read", "failed"} /\ pending \in BOOLEAN
    /\ error \in {"none", "operation", "load"}
    /\ deleting \subseteq Ids
    /\ clean \in [Ids -> BOOLEAN] /\ missed \subseteq {"closed", "unread"}
    /\ faults \in Nat

\* Operations are begun in order, and those begun have a kind.
Numbered ==
    \A n \in Ops : /\ n > issued => kind[n] = "none" /\ at[n] = "idle"
                   /\ OnDisk(n) => kind[n] # "none"

\* An operation at work has a session, but for a save before its INSERT; only
\* a row with a password is followed by one, and only a password stored by a
\* save or an edit is one to store.
Aimed ==
    \A n \in Ops : OnDisk(n) =>
        /\ \/ target[n] \in Ids /\ target[n] < nextId
           \/ kind[n] = "save" /\ at[n] = "row" /\ target[n] = 0
        /\ kind[n] = "save" /\ at[n] = "secret" => Stores(n)
        /\ kind[n] = "save" /\ at[n] = "row" => target[n] = 0
        /\ kind[n] = "delete" => ~Stores(n)

\* A key that was not handed out yet is nowhere.
Fresh ==
    /\ \A id \in Ids : id >= nextId =>
          /\ ~Exists(id) /\ secret[id] = 0 /\ clean[id] /\ id \notin editing
          /\ shown[id] = NoRow /\ snapshot[id] = NoRow

Base == TypeOK /\ Numbered /\ Aimed /\ Fresh

-----------------------------------------------------------------------------

\* A row is never mistaken for none.
LEMMA RowShape ==
  /\ NoRow \in Rows
  /\ \A n, b \in Ops, a \in Auths : /\ [by |-> n, born |-> b, auth |-> a] \in Rows
                                    /\ [by |-> n, born |-> b, auth |-> a] # NoRow
  /\ \A r \in Rows \ {NoRow} : r.by \in Ops /\ r.born \in Ops /\ r.auth \in Auths
BY DEF Rows, NoRow, Ops, Auths

\* The bounds are numbers.
LEMMA Bounds == Ops \subseteq Nat /\ Ids \subseteq Nat /\ MaxOps \in Nat /\ 0 \notin Ops /\ 0 \notin Ids
BY StoreAssumption DEF Ops, Ids

\* It is so at the start.
LEMMA InitBase == Init => Base
<1> SUFFICES ASSUME Init PROVE Base
  OBVIOUS
<1>0. NoRows \in [Ids -> Rows] /\ <<>> \in Seq({"open", "reload", "error"})
  BY RowShape DEF NoRows
<1>1. TypeOK
  <2>1. rows \in [Ids -> Rows] /\ shown \in [Ids -> Rows] /\ snapshot \in [Ids -> Rows]
    BY <1>0 DEF Init
  <2>2. /\ kind \in [Ops -> {"none", "save", "update", "delete"}] /\ auth \in [Ops -> Auths]
        /\ target \in [Ops -> Nat]
        /\ at \in [Ops -> {"idle", "row", "secret", "report", "failed", "done"}]
    BY DEF Init, Auths
  <2>3. secret \in [Ids -> Ops \cup {0}] /\ clean \in [Ids -> BOOLEAN] /\ issued \in 0..MaxOps
    BY Bounds DEF Init
  <2>4. /\ nextId \in Nat \ {0} /\ editing \subseteq Ids /\ deleting \subseteq Ids
        /\ queue \in Seq({"open", "reload", "error"})
        /\ reload \in {"idle", "started", "read", "failed"} /\ pending \in BOOLEAN
        /\ error \in {"none", "operation", "load"} /\ missed \subseteq {"closed", "unread"}
        /\ faults \in Nat
    <3>1. queue \in Seq({"open", "reload", "error"})
      BY <1>0 DEF Init
    <3>2. pending \in BOOLEAN /\ editing \subseteq Ids /\ deleting \subseteq Ids
          /\ missed \subseteq {"closed", "unread"}
      BY DEF Init
    <3>3. /\ nextId \in Nat \ {0} /\ faults \in Nat /\ error \in {"none", "operation", "load"}
          /\ reload \in {"idle", "started", "read", "failed"}
      BY DEF Init
    <3> QED
      BY <3>1, <3>2, <3>3
  <2> QED
    BY <1>0, <2>1, <2>2, <2>3, <2>4 DEF TypeOK
<1>2. Numbered /\ Aimed /\ Fresh
  BY Bounds DEF Init, Numbered, Aimed, Fresh, OnDisk, Exists, NoRows
<1> QED
  BY <1>1, <1>2 DEF Base

\* An operation begins under a number nobody had.
LEMMA BeginNew ==
  ASSUME Base, NEW k, NEW a, NEW id, NEW first, Begin(k, a, id, first)
  PROVE  issued + 1 \in Ops /\ issued \in Nat /\ ~OnDisk(issued + 1)
<1>1. issued + 1 \in Ops /\ issued \in Nat
  BY Bounds DEF Base, TypeOK, Begin, Ops
<1> QED
  BY <1>1 DEF Base, Numbered, OnDisk

\* The user saves a new session.
LEMMA ConnectBase ==
  ASSUME Base, NEW a \in Auths, Connect(a)
  PROVE  Base'
<1>1. issued + 1 \in Ops /\ issued \in Nat /\ ~OnDisk(issued + 1)
  BY BeginNew DEF Connect
<1>2. TypeOK'
  BY <1>1, Bounds DEF Base, TypeOK, Connect, Begin, diskVars, sidebarVars, Ops
<1>3. Numbered'
  BY <1>1, Bounds DEF Base, TypeOK, Numbered, OnDisk, Connect, Begin
<1>4. Aimed' /\ Fresh'
  BY <1>1, Bounds DEF Base, TypeOK, Aimed, Fresh, OnDisk, Exists, Stores, Connect, Begin,
     diskVars, sidebarVars
<1> QED
  BY <1>2, <1>3, <1>4 DEF Base

\* The user saves an edited session, or deletes one.
LEMMA ChangeBase ==
  ASSUME Base, NEW a \in Auths, NEW id \in Ids, SaveEdit(id, a) \/ Delete(id)
  PROVE  Base'
<1>1. issued + 1 \in Ops /\ issued \in Nat /\ ~OnDisk(issued + 1)
  BY BeginNew DEF SaveEdit, Delete
<1>4. CASE SaveEdit(id, a)
  <2>1. TypeOK'
    BY <1>1, <1>4, Bounds DEF Base, TypeOK, SaveEdit, Begin, FirstOfEdit, diskVars, sidebarVars, Ops
  <2>2. Numbered'
    BY <1>1, <1>4, Bounds DEF Base, TypeOK, Numbered, OnDisk, SaveEdit, Begin
  <2>3. id < nextId
    BY <1>4, Bounds DEF Base, TypeOK, Fresh, SaveEdit
  <2>4. Aimed' /\ Fresh'
    BY <1>1, <1>4, <2>3, Bounds DEF Base, TypeOK, Aimed, Fresh, OnDisk, Exists, Stores, SaveEdit,
       Begin, diskVars, sidebarVars
  <2> QED
    BY <2>1, <2>2, <2>4 DEF Base
<1>5. CASE Delete(id)
  <2>1. TypeOK'
    BY <1>1, <1>5, Bounds DEF Base, TypeOK, Delete, Begin, diskVars, Ops, Auths
  <2>2. Numbered'
    BY <1>1, <1>5, Bounds DEF Base, TypeOK, Numbered, OnDisk, Delete, Begin
  <2>3. id < nextId
    BY <1>5, Bounds DEF Base, TypeOK, Fresh, Delete
  <2>4. Aimed' /\ Fresh'
    BY <1>1, <1>5, <2>3, Bounds DEF Base, TypeOK, Aimed, Fresh, OnDisk, Exists, Stores, Delete,
       Begin, diskVars
  <2> QED
    BY <2>1, <2>2, <2>4 DEF Base
<1> QED
  BY <1>4, <1>5

\* Steps on the two stores.
LEMMA StoreBase ==
  ASSUME Base, NEW n \in Ops, StoreStep(n) \/ StoreFault(n)
  PROVE  Base'
<1> USE DEF Step, AfterRow, AfterSecret, Stores
<1>1. CASE InsertRow(n)
  <2>1. [by |-> n, born |-> n, auth |-> auth[n]] \in Rows
    BY RowShape DEF Base, TypeOK
  <2>2. TypeOK'
    <3>1. rows' \in [Ids -> Rows] /\ nextId' \in Nat \ {0}
      BY <1>1, <2>1 DEF Base, TypeOK, InsertRow
    <3>2. target' \in [Ops -> Nat]
      BY <1>1 DEF Base, TypeOK, InsertRow
    <3>3. at' \in [Ops -> {"idle", "row", "secret", "report", "failed", "done"}]
      BY <1>1 DEF Base, TypeOK, InsertRow
    <3> QED
      BY <1>1, <3>1, <3>2, <3>3 DEF Base, TypeOK, InsertRow, sidebarVars
  <2>3. Numbered' /\ Aimed'
    BY <1>1, Bounds DEF Base, TypeOK, Numbered, Aimed, OnDisk, InsertRow, sidebarVars
  <2>4. Fresh'
    BY <1>1, Bounds DEF Base, TypeOK, Fresh, Exists, InsertRow, sidebarVars
  <2> QED
    BY <2>2, <2>3, <2>4 DEF Base
<1>2. CASE UpdateRow(n)
  <2>1. target[n] \in Ids /\ target[n] < nextId
    BY <1>2 DEF Base, Aimed, OnDisk, UpdateRow
  <2>2. rows' \in [Ids -> Rows] /\ \A id \in Ids \ {target[n]} : rows'[id] = rows[id]
    <3>1. CASE Exists(target[n])
      <4>1. rows[target[n]] \in [by : Ops, born : Ops, auth : Auths]
        BY <2>1, <3>1 DEF Base, TypeOK, Exists, Rows
      <4>2. [rows[target[n]] EXCEPT !.by = n, !.auth = auth[n]] \in Rows
        BY <4>1 DEF Base, TypeOK, Rows
      <4>3. rows' = [rows EXCEPT ![target[n]] =
                        [rows[target[n]] EXCEPT !.by = n, !.auth = auth[n]]]
        BY <1>2, <2>1, <3>1 DEF Base, TypeOK, UpdateRow
      <4> QED
        BY <4>2, <4>3, <2>1 DEF Base, TypeOK
    <3>2. CASE ~Exists(target[n])
      BY <1>2, <3>2 DEF Base, TypeOK, UpdateRow
    <3> QED
      BY <3>1, <3>2
  <2>3. TypeOK'
    BY <1>2, <2>2, Bounds DEF Base, TypeOK, UpdateRow, sidebarVars
  <2>4. Numbered' /\ Aimed'
    BY <1>2, <2>1, Bounds DEF Base, TypeOK, Numbered, Aimed, OnDisk, UpdateRow, sidebarVars
  <2>5. Fresh'
    BY <1>2, <2>1, <2>2, Bounds DEF Base, TypeOK, Fresh, Exists, UpdateRow, sidebarVars
  <2> QED
    BY <2>3, <2>4, <2>5 DEF Base
<1>3. CASE DeleteRow(n)
  <2>1. target[n] \in Ids /\ target[n] < nextId
    BY <1>3 DEF Base, Aimed, OnDisk, DeleteRow
  <2>2. TypeOK'
    BY <1>3, <2>1, RowShape DEF Base, TypeOK, DeleteRow, sidebarVars
  <2>3. Numbered' /\ Aimed'
    BY <1>3, Bounds DEF Base, TypeOK, Numbered, Aimed, OnDisk, DeleteRow, sidebarVars
  <2>4. Fresh'
    BY <1>3, <2>1, Bounds DEF Base, TypeOK, Fresh, Exists, DeleteRow, sidebarVars
  <2> QED
    BY <2>2, <2>3, <2>4 DEF Base
<1>4. CASE WriteSecret(n) \/ SecretFails(n)
  <2>1. target[n] \in Ids /\ target[n] < nextId
    BY <1>4 DEF Base, Aimed, OnDisk, WriteSecret, SecretFails
  <2>2. TypeOK'
    <3>1. CASE WriteSecret(n)
      <4>1. secret' \in [Ids -> Ops \cup {0}]
        BY <3>1, <2>1 DEF Base, TypeOK, WriteSecret
      <4> QED
        BY <3>1, <4>1 DEF Base, TypeOK, WriteSecret, sidebarVars
    <3>2. CASE SecretFails(n)
      <4>1. clean' \in [Ids -> BOOLEAN]
        BY <3>2, <2>1 DEF Base, TypeOK, SecretFails
      <4> QED
        BY <3>2, <4>1 DEF Base, TypeOK, SecretFails, Fault, sidebarVars, diskVars
    <3> QED
      BY <1>4, <3>1, <3>2
  <2>3. Numbered' /\ Aimed'
    BY <1>4, <2>1, Bounds DEF Base, TypeOK, Numbered, Aimed, OnDisk, WriteSecret, SecretFails,
       sidebarVars, diskVars
  <2>4. Fresh'
    BY <1>4, <2>1, Bounds DEF Base, TypeOK, Fresh, Exists, WriteSecret, SecretFails, sidebarVars,
       diskVars
  <2> QED
    BY <2>2, <2>3, <2>4 DEF Base
<1>5. CASE RowFails(n)
  <2>1. TypeOK'
    BY <1>5, Bounds DEF Base, TypeOK, RowFails, Fault, sidebarVars, diskVars
  <2>2. Numbered' /\ Aimed'
    BY <1>5, Bounds DEF Base, TypeOK, Numbered, Aimed, OnDisk, RowFails, sidebarVars, diskVars
  <2>3. target[n] = 0 \/ target[n] < nextId
    BY <1>5 DEF Base, Aimed, OnDisk, RowFails
  <2>4. Fresh'
    BY <1>5, <2>3, Bounds DEF Base, TypeOK, Fresh, Exists, RowFails, sidebarVars, diskVars
  <2> QED
    BY <2>1, <2>2, <2>4 DEF Base
<1> QED
  BY <1>1, <1>2, <1>3, <1>4, <1>5 DEF StoreStep, StoreFault

\* Results, commands and listings change nothing on disk.
LEMMA ReportBase ==
  ASSUME Base, NEW n \in Ops, Report(n)
  PROVE  Base'
<1>1. /\ UNCHANGED <<rows, nextId, secret, issued, kind, editing, shown, snapshot, clean, faults>>
      /\ at' = [at EXCEPT ![n] = "done"] /\ auth' = [auth EXCEPT ![n] = "other"]
      /\ target' = [target EXCEPT ![n] = 0] /\ at[n] \in {"report", "failed"}
  BY DEF Report, SaveReported, EditReported, EditOrphaned, DeleteReported, Reported, diskVars
<1>2. queue' \in Seq({"open", "reload", "error"})
  <2>1. /\ queue \in Seq({"open", "reload", "error"})
        /\ Append(queue, "reload") \in Seq({"open", "reload", "error"})
        /\ Append(queue, "error") \in Seq({"open", "reload", "error"})
    BY DEF Base, TypeOK
  <2>2. queue' \in {queue, Append(queue, "reload"), Append(queue, "error")}
    BY DEF Report, SaveReported, EditReported, EditOrphaned, DeleteReported, Coalesced
  <2> QED
    BY <2>1, <2>2
<1>3. /\ reload' \in {"idle", "started", "read", "failed"} /\ pending' \in BOOLEAN
      /\ error' \in {"none", "operation", "load"} /\ deleting' \subseteq Ids
      /\ missed' \subseteq {"closed", "unread"}
  BY DEF Base, TypeOK, Report, SaveReported, EditReported, EditOrphaned, DeleteReported, StartReload
<1>4. TypeOK'
  <2>1. /\ at' \in [Ops -> {"idle", "row", "secret", "report", "failed", "done"}]
        /\ auth' \in [Ops -> Auths] /\ target' \in [Ops -> Nat]
    BY <1>1 DEF Base, TypeOK, Auths
  <2> QED
    BY <1>1, <1>2, <1>3, <2>1 DEF Base, TypeOK
<1>5. Numbered' /\ Aimed'
  BY <1>1, Bounds DEF Base, TypeOK, Numbered, Aimed, OnDisk, Stores
<1>6. Fresh'
  BY <1>1 DEF Base, Fresh, Exists
<1> QED
  BY <1>4, <1>5, <1>6 DEF Base

\* The sidebar's commands and listings touch neither.
LEMMA ListBase ==
  ASSUME Base, ProcessPending \/ ReadList \/ ReadListFails \/ FinishReload
  PROVE  Base'
<1>1. /\ UNCHANGED <<rows, nextId, secret, issued, kind, auth, target, at, editing, clean>>
      /\ UNCHANGED deleting
  BY DEF ProcessPending, ReadList, ReadListFails, FinishReload, diskVars, opVars
<1>2. TypeOK'
  <2>1. NoRows \in [Ids -> Rows] /\ <<>> \in Seq({"open", "reload", "error"})
    BY RowShape DEF NoRows
  <2>2. queue' \in Seq({"open", "reload", "error"})
    BY <2>1 DEF Base, TypeOK, ProcessPending, ReadList, ReadListFails, FinishReload
  <2>3. pending' \in BOOLEAN /\ reload' \in {"idle", "started", "read", "failed"}
    BY DEF Base, TypeOK, ProcessPending, ReadList, ReadListFails, FinishReload
  <2>4. error' \in {"none", "operation", "load"} /\ missed' \subseteq {"closed", "unread"}
    BY DEF Base, TypeOK, ProcessPending, ReadList, ReadListFails, FinishReload
  <2>5. shown' \in [Ids -> Rows] /\ snapshot' \in [Ids -> Rows]
    BY <2>1 DEF Base, TypeOK, ProcessPending, ReadList, ReadListFails, FinishReload
  <2>6. faults' \in Nat
    <3>1. faults \in Nat /\ faults + 1 \in Nat
      BY DEF Base, TypeOK
    <3>2. faults' \in {faults, faults + 1}
      BY DEF ProcessPending, ReadList, ReadListFails, FinishReload, Fault
    <3> QED
      BY <3>1, <3>2
  <2> QED
    BY <1>1, <2>2, <2>3, <2>4, <2>5, <2>6 DEF Base, TypeOK
<1>3. Numbered' /\ Aimed'
  BY <1>1 DEF Base, Numbered, Aimed, OnDisk, Stores
<1>4. Fresh'
  <2>1. ASSUME NEW id \in Ids, id >= nextId
        PROVE  shown'[id] = NoRow /\ snapshot'[id] = NoRow
    BY <2>1 DEF Base, Fresh, Exists, ProcessPending, ReadList, ReadListFails, FinishReload, NoRows
  <2> QED
    BY <1>1, <2>1 DEF Base, Fresh, Exists
<1> QED
  BY <1>2, <1>3, <1>4 DEF Base

\* A restart forgets the operations under way.
LEMMA QuitBase ==
  ASSUME Base, Quit
  PROVE  Base'
<1>1. NoRows \in [Ids -> Rows] /\ <<>> \in Seq({"open", "reload", "error"})
  BY RowShape DEF NoRows
<1>2. TypeOK'
  <2>1. /\ at' \in [Ops -> {"idle", "row", "secret", "report", "failed", "done"}]
        /\ auth' \in [Ops -> Auths] /\ target' \in [Ops -> Nat] /\ clean' \in [Ids -> BOOLEAN]
    BY DEF Base, TypeOK, Quit, Auths
  <2>2. /\ editing' \subseteq Ids /\ deleting' \subseteq Ids
        /\ reload' \in {"idle", "started", "read", "failed"} /\ pending' \in BOOLEAN
        /\ error' \in {"none", "operation", "load"} /\ missed' \subseteq {"closed", "unread"}
    BY DEF Quit
  <2>3. queue' \in Seq({"open", "reload", "error"}) /\ faults' \in Nat
    BY <1>1 DEF Base, TypeOK, Quit, Fault
  <2>4. shown' \in [Ids -> Rows] /\ snapshot' \in [Ids -> Rows]
    BY <1>1 DEF Base, TypeOK, Quit
  <2> QED
    BY <2>1, <2>2, <2>3, <2>4 DEF Base, TypeOK, Quit, diskVars
<1>3. \A n \in Ops : ~OnDisk(n)' /\ (at[n] = "idle" => at'[n] = "idle")
  BY DEF Quit, OnDisk
<1>4. Numbered' /\ Aimed'
  BY <1>3 DEF Base, Numbered, Aimed, Quit
<1>5. Fresh'
  <2>1. ASSUME NEW id \in Ids, id >= nextId
        PROVE  clean'[id] /\ shown'[id] = NoRow /\ snapshot'[id] = NoRow
    <3>1. ~Busy(id)
      BY <2>1, Bounds DEF Base, TypeOK, Aimed, Busy
    <3> QED
      BY <2>1, <3>1 DEF Base, Fresh, Exists, Quit, NoRows
  <2> QED
    BY <2>1 DEF Base, Fresh, Exists, Quit, diskVars
<1> QED
  BY <1>2, <1>4, <1>5 DEF Base

\* Every step keeps the types and the numbering.
LEMMA NextBase ==
  ASSUME Base, [Next]_vars
  PROVE  Base'
<1>2. ASSUME NEW id \in Ids, OpenEdit(id) \/ OpenEditFails(id)
      PROVE  Base'
  <2>1. TypeOK'
    BY <1>2 DEF Base, TypeOK, OpenEdit, OpenEditFails, diskVars, opVars, sidebarVars
  <2>2. Numbered' /\ Aimed'
    BY <1>2 DEF Base, Numbered, Aimed, OnDisk, Stores, OpenEdit, OpenEditFails, diskVars, opVars
  <2>3. Fresh'
    BY <1>2 DEF Base, Fresh, Exists, OpenEdit, OpenEditFails, diskVars, sidebarVars
  <2> QED
    BY <2>1, <2>2, <2>3 DEF Base
<1>3. CASE UNCHANGED vars
  <2>1. TypeOK'
    BY <1>3 DEF Base, TypeOK, vars, diskVars, opVars, sidebarVars
  <2>2. Numbered' /\ Aimed' /\ Fresh'
    BY <1>3 DEF Base, Numbered, Aimed, Fresh, OnDisk, Stores, Exists, vars, diskVars, opVars,
       sidebarVars
  <2> QED
    BY <2>1, <2>2 DEF Base
<1>4. ASSUME NEW id \in Ids, OnScreen(id)
      PROVE  Base'
  <2>1. "other" \in Auths
    BY DEF Auths
  <2> QED
    BY <1>2, <1>4, <2>1, ChangeBase DEF OnScreen
<1>5. ASSUME NEW n \in Ops, StoreStep(n) \/ StoreFault(n) \/ Report(n)
      PROVE  Base'
  BY <1>5, StoreBase, ReportBase
<1> QED
  BY <1>3, <1>4, <1>5, ConnectBase, ListBase, QuitBase DEF Next

\* Every state is well typed, for any number of operations and failures.
THEOREM TypeCorrect == Spec => []TypeOK
<1>1. Init => Base
  BY InitBase
<1>2. Base /\ [Next]_vars => Base'
  BY NextBase
<1>3. Base => TypeOK
  BY DEF Base
<1> QED
  BY <1>1, <1>2, <1>3, PTL DEF Spec

-----------------------------------------------------------------------------
(* Rows and passwords. *)

\* An operation at work on a session that is clean works alone and has left it
\* as its next step expects it.
AtWorkOn(n, id) == OnDisk(n) /\ target[n] = id
Expected(n, id) ==
    /\ at[n] = "row" => /\ kind[n] = "update" => Exists(id)
                        /\ ~Stores(n) => secret[id] = 0
    /\ at[n] = "secret" =>
          /\ kind[n] = "update" => Exists(id)
          /\ Stores(n) => Exists(id) /\ rows[id].auth = "password" /\ rows[id].by = n
Tidy(id) ==
    clean[id] =>
        /\ \A m, n \in Ops : AtWorkOn(m, id) /\ AtWorkOn(n, id) => m = n
        /\ \A n \in Ops : AtWorkOn(n, id) => Expected(n, id)
        /\ ~Busy(id) => Agree(id)

\* A save that has yet to store its password inserted the row it is for.
Owned ==
    /\ NoneInherited
    /\ \A id \in Ids : secret[id] # 0 => kind[secret[id]] # "none"
    /\ \A n \in Ops : kind[n] = "save" /\ at[n] = "secret" /\ Exists(target[n])
                      => rows[target[n]].born = n

\* A step on another session leaves one tidy.
LEMMA OthersTidy ==
  ASSUME NEW id \in Ids, Tidy(id), rows'[id] = rows[id], secret'[id] = secret[id],
         clean'[id] => clean[id],
         \A n \in Ops : (AtWorkOn(n, id)' <=> AtWorkOn(n, id)),
         \A n \in Ops : AtWorkOn(n, id) =>
             at'[n] = at[n] /\ kind'[n] = kind[n] /\ auth'[n] = auth[n]
  PROVE  Tidy(id)'
<1>1. Exists(id)' = Exists(id) /\ Agree(id)' = Agree(id)
  BY DEF Exists, Agree
<1>2. Busy(id)' <=> Busy(id)
  BY DEF Busy, AtWorkOn
<1>3. \A n \in Ops : AtWorkOn(n, id) /\ Expected(n, id) => Expected(n, id)'
  BY <1>1 DEF Expected, Stores
<1> QED
  BY <1>1, <1>2, <1>3 DEF Tidy

\* An operation that works alone ends with row and password in agreement.
LEMMA LastOneTidy ==
  ASSUME NEW id \in Ids, NEW n \in Ops, Tidy(id), AtWorkOn(n, id), clean'[id] => clean[id],
         \A m \in Ops \ {n} : AtWorkOn(m, id)' <=> AtWorkOn(m, id),
         AtWorkOn(n, id)' => Expected(n, id)',
         ~AtWorkOn(n, id)' /\ clean[id] => Agree(id)'
  PROVE  Tidy(id)'
<1> SUFFICES ASSUME clean'[id] PROVE Tidy(id)'
  BY DEF Tidy
<1>1. clean[id] /\ \A m \in Ops \ {n} : ~AtWorkOn(m, id)
  BY DEF Tidy
<1>2. \A m \in Ops : AtWorkOn(m, id)' => m = n
  BY <1>1
<1>3. ~Busy(id)' => Agree(id)'
  BY <1>1 DEF Busy, AtWorkOn
<1> QED
  BY <1>2, <1>3 DEF Tidy

\* Operations begin on a session that is tidy, or mark it.
LEMMA BeginTidy ==
  ASSUME Base, NEW id \in Ids, Tidy(id), NEW a \in Auths, NEW other \in Ids,
         Connect(a) \/ SaveEdit(other, a) \/ Delete(other)
  PROVE  Tidy(id)'
<1>1. PICK m \in Ops : m = issued + 1 /\ ~OnDisk(m)
  BY BeginNew DEF Connect, SaveEdit, Delete
<1>2. /\ rows' = rows /\ secret' = secret
      /\ \A n \in Ops \ {m} : /\ at'[n] = at[n] /\ kind'[n] = kind[n] /\ auth'[n] = auth[n]
                              /\ target'[n] = target[n]
  BY <1>1 DEF Base, TypeOK, Connect, SaveEdit, Delete, Begin, diskVars
<1>3. \A n \in Ops \ {m} : AtWorkOn(n, id)' <=> AtWorkOn(n, id)
  BY <1>2 DEF AtWorkOn, OnDisk
<1>4. CASE Connect(a)
  <2>1. target'[m] = 0 /\ clean' = clean
    BY <1>1, <1>4 DEF Base, TypeOK, Connect, Begin
  <2>2. ~AtWorkOn(m, id)' /\ ~AtWorkOn(m, id)
    BY <1>1, <2>1, Bounds DEF AtWorkOn
  <2> QED
    BY <1>2, <1>3, <2>1, <2>2, OthersTidy
<1>5. CASE other # id /\ (SaveEdit(other, a) \/ Delete(other))
  <2>1. target'[m] = other /\ clean'[id] = clean[id]
    BY <1>1, <1>5 DEF Base, TypeOK, SaveEdit, Delete, Begin
  <2>2. ~AtWorkOn(m, id)' /\ ~AtWorkOn(m, id)
    BY <1>1, <1>5, <2>1 DEF AtWorkOn
  <2> QED
    BY <1>2, <1>3, <2>1, <2>2, OthersTidy
<1>6. CASE other = id /\ (SaveEdit(id, a) \/ Delete(id))
  <2> SUFFICES ASSUME clean'[id] PROVE Tidy(id)'
    BY DEF Tidy
  <2>1. ~Busy(id) /\ \A n \in Ops : ~AtWorkOn(n, id)
    BY <1>6 DEF Base, TypeOK, SaveEdit, Delete, Busy, AtWorkOn
  <2>2. AtWorkOn(m, id)' /\ Expected(m, id)'
    <3>1. CASE SaveEdit(id, a)
      <4>1. Exists(id)'
        BY <1>2, <3>1 DEF Base, TypeOK, SaveEdit, Exists
      <4>2. /\ at'[m] = FirstOfEdit(a) /\ kind'[m] = "update" /\ auth'[m] = a /\ target'[m] = id
        BY <1>1, <3>1 DEF Base, TypeOK, SaveEdit, Begin
      <4> QED
        BY <4>1, <4>2 DEF AtWorkOn, OnDisk, Expected, Stores, FirstOfEdit
    <3>2. CASE Delete(id)
      <4>1. /\ at'[m] = "secret" /\ kind'[m] = "delete" /\ auth'[m] = "other" /\ target'[m] = id
        BY <1>1, <3>2 DEF Base, TypeOK, Delete, Begin
      <4> QED
        BY <4>1 DEF AtWorkOn, OnDisk, Expected, Stores
    <3> QED
      BY <1>6, <3>1, <3>2
  <2>3. Busy(id)'
    BY <1>1, <2>2 DEF Busy, AtWorkOn
  <2> QED
    BY <1>3, <2>1, <2>2, <2>3 DEF Tidy
<1> QED
  BY <1>4, <1>5, <1>6

\* Each step of an operation leaves what the next one expects.
LEMMA StoreTidy ==
  ASSUME Base, NEW id \in Ids, Tidy(id), NEW n \in Ops, StoreStep(n) \/ StoreFault(n)
  PROVE  Tidy(id)'
<1>1. /\ kind' = kind /\ auth' = auth /\ n \in DOMAIN at /\ OnDisk(n)
      /\ \A m \in Ops \ {n} : at'[m] = at[m] /\ target'[m] = target[m]
  BY DEF Base, TypeOK, StoreStep, StoreFault, InsertRow, UpdateRow, DeleteRow, WriteSecret,
     RowFails, SecretFails, Step, OnDisk
<1>2. \A m \in Ops \ {n} : AtWorkOn(m, id)' <=> AtWorkOn(m, id)
  BY <1>1 DEF AtWorkOn, OnDisk
<1>3. CASE InsertRow(n)
  <2>1. /\ target'[n] = nextId /\ target[n] = 0 /\ nextId \in Ids /\ at'[n] = AfterRow(n)
        /\ clean' = clean /\ secret' = secret
        /\ rows' = [rows EXCEPT ![nextId] = [by |-> n, born |-> n, auth |-> auth[n]]]
    BY <1>3 DEF Base, TypeOK, Aimed, OnDisk, InsertRow, Step
  <2>2. ~AtWorkOn(n, id)
    BY <2>1, Bounds DEF AtWorkOn
  <2>3. CASE id # nextId
    <3>1. ~AtWorkOn(n, id)' /\ rows'[id] = rows[id]
      BY <2>1, <2>3 DEF AtWorkOn, Base, TypeOK
    <3> QED
      BY <1>1, <1>2, <2>1, <2>2, <3>1, OthersTidy DEF AtWorkOn
  <2>4. CASE id = nextId
    <3>1. rows'[id] = [by |-> n, born |-> n, auth |-> auth[n]] /\ Exists(id)'
      BY <2>1, <2>4, RowShape DEF Base, TypeOK, Exists
    <3>2. secret'[id] = 0
      BY <2>1, <2>4, Bounds DEF Base, TypeOK, Fresh
    <3>3. \A m \in Ops : ~AtWorkOn(m, id)
      BY <2>2, <2>4, Bounds DEF Base, TypeOK, Aimed, AtWorkOn
    <3>4. CASE Stores(n)
      <4>1. at'[n] = "secret" /\ AtWorkOn(n, id)' /\ Stores(n)'
        BY <1>1, <2>1, <2>4, <3>4 DEF AfterRow, AtWorkOn, OnDisk, Stores
      <4>2. Expected(n, id)' /\ Busy(id)'
        BY <4>1, <3>1, <3>4 DEF Expected, Busy, AtWorkOn, Stores
      <4> QED
        BY <1>2, <3>3, <4>2 DEF Tidy
    <3>5. CASE ~Stores(n)
      <4>1. ~AtWorkOn(n, id)'
        BY <2>1, <3>5 DEF AfterRow, AtWorkOn, OnDisk, Stores
      <4>2. Agree(id)'
        BY <3>1, <3>2, <3>5 DEF Agree, Stores
      <4> QED
        BY <1>2, <3>3, <4>1, <4>2 DEF Tidy
    <3> QED
      BY <3>4, <3>5
  <2> QED
    BY <2>3, <2>4
<1>4. CASE UpdateRow(n) \/ DeleteRow(n) \/ WriteSecret(n) \/ RowFails(n) \/ SecretFails(n)
  <2>1. target' = target
    BY <1>4 DEF UpdateRow, DeleteRow, WriteSecret, RowFails, SecretFails
  <2>2. target[n] \in Ids \/ (RowFails(n) /\ target[n] = 0)
    BY <1>4 DEF Base, Aimed, OnDisk, UpdateRow, DeleteRow, WriteSecret, RowFails, SecretFails
  <2>3. CASE id # target[n]
    <3>1. rows'[id] = rows[id] /\ secret'[id] = secret[id] /\ (clean'[id] => clean[id])
      BY <1>4, <2>2, <2>3 DEF Base, TypeOK, UpdateRow, DeleteRow, WriteSecret, RowFails,
         SecretFails, diskVars
    <3>2. ~AtWorkOn(n, id) /\ ~AtWorkOn(n, id)'
      BY <2>1, <2>3 DEF AtWorkOn
    <3> QED
      BY <1>1, <1>2, <3>1, <3>2, OthersTidy DEF AtWorkOn
  <2>4. CASE id = target[n] /\ (RowFails(n) \/ SecretFails(n))
    <3>1. ~clean'[id]
      BY <2>4 DEF Base, TypeOK, RowFails, SecretFails
    <3> QED
      BY <3>1 DEF Tidy
  <2>5. CASE id = target[n] /\ UpdateRow(n)
    <3>1. /\ at[n] = "row" /\ kind[n] = "update" /\ at'[n] = AfterRow(n) /\ clean' = clean
          /\ secret' = secret
      BY <2>5 DEF Base, TypeOK, UpdateRow, Step
    <3>2. AtWorkOn(n, id)
      BY <1>1, <2>5 DEF AtWorkOn
    <3>3. clean[id] => Exists(id)' /\ rows'[id].by = n /\ rows'[id].auth = auth[n]
      <4> SUFFICES ASSUME clean[id]
                   PROVE  Exists(id)' /\ rows'[id].by = n /\ rows'[id].auth = auth[n]
        OBVIOUS
      <4>1. Exists(id)
        BY <3>1, <3>2 DEF Tidy, Expected
      <4>2. rows[id] \in [by : Ops, born : Ops, auth : Auths]
        BY <4>1 DEF Base, TypeOK, Exists, Rows
      <4>3. rows'[id] = [rows[id] EXCEPT !.by = n, !.auth = auth[n]]
        BY <2>5, <4>1 DEF Base, TypeOK, UpdateRow
      <4>4. rows'[id].by = n /\ rows'[id].auth = auth[n]
        BY <4>2, <4>3
      <4> QED
        BY <4>4, Bounds DEF Exists, NoRow
    <3>4. clean[id] /\ ~Stores(n) => secret[id] = 0
      BY <3>1, <3>2 DEF Tidy, Expected
    <3>5. AtWorkOn(n, id)' => at'[n] = "secret" /\ Stores(n)
      BY <3>1 DEF AtWorkOn, OnDisk, AfterRow, Stores
    <3>6. ~AtWorkOn(n, id)' => ~Stores(n)
      BY <2>1, <2>5, <3>1 DEF AtWorkOn, OnDisk, AfterRow, Stores
    <3>7. clean[id] /\ AtWorkOn(n, id)' => Expected(n, id)'
      BY <1>1, <3>3, <3>5 DEF Expected, Stores
    <3>8. clean[id] /\ ~AtWorkOn(n, id)' => Agree(id)'
      BY <3>1, <3>3, <3>4, <3>6 DEF Agree, Stores
    <3> QED
      BY <1>2, <3>1, <3>2, <3>7, <3>8, LastOneTidy DEF Tidy
  <2>6. CASE id = target[n] /\ DeleteRow(n)
    <3>1. /\ at[n] = "row" /\ kind[n] = "delete" /\ at'[n] = "report" /\ clean' = clean
          /\ secret' = secret /\ rows'[id] = NoRow
      BY <2>6 DEF Base, TypeOK, DeleteRow, Step
    <3>2. AtWorkOn(n, id) /\ ~Stores(n)
      BY <1>1, <2>6, <3>1 DEF AtWorkOn, Base, Aimed
    <3>3. clean[id] => Agree(id)'
      BY <3>1, <3>2 DEF Tidy, Expected, Agree, Exists
    <3>4. ~AtWorkOn(n, id)'
      BY <3>1 DEF AtWorkOn, OnDisk
    <3> QED
      BY <1>2, <3>1, <3>2, <3>3, <3>4, LastOneTidy
  <2>7. CASE id = target[n] /\ WriteSecret(n)
    <3>1. /\ at[n] = "secret" /\ at'[n] = AfterSecret(n) /\ clean' = clean /\ rows' = rows
          /\ secret'[id] = IF Stores(n) THEN n ELSE 0
      BY <2>7 DEF Base, TypeOK, WriteSecret, Step
    <3>2. AtWorkOn(n, id)
      BY <1>1, <2>7 DEF AtWorkOn
    <3>3. clean[id] => Expected(n, id)
      BY <3>2 DEF Tidy
    <3>4. AtWorkOn(n, id)' => at'[n] = "row" /\ ~Stores(n) /\ ~Stores(n)'
      BY <1>1, <3>1 DEF AtWorkOn, OnDisk, AfterSecret, Stores
    <3>5. ~AtWorkOn(n, id)' => Stores(n)
      BY <2>1, <2>7, <3>1 DEF AtWorkOn, OnDisk, AfterSecret
    <3>6. clean[id] /\ AtWorkOn(n, id)' => Expected(n, id)'
      BY <1>1, <3>1, <3>3, <3>4 DEF Expected, Exists
    <3>7. clean[id] /\ ~AtWorkOn(n, id)' => Agree(id)'
      BY <3>1, <3>3, <3>5 DEF Expected, Agree, Exists
    <3> QED
      BY <1>2, <3>1, <3>2, <3>6, <3>7, LastOneTidy DEF Tidy
  <2> QED
    BY <1>4, <2>3, <2>4, <2>5, <2>6, <2>7
<1> QED
  BY <1>3, <1>4 DEF StoreStep, StoreFault

\* Nothing else touches the stores or the operations at work on them.
LEMMA QuietTidy ==
  ASSUME Base, NEW id \in Ids, Tidy(id),
         \/ \E other \in Ids : OpenEdit(other) \/ OpenEditFails(other)
         \/ \E n \in Ops : Report(n)
         \/ ProcessPending \/ ReadList \/ ReadListFails \/ FinishReload \/ Quit
         \/ UNCHANGED vars
  PROVE  Tidy(id)'
<1>1. CASE \E n \in Ops : Report(n)
  <2>1. PICK n \in Ops : Report(n)
    BY <1>1
  <2>2. /\ rows' = rows /\ secret' = secret /\ clean' = clean /\ kind' = kind
        /\ at[n] \in {"report", "failed"} /\ at'[n] = "done"
        /\ \A m \in Ops \ {n} : at'[m] = at[m] /\ target'[m] = target[m] /\ auth'[m] = auth[m]
    BY <2>1 DEF Base, TypeOK, Report, SaveReported, EditReported, EditOrphaned, DeleteReported,
       Reported, diskVars
  <2>3. \A m \in Ops : (AtWorkOn(m, id)' <=> AtWorkOn(m, id))
    BY <2>2 DEF AtWorkOn, OnDisk
  <2>4. ~AtWorkOn(n, id)
    BY <2>2 DEF AtWorkOn, OnDisk
  <2> QED
    BY <2>2, <2>3, <2>4, OthersTidy
<1>2. CASE Quit
  <2>1. /\ rows' = rows /\ secret' = secret /\ clean'[id] = (clean[id] /\ ~Busy(id))
        /\ \A n \in Ops : ~OnDisk(n)'
    BY <1>2 DEF Base, TypeOK, Quit, OnDisk, diskVars
  <2>2. clean'[id] => Agree(id)'
    BY <2>1 DEF Tidy, Agree, Exists
  <2> QED
    BY <2>1, <2>2 DEF Tidy, AtWorkOn
<1>3. CASE \/ \E other \in Ids : OpenEdit(other) \/ OpenEditFails(other)
           \/ ProcessPending \/ ReadList \/ ReadListFails \/ FinishReload
           \/ UNCHANGED vars
  <2>1. UNCHANGED <<rows, secret, clean, kind, auth, target, at>>
    BY <1>3 DEF OpenEdit, OpenEditFails, ProcessPending, ReadList, ReadListFails, FinishReload,
       vars, diskVars, opVars
  <2> QED
    BY <2>1, OthersTidy DEF AtWorkOn, OnDisk
<1> QED
  BY <1>1, <1>2, <1>3

\* Every step leaves every session tidy.
LEMMA NextTidy ==
  ASSUME Base, \A id \in Ids : Tidy(id), [Next]_vars
  PROVE  \A id \in Ids : Tidy(id)'
<1> SUFFICES ASSUME NEW id \in Ids PROVE Tidy(id)'
  OBVIOUS
<1>1. ASSUME NEW n \in Ops, StoreStep(n) \/ StoreFault(n)
      PROVE  Tidy(id)'
  BY <1>1, StoreTidy
<1>2. ASSUME NEW a \in Auths, NEW other \in Ids, Connect(a) \/ SaveEdit(other, a) \/ Delete(other)
      PROVE  Tidy(id)'
  BY <1>2, BeginTidy
<1>3. "other" \in Auths
  BY DEF Auths
<1> QED
  BY <1>1, <1>2, <1>3, QuietTidy DEF Next, OnScreen

\* A password is stored under a key nobody else had.
LEMMA NextOwned ==
  ASSUME Base, Owned, [Next]_vars
  PROVE  Owned'
<1>1. ASSUME NEW n \in Ops, InsertRow(n)
      PROVE  Owned'
  <2>1. /\ nextId \in Ids /\ kind' = kind /\ secret' = secret /\ secret[nextId] = 0
        /\ rows' = [rows EXCEPT ![nextId] = [by |-> n, born |-> n, auth |-> auth[n]]]
        /\ \A m \in Ops \ {n} : at'[m] = at[m] /\ target'[m] = target[m]
        /\ target'[n] = nextId
    BY <1>1, Bounds DEF Base, TypeOK, Fresh, InsertRow, Step
  <2>2. NoneInherited'
    BY <2>1 DEF Base, TypeOK, Owned, NoneInherited, Exists
  <2>3. ASSUME NEW m \in Ops, kind[m] = "save", at'[m] = "secret", Exists(target[m])'
        PROVE  rows'[target'[m]].born = m
    <3>1. CASE m = n
      BY <2>1, <3>1 DEF Base, TypeOK
    <3>2. CASE m # n
      <4>1. target[m] \in Ids /\ target[m] # nextId /\ target'[m] = target[m] /\ at[m] = "secret"
        BY <2>1, <2>3, <3>2, Bounds DEF Base, TypeOK, Aimed, OnDisk
      <4>2. Exists(target[m])
        BY <2>1, <2>3, <4>1 DEF Base, TypeOK, Exists
      <4> QED
        BY <2>1, <2>3, <4>1, <4>2 DEF Base, TypeOK, Owned
    <3> QED
      BY <3>1, <3>2
  <2> QED
    BY <2>1, <2>2, <2>3 DEF Owned
<1>2. ASSUME NEW n \in Ops, UpdateRow(n) \/ DeleteRow(n) \/ RowFails(n) \/ SecretFails(n)
      PROVE  Owned'
  <2>1. /\ kind' = kind /\ target' = target /\ secret' = secret
        /\ \A m \in Ops \ {n} : at'[m] = at[m]
        /\ at'[n] = "secret" => kind[n] = "update"
    BY <1>2 DEF Base, TypeOK, Aimed, OnDisk, UpdateRow, DeleteRow, RowFails, SecretFails, Step,
       diskVars, AfterSecret
  <2>2. \A id \in Ids : Exists(id)' => Exists(id) /\ rows'[id].born = rows[id].born
    <3> SUFFICES ASSUME NEW id \in Ids, Exists(id)'
                 PROVE  Exists(id) /\ rows'[id].born = rows[id].born
      OBVIOUS
    <3>1. CASE UpdateRow(n)
      <4>1. CASE id = target[n] /\ Exists(target[n])
        <5>1. rows[id] \in [by : Ops, born : Ops, auth : Auths]
          BY <4>1 DEF Base, TypeOK, Exists, Rows
        <5>2. rows'[id] = [rows[id] EXCEPT !.by = n, !.auth = auth[n]]
          BY <3>1, <4>1 DEF Base, TypeOK, UpdateRow
        <5> QED
          BY <4>1, <5>1, <5>2
      <4>2. CASE ~(id = target[n] /\ Exists(target[n]))
        <5>1. rows'[id] = rows[id]
          BY <3>1, <4>2 DEF Base, TypeOK, UpdateRow
        <5> QED
          BY <5>1 DEF Exists
      <4> QED
        BY <4>1, <4>2
    <3>2. CASE DeleteRow(n)
      BY <3>2 DEF Base, TypeOK, DeleteRow, Exists
    <3>3. CASE RowFails(n) \/ SecretFails(n)
      BY <3>3 DEF RowFails, SecretFails, diskVars, Exists
    <3> QED
      BY <1>2, <3>1, <3>2, <3>3
  <2>3. NoneInherited'
    BY <2>1, <2>2 DEF Owned, NoneInherited
  <2>4. ASSUME NEW m \in Ops, kind[m] = "save", at'[m] = "secret", Exists(target[m])'
        PROVE  rows'[target[m]].born = m
    <3>1. at[m] = "secret" /\ target[m] \in Ids
      BY <2>1, <2>4 DEF Base, Aimed, OnDisk
    <3> QED
      BY <2>1, <2>2, <2>4, <3>1 DEF Owned
  <2> QED
    BY <2>1, <2>3, <2>4 DEF Owned
<1>3. ASSUME NEW n \in Ops, WriteSecret(n)
      PROVE  Owned'
  <2>1. /\ kind' = kind /\ target' = target /\ rows' = rows /\ at[n] = "secret"
        /\ secret' = [secret EXCEPT ![target[n]] = IF Stores(n) THEN n ELSE 0]
        /\ \A m \in Ops \ {n} : at'[m] = at[m]
        /\ at'[n] # "secret" /\ target[n] \in Ids
    BY <1>3 DEF Base, TypeOK, Aimed, OnDisk, WriteSecret, Step, AfterSecret
  <2>2. kind[n] # "none"
    BY <2>1 DEF Base, Numbered, OnDisk
  <2>3. NoneInherited' /\ \A id \in Ids : secret'[id] # 0 => kind[secret'[id]] # "none"
    BY <2>1, <2>2 DEF Base, TypeOK, Owned, NoneInherited, Exists
  <2> QED
    BY <2>1, <2>3 DEF Owned, Exists
<1>4. ASSUME (\E a \in Auths : Connect(a))
             \/ (\E id \in Ids : Delete(id) \/ \E a \in Auths : SaveEdit(id, a))
      PROVE  Owned'
  <2>0. \E k \in {"save", "update", "delete"}, a \in Auths, id \in Ids \cup {0},
           first \in {"row", "secret"} :
           /\ Begin(k, a, id, first) /\ (k = "save" => first = "row")
           /\ rows' = rows /\ secret' = secret
    <3>1. "other" \in Auths /\ \A a \in Auths : FirstOfEdit(a) \in {"row", "secret"}
      BY DEF Auths, FirstOfEdit
    <3>2. CASE \E a \in Auths : Connect(a)
      BY <3>2 DEF Connect, diskVars
    <3>3. CASE \E id \in Ids : Delete(id)
      BY <3>1, <3>3 DEF Delete, diskVars
    <3>4. CASE \E id \in Ids : \E a \in Auths : SaveEdit(id, a)
      BY <3>1, <3>4 DEF SaveEdit, diskVars
    <3> QED
      BY <1>4, <3>2, <3>3, <3>4
  <2>1. PICK m \in Ops : m = issued + 1 /\ ~OnDisk(m)
    BY <2>0, BeginNew
  <2>2. /\ rows' = rows /\ secret' = secret /\ kind[m] = "none"
        /\ \A n \in Ops \ {m} : at'[n] = at[n] /\ kind'[n] = kind[n] /\ target'[n] = target[n]
        /\ kind'[m] = "save" => at'[m] = "row"
        /\ kind'[m] \in {"save", "update", "delete"}
    BY <2>0, <2>1, Bounds DEF Base, TypeOK, Numbered, Begin
  <2>3. \A o \in Ids : secret[o] # 0 => secret[o] \in Ops \ {m}
    BY <2>2 DEF Base, TypeOK, Owned
  <2> QED
    BY <2>2, <2>3 DEF Owned, NoneInherited, Exists
<1>5. CASE \/ \E id \in Ids : OpenEdit(id) \/ OpenEditFails(id)
           \/ \E n \in Ops : Report(n)
           \/ ProcessPending \/ ReadList \/ ReadListFails \/ FinishReload \/ Quit
           \/ UNCHANGED vars
  <2>1. /\ UNCHANGED <<rows, secret, kind>>
        /\ \A n \in Ops : at'[n] = "secret" => at[n] = "secret" /\ target'[n] = target[n]
    BY <1>5 DEF Base, TypeOK, OpenEdit, OpenEditFails, Report, SaveReported, EditReported,
       EditOrphaned, DeleteReported, Reported, ProcessPending, ReadList, ReadListFails,
       FinishReload, Quit, vars, diskVars, opVars
  <2> QED
    BY <2>1 DEF Owned, NoneInherited, Exists
<1>6. ASSUME NEW n \in Ops, StoreStep(n) \/ StoreFault(n)
      PROVE  Owned'
  BY <1>1, <1>2, <1>3, <1>6 DEF StoreStep, StoreFault
<1>7. ASSUME NEW id \in Ids, OnScreen(id)
      PROVE  Owned'
  BY <1>4, <1>5, <1>7 DEF OnScreen
<1> QED
  BY <1>4, <1>5, <1>6, <1>7 DEF Next

\* Once an operation ran alone and whole on a session, its row and its password
\* agree; and no session ever inherits another one's password.
THEOREM PasswordsKept == Spec => []SecretsFollowRows
<1> DEFINE Inv == Base /\ (\A id \in Ids : Tidy(id)) /\ Owned
<1>1. Init => Inv
  <2> SUFFICES ASSUME Init PROVE Inv
    OBVIOUS
  <2>1. \A n \in Ops : ~OnDisk(n)
    BY DEF Init, OnDisk
  <2>2. \A id \in Ids : secret[id] = 0 /\ ~Exists(id)
    BY DEF Init, NoRows, Exists
  <2>3. \A n \in Ops : at[n] # "secret"
    BY DEF Init
  <2> QED
    BY <2>1, <2>2, <2>3, InitBase DEF Tidy, AtWorkOn, Agree, Owned, NoneInherited
<1>2. Inv /\ [Next]_vars => Inv'
  BY NextBase, NextTidy, NextOwned
<1>3. Inv => SecretsFollowRows
  BY DEF SecretsFollowRows, Tidy, Owned
<1> QED
  BY <1>1, <1>2, <1>3, PTL DEF Spec

-----------------------------------------------------------------------------
(* The sidebar and the table. *)

\* What the sidebar shows once the listing under way has ended.
Listed == IF reload = "read" THEN snapshot ELSE shown

\* A list that differs from the table is to be read again, or excused; what
\* excused an earlier list is forgotten when the table is read.
Owed ==
    /\ Listed # rows => ToBeRead \/ Excused
    /\ reload = "read" => "unread" \notin missed

\* An operation that has not been reported stays so until it is.
LEMMA BeginOwed ==
  ASSUME Base, Owed, NEW k, NEW a, NEW id, NEW first, Begin(k, a, id, first),
         rows' = rows, UNCHANGED <<shown, reload, pending, snapshot, error, missed>>,
         Calls # {} => Calls' # {}
  PROVE  Owed'
<1>1. PICK m \in Ops : m = issued + 1 /\ ~OnDisk(m) /\ at[m] = "idle"
  BY BeginNew DEF Base, TypeOK, Numbered
<1>2. \A n \in Ops \ {m} : at'[n] = at[n] /\ auth'[n] = auth[n]
  BY <1>1 DEF Base, TypeOK, Begin
<1>3. Unreported # {} => Unreported' # {}
  BY <1>1, <1>2 DEF Unreported, Stores
<1> QED
  BY <1>3 DEF Owed, Listed, ToBeRead, Excused

\* A step that changes the table leaves its operation to be reported.
LEMMA StoreOwed ==
  ASSUME Base, Owed, NEW n \in Ops, StoreStep(n) \/ StoreFault(n)
  PROVE  Owed'
<1>1. /\ UNCHANGED <<auth, queue, shown, reload, pending, snapshot, error, missed>>
      /\ \A m \in Ops \ {n} : at'[m] = at[m]
  BY DEF Base, TypeOK, StoreStep, StoreFault, InsertRow, UpdateRow, DeleteRow, WriteSecret,
     RowFails, SecretFails, Step, sidebarVars
<1>2. CASE InsertRow(n) \/ UpdateRow(n) \/ DeleteRow(n)
  <2>1. at'[n] = "report" \/ (at'[n] = "secret" /\ Stores(n)')
    BY <1>1, <1>2 DEF Base, TypeOK, InsertRow, UpdateRow, DeleteRow, Step, AfterRow, Stores
  <2>2. n \in Unreported'
    BY <2>1 DEF Unreported
  <2> QED
    BY <1>1, <2>2 DEF Owed, ToBeRead
<1>3. CASE WriteSecret(n) \/ RowFails(n) \/ SecretFails(n)
  <2>1. rows' = rows /\ (n \in Unreported => n \in Unreported')
    BY <1>1, <1>3 DEF Base, TypeOK, WriteSecret, RowFails, SecretFails, Step, AfterSecret, Stores,
       Unreported, diskVars
  <2>2. Unreported # {} => Unreported' # {}
    BY <1>1, <2>1 DEF Unreported, Stores
  <2>3. Calls' = Calls
    BY <1>1 DEF Calls
  <2> QED
    BY <1>1, <2>1, <2>2, <2>3 DEF Owed, Listed, ToBeRead, Excused
<1> QED
  BY <1>2, <1>3 DEF StoreStep, StoreFault

\* A report asks for a listing, or says why nobody does.
LEMMA ReportOwed ==
  ASSUME Base, Owed, NEW n \in Ops, Report(n)
  PROVE  Owed'
<1>1. /\ rows' = rows /\ shown' = shown /\ snapshot' = snapshot
      /\ \A m \in Ops \ {n} : at'[m] = at[m] /\ auth'[m] = auth[m]
      /\ at[n] \in {"report", "failed"}
  BY DEF Base, TypeOK, Report, SaveReported, EditReported, EditOrphaned, DeleteReported,
     Reported, diskVars
<1>2. Unreported # {} => Unreported' # {} \/ at[n] = "report"
  BY <1>1 DEF Unreported, Stores
<1>3. queue \in Seq({"open", "reload", "error"})
  BY DEF Base, TypeOK
<1>4. \A x : Calls # {} =>
         \E i \in DOMAIN Append(queue, x) : Append(queue, x)[i] \in {"open", "reload"}
  BY <1>3 DEF Calls
<1>5. /\ \E i \in DOMAIN Coalesced(queue) : Coalesced(queue)[i] = "reload"
  <2>1. CASE \E i \in DOMAIN queue : queue[i] = "reload"
    BY <2>1 DEF Coalesced
  <2>2. CASE ~\E i \in DOMAIN queue : queue[i] = "reload"
    <3>1. Coalesced(queue) = Append(queue, "reload")
      BY <2>2 DEF Coalesced
    <3>2. Len(queue) + 1 \in DOMAIN Append(queue, "reload")
          /\ Append(queue, "reload")[Len(queue) + 1] = "reload"
      BY <1>3
    <3> QED
      BY <3>1, <3>2
  <2> QED
    BY <2>1, <2>2
<1>6. CASE SaveReported(n) \/ EditReported(n)
  <2>1. UNCHANGED <<reload, pending, error, missed>>
    BY <1>6 DEF SaveReported, EditReported
  <2>2. at[n] = "report" => Calls' # {}
    BY <1>5, <1>6 DEF SaveReported, EditReported, Calls
  <2>3. Calls # {} => Calls' # {}
    BY <1>4, <1>6, <2>2, <1>1 DEF SaveReported, EditReported, Calls
  <2> QED
    BY <1>1, <1>2, <2>1, <2>2, <2>3 DEF Owed, Listed, ToBeRead, Excused
<1>7. CASE EditOrphaned(n)
  <2>1. /\ UNCHANGED <<queue, reload, pending, error>> /\ missed \subseteq missed'
        /\ at[n] = "report" => "closed" \in missed'
        /\ "unread" \in missed' => "unread" \in missed
    BY <1>7 DEF EditOrphaned
  <2>2. Calls' = Calls
    BY <2>1 DEF Calls
  <2> QED
    BY <1>1, <1>2, <2>1, <2>2 DEF Owed, Listed, ToBeRead, Excused
<1>8. CASE DeleteReported(n)
  <2>1. missed' = missed /\ (reload' = "started" \/ pending') /\ (reload' = "read" => reload = "read")
    BY <1>8 DEF DeleteReported, StartReload
  <2> QED
    BY <2>1 DEF Owed, ToBeRead
<1> QED
  BY <1>6, <1>7, <1>8 DEF Report

\* A request is not lost while a listing is under way.
LEMMA ListOwed ==
  ASSUME Base, Owed, ProcessPending \/ ReadList \/ ReadListFails \/ FinishReload \/ Quit
  PROVE  Owed'
<1>1. CASE ProcessPending
  <2>1. /\ UNCHANGED <<rows, at, auth, shown, snapshot, missed>>
        /\ reload' = "read" => reload = "read"
    BY <1>1 DEF ProcessPending, diskVars, opVars
  <2>2. Calls # {} => reload' = "started" \/ pending'
    BY <1>1 DEF ProcessPending
  <2>3. Calls = {} => UNCHANGED <<reload, pending>> /\ (error # "none" => error' # "none")
    BY <1>1 DEF ProcessPending, Calls, Clears
  <2>4. Unreported' = Unreported
    BY <2>1 DEF Unreported, Stores
  <2> QED
    BY <2>1, <2>2, <2>3, <2>4 DEF Owed, Listed, ToBeRead, Excused
<1>2. CASE ReadList
  BY <1>2 DEF ReadList, Owed, Listed, diskVars
<1>3. CASE ReadListFails
  BY <1>3 DEF ReadListFails, Owed, ToBeRead
<1>4. CASE FinishReload
  <2>1. /\ UNCHANGED <<rows, at, auth, queue>> /\ reload' \in {"started", "idle"}
        /\ pending => reload' = "started"
    BY <1>4 DEF FinishReload, diskVars, opVars
  <2>2. Unreported' = Unreported /\ Calls' = Calls
    BY <2>1 DEF Unreported, Stores, Calls
  <2>3. CASE reload = "read"
    <3>1. shown' = snapshot /\ missed' = missed /\ (error # "load" => error' = error)
      BY <1>4, <2>3 DEF FinishReload
    <3> QED
      BY <2>1, <2>2, <2>3, <3>1 DEF Owed, Listed, ToBeRead, Excused
  <2>4. CASE reload = "failed"
    BY <1>4, <2>1, <2>4 DEF FinishReload, Owed, Excused
  <2> QED
    BY <1>4, <2>3, <2>4 DEF FinishReload
<1>5. CASE Quit
  BY <1>5 DEF Quit, Owed, Listed, Excused, diskVars
<1> QED
  BY <1>1, <1>2, <1>3, <1>4, <1>5

\* Every step keeps what the sidebar is owed.
LEMMA NextOwed ==
  ASSUME Base, Owed, [Next]_vars
  PROVE  Owed'
<1>1. ASSUME NEW a \in Auths, Connect(a)
      PROVE  Owed'
  <2>1. Append(queue, "open")[Len(queue) + 1] = "open"
        /\ Len(queue) + 1 \in DOMAIN Append(queue, "open")
    BY DEF Base, TypeOK
  <2>2. Calls' # {}
    BY <1>1, <2>1 DEF Connect, Calls
  <2>3. UNCHANGED <<reload, missed>>
    BY <1>1 DEF Connect, sidebarVars
  <2> QED
    BY <2>2, <2>3 DEF Owed, ToBeRead
<1>2. ASSUME NEW id \in Ids, OnScreen(id)
      PROVE  Owed'
  <2>1. CASE Delete(id)
    BY <2>1, BeginOwed DEF Delete, diskVars, Calls
  <2>2. CASE \E a \in Auths : SaveEdit(id, a)
    BY <2>2, BeginOwed DEF SaveEdit, diskVars, sidebarVars, Calls
  <2>3. CASE OpenEdit(id) \/ OpenEditFails(id)
    <3>1. UNCHANGED <<rows, at, auth, queue, shown, snapshot, reload, pending, missed>>
          /\ error' \in {error, "operation"}
      BY <2>3 DEF OpenEdit, OpenEditFails, diskVars, opVars, sidebarVars
    <3>2. Unreported' = Unreported /\ Calls' = Calls
      BY <3>1 DEF Unreported, Stores, Calls
    <3> QED
      BY <3>1, <3>2 DEF Owed, Listed, ToBeRead, Excused
  <2> QED
    BY <1>2, <2>1, <2>2, <2>3 DEF OnScreen
<1>3. ASSUME NEW n \in Ops, StoreStep(n) \/ StoreFault(n) \/ Report(n)
      PROVE  Owed'
  BY <1>3, StoreOwed, ReportOwed
<1>4. CASE UNCHANGED vars
  BY <1>4 DEF Owed, Listed, ToBeRead, Excused, Unreported, Stores, Calls, vars, diskVars, opVars,
     sidebarVars
<1> QED
  BY <1>1, <1>2, <1>3, <1>4, ListOwed DEF Next

\* A sidebar that does not show what the table says is about to be listed again,
\* or an error or a window closed too early says why it is not.
THEOREM ListingsOwed == Spec => []SidebarOwed
<1>1. Init => Base /\ Owed
  BY InitBase DEF Init, Owed, Listed
<1>2. Base /\ Owed /\ [Next]_vars => (Base /\ Owed)'
  BY NextBase, NextOwed
<1>3. Owed => SidebarOwed
  BY DEF Owed, SidebarOwed, Stale, Listed
<1> QED
  BY <1>1, <1>2, <1>3, PTL DEF Spec
=============================================================================
