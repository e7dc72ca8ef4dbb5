---------------------------- MODULE WebVaultProofs ----------------------------
(***************************************************************************)
(* Proofs about the web app and the extension's vaults: with any number of *)
(* tabs or windows every funded vault has a backup (MadeInv); with one of  *)
(* them, mirrored or not, a key signs one message, which stays recorded    *)
(* and can be sent again (KeepInv), and what is marked spent is (OpenInv). *)
(***************************************************************************)
EXTENDS WebVault, SequenceTheorems, TLAPS

List == [Vault -> Record]
Job == [vault: Vault \union {0}, amount: Amounts \union {0}, next: Vault \union {0}, record: Record]
File == [vault: Vault, status: {"active", "spent"}, signed: Plan \union {NoPlan}]
Place == {"idle", "deposit", "open", "make", "record", "write", "look",
          "prepare", "send", "sent", "recheck", "mark"}
Withdrawing == Place \ {"idle", "deposit"}
Planned == Withdrawing \ {"open", "make"}

\* What a task holds at each place.
Fits(place, j) ==
    /\ place # "idle" => j.vault \in Vault
    /\ place \in Withdrawing => j.amount \in Amounts /\ Known(j.record)
    /\ place \in Planned => j.next \in Vault

StorageType ==
    /\ stored \in List /\ mem \in [Tabs -> List] /\ seen \in [Tabs -> List]
    /\ queue \in [Tabs -> Seq(List)] /\ failed \in [Tabs -> BOOLEAN]
TaskType ==
    /\ at \in [Tabs -> Place] /\ job \in [Tabs -> Job]
    /\ \A t \in Tabs : Fits(at[t], job[t])
ChainType ==
    /\ held \in [Vault -> Nat] /\ exists \in [Vault -> BOOLEAN]
    /\ sent \subseteq Digest /\ net \subseteq sent /\ paid \subseteq sent /\ deposits \subseteq Vault
TypeInv ==
    /\ StorageType /\ TaskType /\ ChainType
    /\ files \subseteq File /\ fresh \in 1..MaxKey + 1

----------------------------------------------------------------------------
(* What the operators do.                                                   *)

\* A record is edited one field at a time.
LEMMA Edited ==
    ASSUME NEW r \in Record
    PROVE  /\ [r EXCEPT !.status = "spent"] \in Record
           /\ [r EXCEPT !.status = "spent"].status = "spent"
           /\ [r EXCEPT !.status = "spent"].signed = r.signed
           /\ [r EXCEPT !.status = "spent"].backedUp = r.backedUp
           /\ [r EXCEPT !.backedUp = TRUE] \in Record
           /\ [r EXCEPT !.backedUp = TRUE].status = r.status
           /\ [r EXCEPT !.backedUp = TRUE].signed = r.signed
           /\ [r EXCEPT !.backedUp = TRUE].backedUp
           /\ \A p \in Plan : /\ [r EXCEPT !.signed = p] \in Record
                              /\ [r EXCEPT !.signed = p].status = r.status
                              /\ [r EXCEPT !.signed = p].signed = p
                              /\ [r EXCEPT !.signed = p].backedUp = r.backedUp
  BY DEF Record

\* A vault that was just created, before and after its backup.
LEMMA NewRecords ==
    /\ NoRecord \in Record /\ NewRecord \in Record /\ [NewRecord EXCEPT !.backedUp = TRUE] \in Record
    /\ ~Known(NoRecord) /\ NoRecord.signed = NoPlan /\ ~NoRecord.backedUp
    /\ Known(NewRecord) /\ NewRecord.signed = NoPlan /\ NewRecord.status = "active"
    /\ Known([NewRecord EXCEPT !.backedUp = TRUE]) /\ [NewRecord EXCEPT !.backedUp = TRUE].signed = NoPlan
    /\ [NewRecord EXCEPT !.backedUp = TRUE].status = "active" /\ [NewRecord EXCEPT !.backedUp = TRUE].backedUp
  BY DEF NoRecord, NewRecord, Record, Known

\* An imported backup keeps what the stored record knows.
LEMMA MergedType ==
    ASSUME NEW r \in Record, NEW file \in File
    PROVE  /\ Merged(r, file) \in Record /\ Known(Merged(r, file)) /\ Merged(r, file).backedUp
           /\ r.signed # NoPlan => Merged(r, file).signed = r.signed
           /\ r.signed = NoPlan => Merged(r, file).signed = file.signed
           /\ Merged(r, file).status \in {r.status, file.status}
  BY DEF Merged, Record, File, Known

\* A tab saves a list, or two in a row.
Adds(t, M) ==
    /\ UNCHANGED failed /\ View(t)' = M
    /\ Mirrored => /\ UNCHANGED stored /\ mem'[t] = M /\ queue'[t] = Append(queue[t], M)
                   /\ \A u \in Tabs \ {t} : mem'[u] = mem[u] /\ queue'[u] = queue[u]
    /\ ~Mirrored => stored' = M /\ UNCHANGED <<mem, queue>>
AddsTwo(t, L, M) ==
    /\ UNCHANGED failed /\ View(t)' = M
    /\ Mirrored => /\ UNCHANGED stored /\ mem'[t] = M /\ queue'[t] = Append(Append(queue[t], L), M)
                   /\ \A u \in Tabs \ {t} : mem'[u] = mem[u] /\ queue'[u] = queue[u]
    /\ ~Mirrored => stored' = M /\ UNCHANGED <<mem, queue>>
SavedType ==
    /\ stored' \in List /\ mem' \in [Tabs -> List]
    /\ queue' \in [Tabs -> Seq(List)] /\ failed' \in [Tabs -> BOOLEAN]

\* The list a tab reads is a list.
LEMMA ViewType == ASSUME StorageType, NEW t \in Tabs PROVE View(t) \in List
  BY DEF StorageType, View

\* Saving one list.
LEMMA SaveOne ==
    ASSUME StorageType, NEW t \in Tabs, NEW M \in List, Save(t, <<M>>)
    PROVE  Adds(t, M) /\ SavedType
<1>1. <<M>> \in Seq(List) /\ <<M>>[Len(<<M>>)] = M /\ queue[t] \in Seq(List)
  BY DEF StorageType
<1>2. queue[t] \o <<M>> = Append(queue[t], M) /\ Append(queue[t], M) \in Seq(List)
  BY <1>1, AppendProperties
<1>3. CASE Mirrored
  <2>1. UNCHANGED <<stored, failed>> /\ mem' = [mem EXCEPT ![t] = M] /\ queue' = [queue EXCEPT ![t] = Append(queue[t], M)]
    BY <1>1, <1>2, <1>3 DEF Save
  <2>. QED
    BY <1>2, <1>3, <2>1 DEF Adds, SavedType, StorageType, View
<1>4. CASE ~Mirrored
  <2>1. UNCHANGED <<mem, queue, failed>> /\ stored' = M
    BY <1>1, <1>4 DEF Save
  <2>. QED
    BY <1>4, <2>1 DEF Adds, SavedType, StorageType, View
<1>. QED
  BY <1>3, <1>4

\* Saving two lists without an await in between.
LEMMA SaveTwo ==
    ASSUME StorageType, NEW t \in Tabs, NEW L \in List, NEW M \in List, Save(t, <<L, M>>)
    PROVE  AddsTwo(t, L, M) /\ SavedType
<1>1. <<L, M>> \in Seq(List) /\ <<L, M>>[Len(<<L, M>>)] = M /\ queue[t] \in Seq(List)
  BY DEF StorageType
<1>2. /\ queue[t] \o <<L, M>> = Append(Append(queue[t], L), M)
      /\ Append(Append(queue[t], L), M) \in Seq(List)
  BY <1>1, AppendProperties
<1>3. CASE Mirrored
  <2>1. /\ UNCHANGED <<stored, failed>> /\ mem' = [mem EXCEPT ![t] = M]
        /\ queue' = [queue EXCEPT ![t] = Append(Append(queue[t], L), M)]
    BY <1>1, <1>2, <1>3 DEF Save
  <2>. QED
    BY <1>2, <1>3, <2>1 DEF AddsTwo, SavedType, StorageType, View
<1>4. CASE ~Mirrored
  <2>1. UNCHANGED <<mem, queue, failed>> /\ stored' = M
    BY <1>1, <1>4 DEF Save
  <2>. QED
    BY <1>4, <2>1 DEF AddsTwo, SavedType, StorageType, View
<1>. QED
  BY <1>3, <1>4

\* A record of the list is replaced.
LEMMA PutDoes ==
    ASSUME StorageType, NEW t \in Tabs, NEW v \in Vault, NEW r \in Record, Put(t, v, r)
    PROVE  SavedType /\ \E M \in List : /\ Adds(t, M) /\ M[v] = r
                                        /\ \A u \in Vault \ {v} : M[u] = View(t)[u]
<1>. DEFINE M == [View(t) EXCEPT ![v] = r]
<1>1. M \in List /\ M[v] = r /\ \A u \in Vault \ {v} : M[u] = View(t)[u]
  BY ViewType DEF List
<1>2. Save(t, <<M>>)
  BY DEF Put
<1>. QED
  BY <1>1, <1>2, SaveOne

\* The next vault is saved, and once more with its backup.
LEMMA NewDoes ==
    ASSUME TypeInv, NEW t \in Tabs, NEW n, SaveNew(t, n)
    PROVE  /\ SavedType /\ n \in Vault /\ fresh = n /\ fresh' = n + 1 /\ files' = Downloads(n)
           /\ \E L \in List, M \in List :
                /\ AddsTwo(t, L, M) /\ L[n] = NewRecord /\ M[n] = [NewRecord EXCEPT !.backedUp = TRUE]
                /\ \A u \in Vault \ {n} : L[u] = View(t)[u] /\ M[u] = View(t)[u]
<1>. DEFINE L == [View(t) EXCEPT ![n] = NewRecord]
            M == [L EXCEPT ![n] = [NewRecord EXCEPT !.backedUp = TRUE]]
<1>1. n \in Vault
  BY DEF SaveNew
<1>2. L \in List /\ L[n] = NewRecord /\ \A u \in Vault \ {n} : L[u] = View(t)[u]
  BY <1>1, ViewType, NewRecords DEF List, TypeInv
<1>3. M \in List /\ M[n] = [NewRecord EXCEPT !.backedUp = TRUE] /\ \A u \in Vault \ {n} : M[u] = View(t)[u]
  BY <1>1, <1>2, NewRecords DEF List
<1>4. Save(t, <<L, M>>)
  <2>1. [L EXCEPT ![n].backedUp = TRUE] = M
    BY <1>1, <1>2 DEF List
  <2>. QED
    BY <2>1 DEF SaveNew
<1>5. AddsTwo(t, L, M) /\ SavedType
  BY <1>2, <1>3, <1>4, SaveTwo DEF TypeInv
<1>6. fresh = n /\ fresh' = n + 1 /\ files' = Downloads(n)
  BY DEF SaveNew
<1>. HIDE DEF L, M
<1>. QED
  BY <1>1, <1>2, <1>3, <1>5, <1>6

----------------------------------------------------------------------------
(* Types.                                                                   *)

\* A task moves on with what it holds.
LEMMA TaskMoves ==
    ASSUME TaskType, NEW t \in Tabs, NEW place \in Place, NEW j \in Job, Fits(place, j),
           at' = [at EXCEPT ![t] = place], job' = [job EXCEPT ![t] = j]
    PROVE  TaskType'
  BY DEF TaskType

\* One field of what a task holds.
LEMMA JobEdited ==
    ASSUME NEW j \in Job
    PROVE  /\ \A v \in Vault : /\ [j EXCEPT !.next = v] \in Job /\ [j EXCEPT !.next = v].next = v
                               /\ [j EXCEPT !.next = v].vault = j.vault /\ [j EXCEPT !.next = v].amount = j.amount
                               /\ [j EXCEPT !.next = v].record = j.record
           /\ \A v \in Vault : /\ [j EXCEPT !.vault = v] \in Job /\ [j EXCEPT !.vault = v].vault = v
           /\ \A r \in Record : /\ [j EXCEPT !.record = r] \in Job /\ [j EXCEPT !.record = r].record = r
                                /\ [j EXCEPT !.record = r].vault = j.vault /\ [j EXCEPT !.record = r].amount = j.amount
                                /\ [j EXCEPT !.record = r].next = j.next
  BY DEF Job

\* An idle tab holds nothing.
LEMMA IdleFits == NoJob \in Job /\ Fits("idle", NoJob)
  BY NewRecords DEF NoJob, Job, Fits, Withdrawing, Planned, Place

\* No step takes a task out of its type.
LEMMA TaskStep ==
    ASSUME TypeInv, [Next]_vars
    PROVE  TaskType'
<1>. USE DEF storage, ui, chain
<1>0. /\ at \in [Tabs -> Place] /\ job \in [Tabs -> Job] /\ TaskType
      /\ \A t \in Tabs : Fits(at[t], job[t]) /\ job[t] \in Job /\ View(t) \in List
  BY ViewType DEF TypeInv, TaskType
<1>1. ASSUME UNCHANGED <<at, job>> PROVE TaskType'
  BY <1>0, <1>1 DEF TaskType
<1>2. ASSUME NEW t \in Tabs, Ends(t) PROVE TaskType'
  BY <1>0, <1>2, IdleFits, TaskMoves DEF Ends, Place
<1>3. ASSUME NEW t \in Tabs, NEW from, NEW to \in Place, Moves(t, from, to), UNCHANGED job, Fits(to, job[t])
      PROVE  TaskType'
  <2>1. at' = [at EXCEPT ![t] = to] /\ job' = [job EXCEPT ![t] = job[t]]
    BY <1>0, <1>3 DEF Moves
  <2>. QED
    BY <1>0, <1>3, <2>1, TaskMoves
<1>4. ASSUME NEW t \in Tabs, NEW v \in Vault, SendDeposit(t, v) PROVE TaskType'
  <2>1. at' = [at EXCEPT ![t] = "deposit"] /\ job' = [job EXCEPT ![t] = [job[t] EXCEPT !.vault = v]]
    BY <1>4 DEF SendDeposit, Moves
  <2>2. [job[t] EXCEPT !.vault = v] \in Job /\ Fits("deposit", [job[t] EXCEPT !.vault = v])
    BY <1>0, JobEdited DEF Fits, Withdrawing, Planned
  <2>. QED
    BY <1>0, <2>1, <2>2, TaskMoves DEF Place
<1>5. ASSUME NEW t \in Tabs, NEW v \in Vault, NEW amount \in Amounts, Press(t, v, amount) PROVE TaskType'
  <2>1. seen[t][v] \in Record /\ View(t)[v] \in Record /\ seen[t][v].status = "active"
    BY <1>0, <1>5 DEF Press, TypeInv, StorageType, List
  <2>2. PICK r \in Record : Known(r) /\ at' = [at EXCEPT ![t] = "open"]
          /\ job' = [job EXCEPT ![t] = [vault |-> v, amount |-> amount, next |-> 0, record |-> r]]
    BY <1>5, <2>1 DEF Press, Goes, Moves, Known
  <2>. DEFINE j == [vault |-> v, amount |-> amount, next |-> 0, record |-> r]
  <2>3. j \in Job /\ Fits("open", j)
    BY <2>2 DEF Job, Fits, Withdrawing, Planned
  <2>. QED
    BY <1>0, <2>2, <2>3, TaskMoves DEF Place
<1>6. ASSUME NEW t \in Tabs, PlanFirst(t) PROVE TaskType'
  <2>1. at[t] = "open" /\ Moves(t, "open", "make") /\ UNCHANGED job
    BY <1>6 DEF PlanFirst, Goes, Moves
  <2>. QED
    BY <1>0, <1>3, <2>1 DEF Fits, Withdrawing, Planned, Place
<1>7. ASSUME NEW t \in Tabs, NEW v \in Vault, job' = [job EXCEPT ![t].next = v],
             at[t] \in Withdrawing, at' = [at EXCEPT ![t] = "record"] PROVE TaskType'
  <2>1. job' = [job EXCEPT ![t] = [job[t] EXCEPT !.next = v]]
    BY <1>7
  <2>2. [job[t] EXCEPT !.next = v] \in Job /\ Fits("record", [job[t] EXCEPT !.next = v])
    BY <1>0, <1>7, JobEdited DEF Fits, Withdrawing, Planned, Place
  <2>. QED
    BY <1>0, <1>7, <2>1, <2>2, TaskMoves DEF Place
<1>8. ASSUME NEW t \in Tabs, PlanAgain(t) PROVE TaskType'
  <2>1. job[t].record.signed \in Plan
    <3>1. job[t].record.signed # NoPlan
      BY <1>8 DEF PlanAgain
    <3>. QED
      BY <1>0, <3>1 DEF Job, Record
  <2>2. job[t].record.signed.next \in Vault
    BY <2>1 DEF Plan
  <2>3. at[t] \in Withdrawing /\ at' = [at EXCEPT ![t] = "record"]
        /\ job' = [job EXCEPT ![t].next = job[t].record.signed.next]
    BY <1>8 DEF PlanAgain, Goes, Moves, Withdrawing, Place
  <2>. QED
    BY <1>7, <2>2, <2>3
<1>9. ASSUME NEW t \in Tabs, MakeNext(t) PROVE TaskType'
  <2>1. fresh \in Vault
    BY <1>9 DEF MakeNext, SaveNew
  <2>2. at[t] \in Withdrawing /\ at' = [at EXCEPT ![t] = "record"] /\ job' = [job EXCEPT ![t].next = fresh]
    BY <1>9 DEF MakeNext, Moves, Withdrawing, Place
  <2>. QED
    BY <1>7, <2>1, <2>2
<1>10. ASSUME NEW t \in Tabs, ReadRecord(t) PROVE TaskType'
  <2>1. at[t] = "record" /\ at' = [at EXCEPT ![t] = "write"] /\ Fits("record", job[t])
    BY <1>0, <1>10 DEF ReadRecord, Goes, Moves
  <2>2. job[t].vault \in Vault /\ Known(job[t].record) /\ job[t].record \in Record
    BY <1>0, <2>1 DEF Fits, Withdrawing, Place, Job
  <2>3. View(t)[job[t].vault] \in Record
    BY <1>0, <2>2 DEF List
  <2>4. PICK r \in Record : Known(r) /\ job' = [job EXCEPT ![t] = [job[t] EXCEPT !.record = r]]
    BY <1>10, <2>2, <2>3 DEF ReadRecord
  <2>5. [job[t] EXCEPT !.record = r] \in Job /\ Fits("write", [job[t] EXCEPT !.record = r])
    BY <1>0, <2>1, <2>4, JobEdited DEF Fits, Withdrawing, Planned, Place
  <2>. QED
    BY <1>0, <2>1, <2>4, <2>5, TaskMoves DEF Place
<1>11. ASSUME NEW t \in Tabs, NEW from \in Planned, NEW to \in Planned, Moves(t, from, to), UNCHANGED job
       PROVE  TaskType'
  <2>1. Fits(to, job[t]) /\ to \in Place
    BY <1>0, <1>11 DEF Fits, Withdrawing, Planned, Moves, Place
  <2>. QED
    BY <1>3, <1>11, <2>1
<1>12. ASSUME NEW t \in Tabs, \/ WriteRecord(t) \/ Look(t) \/ Prepare(t) \/ Send(t) \/ Confirmed(t)
                              \/ SendFails(t) \/ Recheck(t)
       PROVE TaskType'
  <2>1. \E from, to \in Planned : Moves(t, from, to) /\ UNCHANGED job
    BY <1>12 DEF WriteRecord, Look, Prepare, Send, Confirmed, SendFails, Recheck, Goes, Planned, Withdrawing, Place
  <2>. QED
    BY <1>11, <2>1
<1>13. ASSUME NEW t \in Tabs, \/ Create(t) \/ Reopen(t) \/ DepositEnds(t) \/ Mark(t) \/ Throw(t)
                              \/ \E file \in files : Import(t, file)
       PROVE  TaskType'
  BY <1>2, <1>13 DEF Create, Reopen, DepositEnds, Mark, Throw, Import
<1>14. ASSUME \/ UNCHANGED vars
              \/ \E t \in Tabs : \/ Reload(t) \/ WriteThrough(t) \/ WriteFails(t)
                                 \/ \E v \in Vault : Refresh(t, v) \/ BackUp(t, v)
              \/ \E v \in Vault : LandDeposit(v) \/ ExpireDeposit(v) \/ Receive(v)
              \/ \E d \in net : Land(d) \/ Expire(d)
       PROVE  TaskType'
  <2>1. UNCHANGED <<at, job>>
    BY <1>14 DEF vars, Reload, WriteThrough, WriteFails, Refresh, BackUp, LandDeposit, ExpireDeposit, Receive, Land, Expire
  <2>. QED
    BY <1>1, <2>1
<1>. QED
  BY <1>4, <1>5, <1>6, <1>8, <1>9, <1>10, <1>12, <1>13, <1>14 DEF Next, Proceeds

\* A tab's list after a step; what it displays is a list of its own.
LEMMA DisplayedType ==
    ASSUME StorageType, SavedType, NEW t \in Tabs, UNCHANGED seen \/ Reloads(t)
    PROVE  StorageType'
<1>1. View(t)' \in List
  BY DEF SavedType, View
<1>2. seen' \in [Tabs -> List]
  BY <1>1 DEF Reloads, StorageType
<1>. QED
  BY <1>2 DEF SavedType, StorageType

\* The record that a step puts into the list.
LEMMA PutType ==
    ASSUME TypeInv, NEW t \in Tabs
    PROVE  /\ \A v \in Vault : View(t)[v] \in Record /\ seen[t][v] \in Record
           /\ \A v \in Vault : /\ [View(t)[v] EXCEPT !.status = "spent"] \in Record
                               /\ [View(t)[v] EXCEPT !.backedUp = TRUE] \in Record
           /\ \A file \in files : file.vault \in Vault /\ Merged(View(t)[file.vault], file) \in Record
           /\ at[t] = "write" => job[t].vault \in Vault /\ PlanOf(t) \in Plan
                                 /\ [job[t].record EXCEPT !.signed = PlanOf(t)] \in Record
<1>1. View(t) \in List /\ seen[t] \in List
  BY ViewType DEF TypeInv, StorageType
<1>2. \A v \in Vault : View(t)[v] \in Record /\ seen[t][v] \in Record
  BY <1>1 DEF List
<1>3. \A v \in Vault : /\ [View(t)[v] EXCEPT !.status = "spent"] \in Record
                       /\ [View(t)[v] EXCEPT !.backedUp = TRUE] \in Record
  BY <1>2, Edited
<1>4. ASSUME NEW file \in files PROVE file.vault \in Vault /\ Merged(View(t)[file.vault], file) \in Record
  <2>1. file \in File /\ file.vault \in Vault
    BY DEF TypeInv, File
  <2>. QED
    BY <1>2, <2>1, MergedType
<1>5. ASSUME at[t] = "write"
      PROVE  job[t].vault \in Vault /\ PlanOf(t) \in Plan /\ [job[t].record EXCEPT !.signed = PlanOf(t)] \in Record
  <2>1. job[t] \in Job /\ job[t].vault \in Vault /\ job[t].amount \in Amounts /\ job[t].next \in Vault
    BY <1>5 DEF TypeInv, TaskType, Fits, Withdrawing, Planned, Place
  <2>2. PlanOf(t) \in Plan /\ job[t].record \in Record
    BY <2>1 DEF PlanOf, Plan, Job
  <2>. QED
    BY <2>1, <2>2, Edited
<1>. QED
  BY <1>2, <1>3, <1>4, <1>5

\* No step takes a list out of its type.
LEMMA StorageStep ==
    ASSUME TypeInv, [Next]_vars
    PROVE  StorageType'
<1>. USE DEF storage, ui, chain
<1>0. StorageType /\ \A t \in Tabs : View(t) \in List
  BY ViewType DEF TypeInv
<1>1. ASSUME NEW t \in Tabs, UNCHANGED storage, UNCHANGED seen \/ Reloads(t) PROVE StorageType'
  <2>1. SavedType
    BY <1>0, <1>1 DEF SavedType, StorageType
  <2>. QED
    BY <1>0, <1>1, <2>1, DisplayedType
<1>2. ASSUME NEW t \in Tabs, NEW v \in Vault, NEW r \in Record, Put(t, v, r), UNCHANGED seen \/ Reloads(t)
      PROVE  StorageType'
  BY <1>0, <1>2, PutDoes, DisplayedType
<1>3. ASSUME NEW t \in Tabs, NEW n, SaveNew(t, n), UNCHANGED seen \/ Reloads(t) PROVE StorageType'
  BY <1>0, <1>3, NewDoes, DisplayedType
<1>4. ASSUME NEW t \in Tabs, WriteThrough(t) \/ WriteFails(t) PROVE StorageType'
  <2>1. queue[t] \in Seq(List) /\ queue[t] # <<>>
    BY <1>0, <1>4 DEF WriteThrough, WriteFails, StorageType
  <2>2. Head(queue[t]) \in List /\ Tail(queue[t]) \in Seq(List)
    BY <2>1, HeadTailProperties
  <2>. QED
    BY <1>0, <1>4, <2>2 DEF WriteThrough, WriteFails, StorageType
<1>5. ASSUME NEW t \in Tabs, Reopen(t) PROVE StorageType'
  <2>1. <<>> \in Seq(List)
    OBVIOUS
  <2>2. SavedType
    BY <1>0, <1>5, <2>1 DEF Reopen, SavedType, StorageType
  <2>. QED
    BY <1>0, <1>5, <2>2, DisplayedType DEF Reopen, Ends
<1>6. ASSUME NEW t \in Tabs, Create(t) \/ MakeNext(t) PROVE StorageType'
  BY <1>3, <1>6 DEF Create, MakeNext, Ends
<1>7. ASSUME NEW t \in Tabs, NEW v \in Vault, Refresh(t, v) \/ BackUp(t, v) PROVE StorageType'
  <2>1. \E r \in Record : Put(t, v, r)
    BY <1>7, PutType DEF Refresh, BackUp
  <2>2. UNCHANGED seen \/ Reloads(t)
    BY <1>7 DEF Refresh, BackUp
  <2>. QED
    BY <1>2, <2>1, <2>2
<1>8. ASSUME NEW t \in Tabs, NEW file \in files, Import(t, file) PROVE StorageType'
  <2>1. file.vault \in Vault /\ \E r \in Record : Put(t, file.vault, r)
    BY <1>8, PutType DEF Import
  <2>. QED
    BY <1>2, <1>8, <2>1 DEF Import, Ends
<1>9. ASSUME NEW t \in Tabs, WriteRecord(t) PROVE StorageType'
  <2>1. at[t] = "write" /\ WriteSigned(t) /\ UNCHANGED seen
    BY <1>9 DEF WriteRecord, Goes, Moves
  <2>. QED
    BY <1>2, <2>1, PutType DEF WriteSigned
<1>10. ASSUME NEW t \in Tabs, Mark(t) PROVE StorageType'
  <2>1. job[t].vault \in Vault /\ Reloads(t)
    BY <1>10 DEF Mark, Ends, TypeInv, TaskType, Fits
  <2>2. UNCHANGED storage \/ \E r \in Record : Put(t, job[t].vault, r)
    BY <1>10, <2>1, PutType DEF Mark
  <2>. QED
    BY <1>1, <1>2, <2>1, <2>2
<1>11. ASSUME NEW t \in Tabs, \/ PlanFirst(t) \/ PlanAgain(t) \/ ReadRecord(t) \/ Look(t) \/ Prepare(t) \/ Send(t)
                              \/ Confirmed(t) \/ Recheck(t) \/ SendFails(t) \/ Throw(t) \/ Reload(t) \/ DepositEnds(t)
                              \/ \E v \in Vault : SendDeposit(t, v) \/ \E amount \in Amounts : Press(t, v, amount)
       PROVE  StorageType'
  <2>1. UNCHANGED storage /\ (UNCHANGED seen \/ Reloads(t))
    BY <1>11 DEF PlanFirst, PlanAgain, ReadRecord, Look, Prepare, Send, Confirmed, Recheck, SendFails, Throw, Reload,
       DepositEnds, SendDeposit, Press, Goes, Ends
  <2>. QED
    BY <1>1, <2>1
<1>12. ASSUME \/ UNCHANGED vars
              \/ \E v \in Vault : LandDeposit(v) \/ ExpireDeposit(v) \/ Receive(v)
              \/ \E d \in net : Land(d) \/ Expire(d)
       PROVE  StorageType'
  <2>1. UNCHANGED <<storage, seen>>
    BY <1>12 DEF vars, LandDeposit, ExpireDeposit, Receive, Land, Expire
  <2>. QED
    BY <1>0, <2>1 DEF StorageType
<1>. QED
  BY <1>4, <1>5, <1>6, <1>7, <1>8, <1>9, <1>10, <1>11, <1>12 DEF Next, Proceeds

\* The backups and the number of the next vault.
LEMMA FilesStep ==
    ASSUME TypeInv, [Next]_vars
    PROVE  files' \subseteq File /\ fresh' \in 1..MaxKey + 1
<1>. USE DEF storage, ui, chain
<1>0. files \subseteq File /\ fresh \in 1..MaxKey + 1 /\ MaxKey \in Nat
  BY WebAssumption DEF TypeInv
<1>1. ASSUME NEW t \in Tabs, NEW n, SaveNew(t, n) PROVE files' \subseteq File /\ fresh' \in 1..MaxKey + 1
  <2>1. n \in Vault /\ fresh' = n + 1 /\ files' = Downloads(n)
    BY <1>1, NewDoes
  <2>2. Backup(n, NewRecord) \in File
    BY <2>1, NewRecords DEF Backup, File, NewRecord
  <2>. QED
    BY <1>0, <2>1, <2>2 DEF Downloads, Vault
<1>2. ASSUME NEW t \in Tabs, NEW v \in Vault, BackUp(t, v) PROVE files' \subseteq File /\ fresh' \in 1..MaxKey + 1
  <2>1. seen[t][v] \in Record /\ seen[t][v].status = "active" /\ files' = files \union {Backup(v, seen[t][v])} /\ fresh' = fresh
    BY <1>2, PutType DEF BackUp
  <2>2. Backup(v, seen[t][v]) \in File
    BY <2>1 DEF Backup, File, Record
  <2>. QED
    BY <1>0, <2>1, <2>2
<1>3. CASE UNCHANGED <<files, fresh>>
  BY <1>0, <1>3
<1>4. ASSUME NEW t \in Tabs, Create(t) \/ MakeNext(t) PROVE files' \subseteq File /\ fresh' \in 1..MaxKey + 1
  BY <1>1, <1>4 DEF Create, MakeNext
<1>5. ASSUME NEW t \in Tabs, \/ PlanFirst(t) \/ PlanAgain(t) \/ ReadRecord(t) \/ WriteRecord(t) \/ Look(t) \/ Prepare(t)
                             \/ Send(t) \/ Confirmed(t) \/ Recheck(t) \/ Mark(t) \/ SendFails(t)
      PROVE  UNCHANGED <<files, fresh>>
  BY <1>5 DEF PlanFirst, PlanAgain, ReadRecord, WriteRecord, Look, Prepare, Send, Confirmed, Recheck, Mark, SendFails, Goes
<1>6. ASSUME NEW t \in Tabs, \/ Throw(t) \/ Reload(t) \/ Reopen(t) \/ WriteThrough(t) \/ WriteFails(t) \/ DepositEnds(t)
                             \/ \E file \in files : Import(t, file)
                             \/ \E v \in Vault : \/ Refresh(t, v) \/ SendDeposit(t, v)
                                                 \/ \E amount \in Amounts : Press(t, v, amount)
      PROVE  UNCHANGED <<files, fresh>>
  BY <1>6 DEF Throw, Reload, Reopen, WriteThrough, WriteFails, DepositEnds, Import, Refresh, SendDeposit, Press, Goes
<1>7. ASSUME \/ UNCHANGED vars
             \/ \E v \in Vault : LandDeposit(v) \/ ExpireDeposit(v) \/ Receive(v)
             \/ \E d \in net : Land(d) \/ Expire(d)
      PROVE  UNCHANGED <<files, fresh>>
  BY <1>7 DEF vars, LandDeposit, ExpireDeposit, Receive, Land, Expire
<1>. QED
  BY <1>2, <1>3, <1>4, <1>5, <1>6, <1>7 DEF Next, Proceeds

\* A spend divides what its vault holds.
LEMMA Divides ==
    ASSUME TypeInv, NEW d \in Digest, Covers(d.vault, d.plan.amount), d.plan.amount \in Nat,
           held' = [[held EXCEPT ![d.vault] = 0] EXCEPT ![d.plan.next] = @ + held[d.vault] - d.plan.amount]
    PROVE  /\ held' \in [Vault -> Nat]
           /\ \A v \in Vault \ {d.vault} : held'[v] >= held[v] /\ (v # d.plan.next => held'[v] = held[v])
<1>1. d.vault \in Vault /\ d.plan.next \in Vault /\ held \in [Vault -> Nat]
  BY DEF Digest, Plan, TypeInv, ChainType
<1>2. held[d.vault] \in Nat /\ d.plan.amount <= held[d.vault] /\ held[d.plan.next] \in Nat
  BY <1>1 DEF Covers
<1>. DEFINE g == [held EXCEPT ![d.vault] = 0]
<1>3. held' = [g EXCEPT ![d.plan.next] = g[d.plan.next] + held[d.vault] - d.plan.amount]
  OBVIOUS
<1>4. g \in [Vault -> Nat] /\ g[d.vault] = 0 /\ \A v \in Vault \ {d.vault} : g[v] = held[v]
  BY <1>1
<1>. HIDE DEF g
<1>5. g[d.plan.next] \in Nat /\ g[d.plan.next] + held[d.vault] - d.plan.amount \in Nat
      /\ g[d.plan.next] + held[d.vault] - d.plan.amount >= g[d.plan.next]
  BY <1>1, <1>2, <1>4
<1>. QED
  BY <1>1, <1>3, <1>4, <1>5

\* The steps that involve the chain.
LEMMA ChainMoves ==
    ASSUME [Next]_vars
    PROVE  \/ UNCHANGED <<chain, sent>>
           \/ \E t \in Tabs : Prepare(t) \/ Send(t) \/ \E v \in Vault : SendDeposit(t, v)
           \/ \E v \in Vault : LandDeposit(v) \/ ExpireDeposit(v) \/ Receive(v)
           \/ \E d \in net : Land(d) \/ Expire(d)
<1>1. ASSUME NEW t \in Tabs, \/ PlanFirst(t) \/ PlanAgain(t) \/ MakeNext(t) \/ ReadRecord(t) \/ WriteRecord(t) \/ Look(t)
                             \/ Confirmed(t) \/ Recheck(t) \/ Mark(t) \/ SendFails(t)
      PROVE  UNCHANGED <<chain, sent>>
  BY <1>1 DEF PlanFirst, PlanAgain, MakeNext, ReadRecord, WriteRecord, Look, Confirmed, Recheck, Mark, SendFails, Goes
<1>2. ASSUME NEW t \in Tabs, \/ Throw(t) \/ Create(t) \/ Reload(t) \/ Reopen(t) \/ WriteThrough(t) \/ WriteFails(t)
                             \/ DepositEnds(t) \/ \E file \in files : Import(t, file)
                             \/ \E v \in Vault : \/ Refresh(t, v) \/ BackUp(t, v)
                                                 \/ \E amount \in Amounts : Press(t, v, amount)
      PROVE  UNCHANGED <<chain, sent>>
  BY <1>2 DEF Throw, Create, Reload, Reopen, WriteThrough, WriteFails, DepositEnds, Import, Refresh, BackUp, Press, Goes
<1>3. UNCHANGED vars => UNCHANGED <<chain, sent>>
  BY DEF vars
<1>. QED
  BY <1>1, <1>2, <1>3 DEF Next, Proceeds

\* No step takes the chain out of its type.
LEMMA ChainStep ==
    ASSUME TypeInv, [Next]_vars
    PROVE  ChainType'
<1>. USE DEF storage, ui, chain
<1>0. ChainType
  BY DEF TypeInv
<1>1. ASSUME NEW t \in Tabs, NEW v \in Vault, SendDeposit(t, v) PROVE ChainType'
  BY <1>0, <1>1 DEF SendDeposit, ChainType
<1>2. ASSUME NEW v \in Vault, LandDeposit(v) \/ ExpireDeposit(v) \/ Receive(v) PROVE ChainType'
  <2>1. held \in [Vault -> Nat] /\ held[v] + 1 \in Nat
    BY <1>0 DEF ChainType
  <2>2. UNCHANGED held \/ held' = [held EXCEPT ![v] = held[v] + 1]
    BY <1>2 DEF LandDeposit, ExpireDeposit, Receive
  <2>3. held' \in [Vault -> Nat]
    BY <2>1, <2>2
  <2>4. UNCHANGED exists \/ exists' = [exists EXCEPT ![v] = TRUE]
    BY <1>2 DEF LandDeposit, ExpireDeposit, Receive
  <2>5. deposits' \subseteq deposits /\ UNCHANGED <<net, paid, sent>>
    BY <1>2 DEF LandDeposit, ExpireDeposit, Receive
  <2>. QED
    BY <1>0, <2>3, <2>4, <2>5 DEF ChainType
<1>3. ASSUME NEW t \in Tabs, Prepare(t) PROVE ChainType'
  BY <1>0, <1>3 DEF Prepare, ChainType
<1>4. ASSUME NEW t \in Tabs, Send(t) PROVE ChainType'
  <2>1. at[t] = "send" /\ sent' = sent \union {DigestOf(t)} /\ net' = net \union {d \in {DigestOf(t)} : Acceptable(d)}
        /\ UNCHANGED <<held, exists, deposits, paid>>
    BY <1>4 DEF Send, Moves
  <2>2. job[t].vault \in Vault /\ job[t].amount \in Amounts /\ job[t].next \in Vault
    BY <2>1 DEF TypeInv, TaskType, Fits, Withdrawing, Planned, Place
  <2>3. DigestOf(t) \in Digest
    BY <2>2 DEF DigestOf, PlanOf, Digest, Plan
  <2>. QED
    BY <1>0, <2>1, <2>3 DEF ChainType
<1>5. ASSUME NEW d \in net, Land(d) PROVE ChainType'
  <2>1. d \in Digest /\ d \in sent /\ d.plan.amount \in Nat
    BY <1>0, WebAssumption DEF ChainType, Digest, Plan
  <2>2. held' \in [Vault -> Nat]
    BY <1>5, <2>1, Divides DEF Land, Acceptable
  <2>. QED
    BY <1>0, <1>5, <2>1, <2>2 DEF Land, ChainType
<1>6. ASSUME NEW d \in net, Expire(d) PROVE ChainType'
  BY <1>0, <1>6 DEF Expire, ChainType
<1>7. CASE UNCHANGED <<chain, sent>>
  BY <1>0, <1>7 DEF ChainType
<1>. QED
  BY <1>1, <1>2, <1>3, <1>4, <1>5, <1>6, <1>7, ChainMoves

\* Nothing is stored, displayed or sent at the start.
LEMMA TypeInit == Init => TypeInv
<1>. SUFFICES ASSUME Init PROVE TypeInv
  OBVIOUS
<1>1. NoList \in List
  BY NewRecords DEF NoList, List
<1>2. StorageType
  BY <1>1 DEF Init, StorageType
<1>3. TaskType
  BY IdleFits DEF Init, TaskType, Place
<1>4. ChainType
  BY DEF Init, ChainType
<1>5. files \subseteq File /\ fresh \in 1..MaxKey + 1
  BY WebAssumption DEF Init
<1>. QED
  BY <1>2, <1>3, <1>4, <1>5 DEF TypeInv

\* No step takes a variable out of its type.
LEMMA TypeStep == TypeInv /\ [Next]_vars => TypeInv'
  BY TaskStep, StorageStep, FilesStep, ChainStep DEF TypeInv

\* Every variable has its type, and a task holds at each await what it needs
\* there: its vault, its amount, a stored record, the next vault (flow.ts, store.ts).
THEOREM TypeCorrect == Spec => []TypeInv
  BY TypeInit, TypeStep, PTL DEF Spec

----------------------------------------------------------------------------
(* Every funded vault has a backup, with any number of tabs.                *)

\* What is listed, displayed, being worked on, sent, on its way and paid are
\* vaults that were created.
ListMade(n, L) ==
    \A v \in Vault : (Known(L[v]) => v < n) /\ (L[v].signed # NoPlan \/ L[v].backedUp => Known(L[v]))
ListsMade ==
    /\ ListMade(fresh, stored)
    /\ \A t \in Tabs : /\ ListMade(fresh, mem[t]) /\ ListMade(fresh, seen[t])
                       /\ \A i \in DOMAIN queue[t] : ListMade(fresh, queue[t][i])
TasksMade == \A t \in Tabs : (at[t] # "idle" => job[t].vault < fresh) /\ (at[t] \in Planned => job[t].next < fresh)
FilesMade ==
    /\ \A file \in files : file.vault < fresh /\ file.status = "active"
    /\ \A v \in Vault : v < fresh => \E file \in files : file.vault = v
ChainMade ==
    /\ \A d \in sent : d.plan.next < fresh
    /\ \A v \in deposits : v < fresh
    /\ \A v \in Vault : held[v] > 0 => v < fresh
MadeInv == ListsMade /\ TasksMade /\ FilesMade /\ ChainMade

\* The first and the other elements of a queue with one more list.
LEMMA Appended ==
    ASSUME NEW q \in Seq(List), NEW M \in List
    PROVE  /\ Append(q, M) \in Seq(List) /\ Append(q, M) # <<>>
           /\ Len(Append(q, M)) = Len(q) + 1 /\ Len(q) \in Nat
           /\ DOMAIN Append(q, M) = 1..(Len(q) + 1) /\ DOMAIN q = 1..Len(q)
           /\ Append(q, M)[Len(q) + 1] = M /\ \A i \in 1..Len(q) : Append(q, M)[i] = q[i]
  BY AppendProperties

\* The first list leaves a queue.
LEMMA Dequeued ==
    ASSUME NEW q \in Seq(List), q # <<>>
    PROVE  /\ Head(q) \in List /\ Tail(q) \in Seq(List) /\ Head(q) = q[1] /\ 1 \in DOMAIN q
           /\ Len(q) \in Nat /\ Len(q) >= 1 /\ Len(Tail(q)) = Len(q) - 1
           /\ DOMAIN q = 1..Len(q) /\ DOMAIN Tail(q) = 1..(Len(q) - 1)
           /\ \A i \in 1..(Len(q) - 1) : Tail(q)[i] = q[i + 1] /\ i + 1 \in DOMAIN q
  BY HeadTailProperties, EmptySeq

\* More vaults are created.
LEMMA ListMore == \A n, m \in Nat : \A L : n <= m /\ ListMade(n, L) => ListMade(m, L)
  BY DEF ListMade, Vault

\* A tab adds lists of created vaults.
LEMMA AddsMade ==
    ASSUME TypeInv, ListsMade, NEW t \in Tabs, NEW M \in List, Adds(t, M), fresh' = fresh, ListMade(fresh, M),
           UNCHANGED seen \/ Reloads(t)
    PROVE  ListsMade'
<1>1. ListMade(fresh', stored') /\ \A u \in Tabs : ListMade(fresh', mem'[u])
  BY DEF Adds, ListsMade
<1>2. ASSUME NEW u \in Tabs, NEW i \in DOMAIN queue'[u] PROVE ListMade(fresh', queue'[u][i])
  <2>1. CASE Mirrored /\ u = t
    <3>1. queue[t] \in Seq(List) /\ queue'[t] = Append(queue[t], M)
      BY <2>1 DEF Adds, TypeInv, StorageType
    <3>. QED
      BY <1>2, <2>1, <3>1, Appended DEF ListsMade
  <2>2. CASE ~(Mirrored /\ u = t)
    BY <1>2, <2>2 DEF Adds, ListsMade
  <2>. QED
    BY <2>1, <2>2
<1>3. \A u \in Tabs : ListMade(fresh', seen'[u])
  BY DEF Adds, ListsMade, Reloads, TypeInv, StorageType
<1>. QED
  BY <1>1, <1>2, <1>3 DEF ListsMade

\* A tab adds two lists of created vaults.
LEMMA AddsTwoMade ==
    ASSUME TypeInv, ListsMade, NEW t \in Tabs, NEW L \in List, NEW M \in List, AddsTwo(t, L, M), fresh' = fresh + 1,
           ListMade(fresh', L), ListMade(fresh', M), UNCHANGED seen \/ Reloads(t)
    PROVE  ListsMade'
<1>0. fresh \in Nat /\ fresh' \in Nat /\ fresh <= fresh'
  BY WebAssumption DEF TypeInv
<1>1. ListMade(fresh', stored') /\ \A u \in Tabs : ListMade(fresh', mem'[u])
  BY <1>0, ListMore DEF AddsTwo, ListsMade
<1>2. ASSUME NEW u \in Tabs, NEW i \in DOMAIN queue'[u] PROVE ListMade(fresh', queue'[u][i])
  <2>1. CASE Mirrored /\ u = t
    <3>. DEFINE q == Append(queue[t], L)
    <3>1. queue[t] \in Seq(List) /\ queue'[t] = Append(q, M) /\ q \in Seq(List)
      BY <2>1, Appended DEF AddsTwo, TypeInv, StorageType
    <3>2. \A k \in DOMAIN queue[t] : ListMade(fresh', queue[t][k])
      BY <1>0, ListMore DEF ListsMade
    <3>3. \A k \in DOMAIN q : ListMade(fresh', q[k])
      BY <3>1, <3>2, Appended
    <3>. HIDE DEF q
    <3>. QED
      BY <1>2, <2>1, <3>1, <3>3, Appended
  <2>2. CASE ~(Mirrored /\ u = t)
    BY <1>0, <1>2, <2>2, ListMore DEF AddsTwo, ListsMade
  <2>. QED
    BY <2>1, <2>2
<1>3. \A u \in Tabs : ListMade(fresh', seen'[u])
  BY <1>0, ListMore DEF AddsTwo, ListsMade, Reloads, TypeInv, StorageType
<1>. QED
  BY <1>1, <1>2, <1>3 DEF ListsMade

\* A record is put into the list.
LEMMA PutMade ==
    ASSUME TypeInv, ListsMade, NEW t \in Tabs, NEW v \in Vault, NEW r \in Record, Put(t, v, r), fresh' = fresh,
           v < fresh, Known(r), UNCHANGED seen \/ Reloads(t)
    PROVE  ListsMade'
<1>1. PICK M \in List : Adds(t, M) /\ M[v] = r /\ \A u \in Vault \ {v} : M[u] = View(t)[u]
  BY PutDoes DEF TypeInv
<1>2. ListMade(fresh, View(t))
  BY DEF View, ListsMade
<1>3. ListMade(fresh, M)
  BY <1>1, <1>2 DEF ListMade
<1>. QED
  BY <1>1, <1>3, AddsMade

\* A new vault is put into the list.
LEMMA NewMade ==
    ASSUME TypeInv, ListsMade, NEW t \in Tabs, NEW n, SaveNew(t, n), UNCHANGED seen \/ Reloads(t)
    PROVE  ListsMade'
<1>1. n \in Vault /\ fresh = n /\ fresh' = fresh + 1
  BY NewDoes
<1>2. PICK L \in List, M \in List :
        /\ AddsTwo(t, L, M) /\ L[n] = NewRecord /\ M[n] = [NewRecord EXCEPT !.backedUp = TRUE]
        /\ \A u \in Vault \ {n} : L[u] = View(t)[u] /\ M[u] = View(t)[u]
  BY NewDoes, ZenonT(40)
<1>3. ListMade(fresh, View(t)) /\ fresh \in Nat
  BY WebAssumption DEF View, ListsMade, TypeInv
<1>4. ListMade(fresh', L) /\ ListMade(fresh', M)
  <2>1. /\ Known(L[n]) /\ L[n].signed = NoPlan /\ Known(M[n]) /\ M[n].signed = NoPlan /\ n < fresh'
    BY <1>1, <1>2, <1>3, NewRecords
  <2>2. ListMade(fresh', View(t))
    BY <1>1, <1>3, ListMore
  <2>. QED
    BY <1>2, <2>1, <2>2 DEF ListMade
<1>. QED
  BY <1>1, <1>2, <1>4, AddsTwoMade

\* Only created vaults are ever listed.
LEMMA ListsStep ==
    ASSUME TypeInv, MadeInv, [Next]_vars
    PROVE  ListsMade'
<1>. USE DEF storage, ui, chain
<1>0. /\ StorageType /\ ListsMade /\ \A t \in Tabs : ListMade(fresh, View(t)) /\ View(t) \in List
      /\ \A t \in Tabs : at[t] # "idle" => job[t].vault \in Vault /\ job[t].vault < fresh
  BY ViewType DEF TypeInv, MadeInv, ListsMade, View, TasksMade, TaskType, Fits
<1>1. ASSUME NEW t \in Tabs, UNCHANGED <<storage, fresh>>, UNCHANGED seen \/ Reloads(t) PROVE ListsMade'
  <2>1. View(t)' = View(t)
    BY <1>1 DEF View
  <2>. QED
    BY <1>0, <1>1, <2>1, SMTT(40) DEF ListsMade, Reloads, StorageType
<1>2. ASSUME NEW t \in Tabs, WriteThrough(t) \/ WriteFails(t) PROVE ListsMade'
  <2>1. queue[t] \in Seq(List) /\ queue[t] # <<>>
    BY <1>0, <1>2 DEF WriteThrough, WriteFails, StorageType
  <2>2. /\ queue'[t] = Tail(queue[t]) /\ \A u \in Tabs \ {t} : queue'[u] = queue[u]
        /\ stored' \in {stored, Head(queue[t])} /\ UNCHANGED <<mem, seen, fresh>>
    BY <1>0, <1>2 DEF WriteThrough, WriteFails, StorageType
  <2>3. ListMade(fresh, Head(queue[t])) /\ \A i \in DOMAIN Tail(queue[t]) : ListMade(fresh, Tail(queue[t])[i])
    BY <1>0, <2>1, Dequeued DEF ListsMade
  <2>. QED
    BY <1>0, <2>2, <2>3 DEF ListsMade
<1>3. ASSUME NEW t \in Tabs, Reopen(t) PROVE ListsMade'
  <2>1. /\ UNCHANGED <<stored, fresh>> /\ queue'[t] = <<>> /\ \A u \in Tabs \ {t} : queue'[u] = queue[u] /\ mem'[u] = mem[u]
        /\ mem'[t] = (IF Mirrored THEN stored ELSE mem[t])
    BY <1>0, <1>3 DEF Reopen, StorageType
  <2>2. View(t)' = stored /\ \A u \in Tabs : seen'[u] = IF u = t THEN View(t)' ELSE seen[u]
    BY <1>0, <1>3, <2>1 DEF View, Reopen, Ends, Reloads, StorageType
  <2>. QED
    BY <1>0, <2>1, <2>2 DEF ListsMade
<1>4. ASSUME NEW t \in Tabs, Create(t) \/ MakeNext(t) PROVE ListsMade'
  BY <1>0, <1>4, NewMade DEF Create, MakeNext, Ends
<1>5. ASSUME NEW t \in Tabs, NEW v \in Vault, Refresh(t, v) PROVE ListsMade'
  <2>1. View(t)[v].status = "active" /\ View(t)[v] \in Record
    BY <1>0, <1>5 DEF Refresh, List
  <2>2. Known([View(t)[v] EXCEPT !.status = "spent"]) /\ [View(t)[v] EXCEPT !.status = "spent"] \in Record /\ v < fresh
    BY <1>0, <2>1, Edited DEF Known, ListMade
  <2>. QED
    BY <1>0, <1>5, <2>2, PutMade DEF Refresh
<1>6. ASSUME NEW t \in Tabs, NEW v \in Vault, BackUp(t, v) PROVE ListsMade'
  <2>1. Known(View(t)[v]) /\ View(t)[v] \in Record
    BY <1>0, <1>6 DEF BackUp, List
  <2>2. Known([View(t)[v] EXCEPT !.backedUp = TRUE]) /\ [View(t)[v] EXCEPT !.backedUp = TRUE] \in Record /\ v < fresh
    BY <1>0, <2>1, Edited DEF Known, ListMade
  <2>. QED
    BY <1>0, <1>6, <2>2, PutMade DEF BackUp
<1>7. ASSUME NEW t \in Tabs, NEW file \in files, Import(t, file) PROVE ListsMade'
  <2>1. file \in File /\ file.vault \in Vault /\ file.vault < fresh
    BY DEF TypeInv, File, MadeInv, FilesMade
  <2>2. View(t)[file.vault] \in Record
    BY <1>0, <2>1 DEF List
  <2>3. Known(Merged(View(t)[file.vault], file)) /\ Merged(View(t)[file.vault], file) \in Record
    BY <2>1, <2>2, MergedType
  <2>. QED
    BY <1>0, <1>7, <2>1, <2>3, PutMade DEF Import, Ends
<1>8. ASSUME NEW t \in Tabs, WriteRecord(t) PROVE ListsMade'
  <2>1. at[t] = "write" /\ WriteSigned(t) /\ UNCHANGED <<seen, fresh>>
    BY <1>8 DEF WriteRecord, Goes, Moves
  <2>2. job[t].record \in Record /\ Known(job[t].record) /\ PlanOf(t) \in Plan
    BY <2>1, PutType DEF TypeInv, TaskType, Fits, Withdrawing, Place, Job
  <2>3. Known([job[t].record EXCEPT !.signed = PlanOf(t)]) /\ [job[t].record EXCEPT !.signed = PlanOf(t)] \in Record
    BY <2>2, Edited DEF Known
  <2>. QED
    BY <1>0, <2>1, <2>3, PutMade DEF WriteSigned
<1>9. ASSUME NEW t \in Tabs, Mark(t) PROVE ListsMade'
  <2>1. at[t] = "mark" /\ Reloads(t) /\ UNCHANGED fresh /\ job[t].vault \in Vault /\ job[t].vault < fresh
    BY <1>0, <1>9 DEF Mark, Ends
  <2>2. CASE UNCHANGED storage
    BY <1>1, <2>1, <2>2
  <2>3. CASE Known(View(t)[job[t].vault]) /\ Put(t, job[t].vault, [View(t)[job[t].vault] EXCEPT !.status = "spent"])
    <3>1. View(t)[job[t].vault] \in Record
      BY <1>0, <2>1 DEF List
    <3>2. /\ Known([View(t)[job[t].vault] EXCEPT !.status = "spent"])
          /\ [View(t)[job[t].vault] EXCEPT !.status = "spent"] \in Record
      BY <3>1, Edited DEF Known
    <3>. QED
      BY <1>0, <2>1, <2>3, <3>2, PutMade
  <2>. QED
    BY <1>9, <2>2, <2>3 DEF Mark
<1>10. ASSUME NEW t \in Tabs, \/ PlanFirst(t) \/ PlanAgain(t) \/ ReadRecord(t) \/ Look(t) \/ Prepare(t) \/ Send(t)
                              \/ Confirmed(t) \/ Recheck(t) \/ SendFails(t) \/ Throw(t) \/ Reload(t) \/ DepositEnds(t)
                              \/ \E v \in Vault : SendDeposit(t, v) \/ \E amount \in Amounts : Press(t, v, amount)
       PROVE  ListsMade'
  <2>1. UNCHANGED <<storage, fresh>> /\ (UNCHANGED seen \/ Reloads(t))
    BY <1>10 DEF PlanFirst, PlanAgain, ReadRecord, Look, Prepare, Send, Confirmed, Recheck, SendFails, Throw, Reload,
       DepositEnds, SendDeposit, Press, Goes, Ends
  <2>. QED
    BY <1>1, <2>1
<1>11. ASSUME \/ UNCHANGED vars
              \/ \E v \in Vault : LandDeposit(v) \/ ExpireDeposit(v) \/ Receive(v)
              \/ \E d \in net : Land(d) \/ Expire(d)
       PROVE  ListsMade'
  <2>1. UNCHANGED <<storage, seen, fresh>>
    BY <1>11 DEF vars, LandDeposit, ExpireDeposit, Receive, Land, Expire
  <2>. QED
    BY <1>0, <2>1 DEF ListsMade
<1>. QED
  BY <1>2, <1>3, <1>4, <1>5, <1>6, <1>7, <1>8, <1>9, <1>10, <1>11 DEF Next, Proceeds

\* Creating a vault downloads its backup.
LEMMA FilesKept ==
    ASSUME TypeInv, MadeInv, [Next]_vars
    PROVE  FilesMade' /\ fresh <= fresh'
<1>. USE DEF storage, ui, chain
<1>0. FilesMade /\ fresh \in Nat /\ \A file \in files : file.vault \in Nat
  BY WebAssumption DEF MadeInv, TypeInv, File, Vault
<1>1. ASSUME NEW t \in Tabs, NEW n, SaveNew(t, n) PROVE FilesMade' /\ fresh <= fresh'
  <2>1. n \in Vault /\ fresh = n /\ fresh' = n + 1 /\ files' = files \union {Backup(n, NewRecord)}
    BY <1>1, NewDoes DEF Downloads
  <2>2. Backup(n, NewRecord).vault = n /\ Backup(n, NewRecord).status = "active"
    BY NewRecords DEF Backup
  <2>3. \A file \in files' : file.vault < fresh' /\ file.status = "active"
    BY <1>0, <2>1, <2>2 DEF FilesMade
  <2>4. \A v \in Vault : v < fresh' => \E file \in files' : file.vault = v
    <3>1. \A v \in Vault : v < fresh' => v < fresh \/ v = n
      BY <1>0, <2>1 DEF Vault
    <3>. QED
      BY <2>1, <2>2, <3>1, <1>0 DEF FilesMade
  <2>. QED
    BY <1>0, <2>1, <2>3, <2>4 DEF FilesMade
<1>2. ASSUME NEW t \in Tabs, NEW v \in Vault, BackUp(t, v) PROVE FilesMade' /\ fresh <= fresh'
  <2>1. seen[t][v].status = "active" /\ files' = files \union {Backup(v, seen[t][v])} /\ fresh' = fresh
    BY <1>2 DEF BackUp
  <2>2. Backup(v, seen[t][v]).vault = v /\ Backup(v, seen[t][v]).status = "active"
    BY <2>1 DEF Backup
  <2>3. v < fresh
    BY <2>1 DEF MadeInv, ListsMade, ListMade, Known
  <2>. QED
    BY <1>0, <2>1, <2>2, <2>3 DEF FilesMade
<1>3. ASSUME UNCHANGED <<files, fresh>> PROVE FilesMade' /\ fresh <= fresh'
  BY <1>0, <1>3 DEF FilesMade
<1>4. ASSUME NEW t \in Tabs, Create(t) \/ MakeNext(t) PROVE FilesMade' /\ fresh <= fresh'
  BY <1>1, <1>4 DEF Create, MakeNext
<1>5. ASSUME NEW t \in Tabs, \/ PlanFirst(t) \/ PlanAgain(t) \/ ReadRecord(t) \/ WriteRecord(t) \/ Look(t) \/ Prepare(t)
                             \/ Send(t) \/ Confirmed(t) \/ Recheck(t) \/ Mark(t) \/ SendFails(t)
      PROVE  UNCHANGED <<files, fresh>>
  BY <1>5 DEF PlanFirst, PlanAgain, ReadRecord, WriteRecord, Look, Prepare, Send, Confirmed, Recheck, Mark, SendFails, Goes
<1>6. ASSUME NEW t \in Tabs, \/ Throw(t) \/ Reload(t) \/ Reopen(t) \/ WriteThrough(t) \/ WriteFails(t) \/ DepositEnds(t)
                             \/ \E file \in files : Import(t, file)
                             \/ \E v \in Vault : \/ Refresh(t, v) \/ SendDeposit(t, v)
                                                 \/ \E amount \in Amounts : Press(t, v, amount)
      PROVE  UNCHANGED <<files, fresh>>
  BY <1>6 DEF Throw, Reload, Reopen, WriteThrough, WriteFails, DepositEnds, Import, Refresh, SendDeposit, Press, Goes
<1>7. ASSUME \/ UNCHANGED vars
             \/ \E v \in Vault : LandDeposit(v) \/ ExpireDeposit(v) \/ Receive(v)
             \/ \E d \in net : Land(d) \/ Expire(d)
      PROVE  UNCHANGED <<files, fresh>>
  BY <1>7 DEF vars, LandDeposit, ExpireDeposit, Receive, Land, Expire
<1>. QED
  BY <1>2, <1>3, <1>4, <1>5, <1>6, <1>7 DEF Next, Proceeds

\* A task takes its vault from what it displays and the next one from the list.
LEMMA TasksStep ==
    ASSUME TypeInv, MadeInv, [Next]_vars
    PROVE  TasksMade'
<1>. USE DEF storage, ui, chain
<1>0. /\ at \in [Tabs -> Place] /\ job \in [Tabs -> Job] /\ TasksMade /\ fresh \in Nat /\ fresh' \in Nat /\ fresh <= fresh'
      /\ \A t \in Tabs : ListMade(fresh, View(t)) /\ ListMade(fresh, seen[t]) /\ View(t) \in List /\ Fits(at[t], job[t])
  BY ViewType, FilesKept, FilesStep, WebAssumption DEF TypeInv, TaskType, MadeInv, ListsMade, View
<1>1. ASSUME UNCHANGED <<at, job>> PROVE TasksMade'
  <2>1. \A t \in Tabs : job[t].vault \in Nat \union {0} /\ job[t].next \in Nat \union {0}
    BY <1>0 DEF Job, Vault
  <2>. QED
    BY <1>0, <1>1, <2>1 DEF TasksMade
<1>2. ASSUME NEW t \in Tabs, NEW place \in Place, NEW j \in Job,
             place # "idle" => j.vault < fresh', place \in Planned => j.next < fresh',
             at' = [at EXCEPT ![t] = place], job' = [job EXCEPT ![t] = j]
      PROVE  TasksMade'
  <2>1. \A u \in Tabs : job[u].vault \in Nat \union {0} /\ job[u].next \in Nat \union {0}
    BY <1>0 DEF Job, Vault
  <2>2. at'[t] = place /\ job'[t] = j /\ \A u \in Tabs \ {t} : at'[u] = at[u] /\ job'[u] = job[u]
    BY <1>0, <1>2
  <2>3. \A u \in Tabs \ {t} : (at'[u] # "idle" => job'[u].vault < fresh') /\ (at'[u] \in Planned => job'[u].next < fresh')
    BY <1>0, <2>1, <2>2 DEF TasksMade
  <2>. QED
    BY <1>2, <2>2, <2>3 DEF TasksMade
<1>3. ASSUME NEW t \in Tabs, Ends(t) PROVE TasksMade'
  BY <1>2, <1>3, IdleFits DEF Ends, Place, Planned, Withdrawing
<1>4. ASSUME NEW t \in Tabs, NEW from, NEW to \in Place, Moves(t, from, to), UNCHANGED job,
             from # "idle", to \in Planned => from \in Planned
      PROVE  TasksMade'
  <2>1. at' = [at EXCEPT ![t] = to] /\ job' = [job EXCEPT ![t] = job[t]] /\ at[t] = from
    BY <1>0, <1>4 DEF Moves
  <2>2. job[t].vault \in Nat \union {0} /\ job[t].next \in Nat \union {0} /\ job[t] \in Job
    BY <1>0 DEF Job, Vault
  <2>3. job[t].vault < fresh' /\ (to \in Planned => job[t].next < fresh')
    BY <1>0, <1>4, <2>1, <2>2 DEF TasksMade
  <2>. QED
    BY <1>2, <2>1, <2>2, <2>3
<1>5. ASSUME NEW t \in Tabs, NEW v \in Vault, SendDeposit(t, v) PROVE TasksMade'
  <2>1. at' = [at EXCEPT ![t] = "deposit"] /\ job' = [job EXCEPT ![t] = [job[t] EXCEPT !.vault = v]] /\ UNCHANGED fresh
    BY <1>5 DEF SendDeposit, Moves
  <2>2. [job[t] EXCEPT !.vault = v] \in Job /\ [job[t] EXCEPT !.vault = v].vault = v
    BY <1>0, JobEdited
  <2>3. v < fresh
    BY <1>0, <1>5 DEF SendDeposit, CanDeposit, ListMade, Known
  <2>. QED
    BY <1>2, <2>1, <2>2, <2>3 DEF Place, Planned, Withdrawing
<1>6. ASSUME NEW t \in Tabs, NEW v \in Vault, NEW amount \in Amounts, Press(t, v, amount) PROVE TasksMade'
  <2>1. v < fresh /\ UNCHANGED fresh
    BY <1>0, <1>6 DEF Press, Goes, ListMade, Known
  <2>2. seen[t][v] \in Record /\ View(t)[v] \in Record /\ seen[t][v].status = "active"
    BY <1>6, PutType DEF Press
  <2>3. PICK r \in Record : at' = [at EXCEPT ![t] = "open"]
          /\ job' = [job EXCEPT ![t] = [vault |-> v, amount |-> amount, next |-> 0, record |-> r]]
    BY <1>6, <2>2 DEF Press, Goes, Moves
  <2>. DEFINE j == [vault |-> v, amount |-> amount, next |-> 0, record |-> r]
  <2>4. j \in Job /\ j.vault = v
    BY DEF Job
  <2>. QED
    BY <1>2, <2>1, <2>3, <2>4 DEF Place, Planned, Withdrawing
<1>7. ASSUME NEW t \in Tabs, PlanFirst(t) PROVE TasksMade'
  BY <1>4, <1>7 DEF PlanFirst, Goes, Place, Planned, Withdrawing
<1>8. ASSUME NEW t \in Tabs, NEW v \in Vault, v < fresh', job' = [job EXCEPT ![t].next = v],
             at[t] # "idle", at' = [at EXCEPT ![t] = "record"] PROVE TasksMade'
  <2>1. job' = [job EXCEPT ![t] = [job[t] EXCEPT !.next = v]]
    BY <1>8
  <2>2. /\ [job[t] EXCEPT !.next = v] \in Job /\ [job[t] EXCEPT !.next = v].next = v
        /\ [job[t] EXCEPT !.next = v].vault = job[t].vault /\ job[t].vault \in Nat \union {0}
    BY <1>0, JobEdited DEF Job, Vault
  <2>3. job[t].vault < fresh'
    BY <1>0, <1>8, <2>2 DEF TasksMade
  <2>4. \E j \in Job : job' = [job EXCEPT ![t] = j] /\ j.vault < fresh' /\ j.next < fresh'
    BY <1>8, <2>1, <2>2, <2>3
  <2>. QED
    BY <1>2, <1>8, <2>4 DEF Place
<1>9. ASSUME NEW t \in Tabs, PlanAgain(t) PROVE TasksMade'
  <2>1. job[t].record.signed \in Plan
    <3>1. job[t].record.signed # NoPlan
      BY <1>9 DEF PlanAgain
    <3>. QED
      BY <1>0, <3>1 DEF Job, Record
  <2>2. job[t].record.signed.next \in Vault
    BY <2>1 DEF Plan
  <2>3. Known(View(t)[job[t].record.signed.next])
    BY <1>9 DEF PlanAgain
  <2>4. job[t].record.signed.next < fresh
    BY <1>0, <2>2, <2>3 DEF ListMade
  <2>5. at[t] # "idle" /\ at' = [at EXCEPT ![t] = "record"] /\ UNCHANGED fresh
        /\ job' = [job EXCEPT ![t].next = job[t].record.signed.next]
    BY <1>9 DEF PlanAgain, Goes, Moves
  <2>. QED
    BY <1>8, <2>2, <2>4, <2>5
<1>10. ASSUME NEW t \in Tabs, MakeNext(t) PROVE TasksMade'
  <2>1. fresh \in Vault /\ fresh' = fresh + 1 /\ fresh < fresh'
    BY <1>0, <1>10 DEF MakeNext, SaveNew
  <2>2. at[t] # "idle" /\ at' = [at EXCEPT ![t] = "record"] /\ job' = [job EXCEPT ![t].next = fresh]
    BY <1>10 DEF MakeNext, Moves
  <2>. QED
    BY <1>8, <2>1, <2>2
<1>11. ASSUME NEW t \in Tabs, ReadRecord(t) PROVE TasksMade'
  <2>1. at[t] = "record" /\ at' = [at EXCEPT ![t] = "write"] /\ UNCHANGED fresh
        /\ \E r : job' = [job EXCEPT ![t] = [job[t] EXCEPT !.record = r]]
    BY <1>11 DEF ReadRecord, Goes, Moves
  <2>2. PICK r : job' = [job EXCEPT ![t] = [job[t] EXCEPT !.record = r]]
    BY <2>1
  <2>3. [job[t] EXCEPT !.record = r] \in Job
    <3>1. job' \in [Tabs -> Job]
      BY TaskStep DEF TaskType
    <3>. QED
      BY <1>0, <2>2, <3>1
  <2>4. [job[t] EXCEPT !.record = r].vault = job[t].vault /\ [job[t] EXCEPT !.record = r].next = job[t].next
    BY <1>0 DEF Job
  <2>5. job[t].vault < fresh /\ job[t].next < fresh
    BY <1>0, <2>1 DEF TasksMade, Planned, Withdrawing, Place
  <2>6. \E j \in Job : job' = [job EXCEPT ![t] = j] /\ j.vault < fresh' /\ j.next < fresh'
    BY <2>1, <2>2, <2>3, <2>4, <2>5
  <2>. QED
    BY <1>2, <2>1, <2>6 DEF Place
<1>12. ASSUME NEW t \in Tabs, \/ WriteRecord(t) \/ Look(t) \/ Prepare(t) \/ Send(t) \/ Confirmed(t)
                              \/ SendFails(t) \/ Recheck(t)
       PROVE TasksMade'
  <2>1. \E from, to \in Planned : Moves(t, from, to) /\ UNCHANGED job
    BY <1>12 DEF WriteRecord, Look, Prepare, Send, Confirmed, SendFails, Recheck, Goes, Planned, Withdrawing, Place
  <2>. QED
    BY <1>4, <2>1 DEF Planned, Withdrawing, Place
<1>13. ASSUME NEW t \in Tabs, \/ Create(t) \/ Reopen(t) \/ DepositEnds(t) \/ Mark(t) \/ Throw(t)
                              \/ \E file \in files : Import(t, file)
       PROVE  TasksMade'
  BY <1>3, <1>13 DEF Create, Reopen, DepositEnds, Mark, Throw, Import
<1>14. ASSUME \/ UNCHANGED vars
              \/ \E t \in Tabs : \/ Reload(t) \/ WriteThrough(t) \/ WriteFails(t)
                                 \/ \E v \in Vault : Refresh(t, v) \/ BackUp(t, v)
              \/ \E v \in Vault : LandDeposit(v) \/ ExpireDeposit(v) \/ Receive(v)
              \/ \E d \in net : Land(d) \/ Expire(d)
       PROVE  TasksMade'
  <2>1. UNCHANGED <<at, job>>
    BY <1>14 DEF vars, Reload, WriteThrough, WriteFails, Refresh, BackUp, LandDeposit, ExpireDeposit, Receive, Land, Expire
  <2>. QED
    BY <1>1, <2>1
<1>. QED
  BY <1>5, <1>6, <1>7, <1>9, <1>10, <1>11, <1>12, <1>13, <1>14 DEF Next, Proceeds

\* Tokens reach created vaults only.
LEMMA ChainMadeStep ==
    ASSUME TypeInv, MadeInv, [Next]_vars
    PROVE  ChainMade'
<1>. USE DEF storage, ui, chain
<1>0. /\ ChainMade /\ fresh \in Nat /\ fresh' \in Nat /\ fresh <= fresh' /\ held \in [Vault -> Nat]
      /\ \A t \in Tabs : ListMade(fresh, seen[t])
      /\ \A d \in sent : d \in Digest /\ d.plan.next \in Vault /\ d.vault \in Vault
      /\ net \subseteq sent /\ deposits \subseteq Vault
  BY FilesKept, FilesStep, WebAssumption DEF MadeInv, ListsMade, TypeInv, ChainType, Digest, Plan
<1>1. ASSUME UNCHANGED <<held, deposits, sent>> PROVE ChainMade'
  <2>1. \A d \in sent : d.plan.next \in Nat
    BY <1>0 DEF Vault
  <2>2. deposits' \subseteq Nat /\ Vault \subseteq Nat
    BY <1>0, <1>1 DEF Vault
  <2>3. \A n \in Nat : n < fresh => n < fresh'
    BY <1>0
  <2>4. \A d \in sent' : d.plan.next < fresh'
    BY <1>0, <1>1, <2>1, <2>3, ZenonT(40) DEF ChainMade
  <2>5. \A v \in deposits' : v < fresh'
    BY <1>0, <1>1, <2>2, <2>3, ZenonT(40) DEF ChainMade
  <2>6. \A v \in Vault : held'[v] > 0 => v < fresh'
    BY <1>0, <1>1, <2>2, <2>3, ZenonT(40) DEF ChainMade
  <2>. QED
    BY <2>4, <2>5, <2>6 DEF ChainMade
<1>2. ASSUME NEW t \in Tabs, NEW v \in Vault, SendDeposit(t, v) PROVE ChainMade'
  <2>1. v < fresh /\ fresh' = fresh /\ UNCHANGED <<held, sent>> /\ deposits' = deposits \union {v}
    BY <1>0, <1>2 DEF SendDeposit, CanDeposit, ListMade, Known
  <2>. QED
    BY <1>0, <2>1 DEF ChainMade
<1>3. ASSUME NEW v \in Vault, LandDeposit(v) \/ Receive(v) PROVE ChainMade'
  <2>1. v < fresh
    BY <1>0, <1>3 DEF LandDeposit, Receive, ChainMade, ListMade, Known
  <2>2. held' = [held EXCEPT ![v] = held[v] + 1] /\ UNCHANGED <<sent, fresh>> /\ deposits' \subseteq deposits
    BY <1>3 DEF LandDeposit, Receive
  <2>. QED
    BY <1>0, <2>1, <2>2 DEF ChainMade
<1>4. ASSUME NEW v \in Vault, ExpireDeposit(v) PROVE ChainMade'
  BY <1>0, <1>4 DEF ExpireDeposit, ChainMade
<1>5. ASSUME NEW t \in Tabs, Send(t) PROVE ChainMade'
  <2>1. at[t] = "send" /\ sent' = sent \union {DigestOf(t)} /\ UNCHANGED <<held, deposits, fresh>>
    BY <1>5 DEF Send, Moves
  <2>2. DigestOf(t).plan.next < fresh
    BY <2>1 DEF DigestOf, PlanOf, MadeInv, TasksMade, Planned, Withdrawing, Place
  <2>. QED
    BY <1>0, <2>1, <2>2 DEF ChainMade
<1>6. ASSUME NEW d \in net, Land(d) PROVE ChainMade'
  <2>1. d \in sent /\ d \in Digest /\ d.plan.amount \in Nat /\ d.plan.next < fresh
    BY <1>0, WebAssumption DEF Digest, Plan, ChainMade
  <2>2. \A v \in Vault \ {d.vault} : v # d.plan.next => held'[v] = held[v]
    BY <1>6, <2>1, Divides DEF Land, Acceptable
  <2>3. held[d.vault] > 0 \/ held'[d.vault] = 0 \/ d.vault = d.plan.next
    BY <1>0, <1>6, <2>1 DEF Land
  <2>4. UNCHANGED <<sent, deposits, fresh>>
    BY <1>6 DEF Land
  <2>. QED
    BY <1>0, <2>1, <2>2, <2>3, <2>4 DEF ChainMade
<1>7. UNCHANGED <<chain, sent>> \/ (\E t \in Tabs : Prepare(t)) \/ (\E d \in net : Expire(d))
        => UNCHANGED <<held, deposits, sent>>
  BY DEF Prepare, Expire
<1>. QED
  BY <1>1, <1>2, <1>3, <1>4, <1>5, <1>6, <1>7, ChainMoves

\* No vault exists at the start.
LEMMA MadeInit == Init => MadeInv
<1>. SUFFICES ASSUME Init PROVE MadeInv
  OBVIOUS
<1>1. ListMade(fresh, NoList)
  BY NewRecords DEF ListMade, NoList
<1>2. ListsMade
  BY <1>1 DEF Init, ListsMade
<1>3. TasksMade
  BY DEF Init, TasksMade, Planned, Withdrawing, Place
<1>4. FilesMade
  BY DEF Init, FilesMade, Vault
<1>5. ChainMade
  BY DEF Init, ChainMade
<1>. QED
  BY <1>2, <1>3, <1>4, <1>5 DEF MadeInv

\* Only created vaults are ever used.
LEMMA MadeStep == TypeInv /\ MadeInv /\ [Next]_vars => MadeInv'
  BY ListsStep, TasksStep, FilesKept, ChainMadeStep DEF MadeInv

\* Only created vaults are in use, in any tab.
LEMMA OnlyMade == Spec => [](TypeInv /\ MadeInv)
<1>1. Init => TypeInv /\ MadeInv
  BY TypeInit, MadeInit
<1>2. TypeInv /\ MadeInv /\ [Next]_vars => TypeInv' /\ MadeInv'
  BY TypeStep, MadeStep
<1>. QED
  BY <1>1, <1>2, PTL DEF Spec

\* Whatever the tabs do, however writes fail and calls end, every vault that
\* holds tokens has a downloaded backup (store.ts:18, App.tsx:148).
THEOREM FundedHasBackup == Spec => []BackedUpBeforeFunded
<1>1. TypeInv /\ MadeInv => BackedUpBeforeFunded
  BY DEF MadeInv, FilesMade, ChainMade, BackedUpBeforeFunded
<1>. QED
  BY <1>1, OnlyMade, PTL

----------------------------------------------------------------------------
(* One message per key, with one tab or window.                             *)

\* Two tabs sign two messages: each reads the list before the other writes it.
OneTab == \A t, u \in Tabs : t = u

\* M knows what L knows: which vaults have signed what, exist and are backed up.
Keeps(L, M) ==
    \A v \in Vault :
        /\ L[v].signed # NoPlan => M[v].signed = L[v].signed
        /\ Known(L[v]) => Known(M[v])
        /\ L[v].backedUp => M[v].backedUp
\* ... and nobody signed since.
Same(L, M) == Keeps(L, M) /\ \A v \in Vault : M[v].signed = L[v].signed

\* The storage, the writes under way and the tab's list, each knowing what the
\* ones before it know; the last write is of the tab's list.
Ordered(L, q, M) ==
    /\ Keeps(L, M)
    /\ \A i \in DOMAIN q : Keeps(L, q[i]) /\ Keeps(q[i], M)
    /\ \A i, j \in DOMAIN q : i < j => Keeps(q[i], q[j])
Latest(L, q, M) == IF q = <<>> THEN M = L ELSE q[Len(q)] = M
ListsKept(t) ==
    /\ ~Mirrored => queue[t] = <<>>
    /\ Ordered(stored, queue[t], View(t)) /\ Keeps(seen[t], View(t))
    /\ Mirrored /\ ~failed[t] => Latest(stored, queue[t], mem[t])

\* What a withdrawal has found and recorded is in the tab's list.
Written == Planned \ {"record", "write"}
TaskKept(t) ==
    /\ at[t] \in Withdrawing => job[t].record.backedUp /\ View(t)[job[t].vault].backedUp
    /\ at[t] \in Planned => Known(View(t)[job[t].next]) /\ View(t)[job[t].next].backedUp
    /\ at[t] = "write" => View(t)[job[t].vault].signed \in {NoPlan, PlanOf(t)}
    /\ at[t] \in Written => View(t)[job[t].vault].signed = PlanOf(t)

\* What was sent is in the storage.
SentKept ==
    \A d \in sent : /\ stored[d.vault].signed = d.plan
                    /\ Known(stored[d.plan.next]) /\ stored[d.plan.next].backedUp
KeepInv == (\A t \in Tabs : ListsKept(t) /\ TaskKept(t)) /\ SentKept

\* Knowing what a list knows is reflexive and transitive.
LEMMA KeepsBoth == \A L, M, N : Keeps(L, L) /\ (Keeps(L, M) /\ Keeps(M, N) => Keeps(L, N))
<1>. TAKE L, M, N
<1>1. Keeps(L, L)
  BY DEF Keeps
<1>2. Keeps(L, M) /\ Keeps(M, N) => Keeps(L, N)
  BY DEF Keeps
<1>. QED
  BY <1>1, <1>2

\* A list joins the queue.
LEMMA OrderedMore ==
    ASSUME NEW q \in Seq(List), NEW L, NEW M, NEW N \in List, Ordered(L, q, M), Keeps(M, N)
    PROVE  Ordered(L, Append(q, N), N) /\ Latest(L, Append(q, N), N)
<1>. DEFINE p == Append(q, N)
<1>1. /\ p # <<>> /\ Len(p) = Len(q) + 1 /\ Len(q) \in Nat /\ DOMAIN p = 1..(Len(q) + 1) /\ DOMAIN q = 1..Len(q)
      /\ p[Len(q) + 1] = N /\ \A i \in 1..Len(q) : p[i] = q[i]
  BY Appended
<1>. HIDE DEF p
<1>2. Keeps(L, N) /\ Keeps(N, N) /\ \A i \in DOMAIN q : Keeps(q[i], N)
  BY KeepsBoth DEF Ordered
<1>3. \A i \in DOMAIN p : Keeps(L, p[i]) /\ Keeps(p[i], N)
  BY <1>1, <1>2 DEF Ordered
<1>4. ASSUME NEW i \in DOMAIN p, NEW j \in DOMAIN p, i < j PROVE Keeps(p[i], p[j])
  <2>1. i \in DOMAIN q /\ p[i] = q[i] /\ (j \in DOMAIN q \/ j = Len(q) + 1)
    BY <1>1, <1>4
  <2>2. CASE j \in DOMAIN q
    BY <1>1, <1>4, <2>1, <2>2 DEF Ordered
  <2>3. CASE j = Len(q) + 1
    BY <1>1, <1>2, <2>1, <2>3
  <2>. QED
    BY <2>1, <2>2, <2>3
<1>5. p[Len(p)] = N
  BY <1>1
<1>6. Latest(L, p, N) /\ Ordered(L, p, N)
  BY <1>1, <1>2, <1>3, <1>4, <1>5 DEF Ordered, Latest
<1>. QED
  BY <1>6 DEF p

\* The first list of the queue reaches the storage, or is lost.
LEMMA OrderedLess ==
    ASSUME NEW q \in Seq(List), q # <<>>, NEW L, NEW M, Ordered(L, q, M)
    PROVE  /\ Ordered(L, Tail(q), M) /\ Ordered(Head(q), Tail(q), M) /\ Keeps(L, Head(q))
           /\ Latest(L, q, M) => Latest(Head(q), Tail(q), M)
<1>. DEFINE p == Tail(q)
<1>1. /\ Head(q) = q[1] /\ 1 \in DOMAIN q /\ Len(q) \in Nat /\ Len(q) >= 1 /\ Len(p) = Len(q) - 1 /\ p \in Seq(List)
      /\ DOMAIN q = 1..Len(q) /\ DOMAIN p = 1..(Len(q) - 1)
      /\ \A i \in 1..(Len(q) - 1) : p[i] = q[i + 1] /\ i + 1 \in DOMAIN q
  BY Dequeued
<1>. HIDE DEF p
<1>2. /\ \A i \in DOMAIN p : Keeps(L, p[i]) /\ Keeps(p[i], M) /\ Keeps(Head(q), p[i])
      /\ Keeps(L, M) /\ Keeps(Head(q), M) /\ Keeps(L, Head(q))
  <2>1. \A i \in DOMAIN p : i + 1 \in DOMAIN q /\ p[i] = q[i + 1] /\ 1 < i + 1
    BY <1>1
  <2>. QED
    BY <1>1, <2>1 DEF Ordered
<1>3. ASSUME NEW i \in DOMAIN p, NEW j \in DOMAIN p, i < j PROVE Keeps(p[i], p[j])
  <2>1. i + 1 \in DOMAIN q /\ j + 1 \in DOMAIN q /\ i + 1 < j + 1 /\ p[i] = q[i + 1] /\ p[j] = q[j + 1]
    BY <1>1, <1>3
  <2>. QED
    BY <2>1 DEF Ordered
<1>4. Latest(L, q, M) => Latest(Head(q), p, M)
  <2>1. CASE p = <<>>
    <3>1. Len(q) = 1
      BY <1>1, <2>1
    <3>. QED
      BY <1>1, <2>1, <3>1 DEF Latest
  <2>2. CASE p # <<>>
    <3>1. Len(p) \in 1..(Len(q) - 1) /\ p[Len(p)] = q[Len(q)]
      BY <1>1, <2>2, EmptySeq
    <3>. QED
      BY <2>2, <3>1 DEF Latest
  <2>. QED
    BY <2>1, <2>2
<1>5. Ordered(L, p, M) /\ Ordered(Head(q), p, M)
  BY <1>2, <1>3 DEF Ordered
<1>. QED
  BY <1>2, <1>4, <1>5 DEF p

\* The tab saves a list that knows what its own knows.
LEMMA AddsKept ==
    ASSUME TypeInv, NEW t \in Tabs, ListsKept(t), NEW M \in List, Adds(t, M), Keeps(View(t), M),
           UNCHANGED seen \/ Reloads(t)
    PROVE  ListsKept(t)' /\ Keeps(stored, stored')
<1>1. queue[t] \in Seq(List) /\ seen \in [Tabs -> List] /\ View(t)' = M
  BY DEF TypeInv, StorageType, Adds
<1>2. Keeps(seen'[t], M)
  BY <1>1, KeepsBoth DEF Reloads, ListsKept
<1>3. CASE Mirrored
  <2>1. /\ UNCHANGED <<stored, failed>> /\ mem'[t] = M /\ queue'[t] = Append(queue[t], M)
    BY <1>3 DEF Adds
  <2>2. Ordered(stored, Append(queue[t], M), M) /\ Latest(stored, Append(queue[t], M), M)
    BY <1>1, OrderedMore DEF ListsKept
  <2>. QED
    BY <1>1, <1>2, <1>3, <2>1, <2>2, KeepsBoth DEF ListsKept
<1>4. CASE ~Mirrored
  <2>1. stored' = M /\ queue'[t] = <<>> /\ View(t) = stored
    BY <1>4 DEF Adds, ListsKept, View
  <2>2. Ordered(M, <<>>, M)
    BY KeepsBoth DEF Ordered
  <2>. QED
    BY <1>1, <1>2, <1>4, <2>1, <2>2 DEF ListsKept
<1>. QED
  BY <1>3, <1>4

\* The tab saves two lists, each knowing what the one before it knows.
LEMMA AddsTwoKept ==
    ASSUME TypeInv, NEW t \in Tabs, ListsKept(t), NEW L \in List, NEW M \in List, AddsTwo(t, L, M),
           Keeps(View(t), L), Keeps(L, M), UNCHANGED seen \/ Reloads(t)
    PROVE  ListsKept(t)' /\ Keeps(stored, stored') /\ Keeps(View(t), View(t)')
<1>1. queue[t] \in Seq(List) /\ seen \in [Tabs -> List] /\ View(t)' = M /\ Keeps(View(t), M)
  BY KeepsBoth DEF TypeInv, StorageType, AddsTwo
<1>2. Keeps(seen'[t], M)
  BY <1>1, KeepsBoth DEF Reloads, ListsKept
<1>3. CASE Mirrored
  <2>1. /\ UNCHANGED <<stored, failed>> /\ mem'[t] = M /\ queue'[t] = Append(Append(queue[t], L), M)
    BY <1>3 DEF AddsTwo
  <2>2. Ordered(stored, Append(queue[t], L), L) /\ Append(queue[t], L) \in Seq(List)
    BY <1>1, OrderedMore, Appended DEF ListsKept
  <2>3. Ordered(stored, queue'[t], M) /\ Latest(stored, queue'[t], M)
    BY <2>1, <2>2, OrderedMore
  <2>. QED
    BY <1>1, <1>2, <1>3, <2>1, <2>3, KeepsBoth DEF ListsKept
<1>4. CASE ~Mirrored
  <2>1. stored' = M /\ queue'[t] = <<>> /\ View(t) = stored
    BY <1>4 DEF AddsTwo, ListsKept, View
  <2>2. Ordered(M, <<>>, M)
    BY KeepsBoth DEF Ordered
  <2>. QED
    BY <1>1, <1>2, <1>4, <2>1, <2>2 DEF ListsKept
<1>. QED
  BY <1>3, <1>4

\* A record is replaced by one that knows what it knows.
LEMMA PutKept ==
    ASSUME TypeInv, NEW t \in Tabs, ListsKept(t), NEW v \in Vault, NEW r \in Record, Put(t, v, r),
           UNCHANGED seen \/ Reloads(t), Known(r),
           View(t)[v].signed # NoPlan => r.signed = View(t)[v].signed,
           View(t)[v].backedUp => r.backedUp
    PROVE  /\ ListsKept(t)' /\ Keeps(stored, stored') /\ Keeps(View(t), View(t)') /\ View(t)'[v] = r
           /\ r.signed = View(t)[v].signed => Same(View(t), View(t)')
<1>1. PICK M \in List : Adds(t, M) /\ M[v] = r /\ \A u \in Vault \ {v} : M[u] = View(t)[u]
  BY PutDoes DEF TypeInv
<1>2. Keeps(View(t), M) /\ View(t)' = M
  BY <1>1 DEF Keeps, Adds
<1>3. r.signed = View(t)[v].signed => Same(View(t), M)
  BY <1>1, <1>2 DEF Same
<1>. QED
  BY <1>1, <1>2, <1>3, AddsKept

\* A new vault is listed, and listed as backed up.
LEMMA NewKept ==
    ASSUME TypeInv, ListsMade, NEW t \in Tabs, ListsKept(t), NEW n, SaveNew(t, n), UNCHANGED seen \/ Reloads(t)
    PROVE  /\ ListsKept(t)' /\ Keeps(stored, stored') /\ Keeps(View(t), View(t)')
           /\ n \in Vault /\ Known(View(t)'[n]) /\ View(t)'[n].backedUp
<1>1. n \in Vault /\ fresh = n
  BY NewDoes
<1>2. PICK L \in List, M \in List :
        /\ AddsTwo(t, L, M) /\ L[n] = NewRecord /\ M[n] = [NewRecord EXCEPT !.backedUp = TRUE]
        /\ \A u \in Vault \ {n} : L[u] = View(t)[u] /\ M[u] = View(t)[u]
  BY NewDoes, ZenonT(40)
<1>3. ListMade(fresh, View(t)) /\ ~(fresh < fresh)
  BY WebAssumption DEF View, ListsMade, TypeInv
<1>4. ~Known(View(t)[n]) /\ View(t)[n].signed = NoPlan /\ ~View(t)[n].backedUp
  <2>1. ~Known(View(t)[n])
    BY <1>1, <1>3 DEF ListMade
  <2>2. View(t)[n].signed # NoPlan \/ View(t)[n].backedUp => Known(View(t)[n])
    BY <1>1, <1>3 DEF ListMade
  <2>. QED
    BY <2>1, <2>2
<1>5. /\ NewRecord.signed = NoPlan /\ Known(M[n]) /\ M[n].signed = NoPlan /\ M[n].backedUp /\ ~NewRecord.backedUp
  BY <1>2, NewRecords DEF NewRecord
<1>6. Keeps(View(t), L)
  BY <1>2, <1>4 DEF Keeps
<1>7. Keeps(L, M)
  BY <1>2, <1>5 DEF Keeps
<1>8. View(t)' = M
  BY <1>2 DEF AddsTwo
<1>9. ListsKept(t)' /\ Keeps(stored, stored') /\ Keeps(View(t), View(t)')
  BY <1>2, <1>6, <1>7, AddsTwoKept
<1>. QED
  BY <1>1, <1>5, <1>8, <1>9

\* A list that stays signs nothing.
LEMMA SameSelf == \A L : Same(L, L)
  BY DEF Same, Keeps

\* The tab's list never forgets, unless the tab is opened anew; it signs in
\* WriteRecord and Import only.
LEMMA ListsStay ==
    ASSUME OneTab, TypeInv, MadeInv, KeepInv, [Next]_vars, NEW t \in Tabs
    PROVE  /\ ListsKept(t)' /\ Keeps(stored, stored')
           /\ Reopen(t) \/ Keeps(View(t), View(t)')
           /\ \/ Reopen(t) \/ Create(t) \/ MakeNext(t) \/ WriteRecord(t) \/ (\E file \in files : Import(t, file))
              \/ Same(View(t), View(t)')
<1>. USE DEF storage, ui, chain
<1>. DEFINE Stays == ListsKept(t)' /\ Keeps(stored, stored') /\ Keeps(View(t), View(t)') /\ Same(View(t), View(t)')
<1>. \A u \in Tabs : u = t
  BY DEF OneTab
<1>0. /\ StorageType /\ ListsMade /\ ListMade(fresh, View(t)) /\ View(t) \in List /\ ListsKept(t) /\ TaskKept(t)
      /\ at[t] # "idle" => job[t].vault \in Vault
  BY ViewType DEF TypeInv, MadeInv, ListsMade, View, TaskType, Fits, KeepInv
<1>1. ASSUME UNCHANGED storage, UNCHANGED seen \/ Reloads(t) PROVE Stays
  <2>1. View(t)' = View(t) /\ Keeps(stored, stored) /\ Keeps(View(t), View(t)) /\ Same(View(t), View(t))
    BY <1>1, KeepsBoth, SameSelf DEF View
  <2>2. seen'[t] \in {seen[t], View(t)}
    BY <1>0, <1>1, <2>1 DEF Reloads, StorageType
  <2>. QED
    BY <1>0, <1>1, <2>1, <2>2 DEF ListsKept
<1>2. ASSUME WriteThrough(t) \/ WriteFails(t) PROVE Stays
  <2>1. queue[t] \in Seq(List) /\ queue[t] # <<>> /\ Mirrored
    BY <1>0, <1>2 DEF WriteThrough, WriteFails, StorageType, ListsKept
  <2>2. queue'[t] = Tail(queue[t]) /\ UNCHANGED <<mem, seen>> /\ View(t)' = View(t) /\ View(t) = mem[t]
    BY <1>0, <1>2, <2>1 DEF WriteThrough, WriteFails, StorageType, View
  <2>3. CASE WriteThrough(t)
    <3>1. stored' = Head(queue[t]) /\ UNCHANGED failed
      BY <2>3 DEF WriteThrough
    <3>2. Ordered(stored', queue'[t], View(t)') /\ Keeps(stored, stored')
      BY <1>0, <2>1, <2>2, <3>1, OrderedLess DEF ListsKept
    <3>3. ~failed'[t] => Latest(stored', queue'[t], mem'[t])
      BY <1>0, <2>1, <2>2, <3>1, OrderedLess DEF ListsKept
    <3>4. ListsKept(t)'
      BY <1>0, <2>1, <2>2, <3>2, <3>3 DEF ListsKept
    <3>. QED
      BY <2>2, <3>2, <3>4, KeepsBoth, SameSelf
  <2>4. CASE WriteFails(t)
    <3>1. UNCHANGED stored /\ failed'[t]
      BY <1>0, <2>4 DEF WriteFails, StorageType
    <3>2. Ordered(stored', queue'[t], View(t)')
      BY <1>0, <2>1, <2>2, <3>1, OrderedLess DEF ListsKept
    <3>3. ListsKept(t)'
      BY <1>0, <2>1, <2>2, <3>1, <3>2 DEF ListsKept
    <3>. QED
      BY <2>2, <3>1, <3>3, KeepsBoth, SameSelf
  <2>. QED
    BY <1>2, <2>3, <2>4
<1>3. ASSUME Reopen(t) PROVE ListsKept(t)' /\ Keeps(stored, stored')
  <2>1. UNCHANGED stored /\ queue'[t] = <<>> /\ mem'[t] = (IF Mirrored THEN stored ELSE mem[t])
    BY <1>0, <1>3 DEF Reopen, StorageType
  <2>2. View(t)' = stored /\ seen'[t] = stored
    BY <1>0, <1>3, <2>1 DEF View, Reopen, Ends, Reloads, StorageType
  <2>3. Ordered(stored, <<>>, stored) /\ Latest(stored, <<>>, stored)
    BY KeepsBoth DEF Ordered, Latest
  <2>. QED
    BY <2>1, <2>2, <2>3, KeepsBoth DEF ListsKept
<1>4. ASSUME Create(t) \/ MakeNext(t) PROVE ListsKept(t)' /\ Keeps(stored, stored') /\ Keeps(View(t), View(t)')
  BY <1>0, <1>4, NewKept DEF Create, MakeNext, Ends
<1>4a. ASSUME NEW v \in Vault, Put(t, v, [View(t)[v] EXCEPT !.status = "spent"]), UNCHANGED seen \/ Reloads(t) PROVE Stays
  <2>1. View(t)[v] \in Record
    BY <1>0 DEF List
  <2>2. /\ [View(t)[v] EXCEPT !.status = "spent"] \in Record /\ Known([View(t)[v] EXCEPT !.status = "spent"])
        /\ [View(t)[v] EXCEPT !.status = "spent"].signed = View(t)[v].signed
        /\ View(t)[v].backedUp => [View(t)[v] EXCEPT !.status = "spent"].backedUp
    BY <2>1, Edited DEF Known
  <2>. QED
    BY <1>0, <1>4a, <2>2, PutKept
<1>5. ASSUME NEW v \in Vault, Refresh(t, v) PROVE Stays
  BY <1>5, <1>4a DEF Refresh
<1>6. ASSUME NEW v \in Vault, BackUp(t, v) PROVE Stays
  <2>1. View(t)[v] \in Record /\ Put(t, v, [View(t)[v] EXCEPT !.backedUp = TRUE]) /\ Known(View(t)[v])
    BY <1>0, <1>6 DEF BackUp, List
  <2>2. /\ [View(t)[v] EXCEPT !.backedUp = TRUE] \in Record /\ Known([View(t)[v] EXCEPT !.backedUp = TRUE])
        /\ [View(t)[v] EXCEPT !.backedUp = TRUE].signed = View(t)[v].signed
        /\ [View(t)[v] EXCEPT !.backedUp = TRUE].backedUp
    BY <2>1, Edited DEF Known
  <2>3. UNCHANGED seen \/ Reloads(t)
    BY <1>6 DEF BackUp
  <2>. QED
    BY <1>0, <2>1, <2>2, <2>3, PutKept
<1>7. ASSUME NEW file \in files, Import(t, file) PROVE ListsKept(t)' /\ Keeps(stored, stored') /\ Keeps(View(t), View(t)')
  <2>1. file \in File /\ file.vault \in Vault
    BY DEF TypeInv, File
  <2>2. View(t)[file.vault] \in Record
    BY <1>0, <2>1 DEF List
  <2>3. /\ Merged(View(t)[file.vault], file) \in Record /\ Known(Merged(View(t)[file.vault], file))
        /\ Merged(View(t)[file.vault], file).backedUp
        /\ View(t)[file.vault].signed # NoPlan => Merged(View(t)[file.vault], file).signed = View(t)[file.vault].signed
    BY <2>1, <2>2, MergedType
  <2>. QED
    BY <1>0, <1>7, <2>1, <2>3, PutKept DEF Import, Ends
<1>8. ASSUME WriteRecord(t) PROVE ListsKept(t)' /\ Keeps(stored, stored') /\ Keeps(View(t), View(t)')
  <2>1. at[t] = "write" /\ WriteSigned(t) /\ UNCHANGED seen
    BY <1>8 DEF WriteRecord, Goes, Moves
  <2>2. job[t].record \in Record /\ Known(job[t].record) /\ PlanOf(t) \in Plan /\ job[t].record.backedUp
    BY <1>0, <2>1, PutType DEF TypeInv, TaskType, Fits, Withdrawing, Place, Job, TaskKept
  <2>3. View(t)[job[t].vault].signed \in {NoPlan, PlanOf(t)}
    BY <1>0, <2>1 DEF TaskKept
  <2>4. /\ [job[t].record EXCEPT !.signed = PlanOf(t)] \in Record /\ Known([job[t].record EXCEPT !.signed = PlanOf(t)])
        /\ [job[t].record EXCEPT !.signed = PlanOf(t)].signed = PlanOf(t)
        /\ [job[t].record EXCEPT !.signed = PlanOf(t)].backedUp
    BY <2>2, Edited DEF Known
  <2>. QED
    BY <1>0, <2>1, <2>3, <2>4, PutKept DEF WriteSigned
<1>9. ASSUME Mark(t) PROVE Stays
  <2>1. at[t] = "mark" /\ Reloads(t) /\ job[t].vault \in Vault
    BY <1>0, <1>9 DEF Mark, Ends
  <2>2. CASE UNCHANGED storage
    BY <1>1, <2>1, <2>2
  <2>3. CASE Known(View(t)[job[t].vault]) /\ Put(t, job[t].vault, [View(t)[job[t].vault] EXCEPT !.status = "spent"])
    BY <1>4a, <2>1, <2>3
  <2>. QED
    BY <1>9, <2>2, <2>3 DEF Mark
<1>10. ASSUME \/ PlanFirst(t) \/ PlanAgain(t) \/ ReadRecord(t) \/ Look(t) \/ Prepare(t) \/ Send(t)
              \/ Confirmed(t) \/ Recheck(t) \/ SendFails(t) \/ Throw(t) \/ Reload(t) \/ DepositEnds(t)
              \/ \E v \in Vault : SendDeposit(t, v) \/ \E amount \in Amounts : Press(t, v, amount)
       PROVE  Stays
  <2>1. UNCHANGED storage /\ (UNCHANGED seen \/ Reloads(t))
    BY <1>10 DEF PlanFirst, PlanAgain, ReadRecord, Look, Prepare, Send, Confirmed, Recheck, SendFails, Throw, Reload,
       DepositEnds, SendDeposit, Press, Goes, Ends
  <2>. QED
    BY <1>1, <2>1
<1>11. ASSUME \/ UNCHANGED vars
              \/ \E v \in Vault : LandDeposit(v) \/ ExpireDeposit(v) \/ Receive(v)
              \/ \E d \in net : Land(d) \/ Expire(d)
       PROVE  Stays
  <2>1. UNCHANGED <<storage, seen>>
    BY <1>11 DEF vars, LandDeposit, ExpireDeposit, Receive, Land, Expire
  <2>. QED
    BY <1>1, <2>1
<1>. HIDE DEF Stays
<1>12. \/ Stays \/ Reopen(t) \/ Create(t) \/ MakeNext(t) \/ WriteRecord(t) \/ \E file \in files : Import(t, file)
  BY <1>2, <1>5, <1>6, <1>9, <1>10, <1>11 DEF Next, Proceeds
<1>. QED
  BY <1>3, <1>4, <1>7, <1>8, <1>12 DEF Stays

\* A task that stays where it is keeps what it relies on.
LEMMA TaskStays ==
    ASSUME TypeInv, NEW t \in Tabs, TaskKept(t), Same(View(t), View(t)'), at'[t] = at[t], job'[t] = job[t]
    PROVE  TaskKept(t)'
<1>1. /\ at[t] \in Withdrawing => job[t].vault \in Vault
      /\ at[t] \in Planned => job[t].next \in Vault
      /\ Written \subseteq Withdrawing /\ "write" \in Withdrawing
  BY DEF TypeInv, TaskType, Fits, Withdrawing, Written, Planned, Place
<1>2. PlanOf(t)' = PlanOf(t)
  BY DEF PlanOf
<1>3. at'[t] \in Withdrawing => job'[t].record.backedUp /\ View(t)'[job'[t].vault].backedUp
  BY <1>1 DEF TaskKept, Same, Keeps
<1>4. at'[t] \in Planned => Known(View(t)'[job'[t].next]) /\ View(t)'[job'[t].next].backedUp
  BY <1>1 DEF TaskKept, Same, Keeps
<1>5. /\ at'[t] = "write" => View(t)'[job'[t].vault].signed \in {NoPlan, PlanOf(t)'}
      /\ at'[t] \in Written => View(t)'[job'[t].vault].signed = PlanOf(t)'
  BY <1>1, <1>2 DEF TaskKept, Same
<1>. QED
  BY <1>3, <1>4, <1>5 DEF TaskKept

\* A recorded withdrawal goes on; the list is left alone.
LEMMA WrittenGoes ==
    ASSUME NEW t \in Tabs, TaskKept(t), at[t] \in Written, at'[t] \in Written, UNCHANGED <<storage, job>>
    PROVE  TaskKept(t)'
<1>1. View(t)' = View(t) /\ PlanOf(t)' = PlanOf(t)
  BY DEF View, PlanOf, storage
<1>. QED
  BY <1>1 DEF TaskKept, Written, Planned, Withdrawing, Place

\* No step makes a task forget what it found and recorded.
LEMMA TaskKeptStep ==
    ASSUME OneTab, TypeInv, MadeInv, KeepInv, [Next]_vars, NEW t \in Tabs
    PROVE  TaskKept(t)'
<1>. USE DEF storage, ui, chain
<1>. \A u \in Tabs : u = t
  BY DEF OneTab
<1>0. /\ StorageType /\ View(t) \in List /\ ListsKept(t) /\ TaskKept(t) /\ job[t] \in Job
      /\ at \in [Tabs -> Place] /\ job \in [Tabs -> Job] /\ Fits(at[t], job[t])
      /\ at[t] # "idle" => job[t].vault \in Vault
  BY ViewType DEF TypeInv, TaskType, Fits, KeepInv
<1>1. ASSUME at'[t] \in {"idle", "deposit"} PROVE TaskKept(t)'
  BY <1>1 DEF TaskKept, Written, Planned, Withdrawing, Place
<1>2. ASSUME NEW v \in Vault, NEW amount \in Amounts, Press(t, v, amount) PROVE TaskKept(t)'
  <2>1. seen[t][v].backedUp /\ seen[t][v].status = "active" /\ UNCHANGED storage /\ at'[t] = "open"
    BY <1>0, <1>2 DEF Press, Goes, Moves
  <2>2. View(t)[v].backedUp /\ Known(View(t)[v]) /\ View(t)' = View(t)
    BY <1>0, <2>1 DEF ListsKept, Keeps, Known, View
  <2>3. job'[t] = [vault |-> v, amount |-> amount, next |-> 0, record |-> View(t)[v]]
    BY <1>0, <1>2, <2>2 DEF Press
  <2>4. job'[t].record = View(t)[v] /\ job'[t].vault = v
    BY <2>3
  <2>. QED
    BY <2>1, <2>2, <2>4 DEF TaskKept, Written, Planned, Withdrawing, Place
<1>3. ASSUME PlanFirst(t) PROVE TaskKept(t)'
  <2>1. at[t] = "open" /\ at'[t] = "make" /\ UNCHANGED <<storage, job>> /\ View(t)' = View(t)
    BY <1>0, <1>3 DEF PlanFirst, Goes, Moves, View
  <2>. QED
    BY <1>0, <2>1 DEF TaskKept, Written, Planned, Withdrawing, Place
<1>4. ASSUME PlanAgain(t) PROVE TaskKept(t)'
  <2>. DEFINE n == job[t].record.signed.next
  <2>1. /\ at[t] = "open" /\ at'[t] = "record" /\ UNCHANGED storage /\ View(t)' = View(t)
        /\ job' = [job EXCEPT ![t] = [job[t] EXCEPT !.next = n]] /\ job[t].record.signed # NoPlan
        /\ Known(View(t)[n]) /\ View(t)[n].backedUp
    BY <1>0, <1>4 DEF PlanAgain, Goes, Moves, View
  <2>2. n \in Vault
    <3>1. job[t].record.signed \in Plan
      BY <1>0, <2>1 DEF Job, Record
    <3>. QED
      BY <3>1 DEF Plan
  <2>. HIDE DEF n
  <2>3. job'[t].next = n /\ job'[t].vault = job[t].vault /\ job'[t].record = job[t].record
    BY <1>0, <2>1, <2>2, JobEdited
  <2>. QED
    BY <1>0, <2>1, <2>3 DEF TaskKept, Written, Planned, Withdrawing, Place
<1>5. ASSUME MakeNext(t) PROVE TaskKept(t)'
  <2>1. /\ at[t] = "make" /\ at'[t] = "record" /\ SaveNew(t, fresh) /\ UNCHANGED seen
        /\ job' = [job EXCEPT ![t] = [job[t] EXCEPT !.next = fresh]]
    BY <1>0, <1>5 DEF MakeNext, Moves
  <2>2. fresh \in Vault /\ Known(View(t)'[fresh]) /\ View(t)'[fresh].backedUp /\ Keeps(View(t), View(t)')
    BY <1>0, <2>1, NewKept DEF MadeInv
  <2>3. job'[t].next = fresh /\ job'[t].vault = job[t].vault /\ job'[t].record = job[t].record
    BY <1>0, <2>1, <2>2, JobEdited
  <2>4. job'[t].record.backedUp /\ View(t)'[job'[t].vault].backedUp
    BY <1>0, <2>1, <2>2, <2>3 DEF TaskKept, Keeps, Withdrawing, Place
  <2>. QED
    BY <2>1, <2>2, <2>3, <2>4 DEF TaskKept, Written, Planned, Withdrawing, Place
<1>6. ASSUME ReadRecord(t) PROVE TaskKept(t)'
  <2>. DEFINE current == View(t)[job[t].vault]
  <2>1. /\ at[t] = "record" /\ at'[t] = "write" /\ UNCHANGED storage /\ View(t)' = View(t)
        /\ job' = [job EXCEPT ![t] = [job[t] EXCEPT !.record = IF Known(current) THEN current ELSE job[t].record]]
        /\ MaySign(Prior(current, job[t].record), PlanOf(t))
    BY <1>0, <1>6 DEF ReadRecord, Goes, Moves, View
  <2>2. job[t].vault \in Vault /\ current \in Record /\ current.backedUp /\ job[t].record \in Record /\ job[t].record.backedUp
        /\ Known(View(t)[job[t].next]) /\ View(t)[job[t].next].backedUp
    BY <1>0, <2>1 DEF List, Job, TaskKept, Withdrawing, Planned, Place
  <2>3. current.signed \in {NoPlan, PlanOf(t)}
    BY <2>1 DEF MaySign, Prior
  <2>4. PICK r \in Record : r.backedUp /\ job' = [job EXCEPT ![t] = [job[t] EXCEPT !.record = r]]
    BY <2>1, <2>2
  <2>5. /\ job'[t].record = r /\ job'[t].vault = job[t].vault /\ job'[t].next = job[t].next
        /\ job'[t].amount = job[t].amount
    BY <1>0, <2>4, JobEdited
  <2>6. PlanOf(t)' = PlanOf(t)
    BY <2>5 DEF PlanOf
  <2>. QED
    BY <2>1, <2>2, <2>3, <2>4, <2>5, <2>6 DEF TaskKept, Written, Planned, Withdrawing, Place
<1>7. ASSUME WriteRecord(t) PROVE TaskKept(t)'
  <2>1. at[t] = "write" /\ at'[t] = "look" /\ WriteSigned(t) /\ UNCHANGED <<job, seen>>
    BY <1>0, <1>7 DEF WriteRecord, Goes, Moves
  <2>2. job[t].record \in Record /\ Known(job[t].record) /\ PlanOf(t) \in Plan /\ job[t].record.backedUp
        /\ job[t].vault \in Vault /\ job[t].next \in Vault
    BY <1>0, <2>1, PutType DEF Fits, Withdrawing, Planned, Place, Job, TaskKept
  <2>3. View(t)[job[t].vault].signed \in {NoPlan, PlanOf(t)}
    BY <1>0, <2>1 DEF TaskKept
  <2>4. /\ [job[t].record EXCEPT !.signed = PlanOf(t)] \in Record /\ Known([job[t].record EXCEPT !.signed = PlanOf(t)])
        /\ [job[t].record EXCEPT !.signed = PlanOf(t)].signed = PlanOf(t)
        /\ [job[t].record EXCEPT !.signed = PlanOf(t)].backedUp
    BY <2>2, Edited DEF Known
  <2>5. View(t)'[job[t].vault].signed = PlanOf(t) /\ Keeps(View(t), View(t)')
    BY <1>0, <2>1, <2>2, <2>3, <2>4, PutKept, ZenonT(120) DEF WriteSigned
  <2>6. PlanOf(t)' = PlanOf(t)
    BY <2>1 DEF PlanOf
  <2>7. View(t)'[job[t].vault].backedUp /\ Known(View(t)'[job[t].next]) /\ View(t)'[job[t].next].backedUp
    BY <1>0, <2>1, <2>2, <2>5 DEF TaskKept, Keeps, Withdrawing, Planned, Place
  <2>. QED
    BY <2>1, <2>2, <2>5, <2>6, <2>7 DEF TaskKept, Written, Planned, Withdrawing, Place
<1>8. ASSUME Look(t) \/ Prepare(t) \/ Send(t) \/ Confirmed(t) \/ SendFails(t) \/ Recheck(t) PROVE TaskKept(t)'
  <2>1. at[t] \in Written /\ at'[t] \in Written /\ UNCHANGED <<storage, job>>
    BY <1>0, <1>8 DEF Look, Prepare, Send, Confirmed, SendFails, Recheck, Goes, Moves, Written, Planned, Withdrawing, Place
  <2>. QED
    BY <1>0, <2>1, WrittenGoes
<1>9. ASSUME \/ Create(t) \/ Reopen(t) \/ DepositEnds(t) \/ Mark(t) \/ Throw(t) \/ (\E file \in files : Import(t, file))
             \/ \E v \in Vault : SendDeposit(t, v)
      PROVE  TaskKept(t)'
  <2>1. at'[t] \in {"idle", "deposit"}
    BY <1>0, <1>9 DEF Create, Reopen, DepositEnds, Mark, Throw, Import, SendDeposit, Ends, Moves
  <2>. QED
    BY <1>1, <2>1
<1>10. ASSUME \/ UNCHANGED vars
              \/ Reload(t) \/ WriteThrough(t) \/ WriteFails(t)
              \/ \E v \in Vault : Refresh(t, v) \/ BackUp(t, v)
              \/ \E v \in Vault : LandDeposit(v) \/ ExpireDeposit(v) \/ Receive(v)
              \/ \E d \in net : Land(d) \/ Expire(d)
       PROVE  TaskKept(t)'
  <2>1. UNCHANGED <<at, job>>
    BY <1>10 DEF vars, Reload, WriteThrough, WriteFails, Refresh, BackUp, LandDeposit, ExpireDeposit, Receive, Land, Expire
  <2>2. \/ Reopen(t) \/ Create(t) \/ MakeNext(t) \/ WriteRecord(t) \/ (\E file \in files : Import(t, file))
        \/ Same(View(t), View(t)')
    BY ListsStay
  <2>3. Same(View(t), View(t)') => TaskKept(t)'
    BY <1>0, <2>1, TaskStays
  <2>. QED
    BY <1>5, <1>7, <1>9, <2>2, <2>3
<1>. QED
  BY <1>2, <1>3, <1>4, <1>5, <1>6, <1>7, <1>8, <1>9, <1>10 DEF Next, Proceeds

\* A signature leaves the browser once its record is in the storage.
LEMMA SentKeptStep ==
    ASSUME OneTab, TypeInv, MadeInv, KeepInv, [Next]_vars
    PROVE  SentKept'
<1>. USE DEF storage, ui, chain
<1>0. \A d \in sent : d.vault \in Vault /\ d.plan.next \in Vault /\ d.plan \in Plan
  BY DEF TypeInv, ChainType, Digest, Plan
<1>1. NoPlan \notin Plan
  BY WebAssumption DEF NoPlan, Plan
<1>2. CASE Tabs = {}
  <2>1. UNCHANGED <<stored, sent>>
    BY <1>2 DEF Next, vars, LandDeposit, ExpireDeposit, Receive, Land, Expire
  <2>. QED
    BY <2>1 DEF KeepInv, SentKept
<1>3. CASE Tabs # {}
  <2>1. PICK t \in Tabs : TRUE
    BY <1>3
  <2>2. Keeps(stored, stored')
    BY ListsStay
  <2>3. \A d \in sent : /\ stored'[d.vault].signed = d.plan
                        /\ Known(stored'[d.plan.next]) /\ stored'[d.plan.next].backedUp
    BY <1>0, <1>1, <2>2 DEF KeepInv, SentKept, Keeps
  <2>4. ASSUME NEW u \in Tabs, Send(u) PROVE SentKept'
    <3>1. at[u] = "send" /\ Flushed(u) /\ UNCHANGED storage /\ sent' = sent \union {DigestOf(u)}
      BY <2>4 DEF Send, Moves
    <3>2. View(u) = stored
      BY <3>1 DEF Flushed, View, KeepInv, ListsKept, Latest
    <3>3. /\ stored[job[u].vault].signed = PlanOf(u)
          /\ Known(stored[job[u].next]) /\ stored[job[u].next].backedUp
      BY <3>1, <3>2 DEF KeepInv, TaskKept, Written, Planned, Withdrawing, Place
    <3>4. DigestOf(u).vault = job[u].vault /\ DigestOf(u).plan = PlanOf(u) /\ PlanOf(u).next = job[u].next
      BY DEF DigestOf, PlanOf
    <3>. QED
      BY <2>3, <3>1, <3>3, <3>4 DEF SentKept
  <2>5. UNCHANGED sent \/ \E u \in Tabs : Send(u)
    BY ChainMoves DEF Prepare, SendDeposit, LandDeposit, ExpireDeposit, Receive, Land, Expire
  <2>. QED
    BY <2>3, <2>4, <2>5 DEF SentKept
<1>. QED
  BY <1>2, <1>3

\* No step forgets a signature.
LEMMA KeepStep == OneTab /\ TypeInv /\ MadeInv /\ KeepInv /\ [Next]_vars => KeepInv'
<1>. SUFFICES ASSUME OneTab, TypeInv, MadeInv, KeepInv, [Next]_vars PROVE KeepInv'
  OBVIOUS
<1>1. \A t \in Tabs : ListsKept(t)' /\ TaskKept(t)'
  BY ListsStay, TaskKeptStep
<1>. QED
  BY <1>1, SentKeptStep DEF KeepInv

\* Nothing is signed at the start.
LEMMA KeepInit == Init => KeepInv
<1>. SUFFICES ASSUME Init PROVE KeepInv
  OBVIOUS
<1>1. \A t \in Tabs : View(t) = NoList /\ stored = NoList /\ seen[t] = NoList /\ queue[t] = <<>> /\ mem[t] = NoList
  BY DEF Init, View
<1>2. \A t \in Tabs : ListsKept(t)
  <2>1. Keeps(NoList, NoList) /\ Ordered(NoList, <<>>, NoList) /\ Latest(NoList, <<>>, NoList)
    BY KeepsBoth DEF Ordered, Latest
  <2>. QED
    BY <1>1, <2>1 DEF ListsKept
<1>3. \A t \in Tabs : TaskKept(t)
  BY DEF Init, TaskKept, Written, Planned, Withdrawing, Place
<1>. QED
  BY <1>2, <1>3 DEF Init, KeepInv, SentKept

\* The inductive invariant holds throughout.
LEMMA Recorded ==
    ASSUME OneTab
    PROVE  Spec => [](TypeInv /\ MadeInv /\ KeepInv)
<1>1. KeepInv /\ (TypeInv /\ MadeInv) /\ [Next]_vars => KeepInv'
  BY KeepStep
<1>. QED
  BY <1>1, KeepInit, OnlyMade, PTL DEF Spec

\* With one tab, or one window whatever becomes of its writes, a vault's key
\* signs one message that leaves the browser (store.ts:66-67).
THEOREM OneMessage ==
    ASSUME OneTab
    PROVE  Spec => []OneMessagePerKey
<1>1. TypeInv /\ KeepInv => OneMessagePerKey
  <2>. SUFFICES ASSUME TypeInv, KeepInv, NEW d \in sent, NEW e \in sent, d.vault = e.vault PROVE d = e
    BY DEF OneMessagePerKey
  <2>1. d.plan = e.plan /\ d \in Digest /\ e \in Digest
    BY DEF KeepInv, SentKept, TypeInv, ChainType
  <2>. QED
    BY <2>1 DEF Digest
<1>. QED
  BY <1>1, Recorded, PTL

\* With one tab or window, the stored list never forgets what a vault signed,
\* not by a crash, a lost write or an imported backup (store.ts:102).
THEOREM SignedStays ==
    ASSUME OneTab
    PROVE  Spec => SignedNeverForgotten
<1>1. TypeInv /\ MadeInv /\ KeepInv /\ [Next]_vars =>
        [\A v \in Vault : stored[v].signed # NoPlan => stored'[v].signed = stored[v].signed]_stored
  <2>. SUFFICES ASSUME TypeInv, MadeInv, KeepInv, [Next]_vars, stored' # stored, NEW v \in Vault, stored[v].signed # NoPlan
                PROVE  stored'[v].signed = stored[v].signed
    OBVIOUS
  <2>1. CASE Tabs = {}
    BY <2>1 DEF Next, vars, LandDeposit, ExpireDeposit, Receive, Land, Expire, storage
  <2>2. CASE Tabs # {}
    BY <2>2, ListsStay DEF Keeps
  <2>. QED
    BY <2>1, <2>2
<1>. QED
  BY <1>1, Recorded, PTL DEF Spec, SignedNeverForgotten

----------------------------------------------------------------------------
(* What is recorded as spent has been spent, with any number of tabs.       *)

\* The vaults that were spent, and the amounts that each vault can pay or has
\* paid out.
Spent == {v \in Vault : IsSpent(v)}
Backing == [v \in Vault |-> {a \in Amounts : IsSpent(v) \/ Covers(v, a)}]

\* A record, a task and a backup know nothing but signatures of amounts that
\* are there, and spends that happened.
RecordOpen(S, B, v, r) ==
    (r.signed # NoPlan => r.signed.amount \in B[v]) /\ (r.status = "spent" => v \in S)
ListOpen(S, B, L) == \A v \in Vault : RecordOpen(S, B, v, L[v])
TaskOpen(S, B, place, j) ==
    /\ place \in {"open", "make", "record", "write"} => RecordOpen(S, B, j.vault, j.record)
    /\ place \in Withdrawing \ {"open"} => j.amount \in B[j.vault]
    /\ place = "mark" => j.vault \in S
ListsOpen ==
    /\ ListOpen(Spent, Backing, stored)
    /\ \A t \in Tabs : /\ ListOpen(Spent, Backing, mem[t]) /\ ListOpen(Spent, Backing, seen[t])
                       /\ \A i \in DOMAIN queue[t] : ListOpen(Spent, Backing, queue[t][i])
TasksOpen == \A t \in Tabs : TaskOpen(Spent, Backing, at[t], job[t])
FilesOpen == \A file \in files : file.signed # NoPlan => file.signed.amount \in Backing[file.vault]
OpenInv == ListsOpen /\ TasksOpen /\ FilesOpen

\* What was spent stays spent, and what a vault can pay it can pay until then.
LEMMA Grows ==
    ASSUME TypeInv, [Next]_vars
    PROVE  Spent \subseteq Spent' /\ \A v \in Vault : Backing[v] \subseteq Backing'[v]
<1>. USE DEF storage, ui, chain
<1>0. held \in [Vault -> Nat] /\ exists \in [Vault -> BOOLEAN] /\ net \subseteq sent /\ sent \subseteq Digest /\ Amounts \subseteq Nat
  BY WebAssumption DEF TypeInv, ChainType
<1>1. ASSUME paid \subseteq paid',
             \A v \in Vault : IsSpent(v)' \/ (held'[v] >= held[v] /\ (exists[v] => exists'[v])),
             held' \in [Vault -> Nat]
      PROVE  Spent \subseteq Spent' /\ \A v \in Vault : Backing[v] \subseteq Backing'[v]
  <2>1. \A v \in Vault : IsSpent(v) => IsSpent(v)'
    BY <1>1 DEF IsSpent
  <2>2. ASSUME NEW v \in Vault, NEW a \in Amounts, IsSpent(v) \/ Covers(v, a) PROVE IsSpent(v)' \/ Covers(v, a)'
    <3>1. a \in Nat /\ held[v] \in Nat /\ held'[v] \in Nat
      BY <1>0, <1>1
    <3>2. CASE IsSpent(v)
      BY <2>1, <3>2
    <3>3. CASE Covers(v, a) /\ ~IsSpent(v)'
      <4>1. held'[v] >= held[v] /\ exists'[v] /\ a <= held[v]
        BY <1>1, <3>3 DEF Covers
      <4>. QED
        BY <3>1, <4>1 DEF Covers
    <3>. QED
      BY <2>2, <3>2, <3>3
  <2>. QED
    BY <2>1, <2>2 DEF Spent, Backing
<1>2. ASSUME UNCHANGED <<held, exists, paid>> PROVE Spent \subseteq Spent' /\ \A v \in Vault : Backing[v] \subseteq Backing'[v]
  BY <1>0, <1>1, <1>2
<1>3. ASSUME NEW v \in Vault, LandDeposit(v) \/ Receive(v)
      PROVE  Spent \subseteq Spent' /\ \A u \in Vault : Backing[u] \subseteq Backing'[u]
  <2>1. held' = [held EXCEPT ![v] = held[v] + 1] /\ exists' = [exists EXCEPT ![v] = TRUE] /\ paid' = paid
    BY <1>3 DEF LandDeposit, Receive
  <2>2. held' \in [Vault -> Nat] /\ \A u \in Vault : held'[u] >= held[u] /\ (exists[u] => exists'[u])
    BY <1>0, <2>1
  <2>. QED
    BY <1>1, <2>1, <2>2
<1>4. ASSUME NEW t \in Tabs, Prepare(t) PROVE Spent \subseteq Spent' /\ \A u \in Vault : Backing[u] \subseteq Backing'[u]
  <2>1. held' = held /\ paid' = paid /\ exists' = [exists EXCEPT ![job[t].next] = TRUE]
    BY <1>4 DEF Prepare
  <2>2. \A u \in Vault : held'[u] >= held[u] /\ (exists[u] => exists'[u])
    BY <1>0, <2>1
  <2>. QED
    BY <1>0, <1>1, <2>1, <2>2
<1>5. ASSUME NEW d \in net, Land(d) PROVE Spent \subseteq Spent' /\ \A u \in Vault : Backing[u] \subseteq Backing'[u]
  <2>1. d \in Digest /\ d.plan.amount \in Nat /\ d.vault \in Vault
    BY <1>0 DEF Digest, Plan
  <2>2. /\ paid' = paid \union {d} /\ exists' = [exists EXCEPT ![d.vault] = FALSE] /\ Covers(d.vault, d.plan.amount)
        /\ held' = [[held EXCEPT ![d.vault] = 0] EXCEPT ![d.plan.next] = @ + held[d.vault] - d.plan.amount]
    BY <1>5 DEF Land, Acceptable
  <2>3. held' \in [Vault -> Nat] /\ \A v \in Vault \ {d.vault} : held'[v] >= held[v]
    BY <2>1, <2>2, Divides
  <2>4. IsSpent(d.vault)' /\ \A v \in Vault \ {d.vault} : exists[v] => exists'[v]
    BY <1>0, <2>1, <2>2 DEF IsSpent
  <2>. QED
    BY <1>1, <2>2, <2>3, <2>4
<1>6. ASSUME \/ UNCHANGED <<chain, sent>>
             \/ \E t \in Tabs : Send(t) \/ \E v \in Vault : SendDeposit(t, v)
             \/ \E v \in Vault : ExpireDeposit(v)
             \/ \E d \in net : Expire(d)
      PROVE  UNCHANGED <<held, exists, paid>>
  BY <1>6 DEF Send, SendDeposit, ExpireDeposit, Expire
<1>. QED
  BY <1>2, <1>3, <1>4, <1>5, <1>6, ChainMoves

\* A list that was open stays so.
LEMMA ListOpenMore ==
    ASSUME NEW S, NEW B, NEW S2, NEW B2, S \subseteq S2, \A v \in Vault : B[v] \subseteq B2[v]
    PROVE  \A L : ListOpen(S, B, L) => ListOpen(S2, B2, L)
  BY DEF ListOpen, RecordOpen

\* A tab adds lists of records that are open.
LEMMA AddsOpen ==
    ASSUME TypeInv, ListsOpen, NEW t \in Tabs, NEW M \in List, Adds(t, M), UNCHANGED <<Spent, Backing>>,
           ListOpen(Spent, Backing, M), UNCHANGED seen \/ Reloads(t)
    PROVE  ListsOpen'
<1>1. ListOpen(Spent, Backing, stored') /\ \A u \in Tabs : ListOpen(Spent, Backing, mem'[u])
  BY DEF Adds, ListsOpen
<1>2. ASSUME NEW u \in Tabs, NEW i \in DOMAIN queue'[u] PROVE ListOpen(Spent, Backing, queue'[u][i])
  <2>1. CASE Mirrored /\ u = t
    <3>1. queue[t] \in Seq(List) /\ queue'[t] = Append(queue[t], M)
      BY <2>1 DEF Adds, TypeInv, StorageType
    <3>. QED
      BY <1>2, <2>1, <3>1, Appended DEF ListsOpen
  <2>2. CASE ~(Mirrored /\ u = t)
    BY <1>2, <2>2 DEF Adds, ListsOpen
  <2>. QED
    BY <2>1, <2>2
<1>3. \A u \in Tabs : ListOpen(Spent, Backing, seen'[u])
  BY DEF Adds, ListsOpen, Reloads, TypeInv, StorageType
<1>. QED
  BY <1>1, <1>2, <1>3 DEF ListsOpen

\* A tab adds two lists of records that are open.
LEMMA AddsTwoOpen ==
    ASSUME TypeInv, ListsOpen, NEW t \in Tabs, NEW L \in List, NEW M \in List, AddsTwo(t, L, M),
           UNCHANGED <<Spent, Backing>>, ListOpen(Spent, Backing, L), ListOpen(Spent, Backing, M),
           UNCHANGED seen \/ Reloads(t)
    PROVE  ListsOpen'
<1>1. ListOpen(Spent, Backing, stored') /\ \A u \in Tabs : ListOpen(Spent, Backing, mem'[u])
  BY DEF AddsTwo, ListsOpen
<1>2. ASSUME NEW u \in Tabs, NEW i \in DOMAIN queue'[u] PROVE ListOpen(Spent, Backing, queue'[u][i])
  <2>1. CASE Mirrored /\ u = t
    <3>. DEFINE q == Append(queue[t], L)
    <3>1. queue[t] \in Seq(List) /\ queue'[t] = Append(q, M) /\ q \in Seq(List)
      BY <2>1, Appended DEF AddsTwo, TypeInv, StorageType
    <3>2. \A k \in DOMAIN q : ListOpen(Spent, Backing, q[k])
      BY <3>1, Appended DEF ListsOpen
    <3>. HIDE DEF q
    <3>. QED
      BY <1>2, <2>1, <3>1, <3>2, Appended
  <2>2. CASE ~(Mirrored /\ u = t)
    BY <1>2, <2>2 DEF AddsTwo, ListsOpen
  <2>. QED
    BY <2>1, <2>2
<1>3. \A u \in Tabs : ListOpen(Spent, Backing, seen'[u])
  BY DEF AddsTwo, ListsOpen, Reloads, TypeInv, StorageType
<1>. QED
  BY <1>1, <1>2, <1>3 DEF ListsOpen

\* A record is put into the list.
LEMMA PutOpen ==
    ASSUME TypeInv, ListsOpen, NEW t \in Tabs, NEW v \in Vault, NEW r \in Record, Put(t, v, r),
           UNCHANGED <<Spent, Backing>>, RecordOpen(Spent, Backing, v, r), UNCHANGED seen \/ Reloads(t)
    PROVE  ListsOpen'
<1>1. PICK M \in List : Adds(t, M) /\ M[v] = r /\ \A u \in Vault \ {v} : M[u] = View(t)[u]
  BY PutDoes DEF TypeInv
<1>2. ListOpen(Spent, Backing, View(t))
  BY DEF View, ListsOpen
<1>3. ListOpen(Spent, Backing, M)
  BY <1>1, <1>2 DEF ListOpen
<1>. QED
  BY <1>1, <1>3, AddsOpen

\* A new vault is put into the list.
LEMMA NewOpen ==
    ASSUME TypeInv, ListsOpen, NEW t \in Tabs, NEW n, SaveNew(t, n), UNCHANGED <<Spent, Backing>>,
           UNCHANGED seen \/ Reloads(t)
    PROVE  ListsOpen'
<1>1. n \in Vault
  BY NewDoes
<1>2. PICK L \in List, M \in List :
        /\ AddsTwo(t, L, M) /\ L[n] = NewRecord /\ M[n] = [NewRecord EXCEPT !.backedUp = TRUE]
        /\ \A u \in Vault \ {n} : L[u] = View(t)[u] /\ M[u] = View(t)[u]
  BY NewDoes, ZenonT(40)
<1>3. ListOpen(Spent, Backing, View(t))
  BY DEF View, ListsOpen
<1>4. ListOpen(Spent, Backing, L) /\ ListOpen(Spent, Backing, M)
  <2>1. /\ L[n].status = "active" /\ L[n].signed = NoPlan /\ M[n].status = "active" /\ M[n].signed = NoPlan
    BY <1>1, <1>2, NewRecords
  <2>. QED
    BY <1>2, <1>3, <2>1 DEF ListOpen, RecordOpen
<1>. QED
  BY <1>2, <1>4, AddsTwoOpen

\* A record marked spent; a withdrawal's record with its signature.
LEMMA OpenEdits ==
    ASSUME NEW S, NEW B, NEW v \in Vault, NEW r \in Record, RecordOpen(S, B, v, r)
    PROVE  /\ RecordOpen(S, B, v, [r EXCEPT !.backedUp = TRUE])
           /\ v \in S => RecordOpen(S, B, v, [r EXCEPT !.status = "spent"])
           /\ \A p \in Plan : p.amount \in B[v] => RecordOpen(S, B, v, [r EXCEPT !.signed = p])
           /\ \A file \in File : /\ file.status = "active" /\ (file.signed # NoPlan => file.signed.amount \in B[v])
                                 => RecordOpen(S, B, v, Merged(r, file))
<1>1. RecordOpen(S, B, v, [r EXCEPT !.backedUp = TRUE])
  BY Edited DEF RecordOpen
<1>2. v \in S => RecordOpen(S, B, v, [r EXCEPT !.status = "spent"])
  BY Edited DEF RecordOpen
<1>3. \A p \in Plan : p.amount \in B[v] => RecordOpen(S, B, v, [r EXCEPT !.signed = p])
  BY Edited DEF RecordOpen
<1>4. ASSUME NEW file \in File, file.status = "active", file.signed # NoPlan => file.signed.amount \in B[v]
      PROVE  RecordOpen(S, B, v, Merged(r, file))
  BY <1>4 DEF RecordOpen, Merged
<1>. QED
  BY <1>1, <1>2, <1>3, <1>4

\* A vault whose record is signed and whose account is gone was spent.
LEMMA GoneSpent ==
    ASSUME NEW v \in Vault, NEW a \in Backing[v], ~exists[v]
    PROVE  v \in Spent
  BY DEF Backing, Spent, Covers

\* Every list a step writes holds open records.
LEMMA ListsOpenStep ==
    ASSUME "refresh" \notin Faults, TypeInv, MadeInv, OpenInv, [Next]_vars
    PROVE  ListsOpen'
<1>. USE DEF storage, ui
<1>0. /\ StorageType /\ ListsOpen /\ \A t \in Tabs : ListOpen(Spent, Backing, View(t)) /\ View(t) \in List
      /\ \A t \in Tabs : TaskOpen(Spent, Backing, at[t], job[t])
      /\ \A t \in Tabs : at[t] # "idle" => job[t].vault \in Vault
      /\ \A t \in Tabs, v \in Vault : View(t)[v] \in Record /\ RecordOpen(Spent, Backing, v, View(t)[v])
  BY ViewType DEF TypeInv, OpenInv, ListsOpen, TasksOpen, View, TaskType, Fits, List, ListOpen
<1>1. ASSUME UNCHANGED chain PROVE UNCHANGED <<Spent, Backing>>
  BY <1>1 DEF chain, Spent, Backing, Covers, IsSpent
<1>2. ASSUME NEW t \in Tabs, UNCHANGED <<storage, chain>>, UNCHANGED seen \/ Reloads(t) PROVE ListsOpen'
  <2>1. View(t)' = View(t)
    BY <1>2 DEF View
  <2>2. \A u \in Tabs : seen'[u] \in {seen[u], View(u)}
    BY <1>0, <1>2, <2>1 DEF Reloads, StorageType
  <2>3. \A u \in Tabs : ListOpen(Spent, Backing, seen'[u])
    BY <1>0, <2>2 DEF ListsOpen
  <2>4. UNCHANGED <<stored, mem, queue, Spent, Backing>>
    BY <1>1, <1>2
  <2>. QED
    BY <1>0, <2>3, <2>4 DEF ListsOpen
<1>3. ASSUME NEW t \in Tabs, WriteThrough(t) \/ WriteFails(t) PROVE ListsOpen'
  <2>1. queue[t] \in Seq(List) /\ queue[t] # <<>>
    BY <1>0, <1>3 DEF WriteThrough, WriteFails, StorageType
  <2>2. /\ queue'[t] = Tail(queue[t]) /\ \A u \in Tabs \ {t} : queue'[u] = queue[u]
        /\ stored' \in {stored, Head(queue[t])} /\ UNCHANGED <<mem, seen, chain>>
    BY <1>0, <1>3 DEF WriteThrough, WriteFails, StorageType
  <2>3. /\ ListOpen(Spent, Backing, Head(queue[t]))
        /\ \A i \in DOMAIN Tail(queue[t]) : ListOpen(Spent, Backing, Tail(queue[t])[i])
    BY <1>0, <2>1, Dequeued DEF ListsOpen
  <2>. QED
    BY <1>0, <1>1, <2>2, <2>3 DEF ListsOpen
<1>4. ASSUME NEW t \in Tabs, Reopen(t) PROVE ListsOpen'
  <2>1. /\ UNCHANGED <<stored, chain>> /\ queue'[t] = <<>> /\ \A u \in Tabs \ {t} : queue'[u] = queue[u] /\ mem'[u] = mem[u]
        /\ mem'[t] = (IF Mirrored THEN stored ELSE mem[t])
    BY <1>0, <1>4 DEF Reopen, StorageType
  <2>2. View(t)' = stored /\ \A u \in Tabs : seen'[u] = IF u = t THEN View(t)' ELSE seen[u]
    BY <1>0, <1>4, <2>1 DEF View, Reopen, Ends, Reloads, StorageType
  <2>. QED
    BY <1>0, <1>1, <2>1, <2>2 DEF ListsOpen
<1>5. ASSUME NEW t \in Tabs, Create(t) \/ MakeNext(t) PROVE ListsOpen'
  BY <1>0, <1>1, <1>5, NewOpen DEF Create, MakeNext, Ends
<1>6. ASSUME NEW t \in Tabs, NEW v \in Vault, Put(t, v, [View(t)[v] EXCEPT !.status = "spent"]), v \in Spent,
             UNCHANGED chain, UNCHANGED seen \/ Reloads(t)
      PROVE  ListsOpen'
  <2>1. /\ [View(t)[v] EXCEPT !.status = "spent"] \in Record
        /\ RecordOpen(Spent, Backing, v, [View(t)[v] EXCEPT !.status = "spent"])
    BY <1>0, <1>6, Edited, OpenEdits
  <2>. QED
    BY <1>0, <1>1, <1>6, <2>1, PutOpen
<1>7. ASSUME NEW t \in Tabs, NEW v \in Vault, Refresh(t, v) PROVE ListsOpen'
  <2>1. View(t)[v].signed # NoPlan /\ ~exists[v] /\ UNCHANGED <<seen, chain>>
    BY <1>7 DEF Refresh, Gone
  <2>2. v \in Spent
    BY <1>0, <2>1, GoneSpent DEF RecordOpen
  <2>. QED
    BY <1>6, <1>7, <2>1, <2>2 DEF Refresh
<1>8. ASSUME NEW t \in Tabs, NEW v \in Vault, BackUp(t, v) PROVE ListsOpen'
  <2>1. /\ [View(t)[v] EXCEPT !.backedUp = TRUE] \in Record
        /\ RecordOpen(Spent, Backing, v, [View(t)[v] EXCEPT !.backedUp = TRUE])
    BY <1>0, Edited, OpenEdits
  <2>2. Put(t, v, [View(t)[v] EXCEPT !.backedUp = TRUE]) /\ UNCHANGED chain /\ (UNCHANGED seen \/ Reloads(t))
    BY <1>8 DEF BackUp
  <2>. QED
    BY <1>0, <1>1, <2>1, <2>2, PutOpen DEF TypeInv
<1>9. ASSUME NEW t \in Tabs, NEW file \in files, Import(t, file) PROVE ListsOpen'
  <2>1. file \in File /\ file.vault \in Vault /\ file.status = "active"
        /\ (file.signed # NoPlan => file.signed.amount \in Backing[file.vault])
    BY DEF TypeInv, File, MadeInv, FilesMade, OpenInv, FilesOpen
  <2>2. /\ Merged(View(t)[file.vault], file) \in Record
        /\ RecordOpen(Spent, Backing, file.vault, Merged(View(t)[file.vault], file))
    BY <1>0, <2>1, MergedType, OpenEdits
  <2>3. Put(t, file.vault, Merged(View(t)[file.vault], file)) /\ UNCHANGED chain /\ Reloads(t)
    BY <1>9 DEF Import, Ends
  <2>. QED
    BY <1>0, <1>1, <2>1, <2>2, <2>3, PutOpen
<1>10. ASSUME NEW t \in Tabs, WriteRecord(t) PROVE ListsOpen'
  <2>1. at[t] = "write" /\ WriteSigned(t) /\ UNCHANGED <<seen, chain>>
    BY <1>10 DEF WriteRecord, Goes, Moves
  <2>2. job[t].record \in Record /\ PlanOf(t) \in Plan /\ job[t].vault \in Vault
    BY <1>0, <2>1, PutType DEF TypeInv, TaskType, Job
  <2>3. RecordOpen(Spent, Backing, job[t].vault, job[t].record) /\ PlanOf(t).amount \in Backing[job[t].vault]
    BY <1>0, <2>1 DEF TaskOpen, Withdrawing, Place, PlanOf
  <2>4. /\ [job[t].record EXCEPT !.signed = PlanOf(t)] \in Record
        /\ RecordOpen(Spent, Backing, job[t].vault, [job[t].record EXCEPT !.signed = PlanOf(t)])
    BY <2>2, <2>3, Edited, OpenEdits
  <2>. QED
    BY <1>0, <1>1, <2>1, <2>2, <2>4, PutOpen DEF WriteSigned
<1>11. ASSUME NEW t \in Tabs, Mark(t) PROVE ListsOpen'
  <2>1. at[t] = "mark" /\ Reloads(t) /\ UNCHANGED chain /\ job[t].vault \in Vault /\ job[t].vault \in Spent
    BY <1>0, <1>11 DEF Mark, Ends, TaskOpen
  <2>2. CASE UNCHANGED storage
    BY <1>2, <2>1, <2>2
  <2>3. CASE Put(t, job[t].vault, [View(t)[job[t].vault] EXCEPT !.status = "spent"])
    BY <1>6, <2>1, <2>3
  <2>. QED
    BY <1>11, <2>2, <2>3 DEF Mark
<1>12. ASSUME NEW t \in Tabs, \/ PlanFirst(t) \/ PlanAgain(t) \/ ReadRecord(t) \/ Look(t)
                              \/ Confirmed(t) \/ Recheck(t) \/ SendFails(t) \/ Throw(t) \/ Reload(t) \/ DepositEnds(t)
                              \/ \E v \in Vault, amount \in Amounts : Press(t, v, amount)
       PROVE  ListsOpen'
  <2>1. UNCHANGED <<storage, chain>> /\ (UNCHANGED seen \/ Reloads(t))
    BY <1>12 DEF PlanFirst, PlanAgain, ReadRecord, Look, Confirmed, Recheck, SendFails, Throw, Reload,
       DepositEnds, Press, Goes, Ends
  <2>. QED
    BY <1>2, <2>1
<1>13. ASSUME UNCHANGED <<storage, seen>> PROVE ListsOpen'
  <2>1. \A L : ListOpen(Spent, Backing, L) => ListOpen(Spent', Backing', L)
    BY Grows, ListOpenMore
  <2>. QED
    BY <1>0, <1>13, <2>1 DEF ListsOpen
<1>14. ASSUME \/ UNCHANGED vars
              \/ \E t \in Tabs : Prepare(t) \/ Send(t) \/ \E v \in Vault : SendDeposit(t, v)
              \/ \E v \in Vault : LandDeposit(v) \/ ExpireDeposit(v) \/ Receive(v)
              \/ \E d \in net : Land(d) \/ Expire(d)
       PROVE  UNCHANGED <<storage, seen>>
  BY <1>14 DEF vars, Prepare, Send, SendDeposit, LandDeposit, ExpireDeposit, Receive, Land, Expire
<1>. QED
  BY <1>3, <1>4, <1>5, <1>7, <1>8, <1>9, <1>10, <1>11, <1>12, <1>13, <1>14 DEF Next, Proceeds

\* A withdrawal knows what its vault can pay, until the vault was spent.
LEMMA TaskOpenMore ==
    ASSUME NEW S, NEW B, NEW S2, NEW B2, S \subseteq S2, \A v \in Vault : B[v] \subseteq B2[v],
           NEW place \in Place, NEW j \in Job, Fits(place, j), TaskOpen(S, B, place, j)
    PROVE  TaskOpen(S2, B2, place, j)
<1>1. place \in Withdrawing => j.vault \in Vault
  BY DEF Fits, Withdrawing
<1>2. {"open", "make", "record", "write", "mark"} \subseteq Withdrawing
  BY DEF Withdrawing, Place
<1>. QED
  BY <1>1, <1>2 DEF TaskOpen, RecordOpen

\* A task marks a vault spent after its spend only.
LEMMA TasksOpenStep ==
    ASSUME TypeInv, OpenInv, [Next]_vars
    PROVE  TasksOpen'
<1>. USE DEF storage, ui
<1>0. /\ at \in [Tabs -> Place] /\ job \in [Tabs -> Job]
      /\ \A t \in Tabs : TaskOpen(Spent, Backing, at[t], job[t]) /\ Fits(at[t], job[t]) /\ job[t] \in Job
      /\ \A t \in Tabs : at[t] # "idle" => job[t].vault \in Vault
      /\ \A t \in Tabs, v \in Vault : RecordOpen(Spent, Backing, v, View(t)[v]) /\ RecordOpen(Spent, Backing, v, seen[t][v])
  BY DEF TypeInv, TaskType, OpenInv, TasksOpen, ListsOpen, ListOpen, View, Fits
<1>1. ASSUME UNCHANGED chain PROVE UNCHANGED <<Spent, Backing>>
  BY <1>1 DEF chain, Spent, Backing, Covers, IsSpent
<1>2. \A t \in Tabs : TaskOpen(Spent', Backing', at[t], job[t])
  BY <1>0, Grows, TaskOpenMore
<1>3. ASSUME UNCHANGED <<at, job>> PROVE TasksOpen'
  BY <1>2, <1>3 DEF TasksOpen
<1>4. ASSUME NEW t \in Tabs, NEW place, NEW j, TaskOpen(Spent', Backing', place, j),
             at' = [at EXCEPT ![t] = place], job' = [job EXCEPT ![t] = j]
      PROVE  TasksOpen'
  BY <1>0, <1>2, <1>4 DEF TasksOpen
<1>5. ASSUME NEW t \in Tabs, NEW place \in {"idle", "deposit"}, at' = [at EXCEPT ![t] = place],
             \E j : job' = [job EXCEPT ![t] = j]
      PROVE  TasksOpen'
  <2>1. \A j : TaskOpen(Spent', Backing', place, j)
    BY DEF TaskOpen, Withdrawing, Place
  <2>. QED
    BY <1>4, <1>5, <2>1
<1>6. ASSUME NEW t \in Tabs, NEW from, NEW to, Moves(t, from, to), UNCHANGED job, TaskOpen(Spent', Backing', to, job[t])
      PROVE  TasksOpen'
  <2>1. at' = [at EXCEPT ![t] = to] /\ job' = [job EXCEPT ![t] = job[t]]
    BY <1>0, <1>6 DEF Moves
  <2>. QED
    BY <1>4, <1>6, <2>1
<1>7. ASSUME NEW t \in Tabs, \/ Create(t) \/ Reopen(t) \/ DepositEnds(t) \/ Mark(t) \/ Throw(t)
                             \/ (\E file \in files : Import(t, file))
                             \/ \E v \in Vault : SendDeposit(t, v)
      PROVE  TasksOpen'
  <2>1. Ends(t) \/ \E v \in Vault : SendDeposit(t, v)
    BY <1>7 DEF Create, Reopen, DepositEnds, Mark, Throw, Import
  <2>2. \/ at' = [at EXCEPT ![t] = "idle"] /\ job' = [job EXCEPT ![t] = NoJob]
        \/ /\ at' = [at EXCEPT ![t] = "deposit"]
           /\ \E v \in Vault : job' = [job EXCEPT ![t] = [job[t] EXCEPT !.vault = v]]
    BY <2>1 DEF Ends, SendDeposit, Moves
  <2>. QED
    BY <1>5, <2>2
<1>8. ASSUME NEW t \in Tabs, NEW v \in Vault, NEW amount \in Amounts, Press(t, v, amount) PROVE TasksOpen'
  <2>1. PICK r \in {View(t)[v], seen[t][v]} : at' = [at EXCEPT ![t] = "open"]
          /\ job' = [job EXCEPT ![t] = [vault |-> v, amount |-> amount, next |-> 0, record |-> r]]
    BY <1>8 DEF Press, Goes, Moves
  <2>. DEFINE j == [vault |-> v, amount |-> amount, next |-> 0, record |-> r]
  <2>2. RecordOpen(Spent, Backing, j.vault, j.record)
    BY <1>0, <2>1
  <2>3. TaskOpen(Spent, Backing, "open", j) /\ UNCHANGED chain
    BY <1>8, <2>2 DEF TaskOpen, Press, Goes, Withdrawing, Place
  <2>. HIDE DEF j
  <2>4. TaskOpen(Spent', Backing', "open", j)
    BY <1>1, <2>3
  <2>. QED
    BY <1>4, <2>1, <2>4 DEF j
<1>9. ASSUME NEW t \in Tabs, PlanFirst(t) PROVE TasksOpen'
  <2>1. at[t] = "open" /\ Moves(t, "open", "make") /\ UNCHANGED <<job, chain>> /\ Covers(job[t].vault, job[t].amount)
    BY <1>9 DEF PlanFirst, Goes, Moves
  <2>2. job[t].amount \in Backing[job[t].vault]
    BY <1>0, <2>1 DEF Fits, Withdrawing, Place, Backing
  <2>3. TaskOpen(Spent, Backing, "make", job[t])
    BY <1>0, <2>1, <2>2 DEF TaskOpen
  <2>. QED
    BY <1>1, <1>6, <2>1, <2>3
<1>10. ASSUME NEW t \in Tabs, NEW n \in Vault, at[t] \in {"open", "make"}, at' = [at EXCEPT ![t] = "record"],
              job' = [job EXCEPT ![t].next = n], UNCHANGED chain, job[t].amount \in Backing[job[t].vault]
       PROVE  TasksOpen'
  <2>1. job' = [job EXCEPT ![t] = [job[t] EXCEPT !.next = n]]
    BY <1>10
  <2>2. RecordOpen(Spent, Backing, job[t].vault, job[t].record)
    BY <1>0, <1>10 DEF TaskOpen
  <2>. DEFINE j == [job[t] EXCEPT !.next = n]
  <2>3. TaskOpen(Spent, Backing, "record", j)
    BY <1>0, <1>10, <2>2, JobEdited DEF TaskOpen
  <2>. HIDE DEF j
  <2>4. TaskOpen(Spent', Backing', "record", j)
    BY <1>1, <1>10, <2>3
  <2>5. job' = [job EXCEPT ![t] = j]
    BY <2>1 DEF j
  <2>. QED
    BY <1>4, <1>10, <2>4, <2>5
<1>11. ASSUME NEW t \in Tabs, PlanAgain(t) PROVE TasksOpen'
  <2>1. /\ at[t] = "open" /\ at' = [at EXCEPT ![t] = "record"] /\ UNCHANGED chain
        /\ job' = [job EXCEPT ![t].next = job[t].record.signed.next]
        /\ job[t].record.signed # NoPlan /\ job[t].record.signed.amount = job[t].amount
    BY <1>11 DEF PlanAgain, Goes, Moves
  <2>2. RecordOpen(Spent, Backing, job[t].vault, job[t].record)
    BY <1>0, <2>1 DEF TaskOpen
  <2>3. job[t].record.signed \in Plan
    BY <1>0, <2>1 DEF Job, Record
  <2>4. job[t].record.signed.next \in Vault /\ job[t].amount \in Backing[job[t].vault]
    BY <2>1, <2>2, <2>3 DEF RecordOpen, Plan
  <2>. QED
    BY <1>10, <2>1, <2>4
<1>12. ASSUME NEW t \in Tabs, MakeNext(t) PROVE TasksOpen'
  <2>1. /\ at[t] = "make" /\ at' = [at EXCEPT ![t] = "record"] /\ UNCHANGED chain /\ fresh \in Vault
        /\ job' = [job EXCEPT ![t].next = fresh]
    BY <1>12 DEF MakeNext, Moves, SaveNew
  <2>2. job[t].amount \in Backing[job[t].vault]
    BY <1>0, <2>1 DEF TaskOpen, Withdrawing, Place
  <2>. QED
    BY <1>10, <2>1, <2>2
<1>13. ASSUME NEW t \in Tabs, ReadRecord(t) PROVE TasksOpen'
  <2>1. PICK r \in {View(t)[job[t].vault], job[t].record} :
          /\ at[t] = "record" /\ at' = [at EXCEPT ![t] = "write"] /\ UNCHANGED chain
          /\ job' = [job EXCEPT ![t] = [job[t] EXCEPT !.record = r]]
    BY <1>13 DEF ReadRecord, Goes, Moves
  <2>2. /\ RecordOpen(Spent, Backing, job[t].vault, r) /\ job[t].amount \in Backing[job[t].vault]
    BY <1>0, <2>1 DEF TaskOpen, Withdrawing, Place
  <2>3. /\ [job[t] EXCEPT !.record = r].vault = job[t].vault /\ [job[t] EXCEPT !.record = r].amount = job[t].amount
        /\ [job[t] EXCEPT !.record = r].record = r
    BY <1>0 DEF Job
  <2>4. TaskOpen(Spent, Backing, "write", [job[t] EXCEPT !.record = r])
    BY <2>2, <2>3 DEF TaskOpen
  <2>. QED
    BY <1>1, <1>4, <2>1, <2>4
<1>14. ASSUME NEW t \in Tabs, WriteRecord(t) \/ Prepare(t) \/ Send(t) \/ SendFails(t) PROVE TasksOpen'
  <2>1. PICK to \in {"look", "send", "sent", "recheck"} :
          at[t] \in Withdrawing \ {"open"} /\ UNCHANGED job /\ \E from : Moves(t, from, to)
    BY <1>14 DEF WriteRecord, Prepare, Send, SendFails, Goes, Moves, Withdrawing, Place
  <2>2. TaskOpen(Spent', Backing', to, job[t])
    BY <1>2, <2>1 DEF TaskOpen
  <2>. QED
    BY <1>6, <2>1, <2>2
<1>15. ASSUME NEW t \in Tabs, Look(t) \/ Confirmed(t) \/ Recheck(t) PROVE TasksOpen'
  <2>1. at[t] \in Withdrawing \ {"open"} /\ UNCHANGED <<job, chain>> /\ job[t].vault \in Vault
    BY <1>0, <1>15 DEF Look, Confirmed, Recheck, Goes, Moves, Withdrawing, Place
  <2>2. job[t].amount \in Backing[job[t].vault]
    BY <1>0, <2>1 DEF TaskOpen
  <2>3. CASE \E from : Moves(t, from, "mark") /\ (~exists[job[t].vault] \/ DigestOf(t) \in paid)
    <3>1. job[t].vault \in Spent
      <4>1. CASE ~exists[job[t].vault]
        BY <2>1, <2>2, <4>1, GoneSpent
      <4>2. CASE DigestOf(t) \in paid
        <5>1. DigestOf(t).vault = job[t].vault
          BY DEF DigestOf
        <5>. QED
          BY <2>1, <4>2, <5>1 DEF Spent, IsSpent
      <4>. QED
        BY <2>3, <4>1, <4>2
    <3>2. TaskOpen(Spent, Backing, "mark", job[t])
      BY <2>2, <3>1 DEF TaskOpen
    <3>. QED
      BY <1>1, <1>6, <2>1, <2>3, <3>2
  <2>4. CASE \E from : Moves(t, from, "prepare")
    <3>1. TaskOpen(Spent, Backing, "prepare", job[t])
      BY <2>2 DEF TaskOpen
    <3>. QED
      BY <1>1, <1>6, <2>1, <2>4, <3>1
  <2>. QED
    BY <1>15, <2>3, <2>4 DEF Look, Confirmed, Recheck, Goes
<1>16. ASSUME \/ UNCHANGED vars
              \/ \E t \in Tabs : \/ Reload(t) \/ WriteThrough(t) \/ WriteFails(t)
                                 \/ \E v \in Vault : Refresh(t, v) \/ BackUp(t, v)
              \/ \E v \in Vault : LandDeposit(v) \/ ExpireDeposit(v) \/ Receive(v)
              \/ \E d \in net : Land(d) \/ Expire(d)
       PROVE  UNCHANGED <<at, job>>
  BY <1>16 DEF vars, Reload, WriteThrough, WriteFails, Refresh, BackUp, LandDeposit, ExpireDeposit, Receive, Land, Expire
<1>. QED
  BY <1>3, <1>7, <1>8, <1>9, <1>11, <1>12, <1>13, <1>14, <1>15, <1>16 DEF Next, Proceeds

\* A backup of a displayed record knows what that record knows.
LEMMA FilesOpenStep ==
    ASSUME TypeInv, OpenInv, [Next]_vars
    PROVE  FilesOpen'
<1>0. /\ FilesOpen /\ \A t \in Tabs, v \in Vault : RecordOpen(Spent, Backing, v, seen[t][v])
      /\ \A file \in files : file.vault \in Vault
      /\ \A v \in Vault : Backing[v] \subseteq Backing'[v]
  BY Grows DEF OpenInv, ListsOpen, ListOpen, TypeInv, File
<1>1. ASSUME NEW new \in File, new.signed # NoPlan => new.signed.amount \in Backing[new.vault], files' = files \union {new}
      PROVE  FilesOpen'
  <2>1. new.vault \in Vault
    BY DEF File
  <2>. QED
    BY <1>0, <1>1, <2>1 DEF FilesOpen
<1>2. ASSUME NEW t \in Tabs, Create(t) \/ MakeNext(t) PROVE FilesOpen'
  <2>1. files' = files \union {Backup(fresh, NewRecord)} /\ fresh \in Vault
    BY <1>2, NewDoes DEF Create, MakeNext, Downloads
  <2>2. Backup(fresh, NewRecord) \in File /\ Backup(fresh, NewRecord).signed = NoPlan
    BY <2>1, NewRecords DEF Backup, File
  <2>. QED
    BY <1>1, <2>1, <2>2
<1>3. ASSUME NEW t \in Tabs, NEW v \in Vault, BackUp(t, v) PROVE FilesOpen'
  <2>1. files' = files \union {Backup(v, seen[t][v])} /\ RecordOpen(Spent, Backing, v, seen[t][v])
    BY <1>0, <1>3 DEF BackUp
  <2>2. seen[t][v] \in Record /\ seen[t][v].status = "active"
    BY <1>3, PutType DEF BackUp
  <2>3. /\ Backup(v, seen[t][v]) \in File /\ Backup(v, seen[t][v]).vault = v
        /\ Backup(v, seen[t][v]).signed = seen[t][v].signed
    BY <2>2 DEF Backup, File, Record
  <2>. QED
    BY <1>1, <2>1, <2>3 DEF RecordOpen
<1>4. ASSUME NEW t \in Tabs, \/ PlanFirst(t) \/ PlanAgain(t) \/ ReadRecord(t) \/ WriteRecord(t) \/ Look(t) \/ Prepare(t)
                             \/ Send(t) \/ Confirmed(t) \/ Recheck(t) \/ Mark(t) \/ SendFails(t)
      PROVE  UNCHANGED files
  BY <1>4 DEF PlanFirst, PlanAgain, ReadRecord, WriteRecord, Look, Prepare, Send, Confirmed, Recheck, Mark, SendFails, Goes
<1>5. ASSUME NEW t \in Tabs, \/ Throw(t) \/ Reload(t) \/ Reopen(t) \/ WriteThrough(t) \/ WriteFails(t) \/ DepositEnds(t)
                             \/ \E file \in files : Import(t, file)
                             \/ \E v \in Vault : \/ Refresh(t, v) \/ SendDeposit(t, v)
                                                 \/ \E amount \in Amounts : Press(t, v, amount)
      PROVE  UNCHANGED files
  BY <1>5 DEF Throw, Reload, Reopen, WriteThrough, WriteFails, DepositEnds, Import, Refresh, SendDeposit, Press, Goes
<1>6. ASSUME \/ UNCHANGED vars
             \/ \E v \in Vault : LandDeposit(v) \/ ExpireDeposit(v) \/ Receive(v)
             \/ \E d \in net : Land(d) \/ Expire(d)
      PROVE  UNCHANGED files
  BY <1>6 DEF vars, LandDeposit, ExpireDeposit, Receive, Land, Expire
<1>7. UNCHANGED files => FilesOpen'
  BY <1>0 DEF FilesOpen
<1>. QED
  BY <1>2, <1>3, <1>4, <1>5, <1>6, <1>7 DEF Next, Proceeds

\* Nothing is signed or spent at the start.
LEMMA OpenInit == Init => OpenInv
<1>. SUFFICES ASSUME Init PROVE OpenInv
  OBVIOUS
<1>1. ListOpen(Spent, Backing, NoList)
  BY DEF ListOpen, RecordOpen, NoList, NoRecord
<1>2. ListsOpen
  BY <1>1 DEF Init, ListsOpen
<1>3. TasksOpen
  BY DEF Init, TasksOpen, TaskOpen, Withdrawing, Place
<1>4. FilesOpen
  BY DEF Init, FilesOpen
<1>. QED
  BY <1>2, <1>3, <1>4 DEF OpenInv

\* If no balance read fails, what is recorded as signed is there or was spent.
LEMMA StaysOpen ==
    ASSUME "refresh" \notin Faults
    PROVE  Spec => [](TypeInv /\ OpenInv)
<1>1. OpenInv /\ (TypeInv /\ MadeInv) /\ [Next]_vars => OpenInv'
  BY ListsOpenStep, TasksOpenStep, FilesOpenStep DEF OpenInv
<1>. QED
  BY <1>1, OpenInit, OnlyMade, PTL DEF Spec

\* If no balance read fails, a vault recorded as spent has been spent on chain,
\* with any number of tabs or windows (App.tsx:58).
THEOREM SpentWhenMarked ==
    ASSUME "refresh" \notin Faults
    PROVE  Spec => []MarkedSpentIsSpent
<1>1. OpenInv => MarkedSpentIsSpent
  BY DEF OpenInv, ListsOpen, ListOpen, RecordOpen, Spent, MarkedSpentIsSpent
<1>. QED
  BY <1>1, StaysOpen, PTL

\* If moreover there is one tab or window, a spend that was sent and did not
\* land can be sent again (flow.ts:37-44).
THEOREM SpendsCanBeRetried ==
    ASSUME OneTab, "refresh" \notin Faults
    PROVE  Spec => []CanRetry
<1>1. TypeInv /\ MadeInv /\ KeepInv /\ OpenInv => CanRetry
  <2>. SUFFICES ASSUME TypeInv, MadeInv, KeepInv, OpenInv, NEW d \in sent, ~IsSpent(d.vault)
                PROVE  /\ stored[d.vault].status = "active" /\ stored[d.vault].signed = d.plan
                       /\ Known(stored[d.plan.next]) /\ stored[d.plan.next].backedUp
                       /\ held[d.vault] >= d.plan.amount
    BY DEF CanRetry
  <2>1. d.vault \in Vault /\ d.plan \in Plan /\ NoPlan \notin Plan
    BY WebAssumption DEF TypeInv, ChainType, Digest, NoPlan, Plan
  <2>2. stored[d.vault].signed = d.plan /\ Known(stored[d.plan.next]) /\ stored[d.plan.next].backedUp
    BY DEF KeepInv, SentKept
  <2>3. RecordOpen(Spent, Backing, d.vault, stored[d.vault])
    BY <2>1 DEF OpenInv, ListsOpen, ListOpen
  <2>4. d.plan.amount \in Backing[d.vault] /\ d.plan.amount \in Nat /\ held[d.vault] \in Nat
    BY <2>1, <2>2, <2>3, WebAssumption DEF RecordOpen, Plan, TypeInv, ChainType
  <2>5. held[d.vault] >= d.plan.amount
    BY <2>1, <2>4 DEF Backing, Covers
  <2>6. stored[d.vault] \in Record /\ stored[d.vault].status # "spent"
    BY <2>1, <2>3 DEF RecordOpen, Spent, TypeInv, StorageType, List
  <2>7. Known(stored[d.vault])
    BY <2>1, <2>2 DEF MadeInv, ListsMade, ListMade
  <2>. QED
    BY <2>2, <2>5, <2>6, <2>7 DEF Known, Record
<1>. QED
  BY <1>1, Recorded, StaysOpen, PTL
=============================================================================
