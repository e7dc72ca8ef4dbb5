-------------------------------- MODULE WebVault --------------------------------
(***************************************************************************)
(* The web app (app/src) and the browser extension (apps/extension/src),   *)
(* which shares its store and its withdrawal: a list of vault records that *)
(* several tabs or windows read and write without a lock, an RPC server    *)
(* that may fail at any call, and a chain on which a vault is spent at     *)
(* most once (module QcVault).                                             *)
(*                                                                         *)
(* The web app keeps the list in localStorage.  The extension keeps it in  *)
(* chrome.storage.local behind a mirror per window (Mirrored), read once   *)
(* when the window opens and written through asynchronously.               *)
(*                                                                         *)
(* A record's public digest, its pending spend and the digest sealed with  *)
(* the secrets are always written together: one field, signed.  A button's *)
(* task reads and writes the list between awaits; every await is a step    *)
(* boundary.                                                               *)
(***************************************************************************)
EXTENDS Naturals, Sequences

CONSTANTS
    Tabs,      \* tabs of the app, or windows of the extension
    Mirrored,  \* TRUE for the extension
    MaxKey,    \* bound: vaults 1..MaxKey are created in this order
    Amounts,   \* amounts a user asks to withdraw
    Cap,       \* bound: nobody deposits into a vault above this balance
    Backlog,   \* bound: buttons wait until at most so many writes are under way
    Buttons,   \* "again" (download a backup again), "import", "deposit": what the
               \* user presses besides Create and Withdraw
    Faults     \* "refresh": a balance read of a refresh fails; "poll": asking for a
               \* deposit's outcome fails; "write": a write-through fails

ASSUME WebAssumption ==
    /\ Mirrored \in BOOLEAN
    /\ MaxKey \in Nat /\ Cap \in Nat /\ Backlog \in Nat
    /\ Buttons \subseteq {"again", "import", "deposit"} \ (IF Mirrored THEN {"deposit"} ELSE {})
    /\ Amounts \subseteq Nat \ {0}
    /\ Faults \subseteq {"refresh", "poll", "write"}

Vault == 1..MaxKey
Plan == [amount: Amounts, next: Vault]
NoPlan == [amount |-> 0, next |-> 0]
Digest == [vault: Vault, plan: Plan]
Record == [status: {"none", "active", "spent"}, backedUp: BOOLEAN, signed: Plan \union {NoPlan}]
NoRecord == [status |-> "none", backedUp |-> FALSE, signed |-> NoPlan]
NewRecord == [status |-> "active", backedUp |-> FALSE, signed |-> NoPlan]
NoList == [v \in Vault |-> NoRecord]
NoJob == [vault |-> 0, amount |-> 0, next |-> 0, record |-> NoRecord]

VARIABLES
    stored,    \* the list in localStorage or chrome.storage.local
    mem,       \* each window's mirror of it (extension)
    queue,     \* each window's writes that have not reached the storage
    failed,    \* windows one of whose writes failed
    seen,      \* the list each tab displays
    at,        \* where each tab's task is
    job,       \* what that task holds: the vault, the amount, the next vault, a record
    files,     \* downloaded backups
    held,      \* tokens in each vault's token account
    exists,    \* whether that account exists
    net,       \* accepted spends that have neither landed nor expired
    deposits,  \* vaults to which a deposit of the app is on its way
    paid,      \* spends that landed
    sent,      \* history: digests whose signature left the browser
    fresh      \* the next vault

storage == <<stored, mem, queue, failed>>
ui == <<seen, at, job>>
chain == <<held, exists, net, deposits, paid>>
vars == <<storage, ui, files, chain, sent, fresh>>

Init ==
    /\ stored = NoList
    /\ mem = [t \in Tabs |-> NoList]
    /\ queue = [t \in Tabs |-> <<>>]
    /\ failed = [t \in Tabs |-> FALSE]
    /\ seen = [t \in Tabs |-> NoList]
    /\ at = [t \in Tabs |-> "idle"]
    /\ job = [t \in Tabs |-> NoJob]
    /\ files = {}
    /\ held = [v \in Vault |-> 0]
    /\ exists = [v \in Vault |-> FALSE]
    /\ net = {}
    /\ deposits = {}
    /\ paid = {}
    /\ sent = {}
    /\ fresh = 1

Known(record) == record.status # "none"
IsSpent(v) == \E d \in paid : d.vault = v

-----------------------------------------------------------------------------
(***************************************************************************)
(* Storage.                                                                *)
(***************************************************************************)

\* listVaults and getVault.
View(t) == IF Mirrored THEN mem[t] ELSE stored

\* putVault, one or more times without an await in between.
Save(t, lists) ==
    /\ failed' = failed
    /\ IF Mirrored
       THEN /\ mem' = [mem EXCEPT ![t] = lists[Len(lists)]]
            /\ queue' = [queue EXCEPT ![t] = @ \o lists]
            /\ UNCHANGED stored
       ELSE /\ stored' = lists[Len(lists)]
            /\ UNCHANGED <<mem, queue>>

Put(t, v, record) == Save(t, <<[View(t) EXCEPT ![v] = record]>>)

\* flush() resolves.
NothingQueued(t) == Mirrored => queue[t] = <<>>
NoFailure(t) == ~failed[t]
Flushed(t) == Mirrored => queue[t] = <<>> /\ ~failed[t]

Calm(t) == Len(queue[t]) <= Backlog

WriteThrough(t) ==
    /\ queue[t] # <<>>
    /\ queue' = [queue EXCEPT ![t] = Tail(@)]
    /\ stored' = Head(queue[t])
    /\ UNCHANGED <<mem, failed, ui, files, chain, sent, fresh>>

WriteFails(t) ==
    /\ "write" \in Faults
    /\ queue[t] # <<>>
    /\ queue' = [queue EXCEPT ![t] = Tail(@)]
    /\ failed' = [failed EXCEPT ![t] = TRUE]
    /\ UNCHANGED <<stored, mem, ui, files, chain, sent, fresh>>

-----------------------------------------------------------------------------
(***************************************************************************)
(* Tabs.                                                                   *)
(***************************************************************************)

Moves(t, from, to) ==
    /\ at[t] = from
    /\ at' = [at EXCEPT ![t] = to]

\* reload(), which displays the list; a task ends with it.
Reloads(t) == seen' = [seen EXCEPT ![t] = View(t)']
Ends(t) ==
    /\ at' = [at EXCEPT ![t] = "idle"]
    /\ job' = [job EXCEPT ![t] = NoJob]
    /\ Reloads(t)

\* Closing a tab or a popup and opening it again: its task and its unwritten
\* list are gone.
Reopen(t) ==
    /\ mem' = [mem EXCEPT ![t] = IF Mirrored THEN stored ELSE @]
    /\ queue' = [queue EXCEPT ![t] = <<>>]
    /\ failed' = [failed EXCEPT ![t] = FALSE]
    /\ UNCHANGED stored
    /\ Ends(t)
    /\ UNCHANGED <<files, chain, sent, fresh>>

Reload(t) ==
    /\ UNCHANGED <<storage, at, job, files, chain, sent, fresh>>
    /\ Reloads(t)

\* refresh() found no token account of a signed vault, or could not ask.
Always(v) == TRUE
Gone(v) == ~exists[v] \/ "refresh" \in Faults
Refresh(t, v) ==
    LET record == View(t)[v]
    IN  /\ record.status = "active" /\ record.signed # NoPlan
        /\ Gone(v)
        /\ Put(t, v, [record EXCEPT !.status = "spent"])
        /\ UNCHANGED <<ui, files, chain, sent, fresh>>

\* A backup holds the record as it was when it was handed to downloadBackup.
Backup(v, record) == [vault |-> v, status |-> record.status, signed |-> record.signed]

NoDownload(n) == files
Downloads(n) == files \union {Backup(n, NewRecord)}

\* createVault and downloadBackup of a vault n.
SaveNew(t, n) ==
    LET created == [View(t) EXCEPT ![n] = NewRecord]
    IN  /\ fresh = n /\ n \in Vault
        /\ fresh' = n + 1
        /\ files' = Downloads(n)
        /\ Save(t, <<created, [created EXCEPT ![n].backedUp = TRUE]>>)

Create(t) ==
    /\ at[t] = "idle" /\ Calm(t)
    /\ SaveNew(t, fresh)
    /\ Ends(t)
    /\ UNCHANGED <<chain, sent>>

\* "Download backup again" works during a task and takes the record displayed.
BackUp(t, v) ==
    /\ "again" \in Buttons /\ Calm(t)
    /\ seen[t][v].status = "active" /\ Known(View(t)[v])
    /\ files' = files \union {Backup(v, seen[t][v])}
    /\ Put(t, v, [View(t)[v] EXCEPT !.backedUp = TRUE])
    /\ IF Mirrored THEN UNCHANGED seen ELSE Reloads(t)
    /\ UNCHANGED <<at, job, chain, sent, fresh>>

\* importRecord, which refuses a backup signed otherwise than the stored record.
Replaced(current, file) ==
    [status |-> file.status, backedUp |-> TRUE, signed |-> file.signed]
Merged(current, file) ==
    [status |-> IF current.status = "spent" THEN "spent" ELSE file.status,
     backedUp |-> TRUE,
     signed |-> IF current.signed # NoPlan THEN current.signed ELSE file.signed]
Import(t, file) ==
    LET current == View(t)[file.vault]
    IN  /\ "import" \in Buttons
        /\ at[t] = "idle" /\ Calm(t)
        /\ NoPlan \in {current.signed, file.signed} \/ current.signed = file.signed
        /\ Put(t, file.vault, Merged(current, file))
        /\ Ends(t)
        /\ UNCHANGED <<files, chain, sent, fresh>>

-----------------------------------------------------------------------------
(***************************************************************************)
(* Deposits, with the app's button (web app) or by anybody who was shown   *)
(* the address.                                                            *)
(***************************************************************************)

CanDeposit(record) == record.status = "active" /\ record.backedUp /\ record.signed = NoPlan

SendDeposit(t, v) ==
    /\ "deposit" \in Buttons
    /\ CanDeposit(seen[t][v]) /\ held[v] < Cap
    /\ Moves(t, "idle", "deposit")
    /\ job' = [job EXCEPT ![t].vault = v]
    /\ deposits' = deposits \union {v}
    /\ UNCHANGED <<storage, seen, files, held, exists, net, paid, sent, fresh>>

DepositEnds(t) ==
    /\ at[t] = "deposit"
    /\ job[t].vault \notin deposits \/ "poll" \in Faults
    /\ UNCHANGED <<storage, files, chain, sent, fresh>>
    /\ Ends(t)

LandDeposit(v) ==
    /\ v \in deposits /\ held[v] < Cap
    /\ deposits' = deposits \ {v}
    /\ held' = [held EXCEPT ![v] = @ + 1]
    /\ exists' = [exists EXCEPT ![v] = TRUE]
    /\ UNCHANGED <<storage, ui, files, net, paid, sent, fresh>>

ExpireDeposit(v) ==
    /\ v \in deposits
    /\ deposits' = deposits \ {v}
    /\ UNCHANGED <<storage, ui, files, held, exists, net, paid, sent, fresh>>

Receive(v) ==
    /\ \E t \in Tabs : seen[t][v].status = "active" /\ seen[t][v].backedUp
    /\ ~IsSpent(v) /\ held[v] < Cap
    /\ held' = [held EXCEPT ![v] = @ + 1]
    /\ exists' = [exists EXCEPT ![v] = TRUE]
    /\ UNCHANGED <<storage, ui, files, net, deposits, paid, sent, fresh>>

-----------------------------------------------------------------------------
(***************************************************************************)
(* Withdrawals: withdraw and recordSigned.                                 *)
(***************************************************************************)

PlanOf(t) == [amount |-> job[t].amount, next |-> job[t].next]
DigestOf(t) == [vault |-> job[t].vault, plan |-> PlanOf(t)]

Open(v, amount) == exists[v]
Covers(v, amount) == exists[v] /\ amount <= held[v]

\* A tab goes from one await of its withdrawal to the next.
Goes(t, from, to) == Moves(t, from, to) /\ UNCHANGED <<seen, files, chain, sent, fresh>>

\* withdraw reads the stored record again; the displayed one says only which
\* vault, how much, and stands in for a record that is gone.
Press(t, v, amount) ==
    LET displayed == seen[t][v]
        record == IF Known(View(t)[v]) THEN View(t)[v] ELSE displayed
    IN  /\ displayed.status = "active" /\ displayed.backedUp
        /\ displayed.signed \in {NoPlan} \union [amount: {amount}, next: Vault]
        /\ record.status # "spent"
        /\ Goes(t, "idle", "open") /\ Calm(t)
        /\ job' = [job EXCEPT ![t] = [vault |-> v, amount |-> amount, next |-> 0, record |-> record]]
        /\ UNCHANGED storage

\* The vault opens.  It has signed nothing: its balance must do ...
PlanFirst(t) ==
    /\ Goes(t, "open", "make")
    /\ job[t].record.signed = NoPlan
    /\ Covers(job[t].vault, job[t].amount)
    /\ UNCHANGED <<storage, job>>

\* ... or only the spend it has signed can be retried.
PlanAgain(t) ==
    LET plan == job[t].record.signed
    IN  /\ plan # NoPlan /\ plan.amount = job[t].amount
        /\ Known(View(t)[plan.next]) /\ View(t)[plan.next].backedUp
        /\ Goes(t, "open", "record")
        /\ job' = [job EXCEPT ![t].next = plan.next]
        /\ UNCHANGED storage

MakeNext(t) ==
    /\ Moves(t, "make", "record")
    /\ SaveNew(t, fresh)
    /\ job' = [job EXCEPT ![t].next = fresh]
    /\ UNCHANGED <<seen, chain, sent>>

\* recordSigned reads the stored record and checks it; then it seals for a
\* while; then it writes what it read, with the digest.
Prior(current, record) == IF current.signed # NoPlan THEN current.signed ELSE record.signed
FirstOnly(prior, plan) == prior = NoPlan
MaySign(prior, plan) == prior \in {NoPlan, plan}
ReadRecord(t) ==
    LET current == View(t)[job[t].vault]
    IN  /\ Goes(t, "record", "write")
        /\ job[t].record.signed = NoPlan => Flushed(t)   \* it has awaited the backup
        /\ ~(current.status = "spent" /\ current.signed = NoPlan)
        /\ MaySign(Prior(current, job[t].record), PlanOf(t))
        /\ job' = [job EXCEPT ![t].record = IF Known(current) THEN current ELSE @]
        /\ UNCHANGED storage

WriteNothing(t) == UNCHANGED storage
WriteSigned(t) == Put(t, job[t].vault, [job[t].record EXCEPT !.signed = PlanOf(t)])
WriteRecord(t) ==
    /\ Goes(t, "write", "look")
    /\ WriteSigned(t)
    /\ UNCHANGED job

Look(t) ==
    LET v == job[t].vault
    IN  /\ at[t] = "look"
        /\ exists[v] => Covers(v, job[t].amount)
        /\ Goes(t, "look", IF exists[v] THEN "prepare" ELSE "mark")
        /\ UNCHANGED <<storage, job>>

\* Creates the next vault's token account unless it exists.
Prepare(t) ==
    /\ Moves(t, "prepare", "send")
    /\ Flushed(t)
    /\ exists' = [exists EXCEPT ![job[t].next] = TRUE]
    /\ UNCHANGED <<storage, seen, job, files, held, net, deposits, paid, sent, fresh>>

\* What the chain accepts: QcVault spends a vault at most once.
Acceptable(d) ==
    /\ ~IsSpent(d.vault)
    /\ Covers(d.vault, d.plan.amount)
    /\ exists[d.plan.next]
Send(t) ==
    /\ Flushed(t)
    /\ Moves(t, "send", "sent")
    /\ sent' = sent \union {DigestOf(t)}
    /\ net' = net \union {d \in {DigestOf(t)} : Acceptable(d)}
    /\ UNCHANGED <<storage, seen, job, files, held, exists, deposits, paid, fresh>>

Confirmed(t) ==
    /\ DigestOf(t) \in paid
    /\ Goes(t, "sent", "mark")
    /\ UNCHANGED <<storage, job>>

\* Rejected, failed, expired, or its outcome could not be learned.
SendFails(t) ==
    /\ \/ Goes(t, "send", "recheck")
       \/ Goes(t, "sent", "recheck")
    /\ UNCHANGED <<storage, job>>

Recheck(t) ==
    /\ Goes(t, "recheck", "mark")
    /\ ~exists[job[t].vault]
    /\ UNCHANGED <<storage, job>>

\* markSpent; the sweep of the rent that follows changes nothing here.
Mark(t) ==
    LET v == job[t].vault
    IN  /\ at[t] = "mark"
        /\ IF Known(View(t)[v])
           THEN Put(t, v, [View(t)[v] EXCEPT !.status = "spent"])
           ELSE UNCHANGED storage
        /\ Ends(t)
        /\ UNCHANGED <<files, chain, sent, fresh>>

\* Any await but those of the send itself may end the withdrawal, because a
\* check above fails or because the call does.
Throw(t) ==
    /\ at[t] \in {"open", "make", "record", "write", "look", "prepare", "recheck"}
    /\ UNCHANGED <<storage, files, chain, sent, fresh>>
    /\ Ends(t)

Land(d) ==
    /\ d \in net /\ Acceptable(d)
    /\ net' = net \ {d}
    /\ paid' = paid \union {d}
    /\ exists' = [exists EXCEPT ![d.vault] = FALSE]
    /\ held' = [[held EXCEPT ![d.vault] = 0] EXCEPT ![d.plan.next] = @ + held[d.vault] - d.plan.amount]
    /\ UNCHANGED <<storage, ui, files, deposits, sent, fresh>>

Expire(d) ==
    /\ d \in net
    /\ net' = net \ {d}
    /\ UNCHANGED <<storage, ui, files, held, exists, deposits, paid, sent, fresh>>

-----------------------------------------------------------------------------
Proceeds(t) ==
    \/ PlanFirst(t) \/ PlanAgain(t) \/ MakeNext(t)
    \/ ReadRecord(t) \/ WriteRecord(t)
    \/ Look(t) \/ Prepare(t) \/ Send(t) \/ Confirmed(t) \/ Recheck(t)
    \/ Mark(t)

Next ==
    \/ \E t \in Tabs :
        \/ Proceeds(t) \/ SendFails(t) \/ Throw(t)
        \/ Create(t) \/ Reload(t) \/ Reopen(t)
        \/ WriteThrough(t) \/ WriteFails(t)
        \/ \E file \in files : Import(t, file)
        \/ \E v \in Vault :
            \/ Refresh(t, v) \/ BackUp(t, v) \/ SendDeposit(t, v)
            \/ \E amount \in Amounts : Press(t, v, amount)
        \/ DepositEnds(t)
    \/ \E v \in Vault : LandDeposit(v) \/ ExpireDeposit(v) \/ Receive(v)
    \/ \E d \in net : Land(d) \/ Expire(d)

Spec == Init /\ [][Next]_vars

(***************************************************************************)
(* Fairness: code that can run runs, an accepted spend lands, and the user *)
(* reopens a window that reports a failed write and presses the button     *)
(* that retries a signed withdrawal.  Calls may fail, spends expire and    *)
(* tabs be closed any number of times, but not for ever.                   *)
(***************************************************************************)
Pending(t) == DigestOf(t) \in paid \/ (DigestOf(t) \in net /\ Acceptable(DigestOf(t)))
MayProceed(t) == (queue[t] # <<>> /\ ~failed[t]) \/ ENABLED Proceeds(t)

Fault ==
    \/ \E t \in Tabs :
        \/ Throw(t) /\ MayProceed(t)
        \/ SendFails(t) /\ (at[t] = "send" \/ Pending(t))
        \/ Reopen(t) /\ ~failed[t] /\ MayProceed(t)
        \/ WriteFails(t)
    \/ \E d \in net : Expire(d) /\ Acceptable(d)

Retry(t, v) == seen[t][v].signed # NoPlan /\ \E amount \in Amounts : Press(t, v, amount)

Fairness ==
    /\ \A t \in Tabs :
        /\ WF_vars(Proceeds(t) \/ SendFails(t) \/ Throw(t))
        /\ WF_vars(WriteThrough(t) \/ WriteFails(t))
        /\ WF_vars(Reload(t)) /\ WF_vars(DepositEnds(t))
        /\ WF_vars(Reopen(t) /\ failed[t])
        /\ \A v \in Vault : SF_vars(Retry(t, v))
    /\ WF_vars(\E d \in net : Land(d))
    /\ <>[][~Fault]_vars

FairSpec == Spec /\ Fairness

-----------------------------------------------------------------------------
(***************************************************************************)
(* Properties.                                                             *)
(***************************************************************************)

\* Every variable has its type.
TypeOK ==
    /\ stored \in [Vault -> Record]
    /\ mem \in [Tabs -> [Vault -> Record]]
    /\ queue \in [Tabs -> Seq([Vault -> Record])]
    /\ failed \in [Tabs -> BOOLEAN]
    /\ seen \in [Tabs -> [Vault -> Record]]
    /\ at \in [Tabs -> {"idle", "deposit", "open", "make", "record", "write", "look",
                        "prepare", "send", "sent", "recheck", "mark"}]
    /\ job \in [Tabs -> [vault: Vault \union {0}, amount: Amounts \union {0},
                         next: Vault \union {0}, record: Record]]
    /\ files \subseteq [vault: Vault, status: {"active", "spent"}, signed: Plan \union {NoPlan}]
    /\ held \in [Vault -> Nat]
    /\ exists \in [Vault -> BOOLEAN]
    /\ sent \subseteq Digest /\ net \subseteq sent /\ paid \subseteq sent
    /\ deposits \subseteq Vault
    /\ fresh \in 1..MaxKey + 1

\* The signatures of a vault's key that leave the browser are all of one
\* message, whatever the tabs, the storage and the network do
\* (store.ts:66-67, audit2.test.ts:14).
OneMessagePerKey == \A d, e \in sent : d.vault = e.vault => d = e

\* A spend that was sent and has not landed can be retried by a tab opened at
\* this very point: the stored record is active and holds that spend, the next
\* vault's record is stored and backed up, and the balance suffices
\* (flow.ts:37-44 and 57, which refuse a retry otherwise).
CanRetry ==
    \A d \in sent : ~IsSpent(d.vault) =>
        /\ stored[d.vault].status = "active"
        /\ stored[d.vault].signed = d.plan
        /\ Known(stored[d.plan.next]) /\ stored[d.plan.next].backedUp
        /\ held[d.vault] >= d.plan.amount

\* A vault whose stored record says spent has been spent on chain
\* (App.tsx:58).  Nothing makes such a record active again.
MarkedSpentIsSpent == \A v \in Vault : stored[v].status = "spent" => IsSpent(v)

\* No tokens reach a spent vault, where they would be locked: neither a deposit
\* of the app (App.tsx:109 and 183, "never send funds here") nor the remainder
\* of a spend, which "goes to a NEW vault" (flow.ts:27).
NothingIntoSpent == \A v \in Vault : IsSpent(v) => held[v] = 0

\* What the storage says a vault has signed is never forgotten nor replaced
\* (store.ts:102, "without ever un-spending or forgetting a signed digest").
SignedNeverForgotten ==
    [][\A v \in Vault : stored[v].signed # NoPlan => stored'[v].signed = stored[v].signed]_stored

\* Every vault that holds tokens can be restored from a downloaded backup (store.ts:18, App.tsx:148).
BackedUpBeforeFunded == \A v \in Vault : held[v] > 0 => \E file \in files : file.vault = v

\* A vault recorded as having signed a withdrawal is recorded as spent at last:
\* neither lost answers nor failed writes leave it in between (flow.ts:27-28,
\* "only that identical spend is retried").  The exception is a vault whose
\* account was opened again after its spend.
Finishes ==
    \A v \in Vault :
        stored[v].signed # NoPlan ~> stored[v].status = "spent" \/ (IsSpent(v) /\ exists[v])
=============================================================================
