------------------------------ MODULE NativeWallet ------------------------------
(***************************************************************************)
(* The mobile/desktop wallet (apps/native/lib): one key record on disk,    *)
(* pages that each work on a copy of it in memory, an RPC server that may  *)
(* fail before or after doing what it was asked, and a chain on which a    *)
(* vault is spent at most once (module QcVault).                           *)
(*                                                                         *)
(* A page displays a Keys object, its `_keys`, and runs tasks on it that   *)
(* interleave at every await: "load", which reads the record and settles   *)
(* an unfinished send, and "send".  A task keeps its object when the page  *)
(* turns to another one, and leaving the page stops no task.  A slot is a  *)
(* Keys object with the tasks that hold it.  A payment stands for          *)
(* recipient and amount; it carries the vault that receives the remainder  *)
(* and, as history, the request of the user it serves.                     *)
(***************************************************************************)
EXTENDS Naturals

CONSTANTS
    Pages,       \* slots: Keys objects in memory at once; with one, a page has a single object
    MaxKey,      \* bound: vault keys 1..MaxKey are generated in this order
    Amounts,     \* amounts a user asks to send
    Cap,         \* bound: nobody deposits into a vault above this balance
    MaxAsks,     \* bound: requests of the user
    MaxCrashes,  \* bound: crashes of the app
    Failures,    \* storage calls that may fail: "save" (in a send), "open" (in a load)
    Patience     \* the user acts at once ("none"), when the page has read the record
                 \* ("read"), or when it has settled what it read ("settled")

ASSUME BoundsAssumption ==
    /\ MaxKey \in Nat /\ Cap \in Nat /\ MaxAsks \in Nat /\ MaxCrashes \in Nat
    /\ Amounts \subseteq Nat \ {0}
    /\ Failures \subseteq {"save", "open"}
    /\ Patience \in {"none", "read", "settled"}

Key == 1..MaxKey
Payment == [amount: Amounts, next: Key, request: 1..MaxAsks]
Digest == [key: Key, pay: Payment]
NoPayment == [amount |-> 0, next |-> 0, request |-> 0]
NoDigest == [key |-> 0, pay |-> NoPayment]
NoKeys == [vault |-> 0, pending |-> NoPayment]
NoRecord == [vault |-> 0, signed |-> NoDigest, pending |-> NoPayment]
Unsigned == [x \in Key |-> NoDigest]

VARIABLES
    disk,     \* the record in the OS keystore: [vault, signed, pending]
    shown,    \* the vault address in the preferences, where deposits are sent
    screen,   \* per slot: of the page on screen ("here"), its `_keys` ("shown"), or of none
    keys,     \* each slot's Keys object: [vault, pending]
    signed,   \* each slot's VaultKeys objects: what each key has signed
    at,       \* where each slot's load and send are
    job,      \* what each slot's send captured: [key, pay]
    bal,      \* tokens in each vault
    spent,    \* vaults whose PDA the program owns
    net,      \* accepted spends that have neither landed nor expired
    sent,     \* history: digests whose signature left the device
    paid,     \* history: digests that landed
    fresh,    \* the next key
    asked,    \* requests so far
    crashes

phone == <<disk, shown>>
app == <<screen, keys, signed, at, job>>
chain == <<bal, spent, net, paid>>
counters == <<fresh, asked, crashes>>
vars == <<phone, app, chain, sent, counters>>

Idle == [load |-> "idle", send |-> "idle"]

Init ==
    /\ disk = NoRecord
    /\ shown = 0
    /\ screen = [p \in Pages |-> "gone"]
    /\ keys = [p \in Pages |-> NoKeys]
    /\ signed = [p \in Pages |-> Unsigned]
    /\ at = [p \in Pages |-> Idle]
    /\ job = [p \in Pages |-> NoDigest]
    /\ bal = [k \in Key |-> 0]
    /\ spent = {}
    /\ net = {}
    /\ sent = {}
    /\ paid = {}
    /\ fresh = 1
    /\ asked = 0
    /\ crashes = 0

Moves(p, task, from, to) ==
    /\ at[p][task] = from
    /\ at' = [at EXCEPT ![p][task] = to]

Goes(p, task, from, to) ==
    /\ Moves(p, task, from, to)
    /\ UNCHANGED <<phone, screen, keys, signed, job, chain, sent, counters>>

Here(p) == screen[p] # "gone"
Waits ==
    \A p \in Pages : Here(p) =>
        /\ Patience = "settled" => at[p].load = "idle"
        /\ Patience = "read" => at[p].load \notin {"created", "read"}

\* A slot whose object no task holds and no page shows.
Free(p) ==
    /\ at[p].load = "idle"
    /\ \/ screen[p] = "gone" /\ at[p].send \in {"idle", "stuck"}
       \/ screen[p] = "here" /\ at[p].send = "idle"

\* setState of `_keys`: the page shows the object of the slot in S, or none.
Displays(S) ==
    [q \in Pages |-> IF q \in S THEN "shown" ELSE IF Here(q) THEN "here" ELSE "gone"]

\* store.save of Keys object k, whose VaultKeys objects have signed sg.
Write(k, sg) == disk' = [vault |-> k.vault, signed |-> sg[k.vault], pending |-> k.pending]
SaveFails == "save" \in Failures /\ UNCHANGED disk

-----------------------------------------------------------------------------
(***************************************************************************)
(* The page and its load.                                                  *)
(***************************************************************************)

\* A tab switch builds a new page; tasks of an old one may still run elsewhere.
OpenPage(p) ==
    /\ \A q \in Pages : ~Here(q)
    /\ Free(p)
    /\ screen' = [screen EXCEPT ![p] = "here"]
    /\ keys' = [keys EXCEPT ![p] = NoKeys]
    /\ signed' = [signed EXCEPT ![p] = Unsigned]
    /\ job' = [job EXCEPT ![p] = NoDigest]
    /\ at' = [at EXCEPT ![p] = [load |-> "read", send |-> "idle"]]
    /\ UNCHANGED <<phone, chain, sent, counters>>

\* The confirmation dialog is modal; everything else lets the user leave.  An
\* impatient one leaves whenever he likes.
LeavePage ==
    /\ \E p \in Pages : Here(p)
    /\ \A p \in Pages : Here(p) =>
           at[p].send # "confirm" /\ (Patience = "settled" => at[p].load = "idle")
    /\ screen' = [p \in Pages |-> "gone"]
    /\ UNCHANGED <<phone, keys, signed, at, job, chain, sent, counters>>

\* Read the record and drop a pending send whose key has not signed.  What was
\* read becomes a new object, which the page shows: in slot p, or in slot q when
\* a send still holds the object of p.
AlwaysDropped(record) == [record EXCEPT !.pending = NoPayment]
Dropped(record) ==
    IF record.signed = NoDigest THEN [record EXCEPT !.pending = NoPayment] ELSE record
LoadedStage(record) == IF record.pending = NoPayment THEN "idle" ELSE "ask"
LoadHere(p, record) ==
    \E q \in Pages :
        /\ IF at[p].send = "idle" THEN q = p ELSE Free(q)
        /\ keys' = [keys EXCEPT ![q] = [vault |-> record.vault, pending |-> record.pending]]
        /\ signed' = [signed EXCEPT ![q] = [x \in Key |->
               IF x = record.vault THEN record.signed ELSE NoDigest]]
        /\ screen' = Displays(IF record.vault = 0 THEN {} ELSE {q})
        /\ at' = [at EXCEPT ![p].load = "idle", ![q] = [load |-> LoadedStage(record), send |-> "idle"]]
Load(p) ==
    /\ at[p].load = "read"
    /\ disk' = Dropped(disk)
    /\ IF Here(p)
       THEN LoadHere(p, Dropped(disk))
       ELSE Moves(p, "load", "read", "idle") /\ UNCHANGED <<screen, keys, signed>>
    /\ UNCHANGED <<shown, job, chain, sent, counters>>

LoadFails(p) == "open" \in Failures /\ Goes(p, "load", "read", "idle")

TryLoad(p) ==
    /\ at[p].load = "read"
    /\ Load(p) \/ LoadFails(p)

\* Without keys in memory the page offers to create some; saving them replaces
\* the record whatever it holds.  Their address is then shown, they are the
\* page's keys, and the record is read again while the page takes a press.
OffersCreation == (\E p \in Pages : Here(p)) /\ (\A p \in Pages : screen[p] # "shown") /\ Waits
Create(p) ==
    /\ OffersCreation
    /\ Free(p)
    /\ Here(p) \/ \A q \in Pages : Here(q) => ~Free(q)
    /\ fresh <= MaxKey
    /\ fresh' = fresh + 1
    /\ keys' = [keys EXCEPT ![p] = [vault |-> fresh, pending |-> NoPayment]]
    /\ signed' = [signed EXCEPT ![p] = Unsigned]
    /\ Write(keys'[p], Unsigned)
    /\ screen' = [screen EXCEPT ![p] = "here"]
    /\ at' = [at EXCEPT ![p] = [load |-> "created", send |-> "idle"]]
    /\ UNCHANGED <<shown, job, chain, sent, asked, crashes>>

\* _adopt: the object's address is shown for deposits, the object on the page.
Adopts(p) ==
    /\ shown' = keys[p].vault
    /\ screen' = IF Here(p) THEN Displays({p}) ELSE screen

ShowCreated(p) ==
    /\ Moves(p, "load", "created", "read")
    /\ Adopts(p)
    /\ UNCHANGED <<disk, keys, signed, job, chain, sent, counters>>

-----------------------------------------------------------------------------
(***************************************************************************)
(* settleIfLanded, in both tasks: ask who owns the old vault's PDA, and    *)
(* switch to the next vault if the answer is the program.                  *)
(***************************************************************************)
IsSpent(k) == k \in spent
NextHoldsTokens(p) == keys[p].pending # NoPayment /\ bal[keys[p].pending.next] > 0
LandedOnChain(p) == keys[p].pending # NoPayment /\ IsSpent(keys[p].vault)

AskYes(p, task) == LandedOnChain(p) /\ Goes(p, task, "ask", "answer")

\* Not landed, nothing pending, or no answer from the server.
AskNo(p, task) == Goes(p, task, "ask", "idle")

\* _finish: the next vault becomes the vault.
FinishedStillPending(p) == [keys[p] EXCEPT !.vault = keys[p].pending.next]
Finished(p) == [vault |-> keys[p].pending.next, pending |-> NoPayment]

\* An error in _finish, here outside any handler, ends the task; a send's page
\* keeps its progress bar and takes no further press.
Settle(p, task) ==
    LET aborted == IF task = "send" THEN "stuck" ELSE "idle"
    IN  /\ IF keys[p].pending = NoPayment
           THEN Moves(p, task, "answer", aborted) /\ UNCHANGED <<keys, disk>>
           ELSE /\ keys' = [keys EXCEPT ![p] = Finished(p)]
                /\ \/ Moves(p, task, "answer", "adopt") /\ Write(Finished(p), signed[p])
                   \/ Moves(p, task, "answer", aborted) /\ SaveFails
        /\ UNCHANGED <<shown, screen, signed, job, chain, sent, counters>>

Adopt(p, task) ==
    /\ Moves(p, task, "adopt", "idle")
    /\ Adopts(p)
    /\ UNCHANGED <<disk, keys, signed, job, chain, sent, counters>>

-----------------------------------------------------------------------------
(***************************************************************************)
(* The send.                                                               *)
(***************************************************************************)

\* The button captures what to pay before the dialog: the pending payment if
\* there is one, else a new request; it keeps the object shown.  A page that is
\* sending takes no other press.
Press(p, n) ==
    LET new == keys[p].pending = NoPayment
    IN  /\ screen[p] = "shown" /\ Waits
        /\ \A q \in Pages : Here(q) => at[q].send = "idle"
        /\ new => asked < MaxAsks
        /\ asked' = IF new THEN asked + 1 ELSE asked
        /\ job' = [job EXCEPT ![p] = [key |-> 0, pay |->
               IF new THEN [amount |-> n, next |-> 0, request |-> asked'] ELSE keys[p].pending]]
        /\ Moves(p, "send", "idle", "confirm")
        /\ UNCHANGED <<phone, screen, keys, signed, chain, sent, fresh, crashes>>

Cancel(p) == Goes(p, "send", "confirm", "idle")

\* After the dialog the pending payment is read again, and made if it is gone.
Confirm(p) ==
    LET new == keys[p].pending = NoPayment
        pay == IF new THEN [job[p].pay EXCEPT !.next = fresh] ELSE keys[p].pending
        vault == keys[p].vault
    IN  /\ new => fresh <= MaxKey
        /\ fresh' = IF new THEN fresh + 1 ELSE fresh
        /\ keys' = [keys EXCEPT ![p].pending = pay]
        /\ IF pay.amount # job[p].pay.amount
           THEN Moves(p, "send", "confirm", "ask") /\ UNCHANGED job
           ELSE /\ job' = [job EXCEPT ![p] = [key |-> vault, pay |-> pay]]
                /\ Moves(p, "send", "confirm",
                         IF signed[p][vault] = NoDigest THEN "check" ELSE "persist")
        /\ UNCHANGED <<phone, screen, signed, chain, sent, asked, crashes>>

\* checkSpend and the RPC node's simulation: would the program accept it now?
AcceptableUnspent(d) == ~IsSpent(d.key)
Acceptable(d) == ~IsSpent(d.key) /\ d.pay.amount <= bal[d.key]

Check(p) == Goes(p, "send", "check", "persist") /\ Acceptable(job[p])

\* planSpend refuses a second digest of a key this page knows to have signed.
MaySign(p) == signed[p][job[p].key] \in {NoDigest, job[p]}

Persist(p) ==
    /\ Moves(p, "send", "persist", "prep")
    /\ MaySign(p)
    /\ Write(keys[p], signed[p])
    /\ UNCHANGED <<shown, screen, keys, signed, job, chain, sent, counters>>

\* The transaction that creates the token accounts is sent and confirmed.
Prepare(p) == Goes(p, "send", "prep", "sign")

\* The digest is recorded in memory and on disk before the signature leaves.
NotWritten(p, sg) == UNCHANGED disk
WriteSigned(p, sg) == Write(keys[p], sg)
Sign(p) ==
    LET sg == [signed EXCEPT ![p][job[p].key] = job[p]]
    IN  /\ at[p].send = "sign"
        /\ MaySign(p)
        /\ signed' = sg
        /\ \/ Moves(p, "send", "sign", "cast") /\ WriteSigned(p, sg[p])
           \/ Moves(p, "send", "sign", "failed") /\ SaveFails
        /\ UNCHANGED <<shown, screen, keys, job, chain, sent, counters>>

\* The spend leaves the device; the server accepts it or not, and answers or not.
Broadcast(p, reply) ==
    /\ Moves(p, "send", "cast", reply)
    /\ sent' = sent \union {job[p]}
    /\ \/ Acceptable(job[p]) /\ net' = net \union {job[p]} /\ reply \in {"wait", "failed"}
       \/ reply = "failed" /\ UNCHANGED net
    /\ UNCHANGED <<phone, screen, keys, signed, job, bal, spent, paid, counters>>

Confirmed(p) == job[p] \in paid /\ Goes(p, "send", "wait", "finish")

Finish(p) ==
    /\ IF keys[p].pending = NoPayment
       THEN Moves(p, "send", "finish", "failed") /\ UNCHANGED <<keys, disk>>
       ELSE /\ keys' = [keys EXCEPT ![p] = Finished(p)]
            /\ \/ Moves(p, "send", "finish", "adopt") /\ Write(Finished(p), signed[p])
               \/ Moves(p, "send", "finish", "failed") /\ SaveFails
    /\ UNCHANGED <<shown, screen, signed, job, chain, sent, counters>>

\* Any call of a send may throw: an RPC error, a timeout, a refusal, a save.
Throw(p) ==
    \E stage \in {"check", "persist", "prep", "sign", "wait"} : Goes(p, "send", stage, "failed")

\* The handler in KeyStore.send: a send whose key has not signed is dropped.
AlwaysDrops(p) == keys[p].vault # 0
CanDrop(p) == signed[p][keys[p].vault] = NoDigest
Handle(p) ==
    /\ Moves(p, "send", "failed", "ask")
    /\ IF CanDrop(p)
       THEN /\ keys' = [keys EXCEPT ![p].pending = NoPayment]
            /\ Write(keys'[p], signed[p]) \/ SaveFails
       ELSE UNCHANGED <<keys, disk>>
    /\ UNCHANGED <<shown, screen, signed, job, chain, sent, counters>>

-----------------------------------------------------------------------------
(***************************************************************************)
(* The chain, the depositors and the crash.                                *)
(***************************************************************************)
Land(d) ==
    /\ d \in net
    /\ Acceptable(d)
    /\ bal' = [bal EXCEPT ![d.key] = 0, ![d.pay.next] = @ + (bal[d.key] - d.pay.amount)]
    /\ spent' = spent \union {d.key}
    /\ net' = net \ {d}
    /\ paid' = paid \union {d}
    /\ UNCHANGED <<phone, app, sent, counters>>

Expire(d) ==
    /\ d \in net
    /\ net' = net \ {d}
    /\ UNCHANGED <<phone, app, bal, spent, paid, sent, counters>>

Deposit ==
    /\ shown # 0
    /\ bal[shown] < Cap
    /\ bal' = [bal EXCEPT ![shown] = @ + 1]
    /\ UNCHANGED <<phone, app, spent, net, paid, sent, counters>>

Crash ==
    /\ crashes < MaxCrashes
    /\ crashes' = crashes + 1
    /\ screen' = [p \in Pages |-> "gone"]
    /\ keys' = [p \in Pages |-> NoKeys]
    /\ signed' = [p \in Pages |-> Unsigned]
    /\ at' = [p \in Pages |-> Idle]
    /\ job' = [p \in Pages |-> NoDigest]
    /\ UNCHANGED <<phone, chain, sent, fresh, asked>>

Tasks == {"load", "send"}

\* What a page does besides opening and the dialog (module Passcode adds to these).
Proceeds(p) ==
    \/ TryLoad(p) \/ Create(p) \/ ShowCreated(p)
    \/ \E task \in Tasks : AskYes(p, task) \/ AskNo(p, task) \/ Settle(p, task) \/ Adopt(p, task)
    \/ \E n \in Amounts : Press(p, n)
    \/ Check(p) \/ Persist(p) \/ Prepare(p) \/ Sign(p)
    \/ \E reply \in {"wait", "failed"} : Broadcast(p, reply)
    \/ Confirmed(p) \/ Finish(p) \/ Throw(p) \/ Handle(p)
World == Deposit \/ \E d \in net : Land(d) \/ Expire(d)

Next ==
    \/ \E p \in Pages : OpenPage(p) \/ Cancel(p) \/ Confirm(p) \/ Proceeds(p)
    \/ LeavePage
    \/ World
    \/ Crash

Spec == Init /\ [][Next]_vars

(***************************************************************************)
(* Fairness: code that can run runs, and the user reopens the page, leaves *)
(* a stuck one or one whose last save failed, and resumes an unfinished    *)
(* transfer.  Calls may fail, and the user may cancel or walk away, any    *)
(* number of times, but not for ever.                                      *)
(***************************************************************************)
MustLeave ==
    \E p \in Pages : Here(p) /\
        \/ at[p].send = "stuck"
        \/ at[p] = Idle /\ keys[p].vault # disk.vault

FailedSave(p) ==
    \/ Sign(p) /\ at'[p].send = "failed"
    \/ Handle(p) /\ CanDrop(p) /\ disk' # [vault |-> keys'[p].vault, signed |-> NoDigest, pending |-> NoPayment]
    \/ keys[p].pending # NoPayment /\ (Finish(p) \/ \E task \in Tasks : Settle(p, task)) /\ UNCHANGED disk

CanProceed(p) ==
    \/ at[p].send = "prep"
    \/ at[p].send = "check" /\ Acceptable(job[p])
    \/ at[p].send \in {"persist", "sign"} /\ MaySign(p)
    \/ at[p].send = "wait" /\ (job[p] \in paid \/ (job[p] \in net /\ Acceptable(job[p])))

Fault ==
    \/ \E p \in Pages :
        \/ Throw(p) /\ CanProceed(p)
        \/ Broadcast(p, "failed") /\ Acceptable(job[p])
        \/ \E task \in Tasks : AskNo(p, task) /\ LandedOnChain(p)
        \/ Cancel(p)
        \/ FailedSave(p)
    \/ LeavePage /\ ~MustLeave
    \/ \E d \in net : Expire(d) /\ Acceptable(d)

Runs(p) ==
    \/ ShowCreated(p) \/ Load(p)
    \/ Check(p) \/ Persist(p) \/ Prepare(p) \/ Sign(p) \/ Confirmed(p) \/ Finish(p)
    \/ Handle(p) \/ (Throw(p) /\ ~CanProceed(p))
    \/ \E reply \in {"wait", "failed"} : Broadcast(p, reply)
    \/ \E task \in Tasks : AskYes(p, task) \/ AskNo(p, task) \/ Settle(p, task) \/ Adopt(p, task)
Resume(p) == keys[p].pending # NoPayment /\ \E n \in Amounts : Press(p, n)

Fairness ==
    /\ \A p \in Pages :
        /\ WF_vars(Runs(p))
        /\ WF_vars(OpenPage(p)) /\ WF_vars(Resume(p)) /\ WF_vars(Confirm(p))
    /\ WF_vars(LeavePage /\ MustLeave)
    /\ WF_vars(\E d \in net : Land(d))
    /\ <>[][~Fault]_vars

FairSpec == Spec /\ Fairness

-----------------------------------------------------------------------------
(***************************************************************************)
(* Properties.                                                             *)
(***************************************************************************)

\* Every variable has its type.
TypeOK ==
    /\ disk \in [vault: Key \union {0}, signed: Digest \union {NoDigest},
                 pending: Payment \union {NoPayment}]
    /\ shown \in Key \union {0}
    /\ screen \in [Pages -> {"gone", "here", "shown"}]
    /\ keys \in [Pages -> [vault: Key \union {0}, pending: Payment \union {NoPayment}]]
    /\ signed \in [Pages -> [Key -> Digest \union {NoDigest}]]
    /\ at \in [Pages -> [load: {"idle", "created", "read", "ask", "answer", "adopt"},
                         send: {"idle", "confirm", "check", "persist", "prep", "sign", "cast",
                                "wait", "finish", "failed", "ask", "answer", "adopt", "stuck"}]]
    /\ bal \in [Key -> Nat]
    /\ spent \subseteq Key
    /\ net \subseteq sent /\ paid \subseteq sent /\ sent \subseteq Digest
    /\ fresh \in 1..MaxKey + 1 /\ asked \in 0..MaxAsks /\ crashes \in 0..MaxCrashes

\* A key's signatures that leave the device are all of one message
\* (send_guard_test.dart:1-2, "A vault's one-time key may sign exactly one
\* transfer"), across failures, restarts and pages.
OneMessagePerKey == \A d, e \in sent : d.key = e.key => d = e

\* A broadcast spend that has not landed can be finished after a crash at this
\* very point: the record on disk names its vault, its digest and its payment
\* (keystore.dart:87-90 and send.dart:64-67).
CanFinish ==
    \A d \in sent : ~IsSpent(d.key) =>
        disk = [vault |-> d.key, signed |-> d, pending |-> d.pay]

\* The keys of every unspent vault that holds tokens are in the record on disk.
KeysKept ==
    \A k \in Key : bal[k] > 0 /\ ~IsSpent(k) => k \in {disk.vault, disk.pending.next}

\* A request of the user is paid at most once, however often the send is
\* resumed (main.dart:791-815, keystore.dart:89-90 "it can only be finished").
PaidOnce == \A d, e \in paid : d.pay.request = e.pay.request => d = e

\* The page says that the device has no keys (l10n.dart:59), and offers to
\* create some, only if it has none.
CreatesOnlyFirstKeys == OffersCreation => disk = NoRecord

\* With nothing unfinished and nothing running, the address shown for deposits
\* is not a spent vault's, "whose address locks anything sent to it"
\* (keystore.dart:113-116).
ShowsLiveVault ==
    disk.pending = NoPayment /\ (\A p \in Pages : at[p].send \in {"idle", "stuck"} /\ at[p].load = "idle")
        => ~IsSpent(shown)

\* A send recorded as signed is finished at last (keystore.dart:89-90).
Finishes == disk.signed # NoDigest ~> disk.signed = NoDigest
=============================================================================
