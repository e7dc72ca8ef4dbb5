------------------------------- MODULE Extension -------------------------------
(***************************************************************************)
(* What the browser extension adds to the web app's vaults (WebVault): its *)
(* own owner key, the choice of an RPC server, and sending with polling,   *)
(* here for the sweep of leftover rent (apps/extension/src/App.tsx,        *)
(* owner.ts, rpc.ts, storage.ts; app/src/lib/flow.ts sweepRent).           *)
(* Each window works on its own mirror of chrome.storage.local.            *)
(***************************************************************************)
EXTENDS Naturals, Sequences, FiniteSets

CONSTANTS
    Windows,
    Customs,    \* RPC servers a user may type, none of them "none"
    Fee,        \* of one signature: 5000 lamports in the code
    Life,       \* blocks for which a blockhash is valid: 150 on the chain
    Closed,     \* lamports the closed account of a spent vault gives back
    MaxKeys,    \* bound: owner keys ever generated
    MaxSaves,   \* bound: RPC servers saved
    MaxSends,   \* bound: transactions sent
    MaxHeight   \* bound: the last block

ASSUME ExtensionAssumption ==
    /\ Fee \in Nat /\ Closed \in Nat
    /\ MaxKeys \in Nat /\ MaxSaves \in Nat /\ MaxSends \in Nat
    /\ Life \in Nat \ {0} /\ MaxHeight \in Nat

NoKey == 0
NoServer == "none"  \* the empty string in the code
Keys == 1..MaxKeys
Values == [owner: Keys \union {NoKey}, rpc: Customs \union {NoServer}]
Sends == 1..MaxSends

VARIABLES
    stored,   \* chrome.storage.local: the sealed owner key and the RPC server
    files,    \* owner keys with a downloaded backup
    keys,     \* owner keys generated so far
    open,     \* windows
    mem,      \* each window's mirror
    queue,    \* its writes under way, in order
    failed,   \* one of them failed
    owner,    \* the owner key on its page
    custom, probes, rpc,   \* the server asked for, pickRpc calls under way, the one in use
    told,     \* an error is on the page
    at, job,  \* the operation under way
    saves,
    tx,       \* transactions sent
    sent,
    height,
    rent      \* lamports of the rent collector

browser == <<stored, files, keys, open, mem, queue, failed, owner>>
choice == <<custom, probes, rpc, saves>>
chain == <<tx, sent, height, rent>>
vars == <<browser, choice, told, at, job, chain>>

NoJob == [key |-> NoKey, amount |-> 0, last |-> 0, tx |-> 0]
NoTx == [state |-> "none", amount |-> 0, last |-> 0, expired |-> FALSE]
Candidates(v) == IF v = NoServer THEN <<"direct", "proxy">> ELSE <<v>>

Init ==
    /\ stored = [owner |-> NoKey, rpc |-> NoServer]
    /\ files = {} /\ keys = 0 /\ open = {}
    /\ mem = [w \in Windows |-> stored]
    /\ queue = [w \in Windows |-> <<>>]
    /\ failed = [w \in Windows |-> FALSE]
    /\ owner = [w \in Windows |-> NoKey]
    /\ custom = [w \in Windows |-> NoServer]
    /\ probes = [w \in Windows |-> {}]
    /\ rpc = [w \in Windows |-> NoServer]
    /\ saves = 0
    /\ told = [w \in Windows |-> FALSE]
    /\ at = [w \in Windows |-> "closed"]
    /\ job = [w \in Windows |-> NoJob]
    /\ tx = [n \in Sends |-> NoTx]
    /\ sent = 0 /\ height = 0 /\ rent = 0

----------------------------------------------------------------------------
(* Windows and their storage.                                               *)

\* main.tsx: read the storage once, then render; the first pickRpc starts.
Open(w) ==
    /\ w \notin open
    /\ open' = open \union {w}
    /\ mem' = [mem EXCEPT ![w] = stored]
    /\ owner' = [owner EXCEPT ![w] = stored.owner]
    /\ custom' = [custom EXCEPT ![w] = stored.rpc]
    /\ probes' = [probes EXCEPT ![w] = {[n |-> 0, left |-> Candidates(stored.rpc)]}]
    /\ at' = [at EXCEPT ![w] = "idle"]
    /\ UNCHANGED <<stored, files, keys, queue, failed, rpc, saves, told, job, chain>>

\* A popup closes with a click beside it, whatever it was doing.
Close(w) ==
    /\ w \in open
    /\ open' = open \ {w}
    /\ mem' = [mem EXCEPT ![w] = [owner |-> NoKey, rpc |-> NoServer]]
    /\ owner' = [owner EXCEPT ![w] = NoKey]
    /\ custom' = [custom EXCEPT ![w] = NoServer]
    /\ queue' = [queue EXCEPT ![w] = <<>>]
    /\ failed' = [failed EXCEPT ![w] = FALSE]
    /\ probes' = [probes EXCEPT ![w] = {}]
    /\ rpc' = [rpc EXCEPT ![w] = NoServer]
    /\ told' = [told EXCEPT ![w] = FALSE]
    /\ at' = [at EXCEPT ![w] = "closed"]
    /\ job' = [job EXCEPT ![w] = NoJob]
    /\ UNCHANGED <<stored, files, keys, saves, chain>>

\* syncStorage.setItem: the mirror at once, the storage behind a chain of promises.
SetItem(w, k, v) ==
    /\ mem' = [mem EXCEPT ![w][k] = v]
    /\ queue' = [queue EXCEPT ![w] = Append(@, [key |-> k, value |-> v])]

WriteThrough(w) ==
    /\ queue[w] # <<>>
    /\ stored' = [stored EXCEPT ![Head(queue[w]).key] = Head(queue[w]).value]
    /\ queue' = [queue EXCEPT ![w] = Tail(@)]
    /\ UNCHANGED <<files, keys, open, mem, failed, owner, choice, told, at, job, chain>>

WriteFails(w) ==
    /\ queue[w] # <<>>
    /\ queue' = [queue EXCEPT ![w] = Tail(@)]
    /\ failed' = [failed EXCEPT ![w] = TRUE]
    /\ UNCHANGED <<stored, files, keys, open, mem, owner, choice, told, at, job, chain>>

\* flush() resolves when the queue is written, and throws for ever after one failure.
OnlyWaits(w) == TRUE  \* for a mutant run
Flushed(w) == ~failed[w]

----------------------------------------------------------------------------
(* run(): one operation at a time; the buttons of a busy page are disabled. *)

Starts(w, place) ==
    /\ at[w] = "idle"
    /\ at' = [at EXCEPT ![w] = place]
    /\ told' = [told EXCEPT ![w] = FALSE]
Goto(w, place) == at' = [at EXCEPT ![w] = place]
Throws(w) ==
    /\ Goto(w, "idle")
    /\ told' = [told EXCEPT ![w] = TRUE]
    /\ job' = [job EXCEPT ![w] = NoJob]

\* The end of run(): await flush().
Ends(w) ==
    /\ at[w] = "ends" /\ queue[w] = <<>>
    /\ Goto(w, "idle")
    /\ told' = [told EXCEPT ![w] = ~Flushed(w)]
    /\ job' = [job EXCEPT ![w] = NoJob]
    /\ UNCHANGED <<browser, choice, chain>>

\* A password too short, another owner's backup, no RPC server: run() shows the error.
Refuse(w) == at[w] = "idle" /\ Throws(w) /\ UNCHANGED <<browser, choice, chain>>

\* createOwner(): checks the mirror, then takes half a second to seal the key.
PressCreate(w) ==
    /\ owner[w] = NoKey /\ mem[w].owner = NoKey
    /\ Starts(w, "sealing")
    /\ UNCHANGED <<browser, choice, job, chain>>

\* Stored, on the page and downloaded without an await in between.
CreateOwner(w) ==
    /\ at[w] = "sealing" /\ keys < MaxKeys
    /\ keys' = keys + 1
    /\ SetItem(w, "owner", keys')
    /\ owner' = [owner EXCEPT ![w] = keys']
    /\ files' = files \union {keys'}
    /\ Goto(w, "ends")
    /\ UNCHANGED <<stored, open, failed, choice, told, job, chain>>

\* importOwner(): compares with the mirror, then takes as long to unseal.
AnyKey(cur, k) == TRUE  \* for a mutant run
SameKey(cur, k) == cur \in {NoKey, k}
PressImport(w, k) ==
    /\ k \in files /\ SameKey(mem[w].owner, k)
    /\ Starts(w, "unsealing")
    /\ job' = [job EXCEPT ![w].key = k]
    /\ UNCHANGED <<browser, choice, chain>>

ImportOwner(w) ==
    /\ at[w] = "unsealing"
    /\ SetItem(w, "owner", job[w].key)
    /\ owner' = [owner EXCEPT ![w] = job[w].key]
    /\ Goto(w, "ends")
    /\ UNCHANGED <<stored, files, keys, open, failed, choice, told, job, chain>>

----------------------------------------------------------------------------
(* The RPC server.                                                          *)

\* saveRpc(): the effect on customRpc starts another pickRpc and leaves the earlier ones running.
SaveRpc(w, v) ==
    /\ w \in open /\ v # custom[w] /\ saves < MaxSaves
    /\ saves' = saves + 1
    /\ SetItem(w, "rpc", v)
    /\ custom' = [custom EXCEPT ![w] = v]
    /\ probes' = [probes EXCEPT ![w] = @ \union {[n |-> saves', left |-> Candidates(v)]}]
    /\ UNCHANGED <<stored, files, keys, open, failed, owner, rpc, told, at, job, chain>>

\* pickRpc(): the first candidate that answers; the page takes whatever resolves.
Answers(w, p) ==
    /\ p.left # <<>>
    /\ rpc' = [rpc EXCEPT ![w] = Head(p.left)]
    /\ probes' = [probes EXCEPT ![w] = @ \ {p}]
    /\ UNCHANGED <<browser, custom, saves, told, at, job, chain>>

Refuses(w, p) ==
    /\ p.left # <<>>
    /\ LET next == Tail(p.left)
       IN  IF next = <<>>
           THEN /\ rpc' = [rpc EXCEPT ![w] = NoServer]
                /\ probes' = [probes EXCEPT ![w] = @ \ {p}]
           ELSE /\ probes' = [probes EXCEPT ![w] = (@ \ {p}) \union {[p EXCEPT !.left = next]}]
                /\ UNCHANGED rpc
    /\ UNCHANGED <<browser, custom, saves, told, at, job, chain>>

----------------------------------------------------------------------------
(* The sweep of leftover rent, and sending with polling.                    *)

\* onSweep() on the card of a spent vault, with the connection of this rendering.
PressSweep(w) ==
    /\ owner[w] # NoKey /\ rpc[w] # NoServer
    /\ Starts(w, "balance")
    /\ UNCHANGED <<browser, choice, job, chain>>

\* sweepIx(): all but the fee, or nothing.
ReadBalance(w) ==
    /\ at[w] = "balance"
    /\ IF rent > Fee
       THEN Goto(w, "save") /\ job' = [job EXCEPT ![w].amount = rent - Fee]
       ELSE Goto(w, "ends") /\ UNCHANGED job
    /\ UNCHANGED <<browser, choice, told, chain>>

\* sendAs(): await flush(); sweepRent() catches what it throws.
SaveFirst(w) ==
    /\ at[w] = "save" /\ queue[w] = <<>>
    /\ Goto(w, IF Flushed(w) THEN "blockhash" ELSE "ends")
    /\ UNCHANGED <<browser, choice, told, job, chain>>

GetBlockhash(w) ==
    /\ at[w] = "blockhash" /\ height + Life < MaxHeight
    /\ job' = [job EXCEPT ![w].last = height + Life]
    /\ Goto(w, "submit")
    /\ UNCHANGED <<browser, choice, told, chain>>

Submit(w) ==
    /\ at[w] = "submit" /\ sent < MaxSends
    /\ sent' = sent + 1
    /\ tx' = [tx EXCEPT ![sent'] = [NoTx EXCEPT !.state = "pending", !.amount = job[w].amount, !.last = job[w].last]]
    /\ job' = [job EXCEPT ![w].tx = sent']
    /\ Goto(w, "status")
    /\ UNCHANGED <<browser, choice, told, height, rent>>

\* confirmByPolling(): the status, then the block height, over and over.
Status(w) ==
    /\ at[w] = "status"
    /\ Goto(w, IF tx[job[w].tx].state \in {"confirmed", "failed"} THEN "ends" ELSE "height")
    /\ UNCHANGED <<browser, choice, told, job, chain>>

NeverOver(last) == FALSE  \* for a mutant run
AtTheLast(last) == height >= last  \* for a mutant run
Over(last) == height > last
Height(w) ==
    /\ at[w] = "height"
    /\ IF Over(job[w].last)
       THEN Goto(w, "ends") /\ tx' = [tx EXCEPT ![job[w].tx].expired = TRUE]
       ELSE Goto(w, "status") /\ UNCHANGED tx
    /\ UNCHANGED <<browser, choice, told, job, sent, height, rent>>

\* A call fails, a file does not open, the sent transaction's answer is lost.  Only the balance
\* is read outside the try of sweepRent().
Fails(w) ==
    \/ /\ at[w] \in {"unsealing", "sealing", "balance"}
       /\ Throws(w)
       /\ UNCHANGED <<browser, choice, chain>>
    \/ /\ at[w] \in {"blockhash", "submit", "status", "height"}
       /\ Goto(w, "ends")
       /\ UNCHANGED <<browser, choice, told, job, chain>>

----------------------------------------------------------------------------
(* The chain.                                                               *)

\* The spend of a vault closes its token account.
RentArrives ==
    /\ rent = 0
    /\ rent' = Closed
    /\ UNCHANGED <<browser, choice, told, at, job, tx, sent, height>>

\* A transaction lands while its blockhash is valid and the collector pays the fee.
Land(n) ==
    /\ tx[n].state = "pending" /\ height <= tx[n].last /\ rent >= Fee
    /\ IF rent >= tx[n].amount + Fee
       THEN rent' = rent - tx[n].amount - Fee /\ tx' = [tx EXCEPT ![n].state = "confirmed"]
       ELSE rent' = rent - Fee /\ tx' = [tx EXCEPT ![n].state = "failed"]
    /\ UNCHANGED <<browser, choice, told, at, job, sent, height>>

Tick ==
    /\ height < MaxHeight
    /\ height' = height + 1
    /\ UNCHANGED <<browser, choice, told, at, job, tx, sent, rent>>

----------------------------------------------------------------------------

Sending(w) == SaveFirst(w) \/ GetBlockhash(w) \/ Submit(w) \/ Status(w) \/ Height(w) \/ Ends(w)

Next ==
    \/ \E w \in Windows :
        \/ Open(w) \/ Close(w) \/ Refuse(w) \/ WriteThrough(w) \/ WriteFails(w)
        \/ PressCreate(w) \/ CreateOwner(w) \/ ImportOwner(w) \/ PressSweep(w) \/ ReadBalance(w)
        \/ Sending(w) \/ Fails(w)
        \/ \E k \in Keys : PressImport(w, k)
        \/ \E v \in Customs \union {NoServer} : SaveRpc(w, v)
        \/ \E p \in probes[w] : Answers(w, p) \/ Refuses(w, p)
    \/ RentArrives \/ Tick
    \/ \E n \in Sends : Land(n)

Spec == Init /\ [][Next]_vars

\* The event loop goes on, storage answers, blocks are produced.
FairSpec ==
    /\ Spec
    /\ \A w \in Windows : WF_vars(Sending(w)) /\ WF_vars(WriteThrough(w) \/ WriteFails(w))
    /\ WF_vars(Tick)

----------------------------------------------------------------------------
(* Properties.                                                              *)

\* Every variable has its type.
TypeOK ==
    /\ stored \in Values /\ files \subseteq Keys /\ keys \in 0..MaxKeys /\ open \subseteq Windows
    /\ mem \in [Windows -> Values]
    /\ failed \in [Windows -> BOOLEAN] /\ told \in [Windows -> BOOLEAN]
    /\ owner \in [Windows -> Keys \union {NoKey}]
    /\ custom \in [Windows -> Customs \union {NoServer}]
    /\ rpc \in [Windows -> Customs \union {NoServer, "direct", "proxy"}]
    /\ at \in [Windows -> {"closed", "idle", "sealing", "unsealing", "balance", "save", "blockhash",
                           "submit", "status", "height", "ends"}]
    /\ saves \in 0..MaxSaves /\ sent \in 0..MaxSends /\ height \in 0..MaxHeight /\ rent \in Nat

\* The owner key of the stored vaults is never replaced by another one (owner.ts:27, 49).
OwnerNeverReplaced == [][stored.owner # NoKey => stored'.owner = stored.owner]_vars

\* A page that shows no error after an operation works on the owner key that is stored: nobody
\* funds a key that is gone when the window closes (storage.ts:28-32, App.tsx run).
SavedOrTold == \A w \in open : at[w] = "idle" /\ ~told[w] => mem[w].owner = stored.owner

\* What was reported as expired never lands afterwards (rpc.ts:31).
ExpiredIsOver ==
    [][\A n \in Sends : tx[n].expired /\ tx[n].state = "pending" => tx'[n].state = "pending"]_vars

\* No page polls for ever, whatever becomes of its transaction.
SendEnds == \A w \in Windows : at[w] \in {"status", "height"} ~> at[w] \in {"idle", "closed"}

\* Once every pickRpc is over, the server in use is one of the last choice, or none.
RpcAsSaved ==
    \A w \in open : probes[w] = {} =>
        \/ rpc[w] = NoServer
        \/ \E i \in DOMAIN Candidates(custom[w]) : rpc[w] = Candidates(custom[w])[i]
=============================================================================
