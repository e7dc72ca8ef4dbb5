---------------------------- MODULE ExtensionProofs ----------------------------
(***************************************************************************)
(* Proofs about the browser extension: any windows for what is sent, one   *)
(* window for the owner key; any RPC servers, fees and block times.        *)
(*                                                                         *)
(* SendInv: what a page polls for is what it sent, and what it gave up has *)
(* expired.  OwnerInv: the storage, the writes on their way to it and the  *)
(* mirror never name two different owner keys.                             *)
(***************************************************************************)
EXTENDS Extension, SequenceTheorems, TLAPS

Servers == Customs \union {NoServer, "direct", "proxy"}
Write == [key: {"owner"}, value: Keys] \union [key: {"rpc"}, value: Customs \union {NoServer}]
Probe == [n: Nat, left: Seq(Servers)]
Job == [key: Keys \union {NoKey}, amount: Nat, last: Nat, tx: Sends \union {0}]
Tx == [state: {"none", "pending", "confirmed", "failed"}, amount: Nat, last: Nat, expired: BOOLEAN]

TypeInv ==
    /\ TypeOK
    /\ queue \in [Windows -> Seq(Write)]
    /\ probes \in [Windows -> SUBSET Probe]
    /\ job \in [Windows -> Job]
    /\ tx \in [Sends -> Tx]
    /\ \A w \in Windows : at[w] = "unsealing" => job[w].key \in Keys

\* A write is queued.
LEMMA QueueAppend ==
    ASSUME TypeInv, NEW w \in Windows, NEW x \in Write, queue' = [queue EXCEPT ![w] = Append(@, x)]
    PROVE  /\ queue' \in [Windows -> Seq(Write)] /\ queue'[w] = Append(queue[w], x)
           /\ \A u \in Windows \ {w} : queue'[u] = queue[u]
<1>1. queue \in [Windows -> Seq(Write)]
  BY DEF TypeInv
<1>2. Append(queue[w], x) \in Seq(Write)
  BY <1>1, AppendProperties
<1>. QED
  BY <1>1, <1>2

\* The mirror's owner is set, and the write queued.
LEMMA OwnerSet ==
    ASSUME TypeInv, NEW w \in Windows, NEW v \in Keys, SetItem(w, "owner", v)
    PROVE  /\ mem' \in [Windows -> Values] /\ mem'[w].owner = v
           /\ queue' \in [Windows -> Seq(Write)] /\ queue'[w] = Append(queue[w], [key |-> "owner", value |-> v])
           /\ \A u \in Windows \ {w} : mem'[u] = mem[u] /\ queue'[u] = queue[u]
<1>1. mem' = [mem EXCEPT ![w].owner = v]
  BY DEF SetItem
<1>2. mem' \in [Windows -> Values] /\ mem'[w].owner = v /\ \A u \in Windows \ {w} : mem'[u] = mem[u]
  BY <1>1 DEF TypeInv, TypeOK, Values
<1>3. [key |-> "owner", value |-> v] \in Write
  BY DEF Write
<1>4. /\ queue' \in [Windows -> Seq(Write)] /\ queue'[w] = Append(queue[w], [key |-> "owner", value |-> v])
      /\ \A u \in Windows \ {w} : queue'[u] = queue[u]
  BY <1>3, QueueAppend DEF SetItem
<1>. QED
  BY <1>2, <1>3, <1>4

\* The mirror's RPC server is set, and the write queued.
LEMMA RpcSet ==
    ASSUME TypeInv, NEW w \in Windows, NEW v \in Customs \union {NoServer}, SetItem(w, "rpc", v)
    PROVE  /\ mem' \in [Windows -> Values] /\ mem'[w].owner = mem[w].owner
           /\ queue' \in [Windows -> Seq(Write)] /\ queue'[w] = Append(queue[w], [key |-> "rpc", value |-> v])
           /\ \A u \in Windows \ {w} : mem'[u] = mem[u] /\ queue'[u] = queue[u]
<1>1. mem' = [mem EXCEPT ![w].rpc = v]
  BY DEF SetItem
<1>2. mem' \in [Windows -> Values] /\ mem'[w].owner = mem[w].owner /\ \A u \in Windows \ {w} : mem'[u] = mem[u]
  BY <1>1 DEF TypeInv, TypeOK, Values
<1>3. [key |-> "rpc", value |-> v] \in Write
  BY DEF Write
<1>4. /\ queue' \in [Windows -> Seq(Write)] /\ queue'[w] = Append(queue[w], [key |-> "rpc", value |-> v])
      /\ \A u \in Windows \ {w} : queue'[u] = queue[u]
  BY <1>3, QueueAppend DEF SetItem
<1>. QED
  BY <1>2, <1>3, <1>4

\* The first queued write reaches the storage.
LEMMA Written ==
    ASSUME TypeInv, NEW w \in Windows, WriteThrough(w)
    PROVE  /\ queue[w] # <<>> /\ stored' \in Values
           /\ stored'.owner = IF Head(queue[w]).key = "owner" THEN Head(queue[w]).value ELSE stored.owner
           /\ queue' \in [Windows -> Seq(Write)] /\ queue'[w] = Tail(queue[w])
           /\ \A u \in Windows \ {w} : queue'[u] = queue[u]
<1>1. queue[w] \in Seq(Write) /\ queue[w] # <<>>
  BY DEF WriteThrough, TypeInv
<1>2. Head(queue[w]) \in Write /\ Tail(queue[w]) \in Seq(Write)
  BY <1>1, HeadTailProperties
<1>3. CASE Head(queue[w]).key = "owner"
  <2>1. Head(queue[w]).value \in Keys
    BY <1>2, <1>3 DEF Write
  <2>2. stored' = [stored EXCEPT !.owner = Head(queue[w]).value]
    BY <1>3 DEF WriteThrough
  <2>. QED
    BY <1>1, <1>2, <1>3, <2>1, <2>2 DEF WriteThrough, TypeInv, TypeOK, Values
<1>4. CASE Head(queue[w]).key = "rpc"
  <2>1. Head(queue[w]).value \in Customs \union {NoServer}
    BY <1>2, <1>4 DEF Write
  <2>2. stored' = [stored EXCEPT !.rpc = Head(queue[w]).value]
    BY <1>4 DEF WriteThrough
  <2>. QED
    BY <1>1, <1>2, <1>4, <2>1, <2>2 DEF WriteThrough, TypeInv, TypeOK, Values
<1>. QED
  BY <1>2, <1>3, <1>4 DEF Write

\* The servers pickRpc tries.
LEMMA CandidatesType == \A v \in Customs \union {NoServer} : Candidates(v) \in Seq(Servers)
<1>. SUFFICES ASSUME NEW v \in Customs \union {NoServer} PROVE Candidates(v) \in Seq(Servers)
  OBVIOUS
<1>1. <<"direct", "proxy">> \in Seq(Servers)
  BY DEF Servers
<1>2. v \in Servers
  BY DEF Servers
<1>3. <<v>> \in Seq(Servers)
  BY <1>2
<1>. QED
  BY <1>1, <1>3 DEF Candidates

\* A window's probes change.
LEMMA ProbesType ==
    ASSUME TypeInv, NEW w \in Windows, NEW q \in SUBSET Probe, probes' = [probes EXCEPT ![w] = q]
    PROVE  probes' \in [Windows -> SUBSET Probe]
  BY DEF TypeInv

\* No step takes a variable out of its type.
LEMMA TypeStep ==
    ASSUME TypeInv, [Next]_vars
    PROVE  TypeInv'
<1>. USE DEF browser, choice, chain
<1>1. ASSUME NEW w \in Windows, Open(w) PROVE TypeInv'
  <2>1. stored \in Values
    BY DEF TypeInv, TypeOK
  <2>2. Candidates(stored.rpc) \in Seq(Servers)
    BY <2>1, CandidatesType DEF Values
  <2>3. {[n |-> 0, left |-> Candidates(stored.rpc)]} \in SUBSET Probe
    BY <2>2 DEF Probe
  <2>4. probes' \in [Windows -> SUBSET Probe]
    BY <1>1, <2>3, ProbesType DEF Open
  <2>. QED
    BY <1>1, <2>4 DEF Open, TypeInv, TypeOK, Values
<1>2. ASSUME NEW w \in Windows, Close(w) PROVE TypeInv'
  <2>1. NoJob \in Job /\ <<>> \in Seq(Write) /\ {} \in SUBSET Probe
    BY DEF NoJob, Job, NoKey
  <2>2. job' \in [Windows -> Job] /\ queue' \in [Windows -> Seq(Write)] /\ probes' \in [Windows -> SUBSET Probe]
    BY <1>2, <2>1 DEF Close, TypeInv
  <2>3. mem' \in [Windows -> Values] /\ owner' \in [Windows -> Keys \union {NoKey}]
    BY <1>2 DEF Close, TypeInv, TypeOK, Values
  <2>. QED
    BY <1>2, <2>2, <2>3 DEF Close, TypeInv, TypeOK
<1>3. ASSUME NEW w \in Windows, WriteThrough(w) PROVE TypeInv'
  BY <1>3, Written DEF WriteThrough, TypeInv, TypeOK
<1>4. ASSUME NEW w \in Windows, WriteFails(w) PROVE TypeInv'
  <2>1. queue[w] \in Seq(Write) /\ queue[w] # <<>>
    BY <1>4 DEF WriteFails, TypeInv
  <2>2. Tail(queue[w]) \in Seq(Write)
    BY <2>1, HeadTailProperties
  <2>. QED
    BY <1>4, <2>2 DEF WriteFails, TypeInv, TypeOK
<1>5. ASSUME NEW w \in Windows, Refuse(w) \/ Ends(w) PROVE TypeInv'
  <2>1. job' \in [Windows -> Job]
    <3>1. NoJob \in Job
      BY DEF NoJob, Job, NoKey
    <3>. QED
      BY <1>5, <3>1 DEF Refuse, Ends, Throws, TypeInv
  <2>2. told' \in [Windows -> BOOLEAN]
    BY <1>5 DEF Refuse, Ends, Throws, Flushed, TypeInv, TypeOK
  <2>3. at'[w] = "idle" /\ \A u \in Windows \ {w} : at'[u] = at[u] /\ job'[u] = job[u]
    BY <1>5 DEF Refuse, Ends, Throws, Goto, TypeInv, TypeOK
  <2>. QED
    BY <1>5, <2>1, <2>2, <2>3, ZenonT(40) DEF Refuse, Ends, Throws, Goto, TypeInv, TypeOK
<1>6. ASSUME NEW w \in Windows, PressCreate(w) \/ PressSweep(w) PROVE TypeInv'
  BY <1>6 DEF PressCreate, PressSweep, Starts, TypeInv, TypeOK
<1>7. ASSUME NEW w \in Windows, CreateOwner(w) PROVE TypeInv'
  <2>1. keys' \in Keys /\ keys' \in 0..MaxKeys
    <3>1. keys \in 0..MaxKeys /\ keys < MaxKeys /\ keys' = keys + 1
      BY <1>7 DEF CreateOwner, TypeInv, TypeOK
    <3>. QED
      BY <3>1, ExtensionAssumption DEF Keys
  <2>2. mem' \in [Windows -> Values] /\ queue' \in [Windows -> Seq(Write)]
    BY <1>7, <2>1, OwnerSet DEF CreateOwner
  <2>. QED
    BY <1>7, <2>1, <2>2 DEF CreateOwner, Goto, TypeInv, TypeOK
<1>8. ASSUME NEW w \in Windows, NEW k \in Keys, PressImport(w, k) PROVE TypeInv'
  <2>1. [job[w] EXCEPT !.key = k] \in Job /\ [job[w] EXCEPT !.key = k].key = k
    BY DEF TypeInv, Job
  <2>2. job' = [job EXCEPT ![w] = [job[w] EXCEPT !.key = k]]
    BY <1>8 DEF PressImport
  <2>3. job' \in [Windows -> Job] /\ job'[w].key = k /\ \A u \in Windows \ {w} : job'[u] = job[u]
    BY <2>1, <2>2 DEF TypeInv
  <2>. QED
    BY <1>8, <2>3 DEF PressImport, Starts, TypeInv, TypeOK
<1>9. ASSUME NEW w \in Windows, ImportOwner(w) PROVE TypeInv'
  <2>1. job[w].key \in Keys
    BY <1>9 DEF ImportOwner, TypeInv
  <2>2. mem' \in [Windows -> Values] /\ queue' \in [Windows -> Seq(Write)]
    BY <1>9, <2>1, OwnerSet DEF ImportOwner
  <2>. QED
    BY <1>9, <2>1, <2>2 DEF ImportOwner, Goto, TypeInv, TypeOK
<1>10. ASSUME NEW w \in Windows, NEW v \in Customs \union {NoServer}, SaveRpc(w, v) PROVE TypeInv'
  <2>0. saves \in 0..MaxSaves /\ saves < MaxSaves /\ saves' = saves + 1
    BY <1>10 DEF SaveRpc, TypeInv, TypeOK
  <2>1. saves' \in 0..MaxSaves /\ saves' \in Nat
    BY <2>0, ExtensionAssumption
  <2>2. probes' \in [Windows -> SUBSET Probe]
    <3>1. probes[w] \union {[n |-> saves', left |-> Candidates(v)]} \in SUBSET Probe
      BY <2>1, CandidatesType DEF TypeInv, Probe
    <3>. QED
      BY <1>10, <3>1, ProbesType DEF SaveRpc
  <2>3. mem' \in [Windows -> Values] /\ queue' \in [Windows -> Seq(Write)]
    BY <1>10, RpcSet DEF SaveRpc
  <2>. QED
    BY <1>10, <2>1, <2>2, <2>3 DEF SaveRpc, TypeInv, TypeOK
<1>11. ASSUME NEW w \in Windows, NEW p \in probes[w], Answers(w, p) \/ Refuses(w, p) PROVE TypeInv'
  <2>1. p \in Probe /\ p.left # <<>> /\ probes[w] \in SUBSET Probe
    BY <1>11 DEF Answers, Refuses, TypeInv
  <2>2. Head(p.left) \in Servers /\ Tail(p.left) \in Seq(Servers)
    BY <2>1, HeadTailProperties DEF Probe
  <2>3. [p EXCEPT !.left = Tail(p.left)] \in Probe
    BY <2>1, <2>2 DEF Probe
  <2>4. PICK q \in SUBSET Probe : probes' = [probes EXCEPT ![w] = q]
    BY <1>11, <2>1, <2>3 DEF Answers, Refuses
  <2>5. rpc' \in [Windows -> Servers]
    BY <1>11, <2>2, ZenonT(40) DEF Answers, Refuses, TypeInv, TypeOK, Servers
  <2>6. probes' \in [Windows -> SUBSET Probe]
    BY <2>4, ProbesType
  <2>. QED
    BY <1>11, <2>5, <2>6 DEF Answers, Refuses, TypeInv, TypeOK, Servers
<1>12. ASSUME NEW w \in Windows, ReadBalance(w) PROVE TypeInv'
  <2>1. job' = job \/ \E n \in Nat : job' = [job EXCEPT ![w] = [job[w] EXCEPT !.amount = n]]
    <3>1. rent > Fee => rent - Fee \in Nat
      BY ExtensionAssumption DEF TypeInv, TypeOK
    <3>. QED
      BY <1>12, <3>1 DEF ReadBalance
  <2>2. job' \in [Windows -> Job] /\ \A u \in Windows : job'[u].key = job[u].key
    <3>1. \A n \in Nat : [job[w] EXCEPT !.amount = n] \in Job /\ [job[w] EXCEPT !.amount = n].key = job[w].key
      BY DEF TypeInv, Job
    <3>. QED
      BY <2>1, <3>1 DEF TypeInv
  <2>. QED
    BY <1>12, <2>2 DEF ReadBalance, Goto, TypeInv, TypeOK
<1>13. ASSUME NEW w \in Windows, SaveFirst(w) PROVE TypeInv'
  BY <1>13 DEF SaveFirst, Goto, TypeInv, TypeOK
<1>14. ASSUME NEW w \in Windows, GetBlockhash(w) PROVE TypeInv'
  <2>1. \E n \in Nat : job' = [job EXCEPT ![w] = [job[w] EXCEPT !.last = n]]
    <3>1. height + Life \in Nat
      BY ExtensionAssumption DEF TypeInv, TypeOK
    <3>. QED
      BY <1>14, <3>1 DEF GetBlockhash
  <2>2. job' \in [Windows -> Job] /\ \A u \in Windows : job'[u].key = job[u].key
    <3>1. \A n \in Nat : [job[w] EXCEPT !.last = n] \in Job /\ [job[w] EXCEPT !.last = n].key = job[w].key
      BY DEF TypeInv, Job
    <3>. QED
      BY <2>1, <3>1 DEF TypeInv
  <2>. QED
    BY <1>14, <2>2 DEF GetBlockhash, Goto, TypeInv, TypeOK
<1>15. ASSUME NEW w \in Windows, Submit(w) PROVE TypeInv'
  <2>1. sent' \in Sends /\ sent' \in 0..MaxSends
    <3>1. sent \in 0..MaxSends /\ sent < MaxSends /\ sent' = sent + 1
      BY <1>15 DEF Submit, TypeInv, TypeOK
    <3>. QED
      BY <3>1, ExtensionAssumption DEF Sends
  <2>2. [NoTx EXCEPT !.state = "pending", !.amount = job[w].amount, !.last = job[w].last] \in Tx
    BY DEF NoTx, Tx, TypeInv, Job
  <2>3. tx' \in [Sends -> Tx] /\ job' \in [Windows -> Job] /\ \A u \in Windows : job'[u].key = job[u].key
    BY <1>15, <2>1, <2>2, ZenonT(40) DEF Submit, TypeInv, Job
  <2>. QED
    BY <1>15, <2>1, <2>3 DEF Submit, Goto, TypeInv, TypeOK
<1>16. ASSUME NEW w \in Windows, Status(w) PROVE TypeInv'
  BY <1>16 DEF Status, Goto, TypeInv, TypeOK
<1>17. ASSUME NEW w \in Windows, Height(w) PROVE TypeInv'
  <2>1. tx' \in [Sends -> Tx]
    <3>1. \A n \in Sends : [tx[n] EXCEPT !.expired = TRUE] \in Tx
      BY DEF TypeInv, Tx
    <3>2. tx' = tx \/ \E n \in Sends : tx' = [tx EXCEPT ![n] = [tx[n] EXCEPT !.expired = TRUE]]
      BY <1>17 DEF Height, TypeInv, Job
    <3>. QED
      BY <3>1, <3>2 DEF TypeInv
  <2>. QED
    BY <1>17, <2>1 DEF Height, Goto, TypeInv, TypeOK
<1>18. ASSUME NEW w \in Windows, Fails(w) PROVE TypeInv'
  <2>1. NoJob \in Job
    BY DEF NoJob, Job, NoKey
  <2>2. job' \in [Windows -> Job] /\ told' \in [Windows -> BOOLEAN]
    <3>1. job \in [Windows -> Job] /\ told \in [Windows -> BOOLEAN]
      BY DEF TypeInv, TypeOK
    <3>2. \/ job' = [job EXCEPT ![w] = NoJob] /\ told' = [told EXCEPT ![w] = TRUE]
          \/ job' = job /\ told' = told
      BY <1>18 DEF Fails, Throws
    <3>. QED
      BY <2>1, <3>1, <3>2
  <2>3. at'[w] \in {"idle", "ends"} /\ \A u \in Windows \ {w} : at'[u] = at[u] /\ job'[u] = job[u]
    BY <1>18 DEF Fails, Throws, Goto, TypeInv, TypeOK
  <2>. QED
    BY <1>18, <2>2, <2>3, ZenonT(40) DEF Fails, Throws, Goto, TypeInv, TypeOK
<1>19. CASE RentArrives \/ Tick
  <2>1. height' \in 0..MaxHeight /\ rent' \in Nat
    BY <1>19, ExtensionAssumption DEF RentArrives, Tick, TypeInv, TypeOK
  <2>. QED
    BY <1>19, <2>1 DEF RentArrives, Tick, TypeInv, TypeOK
<1>20. ASSUME NEW n \in Sends, Land(n) PROVE TypeInv'
  <2>0. rent \in Nat /\ Fee \in Nat /\ tx[n].amount \in Nat
    BY ExtensionAssumption DEF TypeInv, TypeOK, Tx
  <2>1. rent' \in Nat
    BY <1>20, <2>0 DEF Land
  <2>2. \E x \in {"confirmed", "failed"} : tx' = [tx EXCEPT ![n] = [tx[n] EXCEPT !.state = x]]
    BY <1>20 DEF Land
  <2>3. \A x \in {"confirmed", "failed"} : [tx[n] EXCEPT !.state = x] \in Tx
    BY DEF TypeInv, Tx
  <2>4. tx' \in [Sends -> Tx]
    BY <2>2, <2>3 DEF TypeInv
  <2>. QED
    BY <1>20, <2>1, <2>4 DEF Land, TypeInv, TypeOK
<1>21. CASE UNCHANGED vars
  BY <1>21 DEF vars, TypeInv, TypeOK
<1>. QED
  BY <1>1, <1>2, <1>3, <1>4, <1>5, <1>6, <1>7, <1>8, <1>9, <1>10, <1>11, <1>12, <1>13, <1>14, <1>15, <1>16,
     <1>17, <1>18, <1>19, <1>20, <1>21 DEF Next, Sending

\* No window is open at the start.
LEMMA TypeInit == Init => TypeInv
<1>. SUFFICES ASSUME Init PROVE TypeInv
  OBVIOUS
<1>1. stored \in Values /\ \A w \in Windows : mem[w] = stored
  BY DEF Init, Values
<1>2. NoJob \in Job /\ NoTx \in Tx
  BY DEF NoJob, Job, NoKey, NoTx, Tx
<1>3. job \in [Windows -> Job] /\ tx \in [Sends -> Tx]
  BY <1>2 DEF Init
<1>4. mem \in [Windows -> Values]
  BY <1>1 DEF Init
<1>5. queue \in [Windows -> Seq(Write)] /\ probes \in [Windows -> SUBSET Probe]
  BY DEF Init
<1>6. saves \in 0..MaxSaves /\ sent \in 0..MaxSends /\ height \in 0..MaxHeight /\ rent \in Nat /\ keys \in 0..MaxKeys
  BY ExtensionAssumption DEF Init
<1>. QED
  BY <1>1, <1>3, <1>4, <1>5, <1>6 DEF Init, TypeInv, TypeOK

\* Every variable has its type, and so has what waits in a window: its queued
\* writes, the RPC servers it has yet to try, and its operation (App.tsx,
\* owner.ts, rpc.ts, storage.ts).
THEOREM TypeCorrect == Spec => []TypeInv
<1>1. TypeInv /\ [Next]_vars => TypeInv'
  BY TypeStep
<1>. QED
  BY <1>1, TypeInit, PTL DEF Spec

----------------------------------------------------------------------------
(* What is sent.                                                            *)

\* A transaction given up has expired; nothing is sent yet under the numbers
\* to come; a page polls for a transaction of its own, with its last block.
SendInv ==
    /\ \A n \in Sends : /\ tx[n].expired => height > tx[n].last
                        /\ n > sent => ~tx[n].expired
    /\ \A w \in Windows : at[w] \in {"status", "height"} =>
          job[w].tx \in Sends /\ job[w].tx <= sent /\ tx[job[w].tx].last = job[w].last

\* A step that neither sends nor gives up.
LEMMA SendCalm ==
    ASSUME SendInv, TypeInv, UNCHANGED sent, height' = height \/ height' = height + 1,
           \A n \in Sends : tx'[n].expired = tx[n].expired /\ tx'[n].last = tx[n].last,
           \A w \in Windows : at'[w] \in {"status", "height"} => at[w] \in {"status", "height"} /\ job'[w] = job[w]
    PROVE  SendInv'
<1>1. height \in Nat /\ \A n \in Sends : tx[n].last \in Nat
  BY ExtensionAssumption DEF TypeInv, TypeOK, Tx
<1>2. \A n \in Sends : /\ tx'[n].expired => height' > tx'[n].last
                       /\ n > sent' => ~tx'[n].expired
  BY <1>1 DEF SendInv
<1>. QED
  BY <1>2 DEF SendInv

\* No step lets an expired sweep land.
LEMMA SendStep ==
    ASSUME TypeInv, SendInv, [Next]_vars
    PROVE  SendInv'
<1>. USE DEF browser, choice, chain
<1>0. at \in [Windows -> {"closed", "idle", "sealing", "unsealing", "balance", "save", "blockhash",
                          "submit", "status", "height", "ends"}]
      /\ job \in [Windows -> Job] /\ tx \in [Sends -> Tx]
  BY DEF TypeInv, TypeOK
<1>1. ASSUME NEW w \in Windows, Open(w) \/ Close(w) PROVE SendInv'
  BY <1>0, <1>1, SendCalm DEF Open, Close
<1>2. ASSUME NEW w \in Windows, WriteThrough(w) \/ WriteFails(w) PROVE SendInv'
  BY <1>2, SendCalm DEF WriteThrough, WriteFails
<1>3. ASSUME NEW w \in Windows, Refuse(w) \/ Ends(w) \/ Fails(w) PROVE SendInv'
  BY <1>0, <1>3, SendCalm DEF Refuse, Ends, Fails, Throws, Goto
<1>4. ASSUME NEW w \in Windows, PressCreate(w) \/ PressSweep(w) \/ \E k \in Keys : PressImport(w, k) PROVE SendInv'
  BY <1>0, <1>4, SendCalm DEF PressCreate, PressSweep, PressImport, Starts
<1>5. ASSUME NEW w \in Windows, CreateOwner(w) \/ ImportOwner(w) \/ SaveFirst(w) PROVE SendInv'
  BY <1>0, <1>5, SendCalm DEF CreateOwner, ImportOwner, SaveFirst, Goto
<1>6. ASSUME NEW w \in Windows, \/ \E v \in Customs \union {NoServer} : SaveRpc(w, v)
                                \/ \E p \in probes[w] : Answers(w, p) \/ Refuses(w, p) PROVE SendInv'
  BY <1>6, SendCalm DEF SaveRpc, Answers, Refuses
<1>7. ASSUME NEW w \in Windows, ReadBalance(w) \/ GetBlockhash(w) PROVE SendInv'
  BY <1>0, <1>7, SendCalm DEF ReadBalance, GetBlockhash, Goto
<1>8. ASSUME NEW w \in Windows, Submit(w) PROVE SendInv'
  <2>1. sent' \in Sends /\ sent' = sent + 1 /\ sent \in Nat
    BY <1>8, ExtensionAssumption DEF Submit, TypeInv, TypeOK, Sends
  <2>2. /\ ~tx'[sent'].expired /\ tx'[sent'].last = job[w].last
        /\ \A n \in Sends \ {sent'} : tx'[n] = tx[n]
    BY <1>0, <1>8, <2>1 DEF Submit, NoTx
  <2>3. [job[w] EXCEPT !.tx = sent'].tx = sent' /\ [job[w] EXCEPT !.tx = sent'].last = job[w].last
    BY <1>0 DEF Job
  <2>4. /\ job'[w].tx = sent' /\ job'[w].last = job[w].last
        /\ \A u \in Windows \ {w} : job'[u] = job[u] /\ at'[u] = at[u]
        /\ UNCHANGED height
    BY <1>0, <1>8, <2>3 DEF Submit, Goto
  <2>5. \A n \in Sends : /\ tx'[n].expired => height' > tx'[n].last
                         /\ n > sent' => ~tx'[n].expired
    BY <2>1, <2>2, <2>4 DEF SendInv, Sends
  <2>6. ASSUME NEW u \in Windows, at'[u] \in {"status", "height"}
        PROVE  job'[u].tx \in Sends /\ job'[u].tx <= sent' /\ tx'[job'[u].tx].last = job'[u].last
    <3>1. CASE u = w
      BY <2>1, <2>2, <2>4, <3>1
    <3>2. CASE u # w
      BY <2>1, <2>2, <2>4, <2>6, <3>2 DEF SendInv, Sends
    <3>. QED
      BY <3>1, <3>2
  <2>. QED
    BY <2>5, <2>6 DEF SendInv
<1>9. ASSUME NEW w \in Windows, Status(w) PROVE SendInv'
  <2>1. at[w] = "status" /\ at'[w] \in {"ends", "height"} /\ \A u \in Windows \ {w} : at'[u] = at[u]
    BY <1>0, <1>9 DEF Status, Goto
  <2>. QED
    BY <1>9, <2>1, SendCalm DEF Status
<1>10. ASSUME NEW w \in Windows, Height(w) PROVE SendInv'
  <2>1. /\ at[w] = "height" /\ \A u \in Windows \ {w} : at'[u] = at[u]
        /\ UNCHANGED <<job, sent, height>>
        /\ job[w].tx \in Sends /\ job[w].tx <= sent /\ tx[job[w].tx].last = job[w].last
    BY <1>0, <1>10 DEF Height, Goto, SendInv
  <2>2. CASE Over(job[w].last)
    <3>1. tx' = [tx EXCEPT ![job[w].tx] = [tx[job[w].tx] EXCEPT !.expired = TRUE]] /\ at'[w] = "ends"
      BY <1>0, <1>10, <2>2 DEF Height, Goto
    <3>2. /\ \A n \in Sends : tx'[n].last = tx[n].last /\ (n # job[w].tx => tx'[n] = tx[n])
      BY <1>0, <2>1, <3>1 DEF Tx
    <3>3. \A n \in Sends : tx'[n].expired => height' > tx'[n].last
      BY <2>1, <2>2, <3>2 DEF SendInv, Over
    <3>4. \A n \in Sends : n > sent' => ~tx'[n].expired
      <4>1. sent \in Nat
        BY ExtensionAssumption DEF TypeInv, TypeOK
      <4>2. \A n \in Sends : n > sent => n # job[w].tx
        BY <2>1, <4>1, ExtensionAssumption DEF Sends
      <4>. QED
        BY <2>1, <3>2, <4>2 DEF SendInv
    <3>. QED
      BY <2>1, <3>1, <3>2, <3>3, <3>4 DEF SendInv
  <2>3. CASE ~Over(job[w].last)
    BY <1>10, <2>1, <2>3, SendCalm DEF Height
  <2>. QED
    BY <2>2, <2>3
<1>11. CASE RentArrives \/ Tick
  BY <1>11, SendCalm DEF RentArrives, Tick
<1>12. ASSUME NEW n \in Sends, Land(n) PROVE SendInv'
  <2>1. \E x \in {"confirmed", "failed"} : tx' = [tx EXCEPT ![n] = [tx[n] EXCEPT !.state = x]]
    BY <1>12 DEF Land
  <2>2. \A m \in Sends : tx'[m].expired = tx[m].expired /\ tx'[m].last = tx[m].last
    BY <1>0, <2>1 DEF Tx
  <2>. QED
    BY <1>12, <2>2, SendCalm DEF Land
<1>13. CASE UNCHANGED vars
  BY <1>13, SendCalm DEF vars
<1>. QED
  BY <1>1, <1>2, <1>3, <1>4, <1>5, <1>6, <1>7, <1>8, <1>9, <1>10, <1>11, <1>12, <1>13 DEF Next, Sending

\* Nothing is sent at the start.
LEMMA SendInit == Init => SendInv
  BY DEF Init, SendInv, NoTx

\* The inductive invariant holds throughout.
LEMMA SendsKnown == Spec => [](TypeInv /\ SendInv)
<1>. DEFINE Inv == TypeInv /\ SendInv
<1>1. Inv /\ [Next]_vars => Inv'
  BY TypeStep, SendStep
<1>2. Init => Inv
  BY TypeInit, SendInit
<1>. QED
  BY <1>1, <1>2, PTL DEF Spec

\* An expired transaction cannot land: its last block is past.
LEMMA ExpiredStays ==
    ASSUME TypeInv, SendInv, [Next]_vars, NEW n \in Sends, tx[n].expired, tx[n].state = "pending"
    PROVE  tx'[n].state = "pending"
<1>. USE DEF chain, browser, choice
<1>1. tx \in [Sends -> Tx] /\ height \in Nat /\ tx[n].last \in Nat /\ height > tx[n].last
  BY ExtensionAssumption DEF TypeInv, TypeOK, SendInv, Tx
<1>2. CASE UNCHANGED tx
  BY <1>2
<1>3. ASSUME NEW w \in Windows, Submit(w) PROVE tx'[n].state = "pending"
  <2>1. n # sent'
    BY <1>3, ExtensionAssumption, SMTT(40) DEF Submit, SendInv, TypeInv, TypeOK, Sends
  <2>2. tx'[n] = tx[n]
    BY <1>1, <1>3, <2>1 DEF Submit
  <2>. QED
    BY <2>2
<1>4. ASSUME NEW w \in Windows, Height(w) PROVE tx'[n].state = "pending"
  <2>1. tx' = tx \/ tx' = [tx EXCEPT ![job[w].tx] = [tx[job[w].tx] EXCEPT !.expired = TRUE]]
    BY <1>4 DEF Height
  <2>. QED
    BY <1>1, <2>1 DEF Tx
<1>5. ASSUME NEW m \in Sends, Land(m) PROVE tx'[n].state = "pending"
  <2>1. m # n
    BY <1>1, <1>5 DEF Land
  <2>. QED
    BY <1>1, <1>5, <2>1 DEF Land
<1>6. UNCHANGED tx \/ (\E w \in Windows : Submit(w) \/ Height(w)) \/ \E m \in Sends : Land(m)
  BY ZenonT(120) DEF Next, vars, Open, Close, Refuse, WriteThrough, WriteFails, PressCreate, CreateOwner, ImportOwner, PressSweep,
     ReadBalance, Sending, SaveFirst, GetBlockhash, Status, Ends, Fails, PressImport, SaveRpc, Answers, Refuses,
     RentArrives, Tick, Throws
<1>. QED
  BY <1>2, <1>3, <1>4, <1>5, <1>6

\* A transaction that a page reported as expired has not landed and never
\* will: sending again does not pay twice (rpc.ts:31-48).
THEOREM ExpiredNeverLands == Spec => ExpiredIsOver
<1>1. TypeInv /\ SendInv /\ [Next]_vars =>
        [\A n \in Sends : tx[n].expired /\ tx[n].state = "pending" => tx'[n].state = "pending"]_vars
  BY ExpiredStays
<1>. QED
  BY <1>1, SendsKnown, PTL DEF Spec, ExpiredIsOver
----------------------------------------------------------------------------
(* The owner key, with one window.                                          *)

\* Two windows replace each other's owner key: each checks its own mirror.
OneWindow == \A u, w \in Windows : u = w

\* What window w holds, what it has yet to write and what is stored agree.
Held(w) ==
    /\ w \notin open => at[w] = "closed" /\ queue[w] = <<>>
    /\ w \in open => stored.owner \in {NoKey, mem[w].owner}
    /\ \A i \in DOMAIN queue[w] : queue[w][i].key = "owner" => queue[w][i].value = mem[w].owner
    /\ at[w] = "sealing" => mem[w].owner = NoKey
    /\ at[w] = "unsealing" => mem[w].owner \in {NoKey, job[w].key}
    /\ w \in open /\ ~failed[w] /\ mem[w].owner # stored.owner =>
          \E i \in DOMAIN queue[w] : queue[w][i].key = "owner"
    /\ w \in open /\ at[w] = "idle" /\ ~told[w] => mem[w].owner = stored.owner
OwnerInv == \A w \in Windows : Held(w)

\* A step of the page that writes nothing: it stops in error, goes on, or starts
\* to seal with no key in the mirror or to unseal a key the mirror allows.
LEMMA HeldCalm ==
    ASSUME NEW w \in Windows, Held(w), UNCHANGED <<open, stored, mem, queue, failed>>,
           w \notin open => at'[w] = at[w],
           at'[w] = "sealing" => mem[w].owner = NoKey,
           at'[w] = "unsealing" => mem[w].owner \in {NoKey, job'[w].key},
           at'[w] = "idle" /\ ~told'[w] => at[w] = "idle" /\ ~told[w]
    PROVE  Held(w)'
  BY DEF Held

\* A write of key k joins the queue; an owner key is written with the mirror.
LEMMA HeldQueued ==
    ASSUME TypeInv, NEW w \in Windows, Held(w), NEW x \in Write, queue'[w] = Append(queue[w], x),
           UNCHANGED <<open, stored, failed>>, w \in open,
           mem'[w].owner = IF x.key = "owner" THEN x.value ELSE mem[w].owner,
           x.key = "owner" => mem[w].owner \in {NoKey, x.value},
           at'[w] \notin {"sealing", "unsealing"} \/ (x.key # "owner" /\ UNCHANGED <<at, job>>),
           at'[w] = "idle" => x.key # "owner" /\ UNCHANGED <<at, told>>
    PROVE  Held(w)'
<1>. DEFINE q == queue[w]
<1>1. q \in Seq(Write)
  BY DEF TypeInv
<1>2. /\ Len(Append(q, x)) = Len(q) + 1 /\ Append(q, x)[Len(q) + 1] = x
      /\ \A i \in 1..Len(q) : Append(q, x)[i] = q[i]
      /\ DOMAIN Append(q, x) = 1..(Len(q) + 1) /\ DOMAIN q = 1..Len(q) /\ Len(q) \in Nat
  BY <1>1
<1>3. ASSUME NEW i \in DOMAIN queue'[w], queue'[w][i].key = "owner"
      PROVE  queue'[w][i].value = mem'[w].owner
  <2>1. CASE i = Len(q) + 1
    BY <1>2, <1>3, <2>1
  <2>2. CASE i # Len(q) + 1
    <3>1. i \in DOMAIN q /\ queue'[w][i] = q[i]
      BY <1>2, <2>2
    <3>2. q[i].value = mem[w].owner /\ q[i] \in Write
      BY <1>1, <1>2, <1>3, <3>1 DEF Held
    <3>3. q[i].value \in Keys /\ NoKey \notin Keys
      BY <1>3, <3>1, <3>2, ExtensionAssumption DEF Write, Keys, NoKey
    <3>. QED
      BY <3>1, <3>2, <3>3
  <2>. QED
    BY <2>1, <2>2
<1>4. x.key = "owner" => \E i \in DOMAIN queue'[w] : queue'[w][i].key = "owner"
  BY <1>2
<1>5. (\E i \in DOMAIN q : q[i].key = "owner") => \E i \in DOMAIN queue'[w] : queue'[w][i].key = "owner"
  BY <1>2
<1>. QED
  BY <1>3, <1>4, <1>5 DEF Held

\* No step of the one window loses the owner it holds.
LEMMA OwnerStep ==
    ASSUME OneWindow, TypeInv, OwnerInv, [Next]_vars
    PROVE  OwnerInv'
<1>. USE DEF browser, choice, chain
<1>0. at \in [Windows -> {"closed", "idle", "sealing", "unsealing", "balance", "save", "blockhash",
                          "submit", "status", "height", "ends"}]
      /\ job \in [Windows -> Job] /\ told \in [Windows -> BOOLEAN] /\ failed \in [Windows -> BOOLEAN]
      /\ mem \in [Windows -> Values] /\ queue \in [Windows -> Seq(Write)]
  BY DEF TypeInv, TypeOK
<1>. SUFFICES ASSUME NEW w \in Windows PROVE Held(w)'
  BY DEF OwnerInv
<1>. /\ Held(w) /\ \A u \in Windows : u = w
  BY DEF OwnerInv, OneWindow
<1>1. ASSUME Open(w) PROVE Held(w)'
  <2>1. w \notin open /\ w \in open' /\ queue'[w] = <<>> /\ at'[w] = "idle" /\ mem'[w] = stored /\ UNCHANGED <<stored, failed>>
    BY <1>0, <1>1 DEF Open, Held
  <2>. QED
    BY <2>1 DEF Held
<1>2. ASSUME Close(w) PROVE Held(w)'
  <2>1. w \notin open' /\ queue'[w] = <<>> /\ at'[w] = "closed"
    BY <1>0, <1>2 DEF Close
  <2>. QED
    BY <2>1 DEF Held
<1>3. ASSUME WriteThrough(w) \/ WriteFails(w) PROVE Held(w)'
  <2>. DEFINE q == queue[w]
  <2>1. q \in Seq(Write) /\ q # <<>> /\ w \in open
    BY <1>0, <1>3 DEF WriteThrough, WriteFails, Held
  <2>2. queue'[w] = Tail(q) /\ UNCHANGED <<open, mem, at, told, job>>
    BY <1>0, <1>3 DEF WriteThrough, WriteFails
  <2>3. /\ DOMAIN q = 1..Len(q) /\ DOMAIN Tail(q) = 1..(Len(q) - 1) /\ Len(q) \in Nat /\ Len(q) >= 1
        /\ Head(q) = q[1] /\ \A i \in 1..(Len(q) - 1) : Tail(q)[i] = q[i + 1]
    BY <2>1, EmptySeq, HeadTailProperties
  <2>4. \A i \in DOMAIN Tail(q) : Tail(q)[i].key = "owner" => Tail(q)[i].value = mem[w].owner
    <3>1. \A i \in DOMAIN Tail(q) : i + 1 \in DOMAIN q /\ Tail(q)[i] = q[i + 1]
      BY <2>3
    <3>. QED
      BY <3>1 DEF Held
  <2>5. CASE WriteThrough(w)
    <3>1. UNCHANGED failed /\ stored'.owner = IF Head(q).key = "owner" THEN Head(q).value ELSE stored.owner
      BY <2>5, Written DEF WriteThrough
    <3>2. CASE Head(q).key = "owner"
      <4>1. stored'.owner = mem[w].owner
        BY <2>3, <3>1, <3>2 DEF Held
      <4>. QED
        BY <2>1, <2>2, <2>4, <4>1 DEF Held
    <3>3. CASE Head(q).key # "owner"
      <4>1. (\E i \in DOMAIN q : q[i].key = "owner") => \E i \in DOMAIN Tail(q) : Tail(q)[i].key = "owner"
        <5>1. \A i \in DOMAIN q : i # 1 => i - 1 \in DOMAIN Tail(q) /\ Tail(q)[i - 1] = q[i]
          BY <2>3
        <5>. QED
          BY <2>3, <3>3, <5>1
      <4>2. stored'.owner = stored.owner
        BY <3>1, <3>3
      <4>. QED
        BY <2>1, <2>2, <2>4, <3>1, <4>1, <4>2 DEF Held
    <3>. QED
      BY <3>2, <3>3
  <2>6. CASE WriteFails(w)
    <3>1. failed'[w] /\ UNCHANGED stored
      BY <1>0, <2>6 DEF WriteFails
    <3>. QED
      BY <2>1, <2>2, <2>4, <3>1 DEF Held
  <2>. QED
    BY <1>3, <2>5, <2>6
<1>4. ASSUME Ends(w) PROVE Held(w)'
  <2>1. /\ w \in open /\ queue[w] = <<>> /\ at'[w] = "idle" /\ told'[w] = ~(~failed[w])
        /\ UNCHANGED <<open, stored, mem, queue, failed>>
    BY <1>0, <1>4 DEF Ends, Goto, Flushed, Held
  <2>2. DOMAIN queue[w] = {}
    BY <2>1
  <2>. QED
    BY <1>0, <2>1, <2>2 DEF Held
<1>5. ASSUME Refuse(w) \/ Fails(w) PROVE Held(w)'
  <2>1. /\ w \in open /\ at'[w] \in {"idle", "ends"} /\ (at'[w] = "idle" => told'[w])
        /\ UNCHANGED <<open, stored, mem, queue, failed>>
    BY <1>0, <1>5 DEF Refuse, Fails, Throws, Goto, Held
  <2>. QED
    BY <2>1, HeldCalm
<1>6. ASSUME PressCreate(w) \/ PressSweep(w) PROVE Held(w)'
  <2>1. /\ w \in open /\ at'[w] \in {"sealing", "balance"} /\ (at'[w] = "sealing" => mem[w].owner = NoKey)
        /\ UNCHANGED <<open, stored, mem, queue, failed>>
    BY <1>0, <1>6 DEF PressCreate, PressSweep, Starts, Held
  <2>. QED
    BY <2>1, HeldCalm
<1>7. ASSUME NEW k \in Keys, PressImport(w, k) PROVE Held(w)'
  <2>1. job'[w].key = k
    <3>1. [job[w] EXCEPT !.key = k].key = k
      BY <1>0 DEF Job
    <3>. QED
      BY <1>0, <1>7, <3>1 DEF PressImport
  <2>2. /\ w \in open /\ at'[w] = "unsealing" /\ mem[w].owner \in {NoKey, k}
        /\ UNCHANGED <<open, stored, mem, queue, failed>>
    BY <1>0, <1>7 DEF PressImport, Starts, SameKey, Held
  <2>. QED
    BY <2>1, <2>2, HeldCalm
<1>8. ASSUME CreateOwner(w) \/ ImportOwner(w) PROVE Held(w)'
  <2>1. /\ w \in open /\ at'[w] = "ends" /\ UNCHANGED <<open, stored, failed>>
    BY <1>0, <1>8 DEF CreateOwner, ImportOwner, Goto, Held
  <2>2. \E v \in Keys : SetItem(w, "owner", v) /\ mem[w].owner \in {NoKey, v}
    <3>1. CASE CreateOwner(w)
      <4>1. keys' \in Keys
        BY <3>1, ExtensionAssumption DEF CreateOwner, TypeInv, TypeOK, Keys
      <4>. QED
        BY <3>1, <4>1 DEF CreateOwner, Held
    <3>2. CASE ImportOwner(w)
      BY <3>2 DEF ImportOwner, Held, TypeInv
    <3>. QED
      BY <1>8, <3>1, <3>2
  <2>3. PICK v \in Keys : SetItem(w, "owner", v) /\ mem[w].owner \in {NoKey, v}
    BY <2>2
  <2>4. mem'[w].owner = v /\ queue'[w] = Append(queue[w], [key |-> "owner", value |-> v])
    BY <2>3, OwnerSet
  <2>5. [key |-> "owner", value |-> v] \in Write
    BY DEF Write
  <2>. QED
    BY <2>1, <2>3, <2>4, <2>5, HeldQueued
<1>9. ASSUME NEW v \in Customs \union {NoServer}, SaveRpc(w, v) PROVE Held(w)'
  <2>1. w \in open /\ UNCHANGED <<open, stored, failed, at, job, told>>
    BY <1>9 DEF SaveRpc
  <2>2. [key |-> "rpc", value |-> v] \in Write
    BY DEF Write
  <2>3. mem'[w].owner = mem[w].owner /\ queue'[w] = Append(queue[w], [key |-> "rpc", value |-> v])
    BY <1>9, RpcSet DEF SaveRpc
  <2>. QED
    BY <2>1, <2>2, <2>3, HeldQueued
<1>10. ASSUME ReadBalance(w) \/ (\E p \in probes[w] : Answers(w, p) \/ Refuses(w, p)) \/ SaveFirst(w)
              \/ GetBlockhash(w) \/ Submit(w) \/ Status(w) \/ Height(w) PROVE Held(w)'
  <2>1. /\ \/ UNCHANGED <<at, told, job>>
           \/ w \in open /\ at'[w] \in {"ends", "save", "blockhash", "submit", "status", "height"}
        /\ UNCHANGED <<open, stored, mem, queue, failed>>
    BY <1>0, <1>10 DEF ReadBalance, Answers, Refuses, SaveFirst, GetBlockhash, Submit, Status, Height, Goto, Held
  <2>. QED
    BY <2>1, HeldCalm DEF Held
<1>11. ASSUME RentArrives \/ Tick \/ (\E n \in Sends : Land(n)) \/ UNCHANGED vars PROVE Held(w)'
  <2>1. UNCHANGED <<open, stored, mem, queue, failed, at, told, job>>
    BY <1>11 DEF RentArrives, Tick, Land, vars
  <2>. QED
    BY <2>1 DEF Held
<1>12. Next => \/ Open(w) \/ Close(w) \/ WriteThrough(w) \/ WriteFails(w) \/ Ends(w) \/ Refuse(w) \/ Fails(w)
               \/ PressCreate(w) \/ PressSweep(w) \/ (\E k \in Keys : PressImport(w, k))
               \/ CreateOwner(w) \/ ImportOwner(w) \/ (\E v \in Customs \union {NoServer} : SaveRpc(w, v))
               \/ ReadBalance(w) \/ (\E p \in probes[w] : Answers(w, p) \/ Refuses(w, p)) \/ SaveFirst(w)
               \/ GetBlockhash(w) \/ Submit(w) \/ Status(w) \/ Height(w)
               \/ RentArrives \/ Tick \/ (\E n \in Sends : Land(n))
  BY DEF Next, Sending
<1>. QED
  BY <1>1, <1>2, <1>3, <1>4, <1>5, <1>6, <1>7, <1>8, <1>9, <1>10, <1>11, <1>12

\* No window is open and nothing is stored at the start.
LEMMA OwnerInit == Init => OwnerInv
  BY DEF Init, OwnerInv, Held

\* The inductive invariant holds throughout.
LEMMA OwnerKept ==
    ASSUME OneWindow
    PROVE  Spec => [](TypeInv /\ OwnerInv)
<1>. DEFINE Inv == TypeInv /\ OwnerInv
<1>1. Inv /\ [Next]_vars => Inv'
  BY TypeStep, OwnerStep
<1>2. Init => Inv
  BY TypeInit, OwnerInit
<1>. QED
  BY <1>1, <1>2, PTL DEF Spec

\* Only a queued write changes the stored owner key, and it writes the mirror's.
LEMMA OwnerStays ==
    ASSUME OneWindow, TypeInv, OwnerInv, [Next]_vars, stored.owner # NoKey
    PROVE  stored'.owner = stored.owner
<1>. USE DEF browser, choice, chain
<1>1. ASSUME NEW w \in Windows, WriteThrough(w) PROVE stored'.owner = stored.owner
  <2>1. /\ queue[w] \in Seq(Write) /\ queue[w] # <<>>
        /\ stored'.owner = IF Head(queue[w]).key = "owner" THEN Head(queue[w]).value ELSE stored.owner
    BY <1>1, Written DEF TypeInv
  <2>2. Head(queue[w]) = queue[w][1] /\ 1 \in DOMAIN queue[w]
    BY <2>1, EmptySeq
  <2>3. w \in open /\ stored.owner = mem[w].owner
    BY <2>1 DEF OwnerInv, Held
  <2>4. Head(queue[w]).key = "owner" => Head(queue[w]).value = mem[w].owner
    BY <2>2 DEF OwnerInv, Held
  <2>. QED
    BY <2>1, <2>3, <2>4
<1>2. UNCHANGED stored \/ \E w \in Windows : WriteThrough(w)
  BY ZenonT(120) DEF Next, vars, Open, Close, Refuse, WriteFails, PressCreate, CreateOwner, ImportOwner, PressSweep,
     ReadBalance, Sending, SaveFirst, GetBlockhash, Submit, Status, Height, Ends, Fails, PressImport, SaveRpc, Answers,
     Refuses, RentArrives, Tick, Land, Throws
<1>. QED
  BY <1>1, <1>2

\* With one window, the stored owner key is never replaced by another: the
\* mirror a create or an import checks is what storage will hold when its
\* writes are through (owner.ts:27, 49; storage.ts:14-32).
THEOREM OwnerStored ==
    ASSUME OneWindow
    PROVE  Spec => OwnerNeverReplaced
<1>1. TypeInv /\ OwnerInv /\ [Next]_vars => [stored.owner # NoKey => stored'.owner = stored.owner]_vars
  BY OwnerStays
<1>. QED
  BY <1>1, OwnerKept, PTL DEF Spec, OwnerNeverReplaced

\* With one window, a page that shows no error after an operation works on the
\* owner key that is stored: a write that failed is told (App.tsx run,
\* storage.ts:28-32).
THEOREM OwnerSavedOrTold ==
    ASSUME OneWindow
    PROVE  Spec => []SavedOrTold
<1>1. TypeInv /\ OwnerInv => SavedOrTold
  BY DEF OwnerInv, Held, SavedOrTold, TypeInv, TypeOK
<1>. QED
  BY <1>1, OwnerKept, PTL
=============================================================================
