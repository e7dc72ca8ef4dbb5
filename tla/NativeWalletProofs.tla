-------------------------- MODULE NativeWalletProofs --------------------------
(***************************************************************************)
(* Proofs about the mobile/desktop wallet, for any number of keys,         *)
(* requests and crashes, any amounts and any deposits.                     *)
(*                                                                         *)
(* Three invariants, each proved on top of the one before.  TypeInv: the   *)
(* types, and what a task of a page holds at each stage.  KeyInv, for one  *)
(* page at a time whose user waits until it has read the record: a key     *)
(* that signed is never again a key that may sign something else, in       *)
(* memory or on disk.  SendInv, if the user also waits until the page has  *)
(* settled what it read and reading does not fail: what a page holds and   *)
(* what the record says differ only by one finished send.                  *)
(*                                                                         *)
(* Then the app behind its passcode: a GateInv of its own, and the powers  *)
(* of two that the lockout doubles by.                                     *)
(***************************************************************************)
EXTENDS Passcode, Induction

LoadStages == {"idle", "created", "read", "ask", "answer", "adopt"}
SendStages == {"idle", "confirm", "check", "persist", "prep", "sign", "cast",
               "wait", "finish", "failed", "ask", "answer", "adopt", "stuck"}
Record == [vault: Key \union {0}, signed: Digest \union {NoDigest}, pending: Payment \union {NoPayment}]
InMemory == [vault: Key \union {0}, pending: Payment \union {NoPayment}]
Signatures == [Key -> Digest \union {NoDigest}]

\* From the dialog to the broadcast, the send has captured what it signs.
Signing == {"check", "persist", "prep", "sign", "cast"}
HalfPayment == [amount: Amounts \union {0}, next: Key \union {0}, request: 0..MaxAsks]
HalfDigest == [key: Key \union {0}, pay: HalfPayment]
StagesMatch ==
    \A p \in Pages :
        /\ \/ at[p].send # "idle" \/ at[p].load \in {"created", "adopt"} \/ screen[p] = "shown"
           => keys[p].vault \in Key
        /\ at[p].send = "confirm" =>
              job[p].pay.amount \in Amounts /\ job[p].pay.request \in 1..MaxAsks
        /\ at[p].send \in Signing \union {"wait"} => job[p] \in Digest

TypeInv == TypeOK /\ job \in [Pages -> HalfDigest] /\ StagesMatch

----------------------------------------------------------------------------
(* The data.                                                                *)

\* A payment or a digest is never the one that stands for none.
LEMMA DataTypes ==
    /\ NoPayment \notin Payment /\ NoDigest \notin Digest
    /\ \A x \in Payment : x.amount \in Amounts /\ x.next \in Key /\ x.request \in 1..MaxAsks /\ x.amount \in Nat
    /\ \A d \in Digest : d.key \in Key /\ d.pay \in Payment
    /\ Payment \subseteq HalfPayment /\ NoPayment \in HalfPayment
    /\ Digest \subseteq HalfDigest /\ NoDigest \in HalfDigest
    /\ Key \subseteq Nat \ {0}
<1>1. NoPayment \notin Payment /\ NoPayment \in HalfPayment
  BY BoundsAssumption DEF Payment, NoPayment, HalfPayment, Key
<1>2. NoDigest \notin Digest /\ NoDigest \in HalfDigest
  BY <1>1 DEF Digest, NoDigest, HalfDigest
<1>3. Payment \subseteq HalfPayment
  BY BoundsAssumption DEF Payment, HalfPayment
<1>4. Digest \subseteq HalfDigest
  BY <1>3 DEF Digest, HalfDigest
<1>5. Key \subseteq Nat \ {0}
  BY BoundsAssumption DEF Key
<1>6. \A x \in Payment : x.amount \in Amounts /\ x.next \in Key /\ x.request \in 1..MaxAsks /\ x.amount \in Nat
  BY BoundsAssumption DEF Payment
<1>7. \A d \in Digest : d.key \in Key /\ d.pay \in Payment
  BY DEF Digest
<1>. QED
  BY <1>1, <1>2, <1>3, <1>4, <1>5, <1>6, <1>7

\* The type invariant, with its sets named.
LEMMA Typed ==
    ASSUME TypeOK
    PROVE  /\ disk \in Record /\ keys \in [Pages -> InMemory] /\ signed \in [Pages -> Signatures]
           /\ at \in [Pages -> [load: LoadStages, send: SendStages]]
           /\ \A p \in Pages : keys[p] \in InMemory /\ signed[p] \in Signatures
  BY DEF TypeOK, Record, InMemory, Signatures, LoadStages, SendStages

\* Writing a page's keys writes a record.
LEMMA WriteTyped ==
    ASSUME NEW k \in InMemory, k.vault \in Key, NEW sg \in Signatures, Write(k, sg)
    PROVE  disk' \in Record /\ disk' = [vault |-> k.vault, signed |-> sg[k.vault], pending |-> k.pending]
  BY DEF Write, Record, InMemory, Signatures

----------------------------------------------------------------------------
(* What the actions do to the page that takes them.                         *)

Others(p) ==
    \A q \in Pages \ {p} : at'[q] = at[q] /\ keys'[q] = keys[q] /\ signed'[q] = signed[q] /\ job'[q] = job[q]

\* A task goes from one stage to another and the page's other task stays where it is.
LEMMA LoadMoves ==
    ASSUME TypeOK, NEW p \in Pages, NEW from, NEW to \in LoadStages, Moves(p, "load", from, to)
    PROVE  /\ at' \in [Pages -> [load: LoadStages, send: SendStages]]
           /\ at[p].load = from /\ at'[p].load = to /\ at'[p].send = at[p].send
           /\ \A q \in Pages \ {p} : at'[q] = at[q]
  BY DEF Moves, TypeOK, LoadStages, SendStages

\* A page moves from one stage of its send to the next.
LEMMA SendMoves ==
    ASSUME TypeOK, NEW p \in Pages, NEW from, NEW to \in SendStages, Moves(p, "send", from, to)
    PROVE  /\ at' \in [Pages -> [load: LoadStages, send: SendStages]]
           /\ at[p].send = from /\ at'[p].send = to /\ at'[p].load = at[p].load
           /\ \A q \in Pages \ {p} : at'[q] = at[q]
  BY ZenonT(40) DEF Moves, TypeOK, LoadStages, SendStages

\* A page's pending payment is replaced.
LEMMA PendingSet ==
    ASSUME TypeOK, NEW p \in Pages, NEW x \in Payment \union {NoPayment}, keys' = [keys EXCEPT ![p].pending = x]
    PROVE  /\ keys' \in [Pages -> InMemory]
           /\ keys'[p] = [vault |-> keys[p].vault, pending |-> x]
           /\ \A q \in Pages \ {p} : keys'[q] = keys[q]
<1>1. keys \in [Pages -> InMemory]
  BY DEF TypeOK, InMemory
<1>2. [keys[p] EXCEPT !.pending = x] = [vault |-> keys[p].vault, pending |-> x]
  BY <1>1 DEF InMemory
<1>3. keys' = [keys EXCEPT ![p] = [keys[p] EXCEPT !.pending = x]]
  OBVIOUS
<1>4. [vault |-> keys[p].vault, pending |-> x] \in InMemory
  BY <1>1 DEF InMemory
<1>. QED
  BY <1>1, <1>2, <1>3, <1>4

\* What an object is made of when the record is read.
LEMMA RecordRead ==
    ASSUME TypeOK, NEW p \in Pages, Load(p)
    PROVE  /\ disk' = Dropped(disk) /\ disk' \in Record
           /\ disk'.vault = disk.vault /\ disk'.signed = disk.signed
           /\ disk'.pending = IF disk.signed = NoDigest THEN NoPayment ELSE disk.pending
           /\ [vault |-> Dropped(disk).vault, pending |-> Dropped(disk).pending] \in InMemory
           /\ [x \in Key |-> IF x = Dropped(disk).vault THEN Dropped(disk).signed ELSE NoDigest] \in Signatures
           /\ LoadedStage(Dropped(disk)) \in {"idle", "ask"}
<1>1. disk' = [vault |-> disk.vault, signed |-> disk.signed,
               pending |-> IF disk.signed = NoDigest THEN NoPayment ELSE disk.pending]
      /\ disk' = Dropped(disk)
  BY DEF Load, Dropped, TypeOK
<1>2. disk' \in Record
  BY <1>1, Typed DEF Record
<1>. QED
  BY <1>1, <1>2 DEF Record, InMemory, Signatures, LoadedStage

\* Load reads the record, dropping an unsigned send from it.  In a single slot
\* a page that loads has nothing else under way.
LEMMA LoadDoes ==
    ASSUME TypeInv, NEW p \in Pages, \A q \in Pages : q = p, Load(p)
    PROVE  /\ disk'.vault = disk.vault /\ disk'.signed = disk.signed
           /\ disk'.pending = IF disk.signed = NoDigest THEN NoPayment ELSE disk.pending
           /\ disk' \in Record
           /\ at[p].load = "read" /\ at'[p].load \in {"idle", "ask"} /\ at'[p].send = at[p].send
           /\ IF Here(p)
              THEN /\ keys'[p].vault = disk.vault /\ keys'[p].pending = disk'.pending
                   /\ \A x \in Key : signed'[p][x] = IF x = disk.vault THEN disk.signed ELSE NoDigest
                   /\ at[p].send = "idle"
                   /\ screen'[p] = IF disk.vault = 0 THEN "here" ELSE "shown"
              ELSE UNCHANGED <<screen, keys, signed>>
           /\ UNCHANGED <<shown, job, chain, sent, counters>>
<1>1. /\ disk'.vault = disk.vault /\ disk'.signed = disk.signed /\ disk' = Dropped(disk)
      /\ disk'.pending = IF disk.signed = NoDigest THEN NoPayment ELSE disk.pending
      /\ disk' \in Record /\ LoadedStage(Dropped(disk)) \in {"idle", "ask"}
  BY RecordRead DEF TypeInv
<1>2. at[p].load = "read" /\ UNCHANGED <<shown, job, chain, sent, counters>>
  BY DEF Load
<1>3. CASE ~Here(p)
  <2>1. Moves(p, "load", "read", "idle") /\ UNCHANGED <<screen, keys, signed>>
    BY <1>3 DEF Load
  <2>2. at'[p].load = "idle" /\ at'[p].send = at[p].send
    BY <2>1, LoadMoves DEF TypeInv, LoadStages
  <2>. QED
    BY <1>1, <1>2, <1>3, <2>1, <2>2
<1>4. CASE Here(p)
  <2>1. LoadHere(p, disk')
    BY <1>1, <1>4 DEF Load
  <2>2. at[p].send = "idle"
    BY <1>2, <2>1 DEF LoadHere, Free
  <2>3. /\ keys' = [keys EXCEPT ![p] = [vault |-> disk'.vault, pending |-> disk'.pending]]
        /\ signed' = [signed EXCEPT ![p] = [x \in Key |-> IF x = disk'.vault THEN disk'.signed ELSE NoDigest]]
        /\ screen' = Displays(IF disk'.vault = 0 THEN {} ELSE {p})
        /\ at' = [at EXCEPT ![p].load = "idle", ![p] = [load |-> LoadedStage(disk'), send |-> "idle"]]
    BY <2>1 DEF LoadHere
  <2>4. /\ keys'[p] = [vault |-> disk'.vault, pending |-> disk'.pending]
        /\ signed'[p] = [x \in Key |-> IF x = disk'.vault THEN disk'.signed ELSE NoDigest]
        /\ at'[p] = [load |-> LoadedStage(disk'), send |-> "idle"]
        /\ screen'[p] = IF disk'.vault = 0 THEN "here" ELSE "shown"
    BY <1>4, <2>3 DEF TypeInv, TypeOK, Displays
  <2>. QED
    BY <1>1, <1>2, <1>4, <2>2, <2>4
<1>. QED
  BY <1>3, <1>4

\* Confirm takes the pending payment, or the requested one with a fresh key.
LEMMA ConfirmDoes ==
    ASSUME TypeInv, NEW p \in Pages, Confirm(p)
    PROVE  \E pay \in Payment :
           /\ IF keys[p].pending = NoPayment
              THEN /\ pay.request = job[p].pay.request /\ pay.next = fresh
                   /\ fresh \in Key /\ fresh' = fresh + 1 /\ fresh' \in 1..MaxKey + 1
              ELSE pay = keys[p].pending /\ fresh' = fresh
           /\ at[p].send = "confirm" /\ at'[p].send \in {"ask", "check", "persist"} /\ at'[p].load = at[p].load
           /\ keys[p].vault \in Key
           /\ keys'[p].vault = keys[p].vault /\ keys'[p].pending = pay
           /\ IF at'[p].send = "ask" THEN job' = job
              ELSE job'[p].key = keys[p].vault /\ job'[p].pay = pay /\ job'[p] \in Digest
           /\ at' \in [Pages -> [load: LoadStages, send: SendStages]]
           /\ keys' \in [Pages -> InMemory] /\ job' \in [Pages -> HalfDigest]
           /\ Others(p)
           /\ UNCHANGED <<phone, screen, signed, chain, sent, asked, crashes>>
<1>. DEFINE new == keys[p].pending = NoPayment
            pay == IF new THEN [job[p].pay EXCEPT !.next = fresh] ELSE keys[p].pending
<1>1. PICK to \in {"ask", "check", "persist"} :
        /\ Moves(p, "send", "confirm", to)
        /\ job' = IF to = "ask" THEN job ELSE [job EXCEPT ![p] = [key |-> keys[p].vault, pay |-> pay]]
  <2>1. CASE pay.amount = job[p].pay.amount
    BY <2>1 DEF Confirm
  <2>2. CASE pay.amount # job[p].pay.amount
    BY <2>2 DEF Confirm
  <2>. QED
    BY <2>1, <2>2
<1>2. /\ at' \in [Pages -> [load: LoadStages, send: SendStages]]
      /\ at[p].send = "confirm" /\ at'[p].send = to /\ at'[p].load = at[p].load
      /\ \A q \in Pages \ {p} : at'[q] = at[q]
  BY <1>1, SendMoves DEF SendStages, TypeInv
<1>3. keys[p].vault \in Key
  BY <1>2 DEF TypeInv, StagesMatch
<1>4. pay \in Payment
      /\ IF new THEN /\ pay.request = job[p].pay.request /\ pay.next = fresh
                     /\ fresh \in Key /\ fresh' = fresh + 1 /\ fresh' \in 1..MaxKey + 1
                ELSE pay = keys[p].pending /\ fresh' = fresh
  <2>1. CASE new
    <3>1. fresh \in Key /\ fresh' = fresh + 1 /\ fresh' \in 1..MaxKey + 1
      BY <2>1, BoundsAssumption, SMTT(40) DEF Confirm, TypeInv, TypeOK, Key
    <3>2. job[p].pay \in HalfPayment /\ job[p].pay.amount \in Amounts /\ job[p].pay.request \in 1..MaxAsks
      BY <1>2 DEF TypeInv, StagesMatch, HalfDigest
    <3>3. pay = [amount |-> job[p].pay.amount, next |-> fresh, request |-> job[p].pay.request]
      BY <2>1, <3>2 DEF HalfPayment
    <3>. QED
      BY <2>1, <3>1, <3>2, <3>3 DEF Payment
  <2>2. CASE ~new
    BY <2>2 DEF Confirm, TypeInv, TypeOK
  <2>. QED
    BY <2>1, <2>2
<1>5. keys' = [keys EXCEPT ![p].pending = pay] /\ UNCHANGED <<phone, screen, signed, chain, sent, asked, crashes>>
  BY DEF Confirm
<1>. HIDE DEF new, pay
<1>6. /\ keys' \in [Pages -> InMemory] /\ keys'[p] = [vault |-> keys[p].vault, pending |-> pay]
      /\ \A q \in Pages \ {p} : keys'[q] = keys[q]
  BY <1>4, <1>5, PendingSet DEF TypeInv
<1>7. /\ job' \in [Pages -> HalfDigest] /\ IF to = "ask" THEN job' = job ELSE job'[p] = [key |-> keys[p].vault, pay |-> pay]
      /\ \A q \in Pages \ {p} : job'[q] = job[q]
      /\ to = "ask" \/ job'[p] \in Digest
  BY <1>1, <1>3, <1>4, DataTypes DEF TypeInv, HalfDigest, Digest
<1>8. Others(p)
  BY <1>2, <1>5, <1>6, <1>7 DEF Others
<1>. QED
  BY <1>2, <1>3, <1>4, <1>5, <1>6, <1>7, <1>8 DEF new

\* A landed send is finished, in memory and, unless the save fails, on disk.
LEMMA FinishDoes ==
    ASSUME TypeInv, NEW p \in Pages, NEW task \in Tasks, Settle(p, task) \/ (task = "send" /\ Finish(p))
    PROVE  \E to \in {"adopt", "idle", "failed", "stuck"} :
           /\ \/ at[p].load = "answer" /\ at'[p].load = to /\ to \in {"idle", "adopt"} /\ at'[p].send = at[p].send
              \/ /\ at[p].send \in {"answer", "finish"} /\ at'[p].send = to /\ to # "idle"
                 /\ at'[p].load = at[p].load
           /\ \/ keys[p].pending = NoPayment /\ to # "adopt" /\ UNCHANGED <<keys, disk>>
              \/ /\ keys[p].pending \in Payment
                 /\ keys'[p].vault = keys[p].pending.next /\ keys'[p].pending = NoPayment
                 /\ keys'[p].vault \in Key
                 /\ to = "adopt" => /\ disk'.vault = keys'[p].vault /\ disk'.pending = NoPayment
                                    /\ disk'.signed = signed[p][keys'[p].vault]
                 /\ to # "adopt" => UNCHANGED disk
           /\ at' \in [Pages -> [load: LoadStages, send: SendStages]]
           /\ keys' \in [Pages -> InMemory] /\ disk' \in Record
           /\ Others(p)
           /\ UNCHANGED <<shown, screen, signed, job, chain, sent, counters>>
<1>1. PICK from \in {"answer", "finish"}, to \in {"adopt", "idle", "failed", "stuck"} :
        /\ Moves(p, task, from, to)
        /\ task = "load" => from = "answer" /\ to \in {"idle", "adopt"}
        /\ task = "send" => to # "idle"
        /\ \/ keys[p].pending = NoPayment /\ to # "adopt" /\ UNCHANGED <<keys, disk>>
           \/ /\ keys[p].pending # NoPayment
              /\ keys' = [keys EXCEPT ![p] = Finished(p)]
              /\ to = "adopt" => Write(Finished(p), signed[p])
              /\ to # "adopt" => UNCHANGED disk
  BY DEF Settle, Finish, SaveFails
<1>2. /\ at' \in [Pages -> [load: LoadStages, send: SendStages]]
      /\ \A q \in Pages \ {p} : at'[q] = at[q]
      /\ \/ at[p].load = "answer" /\ at'[p].load = to /\ to \in {"idle", "adopt"} /\ at'[p].send = at[p].send
         \/ at[p].send \in {"answer", "finish"} /\ at'[p].send = to /\ to # "idle" /\ at'[p].load = at[p].load
  <2>1. CASE task = "load"
    BY <1>1, <2>1, LoadMoves DEF TypeInv, LoadStages
  <2>2. CASE task = "send"
    BY <1>1, <2>2, SendMoves DEF TypeInv, SendStages
  <2>. QED
    BY <2>1, <2>2 DEF Tasks
<1>3. UNCHANGED <<shown, screen, signed, job, chain, sent, counters>>
  BY DEF Settle, Finish
<1>4. CASE keys[p].pending = NoPayment
  <2>1. UNCHANGED <<keys, disk>> /\ to # "adopt"
    BY <1>1, <1>4
  <2>. QED
    BY <1>2, <1>3, <1>4, <2>1, Typed DEF TypeInv, Others
<1>5. CASE keys[p].pending # NoPayment
  <2>1. keys[p].pending \in Payment /\ keys[p].pending.next \in Key
    BY <1>5, Typed, DataTypes DEF TypeInv, InMemory
  <2>2. Finished(p) = [vault |-> keys[p].pending.next, pending |-> NoPayment] /\ Finished(p) \in InMemory
    BY <2>1 DEF Finished, InMemory
  <2>3. /\ keys' \in [Pages -> InMemory] /\ keys'[p] = Finished(p)
        /\ \A q \in Pages \ {p} : keys'[q] = keys[q]
    BY <1>1, <1>5, <2>2, Typed DEF TypeInv
  <2>4. /\ disk' \in Record
        /\ disk' = IF to = "adopt" THEN [vault |-> keys'[p].vault, signed |-> signed[p][keys'[p].vault],
                                         pending |-> NoPayment] ELSE disk
    BY <1>1, <1>5, <2>1, <2>2, <2>3, Typed, WriteTyped DEF TypeInv
  <2>5. Others(p)
    BY <1>2, <1>3, <2>3 DEF Others
  <2>6. keys'[p].vault = keys[p].pending.next /\ keys'[p].pending = NoPayment
    BY <2>2, <2>3
  <2>7. to = "adopt" => /\ disk'.vault = keys'[p].vault /\ disk'.pending = NoPayment
                        /\ disk'.signed = signed[p][keys'[p].vault]
    BY <2>4
  <2>8. to # "adopt" => UNCHANGED disk
    BY <2>4
  <2>. QED
    BY <1>2, <1>3, <2>1, <2>3, <2>4, <2>5, <2>6, <2>7, <2>8, ZenonT(40)
<1>. QED
  BY <1>4, <1>5

\* Failing drops an unsigned send, in memory and, unless the save fails, on disk.
LEMMA HandleDoes ==
    ASSUME TypeInv, NEW p \in Pages, Handle(p)
    PROVE  /\ at[p].send = "failed" /\ at'[p].send = "ask" /\ at'[p].load = at[p].load
           /\ keys[p].vault \in Key
           /\ IF signed[p][keys[p].vault] = NoDigest
              THEN /\ keys'[p].vault = keys[p].vault /\ keys'[p].pending = NoPayment
                   /\ \/ UNCHANGED disk
                      \/ disk'.vault = keys[p].vault /\ disk'.signed = NoDigest /\ disk'.pending = NoPayment
              ELSE UNCHANGED <<keys, disk>>
           /\ at' \in [Pages -> [load: LoadStages, send: SendStages]]
           /\ keys' \in [Pages -> InMemory] /\ disk' \in Record
           /\ Others(p)
           /\ UNCHANGED <<shown, screen, signed, job, chain, sent, counters>>
<1>1. /\ at' \in [Pages -> [load: LoadStages, send: SendStages]]
      /\ at[p].send = "failed" /\ at'[p].send = "ask" /\ at'[p].load = at[p].load
      /\ \A q \in Pages \ {p} : at'[q] = at[q]
  BY SendMoves DEF Handle, TypeInv, SendStages
<1>2. keys[p].vault \in Key /\ UNCHANGED <<shown, screen, signed, job, chain, sent, counters>>
  BY <1>1 DEF Handle, TypeInv, StagesMatch
<1>3. CASE signed[p][keys[p].vault] = NoDigest
  <2>1. keys' = [keys EXCEPT ![p].pending = NoPayment] /\ (Write(keys'[p], signed[p]) \/ UNCHANGED disk)
    BY <1>3 DEF Handle, CanDrop, SaveFails
  <2>2. /\ keys' \in [Pages -> InMemory] /\ keys'[p] = [vault |-> keys[p].vault, pending |-> NoPayment]
        /\ \A q \in Pages \ {p} : keys'[q] = keys[q]
    BY <2>1, PendingSet DEF TypeInv
  <2>3. disk' \in Record /\ disk' \in {disk, [vault |-> keys[p].vault, signed |-> NoDigest, pending |-> NoPayment]}
    <3>1. CASE UNCHANGED disk
      BY <3>1, Typed DEF TypeInv
    <3>2. CASE Write(keys'[p], signed[p])
      BY <1>2, <1>3, <2>2, <3>2, Typed, WriteTyped DEF TypeInv
    <3>. QED
      BY <2>1, <3>1, <3>2
  <2>. QED
    BY <1>1, <1>2, <1>3, <2>2, <2>3 DEF Others
<1>4. CASE signed[p][keys[p].vault] # NoDigest
  BY <1>1, <1>2, <1>4, Typed DEF Handle, CanDrop, TypeInv, Others
<1>. QED
  BY <1>3, <1>4

\* Persist writes what the page holds.
LEMMA PersistDoes ==
    ASSUME TypeInv, NEW p \in Pages, Persist(p)
    PROVE  /\ at[p].send = "persist" /\ at'[p].send = "prep" /\ at'[p].load = at[p].load
           /\ keys[p].vault \in Key /\ MaySign(p)
           /\ disk'.vault = keys[p].vault /\ disk'.signed = signed[p][keys[p].vault] /\ disk'.pending = keys[p].pending
           /\ at' \in [Pages -> [load: LoadStages, send: SendStages]] /\ disk' \in Record
           /\ Others(p)
           /\ UNCHANGED <<shown, screen, keys, signed, job, chain, sent, counters>>
<1>1. /\ at' \in [Pages -> [load: LoadStages, send: SendStages]]
      /\ at[p].send = "persist" /\ at'[p].send = "prep" /\ at'[p].load = at[p].load
      /\ \A q \in Pages \ {p} : at'[q] = at[q]
  BY SendMoves DEF Persist, TypeInv, SendStages
<1>2. keys[p].vault \in Key /\ Write(keys[p], signed[p]) /\ MaySign(p)
      /\ UNCHANGED <<shown, screen, keys, signed, job, chain, sent, counters>>
  BY <1>1 DEF Persist, TypeInv, StagesMatch
<1>. QED
  BY <1>1, <1>2, Typed, WriteTyped DEF TypeInv, Others

\* Sign records the digest in memory and, unless the save fails, on disk.
LEMMA SignDoes ==
    ASSUME TypeInv, NEW p \in Pages, Sign(p)
    PROVE  /\ at[p].send = "sign" /\ at'[p].send \in {"cast", "failed"} /\ at'[p].load = at[p].load
           /\ keys[p].vault \in Key /\ job[p] \in Digest /\ MaySign(p)
           /\ signed'[p][job[p].key] = job[p]
           /\ \A k \in Key : k # job[p].key => signed'[p][k] = signed[p][k]
           /\ at'[p].send = "cast" => /\ disk'.vault = keys[p].vault /\ disk'.pending = keys[p].pending
                                      /\ disk'.signed = signed'[p][keys[p].vault]
           /\ at'[p].send # "cast" => UNCHANGED disk
           /\ at' \in [Pages -> [load: LoadStages, send: SendStages]]
           /\ signed' \in [Pages -> Signatures] /\ disk' \in Record
           /\ Others(p)
           /\ UNCHANGED <<shown, screen, keys, job, chain, sent, counters>>
<1>1. PICK to \in {"cast", "failed"} :
        Moves(p, "send", "sign", to) /\ IF to = "cast" THEN Write(keys[p], signed'[p]) ELSE UNCHANGED disk
  BY DEF Sign, WriteSigned, SaveFails
<1>2. /\ at' \in [Pages -> [load: LoadStages, send: SendStages]]
      /\ at[p].send = "sign" /\ at'[p].send = to /\ at'[p].load = at[p].load
      /\ \A q \in Pages \ {p} : at'[q] = at[q]
  BY <1>1, SendMoves DEF TypeInv, SendStages
<1>3. keys[p].vault \in Key /\ job[p] \in Digest /\ job[p].key \in Key /\ MaySign(p)
      /\ UNCHANGED <<shown, screen, keys, job, chain, sent, counters>>
  BY <1>2, DataTypes DEF Sign, TypeInv, StagesMatch, Signing
<1>4. signed' = [signed EXCEPT ![p][job[p].key] = job[p]]
  BY DEF Sign
<1>5. /\ signed' \in [Pages -> Signatures] /\ signed'[p][job[p].key] = job[p]
      /\ \A k \in Key : k # job[p].key => signed'[p][k] = signed[p][k]
      /\ \A q \in Pages \ {p} : signed'[q] = signed[q]
  BY <1>3, <1>4, Typed DEF TypeInv, Signatures
<1>6. disk' \in Record
      /\ disk' = IF to = "cast" THEN [vault |-> keys[p].vault, signed |-> signed'[p][keys[p].vault], pending |-> keys[p].pending]
                 ELSE disk
  BY <1>1, <1>3, <1>5, Typed, WriteTyped DEF TypeInv
<1>. QED
  BY <1>2, <1>3, <1>5, <1>6 DEF Others

\* Creating keys takes the next one.
LEMMA CreateDoes ==
    ASSUME TypeInv, NEW p \in Pages, Create(p)
    PROVE  /\ fresh \in Key /\ fresh' = fresh + 1 /\ fresh' \in 1..MaxKey + 1
           /\ OffersCreation /\ Free(p)
           /\ keys'[p].vault = fresh /\ keys'[p].pending = NoPayment
           /\ \A k \in Key : signed'[p][k] = NoDigest
           /\ screen' \in [Pages -> {"gone", "here", "shown"}] /\ screen'[p] = "here"
           /\ \A q \in Pages \ {p} : screen'[q] = screen[q]
           /\ disk'.vault = fresh /\ disk'.signed = NoDigest /\ disk'.pending = NoPayment
           /\ at'[p].load = "created" /\ at'[p].send = "idle"
           /\ at' \in [Pages -> [load: LoadStages, send: SendStages]]
           /\ keys' \in [Pages -> InMemory] /\ signed' \in [Pages -> Signatures] /\ disk' \in Record
           /\ Others(p)
           /\ UNCHANGED <<shown, job, chain, sent, asked, crashes>>
<1>1. fresh \in Key /\ fresh' = fresh + 1 /\ fresh' \in 1..MaxKey + 1
  BY BoundsAssumption, SMTT(40) DEF Create, TypeInv, TypeOK, Key
<1>2. disk' = [vault |-> fresh, signed |-> NoDigest, pending |-> NoPayment]
  BY <1>1 DEF Create, Write, Unsigned, TypeInv, TypeOK
<1>3. /\ keys'[p] = [vault |-> fresh, pending |-> NoPayment] /\ keys' \in [Pages -> InMemory]
      /\ \A q \in Pages \ {p} : keys'[q] = keys[q]
  BY <1>1 DEF Create, TypeInv, TypeOK, InMemory
<1>4. /\ at' \in [Pages -> [load: LoadStages, send: SendStages]]
      /\ at'[p].load = "created" /\ at'[p].send = "idle"
      /\ \A q \in Pages \ {p} : at'[q] = at[q]
  BY DEF Create, TypeInv, TypeOK, LoadStages, SendStages
<1>5. /\ signed' \in [Pages -> Signatures] /\ \A k \in Key : signed'[p][k] = NoDigest
      /\ \A q \in Pages \ {p} : signed'[q] = signed[q]
  BY DEF Create, TypeInv, TypeOK, Signatures, Unsigned
<1>6. /\ screen' \in [Pages -> {"gone", "here", "shown"}] /\ screen'[p] = "here"
      /\ \A q \in Pages \ {p} : screen'[q] = screen[q]
  BY DEF Create, TypeInv, TypeOK
<1>. QED
  BY <1>1, <1>2, <1>3, <1>4, <1>5, <1>6 DEF Create, Record, Others

----------------------------------------------------------------------------
(* Types.                                                                   *)

\* A step that only moves a task to a stage whose needs are met.
LEMMA GoesTyped ==
    ASSUME TypeInv, NEW p \in Pages, NEW task \in Tasks, NEW from, NEW to, Goes(p, task, from, to),
           \/ task = "load" /\ to \in {"idle", "answer"}
           \/ task = "send" /\ from # "idle" /\ to \in {"idle", "answer", "failed", "finish"}
           \/ task = "send" /\ from = "check" /\ to = "persist"
           \/ task = "send" /\ from = "prep" /\ to = "sign"
    PROVE  TypeInv'
<1>1. CASE task = "load" /\ to \in {"idle", "answer"}
  <2>1. Moves(p, "load", from, to)
    BY <1>1 DEF Goes
  <2>2. StagesMatch'
    BY <1>1, <2>1, LoadMoves DEF Goes, TypeInv, StagesMatch, LoadStages
  <2>. QED
    BY <1>1, <2>1, <2>2, LoadMoves DEF Goes, TypeInv, TypeOK, phone, chain, counters, LoadStages, SendStages
<1>2. CASE task = "send"
  <2>1. Moves(p, "send", from, to)
    BY <1>2 DEF Goes
  <2>2. to \in SendStages /\ UNCHANGED <<job, keys, screen>> /\ TypeOK
    BY <1>2 DEF SendStages, Goes, TypeInv
  <2>3. /\ at[p].send = from /\ at'[p].send = to /\ at'[p].load = at[p].load
        /\ \A q \in Pages \ {p} : at'[q] = at[q]
    BY <2>1, <2>2, SendMoves
  <2>4. StagesMatch'
    BY <1>2, <2>2, <2>3 DEF TypeInv, StagesMatch, Signing
  <2>. QED
    BY <1>2, <2>1, <2>2, <2>4, SendMoves DEF Goes, TypeInv, TypeOK, phone, chain, counters, LoadStages, SendStages
<1>. QED
  BY <1>1, <1>2 DEF Tasks

\* A task that adopts its object holds one to show.
LEMMA AdoptsTyped ==
    ASSUME TypeInv, NEW p \in Pages, Adopts(p),
           UNCHANGED <<disk, keys, signed, job, chain, sent, counters>>,
           at' \in [Pages -> [load: LoadStages, send: SendStages]],
           \A q \in Pages \ {p} : at'[q] = at[q],
           \/ at[p].load \in {"created", "adopt"} /\ at'[p].load \in {"read", "idle"} /\ at'[p].send = at[p].send
           \/ at[p].send = "adopt" /\ at'[p].send = "idle" /\ at'[p].load = at[p].load
    PROVE  TypeOK' /\ StagesMatch'
<1>1. keys[p].vault \in Key
  BY DEF TypeInv, StagesMatch
<1>2. /\ screen' \in [Pages -> {"gone", "here", "shown"}]
      /\ \A q \in Pages \ {p} : screen'[q] = "shown" => screen[q] = "shown"
  BY DEF Adopts, Displays, TypeInv, TypeOK
<1>3. TypeOK'
  BY <1>1, <1>2 DEF Adopts, TypeInv, TypeOK, chain, counters, LoadStages, SendStages
<1>4. StagesMatch'
  BY <1>1, <1>2 DEF TypeInv, StagesMatch, Signing
<1>. QED
  BY <1>3, <1>4

\* The types are kept by every step.
LEMMA TypeStep ==
    ASSUME TypeInv, [Next]_vars
    PROVE  TypeInv'
<1>1. ASSUME NEW p \in Pages, OpenPage(p) PROVE TypeInv'
  BY <1>1, DataTypes DEF OpenPage, TypeInv, TypeOK, StagesMatch, phone, chain, counters, NoKeys, Unsigned, Signing, NoDigest
<1>2. CASE LeavePage
  BY <1>2 DEF LeavePage, TypeInv, TypeOK, StagesMatch, phone, chain, counters, Signing
<1>3. ASSUME NEW p \in Pages, Load(p) PROVE TypeInv'
  <2>1. /\ disk' \in Record /\ UNCHANGED <<shown, job, chain, sent, counters>> /\ TypeOK
        /\ at[p].load = "read"
    BY <1>3, RecordRead DEF Load, TypeInv
  <2>2. CASE ~Here(p)
    <3>1. Moves(p, "load", "read", "idle") /\ UNCHANGED <<screen, keys, signed>>
      BY <1>3, <2>2 DEF Load
    <3>2. /\ at' \in [Pages -> [load: LoadStages, send: SendStages]]
          /\ at'[p].load = "idle" /\ at'[p].send = at[p].send
          /\ \A q \in Pages \ {p} : at'[q] = at[q]
      BY <2>1, <3>1, LoadMoves DEF LoadStages
    <3>3. TypeOK'
      BY <2>1, <3>1, <3>2 DEF TypeOK, Record, LoadStages, SendStages, chain, counters
    <3>4. StagesMatch'
      BY <2>1, <3>1, <3>2 DEF TypeInv, StagesMatch, Signing
    <3>. QED
      BY <2>1, <3>3, <3>4 DEF TypeInv
  <2>3. CASE Here(p)
    <3>. DEFINE k == [vault |-> Dropped(disk).vault, pending |-> Dropped(disk).pending]
                sg == [x \in Key |-> IF x = Dropped(disk).vault THEN Dropped(disk).signed ELSE NoDigest]
                to == LoadedStage(Dropped(disk))
    <3>1. PICK q \in Pages :
            /\ keys' = [keys EXCEPT ![q] = k] /\ signed' = [signed EXCEPT ![q] = sg]
            /\ screen' = Displays(IF k.vault = 0 THEN {} ELSE {q})
            /\ at' = [at EXCEPT ![p].load = "idle", ![q] = [load |-> to, send |-> "idle"]]
      BY <1>3, <2>3 DEF Load, LoadHere
    <3>2. k \in InMemory /\ sg \in Signatures /\ to \in {"idle", "ask"}
      BY <1>3, <2>1, RecordRead
    <3>. HIDE DEF k, sg, to
    <3>3. /\ keys' \in [Pages -> InMemory] /\ signed' \in [Pages -> Signatures]
          /\ keys'[q] = k /\ \A r \in Pages \ {q} : keys'[r] = keys[r]
      BY <2>1, <3>1, <3>2, Typed
    <3>4. /\ at' \in [Pages -> [load: LoadStages, send: SendStages]]
          /\ at'[q].load = to /\ at'[q].send = "idle"
          /\ \A r \in Pages \ {q} : at'[r].send = at[r].send /\ at'[r].load \in {at[r].load, "idle"}
      BY <2>1, <3>1, <3>2 DEF TypeOK, LoadStages, SendStages
    <3>5. /\ screen' \in [Pages -> {"gone", "here", "shown"}]
          /\ screen'[q] = "shown" => k.vault \in Key
          /\ \A r \in Pages \ {q} : screen'[r] # "shown"
      BY <3>1, <3>2 DEF Displays, InMemory
    <3>6. TypeOK'
      BY <2>1, <3>3, <3>4, <3>5 DEF TypeOK, Record, InMemory, Signatures, LoadStages, SendStages, chain, counters
    <3>7. StagesMatch'
      BY <2>1, <3>2, <3>3, <3>4, <3>5 DEF TypeInv, StagesMatch, Signing
    <3>. QED
      BY <2>1, <3>6, <3>7 DEF TypeInv
  <2>. QED
    BY <2>2, <2>3
<1>4. ASSUME NEW p \in Pages, Create(p) PROVE TypeInv'
  <2>1. TypeOK'
    BY <1>4, CreateDoes DEF TypeInv, TypeOK, Record, InMemory, Signatures, LoadStages, SendStages, chain
  <2>2. StagesMatch'
    BY <1>4, CreateDoes DEF TypeInv, StagesMatch, Others, Signing
  <2>. QED
    BY <1>4, <2>1, <2>2 DEF Create, TypeInv
<1>5. ASSUME NEW p \in Pages, ShowCreated(p) PROVE TypeInv'
  <2>1. /\ at' \in [Pages -> [load: LoadStages, send: SendStages]]
        /\ at[p].load = "created" /\ at'[p].load = "read" /\ at'[p].send = at[p].send
        /\ \A q \in Pages \ {p} : at'[q] = at[q]
    BY <1>5, LoadMoves DEF ShowCreated, TypeInv, LoadStages
  <2>2. TypeOK' /\ StagesMatch'
    BY <1>5, <2>1, AdoptsTyped DEF ShowCreated
  <2>. QED
    BY <1>5, <2>2 DEF ShowCreated, TypeInv
<1>6. ASSUME NEW p \in Pages, NEW task \in Tasks, Settle(p, task) \/ (task = "send" /\ Finish(p)) PROVE TypeInv'
  <2>1. PICK to \in {"adopt", "idle", "failed", "stuck"} :
           /\ \/ at[p].load = "answer" /\ at'[p].load = to /\ to \in {"idle", "adopt"} /\ at'[p].send = at[p].send
              \/ /\ at[p].send \in {"answer", "finish"} /\ at'[p].send = to /\ to # "idle"
                 /\ at'[p].load = at[p].load
           /\ (UNCHANGED keys /\ to # "adopt") \/ keys'[p].vault \in Key
           /\ at' \in [Pages -> [load: LoadStages, send: SendStages]]
           /\ keys' \in [Pages -> InMemory] /\ disk' \in Record
           /\ Others(p)
           /\ UNCHANGED <<shown, screen, signed, job, chain, sent, counters>>
    BY <1>6, FinishDoes
  <2>2. TypeOK'
    BY <2>1 DEF TypeInv, TypeOK, Record, InMemory, LoadStages, SendStages, chain, counters
  <2>3. StagesMatch'
    BY <2>1 DEF TypeInv, StagesMatch, Others, Signing
  <2>. QED
    BY <2>1, <2>2, <2>3 DEF TypeInv
<1>7. ASSUME NEW p \in Pages, NEW task \in Tasks, Adopt(p, task) PROVE TypeInv'
  <2>1. /\ at' \in [Pages -> [load: LoadStages, send: SendStages]]
        /\ \A q \in Pages \ {p} : at'[q] = at[q]
        /\ \/ at[p].load = "adopt" /\ at'[p].load = "idle" /\ at'[p].send = at[p].send
           \/ at[p].send = "adopt" /\ at'[p].send = "idle" /\ at'[p].load = at[p].load
    BY <1>7, LoadMoves, SendMoves DEF Adopt, Tasks, TypeInv, LoadStages, SendStages
  <2>2. TypeOK' /\ StagesMatch'
    BY <1>7, <2>1, AdoptsTyped DEF Adopt
  <2>. QED
    BY <1>7, <2>2 DEF Adopt, TypeInv
<1>8. ASSUME NEW p \in Pages, NEW n \in Amounts, Press(p, n) PROVE TypeInv'
  <2>1. /\ at' \in [Pages -> [load: LoadStages, send: SendStages]]
        /\ at'[p].send = "confirm" /\ at'[p].load = at[p].load
        /\ keys[p].vault \in Key
        /\ \A q \in Pages \ {p} : at'[q] = at[q]
    BY <1>8, SendMoves DEF Press, TypeInv, StagesMatch, SendStages
  <2>2. /\ asked' \in 0..MaxAsks
        /\ keys[p].pending = NoPayment => asked' \in 1..MaxAsks
    BY <1>8, BoundsAssumption DEF Press, TypeInv, TypeOK
  <2>3. PICK pay \in HalfPayment :
          /\ pay.amount \in Amounts /\ pay.request \in 1..MaxAsks
          /\ job' = [job EXCEPT ![p] = [key |-> 0, pay |-> pay]]
    <3>1. CASE keys[p].pending = NoPayment
      BY <1>8, <2>2, <3>1 DEF Press, HalfPayment
    <3>2. CASE keys[p].pending # NoPayment
      BY <1>8, <3>2, DataTypes, Typed DEF Press, TypeInv, InMemory
    <3>. QED
      BY <3>1, <3>2
  <2>4. /\ job' \in [Pages -> HalfDigest] /\ job'[p].pay = pay
        /\ \A q \in Pages \ {p} : job'[q] = job[q]
    BY <2>3 DEF TypeInv, HalfDigest
  <2>5. TypeOK'
    BY <1>8, <2>1, <2>2 DEF Press, TypeInv, TypeOK, LoadStages, SendStages, phone, chain
  <2>6. StagesMatch'
    BY <1>8, <2>1, <2>3, <2>4 DEF Press, TypeInv, StagesMatch, Signing
  <2>. QED
    BY <2>4, <2>5, <2>6 DEF TypeInv
<1>9. ASSUME NEW p \in Pages, Confirm(p) PROVE TypeInv'
  <2>1. PICK pay \in Payment :
          /\ fresh' = fresh \/ fresh' \in 1..MaxKey + 1
          /\ at'[p].send \in {"ask", "check", "persist"} /\ at'[p].load = at[p].load /\ at[p].send = "confirm"
          /\ keys[p].vault \in Key /\ keys'[p].vault = keys[p].vault
          /\ at'[p].send = "ask" \/ job'[p] \in Digest
          /\ at' \in [Pages -> [load: LoadStages, send: SendStages]]
          /\ keys' \in [Pages -> InMemory] /\ job' \in [Pages -> HalfDigest]
          /\ Others(p)
          /\ UNCHANGED <<phone, screen, signed, chain, sent, asked, crashes>>
    <3>1. CASE keys[p].pending = NoPayment
      BY <1>9, <3>1, ConfirmDoes
    <3>2. CASE keys[p].pending # NoPayment
      BY <1>9, <3>2, ConfirmDoes
    <3>. QED
      BY <3>1, <3>2
  <2>2. TypeOK'
    BY <2>1 DEF TypeInv, TypeOK, InMemory, LoadStages, SendStages, phone, chain
  <2>3. StagesMatch'
    BY <2>1 DEF TypeInv, StagesMatch, Others, Signing
  <2>. QED
    BY <2>1, <2>2, <2>3 DEF TypeInv
<1>10. ASSUME NEW p \in Pages, Persist(p) PROVE TypeInv'
  <2>1. TypeOK'
    BY <1>10, PersistDoes DEF TypeInv, TypeOK, Record, LoadStages, SendStages, chain, counters
  <2>2. StagesMatch'
    BY <1>10, PersistDoes DEF TypeInv, StagesMatch, Others, Signing
  <2>. QED
    BY <1>10, <2>1, <2>2 DEF Persist, TypeInv
<1>11. ASSUME NEW p \in Pages, Sign(p) PROVE TypeInv'
  <2>1. TypeOK'
    BY <1>11, SignDoes DEF TypeInv, TypeOK, Record, Signatures, LoadStages, SendStages, chain, counters
  <2>2. StagesMatch'
    BY <1>11, SignDoes DEF TypeInv, StagesMatch, Others, Signing
  <2>. QED
    BY <1>11, <2>1, <2>2 DEF Sign, TypeInv
<1>12. ASSUME NEW p \in Pages, NEW reply \in {"wait", "failed"}, Broadcast(p, reply) PROVE TypeInv'
  BY <1>12, ZenonT(40) DEF Broadcast, Moves, TypeInv, TypeOK, StagesMatch, phone, chain, counters, Signing
<1>13. ASSUME NEW p \in Pages, Handle(p) PROVE TypeInv'
  <2>1. TypeOK'
    BY <1>13, HandleDoes DEF TypeInv, TypeOK, Record, InMemory, LoadStages, SendStages, chain, counters
  <2>2. /\ keys'[p].vault = keys[p].vault /\ keys[p].vault \in Key
        /\ at[p].send = "failed" /\ at'[p].send = "ask" /\ at'[p].load = at[p].load
        /\ Others(p) /\ UNCHANGED <<screen, job>>
    <3>1. CASE signed[p][keys[p].vault] = NoDigest
      BY <1>13, <3>1, HandleDoes
    <3>2. CASE signed[p][keys[p].vault] # NoDigest
      BY <1>13, <3>2, HandleDoes
    <3>. QED
      BY <3>1, <3>2
  <2>3. StagesMatch'
    BY <2>2 DEF TypeInv, StagesMatch, Others, Signing
  <2>. QED
    BY <1>13, <2>1, <2>3, HandleDoes DEF TypeInv
<1>14. ASSUME NEW p \in Pages, Proceeds(p) PROVE TypeInv'
  <2>1. CASE TryLoad(p)
    BY <2>1, <1>3, GoesTyped DEF TryLoad, LoadFails, Tasks
  <2>2. CASE \E task \in Tasks : AskYes(p, task) \/ AskNo(p, task) \/ Settle(p, task) \/ Adopt(p, task)
    BY <2>2, GoesTyped, <1>6, <1>7 DEF AskYes, AskNo, Tasks
  <2>3. CASE Check(p) \/ Prepare(p) \/ Confirmed(p) \/ Throw(p)
    BY <2>3, GoesTyped DEF Check, Prepare, Confirmed, Throw, Tasks
  <2>4. CASE Finish(p)
    BY <2>4, <1>6 DEF Tasks
  <2>. QED
    BY <1>14, <2>1, <2>2, <2>3, <2>4, <1>4, <1>5, <1>8, <1>10, <1>11, <1>12, <1>13 DEF Proceeds
<1>15. ASSUME NEW p \in Pages, Cancel(p) PROVE TypeInv'
  BY <1>15, GoesTyped DEF Cancel, Tasks
<1>16. CASE Deposit
  BY <1>16 DEF Deposit, TypeInv, TypeOK, StagesMatch, phone, app, chain, counters, Signing
<1>17. ASSUME NEW d \in net, Land(d) PROVE TypeInv'
  <2>1. d \in Digest /\ d.key \in Key /\ d.pay.next \in Key /\ d.pay.amount \in Nat
    BY <1>17, DataTypes DEF TypeInv, TypeOK
  <2>2. bal' \in [Key -> Nat] /\ spent' \subseteq Key /\ net' \subseteq sent' /\ paid' \subseteq sent'
    BY <1>17, <2>1 DEF Land, Acceptable, TypeInv, TypeOK
  <2>. QED
    BY <1>17, <2>2 DEF Land, TypeInv, TypeOK, StagesMatch, phone, app, counters, Signing
<1>18. ASSUME NEW d \in net, Expire(d) PROVE TypeInv'
  BY <1>18 DEF Expire, TypeInv, TypeOK, StagesMatch, phone, app, chain, counters, Signing
<1>19. CASE Crash
  BY <1>19, DataTypes, BoundsAssumption DEF Crash, Idle, NoKeys, Unsigned, TypeInv, TypeOK, StagesMatch, phone, chain, counters, Signing
<1>20. CASE UNCHANGED vars
  BY <1>20 DEF vars, TypeInv, TypeOK, StagesMatch, phone, app, chain, counters, Signing
<1>. QED
  BY <1>1, <1>2, <1>9, <1>14, <1>15, <1>16, <1>17, <1>18, <1>19, <1>20 DEF Next, World

\* No send is under way at the start.
LEMMA TypeInit == Init => TypeInv
  BY DataTypes, BoundsAssumption DEF Init, TypeInv, TypeOK, StagesMatch, Idle, NoRecord, NoKeys, Unsigned, Signing

\* Every variable has its type, and a task holds what its stage needs: a send
\* past the dialog has keys, and one that may sign has a whole digest to sign
\* (lib/keystore.dart, lib/send.dart).
THEOREM TypeCorrect == Spec => []TypeInv
<1>1. TypeInv /\ [Next]_vars => TypeInv'
  BY TypeStep
<1>. QED
  BY <1>1, TypeInit, PTL DEF Spec

----------------------------------------------------------------------------
(* One message per key, for one page at a time: a phone shows one page, and *)
(* no task of an earlier page is still running.  Its user does not act      *)
(* while the page reads the record.                                         *)

OnePage == \A p, q \in Pages : p = q
Unhurried == OnePage /\ Patience # "none"

\* Nothing is under way while the record is read.
ReadsFirst == \A p \in Pages : at[p].load \in {"created", "read"} => at[p].send = "idle"

\* Keys are made in order, so a pending payment's vault is newer than the
\* vault it is paid from.
InOrder(k) ==
    /\ k.vault < fresh
    /\ k.pending # NoPayment => k.vault < k.pending.next /\ k.pending.next < fresh
KeysInOrder ==
    /\ InOrder(disk)
    /\ \A p \in Pages : InOrder(keys[p])
    /\ \A p \in Pages : at[p].send \in Signing => job[p].key <= keys[p].vault

\* When the signature is about to leave, its digest is in memory, and on disk
\* unless the record has moved on to a newer vault.
CastRecorded ==
    \A p \in Pages : at[p].send = "cast" =>
        /\ signed[p][job[p].key] = job[p]
        /\ job[p].key <= disk.vault
        /\ disk.vault = job[p].key => disk.signed = job[p]

\* A digest whose signature left is what every holder of its key knows the key
\* to have signed, and its key is nobody's next vault.
Recorded(d) ==
    /\ d.key < fresh
    /\ disk.vault = d.key => disk.signed = d
    /\ disk.pending.next # d.key
    /\ \A p \in Pages :
        /\ keys[p].vault = d.key \/ (at[p].send \in Signing /\ job[p].key = d.key) => signed[p][d.key] = d
        /\ keys[p].pending.next # d.key

KeyInv == KeysInOrder /\ CastRecorded /\ \A d \in sent : Recorded(d)

\* Numbers behind the names.
LEMMA Numbers ==
    ASSUME TypeInv
    PROVE  /\ fresh \in Nat /\ disk.vault \in Nat /\ disk.pending.next \in Nat
           /\ \A d \in sent : d \in Digest /\ d.key \in Nat /\ d.key \in Key /\ d.key # 0
           /\ \A p \in Pages : /\ keys[p].vault \in Nat /\ keys[p].pending.next \in Nat /\ job[p].key \in Nat
                               /\ at[p].send \in Signing => job[p] \in Digest /\ job[p].key \in Key
           /\ NoPayment.next = 0
<1>1. /\ disk.vault \in Key \union {0} /\ disk.pending \in Payment \union {NoPayment}
      /\ \A p \in Pages : /\ keys[p].vault \in Key \union {0} /\ keys[p].pending \in Payment \union {NoPayment}
                          /\ job[p].key \in Key \union {0}
  BY DEF TypeInv, TypeOK, HalfDigest
<1>2. NoPayment.next = 0
  BY DEF NoPayment
<1>3. fresh \in Nat /\ \A d \in sent : d \in Digest
  BY BoundsAssumption DEF TypeInv, TypeOK
<1>4. \A p \in Pages : at[p].send \in Signing => job[p] \in Digest
  BY DEF TypeInv, StagesMatch
<1>6. \A k \in Key \union {0} : k \in Nat
  BY DataTypes
<1>5. \A x \in Payment \union {NoPayment} : x.next \in Nat
  <2>1. \A x \in Payment : x.next \in Key
    BY DataTypes
  <2>. QED
    BY <1>2, <1>6, <2>1
<1>7. \A d \in Digest : d.key \in Nat /\ d.key \in Key /\ d.key # 0
  BY DataTypes
<1>. QED
  BY <1>1, <1>2, <1>3, <1>4, <1>5, <1>6, <1>7

\* A step that neither reads nor writes keys, and starts no signing.
LEMMA Calm ==
    ASSUME KeyInv, UNCHANGED <<disk, keys, signed, fresh, sent>>,
           \A p \in Pages : /\ at'[p].send \in Signing => at[p].send \in Signing /\ job'[p] = job[p]
                            /\ at'[p].send = "cast" => at[p].send = "cast"
    PROVE  KeyInv'
  BY DEF KeyInv, KeysInOrder, InOrder, CastRecorded, Recorded, Signing

\* A user who waits for the page starts nothing while it reads the record.
LEMMA ReadsFirstStep ==
    ASSUME Unhurried, TypeInv, ReadsFirst, [Next]_vars
    PROVE  ReadsFirst'
<1>. \A p, q \in Pages : p = q
  BY DEF Unhurried, OnePage
<1>1. ASSUME NEW p \in Pages, OpenPage(p) \/ Create(p) PROVE ReadsFirst'
  BY <1>1 DEF OpenPage, Create, TypeInv, TypeOK, ReadsFirst
<1>2. ASSUME NEW p \in Pages, Load(p) PROVE ReadsFirst'
  BY <1>2, LoadDoes DEF ReadsFirst
<1>3. ASSUME NEW p \in Pages, NEW from, NEW to \in LoadStages, Moves(p, "load", from, to),
             to \notin {"created", "read"} \/ from = "created"
      PROVE  ReadsFirst'
  BY <1>3, LoadMoves DEF TypeInv, ReadsFirst
<1>4. ASSUME NEW p \in Pages, NEW from, NEW to \in SendStages, Moves(p, "send", from, to), from # "idle"
      PROVE  ReadsFirst'
  BY <1>4, SendMoves DEF TypeInv, ReadsFirst
<1>5. ASSUME NEW p \in Pages, NEW n \in Amounts, Press(p, n) PROVE ReadsFirst'
  <2>1. Here(p) /\ Waits /\ Patience \in {"read", "settled"} /\ Moves(p, "send", "idle", "confirm")
    BY <1>5, BoundsAssumption DEF Press, Here, Unhurried
  <2>2. at[p].load \notin {"created", "read"}
    BY <2>1 DEF Waits
  <2>. QED
    BY <2>1, <2>2, SendMoves DEF TypeInv, ReadsFirst, SendStages
<1>6. ASSUME NEW p \in Pages, NEW task \in Tasks,
             AskYes(p, task) \/ AskNo(p, task) \/ Settle(p, task) \/ Adopt(p, task)
      PROVE  ReadsFirst'
  <2>1. PICK from \in {"ask", "answer", "adopt"}, to \in {"idle", "answer", "adopt", "stuck"} :
          Moves(p, task, from, to) /\ (task = "load" => to # "stuck")
    BY <1>6 DEF AskYes, AskNo, Settle, Adopt, Goes
  <2>. QED
    BY <2>1, <1>3, <1>4 DEF Tasks, LoadStages, SendStages
<1>7. ASSUME NEW p \in Pages, Proceeds(p) PROVE ReadsFirst'
  <2>1. CASE TryLoad(p) \/ ShowCreated(p)
    BY <2>1, <1>2, <1>3 DEF TryLoad, LoadFails, ShowCreated, Goes, LoadStages
  <2>2. CASE Check(p) \/ Persist(p) \/ Prepare(p) \/ Sign(p) \/ Confirmed(p) \/ Throw(p)
    BY <2>2, <1>4 DEF Check, Persist, Prepare, Sign, Confirmed, Throw, Goes, SendStages
  <2>3. CASE Finish(p) \/ Handle(p) \/ \E reply \in {"wait", "failed"} : Broadcast(p, reply)
    BY <2>3, <1>4 DEF Finish, Handle, Broadcast, SendStages
  <2>. QED
    BY <1>7, <2>1, <2>2, <2>3, <1>1, <1>5, <1>6 DEF Proceeds
<1>8. ASSUME NEW p \in Pages, Confirm(p) \/ Cancel(p) PROVE ReadsFirst'
  <2>1. \E to \in {"idle", "ask", "check", "persist"} : Moves(p, "send", "confirm", to)
    BY <1>8 DEF Confirm, Cancel, Goes
  <2>. QED
    BY <2>1, <1>4 DEF SendStages
<1>9. CASE World \/ LeavePage \/ UNCHANGED vars
  BY <1>9 DEF World, Deposit, Land, Expire, LeavePage, vars, app, ReadsFirst
<1>10. CASE Crash
  BY <1>10 DEF Crash, Idle, ReadsFirst
<1>. QED
  BY <1>1, <1>7, <1>8, <1>9, <1>10 DEF Next

\* No step makes a key that signed free to sign something else.
LEMMA KeyStep ==
    ASSUME OnePage, TypeInv, TypeInv', ReadsFirst, KeyInv, [Next]_vars
    PROVE  KeyInv'
<1>1. ASSUME NEW p \in Pages, OpenPage(p) PROVE KeyInv'
  <2>. \A q \in Pages : q = p
    BY DEF OnePage
  <2>1. /\ keys'[p].vault = 0 /\ keys'[p].pending = NoPayment /\ at'[p].send = "idle"
        /\ UNCHANGED <<disk, sent, fresh>>
    BY <1>1 DEF OpenPage, TypeInv, TypeOK, NoKeys, phone, counters
  <2>2. KeysInOrder'
    BY <2>1, Numbers DEF KeyInv, KeysInOrder, InOrder, Signing
  <2>3. CastRecorded'
    BY <2>1 DEF CastRecorded
  <2>4. ASSUME NEW d \in sent PROVE Recorded(d)'
    BY <2>1, <2>4, Numbers DEF KeyInv, Recorded, Signing
  <2>. QED
    BY <2>1, <2>2, <2>3, <2>4 DEF KeyInv
<1>2. ASSUME NEW p \in Pages, Load(p) PROVE KeyInv'
  <2>. \A q \in Pages : q = p
    BY DEF OnePage
  <2>1. KeysInOrder'
    <3>1. InOrder(disk)'
      BY <1>2, LoadDoes, Numbers DEF TypeInv, KeyInv, KeysInOrder, InOrder, counters
    <3>2. Here(p) => keys'[p].vault = disk'.vault /\ keys'[p].pending = disk'.pending
      BY <1>2, LoadDoes DEF TypeInv
    <3>3. InOrder(keys[p])'
      BY <1>2, <3>1, <3>2, LoadDoes DEF TypeInv, KeyInv, KeysInOrder, InOrder, counters
    <3>4. at'[p].send \notin Signing
      BY <1>2, LoadDoes DEF ReadsFirst, Signing
    <3>. QED
      BY <3>1, <3>3, <3>4 DEF KeysInOrder
  <2>2. CastRecorded'
    BY <1>2, LoadDoes DEF ReadsFirst, KeyInv, CastRecorded
  <2>3. ASSUME NEW d \in sent PROVE Recorded(d)'
    BY <1>2, <2>3, LoadDoes, Numbers DEF ReadsFirst, KeyInv, Recorded, Signing, counters
  <2>. QED
    BY <1>2, <2>1, <2>2, <2>3, LoadDoes DEF TypeInv, KeyInv
<1>3. ASSUME NEW p \in Pages, Create(p) PROVE KeyInv'
  <2>. \A q \in Pages : q = p
    BY DEF OnePage
  <2>1. KeysInOrder'
    BY <1>3, CreateDoes, Numbers DEF KeyInv, KeysInOrder, InOrder, Signing
  <2>2. CastRecorded'
    BY <1>3, CreateDoes DEF KeyInv, CastRecorded
  <2>3. ASSUME NEW d \in sent PROVE Recorded(d)'
    BY <1>3, <2>3, CreateDoes, Numbers DEF KeyInv, Recorded, Signing
  <2>. QED
    BY <1>3, <2>1, <2>2, <2>3, CreateDoes DEF KeyInv
<1>4. ASSUME NEW p \in Pages, NEW task \in Tasks, Settle(p, task) \/ (task = "send" /\ Finish(p)) PROVE KeyInv'
  <2>. \A q \in Pages : q = p
    BY DEF OnePage
  <2>1. PICK to \in {"adopt", "idle", "failed", "stuck"} :
           /\ \/ at[p].load = "answer" /\ at'[p].load = to /\ to \in {"idle", "adopt"} /\ at'[p].send = at[p].send
              \/ /\ at[p].send \in {"answer", "finish"} /\ at'[p].send = to /\ to # "idle"
                 /\ at'[p].load = at[p].load
           /\ \/ keys[p].pending = NoPayment /\ UNCHANGED <<keys, disk>>
              \/ /\ keys[p].pending \in Payment
                 /\ keys'[p].vault = keys[p].pending.next /\ keys'[p].pending = NoPayment
                 /\ \/ /\ disk'.vault = keys'[p].vault /\ disk'.pending = NoPayment
                       /\ disk'.signed = signed[p][keys'[p].vault]
                    \/ UNCHANGED disk
           /\ UNCHANGED <<signed, job, sent, fresh>>
    BY <1>4, FinishDoes DEF TypeInv, counters
  <2>2. at'[p].send \in Signing => at[p].send = at'[p].send
    BY <2>1 DEF Signing
  <2>3. CASE UNCHANGED <<keys, disk>>
    BY <2>1, <2>2, <2>3, Calm DEF Signing
  <2>4. CASE ~UNCHANGED <<keys, disk>>
    <3>1. keys[p].pending # NoPayment /\ keys[p].vault < keys'[p].vault /\ keys'[p].vault < fresh
      BY <2>1, <2>4, DataTypes DEF KeyInv, KeysInOrder, InOrder
    <3>2. KeysInOrder'
      BY <2>1, <2>2, <2>4, <3>1, Numbers DEF KeyInv, KeysInOrder, InOrder
    <3>3. CastRecorded'
      BY <2>1, <2>2, <2>4, <3>1, Numbers DEF KeyInv, KeysInOrder, CastRecorded, Signing
    <3>4. ASSUME NEW d \in sent PROVE Recorded(d)'
      BY <2>1, <2>2, <2>4, <3>1, <3>4, Numbers DEF KeyInv, Recorded
    <3>. QED
      BY <2>1, <3>2, <3>3, <3>4 DEF KeyInv
  <2>. QED
    BY <2>3, <2>4
<1>5. ASSUME NEW p \in Pages, Confirm(p) PROVE KeyInv'
  <2>. \A q \in Pages : q = p
    BY DEF OnePage
  <2>1. PICK pay \in Payment :
          /\ IF keys[p].pending = NoPayment THEN pay.next = fresh /\ fresh' = fresh + 1
             ELSE pay = keys[p].pending /\ fresh' = fresh
          /\ at[p].send = "confirm" /\ at'[p].send \in {"ask", "check", "persist"}
          /\ keys'[p].vault = keys[p].vault /\ keys'[p].pending = pay
          /\ at'[p].send # "ask" => job'[p].key = keys[p].vault
          /\ UNCHANGED <<disk, signed, sent>>
    BY <1>5, ConfirmDoes DEF phone
  <2>2. KeysInOrder'
    BY <2>1, Numbers DEF KeyInv, KeysInOrder, InOrder, Signing
  <2>3. CastRecorded'
    BY <2>1 DEF CastRecorded
  <2>4. ASSUME NEW d \in sent PROVE Recorded(d)'
    BY <2>1, <2>4, Numbers DEF KeyInv, Recorded, Signing
  <2>. QED
    BY <2>1, <2>2, <2>3, <2>4 DEF KeyInv
<1>6. ASSUME NEW p \in Pages, Persist(p) PROVE KeyInv'
  <2>. \A q \in Pages : q = p
    BY DEF OnePage
  <2>1. KeysInOrder'
    BY <1>6, PersistDoes DEF KeyInv, KeysInOrder, InOrder, Signing, counters
  <2>2. CastRecorded'
    BY <1>6, PersistDoes DEF CastRecorded
  <2>3. ASSUME NEW d \in sent PROVE Recorded(d)'
    BY <1>6, <2>3, PersistDoes DEF KeyInv, Recorded, Signing, counters
  <2>. QED
    BY <1>6, <2>1, <2>2, <2>3, PersistDoes DEF KeyInv
<1>7. ASSUME NEW p \in Pages, Sign(p) PROVE KeyInv'
  <2>. \A q \in Pages : q = p
    BY DEF OnePage
  <2>1. KeysInOrder'
    BY <1>7, SignDoes DEF KeyInv, KeysInOrder, InOrder, Signing, counters
  <2>2. CastRecorded'
    BY <1>7, SignDoes, Numbers DEF KeyInv, KeysInOrder, CastRecorded, Signing
  <2>3. ASSUME NEW d \in sent PROVE Recorded(d)'
    <3>1. job[p].key = d.key => signed[p][d.key] = d /\ job[p] = d
      BY <1>7, <2>3, SignDoes, Numbers, DataTypes DEF KeyInv, Recorded, Signing, MaySign
    <3>. QED
      BY <1>7, <2>3, <3>1, SignDoes, Numbers DEF KeyInv, Recorded, Signing, counters
  <2>. QED
    BY <1>7, <2>1, <2>2, <2>3, SignDoes DEF KeyInv
<1>8. ASSUME NEW p \in Pages, NEW reply \in {"wait", "failed"}, Broadcast(p, reply) PROVE KeyInv'
  <2>. \A q \in Pages : q = p
    BY DEF OnePage
  <2>1. /\ at[p].send = "cast" /\ at'[p].send \notin Signing
        /\ sent' = sent \union {job[p]} /\ UNCHANGED <<disk, keys, signed, job, fresh>>
    BY <1>8, SendMoves DEF Broadcast, TypeInv, SendStages, Signing, phone, counters
  <2>2. KeysInOrder' /\ CastRecorded'
    BY <2>1 DEF KeyInv, KeysInOrder, InOrder, CastRecorded, Signing
  <2>3. Recorded(job[p])'
    <3>1. /\ job[p].key \in Nat /\ job[p].key # 0
          /\ signed[p][job[p].key] = job[p] /\ job[p].key <= disk.vault /\ job[p].key <= keys[p].vault
          /\ disk.vault = job[p].key => disk.signed = job[p]
      BY <2>1, Numbers, DataTypes DEF KeyInv, KeysInOrder, CastRecorded, Signing
    <3>2. disk.pending.next # job[p].key /\ keys[p].pending.next # job[p].key /\ job[p].key < fresh
      BY <3>1, Numbers DEF KeyInv, KeysInOrder, InOrder
    <3>. QED
      BY <2>1, <3>1, <3>2 DEF Recorded
  <2>4. ASSUME NEW d \in sent PROVE Recorded(d)'
    BY <2>1, <2>4 DEF KeyInv, Recorded
  <2>. QED
    BY <2>1, <2>2, <2>3, <2>4 DEF KeyInv
<1>9. ASSUME NEW p \in Pages, Handle(p) PROVE KeyInv'
  <2>. \A q \in Pages : q = p
    BY DEF OnePage
  <2>1. /\ at'[p].send = "ask" /\ UNCHANGED <<signed, job, sent, fresh>> /\ keys[p].vault \in Key
        /\ \/ UNCHANGED <<keys, disk>>
           \/ /\ signed[p][keys[p].vault] = NoDigest
              /\ keys'[p].vault = keys[p].vault /\ keys'[p].pending = NoPayment
              /\ \/ UNCHANGED disk
                 \/ disk'.vault = keys[p].vault /\ disk'.signed = NoDigest /\ disk'.pending = NoPayment
    BY <1>9, HandleDoes DEF counters
  <2>2. KeysInOrder'
    BY <2>1 DEF KeyInv, KeysInOrder, InOrder, Signing
  <2>3. CastRecorded'
    BY <2>1 DEF CastRecorded
  <2>4. ASSUME NEW d \in sent PROVE Recorded(d)'
    BY <2>1, <2>4, Numbers, DataTypes DEF KeyInv, Recorded, Signing
  <2>. QED
    BY <2>1, <2>2, <2>3, <2>4 DEF KeyInv
<1>10. CASE Crash
  BY <1>10, Numbers DEF Crash, Idle, NoKeys, Unsigned, KeyInv, KeysInOrder, InOrder, CastRecorded, Recorded, Signing,
     phone, chain
<1>11. ASSUME NEW p \in Pages, NEW task \in Tasks, NEW from, NEW to, Goes(p, task, from, to),
              task = "send" => to \notin Signing \/ <<from, to>> \in {<<"check", "persist">>, <<"prep", "sign">>}
       PROVE  KeyInv'
  <2>1. UNCHANGED <<disk, keys, signed, job, fresh, sent>> /\ at' = [at EXCEPT ![p][task] = to] /\ at[p][task] = from
    BY <1>11 DEF Goes, Moves, phone, counters
  <2>2. CASE task = "load"
    <3>1. \A q \in Pages : at'[q].send = at[q].send
      BY <2>1, <2>2 DEF TypeInv, TypeOK
    <3>. QED
      BY <2>1, <3>1, Calm
  <2>3. CASE task = "send"
    <3>1. /\ \A q \in Pages \ {p} : at'[q].send = at[q].send
          /\ at[p].send = from /\ at'[p].send = to
      BY <2>1, <2>3 DEF TypeInv, TypeOK
    <3>2. \A q \in Pages : /\ at'[q].send \in Signing => at[q].send \in Signing
                           /\ at'[q].send = "cast" => at[q].send = "cast"
      BY <1>11, <2>3, <3>1 DEF Signing
    <3>. QED
      BY <2>1, <3>2, Calm
  <2>. QED
    BY <2>2, <2>3 DEF Tasks
<1>12. ASSUME NEW p \in Pages, NEW task \in Tasks, Adopt(p, task) PROVE KeyInv'
  <2>1. \A q \in Pages : at'[q].send \in {at[q].send, "idle"}
    BY <1>12, LoadMoves, SendMoves DEF Adopt, Tasks, TypeInv, LoadStages, SendStages
  <2>. QED
    BY <1>12, <2>1, Calm DEF Adopt, Signing, counters
<1>13. ASSUME NEW p \in Pages, NEW n \in Amounts, Press(p, n) PROVE KeyInv'
  <2>1. /\ \A q \in Pages : at'[q].send \in {at[q].send, "confirm"} 
        /\ \A q \in Pages \ {p} : job'[q] = job[q]
        /\ at'[p].send = "confirm"
    BY <1>13, SendMoves DEF Press, TypeInv, SendStages
  <2>. QED
    BY <1>13, <2>1, Calm DEF Press, Signing, phone
<1>14. ASSUME NEW p \in Pages, Proceeds(p) PROVE KeyInv'
  <2>1. CASE TryLoad(p)
    BY <2>1, <1>2, <1>11 DEF TryLoad, LoadFails, Tasks
  <2>2. CASE \E task \in Tasks : AskYes(p, task) \/ AskNo(p, task) \/ Settle(p, task) \/ Adopt(p, task)
    BY <2>2, <1>4, <1>11, <1>12 DEF AskYes, AskNo, Signing
  <2>3. CASE Check(p) \/ Prepare(p) \/ Confirmed(p) \/ Throw(p)
    BY <2>3, <1>11 DEF Check, Prepare, Confirmed, Throw, Tasks, Signing
  <2>4. CASE Finish(p)
    BY <2>4, <1>4 DEF Tasks
  <2>5. CASE ShowCreated(p)
    <3>1. \A q \in Pages : at'[q].send = at[q].send
      BY <2>5, LoadMoves DEF ShowCreated, TypeInv, LoadStages
    <3>. QED
      BY <2>5, <3>1, Calm DEF ShowCreated, counters
  <2>. QED
    BY <1>14, <2>1, <2>2, <2>3, <2>4, <2>5, <1>3, <1>6, <1>7, <1>8, <1>9, <1>13 DEF Proceeds
<1>15. ASSUME NEW p \in Pages, Cancel(p) PROVE KeyInv'
  BY <1>15, <1>11 DEF Cancel, Tasks, Signing
<1>16. CASE World
  BY <1>16, Calm DEF World, Deposit, Land, Expire, phone, app, counters
<1>17. CASE LeavePage \/ UNCHANGED vars
  BY <1>17, Calm DEF LeavePage, vars, phone, app, counters
<1>. QED
  BY <1>1, <1>5, <1>10, <1>14, <1>15, <1>16, <1>17 DEF Next

\* Nothing is signed at the start.
LEMMA KeyInit == Init => ReadsFirst /\ KeyInv
  BY DEF Init, ReadsFirst, KeyInv, KeysInOrder, InOrder, CastRecorded, Idle, NoRecord, NoKeys, Signing

\* Only a broadcast lets a signature leave.
LEMMA Leaves ==
    ASSUME [Next]_vars
    PROVE  sent' = sent \/ \E p \in Pages, reply \in {"wait", "failed"} : Broadcast(p, reply)
<1>1. ASSUME NEW p \in Pages, Proceeds(p) PROVE sent' = sent \/ \E reply \in {"wait", "failed"} : Broadcast(p, reply)
  BY <1>1 DEF Proceeds, TryLoad, Load, LoadFails, Create, ShowCreated, AskYes, AskNo, Settle, Adopt,
     Press, Check, Persist, Prepare, Sign, Confirmed, Finish, Throw, Handle, Goes
<1>2. CASE \E p \in Pages : OpenPage(p) \/ Cancel(p) \/ Confirm(p)
  BY <1>2 DEF OpenPage, Cancel, Confirm, Goes
<1>3. CASE World \/ LeavePage \/ Crash \/ UNCHANGED vars
  BY <1>3 DEF World, Deposit, Land, Expire, LeavePage, Crash, vars
<1>. QED
  BY <1>1, <1>2, <1>3 DEF Next

\* A broadcast sends the digest its key is recorded to have signed.
LEMMA OneMessageStep ==
    ASSUME OnePage, TypeInv, KeyInv, OneMessagePerKey, [Next]_vars
    PROVE  OneMessagePerKey'
<1>1. CASE sent' = sent
  BY <1>1 DEF OneMessagePerKey
<1>2. ASSUME NEW p \in Pages, NEW reply \in {"wait", "failed"}, Broadcast(p, reply) PROVE OneMessagePerKey'
  <2>1. at[p].send = "cast" /\ sent' = sent \union {job[p]}
    BY <1>2, SendMoves DEF Broadcast, TypeInv, SendStages
  <2>2. \A d \in sent : d.key = job[p].key => d = job[p]
    BY <2>1 DEF KeyInv, CastRecorded, Recorded, Signing
  <2>. QED
    BY <2>1, <2>2 DEF OneMessagePerKey
<1>. QED
  BY <1>1, <1>2, Leaves

\* The inductive invariant holds throughout.
LEMMA KeysAgree ==
    ASSUME Unhurried
    PROVE  Spec => [](TypeInv /\ ReadsFirst /\ KeyInv /\ OneMessagePerKey)
<1>. DEFINE Inv == TypeInv /\ ReadsFirst /\ KeyInv /\ OneMessagePerKey
<1>1. Init => Inv
  BY TypeInit, KeyInit DEF Init, OneMessagePerKey
<1>2. Inv /\ [Next]_vars => Inv'
  BY TypeStep, ReadsFirstStep, KeyStep, OneMessageStep DEF Unhurried
<1>. QED
  BY <1>1, <1>2, PTL DEF Spec

\* A wallet that runs one page at a time, whose user does not act before the page
\* has read the record, never lets two messages of one key leave, whichever
\* storage call fails and however often it crashes (test/send_guard_test.dart:1-2).
\* Without that wait it does: MCWalletHasty in the README.
THEOREM OneMessage ==
    ASSUME Unhurried
    PROVE  Spec => []OneMessagePerKey
  BY KeysAgree, PTL
----------------------------------------------------------------------------
(* Nothing is lost and nothing is paid twice, for one page at a time whose  *)
(* user waits for it to load, and a record that can be read.                *)

Quiet == OnePage /\ Patience = "settled" /\ "open" \notin Failures

\* A digest signs what a page or the record has pending.
Signs(d, k) == d.key = k.vault /\ d.pay = k.pending

SpentByPaid == \A k \in Key : k \in spent <=> \E d \in paid : d.key = k
DiskSigned == disk.signed # NoDigest => disk.pending # NoPayment /\ Signs(disk.signed, disk)
PagesSigned ==
    \A p \in Pages :
        /\ \A k \in Key : signed[p][k] # NoDigest => k <= keys[p].vault
        /\ keys[p].vault \in Key /\ signed[p][keys[p].vault] # NoDigest =>
              keys[p].pending # NoPayment /\ Signs(signed[p][keys[p].vault], keys[p])

\* A page is where the record is, or one finished send ahead of it.
Near ==
    \A p \in Pages : keys[p].vault # 0 =>
        keys[p].vault = disk.vault \/ (disk.vault \in spent /\ disk.pending.next = keys[p].vault)

\* Tokens are, and deposits go, to the vault of the record or, when that is
\* spent, to the next.
Live(k) == k \notin spent /\ (bal[k] > 0 \/ shown = k)
LiveKept == \A k \in Key : Live(k) => k = disk.vault \/ (disk.vault \in spent /\ k = disk.pending.next)

\* Whoever has a request pending that was signed has pending what was signed.
Served(k) == k.pending.request <= asked /\ \A d \in sent : d.pay.request = k.pending.request => Signs(d, k)
OneServed ==
    /\ Served(disk) /\ \A p \in Pages : Served(keys[p])
    /\ \A d \in sent :
        /\ d.pay.request <= asked
        /\ d.key <= disk.vault
        /\ \A e \in sent : d.pay.request = e.pay.request => d = e

DataInv == SpentByPaid /\ DiskSigned /\ PagesSigned /\ Near /\ LiveKept /\ OneServed /\ CanFinish

\* What a page's tasks rely on at each stage.
OnDisk(d) == disk.vault = d.key /\ disk.signed = d /\ disk.pending = d.pay
Stages(p) ==
    /\ at[p].load # "idle" => at[p].send = "idle" /\ Here(p)
    /\ screen[p] = "here" /\ at[p].load \notin {"created", "read"} => disk.vault = 0
    /\ at[p].load = "answer" \/ at[p].send \in {"answer", "finish"} => keys[p].vault \in spent
    /\ at[p].load \in {"created", "adopt"} \/ at[p].send \in {"prep", "sign", "adopt"} => keys[p].vault = disk.vault
    /\ at[p].send \in Signing \union {"wait", "finish"} => Signs(job[p], keys[p])
    /\ at[p].send \in {"cast", "wait", "finish"} => OnDisk(job[p])
    /\ at[p].send = "confirm" =>
          /\ job[p].pay.request <= asked
          /\ \/ keys[p].pending = job[p].pay
             \/ keys[p].pending = NoPayment /\ \A d \in sent : d.pay.request # job[p].pay.request

SendInv == DataInv /\ \A p \in Pages : Stages(p)

\* Requests are numbered from 1.
LEMMA RequestNumbers ==
    ASSUME TypeInv
    PROVE  /\ asked \in Nat /\ NoPayment.request = 0
           /\ disk.pending.request \in Nat
           /\ \A p \in Pages : keys[p].pending.request \in Nat /\ job[p].pay.request \in Nat
           /\ \A d \in sent : d.pay \in Payment /\ d.pay.request \in Nat /\ d.pay.request # 0
<1>1. /\ disk.pending \in Payment \union {NoPayment}
      /\ \A p \in Pages : keys[p].pending \in Payment \union {NoPayment} /\ job[p].pay \in HalfPayment
      /\ asked \in Nat /\ \A d \in sent : d \in Digest
  BY BoundsAssumption DEF TypeInv, TypeOK, HalfDigest
<1>2. NoPayment.request = 0
  BY DEF NoPayment
<1>3. \A x \in HalfPayment : x.request \in Nat
  BY BoundsAssumption DEF HalfPayment
<1>4. \A x \in Payment : x.request \in Nat /\ x.request # 0
  BY BoundsAssumption DEF Payment
<1>5. \A d \in sent : d.pay \in Payment
  BY <1>1, DataTypes
<1>. QED
  BY <1>1, <1>2, <1>3, <1>4, <1>5

\* A spent vault has signed what it paid; a signed and unspent one is in the record.
LEMMA SpentSigned ==
    ASSUME TypeInv, KeyInv, DataInv
    PROVE  /\ disk.vault \in spent => disk.signed # NoDigest
           /\ \A p \in Pages : keys[p].vault \in spent =>
                 /\ keys[p].vault = disk.vault /\ keys[p].pending = disk.pending
                 /\ keys[p].pending # NoPayment /\ signed[p][keys[p].vault] # NoDigest
           /\ \A d \in sent : d.key \notin spent =>
                 /\ OnDisk(d)
                 /\ \A p \in Pages : keys[p].vault # 0 =>
                       keys[p].vault = d.key /\ signed[p][d.key] = d /\ keys[p].pending = d.pay
<1>1. /\ \A k \in spent : k \in Key /\ \E d \in sent : d.key = k
      /\ \A d \in sent : d \in Digest /\ d # NoDigest /\ d.key \in Key
      /\ \A p \in Pages : keys[p].vault # 0 => keys[p].vault \in Key
  BY DataTypes DEF TypeInv, TypeOK, DataInv, SpentByPaid
<1>2. disk.vault \in spent => disk.signed # NoDigest /\ disk.signed \in sent
  BY <1>1 DEF KeyInv, Recorded
<1>3. ASSUME NEW p \in Pages, keys[p].vault \in spent
      PROVE  /\ keys[p].vault = disk.vault /\ keys[p].pending = disk.pending
             /\ keys[p].pending # NoPayment /\ signed[p][keys[p].vault] # NoDigest
  <2>1. PICK d \in sent : d.key = keys[p].vault
    BY <1>1, <1>3
  <2>2. signed[p][keys[p].vault] = d /\ d # NoDigest /\ keys[p].vault \in Key /\ disk.pending.next # d.key
        /\ (disk.vault = d.key => disk.signed = d)
    BY <1>1, <1>3, <2>1 DEF KeyInv, Recorded
  <2>3. keys[p].pending # NoPayment /\ keys[p].pending = d.pay
    BY <2>2 DEF DataInv, PagesSigned, Signs
  <2>4. keys[p].vault = disk.vault
    BY <2>1, <2>2, Numbers, DataTypes DEF DataInv, Near
  <2>. QED
    BY <2>1, <2>2, <2>3, <2>4 DEF DataInv, DiskSigned, Signs
<1>4. ASSUME NEW d \in sent, d.key \notin spent
      PROVE  /\ OnDisk(d)
             /\ \A p \in Pages : keys[p].vault # 0 =>
                   keys[p].vault = d.key /\ signed[p][d.key] = d /\ keys[p].pending = d.pay
  <2>1. OnDisk(d)
    BY <1>4 DEF DataInv, CanFinish, IsSpent, OnDisk
  <2>2. ASSUME NEW p \in Pages, keys[p].vault # 0
        PROVE  keys[p].vault = d.key /\ signed[p][d.key] = d /\ keys[p].pending = d.pay
    <3>1. keys[p].vault = d.key
      BY <1>4, <2>1, <2>2 DEF DataInv, Near, OnDisk
    <3>2. signed[p][d.key] = d /\ d # NoDigest /\ d.key \in Key
      BY <1>1, <3>1 DEF KeyInv, Recorded
    <3>. QED
      BY <3>1, <3>2 DEF DataInv, PagesSigned, Signs
  <2>. QED
    BY <2>1, <2>2
<1>. QED
  BY <1>2, <1>3, <1>4

\* A step that leaves the data alone.
LEMMA DataCalm ==
    ASSUME DataInv, UNCHANGED <<disk, shown, keys, signed, bal, spent, sent, paid, asked>>
    PROVE  DataInv'
  BY DEF DataInv, SpentByPaid, DiskSigned, PagesSigned, Near, LiveKept, Live, OneServed, Served, Signs, CanFinish, IsSpent

\* A step that only changes what pages hold.
LEMMA PagesChange ==
    ASSUME DataInv, UNCHANGED <<disk, shown, bal, spent, sent, paid>>, asked' \in Nat, asked \in Nat, asked <= asked',
           TypeInv, PagesSigned', Near', \A p \in Pages : Served(keys[p])'
    PROVE  DataInv'
  BY Numbers, RequestNumbers DEF DataInv, SpentByPaid, DiskSigned, LiveKept, Live, OneServed, Served, Signs, CanFinish, IsSpent

\* A step that writes the record from a page.
LEMMA RecordChanges ==
    ASSUME UNCHANGED <<shown, bal, spent, sent, paid, asked>>, DataInv, KeyInv, TypeInv,
           DiskSigned', PagesSigned', Near', Served(disk)', \A p \in Pages : Served(keys[p])',
           disk.vault <= disk'.vault, disk' \in Record,
           \A k \in Key : Live(k) => k = disk'.vault \/ (disk'.vault \in spent /\ k = disk'.pending.next),
           \A d \in sent : d.key \notin spent => OnDisk(d)'
    PROVE  DataInv'
<1>1. SpentByPaid' /\ LiveKept'
  BY DEF DataInv, SpentByPaid, LiveKept, Live
<1>2. OneServed'
  <2>1. disk.vault \in Nat /\ disk'.vault \in Nat /\ \A d \in sent : d.key \in Nat
    <3>1. disk'.vault \in Key \union {0} /\ \A k \in Key \union {0} : k \in Nat
      BY DataTypes DEF Record
    <3>. QED
      BY <3>1, Numbers
  <2>. QED
    BY <2>1 DEF DataInv, OneServed
<1>3. CanFinish'
  BY DEF CanFinish, IsSpent, OnDisk, Record
<1>. QED
  BY <1>1, <1>2, <1>3 DEF DataInv

\* No step makes the record and what the pages hold disagree.
LEMMA DataStep ==
    ASSUME Quiet, TypeInv, TypeInv', KeyInv, KeyInv', DataInv, \A p \in Pages : Stages(p), [Next]_vars
    PROVE  DataInv'
<1>. \A p, q \in Pages : p = q
  BY DEF Quiet, OnePage
<1>1. ASSUME NEW p \in Pages, OpenPage(p) PROVE DataInv'
  <2>1. /\ keys'[p].vault = 0 /\ keys'[p].pending = NoPayment
        /\ \A k \in Key : signed'[p][k] = NoDigest
        /\ UNCHANGED <<disk, shown, bal, spent, sent, paid, asked>>
    BY <1>1 DEF OpenPage, TypeInv, TypeOK, NoKeys, Unsigned, phone, chain, counters
  <2>2. PagesSigned' /\ Near'
    BY <2>1, DataTypes DEF PagesSigned, Near
  <2>3. Served(keys[p])'
    BY <2>1, RequestNumbers DEF Served
  <2>. QED
    BY <2>1, <2>2, <2>3, PagesChange, RequestNumbers
<1>2. ASSUME NEW p \in Pages, Load(p) PROVE DataInv'
  <2>0. Here(p)
    BY <1>2, LoadDoes DEF Stages
  <2>1. /\ disk'.vault = disk.vault /\ disk'.signed = disk.signed
        /\ disk'.pending = IF disk.signed = NoDigest THEN NoPayment ELSE disk.pending
        /\ keys'[p].vault = disk'.vault /\ keys'[p].pending = disk'.pending
        /\ \A x \in Key : signed'[p][x] = IF x = disk.vault THEN disk.signed ELSE NoDigest
        /\ disk' \in Record
        /\ UNCHANGED <<shown, bal, spent, sent, paid, asked>>
    BY <1>2, <2>0, LoadDoes DEF chain, counters
  <2>2. DiskSigned'
    BY <2>1 DEF DataInv, DiskSigned, Signs
  <2>3. PagesSigned'
    BY <2>1, <2>2, Numbers DEF DiskSigned, PagesSigned, Signs
  <2>4. Near'
    BY <2>1 DEF Near
  <2>5. Served(disk)' /\ Served(keys[p])'
    BY <2>1, RequestNumbers DEF DataInv, OneServed, Served, Signs
  <2>6. \A k \in Key : Live(k) => k = disk'.vault \/ (disk'.vault \in spent /\ k = disk'.pending.next)
    BY <2>1, SpentSigned DEF DataInv, LiveKept
  <2>7. \A d \in sent : d.key \notin spent => OnDisk(d)'
    BY <2>1, SpentSigned, DataTypes DEF OnDisk, TypeInv, TypeOK
  <2>. QED
    BY <2>1, <2>2, <2>3, <2>4, <2>5, <2>6, <2>7, RecordChanges, Numbers
<1>3. ASSUME NEW p \in Pages, Create(p) PROVE DataInv'
  <2>1. /\ fresh \in Key /\ keys'[p].vault = fresh /\ keys'[p].pending = NoPayment
        /\ disk'.vault = fresh /\ disk'.signed = NoDigest /\ disk'.pending = NoPayment
        /\ disk' \in Record /\ \A k \in Key : signed'[p][k] = NoDigest
        /\ UNCHANGED <<shown, bal, spent, sent, paid, asked>>
    BY <1>3, CreateDoes DEF chain
  <2>2. disk.vault = 0
    <3>1. OffersCreation /\ screen[p] \in {"gone", "here", "shown"}
      BY <1>3, CreateDoes DEF TypeInv, TypeOK
    <3>2. screen[p] = "here" /\ at[p].load = "idle"
      BY <3>1 DEF OffersCreation, Here, Waits, Quiet
    <3>. QED
      BY <3>2 DEF Stages
  <2>3. 0 \notin Key /\ spent \subseteq Key /\ sent = {}
    BY <2>2, Numbers, DataTypes DEF DataInv, OneServed, TypeInv, TypeOK
  <2>4. \A k \in Key : ~Live(k)
    BY <2>2, <2>3 DEF DataInv, LiveKept
  <2>6. DiskSigned' /\ PagesSigned' /\ Near'
    BY <2>1 DEF DiskSigned, PagesSigned, Near
  <2>7. Served(disk)' /\ Served(keys[p])'
    BY <2>1, <2>3, RequestNumbers DEF Served
  <2>. QED
    BY <2>1, <2>2, <2>3, <2>4, <2>6, <2>7, RecordChanges, Numbers, DataTypes
<1>4. ASSUME NEW p \in Pages, NEW task \in Tasks, Settle(p, task) \/ (task = "send" /\ Finish(p)) PROVE DataInv'
  <2>0. keys[p].vault \in spent
    BY <1>4, FinishDoes DEF Stages
  <2>1. /\ UNCHANGED <<shown, signed, bal, spent, sent, paid, asked>>
        /\ \/ UNCHANGED <<keys, disk>>
           \/ /\ keys[p].pending \in Payment
              /\ keys'[p].vault = keys[p].pending.next /\ keys'[p].pending = NoPayment /\ keys'[p].vault \in Key
              /\ \/ disk'.vault = keys'[p].vault /\ disk'.pending = NoPayment /\ disk'.signed = signed[p][keys'[p].vault]
                 \/ UNCHANGED disk
        /\ disk' \in Record
    BY <1>4, FinishDoes DEF TypeInv, counters, chain
  <2>2. CASE UNCHANGED <<keys, disk>>
    BY <2>1, <2>2, DataCalm
  <2>3. CASE ~UNCHANGED <<keys, disk>>
    <3>1. keys[p].vault = disk.vault /\ disk.vault \in spent /\ keys[p].pending = disk.pending
          /\ keys'[p].vault = disk.pending.next /\ keys[p].pending # NoPayment
      BY <2>0, <2>1, <2>3, SpentSigned
    <3>2. keys[p].vault < keys'[p].vault
      BY <2>1, <2>3, <3>1 DEF KeyInv, KeysInOrder, InOrder
    <3>3. \A k \in Key : k >= keys'[p].vault => signed[p][k] = NoDigest
      BY <2>1, <2>3, <3>2, Numbers, DataTypes DEF DataInv, PagesSigned
    <3>4. PagesSigned'
      BY <2>1, <2>3, <3>2, <3>3, Numbers, DataTypes DEF DataInv, PagesSigned
    <3>5. Near'
      BY <2>1, <2>3, <3>1 DEF Near
    <3>6. Served(keys[p])'
      BY <2>1, <2>3, RequestNumbers DEF Served
    <3>7. CASE UNCHANGED disk
      BY <2>1, <2>3, <3>4, <3>5, <3>6, <3>7, PagesChange, RequestNumbers
    <3>8. CASE disk'.vault = keys'[p].vault /\ disk'.pending = NoPayment /\ disk'.signed = signed[p][keys'[p].vault]
      <4>1. disk'.signed = NoDigest
        BY <2>1, <2>3, <3>3, <3>8, Numbers, DataTypes
      <4>2. DiskSigned' /\ Served(disk)'
        BY <2>1, <3>8, <4>1, RequestNumbers DEF DiskSigned, Served
      <4>3. \A k \in Key : Live(k) => k = disk'.vault
        BY <3>1, <3>8 DEF DataInv, LiveKept, Live
      <4>4. \A d \in sent : d.key \in spent
        BY <3>1, SpentSigned, Numbers, DataTypes DEF OnDisk
      <4>. QED
        BY <2>1, <3>1, <3>2, <3>4, <3>5, <3>6, <3>8, <4>2, <4>3, <4>4, RecordChanges, Numbers
    <3>. QED
      BY <2>1, <2>3, <3>7, <3>8
  <2>. QED
    BY <2>2, <2>3
<1>5. ASSUME NEW p \in Pages, NEW task \in Tasks, Adopt(p, task) \/ ShowCreated(p) PROVE DataInv'
  <2>1. /\ at[p].load \in {"adopt", "created"} \/ at[p].send = "adopt"
        /\ shown' = keys[p].vault /\ UNCHANGED <<disk, keys, signed, bal, spent, sent, paid, asked>>
    BY <1>5 DEF Adopt, ShowCreated, Adopts, Moves, Tasks, counters, chain
  <2>2. shown' = disk.vault
    BY <2>1 DEF Stages
  <2>. QED
    BY <2>1, <2>2 DEF DataInv, SpentByPaid, DiskSigned, PagesSigned, Near, LiveKept, Live, OneServed, Served, Signs, CanFinish, IsSpent
<1>6. ASSUME NEW p \in Pages, NEW n \in Amounts, Press(p, n) PROVE DataInv'
  <2>1. UNCHANGED <<disk, shown, keys, signed, bal, spent, sent, paid>> /\ asked' \in {asked, asked + 1}
    BY <1>6 DEF Press, phone, chain
  <2>2. asked' \in Nat /\ asked \in Nat /\ asked <= asked'
    BY <2>1, RequestNumbers
  <2>3. PagesSigned' /\ Near'
    BY <2>1 DEF DataInv, PagesSigned, Near, Signs
  <2>4. ASSUME NEW q \in Pages PROVE Served(keys[q])'
    BY <2>1, <2>2, RequestNumbers DEF DataInv, OneServed, Served, Signs
  <2>. QED
    BY <2>1, <2>2, <2>3, <2>4, PagesChange
<1>7. ASSUME NEW p \in Pages, Confirm(p) PROVE DataInv'
  <2>1. PICK pay \in Payment :
          /\ IF keys[p].pending = NoPayment THEN pay.request = job[p].pay.request ELSE pay = keys[p].pending
          /\ at[p].send = "confirm"
          /\ keys'[p].vault = keys[p].vault /\ keys'[p].pending = pay
          /\ UNCHANGED <<disk, shown, signed, bal, spent, sent, paid, asked>>
    BY <1>7, ConfirmDoes DEF phone, chain
  <2>2. CASE keys[p].pending = NoPayment
    <3>1. pay.request <= asked /\ \A d \in sent : d.pay.request # pay.request
      <4>1. job[p].pay # NoPayment
        BY <2>1, BoundsAssumption DEF TypeInv, StagesMatch, NoPayment
      <4>. QED
        BY <2>1, <2>2, <4>1 DEF Stages
    <3>2. Served(keys[p])'
      BY <2>1, <3>1 DEF Served
    <3>3. PagesSigned' /\ Near'
      BY <2>1, <2>2 DEF DataInv, PagesSigned, Near
    <3>. QED
      BY <2>1, <3>2, <3>3, PagesChange, RequestNumbers
  <2>3. CASE keys[p].pending # NoPayment
    <3>1. PagesSigned' /\ Near' /\ Served(keys[p])'
      BY <2>1, <2>3 DEF DataInv, PagesSigned, Near, OneServed, Served, Signs
    <3>. QED
      BY <2>1, <3>1, PagesChange, RequestNumbers
  <2>. QED
    BY <2>2, <2>3
<1>8. ASSUME NEW p \in Pages, Persist(p) PROVE DataInv'
  <2>1. /\ keys[p].vault \in Key
        /\ disk'.vault = keys[p].vault /\ disk'.signed = signed[p][keys[p].vault] /\ disk'.pending = keys[p].pending
        /\ disk' \in Record
        /\ UNCHANGED <<shown, keys, signed, bal, spent, sent, paid, asked>>
    BY <1>8, PersistDoes DEF counters, chain
  <2>2. DiskSigned' /\ PagesSigned' /\ Near' /\ Served(disk)' /\ Served(keys[p])'
    BY <2>1 DEF DataInv, DiskSigned, PagesSigned, Near, OneServed, Served, Signs
  <2>3. disk.vault <= disk'.vault
    BY <2>1, Numbers, DataTypes DEF DataInv, Near, KeyInv, KeysInOrder, InOrder
  <2>4. \A k \in Key : Live(k) => k = disk'.vault \/ (disk'.vault \in spent /\ k = disk'.pending.next)
    BY <2>1, SpentSigned, DataTypes DEF DataInv, Near, LiveKept, Live
  <2>5. \A d \in sent : d.key \notin spent => OnDisk(d)'
    BY <2>1, SpentSigned, DataTypes DEF OnDisk
  <2>. QED
    BY <2>1, <2>2, <2>3, <2>4, <2>5, RecordChanges
<1>9. ASSUME NEW p \in Pages, Sign(p) PROVE DataInv'
  <2>1. /\ keys[p].vault \in Key /\ job[p] \in Digest /\ at[p].send = "sign"
        /\ job[p].key = keys[p].vault /\ job[p].pay = keys[p].pending /\ disk.vault = keys[p].vault
        /\ signed[p][keys[p].vault] \in {NoDigest, job[p]}
        /\ signed'[p][keys[p].vault] = job[p]
        /\ \A k \in Key : k # keys[p].vault => signed'[p][k] = signed[p][k]
        /\ disk' \in Record
        /\ UNCHANGED <<shown, keys, bal, spent, sent, paid, asked>>
    BY <1>9, SignDoes DEF counters, chain, Stages, Signing, MaySign, Signs
  <2>3. PagesSigned' /\ Served(keys[p])'
    <3>1. Served(keys[p]) /\ Served(keys[p])'
      BY <2>1 DEF DataInv, OneServed, Served, Signs
    <3>2. keys[p].pending # NoPayment /\ job[p] # NoDigest
      BY <2>1, DataTypes
    <3>3. \A k \in Key : signed'[p][k] # NoDigest => k <= keys[p].vault
      BY <2>1, Numbers DEF DataInv, PagesSigned, Key
    <3>. QED
      BY <2>1, <3>1, <3>2, <3>3 DEF PagesSigned, Signs
  <2>4. CASE UNCHANGED disk
    BY <2>1, <2>3, <2>4, PagesChange, RequestNumbers DEF DataInv, Near
  <2>5. CASE disk'.vault = keys[p].vault /\ disk'.pending = keys[p].pending /\ disk'.signed = job[p]
    <3>1. DiskSigned' /\ Near' /\ Served(disk)'
      BY <2>1, <2>5, DataTypes DEF DataInv, DiskSigned, Near, OneServed, Served, Signs
    <3>2. \A k \in Key : Live(k) => k = disk'.vault \/ (disk'.vault \in spent /\ k = disk'.pending.next)
      BY <2>1, <2>5, SpentSigned DEF DataInv, LiveKept
    <3>3. \A d \in sent : d.key \notin spent => OnDisk(d)'
      BY <2>1, <2>5, SpentSigned, Numbers, DataTypes DEF OnDisk
    <3>. QED
      BY <2>1, <2>3, <2>5, <3>1, <3>2, <3>3, RecordChanges, Numbers
  <2>. QED
    BY <1>9, <2>1, <2>4, <2>5, SignDoes
<1>10. ASSUME NEW p \in Pages, NEW reply \in {"wait", "failed"}, Broadcast(p, reply) PROVE DataInv'
  <2>1. /\ at[p].send = "cast" /\ sent' = sent \union {job[p]} /\ job[p] \in Digest
        /\ UNCHANGED <<disk, shown, keys, signed, bal, spent, paid, asked>>
    BY <1>10, SendMoves DEF Broadcast, TypeInv, StagesMatch, Signing, SendStages, phone, counters
  <2>2. Signs(job[p], keys[p]) /\ OnDisk(job[p])
    BY <2>1 DEF Stages, Signing
  <2>3. \A d \in sent : d.pay.request = job[p].pay.request => d = job[p]
    BY <2>1, <2>2, Numbers DEF DataInv, OneServed, Served, Signs, OnDisk, Digest
  <2>4. OneServed'
    BY <2>1, <2>2, <2>3, Numbers DEF DataInv, OneServed, Served, Signs, OnDisk
  <2>5. CanFinish'
    BY <2>1, <2>2 DEF DataInv, CanFinish, IsSpent, OnDisk, TypeInv, TypeOK
  <2>. QED
    BY <2>1, <2>4, <2>5 DEF DataInv, SpentByPaid, DiskSigned, PagesSigned, Near, LiveKept, Live, Signs
<1>11. ASSUME NEW p \in Pages, Handle(p) PROVE DataInv'
  <2>1. /\ keys[p].vault \in Key /\ UNCHANGED <<shown, signed, bal, spent, sent, paid, asked>> /\ disk' \in Record
        /\ \/ UNCHANGED <<keys, disk>>
           \/ /\ signed[p][keys[p].vault] = NoDigest
              /\ keys'[p].vault = keys[p].vault /\ keys'[p].pending = NoPayment
              /\ \/ UNCHANGED disk
                 \/ disk'.vault = keys[p].vault /\ disk'.signed = NoDigest /\ disk'.pending = NoPayment
    BY <1>11, HandleDoes DEF counters, chain
  <2>2. CASE UNCHANGED <<keys, disk>>
    BY <2>1, <2>2, DataCalm
  <2>3. CASE ~UNCHANGED <<keys, disk>>
    <3>1. PagesSigned' /\ Served(keys[p])'
      BY <2>1, <2>3, RequestNumbers DEF DataInv, PagesSigned, Served
    <3>2. CASE UNCHANGED disk
      BY <2>1, <2>3, <3>1, <3>2, PagesChange, RequestNumbers DEF DataInv, Near
    <3>3. CASE disk'.vault = keys[p].vault /\ disk'.signed = NoDigest /\ disk'.pending = NoPayment
      <4>1. DiskSigned' /\ Near' /\ Served(disk)'
        BY <2>1, <2>3, <3>3, RequestNumbers DEF DiskSigned, Near, Served
      <4>2. disk.vault <= disk'.vault
        BY <2>1, <3>3, Numbers, DataTypes DEF DataInv, Near, KeyInv, KeysInOrder, InOrder
      <4>3. \A k \in Key : Live(k) => k = disk'.vault
        BY <2>1, <2>3, <3>3, SpentSigned, DataTypes DEF DataInv, Near, LiveKept, Live
      <4>4. \A d \in sent : d.key \in spent
        BY <2>1, <2>3, SpentSigned, Numbers, DataTypes
      <4>. QED
        BY <2>1, <3>1, <4>1, <4>2, <4>3, <4>4, RecordChanges
    <3>. QED
      BY <2>1, <2>3, <3>2, <3>3
  <2>. QED
    BY <2>2, <2>3
<1>12. ASSUME NEW d \in net, Land(d) PROVE DataInv'
  <2>1. /\ d \in sent /\ d \in Digest /\ d.key \in Key /\ d.key \notin spent /\ d.pay.next \in Key
        /\ \A k \in Key : k # d.key /\ k # d.pay.next => bal'[k] = bal[k]
        /\ spent' = spent \union {d.key} /\ paid' = paid \union {d}
        /\ UNCHANGED <<disk, shown, keys, signed, sent, asked>>
    BY <1>12, DataTypes DEF Land, Acceptable, IsSpent, TypeInv, TypeOK, phone, app, counters
  <2>2. OnDisk(d)
    BY <2>1, SpentSigned
  <2>3. LiveKept'
    BY <2>1, <2>2 DEF DataInv, LiveKept, Live, OnDisk
  <2>4. Near' /\ SpentByPaid'
    BY <2>1 DEF DataInv, Near, SpentByPaid
  <2>. QED
    BY <2>1, <2>3, <2>4 DEF DataInv, DiskSigned, PagesSigned, OneServed, Served, Signs, CanFinish, IsSpent
<1>13. CASE Deposit
  <2>1. LiveKept'
    BY <1>13 DEF Deposit, DataInv, LiveKept, Live, TypeInv, TypeOK, phone
  <2>. QED
    BY <1>13, <2>1 DEF Deposit, phone, app, counters, DataInv, SpentByPaid, DiskSigned, PagesSigned, Near, OneServed, Served, Signs, CanFinish, IsSpent
<1>14. CASE Crash
  <2>1. /\ \A p \in Pages : keys'[p].vault = 0 /\ keys'[p].pending = NoPayment /\ \A k \in Key : signed'[p][k] = NoDigest
        /\ UNCHANGED <<disk, shown, bal, spent, sent, paid, asked>>
    BY <1>14 DEF Crash, NoKeys, Unsigned, phone, chain
  <2>2. PagesSigned' /\ Near'
    BY <2>1, DataTypes DEF PagesSigned, Near
  <2>3. \A p \in Pages : Served(keys[p])'
    BY <2>1, RequestNumbers DEF Served
  <2>. QED
    BY <2>1, <2>2, <2>3, PagesChange, RequestNumbers
<1>15. ASSUME NEW p \in Pages, Proceeds(p) PROVE DataInv'
  <2>1. CASE TryLoad(p)
    BY <2>1, <1>2 DEF TryLoad, LoadFails, Quiet
  <2>2. CASE \E task \in Tasks : AskYes(p, task) \/ AskNo(p, task) \/ Settle(p, task) \/ Adopt(p, task)
    BY <2>2, <1>4, <1>5, DataCalm DEF AskYes, AskNo, Goes, phone, chain, counters
  <2>3. CASE Check(p) \/ Prepare(p) \/ Confirmed(p) \/ Throw(p)
    BY <2>3, DataCalm DEF Check, Prepare, Confirmed, Throw, Goes, phone, chain, counters
  <2>4. CASE Finish(p) \/ ShowCreated(p)
    BY <2>4, <1>4, <1>5 DEF Tasks
  <2>. QED
    BY <1>15, <2>1, <2>2, <2>3, <2>4, <1>3, <1>6, <1>8, <1>9, <1>10, <1>11 DEF Proceeds
<1>16. CASE \E p \in Pages : Cancel(p)
  BY <1>16, DataCalm DEF Cancel, Goes, phone, chain, counters
<1>17. ASSUME NEW d \in net, Expire(d) PROVE DataInv'
  BY <1>17, DataCalm DEF Expire, phone, app, counters
<1>18. CASE LeavePage \/ UNCHANGED vars
  BY <1>18, DataCalm DEF LeavePage, vars, phone, app, chain, counters
<1>. QED
  BY <1>1, <1>7, <1>12, <1>13, <1>14, <1>15, <1>16, <1>17, <1>18 DEF Next, World

\* A stage's reliance survives a step that leaves the page and the record alone.
LEMMA StagesCalm ==
    ASSUME NEW p \in Pages, Stages(p), at'[p] = at[p], UNCHANGED <<disk, keys, job, sent, asked>>,
           screen' = screen \/ (screen'[p] = "gone" /\ at[p].load = "idle"), spent \subseteq spent'
    PROVE  Stages(p)'
  BY DEF Stages, Here, Signs, OnDisk

\* A task moves: what its new stage relies on holds already.
LEMMA StagesGo ==
    ASSUME NEW p \in Pages, Stages(p), TypeInv, NEW task \in Tasks, NEW from, NEW to, Goes(p, task, from, to),
           from \notin {"idle", "created", "read"},
           \/ to = "idle"
           \/ to = "answer" /\ keys[p].vault \in spent /\ from = "ask"
           \/ task = "send" /\ to = "failed"
           \/ task = "send" /\ from = "check" /\ to = "persist"
           \/ task = "send" /\ from = "prep" /\ to = "sign"
           \/ task = "send" /\ from = "wait" /\ to = "finish" /\ keys[p].vault \in spent
    PROVE  Stages(p)'
<1>1. UNCHANGED <<disk, screen, keys, job, spent, sent, asked>>
  BY DEF Goes, phone, chain, counters
<1>2. CASE task = "load"
  <2>1. to \in LoadStages /\ TypeOK
    BY <1>2 DEF LoadStages, TypeInv
  <2>2. at[p].load = from /\ at'[p].load = to /\ at'[p].send = at[p].send
    BY <1>2, <2>1, LoadMoves DEF Goes
  <2>. QED
    BY <1>1, <1>2, <2>2 DEF Stages, Here, Signs, OnDisk
<1>3. CASE task = "send"
  <2>1. to \in SendStages /\ TypeOK
    BY <1>3 DEF SendStages, TypeInv
  <2>2. at[p].send = from /\ at'[p].send = to /\ at'[p].load = at[p].load
    BY <1>3, <2>1, SendMoves DEF Goes
  <2>. QED
    BY <1>1, <1>3, <2>2 DEF Stages, Signs, OnDisk, Signing
<1>. QED
  BY <1>2, <1>3 DEF Tasks

\* A page that works on keys shows them, and the record holds some.
LEMMA HoldsKeys ==
    ASSUME NEW p \in Pages, Stages(p), TypeInv, DataInv, at[p].send # "idle" \/ at[p].load = "answer"
    PROVE  disk.vault # 0 /\ screen[p] # "here"
<1>1. keys[p].vault # 0 /\ spent \subseteq Key
  BY DataTypes DEF TypeInv, TypeOK, StagesMatch, Stages
<1>2. disk.vault # 0
  BY <1>1, DataTypes DEF DataInv, Near
<1>. QED
  BY <1>2 DEF Stages

\* No step takes a page out of what its stage promises.
LEMMA StagesStep ==
    ASSUME Quiet, TypeInv, KeyInv, DataInv, \A p \in Pages : Stages(p), [Next]_vars
    PROVE  \A p \in Pages : Stages(p)'
<1>. SUFFICES ASSUME NEW p \in Pages PROVE Stages(p)'
  OBVIOUS
<1>. \A q \in Pages : q = p
  BY DEF Quiet, OnePage
<1>1. CASE OpenPage(p)
  BY <1>1 DEF OpenPage, TypeInv, TypeOK, Stages, Here, Signing
<1>2. CASE LeavePage
  BY <1>2, StagesCalm DEF LeavePage, Quiet, phone, chain, counters
<1>3. CASE Load(p)
  <2>1. /\ at[p].load = "read" /\ at'[p].load \in {"idle", "ask"} /\ at'[p].send = at[p].send
        /\ disk'.vault = disk.vault
        /\ Here(p) => /\ keys'[p].vault = disk.vault
                      /\ screen'[p] = IF disk.vault = 0 THEN "here" ELSE "shown"
    BY <1>3, LoadDoes
  <2>2. at[p].send = "idle" /\ Here(p)
    BY <2>1 DEF Stages
  <2>. QED
    BY <2>1, <2>2 DEF Stages, Here, Signing
<1>4. CASE Create(p)
  <2>1. /\ fresh \in Key /\ at'[p].load = "created" /\ at'[p].send = "idle" /\ screen'[p] = "here"
        /\ keys'[p].vault = fresh /\ disk'.vault = fresh
    BY <1>4, CreateDoes
  <2>. QED
    BY <2>1, DataTypes DEF Stages, Here, Signing
<1>5. CASE ShowCreated(p)
  <2>1. /\ at[p].load = "created" /\ at'[p].load = "read" /\ at'[p].send = at[p].send
        /\ Adopts(p) /\ UNCHANGED <<disk, keys, job, sent, asked, spent>>
    BY <1>5, LoadMoves DEF ShowCreated, TypeInv, LoadStages, chain, counters
  <2>2. screen'[p] = "shown"
    BY <2>1 DEF Adopts, Displays, Stages
  <2>. QED
    BY <2>1, <2>2 DEF Stages, Here, Signing
<1>6. ASSUME NEW task \in Tasks, Settle(p, task) \/ (task = "send" /\ Finish(p)) PROVE Stages(p)'
  <2>1. PICK to \in {"adopt", "idle", "failed", "stuck"} :
           /\ \/ at[p].load = "answer" /\ at'[p].load = to /\ to \in {"idle", "adopt"} /\ at'[p].send = at[p].send
              \/ /\ at[p].send \in {"answer", "finish"} /\ at'[p].send = to /\ to # "idle"
                 /\ at'[p].load = at[p].load
           /\ to = "adopt" => disk'.vault = keys'[p].vault
           /\ UNCHANGED <<keys, disk>> \/ keys'[p].vault \in Key
           /\ UNCHANGED screen
    BY <1>6, FinishDoes DEF TypeInv
  <2>2. keys[p].vault # 0
    BY <2>1, DataTypes DEF TypeInv, TypeOK, Stages
  <2>3. disk.vault # 0 /\ screen[p] # "here"
    BY <2>1, HoldsKeys
  <2>. QED
    BY <2>1, <2>2, <2>3, DataTypes DEF Stages, Here, Signing
<1>7. ASSUME NEW task \in Tasks, Adopt(p, task) PROVE Stages(p)'
  <2>1. /\ Adopts(p) /\ UNCHANGED <<disk, keys, job, sent, asked, spent>>
        /\ \/ at[p].load = "adopt" /\ at'[p].load = "idle" /\ at'[p].send = at[p].send
           \/ at[p].send = "adopt" /\ at'[p].send = "idle" /\ at'[p].load = at[p].load
    BY <1>7, LoadMoves, SendMoves DEF Adopt, Tasks, TypeInv, LoadStages, SendStages, chain, counters
  <2>2. screen'[p] = IF Here(p) THEN "shown" ELSE screen[p]
    BY <2>1 DEF Adopts, Displays
  <2>. QED
    BY <2>1, <2>2 DEF Stages, Here, Signing
<1>8. ASSUME NEW n \in Amounts, Press(p, n) PROVE Stages(p)'
  <2>1. /\ at[p].load = "idle" /\ at'[p].load = "idle" /\ at'[p].send = "confirm" /\ keys[p].vault # 0
        /\ UNCHANGED <<disk, screen, keys, sent, spent>>
    BY <1>8, SendMoves, DataTypes DEF Press, Waits, Here, Quiet, TypeInv, StagesMatch, SendStages, phone, chain
  <2>2. CASE keys[p].pending = NoPayment
    <3>1. job'[p].pay.request = asked' /\ asked' = asked + 1
      BY <1>8, <2>2 DEF Press, TypeInv
    <3>2. \A d \in sent : d.pay.request # asked'
      BY <3>1, RequestNumbers DEF DataInv, OneServed
    <3>. QED
      BY <2>1, <2>2, <3>1, <3>2, RequestNumbers DEF Stages, Signing
  <2>3. CASE keys[p].pending # NoPayment
    <3>1. job'[p].pay = keys[p].pending /\ asked' = asked
      BY <1>8, <2>3 DEF Press, TypeInv
    <3>. QED
      BY <2>1, <2>3, <3>1 DEF Stages, Signing, DataInv, OneServed, Served
  <2>. QED
    BY <2>2, <2>3
<1>9. CASE Confirm(p)
  <2>1. \E pay \in Payment :
          /\ at[p].send = "confirm" /\ at'[p].send \in {"ask", "check", "persist"} /\ at'[p].load = at[p].load
          /\ keys[p].vault \in Key
          /\ keys'[p].vault = keys[p].vault /\ keys'[p].pending = pay
          /\ at'[p].send # "ask" => job'[p].key = keys[p].vault /\ job'[p].pay = pay
          /\ UNCHANGED <<disk, screen>>
    BY <1>9, ConfirmDoes DEF phone
  <2>. QED
    BY <2>1, DataTypes DEF Stages, Signing, Signs
<1>10. CASE Persist(p)
  <2>1. /\ at[p].send = "persist" /\ at'[p].send = "prep" /\ at'[p].load = at[p].load
        /\ keys[p].vault \in Key /\ disk'.vault = keys[p].vault
        /\ UNCHANGED <<screen, keys, job>>
    BY <1>10, PersistDoes
  <2>2. screen[p] # "here"
    BY <2>1, HoldsKeys
  <2>. QED
    BY <2>1, <2>2, DataTypes DEF Stages, Signing, Signs
<1>11. CASE Sign(p)
  <2>1. /\ at[p].send = "sign" /\ at'[p].send \in {"cast", "failed"} /\ at'[p].load = at[p].load
        /\ keys[p].vault \in Key /\ signed'[p][job[p].key] = job[p]
        /\ at'[p].send = "cast" => /\ disk'.vault = keys[p].vault /\ disk'.pending = keys[p].pending
                                   /\ disk'.signed = signed'[p][keys[p].vault]
        /\ UNCHANGED <<screen, keys, job>>
    BY <1>11, SignDoes
  <2>. QED
    BY <2>1, DataTypes DEF Stages, Signing, Signs, OnDisk
<1>12. ASSUME NEW reply \in {"wait", "failed"}, Broadcast(p, reply) PROVE Stages(p)'
  <2>1. /\ at[p].send = "cast" /\ at'[p].send \in {"wait", "failed"} /\ at'[p].load = at[p].load
        /\ UNCHANGED <<disk, screen, keys, job, spent>>
    BY <1>12, SendMoves DEF Broadcast, TypeInv, SendStages, phone, counters
  <2>. QED
    BY <2>1 DEF Stages, Signing, Signs, OnDisk
<1>13. CASE Handle(p)
  <2>1. /\ at[p].send = "failed" /\ at'[p].send = "ask" /\ at'[p].load = at[p].load /\ keys[p].vault \in Key
        /\ UNCHANGED <<keys, disk>> \/ keys'[p].vault = keys[p].vault
        /\ UNCHANGED screen
    BY <1>13, HandleDoes
  <2>2. screen[p] # "here"
    BY <2>1, HoldsKeys
  <2>. QED
    BY <2>1, <2>2, DataTypes DEF Stages, Signing
<1>14. CASE Proceeds(p)
  <2>1. CASE TryLoad(p)
    BY <2>1, <1>3 DEF TryLoad, LoadFails, Quiet
  <2>2. CASE \E task \in Tasks : AskYes(p, task) \/ AskNo(p, task) \/ Settle(p, task) \/ Adopt(p, task)
    BY <2>2, <1>6, <1>7, StagesGo DEF AskYes, AskNo, LandedOnChain, IsSpent
  <2>3. CASE Check(p) \/ Prepare(p) \/ Throw(p)
    BY <2>3, StagesGo DEF Check, Prepare, Throw, Tasks
  <2>4. CASE Confirmed(p)
    <3>1. at[p].send = "wait" /\ job[p] \in paid
      BY <2>4 DEF Confirmed, Goes, Moves
    <3>2. keys[p].vault = job[p].key /\ job[p].key \in Key
      BY <3>1, DataTypes DEF Stages, Signs, TypeInv, StagesMatch
    <3>3. keys[p].vault \in spent
      BY <3>1, <3>2 DEF DataInv, SpentByPaid
    <3>. QED
      BY <2>4, <3>3, StagesGo DEF Confirmed, Tasks
  <2>5. CASE Finish(p)
    BY <2>5, <1>6 DEF Tasks
  <2>. QED
    BY <1>14, <2>1, <2>2, <2>3, <2>4, <2>5, <1>4, <1>5, <1>8, <1>10, <1>11, <1>12, <1>13 DEF Proceeds
<1>15. CASE Cancel(p)
  BY <1>15, StagesGo DEF Cancel, Tasks
<1>16. CASE World
  BY <1>16, StagesCalm DEF World, Deposit, Land, Expire, phone, app, counters
<1>17. CASE Crash
  BY <1>17 DEF Crash, Idle, NoKeys, Stages, Signing
<1>18. CASE UNCHANGED vars
  BY <1>18, StagesCalm DEF vars, phone, app, chain, counters
<1>. QED
  BY <1>1, <1>2, <1>9, <1>14, <1>15, <1>16, <1>17, <1>18 DEF Next

\* A wallet without keys has nothing to lose.
LEMMA SendInit ==
    ASSUME Init
    PROVE  SendInv
  BY DEF Init, SendInv, DataInv, SpentByPaid, DiskSigned, PagesSigned, Near, LiveKept, Live, OneServed, Served,
     CanFinish, Stages, Signing, Idle, NoRecord, NoKeys, NoPayment, Unsigned, Key

\* The inductive invariant holds throughout.
LEMMA SendsAgree ==
    ASSUME Quiet
    PROVE  Spec => [](TypeInv /\ ReadsFirst /\ KeyInv /\ SendInv)
<1>. DEFINE Inv == TypeInv /\ ReadsFirst /\ KeyInv /\ SendInv
<1>0. Unhurried
  BY DEF Quiet, Unhurried
<1>1. Init => Inv
  BY TypeInit, KeyInit, SendInit
<1>2. Inv /\ [Next]_vars => Inv'
  BY <1>0, TypeStep, ReadsFirstStep, KeyStep, DataStep, StagesStep DEF SendInv, Quiet
<1>. QED
  BY <1>1, <1>2, PTL DEF Spec

\* A signed transfer that has not landed is, after a crash at any point, in the
\* record with its digest and payment (lib/keystore.dart:87-90, lib/send.dart:64-67).
THEOREM SignedSendsRecorded ==
    ASSUME Quiet
    PROVE  Spec => []CanFinish
<1>1. SendInv => CanFinish
  BY DEF SendInv, DataInv
<1>. QED
  BY <1>1, SendsAgree, PTL

\* The keys of every vault that holds tokens are in the record, through failing
\* saves and crashes between any two steps (lib/keystore.dart:44-58, _finish in
\* lib/send.dart).
THEOREM FundsKeepKeys ==
    ASSUME Quiet
    PROVE  Spec => []KeysKept
<1>1. SendInv => KeysKept
  BY DEF SendInv, DataInv, LiveKept, Live, KeysKept, IsSpent
<1>. QED
  BY <1>1, SendsAgree, PTL

\* No request of the user is paid twice, however often its send is resumed
\* (lib/main.dart:791-815, lib/keystore.dart:89-90).
THEOREM RequestsPaidOnce ==
    ASSUME Quiet
    PROVE  Spec => []PaidOnce
<1>1. TypeInv /\ SendInv => PaidOnce
  BY DEF TypeInv, TypeOK, SendInv, DataInv, OneServed, PaidOnce
<1>. QED
  BY <1>1, SendsAgree, PTL

-----------------------------------------------------------------------------
(* The app behind its passcode: the unlock screen, the lockout and a restart *)
(* only restrict when the wallet moves, so what is shown of the wallet holds *)
(* of the app.                                                               *)

\* A step of the app is a step of the wallet or leaves the wallet as it is.
LEMMA AppStep ==
    ASSUME [AppNext]_appVars
    PROVE  [Next]_vars
<1>1. CASE \E p \in Pages : OpenPage(p) \/ Authorise(p) \/ Refuse(p) \/ Proceeds(p)
  BY <1>1 DEF Authorise, Refuse, Next
<1>2. CASE LeavePage \/ World \/ Restart
  BY <1>2 DEF Restart, Next
<1>3. CASE TypeNewCode \/ TypeCode \/ Biometrics \/ LockEnds
  BY <1>3 DEF TypeNewCode, TypeCode, Biometrics, LockEnds
<1>4. CASE UNCHANGED appVars
  BY <1>4 DEF appVars
<1>. QED
  BY <1>1, <1>2, <1>3, <1>4 DEF AppNext

\* The app is a wallet: locking, unlocking and restarting it add no behaviour
\* (lib/main.dart:241-320 and 767-790).
THEOREM AppIsWallet == AppSpec => Spec
<1>1. AppInit => Init
  BY DEF AppInit
<1>2. [AppNext]_appVars => [Next]_vars
  BY AppStep
<1>. QED
  BY <1>1, <1>2, PTL DEF AppSpec, Spec

\* Behind the passcode, too, the messages of one key that leave are all the
\* same one, for one page at a time whose user waits until it has read the record
\* (test/send_guard_test.dart:1-2).
THEOREM OneMessageOfApp ==
    ASSUME Unhurried
    PROVE  AppSpec => []OneMessagePerKey
  BY AppIsWallet, OneMessage, PTL

-----------------------------------------------------------------------------
(* How long a lock lasts.                                                   *)

\* The longest waits asked for, without the recursion.
Doubled(n) == IF n < FreeMisses THEN 0 ELSE Lesser(FirstLock * 2^(n - FreeMisses), MaxLock)
WaitingFrom(f) ==
    f = [n \in Nat |-> IF n < FreeMisses THEN 0
                       ELSE Lesser(IF n = FreeMisses THEN FirstLock ELSE 2 * f[n - 1], MaxLock)]

\* A further miss doubles the wait, up to the longest.
LEMMA Doubles ==
    ASSUME NEW n \in Nat
    PROVE  /\ Doubled(n) \in 0..MaxLock
           /\ Doubled(n) = IF n < FreeMisses THEN 0
                           ELSE Lesser(IF n = FreeMisses THEN FirstLock ELSE 2 * Doubled(n - 1), MaxLock)
<1>0. /\ FreeMisses \in Nat /\ FreeMisses > 0 /\ FirstLock \in Nat /\ MaxLock \in Nat
      /\ \A k \in Nat : 2^k \in Nat /\ FirstLock * 2^k \in Nat
  BY PasscodeAssumption, Powers
<1>1. Doubled(n) \in 0..MaxLock
  <2>1. CASE n < FreeMisses
    BY <1>0, <2>1 DEF Doubled
  <2>2. CASE n >= FreeMisses
    <3>1. n - FreeMisses \in Nat /\ FirstLock * 2^(n - FreeMisses) \in Nat
      BY <1>0, <2>2
    <3>. QED
      BY <1>0, <2>2, <3>1 DEF Doubled, Lesser
  <2>. QED
    BY <1>0, <2>1, <2>2
<1>2. CASE n < FreeMisses
  BY <1>1, <1>2 DEF Doubled
<1>3. CASE n = FreeMisses
  <2>1. n - FreeMisses = 0 /\ 2^0 = 1
    BY <1>0, <1>3, Powers
  <2>2. FirstLock * 2^(n - FreeMisses) = FirstLock
    BY <1>0, <2>1
  <2>. QED
    BY <1>0, <1>1, <1>3, <2>2 DEF Doubled
<1>4. CASE n > FreeMisses
  <2>. DEFINE k == n - 1 - FreeMisses
              a == FirstLock * 2^k
  <2>1. k \in Nat /\ n - FreeMisses = k + 1 /\ n - 1 \in Nat /\ n - 1 >= FreeMisses /\ n - 1 - FreeMisses = k
    BY <1>0, <1>4
  <2>. HIDE DEF k
  <2>2. 2^(k + 1) = 2 * 2^k /\ 2^k \in Nat /\ a \in Nat
    BY <1>0, <2>1, Powers
  <2>3. FirstLock * 2^(n - FreeMisses) = 2 * a
    <3>1. \A x, y \in Nat : x * (2 * y) = 2 * (x * y)
      OBVIOUS
    <3>. QED
      BY <1>0, <2>1, <2>2, <3>1
  <2>4. Doubled(n - 1) = Lesser(a, MaxLock)
    BY <1>0, <2>1 DEF Doubled
  <2>5. Doubled(n) = Lesser(2 * a, MaxLock)
    BY <1>0, <1>4, <2>3 DEF Doubled
  <2>6. Lesser(2 * a, MaxLock) = Lesser(2 * Lesser(a, MaxLock), MaxLock)
    <3>. HIDE DEF a
    <3>. QED
      BY <1>0, <2>2 DEF Lesser
  <2>. QED
    BY <1>0, <1>1, <1>4, <2>4, <2>5, <2>6
<1>. QED
  BY <1>0, <1>2, <1>3, <1>4

\* The waits that CodesWait asks for are these.
LEMMA WaitingIs == \A n \in Nat : Waiting[n] = Doubled(n)
<1>1. WaitingFrom([n \in Nat |-> Doubled(n)])
  <2>. DEFINE d == [n \in Nat |-> Doubled(n)]
  <2>1. ASSUME NEW n \in Nat
        PROVE  Doubled(n) = IF n < FreeMisses THEN 0
                            ELSE Lesser(IF n = FreeMisses THEN FirstLock ELSE 2 * d[n - 1], MaxLock)
    <3>1. CASE n <= FreeMisses
      BY <3>1, Doubles, PasscodeAssumption
    <3>2. CASE n > FreeMisses
      <4>1. n - 1 \in Nat
        BY <3>2, PasscodeAssumption
      <4>. QED
        BY <4>1, <3>2, Doubles, PasscodeAssumption
    <3>. QED
      BY <3>1, <3>2, PasscodeAssumption
  <2>2. d = [n \in Nat |-> IF n < FreeMisses THEN 0
                           ELSE Lesser(IF n = FreeMisses THEN FirstLock ELSE 2 * d[n - 1], MaxLock)]
    BY <2>1
  <2>. QED
    BY <2>2 DEF WaitingFrom
<1>2. WaitingFrom(CHOOSE f : WaitingFrom(f))
  BY <1>1, Zenon
<1>3. Waiting = CHOOSE f : WaitingFrom(f)
  BY DEF Waiting, WaitingFrom
<1>4. WaitingFrom(Waiting)
  BY <1>2, <1>3, Zenon
<1>5. ASSUME NEW n \in Nat
      PROVE  Waiting[n] = IF n < FreeMisses THEN 0
                          ELSE Lesser(IF n = FreeMisses THEN FirstLock ELSE 2 * Waiting[n - 1], MaxLock)
  BY <1>4 DEF WaitingFrom
<1>. DEFINE T == {n \in Nat : Waiting[n] = Doubled(n)}
<1>6. 0 \in T
  BY <1>5, Doubles, PasscodeAssumption
<1>7. ASSUME NEW n \in Nat, n \in T PROVE n + 1 \in T
  <2>1. (n + 1) - 1 = n /\ n + 1 \in Nat
    OBVIOUS
  <2>2. Waiting[n + 1] = IF n + 1 < FreeMisses THEN 0
                         ELSE Lesser(IF n + 1 = FreeMisses THEN FirstLock ELSE 2 * Waiting[n], MaxLock)
    BY <1>5, <2>1
  <2>3. Doubled(n + 1) = IF n + 1 < FreeMisses THEN 0
                         ELSE Lesser(IF n + 1 = FreeMisses THEN FirstLock ELSE 2 * Doubled(n), MaxLock)
    BY Doubles, <2>1
  <2>. QED
    BY <1>7, <2>2, <2>3
<1>. HIDE DEF T
<1>8. \A n \in Nat : n \in T
  BY <1>6, <1>7, FromZero
<1>. QED
  BY <1>8 DEF T

\* A lock lasts as long as is asked for, and no longer than an hour.
LEMMA LocksLast ==
    ASSUME NEW n \in Nat
    PROVE  LockAfter(n) \in 0..MaxLock /\ LockAfter(n) >= Waiting[n]
<1>0. /\ FreeMisses \in Nat /\ FirstLock \in Nat /\ MaxLock \in Nat /\ MaxDoublings \in Nat
      /\ \A k \in Nat : 2^k \in Nat /\ FirstLock * 2^k \in Nat
      /\ FirstLock * 2^MaxDoublings >= MaxLock
  BY PasscodeAssumption, Powers
<1>1. Waiting[n] = Doubled(n) /\ Doubled(n) \in 0..MaxLock
  BY WaitingIs, Doubles
<1>2. CASE n < FreeMisses
  BY <1>0, <1>1, <1>2 DEF LockAfter, Doubled
<1>3. CASE n >= FreeMisses /\ n - FreeMisses < MaxDoublings
  BY <1>0, <1>1, <1>3 DEF LockAfter, Doubled, Lesser
<1>4. CASE n >= FreeMisses /\ ~(n - FreeMisses < MaxDoublings)
  <2>1. LockAfter(n) = Lesser(FirstLock * 2^MaxDoublings, MaxLock)
    BY <1>0, <1>4 DEF LockAfter, Lesser
  <2>2. FirstLock * 2^MaxDoublings \in Nat
    BY <1>0
  <2>3. LockAfter(n) = MaxLock
    BY <1>0, <2>1, <2>2 DEF Lesser
  <2>. QED
    BY <1>0, <1>1, <2>3
<1>. QED
  BY <1>0, <1>2, <1>3, <1>4

\* The preferences count every miss, and a lock is sat out before the next code is compared.
GateInv ==
    /\ GateTypeOK
    /\ fails = misses
    /\ IF lockFor = 0 THEN waited = LockAfter(misses) ELSE waited = 0 /\ lockFor = LockAfter(misses)

\* A right code takes back what the wrong ones did.
LEMMA RightCodeStep ==
    ASSUME GateInv, RightCode, unlocked' \in BOOLEAN
    PROVE  GateInv'
<1>1. LockAfter(0) = 0
  BY PasscodeAssumption DEF LockAfter
<1>2. lockFor = 0 /\ lockFor' = 0 /\ fails' = 0 /\ misses' = 0 /\ waited' = 0
      /\ hasCode' = hasCode /\ first' = first
  BY DEF RightCode, Compared
<1>3. 0 \in 0..MaxMisses /\ 0 \in 0..MaxLock
  BY PasscodeAssumption
<1>. QED
  BY <1>1, <1>2, <1>3 DEF GateInv, GateTypeOK, LockAfter

\* A wrong one starts the lock that the preferences ask for.
LEMMA WrongCodeStep ==
    ASSUME GateInv, WrongCode
    PROVE  GateInv'
<1>1. /\ misses \in 0..MaxMisses /\ misses < MaxMisses /\ fails = misses
      /\ fails' = fails + 1 /\ misses' = misses + 1 /\ waited' = 0 /\ lockFor' = LockAfter(fails')
      /\ UNCHANGED <<hasCode, first, unlocked>>
  BY DEF WrongCode, GateInv, GateTypeOK
<1>2. misses' \in Nat /\ misses' \in 0..MaxMisses /\ fails' = misses' /\ 0 \in 0..MaxLock
  BY <1>1, PasscodeAssumption
<1>3. lockFor' \in 0..MaxLock /\ lockFor' = LockAfter(misses')
  BY <1>1, <1>2, LocksLast
<1>. QED
  BY <1>1, <1>2, <1>3 DEF GateInv, GateTypeOK, LockAfter

\* Every step of the app keeps the count and the lock.
LEMMA GateStep ==
    ASSUME GateInv, [AppNext]_appVars
    PROVE  GateInv'
<1>1. CASE UNCHANGED gate
  BY <1>1 DEF gate, GateInv, GateTypeOK, LockAfter
<1>2. CASE RightCode /\ (UNCHANGED unlocked \/ unlocked' = TRUE)
  <2>1. unlocked' \in BOOLEAN
    BY <1>2 DEF GateInv, GateTypeOK
  <2>. QED
    BY <1>2, <2>1, RightCodeStep
<1>3. CASE WrongCode
  BY <1>3, WrongCodeStep
<1>4. CASE LockEnds
  <2>1. lockFor > 0 /\ lockFor \in 0..MaxLock /\ waited = 0 /\ lockFor = LockAfter(misses)
    BY <1>4, PasscodeAssumption DEF LockEnds, GateInv, GateTypeOK
  <2>2. lockFor' = 0 /\ waited' = LockAfter(misses) /\ waited' \in 0..MaxLock
        /\ UNCHANGED <<hasCode, fails, first, unlocked, misses>> /\ 0 \in 0..MaxLock
    BY <1>4, <2>1, PasscodeAssumption DEF LockEnds
  <2>. QED
    BY <2>2 DEF GateInv, GateTypeOK, LockAfter
<1>5. CASE TypeNewCode
  BY <1>5 DEF TypeNewCode, GateInv, GateTypeOK, LockAfter
<1>6. CASE Biometrics
  BY <1>6 DEF Biometrics, GateInv, GateTypeOK, LockAfter
<1>7. CASE Restart
  BY <1>7 DEF Restart, KeptByRestart, GateInv, GateTypeOK, LockAfter
<1>8. CASE TypeCode
  BY <1>2, <1>3, <1>8 DEF TypeCode
<1>9. ASSUME NEW p \in Pages, Authorise(p) PROVE GateInv'
  BY <1>1, <1>2, <1>9 DEF Authorise
<1>10. ASSUME NEW p \in Pages, Refuse(p) PROVE GateInv'
  BY <1>1, <1>3, <1>10 DEF Refuse
<1>11. CASE UNCHANGED appVars
  BY <1>1, <1>11 DEF appVars, gate
<1>. QED
  BY <1>1, <1>4, <1>5, <1>6, <1>7, <1>8, <1>9, <1>10, <1>11 DEF AppNext

\* The count and the lock agree at any time.
LEMMA GateHolds == AppSpec => []GateInv
<1>1. AppInit => GateInv
  <2>1. LockAfter(0) = 0 /\ 0 \in 0..MaxMisses /\ 0 \in 0..MaxLock
    BY PasscodeAssumption DEF LockAfter
  <2>. QED
    BY <2>1 DEF AppInit, GateInv, GateTypeOK
<1>2. GateInv /\ [AppNext]_appVars => GateInv'
  BY GateStep
<1>. QED
  BY <1>1, <1>2, PTL DEF AppSpec

\* The types of the gate hold, and with them the count of misses and the lock.
THEOREM GateTyped == AppSpec => []GateTypeOK
<1>1. GateInv => GateTypeOK
  BY DEF GateInv
<1>. QED
  BY <1>1, GateHolds, PTL

\* Five wrong codes in a row lock the keypad for 30 seconds, doubling per further miss, at
\* most an hour: no code is compared earlier, however often the app is restarted
\* (lib/main.dart:78-101).
THEOREM LocksAreSatOut == AppSpec => CodesWait
<1>1. GateInv /\ [AppNext]_appVars => [misses' # misses => waited >= Waiting[misses]]_appVars
  <2>. SUFFICES ASSUME GateInv, AppNext, misses' # misses PROVE waited >= Waiting[misses]
    OBVIOUS
  <2>1. ASSUME lockFor = 0 PROVE waited >= Waiting[misses]
    <3>1. waited = LockAfter(misses) /\ misses \in Nat
      BY <2>1, PasscodeAssumption DEF GateInv, GateTypeOK
    <3>. QED
      BY <3>1, LocksLast
  <2>2. RightCode \/ WrongCode
    BY DEF AppNext, Authorise, Refuse, TypeNewCode, TypeCode, Biometrics, LockEnds, Restart, gate
  <2>. QED
    BY <2>1, <2>2 DEF RightCode, WrongCode, Compared
<1>. QED
  BY <1>1, GateHolds, PTL DEF AppSpec, CodesWait
=============================================================================
