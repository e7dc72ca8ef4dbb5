---------------------------- MODULE UpgradeProofs ----------------------------
(***************************************************************************)
(* Proofs about the upgrades through the multisig, for any number of       *)
(* members, desks, builds, buffers, proposals and lost transactions.       *)
(*                                                                         *)
(* TypeInv: the types, and which transaction a waiting script waits for.   *)
(* SealedInv: the buffer of a proposal holds the proposed build.           *)
(* NamedInv: the state files name the proposals they mean.  ChangeInv, for *)
(* careful operators: so do the scripts that change the multisig.          *)
(* FundInv: of all transfers of a TAG only the recorded one is executed.   *)
(***************************************************************************)
EXTENDS Upgrade, TLAPS

Places == {"idle", "writing", "handing", "waiting", "landed", "voting", "releasing"}
Steps == {"propose", "fund", "approve", "execute"}
Commands == Steps \union {"none", "buffer", "extend", "lock", "rotate", "change"}
Job == [cmd: Commands, tag: Tags \union {"-"},
        index: 0..MaxIndex, action: Action \union {NoAction}, by: People \union {"-"}, seen: SUBSET People]
Ops == {"create", "approve", "execute", "config"}
Transaction ==
    [desk: Desks \union {Nobody}, op: Ops \union {"extend"}, by: People \union {"-"},
     index: 0..MaxIndex, action: Action \union {NoAction}, n: Nat]
Uploading == {"writing", "handing"}
Changes == {"lock", "rotate"}

\* What a script holds at each step, and what it waits for.
Held(s, j) ==
    /\ s = "idle" => j = NoJob
    /\ s \in Uploading => j.cmd = "buffer" /\ j.action.kind = "upgrade" /\ j.tag \in UpgradeTags
    /\ s \in {"voting", "releasing"} => j.cmd \in Changes
    /\ j.cmd = "propose" => j.tag \in UpgradeTags /\ j.action.kind = "upgrade"
    /\ j.cmd = "fund" => j.tag \in FundTags /\ j.action = FundFor(j.tag)
    /\ j.cmd \in {"approve", "execute"} => j.tag \in Tags
    /\ j.cmd \in {"propose", "fund"} \union Changes => j.index \in Index /\ j.action \in Action
    /\ j.cmd \in Changes => j.by \in People
Sent(x) ==
    /\ x.op \in Ops => x.index \in Index
    /\ x.op = "create" => x.action \in Action
AwaitedBy(x, s, j) ==
    /\ s = "waiting"
    /\ j.cmd \in {"propose", "fund"} \union Changes => x.index = j.index /\ x.action = j.action
    /\ j.cmd \in {"propose", "fund"} => x.op = "create"
    /\ j.cmd \in Changes => x.op \in {"create", "approve"}

DesksType ==
    /\ at \in [Desks -> Places] /\ job \in [Desks -> Job]
    /\ \A d \in Desks : Held(at[d], job[d])
NetType ==
    /\ net \subseteq Transaction
    /\ \A x \in net : Sent(x)
    /\ \A x \in net : x.desk \in Desks => AwaitedBy(x, at[x.desk], job[x.desk])
    /\ \A x, y \in net : x.desk = y.desk /\ x.desk \in Desks => x = y
ProposalsType == \A i \in Index : IF i <= ms.index THEN prop[i].action \in Action ELSE prop[i] = NoProposal
TypeInv == TypeOK /\ DesksType /\ NetType /\ ProposalsType

----------------------------------------------------------------------------
(* What the operators return.                                               *)

\* The actions that are ever proposed, by their kind.
LEMMA Kinds ==
    /\ NoAction \notin Action /\ NoAction.kind = "none"
    /\ \A a \in Action :
        /\ a.kind \in {"upgrade", "fund", "lock", "rotate"}
        /\ a.kind = "upgrade" => a.n \in Buffer /\ a.what \in SOs
        /\ a.kind = "fund" => a.what \in FundTags /\ a = FundFor(a.what)
        /\ a.kind = "lock" => a.n \in 0..MaxAge
        /\ a.kind = "rotate" => a.old \in People /\ a.new \in People
    /\ \A b \in Buffer, so \in SOs :
        /\ UpgradeFrom(b, so) \in Action
        /\ UpgradeFrom(b, so).kind = "upgrade" /\ UpgradeFrom(b, so).n = b /\ UpgradeFrom(b, so).what = so
    /\ \A t \in FundTags : FundFor(t) \in Action /\ FundFor(t).kind = "fund" /\ FundFor(t).what = t
    /\ \A n \in Locks : SetLock(n) \in Action /\ SetLock(n).kind = "lock"
    /\ \A r \in Rotations : Replace(r[1], r[2]) \in Action /\ Replace(r[1], r[2]).kind = "rotate"
<1>1. \A a \in Action : \/ \E b \in Buffer, so \in SOs : a = UpgradeFrom(b, so)
                        \/ \E t \in FundTags : a = FundFor(t)
                        \/ \E n \in Locks : a = SetLock(n)
                        \/ \E r \in Rotations : a = Replace(r[1], r[2])
  BY DEF Action
<1>2. \A b, so : /\ UpgradeFrom(b, so).kind = "upgrade" /\ UpgradeFrom(b, so).n = b
                 /\ UpgradeFrom(b, so).what = so
  BY DEF UpgradeFrom, NoAction
<1>3. \A t : FundFor(t).kind = "fund" /\ FundFor(t).what = t
  BY DEF FundFor, NoAction
<1>4. \A n : SetLock(n).kind = "lock" /\ SetLock(n).n = n
  BY DEF SetLock, NoAction
<1>5. \A o, n : Replace(o, n).kind = "rotate" /\ Replace(o, n).old = o /\ Replace(o, n).new = n
  BY DEF Replace, NoAction
<1>6. /\ \A b \in Buffer, so \in SOs : UpgradeFrom(b, so) \in Action
      /\ \A t \in FundTags : FundFor(t) \in Action
      /\ \A n \in Locks : SetLock(n) \in Action
      /\ \A r \in Rotations : Replace(r[1], r[2]) \in Action
  BY DEF Action
<1>7. Locks \subseteq 0..MaxAge /\ \A r \in Rotations : r[1] \in People /\ r[2] \in People
  BY UpgradeAssumption
<1>8. NoAction.kind = "none"
  BY DEF NoAction
<1>9. \A a \in Action :
        /\ a.kind \in {"upgrade", "fund", "lock", "rotate"}
        /\ a.kind = "upgrade" => a.n \in Buffer /\ a.what \in SOs
        /\ a.kind = "fund" => a.what \in FundTags /\ a = FundFor(a.what)
        /\ a.kind = "lock" => a.n \in 0..MaxAge
        /\ a.kind = "rotate" => a.old \in People /\ a.new \in People
  <2>. SUFFICES ASSUME NEW a \in Action
       PROVE  /\ a.kind \in {"upgrade", "fund", "lock", "rotate"}
              /\ a.kind = "upgrade" => a.n \in Buffer /\ a.what \in SOs
              /\ a.kind = "fund" => a.what \in FundTags /\ a = FundFor(a.what)
              /\ a.kind = "lock" => a.n \in 0..MaxAge
              /\ a.kind = "rotate" => a.old \in People /\ a.new \in People
    OBVIOUS
  <2>1. CASE \E b \in Buffer, so \in SOs : a = UpgradeFrom(b, so)
    BY <2>1, <1>2
  <2>2. CASE \E t \in FundTags : a = FundFor(t)
    BY <2>2, <1>3
  <2>3. CASE \E n \in Locks : a = SetLock(n)
    BY <2>3, <1>4, <1>7
  <2>4. CASE \E r \in Rotations : a = Replace(r[1], r[2])
    BY <2>4, <1>5, <1>7
  <2>. QED
    BY <1>1, <2>1, <2>2, <2>3, <2>4
<1>10. NoAction \notin Action
  BY <1>8, <1>9
<1>. QED
  BY <1>2, <1>3, <1>4, <1>5, <1>6, <1>8, <1>9, <1>10

\* The jobs and the transactions that the scripts make.
LEMMA Posted ==
    ASSUME NEW d \in Desks, NEW op \in Ops \union {"extend"}, NEW m \in People \union {"-"}, NEW i \in 0..MaxIndex,
           NEW a \in Action \union {NoAction}
    PROVE  /\ Tx(d, op, m, i, a) \in Transaction
           /\ Tx(d, op, m, i, a).desk = d /\ Tx(d, op, m, i, a).op = op /\ Tx(d, op, m, i, a).by = m
           /\ Tx(d, op, m, i, a).index = i /\ Tx(d, op, m, i, a).action = a
BY DEF Tx, Transaction

\* A fresh job of a script.
LEMMA Made ==
    ASSUME NEW d, NEW cmd \in Commands, NEW tag \in Tags \union {"-"}
    PROVE  LET k == Run(d, cmd, tag)
           IN  k \in Job /\ k.cmd = cmd /\ k.tag = tag /\ k.index = 0
               /\ k.action = NoAction /\ k.by = "-" /\ k.seen = {}
<1>1. NoJob \in Job
  BY UpgradeAssumption DEF NoJob, Job, Commands
<1>2. Run(d, cmd, tag) \in Job /\ Run(d, cmd, tag).cmd = cmd /\ Run(d, cmd, tag).tag = tag
  BY <1>1 DEF Run, Job
<1>. QED
  BY <1>2 DEF Run, NoJob
----------------------------------------------------------------------------
(* The desks and the transactions on their way.                             *)

\* A script sends a transaction and waits for it.
LEMMA SendKeeps ==
    ASSUME DesksType, NetType, NEW d \in Desks, at[d] # "waiting", NEW j \in Job, NEW x \in Transaction,
           Held("waiting", j), Sent(x), x.desk = d, AwaitedBy(x, "waiting", j), Send(d, j, x)
    PROVE  DesksType' /\ NetType'
<1>1. /\ at'[d] = "waiting" /\ job'[d] = j /\ net' = net \union {x}
      /\ at' \in [Desks -> Places] /\ job' \in [Desks -> Job]
      /\ \A e \in Desks \ {d} : at'[e] = at[e] /\ job'[e] = job[e]
  BY DEF Send, DesksType, Places
<1>2. DesksType'
  BY <1>1 DEF DesksType
<1>3. \A y \in net : y.desk # d
  BY DEF NetType, AwaitedBy
<1>4. net' \subseteq Transaction /\ \A y \in net' : Sent(y)
  BY <1>1 DEF NetType
<1>5. \A y \in net' : y.desk \in Desks => AwaitedBy(y, at'[y.desk], job'[y.desk])
  BY <1>1, <1>3 DEF NetType
<1>6. \A y, z \in net' : y.desk = z.desk /\ y.desk \in Desks => y = z
  BY <1>1, <1>3 DEF NetType
<1>. QED
  BY <1>2, <1>4, <1>5, <1>6 DEF NetType

\* A script ends, with nothing of its own under way.
LEMMA StopKeeps ==
    ASSUME DesksType, NetType, NEW d \in Desks, Stop(d), net' \subseteq net, \A x \in net' : x.desk # d
    PROVE  DesksType' /\ NetType'
<1>0. NoJob \in Job /\ Held("idle", NoJob)
  BY UpgradeAssumption DEF NoJob, Job, Held, Commands, Steps, Uploading, Changes
<1>1. /\ at'[d] = "idle" /\ job'[d] = NoJob
      /\ at' \in [Desks -> Places] /\ job' \in [Desks -> Job]
      /\ \A e \in Desks \ {d} : at'[e] = at[e] /\ job'[e] = job[e]
  BY <1>0 DEF Stop, DesksType, Places
<1>2. DesksType'
  BY <1>0, <1>1 DEF DesksType
<1>3. net' \subseteq Transaction /\ \A y \in net' : Sent(y)
  BY DEF NetType
<1>4. \A y \in net' : y.desk \in Desks => AwaitedBy(y, at'[y.desk], job'[y.desk])
  BY <1>1 DEF NetType
<1>5. \A y, z \in net' : y.desk = z.desk /\ y.desk \in Desks => y = z
  BY DEF NetType
<1>. QED
  BY <1>2, <1>3, <1>4, <1>5 DEF NetType

\* A script goes on without sending anything.
LEMMA MoveKeeps ==
    ASSUME DesksType, NetType, NEW d \in Desks, at[d] # "waiting", NEW s \in Places \ {"waiting"}, NEW j \in Job, Held(s, j),
           at' = [at EXCEPT ![d] = s], job' = [job EXCEPT ![d] = j], UNCHANGED net
    PROVE  DesksType' /\ NetType'
<1>1. /\ at'[d] = s /\ job'[d] = j
      /\ at' \in [Desks -> Places] /\ job' \in [Desks -> Job]
      /\ \A e \in Desks \ {d} : at'[e] = at[e] /\ job'[e] = job[e]
  BY DEF DesksType
<1>2. DesksType'
  BY <1>1 DEF DesksType
<1>3. \A y \in net : y.desk # d
  BY DEF NetType, AwaitedBy
<1>4. \A y \in net' : y.desk \in Desks => AwaitedBy(y, at'[y.desk], job'[y.desk])
  BY <1>1, <1>3 DEF NetType
<1>. QED
  BY <1>2, <1>4 DEF NetType

\* A transaction arrives and the script that waits for it, if any, goes on.
LEMMA LandKeeps ==
    ASSUME DesksType, NetType, NEW x \in net, Leaves(x), Answer(x, "landed"), UNCHANGED job
    PROVE  DesksType' /\ NetType'
<1>1. CASE x.desk = Nobody
  BY <1>1, UpgradeAssumption DEF Leaves, Answer, DesksType, NetType
<1>2. CASE x.desk # Nobody
  <2>0. x.desk \in Desks /\ AwaitedBy(x, at[x.desk], job[x.desk]) /\ Held("waiting", job[x.desk])
    BY <1>2 DEF NetType, Transaction, AwaitedBy, DesksType
  <2>1. /\ at'[x.desk] = "landed" /\ at' \in [Desks -> Places]
        /\ \A e \in Desks \ {x.desk} : at'[e] = at[e]
    BY <1>2, <2>0 DEF Answer, DesksType, Places
  <2>2. Held("landed", job[x.desk])
    BY <2>0 DEF Held, Uploading
  <2>3. DesksType'
    BY <2>1, <2>2 DEF DesksType
  <2>4. net' \subseteq net /\ \A y \in net' : y.desk # x.desk
    BY <2>0 DEF Leaves, NetType
  <2>. QED
    BY <2>1, <2>3, <2>4 DEF NetType
<1>. QED
  BY <1>1, <1>2

\* A transaction is refused or expires.
LEMMA DropKeeps ==
    ASSUME DesksType, NetType, NEW x \in net, Drop(x)
    PROVE  DesksType' /\ NetType'
<1>1. CASE x.desk = Nobody
  BY <1>1 DEF Drop, Leaves, DesksType, NetType, desk
<1>2. CASE x.desk # Nobody
  <2>1. x.desk \in Desks
    BY <1>2 DEF NetType, Transaction
  <2>2. net' \subseteq net /\ \A y \in net' : y.desk # x.desk
    BY <2>1 DEF Drop, Leaves, NetType
  <2>. QED
    BY <1>2, <2>1, <2>2, StopKeeps DEF Drop
<1>. QED
  BY <1>1, <1>2

Orphan(x) == [x EXCEPT !.desk = Nobody]
\* The transactions of a script that is lost belong to nobody, and are otherwise the same.
LEMMA Orphans ==
    ASSUME NEW x \in Transaction
    PROVE  /\ Orphan(x) \in Transaction /\ Orphan(x).desk = Nobody
           /\ Orphan(x).op = x.op /\ Orphan(x).by = x.by /\ Orphan(x).index = x.index /\ Orphan(x).action = x.action
           /\ Orphan(x).n = x.n
           /\ Sent(x) => Sent(Orphan(x))
BY DEF Orphan, Transaction, Sent

\* A script that is lost stops; what it sent stays under way with nobody waiting.
LEMMA LoseDoes ==
    ASSUME NetType, NEW d \in Desks, Lose(d)
    PROVE  /\ Stop(d) /\ UNCHANGED <<chain, file, meant>> /\ at[d] # "idle"
           /\ \A y \in net' : \/ y \in net /\ y.desk # d
                              \/ \E x \in net : x.desk = d /\ y = Orphan(x)
BY DEF Lose, Orphan

\* So the desks and the transactions keep their types.
LEMMA LoseKeeps ==
    ASSUME DesksType, NetType, NEW d \in Desks, Lose(d)
    PROVE  DesksType' /\ NetType'
<1>0. NoJob \in Job /\ Held("idle", NoJob) /\ Nobody \notin Desks
  BY UpgradeAssumption DEF NoJob, Job, Held, Commands, Steps, Uploading, Changes
<1>1. /\ at'[d] = "idle" /\ job'[d] = NoJob
      /\ at' \in [Desks -> Places] /\ job' \in [Desks -> Job]
      /\ \A e \in Desks \ {d} : at'[e] = at[e] /\ job'[e] = job[e]
  BY <1>0, LoseDoes DEF Stop, DesksType, Places
<1>2. DesksType'
  BY <1>0, <1>1 DEF DesksType
<1>3. \A y \in net' : \/ y \in net /\ y.desk # d
                      \/ y \in Transaction /\ Sent(y) /\ y.desk = Nobody
  BY LoseDoes, Orphans DEF NetType
<1>4. net' \subseteq Transaction /\ \A y \in net' : Sent(y)
  BY <1>3 DEF NetType
<1>5. \A y \in net' : y.desk \in Desks => y \in net /\ y.desk # d
  BY <1>0, <1>3
<1>. QED
  BY <1>1, <1>2, <1>4, <1>5 DEF NetType

\* What the scripts read is typed.
LEMMA Facts ==
    ASSUME TypeInv
    PROVE  /\ ms.members \subseteq People /\ ms.threshold \in Nat /\ ms.timeLock \in 0..MaxAge
           /\ ms.index \in 0..MaxIndex /\ ms.stale \in 0..MaxIndex
           /\ \A i \in Index : /\ prop[i].action \in Action \union {NoAction} /\ prop[i].approved \subseteq People
                               /\ prop[i].age \in 0..MaxAge
           /\ \A t \in Tags : /\ file[t].index \in 0..MaxIndex /\ meant[t] \in Action \union {NoAction}
                              /\ file[t].index # 0 => file[t].index \in Index
           /\ \A so \in SOs : Extra(so) \in Nat
           /\ \A d \in Desks : job[d] \in Job /\ Held(at[d], job[d]) /\ at[d] \in Places
           /\ MaxIndex \in Nat /\ Index \subseteq 0..MaxIndex
           /\ ms.index < MaxIndex => ms.index + 1 \in Index
<1>1. MaxIndex \in Nat /\ Size \in [SOs -> Nat] /\ MinExtend \in Nat
  BY UpgradeAssumption
<1>2. \A so \in SOs : Extra(so) \in Nat
  BY <1>1 DEF Extra, TypeInv, TypeOK
<1>. QED
  BY <1>1, <1>2 DEF TypeInv, TypeOK, SquadsTypes, DesksType, Index

\* Every step keeps the types of the desks and of what is under way.
LEMMA DesksStep ==
    ASSUME TypeInv, [Next]_vars
    PROVE  DesksType' /\ NetType'
<1>0. DesksType /\ NetType /\ NoAction \in Action \union {NoAction}
  BY DEF TypeInv
<1>1. ASSUME NEW d \in Desks, NEW tag \in UpgradeTags, NEW so \in SOs, NEW b \in Buffer, StartBuffer(d, tag, so, b)
      PROVE  DesksType' /\ NetType'
  <2>. DEFINE r == Run(d, "buffer", tag)
              j == [r EXCEPT !.action = UpgradeFrom(b, so)]
  <2>1. j \in Job /\ j.cmd = "buffer" /\ j.tag = tag /\ j.action.kind = "upgrade"
    <3>0. "buffer" \in Commands /\ tag \in Tags \union {"-"}
      BY DEF Commands, Steps, Changes, Tags
    <3>1. r \in Job /\ r.cmd = "buffer" /\ r.tag = tag
      BY <3>0, Made
    <3>. HIDE DEF r
    <3>. QED
      BY <3>1, Facts, Kinds DEF Job
  <2>2. Held("writing", j)
    BY <2>1 DEF Held, Uploading, Changes
  <2>3. /\ at[d] # "waiting" /\ at' = [at EXCEPT ![d] = "writing"] /\ job' = [job EXCEPT ![d] = j] /\ UNCHANGED net
    BY <1>1 DEF StartBuffer
  <2>. QED
    BY <1>0, <2>1, <2>2, <2>3, MoveKeeps DEF Places
<1>2. ASSUME NEW d \in Desks, NEW tag \in UpgradeTags, NEW so \in SOs, NEW b \in Buffer, NEW m \in ms.members,
             Propose(d, tag, so, b, m)
      PROVE  DesksType' /\ NetType'
  <2>. DEFINE r == Run(d, "propose", tag)
              j == [r EXCEPT !.index = ms.index + 1, !.action = UpgradeFrom(b, so)]
              x == Tx(d, "create", m, j.index, j.action)
  <2>1. at[d] # "waiting" /\ ms.index + 1 \in Index /\ Send(d, j, x)
    BY <1>2, Facts, Kinds DEF Propose
  <2>2. j \in Job /\ j.cmd = "propose" /\ j.tag = tag /\ j.action = UpgradeFrom(b, so) /\ j.index = ms.index + 1
    <3>0. "propose" \in Commands /\ tag \in Tags \union {"-"}
      BY DEF Commands, Steps, Changes, Tags
    <3>1. r \in Job /\ r.cmd = "propose" /\ r.tag = tag
      BY <3>0, Made
    <3>. HIDE DEF r
    <3>. QED
      BY <2>1, <3>1, Facts, Kinds DEF Job
  <2>3. x \in Transaction /\ x.desk = d /\ x.op = "create" /\ x.index = j.index /\ x.action = j.action
    BY <2>1, <2>2, Posted, Facts, Kinds DEF Ops
  <2>4. Held("waiting", j) /\ Sent(x) /\ AwaitedBy(x, "waiting", j)
    BY <2>1, <2>2, <2>3, Facts, Kinds DEF Held, Sent, AwaitedBy, Uploading, Changes
  <2>. QED
    BY <1>0, <2>1, <2>2, <2>3, <2>4, SendKeeps
<1>3. ASSUME NEW d \in Desks, NEW tag \in FundTags, NEW m \in ms.members, Fund(d, tag, m)
      PROVE  DesksType' /\ NetType'
  <2>. DEFINE r == Run(d, "fund", tag)
              j == [r EXCEPT !.index = ms.index + 1, !.action = FundFor(tag)]
              x == Tx(d, "create", m, j.index, j.action)
  <2>1. at[d] # "waiting" /\ ms.index + 1 \in Index /\ Send(d, j, x)
    BY <1>3, Facts, Kinds DEF Fund
  <2>2. j \in Job /\ j.cmd = "fund" /\ j.tag = tag /\ j.action = FundFor(tag) /\ j.index = ms.index + 1
    <3>0. "fund" \in Commands /\ tag \in Tags \union {"-"}
      BY DEF Commands, Steps, Changes, Tags
    <3>1. r \in Job /\ r.cmd = "fund" /\ r.tag = tag
      BY <3>0, Made
    <3>. HIDE DEF r
    <3>. QED
      BY <2>1, <3>1, Facts, Kinds DEF Job
  <2>3. x \in Transaction /\ x.desk = d /\ x.op = "create" /\ x.index = j.index /\ x.action = j.action
    BY <2>1, <2>2, Posted, Facts, Kinds DEF Ops
  <2>4. Held("waiting", j) /\ Sent(x) /\ AwaitedBy(x, "waiting", j)
    BY <2>1, <2>2, <2>3, Facts, Kinds DEF Held, Sent, AwaitedBy, Uploading, Changes
  <2>. QED
    BY <1>0, <2>1, <2>2, <2>3, <2>4, SendKeeps
<1>4. ASSUME NEW d \in Desks, NEW tag \in Tags, NEW m \in ms.members, Approve(d, tag, m)
      PROVE  DesksType' /\ NetType'
  <2>. DEFINE r == Run(d, "approve", tag)
              j == [r EXCEPT !.index = file[tag].index, !.action = meant[tag]]
              x == Tx(d, "approve", m, j.index, j.action)
  <2>1. at[d] # "waiting" /\ file[tag].index \in Index /\ Send(d, j, x)
    BY <1>4, Facts, Kinds DEF Approve, Recorded
  <2>2. j \in Job /\ j.cmd = "approve" /\ j.tag = tag /\ j.index = file[tag].index /\ j.action = meant[tag]
    <3>0. "approve" \in Commands /\ tag \in Tags \union {"-"}
      BY DEF Commands, Steps
    <3>1. r \in Job /\ r.cmd = "approve" /\ r.tag = tag
      BY <3>0, Made
    <3>. HIDE DEF r
    <3>. QED
      BY <2>1, <3>1, Facts, Kinds DEF Job
  <2>3. x \in Transaction /\ x.desk = d /\ x.op = "approve" /\ x.index = j.index
    BY <2>1, <2>2, Posted, Facts, Kinds DEF Ops
  <2>4. Held("waiting", j) /\ Sent(x) /\ AwaitedBy(x, "waiting", j)
    BY <2>1, <2>2, <2>3 DEF Held, Sent, AwaitedBy, Uploading, Changes
  <2>. QED
    BY <1>0, <2>1, <2>2, <2>3, <2>4, SendKeeps
<1>5. ASSUME NEW d \in Desks, NEW tag \in Tags, NEW so \in SOs, NEW m \in ms.members, Execute(d, tag, so, m)
      PROVE  DesksType' /\ NetType'
  <2>. DEFINE r == Run(d, "execute", tag)
              j == [r EXCEPT !.index = file[tag].index]
              x == Tx(d, "execute", m, j.index, NoAction)
  <2>1. at[d] # "waiting" /\ file[tag].index \in Index /\ Send(d, j, x)
    BY <1>5, Facts, Kinds DEF Execute, Ready, Recorded
  <2>2. j \in Job /\ j.cmd = "execute" /\ j.tag = tag /\ j.index = file[tag].index
    <3>0. "execute" \in Commands /\ tag \in Tags \union {"-"}
      BY DEF Commands, Steps
    <3>1. r \in Job /\ r.cmd = "execute" /\ r.tag = tag
      BY <3>0, Made
    <3>. HIDE DEF r
    <3>. QED
      BY <2>1, <3>1, Facts, Kinds DEF Job
  <2>3. x \in Transaction /\ x.desk = d /\ x.op = "execute" /\ x.index = j.index
    BY <1>0, <2>1, <2>2, Posted, Facts, Kinds DEF Ops
  <2>4. Held("waiting", j) /\ Sent(x) /\ AwaitedBy(x, "waiting", j)
    BY <2>1, <2>2, <2>3 DEF Held, Sent, AwaitedBy, Uploading, Changes
  <2>. QED
    BY <1>0, <2>1, <2>2, <2>3, <2>4, SendKeeps
<1>6. ASSUME NEW d \in Desks, NEW so \in SOs, Extend(d, so)
      PROVE  DesksType' /\ NetType'
  <2>. DEFINE j == Run(d, "extend", "-")
              x == [Tx(d, "extend", "-", 0, NoAction) EXCEPT !.n = Extra(so)]
  <2>1. at[d] # "waiting" /\ Send(d, j, x)
    BY <1>6 DEF Extend
  <2>2. j \in Job /\ j.cmd = "extend"
    <3>1. "extend" \in Commands /\ "-" \in Tags \union {"-"}
      BY DEF Commands
    <3>. QED
      BY <3>1, Made
  <2>3. x \in Transaction /\ x.desk = d /\ x.op = "extend"
    BY Facts, Kinds DEF Tx, Transaction
  <2>4. Held("waiting", j) /\ Sent(x) /\ AwaitedBy(x, "waiting", j)
    BY <2>2, <2>3 DEF Held, Sent, AwaitedBy, Uploading, Changes, Ops
  <2>. QED
    BY <1>0, <2>1, <2>2, <2>3, <2>4, SendKeeps
<1>7. ASSUME NEW d \in Desks, NEW cmd \in Changes, NEW act \in Action, NEW a \in ms.members, NEW b \in ms.members,
             Change(d, cmd, act, a, b)
      PROVE  DesksType' /\ NetType'
  <2>. DEFINE r == Run(d, cmd, "-")
              j == [r EXCEPT !.action = act, !.by = b]
  <2>1. at[d] # "waiting"
    BY <1>7 DEF Change
  <2>2. j \in Job /\ j.cmd = cmd /\ j.action = act /\ j.by = b
    <3>0. cmd \in Commands /\ "-" \in Tags \union {"-"}
      BY DEF Commands, Changes
    <3>1. r \in Job /\ r.cmd = cmd /\ r.tag = "-"
      BY <3>0, Made
    <3>. HIDE DEF r
    <3>. QED
      BY <3>1, Facts, Kinds DEF Job
  <2>3. CASE Resumable(cmd)
    <3>. DEFINE k == [j EXCEPT !.index = ms.index, !.seen = prop[ms.index].approved]
    <3>1. at' = [at EXCEPT ![d] = "voting"] /\ job' = [job EXCEPT ![d] = k] /\ UNCHANGED net
      BY <1>7, <2>3 DEF Change
    <3>2. ms.index \in Index /\ prop[ms.index].approved \subseteq People
      BY <2>3, Facts, Kinds DEF Resumable, Index
    <3>. HIDE DEF j
    <3>3. k \in Job /\ k.cmd = cmd /\ k.action = act /\ k.index = ms.index /\ k.by = b
      BY <2>2, <3>2, Facts, Kinds DEF Job
    <3>4. Held("voting", k)
      BY <3>2, <3>3, Facts, Kinds DEF Held, Uploading, Changes
    <3>. HIDE DEF k
    <3>5. "voting" \in Places \ {"waiting"}
      BY DEF Places
    <3>. QED
      BY <1>0, <2>1, <3>1, <3>3, <3>4, <3>5, MoveKeeps
  <2>4. CASE ~Resumable(cmd)
    <3>. DEFINE k == [j EXCEPT !.index = ms.index + 1]
                x == Tx(d, "create", a, ms.index + 1, act)
    <3>1. Send(d, k, x) /\ ms.index + 1 \in Index
      BY <1>7, <2>4, Facts, Kinds DEF Change
    <3>. HIDE DEF j
    <3>2. k \in Job /\ k.cmd = cmd /\ k.action = act /\ k.index = ms.index + 1 /\ k.by = b
      BY <2>2, <3>1, Facts, Kinds DEF Job
    <3>3. x \in Transaction /\ x.desk = d /\ x.op = "create" /\ x.index = ms.index + 1 /\ x.action = act
      BY <3>1, Posted, Facts, Kinds DEF Ops
    <3>4. Held("waiting", k) /\ Sent(x) /\ AwaitedBy(x, "waiting", k)
      BY <3>1, <3>2, <3>3, Facts, Kinds DEF Held, Sent, AwaitedBy, Uploading, Changes
    <3>. QED
      BY <1>0, <2>1, <3>1, <3>2, <3>3, <3>4, SendKeeps
  <2>. QED
    BY <2>3, <2>4
<1>8. ASSUME NEW d \in Desks, WriteBuffer(d)
      PROVE  DesksType' /\ NetType'
  <2>1. at[d] = "writing" /\ at' = [at EXCEPT ![d] = "handing"] /\ job' = [job EXCEPT ![d] = job[d]] /\ UNCHANGED net
    BY <1>0, <1>8 DEF WriteBuffer, DesksType
  <2>2. Held("handing", job[d])
    BY <2>1, Facts, Kinds DEF Held, Uploading
  <2>. QED
    BY <1>0, <2>1, <2>2, MoveKeeps, Facts, Kinds DEF Places
<1>9. ASSUME NEW d \in Desks, HandOver(d) \/ Save(d) \/ EndExtend(d) \/ EndChange(d)
      PROVE  DesksType' /\ NetType'
  <2>1. at[d] # "waiting" /\ Stop(d) /\ UNCHANGED net
    BY <1>9 DEF HandOver, Save, EndExtend, EndChange
  <2>2. \A x \in net' : x.desk # d
    BY <1>0, <2>1 DEF NetType, AwaitedBy
  <2>. QED
    BY <1>0, <2>1, <2>2, StopKeeps
<1>10. ASSUME NEW d \in Desks, Vote(d)
      PROVE  DesksType' /\ NetType'
  <2>1. at[d] # "waiting" /\ job[d].cmd \in Changes /\ job[d].index \in Index /\ job[d].action \in Action
    BY <1>10, Facts, Kinds DEF Vote, IsChange, Held, Changes
  <2>2. CASE job[d].by \in job[d].seen
    <3>1. at' = [at EXCEPT ![d] = "releasing"] /\ job' = [job EXCEPT ![d] = job[d]] /\ UNCHANGED net
      BY <1>0, <1>10, <2>2 DEF Vote, DesksType
    <3>2. Held("releasing", job[d])
      BY <2>1, Facts, Kinds DEF Held, Uploading, Changes
    <3>. QED
      BY <1>0, <2>1, <3>1, <3>2, MoveKeeps, Facts, Kinds DEF Places
  <2>3. CASE job[d].by \notin job[d].seen
    <3>. DEFINE k == [job[d] EXCEPT !.seen = job[d].seen \union {job[d].by}]
                x == Tx(d, "approve", job[d].by, job[d].index, job[d].action)
    <3>1. Send(d, k, x)
      BY <1>10, <2>3 DEF Vote
    <3>2. job[d].by \in People
      BY <2>1, Facts, Kinds DEF Held
    <3>3. k \in Job /\ k.cmd = job[d].cmd /\ k.action = job[d].action /\ k.index = job[d].index /\ k.by = job[d].by
      BY <2>1, <3>2, Facts, Kinds DEF Job
    <3>4. x \in Transaction /\ x.desk = d /\ x.op = "approve" /\ x.index = job[d].index /\ x.action = job[d].action
      BY <2>1, <3>2, Posted, Facts, Kinds DEF Ops
    <3>5. Held("waiting", k) /\ Sent(x) /\ AwaitedBy(x, "waiting", k)
      BY <2>1, <3>2, <3>3, <3>4 DEF Held, Sent, AwaitedBy, Uploading, Changes
    <3>. QED
      BY <1>0, <2>1, <3>1, <3>3, <3>4, <3>5, SendKeeps
  <2>. QED
    BY <2>2, <2>3
<1>11. ASSUME NEW d \in Desks, Release(d)
      PROVE  DesksType' /\ NetType'
  <2>1. at[d] # "waiting" /\ job[d].cmd \in Changes /\ job[d].index \in Index /\ job[d].by \in People
    BY <1>11, Facts, Kinds DEF Release, IsChange, Held, Changes
  <2>2. CASE Stop(d) /\ UNCHANGED net
    <3>1. \A x \in net' : x.desk # d
      BY <1>0, <2>1, <2>2 DEF NetType, AwaitedBy
    <3>. QED
      BY <1>0, <2>2, <3>1, StopKeeps
  <2>. DEFINE k == [job[d] EXCEPT !.cmd = "change"]
              x == Tx(d, "config", job[d].by, job[d].index, NoAction)
  <2>3. CASE Send(d, k, x)
    <3>1. k \in Job /\ k.cmd = "change"
      BY Facts, Kinds DEF Job, Commands
    <3>2. x \in Transaction /\ x.desk = d /\ x.op = "config" /\ x.index = job[d].index
      BY <1>0, <2>1, Posted, Facts, Kinds DEF Ops
    <3>3. Held("waiting", k) /\ Sent(x) /\ AwaitedBy(x, "waiting", k)
      BY <2>1, <3>1, <3>2 DEF Held, Sent, AwaitedBy, Uploading, Changes
    <3>. QED
      BY <1>0, <2>1, <2>3, <3>1, <3>2, <3>3, SendKeeps
  <2>. QED
    BY <1>11, <2>2, <2>3 DEF Release
<1>12. ASSUME NEW d \in Desks, Lose(d) PROVE DesksType' /\ NetType'
  BY <1>0, <1>12, LoseKeeps
<1>13. ASSUME NEW x \in net, LandVote(x) \/ LandExecution(x) \/ LandChange(x) \/ LandExtension(x)
       PROVE  DesksType' /\ NetType'
  <2>1. Leaves(x) /\ Answer(x, "landed") /\ UNCHANGED job
    BY <1>13 DEF LandVote, LandExecution, LandChange, LandExtension
  <2>. QED
    BY <1>0, <2>1, LandKeeps
<1>14. ASSUME NEW x \in net, Refuse(x) \/ Expire(x) PROVE DesksType' /\ NetType'
  <2>1. Drop(x) \/ (Leaves(x) /\ Answer(x, "landed") /\ UNCHANGED job)
    BY <1>14 DEF Refuse, Expire, FailsUnnoticed
  <2>. QED
    BY <1>0, <2>1, DropKeeps, LandKeeps
<1>15. ASSUME UNCHANGED <<desk, net>> PROVE DesksType' /\ NetType'
  BY <1>0, <1>15 DEF DesksType, NetType, desk
<1>16. ASSUME NEW d \in Desks, NEW a \in ms.members, NEW b \in ms.members,
              (\E n \in Locks : ChangeLock(d, n, a, b)) \/ \E r \in Rotations : Rotate(d, r[1], r[2], a, b)
       PROVE  DesksType' /\ NetType'
  BY <1>7, <1>16, Facts, Kinds DEF ChangeLock, Rotate, Changes
<1>17. ASSUME \/ \E b \in Buffer, so \in SOs : Rewrite(b, so)
              \/ \E i \in Index : Pass(i)
              \/ UNCHANGED vars
       PROVE  DesksType' /\ NetType'
  BY <1>15, <1>17 DEF Rewrite, Pass, vars
<1>. QED
  BY <1>1, <1>2, <1>3, <1>4, <1>5, <1>6, <1>8, <1>9, <1>10, <1>11, <1>12, <1>13, <1>14, <1>16, <1>17 DEF Next

----------------------------------------------------------------------------
(* The multisig.                                                            *)

Multisig ==
    [members: SUBSET People, threshold: Nat, timeLock: 0..MaxAge, index: 0..MaxIndex, stale: 0..MaxIndex]
Proposal ==
    [action: Action \union {NoAction}, status: {"None", "Active", "Approved", "Executed"},
     approved: SUBSET People, age: 0..MaxAge]
Uploads == [code: SOs \union {"none", "partial"}, auth: {"none", "payer", "vault", "closed"}]
LoaderType == code \in SOs /\ capacity \in Nat /\ purse \in Nat /\ buf \in [Buffer -> Uploads]
SquadsType == ms \in Multisig /\ prop \in [Index -> Proposal] /\ ProposalsType

\* One more vote.
LEMMA VotedDoes ==
    ASSUME NEW p \in Proposal, NEW m \in People
    PROVE  /\ Voted(p, m) \in Proposal /\ Voted(p, m).action = p.action /\ Voted(p, m).age = p.age
           /\ Voted(p, m).approved = p.approved \union {m}
           /\ Voted(p, m).status \in {"Active", "Approved"}
<1>. DEFINE all == p.approved \union {m}
            st == IF Cardinality(all) >= ms.threshold THEN "Approved" ELSE "Active"
<1>1. Voted(p, m) = [p EXCEPT !.approved = all, !.status = st]
  BY DEF Voted
<1>2. st \in {"Active", "Approved"} /\ all \in SUBSET People /\ all = p.approved \union {m}
  BY DEF Proposal
<1>. HIDE DEF st, all
<1>. QED
  BY <1>1, <1>2 DEF Proposal

\* The types by component.
LEMMA SquadsTyped ==
    ASSUME TypeInv
    PROVE  SquadsType /\ LoaderType /\ MaxIndex \in Nat /\ MaxAge \in Nat
BY UpgradeAssumption DEF TypeInv, TypeOK, SquadsTypes, SquadsType, LoaderType, Multisig, Proposal, Uploads

\* What one transaction does to the proposals: a new one has the next index, and a proposal
\* keeps its action; a vote leaves it open, an execution needs its approval.
LEMMA CreationDoes ==
    ASSUME SquadsType, MaxIndex \in Nat, MaxAge \in Nat,
           NEW m \in ms.members, NEW i \in Index, i = ms.index + 1, NEW a \in Action,
           Created(m, i, a)
    PROVE  /\ SquadsType' /\ ms'.index = i /\ ms'.members = ms.members /\ ms'.stale = ms.stale
           /\ prop'[i].action = a /\ prop'[i].status \in {"Active", "Approved"}
           /\ \A k \in Index \ {i} : prop'[k] = prop[k]
<1>. DEFINE p == [NoProposal EXCEPT !.action = a]
<1>1. p \in Proposal /\ p.action = a
  BY DEF NoProposal, Proposal
<1>2. prop' = [prop EXCEPT ![i] = Voted(p, m)] /\ ms' = [ms EXCEPT !.index = i]
  BY DEF Created
<1>3. m \in People
  BY DEF SquadsType, Multisig
<1>. HIDE DEF p
<1>4. /\ prop'[i] = Voted(p, m) /\ prop' \in [Index -> Proposal] /\ \A k \in Index \ {i} : prop'[k] = prop[k]
      /\ Voted(p, m).action = a /\ Voted(p, m).status \in {"Active", "Approved"}
  BY <1>1, <1>2, <1>3, VotedDoes DEF SquadsType
<1>5. ms' \in Multisig /\ ms'.index = i /\ ms'.members = ms.members /\ ms'.stale = ms.stale
  BY <1>2 DEF SquadsType, Multisig, Index
<1>6. ProposalsType'
  BY <1>4, <1>5 DEF SquadsType, ProposalsType, Index, Multisig
<1>. QED
  BY <1>4, <1>5, <1>6 DEF SquadsType

\* A vote is on a proposal that is open, and leaves its action alone.
LEMMA ApprovalDoes ==
    ASSUME SquadsType, MaxIndex \in Nat, NEW m, NEW i \in Index, CanApprove(m, i), Approved(m, i)
    PROVE  /\ SquadsType' /\ ms' = ms /\ i <= ms.index /\ prop[i].status = "Active"
           /\ prop'[i].action = prop[i].action /\ prop'[i].status \in {"Active", "Approved"}
           /\ \A k \in Index \ {i} : prop'[k] = prop[k]
<1>1. m \in People /\ prop[i].status = "Active" /\ prop[i] \in Proposal /\ ms' = ms
  BY DEF CanApprove, SquadsType, Multisig, Approved
<1>2. i <= ms.index
  BY <1>1 DEF SquadsType, ProposalsType, NoProposal
<1>3. prop' = [prop EXCEPT ![i] = Voted(prop[i], m)]
  BY DEF Approved
<1>4. /\ prop'[i].action = prop[i].action /\ prop'[i].status \in {"Active", "Approved"}
      /\ prop' \in [Index -> Proposal]
      /\ \A k \in Index \ {i} : prop'[k] = prop[k]
  BY <1>1, <1>3, VotedDoes DEF SquadsType
<1>5. ProposalsType'
  BY <1>1, <1>2, <1>4 DEF SquadsType, ProposalsType
<1>. QED
  BY <1>1, <1>2, <1>4, <1>5 DEF SquadsType

\* An execution is of an approved proposal.
LEMMA ExecutionDoes ==
    ASSUME SquadsType, MaxIndex \in Nat, NEW m, NEW i \in Index, CanExecute(m, i), Executed(i),
           ms' \in Multisig, ms'.index = ms.index
    PROVE  /\ SquadsType' /\ i <= ms.index /\ prop[i].status = "Approved" /\ prop[i].action \in Action
           /\ prop'[i].action = prop[i].action /\ prop'[i].status = "Executed"
           /\ \A k \in Index \ {i} : prop'[k] = prop[k]
<1>1. prop[i].status = "Approved" /\ prop[i] \in Proposal
  BY DEF CanExecute, SquadsType
<1>2. i <= ms.index /\ prop[i].action \in Action
  BY <1>1 DEF SquadsType, ProposalsType, NoProposal
<1>. DEFINE p == [prop[i] EXCEPT !.status = "Executed"]
<1>3. p \in Proposal /\ p.action = prop[i].action /\ p.status = "Executed"
  BY <1>1 DEF Proposal
<1>4. prop' = [prop EXCEPT ![i] = p]
  BY DEF Executed
<1>. HIDE DEF p
<1>5. /\ prop'[i] = p /\ prop' \in [Index -> Proposal]
      /\ \A k \in Index \ {i} : prop'[k] = prop[k]
  BY <1>3, <1>4 DEF SquadsType
<1>6. ProposalsType'
  BY <1>2, <1>3, <1>5 DEF SquadsType, ProposalsType
<1>. QED
  BY <1>1, <1>2, <1>3, <1>5, <1>6 DEF SquadsType

\* Time changes ages only.
LEMMA TickDoes ==
    ASSUME SquadsType, MaxIndex \in Nat, MaxAge \in Nat, NEW i \in Index, Tick(i)
    PROVE  /\ SquadsType' /\ ms' = ms
           /\ \A k \in Index : prop'[k].action = prop[k].action /\ prop'[k].status = prop[k].status
<1>1. prop[i].status = "Approved" /\ prop[i] \in Proposal /\ prop[i].age < MaxAge /\ ms' = ms
  BY DEF Tick, SquadsType
<1>2. i <= ms.index
  BY <1>1 DEF SquadsType, ProposalsType, NoProposal
<1>. DEFINE p == [prop[i] EXCEPT !.age = prop[i].age + 1]
<1>3. p \in Proposal /\ p.action = prop[i].action /\ p.status = prop[i].status
  BY <1>1 DEF Proposal
<1>4. prop' = [prop EXCEPT ![i] = p]
  BY DEF Tick
<1>. HIDE DEF p
<1>5. /\ prop'[i] = p /\ prop' \in [Index -> Proposal]
      /\ \A k \in Index \ {i} : prop'[k] = prop[k]
  BY <1>3, <1>4 DEF SquadsType
<1>6. ProposalsType'
  BY <1>1, <1>2, <1>3, <1>5 DEF SquadsType, ProposalsType
<1>. QED
  BY <1>1, <1>3, <1>5, <1>6 DEF SquadsType

\* A change of the multisig creates no proposal.
LEMMA ConfigurationDoes ==
    ASSUME SquadsType, NEW m, NEW i \in Index, CanConfigure(m, i), Configured(i)
    PROVE  ms' \in Multisig /\ ms'.index = ms.index
<1>. DEFINE a == prop[i].action
<1>1. a \in Action /\ a.kind \in {"lock", "rotate"}
  BY DEF SquadsType, Proposal, CanConfigure, IsConfig, NoAction
<1>2. CASE a.kind = "lock"
  BY <1>1, <1>2, Kinds DEF Configured, SquadsType, Multisig
<1>3. CASE a.kind # "lock"
  <2>1. a.new \in People
    BY <1>1, <1>3, Kinds
  <2>2. (ms.members \union {a.new}) \ {a.old} \in SUBSET People
    BY <2>1 DEF SquadsType, Multisig
  <2>3. ms' = [ms EXCEPT !.members = (ms.members \union {a.new}) \ {a.old}, !.stale = ms.index]
    BY <1>3 DEF Configured
  <2>. HIDE DEF a
  <2>. QED
    BY <2>2, <2>3 DEF SquadsType, Multisig
<1>. QED
  BY <1>2, <1>3

----------------------------------------------------------------------------
(* Every step, seen from the multisig.                                      *)

\* The transactions that change it.
LEMMA LandVoteDoes ==
    ASSUME TypeInv, NEW x \in net, LandVote(x)
    PROVE  /\ SquadsType' /\ x \in Transaction /\ x.index \in Index /\ x.op \in {"create", "approve"}
           /\ x.op = "create" => /\ x.index = ms.index + 1 /\ ms'.index = x.index /\ prop'[x.index].action = x.action
                                 /\ x.action \in Action /\ ms'.stale = ms.stale
           /\ x.op = "approve" => /\ x.index <= ms.index /\ ms' = ms /\ prop'[x.index].action = prop[x.index].action
                                  /\ prop[x.index].status = "Active"
           /\ prop'[x.index].status \in {"Active", "Approved"}
           /\ \A k \in Index \ {x.index} : prop'[k] = prop[k]
           /\ UNCHANGED <<code, capacity, buf, purse, file, meant, job>>
<1>1. x \in Transaction /\ x.index \in Index /\ x.op \in {"create", "approve"} /\ (x.op = "create" => x.action \in Action)
  BY DEF TypeInv, NetType, Sent, LandVote, Ops
<1>2. CASE x.op = "create"
  <2>1. x.by \in ms.members /\ x.index = ms.index + 1 /\ Created(x.by, x.index, x.action)
    BY <1>2 DEF LandVote, Landable, CanCreate
  <2>. QED
    BY <1>1, <1>2, <2>1, SquadsTyped, CreationDoes DEF LandVote
<1>3. CASE x.op = "approve"
  <2>1. CanApprove(x.by, x.index) /\ Approved(x.by, x.index)
    BY <1>3 DEF LandVote, Landable
  <2>. QED
    BY <1>1, <1>3, <2>1, SquadsTyped, ApprovalDoes DEF LandVote
<1>. QED
  BY <1>1, <1>2, <1>3

\* An execution that lands: a transfer is paid, or a buffer of the vault is deployed and closed.
LEMMA LandExecutionDoes ==
    ASSUME TypeInv, NEW x \in net, LandExecution(x)
    PROVE  LET a == prop[x.index].action
           IN  /\ SquadsType' /\ x \in Transaction /\ x.op = "execute" /\ x.index \in Index /\ x.index <= ms.index
               /\ a \in Action /\ ~IsConfig(a) /\ ms' = ms
               /\ prop[x.index].status = "Approved" /\ prop'[x.index].status = "Executed" /\ prop'[x.index].action = a
               /\ \A k \in Index \ {x.index} : prop'[k] = prop[k]
               /\ a.kind = "fund" => purse' = purse + Grant /\ UNCHANGED <<code, buf>>
               /\ a.kind # "fund" => /\ a.kind = "upgrade" /\ CanUpgrade(a.n) /\ code' = buf[a.n].code
                                     /\ buf' = [buf EXCEPT ![a.n] = [code |-> "none", auth |-> "closed"]]
                                     /\ UNCHANGED purse
               /\ UNCHANGED <<capacity, file, meant, job>>
<1>1. x \in Transaction /\ x.index \in Index /\ x.op = "execute"
  BY DEF TypeInv, NetType, Sent, LandExecution, Ops
<1>2. /\ CanExecute(x.by, x.index) /\ Executed(x.index) /\ ms' = ms /\ ~IsConfig(prop[x.index].action)
      /\ prop[x.index].action.kind = "upgrade" => CanUpgrade(prop[x.index].action.n)
  BY <1>1 DEF LandExecution, Landable
<1>3. SquadsType /\ MaxIndex \in Nat /\ ms' \in Multisig /\ ms'.index = ms.index
  BY <1>2, SquadsTyped DEF SquadsType
<1>4. /\ SquadsType' /\ x.index <= ms.index /\ prop[x.index].status = "Approved" /\ prop[x.index].action \in Action
      /\ prop'[x.index].action = prop[x.index].action /\ prop'[x.index].status = "Executed"
      /\ \A k \in Index \ {x.index} : prop'[k] = prop[k]
  BY <1>1, <1>2, <1>3, ExecutionDoes
<1>5. prop[x.index].action.kind # "fund" => prop[x.index].action.kind = "upgrade"
  BY <1>2, <1>4, Kinds DEF IsConfig
<1>. QED
  BY <1>1, <1>2, <1>4, <1>5 DEF LandExecution

\* A change of the multisig that lands.
LEMMA LandChangeDoes ==
    ASSUME TypeInv, NEW x \in net, LandChange(x)
    PROVE  /\ SquadsType' /\ x \in Transaction /\ x.op = "config" /\ x.index \in Index /\ x.index <= ms.index
           /\ prop[x.index].status = "Approved" /\ prop'[x.index].status = "Executed"
           /\ prop'[x.index].action = prop[x.index].action /\ IsConfig(prop[x.index].action)
           /\ \A k \in Index \ {x.index} : prop'[k] = prop[k]
           /\ ms'.index = ms.index
           /\ UNCHANGED <<code, capacity, buf, purse, file, meant, job>>
<1>1. x \in Transaction /\ x.index \in Index /\ x.op = "config"
  BY DEF TypeInv, NetType, Sent, LandChange, Ops
<1>2. CanConfigure(x.by, x.index) /\ Configured(x.index)
  BY <1>1 DEF LandChange, Landable
<1>3. CanExecute(x.by, x.index) /\ Executed(x.index) /\ IsConfig(prop[x.index].action)
  BY <1>2 DEF CanConfigure, Configured
<1>4. SquadsType /\ MaxIndex \in Nat /\ ms' \in Multisig /\ ms'.index = ms.index
  BY <1>1, <1>2, SquadsTyped, ConfigurationDoes
<1>. QED
  BY <1>1, <1>3, <1>4, ExecutionDoes DEF LandChange

\* A proposal that exists stays and keeps its action; a new one was sent by somebody.
Kept == ms.index <= ms'.index /\ \A k \in Index : k <= ms.index => prop'[k].action = prop[k].action
Proposed ==
    \A k \in Index : \/ prop'[k].action = prop[k].action
                     \/ \E x \in net : x.op = "create" /\ x.index = k /\ prop'[k].action = x.action

\* Who may change what: only a transaction that lands and time the chain, only four steps the
\* buffers besides, only two steps the state files.
LEMMA Sorts ==
    ASSUME [Next]_vars
    PROVE  /\ \/ UNCHANGED <<squads, code, capacity, purse>>
              \/ \E x \in net : LandVote(x) \/ LandExecution(x) \/ LandChange(x) \/ LandExtension(x)
              \/ \E i \in Index : Pass(i)
           /\ \/ UNCHANGED buf
              \/ \E d \in Desks : \/ WriteBuffer(d) \/ HandOver(d)
                                  \/ \E tag \in UpgradeTags, so \in SOs, b \in Buffer : StartBuffer(d, tag, so, b)
              \/ \E b \in Buffer, so \in SOs : Rewrite(b, so)
              \/ \E x \in net : LandExecution(x)
           /\ \/ UNCHANGED <<file, meant>>
              \/ \E d \in Desks : \/ Save(d)
                                  \/ \E tag \in UpgradeTags, so \in SOs, b \in Buffer : StartBuffer(d, tag, so, b)
<1>. DEFINE Fixed == UNCHANGED <<squads, code, capacity, purse>>
            Filed == UNCHANGED <<file, meant>>
<1>1. ASSUME NEW d, NEW tag, NEW so, NEW b, StartBuffer(d, tag, so, b) PROVE Fixed
  BY <1>1 DEF StartBuffer
<1>2. ASSUME NEW d, NEW tag, NEW so, NEW b, NEW m, Propose(d, tag, so, b, m) PROVE Fixed /\ Filed /\ UNCHANGED buf
  BY <1>2 DEF Propose, NotSavedYet, chain
<1>3. ASSUME NEW d, NEW tag, NEW m, Fund(d, tag, m) PROVE Fixed /\ Filed /\ UNCHANGED buf
  BY <1>3 DEF Fund, NotSavedYet, chain
<1>4. ASSUME NEW d, NEW tag, NEW m, Approve(d, tag, m) PROVE Fixed /\ Filed /\ UNCHANGED buf
  BY <1>4 DEF Approve, chain
<1>5. ASSUME NEW d, NEW tag, NEW so, NEW m, Execute(d, tag, so, m) PROVE Fixed /\ Filed /\ UNCHANGED buf
  BY <1>5 DEF Execute, chain
<1>6. ASSUME NEW d, NEW so, Extend(d, so) PROVE Fixed /\ Filed /\ UNCHANGED buf
  BY <1>6 DEF Extend, chain
<1>7. ASSUME NEW d, NEW cmd, NEW act, NEW a, NEW b, Change(d, cmd, act, a, b) PROVE Fixed /\ Filed /\ UNCHANGED buf
  BY <1>7 DEF Change, chain
<1>8. ASSUME NEW d, WriteBuffer(d) \/ HandOver(d) PROVE Fixed /\ Filed
  BY <1>8 DEF WriteBuffer, HandOver
<1>9. ASSUME NEW d, Save(d) PROVE Fixed /\ UNCHANGED buf
  BY <1>9 DEF Save, chain
<1>10. ASSUME NEW d, EndExtend(d) \/ EndChange(d) \/ Lose(d) PROVE Fixed /\ Filed /\ UNCHANGED buf
  BY <1>10 DEF EndExtend, EndChange, Lose, chain
<1>11. ASSUME NEW d, Vote(d) \/ Release(d) PROVE Fixed /\ Filed /\ UNCHANGED buf
  BY <1>11 DEF Vote, Release, chain
<1>12. ASSUME NEW x, LandVote(x) \/ LandChange(x) \/ LandExtension(x) PROVE Filed /\ UNCHANGED buf
  BY <1>12 DEF LandVote, LandChange, LandExtension
<1>13. ASSUME NEW x, LandExecution(x) PROVE Filed
  BY <1>13 DEF LandExecution
<1>14. ASSUME NEW x, Refuse(x) \/ Expire(x) PROVE Fixed /\ Filed /\ UNCHANGED buf
  BY <1>14 DEF Refuse, Expire, Drop, FailsUnnoticed, chain
<1>15. ASSUME NEW b, NEW so, Rewrite(b, so) PROVE Fixed /\ Filed
  BY <1>15 DEF Rewrite
<1>16. ASSUME NEW i, Pass(i) PROVE Filed /\ UNCHANGED buf
  BY <1>16 DEF Pass
<1>17. ASSUME UNCHANGED vars PROVE Fixed /\ Filed /\ UNCHANGED buf
  BY <1>17 DEF vars, chain
<1>18. ASSUME NEW d \in Desks, NEW a \in ms.members, NEW b \in ms.members,
             (\E n \in Locks : ChangeLock(d, n, a, b)) \/ \E r \in Rotations : Rotate(d, r[1], r[2], a, b)
       PROVE  Fixed /\ Filed /\ UNCHANGED buf
  BY <1>7, <1>18 DEF ChangeLock, Rotate
<1>. HIDE DEF Fixed, Filed
<1>19. \/ Fixed
       \/ \E x \in net : LandVote(x) \/ LandExecution(x) \/ LandChange(x) \/ LandExtension(x)
       \/ \E i \in Index : Pass(i)
  BY <1>1, <1>2, <1>3, <1>4, <1>5, <1>6, <1>8, <1>9, <1>10, <1>11, <1>14, <1>15, <1>17, <1>18 DEF Next
<1>20. \/ UNCHANGED buf
       \/ \E d \in Desks : \/ WriteBuffer(d) \/ HandOver(d)
                           \/ \E tag \in UpgradeTags, so \in SOs, b \in Buffer : StartBuffer(d, tag, so, b)
       \/ \E b \in Buffer, so \in SOs : Rewrite(b, so)
       \/ \E x \in net : LandExecution(x)
  BY <1>2, <1>3, <1>4, <1>5, <1>6, <1>9, <1>10, <1>11, <1>12, <1>14, <1>16, <1>17, <1>18 DEF Next
<1>21. \/ Filed
       \/ \E d \in Desks : \/ Save(d)
                           \/ \E tag \in UpgradeTags, so \in SOs, b \in Buffer : StartBuffer(d, tag, so, b)
  BY <1>2, <1>3, <1>4, <1>5, <1>6, <1>8, <1>10, <1>11, <1>12, <1>13, <1>14, <1>15, <1>16, <1>17, <1>18 DEF Next
<1>. QED
  BY <1>19, <1>20, <1>21 DEF Fixed, Filed

\* Every step keeps the types of the multisig, and the actions of its proposals.
LEMMA SquadsStep ==
    ASSUME TypeInv, [Next]_vars
    PROVE  SquadsType' /\ Kept /\ Proposed
<1>0. SquadsType /\ ms.index \in Nat /\ MaxIndex \in Nat /\ MaxAge \in Nat
  BY SquadsTyped DEF SquadsType, Multisig
<1>1. ASSUME NEW x \in net, LandVote(x) PROVE SquadsType' /\ Kept /\ Proposed
  BY <1>0, <1>1, LandVoteDoes DEF Kept, Proposed, Index
<1>2. ASSUME NEW x \in net, LandExecution(x) PROVE SquadsType' /\ Kept /\ Proposed
  BY <1>0, <1>2, LandExecutionDoes DEF Kept, Proposed, Index
<1>3. ASSUME NEW x \in net, LandChange(x) PROVE SquadsType' /\ Kept /\ Proposed
  BY <1>0, <1>3, LandChangeDoes DEF Kept, Proposed, Index
<1>4. ASSUME NEW i \in Index, Pass(i) PROVE SquadsType' /\ Kept /\ Proposed
  BY <1>0, <1>4, TickDoes DEF Pass, Kept, Proposed, Index
<1>5. ASSUME UNCHANGED squads PROVE SquadsType' /\ Kept /\ Proposed
  BY <1>0, <1>5 DEF SquadsType, ProposalsType, Kept, Proposed, squads
<1>6. ASSUME NEW x \in net, LandExtension(x) PROVE UNCHANGED squads
  BY <1>6 DEF LandExtension, squads
<1>. QED
  BY <1>1, <1>2, <1>3, <1>4, <1>5, <1>6, Sorts

----------------------------------------------------------------------------
(* The types.                                                               *)

File == [index: 0..MaxIndex, kind: {"none", "fund"}, buffer: 0..MaxBuffer, executed: BOOLEAN]
FilesType == file \in [Tags -> File] /\ meant \in [Tags -> Action \union {NoAction}]

\* What an uploading script writes to.
LEMMA UploadHeld ==
    ASSUME TypeInv, NEW d \in Desks, at[d] \in Uploading
    PROVE  /\ job[d].action \in Action /\ job[d].action.n \in Buffer /\ job[d].action.what \in SOs
           /\ buf[job[d].action.n] \in Uploads
<1>1. job[d] \in Job /\ job[d].action.kind = "upgrade"
  BY Facts DEF Held
<1>2. job[d].action \in Action
  BY <1>1, Kinds DEF Job
<1>. QED
  BY <1>1, <1>2, Kinds, SquadsTyped DEF LoaderType


\* Every step keeps the types of the deployed build, the buffers and the balance.
LEMMA LoaderStep ==
    ASSUME TypeInv, [Next]_vars
    PROVE  LoaderType'
<1>0. LoaderType /\ \A b \in Buffer : buf[b] \in Uploads
  BY SquadsTyped DEF LoaderType
<1>1. buf' \in [Buffer -> Uploads]
  <2>1. ASSUME NEW d \in Desks, NEW tag, NEW so, NEW b \in Buffer, StartBuffer(d, tag, so, b)
        PROVE  buf' \in [Buffer -> Uploads]
    <3>1. [code |-> "partial", auth |-> "payer"] \in Uploads
      BY DEF Uploads
    <3>. QED
      BY <1>0, <2>1, <3>1 DEF StartBuffer, LoaderType
  <2>2. ASSUME NEW d \in Desks, WriteBuffer(d) PROVE buf' \in [Buffer -> Uploads]
    <3>. DEFINE n == job[d].action.n
                u == [buf[n] EXCEPT !.code = job[d].action.what]
    <3>1. u \in Uploads /\ n \in Buffer
      BY <1>0, <2>2, UploadHeld DEF WriteBuffer, Uploading, Uploads
    <3>2. buf' = [buf EXCEPT ![n] = u]
      BY <2>2 DEF WriteBuffer
    <3>. HIDE DEF n, u
    <3>. QED
      BY <1>0, <3>1, <3>2 DEF LoaderType
  <2>3. ASSUME NEW d \in Desks, HandOver(d) PROVE buf' \in [Buffer -> Uploads]
    <3>. DEFINE n == job[d].action.n
                u == [buf[n] EXCEPT !.auth = "vault"]
    <3>1. u \in Uploads /\ n \in Buffer
      BY <1>0, <2>3, UploadHeld DEF HandOver, Uploading, Uploads
    <3>2. buf' = [buf EXCEPT ![n] = u]
      BY <2>3 DEF HandOver
    <3>. HIDE DEF n, u
    <3>. QED
      BY <1>0, <3>1, <3>2 DEF LoaderType
  <2>4. ASSUME NEW b \in Buffer, NEW so \in SOs, Rewrite(b, so) PROVE buf' \in [Buffer -> Uploads]
    <3>. DEFINE u == [buf[b] EXCEPT !.code = so]
    <3>1. u \in Uploads
      BY <1>0 DEF Uploads
    <3>2. buf' = [buf EXCEPT ![b] = u]
      BY <2>4 DEF Rewrite
    <3>. HIDE DEF u
    <3>. QED
      BY <1>0, <3>1, <3>2 DEF LoaderType
  <2>5. ASSUME NEW x \in net, LandExecution(x) PROVE buf' \in [Buffer -> Uploads]
    <3>1. [code |-> "none", auth |-> "closed"] \in Uploads
      BY DEF Uploads
    <3>. QED
      BY <1>0, <2>5, <3>1, LandExecutionDoes, Kinds DEF LoaderType
  <2>. QED
    BY <1>0, <2>1, <2>2, <2>3, <2>4, <2>5, Sorts DEF LoaderType
<1>2. code' \in SOs /\ capacity' \in Nat /\ purse' \in Nat
  <2>1. ASSUME NEW x \in net, LandVote(x) \/ LandChange(x) PROVE UNCHANGED <<code, capacity, purse>>
    BY <2>1 DEF LandVote, LandChange
  <2>2. ASSUME NEW x \in net, LandExecution(x) PROVE code' \in SOs /\ capacity' \in Nat /\ purse' \in Nat
    <3>. DEFINE a == prop[x.index].action
    <3>1. /\ a.kind = "fund" => purse' = purse + Grant /\ code' = code
          /\ a.kind # "fund" => CanUpgrade(a.n) /\ code' = buf[a.n].code /\ purse' = purse
          /\ capacity' = capacity
      BY <2>2, LandExecutionDoes
    <3>2. Grant \in Nat
      BY UpgradeAssumption
    <3>. HIDE DEF a
    <3>. QED
      BY <1>0, <3>1, <3>2 DEF LoaderType, CanUpgrade
  <2>3. ASSUME NEW x \in net, LandExtension(x) PROVE code' \in SOs /\ capacity' \in Nat /\ purse' \in Nat
    <3>1. x.n \in Nat /\ x.op = "extend"
      BY <2>3 DEF TypeInv, NetType, Transaction, LandExtension
    <3>2. purse >= x.n /\ capacity' = capacity + x.n /\ purse' = purse - x.n /\ code' = code
      BY <2>3, <3>1 DEF LandExtension, Landable
    <3>. QED
      BY <1>0, <3>1, <3>2 DEF LoaderType
  <2>4. ASSUME NEW i \in Index, Pass(i) PROVE UNCHANGED <<code, capacity, purse>>
    BY <2>4 DEF Pass
  <2>. QED
    BY <1>0, <2>1, <2>2, <2>3, <2>4, Sorts DEF LoaderType
<1>. QED
  BY <1>1, <1>2 DEF LoaderType

\* Every step keeps the types of the state files.
LEMMA FilesStep ==
    ASSUME TypeInv, [Next]_vars
    PROVE  FilesType'
<1>0. FilesType /\ \A t \in Tags : file[t] \in File
  BY DEF TypeInv, TypeOK, FilesType, File
<1>1. ASSUME NEW d \in Desks, NEW tag \in UpgradeTags, NEW so, NEW b \in Buffer, StartBuffer(d, tag, so, b)
      PROVE  FilesType'
  <2>. DEFINE f == [file[tag] EXCEPT !.buffer = b]
  <2>1. f \in File /\ tag \in Tags
    BY <1>0, UpgradeAssumption DEF File, Buffer, Tags
  <2>2. file' = [file EXCEPT ![tag] = f] /\ meant' = meant
    BY <1>1 DEF StartBuffer
  <2>. HIDE DEF f
  <2>. QED
    BY <1>0, <2>1, <2>2 DEF FilesType
<1>2. ASSUME NEW d \in Desks, Save(d) PROVE FilesType'
  <2>. DEFINE j == job[d]
              f == file[j.tag]
  <2>1. /\ j \in Job /\ j.cmd \in {"propose", "fund", "approve", "execute"} /\ j.tag \in Tags /\ f \in File
        /\ j.cmd = "propose" => j.action.kind = "upgrade"
        /\ j.cmd \in {"propose", "fund"} => j.index \in 0..MaxIndex /\ j.action \in Action
    BY <1>0, <1>2, Facts DEF Save, Held, Tags
  <2>2. j.cmd = "propose" => j.action.n \in 0..MaxBuffer
    BY <2>1, Kinds DEF Buffer
  <2>3. /\ file' = [file EXCEPT ![j.tag] = Saved(j)]
        /\ meant' = IF j.cmd \in {"propose", "fund"} THEN [meant EXCEPT ![j.tag] = j.action] ELSE meant
    BY <1>2 DEF Save
  <2>. HIDE DEF j
  <2>4. Saved(j) \in File
    <3>1. j.cmd = "propose" => Saved(j) = [f EXCEPT !.index = j.index, !.buffer = j.action.n]
      BY DEF Saved
    <3>2. j.cmd = "fund" => Saved(j) = [f EXCEPT !.index = j.index, !.kind = "fund"]
      BY DEF Saved
    <3>3. j.cmd = "execute" => Saved(j) = [f EXCEPT !.executed = TRUE]
      BY DEF Saved
    <3>4. j.cmd = "approve" => Saved(j) = f
      BY DEF Saved
    <3>. HIDE DEF f
    <3>5. CASE j.cmd = "propose"
      BY <2>1, <2>2, <3>1, <3>5 DEF File
    <3>6. CASE j.cmd = "fund"
      BY <2>1, <3>2, <3>6 DEF File
    <3>7. CASE j.cmd = "execute"
      BY <2>1, <3>3, <3>7 DEF File
    <3>. QED
      BY <2>1, <3>4, <3>5, <3>6, <3>7
  <2>. QED
    BY <1>0, <2>1, <2>3, <2>4 DEF FilesType
<1>. QED
  BY <1>0, <1>1, <1>2, Sorts DEF FilesType

\* The types hold at first.
LEMMA TypeInit == Init => TypeInv
<1>. SUFFICES ASSUME Init PROVE TypeInv
  OBVIOUS
<1>0. NoJob \in Job /\ Held("idle", NoJob)
  BY UpgradeAssumption DEF NoJob, Job, Held, Commands, Steps, Uploading, Changes
<1>1. DesksType
  BY <1>0 DEF Init, DesksType, Places
<1>2. NetType
  BY DEF Init, NetType
<1>3. SquadsType
  <2>1. NoProposal \in Proposal
    BY UpgradeAssumption DEF NoProposal, Proposal
  <2>2. ms \in Multisig /\ ms.index = 0
    BY UpgradeAssumption DEF Init, SquadsInit, Multisig
  <2>. QED
    BY <2>1, <2>2 DEF Init, SquadsInit, SquadsType, ProposalsType, Index
<1>4. LoaderType
  BY UpgradeAssumption DEF Init, LoaderType, Uploads
<1>5. FilesType
  BY UpgradeAssumption DEF Init, FilesType, File, NoFile
<1>. QED
  BY <1>1, <1>2, <1>3, <1>4, <1>5 DEF TypeInv, TypeOK, SquadsTypes, SquadsType, Multisig, Proposal, LoaderType, Uploads,
                                      FilesType, File, DesksType, Places

\* Every step keeps the types.
LEMMA TypeStep ==
    ASSUME TypeInv, [Next]_vars
    PROVE  TypeInv'
<1>1. SquadsType' /\ LoaderType' /\ FilesType' /\ DesksType' /\ NetType'
  BY SquadsStep, LoaderStep, FilesStep, DesksStep
<1>. QED
  BY <1>1 DEF TypeInv, TypeOK, SquadsTypes, SquadsType, Multisig, Proposal, LoaderType, Uploads,
              FilesType, File, DesksType, Places

\* The types always hold.
LEMMA AlwaysTyped == Spec => []TypeInv
BY TypeInit, TypeStep, PTL DEF Spec

\* The multisig, the loader, the desks and the state files hold values of their types.
THEOREM TypeCorrect == Spec => []TypeOK
<1>1. TypeInv => TypeOK
  BY DEF TypeInv
<1>. QED
  BY <1>1, AlwaysTyped, PTL

----------------------------------------------------------------------------
(* Every step, seen from the desks and from the transactions under way.     *)

Sealed(a) ==
    a.kind = "upgrade" => buf[a.n].auth = "closed" \/ (buf[a.n].auth = "vault" /\ buf[a.n].code = a.what)
Continues(e) == at'[e] = at[e] /\ job'[e] = job[e]
Lands(x) == LandVote(x) \/ LandExecution(x) \/ LandChange(x) \/ LandExtension(x) \/ FailsUnnoticed(x)
\* Where a desk may be after a step, and why.
Origin(e) ==
    \/ Continues(e)
    \/ at'[e] = "idle" /\ job'[e] = NoJob
    \/ at'[e] = "waiting" /\ job'[e].cmd # "fund"
    \/ /\ at'[e] = "waiting" /\ job'[e].cmd = "fund" /\ job'[e].tag \in FundTags
       /\ \E m \in ms.members : Fund(e, job'[e].tag, m)
    \/ at'[e] = "landed" /\ job'[e] = job[e] /\ \E x \in net : AwaitedBy(x, "waiting", job[e]) /\ Lands(x)
    \/ /\ at'[e] = "voting" /\ job'[e].cmd \in Changes /\ job'[e].index = ms.index
       /\ Resumable(job'[e].cmd) /\ Undisturbed(job'[e].action)
    \/ at'[e] = "releasing"
    \/ at'[e] = "handing" /\ at[e] = "writing" /\ job'[e] = job[e]
    \/ /\ at'[e] = "writing"
       /\ \E tag \in UpgradeTags, so \in SOs, b \in Buffer : StartBuffer(e, tag, so, b) /\ job'[e].action = UpgradeFrom(b, so)
\* Why a transaction is under way after a step.
Same(y, x) == y.op = x.op /\ y.index = x.index /\ y.action = x.action
Source(y) ==
    \/ \E x \in net : Same(y, x)
    \/ y.op = "create" /\ Sealed(y.action)
    \/ /\ y.op = "approve"
       /\ \/ \E t \in Tags : Recorded(t) /\ y.index = file[t].index /\ y.action = meant[t]
          \/ \E d \in Desks : /\ at[d] \in {"voting", "landed"} /\ job[d].cmd \in Changes
                              /\ y.index = job[d].index /\ y.action = job[d].action
    \/ y.op = "execute" /\ \E t \in Tags : Recorded(t) /\ y.index = file[t].index
    \/ y.op \in {"config", "extend"}

\* A script that moves on its own: the other desks and the other transactions stay.
LEMMA SendTells ==
    ASSUME TypeInv, NEW d \in Desks, NEW j, NEW x, Send(d, j, x), at'[d] = "waiting" /\ job'[d] = j => Origin(d), Source(x)
    PROVE  (\A e \in Desks : Origin(e)) /\ \A y \in net' : Source(y)
<1>1. at'[d] = "waiting" /\ job'[d] = j /\ \A e \in Desks \ {d} : Continues(e)
  BY DEF Send, Continues, TypeInv, DesksType
<1>2. \A e \in Desks : Origin(e)
  BY <1>1 DEF Origin
<1>3. \A y \in net : Source(y)
  BY DEF Source, Same
<1>. QED
  BY <1>2, <1>3 DEF Send

\* A script that goes on without sending.
LEMMA StayTells ==
    ASSUME TypeInv, NEW d \in Desks, Origin(d), \A e \in Desks \ {d} : Continues(e), \A y \in net' : \E x \in net : Same(y, x)
    PROVE  (\A e \in Desks : Origin(e)) /\ \A y \in net' : Source(y)
BY DEF Origin, Source

\* A script that ends.
LEMMA StopTells ==
    ASSUME TypeInv, NEW d \in Desks, Stop(d), \A y \in net' : \E x \in net : Same(y, x)
    PROVE  (\A e \in Desks : Origin(e)) /\ \A y \in net' : Source(y)
<1>1. at'[d] = "idle" /\ job'[d] = NoJob /\ \A e \in Desks \ {d} : Continues(e)
  BY DEF Stop, Continues, TypeInv, DesksType
<1>2. Origin(d)
  BY <1>1 DEF Origin
<1>. QED
  BY <1>1, <1>2, StayTells

\* Every step accounts for where the desks are and for what is under way.
LEMMA DesksTell ==
    ASSUME TypeInv, [Next]_vars
    PROVE  (\A e \in Desks : Origin(e)) /\ \A y \in net' : Source(y)
<1>. DEFINE Told == (\A e \in Desks : Origin(e)) /\ \A y \in net' : Source(y)
<1>0. /\ at \in [Desks -> Places] /\ job \in [Desks -> Job] /\ \A d \in Desks : job[d] \in Job /\ Held(at[d], job[d])
      /\ \A x \in net : Same(x, x) /\ x \in Transaction
      /\ \A t \in Tags : file[t].index # 0 => file[t].index \in Index
  BY Facts DEF TypeInv, DesksType, NetType, Same
<1>. HIDE DEF Told
<1>1. ASSUME NEW d \in Desks, NEW tag \in UpgradeTags, NEW so \in SOs, NEW b \in Buffer, StartBuffer(d, tag, so, b)
      PROVE  Told
  <2>1. /\ at'[d] = "writing" /\ job'[d] = [Run(d, "buffer", tag) EXCEPT !.action = UpgradeFrom(b, so)]
        /\ net' = net /\ \A e \in Desks \ {d} : Continues(e)
    BY <1>0, <1>1 DEF StartBuffer, Continues
  <2>2. job'[d].action = UpgradeFrom(b, so)
    BY <2>1 DEF Run, NoJob
  <2>3. Origin(d)
    BY <1>1, <2>1, <2>2 DEF Origin
  <2>. QED
    BY <1>0, <2>1, <2>3, StayTells DEF Told
<1>2. ASSUME NEW d \in Desks, NEW tag \in UpgradeTags, NEW so \in SOs, NEW b \in Buffer, NEW m \in ms.members,
             Propose(d, tag, so, b, m)
      PROVE  Told
  <2>. DEFINE j == [Run(d, "propose", tag) EXCEPT !.index = ms.index + 1, !.action = UpgradeFrom(b, so)]
              x == Tx(d, "create", m, j.index, j.action)
  <2>1. Send(d, j, x) /\ buf[b].code = so /\ buf[b].auth = "vault"
    BY <1>2 DEF Propose, Checked
  <2>2. j.cmd = "propose" /\ j.action = UpgradeFrom(b, so)
    BY DEF Run, NoJob
  <2>3. x.op = "create" /\ x.action = UpgradeFrom(b, so)
    BY <2>2 DEF Tx
  <2>. HIDE DEF j, x
  <2>4. Source(x)
    BY <2>1, <2>3, Kinds DEF Source, Sealed
  <2>5. at'[d] = "waiting" /\ job'[d] = j => Origin(d)
    BY <2>2 DEF Origin
  <2>. QED
    BY <2>1, <2>4, <2>5, SendTells DEF Told
<1>3. ASSUME NEW d \in Desks, NEW tag \in FundTags, NEW m \in ms.members, Fund(d, tag, m)
      PROVE  Told
  <2>. DEFINE j == [Run(d, "fund", tag) EXCEPT !.index = ms.index + 1, !.action = FundFor(tag)]
              x == Tx(d, "create", m, j.index, j.action)
  <2>1. Send(d, j, x)
    BY <1>3 DEF Fund
  <2>2. j.cmd = "fund" /\ j.action = FundFor(tag) /\ j.tag = tag
    BY DEF Run, NoJob
  <2>3. x.op = "create" /\ x.action = FundFor(tag)
    BY <2>2 DEF Tx
  <2>. HIDE DEF j, x
  <2>4. Source(x)
    BY <2>3, Kinds DEF Source, Sealed
  <2>5. at'[d] = "waiting" /\ job'[d] = j => Origin(d)
    BY <1>3, <2>2 DEF Origin
  <2>. QED
    BY <2>1, <2>4, <2>5, SendTells DEF Told
<1>4. ASSUME NEW d \in Desks, NEW tag \in Tags, NEW m \in ms.members, Approve(d, tag, m)
      PROVE  Told
  <2>. DEFINE j == [Run(d, "approve", tag) EXCEPT !.index = file[tag].index, !.action = meant[tag]]
              x == Tx(d, "approve", m, j.index, j.action)
  <2>1. Send(d, j, x) /\ Recorded(tag)
    BY <1>4 DEF Approve
  <2>2. j.cmd = "approve" /\ j.index = file[tag].index /\ j.action = meant[tag]
    BY DEF Run, NoJob
  <2>3. x.op = "approve" /\ x.index = file[tag].index /\ x.action = meant[tag]
    BY <2>2 DEF Tx
  <2>. HIDE DEF j, x
  <2>4. Source(x)
    BY <2>1, <2>3 DEF Source
  <2>5. at'[d] = "waiting" /\ job'[d] = j => Origin(d)
    BY <2>2 DEF Origin
  <2>. QED
    BY <2>1, <2>4, <2>5, SendTells DEF Told
<1>5. ASSUME NEW d \in Desks, NEW tag \in Tags, NEW so \in SOs, NEW m \in ms.members, Execute(d, tag, so, m)
      PROVE  Told
  <2>. DEFINE j == [Run(d, "execute", tag) EXCEPT !.index = file[tag].index]
              x == Tx(d, "execute", m, j.index, NoAction)
  <2>1. Send(d, j, x) /\ Recorded(tag)
    BY <1>5 DEF Execute, Ready
  <2>2. j.cmd = "execute" /\ j.index = file[tag].index
    BY DEF Run, NoJob
  <2>3. x.op = "execute" /\ x.index = file[tag].index
    BY <2>2 DEF Tx
  <2>. HIDE DEF j, x
  <2>4. Source(x)
    BY <2>1, <2>3 DEF Source
  <2>5. at'[d] = "waiting" /\ job'[d] = j => Origin(d)
    BY <2>2 DEF Origin
  <2>. QED
    BY <2>1, <2>4, <2>5, SendTells DEF Told
<1>6. ASSUME NEW d \in Desks, NEW so \in SOs, Extend(d, so) PROVE Told
  <2>. DEFINE j == Run(d, "extend", "-")
              x == [Tx(d, "extend", "-", 0, NoAction) EXCEPT !.n = Extra(so)]
  <2>1. Send(d, j, x)
    BY <1>6 DEF Extend
  <2>2. j.cmd = "extend"
    BY DEF Run, NoJob
  <2>3. x.op = "extend"
    BY DEF Tx
  <2>. HIDE DEF j, x
  <2>4. Source(x)
    BY <2>3 DEF Source
  <2>5. at'[d] = "waiting" /\ job'[d] = j => Origin(d)
    BY <2>2 DEF Origin
  <2>. QED
    BY <2>1, <2>4, <2>5, SendTells DEF Told
<1>7. ASSUME NEW d \in Desks, NEW cmd \in Changes, NEW act \in Action, act.kind \in {"lock", "rotate"}, NEW a, NEW b,
             Change(d, cmd, act, a, b)
      PROVE  Told
  <2>. DEFINE j == [Run(d, cmd, "-") EXCEPT !.action = act, !.by = b]
  <2>0. j.cmd = cmd /\ j.action = act
    BY DEF Run, NoJob
  <2>1. Undisturbed(act)
    BY <1>7 DEF Change
  <2>2. CASE Resumable(cmd)
    <3>. DEFINE k == [j EXCEPT !.index = ms.index, !.seen = prop[ms.index].approved]
    <3>1. at' = [at EXCEPT ![d] = "voting"] /\ job' = [job EXCEPT ![d] = k] /\ UNCHANGED net
      BY <1>7, <2>2 DEF Change
    <3>2. k.cmd = cmd /\ k.action = act /\ k.index = ms.index
      BY DEF Run, NoJob
    <3>. HIDE DEF k
    <3>3. at'[d] = "voting" /\ job'[d] = k /\ \A e \in Desks \ {d} : Continues(e)
      BY <1>0, <3>1 DEF Continues
    <3>4. Origin(d)
      BY <2>1, <2>2, <3>2, <3>3 DEF Origin
    <3>. QED
      BY <1>0, <3>1, <3>3, <3>4, StayTells DEF Told
  <2>3. CASE ~Resumable(cmd)
    <3>. DEFINE k == [j EXCEPT !.index = ms.index + 1]
                x == Tx(d, "create", a, ms.index + 1, act)
    <3>1. Send(d, k, x)
      BY <1>7, <2>3 DEF Change
    <3>2. k.cmd = cmd
      BY DEF Run, NoJob
    <3>3. x.op = "create" /\ x.action = act
      BY DEF Tx
    <3>. HIDE DEF k, x
    <3>4. Source(x)
      BY <1>7, <3>3 DEF Source, Sealed
    <3>5. at'[d] = "waiting" /\ job'[d] = k => Origin(d)
      BY <3>2 DEF Origin, Changes
    <3>. QED
      BY <3>1, <3>4, <3>5, SendTells DEF Told
  <2>. QED
    BY <2>2, <2>3
<1>8. ASSUME NEW d \in Desks, WriteBuffer(d) PROVE Told
  <2>1. at[d] = "writing" /\ at'[d] = "handing" /\ job'[d] = job[d] /\ net' = net /\ \A e \in Desks \ {d} : Continues(e)
    BY <1>0, <1>8 DEF WriteBuffer, Continues
  <2>2. Origin(d)
    BY <2>1 DEF Origin
  <2>. QED
    BY <1>0, <2>1, <2>2, StayTells DEF Told
<1>9. ASSUME NEW d \in Desks, HandOver(d) \/ Save(d) \/ EndExtend(d) \/ EndChange(d) PROVE Told
  <2>1. Stop(d) /\ net' = net
    BY <1>9 DEF HandOver, Save, EndExtend, EndChange
  <2>. QED
    BY <1>0, <2>1, StopTells DEF Told
<1>10. ASSUME NEW d \in Desks, Vote(d) PROVE Told
  <2>1. job[d].cmd \in Changes /\ at[d] \in {"voting", "landed"}
    BY <1>10 DEF Vote, IsChange, Changes
  <2>2. CASE job[d].by \in job[d].seen
    <3>1. at'[d] = "releasing" /\ net' = net /\ \A e \in Desks \ {d} : Continues(e)
      BY <1>0, <1>10, <2>2 DEF Vote, Continues
    <3>2. Origin(d)
      BY <3>1 DEF Origin
    <3>. QED
      BY <1>0, <3>1, <3>2, StayTells DEF Told
  <2>3. CASE job[d].by \notin job[d].seen
    <3>. DEFINE k == [job[d] EXCEPT !.seen = job[d].seen \union {job[d].by}]
                x == Tx(d, "approve", job[d].by, job[d].index, job[d].action)
    <3>1. Send(d, k, x)
      BY <1>10, <2>3 DEF Vote
    <3>2. k.cmd = job[d].cmd
      BY <1>0 DEF Job
    <3>3. x.op = "approve" /\ x.index = job[d].index /\ x.action = job[d].action
      BY DEF Tx
    <3>. HIDE DEF k, x
    <3>4. Source(x)
      BY <2>1, <3>3 DEF Source
    <3>5. at'[d] = "waiting" /\ job'[d] = k => Origin(d)
      BY <2>1, <3>2 DEF Origin, Changes
    <3>. QED
      BY <3>1, <3>4, <3>5, SendTells DEF Told
  <2>. QED
    BY <2>2, <2>3
<1>11. ASSUME NEW d \in Desks, Release(d) PROVE Told
  <2>. DEFINE k == [job[d] EXCEPT !.cmd = "change"]
              x == Tx(d, "config", job[d].by, job[d].index, NoAction)
  <2>1. (Stop(d) /\ net' = net) \/ Send(d, k, x)
    BY <1>11 DEF Release
  <2>2. k.cmd = "change"
    BY <1>0 DEF Job
  <2>3. x.op = "config"
    BY DEF Tx
  <2>. HIDE DEF k, x
  <2>4. Source(x)
    BY <2>3 DEF Source
  <2>5. at'[d] = "waiting" /\ job'[d] = k => Origin(d)
    BY <2>2 DEF Origin
  <2>. QED
    BY <1>0, <2>1, <2>4, <2>5, SendTells, StopTells DEF Told
<1>12. ASSUME NEW d \in Desks, Lose(d) PROVE Told
  <2>1. Stop(d) /\ \A y \in net' : \E x \in net : Same(y, x)
    BY <1>0, <1>12, LoseDoes, Orphans DEF TypeInv, Same
  <2>. QED
    BY <2>1, StopTells DEF Told
<1>13. ASSUME NEW x \in net, Lands(x) PROVE Told
  <2>1. Leaves(x) /\ Answer(x, "landed") /\ job' = job
    BY <1>13 DEF Lands, LandVote, LandExecution, LandChange, LandExtension, FailsUnnoticed
  <2>2. \A y \in net' : \E z \in net : Same(y, z)
    BY <1>0, <2>1 DEF Leaves
  <2>3. \A e \in Desks : Continues(e) \/ (at'[e] = "landed" /\ job'[e] = job[e] /\ x.desk = e)
    BY <1>0, <2>1 DEF Answer, Continues
  <2>4. Lands(x) /\ (x.desk \in Desks => AwaitedBy(x, "waiting", job[x.desk]))
    BY <1>13 DEF TypeInv, NetType, AwaitedBy
  <2>. QED
    BY <2>2, <2>3, <2>4 DEF Told, Origin, Source
<1>14. ASSUME NEW x \in net, Drop(x) PROVE Told
  <2>2. \A y \in net' : \E z \in net : Same(y, z)
    BY <1>0, <1>14 DEF Drop, Leaves
  <2>3. CASE x.desk = Nobody
    BY <1>14, <2>2, <2>3 DEF Drop, desk, Told, Origin, Source, Continues
  <2>4. CASE x.desk # Nobody
    <3>1. x.desk \in Desks /\ Stop(x.desk)
      BY <1>0, <1>14, <2>4 DEF Drop, Transaction
    <3>. QED
      BY <2>2, <3>1, StopTells DEF Told
  <2>. QED
    BY <2>3, <2>4
<1>15. ASSUME UNCHANGED <<at, job, net>> PROVE Told
  BY <1>0, <1>15 DEF Told, Origin, Source, Continues
<1>16. ASSUME NEW d \in Desks, NEW a \in ms.members, NEW b \in ms.members,
              (\E n \in Locks : ChangeLock(d, n, a, b)) \/ \E r \in Rotations : Rotate(d, r[1], r[2], a, b)
       PROVE  Told
  BY <1>7, <1>16, Kinds DEF ChangeLock, Rotate, Changes
<1>17. ASSUME \/ \E b \in Buffer, so \in SOs : Rewrite(b, so)
              \/ \E i \in Index : Pass(i)
              \/ UNCHANGED vars
       PROVE  Told
  BY <1>15, <1>17 DEF Rewrite, Pass, vars, desk
<1>18. Told
  <2>1. ASSUME NEW x \in net, Refuse(x) \/ Expire(x) PROVE Lands(x) \/ Drop(x)
    BY <2>1 DEF Refuse, Expire, Lands
  <2>2. ASSUME NEW x \in net, LandVote(x) \/ LandExecution(x) \/ LandChange(x) \/ LandExtension(x) PROVE Lands(x)
    BY <2>2 DEF Lands
  <2>. QED
    BY <1>1, <1>2, <1>3, <1>4, <1>5, <1>6, <1>8, <1>9, <1>10, <1>11, <1>12, <1>13, <1>14, <1>16, <1>17, <2>1, <2>2 DEF Next
<1>. QED
  BY <1>18 DEF Told

----------------------------------------------------------------------------
(* The deployed build is the one that was voted on.                         *)

\* A script uploads to a buffer of its own, which the vault does not hold yet.
Owned ==
    \A d \in Desks : at[d] \in Uploading =>
        /\ buf[job[d].action.n].auth = "payer"
        /\ \A e \in Desks : at[e] \in Uploading /\ job[e].action.n = job[d].action.n => d = e
SealedInv ==
    /\ Owned
    /\ \A i \in Index : Sealed(prop[i].action)
    /\ \A x \in net : x.op = "create" => Sealed(x.action)

\* What each of the steps that touch buffers does to them.
LEMMA BuffersStep ==
    ASSUME TypeInv, Owned, [Next]_vars
    PROVE  /\ \A b \in Buffer : \/ buf'[b] = buf[b]
                                \/ buf[b].auth \in {"none", "payer"}
                                \/ buf'[b].auth = "closed"
           /\ Owned'
<1>0. /\ buf \in [Buffer -> Uploads] /\ at \in [Desks -> Places] /\ job \in [Desks -> Job]
      /\ \A d \in Desks : at[d] \in Uploading => job[d].action.n \in Buffer
  BY SquadsTyped, UploadHeld DEF LoaderType, TypeInv, DesksType
<1>. DEFINE Calm == \A b \in Buffer : \/ buf'[b] = buf[b]
                                      \/ buf[b].auth \in {"none", "payer"}
                                      \/ buf'[b].auth = "closed"
            Still == \A d \in Desks : at'[d] \in Uploading => at[d] \in Uploading /\ job'[d] = job[d]
            Payers == \A d \in Desks : at'[d] \in Uploading => buf'[job[d].action.n].auth = "payer"
<1>1. Still /\ Payers => Owned'
  BY DEF Owned
<1>2. ASSUME NEW d \in Desks, NEW tag \in UpgradeTags, NEW so \in SOs, NEW b \in Buffer, StartBuffer(d, tag, so, b)
      PROVE  Calm /\ Owned'
  <2>1. /\ buf[b].auth = "none" /\ buf' = [buf EXCEPT ![b] = [code |-> "partial", auth |-> "payer"]]
        /\ at'[d] = "writing" /\ job'[d] = [Run(d, "buffer", tag) EXCEPT !.action = UpgradeFrom(b, so)]
        /\ \A e \in Desks \ {d} : at'[e] = at[e] /\ job'[e] = job[e]
    BY <1>0, <1>2 DEF StartBuffer
  <2>2. buf'[b].auth = "payer" /\ \A c \in Buffer \ {b} : buf'[c] = buf[c]
    BY <1>0, <2>1
  <2>3. job'[d].action = UpgradeFrom(b, so)
    BY <2>1 DEF Run, NoJob
  <2>4. job'[d].action.n = b
    BY <2>3, Kinds
  <2>5. \A e \in Desks \ {d} : at'[e] \in Uploading =>
          /\ at[e] \in Uploading /\ job'[e] = job[e] /\ job[e].action.n # b /\ job[e].action.n \in Buffer
          /\ buf'[job[e].action.n].auth = "payer"
    BY <1>0, <2>1, <2>2 DEF Owned
  <2>6. Calm
    BY <2>1, <2>2
  <2>. HIDE DEF Calm
  <2>7. Owned'
    BY <2>2, <2>4, <2>5 DEF Owned
  <2>. QED
    BY <2>6, <2>7
<1>3. ASSUME ~\E d \in Desks, tag \in UpgradeTags, so \in SOs, b \in Buffer : StartBuffer(d, tag, so, b)
      PROVE  Still
  BY <1>3, DesksTell DEF Origin, Continues, Uploading
<1>4. ASSUME NEW d \in Desks, WriteBuffer(d), Still PROVE Calm /\ Owned'
  <2>. DEFINE n == job[d].action.n
              u == [buf[n] EXCEPT !.code = job[d].action.what]
  <2>1. n \in Buffer /\ buf[n].auth = "payer" /\ buf[n] \in Uploads
    BY <1>0, <1>4 DEF WriteBuffer, Owned, Uploading
  <2>2. u.auth = "payer"
    BY <2>1 DEF Uploads
  <2>3. buf' = [buf EXCEPT ![n] = u]
    BY <1>4 DEF WriteBuffer
  <2>. HIDE DEF n, u
  <2>4. \A b \in Buffer : buf'[b].auth = buf[b].auth /\ (b # n => buf'[b] = buf[b])
    BY <1>0, <2>1, <2>2, <2>3
  <2>5. Payers
    BY <1>0, <1>4, <2>4 DEF Owned
  <2>. QED
    BY <1>1, <1>4, <2>1, <2>4, <2>5
<1>5. ASSUME NEW d \in Desks, HandOver(d), Still PROVE Calm /\ Owned'
  <2>. DEFINE n == job[d].action.n
              u == [buf[n] EXCEPT !.auth = "vault"]
  <2>1. n \in Buffer /\ buf[n].auth = "payer" /\ at[d] \in Uploading
    BY <1>0, <1>5 DEF HandOver, Owned, Uploading
  <2>2. buf' = [buf EXCEPT ![n] = u] /\ at'[d] = "idle"
    BY <1>0, <1>5 DEF HandOver, Stop
  <2>3. \A e \in Desks : at'[e] \in Uploading => job[e].action.n # n
    BY <1>5, <2>1, <2>2 DEF Owned, Uploading
  <2>. HIDE DEF n, u
  <2>4. \A b \in Buffer : b # n => buf'[b] = buf[b]
    BY <1>0, <2>2
  <2>5. Payers
    BY <1>0, <1>5, <2>3, <2>4 DEF Owned
  <2>. QED
    BY <1>1, <1>5, <2>1, <2>4, <2>5
<1>6. ASSUME NEW c \in Buffer, NEW so \in SOs, Rewrite(c, so), Still PROVE Calm /\ Owned'
  <2>. DEFINE u == [buf[c] EXCEPT !.code = so]
  <2>1. buf[c].auth = "payer" /\ buf' = [buf EXCEPT ![c] = u]
    BY <1>6 DEF Rewrite
  <2>2. u.auth = "payer"
    BY <1>0, <2>1 DEF Uploads
  <2>. HIDE DEF u
  <2>3. \A b \in Buffer : buf'[b].auth = buf[b].auth /\ (b # c => buf'[b] = buf[b])
    BY <1>0, <2>1, <2>2
  <2>4. Payers
    BY <1>0, <1>6, <2>3 DEF Owned
  <2>. QED
    BY <1>1, <1>6, <2>1, <2>3, <2>4
<1>7. ASSUME NEW x \in net, LandExecution(x), Still PROVE Calm /\ Owned'
  <2>. DEFINE a == prop[x.index].action
  <2>1. CASE a.kind = "fund"
    <3>1. buf' = buf
      BY <1>7, <2>1, LandExecutionDoes
    <3>2. Payers
      BY <1>7, <3>1 DEF Owned
    <3>. QED
      BY <1>1, <1>7, <3>1, <3>2
  <2>2. CASE a.kind # "fund"
    <3>1. /\ a.kind = "upgrade" /\ a \in Action /\ CanUpgrade(a.n)
          /\ buf' = [buf EXCEPT ![a.n] = [code |-> "none", auth |-> "closed"]]
      BY <1>7, <2>2, LandExecutionDoes
    <3>2. a.n \in Buffer /\ buf[a.n].auth = "vault"
      BY <3>1, Kinds DEF CanUpgrade
    <3>3. buf'[a.n].auth = "closed" /\ \A b \in Buffer \ {a.n} : buf'[b] = buf[b]
      BY <1>0, <3>1, <3>2
    <3>. HIDE DEF a
    <3>4. Payers
      BY <1>0, <1>7, <3>2, <3>3 DEF Owned
    <3>. QED
      BY <1>1, <1>7, <3>2, <3>3, <3>4
  <2>. QED
    BY <2>1, <2>2
<1>8. ASSUME UNCHANGED buf, Still PROVE Calm /\ Owned'
  BY <1>1, <1>8 DEF Owned
<1>. HIDE DEF Calm, Still, Payers
<1>9. Calm /\ Owned'
  BY <1>2, <1>3, <1>4, <1>5, <1>6, <1>7, <1>8, Sorts
<1>. QED
  BY <1>9 DEF Calm

\* Every step keeps the proposed builds in their buffers.
LEMMA SealedStep ==
    ASSUME TypeInv, SealedInv, [Next]_vars
    PROVE  SealedInv'
<1>0. /\ Owned' /\ LoaderType
      /\ \A b \in Buffer : \/ buf'[b] = buf[b]
                           \/ buf[b].auth \in {"none", "payer"}
                           \/ buf'[b].auth = "closed"
  BY BuffersStep, SquadsTyped DEF SealedInv
<1>1. ASSUME NEW a \in Action \union {NoAction}, Sealed(a) PROVE Sealed(a)'
  BY <1>0, <1>1, Kinds DEF Sealed
<1>2. (\A x \in net : x \in Transaction) /\ \A i \in Index : prop[i].action \in Action \union {NoAction}
  BY Facts DEF TypeInv, NetType
<1>3. NetType' /\ SquadsType' /\ Proposed
  BY DesksStep, SquadsStep
<1>4. \A i \in Index : Sealed(prop'[i].action)
  BY <1>2, <1>3 DEF Proposed, SealedInv, Transaction
<1>5. \A y \in net' : y.op = "create" => Sealed(y.action)
  BY <1>2, DesksTell DEF Source, Same, SealedInv
<1>6. /\ \A i \in Index : prop'[i].action \in Action \union {NoAction}
      /\ \A y \in net' : y.action \in Action \union {NoAction}
  BY <1>3 DEF SquadsType, Proposal, NetType, Transaction
<1>7. \A i \in Index : Sealed(prop[i].action)'
  BY <1>1, <1>4, <1>6 DEF Sealed
<1>8. \A y \in net' : y.op = "create" => Sealed(y.action)'
  BY <1>1, <1>5, <1>6 DEF Sealed
<1>. QED
  BY <1>0, <1>7, <1>8 DEF SealedInv

\* No proposal and no upload at first.
LEMMA SealedInit == Init => SealedInv
BY UpgradeAssumption DEF Init, SquadsInit, SealedInv, Owned, Sealed, NoProposal, NoAction, Uploading

\* The proposed builds are in their buffers.
LEMMA AlwaysSealed == Spec => []SealedInv
BY SealedInit, SealedStep, AlwaysTyped, PTL DEF Spec

\* Whatever is uploaded, rewritten, proposed or lost, a proposal that replaces the program
\* deploys the build its members voted on (upgrade.ts 15 and 210).
THEOREM BuildAsVoted == Spec => DeployedAsVoted
<1>1. ASSUME TypeInv, SealedInv, [Next]_vars
      PROVE  [code' # code =>
                \E i \in Index : /\ prop[i].status = "Approved" /\ prop'[i].status = "Executed"
                                 /\ prop[i].action.what = code']_vars
  <2>1. CASE code' = code
    BY <2>1
  <2>2. CASE code' # code
    <3>1. PICK x \in net : LandExecution(x)
      BY <1>1, <2>2, Sorts DEF LandVote, LandChange, LandExtension, Pass
    <3>2. /\ x.index \in Index /\ prop[x.index].status = "Approved" /\ prop'[x.index].status = "Executed"
          /\ prop[x.index].action.kind = "upgrade" /\ CanUpgrade(prop[x.index].action.n)
          /\ code' = buf[prop[x.index].action.n].code
      BY <1>1, <2>2, <3>1, LandExecutionDoes
    <3>3. code' = prop[x.index].action.what
      BY <1>1, <3>2 DEF SealedInv, Sealed, CanUpgrade
    <3>. QED
      BY <3>2, <3>3
  <2>. QED
    BY <2>1, <2>2
<1>. QED
  BY <1>1, AlwaysTyped, AlwaysSealed, PTL DEF Spec, DeployedAsVoted

----------------------------------------------------------------------------
(* The state files name the proposals they mean.                            *)

Is(i, a) == i \in Index /\ i <= ms.index /\ prop[i].action = a
NamedInv ==
    /\ \A t \in Tags : Recorded(t) => Is(file[t].index, meant[t])
    /\ \A d \in Desks : at[d] = "landed" /\ job[d].cmd \in {"propose", "fund"} => Is(job[d].index, job[d].action)


\* What a step does to the index and the proposal that a state file names.
LEMMA RecordsStep ==
    ASSUME TypeInv, [Next]_vars, NEW t \in Tags
    PROVE  \/ file'[t].index = file[t].index /\ meant'[t] = meant[t]
           \/ \E d \in Desks : /\ at[d] = "landed" /\ job[d].cmd \in {"propose", "fund"} /\ job[d].tag = t
                               /\ job'[d] = NoJob /\ file'[t].index = job[d].index /\ meant'[t] = job[d].action
<1>0. file \in [Tags -> File] /\ meant \in [Tags -> Action \union {NoAction}] /\ job \in [Desks -> Job] /\ file[t] \in File
  BY DEF TypeInv, TypeOK, DesksType, File
<1>1. ASSUME NEW d \in Desks, NEW tag \in UpgradeTags, NEW so, NEW b, StartBuffer(d, tag, so, b)
      PROVE  file'[t].index = file[t].index /\ meant'[t] = meant[t]
  <2>1. file' = [file EXCEPT ![tag] = [file[tag] EXCEPT !.buffer = b]] /\ meant' = meant
    BY <1>1 DEF StartBuffer
  <2>2. [file[tag] EXCEPT !.buffer = b].index = file[tag].index
    BY <1>0 DEF File, Tags
  <2>. QED
    BY <1>0, <2>1, <2>2
<1>2. ASSUME NEW d \in Desks, Save(d)
      PROVE  \/ file'[t].index = file[t].index /\ meant'[t] = meant[t]
             \/ /\ at[d] = "landed" /\ job[d].cmd \in {"propose", "fund"} /\ job[d].tag = t
                /\ job'[d] = NoJob /\ file'[t].index = job[d].index /\ meant'[t] = job[d].action
  <2>. DEFINE j == job[d]
  <2>1. /\ at[d] = "landed" /\ j.cmd \in {"propose", "fund", "approve", "execute"} /\ job'[d] = NoJob
        /\ file' = [file EXCEPT ![j.tag] = Saved(j)]
        /\ meant' = IF j.cmd \in {"propose", "fund"} THEN [meant EXCEPT ![j.tag] = j.action] ELSE meant
    BY <1>0, <1>2 DEF Save, Stop
  <2>2. CASE j.tag # t
    BY <1>0, <2>1, <2>2
  <2>3. CASE j.tag = t /\ j.cmd \in {"propose", "fund"}
    <3>1. Saved(j).index = j.index
      BY <1>0, <2>3 DEF Saved, File
    <3>2. file'[t] = Saved(j) /\ meant'[t] = j.action
      BY <1>0, <2>1, <2>3
    <3>. QED
      BY <2>1, <2>3, <3>1, <3>2
  <2>4. CASE j.tag = t /\ j.cmd \in {"approve", "execute"}
    <3>1. Saved(j).index = file[t].index
      BY <1>0, <2>4 DEF Saved, File
    <3>2. file'[t] = Saved(j) /\ meant' = meant
      BY <1>0, <2>1, <2>4
    <3>. QED
      BY <3>1, <3>2
  <2>. QED
    BY <2>1, <2>2, <2>3, <2>4
<1>. QED
  BY <1>0, <1>1, <1>2, Sorts

\* A proposal that exists stays what it is.
LEMMA IsKept ==
    ASSUME TypeInv, [Next]_vars, NEW i, NEW a, Is(i, a)
    PROVE  Is(i, a)'
<1>1. Kept /\ ms.index \in Nat /\ ms'.index \in Nat
  BY SquadsStep, SquadsTyped DEF SquadsType, Multisig
<1>. QED
  BY <1>1 DEF Is, Kept, Index

\* What a script proposed is there once the transaction it waited for landed.
LEMMA CreatedIs ==
    ASSUME TypeInv, [Next]_vars, NEW x \in net, Lands(x), x.op = "create"
    PROVE  Is(x.index, x.action)'
<1>1. LandVote(x)
  BY DEF Lands, LandExecution, LandChange, LandExtension, FailsUnnoticed
<1>2. ms'.index \in Nat
  BY SquadsStep DEF SquadsType, Multisig
<1>. QED
  BY <1>1, <1>2, LandVoteDoes DEF Is

\* Every step keeps the state files true.
LEMMA NamedStep ==
    ASSUME TypeInv, NamedInv, [Next]_vars
    PROVE  NamedInv'
<1>1. ASSUME NEW t \in Tags, Recorded(t)' PROVE Is(file[t].index, meant[t])'
  <2>1. Is(file'[t].index, meant'[t])
    BY <1>1, RecordsStep DEF NamedInv, Recorded
  <2>. QED
    BY <2>1, IsKept DEF Is
<1>2. ASSUME NEW d \in Desks, at'[d] = "landed", job'[d].cmd \in {"propose", "fund"}
      PROVE  Is(job[d].index, job[d].action)'
  <2>1. job'[d] = job[d]
    BY <1>2, DesksTell DEF Origin, Continues
  <2>2. CASE at[d] = "landed"
    <3>1. Is(job[d].index, job[d].action)
      BY <1>2, <2>1, <2>2 DEF NamedInv
    <3>. QED
      BY <2>1, <3>1, IsKept DEF Is
  <2>3. CASE at[d] # "landed"
    <3>1. PICK x \in net : AwaitedBy(x, "waiting", job[d]) /\ Lands(x)
      BY <1>2, <2>3, DesksTell DEF Origin, Continues
    <3>2. x.op = "create" /\ x.index = job[d].index /\ x.action = job[d].action
      BY <1>2, <2>1, <3>1 DEF AwaitedBy
    <3>3. Is(x.index, x.action)'
      BY <3>1, <3>2, CreatedIs
    <3>. QED
      BY <2>1, <3>2, <3>3 DEF Is
  <2>. QED
    BY <2>2, <2>3
<1>. QED
  BY <1>1, <1>2 DEF NamedInv, Recorded

\* No state file names a proposal at first.
LEMMA NamedInit == Init => NamedInv
BY DEF Init, NamedInv, Recorded, NoFile

\* The state files name the proposals they mean.
LEMMA AlwaysNamed == Spec => []NamedInv
BY NamedInit, NamedStep, AlwaysTyped, PTL DEF Spec

----------------------------------------------------------------------------
(* Careful operators vote for what they were asked to approve.              *)

ChangeInv ==
    /\ \A x \in net : x.op = "approve" => Is(x.index, x.action)
    /\ \A d \in Desks : at[d] \in {"voting", "landed"} /\ job[d].cmd \in Changes => Is(job[d].index, job[d].action)

\* Every step of careful operators keeps votes to the actions that were meant.
LEMMA ChangeStep ==
    ASSUME Careful, TypeInv, NamedInv, ChangeInv, [Next]_vars
    PROVE  ChangeInv'
<1>1. ASSUME NEW y \in net', y.op = "approve" PROVE Is(y.index, y.action)'
  <2>1. Is(y.index, y.action)
    BY <1>1, DesksTell DEF Source, Same, ChangeInv, NamedInv
  <2>. QED
    BY <2>1, IsKept DEF Is
<1>2. ASSUME NEW d \in Desks, at'[d] \in {"voting", "landed"}, job'[d].cmd \in Changes
      PROVE  Is(job[d].index, job[d].action)'
  <2>1. CASE Continues(d)
    <3>1. Is(job[d].index, job[d].action) /\ job'[d] = job[d]
      BY <1>2, <2>1 DEF Continues, ChangeInv
    <3>. QED
      BY <3>1, IsKept DEF Is
  <2>2. CASE job'[d] = job[d] /\ \E x \in net : AwaitedBy(x, "waiting", job[d]) /\ Lands(x)
    <3>1. PICK x \in net : AwaitedBy(x, "waiting", job[d]) /\ Lands(x)
      BY <2>2
    <3>2. x.op \in {"create", "approve"} /\ x.index = job[d].index /\ x.action = job[d].action
      BY <1>2, <2>2, <3>1 DEF AwaitedBy
    <3>3. Is(x.index, x.action)'
      BY <3>1, <3>2, CreatedIs, IsKept DEF ChangeInv
    <3>. QED
      BY <2>2, <3>2, <3>3 DEF Is
  <2>3. CASE job'[d].index = ms.index /\ Resumable(job'[d].cmd) /\ Undisturbed(job'[d].action)
    <3>1. ms.index \in Index /\ Live(ms.index)
      BY <2>3, SquadsTyped DEF Resumable, Live, SquadsType, Multisig, Index
    <3>2. Is(job'[d].index, job'[d].action)
      BY <2>3, <3>1, SquadsTyped DEF Is, Undisturbed, SquadsType, Multisig
    <3>. QED
      BY <3>2, IsKept DEF Is
  <2>. QED
    BY <1>2, <2>1, <2>2, <2>3, DesksTell DEF Origin
<1>. QED
  BY <1>1, <1>2 DEF ChangeInv

\* Careful operators' votes are for the actions they were asked to approve, although indices
\* are predicted, saved and taken over by later runs (upgrade.ts 176, 193, 206 and 226;
\* squads-timelock.ts 27-33).
THEOREM VotesMeant ==
    ASSUME Careful
    PROVE  Spec => []VotesAsMeant
<1>1. Init => ChangeInv
  BY DEF Init, ChangeInv, Changes
<1>2. TypeInv /\ NamedInv /\ ChangeInv /\ [Next]_vars => ChangeInv'
  BY ChangeStep
<1>3. ChangeInv => VotesAsMeant
  BY DEF ChangeInv, VotesAsMeant, Is
<1>. QED
  BY <1>1, <1>2, <1>3, AlwaysTyped, AlwaysNamed, PTL DEF Spec

----------------------------------------------------------------------------
(* Careful operators pay one transfer per TAG.                              *)

\* A run that asks for a transfer is the only one of its TAG and nothing is recorded yet;
\* whatever is executed, or about to be, under a TAG is what its state file records.
Asking ==
    \A d \in Desks : job[d].cmd = "fund" =>
        /\ ~Recorded(job[d].tag)
        /\ \A e \in Desks : job[e].cmd = "fund" /\ job[e].tag = job[d].tag => d = e
MeantByTag ==
    \A t \in Tags : Recorded(t) => IF t \in FundTags THEN meant[t] = FundFor(t) ELSE meant[t].kind = "upgrade"
Executing(i) == \E x \in net : x.op = "execute" /\ x.index = i
PaidAsRecorded ==
    \A i \in Index, t \in FundTags :
        prop[i].action = FundFor(t) /\ (prop[i].status = "Executed" \/ Executing(i)) => file[t].index = i
FundInv ==
    /\ Asking /\ MeantByTag /\ PaidAsRecorded
    /\ \A x \in net : x.op = "execute" => x.index <= ms.index

\* Only an execution under way, or a change of the multisig, executes a proposal.
LEMMA ExecutedBy ==
    ASSUME TypeInv, [Next]_vars, NEW i \in Index, prop'[i].status = "Executed"
    PROVE  \/ prop[i].action = prop'[i].action /\ (prop[i].status = "Executed" \/ Executing(i))
           \/ IsConfig(prop'[i].action)
<1>1. ASSUME NEW x \in net, LandVote(x) PROVE prop'[i] = prop[i]
  BY <1>1, LandVoteDoes
<1>2. ASSUME NEW x \in net, LandExecution(x)
      PROVE  prop[i].action = prop'[i].action /\ (prop[i].status = "Executed" \/ Executing(i))
  BY <1>2, LandExecutionDoes DEF Executing
<1>3. ASSUME NEW x \in net, LandChange(x)
      PROVE  prop'[i] = prop[i] \/ IsConfig(prop'[i].action)
  BY <1>3, LandChangeDoes
<1>4. ASSUME NEW k \in Index, Pass(k) PROVE prop'[i].action = prop[i].action /\ prop'[i].status = prop[i].status
  BY <1>4, SquadsTyped, TickDoes DEF Pass
<1>5. ASSUME NEW x \in net, LandExtension(x) PROVE prop'[i] = prop[i]
  BY <1>5 DEF LandExtension, squads
<1>. QED
  BY <1>1, <1>2, <1>3, <1>4, <1>5, Sorts DEF squads

\* A run that asks for a transfer was asking, or starts to.
LEMMA AskedBy ==
    ASSUME TypeInv, [Next]_vars, NEW d \in Desks, job'[d].cmd = "fund"
    PROVE  \/ job'[d] = job[d]
           \/ job'[d].tag \in FundTags /\ \E m \in ms.members : Fund(d, job'[d].tag, m)
<1>1. Held(at'[d], job'[d])
  BY DesksStep DEF DesksType
<1>2. job'[d] # NoJob /\ job'[d].cmd \notin Changes /\ job'[d].cmd # "buffer"
  BY DEF NoJob, Changes
<1>. QED
  BY <1>1, <1>2, DesksTell DEF Origin, Continues, Held, Uploading

\* Every step of careful operators keeps transfers to what the state files record.
LEMMA FundStep ==
    ASSUME Careful, UpgradeTags \cap FundTags = {}, TypeInv, NamedInv, FundInv, [Next]_vars
    PROVE  FundInv'
<1>0. /\ \A d \in Desks : job[d] \in Job /\ Held(at[d], job[d])
      /\ \A t \in FundTags : t \in Tags /\ t \notin UpgradeTags
      /\ NoJob.cmd = "none" /\ ms.index \in Nat /\ ms'.index \in Nat /\ Kept
  BY Facts, SquadsTyped, SquadsStep DEF Tags, NoJob, SquadsType, Multisig
\* Under the TAG of a transfer only a run that asks for it changes what is recorded.
<1>1. ASSUME NEW t \in FundTags, file'[t].index # file[t].index
      PROVE  \E d \in Desks : job[d].cmd = "fund" /\ job[d].tag = t /\ job'[d] = NoJob
  BY <1>0, <1>1, RecordsStep DEF Held
<1>2. Asking'
  <2>1. ASSUME NEW d \in Desks, job'[d].cmd = "fund"
        PROVE  /\ job'[d].tag \in FundTags /\ file'[job'[d].tag].index = 0
               /\ \A e \in Desks : job'[e].cmd = "fund" /\ job'[e].tag = job'[d].tag => d = e
    <3>1. CASE \A e \in Desks : job'[e].cmd = "fund" => job'[e] = job[e]
      <4>1. job[d].tag \in FundTags /\ file[job[d].tag].index = 0 /\ job'[d] = job[d]
        BY <1>0, <2>1, <3>1 DEF FundInv, Asking, Recorded, Held
      <4>2. file'[job[d].tag].index = file[job[d].tag].index
        BY <1>0, <1>1, <2>1, <4>1 DEF FundInv, Asking
      <4>. QED
        BY <2>1, <3>1, <4>1, <4>2 DEF FundInv, Asking
    <3>2. ASSUME NEW f \in Desks, job'[f].cmd = "fund", job'[f] # job[f]
          PROVE  /\ job'[d].tag \in FundTags /\ file'[job'[d].tag].index = 0
                 /\ \A e \in Desks : job'[e].cmd = "fund" /\ job'[e].tag = job'[d].tag => d = e
      <4>1. PICK m \in ms.members : Fund(f, job'[f].tag, m)
        BY <3>2, AskedBy
      <4>2. job'[f].tag \in FundTags
        BY <3>2, AskedBy
      <4>3. /\ file[job'[f].tag].index = 0 /\ file' = file
            /\ \A e \in Desks : job[e].cmd = "fund" => job[e].tag # job'[f].tag
            /\ \A e \in Desks \ {f} : job'[e] = job[e]
        BY <4>1 DEF Fund, Refused, Send, NotSavedYet, TypeInv, DesksType
      <4>4. d # f => job'[d] = job[d] /\ job[d].tag \in FundTags /\ file[job[d].tag].index = 0
        BY <1>0, <2>1, <4>3 DEF FundInv, Asking, Recorded, Held
      <4>5. ASSUME NEW e \in Desks, job'[e].cmd = "fund", job'[e].tag = job'[d].tag PROVE d = e
        BY <2>1, <4>3, <4>5 DEF FundInv, Asking
      <4>. QED
        BY <4>2, <4>3, <4>4, <4>5
    <3>. QED
      BY <3>1, <3>2
  <2>. QED
    BY <2>1 DEF Asking, Recorded
<1>3. MeantByTag'
  <2>1. ASSUME NEW t \in Tags, file'[t].index # 0
        PROVE  IF t \in FundTags THEN meant'[t] = FundFor(t) ELSE meant'[t].kind = "upgrade"
    <3>1. CASE file'[t].index = file[t].index /\ meant'[t] = meant[t]
      BY <2>1, <3>1 DEF FundInv, MeantByTag, Recorded
    <3>2. ASSUME NEW d \in Desks, job[d].cmd \in {"propose", "fund"}, job[d].tag = t, meant'[t] = job[d].action
          PROVE  IF t \in FundTags THEN meant'[t] = FundFor(t) ELSE meant'[t].kind = "upgrade"
      BY <1>0, <3>2 DEF Held
    <3>. QED
      BY <3>1, <3>2, RecordsStep
  <2>. QED
    BY <2>1 DEF MeantByTag, Recorded
<1>4. ASSUME NEW i \in Index, NEW t \in FundTags, prop'[i].action = FundFor(t),
             prop'[i].status = "Executed" \/ Executing(i)'
      PROVE  file'[t].index = i
  <2>1. file[t].index = i
    <3>1. CASE prop'[i].status = "Executed"
      <4>1. ~IsConfig(FundFor(t))
        BY Kinds DEF IsConfig
      <4>2. prop[i].action = FundFor(t) /\ (prop[i].status = "Executed" \/ Executing(i))
        BY <1>4, <3>1, <4>1, ExecutedBy
      <4>. QED
        BY <4>2 DEF FundInv, PaidAsRecorded
    <3>2. ASSUME NEW y \in net', y.op = "execute", y.index = i PROVE file[t].index = i
      <4>1. CASE \E x \in net : Same(y, x)
        <5>1. Executing(i) /\ i <= ms.index
          BY <3>2, <4>1 DEF Same, Executing, FundInv
        <5>2. prop[i].action = FundFor(t)
          BY <1>0, <1>4, <5>1 DEF Kept
        <5>. QED
          BY <5>1, <5>2 DEF FundInv, PaidAsRecorded
      <4>2. ASSUME NEW u \in Tags, Recorded(u), y.index = file[u].index PROVE file[t].index = i
        <5>1. i <= ms.index /\ prop[i].action = meant[u]
          BY <3>2, <4>2 DEF NamedInv, Is
        <5>2. meant[u] = FundFor(t)
          BY <1>0, <1>4, <5>1 DEF Kept
        <5>3. u \in FundTags /\ FundFor(u) = FundFor(t)
          BY <4>2, <5>2, Kinds DEF FundInv, MeantByTag
        <5>4. u = t
          BY <5>3, Kinds
        <5>. QED
          BY <3>2, <4>2, <5>4
      <4>. QED
        BY <3>2, <4>1, <4>2, DesksTell DEF Source
    <3>. QED
      BY <1>4, <3>1, <3>2 DEF Executing
  <2>2. CASE file'[t].index # file[t].index
    <3>1. PICK d \in Desks : job[d].cmd = "fund" /\ job[d].tag = t
      BY <1>1, <2>2
    <3>2. file[t].index = 0
      BY <3>1 DEF FundInv, Asking, Recorded
    <3>. QED
      BY <2>1, <3>2 DEF Index
  <2>. QED
    BY <2>1, <2>2
<1>5. ASSUME NEW y \in net', y.op = "execute" PROVE y.index <= ms'.index
  <2>1. y.index \in Index
    BY <1>5, DesksStep DEF NetType, Sent, Ops
  <2>2. y.index <= ms.index
    BY <1>5, DesksTell DEF Source, Same, FundInv, NamedInv, Is
  <2>. QED
    BY <1>0, <2>1, <2>2 DEF Kept, Index
<1>. QED
  BY <1>2, <1>3, <1>4, <1>5 DEF FundInv, PaidAsRecorded, Executing

\* Careful operators pay one transfer per TAG, although a fund run that lost its answer is
\* started again and members approve and execute whatever the file says (upgrade.ts 168-194).
THEOREM PaidOnce ==
    ASSUME Careful, UpgradeTags \cap FundTags = {}
    PROVE  Spec => []FundedOnce
<1>1. Init => FundInv
  <2>1. ASSUME Init PROVE FundInv
    <3>1. \A i \in Index : prop[i].status = "None"
      BY <2>1 DEF Init, SquadsInit, NoProposal
    <3>. QED
      BY <2>1, <3>1 DEF Init, FundInv, Asking, MeantByTag, Recorded, PaidAsRecorded, Executing, NoJob, NoFile
  <2>. QED
    BY <2>1
<1>2. TypeInv /\ NamedInv /\ FundInv /\ [Next]_vars => FundInv'
  BY FundStep
<1>3. TypeInv /\ FundInv => FundedOnce
  <2>. SUFFICES ASSUME TypeInv, FundInv, NEW i \in Index, NEW j \in Index,
                       prop[i].status = "Executed", prop[j].status = "Executed",
                       prop[i].action.kind = "fund", prop[i].action = prop[j].action
                PROVE  i = j
    BY DEF FundedOnce
  <2>1. prop[i].action \in Action
    BY Facts, Kinds
  <2>2. PICK t \in FundTags : prop[i].action = FundFor(t)
    BY <2>1, Kinds
  <2>. QED
    BY <2>2 DEF FundInv, PaidAsRecorded
<1>. QED
  BY <1>1, <1>2, <1>3, AlwaysTyped, AlwaysNamed, PTL DEF Spec
=============================================================================
