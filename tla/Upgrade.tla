-------------------------------- MODULE Upgrade --------------------------------
(***************************************************************************)
(* Upgrading the program through the multisig (client/upgrade.ts) and      *)
(* changing the multisig (squads-timelock.ts, squads-rotate.ts).           *)
(*                                                                         *)
(* A desk runs one script at a time.  A script reads the chain and the     *)
(* state file of its TAG, sends a transaction and waits for it; what it    *)
(* read may be stale when the transaction lands, and it may be killed, or  *)
(* lose the answer, while the transaction is still on its way.             *)
(***************************************************************************)
EXTENDS Squads

CONSTANTS
    Desks,
    SOs,          \* builds of the program; the first one deployed is Genesis
    Genesis,
    Size,         \* the bytes of each build
    MinExtend,    \* MIN_EXTEND
    Grant,        \* LAMPORTS of a fund proposal
    Purse,        \* what the deployer has, in the rent of one byte
    UpgradeTags,  \* TAGs under which upgrades are proposed
    FundTags,     \* TAGs under which transfers to the deployer are proposed
    MaxBuffer,    \* bound: buffers ever uploaded
    Locks,        \* values of TIME_LOCK given to squads-timelock.ts
    Rotations,    \* pairs OLD_MEMBER, NEW_MEMBER given to squads-rotate.ts
    Careful,      \* the two squads scripts are not run while a proposal is open, unless
                  \* it is the one they are asked for; one transfer is asked per TAG
    MaxLost       \* bound: transactions whose sender no longer waits

Nobody == "nobody"

\* MEMBERS are distinct, THRESHOLD is between 1 and their number (squads.ts 13).
ASSUME UpgradeAssumption ==
    /\ Founders \subseteq People /\ IsFiniteSet(Founders)
    /\ Threshold \in 1..Cardinality(Founders)
    /\ MaxIndex \in Nat /\ MaxAge \in Nat
    /\ Genesis \in SOs
    /\ Size \in [SOs -> Nat]
    /\ MinExtend \in Nat /\ Grant \in Nat /\ Purse \in Nat /\ MaxBuffer \in Nat /\ MaxLost \in Nat
    /\ Locks \subseteq 0..MaxAge
    /\ Rotations \subseteq People \X People
    /\ Careful \in BOOLEAN
    /\ Nobody \notin Desks

Tags == UpgradeTags \union FundTags
Buffer == 1..MaxBuffer
UpgradeFrom(b, so) == [NoAction EXCEPT !.kind = "upgrade", !.n = b, !.what = so]
FundFor(tag) == [NoAction EXCEPT !.kind = "fund", !.what = tag]
SetLock(n) == [NoAction EXCEPT !.kind = "lock", !.n = n]
Replace(o, n) == [NoAction EXCEPT !.kind = "rotate", !.old = o, !.new = n]
Action ==
    {UpgradeFrom(b, so) : b \in Buffer, so \in SOs} \union {FundFor(t) : t \in FundTags}
      \union {SetLock(n) : n \in Locks} \union {Replace(r[1], r[2]) : r \in Rotations}

VARIABLES
    code,      \* the build that is deployed
    capacity,  \* bytes the program data account holds
    buf,       \* buffers: their contents and authority
    purse,     \* the deployer's balance
    file,      \* upgrade-TAG.json: index (0: none), kind, buffer (0: none), executed
    meant,     \* history: what was proposed when the index in the file was saved
    at,        \* where each desk's script is
    job,       \* what that script was asked for and holds
    net        \* transactions under way

chain == <<squads, code, capacity, buf, purse>>
desk == <<at, job>>
vars == <<chain, file, meant, desk, net>>

NoFile == [index |-> 0, kind |-> "none", buffer |-> 0, executed |-> FALSE]
NoJob == [cmd |-> "none", tag |-> "-", index |-> 0, action |-> NoAction, by |-> "-", seen |-> {}]

Init ==
    /\ SquadsInit
    /\ code = Genesis /\ capacity = Size[Genesis]
    /\ buf = [b \in Buffer |-> [code |-> "none", auth |-> "none"]]
    /\ purse = Purse
    /\ file = [t \in Tags |-> NoFile]
    /\ meant = [t \in Tags |-> NoAction]
    /\ at = [d \in Desks |-> "idle"]
    /\ job = [d \in Desks |-> NoJob]
    /\ net = {}

----------------------------------------------------------------------------
(* What the scripts read.                                                   *)

\* extension(): bytes to add so that the build fits, never fewer than MIN_EXTEND.
Extra(so) ==
    IF Size[so] > capacity
    THEN IF Size[so] - capacity > MinExtend THEN Size[so] - capacity ELSE MinExtend
    ELSE 0

\* checkBuffer(): an open buffer with exactly the bytes of the build.
NotCompared(b, so) == b # 0 /\ buf[b].code \in SOs  \* for a mutant run
Checked(b, so) == b # 0 /\ buf[b].code = so

\* The open transaction of a script: who waits, and what the chain is asked to do.
Tx(d, op, m, i, a) == [desk |-> d, op |-> op, by |-> m, index |-> i, action |-> a, n |-> 0]

Run(d, cmd, tag) == [NoJob EXCEPT !.cmd = cmd, !.tag = tag]
Send(d, j, tx) ==
    /\ at' = [at EXCEPT ![d] = "waiting"]
    /\ job' = [job EXCEPT ![d] = j]
    /\ net' = net \union {tx}
Stop(d) ==
    /\ at' = [at EXCEPT ![d] = "idle"]
    /\ job' = [job EXCEPT ![d] = NoJob]

----------------------------------------------------------------------------
(* upgrade.ts, step by step.                                                *)

\* buffer: the address of a fresh buffer goes to the state file, then the bytes are
\* uploaded, then the authority is handed to the vault.
StartBuffer(d, tag, so, b) ==
    /\ at[d] = "idle" /\ buf[b].auth = "none" /\ \A c \in 1..(b - 1) : buf[c].auth # "none"
    /\ file' = [file EXCEPT ![tag].buffer = b]
    /\ buf' = [buf EXCEPT ![b] = [code |-> "partial", auth |-> "payer"]]
    /\ at' = [at EXCEPT ![d] = "writing"]
    /\ job' = [job EXCEPT ![d] = [Run(d, "buffer", tag) EXCEPT !.action = UpgradeFrom(b, so)]]
    /\ UNCHANGED <<squads, code, capacity, purse, meant, net>>
WriteBuffer(d) ==
    /\ at[d] = "writing"
    /\ buf' = [buf EXCEPT ![job[d].action.n].code = job[d].action.what]
    /\ at' = [at EXCEPT ![d] = "handing"]
    /\ UNCHANGED <<squads, code, capacity, purse, file, meant, job, net>>
HandOver(d) ==
    /\ at[d] = "handing"
    /\ buf' = [buf EXCEPT ![job[d].action.n].auth = "vault"]
    /\ Stop(d)
    /\ UNCHANGED <<squads, code, capacity, purse, file, meant, net>>

\* The index is saved once the proposal is confirmed, not when it is predicted.
SavedAtOnce(j) ==  \* for a mutant run
    /\ file' = [file EXCEPT ![j.tag].index = j.index]
    /\ meant' = [meant EXCEPT ![j.tag] = j.action]
NotSavedYet(j) == UNCHANGED <<file, meant>>

\* propose: BUFFER may name any buffer; with EXTEND_LATER the build need not fit yet.
Propose(d, tag, so, b, m) ==
    /\ at[d] = "idle"
    /\ Checked(b, so) /\ buf[b].auth = "vault"
    /\ m \in ms.members /\ ms.index < MaxIndex
    /\ LET j == [Run(d, "propose", tag) EXCEPT !.index = ms.index + 1, !.action = UpgradeFrom(b, so)]
       IN  Send(d, j, Tx(d, "create", m, j.index, j.action)) /\ NotSavedYet(j)
    /\ UNCHANGED chain

\* fund is refused while the file records a proposal it does not record as executed.
NeverRefused(tag) == FALSE  \* for a mutant run
Refused(tag) == file[tag].index # 0 /\ (Careful \/ ~file[tag].executed)

\* The person waits for one run before starting the next under the same TAG; being careful
\* they use a fresh TAG for every transfer, as the header says.
Fund(d, tag, m) ==
    /\ at[d] = "idle"
    /\ ~Refused(tag)
    /\ \A e \in Desks : job[e].cmd = "fund" => job[e].tag # tag
    /\ m \in ms.members /\ ms.index < MaxIndex
    /\ LET j == [Run(d, "fund", tag) EXCEPT !.index = ms.index + 1, !.action = FundFor(tag)]
       IN  Send(d, j, Tx(d, "create", m, j.index, j.action)) /\ NotSavedYet(j)
    /\ UNCHANGED chain

\* current(): approve and execute work on the index the file names, re-read from the chain.
Recorded(tag) == file[tag].index # 0

Approve(d, tag, m) ==
    /\ at[d] = "idle"
    /\ Recorded(tag) /\ m \in ms.members \ prop[file[tag].index].approved
    /\ LET j == [Run(d, "approve", tag) EXCEPT !.index = file[tag].index, !.action = meant[tag]]
       IN  Send(d, j, Tx(d, "approve", m, j.index, j.action))
    /\ UNCHANGED <<chain, file, meant>>

MoreThanEnough(i) == Cardinality(prop[i].approved) > ms.threshold  \* for a mutant run
Enough(i) == Cardinality(prop[i].approved) >= ms.threshold

\* execute: a recorded transfer needs no buffer, anything else one that fits.
Ready(tag, so, m) ==
    /\ Recorded(tag) /\ m \in ms.members
    /\ Enough(file[tag].index)
    /\ file[tag].kind # "fund" => Checked(file[tag].buffer, so) /\ Extra(so) = 0
Execute(d, tag, so, m) ==
    /\ at[d] = "idle" /\ Ready(tag, so, m)
    /\ LET j == [Run(d, "execute", tag) EXCEPT !.index = file[tag].index]
       IN  Send(d, j, Tx(d, "execute", m, j.index, NoAction))
    /\ UNCHANGED <<chain, file, meant>>

Extend(d, so) ==
    /\ at[d] = "idle" /\ Extra(so) > 0
    /\ Send(d, Run(d, "extend", "-"), [Tx(d, "extend", "-", 0, NoAction) EXCEPT !.n = Extra(so)])
    /\ UNCHANGED <<chain, file, meant>>

\* The save after the confirmed transaction; what is not saved again stays.
SavedNext(j) ==  \* for a mutant run: the prediction is repeated after the proposal landed
    [file[j.tag] EXCEPT !.index = ms.index + 1]
Saved(j) ==
    LET f == file[j.tag]
    IN  CASE j.cmd = "propose" -> [f EXCEPT !.index = j.index, !.buffer = j.action.n]
          [] j.cmd = "fund" -> [f EXCEPT !.index = j.index, !.kind = "fund"]
          [] j.cmd = "execute" -> [f EXCEPT !.executed = TRUE]
          [] OTHER -> f
Save(d) ==
    /\ at[d] = "landed" /\ job[d].cmd \in {"propose", "fund", "approve", "execute"}
    /\ file' = [file EXCEPT ![job[d].tag] = Saved(job[d])]
    /\ meant' = IF job[d].cmd \in {"propose", "fund"}
                THEN [meant EXCEPT ![job[d].tag] = job[d].action] ELSE meant
    /\ Stop(d)
    /\ UNCHANGED <<chain, net>>
EndExtend(d) ==
    /\ at[d] = "landed" /\ job[d].cmd = "extend"
    /\ Stop(d)
    /\ UNCHANGED <<chain, file, meant, net>>

----------------------------------------------------------------------------
(* squads-timelock.ts and squads-rotate.ts: create (and A's vote), B's vote,*)
(* execution; a later run resumes the latest proposal.                      *)

Resumable(cmd) ==
    /\ ms.index > ms.stale
    /\ prop[ms.index].status \in (IF cmd = "lock" THEN {"Active"} ELSE {"Active", "Approved"})

\* The comment takes the latest proposal for the script's own; being careful makes it so.
Undisturbed(a) == Careful => \A i \in Index : Live(i) => i = ms.index /\ prop[i].action = a

Change(d, cmd, act, a, b) ==
    /\ at[d] = "idle"
    /\ {a, b} \subseteq ms.members /\ a # b
    /\ Undisturbed(act)
    /\ LET j == [Run(d, cmd, "-") EXCEPT !.action = act, !.by = b]
       IN  \/ /\ Resumable(cmd)
              /\ at' = [at EXCEPT ![d] = "voting"]
              /\ job' = [job EXCEPT ![d] = [j EXCEPT !.index = ms.index, !.seen = prop[ms.index].approved]]
              /\ UNCHANGED net
           \/ /\ ~Resumable(cmd) /\ ms.index < MaxIndex
              /\ Send(d, [j EXCEPT !.index = ms.index + 1], Tx(d, "create", a, ms.index + 1, act))
    /\ UNCHANGED <<chain, file, meant>>

ChangeLock(d, n, a, b) == n # ms.timeLock /\ Change(d, "lock", SetLock(n), a, b)

Rotate(d, o, n, a, b) ==
    /\ o \in ms.members /\ n \notin ms.members
    /\ Cardinality(ms.members) = 3 /\ ms.threshold = 2
    /\ Change(d, "rotate", Replace(o, n), a, b)

IsChange(d) == job[d].cmd \in {"lock", "rotate"}

\* B votes unless B had when the script read the proposal.
Vote(d) ==
    LET j == job[d]
    IN  /\ IsChange(d)
        /\ at[d] = "voting" \/ (at[d] = "landed" /\ j.seen = {})
        /\ IF j.by \in j.seen
           THEN at' = [at EXCEPT ![d] = "releasing"] /\ UNCHANGED <<job, net>>
           ELSE Send(d, [j EXCEPT !.seen = @ \union {j.by}], Tx(d, "approve", j.by, j.index, j.action))
        /\ UNCHANGED <<chain, file, meant>>

\* The rotation waits for another run while the time lock runs; the other script does not look.
Release(d) ==
    LET j == job[d]
        p == prop[j.index]
    IN  /\ IsChange(d)
        /\ at[d] = "releasing" \/ (at[d] = "landed" /\ j.by \in j.seen)
        /\ IF j.cmd = "rotate" /\ p.status = "Approved" /\ p.age < ms.timeLock
           THEN Stop(d) /\ UNCHANGED net
           ELSE Send(d, [j EXCEPT !.cmd = "change"], Tx(d, "config", j.by, j.index, NoAction))
        /\ UNCHANGED <<chain, file, meant>>

EndChange(d) ==
    /\ at[d] = "landed" /\ job[d].cmd = "change"
    /\ Stop(d)
    /\ UNCHANGED <<chain, file, meant, net>>

----------------------------------------------------------------------------
(* The chain, the loader, the deployer's own shell, and what may go wrong.  *)

CanUpgrade(b) == b # 0 /\ buf[b].auth = "vault" /\ buf[b].code \in SOs /\ Size[buf[b].code] <= capacity

Landable(x) ==
    CASE x.op = "create" -> CanCreate(x.by, x.index)
      [] x.op = "approve" -> CanApprove(x.by, x.index)
      [] x.op = "execute" ->
            /\ CanExecute(x.by, x.index) /\ ~IsConfig(prop[x.index].action)
            /\ prop[x.index].action.kind = "upgrade" => CanUpgrade(prop[x.index].action.n)
      [] x.op = "config" -> CanConfigure(x.by, x.index)
      [] x.op = "extend" -> purse >= x.n

Leaves(x) == net' = net \ {x}
Answer(x, how) == at' = IF x.desk = Nobody THEN at ELSE [at EXCEPT ![x.desk] = how]

LandVote(x) ==
    /\ x.op \in {"create", "approve"} /\ Landable(x)
    /\ IF x.op = "create" THEN Created(x.by, x.index, x.action) ELSE Approved(x.by, x.index)
    /\ Leaves(x) /\ Answer(x, "landed")
    /\ UNCHANGED <<code, capacity, buf, purse, file, meant, job>>

\* A transfer is paid out; an upgrade deploys the buffer and closes it.
LandExecution(x) ==
    LET a == prop[x.index].action
    IN  /\ x.op = "execute" /\ Landable(x)
        /\ Executed(x.index) /\ UNCHANGED ms
        /\ IF a.kind = "fund"
           THEN purse' = purse + Grant /\ UNCHANGED <<code, buf>>
           ELSE /\ code' = buf[a.n].code
                /\ buf' = [buf EXCEPT ![a.n] = [code |-> "none", auth |-> "closed"]]
                /\ UNCHANGED purse
        /\ Leaves(x) /\ Answer(x, "landed")
        /\ UNCHANGED <<capacity, file, meant, job>>

LandChange(x) ==
    /\ x.op = "config" /\ Landable(x)
    /\ Configured(x.index)
    /\ Leaves(x) /\ Answer(x, "landed")
    /\ UNCHANGED <<code, capacity, buf, purse, file, meant, job>>

LandExtension(x) ==
    /\ x.op = "extend" /\ Landable(x)
    /\ capacity' = capacity + x.n /\ purse' = purse - x.n
    /\ Leaves(x) /\ Answer(x, "landed")
    /\ UNCHANGED <<squads, code, buf, file, meant, job>>

Drop(x) ==
    /\ Leaves(x)
    /\ IF x.desk = Nobody THEN UNCHANGED desk ELSE Stop(x.desk)
    /\ UNCHANGED <<chain, file, meant>>
\* confirmTransaction does not throw when the execution it waits for has landed and failed:
\* it is saved like one that succeeded.
FailsUnnoticed(x) ==
    /\ x.op = "execute"
    /\ Leaves(x) /\ Answer(x, "landed")
    /\ UNCHANGED <<chain, file, meant, job>>
Refuse(x) == ~Landable(x) /\ (Drop(x) \/ FailsUnnoticed(x))
Expire(x) == Landable(x) /\ Drop(x)

\* The script is killed, or stops waiting for a transaction that may still land.
Lose(d) ==
    LET mine == {x \in net : x.desk = d}
        orphans == {[x EXCEPT !.desk = Nobody] : x \in mine}
    IN  /\ at[d] # "idle"
        /\ Cardinality({x \in net : x.desk = Nobody} \union orphans) <= MaxLost
        /\ net' = (net \ mine) \union orphans
        /\ Stop(d)
        /\ UNCHANGED <<chain, file, meant>>

\* The deployer may write to a buffer until its authority is handed over.
Rewrite(b, so) ==
    /\ buf[b].auth = "payer" /\ buf[b].code # so
    /\ buf' = [buf EXCEPT ![b].code = so]
    /\ UNCHANGED <<squads, code, capacity, purse, file, meant, desk, net>>

\* A tick is longer than a transaction can be under way.
Pass(i) ==
    /\ net = {} /\ Tick(i)
    /\ UNCHANGED <<code, capacity, buf, purse, file, meant, desk, net>>

Next ==
    \/ \E d \in Desks :
        \/ \E tag \in UpgradeTags, so \in SOs, b \in Buffer :
             StartBuffer(d, tag, so, b) \/ \E m \in ms.members : Propose(d, tag, so, b, m)
        \/ \E tag \in Tags, m \in ms.members :
             \/ tag \in FundTags /\ Fund(d, tag, m)
             \/ Approve(d, tag, m)
             \/ \E so \in SOs : Execute(d, tag, so, m)
        \/ \E so \in SOs : Extend(d, so)
        \/ \E a, b \in ms.members :
             \/ \E n \in Locks : ChangeLock(d, n, a, b)
             \/ \E r \in Rotations : Rotate(d, r[1], r[2], a, b)
        \/ WriteBuffer(d) \/ HandOver(d) \/ Save(d) \/ EndExtend(d)
        \/ Vote(d) \/ Release(d) \/ EndChange(d) \/ Lose(d)
    \/ \E x \in net :
        LandVote(x) \/ LandExecution(x) \/ LandChange(x) \/ LandExtension(x) \/ Refuse(x) \/ Expire(x)
    \/ \E b \in Buffer, so \in SOs : Rewrite(b, so)
    \/ \E i \in Index : Pass(i)

Spec == Init /\ [][Next]_vars

----------------------------------------------------------------------------
(* Properties.                                                              *)

TypeOK ==
    /\ SquadsTypes(Action)
    /\ code \in SOs /\ capacity \in Nat /\ purse \in Nat
    /\ buf \in [Buffer -> [code: SOs \union {"none", "partial"}, auth: {"none", "payer", "vault", "closed"}]]
    /\ file \in [Tags -> [index: 0..MaxIndex, kind: {"none", "fund"}, buffer: 0..MaxBuffer, executed: BOOLEAN]]
    /\ meant \in [Tags -> Action \union {NoAction}]
    /\ at \in [Desks -> {"idle", "writing", "handing", "waiting", "landed", "voting", "releasing"}]

\* Members vote on the memo "qc-vault upgrade sha256 ..." of a proposal (upgrade.ts 15 and
\* 210).  Whenever a proposal replaces the program, the deployed build is that of the memo,
\* whatever was uploaded, rewritten, proposed or lost in between.
DeployedAsVoted ==
    [][code' # code =>
        \E i \in Index : /\ prop[i].status = "Approved" /\ prop'[i].status = "Executed"
                         /\ prop[i].action.what = code']_vars

\* A vote on its way is for the action that its member was asked to approve: indices are
\* predicted before the transaction lands, saved after it, and taken over by later runs
\* (upgrade.ts 176, 193, 206 and 226; squads-timelock.ts 27-33).
VotesAsMeant ==
    \A x \in net : x.op = "approve" => prop[x.index].action = x.action

\* One transfer per TAG, although a fund run that lost its answer is started again and
\* members approve and execute whatever the file says (upgrade.ts 168-194).
FundedOnce ==
    \A i, j \in Index : /\ prop[i].status = "Executed" /\ prop[j].status = "Executed"
                        /\ prop[i].action.kind = "fund" /\ prop[i].action = prop[j].action
                        => i = j
=============================================================================
