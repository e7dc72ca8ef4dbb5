------------------------------- MODULE Executor -------------------------------
(***************************************************************************)
(* The executors that run approved proposals unattended (run-ra-day1.sh,   *)
(* exec-v3.sh): a sequence of stages, each with a bounded number of        *)
(* attempts, that runs the commands of upgrade.ts at a desk of its own.    *)
(* Other people may work beside it, and whoever looks after it starts it   *)
(* once more for everything that went wrong.                               *)
(***************************************************************************)
EXTENDS Upgrade, Sequences, TLC

CONSTANTS
    Robot,                \* the desk of the script
    Key,                  \* MEMBER, the member whose key it holds
    First, Second, Main,  \* the TAGs of the two transfers and of the upgrade
    New,                  \* SO, the build to be deployed
    Tries,                \* attempts of run_proposal
    MaxFaults             \* bound: so much goes wrong

ASSUME ExecutorAssumption ==
    /\ Robot \in Desks
    /\ FundTags = {First, Second} /\ First # Second /\ UpgradeTags = {Main}
    /\ New \in SOs \ {Genesis} /\ Key \in Founders
    /\ Tries \in Nat /\ MaxFaults \in Nat

VARIABLES
    script,  \* the stages
    stage,   \* the stage it is at; 0: it does not run
    tries,   \* attempts made in this stage
    starts,  \* times it was started
    faults   \* things that went wrong

robot == <<script, stage, tries, starts, faults>>
allvars == <<vars, robot>>

\* A stage that fails, after its tries or when the extension is not confirmed, ends the script
\* if it must succeed; otherwise the script warns and goes on.
RunStage(tag, must) == [cmd |-> "run", tag |-> tag, must |-> must]
ExtendStage(must) == [cmd |-> "extend", tag |-> Main, must |-> must]
Day1Early ==  \* for a mutant run: no extension after the second transfer
    << RunStage(First, FALSE), ExtendStage(TRUE), RunStage(Second, FALSE), RunStage(Main, TRUE) >>
Day1 == << RunStage(First, FALSE), ExtendStage(FALSE),
           RunStage(Second, FALSE), ExtendStage(TRUE), RunStage(Main, TRUE) >>
V3 == << RunStage(Main, TRUE) >>

\* The upgrade is approved and its buffer handed over; the transfers are approved, still
\* lack votes, or are executed; what they bring covers the extension.  An earlier upgrade
\* may have extended already, as the script that never extends expects.
ExecutorInit ==
    LET fund == <<First, Second>>
        two == CHOOSE s \in SUBSET Founders : Key \in s /\ Cardinality(s) = Threshold
        open(a, s) == [action |-> a, status |-> s, approved |-> IF s = "Active" THEN {Key} ELSE two, age |-> 0]
    IN  /\ \E lock \in 0..MaxAge :
             ms = [members |-> Founders, threshold |-> Threshold, timeLock |-> lock, index |-> 3, stale |-> 0]
        /\ \E status \in [1..2 -> {"Active", "Approved", "Executed"}], age \in [1..3 -> 0..MaxAge] :
             /\ age[1] >= age[2] /\ age[2] >= age[3]
             /\ prop = [i \in Index |->
                  CASE i \in 1..2 -> [open(FundFor(fund[i]), status[i]) EXCEPT
                                        !.age = IF status[i] = "Active" THEN 0 ELSE age[i]]
                    [] i = 3 -> [open(UpgradeFrom(1, New), "Approved") EXCEPT !.age = age[3]]
                    [] OTHER -> NoProposal]
        /\ code = Genesis /\ capacity \in {Size[Genesis], Size[New]}
        /\ buf = [b \in Buffer |-> IF b = 1 THEN [code |-> New, auth |-> "vault"]
                                            ELSE [code |-> "none", auth |-> "none"]]
        /\ purse \in 0..Purse
        /\ purse + Grant * Cardinality({i \in 1..2 : prop[i].status = "Approved"}) >= Extra(New)
        /\ file = (First :> [NoFile EXCEPT !.index = 1, !.kind = "fund"] @@
                   Second :> [NoFile EXCEPT !.index = 2, !.kind = "fund"] @@
                   Main :> [NoFile EXCEPT !.index = 3, !.buffer = 1])
        /\ meant = [t \in Tags |-> prop[file[t].index].action]
        /\ at = [d \in Desks |-> "idle"] /\ job = [d \in Desks |-> NoJob] /\ net = {}
        /\ script \in (IF Extra(New) = 0 THEN {Day1, V3} ELSE {Day1})
        /\ stage = 0 /\ tries = 0 /\ starts = 0 /\ faults = 0

----------------------------------------------------------------------------
(* The script.                                                              *)

Running == stage \in 1..Len(script)
Now == script[stage]
Free == at[Robot] = "idle"

GoTo(n) == stage' = n /\ tries' = 0
Attempt == tries' = tries + 1 /\ UNCHANGED stage
Fails == GoTo(IF Now.must THEN 0 ELSE stage + 1)

Deployed == code = New
Proposed(tag) == prop[file[tag].index]

\* run_proposal asks the chain whether the upgrade is deployed or the proposal is executed;
\* exec-v3.sh asks only the former.
Done(tag) ==
    \/ tag = Main /\ Deployed
    \/ script # V3 /\ Proposed(tag).status = "Executed"

\* ra-status.ts: release is a day after the approval, whatever the time lock is.
Released(tag) == Proposed(tag).status = "Approved" /\ Proposed(tag).age = MaxAge

\* What goes wrong may cost the run in which it happens and, when a transaction lands late,
\* the next one.
Start ==
    /\ stage = 0 /\ Free /\ starts <= 2 * faults
    /\ GoTo(1) /\ starts' = starts + 1
    /\ UNCHANGED <<vars, script, faults>>

FindDone ==
    /\ Running /\ Free /\ Now.cmd = "run" /\ tries < Tries /\ Done(Now.tag)
    /\ GoTo(stage + 1)
    /\ UNCHANGED <<vars, script, starts, faults>>

\* One attempt: it executes after the release and sleeps before it; a proposal that lacks
\* votes is refused by the command or slept over.
TryRun ==
    LET tag == Now.tag
    IN  /\ Running /\ Free /\ Now.cmd = "run" /\ tries < Tries /\ ~Done(tag)
        /\ \/ Released(tag) /\ Execute(Robot, tag, New, Key)
           \/ Released(tag) /\ ~Ready(tag, New, Key) /\ UNCHANGED vars
           \/ ~Released(tag) /\ Pass(file[tag].index)
           \/ Proposed(tag).status # "Approved" /\ UNCHANGED vars
        /\ Attempt
        /\ UNCHANGED <<script, starts, faults>>

\* The loop ends; exec-v3.sh looks once more.
GiveUp ==
    /\ Running /\ Free /\ Now.cmd = "run" /\ tries = Tries
    /\ IF script = V3 /\ Deployed THEN GoTo(stage + 1) ELSE Fails
    /\ UNCHANGED <<vars, script, starts, faults>>

TryExtend ==
    /\ Running /\ Free /\ Now.cmd = "extend" /\ tries = 0
    /\ IF Extra(New) = 0
       THEN GoTo(stage + 1) /\ UNCHANGED vars
       ELSE Extend(Robot, New) /\ Attempt
    /\ UNCHANGED <<script, starts, faults>>
FailExtend ==
    /\ Running /\ Free /\ Now.cmd = "extend" /\ tries = 1
    /\ Fails
    /\ UNCHANGED <<vars, script, starts, faults>>

\* The command ends well.
EndCommand ==
    \/ Save(Robot) /\ UNCHANGED robot
    \/ EndExtend(Robot) /\ GoTo(stage + 1) /\ UNCHANGED <<script, starts, faults>>

ScriptStep == Start \/ FindDone \/ TryRun \/ GiveUp \/ TryExtend \/ FailExtend \/ EndCommand

----------------------------------------------------------------------------
(* What goes wrong, and who works beside the script.                        *)

Fault ==
    /\ faults < MaxFaults /\ faults' = faults + 1
    /\ UNCHANGED <<script, starts>>

\* A call is not answered: ra-status.ts prints nothing, or the command ends.
Unanswered ==
    /\ Running /\ Free /\ tries < (IF Now.cmd = "run" THEN Tries ELSE 1)
    /\ Attempt /\ Fault
    /\ UNCHANGED vars

\* Killed with its command, or only the command ends.
Kill == Running /\ Free /\ GoTo(0) /\ Fault /\ UNCHANGED vars
LoseCommand ==
    /\ Lose(Robot) /\ Fault
    /\ GoTo(0) \/ UNCHANGED <<stage, tries>>

\* Nobody counts a transaction that no command of the script waits for.
NeverLands(x) ==
    /\ Expire(x)
    /\ IF x.desk = Robot THEN Fault /\ UNCHANGED <<stage, tries>> ELSE UNCHANGED robot

\* Somebody executes or extends by hand.
ByHand(d) ==
    /\ d # Robot
    /\ Extend(d, New) \/ \E tag \in Tags, m \in ms.members : Execute(d, tag, New, m)
    /\ Fault /\ UNCHANGED <<stage, tries>>
GoOn(d) ==
    /\ d # Robot
    /\ Save(d) \/ EndExtend(d)
    /\ UNCHANGED robot

Settle(x) ==
    /\ LandExecution(x) \/ LandExtension(x) \/ Refuse(x)
    /\ UNCHANGED robot

ExecutorNext ==
    \/ ScriptStep
    \/ Unanswered \/ Kill \/ LoseCommand
    \/ \E d \in Desks : ByHand(d) \/ GoOn(d)
    \/ \E x \in net : Settle(x) \/ NeverLands(x)
    \/ \E i \in Index : Pass(i) /\ UNCHANGED robot

\* The script goes on and is started again; what was sent lands, is refused or expires.
ExecutorSpec ==
    /\ ExecutorInit /\ [][ExecutorNext]_allvars
    /\ WF_allvars(ScriptStep)
    /\ WF_allvars(\E x \in net : Settle(x))

----------------------------------------------------------------------------
(* Properties.                                                              *)

\* The funded and approved upgrade is deployed at last.  The stages come in such an order,
\* and the attempts wait so long, that transfer, extension and upgrade do not wait for one
\* another in vain (run-ra-day1.sh 23-43, exec-v3.sh 24-32).  The chain is asked, and not the
\* state file, so that starting the script again makes up for whatever went wrong.
UpgradeIsDeployed == <>Deployed

\* "Every step checks chain state first, so the script can be re-run safely."
\* (run-ra-day1.sh 8): the deployer pays for an extension only while the build does not fit.
ExtendedOnce == [][capacity' # capacity => capacity < Size[New]]_allvars
=============================================================================
