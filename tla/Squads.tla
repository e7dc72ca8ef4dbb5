--------------------------------- MODULE Squads ---------------------------------
(***************************************************************************)
(* The Squads v4 multisig as the clients use it (squads.ts, upgrade.ts,    *)
(* squads-timelock.ts, squads-rotate.ts): numbered proposals, approvals up *)
(* to a threshold, a time lock, and staleness.  A proposal is created,     *)
(* opened and approved by its creator in one transaction.                  *)
(*                                                                         *)
(* Time is the age of an approval in ticks, which stops at MaxAge.         *)
(***************************************************************************)
EXTENDS Naturals, FiniteSets

CONSTANTS
    People,     \* everybody who may ever be a member
    Founders,   \* MEMBERS of squads.ts
    Threshold,  \* THRESHOLD of squads.ts
    MaxIndex,   \* bound: so many proposals
    MaxAge      \* bound: no time lock is longer

Index == 1..MaxIndex
\* What a proposal does: an upgrade from buffer n to the build what, a transfer for
\* the TAG what, time lock n, member new for member old.
NoAction == [kind |-> "none", n |-> 0, what |-> "-", old |-> "-", new |-> "-"]
NoProposal == [action |-> NoAction, status |-> "None", approved |-> {}, age |-> 0]

VARIABLES
    ms,    \* the multisig account
    prop   \* its proposals

squads == <<ms, prop>>

SquadsInit ==
    /\ ms = [members |-> Founders, threshold |-> Threshold, timeLock |-> 0, index |-> 0, stale |-> 0]
    /\ prop = [i \in Index |-> NoProposal]

SquadsTypes(Action) ==
    /\ ms \in [members: SUBSET People, threshold: Nat, timeLock: 0..MaxAge,
               index: 0..MaxIndex, stale: 0..MaxIndex]
    /\ prop \in [Index -> [action: Action \union {NoAction},
                          status: {"None", "Active", "Approved", "Executed"},
                          approved: SUBSET People, age: 0..MaxAge]]

Voted(p, m) ==
    LET all == p.approved \union {m}
    IN  [p EXCEPT !.approved = all,
                  !.status = IF Cardinality(all) >= ms.threshold THEN "Approved" ELSE "Active"]

\* The account address fixes the index: whoever comes second with it fails.
CanCreate(m, i) == m \in ms.members /\ i = ms.index + 1
Created(m, i, a) ==
    /\ prop' = [prop EXCEPT ![i] = Voted([NoProposal EXCEPT !.action = a], m)]
    /\ ms' = [ms EXCEPT !.index = i]

CanApprove(m, i) ==
    m \in ms.members \ prop[i].approved /\ prop[i].status = "Active" /\ i > ms.stale
Approved(m, i) ==
    /\ prop' = [prop EXCEPT ![i] = Voted(@, m)]
    /\ UNCHANGED ms

CanExecute(m, i) ==
    m \in ms.members /\ prop[i].status = "Approved" /\ prop[i].age >= ms.timeLock
Executed(i) == prop' = [prop EXCEPT ![i].status = "Executed"]

\* A configuration change makes every earlier proposal stale: no more votes on it, and
\* no execution if it is a configuration change itself.
IsConfig(a) == a.kind \in {"lock", "rotate"}
CanConfigure(m, i) ==
    LET a == prop[i].action
    IN  /\ CanExecute(m, i) /\ i > ms.stale /\ IsConfig(a)
        /\ a.kind = "rotate" => a.old \in ms.members /\ a.new \notin ms.members
Configured(i) ==
    LET a == prop[i].action
    IN  /\ Executed(i)
        /\ ms' = IF a.kind = "lock"
                 THEN [ms EXCEPT !.timeLock = a.n, !.stale = ms.index]
                 ELSE [ms EXCEPT !.members = (@ \union {a.new}) \ {a.old}, !.stale = ms.index]

Tick(i) ==
    /\ prop[i].status = "Approved" /\ prop[i].age < MaxAge
    /\ prop' = [prop EXCEPT ![i].age = @ + 1]
    /\ UNCHANGED ms

\* A proposal that can still change something.
Live(i) ==
    \/ prop[i].status = "Active" /\ i > ms.stale
    \/ prop[i].status = "Approved" /\ (IsConfig(prop[i].action) => i > ms.stale)
=============================================================================
