------------------------------- MODULE MCTreasury -------------------------------
(***************************************************************************)
(* Treasury with one allocation, a bench with one parallel vault, and      *)
(* payments that are legal, too large, or rivals on one vault.  The        *)
(* constants of MCTreasury.cfg, and of the violations README.md describes. *)
(***************************************************************************)
EXTENDS Treasury

AtHome == [t \in Terminals |-> "home"]
HomeAndCloud == [t \in Terminals |-> IF t = "cloud terminal" THEN "cloud" ELSE "home"]

T == <<"t1", "t2">>
Allocate == AllocateScript("genesis", 0, T, <<<<"a1", 2>>>>)
Bench == BenchScript("t1", "t2", <<"c1", "c2">>, <<"p1">>)
Presign == PresignScript("t1", "t2", <<"c1", "c2">>, <<"p1">>)
PayAll == SpendScript("a1", "n1", "payer", 2)
PayFromPurse == SpendScript("t1", "t2", "payer", 2)
PayShipped == SpendScript("p1", "t2", "a1", 1)
Bounty == BountyScript("a1", "n1", 1)
PayIntoItself == SpendScript("a1", "a1", "payer", 1)
BountyTooMuch == BountyScript("a1", "n1", 3)

Life == [t \in Terminals |->
    IF t = "cloud terminal" THEN {Bench} ELSE {Allocate, Presign, Bench, PayFromPurse}]
SpentAtHome == [t \in Terminals |-> IF t = "cloud terminal" THEN {Bench} ELSE {Allocate, Presign, PayShipped}]
Rivals == [t \in Terminals |-> {Allocate, PayAll, Bounty}]
Itself == [t \in Terminals |-> {Allocate, PayIntoItself}]
TooMuch == [t \in Terminals |-> {Allocate, BountyTooMuch}]

\* The runs of a whole life are within what the theorems of TreasuryProofs suppose.
ASSUME LifeIsOrderly ==
    Scripts = Life /\ Careful => OneTerminal /\ Presign \in Scripts["home terminal"] /\ Ships(Presign) /\ Cautious
=============================================================================
