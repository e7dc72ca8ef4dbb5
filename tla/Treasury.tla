-------------------------------- MODULE Treasury --------------------------------
(***************************************************************************)
(* The command-line client: key files, the one-time rule of spendIxs and   *)
(* the scripts that move the supply (client/qc.ts, genesis.ts, spend.ts,   *)
(* allocate.ts, bounty.ts, mainnet-bench.ts, presign-bench.ts,             *)
(* return-prep.ts, launch-pool.ts, claim-fees.ts).                         *)
(*                                                                         *)
(* A script that spends is a sequence of steps: load or make the keys,     *)
(* check, sign, wait.  A terminal runs one script at a time in its key     *)
(* directory; it may be killed or lose an answer anywhere and be started   *)
(* again.  The chain is that of module QcVault: one spend per vault.       *)
(***************************************************************************)
EXTENDS Naturals, Sequences, FiniteSetsExt, Functions

CONSTANTS
    Terminals,
    Dir,       \* the key directory of each terminal: "home" or "cloud"
    Scripts,   \* the invocations of each terminal: [cmd, names, steps], see below
    Careful,   \* scripts without checkSpend are started on a vault that holds the amount
    Supply,
    PoolQc,    \* QC_BASE of launch-pool.ts
    Treasuries, Allocations, Benches, Returns,   \* names of key files, besides genesis and bounty
    MaxGen,    \* bound: keys ever generated under one name
    MaxFee     \* bound: what trading adds to the fees

ASSUME TreasuryAssumption ==
    /\ Dir \in [Terminals -> {"home", "cloud"}]
    /\ Supply \in Nat \ {0} /\ PoolQc \in Nat /\ MaxGen \in Nat \ {0} /\ MaxFee \in Nat
    /\ \A names \in {Treasuries, Allocations, Benches, Returns} : IsFiniteSet(names)

Name == {"genesis", "bounty"} \union Treasuries \union Allocations \union Benches \union Returns
Dirs == {"home", "cloud"}

\* A vault is fixed by its keys: the n-th generated under a name.  The payer is a plain wallet.
Vault == Name \X (1..MaxGen)
Payer == <<"payer", 0>>
Party == Vault \union {Payer}
Digest == [vault: Vault, dest: Party, refund: Vault, amount: Nat]
NoDigest == [vault |-> Payer, dest |-> Payer, refund |-> Payer, amount |-> 0]

\* A key file: which keys, the digest recorded, and whether the WOTS master is in it.
File == [gen: 0..MaxGen, signed: Digest \union {NoDigest}, master: BOOLEAN]
NoFile == [gen |-> 0, signed |-> NoDigest, master |-> FALSE]

----------------------------------------------------------------------------
(* The scripts as data.                                                     *)

Step(f, d, r, n, c) == [from |-> f, dest |-> d, refund |-> r, amount |-> n, checked |-> c]

\* names: the vaults a script loads or makes before its first step.
SpendScript(f, next, d, n) == [cmd |-> "spend", names |-> {}, steps |-> <<Step(f, d, next, n, TRUE)>>]
BountyScript(f, next, n) == [cmd |-> "spend", names |-> {}, steps |-> <<Step(f, "bounty", next, n, FALSE)>>]

\* allocate.ts: one spend per allocation, from treasury to treasury, FROM being number t.
AllocateScript(f, t, treasury, plan) ==
    [cmd |-> "spend", names |-> {},
     steps |-> [i \in DOMAIN plan |->
        Step(IF i = 1 THEN f ELSE treasury[t + i - 1], plan[i][1], treasury[t + i], plan[i][2], FALSE)]]

\* mainnet-bench.ts: the treasury funds a chain, whose i-th vault funds parallel vault i; then
\* these pay back to the payer.  It makes whatever file is missing, that of the treasury too.
BenchSteps(f, next, c, p) ==
    LET P == Len(p)
    IN  [i \in 1..(2 * P + 1) |->
          IF i = 1 THEN Step(f, c[1], next, P + 1, TRUE)
          ELSE IF i <= P + 1 THEN Step(c[i - 1], p[i - 1], c[i], 1, TRUE)
          ELSE Step(p[i - P - 1], "payer", next, 1, TRUE)]
BenchScript(f, next, c, p) ==
    [cmd |-> "spend", names |-> {f} \union Range(c) \union Range(p), steps |-> BenchSteps(f, next, c, p)]
PresignScript(f, next, c, p) ==
    [cmd |-> "presign", names |-> Range(c) \union Range(p), steps |-> <<BenchSteps(f, next, c, p)[1]>>]
NoScript == [cmd |-> "none", names |-> {}, steps |-> <<>>]

Plan == [from: Name, dest: Name \union {"payer"}, refund: Name, amount: Nat, checked: BOOLEAN]
Script == [cmd: {"spend", "presign"}, names: SUBSET Name, steps: Seq(Plan) \ {<<>>}]

ASSUME ScriptsAssumption == Scripts \in [Terminals -> SUBSET Script]

VARIABLES
    file,     \* the key files of each directory
    at, job,  \* each terminal's script
    held,     \* tokens of each vault and of the payer
    spent,    \* the digest that emptied each vault
    net,      \* spends under way
    mints,    \* mints created, and how many of them were minted and closed for ever
    pool,     \* tokens locked in the pool (0: no pool yet)
    fees,     \* of the pool position: unclaimed, at the Squads vault, left with the payer
    claims,   \* claims under way: the fee each read
    sent      \* history: digests whose signature left the machine

tokens == <<held, spent, mints>>
market == <<pool, fees, claims>>
vars == <<file, at, job, tokens, net, market, sent>>

NoJob == [script |-> NoScript, k |-> 1, mine |-> NoFile, dest |-> Payer, refund |-> Payer, fee |-> 0]

Init ==
    /\ file = [d \in Dirs |-> [n \in Name |-> NoFile]]
    /\ at = [t \in Terminals |-> "idle"]
    /\ job = [t \in Terminals |-> NoJob]
    /\ held = [p \in Party |-> 0]
    /\ spent = [v \in Vault |-> NoDigest]
    /\ net = {} /\ sent = {}
    /\ mints = [created |-> 0, closed |-> 0]
    /\ pool = 0 /\ claims = {}
    /\ fees = [open |-> 0, squads |-> 0, kept |-> 0]

This(t) == job[t].script.steps[job[t].k]
Goto(t, place) == at' = [at EXCEPT ![t] = place]
Stop(t) == Goto(t, "idle") /\ job' = [job EXCEPT ![t] = NoJob]

----------------------------------------------------------------------------
(* Keys: vaultExists, loadVault, newVault, saveVault.                       *)

NeverExists(f) == FALSE  \* for a mutant run
Exists(f) == f.gen # 0

\* Every run makes fresh keys, also for a name that had keys before.
LastGen(n) == Max({file[d][n].gen : d \in Dirs} \union {0})
Fresh(n) == [gen |-> LastGen(n) + 1, signed |-> NoDigest, master |-> TRUE]
NewVault(t, n) ==
    /\ LastGen(n) < MaxGen
    /\ file' = [file EXCEPT ![Dir[t]][n] = Fresh(n)]

Funded(d, step) == Exists(file[d][step.from]) /\ held[<<step.from, file[d][step.from].gen>>] >= step.amount

\* The scripts need MINT, which genesis.ts prints at its end.
Start(t, s) ==
    /\ at[t] = "idle" /\ mints.closed > 0
    /\ s.cmd = "presign" => Dir[t] = "home"
    /\ Careful /\ ~s.steps[1].checked => Funded(Dir[t], s.steps[1])
    /\ job' = [job EXCEPT ![t] = [NoJob EXCEPT !.script = s]]
    /\ Goto(t, "from")
    /\ UNCHANGED <<file, tokens, net, market, sent>>

\* What is missing is made one by one; a script killed in between leaves fewer to the next run.
GetNames(t) ==
    LET missing == {n \in job[t].script.names : ~Exists(file[Dir[t]][n])}
    IN  /\ at[t] = "from" /\ missing # {}
        /\ \A n \in missing : LastGen(n) < MaxGen
        /\ file' = [file EXCEPT ![Dir[t]] = [n \in Name |-> IF n \in missing THEN Fresh(n) ELSE @[n]]]
        /\ UNCHANGED <<at, job, tokens, net, market, sent>>

\* The spending vault is loaded; without a file the script ends (Throw).  One that a bench just
\* made holds nothing, and checkSpend refuses it.
LoadFrom(t) ==
    /\ at[t] = "from" /\ \A n \in {This(t).from} \union job[t].script.names : Exists(file[Dir[t]][n])
    /\ job' = [job EXCEPT ![t].mine = file[Dir[t]][This(t).from]]
    /\ Goto(t, "dest")
    /\ UNCHANGED <<file, tokens, net, market, sent>>

\* Receiving vaults are loaded, or made if there is no file: newVault's last test and its
\* write are two steps.
Get(t, role, missing, n, after) ==
    \/ /\ at[t] = role /\ Exists(file[Dir[t]][n])
       /\ job' = [job EXCEPT ![t] = IF role = "dest" THEN [@ EXCEPT !.dest = <<n, file[Dir[t]][n].gen>>]
                                    ELSE [@ EXCEPT !.refund = <<n, file[Dir[t]][n].gen>>]]
       /\ Goto(t, after)
       /\ UNCHANGED file
    \/ /\ at[t] = role /\ ~Exists(file[Dir[t]][n])
       /\ Goto(t, missing)
       /\ UNCHANGED <<file, job>>
    \/ /\ at[t] = missing
       /\ NewVault(t, n)
       /\ job' = [job EXCEPT ![t] = IF role = "dest" THEN [@ EXCEPT !.dest = <<n, LastGen(n) + 1>>]
                                    ELSE [@ EXCEPT !.refund = <<n, LastGen(n) + 1>>]]
       /\ Goto(t, after)

GetDest(t) ==
    /\ at[t] \in {"dest", "dest missing"}
    /\ IF This(t).dest = "payer"
       THEN job' = [job EXCEPT ![t].dest = Payer] /\ Goto(t, "refund") /\ UNCHANGED file
       ELSE Get(t, "dest", "dest missing", This(t).dest, "refund")
    /\ UNCHANGED <<tokens, net, market, sent>>
\* In the cloud the next treasury is known by address only (TREASURY_NEXT_PDA).
GetRefund(t) ==
    /\ at[t] \in {"refund", "refund missing"}
    /\ IF Dir[t] = "cloud" /\ This(t).refund \in Treasuries
       THEN /\ Exists(file["home"][This(t).refund])
            /\ job' = [job EXCEPT ![t].refund = <<This(t).refund, file["home"][This(t).refund].gen>>]
            /\ Goto(t, "check")
            /\ UNCHANGED file
       ELSE Get(t, "refund", "refund missing", This(t).refund, "check")
    /\ UNCHANGED <<tokens, net, market, sent>>

\* return-prep.ts: a fresh vault, never an existing one.
ReturnPrep(t, n) ==
    /\ at[t] = "idle" /\ Dir[t] = "home" /\ mints.closed > 0
    /\ ~Exists(file[Dir[t]][n]) /\ NewVault(t, n)
    /\ UNCHANGED <<at, job, tokens, net, market, sent>>

----------------------------------------------------------------------------
(* checkSpend and spendIxs.                                                 *)

Mine(t) == <<This(t).from, job[t].mine.gen>>
Asked(t) ==
    [vault |-> Mine(t), dest |-> job[t].dest, refund |-> job[t].refund, amount |-> This(t).amount]

\* What the program accepts (module QcVault): no account twice, enough tokens, not spent.
Acceptable(d) ==
    /\ d.dest # d.refund /\ d.vault \notin {d.dest, d.refund}
    /\ d.amount <= held[d.vault]
    /\ spent[d.vault] = NoDigest

\* checkSpend: a recorded digest is let through; otherwise refuse what cannot land.  A spent
\* vault as recipient is refused too.  The refund is compared with the recipient only.
Unchecked(d) == d.dest # d.refund /\ d.vault # d.dest  \* for a mutant run
Checked(d) ==
    /\ d.amount > 0 /\ d.amount <= held[d.vault]
    /\ d.dest \notin {d.vault, d.refund}
    /\ \A v \in {d.vault, d.dest} \intersect Vault : spent[v] = NoDigest
Check(t) ==
    /\ at[t] = "check"
    /\ This(t).checked /\ job[t].mine.signed = NoDigest => Checked(Asked(t))
    /\ Goto(t, "sign")
    /\ UNCHANGED <<file, job, tokens, net, market, sent>>

\* The one-time rule, on the copy of the file that the script loaded.
NoRule(mine, d) == TRUE  \* for a mutant run
MaySign(mine, d) == mine.signed \in {NoDigest, d}

\* The digest is recorded before the signature exists; a signature made earlier for this
\* digest (presig) is used when the file has no master.
Sign(t) ==
    LET d == Asked(t)
    IN  /\ at[t] = "sign"
        /\ MaySign(job[t].mine, d)
        /\ file' = IF job[t].mine.signed = NoDigest
                   THEN [file EXCEPT ![Dir[t]][This(t).from] = [job[t].mine EXCEPT !.signed = d]]
                   ELSE file
        /\ sent' = sent \union {d}
        /\ IF job[t].script.cmd = "presign"
           THEN Goto(t, "copy") /\ UNCHANGED net
           ELSE Goto(t, "wait") /\ net' = net \union {d}
        /\ UNCHANGED <<job, tokens, market>>

\* presign-bench.ts: the signed vault goes out without its master, the bench vaults as they are.
Copy(t) ==
    LET from == This(t).from
    IN  /\ at[t] = "copy"
        /\ file' = [file EXCEPT !["cloud"] = [n \in Name |->
                IF n = from THEN [file["home"][from] EXCEPT !.master = FALSE]
                ELSE IF n \in job[t].script.names THEN file["home"][n] ELSE @[n]]]
        /\ Stop(t)
        /\ UNCHANGED <<tokens, net, market, sent>>

\* The spend is confirmed: on to the next step.
Landed(t) ==
    /\ at[t] = "wait" /\ spent[Mine(t)] = Asked(t)
    /\ IF job[t].k = Len(job[t].script.steps)
       THEN Stop(t)
       ELSE /\ job' = [job EXCEPT ![t].k = @ + 1]
            /\ Goto(t, "from")
    /\ UNCHANGED <<file, tokens, net, market, sent>>

\* Any error, and the end of the process.
Throw(t) ==
    /\ at[t] # "idle"
    /\ Stop(t)
    /\ UNCHANGED <<file, tokens, net, market, sent>>

Land(d) ==
    /\ d \in net /\ Acceptable(d)
    /\ spent' = [spent EXCEPT ![d.vault] = d]
    /\ held' = [held EXCEPT ![d.vault] = 0, ![d.dest] = @ + d.amount,
                            ![d.refund] = @ + held[d.vault] - d.amount]
    /\ net' = net \ {d}
    /\ UNCHANGED <<file, at, job, mints, market, sent>>
Expire(d) ==
    /\ d \in net
    /\ net' = net \ {d}
    /\ UNCHANGED <<file, at, job, tokens, market, sent>>

----------------------------------------------------------------------------
(* genesis.ts: keys, then the mint, then supply and revocation in one       *)
(* transaction.                                                             *)

Genesis(t) ==
    /\ at[t] = "idle" /\ Dir[t] = "home"
    /\ ~Exists(file[Dir[t]]["genesis"]) /\ NewVault(t, "genesis")
    /\ job' = [job EXCEPT ![t].dest = <<"genesis", LastGen("genesis") + 1>>]
    /\ Goto(t, "mint")
    /\ UNCHANGED <<tokens, net, market, sent>>
CreateMint(t) ==
    /\ at[t] = "mint"
    /\ mints' = [mints EXCEPT !.created = @ + 1]
    /\ Goto(t, "supply")
    /\ UNCHANGED <<file, job, held, spent, net, market, sent>>
MintSupply(t) ==
    /\ at[t] = "supply"
    /\ mints' = [mints EXCEPT !.closed = @ + 1]
    /\ held' = [held EXCEPT ![job[t].dest] = @ + Supply]
    /\ Stop(t)
    /\ UNCHANGED <<file, spent, net, market, sent>>

----------------------------------------------------------------------------
(* launch-pool.ts and claim-fees.ts.                                        *)

\* One transaction creates the pool and locks its liquidity.
LaunchPool(t) ==
    /\ at[t] = "idle" /\ Dir[t] = "home" /\ mints.closed > 0
    /\ pool = 0 /\ PoolQc > 0 /\ held[Payer] >= PoolQc
    /\ pool' = PoolQc
    /\ held' = [held EXCEPT ![Payer] = @ - PoolQc]
    /\ UNCHANGED <<file, at, job, spent, mints, net, fees, claims, sent>>

Trade ==
    /\ pool > 0 /\ fees.open + fees.squads + fees.kept < MaxFee
    /\ fees' = [fees EXCEPT !.open = @ + 1]
    /\ UNCHANGED <<file, at, job, tokens, net, pool, claims, sent>>

\* The fee is read, and the transaction built from it forwards exactly that much.
Claim(t) ==
    /\ at[t] = "idle" /\ Dir[t] = "home" /\ pool > 0
    /\ fees.open > 0
    /\ job' = [job EXCEPT ![t].fee = fees.open]
    /\ claims' = claims \union {fees.open}
    /\ Goto(t, "claim")
    /\ UNCHANGED <<file, tokens, net, pool, fees, sent>>

\* It claims whatever there is when it lands.  A transfer beyond that comes out of the payer's
\* own balance.
LandClaim(c) ==
    /\ c \in claims
    /\ c <= fees.open + fees.kept
    /\ fees' = [open |-> 0, squads |-> fees.squads + c, kept |-> fees.kept + fees.open - c]
    /\ claims' = claims \ {c}
    /\ at' = [t \in Terminals |-> IF at[t] = "claim" /\ job[t].fee = c THEN "idle" ELSE at[t]]
    /\ job' = [t \in Terminals |-> IF at[t] = "claim" /\ job[t].fee = c THEN NoJob ELSE job[t]]
    /\ UNCHANGED <<file, tokens, net, pool, sent>>
ExpireClaim(c) ==
    /\ c \in claims /\ claims' = claims \ {c}
    /\ UNCHANGED <<file, at, job, tokens, net, pool, fees, sent>>

\* verify-mainnet.ts: of one closed mint, what the listed vaults hold and what is outside add up
\* to the supply, and the liquidity is locked.
Listed == {v \in Vault : v[1] \notin Benches \union Returns}
Holdings(parties) == MapThenSumSet(LAMBDA p : held[p], parties)
Verified ==
    /\ mints.closed = 1
    /\ Holdings(Listed) + Holdings(Party \ Listed) + pool = Supply
    /\ pool \in {0, PoolQc}

----------------------------------------------------------------------------

Next ==
    \/ \E t \in Terminals :
        \/ \E s \in Scripts[t] : Start(t, s)
        \/ GetNames(t) \/ LoadFrom(t) \/ GetDest(t) \/ GetRefund(t) \/ Check(t) \/ Sign(t) \/ Copy(t)
        \/ Landed(t) \/ Throw(t)
        \/ \E n \in Returns : ReturnPrep(t, n)
        \/ Genesis(t) \/ CreateMint(t) \/ MintSupply(t)
        \/ LaunchPool(t) \/ Claim(t)
    \/ \E d \in net : Land(d) \/ Expire(d)
    \/ Trade
    \/ \E c \in claims : LandClaim(c) \/ ExpireClaim(c)

Spec == Init /\ [][Next]_vars

----------------------------------------------------------------------------
(* Ways of running the scripts under which the properties are proved.       *)

\* One terminal runs scripts in each key directory.
OneTerminal == \A t, u \in Terminals : Dir[t] = Dir[u] => t = u

\* What presign-bench.ts ships, s, and what the scripts do with it.  Those in the cloud need the
\* vaults shipped, start from the signed one, check, and pay among them.  Of no vault shipped do
\* two scripts want different things, be they at home or in the cloud: run-ra-day1.sh 45-54 runs
\* at home the very bench that the cloud runs.
Wanted(dirs) ==
    UNION {Range(p.steps) : p \in UNION {Scripts[t] : t \in {u \in Terminals : Dir[u] \in dirs}}}
Ships(s) ==
    /\ Len(s.steps) = 1 /\ s.steps[1].from \notin s.names
    /\ \A t \in Terminals : \A p \in Scripts[t] :
         /\ Dir[t] = "home" => (p.cmd = "presign" => p = s)
         /\ Dir[t] = "cloud" => /\ p.names = s.names \union {s.steps[1].from}
                                /\ p.steps[1].from = s.steps[1].from
    /\ \A x \in Wanted({"cloud"}) :
         /\ x.from \in s.names \union {s.steps[1].from} /\ x.checked
         /\ x.dest \in s.names \union {"payer"}
         /\ x.refund \in s.names \union Treasuries
    /\ \A x, y \in Wanted(Dirs) :
         x.from = y.from /\ x.from \in s.names => x.dest = y.dest /\ x.refund = y.refund /\ x.amount = y.amount
Orderly == OneTerminal /\ \E s \in Script : Ships(s)

\* No step names one vault twice, and what checkSpend does not see is the first step of a script
\* at home, which is started on a vault that holds the amount.
Apart(x) == x.from # x.dest /\ x.from # x.refund /\ x.dest # x.refund
Cautious ==
    /\ Careful
    /\ \A t \in Terminals : \A p \in Scripts[t] : \A i \in DOMAIN p.steps :
         Apart(p.steps[i]) /\ (p.steps[i].checked \/ (i = 1 /\ Dir[t] = "home"))

----------------------------------------------------------------------------
(* Properties.                                                              *)

TypeOK ==
    /\ file \in [Dirs -> [Name -> File]]
    /\ held \in [Party -> Nat] /\ spent \in [Vault -> Digest \union {NoDigest}]
    /\ net \subseteq sent /\ sent \subseteq Digest
    /\ mints \in [created: Nat, closed: Nat] /\ pool \in Nat
    /\ fees \in [open: Nat, squads: Nat, kept: Nat] /\ claims \subseteq Nat

\* A WOTS key signs one message, whatever scripts are run on its vault, from whichever
\* directory, killed and started again wherever (qc.ts 167-171).
OneMessagePerKey == \A d, e \in sent : d.vault = e.vault => d = e

\* The keys of every vault that holds tokens, or would receive some from a spend under way,
\* are in a key file with their master (qc.ts 83-84).
Kept(v) == \E d \in Dirs, n \in Name : file[d][n].master /\ <<n, file[d][n].gen>> = v
KeysKept ==
    /\ \A v \in Vault : held[v] > 0 => Kept(v)
    /\ \A d \in net : Kept(d.refund) /\ (d.dest \in Vault => Kept(d.dest))

\* A digest recorded for an unspent vault can still land: a key that signed a doomed spend
\* locks its vault for good (qc.ts 107-110).
NotDoomed ==
    \A d \in Dirs, n \in Name :
        LET s == file[d][n].signed IN s # NoDigest /\ spent[s.vault] = NoDigest => Acceptable(s)

\* There is one supply, and none of it is lost or made afterwards, so verify-mainnet.ts finds it
\* whole: scripts started again after a failure mint nothing more (genesis.ts 32-54).
SupplyWhole == mints.closed > 0 => Verified
=============================================================================
