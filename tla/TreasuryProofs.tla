----------------------------- MODULE TreasuryProofs -----------------------------
(***************************************************************************)
(* Proofs about the command-line client, for any number of terminals, any  *)
(* scripts, any supply and names, and scripts killed anywhere.             *)
(*                                                                         *)
(* Types: the types, and what a terminal holds at each place of a script.  *)
(* Minted, with one terminal for each directory: genesis.ts mints once,    *)
(* and what holders and pool have adds up to the supply.                   *)
(* KeysInv, if also home and cloud want one and the same of each vault     *)
(* shipped: files at home only grow, the cloud's copies and the terminals' *)
(* own agree with them, every signature is recorded at home or the one all *)
(* want, and tokens lie in and go to vaults whose keys are at home.        *)
(* PaidInv, if also nothing unchecked is started on a vault short of the   *)
(* amount: what is recorded or about to be signed can still be paid.       *)
(***************************************************************************)
EXTENDS Treasury, Induction

-----------------------------------------------------------------------------
(* Types.                                                                   *)

\* The places of a running script: before it loads its vault and after, with the recipient
\* resolved, and with the vault of the remainder.
Loaded == {"dest", "dest missing", "refund", "refund missing", "check", "sign", "copy", "wait"}
HasDest == {"refund", "refund missing", "check", "sign", "copy", "wait"}
HasRefund == {"check", "sign", "copy", "wait"}
Working == {"from"} \union Loaded
Minting == {"mint", "supply"}
Places == Working \union Minting \union {"idle", "claim"}

Job == [script: Script \union {NoScript}, k: Nat, mine: File, dest: Party, refund: Party, fee: Nat]

JobTyped(t, p, j) ==
    /\ p \in Places /\ j \in Job
    /\ p \in Working => j.script \in Scripts[t] /\ j.k \in DOMAIN j.script.steps
    /\ p \in Loaded => Exists(j.mine)
    /\ p \in HasRefund => j.refund \in Vault
    /\ p \in Minting => j.dest \in Vault

\* TypeOK, and a terminal's own copies have their types.
JobsTyped ==
    /\ at \in [Terminals -> Places] /\ job \in [Terminals -> Job]
    /\ \A t \in Terminals : JobTyped(t, at[t], job[t])
Types == TypeOK /\ JobsTyped

\* A vault is a name and a number above zero; the payer's number is zero.
LEMMA VaultParts ==
    ASSUME NEW v \in Vault
    PROVE  /\ v[1] \in Name /\ v[2] \in 1..MaxGen /\ v = <<v[1], v[2]>>
           /\ v # Payer /\ v \in Party
BY DEF Vault, Payer, Party

\* A name and a generation make a vault.
LEMMA IsVault ==
    ASSUME NEW n \in Name, NEW g \in 1..MaxGen
    PROVE  <<n, g>> \in Vault /\ <<n, g>> \in Party
BY DEF Vault, Party

\* Keys have at most MaxGen generations, and LastGen is the last there is.
LEMMA Generations ==
    ASSUME file \in [Dirs -> [Name -> File]], NEW n \in Name
    PROVE  LastGen(n) \in 0..MaxGen /\ \A d \in Dirs : file[d][n].gen <= LastGen(n)
<1>. DEFINE a == file["home"][n].gen
            b == file["cloud"][n].gen
            S == {file[d][n].gen : d \in Dirs} \union {0}
<1>1. a \in 0..MaxGen /\ b \in 0..MaxGen /\ MaxGen \in Nat
  BY TreasuryAssumption DEF Dirs, File
<1>2. S = {a, b, 0}
  BY DEF Dirs
<1>. HIDE DEF a, b, S
<1>3. \E x \in S : \A y \in S : x >= y
  <2>1. CASE a >= b
    BY <1>1, <1>2, <2>1
  <2>2. CASE b >= a
    BY <1>1, <1>2, <2>2
  <2>. QED
    BY <1>1, <2>1, <2>2
<1>4. Max(S) \in S /\ \A y \in S : Max(S) >= y
  BY <1>3 DEF Max
<1>5. Max(S) \in 0..MaxGen /\ a <= Max(S) /\ b <= Max(S)
  BY <1>1, <1>2, <1>4
<1>6. LastGen(n) = Max(S)
  BY DEF LastGen, S
<1>. QED
  BY <1>5, <1>6 DEF Dirs, a, b

\* A key file just made has a generation of its own and no digest.
LEMMA FreshFile ==
    ASSUME file \in [Dirs -> [Name -> File]], NEW n \in Name, LastGen(n) < MaxGen
    PROVE  /\ Fresh(n) \in File /\ Fresh(n).gen = LastGen(n) + 1 /\ Fresh(n).gen \in 1..MaxGen
           /\ Fresh(n).gen # 0 /\ Fresh(n).signed = NoDigest /\ Fresh(n).master = TRUE
           /\ \A d \in Dirs : Fresh(n).gen # file[d][n].gen
<1>1. /\ LastGen(n) \in 0..MaxGen /\ MaxGen \in Nat
      /\ \A d \in Dirs : file[d][n].gen <= LastGen(n) /\ file[d][n].gen \in Nat
  BY Generations, TreasuryAssumption DEF File
<1>2. Fresh(n).gen = LastGen(n) + 1 /\ Fresh(n).signed = NoDigest /\ Fresh(n).master = TRUE
  BY DEF Fresh
<1>3. Fresh(n) \in File
  BY <1>1 DEF Fresh, File
<1>. QED
  BY <1>1, <1>2, <1>3

\* What newVault writes, and what it leaves alone.
LEMMA NewVaultWrites ==
    ASSUME file \in [Dirs -> [Name -> File]], NEW t \in Terminals, NEW n \in Name, NewVault(t, n)
    PROVE  /\ file' \in [Dirs -> [Name -> File]]
           /\ file'[Dir[t]][n] = Fresh(n)
           /\ Fresh(n).gen = LastGen(n) + 1 /\ Fresh(n).gen \in 1..MaxGen /\ Fresh(n).gen # 0
           /\ Fresh(n).signed = NoDigest /\ Fresh(n).master = TRUE
           /\ \A d \in Dirs : Fresh(n).gen # file[d][n].gen
           /\ \A d \in Dirs, m \in Name : d # Dir[t] \/ m # n => file'[d][m] = file[d][m]
<1>1. Dir[t] \in Dirs
  BY TreasuryAssumption DEF Dirs
<1>2. file' = [file EXCEPT ![Dir[t]][n] = Fresh(n)] /\ LastGen(n) < MaxGen
  BY DEF NewVault
<1>3. /\ Fresh(n) \in File
      /\ Fresh(n).gen = LastGen(n) + 1 /\ Fresh(n).gen \in 1..MaxGen /\ Fresh(n).gen # 0
      /\ Fresh(n).signed = NoDigest /\ Fresh(n).master = TRUE
      /\ \A d \in Dirs : Fresh(n).gen # file[d][n].gen
  BY <1>2, FreshFile
<1>. QED
  BY <1>1, <1>2, <1>3

\* A script that runs has the step it is at.
LEMMA StepTyped ==
    ASSUME JobsTyped, NEW t \in Terminals, at[t] \in Working
    PROVE  /\ This(t) \in Plan
           /\ job[t].script \in Scripts[t] /\ job[t].script \in Script
           /\ job[t].k \in 1..Len(job[t].script.steps) /\ job[t].script.names \subseteq Name
           /\ This(t).from \in Name /\ This(t).refund \in Name /\ This(t).amount \in Nat
           /\ This(t).dest # "payer" => This(t).dest \in Name
<1>1. job[t].script \in Scripts[t] /\ job[t].script \in Script
      /\ job[t].k \in DOMAIN job[t].script.steps
  BY ScriptsAssumption DEF JobsTyped, JobTyped
<1>2. job[t].script.steps \in Seq(Plan) /\ job[t].script.names \subseteq Name
  BY <1>1 DEF Script
<1>3. job[t].k \in 1..Len(job[t].script.steps) /\ job[t].script.steps[job[t].k] \in Plan
  BY <1>1, <1>2
<1>4. This(t) \in Plan
  BY <1>3 DEF This
<1>. QED
  BY <1>1, <1>2, <1>3, <1>4 DEF Plan

\* A terminal moves on; the others stay where they are.
Sets(t, p, j) == at' = [at EXCEPT ![t] = p] /\ job' = [job EXCEPT ![t] = j]

\* A terminal that moves to a typed place keeps the types of all.
LEMMA Moves ==
    ASSUME JobsTyped, NEW t \in Terminals, NEW p, NEW j, JobTyped(t, p, j), Sets(t, p, j)
    PROVE  /\ JobsTyped'
           /\ at'[t] = p /\ job'[t] = j
           /\ \A u \in Terminals : u # t => at'[u] = at[u] /\ job'[u] = job[u]
<1>1. at' \in [Terminals -> Places] /\ job' \in [Terminals -> Job]
  BY DEF JobsTyped, JobTyped, Sets
<1>2. /\ at'[t] = p /\ job'[t] = j
      /\ \A u \in Terminals : u # t => at'[u] = at[u] /\ job'[u] = job[u]
  BY DEF JobsTyped, Sets
<1>3. ASSUME NEW u \in Terminals PROVE JobTyped(u, at'[u], job'[u])
  <2>1. CASE u = t
    BY <1>2, <2>1
  <2>2. CASE u # t
    BY <1>2, <2>2 DEF JobsTyped
  <2>. QED
    BY <2>1, <2>2
<1>. QED
  BY <1>1, <1>2, <1>3 DEF JobsTyped

\* A free terminal holds nothing.
LEMMA NoJobTyped == ASSUME NEW t PROVE JobTyped(t, "idle", NoJob)
BY TreasuryAssumption DEF JobTyped, NoJob, Job, Places, Working, Loaded, HasRefund, Minting, NoFile, File,
   Party, Payer

\* What a script asks its key to sign is a digest.
LEMMA AskedTyped ==
    ASSUME JobsTyped, NEW t \in Terminals, at[t] \in HasRefund
    PROVE  /\ Asked(t) \in Digest /\ Asked(t).vault = Mine(t) /\ Asked(t).dest = job[t].dest
           /\ Asked(t).refund = job[t].refund /\ Asked(t).amount = This(t).amount
           /\ Mine(t) \in Vault /\ Mine(t) = <<This(t).from, job[t].mine.gen>>
           /\ job[t].mine.gen \in 1..MaxGen
<1>1. This(t).from \in Name /\ This(t).amount \in Nat
  BY StepTyped DEF Working, Loaded, HasRefund
<1>2. job[t] \in Job /\ job[t].refund \in Vault /\ Exists(job[t].mine)
  BY DEF JobsTyped, JobTyped, Loaded, HasRefund
<1>3. job[t].dest \in Party /\ job[t].mine.gen \in 1..MaxGen
  <2>1. job[t].dest \in Party /\ job[t].mine \in File
    BY <1>2 DEF Job
  <2>. QED
    BY <1>2, <2>1, TreasuryAssumption DEF Exists, File
<1>4. Mine(t) \in Vault
  BY <1>1, <1>3, IsVault DEF Mine
<1>. QED
  BY <1>1, <1>2, <1>3, <1>4 DEF Asked, Digest, Mine

\* What the missing names of a bench become.
LEMMA GetNamesWrites ==
    ASSUME file \in [Dirs -> [Name -> File]], NEW t \in Terminals, GetNames(t)
    PROVE  /\ at[t] = "from" /\ UNCHANGED <<at, job, tokens, net, market, sent>>
           /\ file' \in [Dirs -> [Name -> File]]
           /\ \A n \in Name : n \in job[t].script.names /\ ~Exists(file[Dir[t]][n]) =>
                  /\ file'[Dir[t]][n] = Fresh(n) /\ Fresh(n).gen # 0
                  /\ Fresh(n).signed = NoDigest /\ Fresh(n).master = TRUE
                  /\ \A d \in Dirs : Fresh(n).gen # file[d][n].gen
           /\ \A n \in Name : n \notin job[t].script.names \/ Exists(file[Dir[t]][n]) =>
                  file'[Dir[t]][n] = file[Dir[t]][n]
           /\ \A d \in Dirs, n \in Name : d # Dir[t] => file'[d][n] = file[d][n]
<1>. DEFINE missing == {n \in job[t].script.names : ~Exists(file[Dir[t]][n])}
            made == [n \in Name |-> IF n \in missing THEN Fresh(n) ELSE file[Dir[t]][n]]
<1>1. /\ at[t] = "from" /\ UNCHANGED <<at, job, tokens, net, market, sent>>
      /\ \A n \in missing : LastGen(n) < MaxGen
      /\ file' = [file EXCEPT ![Dir[t]] = made]
  BY DEF GetNames
<1>2. Dir[t] \in Dirs
  BY TreasuryAssumption DEF Dirs
<1>3. \A n \in Name : n \in missing =>
          /\ Fresh(n) \in File /\ Fresh(n).gen # 0
          /\ Fresh(n).signed = NoDigest /\ Fresh(n).master = TRUE
          /\ \A d \in Dirs : Fresh(n).gen # file[d][n].gen
  BY <1>1, FreshFile
<1>4. \A n \in Name : made[n] = IF n \in missing THEN Fresh(n) ELSE file[Dir[t]][n]
  OBVIOUS
<1>5. made \in [Name -> File]
  <2>1. \A n \in Name : made[n] \in File
    <3>. HIDE DEF made, missing
    <3>. QED
      BY <1>2, <1>3, <1>4
  <2>. QED
    BY <2>1
<1>6. /\ file' \in [Dirs -> [Name -> File]] /\ file'[Dir[t]] = made
      /\ \A d \in Dirs, n \in Name : d # Dir[t] => file'[d][n] = file[d][n]
  <2>. HIDE DEF made
  <2>. QED
    BY <1>1, <1>2, <1>5
<1>7. \A n \in Name : n \in missing <=> n \in job[t].script.names /\ ~Exists(file[Dir[t]][n])
  OBVIOUS
<1>. HIDE DEF made, missing
<1>. QED
  BY <1>1, <1>3, <1>4, <1>6, <1>7

\* Resolving the recipient, as one of four things that can happen.
GetsPayer(t) == This(t).dest = "payer" /\ job' = [job EXCEPT ![t] = [job[t] EXCEPT !.dest = Payer]] /\ UNCHANGED file
DestFile(t) == file[Dir[t]][This(t).dest]
FindsDest(t) ==
    /\ at[t] = "dest" /\ This(t).dest # "payer" /\ Exists(DestFile(t)) /\ UNCHANGED file
    /\ job' = [job EXCEPT ![t] = [job[t] EXCEPT !.dest = <<This(t).dest, DestFile(t).gen>>]]
MakesDest(t) ==
    /\ at[t] = "dest missing" /\ This(t).dest # "payer" /\ NewVault(t, This(t).dest)
    /\ job' = [job EXCEPT ![t] = [job[t] EXCEPT !.dest = <<This(t).dest, LastGen(This(t).dest) + 1>>]]
MissesDest(t) ==
    /\ at[t] = "dest" /\ This(t).dest # "payer" /\ ~Exists(DestFile(t)) /\ UNCHANGED <<file, job>>

\* GetDest does one of these, or changes only its place.
LEMMA GetDestDoes ==
    ASSUME JobsTyped, NEW t \in Terminals, GetDest(t)
    PROVE  /\ at[t] \in {"dest", "dest missing"} /\ UNCHANGED <<tokens, net, market, sent>>
           /\ \/ MissesDest(t) /\ at' = [at EXCEPT ![t] = "dest missing"]
              \/ at' = [at EXCEPT ![t] = "refund"] /\ (GetsPayer(t) \/ FindsDest(t) \/ MakesDest(t))
<1>1. at[t] \in {"dest", "dest missing"} /\ UNCHANGED <<tokens, net, market, sent>>
  BY DEF GetDest
<1>2. CASE This(t).dest = "payer"
  <2>1. job' = [job EXCEPT ![t].dest = Payer] /\ at' = [at EXCEPT ![t] = "refund"] /\ UNCHANGED file
    BY <1>2 DEF GetDest, Goto
  <2>. QED
    BY <1>1, <1>2, <2>1 DEF GetsPayer, JobsTyped
<1>3. CASE This(t).dest # "payer"
  <2>1. Get(t, "dest", "dest missing", This(t).dest, "refund")
    BY <1>3 DEF GetDest
  <2>. QED
    BY <1>1, <1>3, <2>1 DEF Get, Goto, FindsDest, MakesDest, MissesDest, DestFile, JobsTyped
<1>. QED
  BY <1>2, <1>3

\* The same for the vault of the remainder.
RefundFile(t) == file[Dir[t]][This(t).refund]
FindsRefund(t) ==
    \E d \in Dirs :
        /\ at[t] = "refund" \/ Dir[t] = "cloud"
        /\ d = IF Dir[t] = "cloud" /\ This(t).refund \in Treasuries THEN "home" ELSE Dir[t]
        /\ Exists(file[d][This(t).refund]) /\ UNCHANGED file
        /\ job' = [job EXCEPT ![t] = [job[t] EXCEPT !.refund = <<This(t).refund, file[d][This(t).refund].gen>>]]
MakesRefund(t) ==
    /\ at[t] = "refund missing" /\ NewVault(t, This(t).refund)
    /\ Dir[t] = "cloud" => This(t).refund \notin Treasuries
    /\ job' = [job EXCEPT ![t] = [job[t] EXCEPT !.refund = <<This(t).refund, LastGen(This(t).refund) + 1>>]]
MissesRefund(t) ==
    /\ at[t] = "refund" /\ ~Exists(RefundFile(t)) /\ UNCHANGED <<file, job>>
    /\ Dir[t] = "cloud" => This(t).refund \notin Treasuries

\* GetRefund does one of these.
LEMMA GetRefundDoes ==
    ASSUME JobsTyped, NEW t \in Terminals, GetRefund(t)
    PROVE  /\ at[t] \in {"refund", "refund missing"} /\ UNCHANGED <<tokens, net, market, sent>>
           /\ \/ MissesRefund(t) /\ at' = [at EXCEPT ![t] = "refund missing"]
              \/ at' = [at EXCEPT ![t] = "check"] /\ (FindsRefund(t) \/ MakesRefund(t))
<1>1. at[t] \in {"refund", "refund missing"} /\ UNCHANGED <<tokens, net, market, sent>>
  BY DEF GetRefund
<1>0. Dir[t] \in Dirs /\ "home" \in Dirs
  BY TreasuryAssumption DEF Dirs
<1>2. CASE Dir[t] = "cloud" /\ This(t).refund \in Treasuries
  <2>1. /\ Exists(file["home"][This(t).refund]) /\ UNCHANGED file /\ at' = [at EXCEPT ![t] = "check"]
        /\ job' = [job EXCEPT ![t].refund = <<This(t).refund, file["home"][This(t).refund].gen>>]
    BY <1>2 DEF GetRefund, Goto
  <2>2. FindsRefund(t)
    BY <1>0, <1>2, <2>1 DEF FindsRefund, JobsTyped
  <2>. QED
    BY <1>1, <2>1, <2>2
<1>3. CASE ~(Dir[t] = "cloud" /\ This(t).refund \in Treasuries)
  <2>1. Get(t, "refund", "refund missing", This(t).refund, "check")
    BY <1>3 DEF GetRefund
  <2>2. CASE at' = [at EXCEPT ![t] = "check"] /\ at[t] = "refund"
    <3>1. /\ Exists(file[Dir[t]][This(t).refund]) /\ UNCHANGED file
          /\ job' = [job EXCEPT ![t] = [job[t] EXCEPT !.refund = <<This(t).refund, file[Dir[t]][This(t).refund].gen>>]]
      BY <2>1, <2>2 DEF Get, Goto, JobsTyped
    <3>2. FindsRefund(t)
      BY <1>0, <1>3, <2>2, <3>1 DEF FindsRefund
    <3>. QED
      BY <1>1, <2>2, <3>2
  <2>3. CASE ~(at' = [at EXCEPT ![t] = "check"] /\ at[t] = "refund")
    BY <1>1, <1>3, <2>1, <2>3 DEF Get, Goto, MakesRefund, MissesRefund, RefundFile, JobsTyped
  <2>. QED
    BY <2>2, <2>3
<1>. QED
  BY <1>2, <1>3

\* Signing: what is recorded, and where the signature goes.
LEMMA SignDoes ==
    ASSUME Types, NEW t \in Terminals, Sign(t)
    PROVE  /\ at[t] = "sign" /\ UNCHANGED <<job, tokens, market>>
           /\ job[t].mine.signed \in {NoDigest, Asked(t)}
           /\ file' \in [Dirs -> [Name -> File]]
           /\ job[t].mine.signed # NoDigest => UNCHANGED file
           /\ job[t].mine.signed = NoDigest =>
                  /\ file'[Dir[t]][This(t).from].signed = Asked(t)
                  /\ file'[Dir[t]][This(t).from].gen = job[t].mine.gen
                  /\ file'[Dir[t]][This(t).from].master = job[t].mine.master
           /\ \A d \in Dirs, n \in Name : d # Dir[t] \/ n # This(t).from => file'[d][n] = file[d][n]
           /\ sent' = sent \union {Asked(t)}
           /\ \/ job[t].script.cmd = "presign" /\ at' = [at EXCEPT ![t] = "copy"] /\ UNCHANGED net
              \/ at' = [at EXCEPT ![t] = "wait"] /\ net' = net \union {Asked(t)}
<1>. DEFINE d == Asked(t)
            f == [job[t].mine EXCEPT !.signed = d]
<1>1. /\ at[t] = "sign" /\ UNCHANGED <<job, tokens, market>>
      /\ job[t].mine.signed \in {NoDigest, d}
      /\ file' = IF job[t].mine.signed = NoDigest THEN [file EXCEPT ![Dir[t]][This(t).from] = f] ELSE file
      /\ sent' = sent \union {d}
      /\ \/ job[t].script.cmd = "presign" /\ at' = [at EXCEPT ![t] = "copy"] /\ UNCHANGED net
         \/ at' = [at EXCEPT ![t] = "wait"] /\ net' = net \union {d}
  BY DEF Sign, MaySign, Goto
<1>2. Dir[t] \in Dirs /\ This(t).from \in Name /\ d \in Digest /\ job[t].mine \in File
  BY <1>1, TreasuryAssumption, StepTyped, AskedTyped DEF Dirs, Working, Loaded, HasRefund, Types, JobsTyped, Job
<1>3. f \in File /\ f.signed = d /\ f.gen = job[t].mine.gen /\ f.master = job[t].mine.master
  BY <1>2 DEF File
<1>4. file \in [Dirs -> [Name -> File]]
  BY DEF Types, TypeOK
<1>. HIDE DEF d, f
<1>5. CASE job[t].mine.signed = NoDigest
  <2>1. file' = [file EXCEPT ![Dir[t]][This(t).from] = f]
    BY <1>1, <1>5
  <2>2. /\ file' \in [Dirs -> [Name -> File]] /\ file'[Dir[t]][This(t).from] = f
        /\ \A e \in Dirs, n \in Name : e # Dir[t] \/ n # This(t).from => file'[e][n] = file[e][n]
    BY <1>2, <1>3, <1>4, <2>1
  <2>. QED
    BY <1>1, <1>3, <1>5, <2>2 DEF d
<1>6. CASE job[t].mine.signed # NoDigest
  <2>1. UNCHANGED file
    BY <1>1, <1>6
  <2>. QED
    BY <1>1, <1>4, <1>6, <2>1 DEF d
<1>. QED
  BY <1>5, <1>6

\* Shipping: the signed vault without its master, the bench vaults as they are.
LEMMA CopyDoes ==
    ASSUME Types, NEW t \in Terminals, Copy(t)
    PROVE  /\ at[t] = "copy" /\ at' = [at EXCEPT ![t] = "idle"] /\ job' = [job EXCEPT ![t] = NoJob]
           /\ UNCHANGED <<tokens, net, market, sent>>
           /\ file' \in [Dirs -> [Name -> File]]
           /\ \A n \in Name : file'["home"][n] = file["home"][n]
           /\ file'["cloud"][This(t).from].gen = file["home"][This(t).from].gen
           /\ file'["cloud"][This(t).from].signed = file["home"][This(t).from].signed
           /\ \A n \in Name : n \in job[t].script.names /\ n # This(t).from => file'["cloud"][n] = file["home"][n]
           /\ \A n \in Name : n \notin job[t].script.names /\ n # This(t).from => file'["cloud"][n] = file["cloud"][n]
<1>. DEFINE from == This(t).from
            keyless == [file["home"][from] EXCEPT !.master = FALSE]
            shipped == [n \in Name |-> IF n = from THEN keyless
                                       ELSE IF n \in job[t].script.names THEN file["home"][n]
                                       ELSE file["cloud"][n]]
<1>1. /\ at[t] = "copy" /\ UNCHANGED <<tokens, net, market, sent>>
      /\ at' = [at EXCEPT ![t] = "idle"] /\ job' = [job EXCEPT ![t] = NoJob]
      /\ file' = [file EXCEPT !["cloud"] = shipped]
  BY DEF Copy, Stop, Goto
<1>2. file \in [Dirs -> [Name -> File]] /\ "home" \in Dirs /\ "cloud" \in Dirs /\ from \in Name
  BY <1>1, StepTyped DEF Types, TypeOK, Dirs, Working, Loaded
<1>3. /\ keyless \in File /\ keyless.gen = file["home"][from].gen
      /\ keyless.signed = file["home"][from].signed
  <2>1. file["home"][from] \in File
    BY <1>2
  <2>. QED
    BY <2>1 DEF File
<1>. HIDE DEF from, keyless
<1>4. ASSUME NEW n \in Name
      PROVE  /\ n = from => shipped[n] = keyless
             /\ n # from /\ n \in job[t].script.names => shipped[n] = file["home"][n]
             /\ n # from /\ n \notin job[t].script.names => shipped[n] = file["cloud"][n]
  OBVIOUS
<1>5. shipped \in [Name -> File]
  <2>1. \A n \in Name : shipped[n] \in File
    <3>. HIDE DEF shipped
    <3>. QED
      BY <1>2, <1>3, <1>4
  <2>. QED
    BY <2>1
<1>. HIDE DEF shipped
<1>6. /\ file' \in [Dirs -> [Name -> File]] /\ file'["cloud"] = shipped
      /\ \A n \in Name : file'["home"][n] = file["home"][n]
  BY <1>1, <1>2, <1>5
<1>. QED
  BY <1>1, <1>2, <1>3, <1>4, <1>6 DEF from

\* A payment turns balances into balances.
LEMMA PayoutTyped ==
    ASSUME NEW S, NEW f \in [S -> Nat], NEW a \in S, NEW b \in S, NEW c \in S,
           a # b, a # c, b # c, NEW n \in Nat, n <= f[a],
           NEW g, g = [f EXCEPT ![a] = 0, ![b] = @ + n, ![c] = @ + f[a] - n]
    PROVE  /\ g \in [S -> Nat]
           /\ g[a] = 0 /\ g[b] = f[b] + n /\ g[c] = f[c] + (f[a] - n)
           /\ \A x \in S \ {a, b, c} : g[x] = f[x]
OBVIOUS

\* What a spend that lands does to the balances.
LEMMA LandDoes ==
    ASSUME Types, NEW d \in net, Land(d)
    PROVE  /\ d \in Digest /\ d \in sent
           /\ d.vault \in Vault /\ d.dest \in Party /\ d.refund \in Vault /\ d.amount \in Nat
           /\ d.vault \in Party /\ d.refund \in Party
           /\ d.vault # d.dest /\ d.vault # d.refund /\ d.dest # d.refund
           /\ d.amount <= held[d.vault] /\ spent[d.vault] = NoDigest
           /\ held' \in [Party -> Nat]
           /\ held'[d.vault] = 0 /\ held'[d.dest] = held[d.dest] + d.amount
           /\ held'[d.refund] = held[d.refund] + (held[d.vault] - d.amount)
           /\ \A x \in Party \ {d.vault, d.dest, d.refund} : held'[x] = held[x]
           /\ spent' \in [Vault -> Digest \union {NoDigest}] /\ spent'[d.vault] = d
           /\ \A v \in Vault : v # d.vault => spent'[v] = spent[v]
           /\ net' = net \ {d}
           /\ UNCHANGED <<file, at, job, mints, market, sent>>
<1>1. d \in Digest /\ d \in sent
  BY DEF Types, TypeOK
<1>2. d.vault \in Vault /\ d.dest \in Party /\ d.refund \in Vault /\ d.amount \in Nat
  BY <1>1 DEF Digest
<1>3. d.vault \in Party /\ d.refund \in Party
  BY <1>2 DEF Party
<1>4. /\ d.vault # d.dest /\ d.vault # d.refund /\ d.dest # d.refund
      /\ d.amount <= held[d.vault] /\ spent[d.vault] = NoDigest
      /\ spent' = [spent EXCEPT ![d.vault] = d]
      /\ held' = [held EXCEPT ![d.vault] = 0, ![d.dest] = @ + d.amount,
                              ![d.refund] = @ + held[d.vault] - d.amount]
      /\ net' = net \ {d}
      /\ UNCHANGED <<file, at, job, mints, market, sent>>
  BY DEF Land, Acceptable
<1>5. held \in [Party -> Nat] /\ spent \in [Vault -> Digest \union {NoDigest}]
  BY DEF Types, TypeOK
<1>6. /\ held' \in [Party -> Nat]
      /\ held'[d.vault] = 0 /\ held'[d.dest] = held[d.dest] + d.amount
      /\ held'[d.refund] = held[d.refund] + (held[d.vault] - d.amount)
      /\ \A x \in Party \ {d.vault, d.dest, d.refund} : held'[x] = held[x]
  <2>. DEFINE v == d.vault
              w == d.dest
              r == d.refund
              n == d.amount
  <2>1. /\ v \in Party /\ w \in Party /\ r \in Party /\ n \in Nat /\ n <= held[v]
        /\ v # w /\ v # r /\ w # r
        /\ held' = [held EXCEPT ![v] = 0, ![w] = @ + n, ![r] = @ + held[v] - n]
    BY <1>2, <1>3, <1>4
  <2>. HIDE DEF v, w, r, n
  <2>2. /\ held' \in [Party -> Nat]
        /\ held'[v] = 0 /\ held'[w] = held[w] + n /\ held'[r] = held[r] + (held[v] - n)
        /\ \A x \in Party \ {v, w, r} : held'[x] = held[x]
    BY <1>5, <2>1, PayoutTyped
  <2>. QED
    BY <2>2 DEF v, w, r, n
<1>7. /\ spent' \in [Vault -> Digest \union {NoDigest}] /\ spent'[d.vault] = d
      /\ \A v \in Vault : v # d.vault => spent'[v] = spent[v]
  BY <1>1, <1>2, <1>4, <1>5
<1>. QED
  BY <1>1, <1>2, <1>3, <1>4, <1>6, <1>7

\* The script of a terminal goes on, or the terminal is free again.
Continues(t, p, mine, dest, refund) ==
    /\ at'[t] = p /\ job'[t].mine = mine /\ job'[t].dest = dest /\ job'[t].refund = refund
    /\ job'[t].script = job[t].script /\ job'[t].k = job[t].k /\ This(t)' = This(t)
Others(t) == \A u \in Terminals : u # t => at'[u] = at[u] /\ job'[u] = job[u]

\* A script goes on with new copies of what it loaded.
LEMMA GoesOn ==
    ASSUME JobsTyped, NEW t \in Terminals, NEW p, NEW j \in Job, at[t] \in Working, p \in Working,
           j.script = job[t].script, j.k = job[t].k,
           p \in Loaded => Exists(j.mine), p \in HasRefund => j.refund \in Vault, Sets(t, p, j)
    PROVE  JobsTyped' /\ Continues(t, p, j.mine, j.dest, j.refund) /\ Others(t)
<1>1. JobTyped(t, p, j)
  BY DEF JobsTyped, JobTyped, Places, Working, Minting, Loaded, HasRefund
<1>2. /\ JobsTyped' /\ at'[t] = p /\ job'[t] = j
      /\ \A u \in Terminals : u # t => at'[u] = at[u] /\ job'[u] = job[u]
  BY <1>1, Moves
<1>3. This(t)' = This(t)
  BY <1>2 DEF This
<1>. QED
  BY <1>2, <1>3 DEF Continues, Others

\* A script that ends frees its terminal.
LEMMA Ends ==
    ASSUME JobsTyped, NEW t \in Terminals, at' = [at EXCEPT ![t] = "idle"], job' = [job EXCEPT ![t] = NoJob]
    PROVE  JobsTyped' /\ at'[t] = "idle" /\ Others(t)
BY NoJobTyped, Moves DEF Others, Sets

\* A script that starts is at its first step; scripts without checkSpend may ask for funds.
LEMMA Starts ==
    ASSUME Types, NEW t \in Terminals, NEW s \in Scripts[t], Start(t, s)
    PROVE  /\ Types' /\ at[t] = "idle" /\ mints.closed > 0 /\ Others(t)
           /\ s.cmd = "presign" => Dir[t] = "home"
           /\ Careful /\ ~s.steps[1].checked => Funded(Dir[t], s.steps[1])
           /\ at'[t] = "from" /\ job'[t].script = s /\ job'[t].k = 1 /\ This(t)' = s.steps[1]
           /\ UNCHANGED <<file, tokens, net, market, sent>>
<1>. DEFINE j == [NoJob EXCEPT !.script = s]
<1>1. /\ at[t] = "idle" /\ mints.closed > 0 /\ at' = [at EXCEPT ![t] = "from"]
      /\ s.cmd = "presign" => Dir[t] = "home"
      /\ Careful /\ ~s.steps[1].checked => Funded(Dir[t], s.steps[1])
      /\ job' = [job EXCEPT ![t] = j] /\ UNCHANGED <<file, tokens, net, market, sent>>
  BY DEF Start, Goto
<1>2. s \in Script
  BY ScriptsAssumption
<1>3. s.steps \in Seq(Plan) /\ s.steps # <<>>
  BY <1>2 DEF Script
<1>4. 1 \in DOMAIN s.steps
  BY <1>3
<1>5. j \in Job /\ j.script = s /\ j.k = 1
  <2>1. NoJob \in Job
    BY NoJobTyped DEF JobTyped
  <2>2. NoJob.k = 1 /\ j.k = NoJob.k
    BY DEF NoJob
  <2>. QED
    BY <1>2, <2>1, <2>2 DEF Job
<1>. HIDE DEF j
<1>6. JobTyped(t, "from", j)
  BY <1>4, <1>5 DEF JobTyped, Places, Working, Loaded, HasRefund, Minting
<1>7. JobsTyped' /\ at'[t] = "from" /\ job'[t] = j /\ Others(t)
  BY <1>1, <1>6, Moves DEF Types, Others, Sets
<1>8. TypeOK'
  BY <1>1 DEF Types, TypeOK, tokens, market
<1>. QED
  BY <1>1, <1>5, <1>7, <1>8 DEF Types, This

\* Making the bench vaults keeps the types.
LEMMA GetsNames ==
    ASSUME Types, NEW t \in Terminals, GetNames(t)
    PROVE  Types'
<1>1. file \in [Dirs -> [Name -> File]]
  BY DEF Types, TypeOK
<1>2. UNCHANGED <<at, job, tokens, net, market, sent>> /\ file' \in [Dirs -> [Name -> File]]
  BY <1>1, GetNamesWrites
<1>. QED
  BY <1>2 DEF Types, TypeOK, JobsTyped, JobTyped, tokens, market

\* The vault is loaded from the terminal's directory, which changes nothing.
LEMMA Loads ==
    ASSUME Types, NEW t \in Terminals, LoadFrom(t)
    PROVE  /\ Types' /\ at[t] = "from" /\ Others(t)
           /\ Exists(file[Dir[t]][This(t).from])
           /\ \A n \in job[t].script.names : Exists(file[Dir[t]][n])
           /\ Continues(t, "dest", file[Dir[t]][This(t).from], job[t].dest, job[t].refund)
           /\ UNCHANGED <<file, tokens, net, market, sent>>
<1>. DEFINE f == file[Dir[t]][This(t).from]
            j == [job[t] EXCEPT !.mine = f]
<1>1. /\ at[t] = "from" /\ at' = [at EXCEPT ![t] = "dest"]
      /\ Exists(f) /\ \A n \in job[t].script.names : Exists(file[Dir[t]][n])
      /\ job' = [job EXCEPT ![t] = j] /\ UNCHANGED <<file, tokens, net, market, sent>>
  BY DEF LoadFrom, Goto, Types, JobsTyped
<1>2. f \in File
  BY <1>1, StepTyped, TreasuryAssumption DEF Types, TypeOK, Dirs, Working
<1>3. /\ j \in Job /\ j.mine = f /\ j.dest = job[t].dest /\ j.refund = job[t].refund
      /\ j.script = job[t].script /\ j.k = job[t].k
  <2>1. job[t] \in Job
    BY DEF Types, JobsTyped
  <2>. HIDE DEF f
  <2>. QED
    BY <1>2, <2>1 DEF Job
<1>. HIDE DEF j
<1>4. JobsTyped' /\ Continues(t, "dest", j.mine, j.dest, j.refund) /\ Others(t)
  <2>1. "dest" \in Working /\ "dest" \notin HasRefund /\ at[t] \in Working
    BY <1>1 DEF Working, Loaded, HasRefund
  <2>. QED
    BY <1>1, <1>3, <2>1, GoesOn DEF Types, Sets
<1>5. TypeOK'
  BY <1>1 DEF Types, TypeOK, tokens, market
<1>. QED
  BY <1>1, <1>3, <1>4, <1>5 DEF Types

\* The recipient is resolved: the payer, the vault of a file, or a new one.
LEMMA GetsDest ==
    ASSUME Types, NEW t \in Terminals, GetDest(t)
    PROVE  /\ Types' /\ at[t] \in {"dest", "dest missing"} /\ Others(t)
           /\ UNCHANGED <<tokens, net, market, sent>>
           /\ \/ /\ MissesDest(t)
                 /\ Continues(t, "dest missing", job[t].mine, job[t].dest, job[t].refund)
              \/ /\ This(t).dest = "payer" /\ UNCHANGED file
                 /\ Continues(t, "refund", job[t].mine, Payer, job[t].refund)
              \/ /\ at[t] = "dest" /\ This(t).dest # "payer" /\ Exists(DestFile(t)) /\ UNCHANGED file
                 /\ Continues(t, "refund", job[t].mine, <<This(t).dest, DestFile(t).gen>>, job[t].refund)
              \/ /\ at[t] = "dest missing" /\ This(t).dest # "payer" /\ NewVault(t, This(t).dest)
                 /\ Continues(t, "refund", job[t].mine, <<This(t).dest, LastGen(This(t).dest) + 1>>, job[t].refund)
<1>1. at[t] \in {"dest", "dest missing"} /\ UNCHANGED <<tokens, net, market, sent>>
  BY GetDestDoes DEF Types
<1>2. /\ at[t] \in Working /\ "refund" \in Working /\ "dest missing" \in Working
      /\ "refund" \notin HasRefund /\ "dest missing" \notin HasRefund
      /\ Exists(job[t].mine) /\ job[t] \in Job
      /\ This(t).dest # "payer" => This(t).dest \in Name
      /\ Dir[t] \in Dirs /\ file \in [Dirs -> [Name -> File]]
  <2>1. at[t] \in Loaded
    BY <1>1 DEF Loaded
  <2>2. at[t] \in Working
    BY <2>1 DEF Working
  <2>. QED
    BY <2>1, <2>2, StepTyped, TreasuryAssumption
       DEF Types, JobsTyped, JobTyped, TypeOK, Working, Loaded, HasRefund, Dirs
<1>3. ASSUME NEW v \in Party, at' = [at EXCEPT ![t] = "refund"],
             job' = [job EXCEPT ![t] = [job[t] EXCEPT !.dest = v]]
      PROVE  JobsTyped' /\ Continues(t, "refund", job[t].mine, v, job[t].refund) /\ Others(t)
  <2>. DEFINE j == [job[t] EXCEPT !.dest = v]
  <2>1. /\ j \in Job /\ j.mine = job[t].mine /\ j.dest = v /\ j.refund = job[t].refund
        /\ j.script = job[t].script /\ j.k = job[t].k
    BY <1>2 DEF Job
  <2>2. job' = [job EXCEPT ![t] = j]
    BY <1>3
  <2>. HIDE DEF j
  <2>3. JobsTyped' /\ Continues(t, "refund", j.mine, j.dest, j.refund) /\ Others(t)
    BY <1>2, <1>3, <2>1, <2>2, GoesOn DEF Types, Sets
  <2>. QED
    BY <2>1, <2>3
<1>4. UNCHANGED file => TypeOK'
  BY <1>1 DEF Types, TypeOK, tokens, market
<1>5. CASE MissesDest(t) /\ at' = [at EXCEPT ![t] = "dest missing"]
  <2>1. job' = [job EXCEPT ![t] = job[t]] /\ UNCHANGED file
    BY <1>5 DEF MissesDest, Types, JobsTyped
  <2>2. JobsTyped' /\ Continues(t, "dest missing", job[t].mine, job[t].dest, job[t].refund) /\ Others(t)
    BY <1>2, <1>5, <2>1, GoesOn DEF Types, Sets
  <2>. QED
    BY <1>1, <1>4, <1>5, <2>1, <2>2 DEF Types
<1>6. CASE GetsPayer(t) /\ at' = [at EXCEPT ![t] = "refund"]
  <2>1. Payer \in Party
    BY DEF Party
  <2>. QED
    BY <1>1, <1>3, <1>4, <1>6, <2>1 DEF GetsPayer, Types
<1>7. CASE FindsDest(t) /\ at' = [at EXCEPT ![t] = "refund"]
  <2>1. <<This(t).dest, DestFile(t).gen>> \in Party
    <3>1. DestFile(t).gen \in 1..MaxGen
      <4>1. DestFile(t) \in File
        BY <1>2, <1>7 DEF DestFile, FindsDest
      <4>. QED
        BY <1>7, <4>1, TreasuryAssumption DEF File, FindsDest, Exists
    <3>. QED
      BY <1>2, <1>7, <3>1, IsVault DEF FindsDest
  <2>. QED
    BY <1>1, <1>3, <1>4, <1>7, <2>1 DEF FindsDest, Types
<1>8. CASE MakesDest(t) /\ at' = [at EXCEPT ![t] = "refund"]
  <2>1. NewVault(t, This(t).dest) /\ This(t).dest \in Name
    BY <1>2, <1>8 DEF MakesDest
  <2>2. LastGen(This(t).dest) + 1 \in 1..MaxGen /\ file' \in [Dirs -> [Name -> File]]
    BY <1>2, <2>1, NewVaultWrites
  <2>3. <<This(t).dest, LastGen(This(t).dest) + 1>> \in Party
    BY <2>1, <2>2, IsVault
  <2>4. TypeOK'
    BY <1>1, <2>2 DEF Types, TypeOK, tokens, market
  <2>. QED
    BY <1>1, <1>3, <1>8, <2>3, <2>4 DEF MakesDest, Types
<1>. QED
  BY <1>5, <1>6, <1>7, <1>8, GetDestDoes DEF Types

\* The vault of the remainder is resolved: from a file, at home's from the cloud too, or made.
LEMMA GetsRefund ==
    ASSUME Types, NEW t \in Terminals, GetRefund(t)
    PROVE  /\ Types' /\ at[t] \in {"refund", "refund missing"} /\ Others(t)
           /\ UNCHANGED <<tokens, net, market, sent>>
           /\ \/ /\ MissesRefund(t)
                 /\ Continues(t, "refund missing", job[t].mine, job[t].dest, job[t].refund)
              \/ /\ UNCHANGED file
                 /\ \E d \in Dirs :
                     /\ at[t] = "refund" \/ Dir[t] = "cloud"
                     /\ d = IF Dir[t] = "cloud" /\ This(t).refund \in Treasuries THEN "home" ELSE Dir[t]
                     /\ Exists(file[d][This(t).refund])
                     /\ Continues(t, "check", job[t].mine, job[t].dest,
                                  <<This(t).refund, file[d][This(t).refund].gen>>)
              \/ /\ at[t] = "refund missing" /\ NewVault(t, This(t).refund)
                 /\ Dir[t] = "cloud" => This(t).refund \notin Treasuries
                 /\ Continues(t, "check", job[t].mine, job[t].dest,
                              <<This(t).refund, LastGen(This(t).refund) + 1>>)
<1>1. at[t] \in {"refund", "refund missing"} /\ UNCHANGED <<tokens, net, market, sent>>
  BY GetRefundDoes DEF Types
<1>2. /\ at[t] \in Working /\ "check" \in Working /\ "refund missing" \in Working
      /\ "refund missing" \notin HasRefund
      /\ Exists(job[t].mine) /\ job[t] \in Job
      /\ This(t).refund \in Name
      /\ Dir[t] \in Dirs /\ file \in [Dirs -> [Name -> File]]
  <2>1. at[t] \in Loaded
    BY <1>1 DEF Loaded
  <2>2. at[t] \in Working
    BY <2>1 DEF Working
  <2>. QED
    BY <2>1, <2>2, StepTyped, TreasuryAssumption
       DEF Types, JobsTyped, JobTyped, TypeOK, Working, Loaded, HasRefund, Dirs
<1>3. ASSUME NEW v \in Vault, at' = [at EXCEPT ![t] = "check"],
             job' = [job EXCEPT ![t] = [job[t] EXCEPT !.refund = v]]
      PROVE  JobsTyped' /\ Continues(t, "check", job[t].mine, job[t].dest, v) /\ Others(t)
  <2>. DEFINE j == [job[t] EXCEPT !.refund = v]
  <2>1. /\ j \in Job /\ j.mine = job[t].mine /\ j.dest = job[t].dest /\ j.refund = v
        /\ j.script = job[t].script /\ j.k = job[t].k
    BY <1>2 DEF Job, Party
  <2>2. job' = [job EXCEPT ![t] = j]
    BY <1>3
  <2>. HIDE DEF j
  <2>3. JobsTyped' /\ Continues(t, "check", j.mine, j.dest, j.refund) /\ Others(t)
    BY <1>2, <1>3, <2>1, <2>2, GoesOn DEF Types, Sets
  <2>. QED
    BY <2>1, <2>3
<1>4. UNCHANGED file => TypeOK'
  BY <1>1 DEF Types, TypeOK, tokens, market
<1>5. CASE MissesRefund(t) /\ at' = [at EXCEPT ![t] = "refund missing"]
  <2>1. job' = [job EXCEPT ![t] = job[t]] /\ UNCHANGED file
    BY <1>5 DEF MissesRefund, Types, JobsTyped
  <2>2. JobsTyped' /\ Continues(t, "refund missing", job[t].mine, job[t].dest, job[t].refund) /\ Others(t)
    BY <1>2, <1>5, <2>1, GoesOn DEF Types, Sets
  <2>. QED
    BY <1>1, <1>4, <1>5, <2>1, <2>2 DEF Types
<1>6. CASE FindsRefund(t) /\ at' = [at EXCEPT ![t] = "check"]
  <2>0. PICK d \in Dirs :
            /\ at[t] = "refund" \/ Dir[t] = "cloud"
            /\ d = IF Dir[t] = "cloud" /\ This(t).refund \in Treasuries THEN "home" ELSE Dir[t]
            /\ Exists(file[d][This(t).refund]) /\ UNCHANGED file
            /\ job' = [job EXCEPT ![t] = [job[t] EXCEPT !.refund = <<This(t).refund, file[d][This(t).refund].gen>>]]
    BY <1>6 DEF FindsRefund
  <2>1. <<This(t).refund, file[d][This(t).refund].gen>> \in Vault
    <3>1. file[d][This(t).refund] \in File
      BY <1>2
    <3>2. file[d][This(t).refund].gen \in 1..MaxGen
      BY <2>0, <3>1, TreasuryAssumption DEF File, Exists
    <3>. QED
      BY <1>2, <3>2, IsVault
  <2>2. /\ JobsTyped' /\ Others(t)
        /\ Continues(t, "check", job[t].mine, job[t].dest, <<This(t).refund, file[d][This(t).refund].gen>>)
    BY <1>3, <1>6, <2>0, <2>1
  <2>. QED
    BY <1>1, <1>4, <2>0, <2>2 DEF Types
<1>7. CASE MakesRefund(t) /\ at' = [at EXCEPT ![t] = "check"]
  <2>1. NewVault(t, This(t).refund)
    BY <1>7 DEF MakesRefund
  <2>2. LastGen(This(t).refund) + 1 \in 1..MaxGen /\ file' \in [Dirs -> [Name -> File]]
    BY <1>2, <2>1, NewVaultWrites
  <2>3. <<This(t).refund, LastGen(This(t).refund) + 1>> \in Vault
    BY <1>2, <2>2, IsVault
  <2>4. TypeOK'
    BY <1>1, <2>2 DEF Types, TypeOK, tokens, market
  <2>. QED
    BY <1>1, <1>3, <1>7, <2>3, <2>4 DEF MakesRefund, Types
<1>. QED
  BY <1>5, <1>6, <1>7, GetRefundDoes DEF Types

\* A spend that passes is one that checkSpend accepts, or is not looked at.
LEMMA Checks ==
    ASSUME Types, NEW t \in Terminals, Check(t)
    PROVE  /\ Types' /\ at[t] = "check" /\ Others(t)
           /\ This(t).checked /\ job[t].mine.signed = NoDigest => Checked(Asked(t))
           /\ Continues(t, "sign", job[t].mine, job[t].dest, job[t].refund)
           /\ UNCHANGED <<file, tokens, net, market, sent>>
<1>1. /\ at[t] = "check" /\ UNCHANGED <<file, tokens, net, market, sent>>
      /\ This(t).checked /\ job[t].mine.signed = NoDigest => Checked(Asked(t))
      /\ Sets(t, "sign", job[t])
  BY DEF Check, Goto, Sets, Types, JobsTyped
<1>2. at[t] \in Working /\ "sign" \in Working /\ job[t] \in Job /\ Exists(job[t].mine) /\ job[t].refund \in Vault
  BY <1>1 DEF Types, JobsTyped, JobTyped, Working, Loaded, HasRefund
<1>3. JobsTyped' /\ Continues(t, "sign", job[t].mine, job[t].dest, job[t].refund) /\ Others(t)
  BY <1>1, <1>2, GoesOn DEF Types
<1>4. TypeOK'
  BY <1>1 DEF Types, TypeOK, tokens, market
<1>. QED
  BY <1>1, <1>3, <1>4 DEF Types

\* Signing keeps the types.
LEMMA Signs ==
    ASSUME Types, NEW t \in Terminals, Sign(t)
    PROVE  /\ Types' /\ Others(t)
           /\ \E p \in {"copy", "wait"} :
                  /\ p = "copy" => job[t].script.cmd = "presign"
                  /\ Continues(t, p, job[t].mine, job[t].dest, job[t].refund)
<1>1. /\ at[t] = "sign" /\ UNCHANGED <<job, tokens, market>>
      /\ file' \in [Dirs -> [Name -> File]] /\ sent' = sent \union {Asked(t)}
      /\ net' \subseteq net \union {Asked(t)}
  BY SignDoes
<1>2. /\ at[t] \in Working /\ "copy" \in Working /\ "wait" \in Working
      /\ job[t] \in Job /\ Exists(job[t].mine) /\ job[t].refund \in Vault /\ Asked(t) \in Digest
  BY <1>1, AskedTyped DEF Types, JobsTyped, JobTyped, Working, Loaded, HasRefund
<1>3. TypeOK'
  BY <1>1, <1>2 DEF Types, TypeOK, tokens, market
<1>4. PICK p \in {"copy", "wait"} :
          at' = [at EXCEPT ![t] = p] /\ (p = "copy" => job[t].script.cmd = "presign")
  BY SignDoes
<1>5. Sets(t, p, job[t])
  BY <1>1, <1>4 DEF Sets, Types, JobsTyped
<1>6. JobsTyped' /\ Continues(t, p, job[t].mine, job[t].dest, job[t].refund) /\ Others(t)
  BY <1>2, <1>5, GoesOn DEF Types
<1>. QED
  BY <1>3, <1>4, <1>6 DEF Types

\* Shipping keeps the types.
LEMMA Copies ==
    ASSUME Types, NEW t \in Terminals, Copy(t)
    PROVE  Types' /\ at'[t] = "idle" /\ Others(t)
<1>1. /\ at' = [at EXCEPT ![t] = "idle"] /\ job' = [job EXCEPT ![t] = NoJob]
      /\ UNCHANGED <<tokens, net, market, sent>> /\ file' \in [Dirs -> [Name -> File]]
  BY CopyDoes
<1>. QED
  BY <1>1, Ends DEF Types, TypeOK, tokens, market

\* A kill frees the terminal and changes nothing else.
LEMMA Stops ==
    ASSUME Types, NEW t \in Terminals, Throw(t)
    PROVE  Types' /\ at'[t] = "idle" /\ Others(t) /\ UNCHANGED <<file, tokens, net, market, sent>>
<1>1. /\ at' = [at EXCEPT ![t] = "idle"] /\ job' = [job EXCEPT ![t] = NoJob]
      /\ UNCHANGED <<file, tokens, net, market, sent>>
  BY DEF Throw, Stop, Goto
<1>. QED
  BY <1>1, Ends DEF Types, TypeOK, tokens, market

\* A step of a script is done: the next one, or the end.
LEMMA Lands ==
    ASSUME Types, NEW t \in Terminals, Landed(t)
    PROVE  /\ Types' /\ at[t] = "wait" /\ Others(t) /\ UNCHANGED <<file, tokens, net, market, sent>>
           /\ \/ at'[t] = "idle"
              \/ /\ at'[t] = "from" /\ job'[t].script = job[t].script /\ job'[t].k = job[t].k + 1
                 /\ job'[t].k \in DOMAIN job[t].script.steps /\ job[t].k >= 1
<1>1. at[t] = "wait" /\ UNCHANGED <<file, tokens, net, market, sent>>
  BY DEF Landed
<1>2. TypeOK'
  BY <1>1 DEF Types, TypeOK, tokens, market
<1>3. CASE job[t].k = Len(job[t].script.steps)
  <2>1. at' = [at EXCEPT ![t] = "idle"] /\ job' = [job EXCEPT ![t] = NoJob]
    BY <1>3 DEF Landed, Stop, Goto
  <2>. QED
    BY <1>1, <1>2, <2>1, Ends DEF Types
<1>4. CASE job[t].k # Len(job[t].script.steps)
  <2>. DEFINE j == [job[t] EXCEPT !.k = @ + 1]
  <2>1. Sets(t, "from", j)
    BY <1>4 DEF Landed, Goto, Sets, Types, JobsTyped
  <2>2. /\ job[t] \in Job /\ job[t].script \in Scripts[t] /\ job[t].script \in Script
        /\ job[t].k \in 1..Len(job[t].script.steps) /\ "from" \in Working
    BY <1>1, StepTyped DEF Types, JobsTyped, JobTyped, Working, Loaded
  <2>3. job[t].script.steps \in Seq(Plan)
    BY <2>2 DEF Script
  <2>4. j \in Job /\ j.script = job[t].script /\ j.k = job[t].k + 1
    BY <2>2 DEF Job
  <2>5. job[t].k + 1 \in DOMAIN job[t].script.steps /\ job[t].k >= 1
    BY <1>4, <2>2, <2>3
  <2>. HIDE DEF j
  <2>6. JobTyped(t, "from", j)
    BY <2>2, <2>4, <2>5 DEF JobTyped, Places, Working, Loaded, HasRefund, Minting
  <2>7. JobsTyped' /\ at'[t] = "from" /\ job'[t] = j /\ Others(t)
    BY <2>1, <2>6, Moves DEF Types, Others
  <2>. QED
    BY <1>1, <1>2, <2>4, <2>5, <2>7 DEF Types
<1>. QED
  BY <1>3, <1>4

\* A spend that lands keeps the types.
LEMMA LandsOnChain ==
    ASSUME Types, NEW d \in net, Land(d)
    PROVE  Types'
<1>1. /\ held' \in [Party -> Nat] /\ spent' \in [Vault -> Digest \union {NoDigest}]
      /\ net' = net \ {d} /\ UNCHANGED <<file, at, job, mints, market, sent>>
  BY LandDoes
<1>. QED
  BY <1>1 DEF Types, TypeOK, JobsTyped, JobTyped, market

\* Genesis makes its key file and goes on to the mint.
LEMMA GenesisStarts ==
    ASSUME Types, NEW t \in Terminals, Genesis(t)
    PROVE  /\ Types' /\ Dir[t] = "home" /\ ~Exists(file["home"]["genesis"]) /\ NewVault(t, "genesis")
           /\ at[t] = "idle" /\ at'[t] = "mint" /\ Others(t)
           /\ job'[t].dest = <<"genesis", LastGen("genesis") + 1>>
           /\ UNCHANGED <<tokens, net, market, sent>>
<1>. DEFINE v == <<"genesis", LastGen("genesis") + 1>>
            j == [job[t] EXCEPT !.dest = v]
<1>1. /\ Dir[t] = "home" /\ ~Exists(file["home"]["genesis"]) /\ NewVault(t, "genesis") /\ at[t] = "idle"
      /\ Sets(t, "mint", j) /\ UNCHANGED <<tokens, net, market, sent>>
  BY DEF Genesis, Goto, Sets, Types, JobsTyped
<1>2. "genesis" \in Name /\ file \in [Dirs -> [Name -> File]] /\ job[t] \in Job
  BY DEF Name, Types, TypeOK, JobsTyped
<1>3. v \in Vault /\ v \in Party /\ file' \in [Dirs -> [Name -> File]]
  BY <1>1, <1>2, NewVaultWrites, IsVault
<1>4. j \in Job /\ j.dest = v
  <2>. HIDE DEF v
  <2>. QED
    BY <1>2, <1>3 DEF Job
<1>. HIDE DEF j, v
<1>5. JobTyped(t, "mint", j)
  BY <1>3, <1>4 DEF JobTyped, Places, Working, Loaded, HasRefund, Minting
<1>6. JobsTyped' /\ at'[t] = "mint" /\ job'[t] = j /\ Others(t)
  BY <1>1, <1>5, Moves DEF Types, Others
<1>7. TypeOK'
  BY <1>1, <1>3 DEF Types, TypeOK, tokens, market
<1>. QED
  BY <1>1, <1>4, <1>6, <1>7 DEF Types, v

\* The mint is created, with no supply.
LEMMA MintIsMade ==
    ASSUME Types, NEW t \in Terminals, CreateMint(t)
    PROVE  /\ Types' /\ at[t] = "mint" /\ at'[t] = "supply" /\ job'[t] = job[t] /\ Others(t)
           /\ mints'.closed = mints.closed /\ UNCHANGED <<file, held, spent, net, market, sent>>
<1>1. /\ at[t] = "mint" /\ mints' = [mints EXCEPT !.created = @ + 1]
      /\ Sets(t, "supply", job[t]) /\ UNCHANGED <<file, held, spent, net, market, sent>>
  BY DEF CreateMint, Goto, Sets, Types, JobsTyped
<1>2. mints \in [created: Nat, closed: Nat]
  BY DEF Types, TypeOK
<1>3. mints' \in [created: Nat, closed: Nat] /\ mints'.closed = mints.closed
  BY <1>1, <1>2
<1>4. JobTyped(t, "supply", job[t])
  BY <1>1 DEF Types, JobsTyped, JobTyped, Places, Working, Loaded, HasRefund, Minting
<1>5. JobsTyped' /\ at'[t] = "supply" /\ job'[t] = job[t] /\ Others(t)
  BY <1>1, <1>4, Moves DEF Types, Others
<1>6. TypeOK'
  BY <1>1, <1>3 DEF Types, TypeOK, market
<1>. QED
  BY <1>1, <1>3, <1>5, <1>6 DEF Types

\* The supply is minted to genesis and the mint closed.
LEMMA SupplyIsMinted ==
    ASSUME Types, NEW t \in Terminals, MintSupply(t)
    PROVE  /\ Types' /\ at[t] = "supply" /\ at'[t] = "idle" /\ Others(t)
           /\ mints'.closed = mints.closed + 1 /\ job[t].dest \in Vault /\ job[t].dest \in Party
           /\ held'[job[t].dest] = held[job[t].dest] + Supply
           /\ \A p \in Party : p # job[t].dest => held'[p] = held[p]
           /\ UNCHANGED <<file, spent, net, market, sent>>
<1>1. /\ at[t] = "supply" /\ mints' = [mints EXCEPT !.closed = @ + 1]
      /\ held' = [held EXCEPT ![job[t].dest] = @ + Supply]
      /\ at' = [at EXCEPT ![t] = "idle"] /\ job' = [job EXCEPT ![t] = NoJob]
      /\ UNCHANGED <<file, spent, net, market, sent>>
  BY DEF MintSupply, Stop, Goto
<1>2. /\ mints \in [created: Nat, closed: Nat] /\ held \in [Party -> Nat] /\ Supply \in Nat
      /\ job[t].dest \in Vault /\ job[t].dest \in Party
  BY <1>1, VaultParts, TreasuryAssumption DEF Types, TypeOK, JobsTyped, JobTyped, Minting
<1>3. mints' \in [created: Nat, closed: Nat] /\ mints'.closed = mints.closed + 1
  BY <1>1, <1>2
<1>4. /\ held' \in [Party -> Nat] /\ held'[job[t].dest] = held[job[t].dest] + Supply
      /\ \A p \in Party : p # job[t].dest => held'[p] = held[p]
  BY <1>1, <1>2
<1>5. JobsTyped' /\ at'[t] = "idle" /\ Others(t)
  BY <1>1, Ends DEF Types
<1>6. TypeOK'
  BY <1>1, <1>3, <1>4 DEF Types, TypeOK, market
<1>. QED
  BY <1>1, <1>2, <1>3, <1>4, <1>5, <1>6 DEF Types

\* return-prep.ts makes one key file.
LEMMA ReturnIsPrepared ==
    ASSUME Types, NEW t \in Terminals, NEW n \in Returns, ReturnPrep(t, n)
    PROVE  /\ Types' /\ Dir[t] = "home" /\ mints.closed > 0 /\ n \in Name
           /\ ~Exists(file["home"][n]) /\ NewVault(t, n)
           /\ UNCHANGED <<at, job, tokens, net, market, sent>>
<1>1. /\ Dir[t] = "home" /\ mints.closed > 0 /\ ~Exists(file["home"][n]) /\ NewVault(t, n)
      /\ UNCHANGED <<at, job, tokens, net, market, sent>>
  BY DEF ReturnPrep
<1>2. n \in Name /\ file \in [Dirs -> [Name -> File]]
  BY DEF Name, Types, TypeOK
<1>3. file' \in [Dirs -> [Name -> File]]
  BY <1>1, <1>2, NewVaultWrites
<1>. QED
  BY <1>1, <1>2, <1>3 DEF Types, TypeOK, JobsTyped, JobTyped, tokens, market

\* launch-pool.ts moves the payer's tokens into the pool.
LEMMA PoolIsLaunched ==
    ASSUME Types, NEW t \in Terminals, LaunchPool(t)
    PROVE  /\ Types' /\ mints.closed > 0 /\ pool = 0 /\ pool' = PoolQc /\ held[Payer] >= PoolQc
           /\ Payer \in Party /\ held'[Payer] = held[Payer] - PoolQc
           /\ \A p \in Party : p # Payer => held'[p] = held[p]
           /\ UNCHANGED <<file, at, job, spent, mints, net, fees, claims, sent>>
<1>1. /\ mints.closed > 0 /\ pool = 0 /\ pool' = PoolQc /\ held[Payer] >= PoolQc
      /\ held' = [held EXCEPT ![Payer] = @ - PoolQc]
      /\ UNCHANGED <<file, at, job, spent, mints, net, fees, claims, sent>>
  BY DEF LaunchPool
<1>2. Payer \in Party /\ PoolQc \in Nat /\ held \in [Party -> Nat]
  BY TreasuryAssumption DEF Party, Types, TypeOK
<1>3. /\ held' \in [Party -> Nat] /\ held'[Payer] = held[Payer] - PoolQc
      /\ \A p \in Party : p # Payer => held'[p] = held[p]
  BY <1>1, <1>2
<1>. QED
  BY <1>1, <1>2, <1>3 DEF Types, TypeOK, JobsTyped, JobTyped

\* claim-fees.ts reads the fee and sends its transaction.
LEMMA FeesAreClaimed ==
    ASSUME Types, NEW t \in Terminals, Claim(t)
    PROVE  /\ Types' /\ at'[t] = "claim" /\ Others(t)
           /\ UNCHANGED <<file, tokens, net, pool, fees, sent>>
<1>. DEFINE j == [job[t] EXCEPT !.fee = fees.open]
<1>1. /\ Sets(t, "claim", j) /\ claims' = claims \union {fees.open}
      /\ UNCHANGED <<file, tokens, net, pool, fees, sent>>
  BY DEF Claim, Goto, Sets, Types, JobsTyped
<1>2. fees.open \in Nat /\ job[t] \in Job
  BY DEF Types, TypeOK, JobsTyped
<1>3. j \in Job
  BY <1>2 DEF Job
<1>. HIDE DEF j
<1>4. JobTyped(t, "claim", j)
  BY <1>3 DEF JobTyped, Places, Working, Loaded, HasRefund, Minting
<1>5. JobsTyped' /\ at'[t] = "claim" /\ Others(t)
  BY <1>1, <1>4, Moves DEF Types, Others
<1>6. TypeOK'
  BY <1>1, <1>2 DEF Types, TypeOK, tokens
<1>. QED
  BY <1>1, <1>5, <1>6 DEF Types

\* The transaction claims the fees and forwards the amount read.
LEMMA ClaimLands ==
    ASSUME Types, NEW c \in claims, LandClaim(c)
    PROVE  /\ Types' /\ UNCHANGED <<file, tokens, net, pool, sent>>
           /\ \A t \in Terminals : at'[t] = "idle" \/ (at'[t] = at[t] /\ job'[t] = job[t])
<1>1. /\ c <= fees.open + fees.kept
      /\ fees' = [open |-> 0, squads |-> fees.squads + c, kept |-> fees.kept + fees.open - c]
      /\ claims' = claims \ {c}
      /\ at' = [t \in Terminals |-> IF at[t] = "claim" /\ job[t].fee = c THEN "idle" ELSE at[t]]
      /\ job' = [t \in Terminals |-> IF at[t] = "claim" /\ job[t].fee = c THEN NoJob ELSE job[t]]
      /\ UNCHANGED <<file, tokens, net, pool, sent>>
  BY DEF LandClaim
<1>2. fees \in [open: Nat, squads: Nat, kept: Nat] /\ c \in Nat
  BY DEF Types, TypeOK
<1>3. fees' \in [open: Nat, squads: Nat, kept: Nat]
  BY <1>1, <1>2
<1>4. \A t \in Terminals : \/ at'[t] = "idle" /\ job'[t] = NoJob
                           \/ at'[t] = at[t] /\ job'[t] = job[t]
  BY <1>1
<1>5. ASSUME NEW t \in Terminals PROVE JobTyped(t, at'[t], job'[t])
  <2>1. CASE at'[t] = "idle" /\ job'[t] = NoJob
    BY <2>1, NoJobTyped
  <2>2. CASE at'[t] = at[t] /\ job'[t] = job[t]
    BY <2>2 DEF Types, JobsTyped
  <2>. QED
    BY <1>4, <2>1, <2>2
<1>6. at' \in [Terminals -> Places] /\ job' \in [Terminals -> Job]
  <2>1. \A t \in Terminals : at'[t] \in Places /\ job'[t] \in Job
    BY <1>5 DEF JobTyped
  <2>2. DOMAIN at' = Terminals /\ DOMAIN job' = Terminals
    BY <1>1
  <2>. QED
    BY <1>1, <2>1
<1>7. JobsTyped'
  BY <1>5, <1>6 DEF JobsTyped
<1>8. TypeOK'
  BY <1>1, <1>3 DEF Types, TypeOK, tokens
<1>. QED
  BY <1>1, <1>4, <1>7, <1>8 DEF Types

\* Steps that touch neither files nor scripts nor balances.
Elsewhere == Trade \/ (\E d \in net : Expire(d)) \/ (\E c \in claims : ExpireClaim(c)) \/ UNCHANGED vars

\* They change what the market and the network hold, and nothing else.
LEMMA ElsewhereDoes ==
    ASSUME Types, Elsewhere
    PROVE  Types' /\ UNCHANGED <<file, at, job, tokens, pool, sent>> /\ net' \subseteq net
<1>1. fees \in [open: Nat, squads: Nat, kept: Nat]
  BY DEF Types, TypeOK
<1>2. /\ UNCHANGED <<file, at, job, tokens, pool, sent>> /\ net' \subseteq net
      /\ fees' \in [open: Nat, squads: Nat, kept: Nat] /\ claims' \subseteq claims
  <2>1. CASE Trade
    <3>1. fees' = [fees EXCEPT !.open = @ + 1] /\ UNCHANGED <<file, at, job, tokens, net, pool, claims, sent>>
      BY <2>1 DEF Trade
    <3>. QED
      BY <1>1, <3>1
  <2>2. CASE \E d \in net : Expire(d)
    BY <1>1, <2>2 DEF Expire, market
  <2>3. CASE \E c \in claims : ExpireClaim(c)
    BY <1>1, <2>3 DEF ExpireClaim
  <2>4. CASE UNCHANGED vars
    BY <1>1, <2>4 DEF vars, market
  <2>. QED
    BY <2>1, <2>2, <2>3, <2>4 DEF Elsewhere
<1>. QED
  BY <1>2 DEF Types, TypeOK, JobsTyped, JobTyped, tokens

\* Every step is one of these.
LEMMA Cases ==
    ASSUME [Next]_vars
    PROVE  \/ \E t \in Terminals :
                  \/ \E s \in Scripts[t] : Start(t, s)
                  \/ GetNames(t) \/ LoadFrom(t) \/ GetDest(t) \/ GetRefund(t) \/ Check(t) \/ Sign(t)
                  \/ Copy(t) \/ Landed(t) \/ Throw(t)
                  \/ \E n \in Returns : ReturnPrep(t, n)
                  \/ Genesis(t) \/ CreateMint(t) \/ MintSupply(t) \/ LaunchPool(t) \/ Claim(t)
           \/ \E d \in net : Land(d)
           \/ \E c \in claims : LandClaim(c)
           \/ Elsewhere
BY Zenon DEF Next, Elsewhere

\* Every step keeps the types.
LEMMA TypeStep ==
    ASSUME Types, [Next]_vars
    PROVE  Types'
<1>1. ASSUME NEW t \in Terminals, NEW s \in Scripts[t], Start(t, s) PROVE Types'
  BY <1>1, Starts
<1>2. ASSUME NEW t \in Terminals,
             GetNames(t) \/ LoadFrom(t) \/ GetDest(t) \/ GetRefund(t) \/ Check(t) \/ Sign(t) \/ Copy(t)
             \/ Landed(t) \/ Throw(t)
      PROVE  Types'
  BY <1>2, GetsNames, Loads, GetsDest, GetsRefund, Checks, Signs, Copies, Lands, Stops
<1>3. ASSUME NEW t \in Terminals, NEW n \in Returns, ReturnPrep(t, n) PROVE Types'
  BY <1>3, ReturnIsPrepared
<1>4. ASSUME NEW t \in Terminals,
             Genesis(t) \/ CreateMint(t) \/ MintSupply(t) \/ LaunchPool(t) \/ Claim(t)
      PROVE  Types'
  BY <1>4, GenesisStarts, MintIsMade, SupplyIsMinted, PoolIsLaunched, FeesAreClaimed
<1>5. ASSUME NEW d \in net, Land(d) PROVE Types'
  BY <1>5, LandsOnChain
<1>6. ASSUME NEW c \in claims, LandClaim(c) PROVE Types'
  BY <1>6, ClaimLands
<1>. QED
  BY <1>1, <1>2, <1>3, <1>4, <1>5, <1>6, Cases, ElsewhereDoes

\* Initially nothing is there.
LEMMA TypesAtStart == ASSUME Init PROVE Types
<1>1. NoFile \in File
  BY TreasuryAssumption DEF NoFile, File
<1>2. TypeOK
  BY <1>1 DEF Init, TypeOK
<1>3. \A t : JobTyped(t, "idle", NoJob)
  BY NoJobTyped
<1>4. JobsTyped
  <2>1. "idle" \in Places /\ NoJob \in Job
    BY <1>3 DEF JobTyped
  <2>. QED
    BY <1>3, <2>1 DEF Init, JobsTyped
<1>. QED
  BY <1>2, <1>4 DEF Types

\* Key files, balances, digests and fees have their types.
THEOREM TypeCorrect == Spec => []TypeOK
<1>1. Spec => []Types
  BY TypesAtStart, TypeStep, PTL DEF Spec
<1>2. Types => TypeOK
  BY DEF Types
<1>. QED
  BY <1>1, <1>2, PTL

-----------------------------------------------------------------------------
(* The supply.                                                              *)

\* Nothing is created or lost by a payment.
LEMMA PaymentKeepsSum ==
    ASSUME NEW S, IsFiniteSet(S), NEW f \in [S -> Nat], NEW g \in [S -> Nat],
           NEW v \in S, NEW w \in S, NEW r \in S, v # w, v # r, w # r, NEW n \in Nat, n <= f[v],
           g[v] = 0, g[w] = f[w] + n, g[r] = f[r] + (f[v] - n),
           \A x \in S \ {v, w, r} : g[x] = f[x]
    PROVE  Sum(g, S) = Sum(f, S)
<1>. DEFINE f1 == [f EXCEPT ![v] = 0]
            f2 == [f1 EXCEPT ![w] = f[w] + n]
<1>1. /\ f1 \in [S -> Nat] /\ f1[v] = 0 /\ \A x \in S : v # x => f1[x] = f[x]
      /\ f2 \in [S -> Nat] /\ f2[w] = f[w] + n /\ \A x \in S : w # x => f2[x] = f1[x]
  OBVIOUS
<1>. HIDE DEF f1, f2
<1>2. \A x \in S : r # x => g[x] = f2[x]
  <2>. SUFFICES ASSUME NEW x \in S, r # x PROVE g[x] = f2[x]
    OBVIOUS
  <2>1. CASE x = v
    BY <1>1, <2>1
  <2>2. CASE x = w
    BY <1>1, <2>2
  <2>3. CASE x # v /\ x # w
    BY <1>1, <2>3
  <2>. QED
    BY <2>1, <2>2, <2>3
<1>3. \A x \in S : f[x] \in Nat /\ f1[x] \in Nat /\ f2[x] \in Nat /\ g[x] \in Nat
  BY <1>1
<1>4. Sum(f1, S) + f[v] = Sum(f, S) + f1[v] /\ Sum(f1, S) \in Nat /\ Sum(f, S) \in Nat
  BY <1>1, <1>3, SumChange
<1>5. Sum(f2, S) + f1[w] = Sum(f1, S) + f2[w] /\ Sum(f2, S) \in Nat
  BY <1>1, <1>3, SumChange
<1>6. Sum(g, S) + f2[r] = Sum(f2, S) + g[r] /\ Sum(g, S) \in Nat
  BY <1>2, <1>3, SumChange
<1>7. f1[v] = 0 /\ f1[w] = f[w] /\ f2[w] = f[w] + n /\ f2[r] = f[r]
  BY <1>1
<1>8. f[v] \in Nat /\ f[w] \in Nat /\ f[r] \in Nat
  OBVIOUS
<1>9. /\ Sum(f1, S) + f[v] = Sum(f, S)
      /\ Sum(f2, S) + f[w] = Sum(f1, S) + (f[w] + n)
      /\ Sum(g, S) + f[r] = Sum(f2, S) + (f[r] + (f[v] - n))
  BY <1>4, <1>5, <1>6, <1>7
<1>10. \A a, b, c, d, x, y, z \in Nat :
           n <= x /\ b + x = a /\ c + y = b + (y + n) /\ d + z = c + (z + (x - n)) => d = a
  OBVIOUS
<1>. QED
  BY <1>4, <1>5, <1>6, <1>8, <1>9, <1>10

\* There are finitely many holders.
LEMMA PartyFinite == IsFiniteSet(Party) /\ Listed \subseteq Party
<1>1. IsFiniteSet(Treasuries) /\ IsFiniteSet(Allocations) /\ IsFiniteSet(Benches) /\ IsFiniteSet(Returns)
  BY TreasuryAssumption
<1>2. IsFiniteSet({"genesis", "bounty"})
  <2>1. IsFiniteSet({"genesis"}) /\ IsFiniteSet({"bounty"})
    BY FS_Singleton
  <2>2. {"genesis", "bounty"} = {"genesis"} \union {"bounty"}
    OBVIOUS
  <2>. QED
    BY <2>1, <2>2, FS_Union
<1>3. IsFiniteSet({"genesis", "bounty"} \union Treasuries)
  BY <1>1, <1>2, FS_Union
<1>4. IsFiniteSet(({"genesis", "bounty"} \union Treasuries) \union Allocations)
  BY <1>1, <1>3, FS_Union
<1>5. IsFiniteSet((({"genesis", "bounty"} \union Treasuries) \union Allocations) \union Benches)
  BY <1>1, <1>4, FS_Union
<1>6. IsFiniteSet(Name)
  BY <1>1, <1>5, FS_Union DEF Name
<1>7. IsFiniteSet(1..MaxGen)
  BY TreasuryAssumption, FS_Interval
<1>8. IsFiniteSet(Vault)
  BY <1>6, <1>7, FS_Product DEF Vault
<1>9. IsFiniteSet({Payer})
  BY FS_Singleton
<1>. QED
  BY <1>8, <1>9, FS_Union DEF Party, Listed

Has(n) == Exists(file["home"][n])

\* A key file at home never goes away.
LEMMA HomeStays ==
    ASSUME Types, [Next]_vars, NEW n \in Name, Has(n)
    PROVE  Has(n)'
<1>1. file \in [Dirs -> [Name -> File]] /\ "home" \in Dirs
  BY DEF Types, TypeOK, Dirs
<1>2. ASSUME NEW t \in Terminals, NEW m \in Name, NewVault(t, m) PROVE Has(n)'
  <2>1. /\ file'[Dir[t]][m] = Fresh(m) /\ Fresh(m).gen # 0
        /\ \A d \in Dirs, x \in Name : d # Dir[t] \/ x # m => file'[d][x] = file[d][x]
    BY <1>1, <1>2, NewVaultWrites
  <2>. QED
    BY <1>1, <2>1 DEF Has, Exists
<1>3. ASSUME NEW t \in Terminals, GetNames(t) PROVE Has(n)'
  <2>1. /\ \A x \in Name : x \notin job[t].script.names \/ Exists(file[Dir[t]][x]) => file'[Dir[t]][x] = file[Dir[t]][x]
        /\ \A d \in Dirs, x \in Name : d # Dir[t] => file'[d][x] = file[d][x]
    BY <1>1, <1>3, GetNamesWrites
  <2>. QED
    BY <1>1, <2>1 DEF Has
<1>4. ASSUME NEW t \in Terminals, GetDest(t) PROVE Has(n)'
  <2>1. UNCHANGED file \/ (NewVault(t, This(t).dest) /\ This(t).dest \in Name)
    <3>1. at[t] \in Working
      BY <1>4, GetsDest DEF Working, Loaded
    <3>2. This(t).dest # "payer" => This(t).dest \in Name
      BY <3>1, StepTyped DEF Types
    <3>. QED
      BY <1>4, <3>2, GetsDest DEF MissesDest
  <2>. QED
    BY <1>2, <2>1 DEF Has
<1>5. ASSUME NEW t \in Terminals, GetRefund(t) PROVE Has(n)'
  <2>1. UNCHANGED file \/ (NewVault(t, This(t).refund) /\ This(t).refund \in Name)
    <3>1. at[t] \in Working
      BY <1>5, GetsRefund DEF Working, Loaded
    <3>2. This(t).refund \in Name
      BY <3>1, StepTyped DEF Types
    <3>. QED
      BY <1>5, <3>2, GetsRefund DEF MissesRefund
  <2>. QED
    BY <1>2, <2>1 DEF Has
<1>6. ASSUME NEW t \in Terminals, Sign(t) PROVE Has(n)'
  <2>1. /\ file'[Dir[t]][This(t).from].gen = job[t].mine.gen \/ UNCHANGED file
        /\ \A d \in Dirs, x \in Name : d # Dir[t] \/ x # This(t).from => file'[d][x] = file[d][x]
        /\ at[t] = "sign"
    BY <1>6, SignDoes
  <2>2. job[t].mine.gen # 0
    BY <2>1 DEF Types, JobsTyped, JobTyped, Loaded, Exists
  <2>. QED
    BY <1>1, <2>1, <2>2 DEF Has, Exists
<1>7. ASSUME NEW t \in Terminals, Copy(t) PROVE Has(n)'
  BY <1>7, CopyDoes DEF Has
<1>8. ASSUME NEW t \in Terminals, NEW m \in Returns, ReturnPrep(t, m) PROVE Has(n)'
  BY <1>2, <1>8, ReturnIsPrepared
<1>9. ASSUME NEW t \in Terminals, Genesis(t) PROVE Has(n)'
  BY <1>2, <1>9, GenesisStarts DEF Name
<1>10. CASE UNCHANGED file
  BY <1>10 DEF Has
<1>11. ASSUME NEW t \in Terminals, NEW s \in Scripts[t], Start(t, s) PROVE UNCHANGED file
  BY <1>11, Starts
<1>12. ASSUME NEW t \in Terminals,
             LoadFrom(t) \/ Check(t) \/ Landed(t) \/ Throw(t) \/ CreateMint(t) \/ MintSupply(t)
             \/ LaunchPool(t) \/ Claim(t)
       PROVE  UNCHANGED file
  BY <1>12, Loads, Checks, Lands, Stops, MintIsMade, SupplyIsMinted, PoolIsLaunched, FeesAreClaimed
<1>13. ASSUME NEW d \in net, Land(d) PROVE UNCHANGED file
  BY <1>13, LandDoes
<1>14. ASSUME NEW c \in claims, LandClaim(c) PROVE UNCHANGED file
  BY <1>14, ClaimLands
<1>. QED
  BY <1>3, <1>4, <1>5, <1>6, <1>7, <1>8, <1>9, <1>10, <1>11, <1>12, <1>13, <1>14, Cases, ElsewhereDoes

\* One supply was minted or none was yet, and whoever is minting has the keys of genesis.
MintInv ==
    /\ mints.closed \in {0, 1} /\ (~Has("genesis") => mints.closed = 0)
    /\ \A t \in Terminals : at[t] \in Minting => Dir[t] = "home" /\ Has("genesis") /\ mints.closed = 0
\* What was minted is held by somebody or locked in the pool.
SumInv ==
    /\ Sum(held, Party) + pool = IF mints.closed = 0 THEN 0 ELSE Supply
    /\ pool \in {0, PoolQc}
Minted == Types /\ MintInv /\ SumInv

\* Only genesis.ts mints: it makes the keys of genesis, which are never missing again.
LEMMA MintStep ==
    ASSUME OneTerminal, Types, Types', MintInv, [Next]_vars
    PROVE  MintInv'
<1>0. "genesis" \in Name
  BY DEF Name
<1>1. Has("genesis") => Has("genesis")'
  BY <1>0, HomeStays
<1>. DEFINE Same(t) == at'[t] \in Minting => at[t] \in Minting
<1>2. ASSUME mints'.closed = mints.closed, \A t \in Terminals : Same(t)
      PROVE  MintInv'
  BY <1>1, <1>2 DEF MintInv
<1>3. ASSUME NEW t \in Terminals, Others(t), at'[t] \notin Minting
      PROVE  \A u \in Terminals : Same(u)
  BY <1>3 DEF Others
<1>4. ASSUME NEW t \in Terminals, NEW s \in Scripts[t], Start(t, s) PROVE MintInv'
  <2>1. Others(t) /\ at'[t] = "from" /\ UNCHANGED tokens
    BY <1>4, Starts
  <2>. QED
    BY <1>2, <1>3, <2>1 DEF Minting, tokens
<1>5. ASSUME NEW t \in Terminals, GetNames(t) PROVE MintInv'
  <2>1. UNCHANGED <<at, tokens>>
    BY <1>5 DEF GetNames
  <2>. QED
    BY <1>2, <2>1 DEF tokens
<1>6. ASSUME NEW t \in Terminals,
             LoadFrom(t) \/ GetDest(t) \/ GetRefund(t) \/ Check(t) \/ Sign(t) \/ Copy(t) \/ Landed(t) \/ Throw(t)
      PROVE  MintInv'
  <2>1. Others(t) /\ at'[t] \in {"idle", "from"} \union Loaded
    <3>1. CASE LoadFrom(t) \/ Check(t) \/ Copy(t) \/ Landed(t) \/ Throw(t)
      BY <3>1, Loads, Checks, Copies, Lands, Stops DEF Continues, Loaded
    <3>2. CASE GetDest(t)
      BY <3>2, GetsDest DEF Continues, Loaded
    <3>3. CASE GetRefund(t)
      BY <3>3, GetsRefund DEF Continues, Loaded
    <3>4. CASE Sign(t)
      BY <3>4, Signs DEF Continues, Loaded
    <3>. QED
      BY <1>6, <3>1, <3>2, <3>3, <3>4
  <2>2. UNCHANGED tokens
    BY <1>6 DEF LoadFrom, GetDest, GetRefund, Check, Sign, Copy, Landed, Throw
  <2>. QED
    BY <1>2, <1>3, <2>1, <2>2 DEF Minting, Loaded, tokens
<1>7. ASSUME NEW t \in Terminals, NEW n \in Returns, ReturnPrep(t, n) PROVE MintInv'
  <2>1. UNCHANGED <<at, tokens>>
    BY <1>7 DEF ReturnPrep
  <2>. QED
    BY <1>2, <2>1 DEF tokens
<1>8. ASSUME NEW t \in Terminals, Genesis(t) PROVE MintInv'
  <2>1. /\ Dir[t] = "home" /\ ~Has("genesis") /\ NewVault(t, "genesis") /\ at'[t] = "mint" /\ Others(t)
        /\ UNCHANGED tokens
    BY <1>8, GenesisStarts DEF Has
  <2>2. file'["home"]["genesis"] = Fresh("genesis") /\ Fresh("genesis").gen # 0
    <3>1. file \in [Dirs -> [Name -> File]]
      BY DEF Types, TypeOK
    <3>2. file'[Dir[t]]["genesis"] = Fresh("genesis") /\ Fresh("genesis").gen # 0
      BY <1>0, <2>1, <3>1, NewVaultWrites
    <3>. QED
      BY <2>1, <3>2
  <2>3. Has("genesis")'
    BY <2>2 DEF Has, Exists
  <2>. QED
    BY <2>1, <2>3 DEF MintInv, Others, tokens
<1>9. ASSUME NEW t \in Terminals, CreateMint(t) PROVE MintInv'
  <2>1. at[t] = "mint" /\ at'[t] = "supply" /\ Others(t) /\ mints'.closed = mints.closed
    BY <1>9, MintIsMade
  <2>. QED
    BY <1>2, <2>1 DEF Others, Minting
<1>10. ASSUME NEW t \in Terminals, MintSupply(t) PROVE MintInv'
  <2>1. /\ at[t] = "supply" /\ at'[t] = "idle" /\ Others(t) /\ mints'.closed = mints.closed + 1
        /\ UNCHANGED file
    BY <1>10, SupplyIsMinted
  <2>2. Dir[t] = "home" /\ Has("genesis") /\ mints.closed = 0
    BY <2>1 DEF MintInv, Minting
  <2>3. \A u \in Terminals : at'[u] \notin Minting
    <3>1. ASSUME NEW u \in Terminals, u # t, at'[u] \in Minting PROVE FALSE
      BY <2>1, <2>2, <3>1 DEF MintInv, OneTerminal, Others
    <3>. QED
      BY <2>1, <3>1 DEF Minting
  <2>. QED
    BY <1>1, <2>1, <2>2, <2>3 DEF MintInv
<1>11. ASSUME NEW t \in Terminals, LaunchPool(t) PROVE MintInv'
  BY <1>2, <1>11, PoolIsLaunched
<1>12. ASSUME NEW t \in Terminals, Claim(t) PROVE MintInv'
  BY <1>2, <1>3, <1>12, FeesAreClaimed DEF Minting, tokens
<1>13. ASSUME NEW d \in net, Land(d) PROVE MintInv'
  BY <1>2, <1>13, LandDoes
<1>14. ASSUME NEW c \in claims, LandClaim(c) PROVE MintInv'
  BY <1>2, <1>14, ClaimLands DEF Minting, tokens
<1>15. CASE Elsewhere
  BY <1>2, <1>15, ElsewhereDoes DEF tokens
<1>. QED
  BY <1>4, <1>5, <1>6, <1>7, <1>8, <1>9, <1>10, <1>11, <1>12, <1>13, <1>14, <1>15, Cases

\* Spends move tokens, the pool takes some of the payer's, and one minting brings them in.
LEMMA SumStep ==
    ASSUME Types, Types', MintInv, SumInv, [Next]_vars
    PROVE  SumInv'
<1>0. /\ IsFiniteSet(Party) /\ held \in [Party -> Nat] /\ held' \in [Party -> Nat]
      /\ \A p \in Party : held[p] \in Nat /\ held'[p] \in Nat
  BY PartyFinite DEF Types, TypeOK
<1>1. ASSUME UNCHANGED <<held, mints, pool>> PROVE SumInv'
  BY <1>1 DEF SumInv
<1>2. ASSUME NEW t \in Terminals, MintSupply(t) PROVE SumInv'
  <2>1. /\ at[t] = "supply" /\ mints'.closed = mints.closed + 1 /\ job[t].dest \in Party
        /\ held'[job[t].dest] = held[job[t].dest] + Supply
        /\ \A p \in Party : p # job[t].dest => held'[p] = held[p]
        /\ UNCHANGED pool
    BY <1>2, SupplyIsMinted DEF market
  <2>2. mints.closed = 0
    BY <2>1 DEF MintInv, Minting
  <2>. DEFINE x == held[job[t].dest]
              y == held'[job[t].dest]
  <2>3. Sum(held', Party) + x = Sum(held, Party) + y
        /\ Sum(held', Party) \in Nat /\ Sum(held, Party) \in Nat
    BY <1>0, <2>1, SumChange
  <2>4. x \in Nat /\ y = x + Supply /\ pool \in Nat /\ Supply \in Nat
    BY <1>0, <2>1, TreasuryAssumption DEF Types, TypeOK
  <2>. HIDE DEF x, y
  <2>5. Sum(held', Party) = Sum(held, Party) + Supply
    BY <2>3, <2>4
  <2>6. Sum(held', Party) + pool = Supply
    BY <2>2, <2>3, <2>4, <2>5 DEF SumInv
  <2>7. mints'.closed = 1
    BY <2>1, <2>2
  <2>. QED
    BY <2>1, <2>6, <2>7 DEF SumInv
<1>3. ASSUME NEW t \in Terminals, LaunchPool(t) PROVE SumInv'
  <2>1. /\ pool = 0 /\ pool' = PoolQc /\ held[Payer] >= PoolQc /\ Payer \in Party
        /\ held'[Payer] = held[Payer] - PoolQc
        /\ \A p \in Party : p # Payer => held'[p] = held[p]
        /\ UNCHANGED mints
    BY <1>3, PoolIsLaunched
  <2>2. Sum(held', Party) + held[Payer] = Sum(held, Party) + held'[Payer]
        /\ Sum(held', Party) \in Nat /\ Sum(held, Party) \in Nat
    BY <1>0, <2>1, SumChange
  <2>3. held[Payer] \in Nat /\ PoolQc \in Nat
    BY <1>0, <2>1, TreasuryAssumption
  <2>4. Sum(held', Party) + PoolQc = Sum(held, Party)
    BY <2>1, <2>2, <2>3
  <2>. QED
    BY <2>1, <2>2, <2>4 DEF SumInv
<1>4. ASSUME NEW d \in net, Land(d) PROVE SumInv'
  <2>1. /\ d.vault \in Party /\ d.dest \in Party /\ d.refund \in Party /\ d.amount \in Nat
        /\ d.vault # d.dest /\ d.vault # d.refund /\ d.dest # d.refund /\ d.amount <= held[d.vault]
        /\ held'[d.vault] = 0 /\ held'[d.dest] = held[d.dest] + d.amount
        /\ held'[d.refund] = held[d.refund] + (held[d.vault] - d.amount)
        /\ \A x \in Party \ {d.vault, d.dest, d.refund} : held'[x] = held[x]
        /\ UNCHANGED <<mints, pool>>
    BY <1>4, LandDoes DEF market
  <2>2. Sum(held', Party) = Sum(held, Party)
    BY <1>0, <2>1, PaymentKeepsSum
  <2>. QED
    BY <2>1, <2>2 DEF SumInv
<1>5. ASSUME NEW t \in Terminals, CreateMint(t) PROVE SumInv'
  BY <1>5, MintIsMade DEF SumInv, market
<1>6. ASSUME NEW t \in Terminals, NEW s \in Scripts[t], Start(t, s) PROVE SumInv'
  BY <1>1, <1>6 DEF Start, tokens, market
<1>7. ASSUME NEW t \in Terminals,
             GetNames(t) \/ LoadFrom(t) \/ GetDest(t) \/ GetRefund(t) \/ Check(t) \/ Sign(t) \/ Copy(t)
             \/ Landed(t) \/ Throw(t) \/ Genesis(t) \/ Claim(t)
      PROVE  SumInv'
  <2>1. UNCHANGED <<tokens, pool>>
    BY <1>7 DEF GetNames, LoadFrom, GetDest, GetRefund, Check, Sign, Copy, Landed, Throw, Genesis, Claim, market
  <2>. QED
    BY <1>1, <2>1 DEF tokens
<1>8. ASSUME NEW t \in Terminals, NEW n \in Returns, ReturnPrep(t, n) PROVE SumInv'
  BY <1>1, <1>8 DEF ReturnPrep, tokens, market
<1>9. ASSUME NEW c \in claims, LandClaim(c) PROVE SumInv'
  BY <1>1, <1>9 DEF LandClaim, tokens
<1>10. CASE Elsewhere
  BY <1>1, <1>10, ElsewhereDoes DEF tokens
<1>. QED
  BY <1>2, <1>3, <1>4, <1>5, <1>6, <1>7, <1>8, <1>9, <1>10, Cases

\* Initially nothing is minted.
LEMMA MintedAtStart == ASSUME Init PROVE Minted
<1>1. Types
  BY TypesAtStart
<1>2. MintInv
  BY DEF Init, MintInv, Minting, Has, Exists, NoFile, Name, Dirs
<1>3. Sum(held, Party) = 0 /\ pool = 0 /\ mints.closed = 0
  <2>1. \A p \in Party : held[p] = 0
    BY DEF Init
  <2>. QED
    BY <2>1, PartyFinite, SumZero DEF Init
<1>. QED
  BY <1>1, <1>2, <1>3 DEF Minted, SumInv

\* The parts that verify-mainnet.ts adds up make the whole.
LEMMA MintedIsWhole == ASSUME Minted PROVE SupplyWhole
<1>1. /\ IsFiniteSet(Party) /\ Listed \subseteq Party /\ \A p \in Party : held[p] \in Nat
  BY PartyFinite DEF Minted, Types, TypeOK
<1>2. Sum(held, Party) = Sum(held, Listed) + Sum(held, Party \ Listed)
  BY <1>1, SumSplit
<1>3. \A parties : Holdings(parties) = Sum(held, parties)
  BY DEF Holdings, Sum
<1>4. mints.closed > 0 => mints.closed = 1
  BY DEF Minted, MintInv
<1>. QED
  BY <1>2, <1>3, <1>4 DEF SupplyWhole, Verified, Minted, SumInv

\* There is one supply, minted by one run of genesis.ts, and it stays whole: no spend, pool or
\* script started again makes or loses a token.
THEOREM SupplyIsWhole ==
    ASSUME OneTerminal
    PROVE  Spec => []SupplyWhole
<1>1. ASSUME Minted, [Next]_vars PROVE Minted'
  <2>1. Types'
    BY <1>1, TypeStep DEF Minted
  <2>. QED
    BY <1>1, <2>1, MintStep, SumStep DEF Minted
<1>2. Spec => []Minted
  BY <1>1, MintedAtStart, PTL DEF Spec
<1>. QED
  BY <1>2, MintedIsWhole, PTL

-----------------------------------------------------------------------------
(* The keys.                                                                *)

Shipment == CHOOSE s \in Script : Ships(s)
Shipped == Shipment.names
Purse == Shipment.steps[1].from

\* Orderly scripts ship one set of vaults.
LEMMA TheShipment ==
    ASSUME Orderly
    PROVE  /\ Shipment \in Script /\ Ships(Shipment)
           /\ Purse \in Name /\ Shipped \subseteq Name /\ Purse \notin Shipped
<1>1. Shipment \in Script /\ Ships(Shipment)
  BY DEF Orderly, Shipment
<1>2. Shipment.steps \in Seq(Plan) /\ Shipment.steps # <<>> /\ Shipped \subseteq Name
  BY <1>1 DEF Script, Shipped
<1>3. Shipment.steps[1] \in Plan
  BY <1>2
<1>4. Purse \in Name
  BY <1>3 DEF Plan, Purse
<1>5. Purse \notin Shipped
  BY <1>1 DEF Ships, Purse, Shipped
<1>. QED
  BY <1>1, <1>2, <1>4, <1>5

\* The steps of scripts are plans.
LEMMA WantedTyped == ASSUME NEW dirs PROVE Wanted(dirs) \subseteq Plan
<1>. SUFFICES ASSUME NEW t \in Terminals, NEW p \in Scripts[t], NEW x \in Range(p.steps)
              PROVE  x \in Plan
  BY DEF Wanted
<1>1. p.steps \in Seq(Plan)
  BY ScriptsAssumption DEF Script
<1>. QED
  BY <1>1 DEF Range

\* What a running script may do with it.
LEMMA ScriptsKeepTo ==
    ASSUME Orderly, Types, NEW t \in Terminals, at[t] \in Working
    PROVE  /\ This(t) \in Wanted(Dirs)
           /\ Dir[t] = "home" /\ job[t].script.cmd = "presign" =>
                  job[t].script.names = Shipped /\ This(t).from = Purse
           /\ Dir[t] = "cloud" => /\ job[t].script.names = Shipped \union {Purse}
                                  /\ This(t).from \in Shipped \union {Purse} /\ This(t).checked
                                  /\ This(t).dest \in Shipped \union {"payer"}
                                  /\ This(t).refund \in Shipped \union Treasuries
                                  /\ job[t].k = 1 => This(t).from = Purse
<1>. DEFINE p == job[t].script
            k == job[t].k
<1>1. /\ p \in Scripts[t] /\ p \in Script /\ k \in 1..Len(p.steps) /\ This(t) \in Plan
      /\ This(t) = p.steps[k]
  BY StepTyped DEF Types, This
<1>2. This(t) \in Range(p.steps)
  <2>1. p.steps \in Seq(Plan)
    BY <1>1 DEF Script
  <2>. QED
    BY <1>1, <2>1 DEF Range
<1>. HIDE DEF p, k
<1>3. Ships(Shipment)
  BY TheShipment
<1>4. ASSUME NEW dirs, Dir[t] \in dirs PROVE This(t) \in Wanted(dirs)
  BY <1>1, <1>2, <1>4 DEF Wanted
<1>5. ASSUME Dir[t] = "home", p.cmd = "presign"
      PROVE  p.names = Shipped /\ This(t).from = Purse
  <2>1. p = Shipment
    BY <1>1, <1>3, <1>5 DEF Ships
  <2>2. k = 1
    BY <1>1, <1>3, <2>1 DEF Ships
  <2>. QED
    BY <1>1, <2>1, <2>2 DEF Shipped, Purse
<1>6. ASSUME Dir[t] = "cloud"
      PROVE  p.names = Shipped \union {Purse} /\ (k = 1 => This(t).from = Purse)
  <2>1. p.names = Shipped \union {Purse} /\ p.steps[1].from = Purse
    BY <1>1, <1>3, <1>6 DEF Ships, Shipped, Purse
  <2>. QED
    BY <1>1, <2>1
<1>7. \A x \in Wanted({"cloud"}) :
          /\ x.from \in Shipped \union {Purse} /\ x.checked
          /\ x.dest \in Shipped \union {"payer"} /\ x.refund \in Shipped \union Treasuries
  BY <1>3 DEF Ships, Shipped, Purse
<1>8. Dir[t] \in Dirs
  BY TreasuryAssumption DEF Dirs
<1>9. This(t) \in Wanted(Dirs) /\ (Dir[t] = "cloud" => This(t) \in Wanted({"cloud"}))
  BY <1>4, <1>8
<1>. QED
  BY <1>5, <1>6, <1>7, <1>9 DEF p, k

Key(n) == <<n, file["home"][n].gen>>
To(x) == IF x = "payer" THEN Payer ELSE Key(x)
Asks(x) == [vault |-> Key(x.from), dest |-> To(x.dest), refund |-> Key(x.refund), amount |-> x.amount]

\* The signed vault has arrived in the cloud.  A cloud machine may have made keys of that name for
\* itself instead: their number is, and stays, another one than that of the keys at home.
Arrived == Has(Purse) /\ file["cloud"][Purse].gen = file["home"][Purse].gen
Strange(g) == g # file["home"][Purse].gen /\ (g = file["cloud"][Purse].gen \/ Has(Purse))
Own(t) == Dir[t] = "cloud" /\ at[t] \in Loaded /\ This(t).from = Purse /\ Strange(job[t].mine.gen)

\* Key files at home have their masters.  Files in the cloud, once the signed vault has arrived,
\* are of the keys at home; until then the vault the bench starts from has signed nothing there.
Masters == \A n \in Name : Has(n) => file["home"][n].master
CloudFiles ==
    /\ Arrived => /\ file["cloud"][Purse].signed = file["home"][Purse].signed
                  /\ file["home"][Purse].signed # NoDigest
                  /\ \A n \in Shipped : Has(n) /\ file["cloud"][n].gen = file["home"][n].gen
    /\ ~Arrived => file["cloud"][Purse].signed = NoDigest
FilesInv == Masters /\ CloudFiles

\* What a terminal has loaded is what the files at home say.
CopiesInv(t) ==
    /\ at[t] \in Loaded /\ ~Own(t) => job[t].mine.gen = file["home"][This(t).from].gen
    /\ at[t] \in HasDest /\ ~Own(t) => /\ job[t].dest = To(This(t).dest)
                                       /\ This(t).dest # "payer" => Has(This(t).dest)
    /\ at[t] \in HasRefund /\ ~Own(t) => job[t].refund = Key(This(t).refund) /\ Has(This(t).refund)
    /\ at[t] \in Minting => job[t].dest = Key("genesis")
HomeInv(t) ==
    Dir[t] = "home" =>
        /\ at[t] \in Loaded \ {"wait", "copy"} => job[t].mine = file["home"][This(t).from]
        /\ at[t] = "dest missing" => This(t).dest # "payer" /\ ~Has(This(t).dest)
        /\ at[t] = "refund missing" => ~Has(This(t).refund)
        /\ at[t] \in Loaded => \A n \in job[t].script.names : Has(n)
        /\ at[t] = "copy" => job[t].script.cmd = "presign" /\ file["home"][This(t).from].signed # NoDigest

\* In the cloud nothing is missing once the vault is loaded.  One that the machine made for itself
\* gets as far as checkSpend, which finds it empty.
CloudInv(t) ==
    Dir[t] = "cloud" =>
        /\ (at[t] \in Loaded /\ ~Own(t)) \/ (at[t] = "from" /\ job[t].k > 1) => Arrived
        /\ at[t] \notin {"dest missing", "refund missing", "copy"}
        /\ at[t] \in Working => job[t].script.cmd # "presign"
        /\ at[t] \in Loaded => \A n \in Shipped \union {Purse} : Exists(file["cloud"][n])
        /\ at[t] \in Loaded /\ This(t).from = Purse /\ ~Own(t) => job[t].mine.signed = file["home"][Purse].signed
        /\ Own(t) => at[t] \in {"dest", "refund", "check"} /\ job[t].mine.signed = NoDigest
JobInv(t) == CopiesInv(t) /\ HomeInv(t) /\ CloudInv(t)

\* Tokens lie in, and are sent to, vaults whose keys are at home.  What a key signed is recorded
\* there, or it is what all scripts want from a vault shipped.
Owned(v) == v \in Vault => v = Key(v[1])
Rec(e) ==
    /\ e.vault = Key(e.vault[1])
    /\ e.vault[1] \in Shipped => \E x \in Wanted(Dirs) : x.from = e.vault[1] /\ e = Asks(x)
    /\ e.vault[1] \notin Shipped => file["home"][e.vault[1]].signed = e
SentInv == \A e \in sent : Owned(e.refund) /\ Owned(e.dest) /\ Rec(e)
HeldInv == \A v \in Vault : held[v] > 0 => Owned(v)

KeysInv ==
    /\ Types /\ MintInv /\ FilesInv /\ SentInv /\ HeldInv
    /\ \A t \in Terminals : JobInv(t)

\* What a step may do to the files at home, and to those in the cloud.
Grows ==
    \A n \in Name : Has(n) =>
        /\ file'["home"][n].gen = file["home"][n].gen /\ file'["home"][n].master = file["home"][n].master
        /\ file["home"][n].signed # NoDigest => file'["home"][n].signed = file["home"][n].signed
SameAtHome == \A n \in Name : file'["home"][n] = file["home"][n]
SameInCloud == \A n \in Name : file'["cloud"][n] = file["cloud"][n]
CloudStep ==
    /\ Arrived => Arrived'
    /\ \A g \in Nat : Strange(g) => Strange(g)'
    /\ \A n \in Name : Exists(file["cloud"][n]) => Exists(file'["cloud"][n])
FilesStep(t) == Grows /\ FilesInv' /\ CloudStep /\ (Dir[t] = "cloud" => SameAtHome)

\* A key at home stays the same key.
LEMMA Steady ==
    ASSUME Grows, NEW n \in Name, Has(n)
    PROVE  Has(n)' /\ Key(n)' = Key(n)
BY DEF Grows, Has, Exists, Key

\* A vault with a number above zero is of a key that exists.
LEMMA OwnedHas ==
    ASSUME NEW v \in Vault, v = Key(v[1])
    PROVE  v[1] \in Name /\ Has(v[1])
<1>1. v[1] \in Name /\ v[2] \in 1..MaxGen
  BY VaultParts
<1>2. v[2] = file["home"][v[1]].gen
  BY DEF Key
<1>3. v[2] # 0
  BY <1>1, TreasuryAssumption
<1>. QED
  BY <1>1, <1>2, <1>3 DEF Has, Exists

\* A vault whose key is at home stays one.
LEMMA OwnedStays ==
    ASSUME Grows, NEW v, Owned(v)
    PROVE  Owned(v)'
<1>1. CASE v \in Vault
  <2>1. v = Key(v[1]) /\ v[1] \in Name /\ Has(v[1])
    BY <1>1, OwnedHas DEF Owned
  <2>. QED
    BY <2>1, Steady DEF Owned
<1>2. CASE v \notin Vault
  BY <1>2 DEF Owned
<1>. QED
  BY <1>1, <1>2

\* What has arrived in the cloud is of the keys at home.
LEMMA InTheCloud ==
    ASSUME FilesInv, Arrived
    PROVE  /\ file["cloud"][Purse].signed = file["home"][Purse].signed
           /\ file["home"][Purse].signed # NoDigest
           /\ \A n \in Shipped \union {Purse} : Has(n) /\ file["cloud"][n].gen = file["home"][n].gen
BY DEF FilesInv, CloudFiles, Arrived

\* Where only files at home change, new keys being of a number of their own.
LEMMA HomeChanges ==
    ASSUME Orderly, FilesInv, Grows, SameInCloud, NEW t \in Terminals, Dir[t] = "home",
           \A n \in Name : Has(n)' =>
               Has(n) \/ (file'["home"][n].master /\ file'["home"][n].gen # file["cloud"][n].gen)
    PROVE  FilesStep(t)
<1>0. Purse \in Name /\ Shipped \subseteq Name
  BY TheShipment
<1>. DEFINE g == file["home"][Purse].gen
            h == file'["home"][Purse].gen
            c == file["cloud"][Purse].gen
<1>1. /\ Has(Purse) => Has(Purse)' /\ h = g
      /\ ~Has(Purse) /\ Has(Purse)' => h # c
      /\ file'["cloud"][Purse] = file["cloud"][Purse]
      /\ Has(Purse) <=> g # 0
      /\ Has(Purse)' <=> h # 0
  BY <1>0, Steady DEF Grows, SameInCloud, Has, Exists
<1>2. Arrived' <=> Arrived
  <2>1. Arrived <=> Has(Purse) /\ c = g
    BY DEF Arrived
  <2>2. Arrived' <=> Has(Purse)' /\ c = h
    BY <1>1 DEF Arrived
  <2>. QED
    BY <1>1, <2>1, <2>2
<1>3. \A x \in Nat : Strange(x) => Strange(x)'
  <2>. SUFFICES ASSUME NEW x \in Nat, Strange(x) PROVE Strange(x)'
    OBVIOUS
  <2>1. x # g /\ (x = c \/ Has(Purse))
    BY DEF Strange
  <2>2. x # h /\ (x = c \/ Has(Purse)')
    BY <1>1, <2>1
  <2>. QED
    BY <1>1, <2>2 DEF Strange
<1>4. CloudStep
  BY <1>2, <1>3 DEF CloudStep, SameInCloud
<1>5. Masters'
  BY DEF Masters, FilesInv, Grows
<1>6. CloudFiles'
  <2>1. ASSUME Arrived
        PROVE  /\ file'["cloud"][Purse].signed = file'["home"][Purse].signed
               /\ file'["home"][Purse].signed # NoDigest
               /\ \A n \in Shipped : Has(n)' /\ file'["cloud"][n].gen = file'["home"][n].gen
    BY <1>0, <2>1, InTheCloud, Steady DEF Grows, SameInCloud
  <2>2. ~Arrived => file'["cloud"][Purse].signed = NoDigest
    BY <1>1 DEF FilesInv, CloudFiles
  <2>. QED
    BY <1>2, <2>1, <2>2 DEF CloudFiles
<1>. QED
  BY <1>4, <1>5, <1>6 DEF FilesStep, FilesInv

\* Where no file changes the files keep what is said of them.
LEMMA NothingChanges ==
    ASSUME FilesInv, UNCHANGED file
    PROVE  /\ Grows /\ FilesInv' /\ CloudStep /\ SameAtHome
           /\ \A t \in Terminals : FilesStep(t)
<1>1. Arrived' <=> Arrived
  BY DEF Arrived, Has
<1>2. CloudStep
  BY <1>1 DEF CloudStep, Strange, Has
<1>3. Grows /\ SameAtHome
  BY DEF Grows, SameAtHome
<1>4. FilesInv'
  BY <1>1 DEF FilesInv, Masters, CloudFiles, Has
<1>. QED
  BY <1>2, <1>3, <1>4 DEF FilesStep

\* A new vault at home.
LEMMA NewAtHome ==
    ASSUME Orderly, Types, FilesInv, NEW t \in Terminals, Dir[t] = "home", NEW n \in Name, ~Has(n), NewVault(t, n)
    PROVE  FilesStep(t) /\ Has(n)' /\ Key(n)' = <<n, LastGen(n) + 1>>
<1>1. file \in [Dirs -> [Name -> File]]
  BY DEF Types, TypeOK
<1>2. /\ file'["home"][n] = Fresh(n) /\ Fresh(n).gen = LastGen(n) + 1 /\ Fresh(n).gen # 0
      /\ Fresh(n).master = TRUE
      /\ \A d \in Dirs : Fresh(n).gen # file[d][n].gen
      /\ \A d \in Dirs, m \in Name : d # "home" \/ m # n => file'[d][m] = file[d][m]
  <2>1. /\ file'[Dir[t]][n] = Fresh(n) /\ Fresh(n).gen = LastGen(n) + 1 /\ Fresh(n).gen # 0
        /\ Fresh(n).master = TRUE
        /\ \A d \in Dirs : Fresh(n).gen # file[d][n].gen
        /\ \A d \in Dirs, m \in Name : d # Dir[t] \/ m # n => file'[d][m] = file[d][m]
    BY <1>1, NewVaultWrites
  <2>. QED
    BY <2>1, Zenon
<1>3. "home" \in Dirs /\ "cloud" \in Dirs
  BY DEF Dirs
<1>4. Grows
  BY <1>2, <1>3 DEF Grows
<1>5. SameInCloud
  BY <1>2, <1>3 DEF SameInCloud
<1>6. \A m \in Name : Has(m)' =>
          Has(m) \/ (file'["home"][m].master /\ file'["home"][m].gen # file["cloud"][m].gen)
  BY <1>2, <1>3 DEF Has
<1>. QED
  BY <1>2, <1>4, <1>5, <1>6, HomeChanges DEF Has, Exists, Key

\* The vaults a script has resolved stay the ones of the files at home.
LEMMA ResolvedStays ==
    ASSUME Types, NEW t \in Terminals, CopiesInv(t), Grows, This(t)' = This(t)
    PROVE  /\ at[t] \in HasDest /\ ~Own(t) => /\ job[t].dest = To(This(t).dest)'
                                              /\ This(t).dest # "payer" => Has(This(t).dest)'
           /\ at[t] \in HasRefund /\ ~Own(t) => job[t].refund = Key(This(t).refund)' /\ Has(This(t).refund)'
<1>. SUFFICES ASSUME ~Own(t)
              PROVE  /\ at[t] \in HasDest => /\ job[t].dest = To(This(t).dest)'
                                             /\ This(t).dest # "payer" => Has(This(t).dest)'
                     /\ at[t] \in HasRefund => job[t].refund = Key(This(t).refund)' /\ Has(This(t).refund)'
  OBVIOUS
<1>. DEFINE m == This(t).dest
            n == This(t).refund
<1>1. m' = m /\ n' = n
  OBVIOUS
<1>2. at[t] \in HasDest =>
          /\ job[t].dest = To(m) /\ (m # "payer" => Has(m) /\ file'["home"][m].gen = file["home"][m].gen)
  <2>1. at[t] \in HasDest => at[t] \in Working
    BY DEF Working, Loaded, HasDest
  <2>. QED
    BY <2>1, StepTyped DEF Types, CopiesInv, Grows
<1>3. at[t] \in HasRefund =>
          /\ job[t].refund = Key(n) /\ Has(n) /\ file'["home"][n].gen = file["home"][n].gen
  <2>1. at[t] \in HasRefund => at[t] \in Working
    BY DEF Working, Loaded, HasRefund
  <2>. QED
    BY <2>1, StepTyped DEF Types, CopiesInv, Grows
<1>. HIDE DEF m, n
<1>4. at[t] \in HasDest => job[t].dest = To(m)' /\ (m # "payer" => Has(m)')
  BY <1>1, <1>2 DEF To, Key, Has, Exists
<1>5. at[t] \in HasRefund => job[t].refund = Key(n)' /\ Has(n)'
  BY <1>1, <1>3 DEF Key, Has, Exists
<1>. QED
  BY <1>4, <1>5 DEF m, n

\* A copy of the cloud's own making stays one, and no other becomes one.
LEMMA OwnStays ==
    ASSUME Orderly, Types, NEW u \in Terminals, CopiesInv(u), Grows, CloudStep, at[u] \in Loaded, at'[u] \in Loaded,
           job'[u].mine = job[u].mine, This(u)' = This(u)
    PROVE  Own(u)' <=> Own(u)
<1>1. job[u].mine.gen \in Nat /\ job[u].mine.gen # 0 /\ Purse \in Name
  <2>1. job[u].mine \in File /\ Exists(job[u].mine)
    BY DEF Types, JobsTyped, JobTyped, Job
  <2>. QED
    BY <2>1, TheShipment, TreasuryAssumption DEF File, Exists
<1>2. PICK g \in Nat : g = job[u].mine.gen /\ g = job'[u].mine.gen /\ g # 0
  BY <1>1
<1>3. PICK from : from = This(u).from /\ from = This(u)'.from
  OBVIOUS
<1>4. Own(u) <=> Dir[u] = "cloud" /\ from = Purse /\ Strange(g)
  BY <1>2, <1>3 DEF Own
<1>5. Own(u)' <=> Dir[u] = "cloud" /\ from = Purse /\ Strange(g)'
  BY <1>2, <1>3 DEF Own, Strange
<1>6. Strange(g) => Strange(g)'
  BY DEF CloudStep
<1>7. ASSUME from = Purse, ~Own(u) PROVE ~Strange(g)'
  <2>1. g = file["home"][Purse].gen
    BY <1>2, <1>3, <1>7 DEF CopiesInv
  <2>2. file'["home"][Purse].gen = g
    BY <1>1, <1>2, <2>1 DEF Grows, Has, Exists
  <2>. QED
    BY <2>2 DEF Strange
<1>. QED
  BY <1>4, <1>5, <1>6, <1>7

\* What the steps of a terminal leave as it is for another one.
LEMMA JobStays ==
    ASSUME Orderly, KeysInv, NEW u \in Terminals, at'[u] = at[u], job'[u] = job[u],
           Grows, CloudStep, Dir[u] = "home" => SameAtHome
    PROVE  JobInv(u)'
<1>0. Types /\ JobInv(u) /\ MintInv
  BY DEF KeysInv
<1>1. This(u)' = This(u)
  BY DEF This
<1>2. at[u] \in Working => /\ This(u).from \in Name /\ This(u).refund \in Name
                           /\ This(u).dest # "payer" => This(u).dest \in Name
                           /\ job[u].script.names \subseteq Name
  BY <1>0, StepTyped DEF Types
<1>7. Own(u)' <=> Own(u)
  <2>1. CASE at[u] \in Loaded
    BY <1>0, <1>1, <2>1, OwnStays DEF JobInv
  <2>2. CASE at[u] \notin Loaded
    BY <2>2 DEF Own
  <2>. QED
    BY <2>1, <2>2
<1>3. at[u] \in Loaded /\ ~Own(u) => Has(This(u).from) /\ This(u).from \in Name
  <2>1. at[u] \in Loaded => at[u] \in Working
    BY DEF Working
  <2>2. at[u] \in Loaded => Exists(job[u].mine)
    BY <1>0 DEF Types, JobsTyped, JobTyped
  <2>. QED
    BY <1>0, <1>2, <2>1, <2>2 DEF JobInv, CopiesInv, Has, Exists
<1>4. CopiesInv(u)'
  <2>1. at[u] \in Loaded /\ ~Own(u) => job'[u].mine.gen = file'["home"][This(u).from].gen
    BY <1>0, <1>3 DEF JobInv, CopiesInv, Grows
  <2>2. at[u] \in HasDest /\ ~Own(u) =>
            job[u].dest = To(This(u).dest)' /\ (This(u).dest # "payer" => Has(This(u).dest)')
    BY <1>0, <1>1, ResolvedStays DEF JobInv
  <2>3. at[u] \in HasRefund /\ ~Own(u) => job[u].refund = Key(This(u).refund)' /\ Has(This(u).refund)'
    BY <1>0, <1>1, ResolvedStays DEF JobInv
  <2>4. at[u] \in Minting => job[u].dest = Key("genesis")'
    <3>1. at[u] \in Minting => Has("genesis") /\ "genesis" \in Name /\ job[u].dest = Key("genesis")
      BY <1>0 DEF MintInv, JobInv, CopiesInv, Name
    <3>. QED
      BY <3>1, Steady
  <2>. QED
    BY <1>1, <1>7, <2>1, <2>2, <2>3, <2>4 DEF CopiesInv
<1>5. HomeInv(u)'
  <2>. SUFFICES ASSUME Dir[u] = "home" PROVE HomeInv(u)'
    BY DEF HomeInv
  <2>1. \A n \in Name : file'["home"][n] = file["home"][n] /\ (Has(n)' <=> Has(n))
    BY DEF SameAtHome, Has
  <2>2. at[u] \in Loaded => at[u] \in Working
    BY DEF Working
  <2>3. {"dest missing", "refund missing", "copy"} \subseteq Loaded
    BY DEF Loaded
  <2>. QED
    BY <1>0, <1>1, <1>2, <2>1, <2>2, <2>3 DEF JobInv, HomeInv
<1>6. CloudInv(u)'
  <2>0. Purse \in Name /\ Shipped \subseteq Name
    BY TheShipment
  <2>1. at[u] \in Loaded /\ ~Own(u) /\ Dir[u] = "cloud" =>
            file'["home"][Purse].signed = file["home"][Purse].signed
    <3>1. at[u] \in Loaded /\ ~Own(u) /\ Dir[u] = "cloud" => Arrived
      BY <1>0 DEF JobInv, CloudInv
    <3>2. Arrived => Has(Purse) /\ file["home"][Purse].signed # NoDigest
      BY InTheCloud DEF KeysInv
    <3>. QED
      BY <2>0, <3>1, <3>2 DEF Grows
  <2>2. Arrived => Arrived'
    BY DEF CloudStep
  <2>3. at[u] \in Loaded /\ Dir[u] = "cloud" => \A n \in Shipped \union {Purse} : Exists(file["cloud"][n])'
    BY <1>0, <2>0 DEF JobInv, CloudInv, CloudStep
  <2>4. CloudInv(u)
    BY <1>0 DEF JobInv
  <2>. QED
    BY <1>1, <1>7, <2>1, <2>2, <2>3, <2>4 DEF CloudInv
<1>. QED
  BY <1>4, <1>5, <1>6 DEF JobInv

\* What each handler does to the files and to its own terminal's copies.
Keeps(t) == FilesStep(t) /\ JobInv(t)'

\* Starting a script.
LEMMA StartKeeps ==
    ASSUME Orderly, KeysInv, NEW t \in Terminals, NEW s \in Scripts[t], Start(t, s)
    PROVE  Keeps(t)
<1>1. at'[t] = "from" /\ job'[t].k = 1 /\ UNCHANGED file
  BY Starts DEF KeysInv
<1>2. FilesStep(t)
  BY <1>1, NothingChanges DEF KeysInv
<1>3. JobInv(t)'
  <2>1. Dir[t] = "cloud" => job'[t].script.cmd # "presign"
    BY Starts DEF KeysInv
  <2>. QED
    BY <1>1, <2>1 DEF JobInv, CopiesInv, HomeInv, CloudInv, Own, Loaded, HasDest, HasRefund, Minting
<1>. QED
  BY <1>2, <1>3 DEF Keeps

\* A terminal that is free, or only minting or claiming.
LEMMA FreeKeeps ==
    ASSUME NEW t \in Terminals, at'[t] \in {"idle", "claim"}
    PROVE  JobInv(t)'
BY DEF JobInv, CopiesInv, HomeInv, CloudInv, Own, Working, Loaded, HasDest, HasRefund, Minting

\* Making the bench vaults.
LEMMA GetNamesKeeps ==
    ASSUME Orderly, KeysInv, NEW t \in Terminals, GetNames(t)
    PROVE  Keeps(t)
<1>0. Types /\ FilesInv /\ JobInv(t)
  BY DEF KeysInv
<1>1. file \in [Dirs -> [Name -> File]] /\ "home" \in Dirs /\ "cloud" \in Dirs /\ Dir[t] \in Dirs
  BY <1>0, TreasuryAssumption DEF Types, TypeOK, Dirs
<1>2. at[t] = "from" /\ at[t] \in Working /\ UNCHANGED <<at, job>>
  BY <1>1, GetNamesWrites DEF Working
<1>3. /\ \A n \in Name : n \in job[t].script.names /\ ~Exists(file[Dir[t]][n]) =>
             /\ file'[Dir[t]][n].master = TRUE /\ file'[Dir[t]][n].signed = NoDigest
             /\ file'[Dir[t]][n].gen # 0
             /\ \A d \in Dirs : file'[Dir[t]][n].gen # file[d][n].gen
      /\ \A n \in Name : n \notin job[t].script.names \/ Exists(file[Dir[t]][n]) => file'[Dir[t]][n] = file[Dir[t]][n]
      /\ \A d \in Dirs, n \in Name : d # Dir[t] => file'[d][n] = file[d][n]
  <2>1. /\ \A n \in Name : n \in job[t].script.names /\ ~Exists(file[Dir[t]][n]) =>
               /\ file'[Dir[t]][n] = Fresh(n) /\ Fresh(n).gen # 0
               /\ Fresh(n).signed = NoDigest /\ Fresh(n).master = TRUE
               /\ \A d \in Dirs : Fresh(n).gen # file[d][n].gen
        /\ \A n \in Name : n \notin job[t].script.names \/ Exists(file[Dir[t]][n]) => file'[Dir[t]][n] = file[Dir[t]][n]
        /\ \A d \in Dirs, n \in Name : d # Dir[t] => file'[d][n] = file[d][n]
    BY <1>1, GetNamesWrites, ZenonT(60)
  <2>. QED
    BY <2>1, SMTT(30)
<1>4. FilesStep(t)
  <2>1. CASE Dir[t] = "home"
    <3>1. SameInCloud
      BY <1>1, <1>3, <2>1 DEF SameInCloud
    <3>2. Grows
      BY <1>3, <2>1 DEF Grows, Has
    <3>3. \A n \in Name : Has(n)' =>
              Has(n) \/ (file'["home"][n].master /\ file'["home"][n].gen # file["cloud"][n].gen)
      BY <1>1, <1>3, <2>1 DEF Has
    <3>. QED
      BY <1>0, <2>1, <3>1, <3>2, <3>3, HomeChanges
  <2>2. CASE Dir[t] = "cloud"
    <3>1. SameAtHome
      BY <1>1, <1>3, <2>2 DEF SameAtHome
    <3>2. Purse \in Name /\ Shipped \subseteq Name
      BY TheShipment
    <3>3. \A n \in Name : Exists(file["cloud"][n]) => file'["cloud"][n] = file["cloud"][n]
      BY <1>3, <2>2
    <3>4. \/ file'["cloud"][Purse] = file["cloud"][Purse]
          \/ /\ ~Exists(file["cloud"][Purse]) /\ file'["cloud"][Purse].signed = NoDigest
             /\ file'["cloud"][Purse].gen # file["home"][Purse].gen
      BY <1>1, <1>3, <2>2, <3>2
    <3>5. Arrived' <=> Arrived
      BY <3>1, <3>2, <3>4 DEF Arrived, SameAtHome, Has, Exists
    <3>6. \A g \in Nat : Strange(g) => Strange(g)'
      <4>. SUFFICES ASSUME NEW g \in Nat, Strange(g) PROVE Strange(g)'
        OBVIOUS
      <4>1. file'["home"][Purse] = file["home"][Purse] /\ (Has(Purse)' <=> Has(Purse))
        BY <3>1, <3>2 DEF SameAtHome, Has
      <4>. QED
        BY <3>4, <4>1 DEF Strange, Has, Exists
    <3>7. CloudStep
      BY <3>3, <3>5, <3>6 DEF CloudStep
    <3>8. Masters'
      BY <1>0, <3>1 DEF FilesInv, Masters, SameAtHome, Has
    <3>9. CloudFiles'
      <4>1. ASSUME Arrived
            PROVE  /\ file'["cloud"][Purse].signed = file'["home"][Purse].signed
                   /\ file'["home"][Purse].signed # NoDigest
                   /\ \A n \in Shipped : Has(n)' /\ file'["cloud"][n].gen = file'["home"][n].gen
        <5>1. \A n \in Shipped \union {Purse} : /\ Exists(file["cloud"][n]) /\ n \in Name
                                                /\ Has(n) /\ file["cloud"][n].gen = file["home"][n].gen
          BY <1>0, <3>2, <4>1, InTheCloud DEF Has, Exists
        <5>. QED
          BY <1>0, <3>1, <3>2, <3>3, <4>1, <5>1, InTheCloud DEF SameAtHome, Has
      <4>2. ~Arrived => file'["cloud"][Purse].signed = NoDigest
        BY <1>0, <3>4 DEF FilesInv, CloudFiles
      <4>. QED
        BY <3>5, <4>1, <4>2 DEF CloudFiles
    <3>. QED
      BY <2>2, <3>1, <3>7, <3>8, <3>9 DEF FilesStep, FilesInv, SameAtHome, Grows
  <2>. QED
    BY <1>1, <2>1, <2>2 DEF Dirs
<1>5. JobInv(t)'
  <2>1. Arrived => Arrived'
    BY <1>4 DEF FilesStep, CloudStep
  <2>. QED
    BY <1>0, <1>2, <2>1 DEF JobInv, CopiesInv, HomeInv, CloudInv, Own, Loaded, HasDest, HasRefund, Minting
<1>. QED
  BY <1>4, <1>5 DEF Keeps

\* Loading the vault.
LEMMA LoadKeeps ==
    ASSUME Orderly, KeysInv, NEW t \in Terminals, LoadFrom(t)
    PROVE  Keeps(t)
<1>0. Types /\ FilesInv /\ JobInv(t) /\ Dir[t] \in Dirs
  BY TreasuryAssumption DEF KeysInv, Dirs
<1>1. /\ at[t] = "from" /\ at[t] \in Working /\ Exists(file[Dir[t]][This(t).from])
      /\ \A n \in job[t].script.names : Exists(file[Dir[t]][n])
      /\ at'[t] = "dest" /\ job'[t].mine = file[Dir[t]][This(t).from]
      /\ job'[t].script = job[t].script /\ job'[t].k = job[t].k /\ This(t)' = This(t)
      /\ UNCHANGED file
  BY <1>0, Loads DEF Continues, Working
<1>2. FilesStep(t)
  BY <1>0, <1>1, NothingChanges
<1>3. CASE Dir[t] = "home"
  <2>1. job'[t].mine.gen = file'["home"][This(t).from].gen
    BY <1>1, <1>3
  <2>. QED
    BY <1>1, <1>2, <1>3, <2>1
       DEF Keeps, JobInv, CopiesInv, HomeInv, CloudInv, Own, Loaded, HasDest, HasRefund, Minting, Has
<1>4. CASE Dir[t] = "cloud"
  <2>1. /\ This(t).from \in Shipped \union {Purse} /\ (job[t].k = 1 => This(t).from = Purse)
        /\ \A n \in Shipped \union {Purse} : Exists(file["cloud"][n])
        /\ Purse \notin Shipped
    BY <1>0, <1>1, <1>4, ScriptsKeepTo, TheShipment
  <2>2. job[t].k > 1 => Arrived
    BY <1>0, <1>1, <1>4 DEF JobInv, CloudInv
  <2>3. job[t].script.cmd # "presign"
    BY <1>0, <1>1, <1>4 DEF JobInv, CloudInv
  <2>4. CASE Arrived
    <3>1. /\ file["cloud"][This(t).from].gen = file["home"][This(t).from].gen
          /\ file["cloud"][Purse].signed = file["home"][Purse].signed
      BY <1>0, <2>1, <2>4, InTheCloud
    <3>2. ~Own(t)' /\ Arrived'
      BY <1>1, <2>4, <3>1 DEF Own, Strange, Arrived, Has
    <3>. QED
      BY <1>1, <1>2, <1>4, <2>1, <2>3, <3>1, <3>2
         DEF Keeps, JobInv, CopiesInv, HomeInv, CloudInv, Loaded, HasDest, HasRefund, Minting
  <2>5. CASE ~Arrived
    <3>1. job[t].k = 1
      <4>1. job[t].k \in 1..Len(job[t].script.steps) /\ job[t].script \in Script
        BY <1>0, <1>1, StepTyped DEF Types
      <4>2. Len(job[t].script.steps) \in Nat
        BY <4>1 DEF Script
      <4>. QED
        BY <2>2, <2>5, <4>1, <4>2
    <3>2. This(t).from = Purse /\ file["cloud"][Purse].signed = NoDigest
      BY <1>0, <2>1, <2>5, <3>1 DEF FilesInv, CloudFiles
    <3>3. file["cloud"][Purse].gen # file["home"][Purse].gen
      BY <2>1, <2>5 DEF Arrived, Has, Exists
    <3>4. Own(t)'
      <4>1. job'[t].mine.gen = file["cloud"][Purse].gen /\ at'[t] \in Loaded /\ This(t)'.from = Purse
        BY <1>1, <1>4, <3>2 DEF Loaded
      <4>2. Strange(job[t].mine.gen)'
        BY <1>1, <3>3, <4>1 DEF Strange, Has
      <4>. QED
        BY <1>4, <4>1, <4>2 DEF Own
    <3>. QED
      BY <1>1, <1>2, <1>4, <2>1, <2>3, <3>1, <3>2, <3>4
         DEF Keeps, JobInv, CopiesInv, HomeInv, CloudInv, Loaded, HasDest, HasRefund, Minting
  <2>. QED
    BY <2>4, <2>5
<1>. QED
  BY <1>0, <1>3, <1>4 DEF Dirs

\* A script that goes on, the files at home only growing, keeps what it knew.
LEMMA GoesOnKeeps ==
    ASSUME Orderly, KeysInv, NEW t \in Terminals, at[t] \in Loaded, NEW p, NEW dest, NEW refund, p \in Loaded,
           Continues(t, p, job[t].mine, dest, refund), Grows, CloudStep,
           p \in HasDest /\ ~Own(t) => dest = To(This(t).dest)' /\ (This(t).dest # "payer" => Has(This(t).dest)'),
           p \in HasRefund /\ ~Own(t) => refund = Key(This(t).refund)' /\ Has(This(t).refund)',
           Dir[t] = "home" =>
               /\ p \notin {"wait", "copy"} => job[t].mine = file'["home"][This(t).from]
               /\ p = "dest missing" => This(t).dest # "payer" /\ ~Has(This(t).dest)'
               /\ p = "refund missing" => ~Has(This(t).refund)'
               /\ p = "copy" => job[t].script.cmd = "presign" /\ file'["home"][This(t).from].signed # NoDigest,
           Dir[t] = "cloud" => p \notin {"dest missing", "refund missing", "copy"},
           Own(t) => p \in {"dest", "refund", "check"}
    PROVE  JobInv(t)'
<1>0. Types /\ FilesInv /\ JobInv(t) /\ at[t] \in Working
  BY DEF KeysInv, Working
<1>1. /\ at'[t] = p /\ job'[t].mine = job[t].mine /\ job'[t].dest = dest /\ job'[t].refund = refund
      /\ job'[t].script = job[t].script /\ job'[t].k = job[t].k /\ This(t)' = This(t)
  BY DEF Continues
<1>2. This(t).from \in Name /\ job[t].script.names \subseteq Name /\ Exists(job[t].mine)
  BY <1>0, StepTyped DEF Types, JobsTyped, JobTyped
<1>7. Own(t)' <=> Own(t)
  BY <1>0, <1>1, OwnStays DEF JobInv
<1>3. p \notin Minting
  BY DEF Loaded, Minting
<1>4. CopiesInv(t)'
  <2>1. ~Own(t) => Has(This(t).from) /\ job[t].mine.gen = file["home"][This(t).from].gen
    BY <1>0, <1>2 DEF JobInv, CopiesInv, Has, Exists
  <2>2. ~Own(t) => job'[t].mine.gen = file'["home"][This(t).from].gen
    BY <1>1, <1>2, <2>1 DEF Grows
  <2>. QED
    BY <1>1, <1>3, <1>7, <2>2 DEF CopiesInv
<1>5. HomeInv(t)'
  <2>1. Dir[t] = "home" => \A n \in job[t].script.names : Has(n)'
    <3>1. Dir[t] = "home" => \A n \in job[t].script.names : Has(n)
      BY <1>0 DEF JobInv, HomeInv
    <3>. QED
      BY <1>2, <3>1, Steady
  <2>. QED
    BY <1>1, <2>1 DEF HomeInv
<1>6. CloudInv(t)'
  <2>. SUFFICES ASSUME Dir[t] = "cloud" PROVE CloudInv(t)'
    BY DEF CloudInv
  <2>0. Purse \in Name /\ Shipped \subseteq Name /\ CloudInv(t)
    BY <1>0, TheShipment DEF JobInv
  <2>1. ~Own(t) => Arrived' /\ file'["home"][Purse].signed = file["home"][Purse].signed
    <3>1. ~Own(t) => Arrived
      BY <2>0 DEF CloudInv
    <3>2. Arrived => Has(Purse) /\ file["home"][Purse].signed # NoDigest
      BY <1>0, InTheCloud
    <3>. QED
      BY <2>0, <3>1, <3>2 DEF Grows, CloudStep
  <2>2. \A n \in Shipped \union {Purse} : Exists(file["cloud"][n])'
    BY <2>0 DEF CloudInv, CloudStep
  <2>3. p # "from" /\ p \in Working
    BY DEF Loaded, Working
  <2>. QED
    BY <1>0, <1>1, <1>7, <2>0, <2>1, <2>2, <2>3 DEF CloudInv
<1>. QED
  BY <1>4, <1>5, <1>6 DEF JobInv

\* What an unchanged directory means for keys.
LEMMA Unmoved ==
    ASSUME UNCHANGED file, NEW n, n' = n
    PROVE  Has(n)' = Has(n) /\ Key(n)' = Key(n) /\ To(n)' = To(n)
BY DEF Has, Key, To

\* Resolving the recipient.
LEMMA GetDestKeeps ==
    ASSUME Orderly, KeysInv, NEW t \in Terminals, GetDest(t)
    PROVE  Keeps(t)
<1>0. Types /\ FilesInv /\ JobInv(t) /\ Dir[t] \in Dirs
  BY TreasuryAssumption DEF KeysInv, Dirs
<1>. DEFINE n == This(t).dest
<1>1. /\ at[t] \in {"dest", "dest missing"} /\ at[t] \in Loaded /\ at[t] \in Working
      /\ \/ MissesDest(t) /\ Continues(t, "dest missing", job[t].mine, job[t].dest, job[t].refund)
         \/ n = "payer" /\ UNCHANGED file /\ Continues(t, "refund", job[t].mine, Payer, job[t].refund)
         \/ /\ at[t] = "dest" /\ n # "payer" /\ Exists(DestFile(t)) /\ UNCHANGED file
            /\ Continues(t, "refund", job[t].mine, <<n, DestFile(t).gen>>, job[t].refund)
         \/ /\ at[t] = "dest missing" /\ n # "payer" /\ NewVault(t, n)
            /\ Continues(t, "refund", job[t].mine, <<n, LastGen(n) + 1>>, job[t].refund)
  BY <1>0, GetsDest DEF Loaded, Working
<1>2. This(t).from \in Name /\ (n # "payer" => n \in Name)
  BY <1>0, <1>1, StepTyped DEF Types
<1>3. n' = n
  <2>1. This(t)' = This(t)
    BY <1>1 DEF Continues
  <2>. QED
    BY <2>1
<1>4. Dir[t] = "home" => job[t].mine = file["home"][This(t).from]
  BY <1>0, <1>1 DEF JobInv, HomeInv
<1>5. Dir[t] = "cloud" => /\ Arrived \/ Own(t)
                          /\ n # "payer" => n \in Shipped /\ Exists(file["cloud"][n])
  BY <1>0, <1>1, ScriptsKeepTo DEF JobInv, CloudInv
<1>6. CASE MissesDest(t) /\ Continues(t, "dest missing", job[t].mine, job[t].dest, job[t].refund)
  <2>1. UNCHANGED file /\ n # "payer" /\ ~Exists(DestFile(t))
    BY <1>6 DEF MissesDest
  <2>2. FilesStep(t)
    BY <1>0, <2>1, NothingChanges
  <2>3. Dir[t] = "home"
    BY <1>0, <1>5, <2>1 DEF Dirs, DestFile
  <2>4. ~Has(n) /\ Has(n)' = Has(n)
    BY <1>3, <2>1, <2>3, Unmoved DEF DestFile, Has
  <2>5. "dest missing" \in Loaded /\ "dest missing" \notin HasDest /\ "dest missing" \notin HasRefund
    BY DEF Loaded, HasDest, HasRefund
  <2>6. ~Own(t) /\ Grows /\ CloudStep
    BY <2>2, <2>3 DEF Own, FilesStep
  <2>. HIDE DEF n
  <2>7. /\ Dir[t] = "home" => /\ job[t].mine = file'["home"][This(t).from]
                              /\ This(t).dest # "payer" /\ ~Has(This(t).dest)'
        /\ Dir[t] = "cloud" => FALSE
    BY <1>4, <2>1, <2>3, <2>4 DEF n
  <2>8. JobInv(t)'
    BY <1>1, <1>6, <2>5, <2>6, <2>7, GoesOnKeeps
  <2>. QED
    BY <2>2, <2>8 DEF Keeps
<1>7. ASSUME NEW v, Continues(t, "refund", job[t].mine, v, job[t].refund), FilesStep(t),
             ~Own(t) => v = To(n)' /\ (n # "payer" => Has(n)'),
             Dir[t] = "home" => job[t].mine = file'["home"][This(t).from]
      PROVE  Keeps(t)
  <2>1. "refund" \in Loaded /\ "refund" \in HasDest /\ "refund" \notin HasRefund
    BY DEF Loaded, HasDest, HasRefund
  <2>2. JobInv(t)'
    BY <1>1, <1>7, <2>1, GoesOnKeeps DEF FilesStep
  <2>. QED
    BY <1>7, <2>2 DEF Keeps
<1>8. CASE n = "payer" /\ UNCHANGED file /\ Continues(t, "refund", job[t].mine, Payer, job[t].refund)
  <2>1. FilesStep(t)
    BY <1>0, <1>8, NothingChanges
  <2>2. Payer = To(n)'
    BY <1>3, <1>8 DEF To
  <2>. QED
    BY <1>4, <1>7, <1>8, <2>1, <2>2
<1>9. CASE /\ n # "payer" /\ Exists(DestFile(t)) /\ UNCHANGED file
           /\ Continues(t, "refund", job[t].mine, <<n, DestFile(t).gen>>, job[t].refund)
  <2>1. FilesStep(t)
    BY <1>0, <1>9, NothingChanges
  <2>2. ~Own(t) => Has(n) /\ DestFile(t).gen = file["home"][n].gen
    <3>1. CASE Dir[t] = "home"
      BY <1>9, <3>1 DEF DestFile, Has
    <3>2. CASE Dir[t] = "cloud"
      BY <1>0, <1>5, <1>9, <3>2, InTheCloud DEF DestFile
    <3>. QED
      BY <1>0, <3>1, <3>2 DEF Dirs
  <2>3. ~Own(t) => Has(n)' /\ <<n, DestFile(t).gen>> = To(n)'
    BY <1>3, <1>9, <2>2, Unmoved DEF To, Key
  <2>. QED
    BY <1>4, <1>7, <1>9, <2>1, <2>3
<1>10. CASE /\ at[t] = "dest missing" /\ n # "payer" /\ NewVault(t, n)
            /\ Continues(t, "refund", job[t].mine, <<n, LastGen(n) + 1>>, job[t].refund)
  <2>1. Dir[t] = "home" /\ ~Has(n) /\ n \in Name
    BY <1>0, <1>2, <1>10 DEF JobInv, HomeInv, CloudInv, Dirs
  <2>. HIDE DEF n
  <2>2. FilesStep(t) /\ \E x \in Name : x = n /\ Has(x)' /\ Key(x)' = <<x, LastGen(x) + 1>>
    BY <1>0, <1>10, <2>1, NewAtHome
  <2>3. Has(n)' /\ To(n)' = <<n, LastGen(n) + 1>>
    <3>1. PICK x \in Name : x = n /\ Has(x)' /\ Key(x)' = <<x, LastGen(x) + 1>>
      BY <2>2
    <3>. QED
      BY <1>3, <1>10, <3>1 DEF To, Key, Has
  <2>4. job[t].mine = file'["home"][This(t).from]
    <3>1. Has(This(t).from)
      <4>1. Exists(job[t].mine)
        BY <1>0, <1>1 DEF Types, JobsTyped, JobTyped
      <4>. QED
        BY <1>4, <2>1, <4>1 DEF Has
    <3>2. This(t).from # n
      BY <2>1, <3>1
    <3>3. file'["home"][This(t).from] = file["home"][This(t).from]
      <4>1. file \in [Dirs -> [Name -> File]] /\ "home" \in Dirs
        BY <1>0 DEF Types, TypeOK, Dirs
      <4>2. \A d \in Dirs, m \in Name : d # Dir[t] \/ m # n => file'[d][m] = file[d][m]
        BY <1>10, <2>1, <4>1, NewVaultWrites
      <4>. QED
        BY <1>2, <3>2, <4>1, <4>2
    <3>. QED
      BY <1>4, <2>1, <3>3
  <2>. QED
    BY <1>7, <1>10, <2>2, <2>3, <2>4
<1>. QED
  BY <1>1, <1>6, <1>8, <1>9, <1>10

\* Resolving the vault of the remainder.
LEMMA GetRefundKeeps ==
    ASSUME Orderly, KeysInv, NEW t \in Terminals, GetRefund(t)
    PROVE  Keeps(t)
<1>0. Types /\ FilesInv /\ JobInv(t) /\ Dir[t] \in Dirs
  BY TreasuryAssumption DEF KeysInv, Dirs
<1>. DEFINE n == This(t).refund
<1>1. /\ at[t] \in {"refund", "refund missing"} /\ at[t] \in Loaded /\ at[t] \in Working
      /\ \/ MissesRefund(t) /\ Continues(t, "refund missing", job[t].mine, job[t].dest, job[t].refund)
         \/ /\ UNCHANGED file
            /\ \E d \in Dirs :
                /\ at[t] = "refund" \/ Dir[t] = "cloud"
                /\ d = IF Dir[t] = "cloud" /\ n \in Treasuries THEN "home" ELSE Dir[t]
                /\ Exists(file[d][n])
                /\ Continues(t, "check", job[t].mine, job[t].dest, <<n, file[d][n].gen>>)
         \/ /\ at[t] = "refund missing" /\ NewVault(t, n)
            /\ Continues(t, "check", job[t].mine, job[t].dest, <<n, LastGen(n) + 1>>)
  BY <1>0, GetsRefund DEF Loaded, Working
<1>2. This(t).from \in Name /\ n \in Name /\ (This(t).dest # "payer" => This(t).dest \in Name)
  BY <1>0, <1>1, StepTyped DEF Types
<1>3. This(t)' = This(t) /\ n' = n
  BY <1>1 DEF Continues
<1>4. Dir[t] = "home" => job[t].mine = file["home"][This(t).from]
  BY <1>0, <1>1 DEF JobInv, HomeInv
<1>5. Dir[t] = "cloud" => /\ Arrived \/ Own(t)
                          /\ n \in Treasuries \/ (n \in Shipped /\ Exists(file["cloud"][n]))
  BY <1>0, <1>1, ScriptsKeepTo DEF JobInv, CloudInv
<1>7. ASSUME Grows, ~Own(t)
      PROVE  job[t].dest = To(This(t).dest)' /\ (This(t).dest # "payer" => Has(This(t).dest)')
  <2>1. at[t] \in HasDest
    BY <1>1 DEF HasDest
  <2>. QED
    BY <1>0, <1>3, <1>7, <2>1, ResolvedStays DEF JobInv
<1>8. CASE MissesRefund(t) /\ Continues(t, "refund missing", job[t].mine, job[t].dest, job[t].refund)
  <2>1. UNCHANGED file /\ ~Exists(RefundFile(t)) /\ (Dir[t] = "cloud" => n \notin Treasuries)
    BY <1>8 DEF MissesRefund
  <2>2. FilesStep(t)
    BY <1>0, <2>1, NothingChanges
  <2>3. Dir[t] = "home"
    BY <1>0, <1>5, <2>1 DEF Dirs, RefundFile
  <2>4. ~Has(n) /\ Has(n)' = Has(n)
    BY <1>3, <2>1, <2>3, Unmoved DEF RefundFile, Has
  <2>5. "refund missing" \in Loaded /\ "refund missing" \in HasDest /\ "refund missing" \notin HasRefund
    BY DEF Loaded, HasDest, HasRefund
  <2>6. Grows /\ CloudStep /\ ~Own(t)
    BY <2>2, <2>3 DEF FilesStep, Own
  <2>7. JobInv(t)'
    BY <1>1, <1>4, <1>7, <1>8, <2>1, <2>3, <2>4, <2>5, <2>6, GoesOnKeeps
  <2>. QED
    BY <2>2, <2>7 DEF Keeps
<1>9. ASSUME NEW v, Continues(t, "check", job[t].mine, job[t].dest, v), FilesStep(t),
             ~Own(t) => v = Key(n)' /\ Has(n)',
             Dir[t] = "home" => job[t].mine = file'["home"][This(t).from]
      PROVE  Keeps(t)
  <2>1. "check" \in Loaded /\ "check" \in HasDest /\ "check" \in HasRefund
    BY DEF Loaded, HasDest, HasRefund
  <2>2. Grows /\ CloudStep
    BY <1>9 DEF FilesStep
  <2>3. JobInv(t)'
    BY <1>1, <1>7, <1>9, <2>1, <2>2, GoesOnKeeps
  <2>. QED
    BY <1>9, <2>3 DEF Keeps
<1>10. ASSUME UNCHANGED file, NEW d \in Dirs, d = IF Dir[t] = "cloud" /\ n \in Treasuries THEN "home" ELSE Dir[t],
              Exists(file[d][n]), at[t] = "refund" \/ Dir[t] = "cloud",
              Continues(t, "check", job[t].mine, job[t].dest, <<n, file[d][n].gen>>)
       PROVE  Keeps(t)
  <2>1. FilesStep(t)
    BY <1>0, <1>10, NothingChanges
  <2>2. ~Own(t) => Has(n) /\ file[d][n].gen = file["home"][n].gen
    <3>1. CASE d = "home"
      BY <1>10, <3>1 DEF Has
    <3>2. CASE d = "cloud" /\ n \in Shipped /\ Dir[t] = "cloud"
      BY <1>0, <1>5, <1>10, <3>2, InTheCloud
    <3>. QED
      BY <1>0, <1>5, <1>10, <3>1, <3>2 DEF Dirs
  <2>3. ~Own(t) => Has(n)' /\ <<n, file[d][n].gen>> = Key(n)'
    BY <1>3, <1>10, <2>2, Unmoved DEF Key
  <2>. QED
    BY <1>4, <1>9, <1>10, <2>1, <2>3
<1>11. CASE /\ at[t] = "refund missing" /\ NewVault(t, n)
            /\ Continues(t, "check", job[t].mine, job[t].dest, <<n, LastGen(n) + 1>>)
  <2>1. Dir[t] = "home" /\ ~Has(n) /\ n \in Name
    BY <1>0, <1>2, <1>11 DEF JobInv, HomeInv, CloudInv, Dirs
  <2>. HIDE DEF n
  <2>2. FilesStep(t) /\ \E x \in Name : x = n /\ Has(x)' /\ Key(x)' = <<x, LastGen(x) + 1>>
    BY <1>0, <1>11, <2>1, NewAtHome
  <2>3. Has(n)' /\ Key(n)' = <<n, LastGen(n) + 1>>
    <3>1. PICK x \in Name : x = n /\ Has(x)' /\ Key(x)' = <<x, LastGen(x) + 1>>
      BY <2>2
    <3>. QED
      BY <1>3, <3>1 DEF Key, Has
  <2>4. job[t].mine = file'["home"][This(t).from]
    <3>1. Has(This(t).from)
      <4>1. Exists(job[t].mine)
        BY <1>0, <1>1 DEF Types, JobsTyped, JobTyped
      <4>. QED
        BY <1>4, <2>1, <4>1 DEF Has
    <3>2. This(t).from # n
      BY <2>1, <3>1
    <3>3. file'["home"][This(t).from] = file["home"][This(t).from]
      <4>1. file \in [Dirs -> [Name -> File]] /\ "home" \in Dirs
        BY <1>0 DEF Types, TypeOK, Dirs
      <4>2. \A d \in Dirs, m \in Name : d # Dir[t] \/ m # n => file'[d][m] = file[d][m]
        BY <1>11, <2>1, <4>1, NewVaultWrites
      <4>. QED
        BY <1>2, <3>2, <4>1, <4>2
    <3>. QED
      BY <1>4, <2>1, <3>3
  <2>. QED
    BY <1>9, <1>11, <2>2, <2>3, <2>4
<1>. QED
  BY <1>1, <1>8, <1>10, <1>11

\* What passes the check, and what is signed, is not a vault of the cloud's own making: that holds
\* nothing, and checkSpend refuses it.
LEMMA OwnIsRefused ==
    ASSUME Orderly, KeysInv, NEW t \in Terminals, Check(t) \/ at[t] = "sign"
    PROVE  ~Own(t)
<1>0. Types /\ JobInv(t) /\ HeldInv
  BY DEF KeysInv
<1>. SUFFICES ASSUME Own(t) PROVE FALSE
  OBVIOUS
<1>1. /\ Dir[t] = "cloud" /\ This(t).from = Purse /\ job[t].mine.gen # file["home"][Purse].gen
      /\ at[t] \in {"dest", "refund", "check"} /\ job[t].mine.signed = NoDigest
  BY <1>0 DEF Own, Strange, JobInv, CloudInv
<1>2. Check(t) /\ at[t] = "check"
  BY <1>1 DEF Check
<1>3. at[t] \in Working /\ at[t] \in HasRefund
  BY <1>2 DEF Working, Loaded, HasRefund
<1>4. Checked(Asked(t))
  BY <1>0, <1>1, <1>2, <1>3, ScriptsKeepTo DEF Check
<1>5. Asked(t).amount \in Nat /\ Asked(t).vault \in Vault /\ Asked(t).vault = <<Purse, job[t].mine.gen>>
  BY <1>0, <1>1, <1>3, AskedTyped DEF Types, Digest
<1>6. PICK v \in Vault : v = Asked(t).vault /\ v = <<Purse, job[t].mine.gen>>
  BY <1>5
<1>7. held[v] \in Nat /\ held[v] > 0
  BY <1>0, <1>4, <1>5, <1>6, VaultParts DEF Checked, Types, TypeOK
<1>8. v = Key(Purse)
  BY <1>0, <1>6, <1>7 DEF HeldInv, Owned
<1>. QED
  BY <1>1, <1>6, <1>8 DEF Key

\* Checking the spend.
LEMMA CheckKeeps ==
    ASSUME Orderly, KeysInv, NEW t \in Terminals, Check(t)
    PROVE  Keeps(t)
<1>0. Types /\ FilesInv /\ JobInv(t)
  BY DEF KeysInv
<1>1. /\ at[t] = "check" /\ Continues(t, "sign", job[t].mine, job[t].dest, job[t].refund) /\ UNCHANGED file
      /\ This(t)' = This(t)
  BY <1>0, Checks DEF Continues
<1>2. FilesStep(t) /\ Grows /\ CloudStep /\ ~Own(t)
  BY <1>0, <1>1, NothingChanges, OwnIsRefused
<1>3. /\ at[t] \in Loaded /\ at[t] \in HasDest /\ at[t] \in HasRefund
      /\ "sign" \in Loaded /\ "sign" \in HasDest /\ "sign" \in HasRefund
  BY <1>1 DEF Loaded, HasDest, HasRefund
<1>4. /\ job[t].dest = To(This(t).dest)' /\ (This(t).dest # "payer" => Has(This(t).dest)')
      /\ job[t].refund = Key(This(t).refund)' /\ Has(This(t).refund)'
  BY <1>0, <1>1, <1>2, <1>3, ResolvedStays DEF JobInv
<1>5. Dir[t] = "home" => job[t].mine = file'["home"][This(t).from]
  BY <1>0, <1>1, <1>3 DEF JobInv, HomeInv
<1>6. JobInv(t)'
  BY <1>1, <1>2, <1>3, <1>4, <1>5, GoesOnKeeps
<1>. QED
  BY <1>2, <1>6 DEF Keeps

\* What is signed is no empty record.
LEMMA AskedIsOne ==
    ASSUME Types, NEW t \in Terminals, at[t] \in HasRefund
    PROVE  Asked(t) # NoDigest
<1>1. Asked(t).vault \in Vault
  BY AskedTyped DEF Types
<1>2. NoDigest.vault = Payer
  BY DEF NoDigest
<1>. QED
  BY <1>1, <1>2, VaultParts

\* Signing.
LEMMA SignKeeps ==
    ASSUME Orderly, KeysInv, NEW t \in Terminals, Sign(t)
    PROVE  Keeps(t)
<1>0. Types /\ FilesInv /\ JobInv(t) /\ Dir[t] \in Dirs /\ "home" \in Dirs /\ "cloud" \in Dirs
  BY TreasuryAssumption DEF KeysInv, Dirs
<1>. DEFINE from == This(t).from
            mine == job[t].mine
<1>1. /\ at[t] = "sign" /\ mine.signed \in {NoDigest, Asked(t)}
      /\ mine.signed # NoDigest => UNCHANGED file
      /\ mine.signed = NoDigest =>
             /\ file'[Dir[t]][from].signed = Asked(t) /\ file'[Dir[t]][from].gen = mine.gen
             /\ file'[Dir[t]][from].master = mine.master
      /\ \A d \in Dirs, n \in Name : d # Dir[t] \/ n # from => file'[d][n] = file[d][n]
  BY <1>0, SignDoes
<1>2. at[t] \in Loaded /\ at[t] \in HasDest /\ at[t] \in HasRefund /\ at[t] \in Working
  BY <1>1 DEF Loaded, HasDest, HasRefund, Working
<1>3. from \in Name /\ Asked(t) # NoDigest
  BY <1>0, <1>2, StepTyped, AskedIsOne DEF Types
<1>14. ~Own(t)
  BY <1>1, OwnIsRefused
<1>4. Has(from) /\ mine.gen = file["home"][from].gen
  <2>1. Exists(mine)
    BY <1>0, <1>2 DEF Types, JobsTyped, JobTyped
  <2>2. mine.gen = file["home"][from].gen
    BY <1>0, <1>2, <1>14 DEF JobInv, CopiesInv
  <2>. QED
    BY <2>1, <2>2 DEF Has, Exists
<1>5. Dir[t] = "home" => mine = file["home"][from]
  BY <1>0, <1>1, <1>2 DEF JobInv, HomeInv
<1>. HIDE DEF from, mine
<1>6. FilesStep(t) /\ (Dir[t] = "home" => file'["home"][from].signed # NoDigest)
  <2>1. CASE Dir[t] = "home"
    <3>1. SameInCloud
      BY <1>0, <1>1, <2>1 DEF SameInCloud
    <3>2. /\ file'["home"][from].gen = file["home"][from].gen
          /\ file'["home"][from].master = file["home"][from].master
          /\ file["home"][from].signed # NoDigest => file'["home"][from].signed = file["home"][from].signed
          /\ file'["home"][from].signed # NoDigest
      BY <1>1, <1>3, <1>5, <2>1
    <3>3. \A n \in Name : n # from => file'["home"][n] = file["home"][n]
      BY <1>0, <1>1
    <3>4. Grows
      BY <3>2, <3>3 DEF Grows
    <3>5. \A n \in Name : Has(n)' =>
              Has(n) \/ (file'["home"][n].master /\ file'["home"][n].gen # file["cloud"][n].gen)
      BY <1>4, <3>3 DEF Has
    <3>6. FilesStep(t)
      BY <1>0, <2>1, <3>1, <3>4, <3>5, HomeChanges
    <3>. QED
      BY <3>2, <3>6
  <2>2. CASE Dir[t] = "cloud"
    <3>1. SameAtHome
      BY <1>0, <1>1, <2>2 DEF SameAtHome
    <3>2. Arrived /\ from \in Shipped \union {Purse} /\ Purse \in Name /\ Shipped \subseteq Name /\ Purse \notin Shipped
      BY <1>0, <1>2, <1>14, <2>2, ScriptsKeepTo, TheShipment DEF JobInv, CloudInv, from
    <3>3. /\ file["cloud"][Purse].signed = file["home"][Purse].signed /\ file["home"][Purse].signed # NoDigest
          /\ \A n \in Shipped \union {Purse} : Has(n) /\ file["cloud"][n].gen = file["home"][n].gen
      BY <1>0, <3>2, InTheCloud
    <3>4. from = Purse => UNCHANGED file
      <4>1. from = Purse => mine.signed = file["home"][Purse].signed
        BY <1>0, <1>2, <1>14, <2>2 DEF JobInv, CloudInv, from, mine
      <4>. QED
        BY <1>1, <3>3, <4>1
    <3>5. file'["cloud"][Purse] = file["cloud"][Purse]
      BY <1>0, <1>1, <3>2, <3>4
    <3>6. \A n \in Name : file'["cloud"][n].gen = file["cloud"][n].gen
      <4>1. file'["cloud"][from].gen = file["cloud"][from].gen
        BY <1>1, <1>4, <2>2, <3>2, <3>3
      <4>2. \A n \in Name : n # from => file'["cloud"][n] = file["cloud"][n]
        BY <1>0, <1>1
      <4>. QED
        BY <4>1, <4>2
    <3>7. Arrived' /\ CloudStep
      <4>1. /\ file'["home"][Purse] = file["home"][Purse] /\ file'["cloud"][Purse] = file["cloud"][Purse]
            /\ (Has(Purse)' <=> Has(Purse))
        BY <3>1, <3>2, <3>5 DEF SameAtHome, Has
      <4>2. Arrived' /\ \A g \in Nat : Strange(g) => Strange(g)'
        BY <3>2, <4>1 DEF Arrived, Strange
      <4>. QED
        BY <3>6, <4>2 DEF CloudStep, Exists
    <3>8. Masters'
      BY <1>0, <3>1 DEF FilesInv, Masters, SameAtHome, Has
    <3>9. CloudFiles'
      <4>1. \A n \in Shipped \union {Purse} : Has(n)' /\ file'["home"][n] = file["home"][n]
        BY <3>1, <3>2, <3>3 DEF SameAtHome, Has
      <4>2. \A n \in Shipped : file'["cloud"][n].gen = file'["home"][n].gen
        BY <3>2, <3>3, <3>6, <4>1
      <4>. QED
        BY <3>3, <3>5, <3>7, <4>1, <4>2 DEF CloudFiles
    <3>. QED
      BY <2>2, <3>1, <3>7, <3>8, <3>9 DEF FilesStep, FilesInv, SameAtHome, Grows
  <2>. QED
    BY <1>0, <2>1, <2>2 DEF Dirs
<1>7. PICK p \in {"copy", "wait"} :
          /\ p = "copy" => job[t].script.cmd = "presign"
          /\ Continues(t, p, job[t].mine, job[t].dest, job[t].refund)
  BY <1>0, Signs
<1>8. p \in Loaded /\ p \in HasDest /\ p \in HasRefund /\ p \notin {"dest missing", "refund missing"}
  BY <1>7 DEF Loaded, HasDest, HasRefund
<1>9. Dir[t] = "cloud" => p # "copy"
  BY <1>0, <1>2, <1>7 DEF JobInv, CloudInv
<1>10. /\ job[t].dest = To(This(t).dest)' /\ (This(t).dest # "payer" => Has(This(t).dest)')
       /\ job[t].refund = Key(This(t).refund)' /\ Has(This(t).refund)'
  <2>1. This(t)' = This(t) /\ Grows
    BY <1>6, <1>7 DEF Continues, FilesStep
  <2>. QED
    BY <1>0, <1>2, <1>14, <2>1, ResolvedStays DEF JobInv
<1>11. Dir[t] = "home" => file'["home"][This(t).from].signed # NoDigest
  BY <1>6 DEF from
<1>12. Grows /\ CloudStep
  BY <1>6 DEF FilesStep
<1>13. JobInv(t)'
  BY <1>2, <1>7, <1>8, <1>9, <1>10, <1>11, <1>12, <1>14, GoesOnKeeps
<1>. QED
  BY <1>6, <1>13 DEF Keeps

\* Shipping to the cloud.
LEMMA CopyKeeps ==
    ASSUME Orderly, KeysInv, NEW t \in Terminals, Copy(t)
    PROVE  Keeps(t)
<1>0. Types /\ FilesInv /\ JobInv(t) /\ Dir[t] \in Dirs
  BY TreasuryAssumption DEF KeysInv, Dirs
<1>1. /\ at[t] = "copy" /\ at' = [at EXCEPT ![t] = "idle"]
      /\ SameAtHome
      /\ file'["cloud"][This(t).from].gen = file["home"][This(t).from].gen
      /\ file'["cloud"][This(t).from].signed = file["home"][This(t).from].signed
      /\ \A n \in Name : n \in job[t].script.names /\ n # This(t).from => file'["cloud"][n] = file["home"][n]
      /\ \A n \in Name : n \notin job[t].script.names /\ n # This(t).from => file'["cloud"][n] = file["cloud"][n]
  BY <1>0, CopyDoes DEF SameAtHome
<1>2. at[t] \in Loaded /\ at[t] \in Working
  BY <1>1 DEF Loaded, Working
<1>3. Dir[t] = "home" /\ job[t].script.cmd = "presign" /\ file["home"][This(t).from].signed # NoDigest
  BY <1>0, <1>1 DEF JobInv, HomeInv, CloudInv, Dirs
<1>4. This(t).from = Purse /\ job[t].script.names = Shipped
      /\ Purse \in Name /\ Shipped \subseteq Name /\ Purse \notin Shipped
  BY <1>0, <1>2, <1>3, ScriptsKeepTo, TheShipment
<1>5. \A n \in Shipped \union {Purse} : Has(n)
  <2>1. \A n \in Shipped : Has(n)
    BY <1>0, <1>2, <1>3, <1>4 DEF JobInv, HomeInv
  <2>2. Has(Purse)
    <3>1. Exists(job[t].mine)
      BY <1>0, <1>2 DEF Types, JobsTyped, JobTyped
    <3>2. job[t].mine.gen = file["home"][Purse].gen
      BY <1>0, <1>2, <1>3, <1>4 DEF JobInv, CopiesInv, Own
    <3>. QED
      BY <3>1, <3>2 DEF Has, Exists
  <2>. QED
    BY <2>1, <2>2
<1>6. \A n \in Shipped \union {Purse} :
          /\ file'["cloud"][n].gen = file["home"][n].gen /\ file'["home"][n] = file["home"][n] /\ Has(n)'
  <2>1. \A n \in Shipped \union {Purse} : file'["home"][n] = file["home"][n] /\ Has(n)'
    BY <1>1, <1>4, <1>5 DEF SameAtHome, Has
  <2>. QED
    BY <1>1, <1>4, <2>1
<1>7. Arrived' /\ CloudStep
  <2>1. Arrived'
    BY <1>6 DEF Arrived
  <2>2. \A g \in Nat : Strange(g) => Strange(g)'
    BY <1>6 DEF Strange
  <2>3. \A n \in Name : Exists(file["cloud"][n]) => Exists(file'["cloud"][n])
    BY <1>1, <1>4, <1>5, <1>6 DEF Exists, Has
  <2>. QED
    BY <2>1, <2>2, <2>3 DEF CloudStep
<1>8. Masters' /\ CloudFiles'
  <2>1. Masters'
    BY <1>0, <1>1 DEF FilesInv, Masters, SameAtHome, Has
  <2>2. CloudFiles'
    BY <1>1, <1>3, <1>4, <1>6, <1>7 DEF CloudFiles
  <2>. QED
    BY <2>1, <2>2
<1>9. FilesStep(t)
  BY <1>1, <1>7, <1>8 DEF FilesStep, FilesInv, SameAtHome, Grows
<1>10. JobInv(t)'
  BY <1>0, Copies, FreeKeeps
<1>. QED
  BY <1>9, <1>10 DEF Keeps

\* Seeing the spend landed, and going to the next step.
LEMMA LandedKeeps ==
    ASSUME Orderly, KeysInv, NEW t \in Terminals, Landed(t)
    PROVE  Keeps(t)
<1>0. Types /\ FilesInv /\ JobInv(t)
  BY DEF KeysInv
<1>1. /\ at[t] = "wait" /\ UNCHANGED file
      /\ \/ at'[t] = "idle"
         \/ at'[t] = "from" /\ job'[t].script = job[t].script
  BY <1>0, Lands
<1>2. FilesStep(t)
  BY <1>0, <1>1, NothingChanges
<1>3. JobInv(t)'
  <2>1. CASE at'[t] = "idle"
    BY <2>1, FreeKeeps
  <2>2. CASE at'[t] = "from" /\ job'[t].script = job[t].script
    <3>1. Dir[t] = "cloud" => Arrived /\ job[t].script.cmd # "presign"
      BY <1>0, <1>1 DEF JobInv, CloudInv, Loaded, Working
    <3>2. Arrived => Arrived'
      BY <1>2 DEF FilesStep, CloudStep
    <3>. QED
      BY <2>2, <3>1, <3>2
         DEF JobInv, CopiesInv, HomeInv, CloudInv, Own, Working, Loaded, HasDest, HasRefund, Minting
  <2>. QED
    BY <1>1, <2>1, <2>2
<1>. QED
  BY <1>2, <1>3 DEF Keeps

\* The scripts that mint, prepare a return, launch the pool or claim.
LEMMA OtherScriptsKeep ==
    ASSUME Orderly, KeysInv, NEW t \in Terminals,
           \/ Throw(t) \/ MintSupply(t) \/ LaunchPool(t) \/ Claim(t)
           \/ \E n \in Returns : ReturnPrep(t, n)
    PROVE  Keeps(t)
<1>0. Types /\ FilesInv /\ JobInv(t)
  BY DEF KeysInv
<1>1. at'[t] \in {"idle", "claim"}
  <2>1. LaunchPool(t) \/ (\E n \in Returns : ReturnPrep(t, n)) => at'[t] = "idle"
    BY DEF LaunchPool, ReturnPrep
  <2>. QED
    BY <1>0, <2>1, Stops, SupplyIsMinted, FeesAreClaimed
<1>2. JobInv(t)'
  BY <1>1, FreeKeeps
<1>3. FilesStep(t)
  <2>1. CASE Throw(t) \/ MintSupply(t) \/ LaunchPool(t) \/ Claim(t)
    <3>1. UNCHANGED file
      BY <1>0, <2>1, Stops, SupplyIsMinted, PoolIsLaunched, FeesAreClaimed
    <3>. QED
      BY <1>0, <3>1, NothingChanges
  <2>2. ASSUME NEW n \in Returns, ReturnPrep(t, n) PROVE FilesStep(t)
    <3>1. Dir[t] = "home" /\ ~Has(n) /\ NewVault(t, n) /\ n \in Name
      BY <1>0, <2>2, ReturnIsPrepared DEF Has
    <3>. QED
      BY <1>0, <3>1, NewAtHome
  <2>. QED
    BY <2>1, <2>2
<1>. QED
  BY <1>2, <1>3 DEF Keeps

\* Making the keys of genesis.
LEMMA GenesisKeeps ==
    ASSUME Orderly, KeysInv, NEW t \in Terminals, Genesis(t) \/ CreateMint(t)
    PROVE  Keeps(t)
<1>0. Types /\ FilesInv /\ JobInv(t)
  BY DEF KeysInv
<1>1. ASSUME at'[t] \in Minting, job'[t].dest = Key("genesis")', Dir[t] # "cloud"
      PROVE  JobInv(t)'
  <2>1. at'[t] \notin Loaded /\ at'[t] \notin HasDest /\ at'[t] \notin HasRefund
        /\ at'[t] \notin {"dest missing", "refund missing", "copy"}
    BY <1>1 DEF Loaded, HasDest, HasRefund, Minting
  <2>. QED
    BY <1>1, <2>1 DEF JobInv, CopiesInv, HomeInv, CloudInv, Own
<1>2. CASE Genesis(t)
  <2>1. /\ Dir[t] = "home" /\ ~Has("genesis") /\ NewVault(t, "genesis") /\ "genesis" \in Name
        /\ at'[t] = "mint" /\ job'[t].dest = <<"genesis", LastGen("genesis") + 1>>
    BY <1>0, <1>2, GenesisStarts DEF Has, Name
  <2>2. FilesStep(t) /\ Key("genesis")' = <<"genesis", LastGen("genesis") + 1>>
    BY <1>0, <2>1, NewAtHome
  <2>. QED
    BY <1>1, <2>1, <2>2 DEF Keeps, Minting
<1>3. CASE CreateMint(t)
  <2>1. at[t] = "mint" /\ at'[t] = "supply" /\ job'[t] = job[t] /\ UNCHANGED file
    BY <1>0, <1>3, MintIsMade
  <2>2. FilesStep(t)
    BY <1>0, <2>1, NothingChanges
  <2>3. Dir[t] = "home" /\ job[t].dest = Key("genesis") /\ Key("genesis")' = Key("genesis")
    BY <1>0, <2>1 DEF KeysInv, MintInv, Minting, JobInv, CopiesInv, Key
  <2>. QED
    BY <1>1, <2>1, <2>2, <2>3 DEF Keeps, Minting
<1>. QED
  BY <1>2, <1>3

\* The files only grow, and every terminal's copies stay true.
LEMMA FilesKept ==
    ASSUME Orderly, KeysInv, [Next]_vars
    PROVE  Grows /\ FilesInv' /\ \A u \in Terminals : JobInv(u)'
<1>0. Types /\ FilesInv
  BY DEF KeysInv
<1>1. ASSUME NEW t \in Terminals, Keeps(t), Others(t)
      PROVE  Grows /\ FilesInv' /\ \A u \in Terminals : JobInv(u)'
  <2>1. Grows /\ FilesInv' /\ CloudStep /\ (Dir[t] = "cloud" => SameAtHome) /\ JobInv(t)'
    BY <1>1 DEF Keeps, FilesStep
  <2>2. ASSUME NEW u \in Terminals, u # t PROVE JobInv(u)'
    <3>1. at'[u] = at[u] /\ job'[u] = job[u]
      BY <1>1, <2>2 DEF Others
    <3>2. Dir[u] = "home" => Dir[t] = "cloud"
      BY <2>2, TreasuryAssumption DEF Orderly, OneTerminal
    <3>. QED
      BY <2>1, <3>1, <3>2, JobStays
  <2>. QED
    BY <2>1, <2>2
<1>2. ASSUME UNCHANGED file, \A u \in Terminals : at'[u] = "idle" \/ (at'[u] = at[u] /\ job'[u] = job[u])
      PROVE  Grows /\ FilesInv' /\ \A u \in Terminals : JobInv(u)'
  <2>1. Grows /\ SameAtHome /\ CloudStep /\ FilesInv'
    BY <1>0, <1>2, NothingChanges
  <2>2. ASSUME NEW u \in Terminals PROVE JobInv(u)'
    BY <1>2, <2>1, FreeKeeps, JobStays
  <2>. QED
    BY <2>1, <2>2
<1>3. ASSUME NEW t \in Terminals, UNCHANGED <<at, job>> PROVE Others(t)
  BY <1>3 DEF Others
<1>4. ASSUME NEW t \in Terminals, NEW s \in Scripts[t], Start(t, s) PROVE Keeps(t) /\ Others(t)
  BY <1>0, <1>4, Starts, StartKeeps
<1>5. ASSUME NEW t \in Terminals, GetNames(t) PROVE Keeps(t) /\ Others(t)
  <2>1. UNCHANGED <<at, job>>
    BY <1>5 DEF GetNames
  <2>. QED
    BY <1>3, <1>5, <2>1, GetNamesKeeps
<1>6. ASSUME NEW t \in Terminals, LoadFrom(t) \/ GetDest(t) \/ GetRefund(t) \/ Check(t)
      PROVE  Keeps(t) /\ Others(t)
  BY <1>0, <1>6, Loads, GetsDest, GetsRefund, Checks, LoadKeeps, GetDestKeeps, GetRefundKeeps, CheckKeeps
<1>7. ASSUME NEW t \in Terminals, Sign(t) \/ Copy(t) \/ Landed(t) \/ Throw(t)
      PROVE  Keeps(t) /\ Others(t)
  BY <1>0, <1>7, Signs, Copies, Lands, Stops, SignKeeps, CopyKeeps, LandedKeeps, OtherScriptsKeep
<1>8. ASSUME NEW t \in Terminals,
             MintSupply(t) \/ LaunchPool(t) \/ Claim(t) \/ \E n \in Returns : ReturnPrep(t, n)
      PROVE  Keeps(t) /\ Others(t)
  <2>1. LaunchPool(t) \/ (\E n \in Returns : ReturnPrep(t, n)) => UNCHANGED <<at, job>>
    BY DEF LaunchPool, ReturnPrep
  <2>2. Others(t)
    BY <1>0, <1>3, <1>8, <2>1, SupplyIsMinted, FeesAreClaimed
  <2>. QED
    BY <1>8, <2>2, OtherScriptsKeep
<1>9. ASSUME NEW t \in Terminals, Genesis(t) \/ CreateMint(t) PROVE Keeps(t) /\ Others(t)
  BY <1>0, <1>9, GenesisStarts, MintIsMade, GenesisKeeps
<1>10. ASSUME (\E d \in net : Land(d)) \/ (\E c \in claims : LandClaim(c)) \/ Elsewhere
       PROVE  UNCHANGED file /\ \A u \in Terminals : at'[u] = "idle" \/ (at'[u] = at[u] /\ job'[u] = job[u])
  <2>1. CASE Elsewhere
    BY <1>0, <2>1, ElsewhereDoes
  <2>2. CASE \E d \in net : Land(d)
    BY <1>0, <2>2, LandDoes
  <2>3. CASE \E c \in claims : LandClaim(c)
    BY <1>0, <2>3, ClaimLands
  <2>. QED
    BY <1>10, <2>1, <2>2, <2>3
<1>. QED
  BY <1>1, <1>2, <1>4, <1>5, <1>6, <1>7, <1>8, <1>9, <1>10, Cases

\* What a record says stays true.
LEMMA RecStays ==
    ASSUME Types, Grows, NEW e \in sent, Owned(e.refund), Owned(e.dest), Rec(e)
    PROVE  Owned(e.refund)' /\ Owned(e.dest)' /\ Rec(e)'
<1>1. e \in Digest /\ e.vault \in Vault /\ e.refund \in Vault /\ e.dest \in Party
  BY DEF Types, TypeOK, Digest
<1>. DEFINE r == e.refund
            w == e.dest
            n == e.vault[1]
<1>2. Owned(r)' /\ Owned(w)'
  <2>1. Owned(r) /\ Owned(w)
    OBVIOUS
  <2>. HIDE DEF r, w
  <2>. QED
    BY <2>1, OwnedStays
<1>3. e.vault = Key(n) /\ n \in Name /\ Has(n)
  <2>1. e.vault = Key(e.vault[1])
    BY DEF Rec
  <2>. QED
    BY <1>1, <2>1, OwnedHas
<1>4. Has(n)' /\ Key(n)' = Key(n)
  <2>. HIDE DEF n
  <2>. QED
    BY <1>3, Steady
<1>5. n \in Shipped => \E x \in Wanted(Dirs) : x.from = n /\ e = Asks(x)'
  <2>. SUFFICES ASSUME n \in Shipped PROVE \E x \in Wanted(Dirs) : x.from = n /\ e = Asks(x)'
    OBVIOUS
  <2>1. PICK x \in Wanted(Dirs) : x.from = n /\ e = Asks(x)
    BY DEF Rec
  <2>2. /\ x.from \in Name /\ x.refund \in Name /\ (x.dest # "payer" => x.dest \in Name)
    BY WantedTyped DEF Plan
  <2>3. e.refund = Key(x.refund) /\ e.dest = To(x.dest)
    BY <2>1 DEF Asks
  <2>4. Key(x.refund)' = Key(x.refund)
    <3>1. Key(x.refund)[1] = x.refund
      BY DEF Key
    <3>2. Has(x.refund)
      BY <1>1, <2>3, <3>1, OwnedHas
    <3>. QED
      BY <2>2, <3>2, Steady
  <2>5. To(x.dest)' = To(x.dest)
    <3>1. CASE x.dest = "payer"
      BY <3>1 DEF To
    <3>2. CASE x.dest # "payer"
      <4>1. e.dest = Key(x.dest) /\ Key(x.dest)[1] = x.dest /\ x.dest \in Name
        BY <2>2, <2>3, <3>2 DEF To, Key
      <4>2. Has(x.dest) \/ e.dest \notin Vault
        BY <4>1, OwnedHas
      <4>3. e.dest # Payer
        BY <3>2, <4>1 DEF Payer, Key
      <4>4. Key(x.dest)' = Key(x.dest)
        BY <1>1, <4>1, <4>2, <4>3, Steady DEF Party
      <4>. QED
        BY <3>2, <4>4 DEF To
    <3>. QED
      BY <3>1, <3>2
  <2>6. Key(x.from)' = Key(x.from)
    BY <1>4, <2>1
  <2>. QED
    BY <2>1, <2>4, <2>5, <2>6 DEF Asks
<1>6. n \notin Shipped => file'["home"][n].signed = e
  <2>1. n \notin Shipped => file["home"][n].signed = e
    BY DEF Rec
  <2>2. e # NoDigest
    BY <1>1, VaultParts DEF NoDigest
  <2>. QED
    BY <1>3, <2>1, <2>2 DEF Grows
<1>. QED
  BY <1>2, <1>3, <1>4, <1>5, <1>6 DEF Rec

\* Signing adds what the records say: at home the digest recorded, in the cloud what is wanted of
\* a vault shipped, or the digest the signed vault came with.
LEMMA SignedIsRecorded ==
    ASSUME Orderly, KeysInv, NEW t \in Terminals, Sign(t), Grows, JobInv(t)', NEW d, d = Asked(t),
           NEW n, n = This(t).from
    PROVE  /\ Owned(d.refund)' /\ Owned(d.dest)' /\ d.vault[1] = n /\ d.vault = Key(n)'
           /\ n \in Shipped => \E x \in Wanted(Dirs) : x.from = n /\ d = Asks(x)'
           /\ n \notin Shipped => file'["home"][n].signed = d
<1>. DEFINE mine == job[t].mine
<1>0. Types /\ FilesInv /\ JobInv(t) /\ (Dir[t] = "home" \/ Dir[t] = "cloud")
  BY TreasuryAssumption DEF KeysInv
<1>1. /\ at[t] = "sign" /\ mine.signed \in {NoDigest, d}
      /\ mine.signed # NoDigest => UNCHANGED file
      /\ mine.signed = NoDigest => file'[Dir[t]][n].signed = d
      /\ UNCHANGED job
  BY <1>0, SignDoes
<1>2. at[t] \in Working /\ at[t] \in Loaded /\ at[t] \in HasDest /\ at[t] \in HasRefund
  BY <1>1 DEF Working, Loaded, HasDest, HasRefund
<1>3. /\ d.vault = <<n, mine.gen>> /\ d.vault \in Vault /\ d.dest = job[t].dest /\ d.refund = job[t].refund
      /\ d.amount = This(t).amount /\ d # NoDigest
      /\ d = [vault |-> d.vault, dest |-> d.dest, refund |-> d.refund, amount |-> d.amount]
  <2>1. /\ d.vault = <<n, mine.gen>> /\ d.vault \in Vault /\ d.dest = job[t].dest /\ d.refund = job[t].refund
        /\ d.amount = This(t).amount /\ d # NoDigest
    BY <1>0, <1>2, AskedTyped, AskedIsOne DEF Types
  <2>2. d = [vault |-> d.vault, dest |-> d.dest, refund |-> d.refund, amount |-> d.amount]
    BY DEF Asked
  <2>. QED
    BY <2>1, <2>2
<1>11. ~Own(t)
  BY <1>1, OwnIsRefused
<1>4. n \in Name /\ Has(n) /\ mine.gen = file["home"][n].gen /\ Key(n)' = Key(n)
  <2>1. Exists(mine) /\ mine.gen = file["home"][n].gen /\ n \in Name
    BY <1>0, <1>2, <1>11, StepTyped DEF Types, JobsTyped, JobTyped, JobInv, CopiesInv
  <2>. QED
    BY <2>1, Steady DEF Has, Exists
<1>5. d.vault = Key(n)' /\ d.vault[1] = n
  BY <1>3, <1>4 DEF Key
<1>6. This(t)' = This(t)
  BY <1>1 DEF This
<1>7. d.dest = To(This(t).dest)' /\ d.refund = Key(This(t).refund)'
  BY <1>0, <1>2, <1>3, <1>6, <1>11, ResolvedStays DEF JobInv
<1>8. Owned(d.refund)' /\ Owned(d.dest)'
  <2>1. Owned(d.refund)'
    BY <1>7 DEF Owned, Key
  <2>2. Owned(d.dest)'
    BY <1>7, VaultParts DEF Owned, To, Key
  <2>. QED
    BY <2>1, <2>2
<1>9. n \in Shipped => \E x \in Wanted(Dirs) : x.from = n /\ d = Asks(x)'
  <2>. SUFFICES ASSUME n \in Shipped PROVE \E x \in Wanted(Dirs) : x.from = n /\ d = Asks(x)'
    OBVIOUS
  <2>2. This(t) \in Wanted(Dirs)
    BY <1>0, <1>2, ScriptsKeepTo
  <2>3. PICK x \in Wanted(Dirs) : x = This(t)
    BY <2>2
  <2>4. d.dest = To(x.dest)' /\ d.refund = Key(x.refund)' /\ d.amount = x.amount /\ x.from = n
    <3>1. x = This(t)'
      BY <1>6, <2>3
    <3>. QED
      BY <1>3, <1>7, <2>3, <3>1 DEF To, Key
  <2>5. d = Asks(x)'
    BY <1>3, <1>5, <2>4 DEF Asks
  <2>. QED
    BY <2>4, <2>5
<1>10. n \notin Shipped => file'["home"][n].signed = d
  <2>. SUFFICES ASSUME n \notin Shipped PROVE file'["home"][n].signed = d
    OBVIOUS
  <2>1. CASE Dir[t] = "home"
    <3>1. mine = file["home"][n]
      BY <1>0, <1>1, <1>2, <2>1 DEF JobInv, HomeInv
    <3>. QED
      BY <1>1, <1>3, <2>1, <3>1
  <2>2. CASE Dir[t] = "cloud"
    <3>1. n = Purse /\ Arrived
      BY <1>0, <1>2, <1>11, <2>2, ScriptsKeepTo DEF JobInv, CloudInv
    <3>2. mine.signed = file["home"][Purse].signed /\ file["home"][Purse].signed # NoDigest
      BY <1>0, <1>2, <1>11, <2>2, <3>1, InTheCloud DEF JobInv, CloudInv
    <3>. QED
      BY <1>1, <3>1, <3>2
  <2>. QED
    BY <1>0, <2>1, <2>2
<1>. QED
  BY <1>5, <1>8, <1>9, <1>10

\* Everything signed stays recorded.
LEMMA SentStep ==
    ASSUME Orderly, KeysInv, Grows, \A u \in Terminals : JobInv(u)', [Next]_vars
    PROVE  SentInv'
<1>0. Types /\ SentInv
  BY DEF KeysInv
<1>1. ASSUME NEW e \in sent PROVE Owned(e.refund)' /\ Owned(e.dest)' /\ Rec(e)'
  BY <1>0, <1>1, RecStays DEF SentInv
<1>2. CASE UNCHANGED sent
  BY <1>1, <1>2 DEF SentInv
<1>3. ASSUME NEW t \in Terminals, Sign(t) PROVE SentInv'
  <2>1. PICK d, n : d = Asked(t) /\ n = This(t).from
    OBVIOUS
  <2>2. /\ Owned(d.refund)' /\ Owned(d.dest)' /\ d.vault[1] = n /\ d.vault = Key(n)'
        /\ n \in Shipped => \E x \in Wanted(Dirs) : x.from = n /\ d = Asks(x)'
        /\ n \notin Shipped => file'["home"][n].signed = d
    BY <1>3, <2>1, SignedIsRecorded
  <2>3. Rec(d)'
    BY <2>2 DEF Rec
  <2>4. sent' = sent \union {d}
    BY <1>0, <1>3, <2>1, SignDoes
  <2>5. ASSUME NEW e \in sent' PROVE (Owned(e.refund) /\ Owned(e.dest) /\ Rec(e))'
    BY <1>1, <2>2, <2>3, <2>4, <2>5
  <2>. QED
    BY <2>5 DEF SentInv
<1>4. (\A t \in Terminals : ~Sign(t)) => UNCHANGED sent
  <2>. SUFFICES ASSUME \A t \in Terminals : ~Sign(t) PROVE UNCHANGED sent
    OBVIOUS
  <2>1. ASSUME NEW t \in Terminals,
               \/ \E s \in Scripts[t] : Start(t, s)
               \/ GetNames(t) \/ LoadFrom(t) \/ GetDest(t) \/ GetRefund(t) \/ Check(t) \/ Copy(t) \/ Landed(t)
               \/ Throw(t) \/ \E n \in Returns : ReturnPrep(t, n)
        PROVE  UNCHANGED sent
    BY <2>1 DEF Start, GetNames, LoadFrom, GetDest, GetRefund, Check, Copy, Landed, Throw, ReturnPrep
  <2>2. ASSUME NEW t \in Terminals,
               Genesis(t) \/ CreateMint(t) \/ MintSupply(t) \/ LaunchPool(t) \/ Claim(t)
        PROVE  UNCHANGED sent
    BY <2>2 DEF Genesis, CreateMint, MintSupply, LaunchPool, Claim
  <2>3. ASSUME NEW d \in net, Land(d) PROVE UNCHANGED sent
    BY <2>3 DEF Land
  <2>4. ASSUME NEW c \in claims, LandClaim(c) PROVE UNCHANGED sent
    BY <2>4 DEF LandClaim
  <2>. QED
    BY <1>0, <2>1, <2>2, <2>3, <2>4, Cases, ElsewhereDoes
<1>. QED
  BY <1>2, <1>3, <1>4

\* Tokens go where a signature sends them, or to genesis.
LEMMA HeldStep ==
    ASSUME Orderly, KeysInv, Grows, [Next]_vars
    PROVE  HeldInv'
<1>0. Types /\ HeldInv /\ SentInv /\ held \in [Party -> Nat] /\ \A v \in Vault : v \in Party /\ v # Payer
  BY VaultParts DEF KeysInv, Types, TypeOK
<1>1. ASSUME NEW v \in Vault, Owned(v) PROVE Owned(v)'
  BY <1>1, OwnedStays
<1>2. ASSUME \A v \in Vault : held'[v] > 0 => held[v] > 0 \/ Owned(v) PROVE HeldInv'
  BY <1>0, <1>1, <1>2 DEF HeldInv
<1>3. ASSUME UNCHANGED held PROVE HeldInv'
  BY <1>2, <1>3
<1>4. ASSUME NEW t \in Terminals, MintSupply(t) PROVE HeldInv'
  <2>1. at[t] = "supply" /\ \A p \in Party : p # job[t].dest => held'[p] = held[p]
    BY <1>0, <1>4, SupplyIsMinted
  <2>2. job[t].dest = Key("genesis")
    BY <2>1 DEF KeysInv, JobInv, CopiesInv, Minting
  <2>3. Owned(job[t].dest)
    BY <2>2 DEF Owned, Key
  <2>. QED
    BY <1>0, <1>2, <2>1, <2>3
<1>5. ASSUME NEW t \in Terminals, LaunchPool(t) PROVE HeldInv'
  <2>1. \A p \in Party : p # Payer => held'[p] = held[p]
    BY <1>0, <1>5, PoolIsLaunched
  <2>. QED
    BY <1>0, <1>2, <2>1
<1>6. ASSUME NEW d \in net, Land(d) PROVE HeldInv'
  <2>1. /\ d \in sent /\ held'[d.vault] = 0
        /\ \A x \in Party \ {d.vault, d.dest, d.refund} : held'[x] = held[x]
    BY <1>0, <1>6, LandDoes
  <2>2. Owned(d.refund) /\ Owned(d.dest)
    BY <1>0, <2>1 DEF SentInv
  <2>. QED
    BY <1>0, <1>2, <2>1, <2>2
<1>7. ASSUME NEW t \in Terminals,
             \/ \E s \in Scripts[t] : Start(t, s)
             \/ GetNames(t) \/ LoadFrom(t) \/ GetDest(t) \/ GetRefund(t) \/ Check(t) \/ Sign(t) \/ Copy(t) \/ Landed(t)
             \/ Throw(t) \/ \E n \in Returns : ReturnPrep(t, n)
      PROVE  UNCHANGED held
  BY <1>7 DEF Start, GetNames, LoadFrom, GetDest, GetRefund, Check, Sign, Copy, Landed, Throw, ReturnPrep, tokens
<1>8. ASSUME NEW t \in Terminals, Genesis(t) \/ CreateMint(t) \/ Claim(t) PROVE UNCHANGED held
  BY <1>8 DEF Genesis, CreateMint, Claim, tokens
<1>9. ASSUME NEW c \in claims, LandClaim(c) PROVE UNCHANGED held
  BY <1>9 DEF LandClaim, tokens
<1>10. CASE Elsewhere
  BY <1>0, <1>3, <1>10, ElsewhereDoes DEF tokens
<1>. QED
  BY <1>3, <1>4, <1>5, <1>6, <1>7, <1>8, <1>9, <1>10, Cases

\* Initially there are no keys.
LEMMA KeysAtStart == ASSUME Orderly, Init PROVE KeysInv
<1>1. Minted
  BY MintedAtStart
<1>2. ASSUME NEW t \in Terminals PROVE JobInv(t)
  BY DEF Init, JobInv, CopiesInv, HomeInv, CloudInv, Own, Working, Loaded, HasDest, HasRefund, Minting
<1>3. \A n \in Name : ~Has(n)
  BY DEF Init, Has, Exists, NoFile, Dirs
<1>4. ~Arrived
  BY <1>3, TheShipment DEF Arrived
<1>7. file["cloud"][Purse].signed = NoDigest
  BY TheShipment DEF Init, NoFile, Dirs
<1>5. FilesInv
  BY <1>3, <1>4, <1>7 DEF FilesInv, Masters, CloudFiles
<1>6. SentInv /\ HeldInv
  BY VaultParts DEF Init, SentInv, HeldInv
<1>. QED
  BY <1>1, <1>2, <1>5, <1>6 DEF KeysInv, Minted

\* Every step keeps the invariant of the keys.
LEMMA KeysStep ==
    ASSUME Orderly, KeysInv, [Next]_vars
    PROVE  KeysInv'
<1>1. Types'
  BY TypeStep DEF KeysInv
<1>2. MintInv'
  BY <1>1, MintStep DEF KeysInv, Orderly
<1>3. Grows /\ FilesInv' /\ \A u \in Terminals : JobInv(u)'
  BY FilesKept
<1>4. SentInv' /\ HeldInv'
  BY <1>3, SentStep, HeldStep
<1>. QED
  BY <1>1, <1>2, <1>3, <1>4 DEF KeysInv

\* A key whose messages are all recorded signed one message.
LEMMA OneRecordPerKey ==
    ASSUME Orderly, KeysInv
    PROVE  OneMessagePerKey
<1>1. Ships(Shipment)
  BY TheShipment
<1>2. ASSUME NEW d \in sent, NEW e \in sent, d.vault = e.vault PROVE d = e
  <2>1. Rec(d) /\ Rec(e)
    BY DEF KeysInv, SentInv
  <2>. DEFINE n == d.vault[1]
  <2>2. n = e.vault[1]
    BY <1>2
  <2>3. CASE n \in Shipped
    <3>1. PICK x \in Wanted(Dirs) : x.from = n /\ d = Asks(x)
      BY <2>1, <2>3 DEF Rec
    <3>2. PICK y \in Wanted(Dirs) : y.from = n /\ e = Asks(y)
      BY <2>1, <2>2, <2>3 DEF Rec
    <3>3. x.dest = y.dest /\ x.refund = y.refund /\ x.amount = y.amount
      BY <1>1, <2>3, <3>1, <3>2 DEF Ships, Shipped
    <3>. QED
      BY <3>1, <3>2, <3>3 DEF Asks
  <2>4. CASE n \notin Shipped
    BY <2>1, <2>2, <2>4 DEF Rec
  <2>. QED
    BY <2>3, <2>4
<1>. QED
  BY <1>2 DEF OneMessagePerKey

\* A vault whose key is at home has its master there.
LEMMA OwnedIsKept ==
    ASSUME KeysInv, NEW v \in Vault, Owned(v)
    PROVE  Kept(v)
<1>1. v = Key(v[1]) /\ v[1] \in Name /\ Has(v[1])
  BY OwnedHas DEF Owned
<1>2. file["home"][v[1]].master
  BY <1>1 DEF KeysInv, FilesInv, Masters
<1>. QED
  BY <1>1, <1>2 DEF Kept, Key, Dirs

\* In each directory one terminal runs one script at a time, and of a vault shipped to the cloud
\* the scripts there and those at home want the same: then a key signs one message although both
\* may spend it, and however often the scripts are killed and started again.
THEOREM KeysSignOnce ==
    ASSUME Orderly
    PROVE  Spec => []OneMessagePerKey
<1>1. Spec => []KeysInv
  BY KeysAtStart, KeysStep, PTL DEF Spec
<1>. QED
  BY <1>1, OneRecordPerKey, PTL

\* Then, too, the keys of every vault that holds tokens or will are in a key file.
THEOREM KeysAreKept ==
    ASSUME Orderly
    PROVE  Spec => []KeysKept
<1>1. Spec => []KeysInv
  BY KeysAtStart, KeysStep, PTL DEF Spec
<1>2. ASSUME KeysInv PROVE KeysKept
  <2>1. \A v \in Vault : held[v] > 0 => Kept(v)
    BY <1>2, OwnedIsKept DEF KeysInv, HeldInv
  <2>2. ASSUME NEW d \in net PROVE Kept(d.refund) /\ (d.dest \in Vault => Kept(d.dest))
    <3>1. d \in sent /\ d.refund \in Vault
      BY <1>2 DEF KeysInv, Types, TypeOK, Digest
    <3>2. Owned(d.refund) /\ Owned(d.dest)
      BY <1>2, <3>1 DEF KeysInv, SentInv
    <3>. QED
      BY <1>2, <3>1, <3>2, OwnedIsKept
  <2>. QED
    BY <2>1, <2>2 DEF KeysKept
<1>. QED
  BY <1>1, <1>2, PTL

-----------------------------------------------------------------------------
(* Doomed spends.                                                           *)

\* A digest that its vault can still pay, or that is paid.
Affordable(d) == spent[d.vault] = NoDigest => Acceptable(d)

\* A terminal signs what its vault can pay; a vault that checkSpend did not see holds the amount.
SignInv(t) == at[t] = "sign" /\ job[t].mine.signed = NoDigest => Affordable(Asked(t))
Before == {"from", "dest", "dest missing", "refund", "refund missing", "check"}
FundInv(t) ==
    at[t] \in Before /\ ~This(t).checked =>
        /\ Has(This(t).from)
        /\ spent[Key(This(t).from)] = NoDigest => This(t).amount <= held[Key(This(t).from)]
RecordsInv == \A d \in Dirs, n \in Name : file[d][n].signed # NoDigest => Affordable(file[d][n].signed)
PaidInv == KeysInv /\ RecordsInv /\ \A t \in Terminals : SignInv(t) /\ FundInv(t)

\* The balance of an unspent vault never falls.
BalancesGrow == \A v \in Vault : spent'[v] = NoDigest => spent[v] = NoDigest /\ held[v] <= held'[v]

\* Only a spend takes from a vault, and it marks the vault.
LEMMA BalanceStep ==
    ASSUME Types, [Next]_vars
    PROVE  BalancesGrow
<1>0. held \in [Party -> Nat] /\ \A v \in Vault : v \in Party /\ v # Payer /\ held[v] \in Nat
  BY VaultParts DEF Types, TypeOK
<1>1. ASSUME UNCHANGED <<held, spent>> PROVE BalancesGrow
  BY <1>0, <1>1 DEF BalancesGrow
<1>2. ASSUME NEW t \in Terminals, MintSupply(t) PROVE BalancesGrow
  <2>1. /\ job[t].dest \in Party /\ held'[job[t].dest] = held[job[t].dest] + Supply
        /\ \A p \in Party : p # job[t].dest => held'[p] = held[p]
        /\ UNCHANGED spent /\ Supply \in Nat
    BY <1>2, SupplyIsMinted, TreasuryAssumption
  <2>2. ASSUME NEW v \in Vault PROVE held[v] <= held'[v]
    <3>1. CASE v = job[t].dest
      BY <1>0, <2>1, <3>1
    <3>2. CASE v # job[t].dest
      BY <1>0, <2>1, <3>2
    <3>. QED
      BY <3>1, <3>2
  <2>. QED
    BY <2>1, <2>2 DEF BalancesGrow
<1>3. ASSUME NEW t \in Terminals, LaunchPool(t) PROVE BalancesGrow
  <2>1. UNCHANGED spent /\ \A p \in Party : p # Payer => held'[p] = held[p]
    BY <1>3, PoolIsLaunched
  <2>. QED
    BY <1>0, <2>1 DEF BalancesGrow
<1>4. ASSUME NEW d \in net, Land(d) PROVE BalancesGrow
  <2>1. /\ d \in Digest /\ d.vault \in Vault /\ d.dest \in Party /\ d.refund \in Party /\ d.amount \in Nat
        /\ d.vault \in Party /\ d.amount <= held[d.vault]
        /\ held'[d.dest] = held[d.dest] + d.amount
        /\ held'[d.refund] = held[d.refund] + (held[d.vault] - d.amount)
        /\ \A x \in Party \ {d.vault, d.dest, d.refund} : held'[x] = held[x]
        /\ spent'[d.vault] = d /\ \A v \in Vault : v # d.vault => spent'[v] = spent[v]
    BY <1>4, LandDoes
  <2>2. d # NoDigest
    BY <2>1, VaultParts DEF NoDigest
  <2>3. ASSUME NEW v \in Vault, spent'[v] = NoDigest PROVE spent[v] = NoDigest /\ held[v] <= held'[v]
    <3>1. v # d.vault
      BY <2>1, <2>2, <2>3
    <3>2. CASE v = d.dest
      BY <1>0, <2>1, <2>3, <3>1, <3>2
    <3>3. CASE v = d.refund
      <4>1. held[d.refund] \in Nat /\ held[d.vault] \in Nat
        BY <1>0, <2>1
      <4>2. held[d.refund] <= held[d.refund] + (held[d.vault] - d.amount)
        BY <2>1, <4>1
      <4>. QED
        BY <2>1, <2>3, <3>1, <3>3, <4>2
    <3>4. CASE v # d.dest /\ v # d.refund
      BY <1>0, <2>1, <2>3, <3>1, <3>4
    <3>. QED
      BY <3>2, <3>3, <3>4
  <2>. QED
    BY <2>3 DEF BalancesGrow
<1>5. ASSUME NEW t \in Terminals,
             \/ \E s \in Scripts[t] : Start(t, s)
             \/ GetNames(t) \/ LoadFrom(t) \/ GetDest(t) \/ GetRefund(t) \/ Check(t) \/ Sign(t) \/ Copy(t) \/ Landed(t)
             \/ Throw(t) \/ \E n \in Returns : ReturnPrep(t, n)
      PROVE  UNCHANGED <<held, spent>>
  BY <1>5 DEF Start, GetNames, LoadFrom, GetDest, GetRefund, Check, Sign, Copy, Landed, Throw, ReturnPrep, tokens
<1>6. ASSUME NEW t \in Terminals, Genesis(t) \/ CreateMint(t) \/ Claim(t) PROVE UNCHANGED <<held, spent>>
  BY <1>6 DEF Genesis, CreateMint, Claim, tokens
<1>7. ASSUME NEW c \in claims, LandClaim(c) PROVE UNCHANGED <<held, spent>>
  BY <1>7 DEF LandClaim, tokens
<1>8. CASE Elsewhere
  BY <1>1, <1>8, ElsewhereDoes DEF tokens
<1>. QED
  BY <1>1, <1>2, <1>3, <1>4, <1>5, <1>6, <1>7, <1>8, Cases

\* A digest its vault can pay stays one until the vault is spent.
LEMMA AffordableStays ==
    ASSUME Types, Types', BalancesGrow, NEW d \in Digest, Affordable(d)
    PROVE  Affordable(d)'
<1>1. d.vault \in Vault /\ d.vault \in Party /\ d.amount \in Nat
  BY DEF Digest, Party
<1>2. held[d.vault] \in Nat /\ held'[d.vault] \in Nat
  BY <1>1 DEF Types, TypeOK
<1>3. ASSUME spent'[d.vault] = NoDigest
      PROVE  /\ d.dest # d.refund /\ d.vault \notin {d.dest, d.refund} /\ d.amount <= held'[d.vault]
  <2>1. spent[d.vault] = NoDigest /\ held[d.vault] <= held'[d.vault]
    BY <1>1, <1>3 DEF BalancesGrow
  <2>2. Acceptable(d)
    BY <2>1 DEF Affordable
  <2>. QED
    BY <1>1, <1>2, <2>1, <2>2 DEF Acceptable
<1>. QED
  BY <1>3 DEF Affordable, Acceptable

\* Where the digest in a file comes from.
LEMMA SignedFrom ==
    ASSUME Types, [Next]_vars, NEW d \in Dirs, NEW n \in Name, file'[d][n].signed # NoDigest
    PROVE  \/ \E e \in Dirs : file'[d][n].signed = file[e][n].signed
           \/ \E t \in Terminals : Sign(t) /\ job[t].mine.signed = NoDigest /\ file'[d][n].signed = Asked(t)
<1>0. file \in [Dirs -> [Name -> File]] /\ "home" \in Dirs /\ "cloud" \in Dirs /\ \A t \in Terminals : Dir[t] \in Dirs
  BY TreasuryAssumption DEF Types, TypeOK, Dirs
<1>. DEFINE Was == \E e \in Dirs : file'[d][n].signed = file[e][n].signed
<1>1. ASSUME UNCHANGED file PROVE Was
  BY <1>1
<1>2. ASSUME NEW t \in Terminals, NEW m \in Name, NewVault(t, m) PROVE Was
  <2>1. /\ file'[Dir[t]][m] = Fresh(m) /\ Fresh(m).signed = NoDigest
        /\ \A e \in Dirs, x \in Name : e # Dir[t] \/ x # m => file'[e][x] = file[e][x]
    BY <1>0, <1>2, NewVaultWrites, ZenonT(60)
  <2>. QED
    BY <2>1
<1>3. ASSUME NEW t \in Terminals, GetNames(t) PROVE Was
  <2>1. /\ \A x \in Name : x \in job[t].script.names /\ ~Exists(file[Dir[t]][x]) => file'[Dir[t]][x].signed = NoDigest
        /\ \A x \in Name : x \notin job[t].script.names \/ Exists(file[Dir[t]][x]) => file'[Dir[t]][x] = file[Dir[t]][x]
        /\ \A e \in Dirs, x \in Name : e # Dir[t] => file'[e][x] = file[e][x]
    <3>1. /\ \A x \in Name : x \in job[t].script.names /\ ~Exists(file[Dir[t]][x]) =>
                 file'[Dir[t]][x] = Fresh(x) /\ Fresh(x).signed = NoDigest
          /\ \A x \in Name : x \notin job[t].script.names \/ Exists(file[Dir[t]][x]) => file'[Dir[t]][x] = file[Dir[t]][x]
          /\ \A e \in Dirs, x \in Name : e # Dir[t] => file'[e][x] = file[e][x]
      BY <1>0, <1>3, GetNamesWrites, ZenonT(60)
    <3>. QED
      BY <3>1
  <2>2. file'[d][n] = file[d][n]
    BY <2>1
  <2>. QED
    BY <2>2
<1>4. ASSUME NEW t \in Terminals, GetDest(t) PROVE Was
  <2>1. UNCHANGED file \/ (NewVault(t, This(t).dest) /\ This(t).dest \in Name)
    <3>1. at[t] \in Working
      BY <1>4, GetsDest DEF Working, Loaded
    <3>2. This(t).dest # "payer" => This(t).dest \in Name
      BY <3>1, StepTyped DEF Types
    <3>. QED
      BY <1>4, <3>2, GetsDest DEF MissesDest
  <2>. QED
    BY <1>1, <1>2, <2>1
<1>5. ASSUME NEW t \in Terminals, GetRefund(t) PROVE Was
  <2>1. UNCHANGED file \/ (NewVault(t, This(t).refund) /\ This(t).refund \in Name)
    <3>1. at[t] \in Working
      BY <1>5, GetsRefund DEF Working, Loaded
    <3>2. This(t).refund \in Name
      BY <3>1, StepTyped DEF Types
    <3>. QED
      BY <1>5, <3>2, GetsRefund DEF MissesRefund
  <2>. QED
    BY <1>1, <1>2, <2>1
<1>6. ASSUME NEW t \in Terminals, Sign(t)
      PROVE  Was \/ (job[t].mine.signed = NoDigest /\ file'[d][n].signed = Asked(t))
  <2>1. /\ job[t].mine.signed # NoDigest => UNCHANGED file
        /\ job[t].mine.signed = NoDigest => file'[Dir[t]][This(t).from].signed = Asked(t)
        /\ \A e \in Dirs, x \in Name : e # Dir[t] \/ x # This(t).from => file'[e][x] = file[e][x]
    BY <1>6, SignDoes
  <2>. QED
    BY <1>1, <2>1
<1>7. ASSUME NEW t \in Terminals, Copy(t) PROVE Was
  <2>1. /\ \A x \in Name : file'["home"][x] = file["home"][x]
        /\ file'["cloud"][This(t).from].signed = file["home"][This(t).from].signed
        /\ \A x \in Name : x \in job[t].script.names /\ x # This(t).from => file'["cloud"][x] = file["home"][x]
        /\ \A x \in Name : x \notin job[t].script.names /\ x # This(t).from => file'["cloud"][x] = file["cloud"][x]
    BY <1>7, CopyDoes
  <2>2. file'[d][n].signed \in {file["home"][n].signed, file["cloud"][n].signed}
    BY <2>1 DEF Dirs
  <2>. QED
    BY <1>0, <2>2
<1>8. ASSUME NEW t \in Terminals, NEW m \in Returns, ReturnPrep(t, m) PROVE Was
  BY <1>2, <1>8, ReturnIsPrepared
<1>9. ASSUME NEW t \in Terminals, Genesis(t) PROVE Was
  BY <1>2, <1>9, GenesisStarts DEF Name
<1>10. ASSUME NEW t \in Terminals, NEW s \in Scripts[t], Start(t, s) PROVE UNCHANGED file
  BY <1>10, Starts
<1>11. ASSUME NEW t \in Terminals,
             LoadFrom(t) \/ Check(t) \/ Landed(t) \/ Throw(t) \/ CreateMint(t) \/ MintSupply(t)
             \/ LaunchPool(t) \/ Claim(t)
       PROVE  UNCHANGED file
  BY <1>11, Loads, Checks, Lands, Stops, MintIsMade, SupplyIsMinted, PoolIsLaunched, FeesAreClaimed
<1>12. ASSUME NEW e \in net, Land(e) PROVE UNCHANGED file
  BY <1>12, LandDoes
<1>13. ASSUME NEW c \in claims, LandClaim(c) PROVE UNCHANGED file
  BY <1>13, ClaimLands
<1>. QED
  BY <1>1, <1>3, <1>4, <1>5, <1>6, <1>7, <1>8, <1>9, <1>10, <1>11, <1>12, <1>13, Cases, ElsewhereDoes

\* Every digest recorded stays affordable.
LEMMA RecordsStep ==
    ASSUME Types, Types', RecordsInv, \A t \in Terminals : SignInv(t), [Next]_vars
    PROVE  RecordsInv'
<1>1. BalancesGrow
  BY BalanceStep
<1>2. ASSUME NEW d \in Dirs, NEW n \in Name, file'[d][n].signed # NoDigest
      PROVE  \E s \in Digest : s = file'[d][n].signed /\ Affordable(s)
  <2>1. file'[d][n].signed \in Digest
    BY <1>2 DEF Types, TypeOK, File
  <2>2. CASE \E e \in Dirs : file'[d][n].signed = file[e][n].signed
    BY <1>2, <2>1, <2>2 DEF RecordsInv
  <2>3. CASE \E t \in Terminals : Sign(t) /\ job[t].mine.signed = NoDigest /\ file'[d][n].signed = Asked(t)
    <3>1. PICK t \in Terminals : Sign(t) /\ job[t].mine.signed = NoDigest /\ file'[d][n].signed = Asked(t)
      BY <2>3
    <3>2. at[t] = "sign"
      BY <3>1 DEF Sign
    <3>. QED
      BY <2>1, <3>1, <3>2 DEF SignInv
  <2>. QED
    BY <1>2, <2>2, <2>3, SignedFrom
<1>3. ASSUME NEW d \in Dirs, NEW n \in Name, file'[d][n].signed # NoDigest
      PROVE  \E s \in Digest : s = file'[d][n].signed /\ Affordable(s)'
  BY <1>1, <1>2, <1>3, AffordableStays
<1>. QED
  BY <1>3 DEF RecordsInv

\* What a careful script asks for names three vaults.
LEMMA AskedApart ==
    ASSUME Cautious, KeysInv, NEW t \in Terminals, at[t] \in HasRefund, ~Own(t)
    PROVE  Asked(t).dest # Asked(t).refund /\ Asked(t).vault \notin {Asked(t).dest, Asked(t).refund}
<1>0. Types /\ CopiesInv(t) /\ at[t] \in Working /\ at[t] \in HasDest
  BY DEF KeysInv, JobInv, Working, Loaded, HasRefund, HasDest
<1>1. Apart(This(t))
  <2>1. job[t].script \in Scripts[t] /\ job[t].k \in DOMAIN job[t].script.steps
    BY <1>0 DEF Types, JobsTyped, JobTyped
  <2>. QED
    BY <2>1 DEF Cautious, This
<1>2. /\ Asked(t).dest = To(This(t).dest) /\ Asked(t).refund = Key(This(t).refund) /\ Asked(t).refund \in Vault
      /\ Asked(t).vault \in Vault /\ Asked(t).vault[1] = This(t).from
  <2>1. /\ Asked(t).vault = <<This(t).from, job[t].mine.gen>> /\ Asked(t).vault \in Vault
        /\ Asked(t).dest = job[t].dest /\ Asked(t).refund = job[t].refund
    BY <1>0, AskedTyped DEF Types
  <2>2. job[t].refund \in Vault
    BY <1>0 DEF Types, JobsTyped, JobTyped
  <2>. QED
    BY <1>0, <2>1, <2>2 DEF CopiesInv
<1>3. Asked(t).refund[1] = This(t).refund /\ Asked(t).vault # Payer /\ Asked(t).refund # Payer
  BY <1>2, VaultParts DEF Key
<1>4. Asked(t).dest = Payer \/ Asked(t).dest[1] = This(t).dest
  BY <1>2 DEF To, Key
<1>. QED
  BY <1>1, <1>2, <1>3, <1>4 DEF Apart

\* A vault that holds the amount still does, or is spent.
LEMMA FundStays ==
    ASSUME KeysInv, Types', Grows, BalancesGrow, NEW t \in Terminals, at[t] \in Before, FundInv(t), This(t)' = This(t)
    PROVE  FundInv(t)'
<1>. SUFFICES ASSUME ~This(t).checked
              PROVE  /\ Has(This(t).from)'
                     /\ (spent[Key(This(t).from)] = NoDigest)' => (This(t).amount <= held[Key(This(t).from)])'
  BY DEF FundInv
<1>0. Types /\ at[t] \in Working
  BY DEF KeysInv, Before, Working, Loaded
<1>1. PICK n \in Name : n = This(t).from /\ n = This(t).from'
  BY <1>0, StepTyped DEF Types
<1>2. PICK m \in Nat : m = This(t).amount /\ m = This(t).amount'
  BY <1>0, StepTyped DEF Types
<1>3. Has(n) /\ (spent[Key(n)] = NoDigest => m <= held[Key(n)])
  BY <1>1, <1>2 DEF FundInv
<1>4. PICK v : v = Key(n) /\ v = Key(n)'
  BY <1>3, Steady
<1>5. v \in Vault
  <2>1. file["home"][n] \in File
    BY <1>0 DEF Types, TypeOK, Dirs
  <2>2. file["home"][n].gen \in 1..MaxGen
    BY <1>3, <2>1, TreasuryAssumption DEF File, Has, Exists
  <2>. QED
    BY <1>4, <2>2, IsVault DEF Key
<1>6. held[v] \in Nat /\ held'[v] \in Nat
  BY <1>0, <1>5, VaultParts DEF Types, TypeOK
<1>7. spent'[v] = NoDigest => m <= held'[v]
  BY <1>3, <1>4, <1>5, <1>6 DEF BalancesGrow
<1>8. Has(n)'
  BY <1>3, Steady
<1>9. Has(This(t).from)'
  BY <1>1, <1>8 DEF Has
<1>10. Key(This(t).from)' = v
  BY <1>1, <1>4 DEF Key
<1>. QED
  BY <1>2, <1>7, <1>9, <1>10

\* A terminal that does not move signs the same, and what it signs stays affordable.
LEMMA PayStays ==
    ASSUME PaidInv, Types', Grows, BalancesGrow, NEW u \in Terminals, at'[u] = at[u], job'[u] = job[u]
    PROVE  SignInv(u)' /\ FundInv(u)'
<1>0. KeysInv /\ Types /\ SignInv(u) /\ FundInv(u)
  BY DEF PaidInv, KeysInv
<1>1. This(u)' = This(u)
  BY DEF This
<1>2. FundInv(u)'
  <2>1. CASE at[u] \in Before
    BY <1>0, <1>1, <2>1, FundStays
  <2>2. CASE at[u] \notin Before
    BY <2>2 DEF FundInv
  <2>. QED
    BY <2>1, <2>2
<1>3. SignInv(u)'
  <2>. SUFFICES ASSUME at[u] = "sign", job[u].mine.signed = NoDigest PROVE Affordable(Asked(u))'
    BY DEF SignInv
  <2>1. at[u] \in HasRefund
    BY DEF HasRefund
  <2>2. PICK d \in Digest : d = Asked(u)
    BY <1>0, <2>1, AskedTyped DEF Types
  <2>3. d = Asked(u)'
    BY <1>1, <2>2 DEF Asked, Mine
  <2>4. Affordable(d)'
    BY <1>0, <2>2, AffordableStays DEF SignInv
  <2>. QED
    BY <2>3, <2>4 DEF Affordable, Acceptable
<1>. QED
  BY <1>2, <1>3

\* A check that passes, or a vault known to hold the amount, makes what is signed affordable.
LEMMA CheckPays ==
    ASSUME Orderly, Cautious, PaidInv, NEW t \in Terminals, Check(t)
    PROVE  SignInv(t)' /\ FundInv(t)'
<1>0. KeysInv /\ Types /\ JobInv(t) /\ FundInv(t)
  BY DEF PaidInv, KeysInv
<1>1. /\ at[t] = "check" /\ UNCHANGED <<file, held, spent>>
      /\ This(t).checked /\ job[t].mine.signed = NoDigest => Checked(Asked(t))
      /\ at'[t] = "sign" /\ job'[t].mine = job[t].mine /\ job'[t].dest = job[t].dest
      /\ job'[t].refund = job[t].refund /\ This(t)' = This(t)
  BY <1>0, Checks DEF Continues, tokens
<1>2. at[t] \in HasRefund /\ at[t] \in Loaded /\ at[t] \in Before /\ ~Own(t)
  BY <1>0, <1>1, OwnIsRefused DEF HasRefund, Loaded, Before
<1>3. PICK d \in Digest : d = Asked(t)
  BY <1>0, <1>2, AskedTyped DEF Types
<1>4. d = Asked(t)'
  BY <1>1, <1>3 DEF Asked, Mine
<1>5. ASSUME job[t].mine.signed = NoDigest, spent[d.vault] = NoDigest PROVE d.amount <= held[d.vault]
  <2>1. CASE This(t).checked
    BY <1>1, <1>3, <1>5, <2>1 DEF Checked
  <2>2. CASE ~This(t).checked
    <3>1. d.vault = Key(This(t).from)
      BY <1>0, <1>2, <1>3 DEF JobInv, CopiesInv, Asked, Mine, Key
    <3>. QED
      BY <1>0, <1>2, <1>3, <1>5, <2>2, <3>1 DEF FundInv, Asked
  <2>. QED
    BY <2>1, <2>2
<1>6. d.dest # d.refund /\ d.vault \notin {d.dest, d.refund}
  BY <1>0, <1>2, <1>3, AskedApart
<1>7. SignInv(t)'
  BY <1>1, <1>4, <1>5, <1>6 DEF SignInv, Affordable, Acceptable
<1>8. FundInv(t)'
  BY <1>1 DEF FundInv, Before
<1>. QED
  BY <1>7, <1>8

\* A script is started on a vault that holds what its first step takes unchecked.
LEMMA StartPays ==
    ASSUME Cautious, PaidInv, NEW t \in Terminals, NEW s \in Scripts[t], Start(t, s)
    PROVE  SignInv(t)' /\ FundInv(t)'
<1>0. Types
  BY DEF PaidInv, KeysInv
<1>1. /\ at'[t] = "from" /\ This(t)' = s.steps[1] /\ UNCHANGED <<file, held, spent>>
      /\ Careful /\ ~s.steps[1].checked => Funded(Dir[t], s.steps[1])
  BY <1>0, Starts DEF tokens
<1>4. 1 \in DOMAIN s.steps /\ s.steps[1] \in Plan
  <2>1. s.steps \in Seq(Plan) /\ s.steps # <<>>
    BY ScriptsAssumption DEF Script
  <2>. QED
    BY <2>1
<1>2. s.steps[1].checked \/ Dir[t] = "home"
  BY <1>4 DEF Cautious
<1>3. ASSUME ~s.steps[1].checked
      PROVE  Has(s.steps[1].from) /\ s.steps[1].amount <= held[Key(s.steps[1].from)]
  <2>1. Funded("home", s.steps[1])
    BY <1>1, <1>2, <1>3 DEF Cautious
  <2>2. s.steps[1].amount \in Nat /\ s.steps[1].from \in Name
    BY <1>4 DEF Plan
  <2>3. file["home"][s.steps[1].from].gen \in 1..MaxGen
    <3>1. file["home"][s.steps[1].from] \in File
      BY <1>0, <2>2 DEF Types, TypeOK, Dirs
    <3>. QED
      BY <2>1, <3>1, TreasuryAssumption, SMTT(40) DEF File, Funded, Exists
  <2>4. held[Key(s.steps[1].from)] \in Nat
    BY <1>0, <2>2, <2>3, IsVault DEF Types, TypeOK, Key
  <2>. QED
    BY <2>1, <2>2, <2>4 DEF Funded, Has, Key
<1>5. FundInv(t)'
  BY <1>1, <1>3 DEF FundInv, Has, Key
<1>6. SignInv(t)'
  BY <1>1 DEF SignInv
<1>. QED
  BY <1>5, <1>6

\* Every step keeps what the terminals sign affordable.
LEMMA PaysStep ==
    ASSUME Cautious, Orderly, PaidInv, Types', Grows, [Next]_vars, NEW u \in Terminals
    PROVE  SignInv(u)' /\ FundInv(u)'
<1>0. Types /\ KeysInv /\ SignInv(u) /\ FundInv(u) /\ BalancesGrow
  BY BalanceStep DEF PaidInv, KeysInv
<1>1. ASSUME at'[u] = at[u], job'[u] = job[u] PROVE SignInv(u)' /\ FundInv(u)'
  BY <1>0, <1>1, PayStays
<1>2. ASSUME at'[u] \notin Before \union {"sign"} PROVE SignInv(u)' /\ FundInv(u)'
  BY <1>2 DEF SignInv, FundInv
<1>3. ASSUME NEW t \in Terminals, Others(t), u = t => SignInv(u)' /\ FundInv(u)' PROVE SignInv(u)' /\ FundInv(u)'
  BY <1>1, <1>3 DEF Others
<1>4. ASSUME at'[u] \in Before, at[u] \in Before, This(u)' = This(u) PROVE SignInv(u)' /\ FundInv(u)'
  <2>1. FundInv(u)'
    BY <1>0, <1>4, FundStays
  <2>2. at'[u] # "sign"
    BY <1>4 DEF Before
  <2>. QED
    BY <2>1, <2>2 DEF SignInv
<1>5. ASSUME NEW t \in Terminals, NEW s \in Scripts[t], Start(t, s) PROVE SignInv(u)' /\ FundInv(u)'
  BY <1>0, <1>3, <1>5, Starts, StartPays
<1>6. ASSUME NEW t \in Terminals, GetNames(t) \/ LaunchPool(t) \/ \E n \in Returns : ReturnPrep(t, n)
      PROVE  SignInv(u)' /\ FundInv(u)'
  <2>1. UNCHANGED <<at, job>>
    BY <1>6 DEF GetNames, LaunchPool, ReturnPrep
  <2>. QED
    BY <1>1, <2>1
<1>7. ASSUME NEW t \in Terminals, LoadFrom(t) \/ GetDest(t) PROVE SignInv(u)' /\ FundInv(u)'
  <2>1. /\ Others(t) /\ at[t] \in Before /\ at'[t] \in Before /\ This(t)' = This(t)
    <3>1. CASE LoadFrom(t)
      BY <1>0, <3>1, Loads DEF Continues, Before
    <3>2. CASE GetDest(t)
      BY <1>0, <3>2, GetsDest DEF Continues, Before
    <3>. QED
      BY <1>7, <3>1, <3>2
  <2>. QED
    BY <1>3, <1>4, <2>1
<1>8. ASSUME NEW t \in Terminals, GetRefund(t) PROVE SignInv(u)' /\ FundInv(u)'
  <2>1. /\ Others(t) /\ at[t] \in Before /\ at'[t] \in Before /\ This(t)' = This(t)
    BY <1>0, <1>8, GetsRefund DEF Continues, Before
  <2>. QED
    BY <1>3, <1>4, <2>1
<1>9. ASSUME NEW t \in Terminals, Check(t) PROVE SignInv(u)' /\ FundInv(u)'
  BY <1>0, <1>3, <1>9, Checks, CheckPays
<1>10. ASSUME NEW t \in Terminals, Others(t), at'[t] \in {"copy", "wait", "idle", "mint", "supply", "claim"}
       PROVE  SignInv(u)' /\ FundInv(u)'
  BY <1>2, <1>3, <1>10 DEF Before
<1>11. ASSUME NEW t \in Terminals, Sign(t) \/ Copy(t) \/ Throw(t) PROVE SignInv(u)' /\ FundInv(u)'
  <2>1. Others(t) /\ at'[t] \in {"copy", "wait", "idle"}
    <3>1. CASE Sign(t)
      BY <1>0, <3>1, Signs DEF Continues
    <3>2. CASE Copy(t) \/ Throw(t)
      BY <1>0, <3>2, Copies, Stops
    <3>. QED
      BY <1>11, <3>1, <3>2
  <2>. QED
    BY <1>10, <2>1
<1>12. ASSUME NEW t \in Terminals, Genesis(t) \/ CreateMint(t) \/ MintSupply(t) \/ Claim(t)
       PROVE  SignInv(u)' /\ FundInv(u)'
  BY <1>0, <1>10, <1>12, GenesisStarts, MintIsMade, SupplyIsMinted, FeesAreClaimed
<1>13. ASSUME NEW t \in Terminals, Landed(t) PROVE SignInv(u)' /\ FundInv(u)'
  <2>1. /\ Others(t) /\ at[t] = "wait"
        /\ \/ at'[t] = "idle"
           \/ /\ at'[t] = "from" /\ job'[t].script = job[t].script /\ job'[t].k = job[t].k + 1
              /\ job'[t].k \in DOMAIN job[t].script.steps /\ job[t].k >= 1
    BY <1>0, <1>13, Lands
  <2>2. CASE at'[t] = "idle"
    BY <1>10, <2>1, <2>2
  <2>3. CASE at'[t] = "from" /\ at'[t] # "idle"
    <3>1. job[t].script \in Scripts[t] /\ job[t].k \in Nat
      BY <1>0, <2>1 DEF Types, JobsTyped, JobTyped, Job, Working, Loaded
    <3>2. job'[t].k # 1
      BY <2>1, <2>3, <3>1
    <3>3. This(t)'.checked
      BY <2>1, <2>3, <3>1, <3>2 DEF Cautious, This
    <3>4. SignInv(t)' /\ FundInv(t)'
      BY <2>3, <3>3 DEF SignInv, FundInv
    <3>. QED
      BY <1>3, <2>1, <3>4
  <2>. QED
    BY <2>1, <2>2, <2>3
<1>14. ASSUME NEW d \in net, Land(d) PROVE SignInv(u)' /\ FundInv(u)'
  BY <1>0, <1>1, <1>14, LandDoes
<1>15. ASSUME NEW c \in claims, LandClaim(c) PROVE SignInv(u)' /\ FundInv(u)'
  BY <1>0, <1>1, <1>2, <1>15, ClaimLands DEF Before
<1>16. CASE Elsewhere
  BY <1>0, <1>1, <1>16, ElsewhereDoes
<1>. QED
  BY <1>5, <1>6, <1>7, <1>8, <1>9, <1>11, <1>12, <1>13, <1>14, <1>15, <1>16, Cases

\* If, besides, scripts that do not call checkSpend are started on vaults that hold the amount, no
\* key signs a spend that the program would refuse for ever.
THEOREM NoneIsDoomed ==
    ASSUME Orderly, Cautious
    PROVE  Spec => []NotDoomed
<1>1. ASSUME Init PROVE PaidInv
  <2>1. KeysInv
    BY <1>1, KeysAtStart
  <2>2. RecordsInv
    BY <1>1 DEF Init, RecordsInv, NoFile
  <2>3. \A t \in Terminals : SignInv(t) /\ FundInv(t)
    BY <1>1 DEF Init, SignInv, FundInv, Before
  <2>. QED
    BY <2>1, <2>2, <2>3 DEF PaidInv
<1>2. ASSUME PaidInv, [Next]_vars PROVE PaidInv'
  <2>1. KeysInv' /\ Types' /\ Types /\ Grows
    BY <1>2, KeysStep, FilesKept DEF PaidInv, KeysInv
  <2>2. RecordsInv'
    BY <1>2, <2>1, RecordsStep DEF PaidInv
  <2>3. ASSUME NEW t \in Terminals PROVE SignInv(t)' /\ FundInv(t)'
    BY <1>2, <2>1, <2>3, PaysStep
  <2>. QED
    BY <2>1, <2>2, <2>3 DEF PaidInv
<1>3. PaidInv => NotDoomed
  BY DEF PaidInv, RecordsInv, Affordable, NotDoomed
<1>. QED
  BY <1>1, <1>2, <1>3, PTL DEF Spec
=============================================================================
