# QuantCoin: TLA+ models and proofs

QuantCoin (QC) is a Token-2022 token on Solana whose holders keep it in *vaults*.
A vault is a program-derived address (PDA) fixed by a Winternitz one-time key and
an Ed25519 owner key. Spending needs both signatures, empties the vault, marks it
spent for ever and sends the remainder to a fresh vault. Everything hard in this
repository follows from that: a key may sign one message only, a signed message
must remain landable, and a client must never lose the next vault's keys, in
spite of crashes, lost answers, failing storage and overlapping tasks.

## 1. Inventory

| Component | Source | State | Operations | Module |
| --- | --- | --- | --- | --- |
| Vault program | `programs/qc-vault/src/lib.rs` | none of its own: PDA owner (spent marker), token accounts, lamports | `Spend` | `QcVault`, `OneShotVault` |
| Winternitz signatures | `programs/qc-vault/src/wots.rs` | none | `digits`, `sign`, `recover_pk_hash` | `Wots` |
| Fork suites, mainnet audit | `client/{surfpool-suite,fork-extra,fork-memo,audit-mainnet}.ts` | none | build transactions, expect answers | `VaultTests`, `SpendMessage` |
| Formats | `client/qc.ts`, `client/generated`, `client/codama.ts`, `app/src/lib/vault.ts`, `apps/native/lib/{tx,wallet}.dart`, `lib.rs` | none | encode, parse, hash, display | `SpendMessage` |
| Mobile/desktop wallet | `apps/native/lib/{keystore,send,wallet,chain,main}.dart` | one key record per network in the OS keystore; shown vault address in the preferences; per page: keys, step, messages | load, create, import, send, resume, settle | `NativeWallet` |
| Its passcode | `apps/native/lib/main.dart` 76-104, 262-304, 746-789 | code, wrong codes and lock time in the preferences | set, check, unlock, ask before a send | `Passcode` |
| Web app | `app/src/lib/{store,flow,vault,seal}.ts`, `app/src/App.tsx` | list of vault records in localStorage, shared by tabs | create, back up, import, deposit, withdraw, refresh | `WebVault` |
| Browser extension | `apps/extension/src` | the same list in chrome.storage.local behind one in-memory mirror per window; an owner key of its own, an RPC server | as the web app; create and import the owner key, choose a server, sweep leftover rent | `WebVault` with `Mirrored`, `Extension` |
| Command-line client | `client/{qc,genesis,spend,allocate,bounty,mainnet-bench,presign-bench,return-prep,launch-pool,claim-fees,verify-mainnet}.ts` | one key file per vault and directory | genesis, spend, allocate, bench, presign, pool, claim, verify | `Treasury` |
| Upgrade governance | `client/upgrade.ts`, `client/squads*.ts`, the shell executors | a state file per TAG; multisig proposals; the stage and attempts of an executor | buffer, propose, fund, approve, extend, execute, time lock, rotation, unattended execution | `Squads`, `Upgrade`, `Executor` |
| Rest | `web/`, `transparency/`, RPC proxy, benchmarks, brand, platform runners | none kept between calls | pages and scripts | not modelled |

How they interact: every client derives the vault address and the digest the
program recomputes (`spend_digest`), signs it with the one-time key, records the
digest in its own storage *before* the signature leaves the device, sends a
transaction that creates the two receiving accounts and then the spend. The
program never talks back: clients learn the outcome by polling accounts through
an RPC server that may fail before or after doing what it was asked. Clients
share no state except the ledger; tabs and pages of one client share its storage.

What makes each part correct:

* program: one spend per vault, as signed; a signed spend stays landable; the
  marker is never purged;
* signatures: what one signature reveals verifies for one message only;
* wallets: one message per key; a broadcast send can always be finished with the
  same digest; the keys of every funded vault are stored; a request is paid once;
  the address shown for deposits is live; a recorded send is finished at last;
* passcode: no code is compared before the lock after the last wrong one ended;
* formats: every client's spend is read by the program as its client meant it;
* extension: an owner key is never replaced, and a transaction reported as expired
  never lands;
* command line: one message per key across scripts, directories and restarts; one
  supply, none of it lost; no key bound to a spend that cannot land;
* governance: members vote on what they were asked for, what is deployed is what was
  voted on, a transfer is paid once, and an approved and funded upgrade is deployed at last.

## 2. Plan

Order, most important first. All but item 9 is done.

1. `QcVault` with the abstract `OneShotVault`, `MCQcVault`, `QcVaultProofs`: the
   program, its refinement, the inductive invariant and all its safety theorems.
   `VaultTests`: what the repository's own suites expect, on every ledger.
2. `Wots`, `MCWots`, `MessageProofs`: the signature's two loops.
3. `NativeWallet`, `MCNativeWallet`: the mobile and desktop wallet.
4. `WebVault`, `MCWebVault`: the web app in its tabs and the extension in its windows.
5. `Treasury`, `MCTreasury`: key files, `spendIxs`, and every script that moves the supply.
6. `Squads`, `Upgrade`, `MCUpgrade`: proposals with threshold, time lock, staleness and
   the state file. `Executor`, `MCExecutor`: the scripts that execute them unattended.
7. `SpendMessage`, composed with `Wots` in `MCWots`: the formats all of them share; their
   proofs are in `MessageProofs`.
8. `Extension`: owner key, RPC server and sweep. `Passcode`: the lockout, composed
   with `NativeWallet`.
9. Left: the overlapping balance refreshes of the mobile wallet, which change only what
   it displays.
10. Done, proofs: every safety property and every action property that a passing run
    checks, with the hypotheses of section 6; the app behind its passcode as an
    implementation of the wallet. They share `Induction`. Liveness stays with TLC.

## 3. Modules

### QcVault and OneShotVault

`QcVault` models one program instruction and the ledger it runs on.

| Model | Code |
| --- | --- |
| `Transactions`: `[d, ta, env]` | the accounts, data and signers handed to `entrypoint` and `process_instruction`; `d` is the message the program hashes |
| `Checks`, `Verdict` | every early return in the order of the code, with its error number |
| `SignatureRecoversVault` | WOTS recovery and the canonical PDA with its bump (lib.rs:192-212) |
| `TransfersSucceed`, `CanReceive` | the two `transfer_checked` CPIs with their memo |
| `Held`, `MarkerKeeps`, `Surplus`, `MarkersAfter` | close into the PDA, `Assign`, `marker_rent`, surplus to `rent_to` |
| `Spend` | the whole instruction, atomic as a Solana transaction is |
| `Sign`, `CreateAccount`, `Transfer`, `CloseByHolder`, `SwitchMemo`, `Prefund`, `ChangeRent` | everybody else: the program may not rely on any of them |

A key may sign any number of messages here: the program must keep its promises
without trusting the clients' one-time rule. `ChangeRent` only lowers the rate;
the rent of an existing account is grandfathered in the network, and a rise would
make every old marker look poor. `rent.known` is whether the sysvar's exemption
threshold is one that `marker_rent` evaluates.

`OneShotVault` is the promise alone: tokens leave a vault in one step, as signed,
at most once. `QcVault` implements it with `spent <- owned`.

`VaultTests` states of every ledger `QcVault` reaches what the suites
(`surfpool-suite.ts`, `fork-extra.ts`, `fork-memo.ts`, `audit-mainnet.ts`) test on freshly
funded vaults. `Mutations(t)` are their tampered variants of a transaction that would
land, each with the error they expect (`Redirected`, `Transplanted`, `Malformed`,
`Duplicated`, `Decoyed`, `WrongPrograms`, `WrongBump`, `WithoutOwner`, `WrongTenth`);
`Overspend`, `Replay`, `MemoMissing`, `PayeeClosed` and `PayeeReady` are their ledgers;
`Accounted` is what they read after a spend.

### Wots

One digest is signed and one is verified against that signature. A hash chain is
one-way, so a chain value is its position and whoever has a signature can compute
the positions from the signer's digit upwards. `AddDigit` is the loop of
`digits()`, for both digests at once; `Walk(p)` is one turn of the loop of
`recover_pk_hash`, started at any computable position `p`. `csum` wraps at `W * W`
as the u16 does.

### NativeWallet

`disk` is the keystore record (`Keys.toJson`), `shown` the address in the
preferences. A slot (`Pages`) is a `Keys` object in memory: a copy of the record
(`keys`), what its key objects have signed (`signed`) and the two tasks that may hold it,
`load` and `send`, whose program counters are `at[p]`. `screen` says which slots belong to
the page on screen and which of them is the object it shows, its `_keys`: a task keeps the
object it started with when the page turns to another one or is left. Every await is a
step boundary.

| Model | Code |
| --- | --- |
| `OpenPage`, `LeavePage` | the tab switch builds and disposes `_SendPageState`; disposing stops no task |
| `TryLoad` (`Load`, `LoadFails`), `LoadHere`, `Dropped` | `KeyStore.load` and `_load`; what was read is a new object, on which the page goes on |
| `AskYes`, `AskNo`, `Settle`, `Adopt` | `settleIfLanded`, `_finish`, `_adopt`, in both tasks |
| `Create`, `ShowCreated` | `_create`: the new keys are shown, and read again while the page takes a press |
| `Press`, `Cancel`, `Confirm` | the button, the dialog, the start of `KeyStore.send` |
| `Check`, `Persist`, `Prepare`, `Sign`, `Broadcast`, `Confirmed`, `Finish` | `sendQc` and `_finish` |
| `Throw`, `Handle` | any failing call and the handler in `KeyStore.send` |
| `Land`, `Expire`, `Deposit`, `Crash` | the chain (one spend per vault, module QcVault), depositors, the operating system |

A payment stands for recipient and amount. `Patience` says when the user of a page acts:
once it has settled what it read (`"settled"`), once it has read the record (`"read"`), or
at once (`"none"`). The code asks him to wait for neither. A page at a time and a settled
one, with no failing read, is what the code handles well. With one slot and `"read"` a
key still signs one message; the other violations of section 7 appear. With `"none"` the
page may show keys that it is reading again, and a key signs two (`MCWalletHasty`).

### Passcode

The app around the send page: `Passcode` EXTENDS `NativeWallet` and adds the gate to
its steps.

| Model | Code |
| --- | --- |
| `Compared`, `RightCode`, `WrongCode`, `LockAfter` | `checkCode` |
| `LockEnds` | `codeLock` over time |
| `TypeNewCode`, `TypeCode`, `Biometrics` | the unlock screen: `_key`, `setCode`, `_bio` |
| `Authorise`, `Refuse` | `_confirm` and `_askCode` around `Confirm` and `Cancel` of the send |
| `Restart` | the preferences after a crash; the app starts locked |

`misses` and `waited` are history: what a person who types codes sees, whatever the
preferences say. A lock ends in one step, because during it nothing is compared.

### WebVault

One list of records (`stored`), tabs that display a copy of it (`seen`) and run one
task each (`at`, `job`). The extension is the same module with `Mirrored = TRUE`:
each window reads the list once into `mem` and writes it back through `queue`;
`failed` is the flag `flush()` throws on. A record's public digest, its `pending`
parameters and the digest sealed with the secrets are written together by every
operation (store.ts:75-77 and 106-111), so they are one field, `signed`.

| Model | Code |
| --- | --- |
| `View`, `Put`, `Save` | `listVaults`, `getVault`, `putVault`, `syncStorage.setItem` |
| `WriteThrough`, `WriteFails`, `Flushed` | the promise chain of `setItem`; `flush` |
| `Create`, `BackUp`, `Import` | `onCreate`, `onBackup`, `onImport` with `createVault`, `downloadBackup`, `importRecord` |
| `Refresh`, `Reload`, `Reopen` | `refresh` (each vault is a step of its own), `reload`, closing and opening a tab |
| `SendDeposit`, `DepositEnds` | `onDeposit` |
| `Press`, `PlanFirst`, `PlanAgain`, `MakeNext` | `withdraw` up to the digest: first spend or retry |
| `ReadRecord`, `WriteRecord` | `recordSigned` before and after its awaits |
| `Look`, `Prepare`, `Send`, `Confirmed`, `SendFails`, `Recheck`, `Mark` | the rest of `withdraw` |
| `Throw` | any other await that fails, and `run`'s handler |
| `Land`, `Expire`, `LandDeposit`, `ExpireDeposit`, `Receive` | the chain and other senders |

`files` holds what each downloaded backup says; "Download backup again" takes the
record displayed, not the stored one. A button that is greyed out only because a
balance is unknown is taken for pressable: `withdraw` checks the balance itself.

### Extension

What the extension adds to `WebVault`: its own owner key, the choice of an RPC server,
and sending with polling, here for the sweep of leftover rent.

| Model | Code |
| --- | --- |
| `Open`, `Close` | `main.tsx` reads the storage once and renders; a popup closes at any await |
| `SetItem`, `WriteThrough`, `WriteFails`, `Flushed` | `syncStorage.setItem`, its promise chain, `flush` |
| `Starts`, `Throws`, `Ends`, `Refuse` | `run()` and the error on the page |
| `PressCreate`, `CreateOwner`, `PressImport`, `ImportOwner` | `owner.ts`: test, half a second of sealing, save |
| `SaveRpc`, `Answers`, `Refuses` | `pickRpc` calls that overlap |
| `PressSweep`, `ReadBalance`, `SaveFirst`, `GetBlockhash`, `Submit`, `Status`, `Height` | `onSweep`, `sweepIx`, `sendAs`, `confirmByPolling` |
| `Fails`, `Land`, `Tick`, `RentArrives` | failing calls and the chain |

### SpendMessage

The formats on which eight builders of a spend and the program must agree: `cli`
(qc.ts), `web` (shared by the extension), `native` (Dart), `idl` (codama.ts), `generated`
(the client made from it), and the suites' own copies `suite`, `fork`, `probe`. `Build`
makes an instruction as each of them does: the seeds of the addresses, the accounts
with their flags, the data byte by byte, the order of the digest. `Taken` and
`Answer` are what the program reads and says. `ParseAmount`, `FormatAmount` and
`RequiresMemo` (the walk over a token account's extensions) are functions of their
input, checked against what they mean. A message is used once its signature exists, so
`MCWots` composes one `use` with a finished `Wots`: each of its steps is a step of one and
leaves the other alone, so the theorems about either hold of both. Addresses are values; a
byte has `Byte` values, and the token any number of `Decimals`.

What goes in is assumed to be what the code can be given. `AmountsAssumption`: typed
amounts are a number and decimal digits (the pattern in `parseAmount`). `RequestsAssumption`:
owner key, mint, token program and system program are different keys and no token
accounts, the rent goes to no program, the derived vault and its token account are no
other address by chance, and the remainder goes to another vault (qc.ts itself does not refuse
the spending vault: `MCCliItself` of section 7). Payee, refund and rent
receiver may still coincide with each other, and the payee with the vault's account: that
is what the clients compare. `ListsAssumption`: Token-2022 keeps an extension once, its
type is not 0, and the memo extension is one byte, 0 or 1; all other bodies are arbitrary.

### Treasury

Terminals run scripts in a key directory (`home` or `cloud`). A script is data: the names
of the vaults it needs and its list of spends; `allocate.ts`, `bounty.ts`, `spend.ts`,
`mainnet-bench.ts` and `presign-bench.ts` differ in nothing else. Every step may be the
last one: `Throw` is any error and the end of the process.

| Model | Code |
| --- | --- |
| `GetNames`, `LoadFrom`, `GetDest`, `GetRefund`, `NewVault` | `vaultExists`, `loadVault`, `newVault`, `saveVault`; test and write are two steps |
| `Check`, `Checked` | `checkSpend`, skipped by `allocate.ts` and `bounty.ts` and for a recorded digest |
| `MaySign`, `Sign` | the one-time rule of `spendIxs` on the loaded copy, the recorded digest |
| `Copy` | `presign-bench.ts`: the vault goes to the cloud without its master |
| `Landed`, `Land`, `Expire` | waiting, and the chain (one spend per vault, module QcVault) |
| `Genesis`, `CreateMint`, `MintSupply` | `genesis.ts` |
| `LaunchPool`, `Trade`, `Claim`, `LandClaim` | `launch-pool.ts`, `claim-fees.ts` |
| `Verified` | `verify-mainnet.ts` |

`Careful` says that a script without `checkSpend` is started on a vault that holds
the amount.

`mainnet-bench.ts` makes any vault it misses, the spending one included (102, `GetNames`);
such a vault holds nothing, and `checkSpend` ends the script (`Check`). The bench that
`run-ra-day1.sh` falls back to at home (45-55) is the bench of the cloud, on the same files.
Before it starts, it looks whether the treasury is unspent; here it may start at any time,
beside the other.

### Squads, Upgrade and Executor

`Squads` is the multisig as its clients use it: numbered proposals, votes up to the
threshold, the age of an approval against the time lock, staleness after a change of the
configuration. `Upgrade` adds the scripts. A desk runs one script at a time; what a
script read may be stale when its transaction lands, and a killed script leaves its
transaction under way (`Lose`).

| Model | Code |
| --- | --- |
| `StartBuffer`, `WriteBuffer`, `HandOver` | `upgrade.ts buffer` |
| `Propose`, `Fund`, `Approve`, `Extend`, `Execute`, `Save` | the other steps of `upgrade.ts`; `Save` is the state file after the confirmed transaction |
| `Change`, `ChangeLock`, `Rotate`, `Vote`, `Release` | `squads-timelock.ts`, `squads-rotate.ts` with their resume |
| `LandVote`, `LandExecution`, `LandChange`, `LandExtension`, `Refuse`, `Expire` | the chain |
| `FailsUnnoticed` | an execution that landed and failed, which `confirmTransaction` does not report: the state file then says executed |
| `Rewrite` | the deployer's own shell, until a buffer's authority is handed over |

`meant` is history: what was proposed when the index in the file was saved, that is,
what a member who is asked to approve believes to approve. `Careful` says that the two
squads scripts run only while no other proposal is open, and that a TAG is not used for
a second transfer once its file names one.

`Executor` adds the two shell scripts that run while nobody watches, at a desk of their own.

| Model | Code |
| --- | --- |
| `Day1`, `V3`: stages | `run-ra-day1.sh` 38-42: transfer, extension, transfer, extension, upgrade, in this order; `exec-v3.sh` has the upgrade alone and never extends |
| `FindDone`, `TryRun`, `GiveUp` | `run_proposal` and the loop of `exec-v3.sh`: each attempt asks the chain, then executes after the release and sleeps before it; after `Tries` attempts it warns or exits |
| `TryExtend`, `FailExtend` | `extend`: not needed, confirmed, or failed; the first may fail, the second ends the script |
| `Start` | a person or the task scheduler starts it, and starts it again |
| `Unanswered`, `Kill`, `LoseCommand`, `NeverLands`, `ByHand` | what goes wrong, and a person who executes or extends beside the script |

It begins where the scripts do (`ExecutorInit`): the upgrade is approved and its buffer with
the multisig, the transfers are approved, still lack votes or are executed, and what they
bring covers the extension. An attempt that sleeps takes one tick: 720 minutes, or the 240
of `exec-v3.sh`, outlast what is left of the time lock when the script is started. The
checks of `exec-v3.sh` before its loop (hash of the build, gate file) are left out.

## 4. Runs

| Run | Shows |
| --- | --- |
| `vault_tokens` | two vaults, five messages (a payment, its rival, one to the vault's own second account, one with coinciding accounts, the next vault's): one spend per vault, tokens only as signed, spent is final, refinement of `OneShotVault`, and every tampered transaction of the suites answered as they expect |
| `vault_rent` | two rates, known and unknown threshold, prefunded PDA, memo switches, nine envelopes: rent-exempt marker, proper spends land and leave the balances the suites read, lamports are conserved |
| `wots` | all pairs of three-digit messages with chains of four positions: a signature fits one message; and, with the formats: spends are taken as meant, amounts survive typing and display, the memo flag is found |
| `wallet` | one page, a user who waits for it to settle, two crashes, failing saves, two requests of two amounts: a broadcast send can be finished, keys are kept, requests are paid once, and, with fairness, a recorded send is finished |
| `wallet_one_time` | the page behind the passcode, a user who acts as soon as it has read the record, failing saves and reads, two crashes: one message per key; no code is compared before its lock ended |
| `web_one_tab` | the web app in one tab, three vaults: all buttons, reloads at any await, lost answers: one message per key, retry possible, marks true, digests kept, backups before funds |
| `web_window` | the extension in one window whose writes are late, fail or are lost: one message per key, and liveness |
| `extension` | one window, closed at any await: owner key never replaced, an unsaved one announced, an expired transaction never lands, polling ends |
| `treasury` | genesis, allocation and a bench signed in advance, which a terminal at home and one in the cloud both run, while the treasury that funds it is also asked to pay; then the pool and claims of its fees; a fresh vault for a return: one message per key, keys kept, no doomed digest, one whole supply, everything killed anywhere and run again |
| `upgrade` | three members, two proposals of an upgrade, a transfer, a rotation or a time lock, one transaction at a time that lost its sender: votes as meant, one transfer per TAG, deployed as voted |
| `executor` | both scripts stage by stage, four attempts each, two things going wrong, a person beside them: the upgrade is deployed at last |
| `gov_resume` | the finding of section 7 |

Bounds and why they are enough. The program treats vaults independently; two are
needed for a refund into another vault, one extra account of the same vault for
decoys and self-payments, supply 2 for a payment with remainder. Rates 1 and 2
against a marker of 3 and an account of 7 bytes give every order of the marker's
minimum, the account's rent and the prefunded amount. Chains of four positions with
three digits produce every carry between the two checksum digits. Amounts keep their
eight bytes, but a byte has four values, so that a u64 is 2^16: TLC's integers have 32
bits; the amounts tried lie around every carry and the limit. The token has two
decimals there, and lists of up to three extensions include bodies that look like
the memo flag. In the wallets, three to four keys give a send, its retry and one more
send, and a chain in which the next vault is itself spent; two amounts distinguish a
resumed request from a new one; balances up to 2 give full and partial spends. The
passcode has two free misses and locks of 2 and 3, so that the cap cuts off the
doubling as 3600 s does. `Treasury` has one allocation, one bench pair and two
generations of each key: a second one is what a repeated `newVault` would make. Its pool takes
more than a bench pays out, so that the pool's life and the bench's do not multiply.
`Upgrade` has two proposals, two builds, one buffer and one tick of time lock: a second
proposal is what makes an index stale. `Executor` has transfers that pay the extension only
together, and as many attempts as one tick, two faults and one execution take. A blockhash of the extension lives one block of
four, which lets a second send follow an expired one. Bounds appear in guards as
`MaxKey`, `MaxAsks`, `MaxCrashes`, `Cap`, `PrefundCap`, `MaxMisses`, `MaxGen`, `MaxFee`,
`MaxIndex`, `MaxAge`, `MaxBuffer`, `MaxLost`, `MaxFaults`, `MaxKeys`, `MaxSaves`, `MaxSends`,
`MaxHeight`, and `Backlog`, which keeps the user from piling up writes of the extension.
Reopening a tab is not bounded. The runs that disable the deadlock check do so because
a client whose keys, requests or proposals are used up stops, and because the loops of
`wots` end.

Type invariants are theorems and no run repeats them. Configurations that belong to no
run reproduce the counterexamples of section 7. `MCTreasury` has TLC evaluate that the
scripts of `treasury` are within the hypotheses of its theorems (`LifeIsOrderly`).

## 5. Fairness

`NativeWallet`, `WebVault`, `Extension` and `Executor` have a liveness property each.
`FairSpec` of the first assumes that code which can run runs (the Dart event loop), that
the user reopens the page, leaves one that hangs, resumes the unfinished transfer the
page announces and confirms the dialog (weak fairness each), that an accepted spend
lands, and that faults stop: `<>[][~Fault]_vars` says that lost answers, failures of
calls that could succeed, cancellations and expiries of landable spends happen any
number of times but not for ever. Without it the RPC server could fail every attempt.
Nothing is assumed of crashes except their bound. `FairSpec` of `WebVault` is of the
same kind: browser tasks and queued writes proceed, an accepted spend lands, the user
reopens a window that reports a failed write and presses the button that retries a
signed withdrawal (strongly fair: other presses come in between), and failures of calls
that could succeed stop. `Finishes` there excepts a vault whose token account was opened
again after its spend; with three vaults that happens (`MCWebRemainder`).

`Executor`: the script's own steps, in their order and with their bounded attempts, and the
landing or refusal of what was sent are weakly fair; nothing else is. Time passes because
the script sleeps. Whoever looks after it starts it again when it was killed or has given up,
at most twice for each thing that went wrong: a kill costs its run, and the extension that is
still under way may cost the next one, whose own extension is then refused (run-ra-day1.sh
41). Without a fault the first run does it. `UpgradeIsDeployed` fails when the extension does not
wait for the second transfer (its mutant), when an attempt does not wait for the release, and
when `run_proposal` trusts the state file instead of the chain. It speaks of an upgrade and
transfers that nobody replaces under their TAGs.
`Extension`: the steps of a page that is sending, its queued writes and the blocks of
the chain; nothing is assumed of the transaction itself, nor of the user.

## 6. Proofs

The theorems hold for every value of the constants that satisfies the named
assumptions: any number of vaults, keys, amounts, requests, crashes and faults, without
the bounds of the runs. Where a theorem needs more than that, its ASSUME says so and
section 7, or the paragraph here, says what it excludes.

*QcVault.* Types are inductive by themselves. The argument for one spend goes through
lamports: a vault with a landed spend is owned by the program (`MarkerTellsHistory`),
because the marker keeps at least the rent minimum and the runtime therefore does not
delete it; that in turn needs `RentPaid`: every open token account holds at least the
rent of `TokenBytes` at the present rate, and `TokenBytes >= 2 * MarkerBytes`, so what
is closed into the PDA covers the marker whether its size is computed or everything is
kept. From the marker: `OneSpend`, `Replays` and `SpentVaultsKeepTokens`.
`ProperSpendsLand` needs the other half, that the surplus is either nothing or at least
a minimum, so that a new receiver is rent-exempt. `SpendsKeepLamports` follows an entry
moved from one sum to another: the fold is a sum whatever order it takes (`Induction`),
and a spend changes one account, one vault and one receiver of rent. `AnswersHold` is about
the order of the checks: the answer is the error of the first that fails (`FirstFailure`,
`Answers`), and each tampered transaction passes the checks before its own because the
genuine one does (`MutationsAnswered`). Its part `PayeeReady` needs that every account
whose rent is paid is of the mint that is spent; otherwise the transfer fails, which the
suites cannot meet with one mint. `LandingsHold` follows the balances, the marker and the
rent receiver through one spend. `Implementation`
maps `Spend` to `Pay`, `Sign` to `Sign`, `Transfer` to `Move` and the other actions to
stuttering.

*Wots* (`MessageProofs`). `ChecksumsFit` bounds both accumulators, so the u16 never wraps.
`ChecksumsOppose`: while no signed digit so far exceeds the verified one, the
verifier's checksum is at most the signer's, and equal only if the digits agree.
`WalkedFromBelow`: as long as every walked chain ended at the key, the signer's digit
is at most the verifier's on each of them. At the end, the message digits are all
`<=`, so are the two checksum digits, hence the checksums (`DigitsOfChecksum`), so
they are equal and the messages agree. The three parts plus types are inductive.
`FewSteps` bounds the hash steps by `StepsTell`: there are prefix sums of the verifier's
complements, with the checksum so far as their last, and the steps walked are one of
these sums. A chain and its part of the checksum pay for each other, so the worst
message costs one full checksum on top.

*Formats* (`MessageProofs`). The operators are recursive functions of data: powers,
folds over digits and bytes, joined sequences, a walk by lengths. None is unfolded by the
provers, and a recursion need not have a solution, so each is first shown to exist and to
satisfy its recursion (`Iteration`, `Accumulation` and `Jumps` of `Induction`; `ValueRule`,
`FromBytesRule`, `Flattened`, `ScanEnds`), then followed by induction over a number.
`AmountsHold`: the first k digits shown are the quotient by what is left to show
(`DigitsShown`), so padding what was shown gives all digits back; padding multiplies by ten
(`ValueZeros`), so what is typed is worth what it says. `MemoHolds`: every joined sequence is
found at the sum of the lengths before it (`Pieces`), so the walk visits the start of each
entry until the flag, the padding or the end (`FlagSeen`); it never reads a body, hence
bodies that look like the flag do no harm. `MeaningHolds`: the tables of the eight builders
are the program's (`Tables`), the joined data has each field at the program's offset
(`DataInPlace`), the bytes of an amount give it back at every carry (`AmountRead`), and the
digests and addresses are then those signed (`DerivedSame`, `TakenSame`). Of the program's
checks only the one for coinciding accounts can fail (`AnswerSame`), and not for the clients
that compare them (`ComparedDiffer`).

*Wallet* (`NativeWalletProofs`). Three invariants, each on top of the one before. `TypeInv`
adds to the types what a page holds at each stage of a task. `KeyInv` is about one key:
`Unhurried` (`OnePage`, that is one slot, and a user who acts once the page has read the
record) makes what the page holds, what the record says and what was broadcast agree on
which key signs what, whatever fails and whenever the app dies; it gives `OneMessage`. Of
the user it needs `ReadsFirst`: no send while the page is yet to read the record.
Leaving the page during a send and coming back is two slots (`MCWalletPages`), and so is
a send from keys that the page reads again (`MCWalletHasty`). `SendInv` relates the page to the record: the page is where the record
is or one finished send ahead of it (`Near`), funds sit at the record's vault or at the
next one of a spent vault (`LiveKept`), and whoever has a request pending that was signed
has pending what was signed (`OneServed`). It needs `Quiet`: the user waits for the page
to settle what it read and no read of the keystore fails, because otherwise a request is
paid twice (`MCWalletTwice`) or the keys are overwritten (`MCWalletNoKeys`). Saves may fail
and the app may be killed at any await. It gives `SignedSendsRecorded`, `FundsKeepKeys`
and `RequestsPaidOnce`.

*Passcode* (in `NativeWalletProofs`). `AppIsWallet`: each step of the app is a step of the
wallet or leaves the wallet's variables alone, so that what is proved of the wallet holds
of the app behind its passcode (`OneMessageOfApp`). `LocksAreSatOut` gives `CodesWait`, from
`GateInv`: the preferences count every miss a person saw, and either the lock that these
call for has been sat out or it is the one running. It needs that the code's shift,
capped at `MaxDoublings`, and the doubling of the property agree (`LocksLast`), by
induction, and that the doublings reach the longest lock: 30 * 2^7 >= 3600.

*Web app and extension* (`WebVaultProofs`). Four invariants. `TypeInv`: types, and what a
withdrawal holds at each await. `MadeInv`: only vaults that were created are listed,
displayed, queued, backed up, sent or funded, and each has its backup; it holds with any
number of tabs and gives `FundedHasBackup`. `KeepInv`, with one tab or window (`OneTab`):
the storage, every write on its way and the tab's list are ordered by what they know
(`Keeps`), whether writes arrive, fail or die with the window, and what a withdrawal has
recorded is in the tab's list; when `Flushed` lets it send, the storage has it. It
gives `OneMessage` and `SignedStays`. Two tabs or windows each read the list before the
other writes it (`MCWebTabs`, `MCWebWindows`). `OpenInv`, with any number of tabs but
without failing balance reads (`MCWebRefresh`): whatever holds a signature, be it a list,
a record in a task or a backup, belongs to a vault that was spent or still has the amount,
and whatever says spent is right. Both sets only grow (`Grows`). It gives `SpentWhenMarked`
and, with `KeepInv`, `SpendsCanBeRetried`.

*Extension* (`ExtensionProofs`). `SendInv` ties a page that polls to its transaction: once
the page has seen the last valid height pass, the chain has too (`ExpiredNeverLands`, any
number of windows). `OwnerInv` says for a window where the owner key on its page is: in
the storage, in the mirror, on its way, or reported as failed; with `OneWindow` it gives
`OwnerStored` and `OwnerSavedOrTold`. Popup and tab together replace a key
(`MCExtWindows`).

*Upgrade* (`UpgradeProofs`). Five invariants; the steps are sorted once (`Sorts`), and
two lemmas say where a transaction or the task of a script comes from (`DesksTell`) and
what happens to a proposal (`SquadsStep`): its action never changes once it exists.
`TypeInv` has the types and which transaction a waiting script waits for. `SealedInv`:
the buffer of a proposed build belongs to the multisig or is closed, so nobody rewrites
it after the hand-over; it holds whatever the operators do and gives `BuildAsVoted`.
`NamedInv`: an index is predicted before its proposal is created and saved after, yet
whatever a state file names is what was meant, since a lost or refused creation is never
saved. `ChangeInv`: the same for the multisig scripts, which save nothing and take the
latest open proposal for theirs; it needs `Careful` (`gov_resume`), and gives `VotesMeant`.
`FundInv`: while a `fund` run is under way the file of its TAG names no proposal, and no
other run asks under that TAG; so a transfer whose answer was lost is never named, and
what is or will be executed is what the file names. It gives `PaidOnce`, again for
`Careful` operators (a TAG used a second time pays a second time);
that theorem also asks that no TAG is used both for upgrades and for transfers, as the
head of upgrade.ts tells its operators (8).

*Command line* (`TreasuryProofs`). Four invariants, with three hypotheses that
`Treasury` names. `Types` adds to the types what a terminal holds at each place of a
script. `Minted`, with `OneTerminal` (one terminal for each key directory): `genesis.ts`
makes its key file first, files at home never go away, so there is one mint; and the
balances of all holders and the pool add up to the supply, since every payment is a
rearrangement of three entries (`PaymentKeepsSum`). Two terminals in one directory can
replace a key file (`MCCliKeys`) or sign with a copy loaded before (`MCCliRivals`).
`KeysInv` adds `Orderly`: `presign-bench.ts` ships one bench; the scripts in the cloud need
the vaults shipped and start from the one signed in advance; and scripts at home and in the
cloud want the same of each vault shipped, as the bench and its fallback do. A vault that
home spends in another way signs two messages, one from each copy (`MCCliShipped`), and so
do two benches of different shape. Then files at home only grow; once the signed vault has
arrived in the cloud (`Arrived`), the others there are copies of home's keys. A cloud
machine that runs before that makes a vault of its own under the name (`Own`): no key at
home has its number or gets it, so it holds nothing and `checkSpend` refuses it
(`OwnIsRefused`). What a terminal loaded is still what the files say, since its directory is
its own; every signature is recorded at home or is the one that all scripts want of its
vault; and tokens lie in, and go to, vaults of keys at home. It gives `KeysSignOnce` and
`KeysAreKept`. `PaidInv` adds `Cautious`: no step names a vault twice (`MCCliItself`) and a
script that skips `checkSpend` takes one step from a vault at home that holds the amount
(`MCCliDoomed`; a plan of several allocations may exceed what its treasury holds after the
first). Then what is recorded or about to be signed can be paid as long as its vault is
unspent, because nothing but its spend takes from a vault (`BalancesGrow`). It gives
`NoneIsDoomed`.

*Induction* holds what the others share. The library states induction over numbers and
sets with an operator as parameter, which the provers cannot instantiate; but it also
has that the subsets of a set are well-founded, and that a well-founded set has least
elements, about sets only. `LeastNatural`, `FromZero` and `SetInduction` come from
these. From them: the powers of two (`Powers`); that a fold of `+` over a finite set is a
sum in any order, with the rules for one changed entry and for a set split in two; and
that recursive functions exist: over the numbers up to n (`Iteration`), over the subsets of
a finite set in the order in which a fold chooses (`Accumulation`), and by jumps to greater
numbers (`Jumps`).

Assumptions: those named `...Assumption` in the modules (among them that vaults,
accounts, receivers of rent and key names are finitely many, and that scripts are lists
of plans), and `Unhurried`, `Quiet`, `OneTab`, `OneWindow`, `Careful`, `OneTerminal`,
`Orderly`, `Cautious`, TAGs of their own for transfers and `"refresh" \notin Faults`
where a theorem states them. `SignatureRecoversVault` and the positions of `Wots` assume
SHA-256 one-way and collision-free.

`Replays` and the type invariants are proved and not checked by a run any more:
`AnswersAsTested` includes the replay, and the theorems `TypeCorrect`, `Invariant` and
`GateTyped` hold for every instance.

Only model-checked: liveness (`Finishes` of both wallets, `UpgradeIsDeployed`, `SendEnds`), which
needs ENABLED and is out of the proof system's reach here. The findings of section 7 are
counterexamples, which only TLC can show.

## 7. Findings

Each configuration here ends in a violation. One is a run: `gov_resume` refutes the comment
at squads-timelock.ts:27. The script takes the latest active proposal for its own, also a
transfer or an upgrade that another script opened, and lets member B approve it (27-31).

The others show what happens beyond the limits under which the runs pass (one page that
has been read, one tab, one window, one process per directory, operators who look first), or a comment
that is not quite true. They can be reproduced by hand. Two need more than a line.

`MCWalletHasty`: keys just created or imported are shown, Send is enabled, and the page
reads them again without being waited for (main.dart:726 and 740). A send pressed
meanwhile keeps the object it started with (792); the page then turns to the one that
was read (708). If that send fails with its signature out, the page can send another
message with the same key, of which its object knows nothing; send_guard_test.dart:1
says "A vault's one-time key may sign exactly one transfer". The time for it is that
of one read of the keystore, and only an imported vault is likely to hold tokens then.

`MCExecutorTwice`: a script that is killed while its extension is under way and started again
reads the capacity before that extension lands (upgrade.ts:146) and pays for a second one;
so does line 41 of run-ra-day1.sh when line 39 lost its answer. run-ra-day1.sh:8 says "Every
step checks chain state first, so the script can be re-run safely."

| Configuration, module | Property | What happens |
| --- | --- | --- |
| `MCWalletHasty`, `MCNativeWallet` | `OneMessagePerKey` | a send from keys that the page reads again lets one key sign two messages (main.dart:726, 708) |
| `MCExecutorTwice`, `MCExecutor` | `ExtendedOnce` | a repeated extension is paid twice (upgrade.ts:146) |
| `MCWalletPages`, `MCNativeWallet` | `OneMessagePerKey` | leaving the send page and coming back during a send lets one key sign two messages (keystore.dart:59-62) |
| `MCWalletTwice`, `MCNativeWallet` | `PaidOnce` | resuming a send while the page is finding out that it landed pays the request twice (main.dart:793-802) |
| `MCWalletShown`, `MCNativeWallet` | `ShowsLiveVault` | a crash between saving the next vault and showing it leaves a spent vault's address on screen (main.dart:802, 718-721) |
| `MCWalletNoKeys`, `MCNativeWallet` | `CreatesOnlyFirstKeys` | a failing read of the keystore looks like an empty one, and the offered button overwrites the stored keys (main.dart:706, 825) |
| `MCWebWindows`, `MCWebVault` | `OneMessagePerKey` | two windows of the extension, each with its mirror, sign two messages with one key (storage.ts:12-16) |
| `MCWebTabs`, `MCWebVault` | `OneMessagePerKey` | two tabs of the web app do so when both are between the read and the write of `recordSigned` (store.ts:68-77) |
| `MCWebRemainder`, `MCWebVault` | `NothingIntoSpent` | a retried withdrawal sends its remainder to the vault it named first, although that one was spent meanwhile (flow.ts:42-43) |
| `MCWebRefresh`, `MCWebVault` | `MarkedSpentIsSpent` | a failing balance read is taken for a closed account and marks a signed vault spent (App.tsx:57-59) |
| `MCExtWindows`, `Extension` | `OwnerNeverReplaced` | popup and tab each create an owner key; the later write wins |
| `MCExtRpc`, `Extension` | `RpcAsSaved` | an earlier `pickRpc` resolves after a later one and its server is used (App.tsx:52) |
| `MCDrain`, `MCQcVault` | `DrainsWholeBalance` | the program drains one mint's account; a vault that holds a second mint loses access to it (wots.rs:11-12) |
| `MCCliRivals`, `MCTreasury` | `OneMessagePerKey` | two terminals load one key file before either records its digest (qc.ts:167-171) |
| `MCCliKeys`, `MCTreasury` | `KeysKept` | two terminals make keys under one name; the second write replaces the first (qc.ts:84) |
| `MCCliShipped`, `MCTreasury` | `OneMessagePerKey` | a vault shipped to the cloud is spent there and, in another way, at home (presign-bench.ts) |
| `MCCliDoomed`, `MCTreasury` | `NotDoomed` | `bounty.ts` records a digest for more than the vault holds (it does not call `checkSpend`) |
| `MCCliItself`, `MCTreasury` | `NotDoomed` | `checkSpend` lets through a refund to the spending vault itself, which the program refuses for ever (qc.ts:116) |

Each uses the `.tla` module named after the comma (`tlc -config MCCliKeys.cfg
MCTreasury.tla`).

## 8. Not modelled

Key derivation, base58, PDA search, the seal and its passwords (their failure is a
failing step), layout and wording, translations, balance and history for display;
compute units except the number of hash steps; transaction size and lookup tables,
retries inside one RPC call; the mobile wallet's import of a CLI file (the same effect
as `Create`), its network switch, memo and fee checks and its balance refresh; a device
clock that jumps; a second device or cleared site data (a vault restored from the backup
made at its creation does not know what it signed since); prices, fee schedules and
simulations of the pool; rent of buffers; the suites' concurrent group (transactions of
distinct vaults touch distinct accounts; a ledger runs one at a time); the RPC proxy,
which keeps nothing between requests; the website and the platform runners. What
`PROJECT.json` lists as not modelled or partly modelled has its reason there.
