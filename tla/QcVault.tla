-------------------------------- MODULE QcVault --------------------------------
(***************************************************************************)
(* The QuantCoin vault program (programs/qc-vault/src/lib.rs): a stateless *)
(* Solana program with one instruction, Spend.  The state is the part of   *)
(* the ledger the program reads and writes: token accounts, the vault PDAs *)
(* (their owner is the spent marker) and lamports.  Token-2022, the        *)
(* associated-token program, the System program and the runtime's rent     *)
(* rule are external; they are modelled as far as the program relies on    *)
(* them.  A transaction that is refused, or one of whose CPIs fails,       *)
(* leaves the ledger unchanged, so it is a stuttering step.                *)
(***************************************************************************)
EXTENDS Integers, Sequences, FiniteSets, FiniteSetsExt

CONSTANTS
    Vaults,         \* vault PDAs; one per (WOTS key, owner key)
    Holders,        \* ordinary owners of token accounts
    Mints,          \* Token-2022 mints
    Accounts,       \* token account addresses: [holder, mint, slot]
    Receivers,      \* system accounts that receive the surplus rent
    Digests,        \* spend messages: [vault, mint, dest, refund, rentTo, amount]
    Envelopes,      \* the parts of a transaction the message does not bind
    Supply,         \* tokens each ordinary account holds at the start
    Rates,          \* lamports per byte the network may charge
    MarkerBytes,    \* bytes charged for a 0-byte account (the spent marker)
    TokenBytes,     \* bytes charged for a token account
    PrefundCap      \* bound: nobody sends lamports to a PDA above this

Slots == {"ata", "aux"}
Ata(v, m) == [holder |-> v, mint |-> m, slot |-> "ata"]

ASSUME AccountsAssumption ==
    /\ Vaults \intersect Holders = {}
    /\ Accounts \subseteq [holder: Vaults \union Holders, mint: Mints, slot: Slots]
    /\ \A v \in Vaults, m \in Mints : Ata(v, m) \in Accounts
    /\ IsFiniteSet(Vaults) /\ IsFiniteSet(Accounts) /\ IsFiniteSet(Receivers)

ASSUME DigestsAssumption ==
    Digests \subseteq [vault: Vaults, mint: Mints, dest: Accounts, refund: Accounts,
                       rentTo: Receivers, amount: Nat]

\* A token account costs at least two empty accounts: 298 against 128 bytes.
ASSUME RentAssumption ==
    /\ Rates \subseteq Nat \ {0}
    /\ MarkerBytes \in Nat \ {0}
    /\ TokenBytes \in Nat
    /\ TokenBytes >= 2 * MarkerBytes
    /\ PrefundCap \in Nat
    /\ Supply \in Nat

\* count: accounts passed; data: length and discriminator are right; memo: the
\* tenth account; system, tokenProgram: those two accounts are the real programs;
\* owner: the Ed25519 owner signed; bump: the bump byte is the canonical one.
ASSUME EnvelopesAssumption ==
    Envelopes \subseteq [count: Nat, data: BOOLEAN, memo: {"none", "memo", "other"},
                         system: BOOLEAN, tokenProgram: BOOLEAN, owner: BOOLEAN,
                         bump: BOOLEAN]

VARIABLES
    open,           \* token accounts that exist
    balance,        \* tokens in each token account
    memoRequired,   \* token accounts that demand a memo on incoming transfers
    accountRent,    \* lamports held by each token account
    owned,          \* vault PDAs assigned to the program: the spent markers
    vaultLamports,  \* lamports held by each vault PDA
    lamports,       \* lamports held by each rent receiver
    signed,         \* per vault, the messages its WOTS key has signed
    rent,           \* the Rent sysvar: rate, and is its threshold 1.0 or 2.0
    landed          \* history: per vault, the messages of the spends that landed

ledger == <<open, balance, memoRequired, accountRent, owned, vaultLamports, lamports>>
vars == <<ledger, signed, rent, landed>>

MinRent(rate) == MarkerBytes * rate

Init ==
    /\ open = {a \in Accounts : a.holder \in Holders}
    /\ balance = [a \in Accounts |-> IF a \in open THEN Supply ELSE 0]
    /\ memoRequired = {}
    /\ rent \in [rate: Rates, known: BOOLEAN]
    /\ accountRent = [a \in Accounts |-> IF a \in open THEN TokenBytes * rent.rate ELSE 0]
    /\ owned = {}
    /\ vaultLamports = [v \in Vaults |-> 0]
    /\ lamports = [w \in Receivers |-> 0]
    /\ signed = [v \in Vaults |-> {}]
    /\ landed = [v \in Vaults |-> <<>>]

-----------------------------------------------------------------------------
(***************************************************************************)
(* The instruction.  A transaction is [d, ta, env]: d is the message the   *)
(* program hashes out of the accounts and the amount it was given, ta the  *)
(* account passed as the vault's token account, env the rest.              *)
(***************************************************************************)
Transactions == [d: Digests, ta: Accounts, env: Envelopes]

BadInstruction == 1
BadSignature == 2
InsufficientBalance == 3
NotATokenAccount == 4
BadTokenProgram == 5
DuplicateAccount == 6
MissingOwnerSignature == 7
AlreadySpent == 8
Success == 0

\* Accounts of one kind that could coincide; the fixed programs, the mint and
\* the signer cannot equal one of them in this model.
DistinctAccounts(t) ==
    /\ t.ta # t.d.dest
    /\ t.ta # t.d.refund
    /\ t.d.dest # t.d.refund

\* WOTS and the PDA: a signature recovers the key hash in the vault's address
\* exactly when that key signed the recomputed message.
SignatureRecoversVault(t) == t.env.bump /\ t.d \in signed[t.d.vault]

\* A vault is spent when its PDA is assigned to the program.
SpentByClosedAccount(t) == t.ta \notin open
Spent(t) == t.d.vault \in owned

\* Only the associated token account of vault and mint is drained.
AnyAccountOfVault(t) == t.ta.holder = t.d.vault
IsVaultTokenAccount(t) == t.ta = Ata(t.d.vault, t.d.mint)

Checks(t) == <<
    [ok |-> t.env.count \in {9, 10},               err |-> BadInstruction],
    [ok |-> DistinctAccounts(t),                   err |-> DuplicateAccount],
    [ok |-> t.env.data,                            err |-> BadInstruction],
    [ok |-> t.env.memo # "other",                  err |-> BadInstruction],
    [ok |-> ~Spent(t),                             err |-> AlreadySpent],
    [ok |-> t.env.system,                          err |-> BadInstruction],
    [ok |-> t.env.owner,                           err |-> MissingOwnerSignature],
    [ok |-> SignatureRecoversVault(t),             err |-> BadSignature],
    [ok |-> t.env.tokenProgram,                    err |-> BadTokenProgram],
    [ok |-> IsVaultTokenAccount(t),                err |-> NotATokenAccount],
    [ok |-> t.ta \in open,                         err |-> NotATokenAccount],
    [ok |-> t.d.amount <= balance[t.ta],           err |-> InsufficientBalance] >>

\* The error code of the first check that fails, in the order of the code.
Verdict(t) ==
    LET checks == Checks(t)
        failed == {i \in DOMAIN checks : ~checks[i].ok}
    IN  IF failed = {} THEN Success ELSE checks[Min(failed)].err

Rest(t) == balance[t.ta] - t.d.amount

\* Token-2022 TransferChecked into account a, preceded by the optional memo.
CanReceive(a, t) ==
    /\ a \in open
    /\ a.mint = t.d.mint
    /\ a \in memoRequired => t.env.memo = "memo"

TransfersSucceed(t) ==
    /\ t.d.amount > 0 => CanReceive(t.d.dest, t)
    /\ Rest(t) > 0 => CanReceive(t.d.refund, t)

\* What the spent marker keeps of the `held` lamports of the PDA once the token
\* account is closed into it: the minimum marker_rent computes, or everything
\* when the sysvar's threshold is not one it evaluates or less is there.
KeepsNothing(held) == 0
KeepsFixedMinimum(held) == IF MarkerBytes * 2 <= held THEN MarkerBytes * 2 ELSE held
MarkerKeeps(held) ==
    IF rent.known /\ MinRent(rent.rate) <= held THEN MinRent(rent.rate) ELSE held

Held(t) == vaultLamports[t.d.vault] + accountRent[t.ta]
SurplusOfAccountOnly(t) == accountRent[t.ta] - MarkerKeeps(accountRent[t.ta])
Surplus(t) == Held(t) - MarkerKeeps(Held(t))

\* The runtime refuses a transaction that leaves an account it changed with
\* some lamports but fewer than the rent-exempt minimum.
RentExemptAfter(t) ==
    /\ MarkerKeeps(Held(t)) > 0 => MarkerKeeps(Held(t)) >= MinRent(rent.rate)
    /\ Surplus(t) > 0 => lamports[t.d.rentTo] + Surplus(t) >= MinRent(rent.rate)

\* Assign makes the PDA a spent marker; the runtime deletes an account that a
\* transaction leaves without lamports, whoever owns it.
MarkersAfter(t) == IF MarkerKeeps(Held(t)) > 0 THEN owned \union {t.d.vault} ELSE owned

Lands(t) == Verdict(t) = Success /\ TransfersSucceed(t) /\ RentExemptAfter(t)

\* Both transfers, the close into the PDA, the Assign and the surplus.
Spend(t) ==
    /\ Lands(t)
    /\ balance' = [balance EXCEPT ![t.ta] = 0,
                                  ![t.d.dest] = @ + t.d.amount,
                                  ![t.d.refund] = @ + Rest(t)]
    /\ open' = open \ {t.ta}
    /\ accountRent' = [accountRent EXCEPT ![t.ta] = 0]
    /\ owned' = MarkersAfter(t)
    /\ vaultLamports' = [vaultLamports EXCEPT ![t.d.vault] = MarkerKeeps(Held(t))]
    /\ lamports' = [lamports EXCEPT ![t.d.rentTo] = @ + Surplus(t)]
    /\ landed' = [landed EXCEPT ![t.d.vault] = Append(@, t.d)]
    /\ UNCHANGED <<memoRequired, signed, rent>>

-----------------------------------------------------------------------------
(***************************************************************************)
(* Everybody else.                                                         *)
(***************************************************************************)

\* A vault key signs a message.  The program does not rely on the clients'
\* one-message rule, so nothing limits how many messages a key signs.
Sign(d) ==
    /\ d \notin signed[d.vault]
    /\ signed' = [signed EXCEPT ![d.vault] = @ \union {d}]
    /\ UNCHANGED <<ledger, rent, landed>>

\* Anybody creates a token account, also one of a vault already spent.
CreateAccount(a) ==
    /\ a \notin open
    /\ open' = open \union {a}
    /\ accountRent' = [accountRent EXCEPT ![a] = TokenBytes * rent.rate]
    /\ UNCHANGED <<balance, memoRequired, owned, vaultLamports, lamports, signed, rent, landed>>

\* An ordinary holder transfers n tokens; its own client adds a memo.
Transfer(from, to, n) ==
    /\ from.holder \in Holders
    /\ to \in open
    /\ from.mint = to.mint
    /\ n <= balance[from]
    /\ balance' = [balance EXCEPT ![from] = @ - n, ![to] = @ + n]
    /\ UNCHANGED <<open, memoRequired, accountRent, owned, vaultLamports, lamports,
                   signed, rent, landed>>

\* A payee closes its empty token account between signing and landing.
CloseByHolder(a) ==
    /\ a \in open
    /\ a.holder \in Holders
    /\ balance[a] = 0
    /\ open' = open \ {a}
    /\ memoRequired' = memoRequired \ {a}
    /\ accountRent' = [accountRent EXCEPT ![a] = 0]
    /\ UNCHANGED <<balance, owned, vaultLamports, lamports, signed, rent, landed>>

\* A payee turns "require incoming memos" on or off.
SwitchMemo(a) ==
    /\ a \in open
    /\ a.holder \in Holders
    /\ memoRequired' = IF a \in memoRequired THEN memoRequired \ {a} ELSE memoRequired \union {a}
    /\ UNCHANGED <<open, balance, accountRent, owned, vaultLamports, lamports, signed, rent, landed>>

\* Anybody sends lamports to a vault PDA, before or after its spend.
Prefund(v) ==
    /\ vaultLamports[v] + MinRent(rent.rate) <= PrefundCap
    /\ vaultLamports' = [vaultLamports EXCEPT ![v] = @ + MinRent(rent.rate)]
    /\ UNCHANGED <<open, balance, memoRequired, accountRent, owned, lamports, signed, rent, landed>>

\* The network lowers its rent or changes the sysvar's threshold.
ChangeRent(r) ==
    /\ r # rent
    /\ r.rate <= rent.rate
    /\ rent' = r
    /\ UNCHANGED <<ledger, signed, landed>>

Next ==
    \/ \E t \in Transactions : Spend(t)
    \/ \E d \in Digests : Sign(d)
    \/ \E a \in Accounts : CreateAccount(a) \/ CloseByHolder(a) \/ SwitchMemo(a)
    \/ \E from \in Accounts : \E to \in Accounts \ {from} :
           \E n \in 1..balance[from] : Transfer(from, to, n)
    \/ \E v \in Vaults : Prefund(v)
    \/ \E r \in [rate: Rates, known: BOOLEAN] : ChangeRent(r)

Spec == Init /\ [][Next]_vars

-----------------------------------------------------------------------------
(***************************************************************************)
(* Properties.                                                             *)
(***************************************************************************)

\* Every variable has its type: the shape of the ledger QcVault describes.
TypeOK ==
    /\ open \subseteq Accounts
    /\ balance \in [Accounts -> Nat]
    /\ memoRequired \subseteq Accounts
    /\ accountRent \in [Accounts -> Nat]
    /\ owned \subseteq Vaults
    /\ vaultLamports \in [Vaults -> Nat]
    /\ lamports \in [Receivers -> Nat]
    /\ signed \in [Vaults -> SUBSET Digests]
    /\ rent \in [rate: Rates, known: BOOLEAN]
    /\ landed \in [Vaults -> Seq(Digests)]

\* One spend per vault (lib.rs:43-47, finding M-1): whatever is signed, however
\* often transactions are sent again and accounts re-created, at most one spend
\* of a vault lands.
OneSpendPerVault == \A v \in Vaults : Len(landed[v]) <= 1

\* Tokens leave an account a vault owns only by the landing of a message that
\* vault's key signed; the account is then the one the message names, it is
\* emptied, and payee and refund receive exactly the signed division
\* (lib.rs:39-41 and 241-262).
OnlyAsSignedStep ==
    \A a \in Accounts :
        a.holder \in Vaults /\ balance'[a] < balance[a] =>
            \E d \in signed[a.holder] :
                /\ landed' = [landed EXCEPT ![a.holder] = Append(@, d)]
                /\ a = Ata(a.holder, d.mint)
                /\ balance' = [balance EXCEPT ![a] = 0,
                                              ![d.dest] = @ + d.amount,
                                              ![d.refund] = @ + (balance[a] - d.amount)]
OnlyAsSigned == [][OnlyAsSignedStep]_vars

\* A spent vault stays spent, and tokens that reach any of its accounts later
\* stay locked (lib.rs:45-48).
SpentIsFinalStep ==
    \A v \in owned :
        /\ v \in owned'
        /\ \A a \in Accounts : a.holder = v => balance'[a] >= balance[a]
SpentIsFinal == [][SpentIsFinalStep]_vars

\* The marker of a spent vault exists and is rent-exempt for as long as the
\* network does not raise its rent, so it is never purged (lib.rs:43-48 and
\* 289-305).
MarkerRentExempt ==
    \A v \in Vaults : landed[v] # <<>> =>
        v \in owned /\ vaultLamports[v] >= MinRent(rent.rate)

\* A transaction the program can parse is told AlreadySpent once a spend of its
\* vault has landed, whatever else is wrong with it (lib.rs:168-170; the tests
\* m1_replay_on_second_token_account_is_refused).
Parses(t) ==
    /\ t.env.count \in {9, 10} /\ t.env.data /\ t.env.memo # "other"
    /\ DistinctAccounts(t)
ReplayRefused ==
    \A t \in Transactions :
        Parses(t) /\ landed[t.d.vault] # <<>> => Verdict(t) = AlreadySpent

\* What the owner of an unspent vault and its relay control: the envelope, the
\* message, the funded token account, existing recipients of the right mint.
Proper(t) ==
    /\ Parses(t) /\ t.env.memo = "memo"
    /\ t.env.system /\ t.env.tokenProgram /\ t.env.owner /\ t.env.bump
    /\ t.d \in signed[t.d.vault]
    /\ landed[t.d.vault] = <<>>
    /\ t.ta = Ata(t.d.vault, t.d.mint) /\ t.ta \in open
    /\ t.d.amount <= balance[t.ta]
    /\ \A a \in {t.d.dest, t.d.refund} : a \in open /\ a.mint = t.d.mint

\* A proper transaction with the memo account lands: neither a payee's memo
\* switch (finding R-A), nor lamports somebody sent to the PDA, nor a lower
\* rent, nor an unknown sysvar threshold, nor a rent receiver that did not exist
\* stops it (lib.rs:33-37 and 289-305).
ProperSpendLands == \A t \in Transactions : Proper(t) => Lands(t)

Total(f, S) == MapThenSumSet(LAMBDA x : f[x], S)
Lamports == Total(accountRent, Accounts) + Total(vaultLamports, Vaults) + Total(lamports, Receivers)

\* A spend moves lamports between the closed account, the marker and rent_to
\* without losing or creating any (lib.rs:263-294).
SpendKeepsLamportsStep == landed' # landed => Lamports' = Lamports
SpendKeepsLamports == [][SpendKeepsLamportsStep]_vars

\* wots.rs:11-12 says the program enforces one message per key "by draining the
\* whole balance on every spend": after a spend no account of the vault holds
\* tokens, unless the message sent them there.
DrainsWholeBalance ==
    [][\A v \in Vaults : landed'[v] # landed[v] =>
           \A a \in Accounts : a.holder = v => balance'[a] = 0]_vars

\* QcVault implements the one-shot vault: the spent markers are its spent set.
Abstract == INSTANCE OneShotVault WITH spent <- owned
ImplementsOneShotVault == Abstract!Spec
=============================================================================
