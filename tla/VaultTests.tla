------------------------------- MODULE VaultTests -------------------------------
(***************************************************************************)
(* What the suites that run against the program on a fork of mainnet       *)
(* (client/surfpool-suite.ts, fork-extra.ts, fork-memo.ts) and against the *)
(* mainnet program itself (audit-mainnet.ts) expect of it, stated of every *)
(* ledger QcVault reaches instead of freshly funded vaults.                *)
(***************************************************************************)
EXTENDS QcVault

Fails == "fails"  \* in a call to another program, with its error
Answer(t) ==
    IF Verdict(t) # Success THEN Verdict(t) ELSE IF Lands(t) THEN Success ELSE Fails

Case(t, answer) == [tx |-> t, answer |-> answer]
With(t, messages, answer) == {Case([t EXCEPT !.d = d], answer) : d \in messages}

----------------------------------------------------------------------------
(* Changes to a transaction that would land; "genuine" in the suites.       *)

\* One value of the message replaced by another of the ledger, keeping the accounts distinct.
Swaps(d) ==
    {[d EXCEPT !.vault = v] : v \in Vaults \ owned}
        \union {[d EXCEPT !.dest = a] : a \in Accounts}
        \union {[d EXCEPT !.refund = a] : a \in Accounts}
        \union {[d EXCEPT !.rentTo = w] : w \in Receivers}
        \union {[d EXCEPT !.amount = n] : n \in 0..Supply + 1}
Redirected(t) ==
    With(t, {d \in Swaps(t.d) : DistinctAccounts([t EXCEPT !.d = d]) /\ d \notin signed[d.vault]}, BadSignature)

\* A signature of this vault on a spend of another one.
Transplanted(t) ==
    With(t, {d \in {[t.d EXCEPT !.vault = v] : v \in Vaults \ owned} : d \notin signed[d.vault]}, BadSignature)

Malformed(t) ==
    {Case([t EXCEPT !.env.data = FALSE], BadInstruction),
     Case([t EXCEPT !.env.system = FALSE], BadInstruction),
     Case([t EXCEPT !.env.count = 8], BadInstruction),
     Case([t EXCEPT !.env.count = 11], BadInstruction)}

\* The tenth account is the Memo v2 program or the transaction is refused.
WrongTenth(t) == {Case([t EXCEPT !.env.count = 10, !.env.memo = "other"], BadInstruction)}

Duplicated(t) ==
    {Case([t EXCEPT !.d.dest = t.d.refund], DuplicateAccount),
     Case([t EXCEPT !.d.refund = t.d.dest], DuplicateAccount),
     Case([t EXCEPT !.ta = t.d.dest], DuplicateAccount),
     Case([t EXCEPT !.ta = t.d.refund], DuplicateAccount)}

\* Another token account in place of the vault's own, one the vault owns or any other (F9).
Decoyed(t) ==
    {Case([t EXCEPT !.ta = a], NotATokenAccount) : a \in Accounts \ {t.ta, t.d.dest, t.d.refund}}

WrongPrograms(t) == {Case([t EXCEPT !.env.tokenProgram = FALSE], BadTokenProgram)}
WrongBump(t) == {Case([t EXCEPT !.env.bump = FALSE], BadSignature)}
WithoutOwner(t) == {Case([t EXCEPT !.env.owner = FALSE], MissingOwnerSignature)}

Mutations(t) ==
    Redirected(t) \union Transplanted(t) \union Malformed(t) \union Duplicated(t) \union Decoyed(t)
        \union WrongPrograms(t) \union WrongBump(t) \union WithoutOwner(t) \union WrongTenth(t)

----------------------------------------------------------------------------
(* Ledgers on which a well-signed transaction is refused or lands.          *)

\* What the suites sign with: the vault's owner and key, a proper envelope.
WellSigned(t) ==
    /\ DistinctAccounts(t) /\ IsVaultTokenAccount(t) /\ t.d \in signed[t.d.vault]
    /\ t.env.count \in {9, 10} /\ t.env.memo # "other"
    /\ t.env.data /\ t.env.system /\ t.env.tokenProgram /\ t.env.owner /\ t.env.bump

Overspend(t) ==
    /\ WellSigned(t) /\ landed[t.d.vault] = <<>>
    /\ t.ta \in open /\ t.d.amount > balance[t.ta]

\* Sent again, as it was or onto a token account created and funded since (M-1).
Replay(t) == WellSigned(t) /\ \E i \in DOMAIN landed[t.d.vault] : landed[t.d.vault][i] = t.d

Payable(t) ==
    /\ WellSigned(t) /\ landed[t.d.vault] = <<>>
    /\ t.ta \in open /\ t.d.amount <= balance[t.ta]
\* The refund of a full drain is not needed, nor the payee of an amount of 0.
Needed(t) == {t.d.dest : n \in {n \in {t.d.amount} : n > 0}} \union {t.d.refund : n \in {n \in {Rest(t)} : n > 0}}

MemoMissing(t) ==
    Payable(t) /\ t.env.memo = "none" /\ Needed(t) \subseteq open /\ Needed(t) \intersect memoRequired # {}
PayeeClosed(t) == Payable(t) /\ ~(Needed(t) \subseteq open)
PayeeReady(t) ==
    /\ Payable(t) /\ Needed(t) \subseteq open
    /\ \A a \in Needed(t) : a.mint = t.d.mint
    /\ t.env.memo = "memo" \/ Needed(t) \intersect memoRequired = {}

----------------------------------------------------------------------------
(* What a landed spend leaves.                                              *)

\* The payee has the amount, the refund the rest, the token account is gone, the PDA is the
\* program's and keeps the marker's minimum, and the rent receiver has something.
Accounted(d) ==
    LET ta == Ata(d.vault, d.mint)
    IN  /\ balance'[d.dest] = balance[d.dest] + d.amount
        /\ balance'[d.refund] = balance[d.refund] + (balance[ta] - d.amount)
        /\ ta \notin open'
        /\ d.vault \in owned'
        /\ rent.known => vaultLamports'[d.vault] = MinRent(rent.rate) /\ lamports'[d.rentTo] > lamports[d.rentTo]

----------------------------------------------------------------------------
(* Properties.                                                              *)

\* Every answer the suites expect is the program's, on every ledger: each change to a genuine
\* transaction has its error, which shows the order of the checks, a replay is told so first, a
\* closed payee or a missing memo only delays, and the rest lands.
AnswersAsTested ==
    \A t \in Transactions :
        /\ Lands(t) => \A c \in Mutations(t) : Answer(c.tx) = c.answer
        /\ Overspend(t) => Answer(t) = InsufficientBalance
        /\ Replay(t) => Answer(t) = AlreadySpent
        /\ MemoMissing(t) => Answer(t) = Fails
        /\ PayeeClosed(t) => Answer(t) = Fails
        /\ PayeeReady(t) => Answer(t) = Success

\* A spend that lands leaves the accounts as G1 of the suite reads them.
LandsAsTested ==
    [][\A v \in Vaults : landed'[v] # landed[v] => Accounted(landed'[v][Len(landed'[v])])]_vars
=============================================================================
