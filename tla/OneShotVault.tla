----------------------------- MODULE OneShotVault -----------------------------
(***************************************************************************)
(* What the vault program promises, without rent, memos, account creation  *)
(* or the order of its checks: tokens leave a vault in one step only, that *)
(* step empties the token account it names, divides the balance the way    *)
(* the key of the vault signed it, and happens at most once per vault.     *)
(* QcVault implements this specification.                                  *)
(***************************************************************************)
EXTENDS Naturals

CONSTANTS Vaults,    \* vault addresses
          Accounts,  \* token accounts: records with holder, mint and slot
          Digests    \* messages a vault key can sign

VARIABLES balance,   \* tokens in each token account
          signed,    \* per vault, the messages its one-time key has signed
          spent      \* the vaults whose single spend has happened

vars == <<balance, signed, spent>>

\* The token account a spend of vault v for mint m empties.
Ata(v, m) == [holder |-> v, mint |-> m, slot |-> "ata"]

Init ==
    /\ balance \in [Accounts -> Nat]
    /\ signed = [v \in Vaults |-> {}]
    /\ spent = {}

Sign(d) ==
    /\ signed' = [signed EXCEPT ![d.vault] = @ \union {d}]
    /\ UNCHANGED <<balance, spent>>

\* An ordinary holder moves tokens, possibly into a vault.
Move(from, to, n) ==
    /\ from.holder \notin Vaults
    /\ n <= balance[from]
    /\ balance' = [balance EXCEPT ![from] = @ - n, ![to] = @ + n]
    /\ UNCHANGED <<signed, spent>>

\* The one spend of vault d.vault, exactly as d was signed.
Pay(d) ==
    LET from == Ata(d.vault, d.mint)
    IN  /\ d \in signed[d.vault]
        /\ d.vault \notin spent
        /\ d.amount <= balance[from]
        /\ balance' = [balance EXCEPT ![from] = 0,
                                      ![d.dest] = @ + d.amount,
                                      ![d.refund] = @ + (balance[from] - d.amount)]
        /\ spent' = spent \union {d.vault}
        /\ UNCHANGED signed

Next ==
    \/ \E d \in Digests : Sign(d) \/ Pay(d)
    \/ \E from \in Accounts : \E to \in Accounts \ {from} :
           \E n \in 1..balance[from] : Move(from, to, n)

Spec == Init /\ [][Next]_vars
=============================================================================
