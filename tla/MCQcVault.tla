------------------------------- MODULE MCQcVault -------------------------------
(***************************************************************************)
(* QcVault on small ledgers.  MCToken looks at tokens and signatures with  *)
(* two vaults, MCRent at lamports with one vault, MCDrain at a vault that  *)
(* holds two mints.                                                        *)
(***************************************************************************)
EXTENDS VaultTests

CONSTANTS v1, v2, h, m1, m2, w

Account(holder, mint, slot) == [holder |-> holder, mint |-> mint, slot |-> slot]
Message(v, m, dest, refund, n) ==
    [vault |-> v, mint |-> m, dest |-> dest, refund |-> refund, rentTo |-> w, amount |-> n]

Good == [count |-> 10, data |-> TRUE, memo |-> "memo", system |-> TRUE,
         tokenProgram |-> TRUE, owner |-> TRUE, bump |-> TRUE]
NineAccounts == [Good EXCEPT !.count = 9, !.memo = "none"]
\* Each envelope differs from a good one in a single part.
Faulty == {[Good EXCEPT !.count = 8], [Good EXCEPT !.data = FALSE],
           [Good EXCEPT !.memo = "other"], [Good EXCEPT !.system = FALSE],
           [Good EXCEPT !.tokenProgram = FALSE], [Good EXCEPT !.owner = FALSE],
           [Good EXCEPT !.bump = FALSE]}
GoodEnvelope == {Good}
ProperEnvelopes == {Good, NineAccounts}
AllEnvelopes == {Good, NineAccounts} \union Faulty

TokenAccounts == {Account(v1, m1, "ata"), Account(v2, m1, "ata"),
                  Account(v1, m1, "aux"), Account(h, m1, "ata")}
\* A payment with rotation, its rival, a payment to the vault's own second
\* account, one whose payee and refund coincide, and the next vault's payment.
TokenDigests == {
    Message(v1, m1, Account(h, m1, "ata"), Account(v2, m1, "ata"), 1),
    Message(v1, m1, Account(v2, m1, "ata"), Account(h, m1, "ata"), 0),
    Message(v1, m1, Account(v1, m1, "aux"), Account(h, m1, "ata"), 1),
    Message(v1, m1, Account(h, m1, "ata"), Account(h, m1, "ata"), 1),
    Message(v2, m1, Account(v1, m1, "ata"), Account(h, m1, "ata"), 1) }

RentAccounts == {Account(v1, m1, "ata"), Account(h, m1, "ata"), Account(h, m1, "aux")}
RentDigests == {
    Message(v1, m1, Account(h, m1, "ata"), Account(h, m1, "aux"), 1) }

MintAccounts == {Account(v1, m, "ata") : m \in {m1, m2}}
                    \union {Account(h, m1, "ata"), Account(h, m1, "aux"), Account(h, m2, "ata")}
MintDigests == {
    Message(v1, m1, Account(h, m1, "ata"), Account(h, m1, "aux"), 1),
    Message(v1, m2, Account(h, m2, "ata"), Account(h, m1, "ata"), 0) }
=============================================================================
