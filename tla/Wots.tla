---------------------------------- MODULE Wots ----------------------------------
(***************************************************************************)
(* The Winternitz signature of the vault keys                              *)
(* (programs/qc-vault/src/wots.rs), as the two loops it is made of.  One   *)
(* digest is signed and one is verified against the signature.  Hashing is *)
(* one-way: whoever holds the value of a chain at one position can compute *)
(* the later positions and no earlier one, so a chain value is its         *)
(* position.  Each position is hashed with its own tweak, so the last      *)
(* value of a chain is reached only from the position the verifier starts  *)
(* to count at.                                                            *)
(***************************************************************************)
EXTENDS Naturals

CONSTANTS W,          \* positions of a chain: 256 in the code
          MsgDigits   \* digits of a digest: 24 in the code

\* The largest checksum fits in the two checksum digits (wots.rs:30-31).
ASSUME WidthAssumption ==
    /\ W \in Nat /\ W >= 2
    /\ MsgDigits \in Nat
    /\ MsgDigits * (W - 1) < W * W

MaxStep == W - 1
Digit == 0..MaxStep
Message == [1..MsgDigits -> Digit]
Chains == MsgDigits + 2
Roles == {"sign", "verify"}

VARIABLES
    digest,  \* the message signed and the message verified
    csum,    \* per role, the u16 checksum accumulator
    i,       \* the next digit, then the next chain
    steps,   \* hash steps of the verifier
    ends,    \* the chains so far ended where the public key says
    kept     \* the chain values so far are the signer's own

vars == <<digest, csum, i, steps, ends, kept>>

Init ==
    /\ digest \in [Roles -> Message]
    /\ csum = [r \in Roles |-> 0]
    /\ i = 1
    /\ steps = 0
    /\ ends = TRUE
    /\ kept = TRUE

\* digits(): the checksum adds up what each digit leaves of its chain; a u16
\* holds W * W values.
NotComplement(d) == d
Complement(d) == MaxStep - d
AddDigit ==
    /\ i <= MsgDigits
    /\ csum' = [r \in Roles |-> (csum[r] + Complement(digest[r][i])) % (W * W)]
    /\ i' = i + 1
    /\ UNCHANGED <<digest, steps, ends, kept>>

High(c) == c \div W
Low(c) == c % W

\* The digit at which chain j of a role stands.
VerifierLowFirst(r, j) ==
    IF j <= MsgDigits THEN digest[r][j]
    ELSE IF (j = MsgDigits + 1) = (r = "sign") THEN High(csum[r]) ELSE Low(csum[r])
DigitAt(r, j) ==
    IF j <= MsgDigits THEN digest[r][j]
    ELSE IF j = MsgDigits + 1 THEN High(csum[r]) ELSE Low(csum[r])

InSignature(j) == j <= Chains

\* recover_pk_hash(): the next chain, from a value at position p the signature
\* allows to compute, counted from the verifier's digit to the last position.
\* Chain j is walked when i = MsgDigits + j.
Walk(p) ==
    LET j == i - MsgDigits
        from == DigitAt("verify", j)
    IN  /\ i > MsgDigits /\ InSignature(j)
        /\ p >= DigitAt("sign", j)
        /\ steps' = steps + (MaxStep - from)
        /\ ends' = (ends /\ p = from)
        /\ kept' = (kept /\ p = DigitAt("sign", j))
        /\ i' = i + 1
        /\ UNCHANGED <<digest, csum>>

Next == AddDigit \/ \E p \in Digit : Walk(p)

Spec == Init /\ [][Next]_vars

Done == i = MsgDigits + Chains + 1

-----------------------------------------------------------------------------
(***************************************************************************)
(* Properties.                                                             *)
(***************************************************************************)

\* Every variable has its type.
TypeOK ==
    /\ digest \in [Roles -> Message]
    /\ csum \in [Roles -> Nat]
    /\ i \in 1..MsgDigits + Chains + 1
    /\ steps \in Nat
    /\ ends \in BOOLEAN /\ kept \in BOOLEAN

\* Whatever can be computed from a signature recovers the public key for the
\* signed message only (fuzz.rs prop_checksum_no_domination).
FitsOneMessage == Done /\ ends => digest["sign"] = digest["verify"]

\* The signer's own values recover it for the signed message (wots.rs:116-118).
RoundTrip == Done /\ kept /\ digest["sign"] = digest["verify"] => ends

\* A verification hashes at most 255 * 25 = 6375 times in the code, which bounds
\* its compute units (fuzz.rs prop_max_steps_is_6375).
MostSteps == MaxStep * (((MsgDigits * MaxStep) \div W) + 2)
StepsBounded == steps <= MostSteps
=============================================================================
