------------------------------ MODULE MessageProofs -----------------------------
(***************************************************************************)
(* What a signature and the message around it promise.                     *)
(*                                                                         *)
(* A signature fits one message, for every chain length and message        *)
(* length, 256 and 24 among them.  The argument follows the first loop:    *)
(* while no digit of the signed message exceeds the verified message's,    *)
(* its checksum is the larger one, strictly unless the messages agree so   *)
(* far.  The second loop then finds a checksum digit that is too large.    *)
(* The steps of a verification are as many as the checksum and its own two *)
(* digits say.                                                             *)
(*                                                                         *)
(* The formats keep what they carry, for every amount, every list of       *)
(* extensions, every size of a byte and every number of decimals.  They    *)
(* are recursive functions of data, so each is first shown to exist and to *)
(* be given by its recursion (module Induction), then followed along its   *)
(* argument by induction over a number.                                    *)
(***************************************************************************)
EXTENDS Wots, SpendMessage, Induction, SequenceTheorems

-----------------------------------------------------------------------------
(***************************************************************************)
(* The signature.                                                          *)
(***************************************************************************)

\* The message digits both checksums have added up so far.
Added == IF i <= MsgDigits THEN i - 1 ELSE MsgDigits

\* The signed message is nowhere above the verified one in its first n digits.
Below(n) == \A k \in 1..n : digest["sign"][k] <= digest["verify"][k]
Agree(n) == \A k \in 1..n : digest["sign"][k] = digest["verify"][k]

\* No carry is lost: the checksums stay below what two digits can hold.
ChecksumsFit == \A r \in Roles : csum[r] <= Added * MaxStep

ChecksumsOppose ==
    Below(Added) => /\ csum["verify"] <= csum["sign"]
                    /\ csum["verify"] = csum["sign"] => Agree(Added)

\* Every chain that ended well was walked from a value the signature reveals.
WalkedFromBelow ==
    ends => \A k \in 1..Chains : k + MsgDigits < i => DigitAt("sign", k) <= DigitAt("verify", k)

IInv == TypeOK /\ ChecksumsFit /\ ChecksumsOppose /\ WalkedFromBelow

\* A product grows with its first factor.
LEMMA ProductGrows ==
    ASSUME NEW m \in Nat, NEW n \in Nat, NEW k \in Nat, m <= n
    PROVE  m * k <= n * k /\ m * k \in Nat /\ (m + 1) * k = m * k + k
OBVIOUS

\* Functions with the same values are the same function.
LEMMA SameValues ==
    ASSUME NEW S, NEW T, NEW f \in [S -> T], NEW g \in [S -> T], \A x \in S : f[x] = g[x]
    PROVE  f = g
OBVIOUS

\* A checksum is determined by its two digits, and grows with them.
LEMMA DigitsOfChecksum ==
    ASSUME NEW c \in Nat, NEW d \in Nat, High(c) <= High(d), Low(c) <= Low(d)
    PROVE  c <= d
<1>1. W \in Nat /\ W > 0
  BY WidthAssumption
<1>2. \A x \in Nat : x = W * (x \div W) + (x % W) /\ x \div W \in Nat /\ x % W \in Nat
  BY <1>1
<1>3. High(c) \in Nat /\ High(d) \in Nat /\ Low(c) \in Nat /\ Low(d) \in Nat
  BY <1>2 DEF High, Low
<1>4. c = W * High(c) + Low(c) /\ d = W * High(d) + Low(d)
  BY <1>2 DEF High, Low
<1>5. W * High(c) <= W * High(d) /\ W * High(c) \in Nat /\ W * High(d) \in Nat
  <2>1. High(c) * W <= High(d) * W
    BY <1>1, <1>3, ProductGrows
  <2>. QED
    BY <1>1, <1>3, <2>1
<1>. QED
  BY <1>3, <1>4, <1>5

\* One step of the first loop, for both roles; the u16 never wraps.
LEMMA AddDigitStep ==
    ASSUME IInv, AddDigit
    PROVE  /\ i \in 1..MsgDigits /\ Added = i - 1 /\ Added' = i
           /\ \A r \in Roles : /\ digest[r][i] \in Digit
                               /\ csum'[r] = csum[r] + (MaxStep - digest[r][i])
                               /\ csum'[r] \in Nat /\ csum'[r] <= i * MaxStep
<1>1. /\ MsgDigits \in Nat /\ i \in Nat /\ i >= 1 /\ i <= MsgDigits /\ i' = i + 1
      /\ MaxStep \in Nat /\ W \in Nat /\ W * W \in Nat
  BY WidthAssumption DEF IInv, TypeOK, AddDigit, MaxStep
<1>2. Added = i - 1 /\ Added' = i
  BY <1>1 DEF Added
<1>3. ASSUME NEW r \in Roles
      PROVE  /\ digest[r][i] \in Digit
             /\ csum'[r] = csum[r] + (MaxStep - digest[r][i])
             /\ csum'[r] \in Nat /\ csum'[r] <= i * MaxStep
  <2>1. digest[r][i] \in Digit /\ csum[r] \in Nat /\ csum[r] <= (i - 1) * MaxStep
    BY <1>1, <1>2 DEF IInv, TypeOK, ChecksumsFit, Message
  <2>2. /\ (i - 1) * MaxStep \in Nat
        /\ ((i - 1) + 1) * MaxStep = (i - 1) * MaxStep + MaxStep
        /\ i * MaxStep <= MsgDigits * MaxStep
        /\ i * MaxStep \in Nat /\ MsgDigits * MaxStep \in Nat
    BY <1>1, ProductGrows
  <2>3. (i - 1) + 1 = i
    BY <1>1
  <2>4. MsgDigits * MaxStep < W * W
    BY WidthAssumption DEF MaxStep
  <2>5. MaxStep - digest[r][i] \in Nat /\ MaxStep - digest[r][i] <= MaxStep
    BY <1>1, <2>1 DEF Digit
  <2>6. /\ csum[r] + (MaxStep - digest[r][i]) \in Nat
        /\ csum[r] + (MaxStep - digest[r][i]) <= i * MaxStep
        /\ csum[r] + (MaxStep - digest[r][i]) < W * W
    BY <1>1, <2>1, <2>2, <2>3, <2>4, <2>5
  <2>7. csum'[r] = (csum[r] + (MaxStep - digest[r][i])) % (W * W)
    BY DEF AddDigit, Complement
  <2>8. \A m, n \in Nat : m < n => m % n = m
    OBVIOUS
  <2>. QED
    BY <1>1, <2>1, <2>6, <2>7, <2>8
<1>. QED
  BY <1>1, <1>2, <1>3

\* The comparison of the checksums survives one more digit.
LEMMA OpposeStep ==
    ASSUME IInv, AddDigit
    PROVE  ChecksumsOppose'
<1>1. /\ i \in 1..MsgDigits /\ Added = i - 1 /\ Added' = i /\ UNCHANGED digest
      /\ \A r \in Roles : /\ digest[r][i] \in Digit /\ csum[r] \in Nat
                          /\ csum'[r] = csum[r] + (MaxStep - digest[r][i])
  BY AddDigitStep DEF AddDigit, IInv, TypeOK
<1>2. SUFFICES ASSUME \A k \in 1..i : digest["sign"][k] <= digest["verify"][k]
               PROVE  /\ csum'["verify"] <= csum'["sign"]
                      /\ csum'["verify"] = csum'["sign"] =>
                             \A k \in 1..i : digest["sign"][k] = digest["verify"][k]
  BY <1>1 DEF ChecksumsOppose, Below, Agree
<1>3. MsgDigits \in Nat /\ MaxStep \in Nat
  BY WidthAssumption DEF MaxStep
<1>4. Below(i - 1) /\ digest["sign"][i] <= digest["verify"][i]
  BY <1>1, <1>2, <1>3 DEF Below
<1>5. csum["verify"] <= csum["sign"] /\ (csum["verify"] = csum["sign"] => Agree(i - 1))
  BY <1>1, <1>4 DEF IInv, ChecksumsOppose
<1>6. /\ digest["sign"][i] \in Digit /\ digest["verify"][i] \in Digit
      /\ csum["sign"] \in Nat /\ csum["verify"] \in Nat
      /\ csum'["sign"] = csum["sign"] + (MaxStep - digest["sign"][i])
      /\ csum'["verify"] = csum["verify"] + (MaxStep - digest["verify"][i])
  BY <1>1 DEF Roles
<1>7. /\ csum'["verify"] <= csum'["sign"]
      /\ csum'["verify"] = csum'["sign"] =>
             csum["verify"] = csum["sign"] /\ digest["sign"][i] = digest["verify"][i]
  BY <1>3, <1>4, <1>5, <1>6 DEF Digit
<1>8. Agree(i - 1) /\ digest["sign"][i] = digest["verify"][i] =>
          \A k \in 1..i : digest["sign"][k] = digest["verify"][k]
  BY <1>1, <1>3 DEF Agree
<1>. QED
  BY <1>5, <1>7, <1>8

\* Every chain of a role is a digit: the checksum has two of them.
LEMMA DigitInRange ==
    ASSUME IInv, NEW r \in Roles, NEW j \in 1..Chains
    PROVE  DigitAt(r, j) \in Digit
<1>1. W \in Nat /\ W >= 2 /\ MsgDigits \in Nat /\ MaxStep \in Nat /\ MaxStep = W - 1
  BY WidthAssumption DEF MaxStep
<1>2. CASE j <= MsgDigits
  BY <1>1, <1>2 DEF IInv, TypeOK, Message, DigitAt, Chains
<1>3. csum[r] \in Nat /\ csum[r] < W * W
  <2>1. Added \in Nat /\ Added <= MsgDigits
    BY <1>1 DEF Added, IInv, TypeOK
  <2>2. Added * MaxStep <= MsgDigits * MaxStep /\ Added * MaxStep \in Nat
    BY <1>1, <2>1, ProductGrows
  <2>3. csum[r] \in Nat /\ csum[r] <= Added * MaxStep
    BY DEF IInv, TypeOK, ChecksumsFit
  <2>4. MsgDigits * MaxStep < W * W /\ MsgDigits * MaxStep \in Nat /\ W * W \in Nat
    BY <1>1, WidthAssumption
  <2>. QED
    BY <2>2, <2>3, <2>4
<1>4. High(csum[r]) \in Digit /\ Low(csum[r]) \in Digit
  <2>1. \A x \in Nat : x < W * W => x \div W \in Nat /\ x \div W < W /\ x % W \in Nat /\ x % W < W
    BY <1>1
  <2>. QED
    BY <1>1, <1>3, <2>1 DEF High, Low, Digit
<1>. QED
  BY <1>2, <1>4 DEF DigitAt

\* A step of the second loop changes no digit and walks one more chain.
LEMMA WalkStep ==
    ASSUME IInv, NEW p \in Digit, Walk(p)
    PROVE  /\ i - MsgDigits \in 1..Chains /\ i > MsgDigits /\ i' = i + 1
           /\ Added' = Added /\ UNCHANGED <<digest, csum>>
           /\ \A r \in Roles : \A k \in 1..Chains : DigitAt(r, k)' = DigitAt(r, k)
<1>1. /\ MsgDigits \in Nat /\ i \in Nat /\ i > MsgDigits /\ i - MsgDigits <= Chains
      /\ i' = i + 1 /\ UNCHANGED <<digest, csum>>
  BY WidthAssumption DEF IInv, TypeOK, Walk, InSignature
<1>. QED
  BY <1>1 DEF Added, DigitAt, Chains, High, Low

\* The invariant is inductive.
LEMMA Inductive == IInv /\ [Next]_vars => IInv'
<1>. SUFFICES ASSUME IInv, [Next]_vars PROVE IInv'
  OBVIOUS
<1>0. MsgDigits \in Nat /\ MaxStep \in Nat /\ Chains \in Nat /\ Chains = MsgDigits + 2
      /\ i \in 1..MsgDigits + Chains + 1
  BY WidthAssumption DEF MaxStep, Chains, IInv, TypeOK
<1>1. CASE AddDigit
  <2>1. /\ i \in 1..MsgDigits /\ Added' = i /\ i' = i + 1
        /\ \A r \in Roles : csum'[r] \in Nat /\ csum'[r] <= i * MaxStep
    BY <1>1, AddDigitStep DEF AddDigit
  <2>2. TypeOK'
    <3>1. csum' \in [Roles -> Nat]
      BY <1>1, <2>1 DEF AddDigit
    <3>. QED
      BY <1>0, <1>1, <2>1, <3>1 DEF AddDigit, IInv, TypeOK
  <2>3. ChecksumsFit'
    BY <2>1 DEF ChecksumsFit
  <2>4. WalkedFromBelow'
    BY <1>0, <2>1 DEF WalkedFromBelow
  <2>. QED
    BY <1>1, <2>2, <2>3, <2>4, OpposeStep DEF IInv
<1>2. ASSUME NEW p \in Digit, Walk(p) PROVE IInv'
  <2>1. /\ i - MsgDigits \in 1..Chains /\ i > MsgDigits /\ i' = i + 1 /\ Added' = Added
        /\ UNCHANGED <<digest, csum>>
        /\ \A r \in Roles : \A k \in 1..Chains : DigitAt(r, k)' = DigitAt(r, k)
    BY <1>2, WalkStep
  <2>2. TypeOK'
    <3>1. DigitAt("verify", i - MsgDigits) \in Digit
      BY <2>1, DigitInRange DEF Roles
    <3>2. steps' \in Nat
      BY <1>0, <1>2, <3>1 DEF Walk, Digit, IInv, TypeOK
    <3>. QED
      BY <1>0, <1>2, <2>1, <3>2 DEF Walk, IInv, TypeOK
  <2>3. ChecksumsFit' /\ ChecksumsOppose'
    BY <2>1 DEF IInv, ChecksumsFit, ChecksumsOppose, Below, Agree
  <2>4. WalkedFromBelow'
    <3>1. SUFFICES ASSUME ends', NEW k \in 1..Chains, k + MsgDigits < i'
                   PROVE  DigitAt("sign", k) <= DigitAt("verify", k)
      BY <2>1 DEF WalkedFromBelow, Roles
    <3>2. CASE k + MsgDigits < i
      BY <1>2, <3>1, <3>2 DEF Walk, IInv, WalkedFromBelow
    <3>3. CASE k = i - MsgDigits
      BY <1>2, <3>1, <3>3 DEF Walk
    <3>. QED
      BY <1>0, <2>1, <3>1, <3>2, <3>3
  <2>. QED
    BY <2>2, <2>3, <2>4 DEF IInv
<1>3. CASE UNCHANGED vars
  <2>. QED
    BY <1>3 DEF vars, IInv, TypeOK, ChecksumsFit, ChecksumsOppose, WalkedFromBelow, Added, Below,
                Agree, DigitAt, High, Low
<1>. QED
  BY <1>1, <1>2, <1>3 DEF Next

\* Both loops keep the types, the bound on the checksums and the comparison.
THEOREM Invariant == Spec => []IInv
<1>1. Init => IInv
  <2>. SUFFICES ASSUME Init PROVE IInv
    OBVIOUS
  <2>1. MsgDigits \in Nat /\ Chains = MsgDigits + 2 /\ MaxStep \in Nat
    BY WidthAssumption DEF Chains, MaxStep
  <2>2. TypeOK
    BY <2>1 DEF Init, TypeOK
  <2>3. Added = 0 /\ 0 * MaxStep = 0 /\ \A r \in Roles : csum[r] = 0
    BY <2>1 DEF Init, Added
  <2>4. ChecksumsFit /\ ChecksumsOppose
    BY <2>3 DEF ChecksumsFit, ChecksumsOppose, Agree, Roles
  <2>5. WalkedFromBelow
    BY <2>1 DEF Init, WalkedFromBelow
  <2>. QED
    BY <2>2, <2>4, <2>5 DEF IInv
<1>. QED
  BY <1>1, Inductive, PTL DEF Spec

\* Chain values computed from a signature make one for the signed message only.
THEOREM OneMessage == Spec => []FitsOneMessage
<1>1. IInv => FitsOneMessage
  <2>. SUFFICES ASSUME IInv, Done, ends PROVE digest["sign"] = digest["verify"]
    BY DEF FitsOneMessage
  <2>1. MsgDigits \in Nat /\ Chains = MsgDigits + 2 /\ i = MsgDigits + Chains + 1
    BY WidthAssumption DEF Chains, Done
  <2>2. Added = MsgDigits
    BY <2>1 DEF Added
  <2>3. \A k \in 1..Chains : DigitAt("sign", k) <= DigitAt("verify", k)
    BY <2>1 DEF IInv, WalkedFromBelow
  <2>4. Below(MsgDigits)
    BY <2>1, <2>3 DEF Below, DigitAt
  <2>5. /\ High(csum["sign"]) <= High(csum["verify"])
        /\ Low(csum["sign"]) <= Low(csum["verify"])
    <3>1. MsgDigits + 1 \in 1..Chains /\ MsgDigits + 2 \in 1..Chains
      BY <2>1
    <3>2. \A r \in Roles : /\ DigitAt(r, MsgDigits + 1) = High(csum[r])
                           /\ DigitAt(r, MsgDigits + 2) = Low(csum[r])
      BY <2>1 DEF DigitAt
    <3>. QED
      BY <2>3, <3>1, <3>2 DEF Roles
  <2>6. csum["sign"] \in Nat /\ csum["verify"] \in Nat
    BY DEF IInv, TypeOK, Roles
  <2>7. csum["verify"] = csum["sign"]
    BY <2>2, <2>4, <2>5, <2>6, DigitsOfChecksum DEF IInv, ChecksumsOppose
  <2>8. Agree(MsgDigits)
    BY <2>2, <2>4, <2>6, <2>7 DEF IInv, ChecksumsOppose
  <2>9. digest["sign"] \in Message /\ digest["verify"] \in Message
    BY DEF IInv, TypeOK, Roles
  <2>10. \A f, g \in Message : (\A k \in 1..MsgDigits : f[k] = g[k]) => f = g
    BY SameValues DEF Message
  <2>. QED
    BY <2>8, <2>9, <2>10 DEF Agree
<1>. QED
  BY <1>1, Invariant, PTL

\* While the messages are the same, so are the checksums, and the signer's own
\* values end every chain well.
SameSoFar ==
    digest["sign"] = digest["verify"] => csum["sign"] = csum["verify"] /\ (kept => ends)

\* The signer's own chain values are accepted for the message it signed.
THEOREM Accepted == Spec => []RoundTrip
<1>1. Init => SameSoFar
  BY DEF Init, SameSoFar, Roles
<1>2. IInv /\ SameSoFar /\ [Next]_vars => SameSoFar'
  <2>. SUFFICES ASSUME IInv, SameSoFar, [Next]_vars PROVE SameSoFar'
    OBVIOUS
  <2>1. CASE AddDigit
    BY <2>1 DEF AddDigit, SameSoFar, Roles
  <2>2. ASSUME NEW p \in Digit, Walk(p) PROVE SameSoFar'
    BY <2>2 DEF Walk, SameSoFar, DigitAt
  <2>3. CASE UNCHANGED vars
    BY <2>3 DEF vars, SameSoFar
  <2>. QED
    BY <2>1, <2>2, <2>3 DEF Next
<1>3. SameSoFar => RoundTrip
  BY DEF SameSoFar, RoundTrip
<1>. QED
  BY <1>1, <1>2, <1>3, Invariant, PTL DEF Spec

-----------------------------------------------------------------------------
(***************************************************************************)
(* The verifier's hash steps.  A message chain takes as many steps as its  *)
(* digit adds to the checksum, so all of them together take as many as the *)
(* checksum says, and the two checksum chains then take what is left of    *)
(* the checksum's own digits.                                              *)
(***************************************************************************)

\* The message chains walked so far.
Walked == IF i <= MsgDigits THEN 0 ELSE IF i <= MsgDigits + MsgDigits THEN i - MsgDigits - 1 ELSE MsgDigits

\* s[k]: what the first k digits of the verified message add to the checksum.
Sums(s) ==
    /\ s[0] = 0
    /\ \A k \in 1..Added : s[k] = s[k - 1] + Complement(digest["verify"][k])
    /\ \A k \in 0..Added : s[k] <= s[Added]
    /\ s[Added] = csum["verify"]

\* Steps of the checksum chains walked so far: of none, of the high one, of both.
HighSteps == MaxStep - High(csum["verify"])
LowSteps == MaxStep - Low(csum["verify"])
Beyond ==
    IF i <= MsgDigits + MsgDigits + 1 THEN 0
    ELSE IF i = MsgDigits + MsgDigits + 2 THEN HighSteps ELSE HighSteps + LowSteps

StepsTell == \E s \in [0..MsgDigits -> Nat] : Sums(s) /\ steps = s[Walked] + Beyond

\* A larger checksum has no smaller high digit.
LEMMA HighGrows ==
    ASSUME NEW c \in Nat, NEW d \in Nat, c <= d
    PROVE  High(c) \in Nat /\ High(d) \in Nat /\ High(c) <= High(d)
<1>1. W \in Nat /\ W > 0
  BY WidthAssumption
<1>2. \A x \in Nat : /\ x = W * (x \div W) + (x % W) /\ x \div W \in Nat
                     /\ x % W \in Nat /\ x % W < W
  BY <1>1
<1>3. /\ c = W * High(c) + Low(c) /\ High(c) \in Nat /\ Low(c) \in Nat
      /\ d = W * High(d) + Low(d) /\ High(d) \in Nat /\ Low(d) \in Nat /\ Low(d) < W
  BY <1>2 DEF High, Low
<1>4. CASE High(c) >= High(d) + 1
  <2>1. (High(d) + 1) * W <= High(c) * W /\ (High(d) + 1) * W = High(d) * W + W
    BY <1>1, <1>3, <1>4, ProductGrows
  <2>2. /\ W * High(d) + W <= W * High(c)
        /\ W * High(c) \in Nat /\ W * High(d) \in Nat
    BY <1>1, <1>3, <2>1
  <2>3. \A x, y, l, m \in Nat : x + W <= y /\ m < W /\ y + l <= x + m => FALSE
    BY <1>1
  <2>. QED
    BY <1>3, <2>2, <2>3
<1>. QED
  BY <1>3, <1>4

\* One more digit extends the sums.
LEMMA SumsGrow ==
    ASSUME IInv, StepsTell, AddDigit
    PROVE  StepsTell'
<1>1. /\ i \in 1..MsgDigits /\ Added = i - 1 /\ Added' = i /\ UNCHANGED <<digest, steps>> /\ i' = i + 1
      /\ csum'["verify"] = csum["verify"] + (MaxStep - digest["verify"][i])
      /\ digest["verify"][i] \in Digit /\ csum["verify"] \in Nat /\ csum'["verify"] \in Nat
  BY AddDigitStep DEF AddDigit, IInv, TypeOK, Roles
<1>2. MsgDigits \in Nat /\ MaxStep \in Nat
  BY WidthAssumption DEF MaxStep
<1>3. PICK s \in [0..MsgDigits -> Nat] : Sums(s) /\ steps = s[Walked] + Beyond
  BY DEF StepsTell
<1>4. Walked = 0 /\ Walked' = 0 /\ Beyond = 0 /\ Beyond' = 0
  BY <1>1, <1>2 DEF Walked, Beyond
<1>5. /\ s[0] = 0 /\ s[i - 1] = csum["verify"]
      /\ \A k \in 1..(i - 1) : s[k] = s[k - 1] + Complement(digest["verify"][k])
      /\ \A k \in 0..(i - 1) : s[k] <= s[i - 1]
  BY <1>1, <1>3 DEF Sums
<1>6. PICK t \in [0..MsgDigits -> Nat] :
        t[i] = csum'["verify"] /\ \A k \in 0..(i - 1) : t[k] = s[k]
  <2>. DEFINE t == [s EXCEPT ![i] = csum'["verify"]]
  <2>1. t \in [0..MsgDigits -> Nat] /\ t[i] = csum'["verify"] /\ \A k \in 0..(i - 1) : t[k] = s[k]
    BY <1>1, <1>2
  <2>. HIDE DEF t
  <2>. QED
    BY <2>1
<1>7. t[0] = 0 /\ t[i - 1] = csum["verify"]
  BY <1>1, <1>2, <1>5, <1>6
<1>8. ASSUME NEW k \in 1..i PROVE t[k] = t[k - 1] + Complement(digest["verify"][k])
  <2>1. CASE k = i
    BY <1>1, <1>6, <1>7, <2>1 DEF Complement
  <2>2. CASE k \in 1..(i - 1)
    <3>1. k \in 0..(i - 1) /\ k - 1 \in 0..(i - 1)
      BY <1>1, <1>2, <2>2
    <3>. QED
      BY <1>5, <1>6, <2>2, <3>1
  <2>. QED
    BY <1>1, <1>2, <2>1, <2>2
<1>9. ASSUME NEW k \in 0..i PROVE t[k] <= t[i]
  <2>1. csum["verify"] <= csum'["verify"]
    <3>0. \A m \in Nat : \A x \in 0..m : m - x \in Nat
      OBVIOUS
    <3>1. MaxStep - digest["verify"][i] \in Nat
      BY <1>1, <1>2, <3>0 DEF Digit
    <3>. QED
      BY <1>1, <3>1
  <2>2. CASE k = i
    BY <1>1, <1>6, <2>2
  <2>3. CASE k \in 0..(i - 1)
    <3>1. t[k] = s[k] /\ s[k] <= csum["verify"] /\ s[k] \in Nat
      BY <1>1, <1>2, <1>3, <1>5, <1>6, <2>3
    <3>. QED
      BY <1>1, <1>6, <2>1, <3>1
  <2>. QED
    BY <1>1, <2>2, <2>3
<1>10. Sums(t)'
  <2>1. \A k \in 1..i : t[k] = t[k - 1] + Complement(digest'["verify"][k])
    BY <1>1, <1>8
  <2>. QED
    BY <1>1, <1>6, <1>7, <1>9, <2>1 DEF Sums, Complement
<1>11. steps' = t[Walked'] + Beyond'
  BY <1>1, <1>3, <1>4, <1>5, <1>7
<1>. QED
  BY <1>6, <1>10, <1>11 DEF StepsTell

\* One more chain takes its steps out of the sums.
LEMMA StepsGrow ==
    ASSUME IInv, StepsTell, NEW p \in Digit, Walk(p)
    PROVE  StepsTell'
<1>1. /\ i - MsgDigits \in 1..Chains /\ i > MsgDigits /\ i' = i + 1
      /\ Added' = Added /\ UNCHANGED <<digest, csum>>
      /\ steps' = steps + (MaxStep - DigitAt("verify", i - MsgDigits))
  BY WalkStep DEF Walk
<1>2. MsgDigits \in Nat /\ MaxStep \in Nat /\ Chains = MsgDigits + 2 /\ i \in Nat
  BY WidthAssumption DEF MaxStep, Chains, IInv, TypeOK
<1>3. PICK s \in [0..MsgDigits -> Nat] : Sums(s) /\ steps = s[Walked] + Beyond
  BY DEF StepsTell
<1>4. Added = MsgDigits
  BY <1>1, <1>2 DEF Added
<1>5. Sums(s)' /\ HighSteps' = HighSteps /\ LowSteps' = LowSteps
  BY <1>1, <1>3 DEF Sums, HighSteps, LowSteps, High, Low
<1>6. steps \in Nat /\ \A k \in 0..MsgDigits : s[k] \in Nat
  BY <1>3 DEF IInv, TypeOK
<1>7. DigitAt("verify", i - MsgDigits) \in Digit
  BY <1>1, DigitInRange DEF Roles
<1>8. CASE i <= MsgDigits + MsgDigits
  <2>1. /\ Walked = i - MsgDigits - 1 /\ Walked' = i - MsgDigits /\ Beyond = 0 /\ Beyond' = 0
        /\ i - MsgDigits \in 1..MsgDigits /\ i - MsgDigits - 1 \in 0..MsgDigits
    BY <1>1, <1>2, <1>8 DEF Walked, Beyond
  <2>2. s[i - MsgDigits] = s[i - MsgDigits - 1] + (MaxStep - DigitAt("verify", i - MsgDigits))
    BY <1>3, <1>4, <2>1 DEF Sums, Complement, DigitAt
  <2>3. s[i - MsgDigits] \in Nat /\ s[i - MsgDigits - 1] \in Nat /\ steps = s[i - MsgDigits - 1]
    BY <1>3, <1>6, <2>1
  <2>4. steps' = s[Walked'] + Beyond'
    BY <1>1, <2>1, <2>2, <2>3
  <2>. QED
    BY <1>5, <2>4 DEF StepsTell
<1>9. CASE i = MsgDigits + MsgDigits + 1
  <2>1. Walked = MsgDigits /\ Walked' = MsgDigits /\ Beyond = 0 /\ Beyond' = HighSteps'
    BY <1>1, <1>2, <1>9 DEF Walked, Beyond
  <2>2. DigitAt("verify", i - MsgDigits) = High(csum["verify"])
    BY <1>2, <1>9 DEF DigitAt
  <2>3. steps' = s[Walked'] + Beyond'
    BY <1>1, <1>2, <1>3, <1>5, <1>6, <1>7, <2>1, <2>2 DEF HighSteps, Digit
  <2>. QED
    BY <1>5, <2>3 DEF StepsTell
<1>10. CASE i = MsgDigits + MsgDigits + 2
  <2>1. Walked = MsgDigits /\ Walked' = MsgDigits /\ Beyond = HighSteps /\ Beyond' = HighSteps' + LowSteps'
    BY <1>1, <1>2, <1>10 DEF Walked, Beyond
  <2>2. DigitAt("verify", i - MsgDigits) = Low(csum["verify"])
    BY <1>2, <1>10 DEF DigitAt
  <2>3. High(csum["verify"]) \in Digit
    <3>1. DigitAt("verify", MsgDigits + 1) \in Digit
      BY <1>2, DigitInRange DEF Roles
    <3>. QED
      BY <1>2, <3>1 DEF DigitAt
  <2>4. HighSteps \in Nat /\ LowSteps \in Nat /\ steps' = steps + LowSteps
    BY <1>1, <1>2, <1>7, <2>2, <2>3 DEF HighSteps, LowSteps, Digit
  <2>5. steps' = s[Walked'] + Beyond'
    BY <1>2, <1>3, <1>5, <1>6, <2>1, <2>4
  <2>. QED
    BY <1>5, <2>5 DEF StepsTell
<1>. QED
  BY <1>1, <1>2, <1>8, <1>9, <1>10

\* A verification takes at most as many steps as fuzz.rs prop_max_steps_is_6375 says,
\* for every message and every length of the chains.
THEOREM FewSteps == Spec => []StepsBounded
<1>1. Init => StepsTell
  <2>. SUFFICES ASSUME Init PROVE StepsTell
    OBVIOUS
  <2>1. MsgDigits \in Nat /\ i = 1 /\ steps = 0 /\ csum["verify"] = 0
    BY WidthAssumption DEF Init, Roles
  <2>2. Added = 0 /\ Walked = 0 /\ Beyond = 0
    BY <2>1 DEF Added, Walked, Beyond
  <2>. DEFINE s == [k \in 0..MsgDigits |-> 0]
  <2>3. s \in [0..MsgDigits -> Nat] /\ s[0] = 0
    BY <2>1
  <2>. HIDE DEF s
  <2>. QED
    BY <2>1, <2>2, <2>3 DEF StepsTell, Sums
<1>2. IInv /\ StepsTell /\ [Next]_vars => StepsTell'
  <2>. SUFFICES ASSUME IInv, StepsTell, UNCHANGED vars PROVE StepsTell'
    BY SumsGrow, StepsGrow DEF Next
  <2>. QED
    BY DEF vars, StepsTell, Sums, Added, Walked, Beyond, HighSteps, LowSteps, High, Low
<1>3. IInv /\ StepsTell => StepsBounded
  <2>. SUFFICES ASSUME IInv, StepsTell PROVE StepsBounded
    OBVIOUS
  <2>. DEFINE c == csum["verify"]
              most == (MsgDigits * MaxStep) \div W
  <2>1. W \in Nat /\ W >= 2 /\ MsgDigits \in Nat /\ MaxStep \in Nat /\ MaxStep = W - 1 /\ Chains = MsgDigits + 2
    BY WidthAssumption DEF MaxStep, Chains
  <2>2. Added \in 0..MsgDigits /\ Walked \in 0..MsgDigits
    BY <2>1 DEF Added, Walked, IInv, TypeOK
  <2>3. c \in Nat /\ c <= MsgDigits * MaxStep /\ MsgDigits * MaxStep \in Nat
    <3>1. Added * MaxStep <= MsgDigits * MaxStep /\ Added * MaxStep \in Nat /\ MsgDigits * MaxStep \in Nat
      BY <2>1, <2>2, ProductGrows
    <3>2. c \in Nat /\ c <= Added * MaxStep
      BY DEF IInv, TypeOK, ChecksumsFit, Roles
    <3>. QED
      BY <3>1, <3>2
  <2>4. High(c) \in Digit /\ Low(c) \in Digit
    <3>1. DigitAt("verify", MsgDigits + 1) \in Digit /\ DigitAt("verify", MsgDigits + 2) \in Digit
      BY <2>1, DigitInRange DEF Roles
    <3>. QED
      BY <2>1, <3>1 DEF DigitAt
  <2>5. PICK s \in [0..MsgDigits -> Nat] : Sums(s) /\ steps = s[Walked] + Beyond
    BY DEF StepsTell
  <2>6. steps <= c + (MaxStep - High(c)) + (MaxStep - Low(c))
    <3>1. CASE i <= MsgDigits
      <4>1. Walked = 0 /\ Beyond = 0 /\ s[0] = 0
        BY <2>1, <2>5, <3>1 DEF Walked, Beyond, Sums, IInv, TypeOK
      <4>. QED
        BY <2>1, <2>3, <2>4, <2>5, <4>1 DEF Digit
    <3>2. CASE i > MsgDigits
      <4>1. Added = MsgDigits
        BY <2>1, <3>2 DEF Added, IInv, TypeOK
      <4>2. s[Walked] <= c /\ s[Walked] \in Nat
        BY <2>2, <2>5, <4>1 DEF Sums
      <4>3. Beyond \in Nat /\ Beyond <= (MaxStep - High(c)) + (MaxStep - Low(c))
        BY <2>1, <2>4 DEF Beyond, HighSteps, LowSteps, Digit
      <4>4. \A a, b, x, y \in Nat : a <= x /\ b <= y => a + b <= x + y
        OBVIOUS
      <4>5. (MaxStep - High(c)) + (MaxStep - Low(c)) \in Nat
        BY <2>1, <2>4 DEF Digit
      <4>6. s[Walked] + Beyond <= c + ((MaxStep - High(c)) + (MaxStep - Low(c)))
        BY <2>3, <4>2, <4>3, <4>4, <4>5
      <4>. QED
        BY <2>1, <2>3, <2>4, <2>5, <4>6 DEF Digit
    <3>. QED
      BY <2>1, <3>1, <3>2 DEF IInv, TypeOK
  <2>7. c = W * High(c) + Low(c)
    <3>1. \A x \in Nat : x = W * (x \div W) + (x % W)
      BY <2>1
    <3>. QED
      BY <2>3, <3>1 DEF High, Low
  <2>8. W * High(c) = MaxStep * High(c) + High(c) /\ MaxStep * High(c) \in Nat
    <3>0. High(c) \in Nat
      BY <2>1, <2>4 DEF Digit
    <3>1. (MaxStep + 1) * High(c) = MaxStep * High(c) + High(c) /\ MaxStep * High(c) \in Nat
      <4>1. \A m, k \in Nat : (m + 1) * k = m * k + k /\ m * k \in Nat
        BY ProductGrows
      <4>. QED
        BY <2>1, <3>0, <4>1
    <3>2. MaxStep + 1 = W
      BY <2>1
    <3>. QED
      BY <3>1, <3>2
  <2>9. /\ High(c) * MaxStep \in Nat /\ (High(c) + 1) * MaxStep = High(c) * MaxStep + MaxStep
        /\ ((High(c) + 1) + 1) * MaxStep = (High(c) + 1) * MaxStep + MaxStep
    BY <2>1, <2>4, ProductGrows DEF Digit
  <2>10. steps <= (High(c) + 2) * MaxStep
    <3>1. (High(c) + 1) + 1 = High(c) + 2 /\ MaxStep * High(c) = High(c) * MaxStep
      BY <2>1, <2>4 DEF Digit
    <3>2. steps \in Nat /\ High(c) \in Nat /\ Low(c) \in Nat
      BY <2>1, <2>4 DEF IInv, TypeOK, Digit
    <3>3. \A n, h, l, p, m \in Nat :
            n <= ((p + h) + l) + (m - h) + (m - l) => n <= (p + m) + m
      OBVIOUS
    <3>4. c = ((High(c) * MaxStep) + High(c)) + Low(c)
      BY <2>7, <2>8, <3>1
    <3>5. steps <= ((High(c) * MaxStep) + High(c)) + Low(c) + (MaxStep - High(c)) + (MaxStep - Low(c))
      BY <2>6, <3>4
    <3>6. steps <= (High(c) * MaxStep + MaxStep) + MaxStep
      BY <2>1, <2>9, <3>2, <3>3, <3>5
    <3>7. (High(c) + 2) * MaxStep = (High(c) * MaxStep + MaxStep) + MaxStep
      BY <2>9, <3>1
    <3>. QED
      BY <3>6, <3>7
  <2>11. High(c) + 2 <= most + 2 /\ High(c) + 2 \in Nat /\ most + 2 \in Nat
    <3>1. High(MsgDigits * MaxStep) = most
      BY DEF High
    <3>2. High(c) \in Nat /\ High(MsgDigits * MaxStep) \in Nat /\ High(c) <= High(MsgDigits * MaxStep)
      BY <2>3, HighGrows
    <3>. QED
      BY <3>1, <3>2
  <2>12. /\ (High(c) + 2) * MaxStep <= (most + 2) * MaxStep
         /\ (High(c) + 2) * MaxStep \in Nat /\ (most + 2) * MaxStep \in Nat
    BY <2>1, <2>11, ProductGrows, SMTT(30)
  <2>13. (most + 2) * MaxStep = MaxStep * (most + 2)
    BY <2>1, <2>11
  <2>14. steps \in Nat /\ MaxStep * (most + 2) = MostSteps
    BY DEF IInv, TypeOK, MostSteps
  <2>. HIDE DEF c, most
  <2>. QED
    BY <2>10, <2>12, <2>13, <2>14 DEF StepsBounded
<1>. QED
  BY <1>1, <1>2, <1>3, Invariant, PTL DEF Spec

-----------------------------------------------------------------------------
(***************************************************************************)
(* Powers.                                                                 *)
(***************************************************************************)

\* Powers are what one expects.
LEMMA PowerRule ==
    ASSUME NEW b \in Nat, b > 0
    PROVE  /\ Power(b, 0) = 1
           /\ \A n \in Nat : /\ Power(b, n) \in Nat /\ Power(b, n) > 0
                             /\ Power(b, n + 1) = b * Power(b, n)
<1>. DEFINE Is(p) == p = [k \in Nat |-> IF k = 0 THEN 1 ELSE b * p[k - 1]]
            F == [k \in Nat |-> [x \in Nat |-> b * x]]
<1>1. \E p : Is(p)
  <2>1. F \in [Nat -> [Nat -> Nat]]
    OBVIOUS
  <2>2. PICK g \in [Nat -> Nat] : Iterated(g, 1, F)
    <3>. HIDE DEF F
    <3>1. 1 \in Nat
      OBVIOUS
    <3>. QED
      BY <2>1, <3>1, Iteration
  <2>3. ASSUME NEW k \in Nat PROVE g[k] = IF k = 0 THEN 1 ELSE b * g[k - 1]
    <3>1. CASE k = 0
      BY <2>2, <3>1 DEF Iterated
    <3>2. CASE k # 0
      <4>1. k - 1 \in Nat /\ (k - 1) + 1 = k
        BY <3>2
      <4>2. g[k] = b * g[k - 1]
        BY <2>2, <4>1 DEF Iterated
      <4>. QED
        BY <3>2, <4>1, <4>2
    <3>. QED
      BY <3>1, <3>2
  <2>4. Is(g)
    BY <2>3
  <2>. QED
    BY <2>4
<1>. DEFINE power == CHOOSE p : Is(p)
<1>2. Is(power)
  <2>. HIDE DEF Is
  <2>. QED
    BY <1>1
<1>3. \A n \in Nat : Power(b, n) = power[n]
  BY DEF Power
<1>. HIDE DEF power
<1>4. power[0] = 1 /\ \A n \in Nat : power[n + 1] = b * power[n]
  <2>1. ASSUME NEW n \in Nat PROVE power[n] = IF n = 0 THEN 1 ELSE b * power[n - 1]
    BY <1>2
  <2>2. ASSUME NEW n \in Nat PROVE power[n + 1] = b * power[n]
    BY <2>1
  <2>. QED
    BY <2>1, <2>2
<1>. DEFINE T == {n \in Nat : power[n] \in Nat /\ power[n] > 0}
<1>5. 0 \in T
  BY <1>4
<1>6. ASSUME NEW n \in Nat, n \in T PROVE n + 1 \in T
  <2>1. \A x \in Nat : x > 0 => b * x \in Nat /\ b * x > 0
    OBVIOUS
  <2>. QED
    BY <1>4, <1>6, <2>1
<1>7. \A n \in Nat : n \in T
  <2>. HIDE DEF T
  <2>. QED
    BY <1>5, <1>6, FromZero
<1>. QED
  BY <1>3, <1>4, <1>7

-----------------------------------------------------------------------------
(***************************************************************************)
(* Folds over a sequence, one element at a time.                           *)
(***************************************************************************)

\* The first elements of a sequence without the last of them.
LEMMA FirstOnes ==
    ASSUME NEW n \in Nat, NEW k \in 1..n
    PROVE  /\ 1..k \in SUBSET (1..n) /\ 1..k # {} /\ Max(1..k) = k /\ (1..k) \ {Max(1..k)} = 1..(k - 1)
           /\ 1..(k - 1) \in SUBSET (1..n)
<1>1. 1 \in Nat /\ k \in Nat /\ 1 <= k
  OBVIOUS
<1>2. Max(1..k) = k
  BY <1>1, IntervalEnds
<1>3. 1..k \in SUBSET (1..n) /\ 1..(k - 1) \in SUBSET (1..n) /\ k \in 1..k
  BY <1>1
<1>4. (1..k) \ {k} = 1..(k - 1)
  BY <1>1
<1>. QED
  BY <1>2, <1>3, <1>4, Zenon

\* The last elements of a sequence without the first of them.
LEMMA LastOnes ==
    ASSUME NEW n \in Nat, NEW k \in 1..n
    PROVE  /\ k..n \in SUBSET (1..n) /\ k..n # {} /\ Min(k..n) = k /\ (k..n) \ {Min(k..n)} = (k + 1)..n
           /\ (k + 1)..n \in SUBSET (1..n)
<1>1. k \in Nat /\ k <= n
  OBVIOUS
<1>2. Min(k..n) = k
  BY <1>1, IntervalEnds
<1>3. k..n \in SUBSET (1..n) /\ (k + 1)..n \in SUBSET (1..n) /\ k \in k..n
  BY <1>1
<1>4. (k..n) \ {k} = (k + 1)..n
  BY <1>1
<1>. QED
  BY <1>2, <1>3, <1>4, Zenon

\* What Value() says of each digit: ten times what was before it, and the digit.
LEMMA ValueRule ==
    ASSUME NEW ds \in Seq(Nat)
    PROVE  \E val \in [0..Len(ds) -> Nat] :
               /\ val[0] = 0 /\ \A k \in 1..Len(ds) : val[k] = 10 * val[k - 1] + ds[k]
               /\ Value(ds) = val[Len(ds)]
<1>. DEFINE n == Len(ds)
            Is(g) == g = [s \in SUBSET DOMAIN ds |->
                              IF s = {} THEN 0 ELSE 10 * g[s \ {Max(s)}] + ds[Max(s)]]
            F == [k \in 1..n |-> [x \in Nat |-> 10 * x + ds[k]]]
            C == [s \in SUBSET (1..n) |-> Max(s)]
<1>1. n \in Nat /\ DOMAIN ds = 1..n /\ \A k \in 1..n : ds[k] \in Nat
  OBVIOUS
<1>2. \E g : Is(g)
  <2>1. F \in [1..n -> [Nat -> Nat]]
    BY <1>1
  <2>2. \A s \in SUBSET (1..n) : s # {} => C[s] \in s
    <3>1. SUBSET (1..n) \subseteq SUBSET (0..n)
      BY <1>1
    <3>. QED
      BY <1>1, <3>1, MaxIsMember
  <2>4. Chooses(C, 1..n)
    <3>. HIDE DEF C
    <3>. QED
      BY <2>2 DEF Chooses
  <2>3. IsFiniteSet(1..n) /\ 0 \in Nat
    BY <1>1, FS_Interval
  <2>5. PICK g \in [SUBSET (1..n) -> Nat] : Accumulates(g, SUBSET (1..n), 0, F, C)
    <3>. HIDE DEF F, C, n
    <3>. QED
      BY <2>1, <2>3, <2>4, Accumulation
  <2>6. ASSUME NEW s \in SUBSET (1..n), s # {} PROVE g[s] = 10 * g[s \ {Max(s)}] + ds[Max(s)]
    <3>1. Max(s) \in s /\ C[s] = Max(s) /\ s \ {Max(s)} \in SUBSET (1..n)
      BY <2>2, <2>6
    <3>2. g[s] = F[C[s]][g[s \ {C[s]}]]
      BY <2>5, <2>6 DEF Accumulates
    <3>3. Max(s) \in 1..n /\ g[s \ {Max(s)}] \in Nat
      BY <3>1
    <3>. QED
      BY <3>1, <3>2, <3>3
  <2>7. g[{}] = 0
    BY <2>5 DEF Accumulates
  <2>8. Is(g)
    BY <1>1, <2>6, <2>7
  <2>. QED
    BY <2>8
<1>. DEFINE h == CHOOSE g : Is(g)
<1>3. Is(h)
  <2>. HIDE DEF Is
  <2>. QED
    BY <1>2
<1>4. Value(ds) = h[DOMAIN ds]
  BY DEF Value, FoldLeft, MapThenFoldSet
<1>. HIDE DEF h
<1>5. ASSUME NEW s \in SUBSET (1..n)
      PROVE  h[s] = IF s = {} THEN 0 ELSE 10 * h[s \ {Max(s)}] + ds[Max(s)]
  BY <1>1, <1>3
<1>. HIDE DEF n
<1>6. h[1..0] = 0 /\ \A k \in 1..n : h[1..k] = 10 * h[1..(k - 1)] + ds[k]
  <2>1. 1..0 = {} /\ {} \in SUBSET (1..n)
    OBVIOUS
  <2>2. h[1..0] = 0
    BY <1>5, <2>1
  <2>3. ASSUME NEW k \in 1..n PROVE h[1..k] = 10 * h[1..(k - 1)] + ds[k]
    <3>1. /\ 1..k \in SUBSET (1..n) /\ 1..k # {} /\ Max(1..k) = k
          /\ (1..k) \ {Max(1..k)} = 1..(k - 1)
      BY <1>1, FirstOnes, Zenon
    <3>2. h[1..k] = 10 * h[(1..k) \ {Max(1..k)}] + ds[Max(1..k)]
      BY <1>5, <3>1
    <3>. QED
      BY <3>1, <3>2
  <2>. QED
    BY <2>2, <2>3
<1>. DEFINE val == [k \in 0..n |-> h[1..k]]
            T == {k \in Nat : k <= n => h[1..k] \in Nat}
<1>7. \A k \in Nat : k \in T
  <2>1. 0 \in T
    BY <1>6
  <2>2. ASSUME NEW k \in Nat, k \in T PROVE k + 1 \in T
    <3>1. ASSUME k + 1 <= n PROVE h[1..(k + 1)] \in Nat
      <4>1. k + 1 \in 1..n /\ (k + 1) - 1 = k /\ h[1..k] \in Nat
        BY <1>1, <2>2, <3>1
      <4>2. h[1..(k + 1)] = 10 * h[1..k] + ds[k + 1]
        BY <1>6, <4>1
      <4>. QED
        BY <1>1, <4>1, <4>2
    <3>. QED
      BY <3>1
  <2>. HIDE DEF T
  <2>. QED
    BY <2>1, <2>2, FromZero
<1>8. val \in [0..n -> Nat] /\ val[0] = 0
  BY <1>1, <1>6, <1>7
<1>9. \A k \in 1..n : val[k] = 10 * val[k - 1] + ds[k]
  BY <1>1, <1>6
<1>10. Value(ds) = val[n]
  BY <1>1, <1>4
<1>. QED
  BY <1>8, <1>9, <1>10 DEF n

\* Value() of no digits.
LEMMA NoDigits == Value(<<>>) = 0
<1>1. <<>> \in Seq(Nat) /\ Len(<<>>) = 0
  OBVIOUS
<1>. QED
  BY <1>1, ValueRule

\* Value() with one more digit.
LEMMA ValueAppend ==
    ASSUME NEW ds \in Seq(Nat), NEW d \in Nat
    PROVE  Value(ds) \in Nat /\ Value(Append(ds, d)) = 10 * Value(ds) + d
<1>. DEFINE n == Len(ds)
            es == Append(ds, d)
<1>1. /\ n \in Nat /\ es \in Seq(Nat) /\ Len(es) = n + 1 /\ es[n + 1] = d
      /\ \A k \in 1..n : es[k] = ds[k] /\ ds[k] \in Nat
  OBVIOUS
<1>2. PICK val \in [0..n -> Nat] :
          val[0] = 0 /\ (\A k \in 1..n : val[k] = 10 * val[k - 1] + ds[k]) /\ Value(ds) = val[n]
  BY ValueRule
<1>3. PICK wal \in [0..n + 1 -> Nat] :
          /\ wal[0] = 0 /\ (\A k \in 1..n + 1 : wal[k] = 10 * wal[k - 1] + es[k])
          /\ Value(es) = wal[n + 1]
  <2>. HIDE DEF es, n
  <2>. QED
    BY <1>1, ValueRule
<1>. HIDE DEF es, n
<1>. DEFINE T == {k \in Nat : k <= n => wal[k] = val[k]}
<1>4. 0 \in T
  BY <1>2, <1>3
<1>5. ASSUME NEW k \in Nat, k \in T PROVE k + 1 \in T
  <2>1. ASSUME k + 1 <= n PROVE wal[k + 1] = val[k + 1]
    <3>1. k + 1 \in 1..n /\ k + 1 \in 1..n + 1 /\ (k + 1) - 1 = k /\ wal[k] = val[k]
      BY <1>1, <1>5, <2>1
    <3>2. wal[k + 1] = 10 * wal[k] + es[k + 1] /\ val[k + 1] = 10 * val[k] + ds[k + 1]
      BY <1>2, <1>3, <3>1
    <3>. QED
      BY <1>1, <3>1, <3>2
  <2>. QED
    BY <2>1
<1>6. n \in T
  <2>. HIDE DEF T
  <2>. QED
    BY <1>1, <1>4, <1>5, FromZero
<1>7. wal[n + 1] = 10 * wal[n] + d
  <2>1. n + 1 \in 1..n + 1 /\ (n + 1) - 1 = n
    BY <1>1
  <2>. QED
    BY <1>1, <1>3, <2>1
<1>8. val[n] \in Nat /\ wal[n] = val[n]
  BY <1>1, <1>2, <1>6
<1>9. Value(ds) = val[n] /\ Value(es) = wal[n + 1]
  BY <1>2, <1>3
<1>. QED
  BY <1>7, <1>8, <1>9 DEF es

-----------------------------------------------------------------------------
(***************************************************************************)
(* Amounts.                                                                *)
(***************************************************************************)

\* Powers multiply when their exponents add up.
LEMMA PowerSum ==
    ASSUME NEW b \in Nat, b > 0, NEW m \in Nat, NEW n \in Nat
    PROVE  Power(b, m + n) = Power(b, m) * Power(b, n)
<1>. DEFINE T == {k \in Nat : Power(b, m + k) = Power(b, m) * Power(b, k)}
<1>1. 0 \in T
  <2>1. Power(b, m) \in Nat /\ Power(b, 0) = 1 /\ m + 0 = m
    BY PowerRule
  <2>. QED
    BY <2>1
<1>2. ASSUME NEW k \in Nat, k \in T PROVE k + 1 \in T
  <2>. DEFINE p == Power(b, m)
              q == Power(b, k)
  <2>1. p \in Nat /\ q \in Nat /\ Power(b, k + 1) = b * q
    BY PowerRule
  <2>2. Power(b, m + (k + 1)) = b * Power(b, m + k)
    <3>1. m + (k + 1) = (m + k) + 1 /\ m + k \in Nat
      OBVIOUS
    <3>. QED
      BY <3>1, PowerRule
  <2>3. Power(b, m + k) = p * q
    BY <1>2
  <2>. HIDE DEF p, q
  <2>4. b * (p * q) = p * (b * q)
    BY <2>1
  <2>. QED
    BY <2>1, <2>2, <2>3, <2>4 DEF p
<1>3. n \in T
  <2>. HIDE DEF T
  <2>. QED
    BY <1>1, <1>2, FromZero
<1>. QED
  BY <1>3

\* The powers of ten.
LEMMA TenPowers ==
    /\ Power(10, 0) = 1
    /\ \A n \in Nat : Power(10, n) \in Nat /\ Power(10, n) > 0 /\ Power(10, n + 1) = 10 * Power(10, n)
<1>1. 10 \in Nat /\ 10 > 0
  OBVIOUS
<1>. QED
  BY <1>1, PowerRule

\* Zeros at the end multiply by ten.
LEMMA ValueZeros ==
    ASSUME NEW ds \in Seq(Nat), NEW n \in Nat
    PROVE  Value(ds \o Zeros(n)) = Value(ds) * Power(10, n)
<1>. DEFINE T == {k \in Nat : Value(ds \o Zeros(k)) = Value(ds) * Power(10, k)}
<1>0. Value(ds) \in Nat
  BY ValueAppend
<1>1. 0 \in T
  <2>1. Zeros(0) = <<>> /\ ds \o <<>> = ds
    BY DEF Zeros
  <2>2. ds \o Zeros(0) = ds
    BY <2>1, Zenon
  <2>3. Value(ds) * Power(10, 0) = Value(ds)
    BY <1>0, TenPowers
  <2>4. Value(ds \o Zeros(0)) = Value(ds)
    BY <2>2, Zenon
  <2>. QED
    BY <2>3, <2>4, Zenon
<1>2. ASSUME NEW k \in Nat, k \in T PROVE k + 1 \in T
  <2>. DEFINE es == ds \o Zeros(k)
  <2>1. Zeros(k) \in Seq(Nat) /\ Len(Zeros(k)) = k
    BY DEF Zeros
  <2>2. es \in Seq(Nat)
    BY <2>1
  <2>3. ds \o Zeros(k + 1) = Append(es, 0)
    BY <2>1 DEF Zeros
  <2>4. Value(Append(es, 0)) = 10 * Value(es) + 0 /\ Value(es) \in Nat
    <3>. HIDE DEF es
    <3>1. 0 \in Nat
      OBVIOUS
    <3>. QED
      BY <2>2, <3>1, ValueAppend
  <2>5. Value(es) = Value(ds) * Power(10, k)
    BY <1>2
  <2>6. Power(10, k) \in Nat /\ Power(10, k + 1) = 10 * Power(10, k)
    BY TenPowers
  <2>. HIDE DEF es
  <2>7. 10 * (Value(ds) * Power(10, k)) = Value(ds) * (10 * Power(10, k))
    BY <1>0, <2>6
  <2>8. Value(Append(es, 0)) = Value(ds) * Power(10, k + 1)
    BY <2>4, <2>5, <2>6, <2>7
  <2>9. k + 1 \in Nat
    OBVIOUS
  <2>. QED
    BY <2>3, <2>8, <2>9, Zenon
<1>3. n \in T
  <2>. HIDE DEF T
  <2>. QED
    BY <1>1, <1>2, FromZero
<1>. QED
  BY <1>3

\* The digits shown, up to the k-th, are the quotient by what is left to show.
LEMMA DigitsShown ==
    ASSUME NEW v \in Nat, NEW k \in 0..Decimals
    PROVE  LET digits == [u \in 1..Decimals |-> (v \div Power(10, Decimals - u)) % 10]
           IN  /\ digits \in Seq(0..9)
               /\ (v \div Power(10, Decimals)) * Power(10, k) + Value(SubSeq(digits, 1, k))
                     = v \div Power(10, Decimals - k)
<1>. DEFINE D == Decimals
            digits == [u \in 1..D |-> (v \div Power(10, D - u)) % 10]
            w == v \div Power(10, D)
            Shown1(j) == w * Power(10, j) + Value(SubSeq(digits, 1, j)) = v \div Power(10, D - j)
            T == {j \in Nat : j <= D => Shown1(j)}
<1>0. D \in Nat
  BY FormatAssumption
<1>1. \A j \in 0..D : Power(10, D - j) \in Nat /\ Power(10, D - j) > 0 /\ v \div Power(10, D - j) \in Nat
  <2>1. ASSUME NEW j \in 0..D
        PROVE  Power(10, D - j) \in Nat /\ Power(10, D - j) > 0 /\ v \div Power(10, D - j) \in Nat
    <3>1. D - j \in Nat
      BY <1>0
    <3>2. Power(10, D - j) \in Nat /\ Power(10, D - j) > 0
      BY <3>1, TenPowers
    <3>. QED
      BY <3>2, Division
  <2>. QED
    BY <2>1
<1>2. digits \in Seq(0..9) /\ digits \in Seq(Nat) /\ Len(digits) = D
  <2>1. ASSUME NEW u \in 1..D PROVE (v \div Power(10, D - u)) % 10 \in 0..9
    <3>1. v \div Power(10, D - u) \in Nat
      BY <1>0, <1>1
    <3>. QED
      BY <3>1
  <2>2. digits \in [1..D -> 0..9]
    BY <2>1
  <2>. HIDE DEF digits
  <2>. QED
    BY <1>0, <2>2
<1>3. 0 \in T
  <2>1. SubSeq(digits, 1, 0) = <<>> /\ Power(10, 0) = 1 /\ D - 0 = D
    BY <1>0, <1>2, TenPowers
  <2>2. w \in Nat
    BY <1>0, <1>1, <2>1
  <2>3. Shown1(0)
    <3>. HIDE DEF w, digits
    <3>1. w * 1 + 0 = w
      BY <2>2
    <3>. QED
      BY <2>1, <3>1, NoDigits DEF w
  <2>. QED
    BY <2>3
<1>4. ASSUME NEW j \in Nat, j \in T PROVE j + 1 \in T
  <2>1. ASSUME j + 1 <= D PROVE Shown1(j + 1)
    <3>. DEFINE q == v \div Power(10, D - j)
                p == v \div Power(10, D - (j + 1))
                head == SubSeq(digits, 1, j)
    <3>1. j \in 0..D /\ j + 1 \in 1..D /\ Shown1(j)
      BY <1>0, <1>4, <2>1
    <3>2. q \in Nat /\ p \in Nat
      <4>1. j + 1 \in 0..D
        BY <1>0, <3>1
      <4>. QED
        BY <1>1, <3>1, <4>1
    <3>3. q = p \div 10
      <4>1. D - (j + 1) \in Nat /\ (D - (j + 1)) + 1 = D - j
        BY <1>0, <3>1
      <4>2. Power(10, D - j) = 10 * Power(10, D - (j + 1))
        BY <4>1, TenPowers
      <4>3. Power(10, D - (j + 1)) \in Nat /\ Power(10, D - (j + 1)) > 0
        BY <4>1, TenPowers
      <4>. QED
        BY <4>2, <4>3, DivideTwice
    <3>4. SubSeq(digits, 1, j + 1) = Append(head, digits[j + 1]) /\ head \in Seq(Nat)
      <4>. HIDE DEF digits
      <4>. QED
        BY <1>0, <1>2, <3>1
    <3>5. digits[j + 1] = p % 10
      BY <3>1
    <3>6. p % 10 \in Nat /\ p = 10 * q + (p % 10)
      BY <3>2, <3>3
    <3>7. Value(SubSeq(digits, 1, j + 1)) = 10 * Value(head) + (p % 10) /\ Value(head) \in Nat
      BY <3>4, <3>5, <3>6, ValueAppend
    <3>8. Power(10, j) \in Nat /\ Power(10, j + 1) = 10 * Power(10, j) /\ w \in Nat
      <4>1. 0 \in 0..D /\ D - 0 = D
        BY <1>0
      <4>. QED
        BY <1>1, <4>1, TenPowers
    <3>9. w * Power(10, j) + Value(head) = q
      BY <3>1
    <3>. HIDE DEF q, p, head, w, digits
    <3>10. w * (10 * Power(10, j)) = 10 * (w * Power(10, j)) /\ w * Power(10, j) \in Nat
      BY <3>8
    <3>11. w * Power(10, j + 1) + Value(SubSeq(digits, 1, j + 1)) = p
      BY <3>2, <3>6, <3>7, <3>8, <3>9, <3>10
    <3>. QED
      BY <3>11 DEF p
  <2>. QED
    BY <2>1
<1>5. k \in T
  <2>. HIDE DEF T
  <2>. QED
    BY <1>3, <1>4, FromZero
<1>. QED
  BY <1>0, <1>2, <1>5

\* What is shown of the digits, padded, is the digits.
LEMMA PaddedAgain ==
    ASSUME NEW ds \in Seq(0..9)
    PROVE  /\ NoTrailingZeros(ds) \in Seq(0..9) /\ Len(NoTrailingZeros(ds)) <= Len(ds)
           /\ PadEnd(NoTrailingZeros(ds), Len(ds)) = ds
<1>. DEFINE n == Len(ds)
            Last1(m) == (m > 0 => ds[m] # 0) /\ \A u \in m + 1..n : ds[u] = 0
            last == CHOOSE m \in 0..n : Last1(m)
            AllZeros == {m \in Nat : \A u \in m + 1..n : ds[u] = 0}
<1>1. n \in Nat /\ \A u \in 1..n : ds[u] \in 0..9
  OBVIOUS
<1>2. \E m \in 0..n : Last1(m)
  <2>1. n \in AllZeros
    BY <1>1
  <2>2. PICK m \in AllZeros : \A k \in AllZeros : m <= k
    <3>. HIDE DEF AllZeros
    <3>1. AllZeros \in SUBSET Nat
      BY DEF AllZeros
    <3>. QED
      BY <2>1, <3>1, LeastNatural
  <2>3. m \in 0..n /\ \A u \in m + 1..n : ds[u] = 0
    BY <1>1, <2>1, <2>2
  <2>4. m > 0 => ds[m] # 0
    <3>1. SUFFICES ASSUME m > 0, ds[m] = 0 PROVE FALSE
      OBVIOUS
    <3>2. m - 1 \in Nat /\ (m - 1) + 1 = m
      BY <2>3, <3>1
    <3>3. \A u \in m..n : ds[u] = 0
      BY <2>3, <3>1
    <3>4. m - 1 \in AllZeros
      BY <3>2, <3>3
    <3>. QED
      BY <2>2, <2>3, <3>4
  <2>. QED
    BY <2>3, <2>4
<1>3. last \in 0..n /\ Last1(last)
  <2>. HIDE DEF Last1
  <2>. QED
    BY <1>2
<1>4. NoTrailingZeros(ds) = SubSeq(ds, 1, last)
  BY DEF NoTrailingZeros
<1>. HIDE DEF last
<1>. DEFINE head == SubSeq(ds, 1, last)
<1>5. head \in Seq(0..9) /\ Len(head) = last /\ \A u \in 1..last : head[u] = ds[u]
  BY <1>1, <1>3
<1>6. PadEnd(head, n) = ds
  <2>. HIDE DEF head
  <2>1. Zeros(n - last) \in Seq(0..9) /\ Len(Zeros(n - last)) = n - last
    BY <1>1, <1>3 DEF Zeros
  <2>2. \A u \in 1..(n - last) : Zeros(n - last)[u] = 0
    BY DEF Zeros
  <2>. DEFINE z == Zeros(n - last)
  <2>3. Len(head \o z) = n /\ head \o z \in Seq(0..9)
    <3>. HIDE DEF z
    <3>1. z \in Seq(0..9) /\ Len(z) = n - last
      BY <2>1 DEF z
    <3>2. head \o z \in Seq(0..9) /\ Len(head \o z) = Len(head) + Len(z)
      BY <1>5, <3>1, ConcatProperties
    <3>3. last + (n - last) = n
      BY <1>1, <1>3
    <3>. QED
      BY <1>5, <3>1, <3>2, <3>3
  <2>4. ASSUME NEW u \in 1..n PROVE (head \o z)[u] = ds[u]
    <3>1. CASE u <= last
      <4>. HIDE DEF z
      <4>1. z \in Seq(0..9) /\ u \in 1..last
        BY <2>1, <3>1 DEF z
      <4>2. (head \o z)[u] = head[u]
        BY <1>5, <4>1
      <4>. QED
        BY <1>5, <4>1, <4>2
    <3>2. CASE u > last
      <4>1. u \in last + 1..n /\ u - last \in 1..(n - last)
        BY <1>1, <1>3, <3>2
      <4>2. ds[u] = 0 /\ z[u - last] = 0
        BY <1>3, <2>2, <4>1
      <4>. HIDE DEF z
      <4>3. z \in Seq(0..9) /\ Len(z) = n - last
        BY <2>1 DEF z
      <4>4. (head \o z)[u] = z[u - last]
        BY <1>1, <1>3, <1>5, <3>2, <4>1, <4>3
      <4>. QED
        BY <4>2, <4>4
    <3>3. u <= last \/ u > last
      BY <1>1, <1>3
    <3>. QED
      BY <3>1, <3>2, <3>3, Zenon
  <2>. HIDE DEF z
  <2>5. head \o z = ds
    BY <2>3, <2>4, SeqEqual
  <2>. QED
    BY <1>5, <2>5 DEF PadEnd, z
<1>. QED
  BY <1>3, <1>4, <1>5, <1>6

\* What is typed is worth what it says.
LEMMA Typing ==
    ASSUME NEW t \in [whole : Nat, frac : Seq(0..9)], Len(t.frac) <= Decimals
    PROVE  LET digits == t.frac
           IN  /\ t.whole * Power(10, Decimals) + Value(PadEnd(digits, Decimals))
                     = (t.whole * Power(10, Len(digits)) + Value(digits)) * Power(10, Decimals - Len(digits))
<1>. DEFINE digits == t.frac
            D == Decimals
            m == Len(digits)
            w == t.whole
            v == Value(digits)
            p == Power(10, m)
            q == Power(10, D - m)
<1>1. D \in Nat /\ digits \in Seq(Nat) /\ m \in Nat /\ D - m \in Nat /\ m + (D - m) = D /\ w \in Nat
  BY FormatAssumption
<1>2. v \in Nat /\ p \in Nat /\ q \in Nat
  <2>. HIDE DEF digits, D, m
  <2>1. v \in Nat
    BY <1>1, ValueAppend
  <2>. QED
    BY <1>1, <2>1, TenPowers
<1>3. Power(10, D) = p * q
  <2>1. 10 \in Nat /\ 10 > 0
    OBVIOUS
  <2>. HIDE DEF digits, D, m
  <2>2. Power(10, m + (D - m)) = p * q
    BY <1>1, <2>1, PowerSum
  <2>. QED
    BY <1>1, <2>2, Zenon
<1>4. Value(PadEnd(digits, D)) = v * q
  <2>. HIDE DEF digits, D
  <2>. QED
    BY <1>1, ValueZeros DEF PadEnd
<1>5. w * (p * q) + v * q = (w * p + v) * q
  <2>. HIDE DEF w, p, q, v
  <2>. QED
    BY <1>1, <1>2
<1>. QED
  BY <1>3, <1>4, <1>5

\* An amount shown and typed again.
LEMMA ShownAgain ==
    ASSUME NEW v \in Nat
    PROVE  LET t == FormatAmount(v)
           IN  ParseAmount(t.whole, t.frac) = IF Encodable(v) THEN v ELSE Refused
<1>. DEFINE D == Decimals
            digits == [u \in 1..D |-> (v \div Power(10, D - u)) % 10]
            w == v \div Power(10, D)
<1>1. D \in Nat /\ D \in 0..D /\ D - D = 0
  BY FormatAssumption
<1>2. digits \in Seq(0..9) /\ w * Power(10, D) + Value(SubSeq(digits, 1, D)) = v \div Power(10, D - D)
  BY <1>1, DigitsShown
<1>3. Len(digits) = D
  BY <1>1
<1>. DEFINE frac == NoTrailingZeros(digits)
<1>. HIDE DEF digits
<1>4. SubSeq(digits, 1, D) = digits
  BY <1>2, <1>3
<1>5. w * Power(10, D) + Value(digits) = v
  <2>1. Power(10, D - D) = 1
    BY <1>1, TenPowers
  <2>2. v \div 1 = v
    OBVIOUS
  <2>. HIDE DEF w
  <2>. QED
    BY <1>2, <1>4, <2>1, <2>2
<1>6. PadEnd(frac, D) = digits /\ frac \in Seq(0..9) /\ Len(frac) <= D
  BY <1>2, <1>3, PaddedAgain
<1>7. FormatAmount(v) = [whole |-> w, frac |-> frac]
  BY DEF FormatAmount, digits
<1>8. ParseAmount(w, frac) = IF Encodable(v) THEN v ELSE Refused
  <2>. HIDE DEF w, frac
  <2>1. ~(Len(frac) > D)
    BY <1>1, <1>6
  <2>. QED
    BY <1>5, <1>6, <2>1 DEF ParseAmount
<1>. QED
  BY <1>7, <1>8

\* Amounts survive being shown and typed.
THEOREM AmountsHold == MessageSpec => []AmountsRoundTrip
<1>1. MessageInit => AmountsRoundTrip
  BY DEF MessageInit, NoUse, AmountsRoundTrip
<1>2. AmountsRoundTrip /\ [MessageNext]_use => AmountsRoundTrip'
  <2>. SUFFICES ASSUME AmountsRoundTrip, [MessageNext]_use PROVE AmountsRoundTrip'
    OBVIOUS
  <2>1. ASSUME NEW c \in Clients, NEW req \in Requests, Spend(c, req) PROVE AmountsRoundTrip'
    BY <2>1 DEF Spend, AmountsRoundTrip
  <2>2. ASSUME NEW e \in DOMAIN VaultError, Explain(e) PROVE AmountsRoundTrip'
    BY <2>2 DEF Explain, AmountsRoundTrip
  <2>3. ASSUME NEW t \in Typed, Enter(t) PROVE AmountsRoundTrip'
    <3>. DEFINE digits == t.frac
                worth == (t.whole * Power(10, Len(digits)) + Value(digits)) * Power(10, Decimals - Len(digits))
    <3>1. t \in [whole : Nat, frac : Seq(0..9)]
      BY AmountsAssumption
    <3>2. Len(digits) <= Decimals => t.whole * Power(10, Decimals) + Value(PadEnd(digits, Decimals)) = worth
      BY <3>1, Typing
    <3>3. Len(digits) <= Decimals <=> ~(Len(digits) > Decimals)
      BY <3>1, FormatAssumption
    <3>4. use' = [of |-> "enter", text |-> t, amount |-> ParseAmount(t.whole, t.frac)]
      BY <2>3 DEF Enter
    <3>5. ParseAmount(t.whole, t.frac) = IF Len(digits) <= Decimals /\ Encodable(worth) THEN worth ELSE Refused
      <4>. HIDE DEF worth
      <4>. QED
        BY <3>2, <3>3, Zenon DEF ParseAmount
    <3>. QED
      BY <3>4, <3>5 DEF AmountsRoundTrip
  <2>4. ASSUME NEW v \in Shown, Display(v) PROVE AmountsRoundTrip'
    <3>1. v \in Nat
      BY AmountsAssumption
    <3>. DEFINE t == FormatAmount(v)
    <3>2. ParseAmount(t.whole, t.frac) = IF Encodable(v) THEN v ELSE Refused
      BY <3>1, ShownAgain
    <3>3. use' = [of |-> "display", amount |-> v, again |-> ParseAmount(t.whole, t.frac)]
      BY <2>4 DEF Display
    <3>. HIDE DEF t
    <3>. QED
      BY <3>2, <3>3 DEF AmountsRoundTrip
  <2>5. ASSUME NEW entries \in Lists, NEW zeros \in Paddings, Scan(entries, zeros) PROVE AmountsRoundTrip'
    BY <2>5 DEF Scan, AmountsRoundTrip
  <2>6. CASE UNCHANGED use
    BY <2>6 DEF AmountsRoundTrip
  <2>. QED
    BY <2>1, <2>2, <2>3, <2>4, <2>5, <2>6 DEF MessageNext
<1>. QED
  BY <1>1, <1>2, PTL DEF MessageSpec

-----------------------------------------------------------------------------
(***************************************************************************)
(* Sequences joined.                                                       *)
(***************************************************************************)

\* fl joins the sequences one after the other.
Joins(fl, seqs) == fl[0] = <<>> /\ \A k \in 1..Len(seqs) : fl[k] = fl[k - 1] \o seqs[k]

\* FlattenSeq() joins them.
LEMMA Flattened ==
    ASSUME NEW S, NEW seqs \in Seq(Seq(S))
    PROVE  \E fl \in [Nat -> Seq(S)] : Joins(fl, seqs) /\ FlattenSeq(seqs) = fl[Len(seqs)]
<1>. DEFINE n == Len(seqs)
            F == [k \in Nat |-> [x \in Seq(S) |-> IF k \in 1..n THEN x \o seqs[k] ELSE x]]
            Is(f) == f = [u \in 1..n |-> IF u = 1 THEN seqs[u] ELSE f[u - 1] \o seqs[u]]
<1>1. n \in Nat /\ \A k \in 1..n : seqs[k] \in Seq(S)
  OBVIOUS
<1>2. F \in [Nat -> [Seq(S) -> Seq(S)]]
  <2>1. ASSUME NEW k \in Nat, NEW x \in Seq(S)
        PROVE  (IF k \in 1..n THEN x \o seqs[k] ELSE x) \in Seq(S)
    <3>1. CASE k \in 1..n
      <4>1. seqs[k] \in Seq(S)
        BY <1>1, <3>1
      <4>. QED
        BY <3>1, <4>1, ConcatProperties
    <3>2. CASE k \notin 1..n
      BY <3>2
    <3>. QED
      BY <3>1, <3>2
  <2>. HIDE DEF n
  <2>. QED
    BY <2>1
<1>3. PICK fl \in [Nat -> Seq(S)] : Iterated(fl, <<>>, F)
  <2>. HIDE DEF F
  <2>1. <<>> \in Seq(S)
    OBVIOUS
  <2>. QED
    BY <1>2, <2>1, Iteration
<1>4. fl[0] = <<>> /\ \A k \in 1..n : fl[k] = fl[k - 1] \o seqs[k]
  <2>1. ASSUME NEW k \in 1..n PROVE fl[k] = fl[k - 1] \o seqs[k]
    <3>1. k \in Nat /\ k - 1 \in Nat /\ (k - 1) + 1 = k
      BY <1>1
    <3>2. fl[k] = F[k][fl[k - 1]]
      <4>. HIDE DEF F
      <4>. QED
        BY <1>3, <3>1 DEF Iterated
    <3>3. fl[k - 1] \in Seq(S)
      BY <1>3, <3>1
    <3>4. F[k][fl[k - 1]] = fl[k - 1] \o seqs[k]
      <4>. HIDE DEF n
      <4>. QED
        BY <3>1, <3>3
    <3>. QED
      BY <3>2, <3>4, Zenon
  <2>2. fl[0] = <<>>
    <3>. HIDE DEF F
    <3>. QED
      BY <1>3 DEF Iterated
  <2>. QED
    BY <2>1, <2>2
<1>5. Joins(fl, seqs)
  BY <1>4 DEF Joins
<1>6. CASE n = 0
  <2>1. seqs = <<>>
    BY <1>6
  <2>. QED
    BY <1>4, <1>5, <1>6, <2>1 DEF FlattenSeq
<1>7. CASE n # 0
  <2>. DEFINE f == [u \in 1..n |-> fl[u]]
  <2>1. Is(f)
    <3>1. ASSUME NEW u \in 1..n PROVE fl[u] = IF u = 1 THEN seqs[u] ELSE f[u - 1] \o seqs[u]
      <4>1. CASE u = 1
        <5>1. 1 \in 1..n /\ 1 - 1 = 0
          BY <4>1
        <5>2. seqs[1] \in Seq(S) /\ fl[1] = <<>> \o seqs[1]
          BY <1>1, <1>4, <5>1
        <5>3. <<>> \o seqs[1] = seqs[1]
          BY <5>2, ConcatEmptySeq
        <5>. QED
          BY <4>1, <5>2, <5>3, Zenon
      <4>2. CASE u # 1
        <5>1. u - 1 \in 1..n
          BY <1>1, <4>2
        <5>2. f[u - 1] = fl[u - 1]
          BY <5>1
        <5>. QED
          BY <1>4, <4>2, <5>2, Zenon
      <4>. QED
        BY <4>1, <4>2
    <3>. HIDE DEF n
    <3>2. f = [u \in 1..n |-> IF u = 1 THEN seqs[u] ELSE f[u - 1] \o seqs[u]]
      BY <3>1, Zenon
    <3>. QED
      BY <3>2
  <2>. DEFINE flatten == CHOOSE e : Is(e)
  <2>2. Is(flatten)
    <3>. HIDE DEF Is, f
    <3>. QED
      BY <2>1
  <2>3. FlattenSeq(seqs) = flatten[n]
    BY <1>7, Zenon DEF FlattenSeq
  <2>. HIDE DEF flatten
  <2>4. \A u \in 1..n : flatten[u] = IF u = 1 THEN seqs[u] ELSE flatten[u - 1] \o seqs[u]
    <3>. HIDE DEF n
    <3>. QED
      BY <2>2, Zenon
  <2>. DEFINE T == {u \in Nat : u + 1 \in 1..n => flatten[u + 1] = fl[u + 1]}
  <2>. HIDE DEF f, F, n
  <2>5. 0 \in T
    <3>1. 1 \in 1..n /\ 0 + 1 = 1 /\ 1 - 1 = 0
      BY <1>1, <1>7
    <3>2. seqs[1] \in Seq(S) /\ fl[1] = <<>> \o seqs[1]
      BY <1>1, <1>4, <3>1
    <3>3. <<>> \o seqs[1] = seqs[1]
      BY <3>2, ConcatEmptySeq
    <3>4. flatten[1] = seqs[1]
      BY <2>4, <3>1
    <3>. QED
      BY <3>1, <3>2, <3>3, <3>4
  <2>6. ASSUME NEW u \in Nat, u \in T PROVE u + 1 \in T
    <3>1. ASSUME (u + 1) + 1 \in 1..n PROVE flatten[(u + 1) + 1] = fl[(u + 1) + 1]
      <4>. DEFINE j == (u + 1) + 1
      <4>1. j \in 1..n /\ u + 1 \in 1..n /\ j - 1 = u + 1 /\ j # 1 /\ flatten[u + 1] = fl[u + 1]
        BY <1>1, <2>6, <3>1
      <4>. HIDE DEF j
      <4>2. flatten[j] = flatten[j - 1] \o seqs[j] /\ fl[j] = fl[j - 1] \o seqs[j]
        BY <1>4, <2>4, <4>1
      <4>3. flatten[j] = fl[j]
        BY <4>1, <4>2
      <4>. QED
        BY <4>3 DEF j
    <3>. QED
      BY <3>1
  <2>7. n - 1 \in T
    <3>1. n - 1 \in Nat
      BY <1>1, <1>7
    <3>. HIDE DEF T
    <3>. QED
      BY <2>5, <2>6, <3>1, FromZero
  <2>8. flatten[n] = fl[n]
    <3>1. (n - 1) + 1 = n /\ n \in 1..n
      BY <1>1, <1>7
    <3>. QED
      BY <2>7, <3>1
  <2>. QED
    BY <1>3, <1>5, <2>3, <2>8 DEF n
<1>. QED
  BY <1>6, <1>7

\* The k-th of the sequences ends at place at[k] of the whole.
Placed(at, seqs) ==
    LET whole == FlattenSeq(seqs)
    IN  /\ at[0] = 0 /\ at[Len(seqs)] = Len(whole)
        /\ \A k \in 1..Len(seqs) :
            /\ at[k] = at[k - 1] + Len(seqs[k]) /\ at[k] <= Len(whole)
            /\ \A u \in 1..Len(seqs[k]) : whole[at[k - 1] + u] = seqs[k][u]

\* Each of the sequences is found in its place.
LEMMA Pieces ==
    ASSUME NEW S, NEW seqs \in Seq(Seq(S))
    PROVE  FlattenSeq(seqs) \in Seq(S) /\ \E at \in [0..Len(seqs) -> Nat] : Placed(at, seqs)
<1>. DEFINE n == Len(seqs)
<1>1. PICK fl \in [Nat -> Seq(S)] : Joins(fl, seqs) /\ FlattenSeq(seqs) = fl[Len(seqs)]
  BY Flattened
<1>2. n \in Nat /\ \A k \in 1..n : seqs[k] \in Seq(S) /\ Len(seqs[k]) \in Nat
  OBVIOUS
<1>3. fl[0] = <<>> /\ \A k \in 1..n : fl[k] = fl[k - 1] \o seqs[k]
  BY <1>1 DEF Joins
<1>4. \A k \in Nat : fl[k] \in Seq(S) /\ Len(fl[k]) \in Nat
  BY <1>1
<1>. DEFINE at == [k \in 0..n |-> Len(fl[k])]
<1>5. ASSUME NEW k \in 1..n
      PROVE  /\ Len(fl[k]) = Len(fl[k - 1]) + Len(seqs[k])
             /\ \A u \in 1..Len(fl[k - 1]) : fl[k][u] = fl[k - 1][u]
             /\ \A u \in 1..Len(seqs[k]) : fl[k][Len(fl[k - 1]) + u] = seqs[k][u]
  <2>. DEFINE s == fl[k - 1]
              t == seqs[k]
  <2>1. k - 1 \in Nat
    BY <1>2
  <2>2. s \in Seq(S) /\ t \in Seq(S) /\ fl[k] = s \o t
    BY <1>2, <1>3, <1>4, <2>1
  <2>. HIDE DEF s, t
  <2>3. /\ Len(s \o t) = Len(s) + Len(t)
        /\ \A u \in 1..Len(s) + Len(t) : (s \o t)[u] = IF u <= Len(s) THEN s[u] ELSE t[u - Len(s)]
    BY <2>2, ConcatProperties
  <2>4. Len(s) \in Nat /\ Len(t) \in Nat
    BY <2>2, LenProperties
  <2>5. ASSUME NEW u \in 1..Len(s) PROVE (s \o t)[u] = s[u]
    BY <2>3, <2>4
  <2>6. ASSUME NEW u \in 1..Len(t) PROVE (s \o t)[Len(s) + u] = t[u]
    <3>1. \A m, p \in Nat : \A q \in 1..p : m + q \in 1..m + p /\ ~(m + q <= m) /\ (m + q) - m = q
      OBVIOUS
    <3>2. Len(s) + u \in 1..Len(s) + Len(t) /\ ~(Len(s) + u <= Len(s)) /\ (Len(s) + u) - Len(s) = u
      BY <2>4, <3>1
    <3>. QED
      BY <2>3, <3>2
  <2>. QED
    BY <2>2, <2>3, <2>5, <2>6 DEF s, t
<1>6. ASSUME NEW k \in 0..n
      PROVE  Len(fl[k]) <= Len(fl[n]) /\ \A u \in 1..Len(fl[k]) : fl[n][u] = fl[k][u]
  <2>. DEFINE Same(j) == Len(fl[k]) <= Len(fl[k + j]) /\ \A u \in 1..Len(fl[k]) : fl[k + j][u] = fl[k][u]
              T == {j \in Nat : k + j <= n => Same(j)}
  <2>1. 0 \in T
    <3>1. k + 0 = k /\ Len(fl[k]) <= Len(fl[k])
      BY <1>2, <1>4
    <3>. QED
      BY <3>1
  <2>2. ASSUME NEW j \in Nat, j \in T PROVE j + 1 \in T
    <3>1. ASSUME k + (j + 1) <= n PROVE Same(j + 1)
      <4>. DEFINE m == k + (j + 1)
      <4>1. m \in 1..n /\ m - 1 = k + j /\ k + j <= n /\ m - 1 \in Nat
        BY <1>2, <3>1
      <4>2. Same(j)
        BY <2>2, <4>1
      <4>. HIDE DEF m
      <4>3. Len(fl[m]) = Len(fl[m - 1]) + Len(seqs[m]) /\ Len(seqs[m]) \in Nat /\ Len(fl[m - 1]) \in Nat
        BY <1>2, <1>4, <1>5, <4>1, Zenon
      <4>4. \A u \in 1..Len(fl[m - 1]) : fl[m][u] = fl[m - 1][u]
        BY <1>5, <4>1
      <4>5. Len(fl[k]) <= Len(fl[m - 1]) /\ \A u \in 1..Len(fl[k]) : fl[m - 1][u] = fl[k][u]
        BY <4>1, <4>2
      <4>6. Len(fl[k]) \in Nat
        BY <1>2, <1>4
      <4>7. Len(fl[k]) <= Len(fl[m]) /\ \A u \in 1..Len(fl[k]) : fl[m][u] = fl[k][u]
        <5>1. \A a, b, c, d \in Nat : a <= b /\ c = b + d => a <= c /\ 1..a \subseteq 1..b
          OBVIOUS
        <5>2. Len(fl[k]) <= Len(fl[m]) /\ 1..Len(fl[k]) \subseteq 1..Len(fl[m - 1])
          <6>1. Len(fl[m]) \in Nat
            <7>1. m \in Nat
              BY <1>2, <4>1
            <7>. QED
              BY <1>4, <7>1
          <6>. QED
            BY <4>3, <4>5, <4>6, <5>1, <6>1
        <5>. QED
          BY <4>4, <4>5, <5>2, Zenon
      <4>. QED
        BY <4>7 DEF m
    <3>. QED
      BY <3>1
  <2>3. n - k \in T
    <3>1. n - k \in Nat
      BY <1>2
    <3>. HIDE DEF T
    <3>. QED
      BY <2>1, <2>2, <3>1, FromZero
  <2>4. k + (n - k) = n /\ n <= n
    BY <1>2
  <2>. QED
    BY <2>3, <2>4
<1>7. FlattenSeq(seqs) \in Seq(S) /\ at \in [0..n -> Nat]
  BY <1>1, <1>2, <1>4
<1>8. at[0] = 0 /\ at[n] = Len(fl[n])
  BY <1>2, <1>3
<1>9. ASSUME NEW k \in 1..n
      PROVE  /\ at[k] = at[k - 1] + Len(seqs[k]) /\ at[k] <= Len(fl[n])
             /\ \A u \in 1..Len(seqs[k]) : fl[n][at[k - 1] + u] = seqs[k][u]
  <2>1. k \in 0..n /\ k - 1 \in 0..n /\ k - 1 \in Nat
    BY <1>2
  <2>2. at[k] = Len(fl[k]) /\ at[k - 1] = Len(fl[k - 1])
    BY <2>1
  <2>3. at[k] = at[k - 1] + Len(seqs[k]) /\ at[k] <= Len(fl[n])
    BY <1>5, <1>6, <2>1, <2>2
  <2>4. ASSUME NEW u \in 1..Len(seqs[k]) PROVE fl[n][at[k - 1] + u] = seqs[k][u]
    <3>1. fl[k][Len(fl[k - 1]) + u] = seqs[k][u]
      BY <1>5
    <3>2. Len(fl[k - 1]) + u \in 1..Len(fl[k])
      <4>1. Len(fl[k - 1]) \in Nat /\ Len(seqs[k]) \in Nat /\ Len(fl[k]) = Len(fl[k - 1]) + Len(seqs[k])
        BY <1>2, <1>4, <1>5, <2>1, Zenon
      <4>2. \A m, p \in Nat : \A q \in 1..p : m + q \in 1..m + p
        OBVIOUS
      <4>. QED
        BY <4>1, <4>2
    <3>. QED
      BY <1>6, <2>1, <2>2, <3>1, <3>2
  <2>. QED
    BY <2>3, <2>4
<1>10. Placed(at, seqs)
  <2>. HIDE DEF at
  <2>. QED
    BY <1>1, <1>8, <1>9 DEF Placed
<1>. QED
  BY <1>7, <1>10

-----------------------------------------------------------------------------
(***************************************************************************)
(* The memo flag of a token account.                                       *)
(***************************************************************************)

\* The loop of requiresMemo(), step by step.
Scans(scan, d) ==
    \A u \in Nat \ {0} :
        scan[u] = IF u + 3 > Len(d) THEN FALSE
                  ELSE IF U16(d, u) = MemoTransfer THEN U16(d, u + 2) >= 1 /\ u + 4 <= Len(d) /\ d[u + 4] = 1
                  ELSE IF U16(d, u) = 0 THEN FALSE
                  ELSE scan[NextEntry(u, U16(d, u + 2))]

\* The loop ends, and requiresMemo() answers what it answers from the first byte.
LEMMA ScanEnds ==
    ASSUME NEW d \in Seq(Nat)
    PROVE  \E scan : Scans(scan, d) /\ RequiresMemo(d) = scan[1]
<1>. DEFINE P == Nat \ {0}
            Is(s) == s = [u \in P |->
                IF u + 3 > Len(d) THEN FALSE
                ELSE IF U16(d, u) = MemoTransfer THEN U16(d, u + 2) >= 1 /\ u + 4 <= Len(d) /\ d[u + 4] = 1
                ELSE IF U16(d, u) = 0 THEN FALSE
                ELSE s[NextEntry(u, U16(d, u + 2))]]
            Stop == {u \in P : u + 3 > Len(d) \/ U16(d, u) = MemoTransfer \/ U16(d, u) = 0}
            B == [u \in P |-> /\ ~(u + 3 > Len(d)) /\ U16(d, u) = MemoTransfer
                              /\ U16(d, u + 2) >= 1 /\ u + 4 <= Len(d) /\ d[u + 4] = 1]
            N == [u \in P |-> NextEntry(u, U16(d, u + 2))]
<1>1. Len(d) \in Nat /\ P \in SUBSET Nat /\ B \in [P -> BOOLEAN] /\ Stop \in SUBSET P
  OBVIOUS
<1>2. \A u \in P : u >= Len(d) => u \in Stop
  BY <1>1
<1>3. ASSUME NEW u \in P, u \notin Stop PROVE N[u] \in P /\ N[u] > u
  <2>1. u + 2 \in 1..Len(d) /\ u + 3 \in 1..Len(d)
    BY <1>1, <1>3
  <2>2. d[u + 2] \in Nat /\ d[u + 3] \in Nat
    BY <2>1
  <2>3. U16(d, u + 2) \in Nat
    BY <2>2 DEF U16
  <2>. QED
    BY <2>3 DEF NextEntry
<1>. HIDE DEF B, N, Stop, P
<1>4. PICK g \in [P -> BOOLEAN] : Jumping(g, P, Stop, B, N)
  BY <1>1, <1>2, <1>3, Jumps
<1>5. ASSUME NEW u \in P
      PROVE  g[u] = IF u + 3 > Len(d) THEN FALSE
                    ELSE IF U16(d, u) = MemoTransfer THEN U16(d, u + 2) >= 1 /\ u + 4 <= Len(d) /\ d[u + 4] = 1
                    ELSE IF U16(d, u) = 0 THEN FALSE
                    ELSE g[NextEntry(u, U16(d, u + 2))]
  <2>1. g[u] = IF u \in Stop THEN B[u] ELSE g[N[u]]
    BY <1>4, Zenon DEF Jumping
  <2>2. u \in Stop <=> (u + 3 > Len(d) \/ U16(d, u) = MemoTransfer \/ U16(d, u) = 0)
    BY Zenon DEF Stop
  <2>3. /\ N[u] = NextEntry(u, U16(d, u + 2))
        /\ B[u] = (/\ ~(u + 3 > Len(d)) /\ U16(d, u) = MemoTransfer
                   /\ U16(d, u + 2) >= 1 /\ u + 4 <= Len(d) /\ d[u + 4] = 1)
    BY Zenon DEF N, B
  <2>4. CASE u + 3 > Len(d)
    BY <2>1, <2>2, <2>3, <2>4, Zenon
  <2>5. CASE ~(u + 3 > Len(d)) /\ U16(d, u) = MemoTransfer
    BY <2>1, <2>2, <2>3, <2>5, Zenon
  <2>6. CASE ~(u + 3 > Len(d)) /\ U16(d, u) # MemoTransfer /\ U16(d, u) = 0
    BY <2>1, <2>2, <2>3, <2>6, Zenon
  <2>7. CASE ~(u + 3 > Len(d)) /\ U16(d, u) # MemoTransfer /\ U16(d, u) # 0
    BY <2>1, <2>2, <2>3, <2>7, Zenon
  <2>. QED
    BY <2>4, <2>5, <2>6, <2>7, Zenon
<1>6. Is(g)
  BY <1>4, <1>5, Zenon
<1>. DEFINE scan == CHOOSE s : Is(s)
<1>7. Is(scan)
  <2>. HIDE DEF Is
  <2>. QED
    BY <1>6, Zenon
<1>8. RequiresMemo(d) = scan[1]
  BY Zenon DEF RequiresMemo, P
<1>. HIDE DEF scan
<1>9. Scans(scan, d)
  BY <1>7, Zenon DEF Scans, P
<1>. QED
  BY <1>8, <1>9

\* The memo flag is on in one of the entries after the k-th.
OnAfter(entries, k) == \E j \in k + 1..Len(entries) : entries[j] = <<MemoTransfer, <<1>>>>

\* What ListsAssumption says of a list.
GoodList(l) ==
    /\ l \in Seq((Nat \ {0}) \X Seq(Nat))
    /\ \A k \in DOMAIN l : l[k][1] = MemoTransfer => l[k][2] \in {<<0>>, <<1>>}
    /\ \A a, b \in DOMAIN l : l[a][1] = l[b][1] => a = b

\* A number of two bytes is read as it was written.
LEMMA TwoBytes ==
    ASSUME NEW x \in Nat
    PROVE  x % 256 \in Nat /\ x \div 256 \in Nat /\ (x % 256) + 256 * (x \div 256) = x
OBVIOUS

\* An entry of a list, byte by byte.
IsEntry(e, type, body) ==
    /\ e \in Seq(Nat) /\ Len(e) = 4 + Len(body)
    /\ e[1] = type % 256 /\ e[2] = type \div 256
    /\ e[3] = Len(body) % 256 /\ e[4] = Len(body) \div 256
    /\ \A u \in 1..Len(body) : e[4 + u] = body[u]

\* Entry() is one.
LEMMA EntryBytes ==
    ASSUME NEW type \in Nat \ {0}, NEW body \in Seq(Nat)
    PROVE  IsEntry(Entry(type, body), type, body)
<1>. DEFINE h == <<type % 256, type \div 256, Len(body) % 256, Len(body) \div 256>>
<1>1. h \in Seq(Nat) /\ Len(h) = 4 /\ body \in Seq(Nat) /\ Len(body) \in Nat
  OBVIOUS
<1>2. h[1] = type % 256 /\ h[2] = type \div 256 /\ h[3] = Len(body) % 256 /\ h[4] = Len(body) \div 256
  OBVIOUS
<1>. HIDE DEF h
<1>3. /\ h \o body \in Seq(Nat) /\ Len(h \o body) = 4 + Len(body)
      /\ \A u \in 1..4 + Len(body) : (h \o body)[u] = IF u <= 4 THEN h[u] ELSE body[u - 4]
  <2>1. /\ h \o body \in Seq(Nat) /\ Len(h \o body) = Len(h) + Len(body)
        /\ \A u \in 1..Len(h) + Len(body) :
              (h \o body)[u] = IF u <= Len(h) THEN h[u] ELSE body[u - Len(h)]
    BY <1>1, ConcatProperties
  <2>. QED
    BY <1>1, <2>1
<1>4. (h \o body)[1] = h[1] /\ (h \o body)[2] = h[2] /\ (h \o body)[3] = h[3] /\ (h \o body)[4] = h[4]
  BY <1>1, <1>3
<1>5. ASSUME NEW u \in 1..Len(body) PROVE (h \o body)[4 + u] = body[u]
  <2>1. 4 + u \in 1..4 + Len(body) /\ ~(4 + u <= 4) /\ (4 + u) - 4 = u
    BY <1>1
  <2>. QED
    BY <1>3, <2>1
<1>. QED
  BY <1>2, <1>3, <1>4, <1>5 DEF Entry, IsEntry, h

\* Among the entries of a good list, the flag is seen.
LEMMA FlagSeen ==
    ASSUME NEW l, GoodList(l), NEW zeros \in Nat
    PROVE  RequiresMemo(Encoded(l, zeros)) = OnAfter(l, 0)
<1>. DEFINE n == Len(l)
            es == [k \in DOMAIN l |-> Entry(l[k][1], l[k][2])]
            whole == FlattenSeq(es)
            d == whole \o Zeros(zeros)
<1>1. /\ n \in Nat /\ DOMAIN l = 1..n
      /\ \A k \in 1..n :
            /\ l[k][1] \in Nat \ {0} /\ l[k][2] \in Seq(Nat) /\ l[k] = <<l[k][1], l[k][2]>>
            /\ l[k][1] = MemoTransfer => l[k][2] \in {<<0>>, <<1>>}
  BY DEF GoodList
<1>2. es \in Seq(Seq(Nat)) /\ Len(es) = n /\ \A k \in 1..n : es[k] = Entry(l[k][1], l[k][2])
  <2>1. \A k \in 1..n : Entry(l[k][1], l[k][2]) \in Seq(Nat)
    <3>1. ASSUME NEW k \in 1..n PROVE Entry(l[k][1], l[k][2]) \in Seq(Nat)
      <4>1. IsEntry(Entry(l[k][1], l[k][2]), l[k][1], l[k][2])
        BY <1>1, EntryBytes
      <4>. QED
        BY <4>1, Zenon DEF IsEntry
    <3>. QED
      BY <3>1
  <2>2. es \in [1..n -> Seq(Nat)]
    BY <1>1, <2>1
  <2>3. es \in Seq(Seq(Nat)) /\ Len(es) = n
    <3>. HIDE DEF es, n
    <3>. QED
      BY <1>1, <2>2
  <2>. QED
    BY <1>1, <2>3
<1>3. PICK at \in [0..n -> Nat] : Placed(at, es)
  <2>. HIDE DEF es, n
  <2>. QED
    BY <1>2, Pieces
<1>4. whole \in Seq(Nat)
  <2>. HIDE DEF es
  <2>. QED
    BY <1>2, Pieces
<1>5. /\ d \in Seq(Nat) /\ Len(whole) \in Nat /\ Len(d) = Len(whole) + zeros
      /\ \A u \in 1..Len(whole) : d[u] = whole[u]
      /\ \A u \in 1..zeros : d[Len(whole) + u] = 0
  <2>. DEFINE z == Zeros(zeros)
  <2>1. z \in Seq(Nat) /\ Len(z) = zeros /\ \A u \in 1..zeros : z[u] = 0
    BY DEF Zeros
  <2>. HIDE DEF z, whole
  <2>2. Len(whole) \in Nat
    BY <1>4
  <2>3. /\ whole \o z \in Seq(Nat) /\ Len(whole \o z) = Len(whole) + zeros
        /\ \A u \in 1..Len(whole) + zeros :
              (whole \o z)[u] = IF u <= Len(whole) THEN whole[u] ELSE z[u - Len(whole)]
    BY <1>4, <2>1, ConcatProperties
  <2>4. \A u \in 1..Len(whole) : (whole \o z)[u] = whole[u]
    BY <2>2, <2>3
  <2>5. \A u \in 1..zeros : (whole \o z)[Len(whole) + u] = 0
    <3>1. \A m, p \in Nat : \A q \in 1..p : m + q \in 1..m + p /\ ~(m + q <= m) /\ (m + q) - m = q
      OBVIOUS
    <3>. QED
      BY <2>1, <2>2, <2>3, <3>1
  <2>. QED
    BY <2>2, <2>3, <2>4, <2>5 DEF z
<1>. HIDE DEF d
<1>6. PICK scan : Scans(scan, d) /\ RequiresMemo(d) = scan[1]
  BY <1>5, ScanEnds
<1>7. /\ at[0] = 0 /\ at[n] = Len(whole)
      /\ \A k \in 1..n :
            /\ at[k] = at[k - 1] + Len(es[k]) /\ at[k] <= Len(whole)
            /\ \A u \in 1..Len(es[k]) : whole[at[k - 1] + u] = es[k][u]
  BY <1>2, <1>3 DEF Placed
<1>. HIDE DEF es, whole
<1>8. ASSUME NEW k \in 1..n
      PROVE  LET u == at[k - 1] + 1
                 type == l[k][1]
                 body == l[k][2]
             IN  /\ u \in Nat \ {0} /\ u + 3 <= Len(d)
                 /\ U16(d, u) = type /\ U16(d, u + 2) = Len(body) /\ at[k] + 1 = u + 4 + Len(body)
                 /\ Len(body) >= 1 => u + 4 <= Len(d) /\ d[u + 4] = body[1]
  <2>. DEFINE u == at[k - 1] + 1
              type == l[k][1]
              body == l[k][2]
              e == Entry(type, body)
              m == at[k - 1]
  <2>1. type \in Nat \ {0} /\ body \in Seq(Nat) /\ Len(body) \in Nat
    BY <1>1
  <2>2. m \in Nat /\ k - 1 \in 0..n
    <3>1. k - 1 \in 0..n
      BY <1>1
    <3>. HIDE DEF n
    <3>. QED
      BY <3>1
  <2>3. /\ Len(e) = 4 + Len(body)
        /\ e[1] = type % 256 /\ e[2] = type \div 256
        /\ e[3] = Len(body) % 256 /\ e[4] = Len(body) \div 256
        /\ \A j \in 1..Len(body) : e[4 + j] = body[j]
    <3>. HIDE DEF type, body
    <3>1. IsEntry(e, type, body)
      BY <2>1, EntryBytes
    <3>. QED
      BY <3>1, Zenon DEF IsEntry
  <2>4. e = es[k]
    BY <1>2
  <2>. HIDE DEF e, type, body, m
  <2>5. at[k] = m + (4 + Len(body)) /\ m + (4 + Len(body)) <= Len(whole)
    <3>1. at[k] = m + Len(es[k]) /\ at[k] <= Len(whole)
      BY <1>7, Zenon DEF m
    <3>. QED
      BY <2>3, <2>4, <3>1
  <2>6. ASSUME NEW j \in 1..4 + Len(body) PROVE m + j \in 1..Len(whole) /\ d[m + j] = e[j]
    <3>1. m + j \in 1..Len(whole)
      BY <1>5, <2>1, <2>2, <2>5
    <3>2. whole[m + j] = e[j]
      BY <1>7, <2>3, <2>4 DEF m
    <3>. QED
      BY <1>5, <3>1, <3>2
  <2>7. /\ 1 \in 1..4 + Len(body) /\ 2 \in 1..4 + Len(body) /\ 3 \in 1..4 + Len(body)
        /\ 4 \in 1..4 + Len(body)
    BY <2>1
  <2>8. d[m + 1] = e[1] /\ d[m + 2] = e[2] /\ d[m + 3] = e[3] /\ d[m + 4] = e[4]
    BY <2>6, <2>7
  <2>9. u = m + 1 /\ u + 1 = m + 2 /\ u + 2 = m + 3 /\ (u + 2) + 1 = m + 4 /\ u + 4 = m + 5
    BY <2>2 DEF m
  <2>. HIDE DEF u
  <2>10. U16(d, u) = type
    <3>1. U16(d, u) = (type % 256) + 256 * (type \div 256)
      <4>1. d[u] = type % 256 /\ d[u + 1] = type \div 256
        BY <2>3, <2>8, <2>9, Zenon
      <4>. QED
        BY <4>1, Zenon DEF U16
    <3>2. type \in Nat
      BY <2>1
    <3>. QED
      BY <3>1, <3>2, TwoBytes
  <2>11. U16(d, u + 2) = Len(body)
    <3>1. U16(d, u + 2) = (Len(body) % 256) + 256 * (Len(body) \div 256)
      <4>1. d[u + 2] = Len(body) % 256 /\ d[(u + 2) + 1] = Len(body) \div 256
        BY <2>3, <2>8, <2>9, Zenon
      <4>. QED
        BY <4>1, Zenon DEF U16
    <3>2. Len(body) \in Nat
      BY <2>1
    <3>. QED
      BY <3>1, <3>2, TwoBytes
  <2>12. ASSUME Len(body) >= 1 PROVE u + 4 <= Len(d) /\ d[u + 4] = body[1]
    <3>1. 1 \in 1..Len(body) /\ 4 + 1 = 5 /\ 5 \in 1..4 + Len(body)
      BY <2>1, <2>12
    <3>2. e[5] = body[1]
      BY <2>3, <3>1
    <3>3. m + 5 \in 1..Len(whole) /\ d[m + 5] = e[5]
      BY <2>6, <3>1
    <3>. QED
      BY <1>5, <2>9, <3>2, <3>3
  <2>13. u \in Nat \ {0} /\ u + 3 <= Len(d) /\ at[k] + 1 = u + 4 + Len(body)
    BY <1>5, <2>1, <2>2, <2>5, <2>9
  <2>. QED
    BY <2>10, <2>11, <2>12, <2>13 DEF u, type, body
<1>. DEFINE T == {j \in Nat : j <= n => scan[at[n - j] + 1] = OnAfter(l, n - j)}
<1>9. 0 \in T
  <2>. DEFINE u == at[n] + 1
  <2>1. u = Len(whole) + 1 /\ u \in Nat \ {0} /\ n - 0 = n
    BY <1>1, <1>5, <1>7
  <2>2. OnAfter(l, n) = FALSE
    BY <1>1 DEF OnAfter
  <2>3. scan[u] = FALSE
    <3>1. CASE u + 3 > Len(d)
      BY <1>6, <2>1, <3>1, Zenon DEF Scans
    <3>2. CASE ~(u + 3 > Len(d))
      <4>1. 1 \in 1..zeros /\ 2 \in 1..zeros /\ u + 1 = Len(whole) + 2
        BY <1>5, <2>1, <3>2
      <4>2. d[u] = 0 /\ d[u + 1] = 0
        BY <1>5, <2>1, <4>1
      <4>. HIDE DEF u
      <4>3. U16(d, u) = 0 /\ 0 # MemoTransfer
        BY <4>2 DEF U16, MemoTransfer
      <4>. QED
        BY <1>6, <2>1, <3>2, <4>3, Zenon DEF Scans
    <3>. QED
      BY <3>1, <3>2
  <2>. QED
    BY <2>1, <2>2, <2>3, Zenon
<1>10. ASSUME NEW j \in Nat, j \in T PROVE j + 1 \in T
  <2>1. ASSUME j + 1 <= n PROVE scan[at[n - (j + 1)] + 1] = OnAfter(l, n - (j + 1))
    <3>. DEFINE k == n - j
                u == at[k - 1] + 1
                type == l[k][1]
                body == l[k][2]
    <3>1. k \in 1..n /\ n - (j + 1) = k - 1 /\ (k - 1) + 1 = k
      BY <1>1, <2>1
    <3>2. scan[at[k] + 1] = OnAfter(l, k)
      <4>1. j <= n
        BY <1>1, <2>1
      <4>. QED
        BY <1>10, <4>1, Zenon
    <3>. HIDE DEF k
    <3>3. /\ u \in Nat \ {0} /\ u + 3 <= Len(d)
          /\ U16(d, u) = type /\ U16(d, u + 2) = Len(body) /\ at[k] + 1 = u + 4 + Len(body)
          /\ Len(body) >= 1 => u + 4 <= Len(d) /\ d[u + 4] = body[1]
      BY <1>8, <3>1, Zenon
    <3>4. type # 0 /\ (type = MemoTransfer => body \in {<<0>>, <<1>>}) /\ l[k] = <<type, body>>
      <4>1. l[k][1] # 0
        BY <1>1, <3>1
      <4>2. l[k][1] = MemoTransfer => l[k][2] \in {<<0>>, <<1>>}
        BY <1>1, <3>1, Zenon
      <4>3. l[k] = <<l[k][1], l[k][2]>>
        BY <1>1, <3>1, Zenon
      <4>. QED
        BY <4>1, <4>2, <4>3, Zenon
    <3>5. ~(u + 3 > Len(d))
      <4>1. u \in Nat /\ Len(d) \in Nat /\ u + 3 <= Len(d)
        BY <1>5, <3>3
      <4>. HIDE DEF u
      <4>. QED
        BY <4>1
    <3>6. OnAfter(l, k - 1) = (l[k] = <<MemoTransfer, <<1>>>> \/ OnAfter(l, k))
      <4>1. \A x \in Nat : x \in k..n <=> (x = k \/ x \in k + 1..n)
        BY <1>1, <3>1
      <4>2. OnAfter(l, k - 1) <=> (l[k] = <<MemoTransfer, <<1>>>> \/ OnAfter(l, k))
        <5>1. \A x \in k..n : x \in Nat
          BY <1>1, <3>1
        <5>2. OnAfter(l, k - 1) <=> \E x \in k..n : l[x] = <<MemoTransfer, <<1>>>>
          BY <3>1, Zenon DEF OnAfter
        <5>3. OnAfter(l, k) <=> \E x \in k + 1..n : l[x] = <<MemoTransfer, <<1>>>>
          BY Zenon DEF OnAfter
        <5>4. \A x \in k + 1..n : x \in Nat
          BY <1>1, <3>1
        <5>5. k \in Nat
          BY <3>1
        <5>. QED
          BY <4>1, <5>1, <5>2, <5>3, <5>4, <5>5, Zenon
      <4>. QED
        BY <4>2, Zenon DEF OnAfter
    <3>. HIDE DEF u, type, body
    <3>7. CASE type = MemoTransfer
      <4>1. body[1] = 1 <=> body = <<1>>
        BY <3>4, <3>7
      <4>2. Len(body) >= 1
        <5>1. body = <<0>> \/ body = <<1>>
          BY <3>4, <3>7
        <5>2. Len(<<0>>) >= 1 /\ Len(<<1>>) >= 1
          OBVIOUS
        <5>. QED
          BY <5>1, <5>2, Zenon
      <4>3. ~OnAfter(l, k)
        <5>. SUFFICES ASSUME OnAfter(l, k) PROVE FALSE
          OBVIOUS
        <5>1. PICK x \in k + 1..Len(l) : l[x] = <<MemoTransfer, <<1>>>>
          BY DEF OnAfter
        <5>2. x \in 1..n /\ x # k /\ l[x][1] = MemoTransfer
          BY <1>1, <3>1, <5>1
        <5>. QED
          BY <1>1, <3>1, <3>7, <5>2 DEF GoodList, type
      <4>4. scan[u] = (Len(body) >= 1 /\ u + 4 <= Len(d) /\ d[u + 4] = 1)
        BY <1>6, <3>3, <3>5, <3>7, Zenon DEF Scans
      <4>5. scan[u] = (body[1] = 1)
        BY <3>3, <4>2, <4>4, Zenon
      <4>6. (l[k] = <<MemoTransfer, <<1>>>>) <=> body[1] = 1
        BY <3>4, <3>7, <4>1
      <4>7. OnAfter(l, k - 1) = (body[1] = 1)
        BY <3>6, <4>3, <4>6, Zenon
      <4>. QED
        BY <3>1, <4>5, <4>7, Zenon DEF u
    <3>8. CASE type # MemoTransfer
      <4>1. l[k] # <<MemoTransfer, <<1>>>>
        BY <3>4, <3>8
      <4>2. scan[u] = scan[NextEntry(u, U16(d, u + 2))]
        BY <1>6, <3>3, <3>4, <3>5, <3>8, Zenon DEF Scans
      <4>3. NextEntry(u, U16(d, u + 2)) = at[k] + 1
        BY <3>3 DEF NextEntry
      <4>4. OnAfter(l, k - 1) = OnAfter(l, k)
        BY <3>6, <4>1, Zenon DEF OnAfter
      <4>. QED
        BY <3>1, <3>2, <4>2, <4>3, <4>4, Zenon DEF u
    <3>. QED
      BY <3>7, <3>8
  <2>. QED
    BY <2>1
<1>11. n \in T
  <2>. HIDE DEF T
  <2>. QED
    BY <1>1, <1>9, <1>10, FromZero
<1>12. scan[1] = OnAfter(l, 0)
  <2>1. n <= n /\ n - n = 0 /\ at[0] + 1 = 1
    BY <1>1, <1>7
  <2>2. scan[at[n - n] + 1] = OnAfter(l, n - n)
    BY <1>11, <2>1, Zenon
  <2>. QED
    BY <2>1, <2>2
<1>13. Encoded(l, zeros) = d
  BY DEF Encoded, d, whole, es
<1>. QED
  BY <1>6, <1>12, <1>13, Zenon

\* The memo flag is seen when it is on, among all other extensions.
THEOREM MemoHolds == MessageSpec => []MemoSeen
<1>1. MessageInit => MemoSeen
  BY DEF MessageInit, NoUse, MemoSeen
<1>2. MemoSeen /\ [MessageNext]_use => MemoSeen'
  <2>. SUFFICES ASSUME MemoSeen, [MessageNext]_use PROVE MemoSeen'
    OBVIOUS
  <2>1. ASSUME NEW c \in Clients, NEW req \in Requests, Spend(c, req) PROVE MemoSeen'
    BY <2>1 DEF Spend, MemoSeen
  <2>2. ASSUME NEW e \in DOMAIN VaultError, Explain(e) PROVE MemoSeen'
    BY <2>2 DEF Explain, MemoSeen
  <2>3. ASSUME NEW t \in Typed, Enter(t) PROVE MemoSeen'
    BY <2>3 DEF Enter, MemoSeen
  <2>4. ASSUME NEW v \in Shown, Display(v) PROVE MemoSeen'
    BY <2>4 DEF Display, MemoSeen
  <2>5. ASSUME NEW entries \in Lists, NEW zeros \in Paddings, Scan(entries, zeros) PROVE MemoSeen'
    <3>1. GoodList(entries) /\ zeros \in Nat
      BY ListsAssumption DEF GoodList
    <3>2. RequiresMemo(Encoded(entries, zeros)) = OnAfter(entries, 0)
      BY <3>1, FlagSeen
    <3>3. use' = [of |-> "scan", entries |-> entries, answer |-> OnAfter(entries, 0)]
      BY <2>5, <3>2, Zenon DEF Scan
    <3>4. use'.entries = entries /\ use'.answer = OnAfter(entries, 0)
      BY <3>3
    <3>5. OnAfter(entries, 0) = (\E u \in DOMAIN entries : entries[u] = <<MemoTransfer, <<1>>>>)
      <4>1. DOMAIN entries = 0 + 1..Len(entries)
        BY <3>1 DEF GoodList
      <4>. QED
        BY <4>1, Zenon DEF OnAfter
    <3>. QED
      BY <3>4, <3>5, Zenon DEF MemoSeen
  <2>6. CASE UNCHANGED use
    BY <2>6 DEF MemoSeen
  <2>. QED
    BY <2>1, <2>2, <2>3, <2>4, <2>5, <2>6 DEF MessageNext
<1>. QED
  BY <1>1, <1>2, PTL DEF MessageSpec

-----------------------------------------------------------------------------
(***************************************************************************)
(* What all clients have in common.                                        *)
(***************************************************************************)

\* A client's tables: seeds, digest, data, accounts.
SameTables(c) ==
    /\ Seeds(c) = ProgramSeeds /\ DigestBy(c) = ProgramDigest /\ Data(c) = CliData
    /\ Accounts(c).writable = Changed /\ Accounts(c).signers = Signing
    /\ Accounts(c).order = IF c = "fork" THEN ForkAccounts.order ELSE ProgramOrder

\* The tables of every client are those of the program.
LEMMA Tables == ASSUME NEW c \in Clients PROVE SameTables(c)
<1>1. IdlData = CliData /\ SuitesData = CliData
  BY SMT DEF CliData, IdlData, SuitesData, SeedLen, AmountLen, SigLen
<1>2. Seeds(c) = ProgramSeeds
  BY Zenon DEF Clients, Seeds, ProgramSeeds, CliSeeds, WebSeeds, NativeSeeds, IdlSeeds, GeneratedSeeds,
     SuiteSeeds, ForkSeeds, ProbeSeeds
<1>3. DigestBy(c) = ProgramDigest
  BY Zenon DEF Clients, DigestBy, ProgramDigest, CliDigest, WebDigest, NativeDigest
<1>4. Data(c) = CliData
  <2>1. WebData = CliData /\ NativeData = CliData /\ GeneratedData = CliData
    BY <1>1, Zenon DEF WebData, CliData, NativeData, IdlData, GeneratedData
  <2>. QED
    BY <1>1, <2>1, Zenon DEF Clients, Data
<1>. DEFINE Table == Slots(ProgramOrder, Changed, Signing)
<1>5. c # "fork" => Accounts(c) = Table
  BY Zenon DEF Clients, Accounts, CliAccounts, WebAccounts, NativeAccounts, IdlAccounts, GeneratedAccounts,
     GeneratedOrder, SuiteAccounts, ProbeAccounts, ProgramOrder, Changed, Signing
<1>6. c = "fork" => Accounts(c) = ForkAccounts
  BY Zenon DEF Accounts
<1>7. /\ Table.order = ProgramOrder /\ Table.writable = Changed /\ Table.signers = Signing
      /\ ForkAccounts.writable = Changed /\ ForkAccounts.signers = Signing
  BY DEF Slots, ForkAccounts, Changed, Signing
<1>. HIDE DEF Table
<1>. QED
  BY <1>2, <1>3, <1>4, <1>5, <1>6, <1>7, Zenon DEF SameTables

\* The accounts of the program, in order.
LEMMA Order ==
    /\ Len(ProgramOrder) = 9 /\ DOMAIN ProgramOrder = 1..9
    /\ ToSet(ProgramOrder) =
         {"vault", "vault_ta", "mint", "dest", "refund", "rent_to", "token_program", "owner", "system"}
    /\ \A u, j \in 1..9 : ProgramOrder[u] = ProgramOrder[j] => u = j
    /\ LET longer == ForkAccounts.order
       IN  /\ Len(longer) = 10 /\ DOMAIN longer = 1..10 /\ longer[10] = "memo"
           /\ \A u \in 1..9 : longer[u] = ProgramOrder[u]
<1>1. Len(ProgramOrder) = 9 /\ DOMAIN ProgramOrder = 1..9
  BY DEF ProgramOrder
<1>2. /\ ProgramOrder[1] = "vault" /\ ProgramOrder[2] = "vault_ta" /\ ProgramOrder[3] = "mint"
      /\ ProgramOrder[4] = "dest" /\ ProgramOrder[5] = "refund" /\ ProgramOrder[6] = "rent_to"
      /\ ProgramOrder[7] = "token_program" /\ ProgramOrder[8] = "owner" /\ ProgramOrder[9] = "system"
  BY DEF ProgramOrder
<1>3. 1..9 = {1, 2, 3, 4, 5, 6, 7, 8, 9}
  OBVIOUS
<1>4. ToSet(ProgramOrder) =
         {"vault", "vault_ta", "mint", "dest", "refund", "rent_to", "token_program", "owner", "system"}
  BY <1>1, <1>2, <1>3 DEF ToSet
<1>5. \A u, j \in 1..9 : ProgramOrder[u] = ProgramOrder[j] => u = j
  BY <1>2, <1>3
<1>. DEFINE longer == ForkAccounts.order
<1>6. Len(longer) = 10 /\ DOMAIN longer = 1..10
  BY DEF ForkAccounts, Slots
<1>7. /\ longer[1] = "vault" /\ longer[2] = "vault_ta" /\ longer[3] = "mint" /\ longer[4] = "dest"
      /\ longer[5] = "refund" /\ longer[6] = "rent_to" /\ longer[7] = "token_program"
      /\ longer[8] = "owner" /\ longer[9] = "system" /\ longer[10] = "memo"
  BY DEF ForkAccounts, Slots
<1>. HIDE DEF longer
<1>8. \A u \in 1..9 : longer[u] = ProgramOrder[u]
  BY <1>2, <1>3, <1>7
<1>. QED
  BY <1>1, <1>4, <1>5, <1>6, <1>7, <1>8 DEF longer

-----------------------------------------------------------------------------
(***************************************************************************)
(* The data of a spend.                                                    *)
(***************************************************************************)

\* A field, byte by byte.
LEMMA FieldLen ==
    ASSUME NEW f, NEW len \in Nat, NEW v
    PROVE  Len(Field(f, len, v)) = len /\ DOMAIN Field(f, len, v) = 1..len
BY DEF Field

\* A function on the first numbers is a sequence.
LEMMA Sequence ==
    ASSUME NEW n \in Nat, NEW X, NEW s \in [1..n -> X]
    PROVE  s \in Seq(X) /\ Len(s) = n
OBVIOUS

\* Each field lies at the place where the program reads it, and the data has the length it asks for.
InPlace(data, v) ==
    /\ Len(data) = ProgramDataLen
    /\ \A f \in DOMAIN ProgramReads :
         At(data, ProgramReads[f][1], ProgramReads[f][2]) = Field(f, ProgramReads[f][2], v)

\* The data that clients concatenate is read as it was written.
LEMMA DataInPlace == ASSUME NEW v PROVE InPlace(Bytes(CliData, v), v)
<1>. DEFINE fields == [k \in DOMAIN CliData |-> Field(CliData[k][1], CliData[k][2], v)]
            Some(f, n) == {Field(f, n, v)[u] : u \in 1..n}
            All(f) == UNION {Some(f, n) : n \in Nat}
            S == UNION {All(f) : f \in DOMAIN ProgramReads}
            data == Bytes(CliData, v)
<1>1. /\ DOMAIN CliData = 1..5 /\ 1..5 = {1, 2, 3, 4, 5}
      /\ CliData[1] = <<"ix", 1>> /\ CliData[2] = <<"bump", 1>> /\ CliData[3] = <<"seed", SeedLen>>
      /\ CliData[4] = <<"amount", AmountLen>> /\ CliData[5] = <<"sig", SigLen>>
  BY DEF CliData
<1>2. /\ SeedLen \in Nat /\ AmountLen \in Nat /\ SigLen \in Nat
      /\ SeedLen = 16 /\ AmountLen = 8 /\ ProgramDataLen = 26 + SigLen
  BY SMT DEF SeedLen, AmountLen, SigLen, ProgramDataLen
<1>3. /\ DOMAIN ProgramReads = {"ix", "bump", "seed", "amount", "sig"}
      /\ ProgramReads["ix"] = <<0, 1>> /\ ProgramReads["bump"] = <<1, 1>> /\ ProgramReads["seed"] = <<2, SeedLen>>
      /\ ProgramReads["amount"] = <<18, 8>> /\ ProgramReads["sig"] = <<26, SigLen>>
  BY DEF ProgramReads
<1>4. ASSUME NEW f \in DOMAIN ProgramReads, NEW n \in Nat
      PROVE  Field(f, n, v) \in Seq(S) /\ Len(Field(f, n, v)) = n /\ DOMAIN Field(f, n, v) = 1..n
  <2>1. \A u \in 1..n : Field(f, n, v)[u] \in S
    <3>1. ASSUME NEW u \in 1..n PROVE Field(f, n, v)[u] \in S
      <4>1. Field(f, n, v)[u] \in Some(f, n)
        BY Zenon
      <4>. HIDE DEF Some
      <4>2. Field(f, n, v)[u] \in All(f)
        BY <4>1, Zenon
      <4>. HIDE DEF All
      <4>. QED
        BY <4>2, Zenon
    <3>. QED
      BY <3>1
  <2>2. Len(Field(f, n, v)) = n /\ DOMAIN Field(f, n, v) = 1..n
    BY FieldLen
  <2>3. Field(f, n, v) = [u \in 1..n |-> Field(f, n, v)[u]]
    BY DEF Field
  <2>. HIDE DEF S
  <2>4. Field(f, n, v) \in [1..n -> S]
    BY <2>1, <2>3, Zenon
  <2>. QED
    BY <2>2, <2>4, Sequence
<1>. HIDE DEF S
<1>5. /\ fields[1] = Field("ix", 1, v) /\ fields[2] = Field("bump", 1, v) /\ fields[3] = Field("seed", SeedLen, v)
      /\ fields[4] = Field("amount", AmountLen, v) /\ fields[5] = Field("sig", SigLen, v)
  <2>. HIDE DEF data
  <2>. QED
    BY <1>1
<1>6. fields \in Seq(Seq(S)) /\ Len(fields) = 5
  <2>1. \A k \in 1..5 : fields[k] \in Seq(S)
    <3>1. 1 \in Nat
      OBVIOUS
    <3>2. /\ Field("ix", 1, v) \in Seq(S) /\ Field("bump", 1, v) \in Seq(S) /\ Field("seed", SeedLen, v) \in Seq(S)
          /\ Field("amount", AmountLen, v) \in Seq(S) /\ Field("sig", SigLen, v) \in Seq(S)
      BY <1>2, <1>3, <1>4, <3>1, Zenon
    <3>. HIDE DEF fields
    <3>. QED
      BY <1>1, <1>5, <3>2, Zenon
  <2>2. DOMAIN fields = 1..5 /\ fields = [k \in 1..5 |-> fields[k]]
    BY <1>1, Zenon
  <2>. HIDE DEF fields
  <2>3. fields \in [1..5 -> Seq(S)]
    BY <2>1, <2>2, Zenon
  <2>4. 5 \in Nat
    OBVIOUS
  <2>. QED
    BY <2>3, <2>4, Sequence
<1>7. PICK at \in [0..5 -> Nat] : Placed(at, fields)
  <2>. HIDE DEF fields
  <2>1. \E at \in [0..Len(fields) -> Nat] : Placed(at, fields)
    BY <1>6, Pieces
  <2>. QED
    BY <1>6, <2>1
<1>8. data \in Seq(S) /\ data = FlattenSeq(fields)
  <2>1. data = FlattenSeq(fields)
    BY Zenon DEF Bytes
  <2>. HIDE DEF fields, data
  <2>. QED
    BY <1>6, <2>1, Pieces
<1>. HIDE DEF fields, data
<1>9. /\ at[0] = 0 /\ at[5] = Len(data)
      /\ \A k \in 1..5 : /\ at[k] = at[k - 1] + Len(fields[k]) /\ at[k] <= Len(data)
                         /\ \A u \in 1..Len(fields[k]) : data[at[k - 1] + u] = fields[k][u]
  BY <1>6, <1>7, <1>8 DEF Placed
<1>10. at[0] = 0 /\ at[1] = 1 /\ at[2] = 2 /\ at[3] = 18 /\ at[4] = 26 /\ at[5] = 26 + SigLen
  <2>1. /\ Len(fields[1]) = 1 /\ Len(fields[2]) = 1 /\ Len(fields[3]) = SeedLen /\ Len(fields[4]) = AmountLen
        /\ Len(fields[5]) = SigLen
    <3>1. 1 \in Nat
      OBVIOUS
    <3>2. ASSUME NEW f, NEW n \in Nat PROVE Len(Field(f, n, v)) = n
      BY FieldLen
    <3>3. Len(fields[1]) = 1 /\ Len(fields[2]) = 1
      BY <1>5, <3>1, <3>2
    <3>4. Len(fields[3]) = SeedLen /\ Len(fields[4]) = AmountLen /\ Len(fields[5]) = SigLen
      BY <1>2, <1>5, <3>2
    <3>. QED
      BY <3>3, <3>4
  <2>2. /\ at[1] = at[0] + Len(fields[1]) /\ at[2] = at[1] + Len(fields[2]) /\ at[3] = at[2] + Len(fields[3])
        /\ at[4] = at[3] + Len(fields[4]) /\ at[5] = at[4] + Len(fields[5])
    <3>1. /\ 1 - 1 = 0 /\ 2 - 1 = 1 /\ 3 - 1 = 2 /\ 4 - 1 = 3 /\ 5 - 1 = 4
          /\ 1 \in 1..5 /\ 2 \in 1..5 /\ 3 \in 1..5 /\ 4 \in 1..5 /\ 5 \in 1..5
      OBVIOUS
    <3>2. \A k \in 1..5 : at[k] = at[k - 1] + Len(fields[k])
      BY <1>9
    <3>. QED
      BY <3>1, <3>2
  <2>. QED
    BY <1>2, <1>9, <2>1, <2>2
<1>11. ASSUME NEW k \in 1..5, NEW f \in DOMAIN ProgramReads, NEW n \in Nat, fields[k] = Field(f, n, v)
       PROVE  At(data, at[k - 1], n) = Field(f, n, v)
  <2>. DEFINE o == at[k - 1]
              s == Field(f, n, v)
  <2>1. s \in Seq(S) /\ Len(s) = n
    BY <1>4
  <2>2. o \in Nat /\ o + n <= Len(data) /\ Len(data) \in Nat /\ \A u \in 1..n : data[o + u] = s[u]
    <3>1. k - 1 \in 0..5
      OBVIOUS
    <3>2. at[k] = o + n /\ at[k] <= Len(data) /\ \A u \in 1..n : data[o + u] = s[u]
      BY <1>9, <1>11, <2>1
    <3>. QED
      BY <1>7, <1>8, <3>1, <3>2
  <2>. HIDE DEF o, s
  <2>3. SubSeq(data, o + 1, o + n) = s
    <3>. DEFINE t == SubSeq(data, o + 1, o + n)
    <3>1. /\ t \in Seq(S) /\ Len(t) = n /\ \A u \in 1..n : t[u] = data[o + u]
      <4>1. o + 1 \in Int /\ o + n \in Int /\ \A u \in o + 1..o + n : data[u] \in S
        BY <1>8, <2>2
      <4>2. /\ t \in Seq(S) /\ Len(t) = (IF o + 1 <= o + n THEN (o + n) - (o + 1) + 1 ELSE 0)
            /\ \A u \in 1..(o + n) - (o + 1) + 1 : t[u] = data[(o + 1) + u - 1]
        BY <4>1, SubSeqProperties
      <4>3. (IF o + 1 <= o + n THEN (o + n) - (o + 1) + 1 ELSE 0) = n /\ (o + n) - (o + 1) + 1 = n
        BY <2>2
      <4>4. \A u \in 1..n : (o + 1) + u - 1 = o + u
        BY <2>2
      <4>. HIDE DEF t
      <4>. QED
        BY <4>2, <4>3, <4>4
    <3>. HIDE DEF t
    <3>2. \A u \in 1..Len(t) : t[u] = s[u]
      BY <2>2, <3>1
    <3>3. t = s
      BY <2>1, <3>1, <3>2, SeqEqual
    <3>. QED
      BY <3>3 DEF t
  <2>. QED
    BY <2>3 DEF At, o, s
<1>12. ASSUME NEW f \in DOMAIN ProgramReads
       PROVE  At(data, ProgramReads[f][1], ProgramReads[f][2]) = Field(f, ProgramReads[f][2], v)
  <2>0. 1 \in 1..5 /\ 2 \in 1..5 /\ 3 \in 1..5 /\ 4 \in 1..5 /\ 5 \in 1..5 /\ 1 \in Nat /\ 8 \in Nat
    OBVIOUS
  <2>1. At(data, 0, 1) = Field("ix", 1, v)
    BY <1>3, <1>5, <1>10, <1>11, <2>0, 1 - 1 = 0
  <2>2. At(data, 1, 1) = Field("bump", 1, v)
    BY <1>3, <1>5, <1>10, <1>11, <2>0, 2 - 1 = 1
  <2>3. At(data, 2, SeedLen) = Field("seed", SeedLen, v)
    BY <1>2, <1>3, <1>5, <1>10, <1>11, <2>0, 3 - 1 = 2
  <2>4. At(data, 18, 8) = Field("amount", 8, v)
    BY <1>2, <1>3, <1>5, <1>10, <1>11, <2>0, 4 - 1 = 3
  <2>5. At(data, 26, SigLen) = Field("sig", SigLen, v)
    BY <1>2, <1>3, <1>5, <1>10, <1>11, <2>0, 5 - 1 = 4
  <2>6. f \in {"ix", "bump", "seed", "amount", "sig"}
    BY <1>3
  <2>. QED
    BY <1>3, <2>1, <2>2, <2>3, <2>4, <2>5, <2>6
<1>13. Len(data) = ProgramDataLen
  BY <1>2, <1>9, <1>10
<1>. QED
  BY <1>12, <1>13 DEF InPlace, data

-----------------------------------------------------------------------------
(***************************************************************************)
(* The amount of a spend.                                                  *)
(***************************************************************************)

\* What FromBytes() says of each byte: its value, and Byte times what is above it.
LEMMA FromBytesRule ==
    ASSUME NEW bytes, NEW n \in Nat, DOMAIN bytes = 1..n, \A u \in 1..n : bytes[u][3] \in Nat
    PROVE  \E val \in [1..n + 1 -> Nat] :
               /\ val[n + 1] = 0 /\ \A k \in 1..n : val[k] = bytes[k][3] + Byte * val[k + 1]
               /\ FromBytes(bytes) = val[1]
<1>. DEFINE Is(g) == g = [s \in SUBSET DOMAIN bytes |->
                              IF s = {} THEN 0 ELSE bytes[Min(s)][3] + Byte * g[s \ {Min(s)}]]
            F == [k \in 1..n |-> [x \in Nat |-> bytes[k][3] + Byte * x]]
            C == [s \in SUBSET (1..n) |-> Min(s)]
<1>0. Byte \in Nat
  BY FormatAssumption
<1>1. \E g : Is(g)
  <2>1. F \in [1..n -> [Nat -> Nat]]
    <3>1. ASSUME NEW k \in 1..n, NEW x \in Nat PROVE bytes[k][3] + Byte * x \in Nat
      <4>1. bytes[k][3] \in Nat /\ Byte * x \in Nat
        BY <1>0
      <4>. QED
        BY <4>1
    <3>. QED
      BY <3>1
  <2>2. \A s \in SUBSET (1..n) : s # {} => C[s] \in s
    <3>1. SUBSET (1..n) \subseteq SUBSET Nat
      OBVIOUS
    <3>. QED
      BY <3>1, MinIsMember
  <2>3. IsFiniteSet(1..n) /\ 0 \in Nat
    <3>1. 1 \in Int /\ n \in Int
      OBVIOUS
    <3>. QED
      BY <3>1, FS_Interval
  <2>4. Chooses(C, 1..n)
    <3>. HIDE DEF C
    <3>. QED
      BY <2>2 DEF Chooses
  <2>5. PICK g \in [SUBSET (1..n) -> Nat] : Accumulates(g, SUBSET (1..n), 0, F, C)
    <3>. HIDE DEF F, C
    <3>. QED
      BY <2>1, <2>3, <2>4, Accumulation
  <2>6. ASSUME NEW s \in SUBSET (1..n), s # {} PROVE g[s] = bytes[Min(s)][3] + Byte * g[s \ {Min(s)}]
    <3>1. Min(s) \in s /\ C[s] = Min(s) /\ s \ {Min(s)} \in SUBSET (1..n)
      BY <2>2, <2>6
    <3>2. g[s] = F[C[s]][g[s \ {C[s]}]]
      BY <2>5, <2>6 DEF Accumulates
    <3>3. Min(s) \in 1..n /\ g[s \ {Min(s)}] \in Nat
      BY <3>1
    <3>. QED
      BY <3>1, <3>2, <3>3
  <2>7. g[{}] = 0
    BY <2>5 DEF Accumulates
  <2>8. Is(g)
    BY <2>6, <2>7
  <2>. QED
    BY <2>8
<1>. DEFINE h == CHOOSE g : Is(g)
<1>2. Is(h)
  <2>. HIDE DEF Is
  <2>. QED
    BY <1>1
<1>3. FromBytes(bytes) = h[DOMAIN bytes]
  BY DEF FromBytes, FoldRight, MapThenFoldSet
<1>. HIDE DEF h
<1>4. ASSUME NEW s \in SUBSET (1..n)
      PROVE  h[s] = IF s = {} THEN 0 ELSE bytes[Min(s)][3] + Byte * h[s \ {Min(s)}]
  BY <1>2
<1>5. h[n + 1..n] = 0 /\ \A k \in 1..n : h[k..n] = bytes[k][3] + Byte * h[k + 1..n]
  <2>1. n + 1..n = {} /\ {} \in SUBSET (1..n)
    OBVIOUS
  <2>2. h[n + 1..n] = 0
    BY <1>4, <2>1
  <2>3. ASSUME NEW k \in 1..n PROVE h[k..n] = bytes[k][3] + Byte * h[k + 1..n]
    <3>1. /\ k..n \in SUBSET (1..n) /\ k..n # {} /\ Min(k..n) = k
          /\ (k..n) \ {Min(k..n)} = (k + 1)..n
      BY LastOnes, Zenon
    <3>2. h[k..n] = bytes[Min(k..n)][3] + Byte * h[(k..n) \ {Min(k..n)}]
      BY <1>4, <3>1
    <3>. QED
      BY <3>1, <3>2
  <2>. QED
    BY <2>2, <2>3
<1>. DEFINE val == [k \in 1..n + 1 |-> h[k..n]]
            T == {j \in Nat : j <= n => h[n + 1 - j..n] \in Nat}
<1>6. \A j \in Nat : j \in T
  <2>1. 0 \in T
    <3>1. n + 1 - 0 = n + 1
      OBVIOUS
    <3>. QED
      BY <1>5, <3>1
  <2>2. ASSUME NEW j \in Nat, j \in T PROVE j + 1 \in T
    <3>1. ASSUME j + 1 <= n PROVE h[n + 1 - (j + 1)..n] \in Nat
      <4>. DEFINE k == n - j
      <4>1. k \in 1..n /\ n + 1 - (j + 1) = k /\ n + 1 - j = k + 1 /\ j <= n
        BY <3>1
      <4>2. h[k + 1..n] \in Nat
        BY <2>2, <4>1
      <4>3. h[k..n] = bytes[k][3] + Byte * h[k + 1..n] /\ bytes[k][3] \in Nat
        BY <1>5, <4>1
      <4>. HIDE DEF k
      <4>4. Byte * h[k + 1..n] \in Nat
        BY <1>0, <4>2
      <4>. QED
        BY <4>1, <4>3, <4>4
    <3>. QED
      BY <3>1
  <2>. HIDE DEF T
  <2>. QED
    BY <2>1, <2>2, FromZero
<1>7. val \in [1..n + 1 -> Nat]
  <2>1. ASSUME NEW k \in 1..n + 1 PROVE h[k..n] \in Nat
    <3>1. n + 1 - k \in Nat /\ n + 1 - k <= n /\ n + 1 - (n + 1 - k) = k
      OBVIOUS
    <3>. QED
      BY <1>6, <3>1
  <2>. QED
    BY <2>1
<1>8. val[n + 1] = 0 /\ \A k \in 1..n : val[k] = bytes[k][3] + Byte * val[k + 1]
  BY <1>5
<1>9. FromBytes(bytes) = val[1]
  BY <1>3
<1>. QED
  BY <1>7, <1>8, <1>9

\* The bytes of an amount give the amount.
LEMMA AmountRead ==
    ASSUME NEW v \in Nat, Encodable(v)
    PROVE  FromBytes(Field("amount", AmountLen, v)) = v
<1>. DEFINE n == AmountLen
            bytes == Field("amount", n, v)
            Left(k) == v \div Power(Byte, k - 1)
<1>1. n \in Nat /\ n > 0 /\ Byte \in Nat /\ Byte > 0
  BY FormatAssumption DEF AmountLen
<1>. HIDE DEF n
<1>2. \A k \in Nat : Power(Byte, k) \in Nat /\ Power(Byte, k) > 0 /\ Power(Byte, k + 1) = Byte * Power(Byte, k)
  BY <1>1, PowerRule
<1>3. ASSUME NEW k \in 1..n + 1 PROVE Left(k) \in Nat
  <2>1. k - 1 \in Nat
    BY <1>1
  <2>2. Power(Byte, k - 1) \in Nat /\ Power(Byte, k - 1) > 0
    BY <1>2, <2>1
  <2>. QED
    BY <2>2, Division
<1>4. ASSUME NEW k \in 1..n PROVE bytes[k][3] = Left(k) % Byte
  BY DEF Field, AmountByte
<1>5. ASSUME NEW k \in 1..n PROVE Left(k + 1) = Left(k) \div Byte
  <2>1. k - 1 \in Nat /\ (k - 1) + 1 = k /\ (k + 1) - 1 = k
    BY <1>1
  <2>. DEFINE p == Power(Byte, k - 1)
  <2>2. p \in Nat /\ p > 0 /\ Power(Byte, k) = Byte * p
    BY <1>2, <2>1
  <2>. HIDE DEF p
  <2>3. v \div (Byte * p) = (v \div p) \div Byte
    BY <1>1, <2>2, DivideTwice
  <2>. QED
    BY <2>1, <2>2, <2>3 DEF p
<1>6. DOMAIN bytes = 1..n
  BY <1>1, FieldLen
<1>. HIDE DEF bytes, Left
<1>7. \A k \in 1..n : bytes[k][3] \in Nat /\ Left(k) = bytes[k][3] + Byte * Left(k + 1)
  <2>1. ASSUME NEW k \in 1..n
        PROVE  bytes[k][3] \in Nat /\ Left(k) = bytes[k][3] + Byte * Left(k + 1)
    <3>1. Left(k) \in Nat
      BY <1>1, <1>3
    <3>2. Left(k) % Byte \in Nat /\ Left(k) = Byte * (Left(k) \div Byte) + (Left(k) % Byte)
      BY <1>1, <3>1, Division
    <3>3. Left(k + 1) \in Nat
      BY <1>1, <1>3
    <3>4. Byte * Left(k + 1) \in Nat
      BY <1>1, <3>3
    <3>. QED
      BY <1>4, <1>5, <3>2, <3>4
  <2>. QED
    BY <2>1
<1>8. PICK val \in [1..n + 1 -> Nat] :
        /\ val[n + 1] = 0 /\ \A k \in 1..n : val[k] = bytes[k][3] + Byte * val[k + 1]
        /\ FromBytes(bytes) = val[1]
  BY <1>1, <1>6, <1>7, FromBytesRule
<1>9. Left(n + 1) = 0
  <2>1. v < Power(Byte, n)
    <3>1. Power(Byte, n) \in Nat
      BY <1>1, <1>2
    <3>. QED
      BY <3>1 DEF Encodable, MaxAmount, n
  <2>. DEFINE m == Power(Byte, n)
  <2>2. m \in Nat /\ m > 0 /\ v < m
    BY <1>1, <1>2, <2>1
  <2>. HIDE DEF m
  <2>3. (m * 0 + v) \div m = 0
    BY <2>2, Quotient
  <2>4. m * 0 + v = v /\ (n + 1) - 1 = n
    BY <1>1, <2>2
  <2>. QED
    BY <2>3, <2>4 DEF Left, m
<1>. DEFINE T == {j \in Nat : j <= n => val[n + 1 - j] = Left(n + 1 - j)}
<1>10. 0 \in T
  <2>1. n + 1 - 0 = n + 1
    BY <1>1
  <2>. QED
    BY <1>8, <1>9, <2>1
<1>11. ASSUME NEW j \in Nat, j \in T PROVE j + 1 \in T
  <2>1. ASSUME j + 1 <= n PROVE val[n + 1 - (j + 1)] = Left(n + 1 - (j + 1))
    <3>. DEFINE k == n - j
    <3>1. k \in 1..n /\ n + 1 - (j + 1) = k /\ n + 1 - j = k + 1 /\ j <= n
      BY <1>1, <2>1
    <3>2. val[k + 1] = Left(k + 1)
      BY <1>11, <3>1
    <3>. HIDE DEF k
    <3>3. val[k] = Left(k)
      BY <1>7, <1>8, <3>1, <3>2
    <3>. QED
      BY <3>1, <3>3
  <2>. QED
    BY <2>1
<1>12. n \in T
  <2>. HIDE DEF T
  <2>. QED
    BY <1>1, <1>10, <1>11, FromZero
<1>13. val[1] = Left(1)
  <2>1. n <= n /\ n + 1 - n = 1
    BY <1>1
  <2>. QED
    BY <1>12, <2>1
<1>14. Left(1) = v
  <2>1. 1 - 1 = 0 /\ Power(Byte, 0) = 1
    BY <1>1, PowerRule
  <2>2. v \div 1 = v
    OBVIOUS
  <2>. QED
    BY <2>1, <2>2 DEF Left
<1>. QED
  BY <1>8, <1>13, <1>14 DEF bytes, n

-----------------------------------------------------------------------------
(***************************************************************************)
(* A spend.                                                                *)
(***************************************************************************)

\* The accounts of the program.
Nine == {"vault", "vault_ta", "mint", "dest", "refund", "rent_to", "token_program", "owner", "system"}

\* What a request says of the derived addresses and of the ones it names.
Addresses(req, all) ==
    /\ \A n \in DOMAIN req : all[n] = req[n]
    /\ DOMAIN all = DOMAIN req \union {"vault", "vault_ta"}
    /\ all["vault"] = Hashed(ProgramSeeds, req)
    /\ all["vault_ta"] = TokenAccount(all["vault"], req.token_program, req.mint)

\* Every client derives the same addresses.
LEMMA DerivedSame ==
    ASSUME NEW c \in Clients, NEW req \in Requests
    PROVE  Addresses(req, Derived(c, req))
<1>1. Seeds(c) = ProgramSeeds
  BY Tables DEF SameTables
<1>2. "vault" \notin DOMAIN req /\ "vault_ta" \notin DOMAIN req
  BY RequestsAssumption DEF Keys
<1>. DEFINE all == Derived(c, req)
            vault == Hashed(ProgramSeeds, req)
<1>3. all = [n \in DOMAIN req \union {"vault", "vault_ta"} |->
                CASE n = "vault" -> vault
                  [] n = "vault_ta" -> TokenAccount(vault, req.token_program, req.mint)
                  [] OTHER -> req[n]]
  BY <1>1, Zenon DEF Derived
<1>. HIDE DEF all, vault
<1>4. DOMAIN all = DOMAIN req \union {"vault", "vault_ta"}
  BY <1>3
<1>5. all["vault"] = vault /\ all["vault_ta"] = TokenAccount(vault, req.token_program, req.mint)
  BY <1>3
<1>6. ASSUME NEW n \in DOMAIN req PROVE all[n] = req[n]
  BY <1>2, <1>3
<1>. QED
  BY <1>4, <1>5, <1>6 DEF Addresses, all, vault

\* The instruction of every client: the program's nine accounts first.
Instruction(ix, all) ==
    /\ Len(ix.accounts) \in {9, 10} /\ DOMAIN ix.accounts = 1..Len(ix.accounts)
    /\ \A u \in 1..9 : ix.accounts[u] = all[ProgramOrder[u]]
    /\ Len(ix.accounts) = 10 => ix.accounts[10] = all["memo"]
    /\ ix.writable = {all[n] : n \in Changed} /\ ix.signers = {all[n] : n \in Signing}
    /\ InPlace(ix.data, all["amount"]) /\ ix.key = all["pkHash"]
    /\ ix.signed = Hashed(ProgramDigest, all)

\* Every client builds such an instruction, and all but one with nine accounts.
LEMMA BuiltSame ==
    ASSUME NEW c \in Clients, NEW all
    PROVE  Instruction(Build(c, all), all) /\ (c # "fork" => Len(Build(c, all).accounts) = 9)
<1>1. SameTables(c)
  BY Tables
<1>. DEFINE ix == Build(c, all)
            order == Accounts(c).order
<1>2. /\ ix.accounts = [u \in DOMAIN order |-> all[order[u]]]
      /\ ix.writable = {all[n] : n \in Changed} /\ ix.signers = {all[n] : n \in Signing}
      /\ ix.data = Bytes(CliData, all.amount) /\ ix.key = all.pkHash /\ ix.signed = Hashed(ProgramDigest, all)
  <2>1. /\ Build(c, all).accounts = [u \in DOMAIN order |-> all[order[u]]]
        /\ Build(c, all).writable = {all[n] : n \in Accounts(c).writable}
        /\ Build(c, all).signers = {all[n] : n \in Accounts(c).signers}
        /\ Build(c, all).data = Bytes(Data(c), all.amount) /\ Build(c, all).key = all.pkHash
        /\ Build(c, all).signed = Hashed(DigestBy(c), all)
    BY DEF Build
  <2>. HIDE DEF ix, order
  <2>. QED
    BY <1>1, <2>1, Zenon DEF SameTables, ix
<1>3. InPlace(ix.data, all["amount"])
  <2>1. InPlace(Bytes(CliData, all.amount), all.amount)
    BY DataInPlace
  <2>. HIDE DEF ix
  <2>. QED
    BY <1>2, <2>1, Zenon
<1>. HIDE DEF ix
<1>4. /\ DOMAIN order = 1..Len(order) /\ Len(order) = (IF c = "fork" THEN 10 ELSE 9)
      /\ \A u \in 1..9 : order[u] = ProgramOrder[u]
      /\ c = "fork" => order[10] = "memo"
  <2>1. order = IF c = "fork" THEN ForkAccounts.order ELSE ProgramOrder
    BY <1>1 DEF SameTables
  <2>. HIDE DEF order
  <2>. QED
    BY <2>1, Order
<1>. HIDE DEF order
<1>5. DOMAIN ix.accounts = 1..Len(order) /\ Len(ix.accounts) = Len(order)
  <2>1. DOMAIN ix.accounts = 1..Len(order) /\ Len(order) \in Nat
    BY <1>2, <1>4
  <2>. QED
    BY <2>1
<1>6. \A u \in 1..Len(order) : ix.accounts[u] = all[order[u]]
  BY <1>2, <1>4
<1>7. 1..9 \subseteq 1..Len(order) /\ (c = "fork" => 10 \in 1..Len(order))
  BY <1>4
<1>8. \A u \in 1..9 : ix.accounts[u] = all[ProgramOrder[u]]
  BY <1>4, <1>6, <1>7, Zenon
<1>9. Len(order) = 10 => c = "fork"
  <2>1. c # "fork" => Len(order) = 9
    BY <1>4, Zenon
  <2>. QED
    BY <2>1
<1>10. Len(ix.accounts) = 10 => ix.accounts[10] = all["memo"]
  <2>1. ASSUME Len(ix.accounts) = 10 PROVE ix.accounts[10] = all["memo"]
    <3>1. c = "fork"
      BY <1>5, <1>9, <2>1, Zenon
    <3>2. 10 \in 1..Len(order) /\ order[10] = "memo"
      BY <1>4, <1>7, <3>1, Zenon
    <3>. QED
      BY <1>6, <3>2, Zenon
  <2>. QED
    BY <2>1
<1>11. Len(ix.accounts) \in {9, 10} /\ (c # "fork" => Len(ix.accounts) = 9)
  BY <1>4, <1>5
<1>12. Instruction(ix, all)
  BY <1>2, <1>3, <1>5, <1>8, <1>10, <1>11, Zenon DEF Instruction
<1>. QED
  BY <1>11, <1>12 DEF ix

\* Nine accounts, the amount and the program.
Takes(got, all, program) ==
    /\ DOMAIN got = Nine \union {"program", "amount"}
    /\ \A n \in Nine : got[n] = all[n]
    /\ got["program"] = program /\ got["amount"] = all["amount"]

\* The program takes from the instruction what was meant.
LEMMA TakenSame ==
    ASSUME NEW ix, NEW all, Instruction(ix, all), all["amount"] \in Nat, Encodable(all["amount"]), NEW program
    PROVE  Takes(Taken(ix, program), all, program)
<1>. DEFINE slot == [n \in ToSet(ProgramOrder) |-> CHOOSE u \in DOMAIN ProgramOrder : ProgramOrder[u] = n]
            got == Taken(ix, program)
            amount == FromBytes(At(ix.data, ProgramReads.amount[1], ProgramReads.amount[2]))
<1>1. ToSet(ProgramOrder) = Nine /\ DOMAIN ProgramOrder = 1..9
  BY Order DEF Nine
<1>2. got = [n \in ToSet(ProgramOrder) \union {"program", "amount"} |->
                CASE n = "program" -> program [] n = "amount" -> amount [] OTHER -> ix.accounts[slot[n]]]
  BY Zenon DEF Taken
<1>3. amount = all["amount"]
  <2>1. At(ix.data, ProgramReads["amount"][1], ProgramReads["amount"][2])
          = Field("amount", ProgramReads["amount"][2], all["amount"])
    <3>1. "amount" \in DOMAIN ProgramReads
      BY DEF ProgramReads
    <3>. QED
      BY <3>1, Zenon DEF Instruction, InPlace
  <2>2. ProgramReads["amount"][2] = AmountLen
    BY DEF ProgramReads, AmountLen
  <2>3. FromBytes(Field("amount", AmountLen, all["amount"])) = all["amount"]
    BY AmountRead
  <2>. QED
    BY <2>1, <2>2, <2>3, Zenon
<1>4. ASSUME NEW n \in Nine PROVE ix.accounts[slot[n]] = all[n]
  <2>1. \E u \in 1..9 : ProgramOrder[u] = n
    BY <1>1, Zenon DEF ToSet
  <2>2. slot[n] \in 1..9 /\ ProgramOrder[slot[n]] = n
    BY <1>1, <2>1, Zenon
  <2>. HIDE DEF slot
  <2>. QED
    BY <2>2, Zenon DEF Instruction
<1>5. "program" \notin Nine /\ "amount" \notin Nine
  BY DEF Nine
<1>. HIDE DEF got, slot, amount
<1>6. got["program"] = program /\ got["amount"] = amount /\ DOMAIN got = Nine \union {"program", "amount"}
  BY <1>1, <1>2
<1>7. \A n \in Nine : got[n] = ix.accounts[slot[n]]
  BY <1>1, <1>2, <1>5
<1>. QED
  BY <1>3, <1>4, <1>6, <1>7, Zenon DEF Takes, got

\* The accounts of a spend differ when the client compared them.
LEMMA ComparedDiffer ==
    ASSUME NEW c \in {"cli", "web"}, NEW req \in Requests, NEW all, Addresses(req, all), Agrees(c, all)
    PROVE  \A a, b \in Nine : a # b => all[a] # all[b]
<1>1. /\ \A a \in Keys, b \in Keys \union {"dest", "refund"} : a # b => req[a] # req[b]
      /\ req["rent_to"] \notin {req["token_program"], req["system"]}
      /\ \A a \in Keys \union {"qcv", "dest", "refund"} : req[a] # all["vault"]
      /\ \A a \in Keys \union {"refund"} : req[a] # all["vault_ta"]
      /\ \A a \in Keys \union {"qcv", "dest", "refund", "rent_to"} : all[a] = req[a]
  <2>1. /\ DOMAIN req = Keys \union {"qcv", "pkHash", "program", "dest", "refund", "rent_to", "memo", "amount"}
        /\ \A a \in Keys, b \in Keys \union {"dest", "refund"} : a # b => req[a] # req[b]
        /\ req["rent_to"] \notin {req["token_program"], req["system"]}
        /\ \A a \in Keys \union {"qcv", "dest", "refund"} : req[a] # Hashed(ProgramSeeds, req)
        /\ \A a \in Keys \union {"refund"} :
             req[a] # TokenAccount(Hashed(ProgramSeeds, req), req["token_program"], req["mint"])
    BY RequestsAssumption, Zenon
  <2>2. /\ all["vault"] = Hashed(ProgramSeeds, req)
        /\ all["vault_ta"] = TokenAccount(all["vault"], req["token_program"], req["mint"])
        /\ \A n \in DOMAIN req : all[n] = req[n]
    BY Zenon DEF Addresses
  <2>3. Keys \union {"qcv", "dest", "refund", "rent_to"} \subseteq DOMAIN req
    BY <2>1
  <2>. QED
    BY <2>1, <2>2, <2>3, Zenon
<1>2. all["vault"] # all["vault_ta"]
  <2>1. all["vault"][1] = req["qcv"]
    <3>1. all["vault"] = Hashed(ProgramSeeds, req)
      BY DEF Addresses
    <3>. QED
      BY <3>1 DEF Hashed, ProgramSeeds
  <2>2. all["vault_ta"][1] = all["vault"]
    <3>1. all["vault_ta"] = TokenAccount(all["vault"], req["token_program"], req["mint"])
      BY DEF Addresses
    <3>. QED
      BY <3>1 DEF TokenAccount
  <2>. QED
    BY <1>1, <2>1, <2>2
<1>3. /\ all["dest"] # all["vault_ta"] /\ all["dest"] # all["refund"]
      /\ \A n \in {"vault", "vault_ta", "dest", "refund", "owner", "mint"} : all["rent_to"] # all[n]
  <2>1. CASE c = "cli"
    <3>1. ChecksDistinct(all)
      BY <2>1 DEF Agrees
    <3>. QED
      BY <3>1 DEF ChecksDistinct
  <2>2. CASE c = "web"
    <3>. DEFINE named == <<"vault", "vault_ta", "mint", "dest", "refund", "rent_to", "token_program", "owner">>
    <3>1. \A a, b \in DOMAIN named : a # b => all[named[a]] # all[named[b]]
      BY <2>2 DEF Agrees, PlansDistinct
    <3>2. DOMAIN named = 1..8
      OBVIOUS
    <3>3. /\ named[1] = "vault" /\ named[2] = "vault_ta" /\ named[3] = "mint" /\ named[4] = "dest"
          /\ named[5] = "refund" /\ named[6] = "rent_to" /\ named[8] = "owner"
      OBVIOUS
    <3>. HIDE DEF named
    <3>4. /\ all[named[4]] # all[named[2]] /\ all[named[4]] # all[named[5]]
          /\ all[named[6]] # all[named[1]] /\ all[named[6]] # all[named[2]] /\ all[named[6]] # all[named[4]]
          /\ all[named[6]] # all[named[5]] /\ all[named[6]] # all[named[8]] /\ all[named[6]] # all[named[3]]
      BY <3>1, <3>2
    <3>. QED
      BY <3>3, <3>4
  <2>. QED
    BY <2>1, <2>2
<1>4. ASSUME NEW a \in Nine, NEW b \in Nine, a # b PROVE all[a] # all[b]
  BY <1>1, <1>2, <1>3, <1>4 DEF Nine, Keys
<1>. QED
  BY <1>4

\* The program's answer is "accounts coincide" or all is well.
LEMMA AnswerSame ==
    ASSUME NEW ix, NEW req \in Requests, NEW all, Addresses(req, all), Instruction(ix, all), Encodable(req.amount)
    PROVE  Answer(ix, req) = (IF Repeats(ix.accounts) THEN VaultError.DuplicateAccount ELSE Ok)
<1>. DEFINE got == Taken(ix, req.program)
<1>1. /\ DOMAIN req = Keys \union {"qcv", "pkHash", "program", "dest", "refund", "rent_to", "memo", "amount"}
      /\ req["amount"] \in Nat /\ req["qcv"] = <<"qcv">>
  BY RequestsAssumption
<1>2. /\ all["amount"] = req["amount"] /\ all["system"] = req["system"] /\ all["memo"] = req["memo"]
      /\ all["pkHash"] = req["pkHash"] /\ all["owner"] = req["owner"] /\ all["program"] = req["program"]
      /\ all["token_program"] = req["token_program"] /\ all["mint"] = req["mint"]
  BY <1>1 DEF Addresses, Keys
<1>3. /\ \A n \in Nine : got[n] = all[n]
      /\ got["program"] = req["program"] /\ got["amount"] = all["amount"]
  <2>1. all["amount"] \in Nat /\ Encodable(all["amount"])
    BY <1>1, <1>2, Zenon
  <2>2. Takes(got, all, req.program)
    BY <2>1, TakenSame
  <2>. QED
    BY <2>2, Zenon DEF Takes
<1>. HIDE DEF got
<1>4. /\ got["system"] = req["system"] /\ got["owner"] = all["owner"] /\ got["vault"] = all["vault"]
      /\ got["token_program"] = req["token_program"] /\ got["mint"] = req["mint"]
      /\ got["vault_ta"] = all["vault_ta"]
  BY <1>2, <1>3, Zenon DEF Nine
<1>5. Len(ix.accounts) \in {9, 10} /\ Len(ix.data) = ProgramDataLen /\ MemoGiven(ix, req)
  BY <1>2, Zenon DEF Instruction, InPlace, MemoGiven
<1>6. got["owner"] \in ix.signers
  <2>1. ix.signers = {all[n] : n \in Signing} /\ "owner" \in Signing
    BY DEF Instruction, Signing
  <2>. QED
    BY <1>4, <2>1, Zenon
<1>7. Hashed(ProgramDigest, got) = ix.signed
  <2>1. ix.signed = Hashed(ProgramDigest, all)
    BY DEF Instruction
  <2>2. \A u \in DOMAIN ProgramDigest : ProgramDigest[u] \in Nine \union {"program", "amount"}
    BY DEF ProgramDigest, Nine
  <2>3. \A n \in Nine \union {"program", "amount"} : got[n] = all[n]
    BY <1>2, <1>3, Zenon
  <2>. QED
    BY <2>1, <2>2, <2>3, Zenon DEF Hashed
<1>8. got["vault"] = Hashed(ProgramSeeds, [qcv |-> <<"qcv">>, pkHash |-> ix.key, owner |-> got["owner"]])
  <2>1. all["vault"] = Hashed(ProgramSeeds, req)
    BY DEF Addresses
  <2>. DEFINE seeds == [qcv |-> <<"qcv">>, pkHash |-> ix.key, owner |-> got["owner"]]
  <2>2. ix.key = all["pkHash"]
    BY DEF Instruction
  <2>3. seeds["qcv"] = req["qcv"] /\ seeds["pkHash"] = req["pkHash"] /\ seeds["owner"] = req["owner"]
    BY <1>1, <1>2, <1>4, <2>2
  <2>. HIDE DEF seeds
  <2>4. \A u \in DOMAIN ProgramSeeds : ProgramSeeds[u] \in {"qcv", "pkHash", "owner"}
    BY DEF ProgramSeeds
  <2>5. \A n \in {"qcv", "pkHash", "owner"} : seeds[n] = req[n]
    BY <2>3
  <2>6. Hashed(ProgramSeeds, seeds) = Hashed(ProgramSeeds, req)
    BY <2>4, <2>5, Zenon DEF Hashed
  <2>. QED
    BY <1>4, <2>1, <2>6, Zenon DEF seeds
<1>9. Recovers(ix, got)
  BY <1>7, <1>8, Zenon DEF Recovers
<1>10. got["vault_ta"] = TokenAccount(got["vault"], req["token_program"], got["mint"])
  BY <1>4, Zenon DEF Addresses
<1>. QED
  BY <1>4, <1>5, <1>6, <1>9, <1>10, Zenon DEF Answer, got

\* What the program makes of a spend is what its client meant.
MeantSpend(by, ix, answer, got, meant) ==
    /\ answer = (IF Repeats(ix.accounts) THEN VaultError.DuplicateAccount ELSE Ok)
    /\ by \in {"cli", "web"} => answer = Ok
    /\ \A n \in DOMAIN got : got[n] = meant[n]
    /\ \A n \in Changed : got[n] \in ix.writable
    /\ \A f \in DOMAIN ProgramReads :
         At(ix.data, ProgramReads[f][1], ProgramReads[f][2]) = Field(f, ProgramReads[f][2], meant.amount)
    /\ PresigOf(ix.data) = Field("sig", SigLen, 0)

\* Whichever client builds it.
LEMMA SpendMeant ==
    ASSUME NEW c \in Clients, NEW req \in Requests, Encodable(req.amount), Agrees(c, Derived(c, req))
    PROVE  LET all == Derived(c, req)
               ix == Build(c, all)
           IN  MeantSpend(c, ix, Answer(ix, req), Taken(ix, req.program), all)
<1>. DEFINE all == Derived(c, req)
            ix == Build(c, all)
            got == Taken(ix, req.program)
<1>1. Addresses(req, all)
  BY DerivedSame
<1>. HIDE DEF all
<1>2. Instruction(ix, all) /\ (c # "fork" => Len(ix.accounts) = 9)
  BY BuiltSame
<1>. HIDE DEF ix
<1>3. Answer(ix, req) = (IF Repeats(ix.accounts) THEN VaultError.DuplicateAccount ELSE Ok)
  BY <1>1, <1>2, AnswerSame
<1>4. /\ all["amount"] = req["amount"] /\ all["program"] = req["program"] /\ req["amount"] \in Nat
  BY <1>1, RequestsAssumption DEF Addresses
<1>5. /\ DOMAIN got = Nine \union {"program", "amount"}
      /\ \A n \in Nine : got[n] = all[n]
      /\ got["program"] = req["program"] /\ got["amount"] = all["amount"]
  <2>1. all["amount"] \in Nat /\ Encodable(all["amount"])
    BY <1>4, Zenon
  <2>2. Takes(got, all, req.program)
    BY <1>2, <2>1, TakenSame
  <2>. QED
    BY <2>2, Zenon DEF Takes
<1>. HIDE DEF got
<1>6. ASSUME c \in {"cli", "web"} PROVE ~Repeats(ix.accounts)
  <2>1. \A a, b \in Nine : a # b => all[a] # all[b]
    BY <1>1, <1>6, ComparedDiffer, Zenon DEF all
  <2>2. DOMAIN ix.accounts = 1..9 /\ \A u \in 1..9 : ix.accounts[u] = all[ProgramOrder[u]]
    BY <1>2, <1>6 DEF Instruction
  <2>3. ASSUME NEW u \in 1..9, NEW j \in 1..9, ix.accounts[u] = ix.accounts[j] PROVE u = j
    <3>1. ProgramOrder[u] \in Nine /\ ProgramOrder[j] \in Nine
      BY Order, Zenon DEF Nine, ToSet
    <3>2. all[ProgramOrder[u]] = all[ProgramOrder[j]]
      BY <2>2, <2>3, Zenon
    <3>3. ProgramOrder[u] = ProgramOrder[j]
      BY <2>1, <3>1, <3>2, Zenon
    <3>. QED
      BY <3>3, Order, Zenon
  <2>. QED
    BY <2>2, <2>3, Zenon DEF Repeats, IsInjective
<1>7. c \in {"cli", "web"} => Answer(ix, req) = Ok
  BY <1>3, <1>6, Zenon
<1>8. \A n \in DOMAIN got : got[n] = all[n]
  BY <1>4, <1>5, Zenon
<1>9. \A n \in Changed : got[n] \in ix.writable
  <2>1. Changed \subseteq Nine
    BY DEF Changed, Nine
  <2>2. ix.writable = {all[n] : n \in Changed}
    BY <1>2 DEF Instruction
  <2>. QED
    BY <1>5, <2>1, <2>2, Zenon
<1>10. InPlace(ix.data, all["amount"])
  BY <1>2 DEF Instruction
<1>11. PresigOf(ix.data) = Field("sig", SigLen, 0)
  <2>1. ProgramReads["sig"] = <<26, SigLen>> /\ "sig" \in DOMAIN ProgramReads
    BY DEF ProgramReads
  <2>2. At(ix.data, 26, SigLen) = Field("sig", SigLen, all["amount"])
    BY <1>10, <2>1 DEF InPlace
  <2>3. Field("sig", SigLen, all["amount"]) = Field("sig", SigLen, 0)
    <3>1. "sig" # "amount"
      OBVIOUS
    <3>. QED
      BY <3>1, Zenon DEF Field
  <2>4. 2 + 16 + 8 = 26 /\ Len(ix.data) - 26 = SigLen
    <3>1. Len(ix.data) = 26 + SigLen /\ SigLen \in Nat
      BY <1>10, SMT DEF InPlace, ProgramDataLen, SigLen
    <3>. QED
      BY <3>1
  <2>5. PresigOf(ix.data) = At(ix.data, 26, SigLen)
    BY <2>4 DEF PresigOf
  <2>. QED
    BY <2>2, <2>3, <2>5, Zenon
<1>12. MeantSpend(c, ix, Answer(ix, req), got, all)
  BY <1>3, <1>7, <1>8, <1>9, <1>10, <1>11, Zenon DEF MeantSpend, InPlace
<1>. QED
  BY <1>12 DEF all, ix, got

\* The codes are named alike.
LEMMA ErrorsTold ==
    ASSUME NEW e \in DOMAIN VaultError
    PROVE  GeneratedErrors[VaultError[e]] = e /\ IdlErrors[VaultError[e]] = e
BY DEF VaultError, GeneratedErrors, IdlErrors

\* The program takes every client's spend as it was meant, and its errors as they are named.
THEOREM MeaningHolds == MessageSpec => []TakenAsMeant
<1>1. MessageInit => TakenAsMeant
  BY DEF MessageInit, NoUse, TakenAsMeant
<1>2. TakenAsMeant /\ [MessageNext]_use => TakenAsMeant'
  <2>. SUFFICES ASSUME TakenAsMeant, [MessageNext]_use PROVE TakenAsMeant'
    OBVIOUS
  <2>1. ASSUME NEW c \in Clients, NEW req \in Requests, Spend(c, req) PROVE TakenAsMeant'
    <3>. DEFINE all == Derived(c, req)
                ix == Build(c, all)
                answer == Answer(ix, req)
                got == Taken(ix, req.program)
    <3>1. Encodable(req.amount) /\ Agrees(c, all)
      BY <2>1 DEF Spend
    <3>2. MeantSpend(c, ix, answer, got, all)
      BY <3>1, SpendMeant
    <3>3. use' = [of |-> "spend", by |-> c, meant |-> all, ix |-> ix, answer |-> answer, got |-> got]
      BY <2>1 DEF Spend
    <3>. HIDE DEF all, ix, answer, got
    <3>4. /\ use'.of = "spend" /\ use'.by = c /\ use'.meant = all /\ use'.ix = ix /\ use'.answer = answer
          /\ use'.got = got
      BY <3>3
    <3>5. MeantSpend(use'.by, use'.ix, use'.answer, use'.got, use'.meant)
      BY <3>2, <3>4, Zenon
    <3>6. use'.of # "error"
      BY <3>4
    <3>. QED
      BY <3>5, <3>6, Zenon DEF TakenAsMeant, MeantSpend
  <2>2. ASSUME NEW e \in DOMAIN VaultError, Explain(e) PROVE TakenAsMeant'
    BY <2>2, ErrorsTold DEF Explain, TakenAsMeant
  <2>3. ASSUME NEW t \in Typed, Enter(t) PROVE TakenAsMeant'
    BY <2>3 DEF Enter, TakenAsMeant
  <2>4. ASSUME NEW v \in Shown, Display(v) PROVE TakenAsMeant'
    BY <2>4 DEF Display, TakenAsMeant
  <2>5. ASSUME NEW entries \in Lists, NEW zeros \in Paddings, Scan(entries, zeros) PROVE TakenAsMeant'
    BY <2>5 DEF Scan, TakenAsMeant
  <2>6. CASE UNCHANGED use
    BY <2>6 DEF TakenAsMeant
  <2>. QED
    BY <2>1, <2>2, <2>3, <2>4, <2>5, <2>6 DEF MessageNext
<1>. QED
  BY <1>1, <1>2, PTL DEF MessageSpec
=============================================================================
