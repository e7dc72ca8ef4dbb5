----------------------------- MODULE QcVaultProofs -----------------------------
(***************************************************************************)
(* Proofs about the vault program, for every set of vaults, holders,       *)
(* accounts, messages and transactions QcVault's assumptions allow.        *)
(*                                                                         *)
(* The inductive invariant has three parts, each proved on top of the one  *)
(* before: TypeOK; RentPaid, every open account and every marker holds     *)
(* what the network asks; MarkerTellsHistory, a PDA is a marker exactly    *)
(* when one spend of its vault has landed.  The last needs the second:     *)
(* Assign marks the vault only if the PDA keeps lamports.                  *)
(***************************************************************************)
EXTENDS VaultTests, Induction

\* The program makes twelve checks, and none of them fails with Success.
LEMMA ChecksShape ==
    ASSUME NEW t
    PROVE  /\ DOMAIN Checks(t) = 1..12
           /\ \A i \in 1..12 : Checks(t)[i].err # Success
  BY DEF Checks, BadInstruction, BadSignature, InsufficientBalance, NotATokenAccount, BadTokenProgram,
         DuplicateAccount, MissingOwnerSignature, AlreadySpent, Success

\* A transaction is accepted only if its vault is unspent and signed its message,
\* and its token account is the vault's own and holds the amount.
LEMMA VerdictSuccess ==
    ASSUME NEW t \in Transactions, Verdict(t) = Success
    PROVE  /\ DistinctAccounts(t)
           /\ t.d.vault \notin owned
           /\ t.d \in signed[t.d.vault]
           /\ t.ta = Ata(t.d.vault, t.d.mint)
           /\ t.ta \in open
           /\ t.d.amount <= balance[t.ta]
<1> DEFINE failed == {i \in DOMAIN Checks(t) : ~Checks(t)[i].ok}
<1>3. failed = {}
  <2>1. SUFFICES ASSUME failed # {} PROVE FALSE
    OBVIOUS
  <2>2. failed \in SUBSET Nat
    BY ChecksShape
  <2>3. Min(failed) \in 1..12
    BY <2>1, <2>2, MinIsMember, ChecksShape
  <2>4. Checks(t)[Min(failed)].err = Success
    BY <2>1 DEF Verdict
  <2>. QED
    BY <2>3, <2>4, ChecksShape
<1>4. \A i \in 1..12 : Checks(t)[i].ok
  BY <1>3, ChecksShape
<1>5. Checks(t)[2].ok /\ Checks(t)[5].ok /\ Checks(t)[8].ok /\ Checks(t)[10].ok /\ Checks(t)[11].ok /\ Checks(t)[12].ok
  BY <1>4
<1>. QED
  BY <1>5 DEF Checks, SignatureRecoversVault, Spent, IsVaultTokenAccount

-----------------------------------------------------------------------------
(***************************************************************************)
(* Type correctness.                                                       *)
(***************************************************************************)

\* A spend turns balances into balances.
LEMMA PayoutType ==
    ASSUME NEW S, NEW f \in [S -> Nat], NEW a \in S, NEW b \in S, NEW c \in S,
           NEW m \in Nat, NEW n \in Nat
    PROVE  [f EXCEPT ![a] = 0, ![b] = @ + m, ![c] = @ + n] \in [S -> Nat]
OBVIOUS

\* A spend lowers no balance but the emptied account's.
LEMMA PayoutGrows ==
    ASSUME NEW S, NEW f \in [S -> Nat], NEW a \in S, NEW b \in S, NEW c \in S,
           NEW m \in Nat, NEW n \in Nat, NEW x \in S \ {a}
    PROVE  [f EXCEPT ![a] = 0, ![b] = @ + m, ![c] = @ + n][x] >= f[x]
<1>1. CASE x = c /\ x = b
  BY <1>1
<1>2. CASE x = c /\ x # b
  BY <1>2
<1>3. CASE x # c /\ x = b
  BY <1>3
<1>4. CASE x # c /\ x # b
  BY <1>4
<1>. QED
  BY <1>1, <1>2, <1>3, <1>4

\* A transfer lowers no balance but the sender's.
LEMMA MoveGrows ==
    ASSUME NEW S, NEW f \in [S -> Nat], NEW a \in S, NEW b \in S \ {a},
           NEW n \in Nat, NEW x \in S \ {a}
    PROVE  [f EXCEPT ![a] = @ - n, ![b] = @ + n][x] >= f[x]
OBVIOUS

\* A transfer the sender can afford turns balances into balances.
LEMMA MoveType ==
    ASSUME NEW S, NEW f \in [S -> Nat], NEW a \in S, NEW b \in S \ {a},
           NEW n \in Nat, n <= f[a]
    PROVE  [f EXCEPT ![a] = @ - n, ![b] = @ + n] \in [S -> Nat]
OBVIOUS

\* Products of naturals are naturals, positive when both factors are.
LEMMA ProductType ==
    ASSUME NEW m \in Nat, NEW n \in Nat
    PROVE  /\ m * n \in Nat
           /\ m > 0 /\ n > 0 => m * n > 0
OBVIOUS

\* Rent minima are natural numbers, and the marker's is never zero.
LEMMA MinRentType ==
    ASSUME NEW r \in Rates
    PROVE  MinRent(r) \in Nat /\ MinRent(r) > 0 /\ TokenBytes * r \in Nat
<1>1. r \in Nat /\ r > 0
  BY RentAssumption
<1>. QED
  BY <1>1, RentAssumption, ProductType DEF MinRent

\* The parts of a transaction that lands, and the amounts it moves, have their
\* types; what the marker keeps is at most what the vault and its account held.
LEMMA SpendTypes ==
    ASSUME TypeOK, NEW t \in Transactions, Lands(t)
    PROVE  /\ t.d \in Digests /\ t.d.vault \in Vaults /\ t.d.mint \in Mints
           /\ t.ta \in Accounts /\ t.d.dest \in Accounts /\ t.d.refund \in Accounts
           /\ t.d.rentTo \in Receivers /\ t.d.amount \in Nat
           /\ Rest(t) \in Nat
           /\ Held(t) \in Nat /\ MarkerKeeps(Held(t)) \in Nat /\ Surplus(t) \in Nat
<1>1. /\ t.d \in Digests /\ t.d.vault \in Vaults /\ t.d.mint \in Mints
      /\ t.ta \in Accounts /\ t.d.dest \in Accounts /\ t.d.refund \in Accounts
      /\ t.d.rentTo \in Receivers /\ t.d.amount \in Nat
  BY DigestsAssumption DEF Transactions
<1>2. Rest(t) \in Nat
  BY <1>1, VerdictSuccess DEF Lands, Rest, TypeOK
<1>3. Held(t) \in Nat
  BY <1>1 DEF Held, TypeOK
<1>4. MinRent(rent.rate) \in Nat
  BY MinRentType DEF TypeOK
<1>5. MarkerKeeps(Held(t)) \in Nat /\ MarkerKeeps(Held(t)) <= Held(t)
  BY <1>3, <1>4 DEF MarkerKeeps
<1>6. Surplus(t) \in Nat
  BY <1>3, <1>5 DEF Surplus
<1>. QED
  BY <1>1, <1>2, <1>3, <1>5, <1>6

\* Every step keeps the type of every variable.
LEMMA TypeStep ==
    ASSUME TypeOK, [Next]_vars
    PROVE  TypeOK'
<1>1. ASSUME NEW t \in Transactions, Spend(t) PROVE TypeOK'
  <2>1. Lands(t)
    BY <1>1 DEF Spend
  <2>2. balance' \in [Accounts -> Nat]
    <3>1. /\ t.ta \in Accounts /\ t.d.dest \in Accounts /\ t.d.refund \in Accounts
          /\ t.d.amount \in Nat /\ Rest(t) \in Nat /\ balance \in [Accounts -> Nat]
      BY <2>1, SpendTypes DEF TypeOK
    <3>2. balance' = [balance EXCEPT ![t.ta] = 0, ![t.d.dest] = @ + t.d.amount,
                                     ![t.d.refund] = @ + Rest(t)]
      BY <1>1 DEF Spend
    <3>. QED
      BY <3>1, <3>2, PayoutType
  <2>3. /\ accountRent' \in [Accounts -> Nat]
        /\ vaultLamports' \in [Vaults -> Nat]
        /\ lamports' \in [Receivers -> Nat]
    <3>1. /\ t.d.vault \in Vaults /\ t.d.rentTo \in Receivers /\ t.ta \in Accounts
          /\ MarkerKeeps(Held(t)) \in Nat /\ Surplus(t) \in Nat
      BY <2>1, SpendTypes
    <3>2. accountRent' = [accountRent EXCEPT ![t.ta] = 0]
          /\ vaultLamports' = [vaultLamports EXCEPT ![t.d.vault] = MarkerKeeps(Held(t))]
          /\ lamports' = [lamports EXCEPT ![t.d.rentTo] = @ + Surplus(t)]
      BY <1>1 DEF Spend
    <3>. QED
      BY <3>1, <3>2 DEF TypeOK
  <2>4. landed' \in [Vaults -> Seq(Digests)]
    BY <1>1, <2>1, SpendTypes DEF Spend, TypeOK
  <2>5. open' \subseteq Accounts /\ owned' \subseteq Vaults
    <3>1. open' = open \ {t.ta} /\ owned' \subseteq owned \union {t.d.vault}
      BY <1>1 DEF Spend, MarkersAfter
    <3>. QED
      BY <2>1, <3>1, SpendTypes DEF TypeOK
  <2>6. memoRequired' \subseteq Accounts /\ signed' \in [Vaults -> SUBSET Digests]
        /\ rent' \in [rate: Rates, known: BOOLEAN]
    BY <1>1 DEF Spend, TypeOK
  <2>. QED
    BY <2>2, <2>3, <2>4, <2>5, <2>6 DEF TypeOK
<1>2. ASSUME NEW d \in Digests, Sign(d) PROVE TypeOK'
  BY <1>2, DigestsAssumption DEF Sign, ledger, TypeOK
<1>3. ASSUME NEW a \in Accounts, CreateAccount(a) PROVE TypeOK'
  <2>1. TokenBytes * rent.rate \in Nat
    BY MinRentType DEF TypeOK
  <2>. QED
    BY <1>3, <2>1 DEF CreateAccount, TypeOK
<1>4. ASSUME NEW a \in Accounts, CloseByHolder(a) PROVE TypeOK'
  BY <1>4 DEF CloseByHolder, TypeOK
<1>5. ASSUME NEW a \in Accounts, SwitchMemo(a) PROVE TypeOK'
  BY <1>5 DEF SwitchMemo, TypeOK
<1>6. ASSUME NEW from \in Accounts, NEW to \in Accounts \ {from},
             NEW n \in 1..balance[from], Transfer(from, to, n)
      PROVE  TypeOK'
  <2>1. balance' = [balance EXCEPT ![from] = @ - n, ![to] = @ + n]
    BY <1>6 DEF Transfer
  <2>2. n \in Nat /\ balance[from] \in Nat /\ n <= balance[from]
    BY DEF TypeOK
  <2>3. balance' \in [Accounts -> Nat]
    BY <2>1, <2>2, MoveType, Zenon DEF TypeOK
  <2>. QED
    BY <1>6, <2>3 DEF Transfer, TypeOK
<1>7. ASSUME NEW v \in Vaults, Prefund(v) PROVE TypeOK'
  <2>1. MinRent(rent.rate) \in Nat
    BY MinRentType DEF TypeOK
  <2>. QED
    BY <1>7, <2>1 DEF Prefund, TypeOK
<1>8. ASSUME NEW r \in [rate: Rates, known: BOOLEAN], ChangeRent(r) PROVE TypeOK'
  BY <1>8 DEF ChangeRent, ledger, TypeOK
<1>9. CASE UNCHANGED vars
  BY <1>9 DEF vars, ledger, TypeOK
<1>. QED
  BY <1>1, <1>2, <1>3, <1>4, <1>5, <1>6, <1>7, <1>8, <1>9 DEF Next

\* Every reachable ledger has its type.
THEOREM TypeCorrect == Spec => []TypeOK
<1>1. Init => TypeOK
  <2>. SUFFICES ASSUME Init PROVE TypeOK
    OBVIOUS
  <2>1. TokenBytes * rent.rate \in Nat
    BY MinRentType DEF Init
  <2>2. /\ open \subseteq Accounts
        /\ balance \in [Accounts -> Nat]
        /\ accountRent \in [Accounts -> Nat]
    BY <2>1, RentAssumption DEF Init
  <2>. QED
    BY <2>2 DEF Init, TypeOK
<1>. QED
  BY <1>1, TypeStep, PTL DEF Spec

-----------------------------------------------------------------------------
(***************************************************************************)
(* Rent.  Open token accounts and spent markers were paid for at a rate    *)
(* that was never lower than today's.                                      *)
(***************************************************************************)

\* A lower rate asks for no more lamports.
LEMMA ProductMonotonic ==
    ASSUME NEW k \in Nat, NEW m \in Nat, NEW n \in Nat, m <= n
    PROVE  k * m <= k * n
OBVIOUS

\* Open token accounts and spent markers are rent-exempt at today's rate.
RentPaid ==
    /\ \A a \in open : accountRent[a] >= TokenBytes * rent.rate
    /\ \A v \in owned : vaultLamports[v] >= MinRent(rent.rate)

\* The closed account alone pays for two empty accounts, so the marker keeps a
\* rent-exempt amount and Assign leaves it in place.
LEMMA MarkerSurvives ==
    ASSUME TypeOK, RentPaid, NEW t \in Transactions, t.ta \in open
    PROVE  /\ Held(t) >= 2 * MinRent(rent.rate)
           /\ MarkerKeeps(Held(t)) >= MinRent(rent.rate)
           /\ MarkersAfter(t) = owned \union {t.d.vault}
<1>1. /\ MinRent(rent.rate) \in Nat /\ MinRent(rent.rate) > 0
      /\ vaultLamports[t.d.vault] \in Nat /\ accountRent[t.ta] \in Nat
  BY MinRentType, DigestsAssumption DEF TypeOK, Transactions
<1>2. accountRent[t.ta] >= 2 * MinRent(rent.rate)
  <2>1. accountRent[t.ta] >= TokenBytes * rent.rate
    BY DEF RentPaid
  <2>2. rent.rate \in Nat
    BY RentAssumption DEF TypeOK
  <2>3. TokenBytes * rent.rate >= (2 * MarkerBytes) * rent.rate
    <3>1. rent.rate * (2 * MarkerBytes) <= rent.rate * TokenBytes
      BY <2>2, RentAssumption, ProductMonotonic
    <3>. QED
      BY <2>2, <3>1, RentAssumption
  <2>4. (2 * MarkerBytes) * rent.rate = 2 * MinRent(rent.rate)
    BY <2>2, RentAssumption DEF MinRent
  <2>. QED
    BY <1>1, <2>1, <2>2, <2>3, <2>4, RentAssumption, MinRentType DEF TypeOK
<1>3. Held(t) \in Nat /\ Held(t) >= 2 * MinRent(rent.rate)
  BY <1>1, <1>2 DEF Held
<1>4. MarkerKeeps(Held(t)) >= MinRent(rent.rate) /\ MarkerKeeps(Held(t)) \in Nat
  BY <1>1, <1>3 DEF MarkerKeeps
<1>. QED
  BY <1>1, <1>3, <1>4 DEF MarkersAfter

\* RentPaid holds in every reachable state: Spend leaves the marker enough, and
\* the network never raises its rate.
THEOREM RentInvariant == Spec => []RentPaid
<1>1. Init => RentPaid
  <2>. SUFFICES ASSUME Init PROVE RentPaid
    OBVIOUS
  <2>1. owned = {} /\ \A a \in open : accountRent[a] = TokenBytes * rent.rate
    BY DEF Init
  <2>2. TokenBytes * rent.rate \in Nat
    BY MinRentType DEF Init
  <2>. QED
    BY <2>1, <2>2 DEF RentPaid
<1>2. TypeOK /\ RentPaid /\ [Next]_vars => RentPaid'
  <2>. SUFFICES ASSUME TypeOK, RentPaid, [Next]_vars PROVE RentPaid'
    OBVIOUS
  <2>. DEFINE token == TokenBytes * rent.rate
  <2>0. /\ token \in Nat /\ MinRent(rent.rate) \in Nat
        /\ \A a \in open : accountRent[a] >= token
        /\ \A v \in owned : vaultLamports[v] >= MinRent(rent.rate)
    BY MinRentType DEF TypeOK, RentPaid
  <2>. HIDE DEF token
  <2>1. ASSUME NEW t \in Transactions, Spend(t) PROVE RentPaid'
    <3>1. Lands(t) /\ RentExemptAfter(t)
      BY <2>1 DEF Spend, Lands
    <3>2. /\ MarkerKeeps(Held(t)) >= MinRent(rent.rate)
          /\ MarkersAfter(t) = owned \union {t.d.vault}
          /\ t.d.vault \in Vaults /\ t.ta \in Accounts
      BY <3>1, SpendTypes, VerdictSuccess, MarkerSurvives DEF Lands
    <3>3. /\ open' = open \ {t.ta} /\ accountRent' = [accountRent EXCEPT ![t.ta] = 0]
          /\ owned' = owned \union {t.d.vault} /\ UNCHANGED rent
          /\ vaultLamports' = [vaultLamports EXCEPT ![t.d.vault] = MarkerKeeps(Held(t))]
      BY <2>1, <3>2 DEF Spend
    <3>4. \A a \in open' : accountRent'[a] >= token
      BY <2>0, <3>2, <3>3 DEF TypeOK
    <3>5. \A v \in owned' : vaultLamports'[v] >= MinRent(rent.rate)
      BY <2>0, <3>2, <3>3 DEF TypeOK
    <3>. QED
      BY <3>3, <3>4, <3>5 DEF RentPaid, MinRent, token
  <2>2. ASSUME NEW a \in Accounts, CreateAccount(a) PROVE RentPaid'
    <3>1. \A b \in open' : accountRent'[b] >= token
      BY <2>0, <2>2 DEF CreateAccount, TypeOK, token
    <3>. QED
      BY <2>0, <2>2, <3>1 DEF CreateAccount, RentPaid, MinRent, token
  <2>3. ASSUME NEW a \in Accounts, CloseByHolder(a) PROVE RentPaid'
    <3>1. \A b \in open' : accountRent'[b] >= token
      BY <2>0, <2>3 DEF CloseByHolder, TypeOK
    <3>. QED
      BY <2>0, <2>3, <3>1 DEF CloseByHolder, RentPaid, MinRent, token
  <2>4. ASSUME NEW v \in Vaults, Prefund(v) PROVE RentPaid'
    <3>1. \A u \in owned : vaultLamports'[u] >= MinRent(rent.rate)
      BY <2>0, <2>4 DEF Prefund, TypeOK
    <3>. QED
      BY <2>0, <2>4, <3>1 DEF Prefund, RentPaid, MinRent, token
  <2>5. ASSUME NEW r \in [rate: Rates, known: BOOLEAN], ChangeRent(r) PROVE RentPaid'
    <3>1. /\ r.rate \in Nat /\ rent.rate \in Nat /\ r.rate <= rent.rate /\ rent' = r
          /\ UNCHANGED <<open, accountRent, owned, vaultLamports>>
      BY <2>5, RentAssumption DEF ChangeRent, ledger, TypeOK
    <3>2. /\ TokenBytes * r.rate <= token /\ MinRent(r.rate) <= MinRent(rent.rate)
          /\ TokenBytes * r.rate \in Nat /\ MinRent(r.rate) \in Nat
      BY <3>1, RentAssumption, ProductMonotonic, MinRentType DEF MinRent, token
    <3>3. \A a \in open : accountRent[a] >= TokenBytes * r.rate
      BY <2>0, <3>2 DEF TypeOK
    <3>4. \A v \in owned : vaultLamports[v] >= MinRent(r.rate)
      BY <2>0, <3>2 DEF TypeOK
    <3>. QED
      BY <3>1, <3>3, <3>4 DEF RentPaid, MinRent
  <2>6. CASE UNCHANGED <<open, accountRent, owned, vaultLamports, rent>>
    BY <2>6 DEF RentPaid, MinRent
  <2>. QED
    BY <2>1, <2>2, <2>3, <2>4, <2>5, <2>6 DEF Next, Sign, SwitchMemo, Transfer, ledger, vars
<1>. QED
  BY <1>1, <1>2, TypeCorrect, PTL DEF Spec

-----------------------------------------------------------------------------
(***************************************************************************)
(* One spend per vault.  The property alone is not inductive: nothing in   *)
(* it stops a second spend of a vault whose first has landed.  The marker  *)
(* does, so the invariant ties the history to the marker.                  *)
(***************************************************************************)

\* A vault PDA is a marker exactly when one spend of its vault has landed.
MarkerTellsHistory ==
    \A v \in Vaults : \/ v \notin owned /\ landed[v] = <<>>
                      \/ v \in owned /\ Len(landed[v]) = 1

\* MarkerTellsHistory holds in every reachable state.
THEOREM MarkerInvariant == Spec => []MarkerTellsHistory
<1>1. Init => MarkerTellsHistory
  BY DEF Init, MarkerTellsHistory
<1>2. TypeOK /\ RentPaid /\ MarkerTellsHistory /\ [Next]_vars => MarkerTellsHistory'
  <2>. SUFFICES ASSUME TypeOK, RentPaid, MarkerTellsHistory, [Next]_vars, NEW v \in Vaults
                PROVE  \/ v \notin owned' /\ landed'[v] = <<>>
                       \/ v \in owned' /\ Len(landed'[v]) = 1
    BY DEF MarkerTellsHistory
  <2>1. ASSUME NEW t \in Transactions, Spend(t)
        PROVE  \/ v \notin owned' /\ landed'[v] = <<>>
               \/ v \in owned' /\ Len(landed'[v]) = 1
    <3>1. Lands(t) /\ Verdict(t) = Success
      BY <2>1 DEF Spend, Lands
    <3>2. t.d.vault \notin owned /\ t.d.vault \in Vaults /\ t.d \in Digests
      BY <3>1, VerdictSuccess, SpendTypes
    <3>3. landed[t.d.vault] = <<>>
      BY <3>2 DEF MarkerTellsHistory
    <3>4. owned' = owned \union {t.d.vault}
          /\ landed' = [landed EXCEPT ![t.d.vault] = Append(@, t.d)]
      BY <2>1, <3>1, VerdictSuccess, MarkerSurvives DEF Spend
    <3>5. CASE v = t.d.vault
      <4>1. landed'[v] = Append(<<>>, t.d)
        BY <3>2, <3>3, <3>4, <3>5 DEF TypeOK
      <4>2. Len(Append(<<>>, t.d)) = 1
        OBVIOUS
      <4>. QED
        BY <3>4, <3>5, <4>1, <4>2
    <3>6. CASE v # t.d.vault
      BY <3>4, <3>6 DEF MarkerTellsHistory, TypeOK
    <3>. QED
      BY <3>5, <3>6
  <2>2. CASE UNCHANGED <<owned, landed>>
    BY <2>2 DEF MarkerTellsHistory
  <2>3. (\A t \in Transactions : ~Spend(t)) => UNCHANGED <<owned, landed>>
    BY DEF Next, Sign, CreateAccount, CloseByHolder, SwitchMemo, Transfer, Prefund, ChangeRent,
           ledger, vars
  <2>. QED
    BY <2>1, <2>2, <2>3
<1>. QED
  BY <1>1, <1>2, TypeCorrect, RentInvariant, PTL DEF Spec

\* At most one spend of a vault lands, whatever its key signs and whoever
\* re-creates its token account.
THEOREM OneSpend == Spec => []OneSpendPerVault
<1>1. MarkerTellsHistory => OneSpendPerVault
  <2>. SUFFICES ASSUME MarkerTellsHistory, NEW v \in Vaults PROVE Len(landed[v]) <= 1
    BY DEF OneSpendPerVault
  <2>1. CASE landed[v] = <<>>
    <3>1. Len(<<>>) = 0
      OBVIOUS
    <3>. QED
      BY <2>1, <3>1
  <2>2. CASE Len(landed[v]) = 1
    BY <2>2
  <2>. QED
    BY <2>1, <2>2 DEF MarkerTellsHistory
<1>. QED
  BY <1>1, MarkerInvariant, PTL

\* The refusal of every later spend of a vault is AlreadySpent.
THEOREM Replays == Spec => []ReplayRefused
<1>1. TypeOK /\ MarkerTellsHistory => ReplayRefused
  <2>. SUFFICES ASSUME TypeOK, MarkerTellsHistory, NEW t \in Transactions,
                       Parses(t), landed[t.d.vault] # <<>>
                PROVE  Verdict(t) = AlreadySpent
    BY DEF ReplayRefused
  <2> DEFINE failed == {i \in DOMAIN Checks(t) : ~Checks(t)[i].ok}
  <2>1. t.d.vault \in owned
    BY DigestsAssumption DEF MarkerTellsHistory, Transactions
  <2>2. ~Checks(t)[5].ok /\ Checks(t)[5].err = AlreadySpent
    BY <2>1 DEF Checks, Spent
  <2>3. Checks(t)[1].ok /\ Checks(t)[2].ok /\ Checks(t)[3].ok /\ Checks(t)[4].ok
    BY DEF Checks, Parses
  <2>4. failed \in SUBSET Nat /\ 5 \in failed /\ \A i \in failed : 5 <= i
    <3>1. \A i \in failed : i \in 1..12 /\ i \notin {1, 2, 3, 4}
      BY <2>3, ChecksShape
    <3>2. 5 \in failed
      BY <2>2, ChecksShape
    <3>. QED
      BY <3>1, <3>2
  <2>5. Min(failed) = 5
    <3>1. Min(failed) \in failed /\ Min(failed) <= 5
      BY <2>4, MinIsMember
    <3>. QED
      BY <2>4, <3>1
  <2>. QED
    BY <2>2, <2>4, <2>5 DEF Verdict
<1>. QED
  BY <1>1, TypeCorrect, MarkerInvariant, PTL

\* The marker of a spent vault stays rent-exempt, so the network never purges it.
THEOREM MarkersStayRentExempt == Spec => []MarkerRentExempt
<1>1. RentPaid /\ MarkerTellsHistory => MarkerRentExempt
  BY DEF RentPaid, MarkerTellsHistory, MarkerRentExempt
<1>. QED
  BY <1>1, RentInvariant, MarkerInvariant, PTL

\* No memo switch, prefunded PDA, rent change or fresh rent receiver keeps a
\* proper spend from landing.
THEOREM ProperSpendsLand == Spec => []ProperSpendLands
<1>1. TypeOK /\ MarkerTellsHistory /\ RentPaid => ProperSpendLands
  <2>. SUFFICES ASSUME TypeOK, MarkerTellsHistory, RentPaid, NEW t \in Transactions, Proper(t)
                PROVE  Lands(t)
    BY DEF ProperSpendLands
  <2>1. /\ t.d.vault \in Vaults /\ t.ta \in Accounts /\ t.d.rentTo \in Receivers
        /\ t.d.amount \in Nat
    BY DigestsAssumption DEF Transactions
  <2>2. t.d.vault \notin owned
    <3>1. Len(<<>>) # 1
      OBVIOUS
    <3>. QED
      BY <2>1, <3>1 DEF MarkerTellsHistory, Proper
  <2>3. \A i \in 1..12 : Checks(t)[i].ok
    <3>1. /\ Checks(t)[1].ok /\ Checks(t)[2].ok /\ Checks(t)[3].ok /\ Checks(t)[4].ok
          /\ Checks(t)[6].ok /\ Checks(t)[7].ok /\ Checks(t)[9].ok /\ Checks(t)[10].ok
      BY DEF Checks, Proper, Parses, IsVaultTokenAccount
    <3>2. Checks(t)[5].ok /\ Checks(t)[8].ok
      BY <2>2 DEF Checks, Proper, SignatureRecoversVault, Spent
    <3>3. Checks(t)[11].ok /\ Checks(t)[12].ok
      BY DEF Checks, Proper
    <3>. QED
      BY <3>1, <3>2, <3>3
  <2>4. Verdict(t) = Success
    BY <2>3, ChecksShape DEF Verdict
  <2>5. TransfersSucceed(t)
    BY DEF TransfersSucceed, CanReceive, Proper
  <2>6. RentExemptAfter(t)
    <3>1. /\ MinRent(rent.rate) \in Nat
          /\ vaultLamports[t.d.vault] \in Nat /\ accountRent[t.ta] \in Nat
          /\ lamports[t.d.rentTo] \in Nat
      BY <2>1, MinRentType DEF TypeOK
    <3>2. Held(t) >= 2 * MinRent(rent.rate) /\ MarkerKeeps(Held(t)) >= MinRent(rent.rate)
      BY MarkerSurvives DEF Proper
    <3>3. Held(t) \in Nat
      BY <3>1 DEF Held
    <3>. QED
      BY <3>1, <3>2, <3>3 DEF RentExemptAfter, MarkerKeeps, Surplus
  <2>. QED
    BY <2>4, <2>5, <2>6 DEF Lands
<1>. QED
  BY <1>1, TypeCorrect, MarkerInvariant, RentInvariant, PTL

-----------------------------------------------------------------------------
(***************************************************************************)
(* What a step may do to the tokens of a vault.                            *)
(***************************************************************************)

\* A spend that lands takes from the token account its message names, which is
\* the vault's; payee and refund are other accounts and lose nothing.
LEMMA SpendMoves ==
    ASSUME TypeOK, RentPaid, NEW t \in Transactions, Spend(t)
    PROVE  /\ owned' = owned \union {t.d.vault}
           /\ t.ta = Ata(t.d.vault, t.d.mint) /\ t.ta.holder = t.d.vault
           /\ t.d \in signed[t.d.vault] /\ t.d.vault \notin owned
           /\ balance' = [balance EXCEPT ![t.ta] = 0,
                                         ![t.d.dest] = @ + t.d.amount,
                                         ![t.d.refund] = @ + (balance[t.ta] - t.d.amount)]
           /\ \A a \in Accounts \ {t.ta} : balance'[a] >= balance[a]
<1>1. Lands(t) /\ Verdict(t) = Success
  BY DEF Spend, Lands
<1>2. /\ t.ta = Ata(t.d.vault, t.d.mint) /\ t.ta.holder = t.d.vault
      /\ t.d \in signed[t.d.vault] /\ t.d.vault \notin owned
      /\ DistinctAccounts(t)
  BY <1>1, VerdictSuccess DEF Ata
<1>3. balance' = [balance EXCEPT ![t.ta] = 0, ![t.d.dest] = @ + t.d.amount,
                                 ![t.d.refund] = @ + Rest(t)]
  BY DEF Spend
<1>4. /\ t.ta \in Accounts /\ t.d.dest \in Accounts /\ t.d.refund \in Accounts
      /\ t.d.amount \in Nat /\ Rest(t) \in Nat
  BY <1>1, SpendTypes
<1>5. \A a \in Accounts \ {t.ta} : balance'[a] >= balance[a]
  <2>1. balance \in [Accounts -> Nat]
    BY DEF TypeOK
  <2>. QED
    BY <1>3, <1>4, <2>1, PayoutGrows
<1>6. owned' = owned \union {t.d.vault}
  BY <1>1, VerdictSuccess, MarkerSurvives DEF Spend
<1>. QED
  BY <1>2, <1>3, <1>5, <1>6 DEF Rest

\* Every step but a spend leaves the markers and the history alone, and takes
\* tokens from ordinary holders only.
LEMMA OtherSteps ==
    ASSUME TypeOK, [Next]_vars, \A t \in Transactions : ~Spend(t)
    PROVE  /\ UNCHANGED <<owned, landed>>
           /\ \A a \in Accounts : a.holder \in Vaults => balance'[a] >= balance[a]
<1>1. CASE \E from \in Accounts : \E to \in Accounts \ {from} :
               \E n \in 1..balance[from] : Transfer(from, to, n)
  <2>0. PICK from \in Accounts : \E to \in Accounts \ {from} :
             \E n \in 1..balance[from] : Transfer(from, to, n)
    BY <1>1
  <2>1. PICK to \in Accounts \ {from}, n \in 1..balance[from] : Transfer(from, to, n)
    BY <2>0
  <2>2. from.holder \notin Vaults
    BY <2>1, AccountsAssumption DEF Transfer
  <2>3. /\ balance \in [Accounts -> Nat] /\ n \in Nat
        /\ balance' = [balance EXCEPT ![from] = @ - n, ![to] = @ + n]
        /\ UNCHANGED <<owned, landed>>
    BY <2>1 DEF Transfer, TypeOK
  <2>4. \A a \in Accounts \ {from} : balance'[a] >= balance[a]
    BY <2>3, MoveGrows
  <2>. QED
    BY <2>2, <2>3, <2>4
<1>2. CASE UNCHANGED <<owned, landed, balance>>
  BY <1>2 DEF TypeOK
<1>. QED
  BY <1>1, <1>2 DEF Next, Sign, CreateAccount, CloseByHolder, SwitchMemo, Prefund, ChangeRent,
                    ledger, vars

\* A spent vault is spent for ever and keeps whatever reaches it later.
THEOREM SpentVaultsKeepTokens == Spec => SpentIsFinal
<1>1. TypeOK /\ RentPaid /\ [Next]_vars => [SpentIsFinalStep]_vars
  <2>. SUFFICES ASSUME TypeOK, RentPaid, [Next]_vars, NEW v \in owned
                PROVE  /\ v \in owned'
                       /\ \A a \in Accounts : a.holder = v => balance'[a] >= balance[a]
    BY DEF SpentIsFinalStep
  <2>1. ASSUME NEW t \in Transactions, Spend(t)
        PROVE  /\ v \in owned'
               /\ \A a \in Accounts : a.holder = v => balance'[a] >= balance[a]
    <3>1. v \in owned' /\ t.ta.holder # v
      BY <2>1, SpendMoves DEF Spend
    <3>2. \A a \in Accounts \ {t.ta} : balance'[a] >= balance[a]
      BY <2>1, SpendMoves
    <3>. QED
      BY <3>1, <3>2
  <2>2. v \in Vaults
    BY DEF TypeOK
  <2>. QED
    BY <2>1, <2>2, OtherSteps
<1>. QED
  BY <1>1, TypeCorrect, RentInvariant, PTL DEF Spec, SpentIsFinal

\* Tokens leave the accounts of a vault only as its key signed.
THEOREM TokensLeaveAsSigned == Spec => OnlyAsSigned
<1>1. TypeOK /\ RentPaid /\ [Next]_vars => [OnlyAsSignedStep]_vars
  <2>. SUFFICES ASSUME TypeOK, RentPaid, [Next]_vars,
                       NEW a \in Accounts, a.holder \in Vaults, balance'[a] < balance[a]
                PROVE  \E d \in signed[a.holder] :
                           /\ landed' = [landed EXCEPT ![a.holder] = Append(@, d)]
                           /\ a = Ata(a.holder, d.mint)
                           /\ balance' = [balance EXCEPT
                                  ![a] = 0,
                                  ![d.dest] = @ + d.amount,
                                  ![d.refund] = @ + (balance[a] - d.amount)]
    BY DEF OnlyAsSignedStep
  <2>1. balance[a] \in Nat /\ (balance'[a] >= balance[a] => FALSE)
    <3>1. balance' \in [Accounts -> Nat]
      BY TypeStep DEF TypeOK
    <3>. QED
      BY <3>1 DEF TypeOK
  <2>2. PICK t \in Transactions : Spend(t)
    BY <2>1, OtherSteps
  <2>3. a = t.ta
    BY <2>1, <2>2, SpendMoves
  <2>4. /\ t.d \in signed[a.holder]
        /\ landed' = [landed EXCEPT ![a.holder] = Append(@, t.d)]
        /\ a = Ata(a.holder, t.d.mint)
    BY <2>2, <2>3, SpendMoves DEF Spend
  <2>. QED
    BY <2>2, <2>3, <2>4, SpendMoves
<1>. QED
  BY <1>1, TypeCorrect, RentInvariant, PTL DEF Spec, OnlyAsSigned

-----------------------------------------------------------------------------
(***************************************************************************)
(* Lamports.                                                               *)
(***************************************************************************)

\* Totals are the sums whose rules Induction proves.
LEMMA TotalIsSum == ASSUME NEW f, NEW S PROVE Total(f, S) = Sum(f, S)
BY DEF Total, Sum

\* What the closed account and the PDA lose, marker and rent_to have.
LEMMA SpendBalances ==
    ASSUME TypeOK, NEW t \in Transactions, Spend(t)
    PROVE  Lamports' = Lamports
<1>. DEFINE v == t.d.vault
            w == t.d.rentTo
            keeps == MarkerKeeps(Held(t))
<1>1. /\ t.ta \in Accounts /\ v \in Vaults /\ w \in Receivers
      /\ keeps \in Nat /\ Surplus(t) \in Nat
  BY SpendTypes DEF Spend
<1>2. /\ accountRent \in [Accounts -> Nat]
      /\ vaultLamports \in [Vaults -> Nat]
      /\ lamports \in [Receivers -> Nat]
  BY DEF TypeOK
<1>3. /\ accountRent' = [accountRent EXCEPT ![t.ta] = 0]
      /\ vaultLamports' = [vaultLamports EXCEPT ![v] = keeps]
      /\ lamports' = [lamports EXCEPT ![w] = @ + Surplus(t)]
  BY DEF Spend
<1>4. vaultLamports[v] + accountRent[t.ta] = keeps + Surplus(t)
  BY <1>1, <1>2 DEF Surplus, Held
<1>. HIDE DEF v, w, keeps
<1>5. Sum(accountRent', Accounts) + accountRent[t.ta] = Sum(accountRent, Accounts)
      /\ Sum(accountRent', Accounts) \in Nat /\ Sum(accountRent, Accounts) \in Nat
  <2>1. /\ accountRent'[t.ta] = 0
        /\ \A a \in Accounts : accountRent[a] \in Nat /\ accountRent'[a] \in Nat
        /\ \A a \in Accounts : t.ta # a => accountRent'[a] = accountRent[a]
    BY <1>1, <1>2, <1>3
  <2>2. Sum(accountRent', Accounts) + accountRent[t.ta] = Sum(accountRent, Accounts) + accountRent'[t.ta]
        /\ Sum(accountRent', Accounts) \in Nat /\ Sum(accountRent, Accounts) \in Nat
    BY <1>1, <2>1, SumChange, AccountsAssumption
  <2>. QED
    BY <2>1, <2>2
<1>6. Sum(vaultLamports', Vaults) + vaultLamports[v] = Sum(vaultLamports, Vaults) + keeps
      /\ Sum(vaultLamports', Vaults) \in Nat /\ Sum(vaultLamports, Vaults) \in Nat
  <2>1. /\ vaultLamports'[v] = keeps
        /\ \A a \in Vaults : vaultLamports[a] \in Nat /\ vaultLamports'[a] \in Nat
        /\ \A a \in Vaults : v # a => vaultLamports'[a] = vaultLamports[a]
    BY <1>1, <1>2, <1>3
  <2>2. Sum(vaultLamports', Vaults) + vaultLamports[v] = Sum(vaultLamports, Vaults) + vaultLamports'[v]
        /\ Sum(vaultLamports', Vaults) \in Nat /\ Sum(vaultLamports, Vaults) \in Nat
    BY <1>1, <2>1, SumChange, AccountsAssumption
  <2>. QED
    BY <2>1, <2>2
<1>7. Sum(lamports', Receivers) = Sum(lamports, Receivers) + Surplus(t)
      /\ Sum(lamports', Receivers) \in Nat /\ Sum(lamports, Receivers) \in Nat
  <2>1. /\ lamports'[w] = lamports[w] + Surplus(t) /\ lamports[w] \in Nat
        /\ \A a \in Receivers : lamports[a] \in Nat /\ lamports'[a] \in Nat
        /\ \A a \in Receivers : w # a => lamports'[a] = lamports[a]
    BY <1>1, <1>2, <1>3
  <2>2. Sum(lamports', Receivers) + lamports[w] = Sum(lamports, Receivers) + lamports'[w]
        /\ Sum(lamports', Receivers) \in Nat /\ Sum(lamports, Receivers) \in Nat
    BY <1>1, <2>1, SumChange, AccountsAssumption
  <2>. QED
    BY <1>1, <2>1, <2>2
<1>8. accountRent[t.ta] \in Nat /\ vaultLamports[v] \in Nat
  BY <1>1, <1>2
<1>9. /\ Lamports = Sum(accountRent, Accounts) + Sum(vaultLamports, Vaults) + Sum(lamports, Receivers)
      /\ Lamports' = Sum(accountRent', Accounts) + Sum(vaultLamports', Vaults) + Sum(lamports', Receivers)
  BY TotalIsSum DEF Lamports
<1>10. \A a, b, c, d, e, f, p, q, r, s \in Nat :
           b + p = a /\ d + q = c + r /\ f = e + s /\ q + p = r + s => b + d + f = a + c + e
  OBVIOUS
<1>. QED
  BY <1>1, <1>4, <1>5, <1>6, <1>7, <1>8, <1>9, <1>10

\* A spend neither loses nor creates lamports.
THEOREM SpendsKeepLamports == Spec => SpendKeepsLamports
<1>1. TypeOK /\ [Next]_vars => [SpendKeepsLamportsStep]_vars
  BY SpendBalances, OtherSteps DEF SpendKeepsLamportsStep
<1>. QED
  BY <1>1, TypeCorrect, PTL DEF Spec, SpendKeepsLamports

-----------------------------------------------------------------------------
(***************************************************************************)
(* The program implements the one-shot vault.                              *)
(***************************************************************************)

\* Every behaviour of the program, with rent, memos, prefunding and account
\* creation, is a behaviour of the one-shot vault: a spend is its Pay, a transfer
\* its Move, and everything else stutters.
THEOREM Implementation == Spec => ImplementsOneShotVault
<1>1. Init => Abstract!Init
  <2>. SUFFICES ASSUME Init PROVE Abstract!Init
    OBVIOUS
  <2>1. balance \in [Accounts -> Nat]
    BY RentAssumption DEF Init
  <2>. QED
    BY <2>1 DEF Init, Abstract!Init
<1>2. TypeOK /\ RentPaid /\ [Next]_vars => [Abstract!Next]_(Abstract!vars)
  <2>. SUFFICES ASSUME TypeOK, RentPaid, [Next]_vars PROVE [Abstract!Next]_(Abstract!vars)
    OBVIOUS
  <2>. USE DEF Abstract!Next, Abstract!vars
  <2>1. ASSUME NEW t \in Transactions, Spend(t) PROVE Abstract!Next
    <3>1. t.d \in Digests /\ t.d.amount <= balance[t.ta]
      BY <2>1, SpendTypes, VerdictSuccess DEF Spend, Lands
    <3>2. owned' = owned \union {t.d.vault} /\ UNCHANGED signed
      BY <2>1, SpendMoves DEF Spend
    <3>3. Abstract!Pay(t.d)
      BY <2>1, <3>1, <3>2, SpendMoves DEF Abstract!Pay, Abstract!Ata, Ata
    <3>. QED
      BY <3>1, <3>3
  <2>2. ASSUME NEW d \in Digests, Sign(d) PROVE Abstract!Next
    <3>1. Abstract!Sign(d)
      BY <2>2 DEF Sign, ledger, Abstract!Sign
    <3>. QED
      BY <3>1
  <2>3. ASSUME NEW from \in Accounts, NEW to \in Accounts \ {from},
               NEW n \in 1..balance[from], Transfer(from, to, n)
        PROVE  Abstract!Next
    <3>1. from.holder \notin Vaults
      BY <2>3, AccountsAssumption DEF Transfer
    <3>2. Abstract!Move(from, to, n)
      BY <2>3, <3>1 DEF Transfer, Abstract!Move
    <3>. QED
      BY <3>2
  <2>4. CASE UNCHANGED <<balance, signed, owned>>
    BY <2>4
  <2>. QED
    BY <2>1, <2>2, <2>3, <2>4
       DEF Next, CreateAccount, CloseByHolder, SwitchMemo, Prefund, ChangeRent, ledger, vars
<1>. QED
  BY <1>1, <1>2, TypeCorrect, RentInvariant, PTL DEF Spec, ImplementsOneShotVault, Abstract!Spec

-----------------------------------------------------------------------------
(***************************************************************************)
(* The answers.  What the program says is decided by the first check that  *)
(* fails, so every expectation of the suites is a question of which one.   *)
(***************************************************************************)

\* The answer is the error of the first of the checks that fails, or Success.
LEMMA FirstFailure ==
    ASSUME NEW t
    PROVE  /\ \A i \in 1..12 :
                  ~Checks(t)[i].ok /\ (\A j \in 1..12 : j < i => Checks(t)[j].ok)
                      => Verdict(t) = Checks(t)[i].err
           /\ (\A i \in 1..12 : Checks(t)[i].ok) <=> Verdict(t) = Success
<1> DEFINE failed == {i \in DOMAIN Checks(t) : ~Checks(t)[i].ok}
<1>1. failed \in SUBSET Nat /\ failed \subseteq 1..12
  BY ChecksShape
<1>2. ASSUME NEW i \in 1..12, ~Checks(t)[i].ok, \A j \in 1..12 : j < i => Checks(t)[j].ok
      PROVE  Verdict(t) = Checks(t)[i].err
  <2>1. i \in failed /\ \A j \in failed : i <= j
    BY <1>1, <1>2, ChecksShape
  <2>2. Min(failed) \in failed /\ Min(failed) <= i
    BY <1>1, <2>1, MinIsMember
  <2>3. Min(failed) = i
    BY <1>1, <2>1, <2>2
  <2>. QED
    BY <2>1, <2>3 DEF Verdict
<1>3. ASSUME \A i \in 1..12 : Checks(t)[i].ok PROVE Verdict(t) = Success
  BY <1>3, ChecksShape DEF Verdict
<1>4. ASSUME Verdict(t) = Success, NEW i \in 1..12, ~Checks(t)[i].ok PROVE FALSE
  <2>1. i \in failed
    BY <1>4, ChecksShape
  <2>2. Min(failed) \in 1..12
    BY <1>1, <2>1, MinIsMember
  <2>3. Checks(t)[Min(failed)].err = Success
    BY <1>4, <2>1 DEF Verdict
  <2>. QED
    BY <2>2, <2>3, ChecksShape
<1>. QED
  BY <1>2, <1>3, <1>4

\* The first five checks: what the program can read of a transaction, and the marker.
Readable(t) == t.env.count \in {9, 10} /\ DistinctAccounts(t) /\ t.env.data /\ t.env.memo # "other"
\* The first eight: readable, unspent, and signed by both keys of the vault.
Authorised(t) == Readable(t) /\ ~Spent(t) /\ t.env.system /\ t.env.owner /\ SignatureRecoversVault(t)
\* The first ten: the account drained is the vault's own.
OwnAccount(t) == Authorised(t) /\ t.env.tokenProgram /\ IsVaultTokenAccount(t)

\* The order of the checks, one line for each answer.
LEMMA Answers ==
    ASSUME NEW t
    PROVE  /\ t.env.count \notin {9, 10} => Verdict(t) = BadInstruction
           /\ t.env.count \in {9, 10} /\ ~DistinctAccounts(t) => Verdict(t) = DuplicateAccount
           /\ t.env.count \in {9, 10} /\ DistinctAccounts(t) /\ ~(t.env.data /\ t.env.memo # "other")
                  => Verdict(t) = BadInstruction
           /\ Readable(t) /\ Spent(t) => Verdict(t) = AlreadySpent
           /\ Readable(t) /\ ~Spent(t) /\ ~t.env.system => Verdict(t) = BadInstruction
           /\ Readable(t) /\ ~Spent(t) /\ t.env.system /\ ~t.env.owner
                  => Verdict(t) = MissingOwnerSignature
           /\ Readable(t) /\ ~Spent(t) /\ t.env.system /\ t.env.owner /\ ~SignatureRecoversVault(t)
                  => Verdict(t) = BadSignature
           /\ Authorised(t) /\ ~t.env.tokenProgram => Verdict(t) = BadTokenProgram
           /\ Authorised(t) /\ t.env.tokenProgram /\ ~IsVaultTokenAccount(t)
                  => Verdict(t) = NotATokenAccount
           /\ OwnAccount(t) /\ t.ta \notin open => Verdict(t) = NotATokenAccount
           /\ OwnAccount(t) /\ t.ta \in open /\ ~(t.d.amount <= balance[t.ta])
                  => Verdict(t) = InsufficientBalance
           /\ OwnAccount(t) /\ t.ta \in open /\ t.d.amount <= balance[t.ta] <=> Verdict(t) = Success
<1>. DEFINE ok == {i \in 1..12 : Checks(t)[i].ok}
<1>1. /\ 1 \in ok <=> t.env.count \in {9, 10}
      /\ 2 \in ok <=> DistinctAccounts(t)
      /\ 3 \in ok <=> t.env.data
      /\ 4 \in ok <=> t.env.memo # "other"
      /\ 5 \in ok <=> ~Spent(t)
      /\ 6 \in ok <=> t.env.system
      /\ 7 \in ok <=> t.env.owner
      /\ 8 \in ok <=> SignatureRecoversVault(t)
      /\ 9 \in ok <=> t.env.tokenProgram
      /\ 10 \in ok <=> IsVaultTokenAccount(t)
      /\ 11 \in ok <=> t.ta \in open
      /\ 12 \in ok <=> t.d.amount <= balance[t.ta]
  <2>1. \A i \in 1..12 : i \in ok <=> Checks(t)[i].ok
    OBVIOUS
  <2>. HIDE DEF ok
  <2>2. /\ Checks(t)[1].ok <=> t.env.count \in {9, 10}
        /\ Checks(t)[2].ok <=> DistinctAccounts(t)
        /\ Checks(t)[3].ok <=> t.env.data
        /\ Checks(t)[4].ok <=> t.env.memo # "other"
    BY DEF Checks, DistinctAccounts
  <2>3. /\ Checks(t)[5].ok <=> ~Spent(t)
        /\ Checks(t)[6].ok <=> t.env.system
        /\ Checks(t)[7].ok <=> t.env.owner
        /\ Checks(t)[8].ok <=> SignatureRecoversVault(t)
    BY DEF Checks, Spent, SignatureRecoversVault
  <2>4. /\ Checks(t)[9].ok <=> t.env.tokenProgram
        /\ Checks(t)[10].ok <=> IsVaultTokenAccount(t)
        /\ Checks(t)[11].ok <=> t.ta \in open
        /\ Checks(t)[12].ok <=> t.d.amount <= balance[t.ta]
    BY DEF Checks, IsVaultTokenAccount
  <2>. QED
    BY <2>1, <2>2, <2>3, <2>4
<1>2. \A i \in 1..12 : i \notin ok /\ (\A j \in 1..12 : j < i => j \in ok) => Verdict(t) = Checks(t)[i].err
  BY FirstFailure
<1>3. (\A i \in 1..12 : i \in ok) <=> Verdict(t) = Success
  BY FirstFailure
<1>. HIDE DEF ok
<1>4. /\ 1 \notin ok => Verdict(t) = Checks(t)[1].err
      /\ 1 \in ok /\ 2 \notin ok => Verdict(t) = Checks(t)[2].err
      /\ 1 \in ok /\ 2 \in ok /\ 3 \notin ok => Verdict(t) = Checks(t)[3].err
      /\ 1 \in ok /\ 2 \in ok /\ 3 \in ok /\ 4 \notin ok => Verdict(t) = Checks(t)[4].err
  BY <1>2
<1>5. 1 \in ok /\ 2 \in ok /\ 3 \in ok /\ 4 \in ok =>
          /\ 5 \notin ok => Verdict(t) = Checks(t)[5].err
          /\ 5 \in ok /\ 6 \notin ok => Verdict(t) = Checks(t)[6].err
          /\ 5 \in ok /\ 6 \in ok /\ 7 \notin ok => Verdict(t) = Checks(t)[7].err
          /\ 5 \in ok /\ 6 \in ok /\ 7 \in ok /\ 8 \notin ok => Verdict(t) = Checks(t)[8].err
  BY <1>2
<1>6. 1 \in ok /\ 2 \in ok /\ 3 \in ok /\ 4 \in ok /\ 5 \in ok /\ 6 \in ok /\ 7 \in ok /\ 8 \in ok =>
          /\ 9 \notin ok => Verdict(t) = Checks(t)[9].err
          /\ 9 \in ok /\ 10 \notin ok => Verdict(t) = Checks(t)[10].err
          /\ 9 \in ok /\ 10 \in ok /\ 11 \notin ok => Verdict(t) = Checks(t)[11].err
          /\ 9 \in ok /\ 10 \in ok /\ 11 \in ok /\ 12 \notin ok => Verdict(t) = Checks(t)[12].err
  BY <1>2
<1>7. Verdict(t) = Success <=>
          /\ 1 \in ok /\ 2 \in ok /\ 3 \in ok /\ 4 \in ok /\ 5 \in ok /\ 6 \in ok
          /\ 7 \in ok /\ 8 \in ok /\ 9 \in ok /\ 10 \in ok /\ 11 \in ok /\ 12 \in ok
  BY <1>3
<1>8. /\ Checks(t)[1].err = BadInstruction /\ Checks(t)[2].err = DuplicateAccount
      /\ Checks(t)[3].err = BadInstruction /\ Checks(t)[4].err = BadInstruction
      /\ Checks(t)[5].err = AlreadySpent /\ Checks(t)[6].err = BadInstruction
      /\ Checks(t)[7].err = MissingOwnerSignature /\ Checks(t)[8].err = BadSignature
      /\ Checks(t)[9].err = BadTokenProgram /\ Checks(t)[10].err = NotATokenAccount
      /\ Checks(t)[11].err = NotATokenAccount /\ Checks(t)[12].err = InsufficientBalance
  BY DEF Checks
<1>9. /\ Readable(t) <=> 1 \in ok /\ 2 \in ok /\ 3 \in ok /\ 4 \in ok
      /\ Authorised(t) <=> Readable(t) /\ 5 \in ok /\ 6 \in ok /\ 7 \in ok /\ 8 \in ok
      /\ OwnAccount(t) <=> Authorised(t) /\ 9 \in ok /\ 10 \in ok
  BY <1>1 DEF Readable, Authorised, OwnAccount
<1>. QED
  BY <1>1, <1>4, <1>5, <1>6, <1>7, <1>8, <1>9, Zenon

\* A transaction that would land has every part in order, so each single change
\* is answered with the error of the check that looks at the part changed.
LEMMA MutationsAnswered ==
    ASSUME TypeOK, NEW t \in Transactions, Lands(t), NEW c \in Mutations(t)
    PROVE  Answer(c.tx) = c.answer
<1>0. t \in [d: Digests, ta: Accounts, env: Envelopes]
  BY DEF Transactions
<1>1. OwnAccount(t) /\ t.ta \in open /\ t.d.amount <= balance[t.ta]
  BY Answers DEF Lands
<1>2. /\ t.env.count \in {9, 10} /\ DistinctAccounts(t) /\ t.env.data /\ t.env.memo # "other"
      /\ t.d.vault \notin owned /\ t.env.system /\ t.env.owner
      /\ t.env.bump /\ t.d \in signed[t.d.vault] /\ t.env.tokenProgram /\ t.ta = Ata(t.d.vault, t.d.mint)
  BY <1>1 DEF OwnAccount, Authorised, Readable, Spent, SignatureRecoversVault, IsVaultTokenAccount
<1>3. SUFFICES Verdict(c.tx) = c.answer /\ c.answer # Success
  BY DEF Answer
<1>4. t.d \in [vault: Vaults, mint: Mints, dest: Accounts, refund: Accounts,
               rentTo: Receivers, amount: Nat]
  BY DigestsAssumption DEF Transactions
<1>5. t.env \in [count: Nat, data: BOOLEAN, memo: {"none", "memo", "other"}, system: BOOLEAN,
                 tokenProgram: BOOLEAN, owner: BOOLEAN, bump: BOOLEAN]
  BY EnvelopesAssumption DEF Transactions
<1>6. /\ BadInstruction # Success /\ BadSignature # Success /\ NotATokenAccount # Success
      /\ BadTokenProgram # Success /\ DuplicateAccount # Success /\ MissingOwnerSignature # Success
  BY DEF BadInstruction, BadSignature, NotATokenAccount, BadTokenProgram, DuplicateAccount,
         MissingOwnerSignature, Success
<1>7. ASSUME NEW d, d.vault \notin owned, d \notin signed[d.vault],
             DistinctAccounts([t EXCEPT !.d = d])
      PROVE  Verdict([t EXCEPT !.d = d]) = BadSignature
  <2> DEFINE u == [t EXCEPT !.d = d]
  <2>1. u.d = d /\ u.ta = t.ta /\ u.env = t.env
    BY <1>0
  <2>2. Readable(u) /\ ~Spent(u) /\ u.env.system /\ u.env.owner /\ ~SignatureRecoversVault(u)
    BY <1>2, <1>7, <2>1 DEF Readable, Spent, SignatureRecoversVault
  <2>. QED
    BY <2>2, Answers
<1>8. CASE c \in Redirected(t)
  <2>1. PICK d \in Swaps(t.d) : /\ DistinctAccounts([t EXCEPT !.d = d]) /\ d \notin signed[d.vault]
                                /\ c = Case([t EXCEPT !.d = d], BadSignature)
    BY <1>8 DEF Redirected, With
  <2>2. d.vault \notin owned
    BY <1>2, <1>4, <2>1 DEF Swaps
  <2>. QED
    BY <1>6, <1>7, <2>1, <2>2 DEF Case
<1>9. CASE c \in Transplanted(t)
  <2>1. PICK v \in Vaults \ owned : /\ [t.d EXCEPT !.vault = v] \notin signed[[t.d EXCEPT !.vault = v].vault]
                                    /\ c = Case([t EXCEPT !.d = [t.d EXCEPT !.vault = v]], BadSignature)
    BY <1>9 DEF Transplanted, With
  <2>2. [t.d EXCEPT !.vault = v].vault = v /\ [t.d EXCEPT !.vault = v].dest = t.d.dest
        /\ [t.d EXCEPT !.vault = v].refund = t.d.refund
    BY <1>4
  <2>3. DistinctAccounts([t EXCEPT !.d = [t.d EXCEPT !.vault = v]])
    BY <1>0, <1>2, <2>2 DEF DistinctAccounts
  <2>. QED
    BY <1>6, <1>7, <2>1, <2>2, <2>3 DEF Case
<1>10. CASE c \in Malformed(t)
  <2>1. CASE c = Case([t EXCEPT !.env.data = FALSE], BadInstruction)
    <3>1. c.tx.d = t.d /\ c.tx.ta = t.ta /\ c.tx.env = [t.env EXCEPT !.data = FALSE] /\ c.answer = BadInstruction
      BY <1>0, <1>5, <2>1 DEF Case
    <3>2. c.tx.env.count \in {9, 10} /\ DistinctAccounts(c.tx) /\ ~c.tx.env.data
      BY <1>2, <1>5, <3>1 DEF DistinctAccounts
    <3>. QED
      BY <1>6, <3>1, <3>2, Answers
  <2>2. CASE c = Case([t EXCEPT !.env.system = FALSE], BadInstruction)
    <3>1. c.tx.d = t.d /\ c.tx.ta = t.ta /\ c.tx.env = [t.env EXCEPT !.system = FALSE] /\ c.answer = BadInstruction
      BY <1>0, <1>5, <2>2 DEF Case
    <3>2. Readable(c.tx) /\ ~Spent(c.tx) /\ ~c.tx.env.system
      BY <1>2, <1>5, <3>1 DEF DistinctAccounts, Readable, Spent
    <3>. QED
      BY <1>6, <3>1, <3>2, Answers
  <2>3. ASSUME NEW n \in {8, 11}, c = Case([t EXCEPT !.env.count = n], BadInstruction)
        PROVE  Verdict(c.tx) = c.answer
    <3>1. c.tx.env.count \notin {9, 10} /\ c.answer = BadInstruction
      BY <1>0, <1>5, <2>3 DEF Case
    <3>. QED
      BY <3>1, Answers
  <2>4. c.answer = BadInstruction
    BY <1>10 DEF Malformed, Case
  <2>. QED
    BY <1>6, <1>10, <2>1, <2>2, <2>3, <2>4 DEF Malformed
<1>11. CASE c \in Duplicated(t)
  <2>1. c.answer = DuplicateAccount /\ c.tx.env = t.env /\ ~DistinctAccounts(c.tx)
    <3>1. CASE c = Case([t EXCEPT !.d.dest = t.d.refund], DuplicateAccount)
      BY <3>1, <1>0, <1>4 DEF Case, DistinctAccounts
    <3>2. CASE c = Case([t EXCEPT !.d.refund = t.d.dest], DuplicateAccount)
      BY <3>2, <1>0, <1>4 DEF Case, DistinctAccounts
    <3>3. CASE c = Case([t EXCEPT !.ta = t.d.dest], DuplicateAccount)
      BY <3>3, <1>0, <1>4 DEF Case, DistinctAccounts
    <3>4. CASE c = Case([t EXCEPT !.ta = t.d.refund], DuplicateAccount)
      BY <3>4, <1>0, <1>4 DEF Case, DistinctAccounts
    <3>. QED
      BY <1>11, <3>1, <3>2, <3>3, <3>4 DEF Duplicated
  <2>. QED
    BY <1>2, <1>6, <2>1, Answers
<1>12. CASE c \in Decoyed(t)
  <2>1. PICK a \in Accounts \ {t.ta, t.d.dest, t.d.refund} : c = Case([t EXCEPT !.ta = a], NotATokenAccount)
    BY <1>12 DEF Decoyed
  <2>2. c.tx.d = t.d /\ c.tx.ta = a /\ c.tx.env = t.env /\ c.answer = NotATokenAccount
    BY <1>0, <1>4, <2>1 DEF Case
  <2>3. Authorised(c.tx) /\ c.tx.env.tokenProgram /\ ~IsVaultTokenAccount(c.tx)
    BY <1>2, <2>1, <2>2
       DEF Authorised, Readable, DistinctAccounts, Spent, SignatureRecoversVault, IsVaultTokenAccount
  <2>. QED
    BY <1>6, <2>2, <2>3, Answers
<1>13. CASE c \in WrongPrograms(t)
  <2>0. c = Case([t EXCEPT !.env.tokenProgram = FALSE], BadTokenProgram)
    BY <1>13 DEF WrongPrograms
  <2>1. c.tx.d = t.d /\ c.tx.ta = t.ta /\ c.tx.env = [t.env EXCEPT !.tokenProgram = FALSE]
        /\ c.answer = BadTokenProgram
    BY <1>0, <1>5, <2>0 DEF Case
  <2>2. Authorised(c.tx) /\ ~c.tx.env.tokenProgram
    BY <1>2, <1>5, <2>1 DEF Authorised, Readable, DistinctAccounts, Spent, SignatureRecoversVault
  <2>. QED
    BY <1>6, <2>1, <2>2, Answers
<1>14. CASE c \in WrongBump(t)
  <2>0. c = Case([t EXCEPT !.env.bump = FALSE], BadSignature)
    BY <1>14 DEF WrongBump
  <2>1. c.tx.d = t.d /\ c.tx.ta = t.ta /\ c.tx.env = [t.env EXCEPT !.bump = FALSE] /\ c.answer = BadSignature
    BY <1>0, <1>5, <2>0 DEF Case
  <2>2. Readable(c.tx) /\ ~Spent(c.tx) /\ c.tx.env.system /\ c.tx.env.owner /\ ~SignatureRecoversVault(c.tx)
    BY <1>2, <1>5, <2>1 DEF Readable, DistinctAccounts, Spent, SignatureRecoversVault
  <2>. QED
    BY <1>6, <2>1, <2>2, Answers
<1>15. CASE c \in WithoutOwner(t)
  <2>0. c = Case([t EXCEPT !.env.owner = FALSE], MissingOwnerSignature)
    BY <1>15 DEF WithoutOwner
  <2>1. c.tx.d = t.d /\ c.tx.ta = t.ta /\ c.tx.env = [t.env EXCEPT !.owner = FALSE]
        /\ c.answer = MissingOwnerSignature
    BY <1>0, <1>5, <2>0 DEF Case
  <2>2. Readable(c.tx) /\ ~Spent(c.tx) /\ c.tx.env.system /\ ~c.tx.env.owner
    BY <1>2, <1>5, <2>1 DEF Readable, DistinctAccounts, Spent
  <2>. QED
    BY <1>6, <2>1, <2>2, Answers
<1>16. CASE c \in WrongTenth(t)
  <2>0. c = Case([t EXCEPT !.env.count = 10, !.env.memo = "other"], BadInstruction)
    BY <1>16 DEF WrongTenth
  <2>1. c.tx.d = t.d /\ c.tx.ta = t.ta /\ c.tx.env = [t.env EXCEPT !.count = 10, !.memo = "other"]
        /\ c.answer = BadInstruction
    BY <1>0, <1>5, <2>0 DEF Case
  <2>2. c.tx.env.count \in {9, 10} /\ DistinctAccounts(c.tx) /\ c.tx.env.memo = "other"
    BY <1>2, <1>5, <2>1 DEF DistinctAccounts
  <2>. QED
    BY <1>6, <2>1, <2>2, Answers
<1>. QED
  BY <1>8, <1>9, <1>10, <1>11, <1>12, <1>13, <1>14, <1>15, <1>16, Zenon DEF Mutations

\* A transaction of an unspent vault that its owner put together as the suites
\* do passes every check up to those on the token account's state.
LEMMA WellSignedPasses ==
    ASSUME MarkerTellsHistory, NEW t \in Transactions, WellSigned(t), landed[t.d.vault] = <<>>
    PROVE  OwnAccount(t)
<1>1. t.d.vault \notin owned
  <2>1. Len(<<>>) # 1 /\ t.d.vault \in Vaults
    BY DigestsAssumption DEF Transactions
  <2>. QED
    BY <2>1 DEF MarkerTellsHistory
<1>. QED
  BY <1>1 DEF WellSigned, OwnAccount, Authorised, Readable, Spent, SignatureRecoversVault

\* The runtime's rent rule never stops a spend: marker and rent_to each get at
\* least an empty account's minimum, or rent_to gets nothing.
LEMMA RentRuleMet ==
    ASSUME TypeOK, RentPaid, NEW t \in Transactions, t.ta \in open
    PROVE  RentExemptAfter(t)
<1>1. /\ MinRent(rent.rate) \in Nat
      /\ vaultLamports[t.d.vault] \in Nat /\ accountRent[t.ta] \in Nat
      /\ lamports[t.d.rentTo] \in Nat
  BY MinRentType, DigestsAssumption DEF TypeOK, Transactions
<1>2. Held(t) >= 2 * MinRent(rent.rate) /\ MarkerKeeps(Held(t)) >= MinRent(rent.rate)
  BY MarkerSurvives
<1>3. Held(t) \in Nat
  BY <1>1 DEF Held
<1>. QED
  BY <1>1, <1>2, <1>3 DEF RentExemptAfter, MarkerKeeps, Surplus

\* A payable transaction passes every check, so only Token-2022 can refuse it.
LEMMA PayableAnswer ==
    ASSUME TypeOK, RentPaid, MarkerTellsHistory, NEW t \in Transactions, Payable(t)
    PROVE  Answer(t) = IF TransfersSucceed(t) THEN Success ELSE Fails
<1>1. Verdict(t) = Success
  BY WellSignedPasses, Answers DEF Payable
<1>2. RentExemptAfter(t)
  BY RentRuleMet DEF Payable
<1>. QED
  BY <1>1, <1>2 DEF Answer, Lands

\* The answers the fork and mainnet suites expect are the program's on every
\* reachable ledger: each change to a transaction that would land has its own
\* error, a replay is told so first, too large an amount is refused, a missing
\* memo or a closed payee only delays, and the rest lands.
THEOREM AnswersHold == Spec => []AnswersAsTested
<1>1. TypeOK /\ RentPaid /\ MarkerTellsHistory => AnswersAsTested
  <2>. SUFFICES ASSUME TypeOK, RentPaid, MarkerTellsHistory, NEW t \in Transactions
                PROVE  /\ Lands(t) => \A c \in Mutations(t) : Answer(c.tx) = c.answer
                       /\ Overspend(t) => Answer(t) = InsufficientBalance
                       /\ Replay(t) => Answer(t) = AlreadySpent
                       /\ MemoMissing(t) => Answer(t) = Fails
                       /\ PayeeClosed(t) => Answer(t) = Fails
                       /\ PayeeReady(t) => Answer(t) = Success
    BY DEF AnswersAsTested
  <2>0. t.d.vault \in Vaults /\ t.d.amount \in Nat /\ balance[t.ta] \in Nat
    BY DigestsAssumption DEF Transactions, TypeOK
  <2>1. Lands(t) => \A c \in Mutations(t) : Answer(c.tx) = c.answer
    BY MutationsAnswered
  <2>2. ASSUME Overspend(t) PROVE Answer(t) = InsufficientBalance
    <3>1. OwnAccount(t) /\ t.ta \in open /\ ~(t.d.amount <= balance[t.ta])
      BY <2>0, <2>2, WellSignedPasses DEF Overspend
    <3>2. Verdict(t) = InsufficientBalance
      BY <3>1, Answers
    <3>. QED
      BY <3>2 DEF Answer, InsufficientBalance, Success
  <2>3. ASSUME Replay(t) PROVE Answer(t) = AlreadySpent
    <3>1. landed[t.d.vault] # <<>>
      BY <2>3 DEF Replay
    <3>2. Readable(t) /\ Spent(t)
      BY <2>0, <2>3, <3>1 DEF Replay, WellSigned, Readable, Spent, MarkerTellsHistory
    <3>3. Verdict(t) = AlreadySpent
      BY <3>2, Answers
    <3>. QED
      BY <3>3 DEF Answer, AlreadySpent, Success
  <2>4. \A a \in Needed(t) : \/ a = t.d.dest /\ t.d.amount > 0
                             \/ a = t.d.refund /\ Rest(t) > 0
    BY DEF Needed
  <2>5. /\ t.d.amount > 0 => t.d.dest \in Needed(t)
        /\ Rest(t) > 0 => t.d.refund \in Needed(t)
    BY DEF Needed
  <2>6. ASSUME MemoMissing(t) PROVE Answer(t) = Fails
    <3>1. PICK a \in Needed(t) : a \in memoRequired
      BY <2>6 DEF MemoMissing
    <3>2. ~CanReceive(a, t)
      BY <2>6, <3>1 DEF MemoMissing, CanReceive
    <3>3. ~TransfersSucceed(t)
      BY <2>4, <3>1, <3>2 DEF TransfersSucceed
    <3>. QED
      BY <2>6, <3>3, PayableAnswer DEF MemoMissing
  <2>7. ASSUME PayeeClosed(t) PROVE Answer(t) = Fails
    <3>1. PICK a \in Needed(t) : a \notin open
      BY <2>7 DEF PayeeClosed
    <3>2. ~TransfersSucceed(t)
      BY <2>4, <3>1 DEF TransfersSucceed, CanReceive
    <3>. QED
      BY <2>7, <3>2, PayableAnswer DEF PayeeClosed
  <2>8. ASSUME PayeeReady(t) PROVE Answer(t) = Success
    <3>1. \A a \in Needed(t) : CanReceive(a, t)
      BY <2>8 DEF PayeeReady, CanReceive
    <3>2. TransfersSucceed(t)
      BY <2>5, <3>1 DEF TransfersSucceed
    <3>. QED
      BY <2>8, <3>2, PayableAnswer DEF PayeeReady
  <2>. QED
    BY <2>1, <2>2, <2>3, <2>6, <2>7, <2>8
<1>. QED
  BY <1>1, TypeCorrect, RentInvariant, MarkerInvariant, PTL

\* What a spend that lands leaves is what the suites read back: the payee has the
\* amount, the refund the rest, the token account is gone, the PDA is the
\* program's with the marker's minimum, and the rent receiver has gained.
THEOREM LandingsHold == Spec => LandsAsTested
<1> DEFINE Step == \A v \in Vaults : landed'[v] # landed[v] => Accounted(landed'[v][Len(landed'[v])])
<1>1. TypeOK /\ RentPaid /\ [Next]_vars => [Step]_vars
  <2>. SUFFICES ASSUME TypeOK, RentPaid, [Next]_vars, NEW v \in Vaults, landed'[v] # landed[v]
                PROVE  Accounted(landed'[v][Len(landed'[v])])
    OBVIOUS
  <2>1. PICK t \in Transactions : Spend(t)
    BY OtherSteps
  <2>2. Lands(t) /\ Verdict(t) = Success
    BY <2>1 DEF Spend, Lands
  <2>3. DistinctAccounts(t) /\ t.ta = Ata(t.d.vault, t.d.mint) /\ t.ta \in open
    BY <2>2, VerdictSuccess
  <2>4. /\ t.d \in Digests /\ t.d.vault \in Vaults /\ t.ta \in Accounts
        /\ t.d.dest \in Accounts /\ t.d.refund \in Accounts /\ t.d.rentTo \in Receivers
        /\ Held(t) \in Nat
    BY <2>2, SpendTypes
  <2>5. landed'[v][Len(landed'[v])] = t.d
    <3>1. landed' = [landed EXCEPT ![t.d.vault] = Append(@, t.d)] /\ landed \in [Vaults -> Seq(Digests)]
      BY <2>1 DEF Spend, TypeOK
    <3>2. v = t.d.vault /\ landed'[v] = Append(landed[v], t.d)
      BY <2>4, <3>1
    <3>. QED
      BY <2>4, <3>1, <3>2
  <2>6. /\ balance'[t.d.dest] = balance[t.d.dest] + t.d.amount
        /\ balance'[t.d.refund] = balance[t.d.refund] + (balance[t.ta] - t.d.amount)
    <3>1. balance \in [Accounts -> Nat]
      BY DEF TypeOK
    <3>. QED
      BY <2>1, <2>3, <2>4, <3>1, SpendMoves DEF DistinctAccounts
  <2>7. t.ta \notin open' /\ t.d.vault \in owned'
    BY <2>1, SpendMoves DEF Spend
  <2>8. ASSUME rent.known
        PROVE  /\ vaultLamports'[t.d.vault] = MinRent(rent.rate)
               /\ lamports'[t.d.rentTo] > lamports[t.d.rentTo]
    <3>1. MinRent(rent.rate) \in Nat /\ MinRent(rent.rate) > 0 /\ Held(t) >= 2 * MinRent(rent.rate)
      BY <2>3, MinRentType, MarkerSurvives DEF TypeOK
    <3>2. MarkerKeeps(Held(t)) = MinRent(rent.rate)
      BY <2>4, <2>8, <3>1 DEF MarkerKeeps
    <3>3. Surplus(t) \in Nat /\ Surplus(t) > 0
      BY <2>4, <3>1, <3>2 DEF Surplus
    <3>4. /\ vaultLamports' = [vaultLamports EXCEPT ![t.d.vault] = MarkerKeeps(Held(t))]
          /\ lamports' = [lamports EXCEPT ![t.d.rentTo] = @ + Surplus(t)]
          /\ vaultLamports \in [Vaults -> Nat] /\ lamports \in [Receivers -> Nat]
      BY <2>1 DEF Spend, TypeOK
    <3>. QED
      BY <2>4, <3>2, <3>3, <3>4
  <2>. QED
    BY <2>3, <2>5, <2>6, <2>7, <2>8 DEF Accounted
<1>. QED
  BY <1>1, TypeCorrect, RentInvariant, PTL DEF Spec, LandsAsTested
=============================================================================
