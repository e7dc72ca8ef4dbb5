------------------------------ MODULE SpendMessage ------------------------------
(***************************************************************************)
(* The formats on which every client and the program must agree: addresses,*)
(* account list, instruction data and digest of a spend, the error codes,  *)
(* the typed amount, and the memo flag of a recipient's token account.     *)
(* The clients are client/qc.ts (cli), app/src/lib (web, shared by the     *)
(* extension), apps/native/lib (native), the published IDL of codama.ts    *)
(* (idl), the client generated from it (generated), and the copies that    *)
(* the fork suites and the rent probe keep for themselves (suite, fork,    *)
(* probe).                                                                 *)
(***************************************************************************)
EXTENDS Naturals, Sequences, SequencesExt

CONSTANTS Byte,      \* values of a byte of an amount: 256 in the code
          Decimals,  \* of the token: 5 in the code
          Requests,  \* spends asked for: an address per account, and an amount
          Typed,     \* amounts typed: digits before and after the point
          Shown,     \* amounts displayed
          Lists,     \* extensions of the recipient's token account
          Paddings   \* zeros after them

ASSUME FormatAssumption == Byte \in Nat /\ Byte >= 2 /\ Decimals \in Nat \ {0}

\* What can be typed and displayed: whole numbers, and decimal digits after the point.
ASSUME AmountsAssumption == Typed \subseteq [whole: Nat, frac: Seq(0..9)] /\ Shown \subseteq Nat

\* b to the power n; the provers have no rules for ^.
Power(b, n) ==
    LET power[k \in Nat] == IF k = 0 THEN 1 ELSE b * power[k - 1]
    IN  power[n]

Clients == {"cli", "web", "generated", "native", "idl", "suite", "fork", "probe"}

----------------------------------------------------------------------------
(* Addresses: the seeds that are hashed, in order.                          *)

CliSeeds == <<"qcv", "pkHash", "owner">>
WebSeeds == <<"qcv", "pkHash", "owner">>
NativeSeeds == <<"qcv", "pkHash", "owner">>
IdlSeeds == <<"qcv", "pkHash", "owner">>
GeneratedSeeds == <<"qcv", "pkHash", "owner">>
SuiteSeeds == <<"qcv", "pkHash", "owner">>
ForkSeeds == <<"qcv", "pkHash", "owner">>
ProbeSeeds == <<"qcv", "pkHash", "owner">>
Seeds(c) ==
    CASE c = "cli" -> CliSeeds [] c = "web" -> WebSeeds [] c = "native" -> NativeSeeds
      [] c = "idl" -> IdlSeeds [] c = "generated" -> GeneratedSeeds
      [] c = "suite" -> SuiteSeeds [] c = "fork" -> ForkSeeds [] c = "probe" -> ProbeSeeds
ProgramSeeds == <<"qcv", "pkHash", "owner">>

Hashed(order, values) == [i \in DOMAIN order |-> values[order[i]]]
TokenAccount(vault, program, mint) == <<vault, program, mint>>

----------------------------------------------------------------------------
(* Accounts: the order in which each client passes them, with their flags.  *)

Slots(order, writable, signers) == [order |-> order, writable |-> writable, signers |-> signers]

CliSwapped ==  \* for a mutant run
    Slots(<<"vault", "vault_ta", "mint", "refund", "dest", "rent_to", "token_program", "owner", "system">>,
          {"vault", "vault_ta", "dest", "refund", "rent_to"}, {"owner"})
CliAccounts ==
    Slots(<<"vault", "vault_ta", "mint", "dest", "refund", "rent_to", "token_program", "owner", "system">>,
          {"vault", "vault_ta", "dest", "refund", "rent_to"}, {"owner"})
WebAccounts ==
    Slots(<<"vault", "vault_ta", "mint", "dest", "refund", "rent_to", "token_program", "owner", "system">>,
          {"vault", "vault_ta", "dest", "refund", "rent_to"}, {"owner"})
NativeAccounts ==
    Slots(<<"vault", "vault_ta", "mint", "dest", "refund", "rent_to", "token_program", "owner", "system">>,
          {"vault", "vault_ta", "dest", "refund", "rent_to"}, {"owner"})
IdlAccounts ==
    Slots(<<"vault", "vault_ta", "mint", "dest", "refund", "rent_to", "token_program", "owner", "system">>,
          {"vault", "vault_ta", "dest", "refund", "rent_to"}, {"owner"})
\* The generated client resolves each account by name, then lists them.
GeneratedOrder ==
    <<"vault", "vault_ta", "mint", "dest", "refund", "rent_to", "token_program", "owner", "system">>
GeneratedAccounts ==
    Slots(GeneratedOrder, {"vault", "vault_ta", "dest", "refund", "rent_to"}, {"owner"})
SuiteAccounts ==
    Slots(<<"vault", "vault_ta", "mint", "dest", "refund", "rent_to", "token_program", "owner", "system">>,
          {"vault", "vault_ta", "dest", "refund", "rent_to"}, {"owner"})
\* With the optional memo program.
ForkAccounts ==
    Slots(<<"vault", "vault_ta", "mint", "dest", "refund", "rent_to", "token_program", "owner", "system", "memo">>,
          {"vault", "vault_ta", "dest", "refund", "rent_to"}, {"owner"})
ProbeAccounts ==
    Slots(<<"vault", "vault_ta", "mint", "dest", "refund", "rent_to", "token_program", "owner", "system">>,
          {"vault", "vault_ta", "dest", "refund", "rent_to"}, {"owner"})
Accounts(c) ==
    CASE c = "cli" -> CliAccounts [] c = "web" -> WebAccounts [] c = "native" -> NativeAccounts
      [] c = "idl" -> IdlAccounts [] c = "generated" -> GeneratedAccounts
      [] c = "suite" -> SuiteAccounts [] c = "fork" -> ForkAccounts [] c = "probe" -> ProbeAccounts

\* The program: what it calls each slot, what it changes, whose signature it asks for.
ProgramOrder ==
    <<"vault", "vault_ta", "mint", "dest", "refund", "rent_to", "token_program", "owner", "system">>
Changed == {"vault", "vault_ta", "dest", "refund", "rent_to"}
Signing == {"owner"}

----------------------------------------------------------------------------
(* Data: each client concatenates fields; the program reads at offsets.     *)

SeedLen == 16
SigLen == 26 * 24
AmountLen == 8

CliData == <<<<"ix", 1>>, <<"bump", 1>>, <<"seed", SeedLen>>, <<"amount", AmountLen>>, <<"sig", SigLen>>>>
WebData == <<<<"ix", 1>>, <<"bump", 1>>, <<"seed", SeedLen>>, <<"amount", AmountLen>>, <<"sig", SigLen>>>>
NativeData == <<<<"ix", 1>>, <<"bump", 1>>, <<"seed", SeedLen>>, <<"amount", AmountLen>>, <<"sig", SigLen>>>>
IdlData == <<<<"ix", 1>>, <<"bump", 1>>, <<"seed", 16>>, <<"amount", AmountLen>>, <<"sig", 624>>>>
GeneratedData == <<<<"ix", 1>>, <<"bump", 1>>, <<"seed", 16>>, <<"amount", AmountLen>>, <<"sig", 624>>>>
SuitesData == <<<<"ix", 1>>, <<"bump", 1>>, <<"seed", SeedLen>>, <<"amount", 8>>, <<"sig", SigLen>>>>
Data(c) ==
    CASE c = "cli" -> CliData [] c = "web" -> WebData [] c = "native" -> NativeData
      [] c = "idl" -> IdlData [] c = "generated" -> GeneratedData [] OTHER -> SuitesData

\* A byte is its field, its index in it and, for an amount, its value.
AmountByte(v, i) == (v \div Power(Byte, i - 1)) % Byte
Field(f, len, v) == [i \in 1..len |-> <<f, i, IF f = "amount" THEN AmountByte(v, i) ELSE 0>>]
Bytes(layout, v) == FlattenSeq([k \in DOMAIN layout |-> Field(layout[k][1], layout[k][2], v)])

ProgramDataLen == 26 + SigLen
ProgramReads ==
    [ix |-> <<0, 1>>, bump |-> <<1, 1>>, seed |-> <<2, SeedLen>>, amount |-> <<18, 8>>, sig |-> <<26, SigLen>>]
At(data, offset, len) == SubSeq(data, offset + 1, offset + len)
FromBytes(bytes) == FoldRight(LAMBDA b, sum : b[3] + Byte * sum, bytes, 0)

\* presign-bench.ts takes the signature out of the data that qc.ts built.
PresigOf(data) == At(data, 2 + 16 + 8, Len(data) - (2 + 16 + 8))

----------------------------------------------------------------------------
(* Digest: what is hashed, in which order.                                  *)

CliDigest == <<"program", "vault", "mint", "dest", "refund", "rent_to", "amount">>
WebDigest == <<"program", "vault", "mint", "dest", "refund", "rent_to", "amount">>
NativeDigest == <<"program", "vault", "mint", "dest", "refund", "rent_to", "amount">>
ProgramDigest == <<"program", "vault", "mint", "dest", "refund", "rent_to", "amount">>
\* The suites call spendDigest() of qc.ts, and the generated client is handed a signature made
\* by it (codama-check.ts).
DigestBy(c) == CASE c = "web" -> WebDigest [] c = "native" -> NativeDigest [] OTHER -> CliDigest

----------------------------------------------------------------------------
(* Errors: the program returns a code; the IDL and the client generated     *)
(* from it name it.                                                         *)

VaultError ==
    [BadInstruction |-> 1, BadSignature |-> 2, InsufficientBalance |-> 3, NotATokenAccount |-> 4,
     BadTokenProgram |-> 5, DuplicateAccount |-> 6, MissingOwnerSignature |-> 7, AlreadySpent |-> 8]
IdlErrors ==
    <<"BadInstruction", "BadSignature", "InsufficientBalance", "NotATokenAccount",
      "BadTokenProgram", "DuplicateAccount", "MissingOwnerSignature", "AlreadySpent">>
GeneratedErrors ==
    <<"BadInstruction", "BadSignature", "InsufficientBalance", "NotATokenAccount",
      "BadTokenProgram", "DuplicateAccount", "MissingOwnerSignature", "AlreadySpent">>
Ok == 0

----------------------------------------------------------------------------
(* A spend from a client's request to what the program makes of it.         *)

\* No client encodes an amount beyond a u64.
MaxAmount == Power(Byte, AmountLen) - 1
Encodable(v) == v <= MaxAmount

\* The request with the addresses the client derives.
Derived(c, req) ==
    LET vault == Hashed(Seeds(c), req)
    IN  [n \in DOMAIN req \union {"vault", "vault_ta"} |->
            CASE n = "vault" -> vault
              [] n = "vault_ta" -> TokenAccount(vault, req.token_program, req.mint)
              [] OTHER -> req[n]]

\* What a client is asked for: an owner key, a mint and programs that are different keys; a payee
\* and a remainder's receiver that are token accounts; rent for no program.  The derived vault
\* and its token account are no other address by chance, and the remainder is another vault's
\* (the next one; Treasury has what happens otherwise); qc.ts and vault.ts compare what else may
\* coincide.
Keys == {"mint", "token_program", "owner", "system"}
ASSUME RequestsAssumption ==
    \A req \in Requests :
        LET vault == Hashed(ProgramSeeds, req)
            account == TokenAccount(vault, req.token_program, req.mint)
        IN  /\ DOMAIN req = Keys \union {"qcv", "pkHash", "program", "dest", "refund", "rent_to", "memo", "amount"}
            /\ req.amount \in Nat /\ req.qcv = <<"qcv">>
            /\ \A a \in Keys, b \in Keys \union {"dest", "refund"} : a # b => req[a] # req[b]
            /\ req.rent_to \notin {req.token_program, req.system}
            /\ \A a \in Keys \union {"qcv", "dest", "refund"} : req[a] # vault
            /\ \A a \in Keys \union {"refund"} : req[a] # account

\* planSpend() compares all accounts, checkSpend() the rent receiver and the payee with the rest;
\* the others leave it to the program.
PlansDistinct(all) ==
    LET named == <<"vault", "vault_ta", "mint", "dest", "refund", "rent_to", "token_program", "owner">>
    IN  \A a, b \in DOMAIN named : a # b => all[named[a]] # all[named[b]]
ChecksDistinct(all) ==
    /\ all.dest \notin {all.vault_ta, all.refund}
    /\ \A n \in {"vault", "vault_ta", "dest", "refund", "owner", "mint"} : all.rent_to # all[n]
Agrees(c, all) ==
    /\ c = "web" => PlansDistinct(all)
    /\ c = "cli" => ChecksDistinct(all)

Build(c, all) ==
    [accounts |-> [i \in DOMAIN Accounts(c).order |-> all[Accounts(c).order[i]]],
     writable |-> {all[n] : n \in Accounts(c).writable},
     signers |-> {all[n] : n \in Accounts(c).signers},
     data |-> Bytes(Data(c), all.amount),
     key |-> all.pkHash,
     signed |-> Hashed(DigestBy(c), all)]

\* Each field from its place.
Taken(ix, program) ==
    LET slot == [n \in ToSet(ProgramOrder) |-> CHOOSE i \in DOMAIN ProgramOrder : ProgramOrder[i] = n]
    IN  [n \in ToSet(ProgramOrder) \union {"program", "amount"} |->
            CASE n = "program" -> program
              [] n = "amount" -> FromBytes(At(ix.data, ProgramReads.amount[1], ProgramReads.amount[2]))
              [] OTHER -> ix.accounts[slot[n]]]

\* The checks of the program that a format can fail, in its order.  A signature recovers the key
\* that made it for the message it signed, and another one for any other.
Repeats(accounts) == ~IsInjective(accounts)
MemoGiven(ix, req) == Len(ix.accounts) = 10 => ix.accounts[10] = req.memo
Recovers(ix, got) ==
    /\ Hashed(ProgramDigest, got) = ix.signed
    /\ got.vault = Hashed(ProgramSeeds, [qcv |-> <<"qcv">>, pkHash |-> ix.key, owner |-> got.owner])
Answer(ix, req) ==
    IF Len(ix.accounts) \notin {9, 10} THEN VaultError.BadInstruction
    ELSE IF Repeats(ix.accounts) THEN VaultError.DuplicateAccount
    ELSE IF Len(ix.data) # ProgramDataLen \/ ~MemoGiven(ix, req) THEN VaultError.BadInstruction
    ELSE LET got == Taken(ix, req.program)
         IN  IF got.system # req.system THEN VaultError.BadInstruction
             ELSE IF got.owner \notin ix.signers THEN VaultError.MissingOwnerSignature
             ELSE IF ~Recovers(ix, got) THEN VaultError.BadSignature
             ELSE IF got.token_program # req.token_program THEN VaultError.BadTokenProgram
             ELSE IF got.vault_ta # TokenAccount(got.vault, req.token_program, got.mint)
                  THEN VaultError.NotATokenAccount
             ELSE Ok

----------------------------------------------------------------------------
(* Amounts as the user types and sees them: a number, and the digits after  *)
(* the point.                                                               *)

Refused == "refused"
Value(digits) == FoldLeft(LAMBDA v, d : 10 * v + d, 0, digits)
Zeros(n) == [i \in 1..n |-> 0]
PadStart(digits, n) == Zeros(n - Len(digits)) \o digits  \* for a mutant run
PadEnd(digits, n) == digits \o Zeros(n - Len(digits))
ParseAmount(whole, frac) ==
    IF Len(frac) > Decimals THEN Refused
    ELSE LET v == whole * Power(10, Decimals) + Value(PadEnd(frac, Decimals))
         IN  IF ~Encodable(v) THEN Refused ELSE v

NoTrailingZeros(digits) ==
    LET last == CHOOSE n \in 0..Len(digits) :
            /\ n > 0 => digits[n] # 0
            /\ \A i \in n + 1..Len(digits) : digits[i] = 0
    IN  SubSeq(digits, 1, last)
FormatAmount(v) ==
    [whole |-> v \div Power(10, Decimals),
     frac |-> NoTrailingZeros([i \in 1..Decimals |-> (v \div Power(10, Decimals - i)) % 10])]

----------------------------------------------------------------------------
(* The extensions of a token account, after the byte at 165: entries of a   *)
(* u16 type, a u16 length and a body, then zeros (Token-2022).              *)

MemoTransfer == 8
Entry(type, body) == <<type % 256, type \div 256, Len(body) % 256, Len(body) \div 256>> \o body
Encoded(entries, zeros) ==
    FlattenSeq([k \in DOMAIN entries |-> Entry(entries[k][1], entries[k][2])]) \o Zeros(zeros)

\* Token-2022 keeps an extension once, and the memo flag in one byte.
ASSUME ListsAssumption ==
    /\ Paddings \subseteq Nat
    /\ \A l \in Lists :
        /\ l \in Seq((Nat \ {0}) \X Seq(Nat))
        /\ \A k \in DOMAIN l : l[k][1] = MemoTransfer => l[k][2] \in {<<0>>, <<1>>}
        /\ \A a, b \in DOMAIN l : l[a][1] = l[b][1] => a = b

\* requiresMemo(): the loop over the entries, from the entry at byte i.
SkipsNoHeader(i, len) == i + len + 1  \* for a mutant run
NextEntry(i, len) == i + 4 + len
U16(d, i) == d[i] + 256 * d[i + 1]
RequiresMemo(d) ==
    LET scan[i \in Nat \ {0}] ==
            IF i + 3 > Len(d) THEN FALSE
            ELSE LET type == U16(d, i)
                     len == U16(d, i + 2)
                 IN  IF type = MemoTransfer THEN len >= 1 /\ i + 4 <= Len(d) /\ d[i + 4] = 1
                     ELSE IF type = 0 THEN FALSE
                     ELSE scan[NextEntry(i, len)]
    IN  scan[1]

----------------------------------------------------------------------------
(* One use of a format: what went in and what came out.                     *)

VARIABLE use
NoUse == [of |-> "none"]

MessageInit == use = NoUse

\* spendIxs() and its twins, then spend() of the program.
Spend(c, req) ==
    LET all == Derived(c, req)
        ix == Build(c, all)
    IN  /\ Encodable(req.amount) /\ Agrees(c, all)
        /\ use' = [of |-> "spend", by |-> c, meant |-> all, ix |-> ix,
                   answer |-> Answer(ix, req), got |-> Taken(ix, req.program)]
\* A code the program returned, looked up.
Explain(e) ==
    use' = [of |-> "error", raised |-> e,
            told |-> {GeneratedErrors[VaultError[e]], IdlErrors[VaultError[e]]}]
Enter(t) == use' = [of |-> "enter", text |-> t, amount |-> ParseAmount(t.whole, t.frac)]
Display(v) ==
    LET t == FormatAmount(v)
    IN  use' = [of |-> "display", amount |-> v, again |-> ParseAmount(t.whole, t.frac)]
Scan(entries, zeros) ==
    use' = [of |-> "scan", entries |-> entries, answer |-> RequiresMemo(Encoded(entries, zeros))]

MessageNext ==
    /\ use = NoUse
    /\ \/ \E c \in Clients, req \in Requests : Spend(c, req)
       \/ \E e \in DOMAIN VaultError : Explain(e)
       \/ \E t \in Typed : Enter(t)
       \/ \E v \in Shown : Display(v)
       \/ \E entries \in Lists, zeros \in Paddings : Scan(entries, zeros)

MessageSpec == MessageInit /\ [][MessageNext]_use

----------------------------------------------------------------------------
(* Properties.                                                              *)

\* The program takes a spend as its client meant it, whichever client built it: its vault at the
\* same address, the same account under the same name and writable where it changes, the same
\* amount at every carry of its bytes, every field whole, and a digest that is the signed one
\* (codama-check.ts, xcheck-dart.ts).  It refuses coinciding accounts only, which
\* checkSpend() and planSpend() keep from being signed, and its codes are named alike everywhere.
TakenAsMeant ==
    /\ use.of = "spend" =>
        /\ use.answer = (IF Repeats(use.ix.accounts) THEN VaultError.DuplicateAccount ELSE Ok)
        /\ use.by \in {"cli", "web"} => use.answer = Ok
        /\ \A n \in DOMAIN use.got : use.got[n] = use.meant[n]
        /\ \A n \in Changed : use.got[n] \in use.ix.writable
        /\ \A f \in DOMAIN ProgramReads :
             LET len == ProgramReads[f][2]
             IN  At(use.ix.data, ProgramReads[f][1], len) = Field(f, len, use.meant.amount)
        /\ PresigOf(use.ix.data) = Field("sig", SigLen, 0)
    /\ use.of = "error" => use.told = {use.raised}

\* What is displayed and typed again is the same amount; what is typed is worth what it says or
\* is refused, and never wraps (vectors.test.ts 53-54).
AmountsRoundTrip ==
    /\ use.of = "display" => use.again = (IF Encodable(use.amount) THEN use.amount ELSE Refused)
    /\ use.of = "enter" =>
        LET digits == use.text.frac
            worth == (use.text.whole * Power(10, Len(digits)) + Value(digits)) * Power(10, Decimals - Len(digits))
        IN  use.amount = (IF Len(digits) <= Decimals /\ Encodable(worth) THEN worth ELSE Refused)

\* The client sees "require incoming memos" exactly when it is on, among whatever other
\* extensions, whatever their bodies hold (fork-memo.ts 22).
MemoSeen ==
    use.of = "scan" => use.answer = (\E i \in DOMAIN use.entries : use.entries[i] = <<MemoTransfer, <<1>>>>)
=============================================================================
