--------------------------------- MODULE MCWots ---------------------------------
(***************************************************************************)
(* Wots with short chains and short messages, and one use of the formats   *)
(* of SpendMessage once a signature is done: amounts at every carry, lists *)
(* of up to three extensions.                                              *)
(***************************************************************************)
EXTENDS Wots, SpendMessage

Amounts ==
    {Byte^e + d : e \in 0..AmountLen - 1, d \in {0, 1, Byte - 1}} \union {0, MaxAmount - 1, MaxAmount, MaxAmount + 1}
\* An address is its name; a request may name one twice.
Plain == [n \in {"qcv", "pkHash", "program", "mint", "dest", "refund", "rent_to", "token_program",
                 "owner", "system", "memo"} |-> <<n>>]
Request(names, v) == [n \in DOMAIN names \union {"amount"} |-> IF n = "amount" THEN v ELSE names[n]]
MCRequests ==
    {Request(Plain, v) : v \in Amounts} \union
    {Request([Plain EXCEPT ![p[1]] = <<p[2]>>], 1) :
        p \in {<<"rent_to", "owner">>, <<"rent_to", "dest">>, <<"rent_to", "mint">>, <<"dest", "refund">>}}

MCTyped == [whole : {0, 1, 655, 656}, frac : SeqOf({0, 7}, Decimals + 1)]
MCShown == 0..110 \union {MaxAmount - 1, MaxAmount, MaxAmount + 1}

\* Bodies that look like the flag, and a type whose low byte does.
Extensions ==
    {<<MemoTransfer, <<0>>>>, <<MemoTransfer, <<1>>>>, <<7, <<>>>>, <<1, <<8, 0, 1, 0, 1>>>>, <<264, <<1>>>>}
MCLists == {l \in SeqOf(Extensions, 3) : \A a, b \in DOMAIN l : l[a][1] = l[b][1] => a = b}
MCPaddings == {0, 1, 4}

\* A message carries a signature that was made and checked (vault.ts 54-56).
Signed == Done /\ kept /\ digest["sign"] = digest["verify"]

MCInit == Init /\ MessageInit
MCNext ==
    \/ Next /\ UNCHANGED use
    \/ Signed /\ MessageNext /\ UNCHANGED vars
MCSpec == MCInit /\ [][MCNext]_<<vars, use>>
=============================================================================
