---------------------------- MODULE MCSolanaBlock ----------------------------
(***************************************************************************)
(* Blocks for SolanaBlock.  Every message has the same accounts: a payer,  *)
(* three token accounts and the programs.  All messages of up to two       *)
(* instructions occur, alone in a block; a smaller set of transactions     *)
(* occurs in pairs.                                                        *)
(***************************************************************************)
EXTENDS SolanaBlock

Keys == <<"payer", "source", "mint", "destination", "other program", System, Token,
          "Associated Token Program", Metadata, "Metaplex Candy Machine", Serum,
          RaydiumPool, RaydiumRouter, RaydiumConcentrated, JupiterV4, JupiterV6>>

Position(p) == (CHOOSE i \in 1..Len(Keys) : Keys[i] = p) - 1

Data(tag, complete, amount, decimals) ==
    [tag |-> tag, complete |-> complete, amount |-> amount, decimals |-> decimals]

Ix(p, accounts, d) == [program |-> Position(p), accounts |-> accounts, data |-> d]

\* Instructions that a transaction that succeeded may have.
Ordinary ==
    {Ix(System, <<0, 1>>, Data(tag, TRUE, 2, 0)) : tag \in {0, 1, 2}}
      \cup {Ix(Token, <<1, 2, 3, 0>>, Data(12, TRUE, amount, decimals)) :
                amount \in {1, 2}, decimals \in {0, 6}}
      \cup {Ix(Token, <<1, 3, 0>>, Data(tag, TRUE, 1, 0)) : tag \in {3, 7, 8, 9}}
      \cup {Ix(p, <<1>>, Data(tag, TRUE, 1, 0)) :
                p \in (KnownPrograms \ {System, Token}) \cup {"other program"}, tag \in {1, 12}}

\* Instructions whose program refuses them: data or accounts are missing.
Refused ==
    {Ix(System, <<0, 1>>, Data(2, FALSE, 0, 0)), Ix(Token, <<1, 3, 0>>, Data(3, FALSE, 0, 0)),
     Ix(Token, <<1>>, Data(3, TRUE, 1, 0)), Ix(Token, <<1, 2>>, Data(12, TRUE, 1, 0))}

Message(ixs) == [keys |-> Keys, instructions |-> ixs]

Balance(i, amount) == [account |-> i, mint |-> "mint", amount |-> amount, decimals |-> 0]

Meta(err, units) ==
    <<[err |-> err, fee |-> 5, units |-> units,
       preTokens |-> <<Balance(1, 1)>>, postTokens |-> <<Balance(1, 0), Balance(3, 1)>>]>>

Tx(signature, version, meta, ixs) ==
    [encoding |-> "binary", version |-> version, signatures |-> <<signature>>,
     meta |-> meta, message |-> Message(ixs)]

\* A transaction with a refused instruction failed, if the node knows of it.
MetaOf(ixs) ==
    IF ToSet(ixs) \cap Refused # {} THEN {<<>>, Meta(<<"InstructionError">>, <<7>>)}
    ELSE {<<>>, Meta(<<>>, <<>>), Meta(<<>>, <<7>>)}

Alone ==
    UNION {{Tx("sig1", "legacy", meta, ixs) : meta \in MetaOf(ixs)} :
               ixs \in SeqOf(Ordinary \cup Refused, 2)}

Few == {<<>>, <<Ix(Token, <<1, 2, 3, 0>>, Data(12, TRUE, 1, 0)), Ix(System, <<0, 1>>, Data(2, TRUE, 2, 0))>>,
        <<Ix(Token, <<1, 2>>, Data(12, TRUE, 1, 0))>>, <<Ix(Token, <<1, 3, 0>>, Data(3, TRUE, 1, 0))>>,
        <<Ix(Serum, <<1>>, Data(0, TRUE, 1, 0)), Ix(Serum, <<2>>, Data(2, TRUE, 1, 0))>>}

InPairs(signature) ==
    UNION {{Tx(signature, version, meta, ixs) : version \in {"legacy", "0"}, meta \in MetaOf(ixs)} :
               ixs \in Few}
      \cup {[Tx(signature, "legacy", Meta(<<>>, <<7>>), <<>>) EXCEPT !.encoding = e] :
                e \in {"garbled", "json"}}
      \cup {[Tx(signature, "legacy", Meta(<<>>, <<7>>), <<>>) EXCEPT !.signatures = <<>>]}

Reward(type, key) == [type |-> type, pubkey |-> key, lamports |-> IF type = "Fee" THEN 5 ELSE 1]

Rewards == {<<>>, <<<<>>>>, <<<<Reward("Rent", "payer"), Reward("Fee", "leader")>>>>}

MCBlocks ==
    {[rewards |-> r, transactions |-> t] : r \in Rewards, t \in {<<>>, <<<<>>>>}}
      \cup {[rewards |-> <<<<Reward("Fee", "leader")>>>>, transactions |-> <<<<tx>>>>] : tx \in Alone}
      \cup {[rewards |-> <<<<Reward("Rent", "payer"), Reward("Fee", "leader")>>>>,
             transactions |-> <<<<s, t>>>>] : s \in InPairs("sig1"), t \in InPairs("sig2")}

\* Some of the messages that misaligned bytes may look like.
MCMisread ==
    {Message(<<>>), [Message(<<>>) EXCEPT !.keys = <<>>],
     Message(<<[program |-> 99, accounts |-> <<>>, data |-> Data(NoByte, FALSE, 0, 0)]>>),
     Message(<<[program |-> 0, accounts |-> <<77>>, data |-> Data(3, FALSE, 0, 0)]>>)}
=============================================================================
