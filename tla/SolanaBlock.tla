---------------------------- MODULE SolanaBlock ----------------------------
(***************************************************************************)
(* get_block of the Solana service, from a node's answer to the BlockData  *)
(* of the reply: SolanaRpcClient::get_block, which decodes the             *)
(* transactions and adds up the block's totals, convert_block_data, and    *)
(* the InstructionParser it calls.                                         *)
(*                                                                         *)
(* A program id or another account is the name of its address; a Rust      *)
(* Option is a sequence of at most one element; indices count from 0 as in *)
(* the code.  Instruction data is its first byte (or NoByte), whether the  *)
(* rest is complete, and the amount and decimals it encodes.               *)
(***************************************************************************)
EXTENDS Integers, Sequences, FiniteSets, SequencesExt

CONSTANTS
    Blocks,   \* the blocks a node may answer with
    Misread   \* messages as which the bytes of a version 0 message may be read

NoByte == 256

-----------------------------------------------------------------------------
(* The answer of a node, with the types of the Solana crates.              *)

U8 == 0..255

Option(S) == {o \in Seq(S) : Len(o) <= 1}

\* The base58 text of 32 bytes, which never is the decimal text of a u8.
Address == STRING \ {ToString(i) : i \in U8}

CompiledInstruction ==
    [program : U8, accounts : Seq(U8),
     data : [tag : 0..NoByte, complete : BOOLEAN, amount : Nat, decimals : U8]]

LegacyMessage == [keys : Seq(Address), instructions : Seq(CompiledInstruction)]

TokenBalance == [account : U8, mint : STRING, amount : Nat, decimals : U8]

StatusMeta ==
    [err : Option(STRING), fee : Nat, units : Option(Nat),
     preTokens : Seq(TokenBalance), postTokens : Seq(TokenBalance)]

\* A "garbled" transaction is a binary one whose base64 or bincode does not decode.
EncodedTransaction ==
    [encoding : {"binary", "garbled", "json"}, version : {"legacy", "0"}, signatures : Seq(STRING),
     meta : Option(StatusMeta), message : LegacyMessage]

BlockReward == [type : STRING, pubkey : STRING, lamports : Int]

Block == [rewards : Option(Seq(BlockReward)), transactions : Option(Seq(EncodedTransaction))]

ASSUME BlocksAssumption == Blocks \subseteq Block /\ Misread \subseteq LegacyMessage

-----------------------------------------------------------------------------
(* The programs the parser tells apart, by the names of KNOWN_PROGRAMS.    *)

System   == "System Program"
Token    == "Token Program"
Metadata == "Metaplex Token Metadata"
Serum    == "Serum DEX v3"
RaydiumPool         == "Raydium Liquidity Pool V4"
RaydiumRouter       == "Raydium Router V1"
RaydiumConcentrated == "Raydium Concentrated LP"
JupiterV4 == "Jupiter V4"
JupiterV6 == "Jupiter V6"

KnownPrograms ==
    {System, Token, "Associated Token Program", Metadata, "Metaplex Candy Machine", Serum,
     RaydiumPool, RaydiumRouter, RaydiumConcentrated, JupiterV4, JupiterV6}

IsDexProgram(p) ==
    p \in {Serum, RaydiumPool, RaydiumRouter, RaydiumConcentrated, JupiterV4, JupiterV6}

-----------------------------------------------------------------------------
(* Decoders of other crates: an instruction's variant from its data.       *)

\* bincode::deserialize::<SystemInstruction>: thirteen variants.
SystemInstruction(d) ==
    IF ~d.complete \/ d.tag > 12 THEN "Invalid"
    ELSE IF d.tag = 0 THEN "CreateAccount"
    ELSE IF d.tag = 2 THEN "Transfer" ELSE "Other"

\* TokenInstruction::unpack: twenty-five variants.
TokenInstruction(d) ==
    IF ~d.complete \/ d.tag > 24 THEN "Invalid"
    ELSE IF d.tag = 3 THEN "Transfer"
    ELSE IF d.tag = 7 THEN "MintTo"
    ELSE IF d.tag = 8 THEN "Burn"
    ELSE IF d.tag = 12 THEN "TransferChecked" ELSE "Other"

Key(m, i) == m.keys[i + 1]

Program(m, ix) == Key(m, ix.program)

Indices(m) == 0..(Len(m.keys) - 1)

\* What a node demands of a message before it runs it, and the token program of a
\* transfer before it accepts it (source, destination and owner; source, mint,
\* destination and owner).
Executable(m) ==
    \A ix \in ToSet(m.instructions) :
        /\ ix.program \in Indices(m)
        /\ \A a \in ToSet(ix.accounts) : a \in Indices(m)
        /\ Program(m, ix) = Token =>
              /\ TokenInstruction(ix.data) = "Transfer" => Len(ix.accounts) >= 3
              /\ TokenInstruction(ix.data) = "TransferChecked" => Len(ix.accounts) >= 4

ASSUME RuntimeAssumption ==
    \A b \in Blocks : b.transactions # <<>> =>
        \A tx \in ToSet(b.transactions[1]) :
            tx.version = "legacy" /\ tx.meta # <<>> /\ tx.meta[1].err = <<>> =>
                Executable(tx.message)

-----------------------------------------------------------------------------
(* InstructionParser.                                                      *)

ParseSystemInstruction(d) ==
    LET variant == SystemInstruction(d)
    IN  IF variant = "CreateAccount" THEN <<variant, {"lamports", "space", "owner"}>>
        ELSE IF variant = "Transfer" THEN <<variant, {"lamports"}>>
        ELSE <<IF variant = "Invalid" THEN "Invalid" ELSE "Unknown", {}>>

ParseTokenInstruction(d) ==
    LET variant == TokenInstruction(d)
    IN  IF variant \in {"Transfer", "MintTo", "Burn"} THEN <<variant, {"amount"}>>
        ELSE <<IF variant = "Invalid" THEN "Invalid" ELSE "Unknown", {}>>

\* The type of an instruction and the fields parsed from its data.
ParseInstruction(m, ix) ==
    IF Program(m, ix) = System THEN ParseSystemInstruction(ix.data)
    ELSE IF Program(m, ix) = Token THEN ParseTokenInstruction(ix.data)
    ELSE <<"Unknown", {}>>

CategorizeDexInstruction(p, d) ==
    IF p = Serum /\ d.tag \in 0..2
      THEN <<"SerumNewOrder", "SerumMatchOrder", "SerumCancelOrder">>[d.tag + 1]
    ELSE IF p \in {RaydiumPool, RaydiumRouter, RaydiumConcentrated} /\ d.tag \in 1..3
      THEN <<"RaydiumSwap", "RaydiumAddLiquidity", "RaydiumRemoveLiquidity">>[d.tag]
    ELSE IF p \in {JupiterV4, JupiterV6} THEN "JupiterSwap" ELSE "Other"

\* Mutant of CategorizeTransaction: its own list of Raydium's programs lacks one.
CategorizeFewerPrograms(m) ==
    LET Has(P) == \E ix \in ToSet(m.instructions) : Program(m, ix) \in P
    IN  IF Has({JupiterV4, JupiterV6}) THEN <<"Dex", "JupiterSwap">>
        ELSE IF Has({RaydiumPool, RaydiumRouter}) THEN <<"Dex", "RaydiumSwap">>
        ELSE IF Has({Serum}) THEN <<"Dex", "SerumNewOrder">> ELSE <<"Unknown">>

\* One pass over the instructions sets a flag for each kind met; the first flag
\* of a fixed order names the transaction, by a TransactionCategory and its type.
CategorizeTransaction(m) ==
    LET Has(P) == \E ix \in ToSet(m.instructions) : Program(m, ix) \in P
        has_system_transfer == \E ix \in ToSet(m.instructions) :
            Program(m, ix) = System /\ SystemInstruction(ix.data) = "Transfer"
        has_token_transfer  == \E ix \in ToSet(m.instructions) :
            Program(m, ix) = Token /\ TokenInstruction(ix.data) = "Transfer"
    IN  IF Has({JupiterV4, JupiterV6}) THEN <<"Dex", "JupiterSwap">>
        ELSE IF Has({RaydiumPool, RaydiumRouter, RaydiumConcentrated})
          THEN <<"Dex", "RaydiumSwap">>
        ELSE IF Has({Serum}) THEN <<"Dex", "SerumNewOrder">>
        ELSE IF has_system_transfer THEN <<"System", "Transfer">>
        ELSE IF has_token_transfer THEN <<"Token", "Transfer">>
        ELSE IF Has({Metadata}) THEN <<"NFT", "Other">> ELSE <<"Unknown">>

\* The mint of the first balance of an account.  The code compares the decimal
\* text of the balance's account index with the account's address.
MintIn(balances, account) ==
    LET i == SelectInSeq(balances, LAMBDA b : ToString(b.account) = account)
    IN  IF i = 0 THEN <<>> ELSE <<balances[i].mint>>

FindTokenMint(account, meta) ==
    IF meta = <<>> THEN <<>>
    ELSE IF MintIn(meta[1].preTokens, account) # <<>> THEN MintIn(meta[1].preTokens, account)
    ELSE MintIn(meta[1].postTokens, account)

IsNftMint(mint, meta) ==
    meta # <<>> /\
        LET i == SelectInSeq(meta[1].preTokens, LAMBDA b : b.mint = mint)
        IN  i # 0 /\ meta[1].preTokens[i].decimals = 0 /\ meta[1].preTokens[i].amount = 1

\* Mutant of IsTokenProgram: a check that lets every program through.
IsAnyProgram(p) == TRUE

IsTokenProgram(p) == p = Token

\* Mutant of CheckedAccounts: destination and mint swapped.
CheckedAccountsSwapped == [from |-> 1, to |-> 2, mint |-> 3]

\* Where TransferChecked has its accounts, counted from 1.
CheckedAccounts == [from |-> 1, to |-> 3, mint |-> 2]

Transfer(from, to, mint, d, nft) ==
    [from_address |-> from, to_address |-> to, amount |-> d.amount, mint |-> mint,
     token_type |-> IF d.amount = 1 /\ nft THEN "NFT" ELSE "SPL"]

\* At most one transfer, as an option.
ParseTokenTransfers(m, ix, meta) ==
    LET Account(n) == Key(m, ix.accounts[n])
        variant    == TokenInstruction(ix.data)
    IN  IF ~IsTokenProgram(Program(m, ix)) THEN <<>>
        ELSE IF variant = "Transfer"
          THEN LET mint == FindTokenMint(Account(1), meta)
               IN  IF mint = <<>> THEN <<>>
                   ELSE <<Transfer(Account(1), Account(2), mint[1], ix.data,
                                   IsNftMint(mint[1], meta))>>
        ELSE IF variant = "TransferChecked"
          THEN <<Transfer(Account(CheckedAccounts.from), Account(CheckedAccounts.to),
                          Account(CheckedAccounts.mint), ix.data, ix.data.decimals = 0)>>
        ELSE <<>>

\* The accounts of an instruction that parse_token_transfers reads.
AccountsRead(m, ix) ==
    IF ~IsTokenProgram(Program(m, ix)) THEN 0
    ELSE IF TokenInstruction(ix.data) = "Transfer" THEN 2
    ELSE IF TokenInstruction(ix.data) = "TransferChecked" THEN 3 ELSE 0

-----------------------------------------------------------------------------
(* convert_block_data, one transaction at a time.                          *)

Fee(meta)   == IF meta = <<>> THEN 0 ELSE meta[1].fee
Units(meta) == IF meta = <<>> \/ meta[1].units = <<>> THEN 0 ELSE meta[1].units[1]

\* Mutant of ProgramCount: what the field's name suggests.
DistinctPrograms(m) == Cardinality({Program(m, ix) : ix \in ToSet(m.instructions)})

ProgramCount(m) == Len(m.instructions)

\* The numbers of accounts written and read are left out: they are computed from
\* the message and the balances, cannot fail, and nothing else depends on them.
PbTransaction(tx) ==
    [signature            |-> tx.signature,
     success              |-> tx.error = <<>>,
     fee                  |-> Fee(tx.meta),
     units                |-> Units(tx.meta),
     transaction_category |-> CategorizeTransaction(tx.message),
     program_count        |-> ProgramCount(tx.message)]

\* An account without its roles, which are left out for the same reason.
PbAccount(m, i) == [address |-> Key(m, i)]

\* The message of an instruction does not name its transaction.
PbInstruction(m, idx) ==
    LET ix == m.instructions[idx + 1]
    IN  [program_id       |-> Program(m, ix),
         data             |-> ix.data,
         order_index      |-> idx,
         instruction_type |-> ParseInstruction(m, ix)[1],
         parsed_data      |-> ParseInstruction(m, ix)[2],
         accounts         |-> [n \in 1..Len(ix.accounts) |-> PbAccount(m, ix.accounts[n])]]

PbTokenTransfers(tx) ==
    LET Of(i) == ParseTokenTransfers(tx.message, tx.message.instructions[i], tx.meta)
    IN  FlattenSeq([i \in 1..Len(tx.message.instructions) |->
            [n \in 1..Len(Of(i)) |-> <<Of(i)[n], tx.signature>>]])

\* An index out of range panics: of a program, of a listed account, or of an
\* account that a token transfer should have.
Panics(m) ==
    \E ix \in ToSet(m.instructions) :
        \/ ix.program \notin Indices(m)
        \/ \E a \in ToSet(ix.accounts) : a \notin Indices(m)
        \/ ix.program \in Indices(m) /\ Len(ix.accounts) < AccountsRead(m, ix)

-----------------------------------------------------------------------------
(* The handler.                                                            *)

VARIABLES
    pc,       \* where the handler is, or its outcome: "ok", "internal", "reset"
    node,     \* the node's answer to getBlock
    decoded,  \* the transactions convert_transactions has enriched
    header,   \* leader and totals of the block
    data      \* what convert_block_data has put together

vars == <<pc, node, decoded, header, data>>

NoHeader == [leader |-> "", leader_reward |-> 0, total_fee |-> 0, total_units |-> 0]
NoData   == [transactions |-> <<>>, instructions |-> <<>>, token_transfers |-> <<>>]

Init ==
    /\ pc = "fetch"
    /\ node = [rewards |-> <<>>, transactions |-> <<>>]
    /\ decoded = <<>>
    /\ header = NoHeader
    /\ data = NoData

\* get_block_with_config and get_block_time, each through execute_with_failover
\* (module SolanaFailover); every error becomes Status::internal.
FetchBlock ==
    /\ pc = "fetch"
    /\ node' \in Blocks
    /\ pc' = "time"
    /\ UNCHANGED <<decoded, header, data>>

GetBlockTime ==
    /\ pc = "time"
    /\ pc' = "decode"
    /\ UNCHANGED <<node, decoded, header, data>>

RequestFails ==
    /\ pc \in {"fetch", "time"}
    /\ pc' = "internal"
    /\ UNCHANGED <<node, decoded, header, data>>

\* The transactions of a block, none if the node left them out.
Encoded == IF node.transactions = <<>> THEN <<>> ELSE node.transactions[1]

\* What a transaction's bytes may be read as.  The request admits version 0
\* (default_block_config) but only the legacy layout is deserialized: the bytes
\* of a version 0 message are refused or misread.
Readings(enc) ==
    IF enc.encoding # "binary" \/ enc.signatures = <<>> THEN {}
    ELSE IF enc.version = "legacy" THEN {enc.message} ELSE Misread

MayBeRefused(enc) ==
    enc.encoding # "binary" \/ enc.signatures = <<>> \/ enc.version # "legacy"

EnrichedTransaction(enc, m) ==
    [signature |-> Head(enc.signatures),
     error     |-> IF enc.meta = <<>> THEN <<>> ELSE enc.meta[1].err,
     meta      |-> enc.meta,
     message   |-> m]

ConvertTransactions ==
    /\ pc = "decode"
    /\ Len(decoded) < Len(Encoded)
    /\ LET enc == Encoded[Len(decoded) + 1]
       IN  \E m \in Readings(enc) : decoded' = Append(decoded, EnrichedTransaction(enc, m))
    /\ UNCHANGED <<pc, node, header, data>>

\* Mutant of ConvertTransactionsFails: unwrap_or_default.
ConvertTransactionsDefault ==
    /\ pc = "decode"
    /\ Len(decoded) < Len(Encoded)
    /\ LET enc == Encoded[Len(decoded) + 1]
       IN  /\ MayBeRefused(enc)
           /\ decoded' = Append(decoded,
                [signature |-> "", error |-> <<>>, meta |-> enc.meta,
                 message |-> [keys |-> <<>>, instructions |-> <<>>]])
    /\ UNCHANGED <<pc, node, header, data>>

\* One transaction that does not decode fails the block.
ConvertTransactionsFails ==
    /\ pc = "decode"
    /\ Len(decoded) < Len(Encoded)
    /\ MayBeRefused(Encoded[Len(decoded) + 1])
    /\ pc' = "internal"
    /\ UNCHANGED <<node, decoded, header, data>>

\* The first reward of type Fee is the leader's.
FeeReward ==
    LET rewards == IF node.rewards = <<>> THEN <<>> ELSE node.rewards[1]
        i       == SelectInSeq(rewards, LAMBDA r : r.type = "Fee")
    IN  IF i = 0 THEN <<>> ELSE <<rewards[i]>>

\* The sum of a sequence of numbers.
SumSeq(s) ==
    LET sum[n \in 0..Len(s)] == IF n = 0 THEN 0 ELSE sum[n - 1] + s[n]
    IN  sum[Len(s)]

Totals ==
    [fee   |-> SumSeq([k \in 1..Len(Encoded) |-> Fee(Encoded[k].meta)]),
     units |-> SumSeq([k \in 1..Len(Encoded) |-> Units(Encoded[k].meta)])]

\* get_block puts the block together.
\* The casts of a reward, to u64 here and back to i64 in
\* convert_block_data, give the number the node sent.
Assemble ==
    /\ pc = "decode"
    /\ Len(decoded) = Len(Encoded)
    /\ header' = [leader        |-> IF FeeReward = <<>> THEN "" ELSE FeeReward[1].pubkey,
                  leader_reward |-> IF FeeReward = <<>> THEN 0 ELSE FeeReward[1].lamports,
                  total_fee     |-> Totals.fee,
                  total_units   |-> Totals.units]
    /\ pc' = "convert"
    /\ UNCHANGED <<node, decoded, data>>

Current == decoded[Len(data.transactions) + 1]

ConvertBlockData ==
    /\ pc = "convert"
    /\ Len(data.transactions) < Len(decoded)
    /\ ~Panics(Current.message)
    /\ data' = [transactions    |-> Append(data.transactions, PbTransaction(Current)),
                instructions    |-> data.instructions \o
                    [i \in 1..Len(Current.message.instructions) |->
                        PbInstruction(Current.message, i - 1)],
                token_transfers |-> data.token_transfers \o PbTokenTransfers(Current)]
    /\ UNCHANGED <<pc, node, decoded, header>>

\* The handler panics; the gRPC library resets the call.
ConvertPanics ==
    /\ pc = "convert"
    /\ Len(data.transactions) < Len(decoded)
    /\ Panics(Current.message)
    /\ pc' = "reset"
    /\ UNCHANGED <<node, decoded, header, data>>

Reply ==
    /\ pc = "convert"
    /\ Len(data.transactions) = Len(decoded)
    /\ pc' = "ok"
    /\ UNCHANGED <<node, decoded, header, data>>

Next ==
    \/ FetchBlock \/ GetBlockTime \/ RequestFails
    \/ ConvertTransactions \/ ConvertTransactionsFails \/ Assemble
    \/ ConvertBlockData \/ ConvertPanics \/ Reply

Spec == Init /\ [][Next]_vars

-----------------------------------------------------------------------------
(* Properties.                                                             *)

\* A reply accounts for the node's whole block: every transaction once and in
\* order, under its first signature, although three loops pass them on and any of
\* them may give up in the middle; the totals, which get_block adds up from the
\* node's answer, are the sums of what the reply's transactions say; leader and
\* reward are of one and the same entry.
ReplyAccountsForBlock ==
    pc = "ok" =>
        /\ Len(data.transactions) = Len(Encoded)
        /\ \A k \in 1..Len(Encoded) :
              /\ Encoded[k].signatures # <<>>
              /\ data.transactions[k].signature = Encoded[k].signatures[1]
        /\ header.total_fee =
             SumSeq([k \in 1..Len(data.transactions) |-> data.transactions[k].fee])
        /\ header.total_units =
             SumSeq([k \in 1..Len(data.transactions) |-> data.transactions[k].units])
        /\ header.leader # "" =>
             \E r \in ToSet(node.rewards[1]) :
                 r.pubkey = header.leader /\ r.lamports = header.leader_reward /\ r.type = "Fee"

\* The number of instructions of the first n transactions, from their program_count.
Before(n) == SumSeq([k \in 1..n |-> data.transactions[k].program_count])

\* The listed instructions that a reader of the reply takes for the k-th
\* transaction's.
Own(k) == SubSeq(data.instructions, Before(k - 1) + 1, Before(k))

\* The flat list of instructions can be given back to its transactions: their
\* messages name no signature (schema/solana/instruction.ex requires one), so
\* the counts of the transactions and the order of the list have to be enough,
\* transactions without instructions included.
InstructionsAttributable ==
    /\ Before(Len(data.transactions)) = Len(data.instructions)
    /\ \A k \in 1..Len(data.transactions) :
          LET m == decoded[k].message
          IN  /\ Len(Own(k)) = Len(m.instructions)
              /\ \A i \in 1..Len(m.instructions) :
                    /\ Own(k)[i].order_index = i - 1
                    /\ Own(k)[i].data = m.instructions[i].data
                    /\ Own(k)[i].program_id = Program(m, m.instructions[i])

Checked(ix) == ix.program_id = Token /\ TokenInstruction(ix.data) = "TransferChecked"

\* The transfer of a listed TransferChecked instruction of the k-th transaction.
CheckedReport(ix, k) ==
    <<[from_address |-> ix.accounts[1].address, to_address |-> ix.accounts[3].address,
       amount |-> ix.data.amount, mint |-> ix.accounts[2].address,
       token_type |-> IF ix.data.amount = 1 /\ ix.data.decimals = 0 THEN "NFT" ELSE "SPL"],
      data.transactions[k].signature>>

\* Where the plain Transfer instructions are listed: the i-th of transaction k.
Plain ==
    UNION {{<<k, i>> : i \in {i \in 1..Len(Own(k)) :
                /\ Own(k)[i].program_id = Token
                /\ TokenInstruction(Own(k)[i].data) = "Transfer"}} :
           k \in 1..Len(data.transactions)}

\* The transfer of such an instruction, if a balance of its source account, by
\* position among the message's accounts, names the mint.
PlainReport(k, i) ==
    LET tx == decoded[k]
        ix == tx.message.instructions[i]
        balances == IF tx.meta = <<>> THEN <<>>
                    ELSE tx.meta[1].preTokens \o tx.meta[1].postTokens
        n == SelectInSeq(balances, LAMBDA b : b.account = ix.accounts[1])
    IN  IF n = 0 THEN <<>>
        ELSE <<<<Transfer(Key(tx.message, ix.accounts[1]), Key(tx.message, ix.accounts[2]),
                          balances[n].mint, ix.data, IsNftMint(balances[n].mint, tx.meta)),
                 tx.signature>>>>

\* The transfers of the checked instructions and of the plain ones in shown.
TransfersOf(shown) ==
    FlattenSeq([k \in 1..Len(data.transactions) |->
        FlattenSeq([i \in 1..Len(Own(k)) |->
            IF Checked(Own(k)[i]) THEN <<CheckedReport(Own(k)[i], k)>>
            ELSE IF <<k, i>> \in shown THEN PlainReport(k, i) ELSE <<>>])])

\* Every TransferChecked instruction that the reply lists is reported, once, in
\* the order of the list over all transactions, failed ones included, with source,
\* destination and mint from the accounts that the reply lists for it, which
\* another loop has put there.  Beside them only plain Transfer instructions may be
\* reported, which the code means to do but never does: see FindTokenMint.
CheckedTransfersReported == \E shown \in SUBSET Plain : data.token_transfers = TransfersOf(shown)

\* The three lists of DEX programs that the parser writes out agree, also on a
\* transaction that mixes programs: the category is of a DEX exactly when the reply
\* lists an instruction of a program that is_dex_program knows, and it is one that
\* categorize_dex_instruction gives some instruction of a listed program.  (Nothing
\* calls these two functions.  Which of a program's kinds an instruction is, they
\* would tell from its data; categorize_transaction does not look at it.)
DexCategoryOfListedProgram ==
    \A k \in 1..Len(data.transactions) :
        LET category == data.transactions[k].transaction_category
            dex == {i \in 1..Len(Own(k)) : IsDexProgram(Own(k)[i].program_id)}
        IN  /\ category[1] = "Dex" <=> dex # {}
            /\ dex # {} => \E i \in dex, t \in U8 :
                  category[2] = CategorizeDexInstruction(Own(k)[i].program_id, [tag |-> t])

\* A block of legacy transactions that are all known to have succeeded is never
\* lost to a panic: an index can be out of range only in a misread version 0
\* message or in an instruction that the token program may have refused.
PanicNeedsUnusualBlock ==
    pc = "reset" =>
        \E enc \in ToSet(Encoded) :
            enc.version # "legacy" \/ enc.meta = <<>> \/ enc.meta[1].err # <<>>
=============================================================================
