----------------------- MODULE EthSubscription_proofs -----------------------
(***************************************************************************)
(* Proofs about SubscribeNewBlocks, for every chain, every number of HTTP  *)
(* endpoints, every capacity of the library's queue and any bounds: the    *)
(* stream leaves no announced head out, and an idle handler has sent the   *)
(* head of the chain.                                                      *)
(***************************************************************************)
EXTENDS EthSubscription, SequenceTheorems, TLAPS

AnyBlock == [number : Nat \ {0}, fork : Nat, full : BOOLEAN]
Answer   == [block : AnyBlock, behind : BOOLEAN]

\* The chains a node can have: block i is at height i.
Chains == {c \in Seq(AnyBlock) : c # <<>> /\ \A i \in 1..Len(c) : c[i].number = i}

\* What the nodes and the handler hold.
TypeOK ==
    /\ chain \in Chains
    /\ forks \in Nat
    /\ views \in [Node -> Chains]
    /\ sub \in {"none", "live", "failed"}
    /\ queue \in Seq(AnyBlock)
    /\ pc \in {"start", "subscribe", "select", "block", "receipts", "send", "returned"}
    /\ held \in Seq(AnyBlock)
    /\ fetched \in Seq(Answer)
    /\ announced \in Seq(AnyBlock)
    /\ delivered \in Seq(Answer)

\* What the handler has in hand at each place: a head while it works on one, and
\* from the answer of BlockByNumber on a block of the same number.
HandsInv ==
    /\ Len(held) = IF pc \in {"block", "receipts", "send"} THEN 1 ELSE 0
    /\ Len(fetched) = IF pc \in {"receipts", "send"} THEN 1 ELSE 0
    /\ pc \in {"receipts", "send"} => fetched[1].block.number = held[1].number

\* Nothing is announced before the subscription, and nothing waits without one.
QuietInv ==
    /\ pc \in {"start", "subscribe"} =>
          sub = "none" /\ announced = <<>> /\ delivered = <<>>
    /\ sub # "live" => queue = <<>>

\* The last head on its way is the head of the chain, by its number while it is
\* only a number, and as a block once it was fetched from an endpoint that is
\* not behind.
HeadInv ==
    sub = "live" =>
        /\ queue # <<>> => Last(queue).number = Len(chain)
        /\ queue = <<>> /\ pc = "block" => held[1].number = Len(chain)
        /\ queue = <<>> /\ pc \in {"receipts", "send"} =>
              fetched[1].block = Last(chain) \/ fetched[1].behind

\* The inductive invariant.
StreamInv == TypeOK /\ HandsInv /\ QuietInv /\ NoHeadSkipped /\ HeadInv /\ LastSentIsHead

-----------------------------------------------------------------------------
(* Sequences of blocks and of their numbers.                               *)

\* Numbers keeps the length and takes each block to its number.
LEMMA NumbersType ==
    ASSUME NEW s \in Seq(AnyBlock)
    PROVE  /\ Numbers(s) \in Seq(Nat)
           /\ Len(Numbers(s)) = Len(s)
           /\ \A i \in 1..Len(s) : Numbers(s)[i] = s[i].number
<1>1. Len(s) \in Nat /\ \A i \in 1..Len(s) : s[i] \in AnyBlock
  OBVIOUS
<1>2. \A i \in 1..Len(s) : s[i].number \in Nat
  BY <1>1 DEF AnyBlock
<1> QED BY <1>1, <1>2 DEF Numbers

\* Numbers of a concatenation.
LEMMA NumbersConcat ==
    ASSUME NEW s \in Seq(AnyBlock), NEW t \in Seq(AnyBlock)
    PROVE  Numbers(s \o t) = Numbers(s) \o Numbers(t)
<1>1. s \o t \in Seq(AnyBlock) /\ Len(s \o t) = Len(s) + Len(t)
  OBVIOUS
<1>2. /\ Numbers(s \o t) \in Seq(Nat)
      /\ Len(Numbers(s \o t)) = Len(s) + Len(t)
  BY <1>1, NumbersType
<1>3. /\ Numbers(s) \in Seq(Nat) /\ Len(Numbers(s)) = Len(s)
      /\ Numbers(t) \in Seq(Nat) /\ Len(Numbers(t)) = Len(t)
  BY NumbersType
<1>4. ASSUME NEW i \in 1..(Len(s) + Len(t))
      PROVE  Numbers(s \o t)[i] = (Numbers(s) \o Numbers(t))[i]
  <2>1. Numbers(s \o t)[i] = (s \o t)[i].number
    BY <1>1, NumbersType
  <2>2. CASE i <= Len(s)
    <3>1. (s \o t)[i] = s[i] /\ i \in 1..Len(s)
      BY <2>2
    <3>2. (Numbers(s) \o Numbers(t))[i] = Numbers(s)[i]
      BY <1>3, <3>1
    <3> QED BY <2>1, <3>1, <3>2, NumbersType
  <2>3. CASE i > Len(s)
    <3>1. (s \o t)[i] = t[i - Len(s)] /\ i - Len(s) \in 1..Len(t)
      BY <2>3
    <3>2. (Numbers(s) \o Numbers(t))[i] = Numbers(t)[i - Len(s)]
      BY <1>3, <2>3
    <3> QED BY <2>1, <3>1, <3>2, NumbersType
  <2>4. i <= Len(s) \/ i > Len(s)
    BY LenProperties
  <2> QED BY <2>2, <2>3, <2>4
<1>5. /\ Numbers(s) \o Numbers(t) \in Seq(Nat)
      /\ Len(Numbers(s) \o Numbers(t)) = Len(s) + Len(t)
  <2> DEFINE ns == Numbers(s)
             nt == Numbers(t)
  <2>1. ns \in Seq(Nat) /\ nt \in Seq(Nat)
    BY <1>3
  <2> HIDE DEF ns, nt
  <2>2. ns \o nt \in Seq(Nat) /\ Len(ns \o nt) = Len(ns) + Len(nt)
    BY <2>1
  <2> QED BY <1>3, <2>2 DEF ns, nt
<1> QED BY <1>2, <1>4, <1>5, SeqEqual

\* A sequence of one block: its numbers are that block's number.
LEMMA NumbersOne ==
    ASSUME NEW s \in Seq(AnyBlock), NEW t \in Seq(AnyBlock),
           Len(s) = 1, Len(t) = 1, s[1].number = t[1].number
    PROVE  Numbers(s) = Numbers(t)
BY DEF Numbers

\* Sent as a sequence of blocks.
LEMMA SentType ==
    ASSUME delivered \in Seq(Answer)
    PROVE  Sent \in Seq(AnyBlock)
<1>1. Len(delivered) \in Nat /\ \A i \in 1..Len(delivered) : delivered[i] \in Answer
  OBVIOUS
<1>2. \A i \in 1..Len(delivered) : delivered[i].block \in AnyBlock
  BY <1>1 DEF Answer
<1> QED BY <1>1, <1>2 DEF Sent

\* A head taken from the queue stays where it was in the stream.
LEMMA TakenInOrder ==
    ASSUME NEW s \in Seq(AnyBlock), NEW q \in Seq(AnyBlock), q # <<>>
    PROVE  (s \o <<>>) \o q = (s \o <<Head(q)>>) \o Tail(q)
<1> DEFINE h == <<Head(q)>>
           r == Tail(q)
<1>1. h \in Seq(AnyBlock) /\ r \in Seq(AnyBlock) /\ Len(h) = 1
  BY HeadTailProperties
<1>2. h \o r = q
  <2>1. h \o r \in Seq(AnyBlock) /\ Len(h \o r) = Len(q)
    BY HeadTailProperties, <1>1
  <2>2. \A i \in 1..Len(q) : (h \o r)[i] = q[i]
    BY HeadTailProperties, <1>1
  <2> QED BY <2>1, <2>2, SeqEqual
<1>3. (s \o h) \o r = s \o (h \o r)
  BY <1>1, ConcatAssociative
<1> QED BY <1>2, <1>3, ConcatEmptySeq

\* Heads that are announced join the stream at its end.
LEMMA AnnouncedInOrder ==
    ASSUME NEW a \in Seq(AnyBlock), NEW p \in Seq(AnyBlock), NEW q \in Seq(AnyBlock),
           NEW x \in Seq(AnyBlock), Numbers(a) = Numbers(p \o q)
    PROVE  Numbers(a \o x) = Numbers(p \o (q \o x))
<1>1. p \o q \in Seq(AnyBlock)
  BY ConcatProperties
<1>2. Numbers(a \o x) = Numbers(a) \o Numbers(x)
  BY NumbersConcat, Zenon
<1>3. Numbers((p \o q) \o x) = Numbers(p \o q) \o Numbers(x)
  BY <1>1, NumbersConcat, Zenon
<1>4. (p \o q) \o x = p \o (q \o x)
  BY ConcatAssociative
<1> QED BY <1>2, <1>3, <1>4, Zenon

\* A block that is sent takes the place of the head with its number.
LEMMA SentInOrder ==
    ASSUME NEW s \in Seq(AnyBlock), NEW h \in Seq(AnyBlock), NEW q \in Seq(AnyBlock),
           NEW b \in AnyBlock, Len(h) = 1, h[1].number = b.number
    PROVE  Numbers((Append(s, b) \o <<>>) \o q) = Numbers((s \o h) \o q)
<1> DEFINE o == <<b>>
<1>1. Append(s, b) \o <<>> = s \o o
  OBVIOUS
<1>2. o \in Seq(AnyBlock) /\ Len(o) = 1 /\ o[1] = b
  OBVIOUS
<1> HIDE DEF o
<1>3. Numbers(o) = Numbers(h)
  BY <1>2, NumbersOne
<1>4. s \o o \in Seq(AnyBlock) /\ s \o h \in Seq(AnyBlock)
  BY <1>2, ConcatProperties
<1>5. Numbers(s \o o) = Numbers(s) \o Numbers(o) /\ Numbers(s \o h) = Numbers(s) \o Numbers(h)
  BY <1>2, NumbersConcat, Zenon
<1>6. /\ Numbers((s \o o) \o q) = Numbers(s \o o) \o Numbers(q)
      /\ Numbers((s \o h) \o q) = Numbers(s \o h) \o Numbers(q)
  BY <1>4, NumbersConcat, Zenon
<1> QED BY <1>1, <1>3, <1>5, <1>6, Zenon

\* A new branch on a chain is a chain again, and its last block is at the
\* height of the chain.
LEMMA BranchExtends ==
    ASSUME NEW c \in Chains, NEW keep \in 1..Len(c), NEW branch \in Seq(AnyBlock),
           branch # <<>>, \A i \in 1..Len(branch) : branch[i].number = keep + i
    PROVE  /\ SubSeq(c, 1, keep) \o branch \in Chains
           /\ Len(SubSeq(c, 1, keep) \o branch) = keep + Len(branch)
           /\ Last(branch) \in AnyBlock /\ Last(branch).number = keep + Len(branch)
<1> DEFINE kept == SubSeq(c, 1, keep)
           grown == kept \o branch
<1>1. Len(branch) \in Nat \ {0}
  OBVIOUS
<1>2. c \in Seq(AnyBlock) /\ \A i \in 1..Len(c) : c[i].number = i
  BY DEF Chains
<1>3. kept \in Seq(AnyBlock) /\ Len(kept) = keep /\ \A i \in 1..keep : kept[i] = c[i]
  BY <1>2
<1> HIDE DEF kept
<1>4. grown \in Seq(AnyBlock) /\ Len(grown) = keep + Len(branch)
  BY <1>3, ConcatProperties
<1>5. \A i \in 1..Len(grown) : grown[i].number = i
  <2> TAKE i \in 1..Len(grown)
  <2>1. CASE i <= keep
    <3>1. grown[i] = kept[i] /\ i \in 1..keep
      BY <1>3, <1>4, <2>1
    <3> QED BY <1>2, <1>3, <3>1
  <2>2. CASE i > keep
    <3>1. grown[i] = branch[i - keep] /\ i - keep \in 1..Len(branch)
      BY <1>1, <1>3, <1>4, <2>2
    <3>2. branch[i - keep].number = keep + (i - keep)
      BY <3>1
    <3> QED BY <1>4, <3>1, <3>2
  <2> QED BY <1>4, <2>1, <2>2
<1>6. grown # <<>>
  BY <1>1, <1>4
<1>7. Last(branch) \in AnyBlock /\ Last(branch).number = keep + Len(branch)
  BY <1>1 DEF Last
<1> QED BY <1>4, <1>5, <1>6, <1>7 DEF Chains, kept

-----------------------------------------------------------------------------
(* The inductive step.                                                     *)

\* A handler that returns has nothing in hand and leaves no subscription.
LEMMA ReturnStep ==
    ASSUME StreamInv, Return
    PROVE  StreamInv'
<1>1. TypeOK'
  BY DEF StreamInv, TypeOK, Return, chainVars
<1>2. HandsInv'
  BY DEF HandsInv, Return
<1>3. QuietInv'
  BY DEF QuietInv, Return
<1>4. NoHeadSkipped' /\ HeadInv' /\ LastSentIsHead'
  BY DEF NoHeadSkipped, HeadInv, LastSentIsHead, Return
<1> QED BY <1>1, <1>2, <1>3, <1>4 DEF StreamInv

\* The next head: the stream stays in order, and the last head is looked for by
\* the height of the chain.
LEMMA TakeHeaderStep ==
    ASSUME StreamInv, TakeHeader
    PROVE  StreamInv'
<1> USE DEF StreamInv
<1>1. /\ queue \in Seq(AnyBlock) /\ queue # <<>> /\ sub = "live"
      /\ Head(queue) \in AnyBlock /\ Head(queue) = queue[1]
      /\ Tail(queue) \in Seq(AnyBlock) /\ Len(Tail(queue)) = Len(queue) - 1
      /\ \A i \in 1..Len(Tail(queue)) : Tail(queue)[i] = queue[i + 1]
  BY DEF TypeOK, QuietInv, TakeHeader
<1>2. TypeOK'
  BY <1>1 DEF TypeOK, TakeHeader, chainVars
<1>3. HandsInv'
  BY DEF HandsInv, TakeHeader
<1>4. QuietInv'
  BY <1>1 DEF QuietInv, TakeHeader
<1>5. NoHeadSkipped'
  <2>1. held = <<>> /\ held \in Seq(AnyBlock)
    BY DEF TypeOK, HandsInv, TakeHeader
  <2>2. Sent' = Sent /\ Sent \in Seq(AnyBlock)
    BY SentType DEF TypeOK, Sent, TakeHeader
  <2>3. (Sent \o <<>>) \o queue = (Sent \o <<Head(queue)>>) \o Tail(queue)
    BY <1>1, <2>2, TakenInOrder
  <2>4. /\ announced' = announced
        /\ held' = <<Head(queue)>>
        /\ queue' = Tail(queue)
    BY DEF TakeHeader
  <2>5. Numbers(announced) = Numbers(Sent \o held \o queue)
    BY <1>1 DEF NoHeadSkipped
  <2> QED BY <2>1, <2>2, <2>3, <2>4, <2>5 DEF NoHeadSkipped, Numbers
<1>6. HeadInv'
  <2>1. chain' = chain /\ pc' = "block" /\ sub' = sub /\ held' = <<Head(queue)>>
        /\ queue' = Tail(queue)
    BY DEF TakeHeader, chainVars
  <2>2. queue[Len(queue)].number = Len(chain)
    BY <1>1 DEF HeadInv, Last
  <2> DEFINE r == Tail(queue)
  <2>3. r \in Seq(AnyBlock) /\ Len(r) = Len(queue) - 1 /\ queue' = r
        /\ \A i \in 1..Len(r) : r[i] = queue[i + 1]
    BY <1>1, <2>1
  <2>4. Len(queue) \in Nat \ {0}
    BY <1>1
  <2> HIDE DEF r
  <2>5. CASE r = <<>>
    <3>1. Len(queue) = 1
      BY <2>3, <2>4, <2>5
    <3> QED BY <1>1, <2>1, <2>2, <2>3, <2>5, <3>1 DEF HeadInv
  <2>6. CASE r # <<>>
    <3>1. Len(r) \in 1..Len(r)
      BY <2>3, <2>6
    <3>2. Last(queue)' = queue[Len(queue)]
      BY <2>3, <2>4, <3>1 DEF Last
    <3> QED BY <2>1, <2>2, <2>3, <2>6, <3>2 DEF HeadInv
  <2> QED BY <2>5, <2>6
<1>7. LastSentIsHead'
  BY DEF LastSentIsHead, TakeHeader
<1> QED BY <1>2, <1>3, <1>4, <1>5, <1>6, <1>7

\* BlockByNumber answers with a block of the number asked for, which is the head
\* of the chain when the endpoint has the chain and the number is its height.
LEMMA FetchBlockStep ==
    ASSUME StreamInv, FetchBlock
    PROVE  StreamInv'
<1> USE DEF StreamInv
<1>1. PICK e \in Node : /\ held[1].number <= Len(views[e])
                        /\ fetched' = <<Found(e, held[1].number)>>
  BY DEF FetchBlock
<1>2. /\ pc = "block" /\ pc' = "receipts"
      /\ chain' = chain /\ forks' = forks /\ views' = views /\ sub' = sub /\ queue' = queue
      /\ held' = held /\ announced' = announced /\ delivered' = delivered
  BY DEF FetchBlock, chainVars
<1>3. /\ held \in Seq(AnyBlock) /\ Len(held) = 1 /\ held[1] \in AnyBlock
      /\ views[e] \in Seq(AnyBlock) /\ chain \in Chains
      /\ \A i \in 1..Len(views[e]) : views[e][i].number = i
  <2>1. held \in Seq(AnyBlock) /\ Len(held) = 1
    BY <1>2 DEF TypeOK, HandsInv
  <2>2. held[1] \in AnyBlock
    BY <2>1
  <2>3. views[e] \in Chains /\ chain \in Chains
    BY DEF TypeOK
  <2> QED BY <2>1, <2>2, <2>3 DEF Chains
<1>4. held[1].number \in 1..Len(views[e])
  BY <1>1, <1>3 DEF AnyBlock
<1> DEFINE b == views[e][held[1].number]
           behind == views[e] # chain
<1>5. /\ b \in AnyBlock /\ b.number = held[1].number
      /\ behind \in BOOLEAN
      /\ held[1].number = Len(chain) => b = Last(chain) \/ behind
  BY <1>3, <1>4 DEF Last
<1>6. fetched' = <<[block |-> b, behind |-> behind]>>
  BY <1>1 DEF Found
<1> HIDE DEF b, behind
<1>7. /\ fetched' \in Seq(Answer) /\ Len(fetched') = 1
      /\ fetched'[1].block = b /\ fetched'[1].behind = behind
  <2>1. [block |-> b, behind |-> behind] \in Answer
    BY <1>5 DEF Answer
  <2> QED BY <1>6, <2>1
<1>8. TypeOK'
  BY <1>2, <1>7 DEF TypeOK
<1>9. HandsInv'
  BY <1>2, <1>3, <1>5, <1>7 DEF HandsInv
<1>10. QuietInv'
  BY <1>2 DEF QuietInv
<1>11. NoHeadSkipped'
  <2>1. Sent' = Sent
    BY <1>2 DEF Sent
  <2> QED BY <1>2, <2>1 DEF NoHeadSkipped, Numbers
<1>12. HeadInv'
  <2>1. Last(chain)' = Last(chain) /\ Last(queue)' = Last(queue)
    BY <1>2 DEF Last
  <2> QED BY <1>2, <1>5, <1>7, <2>1 DEF HeadInv
<1>13. LastSentIsHead'
  BY <1>2 DEF LastSentIsHead
<1> QED BY <1>8, <1>9, <1>10, <1>11, <1>12, <1>13

\* A block that was sent takes its head's place in the stream, and is the head
\* of the chain if nothing else waits.
LEMMA SendStep ==
    ASSUME StreamInv, Send
    PROVE  StreamInv'
<1> USE DEF StreamInv
<1>1. /\ pc = "send" /\ pc' = "select" /\ held' = <<>> /\ fetched' = <<>>
      /\ delivered' = Append(delivered, fetched[1])
      /\ chain' = chain /\ forks' = forks /\ views' = views /\ sub' = sub /\ queue' = queue
      /\ announced' = announced
  BY DEF Send, chainVars
<1>2. /\ held \in Seq(AnyBlock) /\ Len(held) = 1 /\ queue \in Seq(AnyBlock)
      /\ fetched \in Seq(Answer) /\ Len(fetched) = 1 /\ fetched[1] \in Answer
      /\ delivered \in Seq(Answer)
      /\ fetched[1].block.number = held[1].number
  <2>1. /\ held \in Seq(AnyBlock) /\ Len(held) = 1 /\ queue \in Seq(AnyBlock)
        /\ fetched \in Seq(Answer) /\ Len(fetched) = 1
        /\ delivered \in Seq(Answer)
        /\ fetched[1].block.number = held[1].number
    BY <1>1 DEF TypeOK, HandsInv
  <2>2. fetched[1] \in Answer
    <3>1. 1 \in 1..Len(fetched)
      BY <2>1
    <3> QED BY <2>1, <3>1, ElementOfSeq
  <2> QED BY <2>1, <2>2
<1>3. fetched[1].block \in AnyBlock
  BY <1>2 DEF Answer
<1>4. TypeOK'
  BY <1>1, <1>2 DEF TypeOK
<1>5. HandsInv'
  BY <1>1 DEF HandsInv
<1>6. QuietInv'
  BY <1>1 DEF QuietInv
<1>7. NoHeadSkipped'
  <2> DEFINE b == fetched[1].block
  <2>1. Sent' = Append(Sent, b) /\ Sent \in Seq(AnyBlock)
    <3>1. Sent \in Seq(AnyBlock) /\ Len(Sent) = Len(delivered)
      BY <1>2, SentType DEF Sent
    <3>2. /\ Len(delivered') = Len(delivered) + 1
          /\ \A i \in 1..Len(delivered) : delivered'[i] = delivered[i]
          /\ delivered'[Len(delivered) + 1] = fetched[1]
      BY <1>1, <1>2
    <3>3. delivered' \in Seq(Answer)
      BY <1>1, <1>2
    <3>4. Sent' = [i \in 1..(Len(delivered) + 1) |-> delivered'[i].block]
      BY <3>2 DEF Sent
    <3>5. \A i \in 1..(Len(delivered) + 1) : delivered'[i].block \in AnyBlock
      <4>1. \A i \in 1..(Len(delivered) + 1) : delivered'[i] \in Answer
        BY <3>2, <3>3
      <4> QED BY <4>1 DEF Answer
    <3>6. Sent' \in Seq(AnyBlock) /\ Len(Sent') = Len(delivered) + 1
      BY <1>2, <3>4, <3>5
    <3>7. Append(Sent, b) \in Seq(AnyBlock) /\ Len(Append(Sent, b)) = Len(delivered) + 1
      BY <1>3, <3>1
    <3>8. ASSUME NEW i \in 1..(Len(delivered) + 1)
          PROVE  Sent'[i] = Append(Sent, b)[i]
      <4>1. CASE i = Len(delivered) + 1
        <5>1. Sent'[i] = b
          BY <3>2, <3>4, <4>1
        <5> QED BY <1>3, <3>1, <4>1, <5>1
      <4>2. CASE i \in 1..Len(delivered)
        <5>1. Sent'[i] = Sent[i]
          BY <3>2, <3>4, <4>2 DEF Sent
        <5> QED BY <1>3, <3>1, <4>2, <5>1
      <4>3. i = Len(delivered) + 1 \/ i \in 1..Len(delivered)
        <5>1. Len(delivered) \in Nat
          BY <1>2
        <5> QED BY <5>1
      <4> QED BY <4>1, <4>2, <4>3
    <3> QED BY <3>1, <3>6, <3>7, <3>8, SeqEqual
  <2> HIDE DEF b
  <2>2. b \in AnyBlock /\ held[1].number = b.number
    BY <1>2, <1>3 DEF b
  <2>3. Numbers((Append(Sent, b) \o <<>>) \o queue) = Numbers((Sent \o held) \o queue)
    BY <1>2, <2>1, <2>2, SentInOrder
  <2>4. Numbers(Sent \o held \o queue)' = Numbers((Append(Sent, b) \o <<>>) \o queue)
    BY <1>1, <2>1 DEF Numbers
  <2>5. Numbers(announced)' = Numbers(announced)
    BY <1>1 DEF Numbers
  <2> QED BY <1>1, <2>3, <2>4, <2>5 DEF NoHeadSkipped
<1>8. HeadInv'
  <2>1. Last(queue)' = Last(queue)
    BY <1>1 DEF Last
  <2> QED BY <1>1, <2>1 DEF HeadInv
<1>9. LastSentIsHead'
  <2>1. Last(delivered)' = fetched[1]
    BY <1>1, <1>2 DEF Last
  <2>2. Last(chain)' = Last(chain)
    BY <1>1 DEF Last
  <2> QED BY <1>1, <2>1, <2>2 DEF HeadInv, LastSentIsHead
<1> QED BY <1>4, <1>5, <1>6, <1>7, <1>8, <1>9

\* The heads of a new branch, whose last is the head of the chain, join the
\* queue of a live subscription or end it.
LEMMA NewBranchStep ==
    ASSUME StreamInv, NewBranch
    PROVE  StreamInv'
<1> USE DEF StreamInv
<1>1. PICK keep \in 1..Len(chain), n \in 1..MaxHeight, full \in BOOLEAN :
          LET branch == [i \in 1..n |-> Block(keep + i, forks', full)]
          IN  /\ chain' = SubSeq(chain, 1, keep) \o branch
              /\ Announce(branch) \/ Announce(<<Last(branch)>>)
  BY DEF NewBranch
<1>2. /\ forks' = forks + 1 /\ views' = views /\ pc' = pc /\ held' = held
      /\ fetched' = fetched /\ delivered' = delivered
  BY DEF NewBranch
<1> DEFINE branch == [i \in 1..n |-> Block(keep + i, forks', full)]
<1>3. n \in Nat \ {0} /\ forks' \in Nat /\ chain \in Chains
  BY <1>2, SubscriptionAssumption DEF TypeOK
<1>4. /\ branch \in Seq(AnyBlock) /\ branch # <<>>
      /\ chain' \in Chains /\ Len(chain') = keep + n
      /\ Last(branch) \in AnyBlock /\ Last(branch).number = keep + n
  <2>1. \A i \in 1..n : /\ Block(keep + i, forks', full) \in AnyBlock
                        /\ branch[i].number = keep + i
    BY <1>3 DEF Block, AnyBlock
  <2>2. branch \in Seq(AnyBlock) /\ Len(branch) = n
    BY <1>3, <2>1, IsASeq
  <2>3. chain' = SubSeq(chain, 1, keep) \o branch
    BY <1>1
  <2> HIDE DEF branch
  <2>4. branch # <<>>
    BY <1>3, <2>2
  <2> QED BY <1>3, <2>1, <2>2, <2>3, <2>4, BranchExtends
<1>5. PICK heads \in Seq(AnyBlock) : /\ heads # <<>> /\ Announce(heads)
                                     /\ Last(heads).number = Len(chain')
  <2> HIDE DEF branch
  <2> DEFINE tip == <<Last(branch)>>
  <2>1. tip \in Seq(AnyBlock) /\ tip # <<>> /\ Last(tip) = Last(branch)
    BY <1>4 DEF Last
  <2>2. Announce(branch) \/ Announce(tip)
    BY <1>1 DEF branch
  <2> HIDE DEF tip
  <2> QED BY <1>4, <2>1, <2>2
<1>6. CASE sub # "live" \/ sub' # "live"
  <2>1. /\ sub' = sub \/ (sub' = "failed" /\ sub = "live")
        /\ sub' # "live" /\ queue' = <<>> /\ announced' = announced
    BY <1>5, <1>6 DEF Announce, QuietInv
  <2>2. TypeOK'
    BY <1>2, <1>3, <1>4, <2>1 DEF TypeOK
  <2>3. HandsInv'
    BY <1>2 DEF HandsInv
  <2>4. QuietInv'
    BY <1>2, <2>1 DEF QuietInv
  <2>5. NoHeadSkipped' /\ HeadInv' /\ LastSentIsHead'
    BY <2>1 DEF NoHeadSkipped, HeadInv, LastSentIsHead
  <2> QED BY <2>2, <2>3, <2>4, <2>5
<1>7. CASE sub = "live" /\ sub' = "live"
  <2>1. queue' = queue \o heads /\ announced' = announced \o heads
    BY <1>5, <1>7 DEF Announce
  <2>2. /\ queue \in Seq(AnyBlock) /\ announced \in Seq(AnyBlock) /\ held \in Seq(AnyBlock)
        /\ delivered \in Seq(Answer)
    BY DEF TypeOK
  <2>3. /\ queue' \in Seq(AnyBlock) /\ announced' \in Seq(AnyBlock)
        /\ Len(queue') = Len(queue) + Len(heads)
    BY <2>1, <2>2
  <2>4. TypeOK'
    BY <1>2, <1>3, <1>4, <1>7, <2>3 DEF TypeOK
  <2>5. HandsInv'
    BY <1>2 DEF HandsInv
  <2>6. QuietInv'
    BY <1>2, <1>7 DEF QuietInv
  <2>7. NoHeadSkipped'
    <3> DEFINE p == Sent \o held
    <3>1. Sent \in Seq(AnyBlock) /\ Sent' = Sent
      BY <1>2, <2>2, SentType DEF Sent
    <3>2. p \in Seq(AnyBlock) /\ p' = p
      BY <1>2, <2>2, <3>1, ConcatProperties
    <3>3. Numbers(announced) = Numbers(p \o queue)
      BY <1>7 DEF NoHeadSkipped
    <3> HIDE DEF p
    <3>4. Numbers(announced \o heads) = Numbers(p \o (queue \o heads))
      BY <2>2, <3>2, <3>3, AnnouncedInOrder
    <3>5. Numbers(announced)' = Numbers(announced \o heads)
      BY <2>1 DEF Numbers
    <3>6. Numbers(p \o queue)' = Numbers(p \o (queue \o heads))
      BY <2>1, <3>2 DEF Numbers
    <3> QED BY <3>4, <3>5, <3>6 DEF NoHeadSkipped, p
  <2>8. queue' # <<>> /\ Last(queue)' = Last(heads)
    <3>1. Len(heads) \in Nat \ {0} /\ Len(queue) \in Nat
      BY <1>5, <2>2
    <3>2. (queue \o heads)[Len(queue) + Len(heads)] = heads[Len(heads)]
      BY <2>2, <3>1
    <3>3. Len(queue') # 0
      BY <2>3, <3>1
    <3> QED BY <2>1, <2>3, <3>2, <3>3 DEF Last
  <2>9. HeadInv'
    BY <1>5, <2>8 DEF HeadInv
  <2>10. LastSentIsHead'
    BY <2>8 DEF LastSentIsHead
  <2> QED BY <2>4, <2>5, <2>6, <2>7, <2>9, <2>10
<1> QED BY <1>6, <1>7

\* The steps that leave the stream and the queue as they are.
LEMMA QuietSteps ==
    ASSUME StreamInv,
           \/ WSClient \/ SubscribeNewHead \/ FetchReceipts \/ CheckHealth \/ ClientLeaves
           \/ \E e \in Node : CatchUp(e)
           \/ UNCHANGED vars
    PROVE  StreamInv'
<1> USE DEF StreamInv
<1>1. /\ chain' = chain /\ forks' = forks /\ queue' = queue /\ held' = held
      /\ fetched' = fetched /\ announced' = announced /\ delivered' = delivered
  BY DEF WSClient, SubscribeNewHead, FetchReceipts, CheckHealth, ClientLeaves, CatchUp,
         chainVars, vars
<1>2. \/ pc' = pc /\ sub' = sub
      \/ pc = "start" /\ pc' = "subscribe" /\ sub' = sub
      \/ pc = "subscribe" /\ pc' = "select" /\ sub' = "live"
      \/ pc = "receipts" /\ pc' = "send" /\ sub' = sub
  BY DEF WSClient, SubscribeNewHead, FetchReceipts, CheckHealth, ClientLeaves, CatchUp, vars
<1>3. views' \in [Node -> Chains]
  BY DEF TypeOK, WSClient, SubscribeNewHead, FetchReceipts, CheckHealth, ClientLeaves,
         CatchUp, chainVars, vars
<1>4. TypeOK'
  BY <1>1, <1>2, <1>3 DEF TypeOK
<1>5. HandsInv'
  BY <1>1, <1>2 DEF HandsInv
<1>6. QuietInv'
  BY <1>1, <1>2 DEF QuietInv
<1>7. CASE sub' = sub
  <2>1. Sent' = Sent /\ Last(chain)' = Last(chain) /\ Last(queue)' = Last(queue)
        /\ Last(delivered)' = Last(delivered)
    BY <1>1 DEF Sent, Last
  <2>2. NoHeadSkipped'
    BY <1>1, <1>7, <2>1 DEF NoHeadSkipped, Numbers
  <2>3. HeadInv'
    BY <1>1, <1>2, <1>7, <2>1 DEF HeadInv, QuietInv
  <2>4. LastSentIsHead'
    BY <1>1, <1>2, <1>7, <2>1 DEF LastSentIsHead, QuietInv
  <2> QED BY <1>4, <1>5, <1>6, <2>2, <2>3, <2>4
<1>8. CASE pc = "subscribe" /\ pc' = "select" /\ sub' = "live"
  <2>1. /\ announced' = <<>> /\ delivered' = <<>> /\ queue' = <<>> /\ held' = <<>>
    BY <1>1, <1>8 DEF TypeOK, HandsInv, QuietInv
  <2>2. NoHeadSkipped'
    <3>1. Sent' = <<>>
      BY <2>1 DEF Sent
    <3>2. (Sent \o held \o queue)' = <<>>
      BY <2>1, <3>1
    <3>3. Numbers(announced)' = Numbers(Sent \o held \o queue)'
      BY <2>1, <3>2 DEF Numbers
    <3> QED BY <3>3 DEF NoHeadSkipped
  <2>3. HeadInv'
    BY <1>8, <2>1 DEF HeadInv
  <2>4. LastSentIsHead'
    BY <2>1 DEF LastSentIsHead
  <2> QED BY <1>4, <1>5, <1>6, <2>2, <2>3, <2>4
<1> QED BY <1>2, <1>7, <1>8

\* The connection is lost: the queue goes with it.
LEMMA DisconnectStep ==
    ASSUME StreamInv, Disconnect
    PROVE  StreamInv'
<1>1. TypeOK' /\ HandsInv'
  BY DEF StreamInv, TypeOK, HandsInv, Disconnect, chainVars
<1>2. QuietInv'
  BY DEF StreamInv, QuietInv, Disconnect
<1>3. NoHeadSkipped' /\ HeadInv' /\ LastSentIsHead'
  BY DEF NoHeadSkipped, HeadInv, LastSentIsHead, Disconnect
<1> QED BY <1>1, <1>2, <1>3 DEF StreamInv

\* The invariant holds at the start.
LEMMA StreamInit == Init => StreamInv
<1> SUFFICES ASSUME Init PROVE StreamInv
  OBVIOUS
<1>1. chain \in Chains
  <2> DEFINE g == Block(1, 0, FALSE)
  <2>1. g \in AnyBlock /\ g.number = 1
    BY DEF Block, AnyBlock
  <2>2. chain = <<g>>
    BY DEF Init
  <2> HIDE DEF g
  <2>3. chain \in Seq(AnyBlock) /\ Len(chain) = 1 /\ chain[1] = g
    BY <2>1, <2>2
  <2>4. chain # <<>> /\ \A i \in 1..Len(chain) : i = 1
    BY <2>3
  <2> QED BY <2>1, <2>3, <2>4 DEF Chains
<1>2. TypeOK
  <2>1. views \in [Node -> Chains]
    BY <1>1 DEF Init
  <2>2. /\ queue = <<>> /\ held = <<>> /\ fetched = <<>> /\ announced = <<>>
        /\ delivered = <<>> /\ forks = 0 /\ sub = "none" /\ pc = "start"
    BY DEF Init
  <2> QED BY <1>1, <2>1, <2>2 DEF TypeOK
<1>3. HandsInv /\ QuietInv
  BY DEF Init, HandsInv, QuietInv
<1>4. NoHeadSkipped /\ HeadInv /\ LastSentIsHead
  BY DEF Init, NoHeadSkipped, HeadInv, LastSentIsHead
<1> QED BY <1>2, <1>3, <1>4 DEF StreamInv

\* StreamInv is an invariant of SubscribeNewBlocks.
LEMMA StreamInvariant == Spec => []StreamInv
<1>1. StreamInv /\ [Next]_vars => StreamInv'
  <2> SUFFICES ASSUME StreamInv, [Next]_vars PROVE StreamInv'
    OBVIOUS
  <2>1. CASE Return
    BY <2>1, ReturnStep
  <2>2. CASE TakeHeader
    BY <2>2, TakeHeaderStep
  <2>3. CASE FetchBlock
    BY <2>3, FetchBlockStep
  <2>4. CASE Send
    BY <2>4, SendStep
  <2>5. CASE NewBranch
    BY <2>5, NewBranchStep
  <2>6. CASE Disconnect
    BY <2>6, DisconnectStep
  <2>7. CASE \/ WSClient \/ SubscribeNewHead \/ FetchReceipts \/ CheckHealth \/ ClientLeaves
             \/ \E e \in Node : CatchUp(e)
             \/ UNCHANGED vars
    BY <2>7, QuietSteps
  <2> QED BY <2>1, <2>2, <2>3, <2>4, <2>5, <2>6, <2>7
          DEF Next, HandlerStep, NoWSClient, SubscribeFails, SubscriptionError, ContextDone,
              FetchFails, ReceiptsFail, SendFails
<1> QED BY StreamInit, <1>1, PTL DEF Spec

-----------------------------------------------------------------------------
(* Theorems.                                                               *)

\* While a subscription lives, the numbers of the blocks sent, of the head in hand
\* and of the heads waiting are the numbers of the heads announced, in order:
\* SubscribeNewBlocks skips no head, whatever fork replaces the chain, however
\* far behind the HTTP endpoints are and wherever requests fail.
THEOREM NoHeadIsSkipped == Spec => []NoHeadSkipped
<1>1. StreamInv => NoHeadSkipped
  BY DEF StreamInv
<1> QED BY StreamInvariant, <1>1, PTL

\* A handler with a live subscription and nothing left to do has sent the block
\* at the head of the chain, or one that an endpoint which was behind gave it.
THEOREM IdleHandlerSentHead == Spec => []LastSentIsHead
<1>1. StreamInv => LastSentIsHead
  BY DEF StreamInv
<1> QED BY StreamInvariant, <1>1, PTL
=============================================================================
