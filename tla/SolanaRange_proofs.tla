------------------------- MODULE SolanaRange_proofs -------------------------
(***************************************************************************)
(* Proofs about get_block_range of the Solana service, for every width of  *)
(* the slot numbers, every MAX_RANGE, every capacity of the response       *)
(* channel and every request: a range that passes the checks is never long *)
(* and a stream that ends without an error is complete.                    *)
(***************************************************************************)
EXTENDS SolanaRange, SequenceTheorems, TLAPS

Item == [slot : Int, ok : BOOLEAN]

\* What the handler, the task and the client hold.
TypeOK ==
    /\ req \in [start : Int64, end : Int64]
    /\ handler \in {"check", "rejected", "streaming"}
    /\ task \in {"none", "list", "fetch", "send", "ended"}
    /\ answered \in BOOLEAN
    /\ listed \in Seq(Nat)
    /\ todo \in Seq(Nat)
    /\ held \in Seq(Item)
    /\ out \in Seq(Item)
    /\ stream \in {"open", "ok", "error", "left"}
    /\ received \in Seq(Item)

\* Nothing happens before the request is accepted, nor if it is not.
RequestInv ==
    /\ handler = "streaming" <=> task # "none"
    /\ handler = "streaming" => Accepted
    /\ task \in {"none", "list"} => /\ ~answered /\ listed = <<>> /\ todo = <<>>
                                    /\ held = <<>> /\ out = <<>> /\ received = <<>>
    /\ ~answered => todo = <<>>
    /\ handler = "check" => stream = "open"
    /\ handler = "rejected" => stream = "error"

\* The items on their way to the client, those it has received included.
Made == (received \o out) \o held

\* P has an item for every slot of a first part of L, and T is the rest of L.
Covers(P, T, L) ==
    /\ Len(P) + Len(T) = Len(L)
    /\ \A i \in 1..Len(P) : P[i].slot = L[i]
    /\ \A i \in 1..Len(T) : T[i] = L[Len(P) + i]

\* While the client reads, it has only seen blocks; the error of get_blocks is
\* alone on its way, and after an answer every slot has its item or is still to
\* be fetched.
StreamInv ==
    stream = "open" =>
        /\ \A i \in 1..Len(received) : received[i].ok
        /\ task \in {"send", "ended"} /\ ~answered =>
              /\ received = <<>> /\ out \o held = <<ListFailure>>
              /\ task = "ended" => held = <<>>
        /\ task = "fetch" => answered
        /\ answered => Covers(Made, todo, listed)
        /\ task = "send" <=> held # <<>>
        /\ task = "send" => Len(held) = 1
        /\ task = "ended" => todo = <<>>

\* The inductive invariant.
RangeInv == TypeOK /\ RequestInv /\ StreamInv /\ OkMeansAllListed /\ ListWithinLimit

-----------------------------------------------------------------------------
(* The arithmetic of the checks.                                           *)

\* The remainder of numbers no further than one modulus from its range.
LEMMA Remainders ==
    ASSUME NEW w \in Nat \ {0}, NEW a \in Int
    PROVE  /\ a \in 0..(w - 1) => a % w = a
           /\ a + w \in 0..(w - 1) => a % w = a + w
           /\ a - w \in 0..(w - 1) => a % w = a - w
OBVIOUS

\* A range that passes the checks and does not end before it starts, as the
\* unsigned numbers get_blocks is called with, has at most MaxRange + 1 slots:
\* the difference wraps around only if the start is negative and the end is not.
LEMMA AcceptedIsShort ==
    ASSUME NEW s \in Int64, NEW e \in Int64, s <= e, Wrapped(e - s) <= MaxRange,
           AsUnsigned(s) <= AsUnsigned(e)
    PROVE  /\ AsUnsigned(s) \in Nat /\ AsUnsigned(e) \in Nat
           /\ AsUnsigned(e) - AsUnsigned(s) <= MaxRange
<1>1. /\ Half \in Nat \ {0} /\ MaxRange \in Nat /\ MaxRange < Half
      /\ s \in Int /\ e \in Int /\ -Half <= s /\ s < Half /\ -Half <= e /\ e < Half
  BY RangeAssumption DEF Int64
<1> DEFINE w == 2 * Half
<1>2. w \in Nat \ {0} /\ w = Half + Half
  BY <1>1
<1> HIDE DEF w
<1>3. /\ AsUnsigned(s) = s % w /\ AsUnsigned(e) = e % w
      /\ Wrapped(e - s) = ((e - s + Half) % w) - Half
  BY DEF AsUnsigned, Wrapped, w
<1>4. /\ s >= 0 => s % w = s
      /\ s < 0 => s % w = s + w
  <2>1. /\ s >= 0 => s \in 0..(w - 1)
        /\ s < 0 => s + w \in 0..(w - 1)
    BY <1>1, <1>2
  <2>2. /\ s \in 0..(w - 1) => s % w = s
        /\ s + w \in 0..(w - 1) => s % w = s + w
    BY <1>1, <1>2, Remainders
  <2> QED BY <2>1, <2>2
<1>5. /\ e >= 0 => e % w = e
      /\ e < 0 => e % w = e + w
  <2>1. /\ e >= 0 => e \in 0..(w - 1)
        /\ e < 0 => e + w \in 0..(w - 1)
    BY <1>1, <1>2
  <2>2. /\ e \in 0..(w - 1) => e % w = e
        /\ e + w \in 0..(w - 1) => e % w = e + w
    BY <1>1, <1>2, Remainders
  <2> QED BY <2>1, <2>2
<1>6. e - s < Half => (e - s + Half) % w = e - s + Half
  <2> DEFINE d == e - s + Half
  <2>1. d \in Int /\ (e - s < Half => d \in 0..(w - 1))
    BY <1>1, <1>2
  <2> HIDE DEF d
  <2>2. d \in 0..(w - 1) => d % w = d
    BY <1>2, <2>1, Remainders
  <2> QED BY <2>1, <2>2 DEF d
<1>7. CASE e - s < Half
  <2>1. e - s <= MaxRange
    BY <1>1, <1>3, <1>6, <1>7
  <2> QED BY <1>1, <1>2, <1>3, <1>4, <1>5, <2>1
<1>8. CASE e - s >= Half
  BY <1>1, <1>2, <1>3, <1>4, <1>5, <1>8
<1> QED BY <1>1, <1>7, <1>8

-----------------------------------------------------------------------------
(* The stream.                                                             *)

\* An item that goes from the channel to the client stays where it was.
LEMMA ReadInOrder ==
    ASSUME NEW r \in Seq(Item), NEW o \in Seq(Item), o # <<>>
    PROVE  Append(r, Head(o)) \o Tail(o) = r \o o
<1> DEFINE h == <<Head(o)>>
           u == Tail(o)
<1>1. h \in Seq(Item) /\ u \in Seq(Item) /\ Len(h) = 1
  BY HeadTailProperties
<1>2. h \o u = o
  <2>1. h \o u \in Seq(Item) /\ Len(h \o u) = Len(o)
    BY HeadTailProperties, <1>1
  <2>2. \A i \in 1..Len(o) : (h \o u)[i] = o[i]
    BY HeadTailProperties, <1>1
  <2> QED BY <2>1, <2>2, SeqEqual
<1>3. (r \o h) \o u = r \o (h \o u)
  BY <1>1, ConcatAssociative
<1>4. Append(r, Head(o)) = r \o h
  BY HeadTailProperties
<1> QED BY <1>2, <1>3, <1>4

\* An item that goes from the task into the channel stays where it was.
LEMMA SentInOrder ==
    ASSUME NEW r \in Seq(Item), NEW o \in Seq(Item), NEW h \in Seq(Item)
    PROVE  (r \o (o \o h)) \o <<>> = (r \o o) \o h
<1>1. r \o (o \o h) \in Seq(Item)
  BY ConcatProperties
<1>2. (r \o (o \o h)) \o <<>> = r \o (o \o h)
  BY <1>1, ConcatEmptySeq
<1> QED BY <1>2, ConcatAssociative

\* The item of the next slot.
LEMMA FetchedInOrder ==
    ASSUME NEW P \in Seq(Item), NEW T \in Seq(Nat), NEW L \in Seq(Nat), NEW x \in Item,
           T # <<>>, x.slot = Head(T), Covers(P, T, L)
    PROVE  Covers(P \o <<x>>, Tail(T), L)
<1> DEFINE Q == P \o <<x>>
           U == Tail(T)
<1>1. /\ Q \in Seq(Item) /\ Len(Q) = Len(P) + 1 /\ Q[Len(P) + 1] = x
      /\ \A i \in 1..Len(P) : Q[i] = P[i]
  OBVIOUS
<1>2. /\ U \in Seq(Nat) /\ Len(U) = Len(T) - 1
      /\ \A i \in 1..Len(U) : U[i] = T[i + 1]
  BY HeadTailProperties
<1>3. Len(P) \in Nat /\ Len(T) \in Nat \ {0} /\ Len(L) \in Nat /\ Head(T) = T[1]
  OBVIOUS
<1> HIDE DEF Q, U
<1>4. Len(Q) + Len(U) = Len(L)
  <2>1. Len(P) + Len(T) = Len(L)
    BY DEF Covers
  <2>2. Len(Q) = Len(P) + 1 /\ Len(U) = Len(T) - 1
    BY <1>1, <1>2
  <2>3. \A p, q, l \in Int : p + q = l => (p + 1) + (q - 1) = l
    OBVIOUS
  <2>4. Len(P) \in Int /\ Len(T) \in Int /\ Len(L) \in Int
    BY <1>3
  <2>5. (Len(P) + 1) + (Len(T) - 1) = Len(L)
    BY <2>1, <2>3, <2>4, Zenon
  <2> QED BY <2>2, <2>5, Zenon
<1>5. ASSUME NEW i \in 1..Len(Q) PROVE Q[i].slot = L[i]
  <2>1. CASE i \in 1..Len(P)
    BY <1>1, <2>1 DEF Covers
  <2>2. CASE i = Len(P) + 1
    <3>1. T[1] = L[Len(P) + 1]
      BY <1>3 DEF Covers
    <3> QED BY <1>1, <1>3, <2>2, <3>1
  <2> QED BY <1>1, <1>3, <2>1, <2>2
<1>6. ASSUME NEW i \in 1..Len(U) PROVE U[i] = L[Len(Q) + i]
  <2>1. i + 1 \in 1..Len(T) /\ U[i] = T[i + 1]
    BY <1>2, <1>3
  <2>2. T[i + 1] = L[Len(P) + (i + 1)]
    BY <2>1 DEF Covers
  <2>3. Len(P) + (i + 1) = Len(Q) + i
    BY <1>1, <1>2, <1>3
  <2> QED BY <2>1, <2>2, <2>3
<1> QED BY <1>4, <1>5, <1>6 DEF Covers, Q, U

\* The item in hand is that of a slot in the list, so it is not the error of
\* get_blocks.
LEMMA ItemHasSlot ==
    ASSUME NEW P \in Seq(Item), NEW h \in Seq(Item), NEW T \in Seq(Nat), NEW L \in Seq(Nat),
           Len(h) = 1, Covers(P \o h, T, L)
    PROVE  h[1].slot \in Nat
<1> DEFINE Q == P \o h
           n == Len(P) + 1
<1>1. Len(P) \in Nat /\ Len(T) \in Nat /\ Len(L) \in Nat
  OBVIOUS
<1>2. Len(Q) = n /\ Q[n] = h[1]
  <2>1. Len(Q) = Len(P) + Len(h)
    BY ConcatProperties
  <2>2. n \in 1..(Len(P) + Len(h)) /\ ~(n <= Len(P)) /\ n - Len(P) = 1
    BY <1>1
  <2>3. Q[n] = h[n - Len(P)]
    BY <2>2, ConcatProperties
  <2> QED BY <2>1, <2>2, <2>3
<1>3. n \in Nat \ {0}
  BY <1>1
<1> HIDE DEF Q, n
<1>4. /\ Len(Q) + Len(T) = Len(L)
      /\ \A i \in 1..Len(Q) : Q[i].slot = L[i]
  BY DEF Covers, Q
<1>5. n \in 1..Len(Q) /\ n \in 1..Len(L)
  BY <1>1, <1>2, <1>3, <1>4
<1>6. Q[n].slot = L[n]
  BY <1>4, <1>5
<1>7. L[n] \in Nat
  BY <1>5
<1> QED BY <1>2, <1>6, <1>7

-----------------------------------------------------------------------------
(* The inductive step.                                                     *)

\* The answer of get_blocks: the list is short, and all of it is to be fetched.
LEMMA ListStep ==
    ASSUME RangeInv, List
    PROVE  RangeInv'
<1> USE DEF RangeInv
<1> DEFINE first == AsUnsigned(req.start)
           last  == AsUnsigned(req.end)
<1>1. /\ task = "list" /\ task' = "fetch" /\ answered' = TRUE /\ todo' = listed'
      /\ req' = req /\ handler' = handler /\ held' = held /\ out' = out
      /\ stream' = stream /\ received' = received
      /\ listed' \in Ascending(first, last) \cup {<<>>}
  BY DEF List, request, clientVars
<1>2. /\ ~answered /\ held = <<>> /\ out = <<>> /\ received = <<>>
      /\ handler = "streaming" /\ Accepted
  BY <1>1 DEF RequestInv, TypeOK
<1>3. first \in Nat /\ last \in Nat /\ (first <= last => last - first <= MaxRange)
  <2>1. req.start \in Int64 /\ req.end \in Int64
    BY DEF TypeOK
  <2>2. first \in Nat /\ last \in Nat
    BY <2>1, RangeAssumption DEF AsUnsigned, Int64
  <2> QED BY <1>2, <2>1, <2>2, AcceptedIsShort DEF Accepted
<1> HIDE DEF first, last
<1>6. listed' \in Seq(Nat) /\ Len(listed') <= MaxRange + 1
  <2>1. CASE listed' = <<>>
    BY <2>1, RangeAssumption
  <2>2. CASE listed' \in Ascending(first, last)
    <3>1. PICK n \in 0..(last - first + 1) : listed' \in [1..n -> first..last]
      BY <2>2 DEF Ascending
    <3>2. n \in Nat /\ n <= MaxRange + 1
      <4>1. CASE first <= last
        BY <1>3, <3>1, <4>1, RangeAssumption
      <4>2. CASE ~(first <= last)
        BY <1>3, <3>1, <4>2, RangeAssumption
      <4> QED BY <4>1, <4>2
    <3>3. listed' \in [1..n -> Nat]
      BY <1>3, <3>1
    <3> QED BY <3>2, <3>3
  <2> QED BY <1>1, <2>1, <2>2
<1>7. TypeOK'
  BY <1>1, <1>6 DEF TypeOK
<1>8. RequestInv'
  BY <1>1, <1>2 DEF RequestInv, Accepted
<1>9. StreamInv'
  <2>1. Made' = <<>>
    BY <1>1, <1>2 DEF Made
  <2>2. Covers(<<>>, listed', listed')
    BY <1>6 DEF Covers
  <2>3. Covers(Made', todo', listed')
    BY <1>1, <2>1, <2>2
  <2> QED BY <1>1, <1>2, <2>3 DEF StreamInv
<1>10. OkMeansAllListed'
  BY <1>1, <1>2 DEF OkMeansAllListed
<1>11. ListWithinLimit'
  BY <1>6 DEF ListWithinLimit
<1> QED BY <1>7, <1>8, <1>9, <1>10, <1>11

\* One slot: its item takes its place.
LEMMA FetchStep ==
    ASSUME RangeInv, Fetch
    PROVE  RangeInv'
<1> USE DEF RangeInv
<1>1. /\ task = "fetch" /\ task' = "send" /\ todo # <<>> /\ todo' = Tail(todo)
      /\ req' = req /\ handler' = handler /\ answered' = answered /\ listed' = listed
      /\ out' = out /\ stream' = stream /\ received' = received
  BY DEF Fetch, request, clientVars, answerVars
<1>2. /\ todo \in Seq(Nat) /\ listed \in Seq(Nat) /\ held \in Seq(Item) /\ out \in Seq(Item)
      /\ received \in Seq(Item)
  BY DEF TypeOK
<1>3. Head(todo) \in Nat /\ Tail(todo) \in Seq(Nat)
  BY <1>1, <1>2
<1>4. PICK x \in Item : held' = <<x>> /\ x.slot = Head(todo)
  <2>1. /\ Block(Head(todo)) \in Item /\ Failure(Head(todo)) \in Item
        /\ Block(Head(todo)).slot = Head(todo) /\ Failure(Head(todo)).slot = Head(todo)
    BY <1>3 DEF Block, Failure, Item
  <2>2. held' = <<Block(Head(todo))>> \/ held' = <<Failure(Head(todo))>>
    BY DEF Fetch
  <2> QED BY <2>1, <2>2, Zenon
<1>5. TypeOK'
  BY <1>1, <1>3, <1>4 DEF TypeOK
<1>6. RequestInv'
  BY <1>1 DEF RequestInv, Accepted
<1>7. StreamInv'
  <2> SUFFICES ASSUME stream = "open" PROVE StreamInv'
    BY <1>1 DEF StreamInv
  <2>1. answered /\ Covers(Made, todo, listed) /\ held = <<>>
    BY <1>1 DEF StreamInv
  <2> DEFINE P == received \o out
  <2>2. P \in Seq(Item)
    BY <1>2, ConcatProperties
  <2>3. Made = P /\ Made' = P \o <<x>>
    <3>1. P \o <<>> = P
      BY <2>2, ConcatEmptySeq
    <3> QED BY <1>1, <1>4, <2>1, <3>1 DEF Made
  <2> HIDE DEF P
  <2>4. Covers(P \o <<x>>, Tail(todo), listed)
    BY <1>1, <1>2, <1>4, <2>1, <2>2, <2>3, FetchedInOrder
  <2>5. Covers(Made', todo', listed')
    BY <1>1, <2>3, <2>4
  <2>6. held' # <<>> /\ Len(held') = 1
    BY <1>4
  <2> QED BY <1>1, <2>1, <2>5, <2>6 DEF StreamInv
<1>8. OkMeansAllListed' /\ ListWithinLimit'
  BY <1>1 DEF OkMeansAllListed, ListWithinLimit
<1> QED BY <1>5, <1>6, <1>7, <1>8

\* The send: only the error of get_blocks ends the task.
LEMMA SendStep ==
    ASSUME RangeInv, Send
    PROVE  RangeInv'
<1> USE DEF RangeInv
<1>1. /\ task = "send" /\ stream = "open" /\ out' = out \o held /\ held' = <<>>
      /\ task' = AfterSend
      /\ req' = req /\ handler' = handler /\ answered' = answered /\ listed' = listed
      /\ todo' = todo /\ stream' = stream /\ received' = received
  BY DEF Send, request, answerVars
<1>2. /\ todo \in Seq(Nat) /\ listed \in Seq(Nat) /\ held \in Seq(Item) /\ out \in Seq(Item)
      /\ received \in Seq(Item)
  BY DEF TypeOK
<1>3. out \o held \in Seq(Item)
  BY <1>2, ConcatProperties
<1>4. task' \in {"ended", "fetch"}
  BY <1>1 DEF AfterSend
<1>5. TypeOK'
  BY <1>1, <1>3, <1>4 DEF TypeOK
<1>6. RequestInv'
  BY <1>1, <1>4 DEF RequestInv, Accepted
<1>7. Made' = Made
  BY <1>1, <1>2, SentInOrder DEF Made
<1>8. Len(held) = 1 /\ Len(out) \in Nat /\ Len(received) \in Nat
  BY <1>1, <1>2 DEF StreamInv
<1>9. CASE answered
  <2>1. held # <<ListFailure>>
    <3>1. received \o out \in Seq(Item)
      BY <1>2, ConcatProperties
    <3>2. Covers((received \o out) \o held, todo, listed)
      BY <1>1, <1>9 DEF StreamInv, Made
    <3>3. held[1].slot \in Nat
      BY <1>2, <1>8, <3>1, <3>2, ItemHasSlot
    <3>4. ListFailure.slot = -1
      BY DEF ListFailure, Failure
    <3> QED BY <3>3, <3>4
  <2>2. task' = "fetch"
    BY <1>1, <2>1 DEF AfterSend
  <2>3. StreamInv'
    BY <1>1, <1>7, <1>9, <2>2 DEF StreamInv
  <2> QED BY <1>1, <1>5, <1>6, <2>3 DEF OkMeansAllListed, ListWithinLimit
<1>10. CASE ~answered
  <2>1. received = <<>> /\ out \o held = <<ListFailure>>
    BY <1>1, <1>10 DEF StreamInv
  <2>2. Len(out) = 0
    <3>1. Len(out \o held) = Len(out) + Len(held)
      BY <1>2
    <3>2. Len(out \o held) = 1
      BY <2>1
    <3> QED BY <1>8, <3>1, <3>2
  <2>3. held = <<ListFailure>>
    <3>1. out = <<>>
      BY <1>2, <2>2
    <3> QED BY <1>2, <2>1, <3>1, ConcatEmptySeq
  <2>4. task' = "ended"
    BY <1>1, <2>3 DEF AfterSend
  <2>5. out' \o held' = <<ListFailure>>
    BY <1>1, <1>3, <2>1, ConcatEmptySeq
  <2>6. todo = <<>>
    BY <1>10 DEF RequestInv
  <2>7. StreamInv'
    BY <1>1, <1>10, <2>1, <2>4, <2>5, <2>6 DEF StreamInv
  <2> QED BY <1>1, <1>5, <1>6, <2>7 DEF OkMeansAllListed, ListWithinLimit
<1> QED BY <1>9, <1>10

\* The client is handed an item; a block leaves the stream open.
LEMMA ReadStep ==
    ASSUME RangeInv, Read
    PROVE  RangeInv'
<1> USE DEF RangeInv
<1>1. /\ stream = "open" /\ out # <<>> /\ received' = Append(received, Head(out))
      /\ stream' = IF Head(out).ok THEN "open" ELSE "error"
      /\ out' = IF Head(out).ok THEN Tail(out) ELSE <<>>
      /\ req' = req /\ handler' = handler /\ task' = task /\ answered' = answered
      /\ listed' = listed /\ todo' = todo /\ held' = held
  BY DEF Read, request, answerVars
<1>2. held \in Seq(Item) /\ out \in Seq(Item) /\ received \in Seq(Item)
  BY DEF TypeOK
<1>3. Head(out) \in Item /\ Tail(out) \in Seq(Item)
  BY <1>1, <1>2
<1>4. TypeOK'
  <2>1. received' \in Seq(Item)
    BY <1>1, <1>2, <1>3
  <2>2. out' \in Seq(Item)
    BY <1>1, <1>3
  <2>3. stream' \in {"open", "error"}
    BY <1>1
  <2> QED BY <1>1, <2>1, <2>2, <2>3 DEF TypeOK
<1>5. RequestInv'
  <2>1. task \notin {"none", "list"} /\ handler = "streaming"
    BY <1>1 DEF RequestInv, TypeOK
  <2> QED BY <1>1, <2>1 DEF RequestInv, Accepted
<1>6. StreamInv'
  <2> SUFFICES ASSUME Head(out).ok PROVE StreamInv'
    BY <1>1 DEF StreamInv
  <2>1. answered
    <3> SUFFICES ASSUME ~answered PROVE FALSE
      OBVIOUS
    <3>1. out \o held = <<ListFailure>>
      BY <1>1 DEF StreamInv, RequestInv, TypeOK
    <3>2. Head(out) = ListFailure
      <4>1. (out \o held)[1] = out[1]
        BY <1>1, <1>2
      <4>2. Head(out) = out[1]
        BY <1>1, <1>2
      <4> QED BY <3>1, <4>1, <4>2
    <3> QED BY <3>2 DEF ListFailure, Failure
  <2>2. Append(received, Head(out)) \o Tail(out) = received \o out
    BY <1>1, <1>2, ReadInOrder
  <2>3. Made' = Made
    BY <1>1, <2>2 DEF Made
  <2>4. \A i \in 1..Len(received') : received'[i].ok
    <3>1. /\ Len(received') = Len(received) + 1 /\ Len(received) \in Nat
          /\ received'[Len(received) + 1] = Head(out)
          /\ \A i \in 1..Len(received) : received'[i] = received[i]
      BY <1>1, <1>2, <1>3
    <3>2. \A i \in 1..Len(received) : received[i].ok
      BY <1>1 DEF StreamInv
    <3>3. \A i \in 1..Len(received') : i = Len(received) + 1 \/ i \in 1..Len(received)
      BY <3>1
    <3> QED BY <3>1, <3>2, <3>3
  <2> QED BY <1>1, <2>1, <2>3, <2>4 DEF StreamInv
<1>7. OkMeansAllListed' /\ ListWithinLimit'
  BY <1>1 DEF OkMeansAllListed, ListWithinLimit
<1> QED BY <1>4, <1>5, <1>6, <1>7

\* The stream ends without an error: everything has arrived, and only blocks have.
LEMMA ReadEndStep ==
    ASSUME RangeInv, ReadEnd
    PROVE  RangeInv'
<1> USE DEF RangeInv
<1>1. /\ stream = "open" /\ task = "ended" /\ out = <<>> /\ stream' = "ok"
      /\ req' = req /\ handler' = handler /\ task' = task /\ answered' = answered
      /\ listed' = listed /\ todo' = todo /\ held' = held /\ out' = out
      /\ received' = received
  BY DEF ReadEnd, request, answerVars
<1>2. /\ received \in Seq(Item) /\ listed \in Seq(Nat)
      /\ held = <<>> /\ todo = <<>> /\ handler = "streaming"
  BY <1>1 DEF TypeOK, StreamInv, RequestInv
<1>3. answered
  <2> SUFFICES ASSUME ~answered PROVE FALSE
    OBVIOUS
  <2>1. out \o held = <<ListFailure>> /\ held = <<>>
    BY <1>1 DEF StreamInv
  <2>2. out \o held = <<>>
    BY <1>1, <1>2
  <2> QED BY <2>1, <2>2
<1>4. TypeOK' /\ RequestInv' /\ StreamInv' /\ ListWithinLimit'
  BY <1>1, <1>2 DEF TypeOK, RequestInv, StreamInv, ListWithinLimit, Accepted
<1>5. received = [i \in 1..Len(listed) |-> Block(listed[i])]
  <2>1. Made = received
    BY <1>1, <1>2, ConcatEmptySeq DEF Made
  <2>2. Covers(received, <<>>, listed)
    BY <1>1, <1>2, <1>3, <2>1 DEF StreamInv
  <2>3. Len(received) = Len(listed) /\ \A i \in 1..Len(listed) : received[i].slot = listed[i]
    BY <1>2, <2>2 DEF Covers
  <2>4. \A i \in 1..Len(listed) : received[i].ok /\ received[i] \in Item
    BY <1>1, <1>2, <2>3 DEF StreamInv
  <2>5. \A i \in 1..Len(listed) : received[i] = Block(listed[i])
    BY <2>3, <2>4 DEF Block, Item
  <2> QED BY <1>2, <2>3, <2>5
<1>6. OkMeansAllListed'
  BY <1>1, <1>3, <1>5 DEF OkMeansAllListed
<1> QED BY <1>4, <1>6

\* The handler's answer.
LEMMA HandlerSteps ==
    ASSUME RangeInv, Accept \/ Reject
    PROVE  RangeInv'
<1> USE DEF RangeInv
<1>1. /\ handler = "check" /\ answered' = answered /\ listed' = listed /\ todo' = todo
      /\ held' = held /\ out' = out /\ received' = received /\ req' = req
      /\ \/ Accepted /\ handler' = "streaming" /\ task' = "list" /\ stream' = stream
         \/ handler' = "rejected" /\ stream' = "error" /\ task' = task
  BY DEF Accept, Reject, answerVars, clientVars
<1>2. /\ task = "none" /\ stream = "open"
      /\ ~answered /\ listed = <<>> /\ todo = <<>> /\ held = <<>> /\ out = <<>>
      /\ received = <<>>
  BY <1>1 DEF RequestInv, TypeOK
<1>3. TypeOK'
  BY <1>1, <1>2 DEF TypeOK
<1>4. RequestInv'
  BY <1>1, <1>2 DEF RequestInv, Accepted
<1>5. StreamInv'
  BY <1>1, <1>2 DEF StreamInv
<1>6. OkMeansAllListed' /\ ListWithinLimit'
  BY <1>1, <1>2 DEF OkMeansAllListed, ListWithinLimit
<1> QED BY <1>3, <1>4, <1>5, <1>6

\* The error of get_blocks is the only item of its stream.
LEMMA ListFailsStep ==
    ASSUME RangeInv, ListFails
    PROVE  RangeInv'
<1> USE DEF RangeInv
<1>1. /\ task = "list" /\ task' = "send" /\ held' = <<ListFailure>>
      /\ answered' = answered /\ listed' = listed /\ todo' = todo /\ out' = out
      /\ received' = received /\ req' = req /\ handler' = handler /\ stream' = stream
  BY DEF ListFails, request, answerVars, clientVars
<1>2. /\ ~answered /\ listed = <<>> /\ todo = <<>> /\ held = <<>> /\ out = <<>>
      /\ received = <<>>
  BY <1>1 DEF RequestInv, TypeOK
<1>3. ListFailure \in Item
  BY DEF ListFailure, Failure, Item
<1>4. TypeOK'
  <2>1. held' \in Seq(Item)
    BY <1>1, <1>3
  <2> QED BY <1>1, <2>1 DEF TypeOK
<1>5. RequestInv'
  BY <1>1, <1>2 DEF RequestInv, Accepted
<1>6. StreamInv'
  <2>1. out' \o held' = <<ListFailure>> /\ held' # <<>> /\ Len(held') = 1
    BY <1>1, <1>2, <1>3
  <2> QED BY <1>1, <1>2, <2>1 DEF StreamInv
<1>7. OkMeansAllListed' /\ ListWithinLimit'
  BY <1>1 DEF OkMeansAllListed, ListWithinLimit
<1> QED BY <1>4, <1>5, <1>6, <1>7

\* The end of the loop, and the steps after which the client reads no more.
LEMMA EndSteps ==
    ASSUME RangeInv,
           LoopEnds \/ FetchPanics \/ SendRefused \/ ClientLeaves \/ UNCHANGED vars
    PROVE  RangeInv'
<1> USE DEF RangeInv
<1>1. /\ answered' = answered /\ listed' = listed /\ todo' = todo /\ received' = received
      /\ req' = req /\ handler' = handler
  BY DEF LoopEnds, FetchPanics, SendRefused, ClientLeaves, vars, request, answerVars, clientVars
<1>2. /\ out' = out \/ out' = <<>>
      /\ held' = held \/ held' = <<>>
      /\ stream' = stream \/ stream' \in {"error", "left"}
      /\ task' = task \/ (task \in {"fetch", "send"} /\ task' = "ended")
      /\ stream' = "ok" => stream = "ok"
  BY DEF LoopEnds, FetchPanics, SendRefused, ClientLeaves, vars, request, answerVars, clientVars
<1>3. TypeOK'
  <2>1. held' \in Seq(Item) /\ out' \in Seq(Item)
    <3>1. held \in Seq(Item) /\ out \in Seq(Item)
      BY DEF TypeOK
    <3>2. <<>> \in Seq(Item)
      OBVIOUS
    <3> QED BY <1>2, <3>1, <3>2, Zenon
  <2>2. stream' \in {"open", "ok", "error", "left"}
    BY <1>2 DEF TypeOK
  <2>3. task' \in {"none", "list", "fetch", "send", "ended"}
    BY <1>2 DEF TypeOK
  <2> QED BY <1>1, <2>1, <2>2, <2>3 DEF TypeOK
<1>4. RequestInv'
  <2>1. handler # "streaming" => stream' = stream /\ out' = out
    BY DEF LoopEnds, FetchPanics, SendRefused, ClientLeaves, vars, request, answerVars,
           clientVars, RequestInv
  <2> QED BY <1>1, <1>2, <2>1 DEF RequestInv, Accepted
<1>5. StreamInv'
  <2> SUFFICES ASSUME stream' = "open" PROVE StreamInv'
    BY DEF StreamInv
  <2>1. stream = "open" /\ (LoopEnds \/ UNCHANGED vars)
    BY DEF LoopEnds, FetchPanics, SendRefused, ClientLeaves, vars, clientVars
  <2>2. /\ out' = out /\ held' = held /\ stream' = stream
        /\ task' = task \/ (task = "fetch" /\ todo = <<>> /\ task' = "ended")
    BY <2>1 DEF LoopEnds, vars, clientVars
  <2>3. Made' = Made
    BY <1>1, <2>2 DEF Made
  <2> QED BY <1>1, <2>1, <2>2, <2>3 DEF StreamInv
<1>6. OkMeansAllListed' /\ ListWithinLimit'
  BY <1>1, <1>2 DEF OkMeansAllListed, ListWithinLimit
<1> QED BY <1>3, <1>4, <1>5, <1>6

\* The invariant holds at the start, for every request.
LEMMA RangeInit == Init => RangeInv
<1> SUFFICES ASSUME Init PROVE RangeInv
  OBVIOUS
<1>1. TypeOK
  <2>1. <<>> \in Seq(Nat) /\ <<>> \in Seq(Item)
    OBVIOUS
  <2>2. /\ listed \in Seq(Nat) /\ todo \in Seq(Nat)
        /\ held \in Seq(Item) /\ out \in Seq(Item) /\ received \in Seq(Item)
    BY <2>1, Zenon DEF Init
  <2>3. /\ req \in [start : Int64, end : Int64] /\ handler = "check" /\ task = "none"
        /\ answered = FALSE /\ stream = "open"
    BY Zenon DEF Init
  <2> QED BY <2>2, <2>3 DEF TypeOK
<1>2. RequestInv /\ StreamInv /\ OkMeansAllListed
  BY DEF Init, RequestInv, StreamInv, OkMeansAllListed
<1>3. ListWithinLimit
  BY RangeAssumption DEF Init, ListWithinLimit
<1> QED BY <1>1, <1>2, <1>3 DEF RangeInv

\* RangeInv is an invariant of get_block_range.
LEMMA RangeInvariant == Spec => []RangeInv
<1>1. RangeInv /\ [Next]_vars => RangeInv'
  <2> SUFFICES ASSUME RangeInv, [Next]_vars PROVE RangeInv'
    OBVIOUS
  <2>1. CASE Accept \/ Reject
    BY <2>1, HandlerSteps
  <2>2. CASE List
    BY <2>2, ListStep
  <2>3. CASE ListFails
    BY <2>3, ListFailsStep
  <2>4. CASE Fetch
    BY <2>4, FetchStep
  <2>5. CASE Send
    BY <2>5, SendStep
  <2>6. CASE Read
    BY <2>6, ReadStep
  <2>7. CASE ReadEnd
    BY <2>7, ReadEndStep
  <2>8. CASE LoopEnds \/ FetchPanics \/ SendRefused \/ ClientLeaves \/ UNCHANGED vars
    BY <2>8, EndSteps
  <2> QED BY <2>1, <2>2, <2>3, <2>4, <2>5, <2>6, <2>7, <2>8 DEF Next, TaskStep
<1> QED BY RangeInit, <1>1, PTL DEF Spec

-----------------------------------------------------------------------------
(* Theorems.                                                               *)

\* A stream of get_block_range that ends without an error has carried a block for
\* every slot of the list, in order, whatever failed, however slow the client is.
THEOREM OkStreamIsComplete == Spec => []OkMeansAllListed
<1>1. RangeInv => OkMeansAllListed
  BY DEF RangeInv
<1> QED BY RangeInvariant, <1>1, PTL

\* The checks of get_block_range keep every list within MAX_RANGE + 1 slots, for
\* every pair of 64-bit slots, the ones whose difference overflows included.
THEOREM ListAlwaysWithinLimit == Spec => []ListWithinLimit
<1>1. RangeInv => ListWithinLimit
  BY DEF RangeInv
<1> QED BY RangeInvariant, <1>1, PTL
=============================================================================
