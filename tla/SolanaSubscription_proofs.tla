---------------------- MODULE SolanaSubscription_proofs ----------------------
(***************************************************************************)
(* Proofs about subscribe_new_blocks of the Solana service, for every      *)
(* number of endpoints, every capacity of the channels, every delay, start *)
(* slot and bound: between the subscription and the client nothing is      *)
(* lost, and the subscription does not end by itself.                      *)
(***************************************************************************)
EXTENDS SolanaSubscription, SequenceTheorems, WellFoundedInduction, TLAPS

TaskPlaces ==
    {"none", "connect", "subscribe", "select", "report connect", "report subscribe",
     "announce", "fetch", "deliver", "sleep", "ended"}

\* What the tasks, the channels and the client hold.
TypeOK ==
    /\ task \in TaskPlaces
    /\ endpoint \in Nat
    /\ delay \in 1..MaxDelay
    /\ note \in [slot : Slots, root : BOOLEAN]
    /\ item \in Item
    /\ updates \in Seq(Item)
    /\ cancelled \in BOOLEAN
    /\ service \in {"start", "recv", "forward", "ended"}
    /\ held \in Seq(Item)
    /\ out \in Seq(Item)
    /\ open \in BOOLEAN
    /\ received \in Seq(Item)
    /\ made \in Seq(Item)

\* The subscription's task works as long as the service's task does; the
\* reconnect delay is a second again from the subscription on.
TaskInv ==
    /\ cancelled => service = "ended"
    /\ service = "start" => task = "none"
    /\ service \in {"recv", "forward"} => task # "ended"
    /\ task \in {"select", "announce", "fetch", "deliver"} => delay = 1

\* The service's task has an update in hand only while it forwards it.
HandInv == service # "forward" => held = <<>>

\* The inductive invariant.
PipeInv == TypeOK /\ TaskInv /\ HandInv /\ PipelineComplete

-----------------------------------------------------------------------------
(* The wanted ones of a sequence of updates.                               *)

\* Induction over the natural numbers, for a set of them.
LEMMA NatSet ==
    ASSUME NEW T, 0 \in T, \A n \in Nat : n \in T => n + 1 \in T
    PROVE  \A n \in Nat : n \in T
<1> DEFINE B == Nat \ T
           R == OpToRel(<, Nat)
<1>1. ASSUME B # {} PROVE FALSE
  <2>1. IsWellFoundedOn(R, Nat)
    BY NatLessThanWellFounded
  <2>2. \A x, y \in Nat : <<x, y>> \in R <=> x < y
    BY DEF OpToRel
  <2> HIDE DEF R
  <2>3. PICK x \in B : \A y \in B : ~(<<y, x>> \in R)
    BY <1>1, <2>1, WFMin
  <2>4. x \in Nat /\ x # 0
    OBVIOUS
  <2>5. x - 1 \in Nat /\ x - 1 < x /\ (x - 1) + 1 = x
    BY <2>4
  <2>6. x - 1 \in T
    BY <2>2, <2>3, <2>4, <2>5
  <2> QED BY <2>5, <2>6
<1> QED BY <1>1

\* The body of WantedOf's recursive function, and the function.
Step(g, s, n) ==
    IF n = 0 THEN <<>>
    ELSE IF Wanted(s[n]) THEN Append(g[n - 1], s[n]) ELSE g[n - 1]

Kept(s) == CHOOSE g : g = [n \in 0..Len(s) |-> Step(g, s, n)]

\* There is such a function for every length.
LEMMA KeptExists ==
    ASSUME NEW s, NEW len \in Nat
    PROVE  \E g : g = [i \in 0..len |-> Step(g, s, i)]
<1> DEFINE T == {n \in Nat : \E g : g = [i \in 0..n |-> Step(g, s, i)]}
<1>1. 0 \in T
  <2> DEFINE g == [i \in 0..0 |-> <<>>]
  <2>1. g = [i \in 0..0 |-> Step(g, s, i)]
    BY DEF Step
  <2> QED BY <2>1
<1>2. ASSUME NEW n \in Nat, n \in T PROVE n + 1 \in T
  <2>1. PICK g : g = [i \in 0..n |-> Step(g, s, i)]
    BY <1>2
  <2> DEFINE h == [i \in 0..(n + 1) |-> IF i <= n THEN g[i] ELSE Step(g, s, n + 1)]
  <2>2. \A i \in 0..n : h[i] = g[i]
    OBVIOUS
  <2>3. h[n + 1] = Step(g, s, n + 1)
    OBVIOUS
  <2>4. \A i \in 0..n : g[i] = Step(g, s, i)
    BY <2>1
  <2>5. \A i \in 0..(n + 1) : Step(h, s, i) = Step(g, s, i)
    <3> TAKE i \in 0..(n + 1)
    <3>1. i # 0 => i - 1 \in 0..n
      OBVIOUS
    <3>2. i # 0 => h[i - 1] = g[i - 1]
      BY <2>2, <3>1
    <3> HIDE DEF h
    <3> QED BY <3>2 DEF Step
  <2>6. \A i \in 0..(n + 1) : h[i] = Step(h, s, i)
    <3> TAKE i \in 0..(n + 1)
    <3> HIDE DEF h
    <3>1. CASE i \in 0..n
      BY <2>2, <2>4, <2>5, <3>1
    <3>2. CASE i = n + 1
      BY <2>3, <2>5, <3>2
    <3> QED BY <3>1, <3>2
  <2>7. h = [i \in 0..(n + 1) |-> h[i]]
    OBVIOUS
  <2> HIDE DEF h
  <2>8. h = [i \in 0..(n + 1) |-> Step(h, s, i)]
    BY <2>6, <2>7
  <2>9. n + 1 \in Nat
    OBVIOUS
  <2> QED BY <2>8, <2>9
<1> HIDE DEF T
<1>3. len \in T
  BY <1>1, <1>2, NatSet
<1> QED BY <1>3 DEF T

\* What WantedOf computes, one element after the other.
LEMMA KeptDef ==
    ASSUME NEW s \in Seq(Item)
    PROVE  /\ WantedOf(s) = Kept(s)[Len(s)]
           /\ Kept(s)[0] = <<>>
           /\ \A i \in 1..Len(s) :
                 Kept(s)[i] = IF Wanted(s[i]) THEN Append(Kept(s)[i - 1], s[i])
                              ELSE Kept(s)[i - 1]
<1>1. Len(s) \in Nat
  OBVIOUS
<1>2. \E g : g = [i \in 0..Len(s) |-> Step(g, s, i)]
  BY <1>1, KeptExists
<1>3. Kept(s) = [i \in 0..Len(s) |-> Step(Kept(s), s, i)]
  BY <1>2, Zenon DEF Kept
<1>4. WantedOf(s) = Kept(s)[Len(s)]
  BY Zenon DEF WantedOf, Kept, Step
<1> HIDE DEF Kept
<1>5. \A i \in 0..Len(s) : Kept(s)[i] = Step(Kept(s), s, i)
  BY <1>3
<1>6. Kept(s)[0] = <<>>
  BY <1>1, <1>5 DEF Step
<1>7. ASSUME NEW i \in 1..Len(s)
      PROVE  Kept(s)[i] = IF Wanted(s[i]) THEN Append(Kept(s)[i - 1], s[i])
                          ELSE Kept(s)[i - 1]
  <2>1. i \in 0..Len(s) /\ i # 0
    BY <1>1
  <2> QED BY <1>5, <2>1 DEF Step
<1> QED BY <1>4, <1>6, <1>7

\* It is a sequence of updates.
LEMMA KeptType ==
    ASSUME NEW s \in Seq(Item), NEW n \in 0..Len(s)
    PROVE  Kept(s)[n] \in Seq(Item)
<1> DEFINE T == {m \in Nat : m <= Len(s) => Kept(s)[m] \in Seq(Item)}
<1>1. 0 \in T
  <2>1. Kept(s)[0] = <<>>
    BY KeptDef
  <2>2. Kept(s)[0] \in Seq(Item)
    BY <2>1
  <2> QED BY <2>2
<1>2. ASSUME NEW m \in Nat, m \in T PROVE m + 1 \in T
  <2> SUFFICES ASSUME m + 1 <= Len(s) PROVE Kept(s)[m + 1] \in Seq(Item)
    OBVIOUS
  <2>1. m + 1 \in 1..Len(s) /\ (m + 1) - 1 = m /\ m <= Len(s)
    OBVIOUS
  <2>2. Kept(s)[m] \in Seq(Item)
    BY <1>2, <2>1
  <2>3. s[m + 1] \in Item
    BY <2>1
  <2>4. Kept(s)[m + 1] = IF Wanted(s[m + 1]) THEN Append(Kept(s)[m], s[m + 1]) ELSE Kept(s)[m]
    BY <2>1, KeptDef
  <2> QED BY <2>2, <2>3, <2>4
<1> HIDE DEF T
<1>3. n \in T
  BY <1>1, <1>2, NatSet
<1> QED BY <1>3 DEF T

\* Appending to a concatenation.
LEMMA AppendConcat ==
    ASSUME NEW a \in Seq(Item), NEW b \in Seq(Item), NEW x \in Item
    PROVE  Append(a \o b, x) = a \o Append(b, x)
<1>1. a \o b \in Seq(Item) /\ <<x>> \in Seq(Item)
  BY ConcatProperties
<1>2. Append(a \o b, x) = (a \o b) \o <<x>> /\ Append(b, x) = b \o <<x>>
  BY <1>1, AppendIsConcat
<1>3. (a \o b) \o <<x>> = a \o (b \o <<x>>)
  BY <1>1, ConcatAssociative
<1> QED BY <1>2, <1>3

\* An update that is sent is the last of the wanted ones, if it is wanted.
LEMMA WantedAppend ==
    ASSUME NEW s \in Seq(Item), NEW u \in Item
    PROVE  /\ WantedOf(s) \in Seq(Item)
           /\ WantedOf(Append(s, u)) =
                 IF Wanted(u) THEN Append(WantedOf(s), u) ELSE WantedOf(s)
<1> DEFINE t == Append(s, u)
<1>1. /\ t \in Seq(Item) /\ Len(t) = Len(s) + 1 /\ t[Len(s) + 1] = u /\ Len(s) \in Nat
      /\ \A i \in 1..Len(s) : t[i] = s[i]
  OBVIOUS
<1> HIDE DEF t
<1> DEFINE T == {m \in Nat : m <= Len(s) => Kept(t)[m] = Kept(s)[m]}
<1>2. 0 \in T
  <2>1. Kept(s)[0] = <<>> /\ Kept(t)[0] = <<>>
    BY <1>1, KeptDef
  <2> QED BY <2>1
<1>3. ASSUME NEW m \in Nat, m \in T PROVE m + 1 \in T
  <2> SUFFICES ASSUME m + 1 <= Len(s) PROVE Kept(t)[m + 1] = Kept(s)[m + 1]
    OBVIOUS
  <2>1. m + 1 \in 1..Len(s) /\ m + 1 \in 1..Len(t) /\ (m + 1) - 1 = m /\ m <= Len(s)
    BY <1>1
  <2>2. Kept(t)[m] = Kept(s)[m] /\ t[m + 1] = s[m + 1]
    BY <1>1, <1>3, <2>1
  <2>3. Kept(s)[m + 1] = IF Wanted(s[m + 1]) THEN Append(Kept(s)[m], s[m + 1]) ELSE Kept(s)[m]
    BY <2>1, KeptDef
  <2>4. Kept(t)[m + 1] = IF Wanted(t[m + 1]) THEN Append(Kept(t)[m], t[m + 1]) ELSE Kept(t)[m]
    BY <1>1, <2>1, KeptDef
  <2> QED BY <2>2, <2>3, <2>4
<1> HIDE DEF T
<1>4. Len(s) \in T
  BY <1>1, <1>2, <1>3, NatSet
<1>5. Kept(t)[Len(s)] = Kept(s)[Len(s)]
  BY <1>1, <1>4 DEF T
<1>6. WantedOf(s) = Kept(s)[Len(s)] /\ WantedOf(t) = Kept(t)[Len(s) + 1]
  BY <1>1, KeptDef
<1>7. Len(s) + 1 \in 1..Len(t) /\ (Len(s) + 1) - 1 = Len(s)
  BY <1>1
<1>8. Kept(t)[Len(s) + 1] = IF Wanted(u) THEN Append(Kept(t)[Len(s)], u) ELSE Kept(t)[Len(s)]
  BY <1>1, <1>7, KeptDef
<1>9. WantedOf(s) \in Seq(Item)
  <2>1. Len(s) \in 0..Len(s)
    BY <1>1
  <2> QED BY <1>6, <2>1, KeptType
<1> QED BY <1>5, <1>6, <1>8, <1>9 DEF t

\* An update that is received was the first of the wanted ones, if it is wanted.
LEMMA WantedFront ==
    ASSUME NEW s \in Seq(Item), s # <<>>
    PROVE  WantedOf(s) = (IF Wanted(Head(s)) THEN <<Head(s)>> ELSE <<>>) \o WantedOf(Tail(s))
<1> DEFINE t == Tail(s)
           F == IF Wanted(Head(s)) THEN <<Head(s)>> ELSE <<>>
<1>1. /\ t \in Seq(Item) /\ Len(t) = Len(s) - 1 /\ Len(s) \in Nat \ {0}
      /\ \A i \in 1..Len(t) : t[i] = s[i + 1]
  BY HeadTailProperties
<1>2. Head(s) = s[1] /\ Head(s) \in Item
  BY HeadTailProperties
<1>3. F \in Seq(Item)
  BY <1>2
<1>4. Kept(s)[1] = F
  <2>1. 1 \in 1..Len(s) /\ 1 - 1 = 0
    BY <1>1
  <2>2. Kept(s)[1] = IF Wanted(s[1]) THEN Append(Kept(s)[0], s[1]) ELSE Kept(s)[0]
    BY <2>1, KeptDef
  <2>3. Kept(s)[0] = <<>>
    BY KeptDef
  <2>4. Append(<<>>, s[1]) = <<s[1]>>
    OBVIOUS
  <2> QED BY <1>2, <2>2, <2>3, <2>4
<1> HIDE DEF t, F
<1> DEFINE T == {m \in Nat : m <= Len(t) => Kept(s)[m + 1] = F \o Kept(t)[m]}
<1>5. 0 \in T
  <2>1. Kept(t)[0] = <<>>
    BY <1>1, KeptDef
  <2>2. F \o <<>> = F
    BY <1>3, ConcatEmptySeq
  <2>3. Kept(s)[0 + 1] = F \o Kept(t)[0]
    BY <1>4, <2>1, <2>2
  <2> QED BY <2>3
<1>6. ASSUME NEW m \in Nat, m \in T PROVE m + 1 \in T
  <2> SUFFICES ASSUME m + 1 <= Len(t) PROVE Kept(s)[(m + 1) + 1] = F \o Kept(t)[m + 1]
    OBVIOUS
  <2> DEFINE x == t[m + 1]
  <2>1. /\ m + 1 \in 1..Len(t) /\ (m + 1) - 1 = m /\ m <= Len(t) /\ m \in 0..Len(t)
        /\ (m + 1) + 1 \in 1..Len(s) /\ ((m + 1) + 1) - 1 = m + 1
    BY <1>1
  <2>2. Kept(s)[m + 1] = F \o Kept(t)[m]
    BY <1>6, <2>1
  <2>3. x \in Item /\ s[(m + 1) + 1] = x
    BY <1>1, <2>1
  <2>4. Kept(t)[m] \in Seq(Item)
    BY <1>1, <2>1, KeptType
  <2>5. Kept(t)[m + 1] = IF Wanted(x) THEN Append(Kept(t)[m], x) ELSE Kept(t)[m]
    BY <1>1, <2>1, KeptDef
  <2> HIDE DEF x
  <2>6. Kept(s)[(m + 1) + 1] = IF Wanted(x) THEN Append(Kept(s)[m + 1], x) ELSE Kept(s)[m + 1]
    BY <2>1, <2>3, KeptDef
  <2>7. Append(F \o Kept(t)[m], x) = F \o Append(Kept(t)[m], x)
    BY <1>3, <2>3, <2>4, AppendConcat
  <2> QED BY <2>2, <2>5, <2>6, <2>7
<1> HIDE DEF T
<1>7. Len(t) \in T
  BY <1>1, <1>5, <1>6, NatSet
<1>8. Kept(s)[Len(t) + 1] = F \o Kept(t)[Len(t)] /\ Len(t) + 1 = Len(s)
  BY <1>1, <1>7 DEF T
<1>9. WantedOf(s) = Kept(s)[Len(s)] /\ WantedOf(t) = Kept(t)[Len(t)]
  BY <1>1, KeptDef
<1> QED BY <1>8, <1>9 DEF t, F

-----------------------------------------------------------------------------
(* The inductive step.                                                     *)

\* update_tx.send: the stream grows at its end.
LEMMA SendKeepsOrder ==
    ASSUME PipeInv, NEW u \in Item, Send(u), held' = held, out' = out,
           received' = received, open' = open
    PROVE  PipelineComplete' /\ updates' \in Seq(Item) /\ made' \in Seq(Item)
<1> USE DEF PipeInv
<1>1. /\ updates \in Seq(Item) /\ made \in Seq(Item) /\ held \in Seq(Item)
      /\ out \in Seq(Item) /\ received \in Seq(Item)
  BY DEF TypeOK
<1> DEFINE p == received \o out \o held
           w == WantedOf(updates)
<1>2. p \in Seq(Item) /\ w \in Seq(Item)
  <2>1. received \o out \in Seq(Item)
    BY <1>1, ConcatProperties
  <2>2. p \in Seq(Item)
    BY <1>1, <2>1, ConcatProperties
  <2>3. w \in Seq(Item)
    BY <1>1, WantedAppend
  <2> QED BY <2>2, <2>3
<1>3. p' = p
  OBVIOUS
<1>4. open => made = p \o w
  BY DEF PipelineComplete
<1>5. PipelineComplete' <=> (open => made' = p \o WantedOf(updates'))
  BY <1>3, Zenon DEF PipelineComplete
<1> HIDE DEF p, w
<1>6. CASE UNCHANGED chanVars
  BY <1>1, <1>4, <1>5, <1>6 DEF chanVars, w
<1>7. CASE /\ updates' = Append(updates, u)
           /\ made' = IF Wanted(u) THEN Append(made, u) ELSE made
  <2>1. updates' \in Seq(Item) /\ made' \in Seq(Item)
    BY <1>1, <1>7
  <2>2. WantedOf(updates') = IF Wanted(u) THEN Append(w, u) ELSE w
    BY <1>1, <1>7, WantedAppend DEF w
  <2>3. Append(p \o w, u) = p \o Append(w, u)
    BY <1>2, AppendConcat
  <2> QED BY <1>4, <1>5, <1>7, <2>1, <2>2, <2>3
<1> QED BY <1>6, <1>7 DEF Send

\* The three places of run_slot_subscription that send an update.
LEMMA SendSteps ==
    ASSUME PipeInv, Report \/ Announce \/ Deliver
    PROVE  PipeInv'
<1> USE DEF PipeInv
<1>1. /\ held' = held /\ out' = out /\ received' = received /\ open' = open
      /\ service' = service /\ cancelled' = cancelled /\ note' = note /\ item' = item
  BY DEF Report, Announce, Deliver, noteVars, subVars, streamVars
<1>2. PICK u \in Item : Send(u)
  <2>1. ErrorItem \in Item
    BY SubscriptionAssumption DEF ErrorItem, Item, Slots
  <2>2. [kind |-> "slot", slot |-> note.slot] \in Item
    BY DEF TypeOK, Item
  <2>3. item \in Item
    BY DEF TypeOK
  <2> QED BY <2>1, <2>2, <2>3 DEF Report, Announce, Deliver
<1>3. PipelineComplete' /\ updates' \in Seq(Item) /\ made' \in Seq(Item)
  BY <1>1, <1>2, SendKeepsOrder
<1>4. /\ \/ task \in {"report connect", "report subscribe"} /\ task' = "sleep"
         \/ task \in {"announce", "deliver"} /\ task' \in {"fetch", "select"}
      /\ endpoint' = endpoint \/ endpoint' = (endpoint + 1) % Endpoints
      /\ delay' = delay \/ delay' = NextDelay(delay)
      /\ task' = "sleep" \/ delay' = delay
  BY DEF Report, Announce, Deliver, HandleReconnect, connVars
<1>5. endpoint' \in Nat /\ delay' \in 1..MaxDelay
  <2>1. endpoint \in Nat /\ delay \in 1..MaxDelay
    BY DEF TypeOK
  <2>2. (endpoint + 1) % Endpoints \in Nat /\ NextDelay(delay) \in 1..MaxDelay
    BY <2>1, SubscriptionAssumption DEF NextDelay
  <2> QED BY <1>4, <2>1, <2>2, Zenon
<1>6. TypeOK'
  BY <1>1, <1>3, <1>4, <1>5 DEF TypeOK, TaskPlaces
<1>7. TaskInv'
  BY <1>1, <1>4 DEF TaskInv
<1>8. HandInv'
  BY <1>1 DEF HandInv
<1> QED BY <1>3, <1>6, <1>7, <1>8

\* The other steps of run_slot_subscription, and subscribe_slots.
LEMMA TaskSteps ==
    ASSUME PipeInv,
           \/ Connect \/ SubscribeFails \/ SubscribeOk \/ ReportRefused \/ SelectShutdown
           \/ SelectSlot \/ SelectEnd \/ Fetch \/ Wake \/ SubscribeSlots \/ UNCHANGED vars
    PROVE  PipeInv'
<1> USE DEF PipeInv
<1>1. /\ updates' = updates /\ made' = made /\ held' = held /\ out' = out
      /\ received' = received /\ open' = open /\ cancelled' = cancelled
  BY DEF Connect, SubscribeFails, SubscribeOk, ReportRefused, SelectShutdown, SelectSlot,
         SelectEnd, Fetch, Wake, SubscribeSlots, vars, chanVars, subVars, streamVars
<1>2. \/ service' = service
      \/ service = "start" /\ service' = "recv" /\ task' = "connect" /\ delay' = delay
  BY DEF Connect, SubscribeFails, SubscribeOk, ReportRefused, SelectShutdown, SelectSlot,
         SelectEnd, Fetch, Wake, SubscribeSlots, vars, streamVars, connVars
<1>3. /\ note' \in [slot : Slots, root : BOOLEAN]
      /\ item' \in Item
  <2>1. ErrorItem \in Item
    BY SubscriptionAssumption DEF ErrorItem, Item, Slots
  <2>2. [kind |-> "block", slot |-> note.slot] \in Item
    BY DEF TypeOK, Item
  <2>3. note' = note \/ note' \in [slot : Slots, root : BOOLEAN]
    BY DEF Connect, SubscribeFails, SubscribeOk, ReportRefused, SelectShutdown, SelectSlot,
           SelectEnd, Fetch, Wake, SubscribeSlots, vars, noteVars
  <2>4. item' = item \/ item' \in {[kind |-> "block", slot |-> note.slot], ErrorItem}
    BY DEF Connect, SubscribeFails, SubscribeOk, ReportRefused, SelectShutdown, SelectSlot,
           SelectEnd, Fetch, Wake, SubscribeSlots, vars, noteVars
  <2> QED BY <2>1, <2>2, <2>3, <2>4 DEF TypeOK
<1>4. /\ endpoint' = endpoint \/ endpoint' = (endpoint + 1) % Endpoints
      /\ delay' = delay \/ delay' = 1 \/ delay' = NextDelay(delay)
      /\ task' = task \/ task' \in TaskPlaces \ {"none"}
  BY DEF Connect, SubscribeFails, SubscribeOk, ReportRefused, SelectShutdown, SelectSlot,
         SelectEnd, Fetch, Wake, SubscribeSlots, vars, connVars, HandleReconnect, TaskPlaces
<1>5. endpoint' \in Nat /\ delay' \in 1..MaxDelay
  BY <1>4, SubscriptionAssumption DEF TypeOK, NextDelay
<1>6. TypeOK'
  BY <1>1, <1>2, <1>3, <1>4, <1>5 DEF TypeOK
<1>7. TaskInv'
  <2>1. cancelled' => service' = "ended"
    BY <1>1, <1>2 DEF TaskInv
  <2>2. service' = "start" => task' = "none"
    BY <1>2 DEF TaskInv, Connect, SubscribeFails, SubscribeOk, ReportRefused, SelectShutdown,
         SelectSlot, SelectEnd, Fetch, Wake, SubscribeSlots, vars, streamVars
  <2>3. service' \in {"recv", "forward"} => task' # "ended"
    <3>1. task' = "ended" => task = "ended" \/ cancelled
      BY DEF Connect, SubscribeFails, SubscribeOk, ReportRefused, SelectShutdown, SelectSlot,
             SelectEnd, Fetch, Wake, SubscribeSlots, vars, HandleReconnect
    <3> QED BY <1>2, <3>1 DEF TaskInv
  <2>4. task' \in {"select", "announce", "fetch", "deliver"} =>
            delay' = 1 \/ (delay' = delay /\ task \in {"select", "announce", "fetch", "deliver"})
    BY DEF Connect, SubscribeFails, SubscribeOk, ReportRefused, SelectShutdown, SelectSlot,
           SelectEnd, Fetch, Wake, SubscribeSlots, vars, connVars, HandleReconnect
  <2> QED BY <2>1, <2>2, <2>3, <2>4 DEF TaskInv
<1>8. HandInv'
  BY <1>1, <1>2 DEF HandInv
<1>9. PipelineComplete'
  BY <1>1, Zenon DEF PipelineComplete
<1> QED BY <1>6, <1>7, <1>8, <1>9

\* The service's task takes an update: a wanted one stays in the stream.
LEMMA RecvStep ==
    ASSUME PipeInv, Recv
    PROVE  PipeInv'
<1> USE DEF PipeInv
<1>1. /\ service = "recv" /\ updates # <<>> /\ updates' = Tail(updates)
      /\ task' = task /\ endpoint' = endpoint /\ delay' = delay /\ note' = note /\ item' = item
      /\ made' = made /\ cancelled' = cancelled /\ out' = out /\ open' = open
      /\ received' = received
      /\ IF Wanted(Head(updates))
           THEN held' = <<Head(updates)>> /\ service' = "forward"
           ELSE service' = service /\ held' = held
  BY DEF Recv, connVars, noteVars, subVars
<1>2. /\ updates \in Seq(Item) /\ held = <<>> /\ out \in Seq(Item) /\ received \in Seq(Item)
  BY <1>1 DEF TypeOK, HandInv
<1>3. Head(updates) \in Item /\ Tail(updates) \in Seq(Item)
  BY <1>1, <1>2, HeadTailProperties
<1>4. held' = (IF Wanted(Head(updates)) THEN <<Head(updates)>> ELSE <<>>) /\ held' \in Seq(Item)
  <2>1. held' = (IF Wanted(Head(updates)) THEN <<Head(updates)>> ELSE <<>>)
    BY <1>1, <1>2
  <2>2. <<Head(updates)>> \in Seq(Item) /\ <<>> \in Seq(Item)
    BY <1>3
  <2> QED BY <2>1, <2>2, Zenon
<1>5. TypeOK'
  BY <1>1, <1>3, <1>4 DEF TypeOK
<1>6. TaskInv'
  BY <1>1 DEF TaskInv
<1>7. HandInv'
  BY <1>1, <1>2 DEF HandInv
<1>8. PipelineComplete'
  <2> DEFINE p == received \o out
             F == IF Wanted(Head(updates)) THEN <<Head(updates)>> ELSE <<>>
             w == WantedOf(Tail(updates))
  <2>1. p \in Seq(Item)
    BY <1>2, ConcatProperties
  <2>2. w \in Seq(Item)
    BY <1>3, WantedAppend
  <2>3. WantedOf(updates) = F \o w
    BY <1>1, <1>2, WantedFront
  <2>4. open => made = (p \o <<>>) \o WantedOf(updates)
    BY <1>2 DEF PipelineComplete
  <2>5. F \in Seq(Item)
    BY <1>4
  <2>6. PipelineComplete' <=> (open => made = (p \o F) \o w)
    BY <1>1, <1>4, Zenon DEF PipelineComplete
  <2> HIDE DEF p, F, w
  <2>7. (p \o <<>>) \o (F \o w) = (p \o F) \o w
    <3>1. p \o <<>> = p
      BY <2>1, ConcatEmptySeq
    <3>2. (p \o F) \o w = p \o (F \o w)
      BY <2>1, <2>2, <2>5, ConcatAssociative
    <3> QED BY <3>1, <3>2
  <2> QED BY <2>3, <2>4, <2>6, <2>7
<1> QED BY <1>5, <1>6, <1>7, <1>8

\* It forwards the update: from its hand to the end of the response channel.
LEMMA ForwardStep ==
    ASSUME PipeInv, Forward
    PROVE  PipeInv'
<1> USE DEF PipeInv
<1>1. /\ service = "forward" /\ service' = "recv" /\ out' = out \o held /\ held' = <<>>
      /\ task' = task /\ endpoint' = endpoint /\ delay' = delay /\ note' = note /\ item' = item
      /\ made' = made /\ updates' = updates /\ cancelled' = cancelled /\ open' = open
      /\ received' = received
  BY DEF Forward, connVars, noteVars, subVars, chanVars
<1>2. held \in Seq(Item) /\ out \in Seq(Item) /\ received \in Seq(Item)
  BY DEF TypeOK
<1>3. out \o held \in Seq(Item)
  BY <1>2, ConcatProperties
<1>4. TypeOK'
  BY <1>1, <1>3 DEF TypeOK
<1>5. TaskInv' /\ HandInv'
  BY <1>1 DEF TaskInv, HandInv
<1>6. PipelineComplete'
  <2>1. (received \o out) \o held = received \o (out \o held)
    BY <1>2, ConcatAssociative
  <2>2. received \o (out \o held) \in Seq(Item)
    BY <1>2, <1>3, ConcatProperties
  <2>3. (received \o (out \o held)) \o <<>> = received \o (out \o held)
    BY <2>2, ConcatEmptySeq
  <2>4. ((received \o out) \o held)' = (received \o out) \o held
    BY <1>1, <2>1, <2>3, Zenon
  <2> QED BY <1>1, <2>4, Zenon DEF PipelineComplete
<1> QED BY <1>4, <1>5, <1>6

\* Concatenation is associative.
LEMMA JoinThree ==
    ASSUME NEW a \in Seq(Item), NEW b \in Seq(Item), NEW c \in Seq(Item)
    PROVE  (a \o b) \o c = a \o (b \o c)
  BY ConcatAssociative

\* The client is handed an item; a block leaves the stream open.
LEMMA ReadStep ==
    ASSUME PipeInv, Read
    PROVE  PipeInv'
<1> USE DEF PipeInv
<1>1. /\ out # <<>> /\ received' = Append(received, Head(out))
      /\ open' = (Head(out).kind # "error") /\ out' = IF open' THEN Tail(out) ELSE <<>>
      /\ task' = task /\ endpoint' = endpoint /\ delay' = delay /\ note' = note /\ item' = item
      /\ made' = made /\ updates' = updates /\ cancelled' = cancelled /\ open
      /\ service' = service /\ held' = held
  BY DEF Read, connVars, noteVars, subVars, chanVars
<1>2. held \in Seq(Item) /\ out \in Seq(Item) /\ received \in Seq(Item)
  BY DEF TypeOK
<1>3. Head(out) \in Item /\ Tail(out) \in Seq(Item)
  BY <1>1, <1>2, HeadTailProperties
<1>4. TypeOK'
  <2>1. received' \in Seq(Item)
    BY <1>1, <1>2, <1>3
  <2>2. <<>> \in Seq(Item)
    OBVIOUS
  <2>3. out' \in Seq(Item)
    BY <1>1, <1>3, <2>2, Zenon
  <2>4. open' \in BOOLEAN
    BY <1>1
  <2> QED BY <1>1, <2>1, <2>3, <2>4 DEF TypeOK
<1>5. TaskInv' /\ HandInv'
  BY <1>1 DEF TaskInv, HandInv
<1>6. PipelineComplete'
  <2> SUFFICES ASSUME open' PROVE PipelineComplete'
    BY DEF PipelineComplete
  <2>1. out' = Tail(out)
    BY <1>1
  <2> DEFINE h == <<Head(out)>>
             t == Tail(out)
  <2>2. h \in Seq(Item) /\ t \in Seq(Item) /\ Len(h) = 1
    BY <1>3
  <2>3. h \o t = out
    <3>1. h \o t \in Seq(Item) /\ Len(h \o t) = Len(out)
      BY <1>1, <1>2, <2>2, HeadTailProperties
    <3>2. \A i \in 1..Len(out) : (h \o t)[i] = out[i]
      BY <1>1, <1>2, <2>2, HeadTailProperties
    <3> QED BY <1>2, <3>1, <3>2, SeqEqual
  <2>4. received' = received \o h
    BY <1>1, <1>2, <1>3, AppendIsConcat
  <2>5. (received \o h) \o t = received \o (h \o t)
    BY <1>2, <2>2, JoinThree
  <2> HIDE DEF h
  <2>6. (received \o out)' = received \o out
    BY <2>1, <2>3, <2>4, <2>5
  <2> QED BY <1>1, <2>6, Zenon DEF PipelineComplete
<1> QED BY <1>4, <1>5, <1>6

\* The steps after which the client's stream is closed.
LEMMA ClosingSteps ==
    ASSUME PipeInv, ForwardRefused \/ ConvertPanics \/ ClientLeaves
    PROVE  PipeInv'
<1> USE DEF PipeInv
<1>1. /\ endpoint' = endpoint /\ delay' = delay /\ note' = note /\ item' = item
      /\ made' = made /\ received' = received /\ open' = FALSE
      /\ updates' = updates \/ updates' = <<>>
      /\ out' = out \/ out' = <<>>
      /\ \/ service' = service /\ held' = held /\ task' = task /\ cancelled' = cancelled
         \/ /\ service' = "ended" /\ held' = <<>> /\ task' \in {task, "ended"}
            /\ cancelled' \in {cancelled, TRUE}
  BY DEF ForwardRefused, ServiceEnds, ConvertPanics, ClientLeaves, connVars, noteVars, subVars,
         chanVars, TypeOK
<1>2. <<>> \in Seq(Item)
  OBVIOUS
<1>3. updates' \in Seq(Item) /\ out' \in Seq(Item) /\ held' \in Seq(Item)
  BY <1>1, <1>2, Zenon DEF TypeOK
<1>4. TypeOK'
  BY <1>1, <1>3 DEF TypeOK, TaskPlaces
<1>5. PipelineComplete'
  BY <1>1 DEF PipelineComplete
<1>6. CASE service' = service /\ held' = held /\ task' = task /\ cancelled' = cancelled
  <2>1. TaskInv' /\ HandInv'
    BY <1>1, <1>6 DEF TaskInv, HandInv
  <2> QED BY <1>4, <1>5, <2>1
<1>7. CASE service' = "ended" /\ held' = <<>> /\ task' \in {task, "ended"}
  <2>1. TaskInv'
    BY <1>1, <1>7 DEF TaskInv
  <2>2. HandInv'
    BY <1>7 DEF HandInv
  <2> QED BY <1>4, <1>5, <2>1, <2>2
<1> QED BY <1>1, <1>6, <1>7

\* The invariant holds at the start.
LEMMA PipeInit == Init => PipeInv
<1> SUFFICES ASSUME Init PROVE PipeInv
  OBVIOUS
<1>1. TypeOK
  <2>1. <<>> \in Seq(Item)
    OBVIOUS
  <2>2. /\ updates \in Seq(Item) /\ held \in Seq(Item) /\ out \in Seq(Item)
        /\ received \in Seq(Item) /\ made \in Seq(Item)
    BY <2>1, Zenon DEF Init
  <2>3. /\ note \in [slot : Slots, root : BOOLEAN] /\ item \in Item /\ delay \in 1..MaxDelay
        /\ endpoint \in Nat
    BY SubscriptionAssumption DEF Init, ErrorItem, Item, Slots
  <2>4. /\ task = "none" /\ cancelled = FALSE /\ service = "start" /\ open = TRUE
    BY Zenon DEF Init
  <2> QED BY <2>2, <2>3, <2>4 DEF TypeOK, TaskPlaces
<1>2. TaskInv /\ HandInv
  BY DEF Init, TaskInv, HandInv
<1>3. PipelineComplete
  <2>1. WantedOf(<<>>) = <<>>
    <3>1. <<>> \in Seq(Item) /\ Len(<<>>) = 0
      OBVIOUS
    <3> QED BY <3>1, KeptDef
  <2>2. /\ updates = <<>> /\ held = <<>> /\ out = <<>> /\ received = <<>> /\ made = <<>>
    BY Zenon DEF Init
  <2>3. ((<<>> \o <<>>) \o <<>>) \o <<>> = <<>>
    OBVIOUS
  <2> QED BY <2>1, <2>2, <2>3, Zenon DEF PipelineComplete
<1> QED BY <1>1, <1>2, <1>3 DEF PipeInv

\* PipeInv is an invariant of subscribe_new_blocks.
LEMMA PipeInvariant == Spec => []PipeInv
<1>1. PipeInv /\ [Next]_vars => PipeInv'
  <2> SUFFICES ASSUME PipeInv, [Next]_vars PROVE PipeInv'
    OBVIOUS
  <2>1. CASE Report \/ Announce \/ Deliver
    BY <2>1, SendSteps
  <2>2. CASE \/ Connect \/ SubscribeFails \/ SubscribeOk \/ ReportRefused \/ SelectShutdown
             \/ SelectSlot \/ SelectEnd \/ Fetch \/ Wake \/ SubscribeSlots \/ UNCHANGED vars
    BY <2>2, TaskSteps
  <2>3. CASE Recv
    BY <2>3, RecvStep
  <2>4. CASE Forward
    BY <2>4, ForwardStep
  <2>5. CASE Read
    BY <2>5, ReadStep
  <2>6. CASE ForwardRefused \/ ConvertPanics \/ ClientLeaves
    BY <2>6, ClosingSteps
  <2> QED BY <2>1, <2>2, <2>3, <2>4, <2>5, <2>6 DEF Next, TaskStep, ServiceStep
<1> QED BY PipeInit, <1>1, PTL DEF Spec

-----------------------------------------------------------------------------
(* Theorems.                                                               *)

\* What run_slot_subscription sent and the client should get is what the client
\* has, followed by what is on its way, while the client's stream is open: two
\* tasks, two bounded channels and any number of reconnects lose, repeat and
\* reorder nothing.
THEOREM NothingLostOnTheWay == Spec => []PipelineComplete
<1>1. PipeInv => PipelineComplete
  BY DEF PipeInv
<1> QED BY PipeInvariant, <1>1, PTL

\* While the service's task receives, run_slot_subscription has not ended, its
\* reconnect delay is within its limit, and it is a second again after a
\* subscription that worked.
THEOREM SubscriptionNeverEndsAlone == Spec => []SubscriptionPersists
<1>1. PipeInv => SubscriptionPersists
  BY SubscriptionAssumption DEF PipeInv, TypeOK, TaskInv, SubscriptionPersists
<1> QED BY PipeInvariant, <1>1, PTL
=============================================================================
