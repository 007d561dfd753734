------------------------ MODULE SolanaFailover_proofs ------------------------
(* Failover for every number of endpoints and of concurrent calls. *)
EXTENDS SolanaFailover, TLAPS

\* How many steps of next_client lead from endpoint e to endpoint i.
Distance(e, i) == IF e <= i THEN i - e ELSE i - e + N

\* The endpoints a request has been refused by or lost to other calls.
Passed(c) == tried[c] \cup taken[c]

\* After each attempt these include, for every attempt made, one endpoint the index
\* has passed, counted back from where it is now; during an attempt the endpoint
\* asked counts too.
Covers(c) ==
    /\ pc[c] \in {"choose", "request"} => attempts[c] < N
    /\ pc[c] = "choose" /\ attempts[c] > 0 =>
           \A e \in Endpoints : Distance(e, current) < attempts[c] => e \in Passed(c)
    /\ pc[c] = "request" =>
           \A e \in Endpoints : Distance(e, current) <= attempts[c] => e \in Passed(c) \cup {client[c]}
    /\ pc[c] = "error" => Passed(c) = Endpoints

FailoverInv == TypeOK /\ \A c \in Caller : Covers(c)

\* Following stays within the endpoints and wraps around at the last one.
LEMMA FollowingWraps ==
    ASSUME NEW i \in Endpoints
    PROVE  /\ Following(i) \in Endpoints
           /\ Following(i) = IF i + 1 = N THEN 0 ELSE i + 1
  <1>1. CASE i + 1 = N
    BY <1>1, FailoverAssumption DEF Following, Endpoints
  <1>2. CASE i + 1 # N
    BY <1>2, FailoverAssumption DEF Following, Endpoints
  <1> QED BY <1>1, <1>2

\* Moving the index on puts every other endpoint one step further behind it.
LEMMA DistanceGrows ==
    ASSUME NEW i \in Endpoints, NEW e \in Endpoints
    PROVE  /\ Distance(e, i) \in 0..(N - 1)
           /\ Distance(e, i) = 0 <=> e = i
           /\ Distance(e, i) < N - 1 => Distance(e, Following(i)) = Distance(e, i) + 1
           /\ Distance(e, i) = N - 1 => Distance(e, Following(i)) = 0
  BY FollowingWraps, FailoverAssumption DEF Distance, Endpoints

\* The invariant holds before any call.
LEMMA FailoverInit == Init => FailoverInv
  BY FailoverAssumption DEF Init, FailoverInv, TypeOK, Covers, Endpoints

\* Every step of every call keeps it.
LEMMA FailoverStep == FailoverInv /\ [Next]_vars => FailoverInv'
  <1> SUFFICES ASSUME FailoverInv, [Next]_vars
               PROVE  FailoverInv'
    OBVIOUS
  <1> USE FailoverAssumption DEF FailoverInv
  <1>a. ASSUME NEW d \in Caller, UNCHANGED <<current, client>>, pc'[d] = pc[d],
               attempts'[d] = attempts[d], tried'[d] = tried[d], taken'[d] = taken[d]
        PROVE  Covers(d)'
    <2>1. Passed(d)' = Passed(d)
      BY <1>a DEF Passed
    <2> QED BY <1>a, <2>1 DEF Covers, Distance
  <1>b. ASSUME NEW c \in Caller, NEW r \in {"plain", "block", "time"}, Begin(c, r),
               UNCHANGED <<current, client>>
        PROVE  FailoverInv'
    <2>1. TypeOK'
      BY <1>b DEF Begin, TypeOK, Endpoints
    <2>2. Covers(c)'
      BY <1>b DEF Begin, TypeOK, Covers
    <2>3. ASSUME NEW d \in Caller, d # c PROVE Covers(d)'
      BY <1>a, <1>b, <2>3 DEF Begin, TypeOK
    <2> QED BY <2>1, <2>2, <2>3
  <1>1. ASSUME NEW c \in Caller, Call(c) \/ BlockAnswered(c)
        PROVE  FailoverInv'
    BY <1>b, <1>1 DEF Call, BlockAnswered
  <1>2. ASSUME NEW c \in Caller, CurrentClient(c)
        PROVE  FailoverInv'
    <2>1. TypeOK'
      BY <1>2 DEF CurrentClient, TypeOK
    <2>2. Covers(c)'
      <3>1. /\ current' = current /\ client'[c] = current /\ attempts'[c] = 0 /\ pc'[c] = "request"
        BY <1>2 DEF CurrentClient, TypeOK
      <3>2. \A e \in Endpoints : Distance(e, current) <= 0 => e = current
        BY DistanceGrows DEF TypeOK
      <3> QED BY <3>1, <3>2 DEF Covers, Distance
    <2>3. ASSUME NEW d \in Caller, d # c PROVE Covers(d)'
      <3>1. /\ UNCHANGED <<current, pc[d], attempts, tried, taken>> /\ client'[d] = client[d]
        BY <1>2, <2>3 DEF CurrentClient, TypeOK
      <3> QED BY <3>1 DEF Covers, Passed, Distance
    <2> QED BY <2>1, <2>2, <2>3
  <1>3. ASSUME NEW c \in Caller, NextClient(c)
        PROVE  FailoverInv'
    <2>1. TypeOK'
      BY <1>3, FollowingWraps DEF NextClient, TakenBy, TypeOK
    <2>2. ASSUME NEW e \in Endpoints, NEW n \in Nat, Distance(e, Following(current)) <= n
          PROVE  e = Following(current) \/ Distance(e, current) < n
      <3>1. /\ Distance(e, current) \in 0..(N - 1)
            /\ Distance(e, current) < N - 1
                 => Distance(e, Following(current)) = Distance(e, current) + 1
            /\ Distance(e, current) = N - 1 => Distance(e, Following(current)) = 0
        BY <2>2, DistanceGrows DEF TypeOK
      <3>2. Distance(e, Following(current)) = 0 <=> e = Following(current)
        BY <2>2, DistanceGrows, FollowingWraps DEF TypeOK
      <3> QED BY <2>2, <3>1, <3>2
    <2>3. Covers(c)'
      <3>1. /\ pc'[c] = "request" /\ current' = Following(current)
            /\ client'[c] = Following(current) /\ attempts'[c] = attempts[c]
            /\ tried' = tried /\ taken'[c] = taken[c]
            /\ attempts[c] < N /\ attempts[c] \in Nat
            /\ \A e \in Endpoints : Distance(e, current) < attempts[c] => e \in Passed(c)
        BY <1>3 DEF NextClient, TakenBy, TypeOK, Covers
      <3>2. Passed(c)' = Passed(c)
        BY <3>1 DEF Passed
      <3>3. \A e \in Endpoints : Distance(e, Following(current)) <= attempts[c]
                 => e \in Passed(c) \cup {Following(current)}
        BY <2>2, <3>1
      <3> QED BY <3>1, <3>2, <3>3 DEF Covers, Distance
    <2>4. ASSUME NEW d \in Caller, d # c PROVE Covers(d)'
      <3>1. /\ pc'[d] = pc[d] /\ current' = Following(current)
            /\ client'[d] = client[d] /\ attempts' = attempts /\ attempts[d] \in Nat
            /\ tried' = tried /\ taken[d] \subseteq taken'[d]
            /\ UsesIndex(d) => Following(current) \in taken'[d]
            /\ ~UsesIndex(d) => taken'[d] = taken[d]
        BY <1>3, <2>4 DEF NextClient, TakenBy, TypeOK
      <3>2. /\ Passed(d) \subseteq Passed(d)'
            /\ UsesIndex(d) => Following(current) \in Passed(d)'
            /\ ~UsesIndex(d) => Passed(d)' = Passed(d)
        BY <3>1 DEF Passed
      <3>3. CASE pc[d] = "request"
        <4>1. \A e \in Endpoints : Distance(e, current) <= attempts[d]
                   => e \in Passed(d) \cup {client[d]}
          BY <3>3 DEF Covers
        <4>2. \A e \in Endpoints : Distance(e, current) < attempts[d] => Distance(e, current) <= attempts[d]
          BY <3>1, DistanceGrows DEF TypeOK
        <4>3. \A e \in Endpoints : Distance(e, Following(current)) <= attempts[d]
                   => e \in Passed(d)' \cup {client[d]}
          BY <2>2, <3>1, <3>2, <3>3, <4>1, <4>2 DEF UsesIndex
        <4> QED BY <3>1, <3>3, <4>3 DEF Covers, Distance
      <3>4. CASE pc[d] = "choose" /\ attempts[d] > 0
        <4>1. \A e \in Endpoints : Distance(e, current) < attempts[d] => e \in Passed(d)
          BY <3>4 DEF Covers
        <4>2. ASSUME NEW e \in Endpoints, Distance(e, Following(current)) < attempts[d]
              PROVE  e \in Passed(d)'
          <5>1. Distance(e, Following(current)) <= attempts[d]
            BY <3>1, <4>2, DistanceGrows, FollowingWraps DEF TypeOK
          <5> QED BY <2>2, <3>1, <3>2, <3>4, <4>1, <5>1 DEF UsesIndex
        <4> QED BY <3>1, <3>4, <4>2 DEF Covers, Distance
      <3>5. CASE ~UsesIndex(d)
        BY <3>1, <3>2, <3>5 DEF Covers, UsesIndex
      <3> QED BY <3>3, <3>4, <3>5 DEF UsesIndex
    <2> QED BY <2>1, <2>3, <2>4
  <1>5. ASSUME NEW c \in Caller, LastAnswered(c)
        PROVE  FailoverInv'
    <2>1. TypeOK'
      BY <1>5 DEF LastAnswered, TypeOK
    <2>2. Covers(c)'
      BY <1>5 DEF LastAnswered, TypeOK, Covers
    <2>3. ASSUME NEW d \in Caller, d # c PROVE Covers(d)'
      BY <1>a, <1>5, <2>3 DEF LastAnswered, TypeOK
    <2> QED BY <2>1, <2>2, <2>3
  <1>6. ASSUME NEW c \in Caller, Fails(c)
        PROVE  FailoverInv'
    <2>1. TypeOK'
      BY <1>6 DEF Fails, Exhausted, TypeOK, Covers, Endpoints
    <2>2. Covers(c)'
      <3>1. /\ current' = current /\ taken' = taken
            /\ tried'[c] = tried[c] \cup {client[c]}
            /\ attempts'[c] = attempts[c] + 1
            /\ pc'[c] = IF attempts[c] + 1 >= N THEN "error" ELSE "choose"
            /\ attempts[c] < N /\ attempts[c] \in Nat
            /\ \A e \in Endpoints : Distance(e, current) <= attempts[c]
                     => e \in Passed(c) \cup {client[c]}
        BY <1>6 DEF Fails, Exhausted, TypeOK, Covers
      <3>2. Passed(c)' = Passed(c) \cup {client[c]}
        BY <3>1 DEF Passed
      <3>3. \A e \in Endpoints : Distance(e, current) < attempts[c] + 1 => e \in Passed(c)'
        BY <3>1, <3>2, DistanceGrows DEF TypeOK
      <3>4. CASE attempts[c] + 1 >= N
        <4>1. \A e \in Endpoints : e \in Passed(c)'
          BY <3>1, <3>3, <3>4, DistanceGrows DEF TypeOK
        <4>2. Passed(c)' = Endpoints
          BY <2>1, <4>1 DEF Passed, TypeOK
        <4> QED BY <3>1, <3>4, <4>2 DEF Covers
      <3>5. CASE ~(attempts[c] + 1 >= N)
        BY <3>1, <3>3, <3>5 DEF Covers, Distance
      <3> QED BY <3>4, <3>5
    <2>3. ASSUME NEW d \in Caller, d # c PROVE Covers(d)'
      BY <1>a, <1>6, <2>3 DEF Fails, TypeOK
    <2> QED BY <2>1, <2>2, <2>3
  <1>7. CASE UNCHANGED vars
    BY <1>a, <1>7 DEF vars, TypeOK
  <1> QED BY <1>1, <1>2, <1>3, <1>5, <1>6, <1>7 DEF Next, Progress

\* The shared index is an endpoint and every call's counters stay in range, for
\* every number of endpoints and of concurrent calls.
THEOREM FailoverTypeCorrect == Spec => []TypeOK
  <1>1. FailoverInv => TypeOK
    BY DEF FailoverInv
  <1> QED BY FailoverInit, FailoverStep, <1>1, PTL DEF Spec

\* A request of execute_with_failover that fails has been refused by every endpoint
\* that no other call took by moving the index during it.
THEOREM EveryEndpointAccountedFor == Spec => []NoEndpointOverlooked
  <1>1. FailoverInv => NoEndpointOverlooked
    BY DEF FailoverInv, Covers, Passed, NoEndpointOverlooked
  <1> QED BY FailoverInit, FailoverStep, <1>1, PTL DEF Spec
=============================================================================
