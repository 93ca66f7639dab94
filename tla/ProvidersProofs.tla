-------------------------- MODULE ProvidersProofs --------------------------
(***************************************************************************)
(* What a provider does beside its streams, proved: it picks an API key    *)
(* for a call, for every number of keys and callers, every cooldown and    *)
(* every width of the cursor (KeyPool), and it translates the conversation *)
(* of a request and the reply, for conversations of every length and every *)
(* number of calls and functions (Conversation). The two share nothing.    *)
(***************************************************************************)
EXTENDS KeyPool, Conversation, FiniteSetTheorems, SequenceTheorems,
        WellFoundedInduction, TLAPS

-----------------------------------------------------------------------------
(* The key pool.                                                           *)

(* A key's cooldown ends one cooldown after its last 429, whichever call   *)
(* brought it.                                                             *)
CooldownInv == \A k \in Index : cooldownTill[k] = failedAt[k] + Cooldown

LEMMA TypeStep == TypeOK /\ [Next]_vars => TypeOK'
<1> SUFFICES ASSUME TypeOK, [Next]_vars PROVE TypeOK'
  OBVIOUS
<1>a. (cursor + 1) % CursorMod \in 0 .. CursorMod - 1
  BY NumbersAssumption DEF TypeOK
<1>1. ASSUME NEW c \in Callers, Pick(c) PROVE TypeOK'
  <2>1. PICK k \in Index \cup {NoKey} :
          /\ NextKey(k)
          /\ call' = [call EXCEPT ![c] = [busy |-> TRUE, key |-> k]]
          /\ waited' = [j \in Index |->
                IF j = k \/ ~Free(j) THEN 0 ELSE waited[j] + 1]
    BY <1>1 DEF Pick
  <2>2. cursor' \in 0 .. CursorMod - 1
    BY <1>a, <2>1 DEF NextKey, TypeOK
  <2>3. Index' = Index /\ UNCHANGED <<size, cooldownTill, now, failedAt>>
    BY <1>1 DEF Pick, Index
  <2>4. waited' \in [Index -> Nat]
    BY <2>1 DEF TypeOK
  <2> QED BY <2>1, <2>2, <2>3, <2>4 DEF TypeOK
<1>2. ASSUME NEW c \in Callers, TooManyRequests(c) PROVE TypeOK'
  <2>1. UNCHANGED <<size, cursor, now>> /\ Index' = Index
    BY <1>2 DEF TooManyRequests, Index
  <2>2. now + Cooldown \in Nat
    BY NumbersAssumption DEF TypeOK
  <2> QED BY <1>2, <2>1, <2>2 DEF TooManyRequests, MarkFailure, Idle, TypeOK
<1>3. ASSUME NEW c \in Callers, OtherAnswer(c) PROVE TypeOK'
  BY <1>3 DEF OtherAnswer, Idle, TypeOK, Index
<1>4. CASE Tick
  BY <1>4 DEF Tick, TypeOK, Index
<1>5. CASE UNCHANGED vars
  BY <1>5 DEF vars, TypeOK, Index
<1> QED BY <1>1, <1>2, <1>3, <1>4, <1>5 DEF Next

(* TypeOK holds in every reachable state.                                  *)
THEOREM TypeCorrect == Spec => []TypeOK
<1>1. Init => TypeOK
  <2> SUFFICES ASSUME Init PROVE TypeOK
    OBVIOUS
  <2>1. \A configured \in SUBSET ApiKeys : PoolOf(configured) \in Nat
    <3> SUFFICES ASSUME NEW configured \in SUBSET ApiKeys
                 PROVE  PoolOf(configured) \in Nat
      OBVIOUS
    <3>1. IsFiniteSet(configured \ {Blank})
      BY KeysAssumption, FS_Subset
    <3> QED BY <3>1, FS_CardinalityType DEF PoolOf
  <2>2. size \in Nat /\ 0 \in 0 .. CursorMod - 1 /\ LongAgo - Cooldown \in Int
    BY <2>1, NumbersAssumption DEF Init, LongAgo
  <2> QED BY <2>2 DEF Init, TypeOK, Idle
<1> QED BY <1>1, TypeStep, PTL DEF Spec

LEMMA CooldownStep == TypeOK /\ CooldownInv /\ [Next]_vars => CooldownInv'
<1> SUFFICES ASSUME TypeOK, CooldownInv, [Next]_vars PROVE CooldownInv'
  OBVIOUS
<1>1. ASSUME NEW c \in Callers, TooManyRequests(c) PROVE CooldownInv'
  <2>1. Index' = Index
    BY <1>1 DEF TooManyRequests, Index
  <2> QED BY <1>1, <2>1 DEF TooManyRequests, MarkFailure, CooldownInv, TypeOK
<1>2. CASE UNCHANGED <<size, cooldownTill, failedAt>>
  BY <1>2 DEF CooldownInv, Index
<1> QED BY <1>1, <1>2 DEF Next, vars, Pick, OtherAnswer, Tick

(* KeysRest: a key that answered 429 is handed out during its cooldown     *)
(* only when every key of the pool is resting, and then it is the one that *)
(* has rested longest.                                                     *)
THEOREM KeysDoRest == Spec => KeysRest
<1> DEFINE Rest ==
      \A c \in Callers :
          /\ call'[c].busy /\ ~call[c].busy
          /\ size > 1 /\ Resting(call'[c].key)
          => \A j \in Index : Resting(j) /\ failedAt[call'[c].key] <= failedAt[j]
<1>1. TypeOK /\ CooldownInv /\ [Next]_vars => [Rest]_vars
  <2> SUFFICES ASSUME TypeOK, CooldownInv, Next, NEW c \in Callers,
                      call'[c].busy, ~call[c].busy, size > 1,
                      Resting(call'[c].key), NEW j \in Index
               PROVE  Resting(j) /\ failedAt[call'[c].key] <= failedAt[j]
    OBVIOUS
  <2>1. \A i \in Index : /\ Free(i) <=> ~Resting(i)
                         /\ cooldownTill[i] = failedAt[i] + Cooldown
                         /\ failedAt[i] \in Int /\ Cooldown \in Nat
    BY NumbersAssumption DEF CooldownInv, Free, Resting, TypeOK
  <2>2. ASSUME NEW d \in Callers, Pick(d)
        PROVE  Resting(j) /\ failedAt[call'[c].key] <= failedAt[j]
    <3>1. d = c
      BY <2>2 DEF Pick, TypeOK
    <3>2. PICK k \in Index \cup {NoKey} : NextKey(k) /\ call'[c].key = k
      BY <2>2, <3>1 DEF Pick, TypeOK
    <3>3. k \in Index /\ (FirstFree(k) \/ Soonest(k))
      BY <3>2 DEF NextKey, TypeOK
    <3>4. ~Free(k)
      BY <2>1, <3>2, <3>3
    <3>5. Soonest(k)
      BY <3>3, <3>4 DEF FirstFree
    <3>6. ~Free(j) /\ cooldownTill[k] <= cooldownTill[j]
      BY <3>5 DEF Soonest
    <3> QED BY <2>1, <3>2, <3>3, <3>6
  <2>3. ASSUME NEW d \in Callers, TooManyRequests(d) \/ OtherAnswer(d)
        PROVE  FALSE
    BY <2>3 DEF TooManyRequests, OtherAnswer, Idle, TypeOK
  <2>4. CASE Tick
    BY <2>4 DEF Tick
  <2> QED BY <2>2, <2>3, <2>4 DEF Next
<1>2. Init => CooldownInv
  <2> SUFFICES ASSUME Init PROVE CooldownInv
    OBVIOUS
  <2>1. LongAgo \in Int /\ LongAgo = (LongAgo - Cooldown) + Cooldown
    BY NumbersAssumption DEF LongAgo
  <2> QED BY <2>1 DEF Init, CooldownInv
<1> QED BY <1>1, <1>2, CooldownStep, TypeCorrect, PTL DEF Spec, KeysRest

-----------------------------------------------------------------------------
(* Round-robin.                                                            *)

(* Division with remainder, and what is added to a number shows in it.     *)
LEMMA Division ==
  ASSUME NEW n \in Nat \ {0}, NEW c \in Nat
  PROVE  /\ c \div n \in Nat /\ c % n \in 0 .. n - 1
         /\ c = n * (c \div n) + (c % n)
OBVIOUS

LEMMA Remainder ==
  ASSUME NEW n \in Nat \ {0}, NEW q \in Int, NEW p \in 0 .. n - 1
  PROVE  (n * q + p) % n = p
OBVIOUS

LEMMA RemainderOfSum ==
  ASSUME NEW n \in Nat \ {0}, NEW c \in Nat, NEW i \in 0 .. n
  PROVE  (c + i) % n = IF (c % n) + i < n THEN (c % n) + i ELSE (c % n) + i - n
<1> DEFINE q == c \div n
           p == c % n
<1>1. q \in Int /\ p \in 0 .. n - 1 /\ c = n * q + p
  BY Division
<1> HIDE DEF q, p
<1>2. CASE p + i < n
  <2>1. c + i = n * q + (p + i) /\ p + i \in 0 .. n - 1
    BY <1>1, <1>2
  <2>2. (n * q + (p + i)) % n = p + i
    BY <1>1, <2>1, Remainder
  <2> QED BY <1>2, <2>1, <2>2 DEF p
<1>3. CASE ~(p + i < n)
  <2>1. c + i = n * (q + 1) + (p + i - n) /\ p + i - n \in 0 .. n - 1 /\ q + 1 \in Int
    BY <1>1, <1>3
  <2>2. (n * (q + 1) + (p + i - n)) % n = p + i - n
    BY <1>1, <2>1, Remainder
  <2> QED BY <1>3, <2>1, <2>2 DEF p
<1> QED BY <1>2, <1>3

(* How many picks it takes the cursor to come to a key.                    *)
Start    == cursor % size
Ahead(k) == IF k >= Start THEN k - Start ELSE k - Start + size

LEMMA AheadIsThere ==
  ASSUME TypeOK, size > 1, NEW k \in Index
  PROVE  Start \in Index /\ Ahead(k) \in Index /\ At(Ahead(k)) = k
<1>1. size \in Nat \ {0} /\ cursor \in Nat /\ Index = 0 .. size - 1
  BY NumbersAssumption DEF TypeOK, Index
<1>2. Start \in 0 .. size - 1
  BY <1>1, Division DEF Start
<1>3. Ahead(k) \in 0 .. size - 1
  BY <1>1, <1>2 DEF Ahead
<1>4. (cursor + Ahead(k)) % size =
        IF Start + Ahead(k) < size THEN Start + Ahead(k) ELSE Start + Ahead(k) - size
  <2>1. size \in Nat \ {0} /\ cursor \in Nat /\ Ahead(k) \in 0 .. size
    BY <1>1, <1>3
  <2> QED BY <2>1, RemainderOfSum, Zenon DEF Start
<1> QED BY <1>1, <1>2, <1>3, <1>4 DEF Ahead, At

(* The cursor, which starts at 0 and not at a multiple of the size when it *)
(* wraps around, has either not passed a key since, and then comes to it   *)
(* in as many picks as are between them, or it has, and comes to it again  *)
(* within a turn, counted from the pick that passed it.                    *)
RotationInv ==
    /\ size <= CursorMod
    /\ size > 1 => \A k \in Index :
          IF cursor <= k THEN waited[k] + (k - cursor) <= (size - 1) + (CursorMod % size)
          ELSE waited[k] + Ahead(k) <= size - 1

(* A pick that leaves a free key waiting is one the cursor had not come to *)
(* it for.                                                                 *)
LEMMA PassedOver ==
  ASSUME TypeOK, size > 1, NEW k \in Index, NEW j \in Index, NextKey(k),
         Free(j), j # k
  PROVE  Ahead(j) > 0
<1>1. Ahead(j) \in Index /\ At(Ahead(j)) = j
  BY AheadIsThere
<1>2. FirstFree(k)
  BY DEF NextKey, Soonest
<1>3. PICK i \in Index : k = At(i) /\ \A l \in 0 .. i - 1 : ~Free(At(l))
  BY <1>2 DEF FirstFree
<1>4. CASE Ahead(j) = 0
  <2>1. i # 0
    BY <1>1, <1>3, <1>4
  <2>2. 0 \in 0 .. i - 1
    BY <1>3, <2>1 DEF TypeOK, Index
  <2> QED BY <1>1, <1>3, <1>4, <2>2
<1> QED BY <1>1, <1>4 DEF TypeOK, Index

LEMMA RotationStep == TypeOK /\ TypeOK' /\ RotationInv /\ [Next]_vars => RotationInv'
<1> SUFFICES ASSUME TypeOK, TypeOK', RotationInv, [Next]_vars PROVE RotationInv'
  OBVIOUS
<1>1. size' = size /\ Index' = Index
  BY DEF Next, vars, Pick, TooManyRequests, OtherAnswer, Tick, Index
<1> SUFFICES ASSUME size > 1, NEW j \in Index
             PROVE  IF cursor' <= j
                    THEN waited'[j] + (j - cursor') <= (size - 1) + (CursorMod % size)
                    ELSE waited'[j] + Ahead(j)' <= size - 1
  BY <1>1 DEF RotationInv
<1>2. /\ size \in Nat \ {0} /\ cursor \in 0 .. CursorMod - 1 /\ CursorMod \in Nat \ {0}
      /\ size <= CursorMod /\ j \in 0 .. size - 1
      /\ waited[j] \in Nat /\ waited'[j] \in Nat
  BY <1>1, NumbersAssumption DEF TypeOK, Index, RotationInv
<1>3. /\ Start \in 0 .. size - 1 /\ CursorMod % size \in 0 .. size - 1
      /\ Ahead(j) \in 0 .. size - 1
  BY <1>2, AheadIsThere, Division DEF Index
<1>4. IF cursor <= j THEN waited[j] + (j - cursor) <= (size - 1) + (CursorMod % size)
      ELSE waited[j] + Ahead(j) <= size - 1
  BY DEF RotationInv
<1>5. CASE UNCHANGED cursor /\ waited'[j] <= waited[j]
  <2>1. Ahead(j)' = Ahead(j)
    BY <1>1, <1>5 DEF Ahead, Start
  <2> QED BY <1>2, <1>3, <1>4, <1>5, <2>1
<1>6. ASSUME NEW c \in Callers, Pick(c)
      PROVE  IF cursor' <= j
             THEN waited'[j] + (j - cursor') <= (size - 1) + (CursorMod % size)
             ELSE waited'[j] + Ahead(j)' <= size - 1
  <2>1. PICK k \in Index \cup {NoKey} :
          /\ NextKey(k)
          /\ waited' = [i \in Index |-> IF i = k \/ ~Free(i) THEN 0 ELSE waited[i] + 1]
    BY <1>6 DEF Pick
  <2>2. k \in Index /\ cursor' = (cursor + 1) % CursorMod
    BY <1>2, <2>1 DEF NextKey
  <2>3. waited'[j] = 0 \/ (waited'[j] = waited[j] + 1 /\ Ahead(j) > 0)
    BY <2>1, <2>2, PassedOver
  <2>4. CASE cursor < CursorMod - 1
    <3>1. cursor' = cursor + 1
      BY <1>2, <2>2, <2>4
    <3>2. (cursor + 1) % size = IF Start + 1 < size THEN Start + 1 ELSE Start + 1 - size
      <4>1. size \in Nat \ {0} /\ cursor \in Nat /\ 1 \in 0 .. size
        BY <1>2
      <4> QED BY <4>1, RemainderOfSum, Zenon DEF Start
    <3>3. Start' = IF Start + 1 < size THEN Start + 1 ELSE 0
      BY <1>1, <1>2, <1>3, <3>1, <3>2 DEF Start
    <3>4. Ahead(j)' = IF Ahead(j) > 0 THEN Ahead(j) - 1 ELSE size - 1
      BY <1>1, <1>2, <1>3, <3>3 DEF Ahead
    <3>5. CASE cursor < j
      BY <1>2, <1>3, <1>4, <2>3, <3>1, <3>5
    <3>6. CASE cursor = j
      <4>1. Start = j
        <5>1. (size * 0 + j) % size = j
          BY <1>2, Remainder
        <5> QED BY <1>2, <3>6, <5>1 DEF Start
      <4>2. Ahead(j) = 0
        BY <1>2, <4>1 DEF Ahead
      <4> QED BY <1>2, <2>3, <3>1, <3>4, <3>6, <4>2
    <3>7. CASE cursor > j
      <4>1. waited[j] + Ahead(j) <= size - 1 /\ ~(cursor' <= j)
        BY <1>2, <1>4, <3>1, <3>7
      <4>2. waited'[j] + Ahead(j)' <= size - 1
        BY <1>2, <1>3, <2>3, <3>4, <4>1
      <4> QED BY <4>1, <4>2
    <3> QED BY <1>2, <3>5, <3>6, <3>7
  <2>5. CASE cursor = CursorMod - 1
    <3>1. cursor' = 0
      BY <1>2, <2>2, <2>5
    <3>2. CursorMod % size = IF Start + 1 < size THEN Start + 1 ELSE Start + 1 - size
      <4>1. cursor + 1 = CursorMod
        BY <1>2, <2>5
      <4>2. size \in Nat \ {0} /\ cursor \in Nat /\ 1 \in 0 .. size
        BY <1>2
      <4> QED BY <4>1, <4>2, RemainderOfSum, Zenon DEF Start
    <3>3. CASE waited'[j] = 0
      BY <1>2, <1>3, <3>1, <3>3
    <3>4. CASE waited'[j] = waited[j] + 1 /\ Ahead(j) > 0
      <4>1. cursor # j
        <5>1. ASSUME cursor = j PROVE FALSE
          <6>1. (size * 0 + j) % size = j
            BY <1>2, Remainder
          <6>2. Start = j
            BY <1>2, <5>1, <6>1 DEF Start
          <6> QED BY <1>2, <3>4, <6>2 DEF Ahead
        <5> QED BY <5>1
      <4>2. waited[j] + Ahead(j) <= size - 1
        BY <1>2, <1>4, <2>5, <4>1
      <4>3. waited'[j] + j <= (size - 1) + (CursorMod % size)
        BY <1>2, <1>3, <3>2, <3>4, <4>2 DEF Ahead
      <4> QED BY <1>2, <3>1, <4>3
    <3> QED BY <2>3, <3>3, <3>4
  <2> QED BY <1>2, <2>4, <2>5
<1>7. ASSUME NEW c \in Callers, TooManyRequests(c)
      PROVE  UNCHANGED cursor /\ waited'[j] <= waited[j]
  BY <1>2, <1>7 DEF TooManyRequests, TypeOK
<1>8. CASE UNCHANGED <<cursor, waited>>
  BY <1>2, <1>5, <1>8
<1> QED BY <1>5, <1>6, <1>7, <1>8 DEF Next, vars, OtherAnswer, Tick

(* RoundRobin: for every number of keys, and every cursor that counts at   *)
(* least as far, a key that stays free is picked within a full turn of the *)
(* pool, or within one more partial turn where the cursor wraps around.    *)
THEOREM NoKeyIsLeftOut == Spec => []RoundRobin
<1>1. Init => RotationInv
  <2> SUFFICES ASSUME Init PROVE RotationInv
    OBVIOUS
  <2>1. PICK configured \in SUBSET ApiKeys : size = PoolOf(configured)
    BY DEF Init
  <2>2. size <= Cardinality(ApiKeys) /\ size \in Nat /\ Cardinality(ApiKeys) \in Nat
    <3>1. configured \ {Blank} \in SUBSET ApiKeys
      BY <2>1
    <3> QED BY <2>1, <3>1, KeysAssumption, FS_Subset, FS_CardinalityType DEF PoolOf
  <2>3. size <= CursorMod
    BY <2>2, CursorAssumption, NumbersAssumption
  <2>4. ASSUME size > 1, NEW k \in Index
        PROVE  cursor <= k /\ waited[k] + (k - cursor) <= (size - 1) + (CursorMod % size)
    <3>1. size \in Nat \ {0} /\ CursorMod \in Nat
      BY <2>2, <2>4, NumbersAssumption
    <3>2. CursorMod % size \in 0 .. size - 1
      BY <3>1, Division
    <3> QED BY <2>4, <3>1, <3>2 DEF Init, Index
  <2> QED BY <2>3, <2>4 DEF RotationInv
<1>2. TypeOK /\ RotationInv => RoundRobin
  <2> SUFFICES ASSUME TypeOK, RotationInv, size > 1, NEW k \in Index
               PROVE  waited[k] <= (size - 1) + (CursorMod % size)
    BY DEF RoundRobin
  <2>1. size \in Nat \ {0} /\ CursorMod \in Nat /\ cursor \in Nat /\ waited[k] \in Nat
    BY NumbersAssumption DEF TypeOK
  <2>2. CursorMod % size \in 0 .. size - 1 /\ Ahead(k) \in 0 .. size - 1
    BY <2>1, Division, AheadIsThere DEF Index
  <2> QED BY <2>1, <2>2 DEF RotationInv, Index
<1> QED BY <1>1, <1>2, RotationStep, TypeCorrect, PTL DEF Spec

-----------------------------------------------------------------------------
(***************************************************************************)
(* Induction over lengths, from the order of the numbers being well-       *)
(* founded, said of a set of sequences instead of a predicate.             *)
(***************************************************************************)

Less == {r \in Nat \X Nat : r[1] < r[2]}

LEMMA Induction ==
  ASSUME NEW T, 0 \in T, \A n \in Nat : n \in T => n + 1 \in T
  PROVE  \A n \in Nat : n \in T
<1> SUFFICES ASSUME NEW k \in Nat, k \notin T PROVE FALSE
  OBVIOUS
<1> DEFINE U == {n \in Nat : n \notin T}
<1>1. IsWellFoundedOn(Less, Nat)
  BY NatLessThanWellFounded DEF Less, OpToRel
<1>2. U \subseteq Nat /\ U # {}
  OBVIOUS
<1>3. PICK x \in U : \A y \in U : ~(<<y, x>> \in Less)
  BY <1>1, <1>2, WFMin
<1>4. x \in Nat /\ x # 0 /\ x - 1 \in Nat
  OBVIOUS
<1>5. x - 1 \in U
  <2>1. (x - 1) + 1 = x
    BY <1>4
  <2> QED BY <1>4, <2>1
<1>6. <<x - 1, x>> \in Less
  BY <1>4 DEF Less
<1> QED BY <1>3, <1>5, <1>6

LEMMA SeqInduction ==
  ASSUME NEW S, NEW T, <<>> \in T, \A s \in Seq(S), e \in S : s \in T => Append(s, e) \in T
  PROVE  \A s \in Seq(S) : s \in T
<1> DEFINE N == {n \in Nat : \A s \in Seq(S) : Len(s) = n => s \in T}
<1>1. 0 \in N
  BY EmptySeq
<1>2. ASSUME NEW n \in Nat, n \in N PROVE n + 1 \in N
  <2> SUFFICES ASSUME NEW s \in Seq(S), Len(s) = n + 1 PROVE s \in T
    OBVIOUS
  <2>1. s # <<>>
    BY EmptySeq
  <2>2. PICK f \in Seq(S), e \in S : s = Append(f, e)
    BY <2>1, SequenceEmptyOrAppend
  <2>3. Len(f) \in Nat /\ Len(s) = Len(f) + 1
    BY <2>2, AppendProperties, LenProperties
  <2>4. f \in T
    BY <1>2, <2>3
  <2> QED BY <2>2, <2>4
<1> HIDE DEF N
<1>3. \A n \in Nat : n \in N
  BY <1>1, <1>2, Induction
<1> QED BY <1>3, LenProperties DEF N

LEMMA LastOf ==
  ASSUME NEW S, NEW s \in Seq(S), s # <<>>
  PROVE  \E f \in Seq(S), e \in S :
            /\ s = Append(f, e) /\ Len(s) = Len(f) + 1 /\ Len(f) \in Nat /\ Last(s) = e
            /\ \A i \in 1 .. Len(f) : s[i] = f[i]
<1>1. PICK f \in Seq(S), e \in S : s = Append(f, e)
  BY SequenceEmptyOrAppend
<1>2. /\ Len(s) = Len(f) + 1 /\ Len(f) \in Nat /\ s[Len(f) + 1] = e
      /\ \A i \in 1 .. Len(f) : s[i] = f[i]
  BY <1>1, AppendProperties, LenProperties
<1> QED BY <1>1, <1>2 DEF Last

(* A sequence that is longer by one element.                               *)
LEMMA OneMore ==
  ASSUME NEW S, NEW f \in Seq(S), NEW g \in Seq(S),
         Len(g) = Len(f) + 1, \A i \in 1 .. Len(f) : g[i] = f[i]
  PROVE  g = Append(f, g[Len(f) + 1])
<1> DEFINE n == Len(f)
           x == g[n + 1]
<1>1. n \in Nat /\ Len(g) = n + 1
  BY LenProperties
<1>2. n + 1 \in 1 .. Len(g)
  BY <1>1
<1>3. x \in S
  BY <1>2, ElementOfSeq
<1> HIDE DEF x
<1>4. /\ Append(f, x) \in Seq(S) /\ Len(Append(f, x)) = n + 1
      /\ \A i \in 1 .. n : Append(f, x)[i] = f[i]
      /\ Append(f, x)[n + 1] = x
  BY <1>3, AppendProperties
<1>5. ASSUME NEW i \in 1 .. Len(g) PROVE g[i] = Append(f, x)[i]
  <2>1. i \in 1 .. n \/ i = n + 1
    BY <1>1
  <2> QED BY <1>4, <2>1 DEF x
<1>6. g = Append(f, x)
  BY <1>1, <1>4, <1>5, SeqEqual
<1> QED BY <1>6 DEF x

-----------------------------------------------------------------------------
(* What a loop keeps of a list.                                            *)

LEMMA RankFacts ==
  ASSUME NEW m \in Nat, NEW I \in SUBSET (1 .. m)
  PROVE  /\ IsFiniteSet(I) /\ Cardinality(I) \in Nat
         /\ \A i \in I : Rank(I, i) \in 1 .. Cardinality(I)
         /\ \A i, j \in I : Rank(I, i) = Rank(I, j) => i = j
<1>1. IsFiniteSet(1 .. m)
  BY FS_Interval
<1>2. IsFiniteSet(I) /\ Cardinality(I) \in Nat
  BY <1>1, FS_Subset, FS_CardinalityType
<1>3. ASSUME NEW i \in I PROVE Rank(I, i) \in 1 .. Cardinality(I)
  <2> DEFINE T == {j \in I : j <= i}
  <2>1. T \in SUBSET I /\ i \in T
    OBVIOUS
  <2>2. IsFiniteSet(T) /\ Cardinality(T) <= Cardinality(I) /\ Cardinality(T) \in Nat
    BY <1>2, <2>1, FS_Subset, FS_CardinalityType
  <2>3. Cardinality(T) # 0
    BY <2>1, <2>2, FS_EmptySet
  <2> QED BY <1>2, <2>2, <2>3 DEF Rank
<1>4. ASSUME NEW i \in I, NEW j \in I, i < j
      PROVE  Rank(I, i) # Rank(I, j)
  <2> DEFINE A == {l \in I : l <= i}
             B == {l \in I : l <= j}
  <2>1. i \in 1 .. m /\ j \in 1 .. m /\ I \subseteq Int
    OBVIOUS
  <2>2. A \in SUBSET B /\ j \in B /\ j \notin A /\ B \in SUBSET I
    <3>1. \A l \in I : l <= i => l <= j
      BY <1>4, <2>1
    <3>2. ~(j <= i) /\ j <= j
      BY <1>4, <2>1
    <3> QED BY <3>1, <3>2
  <2>3. IsFiniteSet(B)
    BY <1>2, <2>2, FS_Subset
  <2>4. Cardinality(A) # Cardinality(B)
    BY <2>2, <2>3, FS_Subset
  <2> QED BY <2>4 DEF Rank
<1>5. ASSUME NEW i \in I, NEW j \in I, Rank(I, i) = Rank(I, j) PROVE i = j
  <2>1. i \in Int /\ j \in Int
    OBVIOUS
  <2>2. ~(i < j) /\ ~(j < i)
    BY <1>4, <1>5
  <2> QED BY <2>1, <2>2
<1> QED BY <1>2, <1>3, <1>5

LEMMA NthFacts ==
  ASSUME NEW m \in Nat, NEW I \in SUBSET (1 .. m)
  PROVE  /\ \A n \in 1 .. Cardinality(I) : Nth(I, n) \in I /\ Rank(I, Nth(I, n)) = n
         /\ \A i \in I : Nth(I, Rank(I, i)) = i
<1> DEFINE C == Cardinality(I)
           f == [i \in I |-> Rank(I, i)]
<1>1. /\ IsFiniteSet(I) /\ C \in Nat
      /\ \A i \in I : Rank(I, i) \in 1 .. C
      /\ \A i, j \in I : Rank(I, i) = Rank(I, j) => i = j
  BY RankFacts
<1>2. IsFiniteSet(1 .. C) /\ Cardinality(1 .. C) = C
  BY <1>1, FS_Interval
<1> HIDE DEF C
<1>3. f \in Injection(I, 1 .. C)
  BY <1>1 DEF Injection, IsInjective
<1>4. f \in Surjection(I, 1 .. C)
  BY <1>2, <1>3, FS_Injection DEF C
<1>5. \A n \in 1 .. C : \E i \in I : Rank(I, i) = n
  BY <1>4 DEF Surjection
<1>6. \A n \in 1 .. C : Nth(I, n) \in I /\ Rank(I, Nth(I, n)) = n
  BY <1>5 DEF Nth
<1> QED BY <1>1, <1>6 DEF C

(* One position more, behind the others.                                   *)
LEMMA NthNext ==
  ASSUME NEW m \in Nat, NEW I \in SUBSET (1 .. m)
  PROVE  LET J == I \cup {m + 1} IN
         /\ Cardinality(J) = Cardinality(I) + 1 /\ Cardinality(I) \in Nat
         /\ \A n \in 1 .. Cardinality(I) : Nth(J, n) = Nth(I, n)
         /\ Nth(J, Cardinality(J)) = m + 1
<1> DEFINE J == I \cup {m + 1}
           C == Cardinality(I)
<1>1. J \in SUBSET (1 .. m + 1) /\ m + 1 \in Nat /\ m + 1 \notin I
  OBVIOUS
<1>2. IsFiniteSet(I) /\ C \in Nat
  BY RankFacts
<1>3. Cardinality(J) = C + 1
  BY <1>1, <1>2, FS_AddElement
<1>4. ASSUME NEW i \in I PROVE Rank(J, i) = Rank(I, i)
  <2>1. {j \in J : j <= i} = {j \in I : j <= i}
    OBVIOUS
  <2> QED BY <2>1 DEF Rank
<1>5. Rank(J, m + 1) = C + 1
  <2>1. \A j \in J : j <= m + 1
    OBVIOUS
  <2> QED BY <1>3, <2>1 DEF Rank
<1>6. \A i \in J : Nth(J, Rank(J, i)) = i
  BY <1>1, NthFacts
<1>7. ASSUME NEW n \in 1 .. C PROVE Nth(J, n) = Nth(I, n)
  <2>1. Nth(I, n) \in I /\ Rank(I, Nth(I, n)) = n
    BY <1>7, NthFacts
  <2>2. Nth(I, n) \in J
    BY <2>1
  <2>3. Nth(J, Rank(J, Nth(I, n))) = Nth(I, n)
    BY <1>6, <2>2
  <2> QED BY <1>4, <2>1, <2>3
<1>8. Nth(J, C + 1) = m + 1
  <2>1. m + 1 \in J
    OBVIOUS
  <2> QED BY <1>5, <1>6, <2>1
<1> QED BY <1>2, <1>3, <1>7, <1>8

LEMMA SublistFacts ==
  ASSUME NEW S, NEW s \in Seq(S), NEW I \in SUBSET (1 .. Len(s))
  PROVE  /\ Sublist(s, I) \in Seq(S)
         /\ Len(Sublist(s, I)) = Cardinality(I) /\ Cardinality(I) \in Nat
         /\ \A i \in I : \E n \in DOMAIN Sublist(s, I) : Sublist(s, I)[n] = s[i]
<1>1. Len(s) \in Nat
  BY LenProperties
<1>2. /\ Cardinality(I) \in Nat
      /\ \A i \in I : Rank(I, i) \in 1 .. Cardinality(I)
  BY <1>1, RankFacts
<1>3. \A n \in 1 .. Cardinality(I) : Nth(I, n) \in I
  BY <1>1, NthFacts
<1>4. \A n \in 1 .. Cardinality(I) : s[Nth(I, n)] \in S
  BY <1>3, ElementOfSeq
<1>5. Sublist(s, I) \in [1 .. Cardinality(I) -> S]
  BY <1>4 DEF Sublist
<1>6. Sublist(s, I) \in Seq(S) /\ Len(Sublist(s, I)) = Cardinality(I)
  BY <1>2, <1>5, SeqDef, LenProperties
<1>7. ASSUME NEW i \in I
      PROVE  \E n \in DOMAIN Sublist(s, I) : Sublist(s, I)[n] = s[i]
  <2>1. Rank(I, i) \in 1 .. Cardinality(I) /\ Nth(I, Rank(I, i)) = i
    BY <1>1, <1>2, NthFacts
  <2> QED BY <2>1 DEF Sublist
<1> QED BY <1>2, <1>6, <1>7

LEMMA SublistAppend ==
  ASSUME NEW S, NEW s \in Seq(S), NEW e \in S, NEW I \in SUBSET (1 .. Len(s))
  PROVE  /\ Sublist(Append(s, e), I) = Sublist(s, I)
         /\ Sublist(Append(s, e), I \cup {Len(s) + 1}) = Append(Sublist(s, I), e)
<1> DEFINE t == Append(s, e)
           J == I \cup {Len(s) + 1}
           C == Cardinality(I)
<1>1. /\ Len(s) \in Nat /\ \A i \in 1 .. Len(s) : t[i] = s[i]
      /\ t[Len(s) + 1] = e
  BY AppendProperties, LenProperties
<1>2. /\ C \in Nat /\ Cardinality(J) = C + 1
      /\ \A n \in 1 .. C : Nth(J, n) = Nth(I, n)
      /\ Nth(J, C + 1) = Len(s) + 1
  BY <1>1, NthNext
<1>3. \A n \in 1 .. C : Nth(I, n) \in I
  BY <1>1, NthFacts
<1>4. Sublist(s, I) \in Seq(S) /\ Len(Sublist(s, I)) = C /\ DOMAIN Sublist(s, I) = 1 .. C
  BY SublistFacts, LenProperties
<1> HIDE DEF t, J
<1>5. Sublist(t, I) = Sublist(s, I)
  <2>1. \A n \in 1 .. C : t[Nth(I, n)] = s[Nth(I, n)]
    BY <1>1, <1>3
  <2> QED BY <2>1 DEF Sublist
<1>6. Sublist(t, J) = [n \in 1 .. C + 1 |-> t[Nth(J, n)]]
  BY <1>2 DEF Sublist
<1>7. \A n \in 1 .. C : t[Nth(J, n)] = Sublist(s, I)[n]
  BY <1>1, <1>2, <1>3 DEF Sublist
<1>8. t[Nth(J, C + 1)] = e
  BY <1>1, <1>2
<1>9. DOMAIN Append(Sublist(s, I), e) = 1 .. C + 1
  BY <1>2, <1>4, AppendProperties, LenProperties
<1>10. /\ \A n \in 1 .. C : Append(Sublist(s, I), e)[n] = Sublist(s, I)[n]
       /\ Append(Sublist(s, I), e)[C + 1] = e
  BY <1>4, AppendProperties
<1>11. Append(Sublist(s, I), e) = [n \in 1 .. C + 1 |-> Append(Sublist(s, I), e)[n]]
  BY <1>4, <1>9, AppendProperties, LenProperties
<1>12. ASSUME NEW n \in 1 .. C + 1 PROVE t[Nth(J, n)] = Append(Sublist(s, I), e)[n]
  <2>1. n \in 1 .. C \/ n = C + 1
    BY <1>2
  <2> QED BY <1>7, <1>8, <1>10, <2>1
<1>13. Sublist(t, J) = Append(Sublist(s, I), e)
  BY <1>6, <1>11, <1>12
<1> QED BY <1>5, <1>13 DEF t, J

-----------------------------------------------------------------------------
(***************************************************************************)
(* FlattenSeq and FoldLeft are recursive functions of the library, which   *)
(* exist by induction on the length.                                       *)
(***************************************************************************)

Flattens(f, s, n) ==
   f = [i \in 1 .. n |-> IF i = 1 THEN s[i] ELSE f[i - 1] \o s[i]]

LEMMA FlattenIs ==
  ASSUME NEW s
  PROVE  FlattenSeq(s) = IF Len(s) = 0 THEN s
                         ELSE (CHOOSE f : Flattens(f, s, Len(s)))[Len(s)]
BY DEF FlattenSeq, Flattens

LEMMA FlattensExists ==
  ASSUME NEW s
  PROVE  \A n \in Nat : \E f : Flattens(f, s, n)
<1> DEFINE T == {n \in Nat : \E f : Flattens(f, s, n)}
<1>1. 0 \in T
  <2> DEFINE f == [i \in 1 .. 0 |-> 0]
  <2>1. f = [i \in 1 .. 0 |-> IF i = 1 THEN s[i] ELSE f[i - 1] \o s[i]]
    OBVIOUS
  <2> QED BY <2>1 DEF Flattens
<1>2. ASSUME NEW n \in Nat, n \in T PROVE n + 1 \in T
  <2>1. PICK f : Flattens(f, s, n)
    BY <1>2
  <2> DEFINE g == [i \in 1 .. n + 1 |->
                     IF i <= n THEN f[i]
                     ELSE IF i = 1 THEN s[i] ELSE f[i - 1] \o s[i]]
  <2>2. ASSUME NEW i \in 1 .. n + 1
        PROVE  g[i] = IF i = 1 THEN s[i] ELSE g[i - 1] \o s[i]
    <3>1. i # 1 => i - 1 \in 1 .. n /\ i - 1 \in 1 .. n + 1 /\ g[i - 1] = f[i - 1]
      OBVIOUS
    <3>2. CASE i <= n
      <4>1. i \in 1 .. n
        BY <3>2
      <4>2. f[i] = IF i = 1 THEN s[i] ELSE f[i - 1] \o s[i]
        BY <2>1, <4>1 DEF Flattens
      <4> QED BY <3>1, <3>2, <4>2
    <3>3. CASE ~(i <= n)
      BY <3>1, <3>3
    <3> QED BY <3>2, <3>3
  <2>3. g = [i \in 1 .. n + 1 |-> g[i]]
    OBVIOUS
  <2> HIDE DEF g
  <2>4. Flattens(g, s, n + 1)
    BY <2>2, <2>3 DEF Flattens
  <2> QED BY <2>4
<1> HIDE DEF T
<1>3. \A n \in Nat : n \in T
  BY <1>1, <1>2, Induction
<1> QED BY <1>3 DEF T

LEMMA FlattenEmpty == FlattenSeq(<<>>) = <<>>
<1>1. Len(<<>>) = 0
  BY EmptySeq
<1> QED BY <1>1, FlattenIs

LEMMA FlattenAppend ==
  ASSUME NEW S, NEW s \in Seq(Seq(S)), NEW e \in Seq(S)
  PROVE  FlattenSeq(Append(s, e)) = FlattenSeq(s) \o e
<1> DEFINE n == Len(s)
           t == Append(s, e)
<1>1. /\ n \in Nat /\ Len(t) = n + 1 /\ t[n + 1] = e
      /\ \A i \in 1 .. n : t[i] = s[i]
  BY AppendProperties, LenProperties
<1>2. n = 0 => s = <<>>
  BY EmptySeq
<1> HIDE DEF n, t
<1> DEFINE f == CHOOSE f : Flattens(f, s, n)
           g == CHOOSE g : Flattens(g, t, n + 1)
<1>3. n + 1 \in Nat
  BY <1>1
<1>4. Flattens(f, s, n) /\ Flattens(g, t, n + 1)
  BY <1>1, <1>3, FlattensExists
<1>5. /\ FlattenSeq(t) = g[n + 1]
      /\ n # 0 => FlattenSeq(s) = f[n]
      /\ n = 0 => FlattenSeq(s) = <<>>
  BY <1>1, <1>2, <1>3, FlattenIs, FlattenEmpty DEF n
<1> HIDE DEF f, g
<1>6. \A i \in 1 .. n : f[i] = IF i = 1 THEN s[i] ELSE f[i - 1] \o s[i]
  BY <1>4 DEF Flattens
<1>7. \A i \in 1 .. n + 1 : g[i] = IF i = 1 THEN t[i] ELSE g[i - 1] \o t[i]
  BY <1>4 DEF Flattens
<1> DEFINE T == {k \in Nat : k \in 1 .. n => f[k] = g[k]}
<1>8. 0 \in T
  OBVIOUS
<1>9. ASSUME NEW k \in Nat, k \in T PROVE k + 1 \in T
  <2> SUFFICES ASSUME k + 1 \in 1 .. n PROVE f[k + 1] = g[k + 1]
    OBVIOUS
  <2>1. k + 1 \in 1 .. n + 1 /\ (k + 1) - 1 = k
    BY <1>1
  <2>2. CASE k = 0
    BY <1>1, <1>6, <1>7, <2>1, <2>2
  <2>3. CASE k # 0
    <3>1. k \in 1 .. n /\ f[k] = g[k] /\ k + 1 # 1
      BY <1>1, <1>9, <2>3
    <3> QED BY <1>1, <1>6, <1>7, <2>1, <3>1
  <2> QED BY <2>2, <2>3
<1> HIDE DEF T
<1>10. \A k \in Nat : k \in T
  BY <1>8, <1>9, Induction
<1>11. n \in Nat /\ n + 1 \in 1 .. n + 1 /\ (n + 1) - 1 = n
  <2>1. n \in Nat
    BY <1>1
  <2> QED BY <2>1
<1>12. CASE n = 0
  <2>1. g[n + 1] = e
    BY <1>1, <1>7, <1>11, <1>12
  <2> QED BY <1>5, <1>12, <2>1, ConcatEmptySeq DEF t
<1>13. CASE n # 0
  <2>1. n \in 1 .. n
    BY <1>1, <1>13
  <2>2. f[n] = g[n]
    BY <1>1, <1>10, <2>1 DEF T
  <2>3. g[n + 1] = g[n] \o e
    <3>1. n + 1 # 1
      BY <1>11, <1>13
    <3>2. g[n + 1] = g[(n + 1) - 1] \o t[n + 1]
      BY <1>7, <1>11, <3>1
    <3> QED BY <1>1, <1>11, <3>2
  <2> QED BY <1>5, <1>13, <2>2, <2>3 DEF t
<1> QED BY <1>12, <1>13

LEMMA FlattenType ==
  ASSUME NEW S
  PROVE  \A s \in Seq(Seq(S)) : FlattenSeq(s) \in Seq(S)
<1> DEFINE T == {s \in Seq(Seq(S)) : FlattenSeq(s) \in Seq(S)}
<1>1. <<>> \in T
  BY EmptySeq, FlattenEmpty
<1>2. ASSUME NEW s \in Seq(Seq(S)), NEW e \in Seq(S), s \in T
      PROVE  Append(s, e) \in T
  <2>1. FlattenSeq(Append(s, e)) = FlattenSeq(s) \o e
    BY FlattenAppend
  <2>2. Append(s, e) \in Seq(Seq(S)) /\ FlattenSeq(s) \o e \in Seq(S)
    BY <1>2, AppendProperties, ConcatProperties
  <2> QED BY <2>1, <2>2
<1> HIDE DEF T
<1>3. \A s \in Seq(Seq(S)) : s \in T
  BY <1>1, <1>2, SeqInduction
<1> QED BY <1>3 DEF T

LEMMA MaxOf ==
  ASSUME NEW I \in SUBSET Nat, NEW n \in I, \A i \in I : i <= n
  PROVE  Max(I) = n
<1>1. \A x \in I : (\A y \in I : x >= y) <=> x = n
  OBVIOUS
<1> QED BY <1>1 DEF Max

(* The fold behind a merging, over the positions in D.                     *)
Merges(it, s, D) ==
   it = [I \in SUBSET D |-> IF I = {} THEN <<>> ELSE AddTurn(it[I \ {Max(I)}], s[Max(I)])]

LEMMA MergeFold ==
  ASSUME NEW s
  PROVE  Merge(s) = (CHOOSE it : Merges(it, s, DOMAIN s))[DOMAIN s]
BY DEF Merge, FoldLeft, MapThenFoldSet, Merges

LEMMA MergesExists ==
  ASSUME NEW s
  PROVE  \A n \in Nat : \E it : Merges(it, s, 1 .. n)
<1> DEFINE T == {n \in Nat : \E it : Merges(it, s, 1 .. n)}
<1>1. 0 \in T
  <2> DEFINE it == [I \in {{}} |-> <<>>]
  <2>1. SUBSET (1 .. 0) = {{}}
    OBVIOUS
  <2>2. it = [I \in {{}} |-> IF I = {} THEN <<>> ELSE AddTurn(it[I \ {Max(I)}], s[Max(I)])]
    OBVIOUS
  <2>3. Merges(it, s, 1 .. 0)
    BY <2>1, <2>2 DEF Merges
  <2> QED BY <2>3
<1>2. ASSUME NEW n \in Nat, n \in T PROVE n + 1 \in T
  <2>1. PICK it : Merges(it, s, 1 .. n)
    BY <1>2
  <2> DEFINE D == SUBSET (1 .. n + 1)
             new == [I \in D |-> IF n + 1 \in I
                        THEN AddTurn(it[I \ {n + 1}], s[n + 1]) ELSE it[I]]
  <2>2. ASSUME NEW I \in D, I # {}
        PROVE  new[I] = AddTurn(new[I \ {Max(I)}], s[Max(I)])
    <3>1. CASE n + 1 \in I
      <4>1. Max(I) = n + 1
        BY <1>2, <3>1, MaxOf
      <4>2. I \ {n + 1} \in D /\ n + 1 \notin I \ {n + 1}
        OBVIOUS
      <4> QED BY <3>1, <4>1, <4>2
    <3>2. CASE n + 1 \notin I
      <4>1. I \in SUBSET (1 .. n)
        BY <1>2, <3>2
      <4>2. it[I] = AddTurn(it[I \ {Max(I)}], s[Max(I)])
        BY <2>1, <2>2, <4>1 DEF Merges
      <4>3. I \ {Max(I)} \in D /\ n + 1 \notin I \ {Max(I)}
        BY <3>2
      <4> QED BY <3>2, <4>2, <4>3
    <3> QED BY <3>1, <3>2
  <2>3. new[{}] = <<>>
    <3>1. {} \in D /\ {} \in SUBSET (1 .. n)
      OBVIOUS
    <3>2. it[{}] = <<>>
      BY <2>1, <3>1 DEF Merges
    <3> QED BY <3>1, <3>2
  <2>4. new = [I \in D |-> new[I]]
    OBVIOUS
  <2> HIDE DEF new
  <2>5. Merges(new, s, 1 .. n + 1)
    BY <2>2, <2>3, <2>4 DEF Merges
  <2> QED BY <1>2, <2>5
<1> HIDE DEF T
<1>3. \A n \in Nat : n \in T
  BY <1>1, <1>2, Induction
<1> QED BY <1>3 DEF T

(* The turns are merged one by one.                                        *)
LEMMA PartialMerges ==
  ASSUME NEW S, NEW s \in Seq(S)
  PROVE  \E B : /\ B[0] = <<>>
                /\ \A k \in 1 .. Len(s) : B[k] = AddTurn(B[k - 1], s[k])
                /\ Merge(s) = B[Len(s)]
<1> DEFINE n == Len(s)
<1>1. n \in Nat /\ DOMAIN s = 1 .. n
  BY LenProperties
<1>2. \E it : Merges(it, s, 1 .. n)
  BY <1>1, MergesExists
<1> DEFINE it == CHOOSE it : Merges(it, s, 1 .. n)
<1>3. Merges(it, s, 1 .. n)
  BY <1>2
<1> HIDE DEF it
<1> DEFINE B == [k \in 0 .. n |-> it[1 .. k]]
<1>4. B[0] = <<>>
  <2>1. 1 .. 0 = {} /\ {} \in SUBSET (1 .. n) /\ 0 \in 0 .. n
    BY <1>1
  <2> QED BY <1>3, <2>1 DEF Merges
<1>5. ASSUME NEW k \in 1 .. n
      PROVE  B[k] = AddTurn(B[k - 1], s[k])
  <2>1. (1 .. k) \in SUBSET (1 .. n) /\ (1 .. k) # {} /\ k \in 0 .. n /\ k - 1 \in 0 .. n
    <3>1. k \in Nat /\ k \in 1 .. k /\ k \in 0 .. n /\ k - 1 \in 0 .. n
      BY <1>1
    <3>2. \A i \in 1 .. k : i \in 1 .. n
      BY <1>1
    <3> QED BY <3>1, <3>2
  <2>2. Max(1 .. k) = k
    <3>1. (1 .. k) \in SUBSET Nat /\ k \in 1 .. k /\ \A i \in 1 .. k : i <= k
      BY <1>1
    <3> QED BY <3>1, MaxOf
  <2>3. (1 .. k) \ {k} = 1 .. k - 1
    BY <1>1
  <2>4. it[1 .. k] = AddTurn(it[(1 .. k) \ {Max(1 .. k)}], s[Max(1 .. k)])
    BY <1>3, <2>1 DEF Merges
  <2> QED BY <2>1, <2>2, <2>3, <2>4
<1>6. Merge(s) = B[n]
  <2>1. n \in 0 .. n
    BY <1>1
  <2>2. B[n] = it[DOMAIN s]
    BY <1>1, <2>1
  <2> QED BY <1>1, <2>2, MergeFold DEF it
<1> QED BY <1>4, <1>5, <1>6

LEMMA MergeEmpty == Merge(<<>>) = <<>>
<1>1. <<>> \in Seq({}) /\ Len(<<>>) = 0
  OBVIOUS
<1> QED BY <1>1, PartialMerges

LEMMA MergeAppend ==
  ASSUME NEW S, NEW s \in Seq(S), NEW e \in S
  PROVE  Merge(Append(s, e)) = AddTurn(Merge(s), e)
<1> DEFINE t == Append(s, e)
           n == Len(s)
<1>1. /\ t \in Seq(S) /\ Len(t) = n + 1 /\ n \in Nat /\ t[n + 1] = e
      /\ \A k \in 1 .. n : t[k] = s[k]
  BY AppendProperties, LenProperties
<1> HIDE DEF t, n
<1>2. PICK B : /\ B[0] = <<>> /\ Merge(s) = B[n]
               /\ \A k \in 1 .. n : B[k] = AddTurn(B[k - 1], s[k])
  BY PartialMerges DEF n
<1>3. PICK C : /\ C[0] = <<>> /\ Merge(t) = C[n + 1]
               /\ \A k \in 1 .. n + 1 : C[k] = AddTurn(C[k - 1], t[k])
  <2>1. t \in Seq(S) /\ Len(t) = n + 1
    BY <1>1
  <2>2. \E C : /\ C[0] = <<>> /\ Merge(t) = C[Len(t)]
               /\ \A k \in 1 .. Len(t) : C[k] = AddTurn(C[k - 1], t[k])
    BY <2>1, PartialMerges
  <2> QED BY <2>1, <2>2
<1> DEFINE T == {k \in Nat : k <= n => B[k] = C[k]}
<1>4. 0 \in T
  BY <1>2, <1>3
<1>5. ASSUME NEW k \in Nat, k \in T PROVE k + 1 \in T
  <2>1. SUFFICES ASSUME k + 1 <= n PROVE B[k + 1] = C[k + 1]
    OBVIOUS
  <2>2. B[k] = C[k] /\ k + 1 \in 1 .. n /\ k + 1 \in 1 .. n + 1 /\ (k + 1) - 1 = k
    BY <1>1, <1>5, <2>1
  <2> QED BY <1>1, <1>2, <1>3, <2>2
<1> HIDE DEF T
<1>6. \A k \in Nat : k \in T
  BY <1>4, <1>5, Induction
<1>7. B[n] = C[n]
  BY <1>1, <1>6 DEF T
<1>8. C[n + 1] = AddTurn(C[n], e)
  <2>1. n + 1 \in 1 .. n + 1 /\ (n + 1) - 1 = n
    BY <1>1
  <2> QED BY <1>1, <1>3, <2>1
<1> QED BY <1>2, <1>3, <1>7, <1>8 DEF t

-----------------------------------------------------------------------------
(* The elements of a sequence that are in a set.                           *)

In(s, P) == Sublist(s, {i \in DOMAIN s : s[i] \in P})

LEMMA InFacts ==
  ASSUME NEW S, NEW P, NEW s \in Seq(S)
  PROVE  /\ In(s, P) \in Seq(S)
         /\ \A i \in DOMAIN s : s[i] \in P => \E n \in DOMAIN In(s, P) : In(s, P)[n] = s[i]
<1> DEFINE I == {i \in DOMAIN s : s[i] \in P}
<1>1. I \in SUBSET (1 .. Len(s))
  BY LenProperties
<1> QED BY <1>1, SublistFacts DEF In

LEMMA InEmpty ==
  ASSUME NEW P
  PROVE  In(<<>>, P) = <<>>
<1>1. <<>> \in Seq({}) /\ DOMAIN <<>> = {}
  OBVIOUS
<1>2. {i \in DOMAIN <<>> : <<>>[i] \in P} = {}
  BY <1>1
<1>3. Cardinality({}) = 0
  BY FS_EmptySet
<1>4. In(<<>>, P) \in Seq({}) /\ Len(In(<<>>, P)) = 0
  <2>1. {} \in SUBSET (1 .. Len(<<>>))
    OBVIOUS
  <2> QED BY <1>1, <1>2, <1>3, <2>1, SublistFacts DEF In
<1> QED BY <1>4, EmptySeq

LEMMA InAppend ==
  ASSUME NEW S, NEW P, NEW s \in Seq(S), NEW e \in S
  PROVE  In(Append(s, e), P) = IF e \in P THEN Append(In(s, P), e) ELSE In(s, P)
<1> DEFINE t == Append(s, e)
           I == {i \in DOMAIN s : s[i] \in P}
           J == {i \in DOMAIN t : t[i] \in P}
           n == Len(s)
<1>1. /\ n \in Nat /\ DOMAIN s = 1 .. n /\ DOMAIN t = 1 .. n + 1 /\ t[n + 1] = e
      /\ \A i \in 1 .. n : t[i] = s[i]
  BY AppendProperties, LenProperties
<1>2. I \in SUBSET (1 .. n)
  BY <1>1
<1>3. ASSUME e \in P PROVE In(Append(s, e), P) = Append(In(s, P), e)
  <2>1. J = I \cup {n + 1}
    <3>1. \A i \in 1 .. n + 1 : i \in 1 .. n \/ i = n + 1
      BY <1>1
    <3>2. \A i \in 1 .. n : i \in J <=> i \in I
      BY <1>1
    <3>3. n + 1 \in J
      BY <1>1, <1>3
    <3>4. J \subseteq 1 .. n + 1 /\ I \subseteq 1 .. n
      BY <1>1
    <3> HIDE DEF I, J
    <3> QED BY <3>1, <3>2, <3>3, <3>4
  <2> QED BY <1>2, <1>3, <2>1, SublistAppend DEF In
<1>4. ASSUME e \notin P PROVE In(Append(s, e), P) = In(s, P)
  <2>1. J = I
    <3>1. \A i \in 1 .. n + 1 : i \in 1 .. n \/ i = n + 1
      BY <1>1
    <3>2. \A i \in 1 .. n : i \in J <=> i \in I
      BY <1>1
    <3>3. n + 1 \notin J
      BY <1>1, <1>4
    <3>4. J \subseteq 1 .. n + 1 /\ I \subseteq 1 .. n
      BY <1>1
    <3> HIDE DEF I, J
    <3> QED BY <3>1, <3>2, <3>3, <3>4
  <2>2. \A K \in SUBSET (1 .. n) : Sublist(t, K) = Sublist(s, K)
    BY SublistAppend
  <2>3. In(t, P) = Sublist(t, J) /\ In(s, P) = Sublist(s, I)
    BY DEF In
  <2> QED BY <1>2, <2>1, <2>2, <2>3
<1> QED BY <1>3, <1>4

LEMMA InWhole ==
  ASSUME NEW P
  PROVE  \A s \in Seq(P) : In(s, P) = s
<1> DEFINE T == {s \in Seq(P) : In(s, P) = s}
<1>1. <<>> \in T
  BY InEmpty, EmptySeq
<1>2. ASSUME NEW s \in Seq(P), NEW e \in P, s \in T PROVE Append(s, e) \in T
  BY <1>2, InAppend, AppendProperties
<1> HIDE DEF T
<1>3. \A s \in Seq(P) : s \in T
  BY <1>1, <1>2, SeqInduction
<1> QED BY <1>3 DEF T

LEMMA ConcatAppend ==
  ASSUME NEW S, NEW s \in Seq(S), NEW t \in Seq(S), NEW e \in S
  PROVE  s \o Append(t, e) = Append(s \o t, e)
<1>1. <<e>> \in Seq(S)
  OBVIOUS
<1>2. Append(t, e) = t \o <<e>> /\ s \o t \in Seq(S)
  BY AppendIsConcat, ConcatProperties
<1>3. Append(s \o t, e) = (s \o t) \o <<e>>
  BY <1>2, AppendIsConcat
<1> QED BY <1>1, <1>2, <1>3, ConcatAssociative

LEMMA InConcat ==
  ASSUME NEW S, NEW P, NEW s \in Seq(S)
  PROVE  \A t \in Seq(S) : In(s \o t, P) = In(s, P) \o In(t, P)
<1> DEFINE T == {t \in Seq(S) : In(s \o t, P) = In(s, P) \o In(t, P)}
<1>1. <<>> \in T
  <2>1. s \o <<>> = s /\ In(s, P) \in Seq(S)
    BY ConcatEmptySeq, InFacts
  <2>2. In(s, P) \o <<>> = In(s, P)
    BY <2>1, ConcatEmptySeq
  <2> QED BY <2>1, <2>2, InEmpty, EmptySeq
<1>2. ASSUME NEW t \in Seq(S), NEW e \in S, t \in T PROVE Append(t, e) \in T
  <2>1. s \o Append(t, e) = Append(s \o t, e) /\ s \o t \in Seq(S)
    BY ConcatAppend, ConcatProperties
  <2>2. In(Append(s \o t, e), P) = IF e \in P THEN Append(In(s \o t, P), e) ELSE In(s \o t, P)
    <3> DEFINE u == s \o t
    <3>1. u \in Seq(S)
      BY <2>1
    <3> HIDE DEF u
    <3>2. In(Append(u, e), P) = IF e \in P THEN Append(In(u, P), e) ELSE In(u, P)
      BY <3>1, InAppend
    <3> QED BY <3>2 DEF u
  <2>3. In(Append(t, e), P) = IF e \in P THEN Append(In(t, P), e) ELSE In(t, P)
    BY InAppend
  <2>4. In(s, P) \in Seq(S) /\ In(t, P) \in Seq(S)
    BY InFacts
  <2>5. In(s, P) \o Append(In(t, P), e) = Append(In(s, P) \o In(t, P), e)
    BY <2>4, ConcatAppend
  <2>6. In(s \o Append(t, e), P) = In(s, P) \o In(Append(t, e), P)
    BY <1>2, <2>1, <2>2, <2>3, <2>5
  <2> QED BY <2>6, AppendProperties
<1> HIDE DEF T
<1>3. \A t \in Seq(S) : t \in T
  BY <1>1, <1>2, SeqInduction
<1> QED BY <1>3 DEF T

-----------------------------------------------------------------------------
(* Messages, parts and turns.                                              *)

Ids      == Calls \cup {NoCall} \cup {NameOf[c] : c \in Calls}
PartSet  == [kind : {"text", "blank", "call", "result"}, text : Nat, call : Ids]
TurnSet  == [role : {"user", "assistant", "model", "function"}, parts : Seq(PartSet)]

(* Only an assistant calls, and only a tool answers.                       *)
Message == {m \in [role : Roles, text : Nat, calls : Seq(Calls),
                   answers : Calls \cup {NoCall}, named : BOOLEAN] :
               /\ m.calls # <<>> => m.role = "assistant"
               /\ m.role = "tool" <=> m.answers # NoCall}

Speaking == {part \in PartSet : part # BlankText}

LEMMA SpokenIs ==
  ASSUME NEW parts \in Seq(PartSet)
  PROVE  Spoken(parts) = In(parts, Speaking)
<1>1. \A i \in DOMAIN parts : parts[i] \in PartSet
  BY LenProperties, ElementOfSeq
<1>2. {i \in DOMAIN parts : parts[i] # BlankText} = {i \in DOMAIN parts : parts[i] \in Speaking}
  BY <1>1 DEF Speaking
<1> QED BY <1>2 DEF Spoken, Kept, Passing, In

Aloud == {m \in Message : m.role # "system"}

LEMMA OthersIs ==
  ASSUME NEW ms \in Seq(Message)
  PROVE  Others(ms) = In(ms, Aloud)
<1>1. \A i \in DOMAIN ms : ms[i] \in Message
  BY LenProperties, ElementOfSeq
<1>2. {i \in DOMAIN ms : ms[i].role # "system"} = {i \in DOMAIN ms : ms[i] \in Aloud}
  BY <1>1 DEF Aloud
<1> QED BY <1>2 DEF Others, Kept, Passing, In

LEMMA PartFacts ==
  ASSUME NEW n \in Nat, NEW c \in Ids
  PROVE  /\ Text(n) \in PartSet /\ Call(c) \in PartSet /\ Result(c, n) \in PartSet
         /\ BlankText \in PartSet
         /\ Text(n) # BlankText /\ Call(c) # BlankText /\ Result(c, n) # BlankText
         /\ Text(n).kind = "text" /\ BlankText.kind = "blank"
         /\ Call(c).kind = "call" /\ Call(c).call = c
         /\ Result(c, n).kind = "result" /\ Result(c, n).call = c
<1>1. NoCall \in Ids
  BY DEF Ids
<1>2. /\ Text(n).kind = "text" /\ BlankText.kind = "blank"
      /\ Call(c).kind = "call" /\ Call(c).call = c
      /\ Result(c, n).kind = "result" /\ Result(c, n).call = c
  BY DEF Text, Call, Result, BlankText, Part
<1>3. /\ Text(n) \in PartSet /\ Call(c) \in PartSet /\ Result(c, n) \in PartSet
      /\ BlankText \in PartSet
  BY <1>1 DEF Text, Call, Result, BlankText, Part, PartSet
<1> QED BY <1>2, <1>3

LEMMA MessageFields ==
  ASSUME NEW m \in Message
  PROVE  /\ m.role \in Roles /\ m.text \in Nat /\ m.calls \in Seq(Calls)
         /\ m.answers \in Calls \cup {NoCall} /\ m.named \in BOOLEAN
         /\ m.calls # <<>> => m.role = "assistant"
         /\ m.role = "tool" <=> m.answers # NoCall
BY DEF Message

LEMMA TextFacts ==
  ASSUME NEW m \in Message
  PROVE  /\ TextOf(m) \in Seq(Speaking)
         /\ \A i \in DOMAIN TextOf(m) : TextOf(m)[i].kind = "text"
<1>1. m.text \in Nat
  BY MessageFields
<1>2. NoCall \in Ids
  BY DEF Ids
<1>3. Text(m.text) \in Speaking /\ Text(m.text).kind = "text"
  BY <1>1, <1>2, PartFacts DEF Speaking
<1>4. CASE m.text = 0
  BY <1>4, EmptySeq DEF TextOf
<1>5. CASE m.text # 0
  <2>1. TextOf(m) = <<Text(m.text)>>
    BY <1>5 DEF TextOf
  <2> HIDE DEF TextOf
  <2> QED BY <1>3, <2>1
<1> QED BY <1>4, <1>5

LEMMA CallFacts ==
  ASSUME NEW m \in Message
  PROVE  /\ IdsOf(m) \in Seq(Speaking) /\ NamesOf(m) \in Seq(Speaking)
         /\ DOMAIN IdsOf(m) = DOMAIN m.calls /\ DOMAIN NamesOf(m) = DOMAIN m.calls
         /\ \A i \in DOMAIN m.calls :
               /\ m.calls[i] \in Calls
               /\ IdsOf(m)[i] = Call(m.calls[i]) /\ IdsOf(m)[i].kind = "call"
               /\ NamesOf(m)[i] = Call(NameOf[m.calls[i]]) /\ NamesOf(m)[i].kind = "call"
<1>1. m.calls \in Seq(Calls) /\ Len(m.calls) \in Nat /\ DOMAIN m.calls = 1 .. Len(m.calls)
  BY MessageFields, LenProperties
<1>2. \A i \in DOMAIN m.calls : m.calls[i] \in Calls
  BY <1>1, ElementOfSeq
<1>3. \A c \in Calls : c \in Ids /\ NameOf[c] \in Ids
  BY DEF Ids
<1>4. \A c \in Calls : /\ Call(c) \in Speaking /\ Call(NameOf[c]) \in Speaking
                       /\ Call(c).kind = "call" /\ Call(NameOf[c]).kind = "call"
  <2> TAKE c \in Calls
  <2>1. c \in Ids /\ NameOf[c] \in Ids /\ 0 \in Nat
    BY <1>3
  <2> QED BY <2>1, PartFacts DEF Speaking
<1>5. IdsOf(m) \in [1 .. Len(m.calls) -> Speaking]
  BY <1>1, <1>2, <1>4 DEF IdsOf
<1>6. NamesOf(m) \in [1 .. Len(m.calls) -> Speaking]
  BY <1>1, <1>2, <1>4 DEF NamesOf
<1> QED BY <1>1, <1>2, <1>4, <1>5, <1>6, SeqDef DEF IdsOf, NamesOf

-----------------------------------------------------------------------------
(* The turns of Anthropic and Gemini, said at once for both.               *)

Merging == {"anthropic", "gemini"}

ToolRole(p)   == IF p = "anthropic" THEN "user" ELSE "function"
ModelRole(p)  == IF p = "anthropic" THEN "assistant" ELSE "model"
KnownAs(p, c) == IF p = "anthropic" THEN c ELSE NameOf[c]
Answered(p, m) == IF p = "anthropic" THEN m.answers ELSE ResultName(m)
CallsOf(p, m) == IF p = "anthropic" THEN IdsOf(m) ELSE NamesOf(m)

RoleOf(p, m) == IF m.role = "tool" THEN ToolRole(p)
                ELSE IF m.role = "assistant" THEN ModelRole(p) ELSE "user"
Body(p, m)   == IF m.role = "tool" THEN <<Result(Answered(p, m), m.text)>>
                ELSE TextOf(m) \o CallsOf(p, m)

TurnOf(p, m)  == IF p = "anthropic" THEN AnthropicTurn(m) ELSE GeminiTurn(m)
Raw(p, ms)    == [i \in DOMAIN Others(ms) |-> TurnOf(p, Others(ms)[i])]
Merged(p, ms) == Merge(Raw(p, ms))
Opening(p)    == IF p = "anthropic" THEN {"user"} ELSE {"user", "function"}

LEMMA TurnsAre ==
  ASSUME NEW p \in Merging, NEW ms
  PROVE  Turns(p, ms) = Relabelled(Merged(p, ms), Opening(p))
<1>1. CASE p = "anthropic"
  BY <1>1 DEF Turns, AnthropicTurns, Merged, Raw, TurnOf, Opening
<1>2. CASE p = "gemini"
  BY <1>2 DEF Turns, GeminiTurns, Merged, Raw, TurnOf, Opening
<1> QED BY <1>1, <1>2 DEF Merging

LEMMA BodyFacts ==
  ASSUME NEW p \in Merging, NEW m \in Message
  PROVE  /\ Body(p, m) \in Seq(Speaking)
         /\ CallsOf(p, m) \in Seq(Speaking) /\ DOMAIN CallsOf(p, m) = DOMAIN m.calls
         /\ \A i \in DOMAIN m.calls :
               /\ m.calls[i] \in Calls
               /\ CallsOf(p, m)[i] = Call(KnownAs(p, m.calls[i]))
               /\ CallsOf(p, m)[i].kind = "call"
<1>1. /\ CallsOf(p, m) \in Seq(Speaking) /\ DOMAIN CallsOf(p, m) = DOMAIN m.calls
      /\ \A i \in DOMAIN m.calls :
            /\ m.calls[i] \in Calls
            /\ CallsOf(p, m)[i] = Call(KnownAs(p, m.calls[i]))
            /\ CallsOf(p, m)[i].kind = "call"
  BY CallFacts DEF CallsOf, KnownAs
<1>2. TextOf(m) \o CallsOf(p, m) \in Seq(Speaking)
  BY <1>1, TextFacts, ConcatProperties
<1>3. ASSUME m.role = "tool" PROVE <<Result(Answered(p, m), m.text)>> \in Seq(Speaking)
  <2>1. m.answers \in Calls /\ m.text \in Nat
    BY <1>3, MessageFields
  <2>2. Answered(p, m) \in Ids
    BY <2>1 DEF Answered, ResultName, Ids
  <2>3. Result(Answered(p, m), m.text) \in Speaking
    BY <2>1, <2>2, PartFacts DEF Speaking
  <2> QED BY <2>3
<1> QED BY <1>1, <1>2, <1>3 DEF Body

LEMMA TurnIs ==
  ASSUME NEW p \in Merging, NEW m \in Aloud
  PROVE  TurnOf(p, m) = Turn(RoleOf(p, m), OrBlank(Body(p, m)))
<1>1. m \in Message /\ m.role \in {"user", "assistant", "tool", "developer"}
  BY MessageFields DEF Aloud, Roles
<1>2. TextOf(m) \in Seq(Speaking) /\ IdsOf(m) \in Seq(Speaking) /\ NamesOf(m) \in Seq(Speaking)
  BY <1>1, TextFacts, CallFacts
<1>3. m.calls = <<>> => IdsOf(m) = <<>> /\ NamesOf(m) = <<>>
  <2> SUFFICES ASSUME m.calls = <<>> PROVE IdsOf(m) = <<>> /\ NamesOf(m) = <<>>
    OBVIOUS
  <2>1. DOMAIN m.calls = {}
    OBVIOUS
  <2>2. /\ IdsOf(m) = [i \in {} |-> Call(m.calls[i])]
        /\ NamesOf(m) = [i \in {} |-> Call(NameOf[m.calls[i]])]
    BY <2>1 DEF IdsOf, NamesOf
  <2>3. DOMAIN IdsOf(m) = {} /\ DOMAIN NamesOf(m) = {}
    BY <2>2
  <2>4. Len(IdsOf(m)) = 0 /\ Len(NamesOf(m)) = 0
    BY <1>2, <2>3, LenProperties
  <2> QED BY <1>2, <2>4, EmptySeq
<1>4. m.calls = <<>> => /\ TextOf(m) \o IdsOf(m) = TextOf(m)
                        /\ TextOf(m) \o NamesOf(m) = TextOf(m)
  BY <1>2, <1>3, ConcatEmptySeq
<1>5. m.calls # <<>> => TextOf(m) \o IdsOf(m) # <<>>
  <2> SUFFICES ASSUME m.calls # <<>>, TextOf(m) \o IdsOf(m) = <<>> PROVE FALSE
    OBVIOUS
  <2>1. IdsOf(m) = <<>>
    BY <1>2, ConcatEqualIffEmpty
  <2>2. m.calls \in Seq(Calls) /\ DOMAIN m.calls = DOMAIN IdsOf(m)
    BY <1>1, MessageFields, CallFacts
  <2>3. DOMAIN IdsOf(m) = {}
    BY <2>1
  <2>4. Len(m.calls) \in Nat /\ DOMAIN m.calls = 1 .. Len(m.calls)
    BY <2>2, LenProperties
  <2>5. 1 \notin 1 .. Len(m.calls)
    BY <2>2, <2>3, <2>4
  <2>6. Len(m.calls) = 0
    BY <2>4, <2>5
  <2> QED BY <2>2, <2>6, EmptySeq
<1>6. CASE m.role = "tool"
  <2>1. <<Result(Answered(p, m), m.text)>> # <<>>
    OBVIOUS
  <2>2. OrBlank(Body(p, m)) = <<Result(Answered(p, m), m.text)>>
    BY <1>6, <2>1 DEF OrBlank, Body
  <2>3. TurnOf(p, m) = Turn(ToolRole(p), <<Result(Answered(p, m), m.text)>>)
    BY <1>6 DEF TurnOf, AnthropicTurn, GeminiTurn, ToolRole, Answered
  <2> QED BY <1>6, <2>2, <2>3 DEF RoleOf
<1>7. CASE m.role = "assistant"
  <2>1. Body(p, m) = TextOf(m) \o CallsOf(p, m) /\ RoleOf(p, m) = ModelRole(p)
    BY <1>7 DEF Body, RoleOf
  <2>2. CASE p = "anthropic"
    <3>1. /\ m.calls # <<>> => TurnOf(p, m) = Turn("assistant", TextOf(m) \o IdsOf(m))
          /\ m.calls = <<>> => TurnOf(p, m) = Turn("assistant", OrBlank(TextOf(m)))
      BY <1>7, <2>2 DEF TurnOf, AnthropicTurn
    <3>2. Body(p, m) = TextOf(m) \o IdsOf(m) /\ RoleOf(p, m) = "assistant"
      BY <2>1, <2>2 DEF CallsOf, ModelRole
    <3>3. m.calls # <<>> => OrBlank(TextOf(m) \o IdsOf(m)) = TextOf(m) \o IdsOf(m)
      BY <1>5 DEF OrBlank
    <3> QED BY <1>4, <3>1, <3>2, <3>3
  <2>3. CASE p # "anthropic"
    BY <1>7, <2>1, <2>3 DEF TurnOf, GeminiTurn, CallsOf, ModelRole
  <2> QED BY <2>2, <2>3
<1>8. CASE m.role \in {"user", "developer"}
  <2>1. m.calls = <<>>
    BY <1>1, <1>8, MessageFields
  <2>2. Body(p, m) = TextOf(m) /\ RoleOf(p, m) = "user"
    BY <1>4, <1>8, <2>1 DEF Body, RoleOf, CallsOf
  <2>3. TurnOf(p, m) = Turn("user", OrBlank(TextOf(m)))
    BY <1>8 DEF TurnOf, AnthropicTurn, GeminiTurn
  <2> QED BY <2>2, <2>3
<1> QED BY <1>1, <1>6, <1>7, <1>8

LEMMA SaidIs ==
  ASSUME NEW p \in Merging, NEW m \in Message
  PROVE  Said(p, m) = IF m.role = "system" THEN <<>> ELSE Body(p, m)
<1>1. CASE p = "anthropic"
  BY <1>1 DEF Said, Body, Answered, CallsOf
<1>2. CASE p = "gemini"
  BY <1>2 DEF Said, Body, Answered, CallsOf
<1> QED BY <1>1, <1>2 DEF Merging

LEMMA TurnFacts ==
  ASSUME NEW p \in Merging, NEW m \in Aloud
  PROVE  /\ TurnOf(p, m) \in TurnSet
         /\ TurnOf(p, m).role = RoleOf(p, m)
         /\ TurnOf(p, m).parts = OrBlank(Body(p, m)) /\ TurnOf(p, m).parts # <<>>
         /\ Body(p, m) \in Seq(Speaking) /\ Body(p, m) \in Seq(PartSet)
<1>1. Body(p, m) \in Seq(Speaking)
  BY BodyFacts DEF Aloud
<1>2. Speaking \subseteq PartSet /\ BlankText \in PartSet
  <2>1. NoCall \in Ids /\ 0 \in Nat
    BY DEF Ids
  <2> QED BY <2>1, PartFacts DEF Speaking
<1>3. Body(p, m) \in Seq(PartSet)
  BY <1>1, <1>2, SeqMonotonic
<1>4. OrBlank(Body(p, m)) \in Seq(PartSet) /\ OrBlank(Body(p, m)) # <<>>
  <2>1. <<BlankText>> \in Seq(PartSet) /\ <<BlankText>> # <<>>
    BY <1>2
  <2> QED BY <1>3, <2>1 DEF OrBlank
<1>5. RoleOf(p, m) \in {"user", "assistant", "model", "function"}
  BY DEF RoleOf, ToolRole, ModelRole
<1> QED BY <1>1, <1>3, <1>4, <1>5, TurnIs DEF Turn, TurnSet

-----------------------------------------------------------------------------
(* One message more: a turn more, or a longer last turn.                   *)

LEMMA OthersEmpty == Others(<<>>) = <<>>
<1>1. <<>> \in Seq(Message)
  BY EmptySeq
<1> QED BY <1>1, OthersIs, InEmpty

LEMMA OthersAppend ==
  ASSUME NEW ms \in Seq(Message), NEW m \in Message
  PROVE  /\ m.role = "system" => Others(Append(ms, m)) = Others(ms)
         /\ m.role # "system" => Others(Append(ms, m)) = Append(Others(ms), m)
<1>1. Append(ms, m) \in Seq(Message)
  BY AppendProperties
<1>2. m \in Aloud <=> m.role # "system"
  BY DEF Aloud
<1>3. Others(Append(ms, m)) = In(Append(ms, m), Aloud) /\ Others(ms) = In(ms, Aloud)
  BY <1>1, OthersIs
<1>4. In(Append(ms, m), Aloud) = IF m \in Aloud THEN Append(In(ms, Aloud), m) ELSE In(ms, Aloud)
  BY InAppend
<1> HIDE DEF Aloud
<1> QED BY <1>2, <1>3, <1>4

LEMMA OthersType == \A ms \in Seq(Message) : Others(ms) \in Seq(Aloud)
<1> DEFINE T == {ms \in Seq(Message) : Others(ms) \in Seq(Aloud)}
<1>1. <<>> \in T
  BY EmptySeq, OthersEmpty
<1>2. ASSUME NEW ms \in Seq(Message), NEW m \in Message, ms \in T
      PROVE  Append(ms, m) \in T
  <2>1. Append(ms, m) \in Seq(Message) /\ Others(ms) \in Seq(Aloud)
    BY <1>2, AppendProperties
  <2>2. CASE m.role = "system"
    BY <2>1, <2>2, OthersAppend
  <2>3. CASE m.role # "system"
    <3>1. m \in Aloud
      BY <2>3 DEF Aloud
    <3> QED BY <2>1, <2>3, <3>1, OthersAppend, AppendProperties
  <2> QED BY <2>2, <2>3
<1> HIDE DEF T
<1>3. \A ms \in Seq(Message) : ms \in T
  BY <1>1, <1>2, SeqInduction
<1> QED BY <1>3 DEF T

LEMMA RawType ==
  ASSUME NEW p \in Merging, NEW ms \in Seq(Message)
  PROVE  Raw(p, ms) \in Seq(TurnSet)
<1> DEFINE o == Others(ms)
<1>1. o \in Seq(Aloud) /\ Len(o) \in Nat /\ DOMAIN o = 1 .. Len(o)
  BY OthersType, LenProperties
<1>2. \A i \in DOMAIN o : TurnOf(p, o[i]) \in TurnSet
  BY <1>1, ElementOfSeq, TurnFacts
<1> HIDE DEF o
<1>3. [i \in DOMAIN o |-> TurnOf(p, o[i])] \in [1 .. Len(o) -> TurnSet]
  BY <1>1, <1>2
<1> QED BY <1>1, <1>3, SeqDef DEF Raw, o

LEMMA RawAppend ==
  ASSUME NEW p \in Merging, NEW ms \in Seq(Message), NEW m \in Message
  PROVE  /\ m.role = "system" => Raw(p, Append(ms, m)) = Raw(p, ms)
         /\ m.role # "system" => Raw(p, Append(ms, m)) = Append(Raw(p, ms), TurnOf(p, m))
<1>1. CASE m.role = "system"
  BY <1>1, OthersAppend DEF Raw
<1>2. CASE m.role # "system"
  <2> DEFINE o == Others(ms)
             f == Raw(p, ms)
             g == Raw(p, Append(ms, m))
  <2>1. m \in Aloud /\ o \in Seq(Aloud) /\ Append(ms, m) \in Seq(Message)
    BY <1>2, OthersType, AppendProperties DEF Aloud
  <2>2. /\ DOMAIN o = 1 .. Len(o) /\ DOMAIN Append(o, m) = 1 .. Len(o) + 1 /\ Len(o) \in Nat
        /\ \A i \in 1 .. Len(o) : Append(o, m)[i] = o[i]
        /\ Append(o, m)[Len(o) + 1] = m
    BY <2>1, AppendProperties, LenProperties
  <2>3. /\ f = [i \in DOMAIN o |-> TurnOf(p, o[i])]
        /\ g = [i \in DOMAIN Append(o, m) |-> TurnOf(p, Append(o, m)[i])]
    BY <1>2, OthersAppend DEF Raw
  <2>4. f \in Seq(TurnSet) /\ g \in Seq(TurnSet)
    BY <2>1, RawType
  <2> HIDE DEF o, f, g
  <2>5. DOMAIN f = 1 .. Len(o) /\ DOMAIN g = 1 .. Len(o) + 1
    BY <2>2, <2>3
  <2>6. Len(f) = Len(o) /\ Len(g) = Len(o) + 1
    BY <2>2, <2>4, <2>5, LenProperties
  <2>7. (\A i \in 1 .. Len(o) : g[i] = f[i]) /\ g[Len(o) + 1] = TurnOf(p, m)
    BY <2>2, <2>3
  <2>8. g = Append(f, TurnOf(p, m))
    BY <2>4, <2>6, <2>7, OneMore
  <2> QED BY <1>2, <2>8 DEF f, g
<1> QED BY <1>1, <1>2

LEMMA MergedEmpty ==
  ASSUME NEW p
  PROVE  Merged(p, <<>>) = <<>>
<1>1. Raw(p, <<>>) = <<>>
  BY OthersEmpty DEF Raw
<1> QED BY <1>1, MergeEmpty DEF Merged

LEMMA MergedAppend ==
  ASSUME NEW p \in Merging, NEW ms \in Seq(Message), NEW m \in Message
  PROVE  /\ m.role = "system" => Merged(p, Append(ms, m)) = Merged(p, ms)
         /\ m.role # "system" =>
               Merged(p, Append(ms, m)) = AddTurn(Merged(p, ms), TurnOf(p, m))
<1>1. CASE m.role = "system"
  BY <1>1, RawAppend DEF Merged
<1>2. CASE m.role # "system"
  <2>1. TurnOf(p, m) \in TurnSet
    BY <1>2, TurnFacts DEF Aloud
  <2> QED BY <1>2, <2>1, RawAppend, RawType, MergeAppend DEF Merged
<1> QED BY <1>1, <1>2

(* A turn of the same role grows the last one, one of another is added.    *)
LEMMA SameRole ==
  ASSUME NEW M \in Seq(TurnSet), NEW t \in TurnSet, M # <<>>, Last(M).role = t.role
  PROVE  LET A == AddTurn(M, t) IN
         /\ A \in Seq(TurnSet) /\ A # <<>> /\ Len(A) = Len(M) /\ Len(M) \in Nat /\ Len(M) > 0
         /\ \A i \in 1 .. Len(M) : i < Len(M) => A[i] = M[i]
         /\ A[Len(M)].role = t.role /\ M[Len(M)].role = t.role
         /\ A[Len(M)].parts = M[Len(M)].parts \o t.parts
         /\ Last(A) = A[Len(M)] /\ Last(M) = M[Len(M)]
<1> DEFINE n == Len(M)
           A == [M EXCEPT ![n].parts = M[n].parts \o t.parts]
<1>1. n \in Nat /\ DOMAIN M = 1 .. n /\ n > 0 /\ M[n] \in TurnSet /\ Last(M) = M[n]
  <2>1. n \in Nat /\ DOMAIN M = 1 .. n
    BY LenProperties
  <2>2. n # 0
    BY EmptySeq
  <2>3. n \in 1 .. n
    BY <2>1, <2>2
  <2> QED BY <2>1, <2>2, <2>3, ElementOfSeq DEF Last
<1>2. AddTurn(M, t) = A
  BY <1>1 DEF AddTurn
<1>3. M \in [1 .. n -> TurnSet]
  BY <1>1, ElementOfSeq
<1>4. t.parts \in Seq(PartSet) /\ M[n].parts \in Seq(PartSet)
  BY <1>1 DEF TurnSet
<1>5. M[n].parts \o t.parts \in Seq(PartSet)
  BY <1>4, ConcatProperties
<1> HIDE DEF n
<1>6. /\ DOMAIN A = 1 .. n
      /\ \A i \in 1 .. n : i < n => A[i] = M[i]
      /\ A[n] = [M[n] EXCEPT !.parts = M[n].parts \o t.parts]
  <2> DEFINE x == M[n].parts \o t.parts
             y == [M[n] EXCEPT !.parts = x]
  <2>1. A = [M EXCEPT ![n] = y]
    OBVIOUS
  <2>2. n \in DOMAIN M
    BY <1>1
  <2> HIDE DEF y
  <2>3. DOMAIN A = DOMAIN M /\ A[n] = y /\ \A i \in DOMAIN M : i # n => A[i] = M[i]
    BY <2>1, <2>2
  <2> HIDE DEF A
  <2>4. \A i \in 1 .. n : i < n => i # n
    BY <1>1
  <2> QED BY <1>1, <2>3, <2>4 DEF y
<1>7. A[n].role = M[n].role /\ A[n].parts = M[n].parts \o t.parts /\ A[n] \in TurnSet
  BY <1>1, <1>5, <1>6 DEF TurnSet
<1>8. A \in [1 .. n -> TurnSet]
  BY <1>1, <1>3, <1>6, <1>7
<1> HIDE DEF A
<1>9. A \in Seq(TurnSet) /\ Len(A) = n
  BY <1>1, <1>8, SeqDef, LenProperties
<1>10. A # <<>> /\ Last(A) = A[n]
  BY <1>1, <1>9, EmptySeq DEF Last
<1> QED BY <1>1, <1>2, <1>6, <1>7, <1>9, <1>10 DEF n

LEMMA OtherRole ==
  ASSUME NEW M \in Seq(TurnSet), NEW t \in TurnSet, M = <<>> \/ Last(M).role # t.role
  PROVE  LET A == AddTurn(M, t) IN
         /\ A = Append(M, t)
         /\ A \in Seq(TurnSet) /\ A # <<>> /\ Len(A) = Len(M) + 1 /\ Len(M) \in Nat
         /\ \A i \in 1 .. Len(M) : A[i] = M[i]
         /\ A[Len(M) + 1] = t /\ Last(A) = t
<1>1. AddTurn(M, t) = Append(M, t)
  BY DEF AddTurn
<1>2. /\ Append(M, t) \in Seq(TurnSet) /\ Append(M, t) # <<>> /\ Len(Append(M, t)) = Len(M) + 1
      /\ \A i \in 1 .. Len(M) : Append(M, t)[i] = M[i]
      /\ Append(M, t)[Len(M) + 1] = t
  BY AppendProperties, LenProperties
<1>3. Len(M) \in Nat
  BY LenProperties
<1>4. Last(Append(M, t)) = t
  BY <1>2 DEF Last
<1> QED BY <1>1, <1>2, <1>3, <1>4

LEMMA MergedType ==
  ASSUME NEW p \in Merging
  PROVE  \A ms \in Seq(Message) : Merged(p, ms) \in Seq(TurnSet)
<1> DEFINE T == {ms \in Seq(Message) : Merged(p, ms) \in Seq(TurnSet)}
<1>1. <<>> \in T
  BY EmptySeq, MergedEmpty
<1>2. ASSUME NEW ms \in Seq(Message), NEW m \in Message, ms \in T
      PROVE  Append(ms, m) \in T
  <2>1. Append(ms, m) \in Seq(Message) /\ Merged(p, ms) \in Seq(TurnSet)
    BY <1>2, AppendProperties
  <2>2. CASE m.role = "system"
    BY <2>1, <2>2, MergedAppend
  <2>3. CASE m.role # "system"
    <3>1. TurnOf(p, m) \in TurnSet
      BY <2>3, TurnFacts DEF Aloud
    <3>2. AddTurn(Merged(p, ms), TurnOf(p, m)) \in Seq(TurnSet)
      BY <2>1, <3>1, SameRole, OtherRole
    <3> QED BY <2>1, <2>3, <3>2, MergedAppend
  <2> QED BY <2>2, <2>3
<1> HIDE DEF T
<1>3. \A ms \in Seq(Message) : ms \in T
  BY <1>1, <1>2, SeqInduction
<1> QED BY <1>3 DEF T

(* Relabelling touches the role of the first turn.                         *)
LEMMA RelabelledFacts ==
  ASSUME NEW p \in Merging, NEW M \in Seq(TurnSet)
  PROVE  LET R == Relabelled(M, Opening(p)) IN
         /\ R \in Seq(TurnSet) /\ Len(R) = Len(M) /\ DOMAIN R = DOMAIN M
         /\ DOMAIN M = 1 .. Len(M) /\ Len(M) \in Nat
         /\ \A i \in DOMAIN M : R[i].parts = M[i].parts
         /\ \A i \in DOMAIN M : i # 1 => R[i] = M[i]
         /\ M # <<>> => R # <<>> /\ 1 \in DOMAIN M /\ R[1].role \in Opening(p)
<1> DEFINE R == Relabelled(M, Opening(p))
<1>1. Len(M) \in Nat /\ DOMAIN M = 1 .. Len(M) /\ M \in [1 .. Len(M) -> TurnSet]
  BY LenProperties, ElementOfSeq
<1>2. M # <<>> => Len(M) # 0
  BY EmptySeq
<1>3. CASE M # <<>> /\ M[1].role \notin Opening(p)
  <2>1. R = [M EXCEPT ![1].role = "user"]
    BY <1>3 DEF Relabelled
  <2>2. 1 \in DOMAIN M /\ M[1] \in TurnSet
    BY <1>1, <1>2, <1>3
  <2> HIDE DEF R
  <2>3. /\ DOMAIN R = 1 .. Len(M) /\ R = [i \in DOMAIN R |-> R[i]]
        /\ \A i \in 1 .. Len(M) : i # 1 => R[i] = M[i]
        /\ R[1] = [M[1] EXCEPT !.role = "user"]
    BY <1>1, <2>1, <2>2
  <2>4. R[1].role = "user" /\ R[1].parts = M[1].parts /\ R[1] \in TurnSet
    BY <2>2, <2>3 DEF TurnSet
  <2>5. R \in [1 .. Len(M) -> TurnSet]
    BY <1>1, <2>3, <2>4
  <2>6. R \in Seq(TurnSet) /\ Len(R) = Len(M)
    BY <1>1, <2>5, SeqDef, LenProperties
  <2>7. R # <<>>
    BY <1>2, <1>3, <2>6, EmptySeq
  <2>8. "user" \in Opening(p)
    BY DEF Opening
  <2> QED BY <1>1, <2>2, <2>3, <2>4, <2>6, <2>7, <2>8 DEF R
<1>4. CASE M = <<>> \/ M[1].role \in Opening(p)
  <2>1. R = M
    BY <1>4 DEF Relabelled
  <2>2. M # <<>> => 1 \in DOMAIN M
    BY <1>1, <1>2
  <2> QED BY <1>1, <1>4, <2>1, <2>2
<1> QED BY <1>3, <1>4

-----------------------------------------------------------------------------
(* What the turns say, part after part.                                    *)

PartsSeq(M) == [i \in DOMAIN M |-> M[i].parts]

LEMMA PartsSeqFacts ==
  ASSUME NEW M \in Seq(TurnSet)
  PROVE  /\ PartsSeq(M) \in Seq(Seq(PartSet)) /\ Parts(M) = FlattenSeq(PartsSeq(M))
         /\ Parts(M) \in Seq(PartSet)
<1>1. Len(M) \in Nat /\ DOMAIN M = 1 .. Len(M)
  BY LenProperties
<1>2. \A i \in DOMAIN M : M[i].parts \in Seq(PartSet)
  <2>1. \A i \in DOMAIN M : M[i] \in TurnSet
    BY <1>1, ElementOfSeq
  <2> QED BY <2>1 DEF TurnSet
<1>3. PartsSeq(M) \in [1 .. Len(M) -> Seq(PartSet)]
  BY <1>1, <1>2 DEF PartsSeq
<1>4. PartsSeq(M) \in Seq(Seq(PartSet))
  BY <1>1, <1>3, SeqDef
<1>5. Parts(M) = FlattenSeq(PartsSeq(M))
  BY DEF Parts, PartsSeq
<1> QED BY <1>4, <1>5, FlattenType

LEMMA PartsAppend ==
  ASSUME NEW M \in Seq(TurnSet), NEW t \in TurnSet
  PROVE  Parts(Append(M, t)) = Parts(M) \o t.parts
<1> DEFINE f == PartsSeq(M)
           g == PartsSeq(Append(M, t))
           n == Len(M)
<1>1. /\ Append(M, t) \in Seq(TurnSet) /\ n \in Nat /\ DOMAIN M = 1 .. n
      /\ DOMAIN Append(M, t) = 1 .. n + 1
      /\ \A i \in 1 .. n : Append(M, t)[i] = M[i]
      /\ Append(M, t)[n + 1] = t
  BY AppendProperties, LenProperties
<1>2. DOMAIN f = 1 .. n /\ DOMAIN g = 1 .. n + 1
  BY <1>1 DEF PartsSeq
<1>3. (\A i \in 1 .. n : g[i] = f[i]) /\ g[n + 1] = t.parts
  BY <1>1 DEF PartsSeq
<1>4. /\ f \in Seq(Seq(PartSet)) /\ Parts(M) = FlattenSeq(f)
      /\ g \in Seq(Seq(PartSet)) /\ Parts(Append(M, t)) = FlattenSeq(g)
  BY <1>1, PartsSeqFacts
<1> HIDE DEF f, g, n
<1>5. Len(f) = n /\ Len(g) = n + 1
  BY <1>1, <1>2, <1>4, LenProperties
<1>6. g = Append(f, t.parts)
  BY <1>3, <1>4, <1>5, OneMore
<1>7. t.parts \in Seq(PartSet)
  BY DEF TurnSet
<1> QED BY <1>4, <1>6, <1>7, FlattenAppend

LEMMA PartsAddTurn ==
  ASSUME NEW M \in Seq(TurnSet), NEW t \in TurnSet
  PROVE  Parts(AddTurn(M, t)) = Parts(M) \o t.parts
<1>1. CASE M = <<>> \/ Last(M).role # t.role
  <2>1. AddTurn(M, t) = Append(M, t)
    BY <1>1, OtherRole
  <2> QED BY <2>1, PartsAppend
<1>2. CASE M # <<>> /\ Last(M).role = t.role
  <2> DEFINE A == AddTurn(M, t)
             k == Len(M)
  <2>1. PICK F \in Seq(TurnSet), l \in TurnSet :
           /\ M = Append(F, l) /\ k = Len(F) + 1 /\ Len(F) \in Nat
           /\ \A i \in 1 .. Len(F) : M[i] = F[i]
    BY <1>2, LastOf
  <2>2. M[k] = l
    BY <2>1, AppendProperties
  <2>3. /\ A \in Seq(TurnSet) /\ A # <<>> /\ Len(A) = k
        /\ \A i \in 1 .. k : i < k => A[i] = M[i]
        /\ A[k].parts = M[k].parts \o t.parts
    BY <1>2, SameRole
  <2> HIDE DEF A, k
  <2>4. PICK G \in Seq(TurnSet), e \in TurnSet :
           /\ A = Append(G, e) /\ k = Len(G) + 1 /\ Len(G) \in Nat /\ Last(A) = e
           /\ \A i \in 1 .. Len(G) : A[i] = G[i]
    BY <2>3, LastOf
  <2>5. Len(F) = Len(G) /\ \A i \in 1 .. Len(F) : F[i] = G[i]
    BY <2>1, <2>3, <2>4
  <2>6. F = G
    BY <2>5, SeqEqual
  <2>7. e.parts = l.parts \o t.parts
    BY <2>2, <2>3, <2>4 DEF Last
  <2>8. Parts(A) = Parts(F) \o (l.parts \o t.parts)
    BY <2>4, <2>6, <2>7, PartsAppend
  <2>9. Parts(M) = Parts(F) \o l.parts
    BY <2>1, PartsAppend
  <2>10. Parts(F) \in Seq(PartSet) /\ l.parts \in Seq(PartSet) /\ t.parts \in Seq(PartSet)
    BY PartsSeqFacts DEF TurnSet
  <2>11. (Parts(F) \o l.parts) \o t.parts = Parts(F) \o (l.parts \o t.parts)
    <3>1. \A a, b, c \in Seq(PartSet) : (a \o b) \o c = a \o (b \o c)
      BY ConcatAssociative
    <3> QED BY <2>10, <3>1
  <2> QED BY <2>8, <2>9, <2>11 DEF A
<1> QED BY <1>1, <1>2

LEMMA PartsRelabelled ==
  ASSUME NEW p \in Merging, NEW M \in Seq(TurnSet)
  PROVE  Parts(Relabelled(M, Opening(p))) = Parts(M)
<1> DEFINE R == Relabelled(M, Opening(p))
<1>1. DOMAIN R = DOMAIN M /\ \A i \in DOMAIN M : R[i].parts = M[i].parts
  BY RelabelledFacts
<1> HIDE DEF R
<1>2. [i \in DOMAIN R |-> R[i].parts] = [i \in DOMAIN M |-> M[i].parts]
  BY <1>1
<1> QED BY <1>2 DEF Parts, R

LEMMA SpokenOrBlank ==
  ASSUME NEW b \in Seq(Speaking)
  PROVE  OrBlank(b) \in Seq(PartSet) /\ Spoken(OrBlank(b)) = b
<1>1. Speaking \subseteq PartSet /\ BlankText \in PartSet /\ BlankText \notin Speaking
  <2>1. NoCall \in Ids /\ 0 \in Nat
    BY DEF Ids
  <2> QED BY <2>1, PartFacts DEF Speaking
<1>2. CASE b = <<>>
  <2>1. OrBlank(b) = Append(<<>>, BlankText)
    BY <1>2 DEF OrBlank
  <2>2. <<>> \in Seq(PartSet) /\ OrBlank(b) \in Seq(PartSet)
    BY <1>1, <2>1, EmptySeq, AppendProperties
  <2>3. Spoken(OrBlank(b)) = In(OrBlank(b), Speaking)
    BY <2>2, SpokenIs
  <2>4. In(Append(<<>>, BlankText), Speaking) = In(<<>>, Speaking)
    <3>1. \A s \in Seq(PartSet), e \in PartSet : In(Append(s, e), Speaking) =
             IF e \in Speaking THEN Append(In(s, Speaking), e) ELSE In(s, Speaking)
      BY InAppend
    <3> QED BY <1>1, <2>2, <3>1
  <2> QED BY <1>2, <2>1, <2>2, <2>3, <2>4, InEmpty
<1>3. CASE b # <<>>
  <2>1. OrBlank(b) = b
    BY <1>3 DEF OrBlank
  <2>2. b \in Seq(PartSet)
    BY <1>1, SeqMonotonic
  <2> QED BY <2>1, <2>2, SpokenIs, InWhole
<1> QED BY <1>2, <1>3

LEMMA SpokenConcat ==
  ASSUME NEW a \in Seq(PartSet), NEW b \in Seq(PartSet)
  PROVE  Spoken(a \o b) = Spoken(a) \o Spoken(b)
<1>1. a \o b \in Seq(PartSet)
  BY ConcatProperties
<1>2. Spoken(a \o b) = In(a \o b, Speaking)
  BY <1>1, SpokenIs
<1>3. Spoken(a) = In(a, Speaking) /\ Spoken(b) = In(b, Speaking)
  BY SpokenIs
<1>4. In(a \o b, Speaking) = In(a, Speaking) \o In(b, Speaking)
  BY InConcat
<1> QED BY <1>2, <1>3, <1>4

(* What the messages say.                                                  *)
Sayings(p, ms) == [i \in DOMAIN ms |-> Said(p, ms[i])]

LEMMA SaidType ==
  ASSUME NEW p \in Providers, NEW m \in Message
  PROVE  Said(p, m) \in Seq(Speaking)
<1>1. CASE p = "ollama"
  <2>1. Said(p, m) = TextOf(m)
    BY <1>1 DEF Said
  <2> QED BY <2>1, TextFacts
<1>2. CASE p \in Merging
  BY <1>2, SaidIs, BodyFacts, EmptySeq
<1> QED BY <1>1, <1>2 DEF Providers, Merging

LEMMA SayingsType ==
  ASSUME NEW p \in Providers, NEW ms \in Seq(Message)
  PROVE  Sayings(p, ms) \in Seq(Seq(Speaking))
<1>1. Len(ms) \in Nat /\ DOMAIN ms = 1 .. Len(ms)
  BY LenProperties
<1>2. \A i \in DOMAIN ms : Said(p, ms[i]) \in Seq(Speaking)
  BY <1>1, ElementOfSeq, SaidType
<1>3. Sayings(p, ms) \in [1 .. Len(ms) -> Seq(Speaking)]
  BY <1>1, <1>2 DEF Sayings
<1> QED BY <1>1, <1>3, SeqDef

LEMMA SayingsAppend ==
  ASSUME NEW p \in Providers, NEW ms \in Seq(Message), NEW m \in Message
  PROVE  Sayings(p, Append(ms, m)) = Append(Sayings(p, ms), Said(p, m))
<1> DEFINE f == Sayings(p, ms)
           g == Sayings(p, Append(ms, m))
           n == Len(ms)
<1>1. /\ Append(ms, m) \in Seq(Message) /\ n \in Nat /\ DOMAIN ms = 1 .. n
      /\ DOMAIN Append(ms, m) = 1 .. n + 1
      /\ \A i \in 1 .. n : Append(ms, m)[i] = ms[i]
      /\ Append(ms, m)[n + 1] = m
  BY AppendProperties, LenProperties
<1>2. DOMAIN f = 1 .. n /\ DOMAIN g = 1 .. n + 1
  BY <1>1 DEF Sayings
<1>3. (\A i \in 1 .. n : g[i] = f[i]) /\ g[n + 1] = Said(p, m)
  BY <1>1 DEF Sayings
<1>4. f \in Seq(Seq(Speaking)) /\ g \in Seq(Seq(Speaking))
  BY <1>1, SayingsType
<1> HIDE DEF f, g, n
<1>5. Len(f) = n /\ Len(g) = n + 1
  BY <1>1, <1>2, <1>4, LenProperties
<1>6. g = Append(f, Said(p, m))
  BY <1>3, <1>4, <1>5, OneMore
<1> QED BY <1>6 DEF f, g

LEMMA MergedSays ==
  ASSUME NEW p \in Merging
  PROVE  \A ms \in Seq(Message) : Spoken(Parts(Merged(p, ms))) = FlattenSeq(Sayings(p, ms))
<1> DEFINE Says(ms) == Spoken(Parts(Merged(p, ms))) = FlattenSeq(Sayings(p, ms))
           T == {ms \in Seq(Message) : Says(ms)}
<1>1. p \in Providers
  BY DEF Merging, Providers
<1>2. <<>> \in T
  <2>1. Merged(p, <<>>) = <<>> /\ <<>> \in Seq(TurnSet) /\ <<>> \in Seq(PartSet)
    BY MergedEmpty, EmptySeq
  <2>2. Parts(<<>>) = <<>> /\ Sayings(p, <<>>) = <<>>
    BY FlattenEmpty DEF Parts, Sayings
  <2>3. Spoken(<<>>) = <<>>
    BY <2>1, SpokenIs, InEmpty
  <2> QED BY <2>1, <2>2, <2>3, FlattenEmpty, EmptySeq
<1>3. ASSUME NEW ms \in Seq(Message), NEW m \in Message, ms \in T
      PROVE  Append(ms, m) \in T
  <2> DEFINE M == Merged(p, ms)
  <2>1. Append(ms, m) \in Seq(Message) /\ Says(ms) /\ M \in Seq(TurnSet)
    BY <1>3, AppendProperties, MergedType
  <2>2. FlattenSeq(Sayings(p, Append(ms, m))) = FlattenSeq(Sayings(p, ms)) \o Said(p, m)
    BY <1>1, SayingsAppend, SayingsType, SaidType, FlattenAppend
  <2>3. FlattenSeq(Sayings(p, ms)) \in Seq(Speaking)
    BY <1>1, SayingsType, FlattenType
  <2>4. CASE m.role = "system"
    <3>1. Said(p, m) = <<>>
      BY <2>4, SaidIs
    <3>2. Merged(p, Append(ms, m)) = M
      BY <2>4, MergedAppend
    <3> HIDE DEF M
    <3>3. FlattenSeq(Sayings(p, ms)) \o <<>> = FlattenSeq(Sayings(p, ms))
      BY <2>3, ConcatEmptySeq
    <3> QED BY <2>1, <2>2, <3>1, <3>2, <3>3 DEF M
  <2>5. CASE m.role # "system"
    <3> DEFINE t == TurnOf(p, m)
    <3>1. m \in Aloud
      BY <2>5 DEF Aloud
    <3>2. t \in TurnSet /\ t.parts = OrBlank(Body(p, m)) /\ Body(p, m) \in Seq(Speaking)
      BY <3>1, TurnFacts
    <3>3. Merged(p, Append(ms, m)) = AddTurn(M, t)
      BY <2>5, MergedAppend
    <3>4. Said(p, m) = Body(p, m)
      BY <2>5, SaidIs
    <3> HIDE DEF M, t
    <3>5. Parts(AddTurn(M, t)) = Parts(M) \o t.parts
      BY <2>1, <3>2, PartsAddTurn
    <3>6. Parts(M) \in Seq(PartSet) /\ t.parts \in Seq(PartSet) /\ Spoken(t.parts) = Body(p, m)
      BY <2>1, <3>2, PartsSeqFacts, SpokenOrBlank
    <3>7. Spoken(Parts(M) \o t.parts) = Spoken(Parts(M)) \o Body(p, m)
      BY <3>6, SpokenConcat
    <3> QED BY <2>1, <2>2, <3>3, <3>4, <3>5, <3>7 DEF M
  <2> QED BY <2>4, <2>5
<1> HIDE DEF T
<1>4. \A ms \in Seq(Message) : ms \in T
  BY <1>2, <1>3, SeqInduction
<1> QED BY <1>4 DEF T

LEMMA OllamaSays ==
  ASSUME NEW ms \in Seq(Message)
  PROVE  Spoken(Parts(OllamaTurns(ms))) = FlattenSeq(Sayings("ollama", ms))
<1> DEFINE o == OllamaTurns(ms)
<1>1. DOMAIN o = DOMAIN ms /\ \A i \in DOMAIN ms : o[i].parts = Said("ollama", ms[i])
  BY DEF OllamaTurns, Turn, Said
<1> HIDE DEF o
<1>2. [i \in DOMAIN o |-> o[i].parts] = Sayings("ollama", ms)
  BY <1>1 DEF Sayings
<1>3. Parts(o) = FlattenSeq(Sayings("ollama", ms))
  BY <1>2 DEF Parts
<1>4. FlattenSeq(Sayings("ollama", ms)) \in Seq(Speaking)
  BY SayingsType, FlattenType DEF Providers
<1>5. FlattenSeq(Sayings("ollama", ms)) \in Seq(PartSet) /\ Speaking \subseteq PartSet
  BY <1>4, SeqMonotonic DEF Speaking
<1> QED BY <1>3, <1>4, <1>5, SpokenIs, InWhole DEF o

LEMMA TurnsSay ==
  ASSUME NEW p \in Providers, NEW ms \in Seq(Message)
  PROVE  Spoken(Parts(Turns(p, ms))) = FlattenSeq(Sayings(p, ms))
<1>1. CASE p = "ollama"
  <2>1. Turns(p, ms) = OllamaTurns(ms)
    BY <1>1 DEF Turns
  <2> QED BY <1>1, <2>1, OllamaSays
<1>2. CASE p \in Merging
  <2>1. Parts(Turns(p, ms)) = Parts(Merged(p, ms))
    BY <1>2, TurnsAre, MergedType, PartsRelabelled
  <2> QED BY <1>2, <2>1, MergedSays
<1> QED BY <1>1, <1>2 DEF Providers, Merging

LEMMA SystemSays ==
  ASSUME NEW ms \in Seq(Message), NEW i \in DOMAIN ms, ms[i].role = "system"
  PROVE  \E j \in DOMAIN System(ms) : System(ms)[j] = ms[i].text
<1> DEFINE P == {m \in Message : m.role = "system"}
           s == Kept(ms, LAMBDA m : m.role = "system")
<1>1. \A k \in DOMAIN ms : ms[k] \in Message
  BY LenProperties, ElementOfSeq
<1>2. {k \in DOMAIN ms : ms[k].role = "system"} = {k \in DOMAIN ms : ms[k] \in P}
  BY <1>1
<1>3. s = In(ms, P)
  BY <1>2 DEF Kept, Passing, In
<1>4. ms[i] \in P
  BY <1>1
<1>5. System(ms) = [k \in DOMAIN s |-> s[k].text]
  BY DEF System
<1> HIDE DEF P, s
<1>6. \E n \in DOMAIN s : s[n] = ms[i]
  BY <1>3, <1>4, InFacts
<1> QED BY <1>5, <1>6

-----------------------------------------------------------------------------
(* Roles alternate as turns are merged.                                    *)

Alternating(M) == /\ \A i \in 1 .. Len(M) - 1 : M[i].role # M[i + 1].role
                  /\ \A i \in DOMAIN M : M[i].parts # <<>>

LEMMA AlternatingAddTurn ==
  ASSUME NEW M \in Seq(TurnSet), NEW t \in TurnSet, Alternating(M), t.parts # <<>>
  PROVE  Alternating(AddTurn(M, t))
<1> DEFINE A == AddTurn(M, t)
           n == Len(M)
<1>1. n \in Nat /\ DOMAIN M = 1 .. n
  BY LenProperties
<1> HIDE DEF n
<1>2. CASE M # <<>> /\ Last(M).role = t.role
  <2>1. /\ A \in Seq(TurnSet) /\ Len(A) = n /\ n > 0
        /\ \A i \in 1 .. n : i < n => A[i] = M[i]
        /\ A[n].role = t.role /\ M[n].role = t.role
        /\ A[n].parts = M[n].parts \o t.parts
    BY <1>2, SameRole DEF n
  <2>2. M[n].parts \in Seq(PartSet) /\ t.parts \in Seq(PartSet)
    <3>1. M[n] \in TurnSet
      BY <1>1, <2>1, ElementOfSeq DEF n
    <3> QED BY <3>1 DEF TurnSet
  <2>3. A[n].parts # <<>>
    BY <2>1, <2>2, ConcatEqualIffEmpty
  <2> HIDE DEF A
  <2>4. DOMAIN A = 1 .. n
    BY <2>1, LenProperties
  <2>5. ASSUME NEW i \in 1 .. n - 1 PROVE A[i].role # A[i + 1].role
    <3>1. M[i].role # M[i + 1].role /\ i \in 1 .. n /\ i < n /\ i + 1 \in 1 .. n
      BY <1>1 DEF Alternating, n
    <3>2. i + 1 < n \/ i + 1 = n
      BY <1>1
    <3> QED BY <2>1, <3>1, <3>2
  <2>6. ASSUME NEW i \in 1 .. n PROVE A[i].parts # <<>>
    <3>1. i < n \/ i = n
      BY <1>1
    <3> QED BY <1>1, <2>1, <2>3, <3>1 DEF Alternating
  <2> QED BY <2>1, <2>4, <2>5, <2>6 DEF Alternating, A
<1>3. CASE M = <<>> \/ Last(M).role # t.role
  <2>1. /\ A \in Seq(TurnSet) /\ Len(A) = n + 1
        /\ \A i \in 1 .. n : A[i] = M[i]
        /\ A[n + 1] = t
    BY <1>3, OtherRole DEF n
  <2>2. n > 0 => M[n].role # t.role
    <3>1. n > 0 => M # <<>>
      BY EmptySeq DEF n
    <3> QED BY <1>3, <3>1 DEF Last, n
  <2> HIDE DEF A
  <2>3. DOMAIN A = 1 .. n + 1
    BY <2>1, LenProperties
  <2>4. ASSUME NEW i \in 1 .. n PROVE A[i].role # A[i + 1].role
    <3>1. i \in 1 .. n - 1 \/ i = n
      BY <1>1
    <3>2. i \in 1 .. n - 1 => i + 1 \in 1 .. n
      BY <1>1
    <3>3. n > 0
      BY <1>1
    <3> QED BY <2>1, <2>2, <3>1, <3>2, <3>3 DEF Alternating, n
  <2>5. ASSUME NEW i \in 1 .. n + 1 PROVE A[i].parts # <<>>
    <3>1. i \in 1 .. n \/ i = n + 1
      BY <1>1
    <3> QED BY <1>1, <2>1, <3>1 DEF Alternating
  <2>6. Len(A) - 1 = n
    BY <1>1, <2>1
  <2> QED BY <2>3, <2>4, <2>5, <2>6 DEF Alternating, A
<1> QED BY <1>2, <1>3

LEMMA MergedAlternates ==
  ASSUME NEW p \in Merging
  PROVE  \A ms \in Seq(Message) : Alternating(Merged(p, ms))
<1> DEFINE T == {ms \in Seq(Message) : Alternating(Merged(p, ms))}
<1>1. <<>> \in T
  <2>1. Merged(p, <<>>) = <<>> /\ <<>> \in Seq(Message) /\ Len(<<>>) = 0
    BY MergedEmpty, EmptySeq
  <2> QED BY <2>1 DEF Alternating
<1>2. ASSUME NEW ms \in Seq(Message), NEW m \in Message, ms \in T
      PROVE  Append(ms, m) \in T
  <2> DEFINE M == Merged(p, ms)
  <2>1. Append(ms, m) \in Seq(Message) /\ M \in Seq(TurnSet) /\ Alternating(M)
    BY <1>2, AppendProperties, MergedType
  <2>2. CASE m.role = "system"
    BY <2>1, <2>2, MergedAppend
  <2>3. CASE m.role # "system"
    <3>1. m \in Aloud
      BY <2>3 DEF Aloud
    <3>2. TurnOf(p, m) \in TurnSet /\ TurnOf(p, m).parts # <<>>
      BY <3>1, TurnFacts
    <3>3. Alternating(AddTurn(M, TurnOf(p, m)))
      BY <2>1, <3>2, AlternatingAddTurn
    <3>4. Merged(p, Append(ms, m)) = AddTurn(M, TurnOf(p, m))
      BY <2>3, MergedAppend
    <3> QED BY <2>1, <3>3, <3>4
  <2> QED BY <2>2, <2>3
<1> HIDE DEF T
<1>3. \A ms \in Seq(Message) : ms \in T
  BY <1>1, <1>2, SeqInduction
<1> QED BY <1>3 DEF T

(* Of the turns that are sent, the first one may have been relabelled.     *)
LEMMA SentAlternate ==
  ASSUME NEW p \in Merging, NEW ms \in Seq(Message)
  PROVE  LET turns == Turns(p, ms) IN
         /\ \A i \in 2 .. Len(turns) - 1 : turns[i].role # turns[i + 1].role
         /\ \A i \in DOMAIN turns : turns[i].parts # <<>>
         /\ turns # <<>> => turns[1].role \in {"user", "function"}
<1> DEFINE M == Merged(p, ms)
           R == Relabelled(M, Opening(p))
           n == Len(M)
<1>1. M \in Seq(TurnSet) /\ Alternating(M)
  BY MergedType, MergedAlternates
<1>2. Turns(p, ms) = R
  BY TurnsAre
<1> HIDE DEF M
<1>3. /\ R \in Seq(TurnSet) /\ Len(R) = n /\ DOMAIN R = DOMAIN M
      /\ DOMAIN M = 1 .. n /\ n \in Nat
      /\ \A i \in DOMAIN M : R[i].parts = M[i].parts
      /\ \A i \in DOMAIN M : i # 1 => R[i] = M[i]
      /\ M # <<>> => R[1].role \in Opening(p)
      /\ M = <<>> => R = <<>>
  <2>1. M = <<>> => R = <<>>
    BY DEF Relabelled
  <2> QED BY <1>1, <2>1, RelabelledFacts
<1> HIDE DEF R, n
<1>4. ASSUME NEW i \in 2 .. n - 1 PROVE R[i].role # R[i + 1].role
  <2>1. i \in 1 .. n /\ i + 1 \in 1 .. n /\ i # 1 /\ i + 1 # 1 /\ i \in 1 .. n - 1
    BY <1>3
  <2> QED BY <1>1, <1>3, <2>1 DEF Alternating, n
<1>5. \A i \in DOMAIN R : R[i].parts # <<>>
  BY <1>1, <1>3 DEF Alternating
<1>6. R # <<>> => R[1].role \in {"user", "function"}
  BY <1>3 DEF Opening
<1> QED BY <1>2, <1>3, <1>4, <1>5, <1>6

-----------------------------------------------------------------------------
(* The window.                                                             *)

LEMMA MinOf ==
  ASSUME NEW I \in SUBSET Nat, NEW n \in I, \A i \in I : n <= i
  PROVE  Min(I) = n
<1>1. \A i \in I : (\A j \in I : i <= j) => i = n
  OBVIOUS
<1> QED BY <1>1 DEF Min

LEMMA ReverseFacts ==
  ASSUME NEW S, NEW s \in Seq(S)
  PROVE  /\ Reverse(s) \in Seq(S) /\ Len(Reverse(s)) = Len(s) /\ Len(s) \in Nat
         /\ \A i \in 1 .. Len(s) : Reverse(s)[i] = s[Len(s) - i + 1]
<1> DEFINE n == Len(s)
           r == Reverse(s)
<1>1. n \in Nat /\ \A i \in 1 .. n : s[i] \in S
  BY LenProperties, ElementOfSeq
<1>2. r = [i \in 1 .. n |-> s[n - i + 1]]
  BY DEF Reverse
<1> HIDE DEF n, r
<1>3. \A i \in 1 .. n : n - i + 1 \in 1 .. n
  BY <1>1
<1>4. r \in [1 .. n -> S]
  BY <1>1, <1>2, <1>3
<1>5. r \in Seq(S) /\ Len(r) = n
  BY <1>1, <1>4, SeqDef, LenProperties
<1> QED BY <1>1, <1>2, <1>5 DEF n, r

(* What a list ends with.                                                  *)
LEMMA Suffix ==
  ASSUME NEW S, NEW s \in Seq(S), NEW t \in Seq(S), Len(s) <= Len(t),
         \A i \in 1 .. Len(s) : s[i] = t[Len(t) - Len(s) + i]
  PROVE  IsSuffix(s, t)
<1> DEFINE k == Len(s)
           n == Len(t)
           a == Reverse(s)
           b == Reverse(t)
<1>1. /\ a \in Seq(S) /\ Len(a) = k /\ k \in Nat /\ \A i \in 1 .. k : a[i] = s[k - i + 1]
      /\ b \in Seq(S) /\ Len(b) = n /\ n \in Nat /\ \A i \in 1 .. n : b[i] = t[n - i + 1]
  BY ReverseFacts
<1>2. k <= n /\ \A i \in 1 .. k : s[i] = t[n - k + i]
  OBVIOUS
<1> HIDE DEF k, n, a, b
<1>3. ASSUME NEW i \in 1 .. k PROVE a[i] = b[i] /\ a[i] \in S
  <2>1. k - i + 1 \in 1 .. k /\ i \in 1 .. n /\ n - k + (k - i + 1) = n - i + 1
    BY <1>1, <1>2
  <2>2. a[i] = t[n - i + 1] /\ b[i] = t[n - i + 1]
    BY <1>1, <1>2, <2>1
  <2> QED BY <1>1, <2>2, ElementOfSeq
<1>4. /\ SubSeq(a, 1, k) \in Seq(S) /\ Len(SubSeq(a, 1, k)) = k
      /\ \A i \in 1 .. k : SubSeq(a, 1, k)[i] = a[i]
  <2>1. \A i \in 1 .. k : a[i] \in S
    BY <1>3
  <2>2. 1 \in Int /\ k \in Int /\ k - 1 + 1 = k /\ (1 <= k \/ k = 0)
    BY <1>1
  <2>3. \A i \in 1 .. k : 1 + i - 1 = i
    OBVIOUS
  <2> QED BY <2>1, <2>2, <2>3, SubSeqProperties
<1>5. /\ SubSeq(b, 1, k) \in Seq(S) /\ Len(SubSeq(b, 1, k)) = k
      /\ \A i \in 1 .. k : SubSeq(b, 1, k)[i] = b[i]
  <2>1. \A i \in 1 .. k : b[i] \in S
    BY <1>3
  <2>2. 1 \in Int /\ k \in Int /\ k - 1 + 1 = k /\ (1 <= k \/ k = 0)
    BY <1>1
  <2>3. \A i \in 1 .. k : 1 + i - 1 = i
    OBVIOUS
  <2> QED BY <2>1, <2>2, <2>3, SubSeqProperties
<1>6. SubSeq(a, 1, k) = SubSeq(b, 1, k)
  BY <1>3, <1>4, <1>5, SeqEqual
<1>7. IsPrefix(a, b)
  BY <1>1, <1>2, <1>6 DEF IsPrefix
<1> QED BY <1>7 DEF IsSuffix, a, b

(* The window is one piece of the messages, up to their end, behind the    *)
(* system message.                                                         *)
Leading(ms) == IF ms # <<>> /\ ms[1].role = "system" THEN 1 ELSE 0

LEMMA WindowIs ==
  ASSUME NEW S, NEW ms \in Seq(S), NEW n \in Nat
  PROVE  LET W == Window(ms, n)
             L == Len(ms)
             k == IF n = 0 \/ L <= n THEN L ELSE n
         IN  /\ W \in Seq(S) /\ Len(W) = k /\ L \in Nat
             /\ \A j \in Leading(ms) + 1 .. k : W[j] = ms[L - k + j]
             /\ Leading(ms) = 1 => L >= 1 /\ k >= 1 /\ W[1] = ms[1]
<1> DEFINE L == Len(ms)
           W == Window(ms, n)
           Is(k) == /\ W \in Seq(S) /\ Len(W) = k /\ L \in Nat
                    /\ \A j \in Leading(ms) + 1 .. k : W[j] = ms[L - k + j]
                    /\ Leading(ms) = 1 => L >= 1 /\ k >= 1 /\ W[1] = ms[1]
<1>1. L \in Nat /\ (\A i \in 1 .. L : ms[i] \in S) /\ (ms # <<>> <=> L # 0)
  BY LenProperties, ElementOfSeq, EmptySeq
<1>2. Leading(ms) = 1 => L >= 1
  BY <1>1 DEF Leading
<1>3. Leading(ms) \in {0, 1}
  BY DEF Leading
<1>4. ASSUME n = 0 \/ L <= n PROVE Is(L)
  <2>1. W = ms
    BY <1>4 DEF Window
  <2>2. \A j \in Leading(ms) + 1 .. L : L - L + j = j
    BY <1>1, <1>3
  <2> QED BY <1>1, <1>2, <1>4, <2>1, <2>2
<1>5. ASSUME n > 0, L > n, ms[1].role = "system" PROVE Is(n)
  <2> DEFINE r == Tail(ms)
             q == SubSeq(r, L - n + 1, L - 1)
  <2>1. ms # <<>> /\ Leading(ms) = 1
    BY <1>1, <1>5 DEF Leading
  <2>2. r \in Seq(S) /\ Len(r) = L - 1 /\ \A i \in 1 .. L - 1 : r[i] = ms[i + 1]
    BY <2>1, HeadTailProperties
  <2>3. W = <<ms[1]>> \o q
    <3>1. Len(r) - (n - 1) + 1 = L - n + 1
      BY <1>1, <2>2
    <3>2. W = <<ms[1]>> \o SubSeq(r, Len(r) - (n - 1) + 1, Len(r))
      <4>1. ~(n <= 0) /\ ~(L <= n)
        BY <1>1, <1>5
      <4> QED BY <1>5, <4>1 DEF Window
    <3> QED BY <2>2, <3>1, <3>2
  <2> HIDE DEF W, L, r
  <2>4. \A i \in L - n + 1 .. L - 1 : r[i] \in S
    <3>1. \A i \in L - n + 1 .. L - 1 : i \in 1 .. L - 1 /\ i + 1 \in 1 .. L
      BY <1>1, <1>5
    <3> QED BY <1>1, <2>2, <3>1
  <2>5. /\ q \in Seq(S)
        /\ Len(q) = IF L - n + 1 <= L - 1 THEN (L - 1) - (L - n + 1) + 1 ELSE 0
        /\ \A i \in 1 .. (L - 1) - (L - n + 1) + 1 : q[i] = r[(L - n + 1) + i - 1]
    <3>1. L - n + 1 \in Int /\ L - 1 \in Int
      BY <1>1
    <3> QED BY <2>4, <3>1, SubSeqProperties
  <2> HIDE DEF q
  <2>6. Len(q) = n - 1 /\ \A i \in 1 .. n - 1 : q[i] = ms[L - n + i + 1]
    <3>1. Len(q) = n - 1 /\ (L - 1) - (L - n + 1) + 1 = n - 1
      BY <1>1, <1>5, <2>5
    <3>2. ASSUME NEW i \in 1 .. n - 1 PROVE q[i] = ms[L - n + i + 1]
      <4>1. (L - n + 1) + i - 1 = L - n + i /\ L - n + i \in 1 .. L - 1
        BY <1>1, <1>5
      <4> QED BY <2>2, <2>5, <3>1, <4>1
    <3> QED BY <3>1, <3>2
  <2>7. <<ms[1]>> \in Seq(S) /\ Len(<<ms[1]>>) = 1 /\ <<ms[1]>>[1] = ms[1]
    BY <1>1, <1>2, <2>1
  <2>8. /\ W \in Seq(S) /\ Len(W) = n
        /\ \A j \in 1 .. n : W[j] = IF j <= 1 THEN ms[1] ELSE q[j - 1]
    <3> DEFINE h == <<ms[1]>>
    <3> HIDE DEF h
    <3>1. /\ h \o q \in Seq(S) /\ Len(h \o q) = 1 + (n - 1)
          /\ \A j \in 1 .. 1 + (n - 1) : (h \o q)[j] = IF j <= 1 THEN h[j] ELSE q[j - 1]
      BY <2>5, <2>6, <2>7, ConcatProperties DEF h
    <3>2. \A j \in 1 .. n : j <= 1 => j = 1
      OBVIOUS
    <3> QED BY <1>5, <2>3, <2>7, <3>1, <3>2 DEF h
  <2>9. ASSUME NEW j \in 2 .. n PROVE W[j] = ms[L - n + j]
    <3>1. j \in 1 .. n /\ ~(j <= 1) /\ j - 1 \in 1 .. n - 1 /\ L - n + (j - 1) + 1 = L - n + j
      BY <1>1
    <3> QED BY <2>6, <2>8, <3>1
  <2>10. W[1] = ms[1] /\ n >= 1
    BY <1>5, <2>8
  <2> QED BY <1>1, <1>2, <1>5, <2>1, <2>8, <2>9, <2>10 DEF W, L
<1>6. ASSUME n > 0, L > n, ms[1].role # "system" PROVE Is(n)
  <2>1. Leading(ms) = 0
    BY <1>6 DEF Leading
  <2>2. W = SubSeq(ms, L - n + 1, L)
    <3>1. ~(n <= 0) /\ ~(L <= n)
      BY <1>1, <1>6
    <3> QED BY <1>6, <3>1 DEF Window
  <2> HIDE DEF W, L
  <2>3. L - n + 1 \in Int /\ L \in Int /\ L - n + 1 <= L /\ L - (L - n + 1) + 1 = n
    BY <1>1, <1>6
  <2>4. \A i \in L - n + 1 .. L : ms[i] \in S
    <3>1. \A i \in L - n + 1 .. L : i \in 1 .. L
      BY <1>1, <1>6
    <3> QED BY <1>1, <3>1
  <2>5. /\ W \in Seq(S) /\ Len(W) = n
        /\ \A j \in 1 .. n : W[j] = ms[(L - n + 1) + j - 1]
    BY <2>2, <2>3, <2>4, SubSeqProperties
  <2>6. \A j \in 1 .. n : (L - n + 1) + j - 1 = L - n + j
    BY <1>1
  <2> QED BY <1>1, <1>6, <2>1, <2>5, <2>6 DEF W, L
<1>7. (n = 0 \/ L <= n) \/ (n > 0 /\ L > n)
  BY <1>1
<1>8. CASE n = 0 \/ L <= n
  BY <1>4, <1>8
<1>9. CASE n > 0 /\ L > n
  <2>1. Is(n) /\ ~(n = 0 \/ L <= n)
    BY <1>1, <1>5, <1>6, <1>9
  <2> HIDE DEF W
  <2> QED BY <2>1 DEF W
<1> QED BY <1>7, <1>8, <1>9

-----------------------------------------------------------------------------
(* Results follow their calls.                                             *)

(* What becomes of the turns and their parts when a turn t comes after M.  *)
Grows(M, t, A, n) ==
  /\ A \in Seq(TurnSet) /\ Len(A) = n /\ n \in Nat /\ n >= 1 /\ DOMAIN A = 1 .. n
  /\ A # <<>> /\ Last(A) = A[n] /\ A[n].role = t.role
  /\ \A k \in 2 .. n : A[k - 1] = M[k - 1] /\ k - 1 \in DOMAIN M
  /\ \A k \in DOMAIN A : \A i \in DOMAIN A[k].parts :
        \/ k \in DOMAIN M /\ i \in DOMAIN M[k].parts /\ A[k].parts[i] = M[k].parts[i]
        \/ k = n /\ \E h \in DOMAIN t.parts : A[k].parts[i] = t.parts[h]
  /\ \A h \in DOMAIN t.parts : \E i \in DOMAIN A[n].parts : A[n].parts[i] = t.parts[h]
  /\ M # <<>> /\ Last(M).role = t.role => n = Len(M)
  /\ M # <<>> /\ Last(M).role # t.role => n = Len(M) + 1

LEMMA Grown ==
  ASSUME NEW M \in Seq(TurnSet), NEW t \in TurnSet
  PROVE  Grows(M, t, AddTurn(M, t), Len(AddTurn(M, t)))
<1> DEFINE A == AddTurn(M, t)
           k == Len(M)
<1>1. k \in Nat /\ DOMAIN M = 1 .. k /\ t.parts \in Seq(PartSet)
  BY LenProperties DEF TurnSet
<1> HIDE DEF k
<1>2. CASE M # <<>> /\ Last(M).role = t.role
  <2> DEFINE old == M[k].parts
             new == t.parts
  <2>1. /\ A \in Seq(TurnSet) /\ A # <<>> /\ Len(A) = k /\ k > 0
        /\ \A i \in 1 .. k : i < k => A[i] = M[i]
        /\ A[k].role = t.role
        /\ A[k].parts = old \o new /\ Last(A) = A[k]
    BY <1>2, SameRole DEF k
  <2>2. old \in Seq(PartSet) /\ DOMAIN A = 1 .. k
    <3>1. M[k] \in TurnSet
      BY <1>1, <2>1, ElementOfSeq DEF k
    <3> QED BY <2>1, <3>1, LenProperties DEF TurnSet
  <2> DEFINE a == Len(old)
             b == Len(new)
  <2>3. /\ a \in Nat /\ b \in Nat /\ DOMAIN old = 1 .. a /\ DOMAIN new = 1 .. b
        /\ old \o new \in Seq(PartSet) /\ Len(old \o new) = a + b
        /\ \A i \in 1 .. a + b : (old \o new)[i] = IF i <= a THEN old[i] ELSE new[i - a]
    BY <1>1, <2>2, ConcatProperties, LenProperties
  <2>4. DOMAIN (old \o new) = 1 .. a + b
    BY <2>3, LenProperties
  <2> HIDE DEF A, a, b, old, new
  <2>5. ASSUME NEW i \in 1 .. a + b
        PROVE  \/ i \in 1 .. a /\ A[k].parts[i] = old[i]
               \/ \E h \in 1 .. b : A[k].parts[i] = new[h]
    <3>1. CASE i <= a
      BY <2>1, <2>3, <3>1
    <3>2. CASE ~(i <= a)
      <4>1. i - a \in 1 .. b
        BY <2>3, <3>2
      <4> QED BY <2>1, <2>3, <3>2, <4>1
    <3> QED BY <3>1, <3>2
  <2>6. ASSUME NEW h \in 1 .. b
        PROVE  \E i \in 1 .. a + b : A[k].parts[i] = new[h]
    <3>1. a + h \in 1 .. a + b /\ ~(a + h <= a) /\ a + h - a = h
      BY <2>3
    <3>2. A[k].parts[a + h] = new[a + h - a]
      BY <2>1, <2>3, <3>1
    <3> QED BY <3>1, <3>2
  <2>7. ASSUME NEW j \in 1 .. k, NEW i \in DOMAIN A[j].parts
        PROVE  \/ j \in 1 .. k /\ i \in DOMAIN M[j].parts /\ A[j].parts[i] = M[j].parts[i]
               \/ j = k /\ \E h \in 1 .. b : A[j].parts[i] = new[h]
    <3>1. CASE j < k
      BY <2>1, <3>1
    <3>2. CASE j = k
      <4>1. i \in 1 .. a + b
        BY <2>1, <2>4, <3>2
      <4> QED BY <2>3, <2>5, <3>2, <4>1 DEF old
    <3> QED BY <1>1, <3>1, <3>2
  <2>8. \A j \in 2 .. k : A[j - 1] = M[j - 1] /\ j - 1 \in 1 .. k
    BY <1>1, <2>1
  <2>9. DOMAIN A[k].parts = 1 .. a + b /\ DOMAIN new = 1 .. b
    BY <2>1, <2>3, <2>4
  <2>10. /\ \A j \in DOMAIN A : \A i \in DOMAIN A[j].parts :
               \/ j \in DOMAIN M /\ i \in DOMAIN M[j].parts /\ A[j].parts[i] = M[j].parts[i]
               \/ j = k /\ \E h \in DOMAIN t.parts : A[j].parts[i] = t.parts[h]
         /\ \A h \in DOMAIN t.parts :
               \E i \in DOMAIN A[k].parts : A[k].parts[i] = t.parts[h]
    <3>1. DOMAIN A = 1 .. k /\ DOMAIN M = 1 .. k /\ DOMAIN new = 1 .. b
      BY <1>1, <2>2, <2>9
    <3>2. \A j \in DOMAIN A : \A i \in DOMAIN A[j].parts :
             \/ j \in DOMAIN M /\ i \in DOMAIN M[j].parts /\ A[j].parts[i] = M[j].parts[i]
             \/ j = k /\ \E h \in DOMAIN new : A[j].parts[i] = new[h]
      BY <2>7, <3>1
    <3>3. \A h \in DOMAIN new : \E i \in DOMAIN A[k].parts : A[k].parts[i] = new[h]
      BY <2>6, <2>9, <3>1
    <3> QED BY <3>2, <3>3 DEF new
  <2>11. \A j \in 2 .. k : A[j - 1] = M[j - 1] /\ j - 1 \in DOMAIN M
    BY <1>1, <2>8
  <2>12. k >= 1 /\ k = Len(M)
    BY <1>1, <2>1 DEF k
  <2>13. Grows(M, t, A, k)
    BY <1>1, <1>2, <2>1, <2>2, <2>10, <2>11, <2>12 DEF Grows
  <2> QED BY <2>1, <2>13 DEF A
<1>3. CASE M = <<>> \/ Last(M).role # t.role
  <2>1. /\ A \in Seq(TurnSet) /\ A # <<>> /\ Len(A) = k + 1
        /\ \A i \in 1 .. k : A[i] = M[i]
        /\ A[k + 1] = t /\ Last(A) = t
    BY <1>3, OtherRole DEF k
  <2> HIDE DEF A
  <2>2. DOMAIN A = 1 .. k + 1 /\ k + 1 >= 1 /\ k + 1 \in Nat
    BY <1>1, <2>1, LenProperties
  <2>3. \A j \in 2 .. k + 1 : A[j - 1] = M[j - 1] /\ j - 1 \in 1 .. k
    BY <1>1, <2>1
  <2>4. ASSUME NEW j \in 1 .. k + 1, NEW i \in DOMAIN A[j].parts
        PROVE  \/ j \in 1 .. k /\ i \in DOMAIN M[j].parts /\ A[j].parts[i] = M[j].parts[i]
               \/ j = k + 1 /\ \E h \in DOMAIN t.parts : A[j].parts[i] = t.parts[h]
    <3>1. CASE j \in 1 .. k
      BY <2>1, <3>1
    <3>2. CASE j = k + 1
      BY <2>1, <3>2
    <3> QED BY <1>1, <3>1, <3>2
  <2>5. k = Len(M)
    BY DEF k
  <2>6. Last(A) = A[k + 1] /\ A[k + 1].role = t.role
    BY <2>1
  <2>7. \A h \in DOMAIN t.parts :
           \E i \in DOMAIN A[k + 1].parts : A[k + 1].parts[i] = t.parts[h]
    BY <2>1
  <2>8. Grows(M, t, A, k + 1)
    BY <1>1, <1>3, <2>1, <2>2, <2>3, <2>4, <2>5, <2>6, <2>7 DEF Grows
  <2> QED BY <2>1, <2>8 DEF A
<1> QED BY <1>2, <1>3

HasCall(t, x) == \E i \in DOMAIN t.parts : t.parts[i].kind = "call" /\ t.parts[i].call = x

(* What a message says of calls and results.                               *)
LEMMA TurnCalls ==
  ASSUME NEW p \in Merging, NEW m \in Aloud, NEW c \in Calls, Contains(m.calls, c)
  PROVE  HasCall(TurnOf(p, m), KnownAs(p, c)) /\ RoleOf(p, m) = ModelRole(p)
<1> DEFINE own == CallsOf(p, m)
           text == TextOf(m)
<1>1. m \in Message /\ m.calls \in Seq(Calls)
  BY MessageFields DEF Aloud
<1>2. PICK i \in 1 .. Len(m.calls) : m.calls[i] = c
  BY DEF Contains
<1>3. DOMAIN m.calls = 1 .. Len(m.calls) /\ m.calls # <<>>
  <2>1. DOMAIN m.calls = 1 .. Len(m.calls)
    BY <1>1, LenProperties
  <2>2. 1 .. Len(<<>>) = {}
    BY EmptySeq
  <2> QED BY <1>2, <2>1, <2>2
<1>4. m.role = "assistant"
  BY <1>1, <1>3, MessageFields
<1>5. /\ own \in Seq(Speaking) /\ DOMAIN own = DOMAIN m.calls
      /\ own[i] = Call(KnownAs(p, c)) /\ own[i].kind = "call"
  BY <1>1, <1>2, <1>3, BodyFacts
<1>6. own[i].call = KnownAs(p, c)
  BY <1>5 DEF Call, Part
<1>7. text \in Seq(Speaking) /\ Body(p, m) = text \o own
  BY <1>1, <1>4, TextFacts DEF Body
<1> HIDE DEF own, text
<1>8. /\ text \o own \in Seq(Speaking) /\ Len(text \o own) = Len(text) + Len(own)
      /\ \A j \in 1 .. Len(text) + Len(own) :
            (text \o own)[j] = IF j <= Len(text) THEN text[j] ELSE own[j - Len(text)]
      /\ Len(text) \in Nat /\ Len(own) \in Nat /\ DOMAIN own = 1 .. Len(own)
      /\ DOMAIN (text \o own) = 1 .. Len(text \o own)
  <2>1. text \o own \in Seq(Speaking)
    BY <1>5, <1>7, ConcatProperties
  <2> QED BY <1>5, <1>7, <2>1, ConcatProperties, LenProperties
<1>9. Len(text) + i \in DOMAIN (text \o own) /\ (text \o own)[Len(text) + i] = own[i]
  <2> DEFINE a == Len(text)
             b == Len(own)
  <2>1. a \in Nat /\ b \in Nat /\ i \in 1 .. b
    BY <1>2, <1>3, <1>5, <1>8
  <2> HIDE DEF a, b
  <2>2. a + i \in 1 .. a + b /\ ~(a + i <= a) /\ a + i - a = i
    BY <2>1
  <2> QED BY <1>8, <2>2 DEF a, b
<1>10. text \o own # <<>>
  <2>1. DOMAIN <<>> = {}
    OBVIOUS
  <2> QED BY <1>9, <2>1
<1>11. TurnOf(p, m).parts = text \o own
  BY <1>7, <1>10, TurnFacts DEF OrBlank
<1> QED BY <1>4, <1>5, <1>6, <1>9, <1>11 DEF HasCall, RoleOf

LEMMA TurnResults ==
  ASSUME NEW p \in Merging, NEW m \in Aloud, NEW h \in DOMAIN TurnOf(p, m).parts,
         TurnOf(p, m).parts[h].kind = "result"
  PROVE  /\ m.role = "tool" /\ m.answers \in Calls
         /\ TurnOf(p, m).parts[h].call = Answered(p, m)
<1> DEFINE text == TextOf(m)
           own == CallsOf(p, m)
<1>1. m \in Message
  BY DEF Aloud
<1>2. TurnOf(p, m).parts = OrBlank(Body(p, m))
  BY TurnFacts
<1>3. CASE m.role = "tool"
  <2>1. m.answers \in Calls
    BY <1>1, <1>3, MessageFields
  <2>2. Body(p, m) = <<Result(Answered(p, m), m.text)>>
    BY <1>3 DEF Body
  <2>3. TurnOf(p, m).parts = <<Result(Answered(p, m), m.text)>>
    BY <1>2, <2>2 DEF OrBlank
  <2>4. h = 1
    BY <2>3
  <2>5. TurnOf(p, m).parts[h] = Result(Answered(p, m), m.text)
    BY <2>3, <2>4
  <2> QED BY <1>3, <2>1, <2>5 DEF Result, Part
<1>4. CASE m.role # "tool"
  <2>1. /\ text \in Seq(Speaking) /\ own \in Seq(Speaking) /\ Body(p, m) = text \o own
        /\ \A i \in DOMAIN text : text[i].kind = "text"
        /\ \A i \in DOMAIN own : own[i].kind = "call"
    BY <1>1, <1>4, TextFacts, BodyFacts DEF Body
  <2> HIDE DEF text, own
  <2> DEFINE a == Len(text)
             b == Len(own)
  <2>2. /\ a \in Nat /\ b \in Nat /\ DOMAIN text = 1 .. a /\ DOMAIN own = 1 .. b
        /\ text \o own \in Seq(Speaking) /\ Len(text \o own) = a + b
        /\ \A j \in 1 .. a + b : (text \o own)[j] = IF j <= a THEN text[j] ELSE own[j - a]
    BY <2>1, ConcatProperties, LenProperties
  <2>3. DOMAIN (text \o own) = 1 .. a + b
    BY <2>2, LenProperties
  <2> HIDE DEF a, b
  <2>4. ASSUME NEW j \in 1 .. a + b PROVE (text \o own)[j].kind \in {"text", "call"}
    <3>1. CASE j <= a
      <4>1. j \in 1 .. a
        BY <2>2, <3>1
      <4> QED BY <2>1, <2>2, <3>1, <4>1
    <3>2. CASE ~(j <= a)
      <4>1. j - a \in 1 .. b
        BY <2>2, <3>2
      <4> QED BY <2>1, <2>2, <3>2, <4>1
    <3> QED BY <3>1, <3>2
  <2>5. CASE text \o own = <<>>
    <3>1. TurnOf(p, m).parts = <<BlankText>>
      BY <1>2, <2>1, <2>5 DEF OrBlank
    <3>2. h = 1
      BY <3>1
    <3>3. TurnOf(p, m).parts[h] = BlankText
      BY <3>1, <3>2
    <3> QED BY <3>3 DEF BlankText, Part
  <2>6. CASE text \o own # <<>>
    <3>1. TurnOf(p, m).parts = text \o own
      BY <1>2, <2>1, <2>6 DEF OrBlank
    <3>2. TurnOf(p, m).parts[h].kind \in {"text", "call"}
      BY <2>3, <2>4, <3>1
    <3> QED BY <3>2
  <2> QED BY <2>5, <2>6
<1> QED BY <1>3, <1>4

(* A call that only results and system messages come after.                *)
Pending(ms, c) ==
  \E j \in DOMAIN ms : /\ Contains(ms[j].calls, c)
                       /\ \A k \in j + 1 .. Len(ms) : ms[k].role \in {"tool", "system"}

LEMMA PendingAppend ==
  ASSUME NEW ms \in Seq(Message), NEW m \in Message, NEW c, Pending(Append(ms, m), c)
  PROVE  Contains(m.calls, c) \/ (m.role \in {"tool", "system"} /\ Pending(ms, c))
<1> DEFINE n == Len(ms)
           all == Append(ms, m)
<1>1. /\ n \in Nat /\ DOMAIN ms = 1 .. n /\ DOMAIN all = 1 .. n + 1 /\ Len(all) = n + 1
      /\ \A i \in 1 .. n : all[i] = ms[i]
      /\ all[n + 1] = m
  BY AppendProperties, LenProperties
<1>2. PICK j \in DOMAIN all : /\ Contains(all[j].calls, c)
                              /\ \A k \in j + 1 .. Len(all) : all[k].role \in {"tool", "system"}
  BY DEF Pending
<1> HIDE DEF n, all
<1>3. CASE j = n + 1
  BY <1>1, <1>2, <1>3
<1>4. CASE j \in 1 .. n
  <2>1. Contains(ms[j].calls, c)
    BY <1>1, <1>2, <1>4
  <2>2. n + 1 \in j + 1 .. Len(all)
    BY <1>1, <1>4
  <2>3. m.role \in {"tool", "system"}
    BY <1>1, <1>2, <2>2
  <2>4. ASSUME NEW k \in j + 1 .. n PROVE ms[k].role \in {"tool", "system"}
    <3>1. k \in j + 1 .. Len(all) /\ k \in 1 .. n
      BY <1>1, <1>4
    <3> QED BY <1>1, <1>2, <3>1
  <2> QED BY <1>1, <1>4, <2>1, <2>3, <2>4 DEF Pending, n
<1> QED BY <1>1, <1>2, <1>3, <1>4

(* Of each result the call comes before, with only results and system      *)
(* messages between; or, if some are cut, nothing else comes before.       *)
Soft == {"tool", "system"}

Before(ms, i) == \E j \in 1 .. i - 1 :
   /\ Contains(ms[j].calls, ms[i].answers)
   /\ \A k \in j + 1 .. i - 1 : ms[k].role \in Soft

Alone(ms, i) == \A k \in 1 .. i - 1 : ms[k].role \in Soft

Ordered(cut, ms) ==
  \A i \in DOMAIN ms : ms[i].role = "tool" => Before(ms, i) \/ (cut /\ Alone(ms, i))

Quiet(ms) == \A k \in 1 .. Len(ms) : ms[k].role \in Soft

LEMMA OrderedAppend ==
  ASSUME NEW cut \in BOOLEAN, NEW ms \in Seq(Message), NEW m \in Message,
         Ordered(cut, Append(ms, m))
  PROVE  /\ Ordered(cut, ms)
         /\ m.role = "tool" => Pending(ms, m.answers) \/ (cut /\ Quiet(ms))
<1> DEFINE n == Len(ms)
           all == Append(ms, m)
<1>1. /\ n \in Nat /\ DOMAIN ms = 1 .. n /\ DOMAIN all = 1 .. n + 1
      /\ \A i \in 1 .. n : all[i] = ms[i]
      /\ all[n + 1] = m
  BY AppendProperties, LenProperties
<1>2. \A i \in DOMAIN all : all[i].role = "tool" => Before(all, i) \/ (cut /\ Alone(all, i))
  BY DEF Ordered
<1> HIDE DEF n, all
<1>3. ASSUME NEW i \in 1 .. n + 1, Before(all, i)
      PROVE  \E j \in 1 .. i - 1 :
                /\ Contains(ms[j].calls, all[i].answers)
                /\ \A k \in j + 1 .. i - 1 : ms[k].role \in Soft
  <2>1. PICK j \in 1 .. i - 1 :
           /\ Contains(all[j].calls, all[i].answers)
           /\ \A k \in j + 1 .. i - 1 : all[k].role \in Soft
    BY <1>3 DEF Before
  <2>2. j \in 1 .. n /\ \A k \in j + 1 .. i - 1 : k \in 1 .. n
    BY <1>1
  <2> QED BY <1>1, <2>1, <2>2
<1>4. ASSUME NEW i \in 1 .. n + 1, Alone(all, i) PROVE Alone(ms, i)
  <2>1. \A k \in 1 .. i - 1 : k \in 1 .. n
    BY <1>1
  <2> QED BY <1>1, <1>4, <2>1 DEF Alone
<1>5. ASSUME NEW i \in 1 .. n, ms[i].role = "tool"
      PROVE  Before(ms, i) \/ (cut /\ Alone(ms, i))
  <2>1. i \in DOMAIN all /\ i \in 1 .. n + 1 /\ all[i] = ms[i]
    BY <1>1
  <2> QED BY <1>2, <1>3, <1>4, <1>5, <2>1 DEF Before
<1>6. ASSUME m.role = "tool" PROVE Pending(ms, m.answers) \/ (cut /\ Quiet(ms))
  <2>1. n + 1 \in DOMAIN all /\ n + 1 \in 1 .. n + 1 /\ n + 1 - 1 = n
    BY <1>1
  <2>2. Before(all, n + 1) \/ (cut /\ Alone(all, n + 1))
    BY <1>1, <1>2, <1>6, <2>1
  <2>3. CASE Before(all, n + 1)
    <3>1. PICK j \in 1 .. n : /\ Contains(ms[j].calls, m.answers)
                              /\ \A k \in j + 1 .. n : ms[k].role \in Soft
      BY <1>1, <1>3, <2>1, <2>3
    <3> QED BY <1>1, <3>1 DEF Pending, Soft, n
  <2>4. CASE cut /\ Alone(all, n + 1)
    BY <1>4, <2>1, <2>4 DEF Alone, Quiet, n
  <2> QED BY <2>2, <2>3, <2>4
<1> QED BY <1>1, <1>5, <1>6 DEF Ordered

LEMMA QuietAppend ==
  ASSUME NEW ms \in Seq(Message), NEW m \in Message, Quiet(Append(ms, m))
  PROVE  Quiet(ms) /\ m.role \in Soft
<1> DEFINE n == Len(ms)
           all == Append(ms, m)
<1>1. /\ n \in Nat /\ Len(all) = n + 1 /\ all[n + 1] = m
      /\ \A i \in 1 .. n : all[i] = ms[i]
  BY AppendProperties, LenProperties
<1>2. \A k \in 1 .. Len(all) : all[k].role \in Soft
  BY DEF Quiet
<1> HIDE DEF all, n
<1>3. n + 1 \in 1 .. Len(all) /\ \A k \in 1 .. n : k \in 1 .. Len(all)
  BY <1>1
<1> QED BY <1>1, <1>2, <1>3 DEF Quiet, n

(* The turn with such a call is the last one, or the last but one if the   *)
(* last one is where results are put.                                      *)
Near(p, M, c) ==
  /\ M # <<>>
  /\ \/ M[Len(M)].role = ModelRole(p) /\ HasCall(M[Len(M)], KnownAs(p, c))
     \/ /\ M[Len(M)].role = ToolRole(p) /\ Len(M) > 1
        /\ M[Len(M) - 1].role = ModelRole(p) /\ HasCall(M[Len(M) - 1], KnownAs(p, c))

(* A turn of the model with a call that a result may be of.                *)
Fits(p, t, x) ==
  /\ t.role = ModelRole(p)
  /\ \E i \in DOMAIN t.parts :
       /\ t.parts[i].kind = "call"
       /\ \/ t.parts[i].call = x
          \/ p = "gemini" /\ x \in Calls /\ t.parts[i].call = NameOf[x]

Matched(cut, p, M) ==
  \A k \in DOMAIN M : \A i \in DOMAIN M[k].parts :
     M[k].parts[i].kind = "result" =>
        \/ k > 1 /\ Fits(p, M[k - 1], M[k].parts[i].call)
        \/ cut /\ k = 1

(* Results and system messages alone make one turn at most.                *)
OneTurn(p, M) == M = <<>> \/ (Len(M) = 1 /\ M[1].role = ToolRole(p))

Followed(p, ms) ==
  /\ \A c \in Calls : Pending(ms, c) => Near(p, Merged(p, ms), c)
  /\ Quiet(ms) => OneTurn(p, Merged(p, ms))
  /\ \A cut \in BOOLEAN : Ordered(cut, ms) => Matched(cut, p, Merged(p, ms))

LEMMA OneTurnStep ==
  ASSUME NEW p, NEW M \in Seq(TurnSet), NEW t, NEW A, NEW n, Grows(M, t, A, n),
         OneTurn(p, M), t.role = ToolRole(p)
  PROVE  n = 1 /\ OneTurn(p, A)
<1>1. n \in Nat /\ n >= 1 /\ Len(A) = n /\ A[n].role = t.role
  BY DEF Grows
<1>2. n = 1
  <2>1. CASE M = <<>>
    <3>1. ~(2 \in 2 .. n)
      BY <2>1, EmptySeq DEF Grows
    <3> QED BY <1>1, <3>1
  <2>2. CASE Len(M) = 1 /\ M[1].role = ToolRole(p)
    <3>1. M # <<>> /\ Last(M) = M[1]
      BY <2>2, EmptySeq DEF Last
    <3> QED BY <2>2, <3>1 DEF Grows
  <2> QED BY <2>1, <2>2 DEF OneTurn
<1> QED BY <1>1, <1>2 DEF OneTurn

(* A result comes next to a call that is near.                             *)
LEMMA ResultNear ==
  ASSUME NEW p \in Merging, NEW M \in Seq(TurnSet), NEW m \in Aloud, m.role = "tool",
         NEW c \in Calls, Near(p, M, c)
  PROVE  LET A == AddTurn(M, TurnOf(p, m)) IN
         /\ A[Len(A)].role = ToolRole(p) /\ Len(A) > 1 /\ Len(A) \in Nat
         /\ A[Len(A) - 1].role = ModelRole(p) /\ HasCall(A[Len(A) - 1], KnownAs(p, c))
<1> DEFINE t == TurnOf(p, m)
           A == AddTurn(M, t)
           n == Len(A)
           k == Len(M)
<1>1. t \in TurnSet /\ t.role = ToolRole(p)
  BY TurnFacts DEF RoleOf
<1>2. k \in Nat /\ k > 0 /\ Last(M) = M[k] /\ M # <<>>
  BY LenProperties, EmptySeq DEF Near, Last
<1>3. ModelRole(p) # ToolRole(p)
  BY DEF ModelRole, ToolRole
<1> HIDE DEF t, A
<1>4. Grows(M, t, A, n)
  BY <1>1, Grown DEF A
<1>5. n \in Nat /\ A[n].role = ToolRole(p) /\ \A j \in 2 .. n : A[j - 1] = M[j - 1]
  BY <1>1, <1>4 DEF Grows
<1>6. CASE M[k].role = ModelRole(p) /\ HasCall(M[k], KnownAs(p, c))
  <2>1. n = k + 1
    BY <1>1, <1>2, <1>3, <1>4, <1>6 DEF Grows
  <2>2. n \in 2 .. n /\ n - 1 = k /\ n > 1
    BY <1>2, <2>1
  <2>3. A[n - 1] = M[k]
    BY <1>5, <2>2
  <2> QED BY <1>5, <1>6, <2>2, <2>3 DEF A, t
<1>7. CASE /\ M[k].role = ToolRole(p) /\ k > 1
           /\ M[k - 1].role = ModelRole(p) /\ HasCall(M[k - 1], KnownAs(p, c))
  <2>1. n = k
    BY <1>1, <1>2, <1>4, <1>7 DEF Grows
  <2>2. n \in 2 .. n /\ n > 1
    BY <1>2, <1>7, <2>1
  <2>3. A[n - 1] = M[k - 1]
    BY <1>5, <2>1, <2>2
  <2> QED BY <1>5, <1>7, <2>2, <2>3 DEF A, t
<1> QED BY <1>6, <1>7 DEF Near

LEMMA AnsweredFits ==
  ASSUME NEW p \in Merging, NEW m \in Message, m.role = "tool", NEW t,
         t.role = ModelRole(p), HasCall(t, KnownAs(p, m.answers))
  PROVE  Fits(p, t, Answered(p, m))
<1>1. m.answers \in Calls
  BY MessageFields
<1>2. PICK i \in DOMAIN t.parts :
         t.parts[i].kind = "call" /\ t.parts[i].call = KnownAs(p, m.answers)
  BY DEF HasCall
<1>3. CASE p = "anthropic"
  BY <1>2, <1>3 DEF Fits, KnownAs, Answered
<1>4. CASE p = "gemini"
  BY <1>1, <1>2, <1>4 DEF Fits, KnownAs, Answered, ResultName
<1> QED BY <1>3, <1>4 DEF Merging

LEMMA FollowedStep ==
  ASSUME NEW p \in Merging, NEW ms \in Seq(Message), NEW m \in Message, Followed(p, ms)
  PROVE  Followed(p, Append(ms, m))
<1> DEFINE M == Merged(p, ms)
           all == Append(ms, m)
<1>1. M \in Seq(TurnSet) /\ all \in Seq(Message)
  BY MergedType, AppendProperties
<1>2. m.calls # <<>> => m.role = "assistant"
  BY MessageFields
<1>3. \A c : Contains(m.calls, c) => m.calls # <<>>
  BY EmptySeq DEF Contains
<1>4. CASE m.role = "system"
  <2>1. Merged(p, all) = M
    BY <1>4, MergedAppend
  <2>2. \A c \in Calls : Pending(all, c) => Pending(ms, c)
    BY <1>2, <1>3, <1>4, PendingAppend
  <2>3. \A cut \in BOOLEAN : Ordered(cut, all) => Ordered(cut, ms)
    BY OrderedAppend
  <2>4. Quiet(all) => Quiet(ms)
    BY QuietAppend
  <2> QED BY <2>1, <2>2, <2>3, <2>4 DEF Followed
<1>5. CASE m.role # "system"
  <2> DEFINE t == TurnOf(p, m)
             A == AddTurn(M, t)
             n == Len(A)
  <2>1. m \in Aloud
    BY <1>5 DEF Aloud
  <2>2. t \in TurnSet /\ t.role = RoleOf(p, m)
    BY <2>1, TurnFacts
  <2>3. Merged(p, all) = A
    BY <1>5, MergedAppend
  <2>4. Grows(M, t, A, n)
    BY <1>1, <2>2, Grown
  <2> HIDE DEF t, A, M
  <2>5. ASSUME NEW c \in Calls, Pending(all, c) PROVE Near(p, A, c)
    <3>1. CASE Contains(m.calls, c)
      <4>1. HasCall(t, KnownAs(p, c)) /\ t.role = ModelRole(p)
        BY <2>1, <2>2, <3>1, TurnCalls DEF t
      <4>2. PICK h \in DOMAIN t.parts :
               t.parts[h].kind = "call" /\ t.parts[h].call = KnownAs(p, c)
        BY <4>1 DEF HasCall
      <4>3. PICK i \in DOMAIN A[n].parts : A[n].parts[i] = t.parts[h]
        BY <2>4 DEF Grows
      <4>4. HasCall(A[n], KnownAs(p, c))
        BY <4>2, <4>3 DEF HasCall
      <4> QED BY <2>4, <4>1, <4>4 DEF Near, Grows
    <3>2. CASE m.role = "tool" /\ Pending(ms, c)
      <4>1. Near(p, M, c)
        BY <3>2 DEF Followed, M
      <4>2. /\ A[n].role = ToolRole(p) /\ n > 1
            /\ A[n - 1].role = ModelRole(p) /\ HasCall(A[n - 1], KnownAs(p, c))
        BY <1>1, <2>1, <3>2, <4>1, ResultNear DEF A, t
      <4> QED BY <2>4, <4>2 DEF Near, Grows
    <3> QED BY <1>5, <2>5, <3>1, <3>2, PendingAppend
  <2>6. ASSUME Quiet(all) PROVE OneTurn(p, A)
    <3>1. Quiet(ms) /\ m.role = "tool"
      BY <1>5, <2>6, QuietAppend DEF Soft
    <3>2. OneTurn(p, M) /\ t.role = ToolRole(p)
      BY <2>2, <3>1 DEF Followed, M, RoleOf
    <3> QED BY <1>1, <2>4, <3>2, OneTurnStep
  <2>7. ASSUME NEW cut \in BOOLEAN, Ordered(cut, all) PROVE Matched(cut, p, A)
    <3>1. /\ Matched(cut, p, M)
          /\ m.role = "tool" => Pending(ms, m.answers) \/ (cut /\ Quiet(ms))
      BY <2>7, OrderedAppend DEF Followed, M
    <3>2. ASSUME NEW k \in DOMAIN A, NEW i \in DOMAIN A[k].parts,
                 A[k].parts[i].kind = "result", ~(cut /\ k = 1)
          PROVE  k > 1 /\ Fits(p, A[k - 1], A[k].parts[i].call)
      <4>1. CASE k \in DOMAIN M /\ i \in DOMAIN M[k].parts /\ A[k].parts[i] = M[k].parts[i]
        <5>1. k > 1 /\ Fits(p, M[k - 1], A[k].parts[i].call)
          BY <3>1, <3>2, <4>1 DEF Matched
        <5>2. k \in 2 .. n
          <6>1. n \in Nat /\ k \in 1 .. n
            BY <2>4 DEF Grows
          <6> HIDE DEF n
          <6> QED BY <5>1, <6>1
        <5>3. A[k - 1] = M[k - 1]
          BY <2>4, <5>2 DEF Grows
        <5> QED BY <5>1, <5>3
      <4>2. CASE k = n /\ \E h \in DOMAIN t.parts : A[k].parts[i] = t.parts[h]
        <5>1. PICK h \in DOMAIN t.parts : A[k].parts[i] = t.parts[h]
          BY <4>2
        <5>2. m.role = "tool" /\ m.answers \in Calls /\ t.parts[h].call = Answered(p, m)
          BY <2>1, <3>2, <5>1, TurnResults DEF t
        <5>6. ~(cut /\ Quiet(ms))
          <6>1. t.role = ToolRole(p)
            BY <2>2, <5>2 DEF RoleOf
          <6>2. Quiet(ms) => n = 1
            BY <1>1, <2>4, <6>1, OneTurnStep DEF Followed, M
          <6> QED BY <3>2, <4>2, <6>2
        <5>3. Near(p, M, m.answers)
          BY <3>1, <5>2, <5>6 DEF Followed, M
        <5>4. /\ n > 1 /\ A[n - 1].role = ModelRole(p)
              /\ HasCall(A[n - 1], KnownAs(p, m.answers))
          BY <1>1, <2>1, <5>2, <5>3, ResultNear DEF A, t
        <5>5. Fits(p, A[n - 1], Answered(p, m))
          BY <5>2, <5>4, AnsweredFits
        <5> QED BY <4>2, <5>1, <5>2, <5>4, <5>5
      <4> QED BY <2>4, <4>1, <4>2 DEF Grows
    <3> QED BY <3>2 DEF Matched
  <2> QED BY <2>3, <2>5, <2>6, <2>7 DEF Followed
<1> QED BY <1>4, <1>5

LEMMA AllFollowed ==
  ASSUME NEW p \in Merging
  PROVE  \A ms \in Seq(Message) : Followed(p, ms)
<1> DEFINE T == {ms \in Seq(Message) : Followed(p, ms)}
<1>1. <<>> \in T
  <2>1. Merged(p, <<>>) = <<>> /\ <<>> \in Seq(Message) /\ DOMAIN <<>> = {}
    BY MergedEmpty, EmptySeq
  <2> QED BY <2>1 DEF Followed, Pending, Matched, OneTurn
<1>2. ASSUME NEW ms \in Seq(Message), NEW m \in Message, ms \in T
      PROVE  Append(ms, m) \in T
  BY <1>2, FollowedStep, AppendProperties
<1> HIDE DEF T
<1>3. \A ms \in Seq(Message) : ms \in T
  BY <1>1, <1>2, SeqInduction
<1> QED BY <1>3 DEF T

(* The same of the turns that are sent: relabelling leaves parts alone.    *)
LEMMA TurnsMatch ==
  ASSUME NEW p \in Merging, NEW ms \in Seq(Message), NEW cut \in BOOLEAN, Ordered(cut, ms)
  PROVE  LET turns == Turns(p, ms) IN
         \A k \in DOMAIN turns : \A part \in ToSet(turns[k].parts) :
            part.kind = "result" =>
               \/ k = 1 /\ cut
               \/ /\ k > 1 /\ Asks(p, turns[k - 1], part.call)
                  /\ k > 2 => turns[k - 1].role \in {"assistant", "model"}
<1> DEFINE M == Merged(p, ms)
           R == Relabelled(M, Opening(p))
<1>1. M \in Seq(TurnSet) /\ Matched(cut, p, M) /\ Turns(p, ms) = R
  BY MergedType, AllFollowed, TurnsAre DEF Followed
<1> HIDE DEF M
<1>2. /\ DOMAIN R = 1 .. Len(M) /\ DOMAIN M = 1 .. Len(M) /\ Len(M) \in Nat
      /\ \A i \in DOMAIN M : R[i].parts = M[i].parts
      /\ \A i \in DOMAIN M : i # 1 => R[i] = M[i]
  BY <1>1, RelabelledFacts
<1> HIDE DEF R
<1>3. ASSUME NEW k \in DOMAIN R, NEW part \in ToSet(R[k].parts), part.kind = "result",
             ~(k = 1 /\ cut)
      PROVE  /\ k > 1 /\ Asks(p, R[k - 1], part.call)
             /\ k > 2 => R[k - 1].role \in {"assistant", "model"}
  <2>1. PICK i \in DOMAIN M[k].parts : part = M[k].parts[i]
    BY <1>2 DEF ToSet
  <2>2. k > 1 /\ Fits(p, M[k - 1], part.call)
    BY <1>1, <1>2, <1>3, <2>1 DEF Matched
  <2>3. k - 1 \in DOMAIN M
    BY <1>2, <2>2
  <2>4. R[k - 1].parts = M[k - 1].parts
    BY <1>2, <2>3
  <2>5. PICK h \in DOMAIN R[k - 1].parts :
           /\ R[k - 1].parts[h].kind = "call"
           /\ \/ R[k - 1].parts[h].call = part.call
              \/ /\ p = "gemini" /\ part.call \in Calls
                 /\ R[k - 1].parts[h].call = NameOf[part.call]
    BY <2>2, <2>4 DEF Fits
  <2>6. R[k - 1].parts[h] \in ToSet(R[k - 1].parts)
    BY DEF ToSet
  <2>7. Asks(p, R[k - 1], part.call)
    BY <2>5, <2>6 DEF Asks
  <2>8. k > 2 => R[k - 1].role \in {"assistant", "model"}
    <3>1. k > 2 => k - 1 # 1
      BY <1>2
    <3> QED BY <1>2, <2>2, <2>3, <3>1 DEF Fits, ModelRole
  <2> QED BY <2>2, <2>7, <2>8
<1> QED BY <1>1, <1>3

-----------------------------------------------------------------------------
(* What the client puts in.                                                *)

Typed == messages \in Seq(Message)

LEMMA InType ==
  ASSUME NEW S, NEW P
  PROVE  \A s \in Seq(S) : In(s, P) \in Seq(S \cap P)
<1> DEFINE T == {s \in Seq(S) : In(s, P) \in Seq(S \cap P)}
<1>1. <<>> \in T
  BY EmptySeq, InEmpty
<1>2. ASSUME NEW s \in Seq(S), NEW e \in S, s \in T PROVE Append(s, e) \in T
  <2>1. /\ Append(s, e) \in Seq(S) /\ In(s, P) \in Seq(S \cap P)
        /\ In(Append(s, e), P) = IF e \in P THEN Append(In(s, P), e) ELSE In(s, P)
    BY <1>2, AppendProperties, InAppend
  <2>2. CASE e \in P
    <3>1. e \in S \cap P
      BY <2>2
    <3>2. Append(In(s, P), e) \in Seq(S \cap P)
      BY <2>1, <3>1, AppendProperties
    <3> QED BY <2>1, <2>2, <3>2
  <2>3. CASE e \notin P
    BY <2>1, <2>3
  <2> QED BY <2>2, <2>3
<1> HIDE DEF T
<1>3. \A s \in Seq(S) : s \in T
  BY <1>1, <1>2, SeqInduction
<1> QED BY <1>3 DEF T

(* Of a reply, the calls and what they are known as.                       *)
Reading(D) == {Text(MaxMessages)} \cup {Call(x) : x \in D}

LEMMA CallsInFacts ==
  ASSUME NEW D, NEW blocks \in Seq(Reading(D))
  PROVE  /\ CallsIn(blocks) \in Seq({Call(x) : x \in D}) /\ IdsIn(blocks) \in Seq(D)
         /\ DOMAIN IdsIn(blocks) = DOMAIN CallsIn(blocks)
         /\ \A i \in DOMAIN CallsIn(blocks) :
               IdsIn(blocks)[i] \in D /\ CallsIn(blocks)[i] = Call(IdsIn(blocks)[i])
<1> DEFINE P == {Call(x) : x \in D}
           calls == CallsIn(blocks)
<1>1. \A b \in Reading(D) : b.kind = "call" <=> b \in P
  BY DEF Reading, Text, Call, Part
<1>2. \A i \in DOMAIN blocks : blocks[i] \in Reading(D)
  BY LenProperties, ElementOfSeq
<1>3. {i \in DOMAIN blocks : blocks[i].kind = "call"} = {i \in DOMAIN blocks : blocks[i] \in P}
  BY <1>1, <1>2
<1>4. calls = In(blocks, P)
  BY <1>3 DEF CallsIn, Kept, Passing, In
<1>5. Reading(D) \cap P = P
  BY DEF Reading
<1> HIDE DEF calls
<1>6. calls \in Seq(P)
  <2> HIDE DEF P
  <2> QED BY <1>4, <1>5, InType
<1>7. Len(calls) \in Nat /\ DOMAIN calls = 1 .. Len(calls) /\ \A i \in DOMAIN calls : calls[i] \in P
  <2> HIDE DEF P
  <2> QED BY <1>6, LenProperties, ElementOfSeq
<1>8. \A b \in P : b.call \in D /\ b = Call(b.call)
  BY DEF Call, Part
<1> HIDE DEF P
<1>9. IdsIn(blocks) = [i \in DOMAIN calls |-> calls[i].call]
  BY DEF IdsIn, calls
<1> DEFINE ids == IdsIn(blocks)
<1> HIDE DEF ids
<1>10. ids = [i \in 1 .. Len(calls) |-> calls[i].call] /\ DOMAIN ids = DOMAIN calls
  BY <1>7, <1>9 DEF ids
<1>11. ids \in [1 .. Len(calls) -> D]
  BY <1>7, <1>8, <1>10
<1>12. ids \in Seq(D)
  BY <1>7, <1>11, SeqDef
<1> QED BY <1>6, <1>7, <1>8, <1>10, <1>12 DEF calls, ids, P

Names == {NameOf[c] : c \in Calls}

LEMMA BlocksFacts ==
  ASSUME NEW blocks \in Blocks
  PROVE  blocks \in Seq(Reading(Calls)) /\ ByName(blocks) \in Seq(Reading(Names))
         /\ (HasText(ByName(blocks)) <=> HasText(blocks))
<1>1. PICK n \in 1 .. 2 : blocks \in [1 .. n -> Reading(Calls)]
  BY DEF Blocks, Reading
<1>2. blocks \in Seq(Reading(Calls))
  BY <1>1, SeqDef
<1> DEFINE named == ByName(blocks)
<1>3. /\ DOMAIN named = 1 .. n /\ named = [i \in 1 .. n |-> named[i]]
      /\ \A i \in 1 .. n : named[i] = IF blocks[i].kind = "call"
                                      THEN Call(NameOf[blocks[i].call]) ELSE blocks[i]
  BY <1>1 DEF ByName
<1> HIDE DEF named
<1>4. ASSUME NEW i \in 1 .. n
      PROVE  named[i] \in Reading(Names) /\ (named[i].kind = "text" <=> blocks[i].kind = "text")
  <2>1. CASE blocks[i] = Text(MaxMessages)
    BY <1>3, <2>1 DEF Reading, Text, Part
  <2>2. CASE \E c \in Calls : blocks[i] = Call(c)
    <3>1. PICK c \in Calls : blocks[i] = Call(c)
      BY <2>2
    <3>2. named[i] = Call(NameOf[c])
      BY <1>3, <3>1 DEF Call, Part
    <3>3. NameOf[c] \in Names
      BY DEF Names
    <3>4. Call(NameOf[c]) \in Reading(Names)
      BY <3>3 DEF Reading
    <3>5. Call(NameOf[c]).kind = "call" /\ Call(c).kind = "call"
      BY DEF Call, Part
    <3> QED BY <3>1, <3>2, <3>4, <3>5
  <2> QED BY <1>1, <2>1, <2>2 DEF Reading
<1>5. named \in [1 .. n -> Reading(Names)]
  BY <1>3, <1>4
<1>6. named \in Seq(Reading(Names))
  BY <1>5, SeqDef
<1>7. HasText(named) <=> HasText(blocks)
  BY <1>1, <1>3, <1>4 DEF HasText
<1> QED BY <1>2, <1>6, <1>7 DEF named

(* What the client reads of a reply is a message that the providers tell   *)
(* the model as it was.                                                    *)
LEMMA AnthropicReads ==
  ASSUME NEW blocks \in Blocks, NEW n \in Nat, n # 0
  PROVE  LET m == AnthropicResponse(blocks, n) IN
         /\ m \in Aloud /\ m.role = "assistant"
         /\ TextOf(m) = IF HasText(blocks) THEN <<Text(n)>> ELSE <<>>
         /\ CallsOf("anthropic", m) = CallsIn(blocks)
<1> DEFINE ids == IdsIn(blocks)
           calls == CallsIn(blocks)
           text == IF HasText(blocks) THEN n ELSE 0
           m == Assistant(text, ids)
<1>1. /\ calls \in Seq({Call(x) : x \in Calls}) /\ ids \in Seq(Calls) /\ DOMAIN ids = DOMAIN calls
      /\ \A i \in DOMAIN calls : calls[i] = Call(ids[i])
  BY BlocksFacts, CallsInFacts
<1>2. AnthropicResponse(blocks, n) = m /\ text \in Nat
  BY DEF AnthropicResponse
<1> HIDE DEF ids, calls
<1>3. m \in Message /\ m.role = "assistant"
  BY <1>1, <1>2, ConversationAssumption DEF Assistant, Message, Roles
<1>4. TextOf(m) = IF HasText(blocks) THEN <<Text(n)>> ELSE <<>>
  BY DEF TextOf, Assistant
<1>5. CallsOf("anthropic", m) = [i \in DOMAIN ids |-> Call(ids[i])]
  BY DEF CallsOf, IdsOf, Assistant
<1>6. calls = [i \in DOMAIN calls |-> calls[i]]
  BY <1>1, LenProperties
<1>7. CallsOf("anthropic", m) = calls
  BY <1>1, <1>5, <1>6
<1> HIDE DEF m
<1> QED BY <1>2, <1>3, <1>4, <1>7 DEF Aloud, calls

LEMMA GeminiReads ==
  ASSUME NEW blocks \in Blocks, NEW n \in Nat, n # 0
  PROVE  LET m == GeminiResponse(ByName(blocks), n) IN
         /\ m \in Aloud /\ m.role = "assistant"
         /\ TextOf(m) = IF HasText(blocks) THEN <<Text(n)>> ELSE <<>>
         /\ CallsOf("gemini", m) = CallsIn(ByName(blocks))
<1> DEFINE names == IdsIn(ByName(blocks))
           calls == CallsIn(ByName(blocks))
           text == IF HasText(blocks) THEN n ELSE 0
           ids == [i \in DOMAIN names |-> CHOOSE c \in Calls : NameOf[c] = names[i]]
           m == Assistant(text, ids)
<1>1. /\ calls \in Seq({Call(x) : x \in Names}) /\ names \in Seq(Names)
      /\ DOMAIN names = DOMAIN calls
      /\ \A i \in DOMAIN calls : names[i] \in Names /\ calls[i] = Call(names[i])
  BY BlocksFacts, CallsInFacts
<1>2. GeminiResponse(ByName(blocks), n) = m /\ text \in Nat
  BY BlocksFacts DEF GeminiResponse
<1> HIDE DEF names, calls
<1>3. Len(names) \in Nat /\ DOMAIN names = 1 .. Len(names)
  BY <1>1, LenProperties
<1>4. /\ DOMAIN ids = DOMAIN names
      /\ \A i \in DOMAIN names : ids[i] \in Calls /\ NameOf[ids[i]] = names[i]
  <2> SUFFICES ASSUME NEW i \in DOMAIN names PROVE ids[i] \in Calls /\ NameOf[ids[i]] = names[i]
    OBVIOUS
  <2>1. \E c \in Calls : NameOf[c] = names[i]
    BY <1>1 DEF Names
  <2> QED BY <2>1
<1>5. ids \in Seq(Calls)
  <2>1. ids \in [1 .. Len(names) -> Calls]
    BY <1>3, <1>4
  <2> QED BY <1>3, <2>1, SeqDef
<1> HIDE DEF ids
<1>6. m \in Message /\ m.role = "assistant"
  BY <1>2, <1>5, ConversationAssumption DEF Assistant, Message, Roles
<1>7. TextOf(m) = IF HasText(blocks) THEN <<Text(n)>> ELSE <<>>
  BY DEF TextOf, Assistant
<1>8. CallsOf("gemini", m) = [i \in DOMAIN ids |-> Call(NameOf[ids[i]])]
  BY DEF CallsOf, NamesOf, Assistant
<1>9. calls = [i \in DOMAIN calls |-> calls[i]]
  BY <1>1, LenProperties
<1>10. CallsOf("gemini", m) = calls
  BY <1>1, <1>4, <1>8, <1>9
<1> HIDE DEF m
<1> QED BY <1>2, <1>6, <1>7, <1>10 DEF Aloud, calls

LEMMA ConcatSuffix ==
  ASSUME NEW S, NEW s \in Seq(S), NEW t \in Seq(S)
  PROVE  IsSuffix(t, s \o t)
<1> DEFINE a == Len(s)
           b == Len(t)
<1>1. /\ a \in Nat /\ b \in Nat /\ s \o t \in Seq(S) /\ Len(s \o t) = a + b
      /\ \A i \in 1 .. a + b : (s \o t)[i] = IF i <= a THEN s[i] ELSE t[i - a]
  BY ConcatProperties, LenProperties
<1> HIDE DEF a, b
<1>2. ASSUME NEW i \in 1 .. b PROVE t[i] = (s \o t)[(a + b) - b + i]
  <2>1. (a + b) - b + i = a + i /\ a + i \in 1 .. a + b /\ ~(a + i <= a) /\ a + i - a = i
    BY <1>1
  <2> QED BY <1>1, <2>1
<1>3. b <= a + b
  BY <1>1
<1> QED BY <1>1, <1>2, <1>3, Suffix DEF b

LEMMA EmptySuffix ==
  ASSUME NEW S, NEW s \in Seq(S)
  PROVE  IsSuffix(<<>>, s)
<1>1. <<>> \in Seq(S) /\ s \o <<>> = s
  BY EmptySeq, ConcatEmptySeq
<1>2. IsSuffix(<<>>, s \o <<>>)
  BY <1>1, ConcatSuffix
<1> QED BY <1>1, <1>2

(* The last turn ends with what the last message says.                     *)
LEMMA LastSays ==
  ASSUME NEW p \in Merging, NEW ms \in Seq(Message), NEW m \in Aloud
  PROVE  IsSuffix(Body(p, m), Last(Turns(p, Append(ms, m))).parts)
<1> DEFINE M == Merged(p, ms)
           t == TurnOf(p, m)
           A == AddTurn(M, t)
           n == Len(A)
           R == Relabelled(A, Opening(p))
<1>1. M \in Seq(TurnSet) /\ m \in Message /\ m.role # "system"
  BY MergedType DEF Aloud
<1>2. /\ t \in TurnSet /\ t.parts = OrBlank(Body(p, m)) /\ Body(p, m) \in Seq(PartSet)
  BY TurnFacts
<1>3. Turns(p, Append(ms, m)) = R
  BY <1>1, MergedAppend, TurnsAre
<1> HIDE DEF M, t
<1>4. Grows(M, t, A, n)
  BY <1>1, <1>2, Grown
<1>5. A \in Seq(TurnSet) /\ n \in Nat /\ n >= 1 /\ DOMAIN A = 1 .. n
  BY <1>4 DEF Grows
<1>6. t.parts \in Seq(PartSet) /\ A[n].parts \in Seq(PartSet)
  <2>1. A[n] \in TurnSet
    BY <1>5, ElementOfSeq
  <2> QED BY <1>2, <2>1 DEF TurnSet
<1>7. IsSuffix(t.parts, A[n].parts)
  <2>1. CASE M # <<>> /\ Last(M).role = t.role
    <3>1. M[n].parts \in Seq(PartSet) /\ A[n].parts = M[n].parts \o t.parts
      <4>1. n = Len(M) /\ A[n].parts = M[Len(M)].parts \o t.parts
        BY <1>1, <1>2, <2>1, SameRole
      <4>2. M[Len(M)] \in TurnSet
        BY <1>1, <1>5, <4>1, ElementOfSeq
      <4> QED BY <4>1, <4>2 DEF TurnSet
    <3> QED BY <1>6, <3>1, ConcatSuffix
  <2>2. CASE M = <<>> \/ Last(M).role # t.role
    <3>1. A[n] = t
      BY <1>1, <1>2, <2>2, OtherRole DEF Last
    <3>2. <<>> \in Seq(PartSet) /\ <<>> \o t.parts = t.parts
      BY <1>6, EmptySeq, ConcatEmptySeq
    <3>3. IsSuffix(t.parts, <<>> \o t.parts)
      BY <1>6, <3>2, ConcatSuffix
    <3> QED BY <3>1, <3>2, <3>3
  <2> QED BY <2>1, <2>2
<1> HIDE DEF A
<1>8. Last(R).parts = A[n].parts
  BY <1>5, RelabelledFacts DEF Last
<1> HIDE DEF n, R
<1>9. CASE Body(p, m) = <<>>
  BY <1>3, <1>6, <1>8, <1>9, EmptySuffix
<1>10. CASE Body(p, m) # <<>>
  BY <1>2, <1>3, <1>7, <1>8, <1>10 DEF OrBlank
<1> QED BY <1>9, <1>10

-----------------------------------------------------------------------------
(* The theorems.                                                           *)

(* Whatever is said, by clients or by models, is a message: only the       *)
(* assistant calls, only a tool answers, and both know the calls.          *)
THEOREM MessagesTyped == ConvSpec => []Typed
<1>1. ConvInit => Typed
  BY EmptySeq DEF ConvInit, Typed
<1>2. Typed /\ [ConvNext]_messages => Typed'
  <2> SUFFICES ASSUME Typed, [ConvNext]_messages PROVE Typed'
    OBVIOUS
  <2>1. messages \in Seq(Message) /\ Number \in Nat /\ Number # 0
    <3>1. Len(messages) \in Nat
      BY LenProperties DEF Typed
    <3> QED BY <3>1 DEF Typed, Number
  <2>2. ASSUME NEW role \in Roles, NEW text \in BOOLEAN,
               NEW calls \in {<<>>} \cup {<<c>> : c \in Calls},
               NEW answers \in Calls \cup {NoCall}, NEW named \in BOOLEAN,
               Say(role, text, calls, answers, named)
        PROVE  Typed'
    <3> DEFINE n == IF text THEN Number ELSE 0
               m == [role |-> role, text |-> n, calls |-> calls, answers |-> answers,
                     named |-> named]
    <3>1. /\ messages' = Append(messages, m)
          /\ calls # <<>> => role = "assistant"
          /\ role = "tool" <=> answers # NoCall
      BY <2>2 DEF Say
    <3>2. calls \in Seq(Calls)
      <4>1. <<>> \in Seq(Calls) /\ \A c \in Calls : <<c>> \in Seq(Calls)
        BY EmptySeq
      <4> QED BY <4>1
    <3>3. n \in Nat
      BY <2>1
    <3> HIDE DEF n
    <3>4. m \in Message
      BY <3>1, <3>2, <3>3 DEF Message
    <3> HIDE DEF m
    <3> QED BY <2>1, <3>1, <3>4, AppendProperties DEF Typed
  <2>3. ASSUME NEW p \in {"anthropic", "gemini"}, NEW blocks \in Blocks, Reply(p, blocks)
        PROVE  Typed'
    <3>1. /\ AnthropicResponse(blocks, Number) \in Message
          /\ GeminiResponse(ByName(blocks), Number) \in Message
      BY <2>1, AnthropicReads, GeminiReads DEF Aloud
    <3>2. \E m \in Message : messages' = Append(messages, m)
      BY <2>3, <3>1 DEF Reply
    <3> QED BY <2>1, <3>2, AppendProperties DEF Typed
  <2>4. CASE UNCHANGED messages
    BY <2>4 DEF Typed
  <2> QED BY <2>2, <2>3, <2>4 DEF ConvNext
<1> QED BY <1>1, <1>2, PTL DEF ConvSpec

LEMMA WindowsTyped ==
  ASSUME Typed, NEW ms \in Windows
  PROVE  ms \in Seq(Message)
<1>1. PICK n \in 0 .. MaxMessages : ms = Window(messages, n)
  BY DEF Windows
<1>2. n \in Nat
  BY ConversationAssumption
<1> QED BY <1>1, <1>2, WindowIs DEF Typed

(* NothingLost: whatever transformRequest merges, relabels or sets apart,  *)
(* each provider is told all of the messages in the window, each text,     *)
(* call and result once and in order, and the system's texts apart; Ollama *)
(* only the texts.                                                         *)
THEOREM NothingGetsLost == ConvSpec => []NothingLost
<1>1. Typed => NothingLost
  <2> SUFFICES ASSUME Typed, NEW p \in Providers, NEW ms \in Windows
               PROVE  /\ Spoken(Parts(Turns(p, ms))) =
                            FlattenSeq([i \in DOMAIN ms |-> Said(p, ms[i])])
                      /\ \A i \in DOMAIN ms : ms[i].role = "system"
                            => \E j \in DOMAIN System(ms) : System(ms)[j] = ms[i].text
    BY DEF NothingLost
  <2>1. ms \in Seq(Message)
    BY WindowsTyped
  <2> QED BY <2>1, TurnsSay, SystemSays DEF Sayings
<1> QED BY <1>1, MessagesTyped, PTL

(* RolesAlternate: behind the first turn no two of one role follow each    *)
(* other, none is empty, and the first is one the provider may begin with, *)
(* which is what mergeConsecutiveRoles and mergeConsecutiveGeminiContents  *)
(* are for.                                                                *)
THEOREM RolesDoAlternate == ConvSpec => []RolesAlternate
<1>1. Typed => RolesAlternate
  <2> SUFFICES ASSUME Typed, NEW p \in {"anthropic", "gemini"}, NEW ms \in Windows
               PROVE  LET turns == Turns(p, ms) IN
                      /\ \A i \in 2 .. Len(turns) - 1 : turns[i].role # turns[i + 1].role
                      /\ \A i \in DOMAIN turns : turns[i].parts # <<>>
                      /\ turns # <<>> => turns[1].role \in {"user", "function"}
    BY DEF RolesAlternate
  <2>1. ms \in Seq(Message) /\ p \in Merging
    BY WindowsTyped DEF Merging
  <2> QED BY <2>1, SentAlternate
<1> QED BY <1>1, MessagesTyped, PTL

(* WindowKeeps: FitContextWindow keeps as many messages as it may, the     *)
(* system message in front, and behind it the latest ones with no gap.     *)
THEOREM WindowDoesKeep == ConvSpec => []WindowKeeps
<1>1. Typed => WindowKeeps
  <2> SUFFICES ASSUME Typed, NEW n \in 1 .. MaxMessages
               PROVE  LET ms   == Window(messages, n)
                          kept == IF messages # <<>> /\ messages[1].role = "system"
                                  THEN 1 ELSE 0
                      IN  /\ Len(ms) = Min({n, Len(messages)})
                          /\ SubSeq(ms, 1, kept) = SubSeq(messages, 1, kept)
                          /\ IsSuffix(SubSeq(ms, kept + 1, Len(ms)), messages)
    BY DEF WindowKeeps
  <2> DEFINE W == Window(messages, n)
             L == Len(messages)
             k == IF n = 0 \/ L <= n THEN L ELSE n
             d == Leading(messages)
             s == SubSeq(W, d + 1, k)
  <2>1. n \in Nat /\ n >= 1 /\ messages \in Seq(Message) /\ d \in {0, 1}
    BY ConversationAssumption DEF Typed, Leading
  <2>2. /\ W \in Seq(Message) /\ Len(W) = k /\ L \in Nat
        /\ \A j \in d + 1 .. k : W[j] = messages[L - k + j]
        /\ d = 1 => L >= 1 /\ k >= 1 /\ W[1] = messages[1]
    BY <2>1, WindowIs
  <2>3. /\ k \in Nat /\ k <= L /\ d <= k
        /\ (\A i \in 1 .. k : W[i] \in Message) /\ (\A i \in 1 .. L : messages[i] \in Message)
    BY <2>1, <2>2, ElementOfSeq
  <2>4. k = Min({n, L})
    <3>1. k \in {n, L} /\ \A i \in {n, L} : k <= i
      BY <2>1, <2>2
    <3> QED BY <2>1, <2>2, <3>1, MinOf
  <2> HIDE DEF W, L, k, d
  <2>5. SubSeq(W, 1, d) = SubSeq(messages, 1, d)
    <3>1. CASE d = 0
      BY <3>1, SubSeqEmpty
    <3>2. CASE d = 1
      <4>1. \A i \in 1 .. 1 : W[i] \in Message /\ messages[i] \in Message
        BY <2>2, <2>3, <3>2
      <4>2. /\ SubSeq(W, 1, 1) \in Seq(Message) /\ Len(SubSeq(W, 1, 1)) = 1
            /\ \A i \in 1 .. 1 : SubSeq(W, 1, 1)[i] = W[1 + i - 1]
        BY <4>1, SubSeqProperties
      <4>3. /\ SubSeq(messages, 1, 1) \in Seq(Message) /\ Len(SubSeq(messages, 1, 1)) = 1
            /\ \A i \in 1 .. 1 : SubSeq(messages, 1, 1)[i] = messages[1 + i - 1]
        BY <4>1, SubSeqProperties
      <4>4. \A i \in 1 .. 1 : SubSeq(W, 1, 1)[i] = SubSeq(messages, 1, 1)[i]
        BY <2>2, <3>2, <4>2, <4>3
      <4>5. SubSeq(W, 1, 1) = SubSeq(messages, 1, 1)
        BY <4>2, <4>3, <4>4, SeqEqual
      <4> QED BY <3>2, <4>5
    <3> QED BY <2>1, <3>1, <3>2
  <2>6. /\ s \in Seq(Message) /\ Len(s) = k - d
        /\ \A i \in 1 .. k - d : s[i] = messages[L - (k - d) + i]
    <3>1. \A i \in d + 1 .. k : W[i] \in Message
      BY <2>1, <2>3
    <3>2. d + 1 \in Int /\ k \in Int
      BY <2>1, <2>3
    <3>3. /\ s \in Seq(Message) /\ Len(s) = IF d + 1 <= k THEN k - (d + 1) + 1 ELSE 0
          /\ \A i \in 1 .. k - (d + 1) + 1 : s[i] = W[(d + 1) + i - 1]
      BY <3>1, <3>2, SubSeqProperties
    <3> HIDE DEF s
    <3>4. Len(s) = k - d /\ k - (d + 1) + 1 = k - d
      BY <2>1, <2>3, <3>3
    <3>5. ASSUME NEW i \in 1 .. k - d PROVE s[i] = messages[L - (k - d) + i]
      <4>1. /\ (d + 1) + i - 1 = d + i /\ d + i \in d + 1 .. k
            /\ L - k + (d + i) = L - (k - d) + i
        BY <2>1, <2>2, <2>3
      <4>2. s[i] = W[d + i]
        BY <3>3, <3>4, <4>1
      <4> QED BY <2>2, <4>1, <4>2
    <3> QED BY <3>3, <3>4, <3>5
  <2> HIDE DEF s
  <2>7. k - d <= L
    BY <2>1, <2>2, <2>3
  <2>8. IsSuffix(s, messages)
    BY <2>1, <2>6, <2>7, Suffix DEF L
  <2> QED BY <2>2, <2>4, <2>5, <2>8 DEF W, L, d, s, Leading
<1> QED BY <1>1, MessagesTyped, PTL

(* A window of an orderly conversation is one but for the calls it cuts.   *)
LEMMA WindowOrdered ==
  ASSUME NEW ms \in Seq(Message), Orderly(ms), NEW n \in Nat
  PROVE  Ordered(TRUE, Window(ms, n)) /\ Ordered(FALSE, ms)
<1> DEFINE W == Window(ms, n)
           L == Len(ms)
           k == Len(W)
           h == Leading(ms)
           d == L - k
<1>1. /\ W \in Seq(Message) /\ k \in Nat /\ L \in Nat /\ d \in Nat
      /\ \A j \in h + 1 .. k : W[j] = ms[d + j]
      /\ h = 1 => L >= 1 /\ k >= 1 /\ W[1] = ms[1]
  <2> HIDE DEF W, L, k, h
  <2>1. /\ W \in Seq(Message) /\ L \in Nat /\ k = IF n = 0 \/ L <= n THEN L ELSE n
        /\ \A j \in h + 1 .. k : W[j] = ms[L - k + j]
        /\ h = 1 => L >= 1 /\ k >= 1 /\ W[1] = ms[1]
    <3> DEFINE b == IF n = 0 \/ L <= n THEN L ELSE n
    <3>1. /\ W \in Seq(Message) /\ k = b /\ L \in Nat
          /\ \A j \in h + 1 .. b : W[j] = ms[L - b + j]
          /\ h = 1 => L >= 1 /\ b >= 1 /\ W[1] = ms[1]
      BY WindowIs, Zenon DEF W, L, k, h
    <3> HIDE DEF b
    <3>2. k = b
      BY <3>1
    <3> QED BY <3>1, <3>2, Zenon DEF b
  <2>2. k \in Nat /\ k <= L
    BY <2>1
  <2> QED BY <2>1, <2>2
<1>2. DOMAIN W = 1 .. k /\ DOMAIN ms = 1 .. L
  BY <1>1, LenProperties
<1>3. h \in {0, 1} /\ (h = 1 => ms[1].role = "system")
  BY DEF Leading
<1>4. Ordered(FALSE, ms)
  BY DEF Orderly, Ordered, Before, Soft
<1>6. d = L - k
  OBVIOUS
<1> HIDE DEF W, L, k, h, d
<1>5. ASSUME NEW i \in 1 .. k, W[i].role = "tool" PROVE Before(W, i) \/ Alone(W, i)
  <2>1. i \in h + 1 .. k /\ d + i \in 1 .. L /\ W[i] = ms[d + i]
    <3>1. i # 1 \/ h # 1
      BY <1>1, <1>3, <1>5
    <3>2. i \in h + 1 .. k
      BY <1>1, <1>3, <3>1
    <3> QED BY <1>1, <1>3, <1>6, <3>2
  <2>2. Before(ms, d + i)
    BY <1>2, <1>4, <1>5, <2>1 DEF Ordered
  <2>3. PICK j \in 1 .. d + i - 1 :
           /\ Contains(ms[j].calls, W[i].answers)
           /\ \A x \in j + 1 .. d + i - 1 : ms[x].role \in Soft
    <3> DEFINE o == d + i
    <3>1. Before(ms, o) /\ W[i] = ms[o] /\ o = d + i
      BY <2>1, <2>2
    <3> HIDE DEF o
    <3>2. \E j \in 1 .. o - 1 :
             /\ Contains(ms[j].calls, ms[o].answers)
             /\ \A x \in j + 1 .. o - 1 : ms[x].role \in Soft
      BY <3>1, Zenon DEF Before
    <3>3. \E j \in 1 .. o - 1 :
             /\ Contains(ms[j].calls, W[i].answers)
             /\ \A x \in j + 1 .. o - 1 : ms[x].role \in Soft
      BY <3>1, <3>2, Zenon
    <3>4. PICK j \in 1 .. o - 1 :
             /\ Contains(ms[j].calls, W[i].answers)
             /\ \A x \in j + 1 .. o - 1 : ms[x].role \in Soft
      BY <3>3, Zenon
    <3>5. d \in Nat /\ k \in Nat
      BY <1>1
    <3>6. i \in Nat /\ o \in Nat
      BY <3>1, <3>5
    <3>7. (o - 1) = (d + i - 1)
      BY <3>1, <3>5, <3>6
    <3>8. j \in 1 .. d + i - 1 /\ (o - 1) = (d + i - 1)
      BY <3>4, <3>7, Zenon
    <3>9. \A x \in j + 1 .. d + i - 1 : ms[x].role \in Soft
      BY <3>4, <3>8, Zenon
    <3> QED BY <3>4, <3>8, <3>9, Zenon
  <2>4. CASE j > d + h
    <3>1. j - d \in 1 .. i - 1 /\ j - d \in h + 1 .. k /\ d + (j - d) = j
      BY <1>1, <1>3, <2>4
    <3>2. W[j - d] = ms[j]
      BY <1>1, <3>1
    <3>3. ASSUME NEW x \in (j - d) + 1 .. i - 1 PROVE W[x].role \in Soft
      <4>1. x \in h + 1 .. k /\ d + x \in j + 1 .. d + i - 1
        BY <1>1, <1>3, <2>4
      <4> QED BY <1>1, <2>3, <4>1
    <3> QED BY <2>3, <3>1, <3>2, <3>3 DEF Before
  <2>5. CASE ~(j > d + h)
    <3>1. ASSUME NEW x \in 1 .. i - 1 PROVE W[x].role \in Soft
      <4>1. CASE x \in h + 1 .. k
        <5>1. d + x \in j + 1 .. d + i - 1
          BY <1>1, <1>3, <2>5, <4>1
        <5> QED BY <1>1, <2>3, <4>1, <5>1
      <4>2. CASE x \notin h + 1 .. k
        <5>1. h = 1 /\ x = 1
          BY <1>1, <1>3, <4>2
        <5> QED BY <1>1, <1>3, <5>1 DEF Soft
      <4> QED BY <4>1, <4>2
    <3> QED BY <3>1 DEF Alone
  <2> QED BY <2>4, <2>5
<1> QED BY <1>2, <1>4, <1>5 DEF Ordered, W, k

(* ResultsFollowCalls: of a client that answers calls right away, every    *)
(* result in any window comes in the turn right behind the model's with    *)
(* the call, however many results and system messages come between, but    *)
(* for those in the first turn whose call the window cut.                  *)
THEOREM ResultsDoFollow == ConvSpec => []ResultsFollowCalls
<1>1. Typed => ResultsFollowCalls
  <2> SUFFICES ASSUME Typed, Orderly(messages), NEW p \in {"anthropic", "gemini"},
                      NEW ms \in Windows
               PROVE  LET turns == Turns(p, ms) IN
                      \A k \in DOMAIN turns : \A part \in ToSet(turns[k].parts) :
                         part.kind = "result" =>
                            \/ k = 1 /\ ms # messages
                            \/ /\ k > 1 /\ Asks(p, turns[k - 1], part.call)
                               /\ k > 2 => turns[k - 1].role \in {"assistant", "model"}
    BY DEF ResultsFollowCalls
  <2>1. messages \in Seq(Message) /\ ms \in Seq(Message) /\ p \in Merging
    BY WindowsTyped DEF Typed, Merging
  <2>2. PICK n \in 0 .. MaxMessages : ms = Window(messages, n)
    BY DEF Windows
  <2>3. n \in Nat
    BY ConversationAssumption
  <2>4. Ordered(TRUE, ms) /\ Ordered(FALSE, messages)
    BY <2>1, <2>2, <2>3, WindowOrdered
  <2>5. Ordered(ms # messages, ms)
    BY <2>4, Zenon
  <2>6. (ms # messages) \in BOOLEAN
    OBVIOUS
  <2> DEFINE cut == ms # messages
  <2> HIDE DEF cut
  <2>7. cut \in BOOLEAN /\ Ordered(cut, ms)
    BY <2>5, <2>6 DEF cut
  <2>8. LET turns == Turns(p, ms) IN
        \A k \in DOMAIN turns : \A part \in ToSet(turns[k].parts) :
           part.kind = "result" =>
              \/ k = 1 /\ cut
              \/ /\ k > 1 /\ Asks(p, turns[k - 1], part.call)
                 /\ k > 2 => turns[k - 1].role \in {"assistant", "model"}
    BY <2>1, <2>7, TurnsMatch
  <2> QED BY <2>8, Zenon DEF cut
<1> QED BY <1>1, MessagesTyped, PTL

(* EchoesReply: what a model replied it reads in the next request as it    *)
(* was, its text and then its calls in order at the end of the last turn:  *)
(* transformRequest undoes what transformResponse did.                     *)
THEOREM RepliesAreEchoed == ConvSpec => EchoesReply
<1> DEFINE A == \A blocks \in Blocks, ms \in {messages'} :
         LET text == IF HasText(blocks) THEN <<Text(Len(ms))>> ELSE <<>> IN
         /\ Reply("anthropic", blocks) =>
               IsSuffix(text \o CallsIn(blocks), Last(AnthropicTurns(ms)).parts)
         /\ Reply("gemini", blocks) =>
               IsSuffix(text \o CallsIn(ByName(blocks)), Last(GeminiTurns(ms)).parts)
<1>1. Typed => A
  <2> SUFFICES ASSUME Typed, NEW blocks \in Blocks, NEW ms, ms = messages'
               PROVE  LET text == IF HasText(blocks) THEN <<Text(Len(ms))>> ELSE <<>> IN
                      /\ Reply("anthropic", blocks) =>
                            IsSuffix(text \o CallsIn(blocks), Last(AnthropicTurns(ms)).parts)
                      /\ Reply("gemini", blocks) =>
                            IsSuffix(text \o CallsIn(ByName(blocks)),
                                     Last(GeminiTurns(ms)).parts)
    OBVIOUS
  <2>1. messages \in Seq(Message) /\ Number \in Nat /\ Number # 0
    <3>1. Len(messages) \in Nat
      BY LenProperties DEF Typed
    <3> QED BY <3>1 DEF Typed, Number
  <2> DEFINE text == IF HasText(blocks) THEN <<Text(Number)>> ELSE <<>>
  <2>2. ASSUME NEW m \in Message, ms = Append(messages, m) PROVE Len(ms) = Number
    BY <2>1, <2>2, AppendProperties DEF Number
  <2>3. ASSUME Reply("anthropic", blocks)
        PROVE  /\ IsSuffix(text \o CallsIn(blocks), Last(AnthropicTurns(ms)).parts)
               /\ Len(ms) = Number
    <3> DEFINE m == AnthropicResponse(blocks, Number)
    <3>1. ms = Append(messages, m)
      BY <2>3 DEF Reply
    <3>2. /\ m \in Aloud /\ m.role = "assistant" /\ TextOf(m) = text
          /\ CallsOf("anthropic", m) = CallsIn(blocks)
      BY <2>1, AnthropicReads
    <3> HIDE DEF m, text
    <3>3. Body("anthropic", m) = text \o CallsIn(blocks)
      BY <3>2 DEF Body
    <3>4. Turns("anthropic", ms) = AnthropicTurns(ms)
      BY DEF Turns
    <3>5. IsSuffix(Body("anthropic", m), Last(Turns("anthropic", Append(messages, m))).parts)
      BY <2>1, <3>2, LastSays DEF Merging
    <3>6. m \in Message
      BY <3>2 DEF Aloud
    <3> QED BY <2>2, <3>1, <3>3, <3>4, <3>5, <3>6
  <2>4. ASSUME Reply("gemini", blocks)
        PROVE  /\ IsSuffix(text \o CallsIn(ByName(blocks)), Last(GeminiTurns(ms)).parts)
               /\ Len(ms) = Number
    <3> DEFINE m == GeminiResponse(ByName(blocks), Number)
    <3>1. ms = Append(messages, m)
      BY <2>4 DEF Reply
    <3>2. /\ m \in Aloud /\ m.role = "assistant" /\ TextOf(m) = text
          /\ CallsOf("gemini", m) = CallsIn(ByName(blocks))
      BY <2>1, GeminiReads
    <3> HIDE DEF m, text
    <3>3. Body("gemini", m) = text \o CallsIn(ByName(blocks))
      BY <3>2 DEF Body
    <3>4. Turns("gemini", ms) = GeminiTurns(ms)
      BY DEF Turns
    <3>5. IsSuffix(Body("gemini", m), Last(Turns("gemini", Append(messages, m))).parts)
      BY <2>1, <3>2, LastSays DEF Merging
    <3>6. m \in Message
      BY <3>2 DEF Aloud
    <3> QED BY <2>2, <3>1, <3>3, <3>4, <3>5, <3>6
  <2> QED BY <2>3, <2>4
<1>2. Typed => [A]_messages
  BY <1>1
<1> QED BY <1>2, MessagesTyped, PTL DEF EchoesReply
============================================================================
