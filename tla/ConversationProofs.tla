-------------------------- MODULE ConversationProofs --------------------------
(***************************************************************************)
(* What holds of Conversation for any number of messages, changes and      *)
(* events under way, any page and any limit of loadMessages.  First what   *)
(* the operators on sequences, tables and pages return; then the types,    *)
(* with what makes them inductive: whatever is under way was given out by  *)
(* the server (Served).  NothingLost follows from what a step can do to    *)
(* the view (ViewEffect), DuplicateOnlyOfOwnSend from how often a message  *)
(* is there while its send is under way (Once), HistoryWhole from the set  *)
(* of messages the app knows nothing of (Untold), which no step adds to    *)
(* and which lies before all that is known.                                *)
(***************************************************************************)
EXTENDS Conversation, FiniteSetTheorems, SequenceTheorems, TLAPS

(* Sequences of messages *)

LEMMA InOrderLists ==
  ASSUME NEW S \in SUBSET Nat, IsFiniteSet(S)
  PROVE  LET s == InOrder(S) IN
         /\ s \in Seq(S) /\ DOMAIN s = 1 .. Cardinality(S) /\ Len(s) = Cardinality(S)
         /\ \A k, l \in DOMAIN s : s[k] = s[l] => k = l
         /\ \A i \in S : \E k \in DOMAIN s : s[k] = i
<1> DEFINE n == Cardinality(S)
           below(i) == {j \in S : j < i}
           rank == [i \in S |-> Cardinality(below(i))]
           s == InOrder(S)
<1>1. n \in Nat
  BY FS_CardinalityType
<1>2. \A i \in S : IsFiniteSet(below(i)) /\ rank[i] \in 0 .. n - 1
  <2> TAKE i \in S
  <2>1. IsFiniteSet(below(i)) /\ Cardinality(below(i)) <= n
        /\ (n = Cardinality(below(i)) => S = below(i))
    BY FS_Subset
  <2>2. Cardinality(below(i)) \in Nat
    BY <2>1, FS_CardinalityType
  <2>3. i \notin below(i)
    OBVIOUS
  <2>4. S # below(i)
    BY <2>3
  <2> QED
    BY <1>1, <2>1, <2>2, <2>4
<1>3. ASSUME NEW i \in S, NEW j \in S, i < j PROVE rank[i] < rank[j]
  <2>0. i \in Nat /\ j \in Nat
    OBVIOUS
  <2>1. below(i) \subseteq below(j) /\ i \in below(j) /\ i \notin below(i)
    <3>1. \A k \in S : k < i => k < j
      BY <2>0, <1>3
    <3>2. ~(i < i)
      BY <2>0
    <3> QED
      BY <3>1, <3>2, <1>3
  <2>2. Cardinality(below(i)) <= Cardinality(below(j))
        /\ (Cardinality(below(j)) = Cardinality(below(i)) => below(j) = below(i))
    BY <1>2, <2>1, FS_Subset
  <2>3. below(i) # below(j)
    BY <2>1
  <2>4. Cardinality(below(i)) \in Nat /\ Cardinality(below(j)) \in Nat
    BY <1>2, FS_CardinalityType
  <2> QED
    BY <2>2, <2>3, <2>4
<1> HIDE DEF below
<1>4. rank \in [S -> 0 .. n - 1] /\ \A i, j \in S : rank[i] = rank[j] => i = j
  <2>1. \A i \in S : rank[i] \in 0 .. n - 1
    BY <1>2
  <2>2. \A i, j \in S : i < j => rank[i] < rank[j]
    BY <1>3
  <2>3. \A i, j \in S : rank[i] = rank[j] => i = j
    BY <2>1, <2>2, <1>1
  <2> QED
    BY <2>1, <2>3
<1>5. \A k \in 0 .. n - 1 : \E i \in S : rank[i] = k
  <2>1. rank \in Injection(S, 0 .. n - 1)
    BY <1>4 DEF Injection, IsInjective
  <2>2. IsFiniteSet(0 .. n - 1) /\ Cardinality(0 .. n - 1) = n
    <3>1. n - 1 \in Int /\ 0 \in Int
      BY <1>1
    <3> HIDE DEF n
    <3>2. IsFiniteSet(0 .. n - 1)
          /\ Cardinality(0 .. n - 1) = IF 0 > n - 1 THEN 0 ELSE (n - 1) - 0 + 1
      BY <3>1, FS_Interval
    <3> QED
      BY <1>1, <3>2
  <2>3. rank \in Surjection(S, 0 .. n - 1)
    BY <2>1, <2>2, FS_Injection
  <2> QED
    BY <2>3 DEF Surjection
<1>6. DOMAIN s = 1 .. n
  BY DEF InOrder
<1>7. \A k \in 1 .. n : s[k] \in S /\ rank[s[k]] = k - 1
  <2> TAKE k \in 1 .. n
  <2>1. s[k] = CHOOSE i \in S : rank[i] = k - 1
    <3>1. s[k] = CHOOSE i \in S : Cardinality(below(i)) = k - 1
      BY DEF InOrder, below
    <3>2. \A i \in S : rank[i] = Cardinality(below(i))
      OBVIOUS
    <3> QED
      BY <3>1, <3>2
  <2>2. \E i \in S : rank[i] = k - 1
    BY <1>1, <1>5
  <2> QED
    BY <2>1, <2>2
<1>8. s \in [1 .. n -> S] /\ s \in Seq(S) /\ Len(s) = n
  <2>1. s \in [1 .. n -> S]
    <3> DEFINE c(k) == CHOOSE i \in S : Cardinality({j \in S : j < i}) = k - 1
    <3>1. s = [k \in 1 .. n |-> c(k)]
      BY DEF InOrder
    <3>2. \A k \in 1 .. n : c(k) \in S
      BY <3>1, <1>7
    <3> HIDE DEF s, n, c
    <3> QED
      BY <3>1, <3>2
  <2> HIDE DEF s, n
  <2> QED
    BY <2>1, <1>1
<1>9. \A i \in S : \E k \in 1 .. n : s[k] = i
  <2> TAKE i \in S
  <2>1. rank[i] + 1 \in 1 .. n
    BY <1>1, <1>2
  <2>2. s[rank[i] + 1] \in S /\ rank[s[rank[i] + 1]] = rank[i]
    BY <2>1, <1>7, <1>4
  <2> QED
    BY <2>1, <2>2, <1>4
<1>10. \A k, l \in 1 .. n : s[k] = s[l] => k = l
  <2> HIDE DEF s, n, rank
  <2> QED
    BY <1>7, <1>1
<1> QED
  BY <1>6, <1>8, <1>9, <1>10

LEMMA StoredTable ==
  ASSUME NEW table \in [Ids -> 0 .. 2], NEW items \in SUBSET Item
  PROVE  LET t == Stored(table, items) IN
         /\ t \in [Ids -> 0 .. 2]
         /\ \A i \in Ids : \/ t[i] = table[i] /\ \A m \in items : m.id # i
                           \/ \E m \in items : m.id = i /\ t[i] = m.ver
<1> DEFINE t == Stored(table, items)
           of(i) == CHOOSE m \in items : m.id = i
           v(i) == IF \E m \in items : m.id = i THEN of(i).ver ELSE table[i]
<1>1. t = [i \in Ids |-> v(i)]
  BY DEF Stored
<1>2. \A i \in Ids : (\E m \in items : m.id = i) => of(i) \in items /\ of(i).id = i
  OBVIOUS
<1> HIDE DEF of
<1>3. \A i \in Ids : /\ v(i) \in 0 .. 2
                     /\ \/ v(i) = table[i] /\ \A m \in items : m.id # i
                        \/ \E m \in items : m.id = i /\ v(i) = m.ver
  <2> TAKE i \in Ids
  <2>1. CASE \E m \in items : m.id = i
    <3>1. of(i) \in Item /\ v(i) = of(i).ver
      BY <1>2, <2>1
    <3> QED
      BY <3>1, <1>2, <2>1 DEF Item
  <2>2. CASE ~ \E m \in items : m.id = i
    BY <2>2
  <2> QED
    BY <2>1, <2>2
<1> HIDE DEF t, v
<1>4. t \in [Ids -> 0 .. 2] /\ \A i \in Ids : t[i] = v(i)
  BY <1>1, <1>3
<1> QED
  BY <1>3, <1>4 DEF t

LEMMA IdsFinite ==
  ASSUME NEW S \in SUBSET Ids
  PROVE  S \in SUBSET Nat /\ IsFiniteSet(S) /\ Cardinality(S) \in Nat
<1>1. MaxMessages \in Nat
  BY BoundsAssumption
<1>2. IsFiniteSet(Ids) /\ Ids \subseteq Nat
  BY <1>1, FS_Interval DEF Ids
<1> QED
  BY <1>2, FS_Subset, FS_CardinalityType

(* What loadMessages shows: cached messages, each once; all of them unless   *)
(* there are more than the limit.                                            *)
LEMMA LoadedFromTable ==
  ASSUME NEW table \in [Ids -> 0 .. 2]
  PROVE  LET s == LoadMessages(table) IN
         /\ s \in Seq(Item)
         /\ \A k \in DOMAIN s : table[s[k].id] > 0 /\ s[k].ver = table[s[k].id]
         /\ \A k, l \in DOMAIN s : s[k].id = s[l].id => k = l
         /\ \A i \in Ids : table[i] > 0 /\ Cardinality({j \in Ids : table[j] > 0}) <= Limit
                             => \E k \in DOMAIN s : s[k].id = i
<1> DEFINE S == {i \in Ids : table[i] > 0}
           ids == InOrder(S)
           n == IF Len(ids) > Limit THEN Limit ELSE Len(ids)
           s == LoadMessages(table)
<1>1. S \in SUBSET Ids
  OBVIOUS
<1>2. S \in SUBSET Nat /\ IsFiniteSet(S) /\ Cardinality(S) \in Nat
  BY <1>1, IdsFinite
<1>3. \A i \in S : table[i] \in 1 .. 2 /\ i \in Ids
  OBVIOUS
<1> HIDE DEF S
<1>4. /\ ids \in Seq(S) /\ DOMAIN ids = 1 .. Cardinality(S) /\ Len(ids) = Cardinality(S)
      /\ \A k, l \in DOMAIN ids : ids[k] = ids[l] => k = l
      /\ \A i \in S : \E k \in DOMAIN ids : ids[k] = i
  BY <1>2, InOrderLists
<1>5. Limit \in Nat \ {0}
  BY SizesAssumption
<1> HIDE DEF ids
<1>6. n \in Nat /\ n <= Len(ids) /\ (Cardinality(S) <= Limit => n = Len(ids))
  BY <1>2, <1>4, <1>5
<1>7. s = [k \in 1 .. n |-> [id |-> ids[k], ver |-> table[ids[k]]]]
  BY DEF LoadMessages, S, ids
<1> HIDE DEF n, s
<1>8. \A k \in 1 .. n : k \in DOMAIN ids /\ ids[k] \in S
  BY <1>2, <1>4, <1>6
<1>9. \A k \in 1 .. n : s[k] \in Item /\ s[k].id = ids[k] /\ s[k].ver = table[ids[k]]
  BY <1>3, <1>7, <1>8 DEF Item
<1>10. s \in [1 .. n -> Item]
  <2>1. \A k \in 1 .. n : [id |-> ids[k], ver |-> table[ids[k]]] \in Item
    BY <1>3, <1>8 DEF Item
  <2> QED
    BY <1>7, <2>1
<1>11. s \in Seq(Item) /\ DOMAIN s = 1 .. n
  BY <1>6, <1>10
<1>12. \A k \in DOMAIN s : table[s[k].id] > 0 /\ s[k].ver = table[s[k].id]
  BY <1>3, <1>8, <1>9, <1>11
<1>13. \A k, l \in DOMAIN s : s[k].id = s[l].id => k = l
  BY <1>4, <1>8, <1>9, <1>11
<1>14. ASSUME NEW i \in Ids, table[i] > 0, Cardinality(S) <= Limit
       PROVE  \E k \in DOMAIN s : s[k].id = i
  <2>1. i \in S
    BY <1>14 DEF S
  <2>2. PICK k \in DOMAIN ids : ids[k] = i
    BY <2>1, <1>4
  <2>3. k \in 1 .. n
    BY <1>14, <1>4, <1>6
  <2> QED
    BY <2>2, <2>3, <1>9, <1>11
<1> QED
  BY <1>11, <1>12, <1>13, <1>14 DEF s, S

Occurs(s, i) == Cardinality({k \in DOMAIN s : s[k].id = i})

LEMMA OccursFinite ==
  ASSUME NEW s \in Seq(Item), NEW i
  PROVE  /\ IsFiniteSet({k \in DOMAIN s : s[k].id = i})
         /\ Occurs(s, i) \in Nat
         /\ (\A k \in DOMAIN s : s[k].id # i) => Occurs(s, i) = 0
         /\ (\A k, l \in DOMAIN s : s[k].id = s[l].id => k = l) => Occurs(s, i) <= 1
<1> DEFINE D == {k \in DOMAIN s : s[k].id = i}
<1>1. Len(s) \in Nat /\ DOMAIN s = 1 .. Len(s)
  BY LenProperties
<1>2. IsFiniteSet(1 .. Len(s))
  BY <1>1, FS_Interval
<1>3. D \in SUBSET (1 .. Len(s))
  BY <1>1
<1>4. IsFiniteSet(D) /\ Cardinality(D) \in Nat
  BY <1>2, <1>3, FS_Subset, FS_CardinalityType
<1>5. ASSUME \A k \in DOMAIN s : s[k].id # i PROVE Cardinality(D) = 0
  <2>1. D = {}
    BY <1>5
  <2> QED
    BY <2>1, FS_EmptySet
<1>6. ASSUME \A k, l \in DOMAIN s : s[k].id = s[l].id => k = l PROVE Cardinality(D) <= 1
  <2>1. CASE D = {}
    <3>1. Cardinality(D) = 0
      BY <2>1, FS_EmptySet
    <3> QED
      BY <3>1
  <2>2. CASE D # {}
    <3>1. PICK k \in D : TRUE
      BY <2>2
    <3>2. D = {k}
      BY <1>6
    <3>3. Cardinality(D) = 1
      BY <3>2, FS_Singleton
    <3> QED
      BY <3>3
  <2> QED
    BY <2>1, <2>2
<1> QED
  BY <1>4, <1>5, <1>6 DEF Occurs

LEMMA OccursAppended ==
  ASSUME NEW s \in Seq(Item), NEW m \in Item
  PROVE  \A i : Occurs(Append(s, m), i) = Occurs(s, i) + IF m.id = i THEN 1 ELSE 0
<1> DEFINE t == Append(s, m)
           D(i) == {k \in DOMAIN s : s[k].id = i}
           E(i) == {k \in DOMAIN t : t[k].id = i}
<1>1. /\ t \in Seq(Item) /\ Len(t) = Len(s) + 1
      /\ \A k \in 1 .. Len(s) : t[k] = s[k]
      /\ t[Len(s) + 1] = m
  BY AppendProperties
<1>2. Len(s) \in Nat /\ DOMAIN s = 1 .. Len(s) /\ DOMAIN t = 1 .. Len(s) + 1
  BY <1>1, LenProperties
<1> HIDE DEF t
<1> TAKE i
<1>3. IsFiniteSet(D(i)) /\ Cardinality(D(i)) \in Nat
  BY OccursFinite DEF Occurs
<1>4. CASE m.id = i
  <2>1. E(i) = D(i) \cup {Len(s) + 1} /\ Len(s) + 1 \notin D(i)
    BY <1>1, <1>2, <1>4
  <2>2. Cardinality(E(i)) = Cardinality(D(i)) + 1
    BY <2>1, <1>3, FS_AddElement
  <2>3. Occurs(t, i) = Cardinality(E(i)) /\ Occurs(s, i) = Cardinality(D(i))
    BY DEF Occurs
  <2> HIDE DEF D, E
  <2> QED
    BY <2>2, <2>3, <1>4 DEF t
<1>5. CASE m.id # i
  <2>1. E(i) = D(i)
    BY <1>1, <1>2, <1>5
  <2> QED
    <3>1. Occurs(t, i) = Cardinality(E(i)) /\ Occurs(s, i) = Cardinality(D(i))
      BY DEF Occurs
    <3> HIDE DEF D, E
    <3> QED
      BY <2>1, <3>1, <1>3, <1>5 DEF t
<1> QED
  BY <1>4, <1>5

(* Without(i) keeps every other message, and no other more often.            *)
LEMMA WithoutKeeps ==
  ASSUME shown \in Seq(Item), NEW i
  PROVE  LET s == Without(i) IN
         /\ s \in Seq(Item)
         /\ \A n \in DOMAIN s : \E k \in DOMAIN shown : s[n] = shown[k] /\ shown[k].id # i
         /\ \A k \in DOMAIN shown : shown[k].id # i => \E n \in DOMAIN s : s[n] = shown[k]
         /\ \A j : Occurs(s, j) <= Occurs(shown, j)
<1> DEFINE S == {k \in DOMAIN shown : shown[k].id # i}
           others == InOrder(S)
           s == Without(i)
<1>1. Len(shown) \in Nat /\ DOMAIN shown = 1 .. Len(shown)
  BY LenProperties
<1>2. S \in SUBSET Nat /\ IsFiniteSet(S)
  <2>1. IsFiniteSet(1 .. Len(shown)) /\ S \in SUBSET (1 .. Len(shown))
    BY <1>1, FS_Interval
  <2> QED
    BY <2>1, <1>1, FS_Subset
<1>3. S \subseteq DOMAIN shown /\ \A k \in S : shown[k].id # i /\ shown[k] \in Item
  BY <1>1, ElementOfSeq
<1>4. \A k \in DOMAIN shown : shown[k].id # i => k \in S
  OBVIOUS
<1> HIDE DEF S
<1>5. /\ others \in Seq(S) /\ DOMAIN others = 1 .. Cardinality(S)
      /\ \A k, l \in DOMAIN others : others[k] = others[l] => k = l
      /\ \A k \in S : \E n \in DOMAIN others : others[n] = k
  BY <1>2, InOrderLists
<1>6. \A n \in DOMAIN others : others[n] \in S
  BY <1>5, ElementOfSeq, LenProperties
<1>7. s = [n \in DOMAIN others |-> shown[others[n]]]
  BY DEF Without, S, others
<1> HIDE DEF others, s
<1>8. s \in Seq(Item) /\ DOMAIN s = DOMAIN others
  <2>1. \A n \in DOMAIN others : shown[others[n]] \in Item
    BY <1>3, <1>6
  <2>2. s \in [DOMAIN others -> Item]
    BY <2>1, <1>7
  <2>3. Cardinality(S) \in Nat
    BY <1>2, FS_CardinalityType
  <2>4. s \in [1 .. Cardinality(S) -> Item]
    BY <2>2, <1>5
  <2>5. s \in Seq(Item)
    BY <2>3, <2>4
  <2> QED
    BY <2>2, <2>5
<1>9. \A n \in DOMAIN s : \E k \in DOMAIN shown : s[n] = shown[k] /\ shown[k].id # i
  BY <1>3, <1>6, <1>7, <1>8
<1>10. \A k \in DOMAIN shown : shown[k].id # i => \E n \in DOMAIN s : s[n] = shown[k]
  BY <1>4, <1>5, <1>7, <1>8
<1>11. \A j : Occurs(s, j) <= Occurs(shown, j)
  <2> TAKE j
  <2> DEFINE E == {n \in DOMAIN s : s[n].id = j}
             D == {k \in DOMAIN shown : shown[k].id = j}
             f == [n \in E |-> others[n]]
  <2>1. IsFiniteSet(D)
    BY OccursFinite
  <2>2. f \in [E -> D] /\ \A k, l \in E : f[k] = f[l] => k = l
    <3>1. \A n \in E : others[n] \in D
      BY <1>3, <1>6, <1>7, <1>8
    <3>2. \A k, l \in E : others[k] = others[l] => k = l
      BY <1>5, <1>8
    <3> QED
      BY <3>1, <3>2
  <2>3. f \in Injection(E, D)
    BY <2>2 DEF Injection, IsInjective
  <2> HIDE DEF E, D, f
  <2>4. Cardinality(E) <= Cardinality(D)
    BY <2>1, <2>3, FS_Injection
  <2> QED
    BY <2>4 DEF Occurs, E, D
<1> QED
  BY <1>8, <1>9, <1>10, <1>11 DEF s

LEMMA ReplacedKeeps ==
  ASSUME shown \in Seq(Item), NEW m \in Item
  PROVE  LET s == Replaced(m) IN
         /\ s \in Seq(Item) /\ DOMAIN s = DOMAIN shown
         /\ \A k \in DOMAIN shown : s[k].id = shown[k].id /\ (s[k] = shown[k] \/ s[k] = m)
         /\ \A j : Occurs(s, j) = Occurs(shown, j)
<1> DEFINE first == {k \in DOMAIN shown : /\ shown[k].id = m.id
                                          /\ \A j \in 1 .. k - 1 : shown[j].id # m.id}
           s == Replaced(m)
<1>1. Len(shown) \in Nat /\ DOMAIN shown = 1 .. Len(shown)
      /\ \A k \in DOMAIN shown : shown[k] \in Item
  BY LenProperties, ElementOfSeq
<1>2. s = [k \in DOMAIN shown |-> IF k \in first THEN m ELSE shown[k]]
  BY DEF Replaced
<1>3. \A k \in first : shown[k].id = m.id
  OBVIOUS
<1> HIDE DEF first, s
<1>4. s \in [1 .. Len(shown) -> Item]
  BY <1>1, <1>2
<1>5. s \in Seq(Item) /\ DOMAIN s = DOMAIN shown
  BY <1>1, <1>4
<1>6. \A k \in DOMAIN shown : s[k].id = shown[k].id /\ (s[k] = shown[k] \/ s[k] = m)
  BY <1>2, <1>3
<1>7. \A j : Occurs(s, j) = Occurs(shown, j)
  <2> TAKE j
  <2>1. {k \in DOMAIN s : s[k].id = j} = {k \in DOMAIN shown : shown[k].id = j}
    BY <1>5, <1>6
  <2> QED
    BY <2>1 DEF Occurs
<1> QED
  BY <1>5, <1>6, <1>7 DEF s
-----------------------------------------------------------------------------
(* A set of naturals that is not empty has a smallest element.               *)
LEMMA NatMinimum ==
  ASSUME NEW T \in SUBSET Nat, T # {}
  PROVE  \E x \in T : \A y \in T : x <= y
<1> DEFINE R == OpToRel(<, Nat)
<1>1. IsWellFoundedOn(R, Nat)
  BY NatLessThanWellFounded, Zenon
<1>2. \A x, y \in Nat : <<y, x>> \in R <=> y < x
  BY DEF OpToRel
<1> HIDE DEF R
<1>3. PICK x \in T : \A y \in T : ~ (<<y, x>> \in R)
  BY <1>1, WFMin
<1>4. \A y \in T : ~(y < x)
  BY <1>2, <1>3
<1> QED
  BY <1>4

(* What the server and the client have agreed on: a message it has given     *)
(* out, at a version it has or had.                                          *)
Served(m) == m.id <= top /\ m.ver <= version[m.id]

ServerOK == /\ top \in 0 .. MaxMessages /\ live \subseteq 1 .. top
            /\ version \in [Ids -> 1 .. 2]

QueuesOK == /\ bridgeQ \in Seq(Event) /\ mainQ \in Seq(Event)
            /\ \A k \in DOMAIN bridgeQ : Served(bridgeQ[k].item)
            /\ \A k \in DOMAIN mainQ : Served(mainQ[k].item)

CacheOK == /\ cache \in [Ids -> 0 .. 2]
           /\ \A i \in Cached : i <= top /\ cache[i] <= version[i]

ShownOK == shown \in Seq(Item) /\ \A k \in DOMAIN shown : Served(shown[k])

CallsOK == /\ calls \subseteq Call /\ IsFiniteSet(calls)
           /\ \A c \in calls : \A m \in c.items : Served(m)
           /\ \A c, d \in calls : c.op \in {"ask", "more"} /\ d.op \in {"ask", "more"} => c = d

HistoryOK == missed \subseteq Ids /\ own \subseteq Ids /\ kept \subseteq Ids

Room == UnderWay <= MaxUnderWay + 1

TypeInv == /\ ServerOK /\ QueuesOK /\ CacheOK /\ ShownOK /\ CallsOK /\ HistoryOK
           /\ Room /\ hasMore \in BOOLEAN

(* A page of the history is the newest part of what is live and older; a     *)
(* short one is all of it.                                                   *)
LEMMA HistoryPage ==
  ASSUME ServerOK, NEW before \in Nat
  PROVE  LET p == History(before) IN
         /\ p \in SUBSET Item /\ IsFiniteSet(p)
         /\ \A m \in p : m.id \in live /\ m.id < before /\ m.ver = version[m.id]
         /\ \A m \in p : \A i \in live : m.id < i /\ i < before => \E o \in p : o.id = i
         /\ Cardinality(p) < Page =>
              \A i \in live : i < before => \E o \in p : o.id = i
<1> DEFINE older == {i \in live : i < before}
           newer(i) == {k \in older : k > i}
           chosen == {j \in older : Cardinality(newer(j)) < Page}
           item(i) == [id |-> i, ver |-> version[i]]
           p == History(before)
<1>1. p = {item(i) : i \in chosen}
  BY DEF History
<1>2. older \in SUBSET Ids /\ live \subseteq Ids /\ Ids \subseteq Nat
  <2>1. live \subseteq Ids /\ Ids \subseteq Nat
    BY BoundsAssumption DEF ServerOK, Ids
  <2> QED
    BY <2>1
<1>3. \A i \in Ids : item(i) \in Item /\ item(i).id = i /\ item(i).ver = version[i]
  BY DEF Item, ServerOK
<1>4. \A m \in p : m \in Item /\ m.id \in chosen /\ m = item(m.id)
  BY <1>1, <1>2, <1>3
<1>5. \A i \in chosen : item(i) \in p
  BY <1>1
<1>6. Page \in Nat \ {0}
  BY SizesAssumption
<1>7. IsFiniteSet(older) /\ older \in SUBSET Nat
  BY <1>2, IdsFinite
<1>8. IsFiniteSet(chosen)
  BY <1>7, FS_Subset
<1>9. \A i : IsFiniteSet(newer(i)) /\ Cardinality(newer(i)) \in Nat
  <2> TAKE i
  <2>1. newer(i) \in SUBSET older
    OBVIOUS
  <2> QED
    BY <2>1, <1>7, FS_Subset, FS_CardinalityType
<1>10. chosen \subseteq older
  OBVIOUS
<1>11. \A j \in older : j \in chosen <=> Cardinality(newer(j)) < Page
  OBVIOUS
<1>12. \A i : newer(i) \subseteq older /\ \A k \in older : k \in newer(i) <=> k > i
  OBVIOUS
<1>13. \A i \in live : i < before <=> i \in older
  OBVIOUS
<1> HIDE DEF older, newer, chosen, item, p
<1>14. IsFiniteSet(p) /\ Cardinality(p) = Cardinality(chosen)
  <2> DEFINE f == [i \in chosen |-> item(i)]
  <2>1. f \in [chosen -> p] /\ \A m \in p : m.id \in chosen /\ f[m.id] = m
    BY <1>4, <1>5
  <2>2. \A i, j \in chosen : f[i] = f[j] => i = j
    <3>1. \A i \in chosen : f[i].id = i
      BY <1>2, <1>3, <1>10
    <3> QED
      BY <3>1
  <2> HIDE DEF f
  <2>3. f \in Surjection(chosen, p) /\ f \in Injection(chosen, p)
    BY <2>1, <2>2 DEF Surjection, Injection, IsInjective
  <2> QED
    BY <2>3, <1>8, FS_Surjection
<1>15. \A i, j \in older : i < j /\ i \in chosen => j \in chosen
  <2> TAKE i, j \in older
  <2> SUFFICES ASSUME i < j, i \in chosen PROVE j \in chosen
    OBVIOUS
  <2>1. newer(j) \subseteq newer(i)
    <3> SUFFICES ASSUME NEW k \in newer(j) PROVE k \in newer(i)
      OBVIOUS
    <3>1. k \in older /\ k > j
      BY <1>12
    <3>2. i \in Nat /\ j \in Nat /\ k \in Nat
      BY <3>1, <1>7
    <3> QED
      BY <3>1, <3>2, <1>12
  <2>2. Cardinality(newer(j)) <= Cardinality(newer(i))
    BY <2>1, <1>9, FS_Subset
  <2> QED
    BY <2>2, <1>6, <1>9, <1>11
<1>16. ASSUME Cardinality(p) < Page PROVE older \subseteq chosen
  <2> SUFFICES ASSUME older \ chosen # {} PROVE FALSE
    OBVIOUS
  <2> DEFINE T == {MaxMessages - x : x \in older \ chosen}
  <2>1. \A x \in older : x \in Nat /\ MaxMessages - x \in Nat
    BY <1>2, BoundsAssumption DEF Ids
  <2>2. T \in SUBSET Nat /\ T # {}
    BY <2>1
  <2>3. PICK y \in T : \A z \in T : y <= z
    BY <2>2, NatMinimum
  <2>4. PICK x \in older \ chosen : y = MaxMessages - x
    OBVIOUS
  <2>5. \A z \in older \ chosen : z <= x
    BY <2>1, <2>3, <2>4, BoundsAssumption
  <2>6. newer(x) \subseteq chosen
    BY <2>1, <2>5, <1>12
  <2>7. Cardinality(newer(x)) <= Cardinality(chosen)
    BY <2>6, <1>8, FS_Subset
  <2>8. ~(Cardinality(newer(x)) < Page)
    BY <1>11
  <2>9. Cardinality(chosen) \in Nat
    BY <1>8, FS_CardinalityType
  <2> QED
    BY <2>7, <2>8, <2>9, <1>6, <1>9, <1>14, <1>16
<1>17. \A m \in p : m.id \in live /\ m.id < before /\ m.ver = version[m.id]
  BY <1>2, <1>3, <1>4, <1>10 DEF older
<1>18. \A i \in chosen : \E o \in p : o.id = i
  BY <1>2, <1>3, <1>5, <1>10
<1> QED
  <2>1. p \in SUBSET Item
    BY <1>4
  <2>2. \A m \in p : \A i \in live : m.id < i /\ i < before => \E o \in p : o.id = i
    BY <1>4, <1>10, <1>13, <1>15, <1>18
  <2>3. Cardinality(p) < Page => \A i \in live : i < before => \E o \in p : o.id = i
    BY <1>13, <1>16, <1>18
  <2> QED
    BY <2>1, <2>2, <2>3, <1>14, <1>17 DEF p

(* Saving served messages adds them to the cache and drops none.             *)
LEMMA SavedAdds ==
  ASSUME ServerOK, CacheOK, NEW items \in SUBSET Item, \A m \in items : Served(m)
  PROVE  LET t == Saved(items) IN
         /\ t \in [Ids -> 0 .. 2]
         /\ \A i \in Ids : t[i] > 0 => i <= top /\ t[i] <= version[i]
         /\ \A i \in Ids : t[i] > 0 <=> i \in Cached \/ \E m \in items : m.id = i
<1> DEFINE t == Saved(items)
<1>1. /\ t \in [Ids -> 0 .. 2]
      /\ \A i \in Ids : \/ t[i] = cache[i] /\ \A m \in items : m.id # i
                        \/ \E m \in items : m.id = i /\ t[i] = m.ver
  BY StoredTable DEF Saved, CacheOK
<1> HIDE DEF t
<1>2. \A m \in items : m.ver \in 1 .. 2 /\ m.id \in Ids
  BY DEF Item
<1>3. \A i \in Ids : t[i] > 0 => i <= top /\ t[i] <= version[i]
  <2> TAKE i \in Ids
  <2>1. CASE t[i] = cache[i]
    BY <2>1 DEF CacheOK, Cached
  <2>2. CASE \E m \in items : m.id = i /\ t[i] = m.ver
    BY <2>2 DEF Served
  <2> QED
    BY <2>1, <2>2, <1>1
<1>4. \A i \in Ids : t[i] > 0 <=> i \in Cached \/ \E m \in items : m.id = i
  <2> TAKE i \in Ids
  <2>1. CASE t[i] = cache[i] /\ \A m \in items : m.id # i
    BY <2>1 DEF Cached
  <2>2. CASE \E m \in items : m.id = i /\ t[i] = m.ver
    BY <2>2, <1>2
  <2> QED
    BY <2>1, <2>2, <1>1
<1> QED
  BY <1>1, <1>3, <1>4 DEF t
-----------------------------------------------------------------------------
(* Types *)

Grows == top <= top' /\ \A i \in Ids : version[i] <= version'[i]

LEMMA StaysServed ==
  ASSUME ServerOK, ServerOK', Grows, NEW m \in Item, Served(m)
  PROVE  Served(m)'
<1>1. m.id \in Ids /\ m.ver \in 1 .. 2 /\ m.id \in Int
  BY BoundsAssumption DEF Item, Ids
<1>2. version[m.id] \in 1 .. 2 /\ version'[m.id] \in 1 .. 2
  BY <1>1 DEF ServerOK
<1>3. top \in Int /\ top' \in Int
  BY BoundsAssumption DEF ServerOK
<1> QED
  BY <1>1, <1>2, <1>3 DEF Served, Grows

NewMessage == top' = top + 1 /\ live' = live \cup {top + 1}

LEMMA CreatedServer ==
  ASSUME ServerOK, Created, NEW n, n = top + 1
  PROVE  /\ ServerOK' /\ Grows /\ NewMessage
         /\ n \in Ids /\ Served([id |-> n, ver |-> 1])'
<1>1. top \in Nat /\ top < MaxMessages /\ MaxMessages \in Nat
  BY BoundsAssumption DEF ServerOK, Created
<1>2. top + 1 \in Ids
  BY <1>1 DEF Ids
<1>3. NewMessage /\ version' = version
  BY DEF Created, NewMessage
<1>4. ServerOK'
  BY <1>1, <1>3 DEF ServerOK, NewMessage
<1>5. Grows
  <2>1. \A i \in Ids : version[i] \in 1 .. 2
    BY DEF ServerOK
  <2> QED
    BY <2>1, <1>1, <1>3 DEF Grows, NewMessage
<1>6. Served([id |-> n, ver |-> 1])'
  <2>1. version[n] \in 1 .. 2
    BY <1>2 DEF ServerOK
  <2> QED
    BY <2>1, <1>1, <1>3 DEF Served, NewMessage
<1> QED
  BY <1>2, <1>3, <1>4, <1>5, <1>6

LEMMA EditedServer ==
  ASSUME ServerOK, NEW i, Edited(i)
  PROVE  /\ ServerOK' /\ Grows /\ UNCHANGED <<top, live>>
         /\ i \in Ids /\ Served([id |-> i, ver |-> 2])'
<1>1. i \in live /\ version[i] = 1 /\ version' = [version EXCEPT ![i] = @ + 1]
      /\ UNCHANGED <<top, live>>
  BY DEF Edited
<1>2. i \in Ids /\ i <= top
  BY <1>1, BoundsAssumption DEF ServerOK, Ids
<1>3. version' \in [Ids -> 1 .. 2] /\ version'[i] = 2
      /\ \A j \in Ids : version[j] <= version'[j]
  BY <1>1, <1>2 DEF ServerOK
<1>4. ServerOK'
  BY <1>1, <1>3 DEF ServerOK
<1>5. Grows
  BY <1>1, <1>3 DEF Grows, ServerOK
<1>6. Served([id |-> i, ver |-> 2])'
  BY <1>1, <1>2, <1>3 DEF Served
<1> QED
  BY <1>1, <1>2, <1>4, <1>5, <1>6

LEMMA SameServer ==
  ASSUME ServerOK, live' \subseteq live, UNCHANGED <<top, version>>
  PROVE  ServerOK' /\ Grows
BY DEF ServerOK, Grows

LEMMA ServerStep ==
  ASSUME ServerOK, [Next]_vars
  PROVE  ServerOK' /\ Grows /\ (NewMessage \/ (UNCHANGED top /\ live' \subseteq live))
<1>1. CASE Created
  BY <1>1, CreatedServer
<1>2. CASE \E i : Edited(i)
  BY <1>2, EditedServer
<1>3. CASE live' \subseteq live /\ UNCHANGED <<top, version>>
  BY <1>3, SameServer
<1>4. Created \/ (\E i : Edited(i)) \/ (live' \subseteq live /\ UNCHANGED <<top, version>>)
  <2>1. CASE OthersSend \/ SendAnswered
    BY <2>1 DEF OthersSend, SendAnswered
  <2>2. CASE OthersEdit \/ EditAnswered
    BY <2>2 DEF OthersEdit, EditAnswered
  <2>3. CASE OthersDelete \/ DeleteEnds
    BY <2>3 DEF OthersDelete, DeleteEnds, Deleted, serverVars
  <2>4. CASE UNCHANGED serverVars
    BY <2>4 DEF serverVars
  <2>5. OthersSend \/ SendAnswered \/ OthersEdit \/ EditAnswered \/ OthersDelete
        \/ DeleteEnds \/ UNCHANGED serverVars
    BY DEF Next, vars, BridgeTakes, MainHandles, LoadAnswered, MoreAsked, MoreAnswered,
           MoreFails, PreloadAnswered, Asks, HistoryApplied, PreloadSaved, SendApplied,
           EditApplied, DeletePressed, Reopen
  <2> QED
    BY <2>1, <2>2, <2>3, <2>4, <2>5
<1> QED
  BY <1>1, <1>2, <1>3, <1>4
-----------------------------------------------------------------------------
(* The heads of the queues *)

LEMMA BridgeHead ==
  ASSUME QueuesOK, bridgeQ # <<>>
  PROVE  /\ Head(bridgeQ) = bridgeQ[1] /\ 1 \in DOMAIN bridgeQ
         /\ Head(bridgeQ) \in Event /\ Head(bridgeQ).item \in Item
         /\ Served(Head(bridgeQ).item)
<1>1. Len(bridgeQ) \in Nat \ {0} /\ DOMAIN bridgeQ = 1 .. Len(bridgeQ)
  BY EmptySeq, LenProperties DEF QueuesOK
<1>2. Head(bridgeQ) = bridgeQ[1] /\ 1 \in DOMAIN bridgeQ
  BY <1>1 DEF QueuesOK
<1>3. bridgeQ[1] \in Event
  BY <1>1, ElementOfSeq DEF QueuesOK
<1> QED
  BY <1>2, <1>3 DEF QueuesOK, Event

LEMMA MainHead ==
  ASSUME QueuesOK, mainQ # <<>>
  PROVE  /\ Head(mainQ) = mainQ[1] /\ 1 \in DOMAIN mainQ
         /\ Head(mainQ) \in Event /\ Head(mainQ).item \in Item
         /\ Served(Head(mainQ).item)
<1>1. Len(mainQ) \in Nat \ {0} /\ DOMAIN mainQ = 1 .. Len(mainQ)
  BY EmptySeq, LenProperties DEF QueuesOK
<1>2. Head(mainQ) = mainQ[1] /\ 1 \in DOMAIN mainQ
  BY <1>1 DEF QueuesOK
<1>3. mainQ[1] \in Event
  BY <1>1, ElementOfSeq DEF QueuesOK
<1> QED
  BY <1>2, <1>3 DEF QueuesOK, Event

(* Every write to the cache is a save of messages the server gave out.       *)
Saves(items) == /\ items \in SUBSET Item /\ \A m \in items : Served(m)
                /\ cache' = Saved(items)

LEMMA CallItems ==
  ASSUME CallsOK, NEW c \in calls
  PROVE  c.items \in SUBSET Item /\ \A m \in c.items : Served(m)
BY DEF CallsOK, Call

LEMMA HandledCases ==
  ASSUME MainHandles
  PROVE  /\ mainQ # <<>> /\ mainQ' = Tail(mainQ)
         /\ UNCHANGED <<serverVars, bridgeQ, hasMore, calls, missed, own>>
         /\ \/ Head(mainQ).kind = "new" /\ HandleNew(Head(mainQ).item)
            \/ Head(mainQ).kind = "edit" /\ HandleEdit(Head(mainQ).item)
            \/ Head(mainQ).kind \notin {"new", "edit"} /\ HandleDelete(Head(mainQ).item)
BY DEF MainHandles

LEMMA CacheWrites ==
  ASSUME TypeInv, [Next]_vars
  PROVE  UNCHANGED cache \/ \E items \in SUBSET Item : Saves(items)
<1> USE DEF TypeInv
<1>1. CASE BridgeTakes
  <2>1. CASE Head(bridgeQ).kind = "delete"
    BY <1>1, <2>1 DEF BridgeTakes
  <2>2. CASE Head(bridgeQ).kind # "delete"
    <3>1. bridgeQ # <<>> /\ cache' = Saved({Head(bridgeQ).item})
      BY <1>1, <2>2 DEF BridgeTakes
    <3> QED
      BY <3>1, BridgeHead DEF Saves
  <2> QED
    BY <2>1, <2>2
<1>2. CASE MainHandles
  <2>1. UNCHANGED cache \/ cache' = Saved({Head(mainQ).item})
    BY <1>2, HandledCases DEF HandleNew, HandleEdit, HandleDelete
  <2> QED
    BY <2>1, <1>2, HandledCases, MainHead DEF Saves
<1>3. CASE HistoryApplied \/ PreloadSaved \/ SendApplied \/ EditApplied
  <2>1. PICK c \in calls : cache' = Saved(c.items)
    BY <1>3 DEF HistoryApplied, PreloadSaved, SendApplied, EditApplied
  <2> QED
    BY <2>1, CallItems DEF Saves
<1>4. CASE UNCHANGED cache
  BY <1>4
<1>5. BridgeTakes \/ MainHandles \/ HistoryApplied \/ PreloadSaved \/ SendApplied
      \/ EditApplied \/ UNCHANGED cache
  BY DEF Next, vars, OthersSend, OthersEdit, OthersDelete, LoadAnswered, MoreAsked,
         MoreAnswered, MoreFails, PreloadAnswered, Asks, SendAnswered, EditAnswered,
         DeletePressed, DeleteEnds, Reopen
<1> QED
  BY <1>1, <1>2, <1>3, <1>4, <1>5

LEMMA CacheStep ==
  ASSUME TypeInv, [Next]_vars
  PROVE  CacheOK' /\ Cached \subseteq Cached'
<1> USE DEF TypeInv
<1>1. ServerOK' /\ Grows
  BY ServerStep
<1>2. \A i \in Ids : version[i] <= version'[i] /\ (i <= top => i <= top')
  <2>1. \A i \in Ids : i \in Int
    BY BoundsAssumption DEF Ids
  <2> QED
    BY <2>1, <1>1 DEF Grows, ServerOK
<1>3. CASE UNCHANGED cache
  <2>1. \A i \in Ids : cache[i] > 0 => i <= top' /\ cache[i] <= version'[i]
    <3> TAKE i \in Ids
    <3>1. version[i] \in 1 .. 2 /\ version'[i] \in 1 .. 2 /\ cache[i] \in 0 .. 2
      BY <1>1 DEF ServerOK, CacheOK
    <3> QED
      BY <3>1, <1>2 DEF CacheOK, Cached
  <2> QED
    BY <2>1, <1>3 DEF CacheOK, Cached
<1>4. ASSUME NEW items \in SUBSET Item, Saves(items)
      PROVE  CacheOK' /\ Cached \subseteq Cached'
  <2>1. /\ cache' \in [Ids -> 0 .. 2]
        /\ \A i \in Ids : cache'[i] > 0 => i <= top /\ cache'[i] <= version[i]
        /\ \A i \in Ids : cache'[i] > 0 <=> i \in Cached \/ \E m \in items : m.id = i
    BY <1>4, SavedAdds DEF Saves
  <2>2. \A i \in Ids : cache'[i] > 0 => i <= top' /\ cache'[i] <= version'[i]
    <3> TAKE i \in Ids
    <3>1. version[i] \in 1 .. 2 /\ version'[i] \in 1 .. 2 /\ cache'[i] \in 0 .. 2
      BY <1>1, <2>1 DEF ServerOK
    <3> QED
      BY <3>1, <2>1, <1>2
  <2>3. CacheOK'
    BY <2>1, <2>2 DEF CacheOK, Cached
  <2> QED
    BY <2>1, <2>3 DEF Cached
<1> QED
  BY <1>3, <1>4, CacheWrites
-----------------------------------------------------------------------------
(* Queues, calls and view, step by step *)

Ops == {"load", "ask", "more", "late", "preload", "send", "edit", "delete"}

LEMMA Sizes ==
  ASSUME TypeInv
  PROVE  /\ Len(bridgeQ) \in Nat /\ Len(mainQ) \in Nat /\ Cardinality(calls) \in Nat
         /\ UnderWay = Len(bridgeQ) + Len(mainQ) + Cardinality(calls)
         /\ UnderWay <= MaxUnderWay + 1 /\ MaxUnderWay \in Nat
<1>1. Len(bridgeQ) \in Nat /\ Len(mainQ) \in Nat
  BY LenProperties DEF TypeInv, QueuesOK
<1>2. Cardinality(calls) \in Nat
  BY FS_CardinalityType DEF TypeInv, CallsOK
<1> QED
  BY <1>1, <1>2, BoundsAssumption DEF TypeInv, UnderWay, Room

(* A sequence of events the server stands by, when it has t messages at the  *)
(* versions v.                                                               *)
Standing(q, t, v) ==
  q \in Seq(Event) /\ \A k \in DOMAIN q : q[k].item.id <= t /\ q[k].item.ver <= v[q[k].item.id]

LEMMA QueuesStanding ==
  QueuesOK <=> Standing(bridgeQ, top, version) /\ Standing(mainQ, top, version)
BY DEF QueuesOK, Standing, Served

LEMMA StandingStays ==
  ASSUME ServerOK, ServerOK', Grows, NEW q, Standing(q, top, version)
  PROVE  Standing(q, top', version')
<1>1. \A k \in DOMAIN q : q[k].item \in Item
  <2>1. \A k \in DOMAIN q : q[k] \in Event
    BY LenProperties, ElementOfSeq DEF Standing
  <2> QED
    BY <2>1 DEF Event
<1>2. \A k \in DOMAIN q : Served(q[k].item)
  BY DEF Standing, Served
<1>3. \A k \in DOMAIN q : q[k].item.id <= top' /\ q[k].item.ver <= version'[q[k].item.id]
  BY <1>1, <1>2, StaysServed DEF Served
<1> QED
  BY <1>3 DEF Standing

LEMMA AppendedStanding ==
  ASSUME NEW q, NEW t, NEW v, Standing(q, t, v), NEW e \in Event,
         e.item.id <= t, e.item.ver <= v[e.item.id]
  PROVE  Standing(Append(q, e), t, v) /\ Len(Append(q, e)) = Len(q) + 1
<1>1. /\ Append(q, e) \in Seq(Event) /\ Len(Append(q, e)) = Len(q) + 1
      /\ \A k \in 1 .. Len(q) : Append(q, e)[k] = q[k]
      /\ Append(q, e)[Len(q) + 1] = e
  BY AppendProperties DEF Standing
<1>2. Len(q) \in Nat /\ DOMAIN q = 1 .. Len(q) /\ DOMAIN Append(q, e) = 1 .. Len(q) + 1
  BY <1>1, LenProperties DEF Standing
<1> QED
  BY <1>1, <1>2 DEF Standing

LEMMA TailStanding ==
  ASSUME NEW q, NEW t, NEW v, Standing(q, t, v), q # <<>>
  PROVE  Standing(Tail(q), t, v) /\ Len(Tail(q)) = Len(q) - 1
<1>1. /\ Tail(q) \in Seq(Event) /\ Len(Tail(q)) = Len(q) - 1
      /\ \A k \in 1 .. Len(Tail(q)) : Tail(q)[k] = q[k + 1]
  BY HeadTailProperties DEF Standing
<1>2. Len(q) \in Nat /\ DOMAIN q = 1 .. Len(q) /\ DOMAIN Tail(q) = 1 .. Len(q) - 1
  BY <1>1, LenProperties DEF Standing
<1>3. \A k \in DOMAIN Tail(q) : k + 1 \in DOMAIN q /\ Tail(q)[k] = q[k + 1]
  BY <1>1, <1>2
<1> QED
  BY <1>1, <1>3 DEF Standing

LEMMA SuffixStanding ==
  ASSUME NEW q, NEW t, NEW v, Standing(q, t, v), NEW n \in 0 .. Len(q)
  PROVE  LET s == SubSeq(q, n + 1, Len(q)) IN
         /\ Standing(s, t, v) /\ Len(s) \in Nat /\ Len(s) <= Len(q)
         /\ \A k \in DOMAIN s : \E l \in DOMAIN q : s[k] = q[l]
<1> DEFINE s == SubSeq(q, n + 1, Len(q))
<1>1. Len(q) \in Nat /\ DOMAIN q = 1 .. Len(q) /\ n \in Nat
  BY LenProperties DEF Standing
<1>2. \A k \in n + 1 .. Len(q) : q[k] \in Event
  BY <1>1, ElementOfSeq DEF Standing
<1>3. n + 1 \in Int /\ Len(q) \in Int
  BY <1>1
<1>4. /\ s \in Seq(Event) /\ Len(s) = IF n + 1 <= Len(q) THEN Len(q) - (n + 1) + 1 ELSE 0
      /\ \A i \in 1 .. Len(q) - (n + 1) + 1 : s[i] = q[n + 1 + i - 1]
  BY <1>2, <1>3, SubSeqProperties
<1> HIDE DEF s
<1>5. Len(s) \in Nat /\ Len(s) = Len(q) - n /\ DOMAIN s = 1 .. Len(s)
  BY <1>1, <1>4, LenProperties
<1>6. \A k \in DOMAIN s : n + k \in DOMAIN q /\ s[k] = q[n + k]
  <2> TAKE k \in DOMAIN s
  <2>1. k \in 1 .. Len(q) - n
    BY <1>5
  <2>2. Len(q) - (n + 1) + 1 = Len(q) - n /\ n + 1 + k - 1 = n + k
    BY <1>1, <2>1
  <2>3. s[k] = q[n + k]
    BY <1>4, <2>1, <2>2
  <2>4. n + k \in 1 .. Len(q)
    BY <1>1, <2>1
  <2> QED
    BY <2>3, <2>4, <1>1
<1>7. \A k \in DOMAIN s : \E l \in DOMAIN q : s[k] = q[l]
  BY <1>6
<1>8. Standing(s, t, v)
  BY <1>4, <1>7 DEF Standing
<1>9. Len(s) <= Len(q)
  BY <1>1, <1>5
<1> QED
  BY <1>5, <1>7, <1>8, <1>9 DEF s

(* An event pushed or lost.                                                  *)
LEMMA PushQueues ==
  ASSUME TypeInv, ServerOK', Grows, NEW e \in Event, Served(e.item)',
         \/ bridgeQ' = Append(bridgeQ, e) /\ UnderWay < MaxUnderWay
         \/ UNCHANGED bridgeQ,
         UNCHANGED mainQ
  PROVE  /\ QueuesOK' /\ Len(mainQ') = Len(mainQ)
         /\ \/ Len(bridgeQ') = Len(bridgeQ) + 1 /\ UnderWay < MaxUnderWay
            \/ Len(bridgeQ') = Len(bridgeQ)
<1>1. Standing(bridgeQ, top', version') /\ Standing(mainQ, top', version')
  BY QueuesStanding, StandingStays DEF TypeInv
<1>2. e.item.id <= top' /\ e.item.ver <= version'[e.item.id]
  BY DEF Served
<1>3. Standing(Append(bridgeQ, e), top', version') /\ Len(Append(bridgeQ, e)) = Len(bridgeQ) + 1
  BY <1>1, <1>2, AppendedStanding
<1>4. QueuesOK'
  BY <1>1, <1>3 DEF QueuesOK, Standing, Served
<1> QED
  BY <1>3, <1>4

LEMMA QueuesStay ==
  ASSUME QueuesOK, ServerOK, ServerOK', Grows, UNCHANGED queues
  PROVE  QueuesOK' /\ Len(bridgeQ') = Len(bridgeQ) /\ Len(mainQ') = Len(mainQ)
<1>1. Standing(bridgeQ, top', version') /\ Standing(mainQ, top', version')
  BY QueuesStanding, StandingStays
<1>2. bridgeQ' = bridgeQ /\ mainQ' = mainQ
  BY DEF queues
<1> QED
  BY <1>1, <1>2 DEF QueuesOK, Standing, Served

LEMMA CallsStay ==
  ASSUME CallsOK, ServerOK, ServerOK', Grows, UNCHANGED calls
  PROVE  CallsOK'
<1>1. \A c \in calls : \A m \in c.items : m \in Item /\ Served(m)
  BY CallItems
<1>2. \A c \in calls : \A m \in c.items : Served(m)'
  BY <1>1, StaysServed
<1> QED
  BY <1>2 DEF CallsOK

LEMMA CallAdded ==
  ASSUME CallsOK, ServerOK, ServerOK', Grows,
         NEW op \in Ops, NEW items \in SUBSET Item, \A m \in items : Served(m)',
         op \in {"ask", "more"} => \A c \in calls : c.op \notin {"ask", "more"},
         calls' = calls \cup {[op |-> op, items |-> items]}
  PROVE  CallsOK' /\ Cardinality(calls') \in Nat /\ Cardinality(calls') <= Cardinality(calls) + 1
<1> DEFINE new == [op |-> op, items |-> items]
<1>1. \A c \in calls : \A m \in c.items : m \in Item /\ Served(m)
  BY CallItems
<1>2. \A c \in calls : \A m \in c.items : Served(m)'
  BY <1>1, StaysServed
<1>3. new \in Call /\ new.items = items /\ new.op = op
  BY DEF Call, Ops
<1>4. IsFiniteSet(calls') /\ Cardinality(calls') <= Cardinality(calls) + 1
  <2>1. /\ IsFiniteSet(calls \cup {new})
        /\ Cardinality(calls \cup {new}) =
             IF new \in calls THEN Cardinality(calls) ELSE Cardinality(calls) + 1
    BY FS_AddElement DEF CallsOK
  <2>2. Cardinality(calls) \in Nat
    BY FS_CardinalityType DEF CallsOK
  <2> HIDE DEF new
  <2> QED
    BY <2>1, <2>2 DEF new
<1>5. Cardinality(calls') \in Nat
  BY <1>4, FS_CardinalityType
<1> HIDE DEF new
<1>6. calls' = calls \cup {new}
  BY DEF new
<1>7. \A c, d \in calls' : c.op \in {"ask", "more"} /\ d.op \in {"ask", "more"} => c = d
  BY <1>3, <1>6 DEF CallsOK
<1> QED
  BY <1>2, <1>3, <1>4, <1>5, <1>6, <1>7 DEF CallsOK

LEMMA CallReplaced ==
  ASSUME CallsOK, ServerOK, ServerOK', Grows, NEW c \in calls,
         NEW op \in Ops, NEW items \in SUBSET Item, \A m \in items : Served(m)',
         op \in {"ask", "more"} => c.op \in {"ask", "more"},
         calls' = (calls \ {c}) \cup {[op |-> op, items |-> items]}
  PROVE  CallsOK' /\ Cardinality(calls') \in Nat /\ Cardinality(calls') <= Cardinality(calls)
<1> DEFINE new == [op |-> op, items |-> items]
<1>1. \A d \in calls : \A m \in d.items : m \in Item /\ Served(m)
  BY CallItems
<1>2. \A d \in calls : \A m \in d.items : Served(m)'
  BY <1>1, StaysServed
<1>3. new \in Call /\ new.items = items /\ new.op = op
  BY DEF Call, Ops
<1> HIDE DEF new
<1>4. PICK rest : rest = calls \ {c} /\ calls' = rest \cup {new}
  BY DEF new
<1>5. IsFiniteSet(rest) /\ Cardinality(rest) = Cardinality(calls) - 1
  BY <1>4, FS_RemoveElement DEF CallsOK
<1>6. /\ IsFiniteSet(calls')
      /\ Cardinality(calls') =
           IF new \in rest THEN Cardinality(rest) ELSE Cardinality(rest) + 1
  BY <1>4, <1>5, FS_AddElement
<1>7. Cardinality(calls) \in Nat /\ Cardinality(rest) \in Nat /\ Cardinality(calls') \in Nat
  BY <1>5, <1>6, FS_CardinalityType DEF CallsOK
<1>8. \A d, e \in calls' : d.op \in {"ask", "more"} /\ e.op \in {"ask", "more"} => d = e
  BY <1>3, <1>4 DEF CallsOK
<1>9. CallsOK'
  BY <1>2, <1>3, <1>4, <1>6, <1>8 DEF CallsOK
<1> QED
  BY <1>5, <1>6, <1>7, <1>9

LEMMA CallRemoved ==
  ASSUME CallsOK, ServerOK, ServerOK', Grows, NEW c \in calls, calls' = calls \ {c}
  PROVE  CallsOK' /\ Cardinality(calls') = Cardinality(calls) - 1
<1>1. \A d \in calls : \A m \in d.items : m \in Item /\ Served(m)
  BY CallItems
<1>2. \A d \in calls : \A m \in d.items : Served(m)'
  BY <1>1, StaysServed
<1>3. IsFiniteSet(calls') /\ Cardinality(calls') = Cardinality(calls) - 1
  BY FS_RemoveElement DEF CallsOK
<1> QED
  BY <1>2, <1>3 DEF CallsOK

(* What is left of a call when its view model is gone.                       *)
LEMMA DetachedCall ==
  ASSUME NEW c \in Call
  PROVE  /\ Detached(c) \in Call /\ Detached(c).items = c.items
         /\ Detached(c).op \in {"late", "preload", "delete"}
         /\ Detached(c).op \in {"late", "delete"} => c.op \in {"ask", "late", "delete"}
<1>1. CASE c.op = "delete"
  BY <1>1 DEF Detached
<1>2. CASE c.op # "delete"
  <2>1. PICK op \in {"late", "preload"} :
          /\ op = IF c.op \in {"ask", "late"} THEN "late" ELSE "preload"
          /\ Detached(c) = [c EXCEPT !.op = op]
    BY <1>2 DEF Detached
  <2>2. Detached(c) \in Call /\ Detached(c).op = op /\ Detached(c).items = c.items
    BY <2>1 DEF Call
  <2> QED
    BY <2>1, <2>2
<1> QED
  BY <1>1, <1>2

LEMMA CallsDetached ==
  ASSUME CallsOK, ServerOK, ServerOK', Grows, calls' = {Detached(c) : c \in calls}
  PROVE  CallsOK' /\ Cardinality(calls') \in Nat /\ Cardinality(calls') <= Cardinality(calls)
<1>1. \A d \in calls' : \E c \in calls : d = Detached(c)
  OBVIOUS
<1>2. \A d \in calls' : d \in Call /\ d.op \notin {"ask", "more"}
                       /\ \E c \in calls : d.items = c.items
  BY <1>1, DetachedCall DEF CallsOK
<1>3. \A c \in calls : \A m \in c.items : m \in Item /\ Served(m)
  BY CallItems
<1>4. \A d \in calls' : \A m \in d.items : Served(m)'
  BY <1>2, <1>3, StaysServed
<1>5. IsFiniteSet(calls') /\ Cardinality(calls') <= Cardinality(calls)
  <2> DEFINE f == [c \in calls |-> Detached(c)]
  <2>1. f \in Surjection(calls, calls')
    <3>1. f \in [calls -> calls']
      OBVIOUS
    <3>2. \A d \in calls' : \E c \in calls : f[c] = d
      BY <1>1
    <3> QED
      BY <3>1, <3>2 DEF Surjection
  <2> QED
    BY <2>1, FS_Surjection DEF CallsOK
<1>6. Cardinality(calls') \in Nat
  BY <1>5, FS_CardinalityType
<1> QED
  BY <1>2, <1>4, <1>5, <1>6 DEF CallsOK

(* The view shows what it showed before, or messages that were given out.    *)
LEMMA ShownFrom ==
  ASSUME ShownOK, ServerOK, ServerOK', Grows, shown' \in Seq(Item),
         \A k \in DOMAIN shown' : \/ \E l \in DOMAIN shown : shown'[k] = shown[l]
                                  \/ \E m \in Item : shown'[k] = m /\ Served(m)'
  PROVE  ShownOK'
<1>1. \A l \in DOMAIN shown : shown[l] \in Item /\ Served(shown[l])
  BY LenProperties, ElementOfSeq DEF ShownOK
<1>2. \A m \in Item : Served(m) => m.id <= top' /\ m.ver <= version'[m.id]
  BY StaysServed DEF Served
<1>3. \A k \in DOMAIN shown' : shown'[k].id <= top' /\ shown'[k].ver <= version'[shown'[k].id]
  <2> TAKE k \in DOMAIN shown'
  <2>1. CASE \E l \in DOMAIN shown : shown'[k] = shown[l]
    BY <2>1, <1>1, <1>2
  <2>2. CASE \E m \in Item : shown'[k] = m /\ Served(m)'
    BY <2>2 DEF Served
  <2> QED
    BY <2>1, <2>2
<1> QED
  BY <1>3 DEF ShownOK, Served

LEMMA ShownStays ==
  ASSUME ShownOK, ServerOK, ServerOK', Grows, UNCHANGED shown
  PROVE  ShownOK'
BY ShownFrom DEF ShownOK

LEMMA ShownAppended ==
  ASSUME ShownOK, ServerOK, ServerOK', Grows, NEW m \in Item, Served(m)',
         shown' = Append(shown, m)
  PROVE  ShownOK'
<1>1. /\ shown' \in Seq(Item) /\ Len(shown') = Len(shown) + 1
      /\ \A k \in 1 .. Len(shown) : shown'[k] = shown[k]
      /\ shown'[Len(shown) + 1] = m
  BY AppendProperties DEF ShownOK
<1>2. Len(shown) \in Nat /\ DOMAIN shown = 1 .. Len(shown) /\ DOMAIN shown' = 1 .. Len(shown) + 1
  BY <1>1, LenProperties DEF ShownOK
<1>3. \A k \in DOMAIN shown' : (k \in DOMAIN shown /\ shown'[k] = shown[k]) \/ shown'[k] = m
  BY <1>1, <1>2
<1> QED
  BY <1>1, <1>3, ShownFrom

LEMMA ShownReplaced ==
  ASSUME ShownOK, ServerOK, ServerOK', Grows, NEW m \in Item, Served(m)',
         shown' = Replaced(m)
  PROVE  ShownOK'
BY ReplacedKeeps, ShownFrom DEF ShownOK

LEMMA ShownWithout ==
  ASSUME ShownOK, ServerOK, ServerOK', Grows, NEW i, shown' = Without(i)
  PROVE  ShownOK'
<1>1. shown' \in Seq(Item) /\ \A k \in DOMAIN shown' : \E l \in DOMAIN shown : shown'[k] = shown[l]
  BY WithoutKeeps DEF ShownOK
<1> QED
  BY <1>1, ShownFrom

LEMMA ShownLoaded ==
  ASSUME CacheOK', shown' = LoadMessages(cache')
  PROVE  ShownOK'
<1>1. /\ shown' \in Seq(Item)
      /\ \A k \in DOMAIN shown' : cache'[shown'[k].id] > 0 /\ shown'[k].ver = cache'[shown'[k].id]
  BY LoadedFromTable DEF CacheOK
<1>2. \A k \in DOMAIN shown' : shown'[k] \in Item
  BY <1>1, LenProperties, ElementOfSeq
<1>3. \A k \in DOMAIN shown' : shown'[k].id \in Ids
  BY <1>2 DEF Item
<1> QED
  BY <1>1, <1>3 DEF ShownOK, CacheOK, Served, Cached
-----------------------------------------------------------------------------
(* Every step keeps the types *)

Rest == QueuesOK /\ ShownOK /\ CallsOK /\ HistoryOK /\ Room /\ hasMore \in BOOLEAN

LEMMA OthersTypes ==
  ASSUME TypeInv, ServerOK', Grows, OthersSend \/ OthersEdit \/ OthersDelete
  PROVE  Rest'
<1> USE DEF TypeInv
<1>1. UNCHANGED <<mainQ, cache, view, calls, own, kept>>
  BY DEF OthersSend, OthersEdit, OthersDelete
<1>2. PICK e \in Event : /\ Served(e.item)'
                         /\ \/ bridgeQ' = Append(bridgeQ, e) /\ UnderWay < MaxUnderWay
                            \/ UNCHANGED bridgeQ
                         /\ missed' = missed \/ missed' = missed \cup {e.item.id}
  <2>1. CASE OthersSend
    <3>1. PICK n : n = top + 1
      OBVIOUS
    <3>2. n \in Ids /\ Served([id |-> n, ver |-> 1])'
      BY <2>1, <3>1, CreatedServer DEF OthersSend
    <3>3. [kind |-> "new", item |-> [id |-> n, ver |-> 1]] \in Event
      BY <3>2 DEF Event, Item
    <3> QED
      BY <2>1, <3>1, <3>2, <3>3 DEF OthersSend, Push, Pushed
  <2>2. CASE OthersEdit
    <3>1. PICK i \in live : Edited(i) /\ Push("edit", i, 2)
      BY <2>2 DEF OthersEdit
    <3>2. i \in Ids /\ Served([id |-> i, ver |-> 2])'
      BY <3>1, EditedServer
    <3>3. [kind |-> "edit", item |-> [id |-> i, ver |-> 2]] \in Event
      BY <3>2 DEF Event, Item
    <3> QED
      BY <3>1, <3>2, <3>3 DEF Push, Pushed
  <2>3. CASE OthersDelete
    <3>1. PICK i \in live : Deleted(i) /\ Push("delete", i, version[i])
      BY <2>3 DEF OthersDelete
    <3>2. PICK v : v = version[i]
      OBVIOUS
    <3>3. i \in Ids /\ v \in 1 .. 2 /\ i <= top
      BY <3>2, BoundsAssumption DEF ServerOK, Ids
    <3>4. [kind |-> "delete", item |-> [id |-> i, ver |-> v]] \in Event
      BY <3>3 DEF Event, Item
    <3>5. Served([id |-> i, ver |-> v])'
      BY <3>1, <3>2, <3>3 DEF Deleted, Served
    <3> QED
      BY <3>1, <3>2, <3>4, <3>5 DEF Push, Pushed
  <2> QED
    BY <2>1, <2>2, <2>3
<1>3. /\ QueuesOK' /\ Len(mainQ') = Len(mainQ)
      /\ \/ Len(bridgeQ') = Len(bridgeQ) + 1 /\ UnderWay < MaxUnderWay
         \/ Len(bridgeQ') = Len(bridgeQ)
  BY <1>1, <1>2, PushQueues
<1>4. ShownOK' /\ CallsOK'
  BY <1>1, ShownStays, CallsStay DEF view
<1>5. HistoryOK'
  BY <1>1, <1>2 DEF HistoryOK, Event, Item
<1>6. Room'
  BY <1>1, <1>3, Sizes DEF Room, UnderWay
<1> QED
  BY <1>1, <1>3, <1>4, <1>5, <1>6 DEF Rest, view

LEMMA BridgeTypes ==
  ASSUME TypeInv, ServerOK', Grows, BridgeTakes
  PROVE  Rest'
<1> USE DEF TypeInv
<1>1. /\ bridgeQ # <<>> /\ mainQ' = Append(mainQ, Head(bridgeQ)) /\ bridgeQ' = Tail(bridgeQ)
      /\ UNCHANGED <<serverVars, view, calls, own, kept>>
      /\ missed' \subseteq missed \cup (1 .. top)
  BY DEF BridgeTakes
<1>2. Head(bridgeQ) \in Event /\ Served(Head(bridgeQ).item) /\ Head(bridgeQ).item \in Item
  BY <1>1, BridgeHead
<1>3. PICK e \in Event : e = Head(bridgeQ)
  BY <1>2
<1>4. Standing(bridgeQ, top', version') /\ Standing(mainQ, top', version')
  BY QueuesStanding, StandingStays
<1>5. e.item.id <= top' /\ e.item.ver <= version'[e.item.id]
  BY <1>1, <1>2, <1>3 DEF Served, serverVars
<1>6. /\ Standing(Append(mainQ, e), top', version') /\ Len(Append(mainQ, e)) = Len(mainQ) + 1
      /\ Standing(Tail(bridgeQ), top', version') /\ Len(Tail(bridgeQ)) = Len(bridgeQ) - 1
  BY <1>1, <1>4, <1>5, AppendedStanding, TailStanding
<1>7. QueuesOK'
  BY <1>1, <1>3, <1>6 DEF QueuesOK, Standing, Served
<1>8. ShownOK' /\ CallsOK'
  BY <1>1, ShownStays, CallsStay DEF view
<1>9. HistoryOK'
  BY <1>1, BoundsAssumption DEF HistoryOK, ServerOK, Ids
<1>10. Room'
  BY <1>1, <1>3, <1>6, Sizes DEF Room, UnderWay
<1> QED
  BY <1>1, <1>7, <1>8, <1>9, <1>10 DEF Rest, view

LEMMA HandleTypes ==
  ASSUME TypeInv, ServerOK', Grows, MainHandles
  PROVE  Rest'
<1> USE DEF TypeInv
<1>1. /\ mainQ # <<>> /\ mainQ' = Tail(mainQ)
      /\ UNCHANGED <<serverVars, bridgeQ, hasMore, calls, missed, own>>
  BY HandledCases
<1>2. PICK m \in Item : m = Head(mainQ).item /\ Served(m) /\ m.id \in Ids
  BY <1>1, MainHead DEF Item
<1>3. Served(m)'
  BY <1>2, StaysServed
<1>4. Standing(bridgeQ, top', version') /\ Standing(mainQ, top', version')
  BY QueuesStanding, StandingStays
<1>5. Standing(Tail(mainQ), top', version') /\ Len(Tail(mainQ)) = Len(mainQ) - 1
  BY <1>1, <1>4, TailStanding
<1>6. QueuesOK'
  BY <1>1, <1>4, <1>5 DEF QueuesOK, Standing, Served
<1>7. ShownOK' /\ kept' \subseteq kept \cup {m.id}
  <2>1. CASE HandleNew(m)
    <3>1. shown' = shown \/ shown' = Append(shown, m)
      BY <2>1 DEF HandleNew
    <3>2. CASE shown' = shown
      BY <3>2, <2>1, ShownStays DEF HandleNew
    <3>3. CASE shown' = Append(shown, m)
      BY <3>3, <2>1, <1>3, ShownAppended DEF HandleNew
    <3> QED
      BY <3>1, <3>2, <3>3
  <2>2. CASE HandleEdit(m)
    BY <2>2, <1>3, ShownReplaced DEF HandleEdit
  <2>3. CASE HandleDelete(m)
    BY <2>3, ShownWithout DEF HandleDelete
  <2> QED
    BY <2>1, <2>2, <2>3, <1>2, HandledCases
<1>8. CallsOK'
  BY <1>1, CallsStay
<1>9. HistoryOK'
  BY <1>1, <1>2, <1>7 DEF HistoryOK
<1>10. Room'
  BY <1>1, <1>5, Sizes DEF Room, UnderWay
<1> QED
  BY <1>1, <1>6, <1>7, <1>8, <1>9, <1>10 DEF Rest

(* Nothing but the calls changes. *)
LEMMA QuietTypes ==
  ASSUME TypeInv, ServerOK', Grows, UNCHANGED view, NoEvents,
         CallsOK', Cardinality(calls') \in Nat,
         \/ UnderWay < MaxUnderWay /\ Cardinality(calls') <= Cardinality(calls) + 1
         \/ Cardinality(calls') <= Cardinality(calls)
  PROVE  Rest'
<1> USE DEF TypeInv
<1>1. UNCHANGED <<view, queues, history>>
  BY DEF NoEvents
<1>2. QueuesOK' /\ Len(bridgeQ') = Len(bridgeQ) /\ Len(mainQ') = Len(mainQ)
  BY <1>1, QueuesStay
<1>3. ShownOK'
  BY <1>1, ShownStays DEF view
<1>4. Room'
  BY <1>2, Sizes DEF Room, UnderWay
<1> QED
  BY <1>1, <1>2, <1>3, <1>4 DEF Rest, HistoryOK, history, view

LEMMA PageServed ==
  ASSUME ServerOK, UNCHANGED serverVars, NEW before \in Nat, NEW items, items = History(before)
  PROVE  items \in SUBSET Item /\ \A m \in items : Served(m)'
<1>1. items \in SUBSET Item /\ \A m \in items : m.id \in live /\ m.ver = version[m.id]
  BY HistoryPage
<1>2. \A m \in items : m.id \in Ids /\ m.ver \in 1 .. 2
  BY <1>1 DEF Item
<1> QED
  BY <1>1, <1>2, BoundsAssumption DEF ServerOK, Served, serverVars, Ids

LEMMA AskTypes ==
  ASSUME TypeInv, ServerOK', Grows, LoadAnswered \/ PreloadAnswered
  PROVE  Rest'
<1>1. PICK op \in {"load", "preload"} : Asks(op, Newest)
  BY DEF LoadAnswered, PreloadAnswered
<1>2. PICK items : items = History(Newest)
  OBVIOUS
<1>3. /\ calls' = calls \cup {[op |-> op, items |-> items]} /\ UnderWay < MaxUnderWay
      /\ UNCHANGED <<serverVars, view>> /\ NoEvents
  BY <1>1, <1>2 DEF Asks, Called
<1>4. items \in SUBSET Item /\ \A m \in items : Served(m)'
  BY <1>2, <1>3, PageServed, BoundsAssumption DEF Newest, TypeInv
<1>5. op \in Ops /\ op \notin {"ask", "more"}
  BY DEF Ops
<1>6. CallsOK' /\ Cardinality(calls') \in Nat /\ Cardinality(calls') <= Cardinality(calls) + 1
  BY <1>3, <1>4, <1>5, CallAdded DEF TypeInv
<1> QED
  BY <1>3, <1>6, QuietTypes

LEMMA MoreTypes ==
  ASSUME TypeInv, ServerOK', Grows, MoreAsked \/ MoreAnswered \/ MoreFails
  PROVE  Rest'
<1> USE DEF TypeInv
<1>1. UNCHANGED <<serverVars, view>> /\ NoEvents
  BY DEF MoreAsked, MoreAnswered, MoreFails
<1>2. CASE MoreAsked
  <2>1. shown # <<>> /\ \A c \in calls : c.op \notin {"ask", "more"}
    BY <1>2 DEF MoreAsked
  <2>2. 1 \in DOMAIN shown
    BY <2>1, EmptySeq, LenProperties DEF ShownOK
  <2>3. PICK m \in Item : m = shown[1] /\ Served(m)
    BY <2>2, LenProperties, ElementOfSeq DEF ShownOK
  <2>4. Served(m)'
    BY <2>3, StaysServed
  <2>5. PICK items \in SUBSET Item : items = {m}
    OBVIOUS
  <2>6. calls' = calls \cup {[op |-> "ask", items |-> items]} /\ UnderWay < MaxUnderWay
    BY <1>2, <2>3, <2>5 DEF MoreAsked, Called
  <2>7. "ask" \in Ops /\ \A o \in items : Served(o)'
    BY <2>4, <2>5 DEF Ops
  <2>8. CallsOK' /\ Cardinality(calls') \in Nat /\ Cardinality(calls') <= Cardinality(calls) + 1
    BY <2>1, <2>6, <2>7, CallAdded
  <2> QED
    BY <1>1, <2>6, <2>8, QuietTypes
<1>3. CASE MoreAnswered
  <2>1. PICK c \in calls : /\ c.op \in {"ask", "late"}
                           /\ \E m \in c.items :
                                calls' = (calls \ {c}) \cup
                                  {[op    |-> IF c.op = "ask" THEN "more" ELSE "preload",
                                    items |-> History(m.id)]}
    BY <1>3 DEF MoreAnswered
  <2>2. PICK m \in c.items : calls' = (calls \ {c}) \cup
                                  {[op    |-> IF c.op = "ask" THEN "more" ELSE "preload",
                                    items |-> History(m.id)]}
    BY <2>1
  <2>3. m.id \in Nat
    BY CallItems, BoundsAssumption DEF Item, Ids
  <2>4. PICK op \in {"more", "preload"} : op = (IF c.op = "ask" THEN "more" ELSE "preload")
    OBVIOUS
  <2>5. PICK items : /\ items = History(m.id)
                     /\ calls' = (calls \ {c}) \cup {[op |-> op, items |-> items]}
    BY <2>2, <2>4
  <2>6. items \in SUBSET Item /\ \A o \in items : Served(o)'
    BY <1>1, <2>3, <2>5, PageServed
  <2>7. op \in Ops /\ (op \in {"ask", "more"} => c.op \in {"ask", "more"})
    BY <2>4 DEF Ops
  <2>8. CallsOK' /\ Cardinality(calls') \in Nat /\ Cardinality(calls') <= Cardinality(calls)
    BY <2>5, <2>6, <2>7, CallReplaced
  <2> QED
    BY <1>1, <2>8, QuietTypes
<1>4. CASE MoreFails
  <2>1. PICK c \in calls : calls' = calls \ {c}
    BY <1>4 DEF MoreFails
  <2>2. CallsOK' /\ Cardinality(calls') = Cardinality(calls) - 1
    BY <2>1, CallRemoved
  <2>3. Cardinality(calls') \in Nat /\ Cardinality(calls) \in Nat
    BY <2>2, FS_CardinalityType DEF CallsOK
  <2> QED
    BY <1>1, <2>2, <2>3, QuietTypes
<1> QED
  BY <1>2, <1>3, <1>4

LEMMA ApplyTypes ==
  ASSUME TypeInv, ServerOK', Grows, CacheOK',
         HistoryApplied \/ PreloadSaved \/ SendApplied \/ EditApplied
  PROVE  Rest'
<1> USE DEF TypeInv
<1>1. PICK c \in calls :
        /\ calls' = calls \ {c} /\ UNCHANGED <<serverVars, queues, missed, own>>
        /\ \/ UNCHANGED <<view, kept>>
           \/ /\ shown' = LoadMessages(cache') /\ UNCHANGED kept
              /\ hasMore' = (Cardinality(c.items) >= Page)
           \/ /\ UNCHANGED hasMore
              /\ \E m \in c.items : \/ shown' = Append(shown, m) /\ kept' = kept \cup {m.id}
                                    \/ shown' = Replaced(m) /\ UNCHANGED kept
  BY DEF HistoryApplied, PreloadSaved, SendApplied, EditApplied, NoEvents, history, view
<1>2. c.items \in SUBSET Item /\ \A m \in c.items : Served(m) /\ Served(m)'
  BY CallItems, StaysServed
<1>3. CallsOK' /\ Cardinality(calls') = Cardinality(calls) - 1
  BY <1>1, CallRemoved
<1>4. QueuesOK' /\ Len(bridgeQ') = Len(bridgeQ) /\ Len(mainQ') = Len(mainQ)
  BY <1>1, QueuesStay
<1>5. Room'
  BY <1>3, <1>4, Sizes DEF Room, UnderWay
<1>6. ShownOK' /\ kept' \subseteq Ids /\ hasMore' \in BOOLEAN
  <2>1. CASE UNCHANGED <<view, kept>>
    BY <2>1, ShownStays DEF view, HistoryOK
  <2>2. CASE /\ shown' = LoadMessages(cache') /\ UNCHANGED kept
             /\ hasMore' = (Cardinality(c.items) >= Page)
    <3>1. ShownOK' /\ kept' \subseteq Ids
      BY <2>2, ShownLoaded DEF HistoryOK
    <3>2. hasMore' \in BOOLEAN
      <4>1. CASE Cardinality(c.items) >= Page
        BY <2>2, <4>1
      <4>2. CASE ~(Cardinality(c.items) >= Page)
        BY <2>2, <4>2
      <4> QED
        BY <4>1, <4>2
    <3> QED
      BY <3>1, <3>2
  <2>3. CASE /\ UNCHANGED hasMore
             /\ \E m \in c.items : \/ shown' = Append(shown, m) /\ kept' = kept \cup {m.id}
                                   \/ shown' = Replaced(m) /\ UNCHANGED kept
    <3>1. PICK m \in c.items : \/ shown' = Append(shown, m) /\ kept' = kept \cup {m.id}
                               \/ shown' = Replaced(m) /\ UNCHANGED kept
      BY <2>3
    <3>2. m \in Item /\ Served(m)' /\ m.id \in Ids
      BY <1>2 DEF Item
    <3>3. ShownOK'
      BY <3>1, <3>2, ShownAppended, ShownReplaced
    <3> QED
      BY <2>3, <3>1, <3>2, <3>3 DEF HistoryOK
  <2> QED
    BY <1>1, <2>1, <2>2, <2>3
<1> QED
  BY <1>1, <1>3, <1>4, <1>5, <1>6 DEF Rest, HistoryOK

LEMMA AnswerTypes ==
  ASSUME TypeInv, ServerOK', Grows, SendAnswered \/ EditAnswered
  PROVE  Rest'
<1> USE DEF TypeInv
<1>1. UNCHANGED <<mainQ, cache, view, kept>>
  BY DEF SendAnswered, EditAnswered
<1>2. PICK kind \in {"new", "edit"}, op \in {"send", "edit"}, m \in Item :
        /\ Served(m)' /\ Called(op, {m})
        /\ Push(kind, m.id, m.ver) \/ UNCHANGED <<bridgeQ, missed>>
        /\ own' \subseteq own \cup {m.id}
  <2>1. CASE SendAnswered
    <3>1. PICK n : n = top + 1
      OBVIOUS
    <3>2. n \in Ids /\ Served([id |-> n, ver |-> 1])'
      BY <2>1, <3>1, CreatedServer DEF SendAnswered
    <3>3. [id |-> n, ver |-> 1] \in Item
      BY <3>2 DEF Item
    <3>4. PICK m \in Item : m = [id |-> n, ver |-> 1] /\ m.id = n /\ m.ver = 1
      BY <3>3
    <3> QED
      BY <2>1, <3>1, <3>2, <3>4 DEF SendAnswered, Push
  <2>2. CASE EditAnswered
    <3>1. PICK i \in ShownIds : Edited(i) /\ Called("edit", {[id |-> i, ver |-> 2]})
                                /\ Push("edit", i, 2) /\ UNCHANGED own
      BY <2>2 DEF EditAnswered
    <3>2. i \in Ids /\ Served([id |-> i, ver |-> 2])'
      BY <3>1, EditedServer
    <3>3. [id |-> i, ver |-> 2] \in Item
      BY <3>2 DEF Item
    <3>4. PICK m \in Item : m = [id |-> i, ver |-> 2] /\ m.id = i /\ m.ver = 2
      BY <3>3
    <3> QED
      BY <3>1, <3>2, <3>4
  <2> QED
    BY <2>1, <2>2
<1>3. PICK e \in Event : e = [kind |-> kind, item |-> m]
  BY DEF Event
<1>4. m = [id |-> m.id, ver |-> m.ver] /\ m.id \in Ids /\ e.item = m
  BY <1>3 DEF Item
<1>5. /\ QueuesOK' /\ Len(mainQ') = Len(mainQ)
      /\ \/ Len(bridgeQ') = Len(bridgeQ) + 1 /\ UnderWay < MaxUnderWay
         \/ Len(bridgeQ') = Len(bridgeQ)
  <2>1. \/ bridgeQ' = Append(bridgeQ, e) /\ UnderWay < MaxUnderWay
        \/ UNCHANGED bridgeQ
    BY <1>2, <1>3, <1>4 DEF Push, Pushed
  <2> QED
    BY <2>1, <1>1, <1>2, <1>4, PushQueues
<1>6. missed' \subseteq missed \cup {m.id}
  BY <1>2 DEF Push, Pushed
<1>7. CallsOK' /\ Cardinality(calls') \in Nat /\ Cardinality(calls') <= Cardinality(calls) + 1
  <2>1. op \in Ops /\ op \notin {"ask", "more"} /\ {m} \in SUBSET Item
    BY DEF Ops
  <2> QED
    BY <2>1, <1>2, CallAdded DEF Called
<1>8. ShownOK'
  BY <1>1, ShownStays DEF view
<1>9. Room'
  <2>1. UnderWay < MaxUnderWay
    BY <1>2 DEF Called
  <2> QED
    BY <2>1, <1>1, <1>5, <1>7, Sizes DEF Room, UnderWay
<1>10. HistoryOK'
  BY <1>1, <1>2, <1>4, <1>6 DEF HistoryOK
<1> QED
  BY <1>1, <1>5, <1>7, <1>8, <1>9, <1>10 DEF Rest, view

LEMMA PressTypes ==
  ASSUME TypeInv, ServerOK', Grows, DeletePressed
  PROVE  Rest'
<1> USE DEF TypeInv
<1>1. PICK m \in Item :
        /\ Served(m) /\ Called("delete", {m})
        /\ shown' = Without(m.id) /\ kept' = kept \ {m.id}
        /\ UNCHANGED <<serverVars, queues, cache, hasMore, missed, own>>
  <2>1. \A k \in DOMAIN shown : shown[k] \in Item /\ Served(shown[k])
    BY LenProperties, ElementOfSeq DEF ShownOK
  <2> QED
    BY <2>1 DEF DeletePressed
<1>2. Served(m)'
  BY <1>1, StaysServed
<1>3. CallsOK' /\ Cardinality(calls') \in Nat /\ Cardinality(calls') <= Cardinality(calls) + 1
  <2>1. "delete" \in Ops /\ {m} \in SUBSET Item
    BY DEF Ops
  <2> QED
    BY <2>1, <1>1, <1>2, CallAdded DEF Called
<1>4. QueuesOK' /\ Len(bridgeQ') = Len(bridgeQ) /\ Len(mainQ') = Len(mainQ)
  BY <1>1, QueuesStay
<1>5. ShownOK'
  BY <1>1, ShownWithout
<1>6. Room'
  <2>1. UnderWay < MaxUnderWay
    BY <1>1 DEF Called
  <2> QED
    BY <2>1, <1>3, <1>4, Sizes DEF Room, UnderWay
<1> QED
  BY <1>1, <1>3, <1>4, <1>5, <1>6 DEF Rest, HistoryOK

LEMMA DeleteTypes ==
  ASSUME TypeInv, ServerOK', Grows, DeleteEnds
  PROVE  Rest'
<1> USE DEF TypeInv
<1>1. PICK c \in calls : /\ calls' = calls \ {c} /\ UNCHANGED <<cache, view>>
                         /\ \/ /\ \E m \in c.items : /\ Deleted(m.id)
                                                     /\ Push("delete", m.id, m.ver)
                               /\ UNCHANGED <<mainQ, own, kept>>
                            \/ UNCHANGED serverVars /\ NoEvents
  BY DEF DeleteEnds
<1>2. CallsOK' /\ Cardinality(calls') = Cardinality(calls) - 1
  BY <1>1, CallRemoved
<1>3. ShownOK'
  BY <1>1, ShownStays DEF view
<1>4. CASE UNCHANGED serverVars /\ NoEvents
  <2>1. QueuesOK' /\ Len(bridgeQ') = Len(bridgeQ) /\ Len(mainQ') = Len(mainQ)
    BY <1>4, QueuesStay DEF NoEvents
  <2>2. Room'
    BY <1>2, <2>1, Sizes DEF Room, UnderWay
  <2> QED
    BY <1>1, <1>2, <1>3, <1>4, <2>1, <2>2 DEF Rest, HistoryOK, NoEvents, history, view
<1>5. CASE /\ \E m \in c.items : Deleted(m.id) /\ Push("delete", m.id, m.ver)
           /\ UNCHANGED <<mainQ, own, kept>>
  <2>1. PICK m \in c.items : Deleted(m.id) /\ Push("delete", m.id, m.ver)
    BY <1>5
  <2>2. m \in Item /\ Served(m)
    BY CallItems
  <2>3. Served(m)'
    BY <2>2, StaysServed
  <2>4. m = [id |-> m.id, ver |-> m.ver]
    BY <2>2 DEF Item
  <2>5. PICK e \in Event : e = [kind |-> "delete", item |-> m] /\ e.item = m
    <3>1. [kind |-> "delete", item |-> m] \in Event
      BY <2>2 DEF Event
    <3> QED
      BY <3>1
  <2>6. /\ UNCHANGED missed
        /\ \/ bridgeQ' = Append(bridgeQ, e) /\ UnderWay < MaxUnderWay
           \/ UNCHANGED bridgeQ
    BY <2>1, <2>4, <2>5 DEF Push, Pushed
  <2>7. /\ QueuesOK' /\ Len(mainQ') = Len(mainQ)
        /\ \/ Len(bridgeQ') = Len(bridgeQ) + 1 /\ UnderWay < MaxUnderWay
           \/ Len(bridgeQ') = Len(bridgeQ)
    BY <1>5, <2>3, <2>5, <2>6, PushQueues
  <2>8. Room'
    BY <1>2, <2>7, Sizes DEF Room, UnderWay
  <2> QED
    BY <1>1, <1>2, <1>3, <1>5, <2>6, <2>7, <2>8 DEF Rest, HistoryOK, view
<1> QED
  BY <1>1, <1>4, <1>5

LEMMA ReopenTypes ==
  ASSUME TypeInv, ServerOK', Grows, CacheOK', Reopen
  PROVE  Rest'
<1> USE DEF TypeInv
<1>1. /\ shown' = LoadMessages(cache') /\ hasMore' = TRUE /\ kept' = {}
      /\ own' = {} /\ calls' = {Detached(c) : c \in calls}
      /\ UNCHANGED <<serverVars, bridgeQ, cache, missed>>
  BY DEF Reopen
<1>2. PICK n \in 0 .. Len(mainQ) : mainQ' = SubSeq(mainQ, n + 1, Len(mainQ))
  BY DEF Reopen
<1>3. Standing(bridgeQ, top', version') /\ Standing(mainQ, top', version')
  BY QueuesStanding, StandingStays
<1>4. Standing(mainQ', top', version') /\ Len(mainQ') \in Nat /\ Len(mainQ') <= Len(mainQ)
  BY <1>2, <1>3, SuffixStanding
<1>5. QueuesOK'
  BY <1>1, <1>3, <1>4 DEF QueuesOK, Standing, Served
<1>6. ShownOK'
  BY <1>1, ShownLoaded
<1>7. CallsOK' /\ Cardinality(calls') \in Nat /\ Cardinality(calls') <= Cardinality(calls)
  BY <1>1, CallsDetached
<1>8. Room'
  BY <1>1, <1>4, <1>7, Sizes DEF Room, UnderWay
<1> QED
  BY <1>1, <1>5, <1>6, <1>7, <1>8 DEF Rest, HistoryOK

LEMMA TypeStep == TypeInv /\ [Next]_vars => TypeInv'
<1> SUFFICES ASSUME TypeInv, [Next]_vars PROVE TypeInv'
  OBVIOUS
<1>1. ServerOK' /\ Grows
  BY ServerStep DEF TypeInv
<1>2. CacheOK'
  BY CacheStep
<1>3. Rest'
  <2>1. CASE UNCHANGED vars
    <3>1. QueuesOK' /\ ShownOK' /\ CallsOK'
      BY <2>1, <1>1, QueuesStay, ShownStays, CallsStay DEF TypeInv, vars, view
    <3>2. HistoryOK' /\ Room' /\ hasMore' \in BOOLEAN
      BY <2>1 DEF TypeInv, vars, view, queues, history, HistoryOK, Room, UnderWay
    <3> QED
      BY <3>1, <3>2 DEF Rest
  <2> QED
    BY <1>1, <1>2, <2>1, OthersTypes, BridgeTypes, HandleTypes, AskTypes, MoreTypes,
       ApplyTypes, AnswerTypes, PressTypes, DeleteTypes, ReopenTypes DEF Next
<1> QED
  BY <1>1, <1>2, <1>3 DEF TypeInv, Rest

LEMMA TypeInit == Init => TypeInv
<1> SUFFICES ASSUME Init PROVE TypeInv
  OBVIOUS
<1> USE BoundsAssumption
<1>1. top \in 0 .. MaxMessages - 1 /\ live = 1 .. top /\ version = [i \in Ids |-> 1]
  BY DEF Init
<1>2. ServerOK
  BY <1>1 DEF ServerOK
<1>3. PICK S \in SUBSET (1 .. top) : cache = [i \in Ids |-> IF i \in S THEN 1 ELSE 0]
  BY DEF Init
<1>4. CacheOK
  <2>1. \A i \in Ids : cache[i] = IF i \in S THEN 1 ELSE 0
    BY <1>3
  <2>2. \A i \in Ids : cache[i] > 0 => i \in 1 .. top /\ cache[i] = 1
    <3> TAKE i \in Ids
    <3>1. CASE i \in S
      BY <3>1, <2>1
    <3>2. CASE i \notin S
      <4>1. cache[i] = 0
        BY <3>2, <2>1
      <4> QED
        BY <4>1
    <3> QED
      BY <3>1, <3>2
  <2>3. \A i \in Ids : version[i] = 1
    BY <1>1
  <2>4. cache \in [Ids -> 0 .. 2]
    BY <1>3
  <2> QED
    BY <2>2, <2>3, <2>4, <1>1 DEF CacheOK, Cached
<1>5. QueuesOK /\ CallsOK
  BY EmptySeq, FS_EmptySet DEF Init, QueuesOK, CallsOK
<1>6. ShownOK
  <2>1. shown = LoadMessages(cache)
    BY DEF Init
  <2>2. /\ shown \in Seq(Item)
        /\ \A k \in DOMAIN shown : cache[shown[k].id] > 0 /\ shown[k].ver = cache[shown[k].id]
    BY <2>1, <1>4, LoadedFromTable DEF CacheOK
  <2>3. \A k \in DOMAIN shown : shown[k].id \in Ids
    <3>1. \A k \in DOMAIN shown : shown[k] \in Item
      BY <2>2, LenProperties, ElementOfSeq
    <3> QED
      BY <3>1 DEF Item
  <2> QED
    BY <2>2, <2>3, <1>4 DEF ShownOK, CacheOK, Served, Cached
<1>7. HistoryOK
  BY <1>1 DEF Init, HistoryOK, Ids
<1>8. Room
  BY EmptySeq, FS_EmptySet DEF Init, Room, UnderWay
<1>9. hasMore \in BOOLEAN
  BY DEF Init
<1> QED
  BY <1>2, <1>4, <1>5, <1>6, <1>7, <1>8, <1>9 DEF TypeInv

LEMMA AlwaysTyped == Spec => []TypeInv
BY TypeInit, TypeStep, PTL DEF Spec

(* The server, the queues, the cache, the view model and the calls under way *)
(* keep their types; two pages are never asked for at once, and the cache is *)
(* never ahead of the server (ConversationViewModel.swift 116-138,           *)
(* MessageCache.swift 78-110, MaxService.swift 187-205).                     *)
THEOREM TypeCorrect == Spec => []TypeOK
<1>1. TypeInv => TypeOK
  BY DEF TypeInv, ServerOK, QueuesOK, CacheOK, ShownOK, CallsOK, HistoryOK, Room, TypeOK
<1> QED
  BY <1>1, AlwaysTyped, PTL
-----------------------------------------------------------------------------
(* What a step shows, and keeps *)

Stays   == /\ ShownIds' = ShownIds /\ UNCHANGED kept
           /\ \A j : Occurs(shown', j) = Occurs(shown, j)
Again   == \E i \in ShownIds : UNCHANGED shown /\ kept' = kept \cup {i}
Adds(i) == /\ ShownIds' = ShownIds \cup {i} /\ kept' = kept \cup {i} /\ i \in Cached'
           /\ \A j : Occurs(shown', j) = Occurs(shown, j) + IF i = j THEN 1 ELSE 0
Sent(i) == \E c \in calls : /\ c.op = "send" /\ calls' = calls \ {c}
                            /\ \E m \in c.items : m.id = i
Drops   == \E i : /\ ShownIds' = ShownIds \ {i} /\ kept' = kept \ {i}
                  /\ \A j : Occurs(shown', j) <= Occurs(shown, j)
Loads   == shown' = LoadMessages(cache') /\ kept' \subseteq kept

ViewEffect == \/ Stays \/ Again \/ Drops \/ Loads
              \/ \E i \in Ids \ ShownIds : Adds(i)
              \/ \E i \in Ids : Adds(i) /\ Sent(i) /\ UNCHANGED own

LEMMA AppendEffect ==
  ASSUME ShownOK, NEW m \in Item, shown' = Append(shown, m)
  PROVE  /\ ShownIds' = ShownIds \cup {m.id}
         /\ \A j : Occurs(shown', j) = Occurs(shown, j) + IF m.id = j THEN 1 ELSE 0
<1>1. /\ shown' \in Seq(Item) /\ Len(shown') = Len(shown) + 1
      /\ \A k \in 1 .. Len(shown) : shown'[k] = shown[k]
      /\ shown'[Len(shown) + 1] = m
  BY AppendProperties DEF ShownOK
<1>2. Len(shown) \in Nat /\ DOMAIN shown = 1 .. Len(shown) /\ DOMAIN shown' = 1 .. Len(shown) + 1
  BY <1>1, LenProperties DEF ShownOK
<1>3. DOMAIN shown' = DOMAIN shown \cup {Len(shown) + 1} /\ Len(shown) + 1 \notin DOMAIN shown
  BY <1>2
<1>4. ShownIds' = ShownIds \cup {m.id}
  BY <1>1, <1>2, <1>3 DEF ShownIds
<1> QED
  BY <1>4, OccursAppended DEF ShownOK

LEMMA ReplaceEffect ==
  ASSUME ShownOK, NEW m \in Item, shown' = Replaced(m), UNCHANGED kept
  PROVE  Stays
<1>1. /\ DOMAIN shown' = DOMAIN shown
      /\ \A k \in DOMAIN shown : shown'[k].id = shown[k].id
      /\ \A j : Occurs(shown', j) = Occurs(shown, j)
  BY ReplacedKeeps DEF ShownOK
<1> QED
  BY <1>1 DEF Stays, ShownIds

LEMMA WithoutEffect ==
  ASSUME ShownOK, NEW i, shown' = Without(i), kept' = kept \ {i}
  PROVE  Drops
<1>1. /\ \A n \in DOMAIN shown' : \E k \in DOMAIN shown : shown'[n] = shown[k] /\ shown[k].id # i
      /\ \A k \in DOMAIN shown : shown[k].id # i => \E n \in DOMAIN shown' : shown'[n] = shown[k]
      /\ \A j : Occurs(shown', j) <= Occurs(shown, j)
  BY WithoutKeeps DEF ShownOK
<1>2. ShownIds' = ShownIds \ {i}
  <2>1. \A x \in ShownIds' : x \in ShownIds \ {i}
    BY <1>1 DEF ShownIds
  <2>2. \A x \in ShownIds \ {i} : x \in ShownIds'
    BY <1>1 DEF ShownIds
  <2> QED
    BY <2>1, <2>2
<1> QED
  BY <1>1, <1>2 DEF Drops

(* Saving a served message caches it.                                        *)
LEMMA SavedCached ==
  ASSUME TypeInv, NEW items \in SUBSET Item, \A m \in items : Served(m),
         cache' = Saved(items)
  PROVE  Cached' = Cached \cup {m.id : m \in items}
<1>1. \A i \in Ids : cache'[i] > 0 <=> i \in Cached \/ \E m \in items : m.id = i
  BY SavedAdds DEF TypeInv
<1>2. \A m \in items : m.id \in Ids
  BY DEF Item
<1> QED
  BY <1>1, <1>2 DEF Cached

LEMMA ViewStep ==
  ASSUME TypeInv, [Next]_vars
  PROVE  ViewEffect
<1> USE DEF TypeInv
<1>1. CASE UNCHANGED <<shown, kept>>
  BY <1>1 DEF ViewEffect, Stays, ShownIds
<1>2. CASE MainHandles
  <2>1. PICK m \in Item : m = Head(mainQ).item /\ Served(m) /\ m.id \in Ids
    BY <1>2, HandledCases, MainHead DEF Item
  <2>2. CASE HandleNew(m)
    <3>1. CASE m.id \in ShownIds
      BY <2>2, <3>1 DEF HandleNew, ViewEffect, Again
    <3>2. CASE m.id \notin ShownIds
      <4>1. shown' = Append(shown, m) /\ cache' = Saved({m}) /\ kept' = kept \cup {m.id}
        BY <2>2, <3>2 DEF HandleNew
      <4>2. m.id \in Cached'
        BY <2>1, <4>1, SavedCached
      <4>3. Adds(m.id)
        BY <4>1, <4>2, AppendEffect DEF Adds
      <4> QED
        BY <4>3, <3>2, <2>1 DEF ViewEffect
    <3> QED
      BY <3>1, <3>2
  <2>3. CASE HandleEdit(m)
    BY <2>3, ReplaceEffect DEF HandleEdit, ViewEffect
  <2>4. CASE HandleDelete(m)
    BY <2>4, WithoutEffect DEF HandleDelete, ViewEffect
  <2> QED
    BY <1>2, <2>1, <2>2, <2>3, <2>4, HandledCases
<1>3. CASE HistoryApplied \/ Reopen
  BY <1>3 DEF HistoryApplied, Reopen, NoEvents, history, ViewEffect, Loads
<1>4. CASE SendApplied
  <2>1. PICK c \in calls : /\ c.op = "send" /\ calls' = calls \ {c} /\ cache' = Saved(c.items)
                           /\ \E m \in c.items : shown' = Append(shown, m) /\ kept' = kept \cup {m.id}
                           /\ UNCHANGED own
    BY <1>4 DEF SendApplied
  <2>2. PICK m \in c.items : shown' = Append(shown, m) /\ kept' = kept \cup {m.id}
    BY <2>1
  <2>3. m \in Item /\ m.id \in Ids /\ c.items \in SUBSET Item /\ \A o \in c.items : Served(o)
    BY CallItems DEF Item
  <2>4. m.id \in Cached'
    BY <2>1, <2>3, SavedCached
  <2>5. Adds(m.id) /\ Sent(m.id)
    BY <2>1, <2>2, <2>3, <2>4, AppendEffect DEF Adds, Sent
  <2> QED
    BY <2>1, <2>3, <2>5 DEF ViewEffect
<1>5. CASE EditApplied
  <2>1. PICK c \in calls : (\E m \in c.items : shown' = Replaced(m)) /\ UNCHANGED kept
    BY <1>5 DEF EditApplied, NoEvents, history
  <2>2. PICK m \in c.items : shown' = Replaced(m)
    BY <2>1
  <2>3. m \in Item
    BY CallItems
  <2> QED
    BY <2>1, <2>2, <2>3, ReplaceEffect DEF ViewEffect
<1>6. CASE DeletePressed
  BY <1>6, WithoutEffect DEF DeletePressed, ViewEffect
<1>7. \/ UNCHANGED <<shown, kept>> \/ MainHandles \/ HistoryApplied \/ Reopen
      \/ SendApplied \/ EditApplied \/ DeletePressed
  BY DEF Next, vars, view, history, OthersSend, OthersEdit, OthersDelete, BridgeTakes,
         LoadAnswered, PreloadAnswered, MoreAsked, MoreAnswered, MoreFails, Asks, NoEvents,
         PreloadSaved, SendAnswered, EditAnswered, DeleteEnds
<1> QED
  BY <1>1, <1>2, <1>3, <1>4, <1>5, <1>6, <1>7

LEMMA LostStep ==
  ASSUME TypeInv, TypeInv', NothingLost, [Next]_vars
  PROVE  NothingLost'
<1> USE DEF TypeInv
<1>1. Cached \subseteq Cached'
  BY CacheStep
<1>2. Cardinality(Cached) > Limit => Cardinality(Cached') > Limit
  <2>1. Cached \in SUBSET Ids /\ Cached' \in SUBSET Ids
    BY DEF Cached
  <2>2. PICK a, b : a = Cached /\ b = Cached'
    OBVIOUS
  <2>3. IsFiniteSet(b) /\ Cardinality(b) \in Nat /\ Cardinality(a) \in Nat
    BY <2>1, <2>2, IdsFinite
  <2>4. Cardinality(a) <= Cardinality(b)
    BY <2>2, <2>3, <1>1, FS_Subset
  <2> QED
    BY <2>2, <2>3, <2>4, SizesAssumption
<1>3. ShownIds \subseteq Cached /\ \A i \in kept : i \in ShownIds \/ Cardinality(Cached) > Limit
  BY DEF NothingLost
<1>4. SUFFICES /\ \A i \in kept' : i \in ShownIds' \/ Cardinality(Cached') > Limit
               /\ ShownIds' \subseteq Cached'
  BY DEF NothingLost
<1>5. CASE Stays
  BY <1>1, <1>2, <1>3, <1>5 DEF Stays
<1>6. CASE Again
  BY <1>1, <1>2, <1>3, <1>6 DEF Again, ShownIds
<1>7. ASSUME NEW i, Adds(i)
      PROVE  /\ \A j \in kept' : j \in ShownIds' \/ Cardinality(Cached') > Limit
             /\ ShownIds' \subseteq Cached'
  BY <1>1, <1>2, <1>3, <1>7 DEF Adds
<1>8. CASE Drops
  BY <1>1, <1>2, <1>3, <1>8 DEF Drops
<1>9. CASE Loads
  <2>1. cache' \in [Ids -> 0 .. 2]
    BY DEF CacheOK
  <2>2. /\ shown' \in Seq(Item) /\ \A k \in DOMAIN shown' : cache'[shown'[k].id] > 0
        /\ \A i \in Ids : cache'[i] > 0 /\ Cardinality({j \in Ids : cache'[j] > 0}) <= Limit
                            => \E k \in DOMAIN shown' : shown'[k].id = i
    BY <1>9, <2>1, LoadedFromTable DEF Loads
  <2>3. \A k \in DOMAIN shown' : shown'[k].id \in Ids
    <3>1. \A k \in DOMAIN shown' : shown'[k] \in Item
      BY <2>2, LenProperties, ElementOfSeq
    <3> QED
      BY <3>1 DEF Item
  <2>4. ShownIds' \subseteq Cached'
    BY <2>2, <2>3 DEF ShownIds, Cached
  <2>5. \A i \in kept' : i \in ShownIds' \/ Cardinality(Cached') > Limit
    <3> TAKE i \in kept'
    <3>1. CASE Cardinality(Cached) > Limit
      BY <3>1, <1>2
    <3>2. CASE ~(Cardinality(Cached) > Limit)
      <4>1. i \in Cached'
        BY <3>2, <1>1, <1>3, <1>9 DEF Loads
      <4>2. Cardinality(Cached') \in Nat
        <5>1. PICK b : b = Cached'
          OBVIOUS
        <5>2. b \in SUBSET Ids
          BY <5>1 DEF Cached
        <5> QED
          BY <5>1, <5>2, IdsFinite
      <4>3. Cardinality(Cached') <= Limit => \E k \in DOMAIN shown' : shown'[k].id = i
        BY <4>1, <2>2 DEF Cached
      <4> QED
        BY <4>2, <4>3, SizesAssumption DEF ShownIds
    <3> QED
      BY <3>1, <3>2
  <2> QED
    BY <2>4, <2>5
<1> QED
  BY <1>5, <1>6, <1>7, <1>8, <1>9, ViewStep DEF ViewEffect

LEMMA LostInit == Init => NothingLost
<1> SUFFICES ASSUME Init PROVE NothingLost
  OBVIOUS
<1>1. TypeInv
  BY TypeInit
<1>2. shown = LoadMessages(cache) /\ kept = {} /\ cache \in [Ids -> 0 .. 2]
  BY <1>1 DEF Init, TypeInv, CacheOK
<1>3. shown \in Seq(Item) /\ \A k \in DOMAIN shown : cache[shown[k].id] > 0
  BY <1>2, LoadedFromTable
<1>4. \A k \in DOMAIN shown : shown[k].id \in Ids
  <2>1. \A k \in DOMAIN shown : shown[k] \in Item
    BY <1>3, LenProperties, ElementOfSeq
  <2> QED
    BY <2>1 DEF Item
<1> QED
  BY <1>2, <1>3, <1>4 DEF NothingLost, ShownIds, Cached

(* A pushed or sent message stays in the view through every load that was    *)
(* answered before it and applied after, until it is deleted or the cache    *)
(* holds more than loadMessages returns, and all that is shown is cached     *)
(* (ConversationViewModel.swift 33-45, 80-142, 193, MaxService.swift         *)
(* 187-193).                                                                 *)
THEOREM NothingEverLost == Spec => []NothingLost
<1>1. TypeInv /\ NothingLost /\ [Next]_vars => TypeInv' /\ NothingLost'
  BY TypeStep, LostStep
<1> QED
  BY <1>1, TypeInit, LostInit, PTL DEF Spec
-----------------------------------------------------------------------------
(* How often a message is shown *)

Sending(i) == \E c \in calls : c.op = "send" /\ \E m \in c.items : m.id = i

SendsOwn == /\ own \subseteq 1 .. top
            /\ \A c \in calls : c.op = "send" =>
                 \E i \in own : c.items = {[id |-> i, ver |-> 1]}

(* A second time is only that of the answer to an own send.                  *)
Once == \A i \in Ids : Occurs(shown, i) <= IF i \in own /\ ~Sending(i) THEN 2 ELSE 1

OnceInv == SendsOwn /\ Once

CallsEffect ==
  \/ calls' \subseteq calls /\ UNCHANGED own
  \/ \E c : calls' \subseteq calls \cup {c} /\ c.op # "send" /\ UNCHANGED own
  \/ /\ calls' = calls \cup {[op |-> "send", items |-> {[id |-> top + 1, ver |-> 1]}]}
     /\ own' = own \cup {top + 1} /\ UNCHANGED shown /\ NewMessage
  \/ Loads /\ own' = {} /\ \A c \in calls' : c.op # "send"

LEMMA CallsStep ==
  ASSUME CallsOK, [Next]_vars
  PROVE  CallsEffect
<1>1. CASE LoadAnswered \/ PreloadAnswered \/ MoreAsked \/ EditAnswered \/ DeletePressed
  <2>1. PICK op \in Ops \ {"send"} : \E items :
          calls' = calls \cup {[op |-> op, items |-> items]} /\ UNCHANGED own
    BY <1>1 DEF LoadAnswered, PreloadAnswered, MoreAsked, EditAnswered, DeletePressed,
                Asks, Called, NoEvents, history, Ops
  <2>2. PICK items : calls' = calls \cup {[op |-> op, items |-> items]} /\ UNCHANGED own
    BY <2>1
  <2>3. [op |-> op, items |-> items].op = op
    OBVIOUS
  <2> QED
    BY <2>2, <2>3 DEF CallsEffect
<1>2. CASE SendAnswered
  BY <1>2 DEF SendAnswered, Called, Created, CallsEffect, NewMessage, view
<1>3. CASE calls' \subseteq calls /\ UNCHANGED own
  BY <1>3 DEF CallsEffect
<1>4. CASE OthersSend \/ OthersEdit \/ OthersDelete \/ BridgeTakes \/ MainHandles
           \/ HistoryApplied \/ PreloadSaved \/ SendApplied \/ EditApplied \/ DeleteEnds
           \/ MoreFails \/ UNCHANGED vars
  <2>1. calls' \subseteq calls /\ UNCHANGED own
    BY <1>4 DEF OthersSend, OthersEdit, OthersDelete, BridgeTakes, MainHandles,
           HistoryApplied, PreloadSaved, SendApplied, EditApplied, DeleteEnds, MoreFails,
           vars, NoEvents, history
  <2> QED
    BY <2>1, <1>3
<1>5. CASE MoreAnswered
  <2>1. PICK op \in {"more", "preload"} : \E items :
          calls' \subseteq calls \cup {[op |-> op, items |-> items]} /\ UNCHANGED own
    <3>1. PICK c \in calls : \E m \in c.items :
                           calls' = (calls \ {c}) \cup
                             {[op    |-> IF c.op = "ask" THEN "more" ELSE "preload",
                               items |-> History(m.id)]}
      BY <1>5 DEF MoreAnswered
    <3>2. PICK items : calls' = (calls \ {c}) \cup
                             {[op    |-> IF c.op = "ask" THEN "more" ELSE "preload",
                               items |-> items]}
      BY <3>1
    <3>3. PICK op \in {"more", "preload"} : op = IF c.op = "ask" THEN "more" ELSE "preload"
      OBVIOUS
    <3>4. UNCHANGED own
      BY <1>5 DEF MoreAnswered, NoEvents, history
    <3> QED
      BY <3>2, <3>3, <3>4
  <2>2. PICK items : calls' \subseteq calls \cup {[op |-> op, items |-> items]} /\ UNCHANGED own
    BY <2>1
  <2>3. [op |-> op, items |-> items].op # "send"
    BY <2>1
  <2> QED
    BY <2>2, <2>3 DEF CallsEffect
<1>6. CASE Reopen
  <2>1. Loads /\ own' = {} /\ calls' = {Detached(c) : c \in calls}
    BY <1>6 DEF Reopen, Loads
  <2>2. \A c \in calls' : c.op # "send"
    BY <2>1, DetachedCall DEF CallsOK
  <2> QED
    BY <2>1, <2>2 DEF CallsEffect
<1> QED
  BY <1>1, <1>2, <1>4, <1>5, <1>6 DEF Next

LEMMA SendsStep ==
  ASSUME TypeInv, SendsOwn, [Next]_vars
  PROVE  /\ SendsOwn'
         /\ Loads \/ \A i \in own : ~Sending(i) => i \in own' /\ ~Sending(i)'
<1>1. top \in Int /\ top' \in Int /\ (NewMessage \/ UNCHANGED top)
  BY ServerStep, BoundsAssumption DEF TypeInv, ServerOK
<1>2. CASE calls' \subseteq calls /\ UNCHANGED own
  BY <1>1, <1>2 DEF SendsOwn, Sending, NewMessage
<1>3. CASE \E c : calls' \subseteq calls \cup {c} /\ c.op # "send" /\ UNCHANGED own
  BY <1>1, <1>3 DEF SendsOwn, Sending, NewMessage
<1>4. CASE /\ calls' = calls \cup {[op |-> "send", items |-> {[id |-> top + 1, ver |-> 1]}]}
           /\ own' = own \cup {top + 1} /\ NewMessage
  <2>1. PICK n : n = top + 1
    OBVIOUS
  <2>2. PICK new : new = [op |-> "send", items |-> {[id |-> n, ver |-> 1]}]
    OBVIOUS
  <2>3. new.items = {[id |-> n, ver |-> 1]} /\ \A m \in new.items : m.id = n
    BY <2>2
  <2>4. calls' = calls \cup {new} /\ own' = own \cup {n} /\ top' = n
    BY <1>4, <2>1, <2>2 DEF NewMessage
  <2>0. top \in Nat /\ own \subseteq 1 .. top
    BY BoundsAssumption DEF TypeInv, ServerOK, SendsOwn
  <2>5. n \notin own /\ own' \subseteq 1 .. top'
    <3>1. 1 .. n = (1 .. top) \cup {n} /\ n \notin 1 .. top
      BY <2>1, <2>0
    <3> QED
      BY <2>4, <2>0, <3>1
  <2>6. SendsOwn'
    BY <2>3, <2>4, <2>5 DEF SendsOwn
  <2>7. \A i \in own : ~Sending(i) => ~Sending(i)'
    BY <2>3, <2>4, <2>5 DEF Sending
  <2> QED
    BY <2>4, <2>6, <2>7
<1>5. CASE Loads /\ own' = {} /\ \A c \in calls' : c.op # "send"
  BY <1>5 DEF SendsOwn
<1> QED
  BY <1>2, <1>3, <1>4, <1>5, CallsStep DEF CallsEffect, TypeInv

LEMMA OnceStep ==
  ASSUME TypeInv, TypeInv', OnceInv, [Next]_vars
  PROVE  OnceInv'
<1> USE DEF OnceInv
<1>1. SendsOwn' /\ (Loads \/ \A i \in own : ~Sending(i) => i \in own' /\ ~Sending(i)')
  BY SendsStep
<1>0. ASSUME Once' PROVE OnceInv'
  BY <1>0, <1>1
<1>2. shown \in Seq(Item) /\ shown' \in Seq(Item)
  BY DEF TypeInv, ShownOK
<1>3. \A i : Occurs(shown, i) \in Nat /\ Occurs(shown', i) \in Nat
  BY <1>2, OccursFinite
<1>4. ASSUME ~Loads, \A i : Occurs(shown', i) <= Occurs(shown, i) PROVE Once'
  <2> SUFFICES ASSUME NEW i \in Ids
               PROVE  Occurs(shown', i) <= IF i \in own' /\ ~Sending(i)' THEN 2 ELSE 1
    BY DEF Once
  <2>1. Occurs(shown, i) <= IF i \in own /\ ~Sending(i) THEN 2 ELSE 1
    BY DEF Once
  <2>2. Occurs(shown', i) <= Occurs(shown, i)
    BY <1>4
  <2> QED
    BY <2>1, <2>2, <1>1, <1>3, <1>4
<1>5. CASE ~Loads /\ (Stays \/ Again \/ Drops)
  <2>1. \A i : Occurs(shown', i) <= Occurs(shown, i)
    BY <1>3, <1>5 DEF Stays, Again, Drops
  <2> QED
    BY <1>1, <1>4, <1>5, <2>1
<1>6. CASE Loads
  <2>1. cache' \in [Ids -> 0 .. 2]
    BY DEF TypeInv, CacheOK
  <2>2. \A k, l \in DOMAIN shown' : shown'[k].id = shown'[l].id => k = l
    BY <1>6, <2>1, LoadedFromTable DEF Loads
  <2>3. \A i : Occurs(shown', i) <= 1
    BY <1>2, <2>2, OccursFinite
  <2> QED
    BY <1>1, <1>3, <2>3 DEF Once
<1>7. ASSUME ~Loads, NEW i \in Ids \ ShownIds, Adds(i) PROVE Once'
  <2>1. Occurs(shown, i) = 0
    BY <1>2, OccursFinite DEF ShownIds
  <2> SUFFICES ASSUME NEW j \in Ids
               PROVE  Occurs(shown', j) <= IF j \in own' /\ ~Sending(j)' THEN 2 ELSE 1
    BY DEF Once
  <2>2. Occurs(shown, j) <= IF j \in own /\ ~Sending(j) THEN 2 ELSE 1
    BY DEF Once
  <2>3. Occurs(shown', j) = Occurs(shown, j) + IF i = j THEN 1 ELSE 0
    BY <1>7 DEF Adds
  <2> QED
    BY <2>1, <2>2, <2>3, <1>1, <1>3, <1>7
<1>8. ASSUME ~Loads, NEW i \in Ids, Adds(i), Sent(i), UNCHANGED own PROVE Once'
  <2>1. PICK c \in calls : c.op = "send" /\ calls' = calls \ {c} /\ \E m \in c.items : m.id = i
    BY <1>8 DEF Sent
  <2>2. i \in own /\ c.items = {[id |-> i, ver |-> 1]} /\ Sending(i)
    <3>1. PICK n \in own : c.items = {[id |-> n, ver |-> 1]}
      BY <2>1 DEF SendsOwn
    <3>2. n = i
      BY <2>1, <3>1
    <3> QED
      BY <2>1, <3>1, <3>2 DEF Sending
  <2>3. \A d \in calls : d.op = "send" /\ (\E m \in d.items : m.id = i) => d = c
    <3> TAKE d \in calls
    <3> SUFFICES ASSUME d.op = "send", \E m \in d.items : m.id = i PROVE d = c
      OBVIOUS
    <3>1. PICK n \in own : d.items = {[id |-> n, ver |-> 1]}
      BY DEF SendsOwn
    <3>2. n = i
      BY <3>1
    <3>3. d.items = c.items /\ d.op = c.op
      BY <2>1, <2>2, <3>1, <3>2
    <3>4. c \in Call /\ d \in Call
      BY DEF TypeInv, CallsOK
    <3> QED
      BY <3>3, <3>4 DEF Call
  <2>4. ~Sending(i)' /\ i \in own'
    BY <2>1, <2>2, <2>3, <1>8 DEF Sending
  <2> SUFFICES ASSUME NEW j \in Ids
               PROVE  Occurs(shown', j) <= IF j \in own' /\ ~Sending(j)' THEN 2 ELSE 1
    BY DEF Once
  <2>5. Occurs(shown, j) <= IF j \in own /\ ~Sending(j) THEN 2 ELSE 1
    BY DEF Once
  <2>6. Occurs(shown', j) = Occurs(shown, j) + IF i = j THEN 1 ELSE 0
    BY <1>8 DEF Adds
  <2>7. CASE i = j
    BY <2>2, <2>4, <2>5, <2>6, <2>7, <1>3
  <2>8. CASE i # j
    BY <2>5, <2>6, <2>8, <1>1, <1>3, <1>8
  <2> QED
    BY <2>7, <2>8
<1> QED
  BY <1>0, <1>5, <1>6, <1>7, <1>8, ViewStep DEF ViewEffect

LEMMA OnceInit == Init => OnceInv
<1> SUFFICES ASSUME Init PROVE OnceInv
  OBVIOUS
<1>1. shown = LoadMessages(cache) /\ cache \in [Ids -> 0 .. 2]
  BY TypeInit DEF Init, TypeInv, CacheOK
<1>2. shown \in Seq(Item) /\ \A k, l \in DOMAIN shown : shown[k].id = shown[l].id => k = l
  BY <1>1, LoadedFromTable
<1>3. \A i : Occurs(shown, i) <= 1
  BY <1>2, OccursFinite
<1>4. own = {} /\ calls = {}
  BY DEF Init
<1> QED
  BY <1>3, <1>4 DEF OnceInv, SendsOwn, Once

(* No order of events, loads, edits and reopenings shows a message twice but *)
(* one sent from this view, and that twice at most                           *)
(* (ConversationViewModel.swift 38-41, 106, 138, 193).                       *)
THEOREM OnlyOwnSendsDoubled == Spec => []DuplicateOnlyOfOwnSend
<1>1. TypeInv /\ OnceInv /\ [Next]_vars => TypeInv' /\ OnceInv'
  BY TypeStep, OnceStep
<1>2. TypeInv /\ OnceInv => DuplicateOnlyOfOwnSend
  <2> SUFFICES ASSUME TypeInv, Once, NEW i \in Ids
               PROVE  Count(i) <= IF i \in own THEN 2 ELSE 1
    BY DEF OnceInv, DuplicateOnlyOfOwnSend
  <2>1. Occurs(shown, i) <= IF i \in own /\ ~Sending(i) THEN 2 ELSE 1
    BY DEF Once
  <2>2. Occurs(shown, i) \in Nat
    BY OccursFinite DEF TypeInv, ShownOK
  <2>3. Count(i) = Occurs(shown, i)
    BY DEF Count, Occurs
  <2> QED
    BY <2>1, <2>2, <2>3
<1> QED
  BY <1>1, <1>2, TypeInit, OnceInit, PTL DEF Spec
-----------------------------------------------------------------------------
(* The history without holes *)

Events(q) == {q[k] : k \in DOMAIN q}

LEMMA EventsAppended ==
  ASSUME NEW q \in Seq(Event), NEW e \in Event
  PROVE  Events(Append(q, e)) = Events(q) \cup {e}
<1>1. /\ Append(q, e) \in Seq(Event) /\ Len(Append(q, e)) = Len(q) + 1
      /\ \A k \in 1 .. Len(q) : Append(q, e)[k] = q[k]
      /\ Append(q, e)[Len(q) + 1] = e
  BY AppendProperties
<1>2. Len(q) \in Nat /\ DOMAIN q = 1 .. Len(q) /\ DOMAIN Append(q, e) = 1 .. Len(q) + 1
  BY <1>1, LenProperties
<1>3. DOMAIN Append(q, e) = DOMAIN q \cup {Len(q) + 1}
  BY <1>2
<1> QED
  BY <1>1, <1>2, <1>3 DEF Events

LEMMA EventsTail ==
  ASSUME NEW q \in Seq(Event), q # <<>>
  PROVE  Events(q) = {Head(q)} \cup Events(Tail(q))
<1>1. /\ Tail(q) \in Seq(Event) /\ Len(Tail(q)) = Len(q) - 1
      /\ \A k \in 1 .. Len(Tail(q)) : Tail(q)[k] = q[k + 1]
  BY HeadTailProperties
<1>2. /\ Len(q) \in Nat \ {0} /\ DOMAIN q = 1 .. Len(q) /\ DOMAIN Tail(q) = 1 .. Len(q) - 1
      /\ Head(q) = q[1]
  BY <1>1, EmptySeq, LenProperties
<1>3. \A e \in Events(q) : e \in {Head(q)} \cup Events(Tail(q))
  <2> SUFFICES ASSUME NEW k \in DOMAIN q
               PROVE  q[k] \in {Head(q)} \cup Events(Tail(q))
    BY DEF Events
  <2>1. CASE k = 1
    BY <2>1, <1>2
  <2>2. CASE k # 1
    <3>1. k - 1 \in DOMAIN Tail(q) /\ (k - 1) + 1 = k
      BY <2>2, <1>2
    <3>2. Tail(q)[k - 1] = q[k]
      BY <3>1, <1>1, <1>2
    <3> QED
      BY <3>1, <3>2 DEF Events
  <2> QED
    BY <2>1, <2>2
<1>4. \A k \in DOMAIN Tail(q) : k + 1 \in DOMAIN q /\ Tail(q)[k] = q[k + 1]
  BY <1>1, <1>2
<1>5. Head(q) \in Events(q) /\ Events(Tail(q)) \subseteq Events(q)
  BY <1>2, <1>4 DEF Events
<1> QED
  BY <1>3, <1>5

(* A page, an edit or a deletion is asked for of what is shown, which is     *)
(* cached.                                                                   *)
ChangesCached ==
  \A c \in calls : c.op \in {"ask", "late", "edit", "delete"} => \A m \in c.items : m.id \in Cached

(* What waits for the main actor is cached or deleted.                       *)
CachedFirst ==
  /\ \A e \in Events(mainQ) : IF e.kind = "delete" THEN e.item.id \notin live
                              ELSE e.item.id \in Cached
  /\ \A e \in Events(bridgeQ) : e.kind = "delete" => e.item.id \notin live

(* The messages the app knows nothing of.  They are all older than what it   *)
(* knows of, and there are none once a page came back short.                 *)
Untold == {i \in live : i \notin Cached /\ ~Announced(i) /\ i \notin missed}

Asked(i) == \E c \in calls : \E m \in c.items : m.id = i

Known(j) == \/ j \in Cached \/ Asked(j)
            \/ \E e \in Events(bridgeQ) : e.kind = "new" /\ e.item.id = j

Short == ~hasMore \/ \E c \in calls : c.op \in {"load", "more"} /\ ~(Cardinality(c.items) >= Page)

Frontier == \A u \in Untold : \A j \in Ids : Known(j) => u < j
Reached  == Short => Untold = {}

WholeInv == ChangesCached /\ CachedFirst /\ Frontier /\ Reached

(* What a step does to the queues. *)
LEMMA PushEffect ==
  ASSUME TypeInv, NEW kind \in {"new", "edit", "delete"}, NEW i \in Ids, NEW v \in 1 .. 2,
         Push(kind, i, v) \/ Pushed(kind, i, v)
  PROVE  /\ Events(bridgeQ) \subseteq Events(bridgeQ')
         /\ \A e \in Events(bridgeQ') : e \in Events(bridgeQ) \/ (e.kind = kind /\ e.item.id = i)
         /\ missed \subseteq missed'
         /\ kind = "new" => i \in missed' \/ \E e \in Events(bridgeQ') : e.item.id = i
<1> DEFINE e == [kind |-> kind, item |-> [id |-> i, ver |-> v]]
<1>1. e \in Event /\ e.kind = kind /\ e.item.id = i
  BY DEF Event, Item
<1>2. bridgeQ \in Seq(Event)
  BY DEF TypeInv, QueuesOK
<1> HIDE DEF e
<1>3. Events(Append(bridgeQ, e)) = Events(bridgeQ) \cup {e}
  BY <1>1, <1>2, EventsAppended
<1>4. CASE bridgeQ' = Append(bridgeQ, e) /\ UNCHANGED missed
  BY <1>1, <1>3, <1>4
<1>5. CASE UNCHANGED bridgeQ /\ missed' = IF kind = "new" THEN missed \cup {i} ELSE missed
  BY <1>5
<1> QED
  BY <1>4, <1>5 DEF Push, Pushed, e

(* What a step does to the events under way. *)
EventEffect ==
  /\ \A e \in Events(bridgeQ) : e \in Events(bridgeQ') \/ e \in Events(mainQ')
  /\ \A e \in Events(bridgeQ') :
       \/ e \in Events(bridgeQ) \/ e.kind = "edit"
       \/ e.kind = "delete" /\ e.item.id \notin live'
       \/ e.kind = "new" /\ e.item.id = top + 1 /\ NewMessage
  /\ missed \subseteq missed'
  /\ Created => \/ top' \in missed' \/ \E e \in Events(bridgeQ') : e.item.id = top'
                \/ \E c \in calls' : \E m \in c.items : m.id = top'

LEMMA BridgeEffect == TypeInv /\ [Next]_vars => EventEffect
<1> SUFFICES ASSUME TypeInv, [Next]_vars PROVE EventEffect
  OBVIOUS
<1> USE DEF TypeInv
<1>1. bridgeQ \in Seq(Event) /\ mainQ \in Seq(Event)
  BY DEF QueuesOK
<1>2. \A i \in live : i \in Ids /\ version[i] \in 1 .. 2
  <2>1. \A i \in live : i \in Ids
    BY BoundsAssumption DEF ServerOK, Ids
  <2> QED
    BY <2>1 DEF ServerOK
<1>3. Created => NewMessage /\ top' \in Ids /\ top' = top + 1
  <2>1. PICK n : n = top + 1
    OBVIOUS
  <2> QED
    BY <2>1, CreatedServer DEF NewMessage, Created
<1>4. CASE OthersSend
  <2>1. Created /\ Push("new", top + 1, 1)
    BY <1>4 DEF OthersSend
  <2>2. PICK n \in Ids : n = top + 1 /\ n = top'
    BY <1>3, <2>1
  <2>3. Push("new", n, 1)
    BY <2>1, <2>2
  <2>4. 1 \in 1 .. 2
    OBVIOUS
  <2> QED
    BY <1>3, <2>1, <2>2, <2>3, <2>4, PushEffect DEF EventEffect
<1>5. CASE SendAnswered
  <2>1. Created /\ (Pushed("new", top + 1, 1) \/ UNCHANGED <<bridgeQ, missed>>)
        /\ calls' = calls \cup {[op |-> "send", items |-> {[id |-> top + 1, ver |-> 1]}]}
    BY <1>5 DEF SendAnswered, Called
  <2>2. PICK n \in Ids : n = top + 1 /\ n = top'
    BY <1>3, <2>1
  <2>3. PICK new : new = [op |-> "send", items |-> {[id |-> n, ver |-> 1]}]
    OBVIOUS
  <2>4. new \in calls' /\ [id |-> n, ver |-> 1] \in new.items /\ [id |-> n, ver |-> 1].id = n
    BY <2>1, <2>2, <2>3
  <2>5. \E c \in calls' : \E m \in c.items : m.id = top'
    BY <2>2, <2>4
  <2>6. CASE Pushed("new", n, 1)
    BY <1>3, <2>1, <2>2, <2>5, <2>6, PushEffect DEF EventEffect
  <2>7. CASE UNCHANGED <<bridgeQ, missed>>
    BY <2>2, <2>5, <2>7, <1>3, <2>1 DEF EventEffect
  <2> QED
    BY <2>1, <2>2, <2>6, <2>7
<1>6. CASE OthersEdit \/ EditAnswered
  <2>1. PICK i : Edited(i) /\ Push("edit", i, 2)
    BY <1>6 DEF OthersEdit, EditAnswered
  <2>2. i \in Ids /\ top' = top /\ ~Created
    BY <2>1, <1>2, BoundsAssumption DEF Edited, Created, ServerOK
  <2>3. 2 \in 1 .. 2
    OBVIOUS
  <2> QED
    BY <2>1, <2>2, <2>3, PushEffect DEF EventEffect
<1>7. CASE OthersDelete \/ (DeleteEnds /\ ~UNCHANGED queues)
  <2>1. PICK i \in Ids, v \in 1 .. 2 : Deleted(i) /\ Push("delete", i, v)
    <3>1. CASE OthersDelete
      BY <3>1, <1>2 DEF OthersDelete
    <3>2. CASE DeleteEnds /\ ~UNCHANGED queues
      <4>1. PICK c \in calls : \E m \in c.items : Deleted(m.id) /\ Push("delete", m.id, m.ver)
        BY <3>2 DEF DeleteEnds, NoEvents
      <4>2. PICK m \in c.items : Deleted(m.id) /\ Push("delete", m.id, m.ver)
        BY <4>1
      <4>3. m.id \in Ids /\ m.ver \in 1 .. 2
        BY CallItems DEF Item
      <4> QED
        BY <4>2, <4>3
    <3> QED
      BY <1>7, <3>1, <3>2
  <2>2. i \notin live' /\ top' = top /\ ~Created
    BY <2>1, BoundsAssumption DEF Deleted, Created, ServerOK
  <2> QED
    BY <2>1, <2>2, PushEffect DEF EventEffect
<1>8. CASE BridgeTakes
  <2>1. PICK h : h = Head(bridgeQ)
    OBVIOUS
  <2>2. bridgeQ # <<>> /\ bridgeQ' = Tail(bridgeQ) /\ mainQ' = Append(mainQ, h)
        /\ missed \subseteq missed' /\ top' = top
    BY <1>8, <2>1 DEF BridgeTakes, serverVars
  <2>3. h \in Event
    BY <2>1, <2>2, BridgeHead
  <2>4. Events(bridgeQ) = {h} \cup Events(bridgeQ') /\ Events(mainQ') = Events(mainQ) \cup {h}
    BY <1>1, <2>1, <2>2, <2>3, EventsTail, EventsAppended
  <2>5. ~Created
    BY <2>2, BoundsAssumption DEF Created, ServerOK
  <2> QED
    BY <2>2, <2>4, <2>5 DEF EventEffect
<1>9. CASE UNCHANGED <<bridgeQ, missed, top>>
  <2>1. ~Created
    BY <1>9, BoundsAssumption DEF Created, ServerOK
  <2> QED
    BY <2>1, <1>9 DEF EventEffect
<1>10. CASE DeleteEnds /\ UNCHANGED queues
  <2>1. missed \subseteq missed' /\ UNCHANGED top /\ UNCHANGED bridgeQ
    BY <1>10 DEF DeleteEnds, Deleted, Push, Pushed, NoEvents, history, serverVars, queues
  <2>2. ~Created
    BY <2>1, BoundsAssumption DEF Created, ServerOK
  <2> QED
    BY <2>1, <2>2 DEF EventEffect
<1>11. \/ OthersSend \/ SendAnswered \/ OthersEdit \/ EditAnswered \/ OthersDelete
       \/ DeleteEnds \/ BridgeTakes \/ UNCHANGED <<bridgeQ, missed, top>>
  BY DEF Next, vars, serverVars, queues, history, MainHandles, LoadAnswered, PreloadAnswered,
         MoreAsked, MoreAnswered, MoreFails, Asks, NoEvents, HistoryApplied, PreloadSaved,
         SendApplied, EditApplied, DeletePressed, Reopen
<1> QED
  BY <1>4, <1>5, <1>6, <1>7, <1>8, <1>9, <1>10, <1>11

LEMMA MainEffect ==
  ASSUME TypeInv, [Next]_vars
  PROVE  \A e \in Events(mainQ') :
           e \in Events(mainQ) \/ (BridgeTakes /\ bridgeQ # <<>> /\ e = Head(bridgeQ))
<1>1. bridgeQ \in Seq(Event) /\ mainQ \in Seq(Event)
  BY DEF TypeInv, QueuesOK
<1>2. CASE BridgeTakes
  <2>1. PICK h : h = Head(bridgeQ)
    OBVIOUS
  <2>2. bridgeQ # <<>> /\ mainQ' = Append(mainQ, h)
    BY <1>2, <2>1 DEF BridgeTakes
  <2>3. h \in Event
    BY <2>1, <2>2, BridgeHead DEF TypeInv
  <2> QED
    BY <1>1, <1>2, <2>1, <2>2, <2>3, EventsAppended
<1>3. CASE MainHandles
  BY <1>1, <1>3, HandledCases, EventsTail
<1>4. CASE Reopen
  <2>1. PICK n \in 0 .. Len(mainQ) : mainQ' = SubSeq(mainQ, n + 1, Len(mainQ))
    BY <1>4 DEF Reopen
  <2>2. Standing(mainQ, top, version)
    BY QueuesStanding DEF TypeInv
  <2>3. \A k \in DOMAIN mainQ' : \E l \in DOMAIN mainQ : mainQ'[k] = mainQ[l]
    BY <2>1, <2>2, SuffixStanding
  <2> QED
    BY <2>3 DEF Events
<1>5. CASE UNCHANGED mainQ
  BY <1>5
<1>6. BridgeTakes \/ MainHandles \/ Reopen \/ UNCHANGED mainQ
  BY DEF Next, vars, queues, OthersSend, OthersEdit, OthersDelete, LoadAnswered,
         PreloadAnswered, MoreAsked, MoreAnswered, MoreFails, Asks, NoEvents,
         HistoryApplied, PreloadSaved, SendAnswered, SendApplied, EditAnswered, EditApplied, DeletePressed, DeleteEnds
<1> QED
  BY <1>2, <1>3, <1>4, <1>5, <1>6

(* What a step does to the calls under way and to the cache. *)
Paged(c) == /\ \E before \in {Newest} \cup Cached : c.items = History(before)
            /\ c.op \in {"load", "more", "preload"}
            /\ UNCHANGED <<serverVars, cache, hasMore, queues, missed>>

Asking(c) == \/ Paged(c)
             \/ c.op = "send" /\ NewMessage /\ \A m \in c.items : m.id = top + 1
             \/ c.op \in {"ask", "edit", "delete"} /\ \A m \in c.items : m.id \in ShownIds

LEMMA CallEffect ==
  ASSUME TypeInv, ChangesCached, [Next]_vars
  PROVE  /\ \A c \in calls' : c \in calls \/ Asking(c) \/ \E d \in calls : c = Detached(d)
         /\ \A c \in calls : \/ \E d \in calls' : d.items = c.items
                           \/ c.op \in {"ask", "late", "delete"}
                           \/ \A m \in c.items : m.id \in Cached'
<1>1. ASSUME NEW op, NEW items, Called(op, items), Asking([op |-> op, items |-> items])
      PROVE  (\A c \in calls' : c \in calls \/ Asking(c)) /\ calls \subseteq calls'
  BY <1>1 DEF Called
<1>2. CASE LoadAnswered \/ PreloadAnswered
  <2>1. PICK op \in {"load", "preload"} : Asks(op, Newest)
    BY <1>2 DEF LoadAnswered, PreloadAnswered
  <2>2. PICK c : c = [op |-> op, items |-> History(Newest)]
    OBVIOUS
  <2>3. c.op = op /\ c.items = History(Newest) /\ Called(op, c.items)
        /\ c = [op |-> op, items |-> c.items]
    BY <2>1, <2>2 DEF Asks
  <2>4. Paged(c)
    BY <2>1, <2>3 DEF Paged, Asks, NoEvents, history, view
  <2>5. Asking([op |-> op, items |-> c.items])
    BY <2>3, <2>4 DEF Asking
  <2> QED
    BY <1>1, <2>3, <2>5
<1>9. CASE MoreAnswered
  <2>1. PICK c \in calls : /\ c.op \in {"ask", "late"}
                           /\ \E m \in c.items :
                                calls' = (calls \ {c}) \cup
                                  {[op    |-> IF c.op = "ask" THEN "more" ELSE "preload",
                                    items |-> History(m.id)]}
    BY <1>9 DEF MoreAnswered
  <2>2. PICK before \in Cached :
          calls' = (calls \ {c}) \cup {[op    |-> IF c.op = "ask" THEN "more" ELSE "preload",
                                       items |-> History(before)]}
    BY <2>1 DEF ChangesCached
  <2>3. PICK op \in {"more", "preload"} : op = IF c.op = "ask" THEN "more" ELSE "preload"
    OBVIOUS
  <2>4. PICK new : new = [op |-> op, items |-> History(before)]
    OBVIOUS
  <2>5. new.op = op /\ new.items = History(before) /\ calls' = (calls \ {c}) \cup {new}
    BY <2>2, <2>3, <2>4
  <2>6. UNCHANGED <<serverVars, cache, hasMore, queues, missed>>
    BY <1>9 DEF MoreAnswered, NoEvents, history, view
  <2>7. Asking(new)
    BY <2>5, <2>6 DEF Asking, Paged
  <2> QED
    BY <2>1, <2>5, <2>7
<1>10. CASE MoreFails
  BY <1>10 DEF MoreFails
<1>11. CASE Reopen
  <2>1. calls' = {Detached(c) : c \in calls}
    BY <1>11 DEF Reopen
  <2>2. \A c \in calls : Detached(c) \in calls' /\ Detached(c).items = c.items
    BY <2>1, DetachedCall DEF TypeInv, CallsOK
  <2> QED
    BY <2>1, <2>2
<1>3. CASE SendAnswered
  <2>1. PICK n : n = top + 1
    OBVIOUS
  <2>2. Called("send", {[id |-> n, ver |-> 1]}) /\ NewMessage
    BY <1>3, <2>1 DEF SendAnswered, Created, NewMessage
  <2>3. PICK items : items = {[id |-> n, ver |-> 1]}
    OBVIOUS
  <2>4. \A m \in items : m.id = top + 1
    BY <2>1, <2>3
  <2>5. PICK c : c = [op |-> "send", items |-> items]
    OBVIOUS
  <2>6. c.op = "send" /\ c.items = items
    BY <2>5
  <2>7. Asking(c)
    BY <2>2, <2>4, <2>6 DEF Asking
  <2> QED
    BY <1>1, <2>2, <2>3, <2>5, <2>7
<1>4. CASE EditAnswered \/ DeletePressed \/ MoreAsked
  <2>1. PICK op \in {"ask", "edit", "delete"}, i \in ShownIds,
             v \in {shown[k].ver : k \in DOMAIN shown} \cup {2} :
          Called(op, {[id |-> i, ver |-> v]})
    <3>1. CASE EditAnswered
      BY <3>1 DEF EditAnswered
    <3>2. CASE DeletePressed \/ MoreAsked
      <4>1. PICK k \in DOMAIN shown, op \in {"ask", "delete"} : Called(op, {shown[k]})
        <5>1. CASE MoreAsked
          <6>1. shown # <<>> /\ Called("ask", {shown[1]})
            BY <5>1 DEF MoreAsked
          <6>2. 1 \in DOMAIN shown
            BY <6>1, EmptySeq, LenProperties DEF TypeInv, ShownOK
          <6> QED
            BY <6>1, <6>2
        <5> QED
          BY <3>2, <5>1 DEF DeletePressed
      <4>2. shown[k] \in Item
        BY ElementOfSeq, LenProperties DEF TypeInv, ShownOK
      <4>3. shown[k] = [id |-> shown[k].id, ver |-> shown[k].ver]
        BY <4>2 DEF Item
      <4>4. Called(op, {[id |-> shown[k].id, ver |-> shown[k].ver]})
        BY <4>1, <4>3
      <4> QED
        BY <4>4 DEF ShownIds
    <3> QED
      BY <1>4, <3>1, <3>2
  <2>2. PICK items : items = {[id |-> i, ver |-> v]}
    OBVIOUS
  <2>3. \A m \in items : m.id \in ShownIds
    BY <2>2
  <2>4. PICK c : c = [op |-> op, items |-> items]
    OBVIOUS
  <2>5. c.op = op /\ c.items = items
    BY <2>4
  <2>6. Asking(c)
    BY <2>3, <2>5 DEF Asking
  <2> QED
    BY <1>1, <2>1, <2>2, <2>4, <2>6
<1>5. CASE HistoryApplied \/ PreloadSaved \/ SendApplied \/ EditApplied
  <2>1. PICK c \in calls : calls' = calls \ {c} /\ cache' = Saved(c.items)
    BY <1>5 DEF HistoryApplied, PreloadSaved, SendApplied, EditApplied
  <2>2. Cached' = Cached \cup {m.id : m \in c.items}
    BY <2>1, CallItems, SavedCached DEF TypeInv
  <2> QED
    BY <2>1, <2>2
<1>6. CASE DeleteEnds
  BY <1>6 DEF DeleteEnds
<1>7. CASE UNCHANGED calls
  BY <1>7
<1>8. \/ LoadAnswered \/ PreloadAnswered \/ MoreAsked \/ MoreAnswered \/ MoreFails
      \/ Reopen \/ SendAnswered \/ EditAnswered \/ DeletePressed \/ HistoryApplied \/ PreloadSaved \/ SendApplied \/ EditApplied
      \/ DeleteEnds \/ UNCHANGED calls
  BY DEF Next, vars, OthersSend, OthersEdit, OthersDelete, BridgeTakes, MainHandles
<1> QED
  BY <1>2, <1>3, <1>4, <1>5, <1>6, <1>7, <1>8, <1>9, <1>10, <1>11

LEMMA CacheEffect ==
  ASSUME TypeInv, NothingLost, [Next]_vars
  PROVE  \A j \in Cached' :
           \/ j \in Cached \/ Asked(j)
           \/ BridgeTakes /\ bridgeQ # <<>> /\ j = Head(bridgeQ).item.id
           \/ \E e \in Events(mainQ) : e.kind = "new" /\ e.item.id = j
<1> USE DEF TypeInv
<1>1. CASE BridgeTakes
  <2>1. CASE Head(bridgeQ).kind = "delete"
    BY <1>1, <2>1 DEF BridgeTakes, Cached
  <2>2. CASE Head(bridgeQ).kind # "delete"
    <3>1. bridgeQ # <<>> /\ cache' = Saved({Head(bridgeQ).item})
      BY <1>1, <2>2 DEF BridgeTakes
    <3>2. Cached' = Cached \cup {m.id : m \in {Head(bridgeQ).item}}
      BY <3>1, BridgeHead, SavedCached
    <3> QED
      BY <1>1, <3>1, <3>2
  <2> QED
    BY <2>1, <2>2
<1>2. CASE MainHandles
  <2>1. PICK h \in Events(mainQ) : h = Head(mainQ) /\ h.item \in Item /\ Served(h.item)
    BY <1>2, HandledCases, MainHead DEF Events
  <2>2. CASE cache' = Saved({h.item})
    <3>1. Cached' = Cached \cup {m.id : m \in {h.item}}
      BY <2>1, <2>2, SavedCached
    <3>2. h.kind = "new" \/ h.item.id \in ShownIds \/ UNCHANGED cache
      BY <1>2, <2>1, HandledCases DEF HandleEdit, HandleDelete
    <3> QED
      BY <2>1, <3>1, <3>2 DEF NothingLost, Cached
  <2>3. CASE UNCHANGED cache
    BY <2>3 DEF Cached
  <2> QED
    BY <1>2, <2>1, <2>2, <2>3, HandledCases DEF HandleNew, HandleEdit, HandleDelete
<1>3. CASE HistoryApplied \/ PreloadSaved \/ SendApplied \/ EditApplied
  <2>1. PICK c \in calls : cache' = Saved(c.items)
    BY <1>3 DEF HistoryApplied, PreloadSaved, SendApplied, EditApplied
  <2>2. Cached' = Cached \cup {m.id : m \in c.items}
    BY <2>1, CallItems, SavedCached
  <2> QED
    BY <2>2 DEF Asked
<1>4. CASE UNCHANGED cache
  BY <1>4 DEF Cached
<1>5. BridgeTakes \/ MainHandles \/ HistoryApplied \/ PreloadSaved \/ SendApplied
      \/ EditApplied \/ UNCHANGED cache
  BY DEF Next, vars, OthersSend, OthersEdit, OthersDelete, LoadAnswered, MoreAsked,
         MoreAnswered, MoreFails, PreloadAnswered, Asks, SendAnswered, EditAnswered,
         DeletePressed, DeleteEnds, Reopen
<1> QED
  BY <1>1, <1>2, <1>3, <1>4, <1>5

LEMMA MoreEffect ==
  ASSUME TypeInv, [Next]_vars
  PROVE  ~hasMore' => Short
<1>1. CASE HistoryApplied
  <2>1. PICK c \in calls : c.op \in {"load", "more"} /\ hasMore' = (Cardinality(c.items) >= Page)
    BY <1>1 DEF HistoryApplied
  <2> QED
    BY <2>1 DEF Short
<1>2. CASE UNCHANGED hasMore \/ hasMore' = TRUE
  BY <1>2 DEF Short
<1>3. HistoryApplied \/ UNCHANGED hasMore \/ hasMore' = TRUE
  BY DEF Next, vars, view, OthersSend, OthersEdit, OthersDelete, BridgeTakes, MainHandles,
         LoadAnswered, PreloadAnswered, MoreAsked, MoreAnswered, MoreFails, Asks,
         PreloadSaved, SendAnswered, SendApplied, EditAnswered, EditApplied, DeletePressed, DeleteEnds, Reopen
<1> QED
  BY <1>1, <1>2, <1>3

(* No step makes a message unknown: a new one is told of, sent from here or  *)
(* missed, and what leaves the queues and the calls is cached or deleted.    *)
LEMMA UntoldStep ==
  ASSUME TypeInv, TypeInv', ChangesCached, CachedFirst, [Next]_vars
  PROVE  Untold' \subseteq Untold
<1> USE DEF TypeInv
<1>1. Cached \subseteq Cached'
  BY CacheStep
<1>2. EventEffect
  BY BridgeEffect
<1>3. \A c \in calls : \/ \E d \in calls' : d.items = c.items
                     \/ c.op \in {"ask", "late", "delete"}
                     \/ \A m \in c.items : m.id \in Cached'
  BY CallEffect
<1> SUFFICES ASSUME NEW i \in Untold' PROVE i \in Untold
  OBVIOUS
<1>4. i \in live' /\ i \notin Cached' /\ ~Announced(i)' /\ i \notin missed'
  BY DEF Untold
<1>5. /\ \A e \in Events(bridgeQ') : e.item.id # i
      /\ \A e \in Events(mainQ') : e.item.id # i
      /\ \A c \in calls' : \A m \in c.items : m.id # i
  BY <1>4 DEF Announced, Events
<1>6. i \in live
  <2>1. Created \/ live' \subseteq live
    BY DEF Next, vars, serverVars, OthersSend, OthersEdit, OthersDelete, Edited, Deleted,
           BridgeTakes, MainHandles, LoadAnswered, PreloadAnswered, MoreAsked,
           MoreAnswered, MoreFails, Asks, HistoryApplied, PreloadSaved, SendAnswered, SendApplied, EditAnswered,
           EditApplied, DeletePressed, DeleteEnds, Reopen
  <2>2. Created => live' = live \cup {top'} /\ i # top'
    BY <1>2, <1>4, <1>5 DEF Created, EventEffect
  <2> QED
    BY <1>4, <2>1, <2>2
<1>7. i \notin Cached /\ i \notin missed
  BY <1>1, <1>2, <1>4 DEF EventEffect
<1>8. \A e \in Events(mainQ) : e.item.id # i
  BY <1>6, <1>7 DEF CachedFirst
<1>9. \A e \in Events(bridgeQ) : e.item.id # i
  BY <1>2, <1>5 DEF EventEffect
<1>10. \A c \in calls : \A m \in c.items : m.id # i
  BY <1>3, <1>4, <1>5, <1>7 DEF ChangesCached
<1>11. ~Announced(i)
  BY <1>8, <1>9, <1>10 DEF Announced, Events
<1> QED
  BY <1>6, <1>7, <1>11 DEF Untold

LEMMA CachedFirstStep ==
  ASSUME TypeInv, TypeInv', CachedFirst, [Next]_vars
  PROVE  CachedFirst'
<1> USE DEF TypeInv
<1>1. Cached \subseteq Cached' /\ EventEffect
  BY CacheStep, BridgeEffect
<1>2. \A e \in Events(bridgeQ) \cup Events(mainQ) : e.item.id <= top /\ e.item.id \in Int
  <2>1. \A e \in Events(bridgeQ) \cup Events(mainQ) : e \in Event /\ e.item.id <= top
    <3>1. \A k \in DOMAIN bridgeQ : bridgeQ[k] \in Event /\ bridgeQ[k].item.id <= top
      BY ElementOfSeq, LenProperties DEF QueuesOK, Served
    <3>2. \A k \in DOMAIN mainQ : mainQ[k] \in Event /\ mainQ[k].item.id <= top
      BY ElementOfSeq, LenProperties DEF QueuesOK, Served
    <3> QED
      BY <3>1, <3>2 DEF Events
  <2> QED
    BY <2>1, BoundsAssumption DEF Event, Item, Ids
<1>3. live' \subseteq live \cup {top + 1} /\ top \in Int
  BY ServerStep, BoundsAssumption DEF NewMessage, ServerOK
<1>4. \A e \in Events(bridgeQ) \cup Events(mainQ) : e.item.id \notin live => e.item.id \notin live'
  BY <1>2, <1>3
<1>5. \A e \in Events(bridgeQ') : e.kind = "delete" => e.item.id \notin live'
  BY <1>1, <1>4 DEF CachedFirst, EventEffect
<1>6. \A e \in Events(mainQ') : IF e.kind = "delete" THEN e.item.id \notin live'
                               ELSE e.item.id \in Cached'
  <2> TAKE e \in Events(mainQ')
  <2>1. CASE e \in Events(mainQ)
    BY <2>1, <1>1, <1>4 DEF CachedFirst
  <2>2. CASE BridgeTakes /\ bridgeQ # <<>> /\ e = Head(bridgeQ)
    <3>1. e \in Events(bridgeQ) /\ e.item \in Item /\ Served(e.item)
      BY <2>2, BridgeHead DEF Events
    <3>2. CASE e.kind = "delete"
      BY <3>1, <3>2, <1>4 DEF CachedFirst
    <3>3. CASE e.kind # "delete"
      <4>1. cache' = Saved({e.item})
        BY <2>2, <3>3 DEF BridgeTakes
      <4>2. Cached' = Cached \cup {m.id : m \in {e.item}}
        BY <3>1, <4>1, SavedCached
      <4> QED
        BY <3>3, <4>2
    <3> QED
      BY <3>2, <3>3
  <2> QED
    BY <2>1, <2>2, MainEffect
<1> QED
  BY <1>5, <1>6 DEF CachedFirst

LEMMA ChangesStep ==
  ASSUME TypeInv, NothingLost, ChangesCached, [Next]_vars
  PROVE  ChangesCached'
<1>1. Cached \subseteq Cached'
  BY CacheStep
<1>2. ASSUME NEW c \in calls', c.op \in {"ask", "late", "edit", "delete"}
      PROVE  \A m \in c.items : m.id \in Cached'
  <2>1. c \in calls \/ Asking(c) \/ \E d \in calls : c = Detached(d)
    BY CallEffect
  <2>2. CASE c \in calls
    BY <2>2, <1>1, <1>2 DEF ChangesCached
  <2>3. CASE Asking(c)
    <3>1. \A m \in c.items : m.id \in ShownIds
      BY <2>3, <1>2 DEF Asking, Paged
    <3> QED
      BY <3>1, <1>1 DEF NothingLost
  <2>4. CASE \E d \in calls : c = Detached(d)
    <3>1. PICK d \in calls : c = Detached(d)
      BY <2>4
    <3>2. d.op \in {"ask", "late", "delete"} /\ c.items = d.items
      BY <3>1, <1>2, DetachedCall DEF TypeInv, CallsOK
    <3> QED
      BY <3>2, <1>1 DEF ChangesCached
  <2> QED
    BY <2>1, <2>2, <2>3, <2>4
<1> QED
  BY <1>2 DEF ChangesCached

(* What is asked for with a page is newer than all that is unknown, and a    *)
(* short page leaves nothing unknown.                                        *)
LEMMA PageStep ==
  ASSUME TypeInv, TypeInv', NothingLost, Frontier, Untold' \subseteq Untold,
         NEW c \in calls', Paged(c)
  PROVE  /\ \A u \in Untold' : \A m \in c.items : u < m.id
         /\ ~(Cardinality(c.items) >= Page) => Untold' = {}
<1> USE DEF TypeInv
<1>1. PICK before \in {Newest} \cup Cached : c.items = History(before)
  BY DEF Paged
<1>2. \A i \in Ids : i \in Nat /\ i < Newest
  BY BoundsAssumption DEF Ids, Newest
<1>3. ShownIds \subseteq Cached /\ Cached \subseteq Ids /\ live \subseteq Ids
  <2>1. live \subseteq Ids
    BY BoundsAssumption DEF ServerOK, Ids
  <2> QED
    BY <2>1 DEF NothingLost, Cached
<1>4. before \in Nat
  BY <1>2, <1>3, BoundsAssumption DEF Newest
<1>5. /\ c.items \in SUBSET Item /\ IsFiniteSet(c.items)
      /\ \A m \in c.items : \A i \in live : m.id < i /\ i < before => \E o \in c.items : o.id = i
      /\ Cardinality(c.items) < Page => \A i \in live : i < before => \E o \in c.items : o.id = i
  BY <1>1, <1>4, HistoryPage
<1>6. ASSUME NEW u \in Untold'
      PROVE  u \in live /\ u \in Ids /\ u < before /\ \A o \in c.items : o.id # u
  <2>1. u \in Untold /\ ~Announced(u)'
    BY DEF Untold
  <2>2. \A o \in c.items : o.id # u
    BY <2>1 DEF Announced
  <2>3. before \in Cached => u < before
    BY <2>1, <1>3 DEF Frontier, Known
  <2> QED
    BY <2>1, <2>2, <2>3, <1>2, <1>3 DEF Untold
<1>7. \A u \in Untold' : \A m \in c.items : u < m.id
  <2> TAKE u \in Untold'
  <2> TAKE m \in c.items
  <2>1. u \in Nat /\ m.id \in Nat
    BY <1>2, <1>5, <1>6 DEF Item
  <2>2. ~(m.id < u) /\ m.id # u
    BY <1>5, <1>6
  <2> QED
    BY <2>1, <2>2
<1>8. Cardinality(c.items) \in Nat /\ Page \in Nat
  BY <1>5, FS_CardinalityType, SizesAssumption
<1> QED
  BY <1>5, <1>6, <1>7, <1>8

LEMMA FrontierStep ==
  ASSUME TypeInv, TypeInv', NothingLost, ChangesCached, CachedFirst, Frontier,
         Untold' \subseteq Untold, [Next]_vars
  PROVE  Frontier'
<1> USE DEF TypeInv
<1>1. \A u \in Untold : u <= top /\ u \in Int /\ top \in Int
  BY BoundsAssumption DEF Untold, ServerOK
<1>2. EventEffect
  BY BridgeEffect
<1>3. \A c \in calls' : c \in calls \/ Asking(c) \/ \E d \in calls : c = Detached(d)
  BY CallEffect
<1> SUFFICES ASSUME NEW u \in Untold', NEW j \in Ids, Known(j)' PROVE u < j
  BY DEF Frontier
<1>4. u \in Untold /\ (Known(j) => u < j) /\ (j = top + 1 => u < j)
  BY <1>1 DEF Frontier
<1>5. CASE j \in Cached'
  <2>1. CASE BridgeTakes /\ bridgeQ # <<>> /\ j = Head(bridgeQ).item.id
    <3>1. PICK h \in Events(bridgeQ) : h = Head(bridgeQ) /\ h \in Event
      BY <2>1, BridgeHead DEF Events
    <3>2. CASE h.kind = "new"
      BY <2>1, <3>1, <3>2, <1>4 DEF Known
    <3>3. CASE h.kind = "edit"
      <4>1. u # j
        BY <1>5 DEF Untold
      <4>2. CASE j \in Cached
        BY <4>2, <1>4 DEF Known
      <4>3. CASE j \notin Cached
        <5>1. missed' = missed \cup {i \in 1 .. top : /\ h.kind = "edit"
                                                     /\ h.item.id \notin Cached
                                                     /\ i > h.item.id
                                                     /\ i \notin Cached}
          BY <2>1, <3>1 DEF BridgeTakes
        <5>2. u \in 1 .. top /\ u \notin Cached /\ u \notin missed'
          BY <1>4 DEF Untold, ServerOK
        <5>3. ~(u > j)
          BY <2>1, <3>1, <3>3, <4>3, <5>1, <5>2
        <5> QED
          BY <1>1, <1>4, <4>1, <5>3, BoundsAssumption DEF Ids
      <4> QED
        BY <4>2, <4>3
    <3>4. CASE h.kind = "delete"
      <4>1. j \in Cached
        BY <2>1, <3>1, <3>4, <1>5 DEF BridgeTakes, Cached
      <4> QED
        BY <4>1, <1>4 DEF Known
    <3> QED
      BY <3>1, <3>2, <3>3, <3>4 DEF Event
  <2>2. CASE \E e \in Events(mainQ) : e.kind = "new" /\ e.item.id = j
    <3>1. j \in Cached
      BY <2>2 DEF CachedFirst
    <3> QED
      BY <3>1, <1>4 DEF Known
  <2>3. CASE j \in Cached \/ Asked(j)
    BY <2>3, <1>4 DEF Known
  <2> QED
    BY <1>5, <2>1, <2>2, <2>3, CacheEffect
<1>6. ASSUME NEW c \in calls', NEW m \in c.items, m.id = j PROVE u < j
  <2>1. CASE c \in calls
    BY <2>1, <1>4, <1>6 DEF Known, Asked
  <2>2. CASE Paged(c)
    BY <2>2, <1>6, PageStep
  <2>3. CASE m.id = top + 1
    BY <2>3, <1>4, <1>6
  <2>4. CASE m.id \in ShownIds
    BY <2>4, <1>4, <1>6 DEF NothingLost, Known
  <2>5. CASE \E d \in calls : c = Detached(d)
    <3>1. PICK d \in calls : c = Detached(d)
      BY <2>5
    <3>2. c.items = d.items
      BY <3>1, DetachedCall DEF CallsOK
    <3> QED
      BY <3>2, <1>4, <1>6 DEF Known, Asked
  <2> QED
    BY <1>3, <2>1, <2>2, <2>3, <2>4, <2>5 DEF Asking
<1>7. ASSUME NEW e \in Events(bridgeQ'), e.kind = "new", e.item.id = j PROVE u < j
  <2>1. e \in Events(bridgeQ) \/ j = top + 1
    BY <1>2, <1>7 DEF EventEffect
  <2> QED
    BY <2>1, <1>4, <1>7 DEF Known
<1> QED
  BY <1>5, <1>6, <1>7 DEF Known, Asked

LEMMA ReachedStep ==
  ASSUME TypeInv, TypeInv', NothingLost, ChangesCached, Frontier, Reached,
         Untold' \subseteq Untold, [Next]_vars
  PROVE  Reached'
<1>1. CASE Short
  BY <1>1 DEF Reached
<1>2. CASE ~Short
  <2>1. hasMore'
    BY <1>2, MoreEffect
  <2>2. ASSUME NEW c \in calls', c.op \in {"load", "more"}, ~(Cardinality(c.items) >= Page)
        PROVE  Untold' = {}
    <3>1. c \notin calls
      BY <1>2, <2>2 DEF Short
    <3>2. Paged(c)
      <4>1. Asking(c) \/ \E d \in calls : c = Detached(d)
        BY <3>1, CallEffect
      <4>2. ~ \E d \in calls : c = Detached(d)
        BY <2>2, DetachedCall DEF TypeInv, CallsOK
      <4> QED
        BY <2>2, <4>1, <4>2 DEF Asking
    <3> QED
      BY <2>2, <3>2, PageStep
  <2> QED
    BY <2>1, <2>2 DEF Reached, Short
<1> QED
  BY <1>1, <1>2

LEMMA WholeStep ==
  ASSUME TypeInv, TypeInv', NothingLost, WholeInv, [Next]_vars
  PROVE  WholeInv'
<1> USE DEF WholeInv
<1>1. Untold' \subseteq Untold
  BY UntoldStep
<1> QED
  BY <1>1, ChangesStep, CachedFirstStep, FrontierStep, ReachedStep

LEMMA WholeInit == Init => WholeInv
<1> SUFFICES ASSUME Init PROVE WholeInv
  OBVIOUS
<1>1. TypeInv
  BY TypeInit
<1>2. bridgeQ = <<>> /\ mainQ = <<>> /\ calls = {} /\ hasMore = TRUE
  BY DEF Init
<1>3. Events(bridgeQ) = {} /\ Events(mainQ) = {}
  BY <1>2 DEF Events
<1>4. ChangesCached /\ CachedFirst /\ Reached
  BY <1>2, <1>3 DEF ChangesCached, CachedFirst, Reached, Short
<1>5. \A u \in Untold : \A j \in Ids : Known(j) => u < j
  <2> SUFFICES ASSUME NEW u \in Untold, NEW j \in Ids, Known(j) PROVE u < j
    OBVIOUS
  <2>1. j \in Cached
    BY <1>2, <1>3 DEF Known, Asked
  <2>2. u \in 1 .. top /\ u \in Ids /\ u \notin Cached /\ u \notin missed
    BY BoundsAssumption DEF Init, Untold, Ids
  <2>3. cache[u] = 0 /\ cache[j] > 0
    BY <2>1, <2>2, <1>1 DEF TypeInv, CacheOK, Cached
  <2>4. ~ \E i \in 1 .. u : cache[i] > 0
    BY <2>2, <2>3 DEF Init
  <2>5. j \notin 1 .. u
    BY <2>3, <2>4
  <2>6. u \in Int /\ j \in Int /\ 1 <= j
    BY BoundsAssumption DEF Ids, Untold, Init
  <2> QED
    BY <2>5, <2>6
<1> QED
  BY <1>4, <1>5 DEF WholeInv, Frontier

(* What lies between two cached messages, or before all of them once         *)
(* hasMoreHistory is false, is cached, under way, missed or skipped by an    *)
(* edit (ConversationViewModel.swift 103-107, 116-138, MaxService.swift      *)
(* 123-139, 189).                                                            *)
THEOREM HistoryAlwaysWhole == Spec => []HistoryWhole
<1>1. /\ Init => TypeInv /\ NothingLost /\ WholeInv
      /\ TypeInv /\ NothingLost /\ WholeInv /\ [Next]_vars
           => TypeInv' /\ NothingLost' /\ WholeInv'
  BY TypeInit, TypeStep, LostInit, LostStep, WholeInit, WholeStep
<1>2. TypeInv /\ WholeInv => HistoryWhole
  <2> SUFFICES ASSUME TypeInv, WholeInv, NEW i \in live,
                      (\E j \in Cached : j < i) \/ ~hasMore
               PROVE  i \in Cached \/ Announced(i) \/ i \in missed
    BY DEF HistoryWhole
  <2>1. CASE ~hasMore
    BY <2>1 DEF WholeInv, Reached, Short, Untold
  <2>2. CASE \E j \in Cached : j < i
    <3>1. PICK j \in Cached : j < i
      BY <2>2
    <3>2. i \in Int /\ j \in Int /\ j \in Ids
      BY BoundsAssumption DEF TypeInv, ServerOK, Cached, Ids
    <3>3. i \notin Untold
      BY <3>1, <3>2 DEF WholeInv, Frontier, Known
    <3> QED
      BY <3>3 DEF Untold
  <2> QED
    BY <2>1, <2>2
<1> QED
  BY <1>1, <1>2, PTL DEF Spec
=============================================================================
