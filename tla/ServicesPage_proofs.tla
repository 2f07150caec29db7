-------------------------- MODULE ServicesPage_proofs --------------------------
(***************************************************************************)
(* Proofs about the services manager, and about the page over it.          *)
(*                                                                         *)
(* Lists and maps: what loading, dropping an equal entry and moving a row  *)
(* do to a list.  Ids: every variable has its type, since the ids there    *)
(* are were configured or counted when a save gave them.  Reloads: one     *)
(* that nothing overlaps is exact.  One administrator: service ids stay    *)
(* unique, and the map is what the list would load.  The page: its rows    *)
(* show what is stored, and drops are obeyed.                              *)
(***************************************************************************)
EXTENDS ServicesPage, SequenceTheorems, FiniteSetTheorems, WellFoundedInduction, TLAPS

(***************************************************************************)
(* Lists and maps.                                                         *)
(***************************************************************************)

LEMMA MinOf ==
    ASSUME NEW S \in SUBSET Nat, S # {}
    PROVE  Min(S) \in S /\ \A y \in S : Min(S) <= y
<1>1. PICK x \in S : \A y \in S : ~(<<y, x>> \in OpToRel(<, Nat))
      BY NatLessThanWellFounded, WFMin
<1>2. \A y \in S : y \in Nat /\ x \in Nat
      OBVIOUS
<1>3. \A y \in S : ~(y < x)
      BY <1>1, <1>2, Zenon DEF OpToRel
<1>4. \A y \in S : x <= y
      BY <1>2, <1>3
<1> QED BY <1>4 DEF Min

LEMMA MaxOf ==
    ASSUME NEW S \in SUBSET Nat, S # {}, NEW b \in Nat, \A x \in S : x <= b
    PROVE  Max(S) \in S /\ \A y \in S : Max(S) >= y
<1> DEFINE T == {b - x : x \in S}
<1>1. T \in SUBSET Nat /\ T # {}
  <2>1. \A x \in S : x \in Nat /\ x <= b
        OBVIOUS
  <2>2. \A x \in S : b - x \in Nat
        BY <2>1
  <2>3. \E x \in S : b - x \in T
        OBVIOUS
  <2> QED BY <2>2, <2>3
<1>2. Min(T) \in T /\ \A y \in T : Min(T) <= y
      BY <1>1, MinOf
<1>3. PICK x \in S : Min(T) = b - x
      BY <1>2
<1>4. \A y \in S : x >= y
  <2>1. \A y \in S : b - x <= b - y
        BY <1>2, <1>3
  <2> QED BY <2>1
<1> QED BY <1>4 DEF Max

\* The position of the first match, and of the last.
LEMMA FirstMatch ==
    ASSUME NEW n \in Nat, NEW I \in SUBSET (1 .. n), I # {}
    PROVE  Min(I) \in I /\ \A k \in I : Min(I) <= k
<1>1. I \in SUBSET Nat
      OBVIOUS
<1> QED BY <1>1, MinOf

LEMMA LastMatch ==
    ASSUME NEW n \in Nat, NEW I \in SUBSET (1 .. n), I # {}
    PROVE  Max(I) \in I /\ \A k \in I : Max(I) >= k
<1>1. I \in SUBSET Nat /\ \A k \in I : k <= n
      OBVIOUS
<1> QED BY <1>1, MaxOf

\* What is loaded from a list: the last entry of each id.
LEMMA LoadedDomain ==
    ASSUME NEW list \in Seq(Entry)
    PROVE  /\ DOMAIN Loaded(list) = {list[k].id : k \in 1 .. Len(list)}
           /\ Loaded(list) = [i \in DOMAIN Loaded(list) |-> Loaded(list)[i]]
           /\ DOMAIN Loaded(list) \subseteq Nat
<1>1. DOMAIN list = 1 .. Len(list) /\ \A k \in 1 .. Len(list) : list[k] \in Entry
      BY LenProperties, ElementOfSeq
<1> QED BY <1>1 DEF Loaded, Entry

LEMMA LoadedAt ==
    ASSUME NEW list \in Seq(Entry), NEW k \in 1 .. Len(list),
           \A j \in 1 .. Len(list) : list[j].id = list[k].id => j <= k
    PROVE  Loaded(list)[list[k].id] = list[k].content
<1> DEFINE I == {j \in 1 .. Len(list) : list[j].id = list[k].id}
<1>1. Len(list) \in Nat /\ k \in I /\ I \in SUBSET (1 .. Len(list))
      BY LenProperties
<1>2. Max(I) \in I /\ \A j \in I : Max(I) >= j
      BY <1>1, LastMatch
<1>3. Max(I) = k
      BY <1>1, <1>2
<1>4. SelectLastInSeq(list, LAMBDA e : e.id = list[k].id) = k
      BY <1>1, <1>3 DEF SelectLastInSeq
<1>5. list[k].id \in DOMAIN Loaded(list)
      BY LoadedDomain
<1> QED BY <1>4, <1>5 DEF Loaded

LEMMA LoadedLast ==
    ASSUME NEW list \in Seq(Entry), NEW i \in DOMAIN Loaded(list)
    PROVE  \E k \in 1 .. Len(list) :
              /\ list[k].id = i /\ Loaded(list)[i] = list[k].content
              /\ \A j \in 1 .. Len(list) : list[j].id = i => j <= k
<1> DEFINE I == {j \in 1 .. Len(list) : list[j].id = i}
<1>1. Len(list) \in Nat /\ I \in SUBSET (1 .. Len(list))
      BY LenProperties
<1>0. I # {}
  <2>1. i \in {list[k].id : k \in 1 .. Len(list)}
        BY LoadedDomain
  <2>2. PICK k \in 1 .. Len(list) : i = list[k].id
        BY <2>1
  <2>3. k \in I
        BY <2>2
  <2> QED BY <2>3
<1>2. Max(I) \in I /\ \A j \in I : Max(I) >= j
      BY <1>0, <1>1, LastMatch
<1>3. \A j \in 1 .. Len(list) : list[j].id = i => j <= Max(I)
      BY <1>1, <1>2
<1>4. list[Max(I)].id = i /\ Max(I) \in 1 .. Len(list)
      BY <1>2
<1> QED BY <1>3, <1>4, LoadedAt

\* The map put together entry by entry is the one loaded from the list.
LEMMA LoadedAppend ==
    ASSUME NEW list \in Seq(Entry), NEW e \in Entry
    PROVE  Loaded(Append(list, e)) = Put(Loaded(list), e.id, e.content)
<1> DEFINE longer == Append(list, e)
           n == Len(list)
<1>1. /\ longer \in Seq(Entry) /\ n \in Nat /\ Len(longer) = n + 1
      /\ \A k \in 1 .. n : longer[k] = list[k]
      /\ longer[n + 1] = e
      BY LenProperties
<1> HIDE DEF longer, n
<1>2. DOMAIN Loaded(longer) = DOMAIN Loaded(list) \cup {e.id}
  <2>1. {longer[k].id : k \in 1 .. n + 1} = {list[k].id : k \in 1 .. n} \cup {e.id}
    <3>1. \A k \in 1 .. n + 1 : k \in 1 .. n \/ k = n + 1
          BY <1>1
    <3>2. \A k \in 1 .. n : k \in 1 .. n + 1
          BY <1>1
    <3> QED BY <1>1, <3>1, <3>2
  <2> QED BY <1>1, <2>1, LoadedDomain DEF n
<1>3. Loaded(longer)[e.id] = e.content
      BY <1>1, LoadedAt
<1>4. ASSUME NEW i \in DOMAIN Loaded(list), i # e.id
      PROVE  Loaded(longer)[i] = Loaded(list)[i]
  <2>1. PICK k \in 1 .. n : /\ list[k].id = i /\ Loaded(list)[i] = list[k].content
                            /\ \A j \in 1 .. n : list[j].id = i => j <= k
        BY LoadedLast DEF n
  <2>2. \A j \in 1 .. Len(longer) : longer[j].id = longer[k].id => j <= k
        BY <1>1, <1>4, <2>1
  <2>3. k \in 1 .. Len(longer)
        BY <1>1
  <2>4. Loaded(longer)[longer[k].id] = longer[k].content
        BY <1>1, <2>2, <2>3, LoadedAt
  <2> QED BY <1>1, <2>1, <2>4
<1>5. Loaded(longer) = [i \in DOMAIN Loaded(longer) |-> Loaded(longer)[i]]
      BY <1>1, LoadedDomain
<1>6. Loaded(longer) = Put(Loaded(list), e.id, e.content)
      BY <1>2, <1>3, <1>4, <1>5 DEF Put
<1> QED BY <1>6 DEF longer

\* The list without an entry: the entries before and after it stay in order.
LEMMA RemoveAtProperties ==
    ASSUME NEW S, NEW list \in Seq(S), NEW r \in 1 .. Len(list)
    PROVE  /\ RemoveAt(list, r) \in Seq(S)
           /\ Len(RemoveAt(list, r)) = Len(list) - 1
           /\ \A k \in 1 .. Len(list) - 1 :
                RemoveAt(list, r)[k] = IF k < r THEN list[k] ELSE list[k + 1]
<1> DEFINE left == SubSeq(list, 1, r - 1)
           right == SubSeq(list, r + 1, Len(list))
<1>1. Len(list) \in Nat /\ \A k \in 1 .. Len(list) : list[k] \in S
      BY LenProperties, ElementOfSeq
<1>2. /\ left \in Seq(S) /\ Len(left) = r - 1
      /\ \A k \in 1 .. r - 1 : left[k] = list[k]
      BY <1>1, SubSeqProperties
<1>3. /\ right \in Seq(S) /\ Len(right) = Len(list) - r
      /\ \A k \in 1 .. Len(list) - r : right[k] = list[r + k]
      BY <1>1, SubSeqProperties
<1> HIDE DEF left, right
<1>4. /\ left \o right \in Seq(S)
      /\ Len(left \o right) = Len(list) - 1
      /\ \A k \in 1 .. Len(list) - 1 :
            (left \o right)[k] = IF k <= r - 1 THEN left[k] ELSE right[k - (r - 1)]
  <2>1. Len(left) + Len(right) = Len(list) - 1
        BY <1>1, <1>2, <1>3
  <2>2. /\ left \o right \in Seq(S) /\ Len(left \o right) = Len(left) + Len(right)
        /\ \A k \in 1 .. Len(left) + Len(right) :
              (left \o right)[k] = IF k <= Len(left) THEN left[k] ELSE right[k - Len(left)]
        BY <1>2, <1>3, ConcatProperties
  <2> QED BY <1>2, <2>1, <2>2
<1>5. ASSUME NEW k \in 1 .. Len(list) - 1
      PROVE  (left \o right)[k] = IF k < r THEN list[k] ELSE list[k + 1]
  <2>1. CASE k < r
    <3>1. k <= r - 1 /\ k \in 1 .. r - 1
          BY <1>1, <2>1
    <3> QED BY <1>2, <1>4, <2>1, <3>1
  <2>2. CASE ~(k < r)
    <3>1. ~(k <= r - 1) /\ k - (r - 1) \in 1 .. Len(list) - r /\ r + (k - (r - 1)) = k + 1
          BY <1>1, <2>2
    <3> QED BY <1>3, <1>4, <2>2, <3>1
  <2> QED BY <2>1, <2>2
<1> QED BY <1>4, <1>5 DEF RemoveAt, left, right

LEMMA RemoveEqualProperties ==
    ASSUME NEW list \in Seq(Entry), NEW e
    PROVE  \/ RemoveEqual(list, e) = list
           \/ \E r \in 1 .. Len(list) : /\ list[r].content = e.content
                                        /\ RemoveEqual(list, e) = RemoveAt(list, r)
<1> DEFINE I == {k \in 1 .. Len(list) : list[k].content = e.content}
<1>1. CASE I = {}
  <2>1. ~\E k \in 1 .. Len(list) : list[k].content = e.content
        BY <1>1
  <2> QED BY <2>1 DEF RemoveEqual, RemoveFirstMatch
<1>2. CASE I # {}
  <2>1. Len(list) \in Nat
        BY LenProperties
  <2>2. Min(I) \in I
        BY <1>2, <2>1, FirstMatch
  <2>3. RemoveEqual(list, e) = RemoveAt(list, Min(I))
        BY <1>2 DEF RemoveEqual, RemoveFirstMatch, SelectInSeq
  <2> QED BY <2>2, <2>3
<1> QED BY <1>1, <1>2

\* The dao's list without one equal entry.
LEMMA RemoveEqualElements ==
    ASSUME NEW list \in Seq(Entry), NEW e
    PROVE  /\ RemoveEqual(list, e) \in Seq(Entry)
           /\ \A k \in 1 .. Len(RemoveEqual(list, e)) :
                \E j \in 1 .. Len(list) : RemoveEqual(list, e)[k] = list[j]
<1>1. Len(list) \in Nat
      BY LenProperties
<1>2. CASE RemoveEqual(list, e) = list
      BY <1>2
<1>3. ASSUME NEW r \in 1 .. Len(list), RemoveEqual(list, e) = RemoveAt(list, r)
      PROVE  /\ RemoveEqual(list, e) \in Seq(Entry)
             /\ \A k \in 1 .. Len(RemoveEqual(list, e)) :
                  \E j \in 1 .. Len(list) : RemoveEqual(list, e)[k] = list[j]
  <2>1. /\ RemoveEqual(list, e) \in Seq(Entry)
        /\ Len(RemoveEqual(list, e)) = Len(list) - 1
        /\ \A k \in 1 .. Len(list) - 1 :
              RemoveEqual(list, e)[k] = IF k < r THEN list[k] ELSE list[k + 1]
        BY <1>3, RemoveAtProperties
  <2>2. \A k \in 1 .. Len(list) - 1 : k \in 1 .. Len(list) /\ k + 1 \in 1 .. Len(list)
        BY <1>1
  <2> QED BY <2>1, <2>2
<1> QED BY <1>2, <1>3, RemoveEqualProperties

\* A service whose current entry says something else is loaded as before.
LEMMA LoadedRemove ==
    ASSUME NEW list \in Seq(Entry), NEW e,
           NEW i \in DOMAIN Loaded(list), Loaded(list)[i] # e.content
    PROVE  /\ i \in DOMAIN Loaded(RemoveEqual(list, e))
           /\ Loaded(RemoveEqual(list, e))[i] = Loaded(list)[i]
<1>1. CASE RemoveEqual(list, e) = list
      BY <1>1
<1>2. ASSUME NEW r \in 1 .. Len(list), list[r].content = e.content,
             RemoveEqual(list, e) = RemoveAt(list, r)
      PROVE  /\ i \in DOMAIN Loaded(RemoveEqual(list, e))
             /\ Loaded(RemoveEqual(list, e))[i] = Loaded(list)[i]
  <2> DEFINE shorter == RemoveAt(list, r)
             n == Len(list)
  <2>1. n \in Nat /\ \A j \in 1 .. n : list[j] \in Entry
        BY LenProperties, ElementOfSeq
  <2>2. /\ shorter \in Seq(Entry) /\ Len(shorter) = n - 1
        /\ \A k \in 1 .. n - 1 : shorter[k] = IF k < r THEN list[k] ELSE list[k + 1]
        BY RemoveAtProperties
  <2>3. PICK k \in 1 .. n : /\ list[k].id = i /\ Loaded(list)[i] = list[k].content
                            /\ \A j \in 1 .. n : list[j].id = i => j <= k
        BY LoadedLast
  <2> HIDE DEF shorter, n
  <2>4. k # r
        BY <1>2, <2>3
  <2> DEFINE p == IF k < r THEN k ELSE k - 1
  <2>0. r \in 1 .. n
        BY DEF n
  <2>5. p \in 1 .. n - 1 /\ shorter[p] = list[k]
    <3>1. CASE k < r
      <4>1. k \in 1 .. n - 1
            BY <2>0, <2>1, <3>1
      <4> QED BY <2>2, <3>1, <4>1
    <3>2. CASE ~(k < r)
      <4>1. k - 1 \in 1 .. n - 1 /\ ~(k - 1 < r) /\ (k - 1) + 1 = k
            BY <2>0, <2>1, <2>4, <3>2
      <4> QED BY <2>2, <3>2, <4>1
    <3> QED BY <3>1, <3>2
  <2>6. ASSUME NEW j \in 1 .. n - 1, shorter[j].id = i
        PROVE  j <= p
    <3>1. CASE j < r
      <4>1. list[j].id = i /\ j \in 1 .. n
            BY <2>1, <2>2, <2>6, <3>1
      <4>2. j <= k
            BY <2>3, <4>1
      <4> QED BY <2>0, <2>1, <2>4, <3>1, <4>2
    <3>2. CASE ~(j < r)
      <4>1. list[j + 1].id = i /\ j + 1 \in 1 .. n
            BY <2>1, <2>2, <2>6, <3>2
      <4>2. j + 1 <= k
            BY <2>3, <4>1
      <4> QED BY <2>0, <2>1, <2>4, <3>2, <4>2
    <3> QED BY <3>1, <3>2
  <2> HIDE DEF p
  <2>7. p \in 1 .. Len(shorter) /\ \A j \in 1 .. Len(shorter) : shorter[j].id = shorter[p].id => j <= p
        BY <2>2, <2>3, <2>5, <2>6
  <2>8. Loaded(shorter)[shorter[p].id] = shorter[p].content
        BY <2>2, <2>7, LoadedAt
  <2>9. shorter[p].id \in DOMAIN Loaded(shorter)
        BY <2>2, <2>7, LoadedDomain
  <2> QED BY <1>2, <2>3, <2>5, <2>8, <2>9 DEF shorter
<1> QED BY <1>1, <1>2, RemoveEqualProperties

-----------------------------------------------------------------------------
(***************************************************************************)
(* Ids.                                                                    *)
(***************************************************************************)

\* Finitely many numbers are bounded.
LEMMA FiniteBound ==
    ASSUME NEW n \in Nat, NEW f \in [1 .. n -> Nat]
    PROVE  \E b \in Nat : \A k \in 1 .. n : f[k] <= b
<1> DEFINE bad == {m \in 0 .. n : \A b \in Nat : \E k \in 1 .. m : f[k] > b}
<1> HIDE DEF bad
<1>1. SUFFICES ASSUME bad # {}
               PROVE  FALSE
  <2>1. CASE bad = {}
    <3>1. n \in 0 .. n /\ n \notin bad
          BY <2>1
    <3>2. PICK b \in Nat : ~\E k \in 1 .. n : f[k] > b
          BY <3>1 DEF bad
    <3>3. \A k \in 1 .. n : f[k] <= b
          BY <3>2
    <3> QED BY <3>3
  <2> QED BY <2>1
<1>2. bad \in SUBSET Nat
      BY DEF bad
<1>3. PICK m \in bad : \A y \in bad : m <= y
      BY <1>1, <1>2, MinOf
<1>4. m \in 0 .. n /\ \A b \in Nat : \E k \in 1 .. m : f[k] > b
      BY <1>3 DEF bad
<1>5. m # 0
  <2>1. PICK k \in 1 .. m : f[k] > 0
        BY <1>4
  <2> QED BY <1>4, <2>1
<1>6. m - 1 \in 0 .. n /\ m \in 1 .. n /\ ~(m <= m - 1) /\ f[m] \in Nat
      BY <1>4, <1>5
<1>7. m - 1 \notin bad
      BY <1>3, <1>6
<1>8. PICK b \in Nat : ~\E k \in 1 .. m - 1 : f[k] > b
      BY <1>6, <1>7 DEF bad
<1>9. b + f[m] \in Nat
      BY <1>6
<1>10. PICK k \in 1 .. m : f[k] > b + f[m]
      BY <1>4, <1>9
<1>11. k # m
      BY <1>6, <1>10
<1>12. k \in 1 .. m - 1 /\ f[k] \in Nat
      BY <1>6, <1>11
<1>13. ~(f[k] > b)
      BY <1>8, <1>12
<1> QED BY <1>6, <1>10, <1>12, <1>13

LEMMA IdTypes ==
    ASSUME NEW list \in Seq(Entry)
    PROVE  /\ Len(list) \in Nat /\ DOMAIN list = 1 .. Len(list)
           /\ \A k \in 1 .. Len(list) : list[k] \in Entry /\ list[k].id \in Nat /\ list[k].content \in Content
<1>1. Len(list) \in Nat /\ DOMAIN list = 1 .. Len(list)
      BY LenProperties
<1>2. \A k \in 1 .. Len(list) : list[k] \in Entry
      BY ElementOfSeq
<1>3. \A e \in Entry : e.id \in Nat /\ e.content \in Content
      BY DEF Entry
<1> QED BY <1>1, <1>2, <1>3

LEMMA IdsBounded ==
    ASSUME NEW list \in Seq(Entry)
    PROVE  \E b \in Nat : \A k \in 1 .. Len(list) : list[k].id <= b
<1> DEFINE f == [k \in 1 .. Len(list) |-> list[k].id]
<1>1. Len(list) \in Nat /\ f \in [1 .. Len(list) -> Nat]
      BY IdTypes
<1>2. PICK b \in Nat : \A k \in 1 .. Len(list) : f[k] <= b
      BY <1>1, FiniteBound
<1> QED BY <1>2

LEMMA HighestIdProperties ==
    ASSUME NEW list \in Seq(Entry)
    PROVE  /\ HighestId(list) \in Nat
           /\ \A k \in 1 .. Len(list) : list[k].id <= HighestId(list)
           /\ HighestId(list) = 0 \/ \E k \in 1 .. Len(list) : list[k].id = HighestId(list)
<1> DEFINE ids == {list[k].id : k \in DOMAIN list} \cup {0}
<1>1. DOMAIN list = 1 .. Len(list) /\ \A k \in 1 .. Len(list) : list[k].id \in Nat
      BY IdTypes
<1>2. PICK b \in Nat : \A k \in 1 .. Len(list) : list[k].id <= b
      BY IdsBounded
<1>3. ids \in SUBSET Nat /\ ids # {} /\ \A x \in ids : x <= b
      BY <1>1, <1>2
<1>4. Max(ids) \in ids /\ \A y \in ids : Max(ids) >= y
      BY <1>3, MaxOf
<1>5. HighestId(list) = Max(ids)
      BY DEF HighestId
<1> HIDE DEF ids
<1>6. \A k \in 1 .. Len(list) : list[k].id \in ids
      BY <1>1 DEF ids
<1>7. HighestId(list) \in ids /\ HighestId(list) \in Nat
      BY <1>3, <1>4, <1>5
<1>8. \A k \in 1 .. Len(list) : list[k].id <= HighestId(list)
      BY <1>1, <1>4, <1>5, <1>6, <1>7
<1> QED BY <1>1, <1>7, <1>8 DEF ids

\* A map of services with ids up to b.
Within(m, b) == m \in [DOMAIN m -> Content] /\ DOMAIN m \subseteq 0 .. b

LEMMA PutWithin ==
    ASSUME NEW b \in Int, NEW m, Within(m, b), NEW i \in 0 .. b, NEW c \in Content
    PROVE  Within(Put(m, i, c), b)
BY DEF Within, Put

LEMMA WithoutWithin ==
    ASSUME NEW b \in Int, NEW m, Within(m, b), NEW i
    PROVE  Within(Without(m, i), b)
BY DEF Within, Without

LEMMA NothingWithin == ASSUME NEW b \in Int PROVE Within(NoServices, b)
BY DEF Within, NoServices

LEMMA WithinMore ==
    ASSUME NEW b \in Int, NEW m, Within(m, b), NEW more \in Int, b <= more
    PROVE  Within(m, more)
BY DEF Within

LEMMA LoadedWithin ==
    ASSUME NEW list \in Seq(Entry), NEW b \in Int, \A k \in 1 .. Len(list) : list[k].id <= b
    PROVE  Within(Loaded(list), b)
<1>1. ASSUME NEW i \in DOMAIN Loaded(list)
      PROVE  i \in 0 .. b /\ Loaded(list)[i] \in Content
  <2>1. PICK k \in 1 .. Len(list) : list[k].id = i /\ Loaded(list)[i] = list[k].content
        BY LoadedLast
  <2>2. list[k] \in Entry
        BY ElementOfSeq
  <2> QED BY <2>1, <2>2 DEF Entry
<1> QED BY <1>1, LoadedDomain DEF Within

-----------------------------------------------------------------------------
Saving == {a \in Admin : pc[a] = "save"}

\* An id has been configured, or given by a save: each was counted.
IdBound == HighestId(InitStore) + changes - Cardinality(Saving)

ManagerTypes ==
    /\ store \in Seq(Entry)
    /\ pc \in [Admin -> {"idle", "save", "add", "put", "remove"}]
    /\ entry \in [Admin -> [id : Nat \cup {NewId}, content : Content]]
    /\ lpc \in {"idle", "load", "swap"}
    /\ cursor \in Nat
    /\ modified \in BOOLEAN /\ overlapped \in BOOLEAN /\ agreed \in BOOLEAN
    /\ changes \in 0 .. MaxChanges
    /\ deleted \subseteq Nat

IdInv ==
    /\ IsFiniteSet(Saving) /\ Cardinality(Saving) <= changes
    /\ \A k \in 1 .. Len(store) : store[k].id <= IdBound
    /\ Within(services, IdBound) /\ Within(local, IdBound)
    /\ \A a \in Admin : entry[a].id <= IdBound
    /\ \A a \in Admin : pc[a] \in {"add", "put", "remove"} => entry[a].id \in Nat
    /\ lpc = "load" /\ ~modified => cursor <= Len(store)

ManagerInv == ManagerTypes /\ IdInv

\* Once ids are bounded by the configuration and the changes, so are the maps.
LEMMA BoundType ==
    ASSUME ManagerInv
    PROVE  /\ IdBound \in Nat /\ Cardinality(Saving) \in Nat
           /\ IdBound <= HighestId(InitStore) + MaxChanges
           /\ HighestId(InitStore) \in Nat
<1>1. HighestId(InitStore) \in Nat
      BY HighestIdProperties, ServicesAssumption
<1>2. Cardinality(Saving) \in Nat
      BY FS_CardinalityType DEF ManagerInv, IdInv
<1> QED BY <1>1, <1>2, ServicesAssumption DEF ManagerInv, IdInv, ManagerTypes, IdBound

LEMMA ManagerInvIsTyped == ManagerInv => TypeOK
<1> SUFFICES ASSUME ManagerInv PROVE TypeOK
    OBVIOUS
<1>1. ASSUME NEW m, Within(m, IdBound)
      PROVE  m \in Maps
  <2>1. DOMAIN m \in SUBSET IdSpace
        BY <1>1, BoundType, ServicesAssumption DEF Within, IdSpace
  <2> QED BY <1>1, <2>1 DEF Within, Maps
<1> QED BY <1>1 DEF ManagerInv, ManagerTypes, IdInv, TypeOK

\* How the saves under way change with one request's step.
LEMMA SavingStep ==
    ASSUME ManagerInv, NEW a \in Admin, NEW label, pc' = [pc EXCEPT ![a] = label]
    PROVE  /\ IsFiniteSet(Saving')
           /\ pc[a] # "save" /\ label = "save" => Cardinality(Saving)' = Cardinality(Saving) + 1
           /\ pc[a] = "save" /\ label # "save" => Cardinality(Saving)' = Cardinality(Saving) - 1
           /\ pc[a] # "save" /\ label # "save" => Saving' = Saving
<1>1. /\ pc[a] # "save" /\ label = "save" => a \notin Saving /\ Saving' = Saving \cup {a}
      /\ pc[a] = "save" /\ label # "save" => a \in Saving /\ Saving' = Saving \ {a}
      /\ (pc[a] = "save") = (label = "save") => Saving' = Saving
      BY DEF Saving, ManagerInv, ManagerTypes
<1>2. IsFiniteSet(Saving)
      BY DEF ManagerInv, IdInv
<1>3. a \notin Saving => /\ IsFiniteSet(Saving \cup {a})
                         /\ Cardinality(Saving \cup {a}) = Cardinality(Saving) + 1
      BY <1>2, FS_AddElement
<1>4. a \in Saving => /\ IsFiniteSet(Saving \ {a})
                      /\ Cardinality(Saving \ {a}) = Cardinality(Saving) - 1
      BY <1>2, FS_RemoveElement
<1> QED BY <1>1, <1>2, <1>3, <1>4

LEMMA NoEntryType == NoEntry \in [id : Nat \cup {NewId}, content : Content] /\ NoEntry.id = -1
<1>1. PICK x \in Text, k \in EvaluationOrder : TRUE
      BY ServicesAssumption
<1>2. [text |-> x, order |-> k] \in Content
      BY DEF Content
<1> QED BY <1>2 DEF NoEntry, NewId

LEMMA ManagerInit == Init => ManagerInv
<1> SUFFICES ASSUME Init PROVE ManagerInv
    OBVIOUS
<1>1. Saving = {}
      BY DEF Init, Saving
<1>2. IsFiniteSet(Saving) /\ Cardinality(Saving) = 0
      BY <1>1, FS_EmptySet
<1>3. /\ HighestId(InitStore) \in Nat
      /\ \A k \in 1 .. Len(InitStore) : InitStore[k].id <= HighestId(InitStore)
      BY HighestIdProperties, ServicesAssumption
<1>4. IdBound = HighestId(InitStore)
      BY <1>2, <1>3 DEF IdBound, Init
<1>5. Within(services, IdBound) /\ Within(local, IdBound)
  <2>1. Within(Loaded(InitStore), HighestId(InitStore)) /\ Within(NoServices, HighestId(InitStore))
        BY <1>3, LoadedWithin, NothingWithin, ServicesAssumption
  <2> QED BY <1>4, <2>1 DEF Init
<1>6. ManagerTypes
  <2>1. entry \in [Admin -> [id : Nat \cup {NewId}, content : Content]]
        BY NoEntryType DEF Init
  <2>2. store \in Seq(Entry) /\ changes \in 0 .. MaxChanges
        BY ServicesAssumption DEF Init
  <2>3. pc \in [Admin -> {"idle", "save", "add", "put", "remove"}]
        BY DEF Init
  <2> QED BY <2>1, <2>2, <2>3 DEF Init, ManagerTypes
<1>7. IdInv
      BY <1>2, <1>3, <1>4, <1>5, NoEntryType DEF Init, IdInv
<1> QED BY <1>6, <1>7 DEF ManagerInv

\* A request enters its monitor or leaves it: the bound does not shrink.
LEMMA BoundStep ==
    ASSUME ManagerInv, NEW a \in Admin, NEW label, pc' = [pc EXCEPT ![a] = label],
           changes' \in 0 .. MaxChanges, changes <= changes',
           pc[a] # "save" /\ label = "save" => changes' = changes + 1
    PROVE  /\ IsFiniteSet(Saving') /\ Cardinality(Saving') <= changes'
           /\ IdBound \in Nat /\ IdBound' \in Nat /\ IdBound <= IdBound'
           /\ pc[a] = "save" /\ label # "save" => IdBound + 1 <= IdBound'
<1>1. /\ IsFiniteSet(Saving')
      /\ pc[a] # "save" /\ label = "save" => Cardinality(Saving') = Cardinality(Saving) + 1
      /\ pc[a] = "save" /\ label # "save" => Cardinality(Saving') = Cardinality(Saving) - 1
      /\ pc[a] # "save" /\ label # "save" => Cardinality(Saving') = Cardinality(Saving)
      /\ pc[a] = "save" /\ label = "save" => Cardinality(Saving') = Cardinality(Saving)
  <2>1. pc[a] = "save" /\ label = "save" => Saving' = Saving
        BY DEF Saving, ManagerInv, ManagerTypes
  <2> QED BY <2>1, SavingStep
<1>2. /\ Cardinality(Saving) \in Nat /\ HighestId(InitStore) \in Nat /\ IdBound \in Nat
      /\ Cardinality(Saving) <= changes /\ changes \in Nat /\ changes' \in Nat
      BY BoundType DEF ManagerInv, IdInv, ManagerTypes
<1>3. Cardinality(Saving') \in Nat
      BY <1>1, FS_CardinalityType
<1>4. IdBound' = HighestId(InitStore) + changes' - Cardinality(Saving')
      BY DEF IdBound
<1>5. /\ Cardinality(Saving') <= changes'
      /\ Cardinality(Saving') <= Cardinality(Saving) + (changes' - changes)
      /\ pc[a] = "save" /\ label # "save" => Cardinality(Saving') <= Cardinality(Saving) - 1
  <2>1. CASE pc[a] # "save" /\ label = "save"
        BY <1>1, <1>2, <1>3, <2>1
  <2>2. CASE pc[a] = "save" /\ label # "save"
        BY <1>1, <1>2, <1>3, <2>2
  <2>3. CASE (pc[a] = "save") = (label = "save")
    <3>1. Cardinality(Saving') = Cardinality(Saving)
          BY <1>1, <2>3
    <3> QED BY <1>2, <2>3, <3>1
  <2> QED BY <2>1, <2>2, <2>3
<1> QED BY <1>1, <1>2, <1>3, <1>4, <1>5 DEF IdBound

\* A step of a request: what it has to keep.
LEMMA RequestStep ==
    ASSUME ManagerInv, NEW a \in Admin,
           NEW label \in {"idle", "save", "add", "put", "remove"},
           NEW e \in [id : Nat \cup {NewId}, content : Content],
           pc' = [pc EXCEPT ![a] = label], entry' = [entry EXCEPT ![a] = e],
           changes' \in 0 .. MaxChanges, changes <= changes',
           pc[a] # "save" /\ label = "save" => changes' = changes + 1,
           e.id <= IdBound', label \in {"add", "put", "remove"} => e.id \in Nat,
           store' \in Seq(Entry), \A k \in 1 .. Len(store') : store'[k].id <= IdBound',
           Within(services', IdBound'),
           modified' \in BOOLEAN, overlapped' \in BOOLEAN, agreed' \in BOOLEAN,
           ~modified' => ~modified /\ Len(store) <= Len(store'),
           deleted' \subseteq Nat, UNCHANGED reload
    PROVE  ManagerInv'
<1>1. /\ IsFiniteSet(Saving') /\ Cardinality(Saving') <= changes'
      /\ IdBound \in Nat /\ IdBound' \in Nat /\ IdBound <= IdBound'
      BY BoundStep
<1>2. ManagerTypes'
      BY DEF ManagerInv, ManagerTypes, reload
<1>3. ASSUME NEW q \in Admin
      PROVE  /\ entry'[q].id <= IdBound'
             /\ pc'[q] \in {"add", "put", "remove"} => entry'[q].id \in Nat
  <2>1. CASE q = a
        BY <2>1 DEF ManagerInv, ManagerTypes
  <2>2. CASE q # a
    <3>1. entry'[q] = entry[q] /\ pc'[q] = pc[q]
          BY <2>2 DEF ManagerInv, ManagerTypes
    <3>2. entry[q].id \in Int /\ entry[q].id <= IdBound
          BY DEF ManagerInv, ManagerTypes, IdInv, NewId
    <3>3. entry[q].id <= IdBound'
          BY <1>1, <3>2
    <3> QED BY <3>1, <3>3 DEF ManagerInv, IdInv
  <2> QED BY <2>1, <2>2
<1>4. Within(local', IdBound')
      BY <1>1, WithinMore DEF ManagerInv, IdInv, reload
<1>5. lpc' = "load" /\ ~modified' => cursor' <= Len(store')
  <2>1. Len(store) \in Nat /\ Len(store') \in Nat /\ cursor \in Nat
        BY IdTypes DEF ManagerInv, ManagerTypes
  <2> QED BY <2>1 DEF ManagerInv, IdInv, reload
<1> QED BY <1>1, <1>2, <1>3, <1>4, <1>5 DEF ManagerInv, IdInv

LEMMA SubmitStep ==
    ASSUME ManagerInv, NEW a \in Admin,
           \/ Submit(a)
           \/ \E i \in DOMAIN services, k \in EvaluationOrder : UpdateEvaluationOrder(a, i, k)
    PROVE  ManagerInv'
<1>1. /\ pc[a] = "idle" /\ pc' = [pc EXCEPT ![a] = "save"]
      /\ changes < MaxChanges /\ changes' = changes + 1
      /\ UNCHANGED <<store, services, reload, modified, deleted, overlapped, agreed>>
      BY DEF Submit, UpdateEvaluationOrder
<1>2. changes \in Nat /\ changes' \in 0 .. MaxChanges /\ changes <= changes'
      BY <1>1, ServicesAssumption DEF ManagerInv, ManagerTypes
<1>3. /\ IdBound \in Nat /\ IdBound' \in Nat /\ IdBound <= IdBound'
      BY <1>1, <1>2, BoundStep
<1>4. Within(services, IdBound)
      BY DEF ManagerInv, IdInv
<1>5. PICK e : /\ entry' = [entry EXCEPT ![a] = e]
               /\ e \in [id : Nat \cup {NewId}, content : Content]
               /\ e.id <= IdBound
  <2>1. \A i \in DOMAIN services : i \in Nat /\ i <= IdBound /\ services[i] \in Content
        BY <1>3, <1>4 DEF Within
  <2>2. CASE Submit(a)
    <3>1. PICK i \in DOMAIN services \cup {NewId}, c \in Content :
              entry' = [entry EXCEPT ![a] = [id |-> i, content |-> c]]
          BY <2>2 DEF Submit
    <3>2. i \in Nat \cup {NewId} /\ i <= IdBound
          BY <1>3, <2>1 DEF NewId
    <3>3. /\ [id |-> i, content |-> c] \in [id : Nat \cup {NewId}, content : Content]
          /\ [id |-> i, content |-> c].id <= IdBound
          BY <3>2
    <3> QED BY <3>1, <3>3
  <2>3. ASSUME NEW i \in DOMAIN services, NEW k \in EvaluationOrder, UpdateEvaluationOrder(a, i, k)
        PROVE  \E e : /\ entry' = [entry EXCEPT ![a] = e]
                      /\ e \in [id : Nat \cup {NewId}, content : Content]
                      /\ e.id <= IdBound
    <3>1. entry' = [entry EXCEPT ![a] = [id |-> i, content |-> [services[i] EXCEPT !.order = k]]]
          BY <2>3 DEF UpdateEvaluationOrder
    <3>2. [services[i] EXCEPT !.order = k] \in Content
          BY <2>1 DEF Content
    <3> DEFINE c == [services[i] EXCEPT !.order = k]
    <3> HIDE DEF c
    <3>3. /\ [id |-> i, content |-> c] \in [id : Nat \cup {NewId}, content : Content]
          /\ [id |-> i, content |-> c].id <= IdBound
          BY <2>1, <3>2 DEF c
    <3>4. entry' = [entry EXCEPT ![a] = [id |-> i, content |-> c]]
          BY <3>1 DEF c
    <3> QED BY <3>3, <3>4
  <2> QED BY <2>2, <2>3
<1>6. e.id <= IdBound'
      BY <1>3, <1>5 DEF NewId
<1>7. \A k \in 1 .. Len(store') : store'[k].id <= IdBound'
  <2>1. \A k \in 1 .. Len(store) : store[k].id \in Nat /\ store[k].id <= IdBound
        BY IdTypes DEF ManagerInv, ManagerTypes, IdInv
  <2> QED BY <1>1, <1>3, <2>1
<1>8. Within(services', IdBound')
      BY <1>1, <1>3, <1>4, WithinMore
<1>9. /\ store' \in Seq(Entry) /\ modified' \in BOOLEAN /\ overlapped' \in BOOLEAN
      /\ agreed' \in BOOLEAN /\ deleted' \subseteq Nat /\ UNCHANGED reload
      BY <1>1 DEF ManagerInv, ManagerTypes
<1>10. Len(store) <= Len(store')
      BY <1>1, IdTypes DEF ManagerInv, ManagerTypes
<1> QED BY <1>1, <1>2, <1>5, <1>6, <1>7, <1>8, <1>9, <1>10, RequestStep

LEMMA StoreStep ==
    ASSUME ManagerInv, NEW e, NEW b \in Int, IdBound <= b
    PROVE  /\ RemoveEqual(store, e) \in Seq(Entry)
           /\ \A k \in 1 .. Len(RemoveEqual(store, e)) : RemoveEqual(store, e)[k].id <= b
<1>1. store \in Seq(Entry) /\ IdBound \in Nat
      BY BoundType DEF ManagerInv, ManagerTypes
<1>2. \A k \in 1 .. Len(store) : store[k].id \in Nat /\ store[k].id <= b
  <2>1. \A k \in 1 .. Len(store) : store[k].id \in Nat /\ store[k].id <= IdBound
        BY IdTypes DEF ManagerInv, ManagerTypes, IdInv
  <2> QED BY <1>1, <2>1
<1> QED BY <1>1, <1>2, RemoveEqualElements

LEMMA SaveRemoveStep ==
    ASSUME ManagerInv, NEW a \in Admin, SaveRemove(a)
    PROVE  ManagerInv'
<1> DEFINE id == IF entry[a].id = NewId THEN HighestId(store) + 1 ELSE entry[a].id
           e == [entry[a] EXCEPT !.id = id]
<1>1. /\ pc[a] = "save" /\ pc' = [pc EXCEPT ![a] = "add"]
      /\ entry' = [entry EXCEPT ![a] = e]
      /\ store' = RemoveEqual(store, entry[a])
      /\ modified' = (modified \/ store' # store)
      /\ overlapped' = TRUE /\ agreed' = FALSE
      /\ UNCHANGED <<services, reload, changes, deleted>>
      BY DEF SaveRemove, Changed
<1>2. /\ changes \in Nat /\ changes' \in 0 .. MaxChanges /\ changes <= changes'
      /\ entry[a] \in [id : Nat \cup {NewId}, content : Content]
      /\ store \in Seq(Entry) /\ entry[a].id <= IdBound
      BY <1>1, ServicesAssumption DEF ManagerInv, ManagerTypes, IdInv
<1>3. IdBound \in Nat /\ IdBound' \in Nat /\ IdBound + 1 <= IdBound'
  <2>1. /\ IdBound \in Nat /\ IdBound' \in Nat
        /\ pc[a] = "save" /\ "add" # "save" => IdBound + 1 <= IdBound'
        BY <1>1, <1>2, BoundStep
  <2> QED BY <1>1, <2>1
<1>4. id \in Nat /\ id <= IdBound'
  <2>1. HighestId(store) \in Nat /\ HighestId(store) <= IdBound
        BY <1>2, <1>3, HighestIdProperties DEF ManagerInv, IdInv
  <2> QED BY <1>2, <1>3, <2>1 DEF NewId
<1>5. e \in [id : Nat \cup {NewId}, content : Content] /\ e.id = id
      BY <1>2, <1>4
<1> HIDE DEF id, e
<1>6. store' \in Seq(Entry) /\ \A k \in 1 .. Len(store') : store'[k].id <= IdBound'
  <2>1. IdBound <= IdBound' /\ IdBound' \in Int
        BY <1>3
  <2> QED BY <1>1, <2>1, StoreStep
<1>7. Within(services', IdBound')
  <2>1. IdBound <= IdBound' /\ IdBound' \in Int /\ IdBound \in Int
        BY <1>3
  <2> QED BY <1>1, <2>1, WithinMore DEF ManagerInv, IdInv
<1>8. /\ modified' \in BOOLEAN /\ deleted' \subseteq Nat
      /\ ~modified' => ~modified /\ Len(store) <= Len(store')
  <2>1. modified \in BOOLEAN /\ deleted \subseteq Nat /\ Len(store) \in Nat
        BY <1>2, IdTypes DEF ManagerInv, ManagerTypes
  <2>2. modified' \in BOOLEAN /\ (~modified' => ~modified /\ store' = store)
        BY <1>1, <2>1
  <2> QED BY <1>1, <2>1, <2>2
<1> QED BY <1>1, <1>2, <1>4, <1>5, <1>6, <1>7, <1>8, RequestStep

LEMMA SaveAddStep ==
    ASSUME ManagerInv, NEW a \in Admin, SaveAdd(a)
    PROVE  ManagerInv'
<1>1. /\ pc[a] = "add" /\ pc' = [pc EXCEPT ![a] = "put"]
      /\ store' = Append(store, entry[a])
      /\ modified' = TRUE
      /\ overlapped' = TRUE /\ agreed' = FALSE
      /\ UNCHANGED <<services, entry, reload, changes, deleted>>
      BY DEF SaveAdd, Changed
<1>2. /\ changes \in Nat /\ changes' \in 0 .. MaxChanges /\ changes <= changes'
      /\ entry[a] \in [id : Nat \cup {NewId}, content : Content]
      /\ store \in Seq(Entry) /\ entry[a].id <= IdBound /\ entry[a].id \in Nat
      BY <1>1, ServicesAssumption DEF ManagerInv, ManagerTypes, IdInv
<1>3. IdBound \in Nat /\ IdBound' \in Nat /\ IdBound <= IdBound'
      BY <1>1, <1>2, BoundStep
<1>4. entry[a] \in Entry
      BY <1>2 DEF Entry
<1>5. store' \in Seq(Entry) /\ \A k \in 1 .. Len(store') : store'[k].id <= IdBound'
  <2>1. /\ store' \in Seq(Entry) /\ Len(store') = Len(store) + 1 /\ Len(store) \in Nat
        /\ \A k \in 1 .. Len(store) : store'[k] = store[k]
        /\ store'[Len(store) + 1] = entry[a]
        BY <1>1, <1>2, <1>4, IdTypes
  <2>2. \A k \in 1 .. Len(store) : store[k].id \in Nat /\ store[k].id <= IdBound
        BY IdTypes DEF ManagerInv, ManagerTypes, IdInv
  <2>3. ASSUME NEW k \in 1 .. Len(store')
        PROVE  store'[k].id <= IdBound'
    <3>1. CASE k = Len(store) + 1
          BY <1>2, <1>3, <2>1, <3>1
    <3>2. CASE k # Len(store) + 1
      <4>1. k \in 1 .. Len(store)
            BY <2>1, <3>2
      <4> QED BY <1>3, <2>1, <2>2, <4>1
    <3> QED BY <3>1, <3>2
  <2> QED BY <2>1, <2>3
<1>6. Within(services', IdBound')
  <2>1. IdBound' \in Int /\ IdBound \in Int
        BY <1>3
  <2> QED BY <1>1, <1>3, <2>1, WithinMore DEF ManagerInv, IdInv
<1>7. entry' = [entry EXCEPT ![a] = entry[a]] /\ entry[a].id <= IdBound' /\ deleted' \subseteq Nat
      BY <1>1, <1>2, <1>3 DEF ManagerInv, ManagerTypes
<1> QED BY <1>1, <1>2, <1>5, <1>6, <1>7, RequestStep

\* The last step of a request: the map is changed.
LEMMA AnswerStep ==
    ASSUME ManagerInv, NEW a \in Admin, SavePut(a) \/ DeleteRemove(a)
    PROVE  ManagerInv'
<1>1. /\ pc[a] \in {"put", "remove"} /\ pc' = [pc EXCEPT ![a] = "idle"]
      /\ entry' = [entry EXCEPT ![a] = NoEntry]
      /\ overlapped' = TRUE /\ agreed' = FALSE
      /\ deleted' \subseteq deleted \cup {entry[a].id}
      /\ UNCHANGED <<store, reload, modified, changes>>
      BY DEF SavePut, DeleteRemove, Changed
<1>2. /\ changes \in Nat /\ changes' \in 0 .. MaxChanges /\ changes <= changes'
      /\ entry[a] \in [id : Nat \cup {NewId}, content : Content]
      /\ store \in Seq(Entry) /\ entry[a].id <= IdBound /\ entry[a].id \in Nat
      BY <1>1, ServicesAssumption DEF ManagerInv, ManagerTypes, IdInv
<1>3. IdBound \in Nat /\ IdBound' \in Nat /\ IdBound <= IdBound'
      BY <1>1, <1>2, BoundStep
<1>4. Within(services', IdBound')
  <2>1. Within(services, IdBound) /\ entry[a].id \in 0 .. IdBound /\ IdBound \in Int /\ IdBound' \in Int
        BY <1>2, <1>3 DEF ManagerInv, IdInv
  <2>2. Within(services', IdBound)
        BY <1>2, <2>1, PutWithin, WithoutWithin DEF SavePut, DeleteRemove
  <2> QED BY <1>3, <2>1, <2>2, WithinMore
<1>5. \A k \in 1 .. Len(store') : store'[k].id <= IdBound'
  <2>1. \A k \in 1 .. Len(store) : store[k].id \in Nat /\ store[k].id <= IdBound
        BY IdTypes DEF ManagerInv, ManagerTypes, IdInv
  <2> QED BY <1>1, <1>3, <2>1
<1>6. /\ NoEntry \in [id : Nat \cup {NewId}, content : Content] /\ NoEntry.id <= IdBound'
      BY <1>3, NoEntryType
<1>7. /\ store' \in Seq(Entry) /\ modified' \in BOOLEAN /\ deleted' \subseteq Nat
      /\ Len(store) <= Len(store')
      BY <1>1, <1>2, IdTypes DEF ManagerInv, ManagerTypes
<1> QED BY <1>1, <1>2, <1>4, <1>5, <1>6, <1>7, RequestStep

LEMMA DeleteStep ==
    ASSUME ManagerInv, NEW a \in Admin, NEW i \in DOMAIN services, Delete(a, i)
    PROVE  ManagerInv'
<1> DEFINE e == [id |-> i, content |-> services[i]]
<1>1. /\ pc[a] = "idle" /\ pc' = [pc EXCEPT ![a] = "remove"]
      /\ entry' = [entry EXCEPT ![a] = e]
      /\ store' = RemoveEqual(store, e)
      /\ modified' = (modified \/ store' # store)
      /\ overlapped' = TRUE /\ agreed' = FALSE
      /\ changes < MaxChanges /\ changes' = changes + 1
      /\ UNCHANGED <<services, reload, deleted>>
      BY DEF Delete, Changed
<1>2. /\ changes \in Nat /\ changes' \in 0 .. MaxChanges /\ changes <= changes'
      /\ store \in Seq(Entry)
      BY <1>1, ServicesAssumption DEF ManagerInv, ManagerTypes
<1>3. IdBound \in Nat /\ IdBound' \in Nat /\ IdBound <= IdBound'
      BY <1>1, <1>2, BoundStep
<1>4. /\ e \in [id : Nat \cup {NewId}, content : Content]
      /\ e.id \in Nat /\ e.id <= IdBound'
  <2>1. i \in Nat /\ i <= IdBound /\ services[i] \in Content
        BY <1>3 DEF ManagerInv, IdInv, Within
  <2> QED BY <1>3, <2>1
<1> HIDE DEF e
<1>5. store' \in Seq(Entry) /\ \A k \in 1 .. Len(store') : store'[k].id <= IdBound'
  <2>1. IdBound' \in Int
        BY <1>3
  <2> QED BY <1>1, <1>3, <2>1, StoreStep
<1>6. Within(services', IdBound')
  <2>1. IdBound' \in Int /\ IdBound \in Int
        BY <1>3
  <2> QED BY <1>1, <1>3, <2>1, WithinMore DEF ManagerInv, IdInv
<1>7. /\ modified' \in BOOLEAN /\ deleted' \subseteq Nat
      /\ ~modified' => ~modified /\ Len(store) <= Len(store')
  <2>1. modified \in BOOLEAN /\ deleted \subseteq Nat /\ Len(store) \in Nat
        BY <1>2, IdTypes DEF ManagerInv, ManagerTypes
  <2>2. modified' \in BOOLEAN /\ (~modified' => ~modified /\ store' = store)
        BY <1>1, <2>1
  <2> QED BY <1>1, <2>1, <2>2
<1> QED BY <1>1, <1>2, <1>4, <1>5, <1>6, <1>7, RequestStep

LEMMA ReloadStep ==
    ASSUME ManagerInv, Reload
    PROVE  ManagerInv'
<1>1. UNCHANGED <<store, pc, entry, changes, deleted>>
      BY DEF Reload, LoadStart, LoadNext, LoadEnd, LoadSwap, request
<1>2. Saving' = Saving /\ IdBound' = IdBound
      BY <1>1 DEF Saving, IdBound
<1>3. /\ IdBound \in Nat /\ Within(services, IdBound) /\ Within(local, IdBound)
      /\ Within(NoServices, IdBound)
      BY BoundType, NothingWithin DEF ManagerInv, IdInv
<1>4. cursor # Len(store) /\ lpc = "load" /\ ~modified =>
          /\ cursor + 1 \in 1 .. Len(store)
          /\ Within(Put(local, store[cursor + 1].id, store[cursor + 1].content), IdBound)
  <2> SUFFICES ASSUME cursor # Len(store), lpc = "load", ~modified
               PROVE  /\ cursor + 1 \in 1 .. Len(store)
                      /\ Within(Put(local, store[cursor + 1].id, store[cursor + 1].content), IdBound)
      OBVIOUS
  <2>1. store \in Seq(Entry) /\ Len(store) \in Nat /\ cursor \in Nat /\ cursor <= Len(store)
        BY IdTypes DEF ManagerInv, ManagerTypes, IdInv
  <2>2. cursor + 1 \in 1 .. Len(store)
        BY <2>1
  <2>3. /\ store[cursor + 1].id \in Nat /\ store[cursor + 1].content \in Content
        /\ store[cursor + 1].id <= IdBound
        BY <2>1, <2>2, IdTypes DEF ManagerInv, IdInv
  <2>4. store[cursor + 1].id \in 0 .. IdBound /\ IdBound \in Int
        BY <1>3, <2>3
  <2> QED BY <1>3, <2>2, <2>3, <2>4, PutWithin
<1>5. /\ services' \in {services, local}
      /\ Within(services', IdBound)
      BY <1>3 DEF Reload, LoadStart, LoadNext, LoadEnd, LoadSwap
<1>6. /\ Within(local', IdBound)
      /\ lpc' \in {"idle", "load", "swap"} /\ cursor' \in Nat
      /\ lpc' = "load" /\ ~modified' => cursor' <= Len(store')
      /\ modified' \in BOOLEAN /\ overlapped' \in BOOLEAN /\ agreed' \in BOOLEAN
  <2>1. Len(store) \in Nat /\ store \in Seq(Entry)
        BY IdTypes DEF ManagerInv, ManagerTypes
  <2>2. CASE LoadStart
    <3>1. /\ lpc' = "load" /\ cursor' = 0 /\ local' = NoServices
          /\ modified' = FALSE /\ overlapped' = FALSE /\ agreed' = agreed
          BY <2>2 DEF LoadStart
    <3>2. agreed \in BOOLEAN
          BY DEF ManagerInv, ManagerTypes
    <3>3. cursor' <= Len(store')
          BY <1>1, <2>1, <3>1
    <3> QED BY <1>3, <3>1, <3>2, <3>3
  <2>3. CASE LoadNext
        BY <1>3, <1>4, <2>1, <2>3 DEF LoadNext, ManagerInv, ManagerTypes
  <2>4. CASE LoadEnd
        BY <1>3, <2>4 DEF LoadEnd, ManagerInv, ManagerTypes
  <2>5. CASE LoadSwap
        BY <1>3, <2>5 DEF LoadSwap, ManagerInv, ManagerTypes
  <2> QED BY <2>2, <2>3, <2>4, <2>5 DEF Reload
<1> QED BY <1>1, <1>2, <1>5, <1>6 DEF ManagerInv, ManagerTypes, IdInv

LEMMA ManagerStep ==
    ASSUME ManagerInv, [Next]_vars
    PROVE  ManagerInv'
<1>1. CASE UNCHANGED vars
  <2>1. Saving' = Saving /\ IdBound' = IdBound
        BY <1>1 DEF vars, request, Saving, IdBound
  <2> QED BY <1>1, <2>1 DEF vars, request, reload, ManagerInv, ManagerTypes, IdInv
<1> QED BY <1>1, SubmitStep, SaveRemoveStep, SaveAddStep, AnswerStep, DeleteStep, ReloadStep
        DEF Next, Proceed

LEMMA ManagerInvariant == Spec => []ManagerInv
<1>1. ManagerInv /\ [Next]_vars => ManagerInv'
      BY ManagerStep
<1> QED BY ManagerInit, <1>1, PTL DEF Spec

\* Every variable of the services manager keeps its type, whatever reloads and
\* requests do: no id is higher than the configuration and the saves account for.
THEOREM ServicesTypeCorrect == Spec => []TypeOK
BY ManagerInvariant, ManagerInvIsTyped, PTL

-----------------------------------------------------------------------------
(***************************************************************************)
(* Reloads.                                                                *)
(***************************************************************************)

\* While nothing has changed since it began, a reload holds what the part of
\* the list it has read says.
QuietInv ==
    /\ lpc = "load" /\ ~overlapped =>
        /\ ~modified /\ cursor <= Len(store)
        /\ local = Loaded(SubSeq(store, 1, cursor))
    /\ lpc = "swap" /\ ~overlapped => local = Loaded(store)
    /\ QuietReloadAgrees

LEMMA QuietRequest ==
    ASSUME QuietInv, NEW a \in Admin,
           \/ Submit(a) \/ Proceed(a)
           \/ \E i \in DOMAIN services :
                \/ Delete(a, i)
                \/ \E k \in EvaluationOrder : UpdateEvaluationOrder(a, i, k)
    PROVE  QuietInv'
<1>1. \/ UNCHANGED <<store, services, reload, modified, overlapped, agreed>>
      \/ overlapped' = TRUE /\ agreed' = FALSE
      BY DEF Submit, Proceed, SaveRemove, SaveAdd, SavePut, DeleteRemove, Delete,
             UpdateEvaluationOrder, Changed
<1> QED BY <1>1 DEF QuietInv, QuietReloadAgrees, reload

LEMMA EmptyMap ==
    ASSUME NEW m, m = [i \in DOMAIN m |-> m[i]], DOMAIN m = {}
    PROVE  m = NoServices
<1>1. \A i \in DOMAIN m : m[i] = NoEntry.content
      OBVIOUS
<1> QED BY <1>1 DEF NoServices

LEMMA LoadedNothing == Loaded(<<>>) = NoServices
<1>1. <<>> \in Seq(Entry) /\ Len(<<>>) = 0
      BY EmptySeq
<1>2. DOMAIN Loaded(<<>>) = {} /\ Loaded(<<>>) = [i \in DOMAIN Loaded(<<>>) |-> Loaded(<<>>)[i]]
  <2>1. {<<>>[k].id : k \in 1 .. Len(<<>>)} = {}
        BY <1>1
  <2> QED BY <1>1, <2>1, LoadedDomain
<1> QED BY <1>2, EmptyMap

\* The iterator's next entry.
LEMMA LoadedNext ==
    ASSUME NEW list \in Seq(Entry), NEW c \in Nat, c + 1 \in 1 .. Len(list)
    PROVE  Loaded(SubSeq(list, 1, c + 1))
             = Put(Loaded(SubSeq(list, 1, c)), list[c + 1].id, list[c + 1].content)
<1> DEFINE prefix == SubSeq(list, 1, c)
<1>1. Len(list) \in Nat /\ \A k \in 1 .. Len(list) : list[k] \in Entry
      BY IdTypes
<1>2. prefix \in Seq(Entry)
  <2>1. \A k \in 1 .. c : list[k] \in Entry
        BY <1>1
  <2> QED BY <2>1, SubSeqProperties
<1>3. SubSeq(list, 1, c + 1) = prefix \o <<list[c + 1]>>
  <2>1. 1 \in 1 .. Len(list) /\ c + 1 \in 1 .. Len(list) /\ (c + 1) - 1 = c
        BY <1>1
  <2> QED BY <2>1, SubSeqRecursiveSecond
<1> HIDE DEF prefix
<1>4. prefix \o <<list[c + 1]>> = Append(prefix, list[c + 1])
      BY <1>1, <1>2
<1> QED BY <1>1, <1>2, <1>3, <1>4, LoadedAppend DEF prefix

LEMMA QuietReload ==
    ASSUME ManagerInv, QuietInv, Reload
    PROVE  QuietInv'
<1>1. store \in Seq(Entry) /\ Len(store) \in Nat /\ cursor \in Nat /\ store' = store
      BY IdTypes DEF ManagerInv, ManagerTypes, Reload, LoadStart, LoadNext, LoadEnd, LoadSwap
<1>2. CASE LoadStart
  <2>1. SubSeq(store, 1, 0) = <<>>
        BY SubSeqEmpty
  <2>2. /\ lpc' = "load" /\ cursor' = 0 /\ local' = NoServices /\ modified' = FALSE
        /\ UNCHANGED <<services, agreed>>
        BY <1>2 DEF LoadStart
  <2>3. cursor' <= Len(store') /\ local' = Loaded(SubSeq(store', 1, cursor'))
    <3>1. SubSeq(store', 1, cursor') = <<>>
          BY <1>1, <2>1, <2>2
    <3>2. cursor' <= Len(store')
          BY <1>1, <2>2
    <3> QED BY <2>2, <3>1, <3>2, LoadedNothing
  <2>4. store' = store
        BY <1>1
  <2>5. QuietReloadAgrees'
        BY <2>2, <2>4 DEF QuietInv, QuietReloadAgrees
  <2> QED BY <2>2, <2>3, <2>5 DEF QuietInv
<1>3. CASE LoadNext
  <2>1. /\ lpc = "load" /\ cursor # Len(store)
        /\ UNCHANGED <<services, modified, overlapped, agreed>>
        BY <1>3 DEF LoadNext
  <2>2. CASE lpc' = "idle"
        BY <1>1, <2>1, <2>2 DEF QuietInv, QuietReloadAgrees
  <2>3. CASE ~modified /\ cursor' = cursor + 1 /\ lpc' = lpc
             /\ local' = Put(local, store[cursor + 1].id, store[cursor + 1].content)
    <3>1. ASSUME ~overlapped
          PROVE  cursor' <= Len(store) /\ local' = Loaded(SubSeq(store, 1, cursor'))
      <4>1. local = Loaded(SubSeq(store, 1, cursor)) /\ cursor <= Len(store)
            BY <2>1, <3>1 DEF QuietInv
      <4>2. cursor + 1 \in 1 .. Len(store)
            BY <1>1, <2>1, <4>1
      <4> QED BY <1>1, <2>3, <4>1, <4>2, LoadedNext
    <3> QED BY <1>1, <2>1, <2>3, <3>1 DEF QuietInv, QuietReloadAgrees
  <2> QED BY <1>3, <2>2, <2>3 DEF LoadNext
<1>4. CASE LoadEnd
  <2>1. SubSeq(store, 1, Len(store)) = store
        BY <1>1, SubSeqFull
  <2>2. /\ lpc = "load" /\ lpc' = "swap" /\ cursor = Len(store)
        /\ UNCHANGED <<services, local, overlapped, agreed>>
        BY <1>4 DEF LoadEnd
  <2> QED BY <1>1, <2>1, <2>2 DEF QuietInv, QuietReloadAgrees
<1>5. CASE LoadSwap
  <2>1. lpc = "swap" /\ lpc' = "idle" /\ services' = local /\ agreed' = ~overlapped
        BY <1>5 DEF LoadSwap
  <2> QED BY <1>1, <2>1 DEF QuietInv, QuietReloadAgrees
<1> QED BY <1>2, <1>3, <1>4, <1>5 DEF Reload

\* After a reload that no save or delete overlapped, and until the next one, the
\* map lookups read is what the list of the dao says: entry by entry, whatever
\* the list holds of former versions, and however many requests there are.
THEOREM QuietReloadsAgree == Spec => []QuietReloadAgrees
<1>1. Init => QuietInv
      BY DEF Init, QuietInv, QuietReloadAgrees
<1>2. ManagerInv /\ QuietInv /\ [Next]_vars => QuietInv'
  <2>1. QuietInv /\ UNCHANGED vars => QuietInv'
        BY DEF vars, reload, QuietInv, QuietReloadAgrees
  <2> QED BY <2>1, QuietRequest, QuietReload DEF Next
<1>3. QuietInv => QuietReloadAgrees
      BY DEF QuietInv
<1> QED BY ManagerInvariant, <1>1, <1>2, <1>3, PTL DEF Spec

-----------------------------------------------------------------------------
(***************************************************************************)
(* One administrator.                                                      *)
(***************************************************************************)

\* What a service that is being saved says conflicts with none but itself.
Conflictless(e) ==
    \A j \in DOMAIN services : Pattern(j) = ServiceId[e.content.text] => j = e.id

\* The list says of a service what the map says.
Stored(i) == i \in DOMAIN Loaded(store) /\ Loaded(store)[i] = services[i]

OneInv ==
    /\ lpc = "idle"
    /\ UniqueServiceIds
    /\ \A a \in Admin :
        /\ pc[a] \in {"save", "add", "put"} => Conflictless(entry[a])
        /\ \A i \in DOMAIN services :
              pc[a] \in {"idle", "save"} \/ i # entry[a].id => Stored(i)
        /\ pc[a] = "put" => /\ entry[a].id \in DOMAIN Loaded(store)
                            /\ Loaded(store)[entry[a].id] = entry[a].content
        /\ pc[a] = "remove" => /\ entry[a].id \in DOMAIN services
                               /\ services[entry[a].id] = entry[a].content

LEMMA ServedTypes ==
    ASSUME ManagerInv
    PROVE  /\ services \in [DOMAIN services -> Content] /\ DOMAIN services \subseteq Nat
           /\ \A i \in DOMAIN services : /\ services[i] \in Content /\ i \in Nat
                                         /\ services[i].text \in Text
                                         /\ services[i].order \in Int
                                         /\ Name[services[i].text] \in Nat
           /\ store \in Seq(Entry)
<1>1. services \in [DOMAIN services -> Content] /\ DOMAIN services \subseteq Nat
      BY BoundType DEF ManagerInv, IdInv, Within
<1>2. \A c \in Content : c.text \in Text /\ c.order \in Int /\ Name[c.text] \in Nat
      BY ServicesAssumption DEF Content
<1> QED BY <1>1, <1>2 DEF ManagerInv, ManagerTypes

\* An iteration over the map meets its services one after the other.
LEMMA ServedPlaces ==
    ASSUME ManagerInv
    PROVE  /\ \A i \in DOMAIN services : Place[i] \in Nat
           /\ \A i, j \in DOMAIN services : Place[i] = Place[j] => i = j
<1>1. DOMAIN services \subseteq IdSpace
      BY BoundType, ServicesAssumption DEF ManagerInv, IdInv, Within, IdSpace
<1> QED BY <1>1, PlaceAssumption

\* The validator looks at the services a lookup iterates over: the one among
\* equals that it finds has the id of them all.
LEMMA ValidForAll ==
    ASSUME ManagerInv, UniqueServiceIds, OneAdministrator,
           NEW i, NEW c, Valid(i, c),
           NEW j \in DOMAIN services, Pattern(j) = ServiceId[c.text]
    PROVE  j = i
<1> DEFINE same == {k \in DOMAIN services :
                      /\ services[k].order = services[j].order
                      /\ Name[services[k].text] = Name[services[j].text]}
           places == {Place[k] : k \in same}
<1>1. /\ j \in same /\ \A k \in same : k \in DOMAIN services
      /\ places \in SUBSET Nat /\ Place[j] \in places
      BY ServedPlaces
<1>2. PICK m \in same : \A k \in same : Place[m] <= Place[k]
  <2>1. Min(places) \in places /\ \A p \in places : Min(places) <= p
        BY <1>1, MinOf
  <2>2. PICK m \in same : Place[m] = Min(places)
        BY <2>1
  <2>3. \A k \in same : Place[k] \in places
        OBVIOUS
  <2> QED BY <2>1, <2>2, <2>3
<1>3. m \in AllServices
  <2>1. ASSUME NEW k \in DOMAIN services,
               ~Before(services[m], services[k]), ~Before(services[k], services[m])
        PROVE  Place[m] <= Place[k]
    <3>1. /\ services[m].order \in Int /\ services[k].order \in Int
          /\ Name[services[m].text] \in Nat /\ Name[services[k].text] \in Nat
          BY <1>2, ServedTypes
    <3>2. services[m].order = services[k].order /\ Name[services[m].text] = Name[services[k].text]
          BY <2>1, <3>1 DEF Before
    <3>3. k \in same
          BY <1>2, <3>2
    <3> QED BY <1>2, <3>3
  <2> QED BY <1>2, <2>1 DEF AllServices
<1>4. Pattern(m) = Pattern(j)
  <2>1. services[m].text \in Text /\ services[j].text \in Text
        BY <1>2, ServedTypes
  <2> QED BY <1>2, <2>1 DEF OneAdministrator, Pattern
<1>5. m = i
      BY <1>3, <1>4 DEF Valid
<1>6. m = j
      BY <1>2, <1>4 DEF UniqueServiceIds
<1> QED BY <1>5, <1>6

LEMMA OneInit ==
    ASSUME OneAdministrator, Init
    PROVE  OneInv
<1>1. UniqueServiceIds
      BY DEF OneAdministrator, Init, UniqueServiceIds, Pattern
<1>2. \A i \in DOMAIN services : Stored(i)
      BY DEF Init, Stored
<1> QED BY <1>1, <1>2 DEF Init, OneInv

\* The only request there is takes a step.
LEMMA OneStep ==
    ASSUME OneAdministrator, ManagerInv, OneInv, NEW a \in Admin,
           NEW label, NEW e,
           pc' = [pc EXCEPT ![a] = label], entry' = [entry EXCEPT ![a] = e],
           lpc' = lpc, UniqueServiceIds',
           label \in {"save", "add", "put"} => Conflictless(e)',
           \A i \in DOMAIN services' : label \in {"idle", "save"} \/ i # e.id => Stored(i)',
           label = "put" => e.id \in DOMAIN Loaded(store') /\ Loaded(store')[e.id] = e.content,
           label = "remove" => e.id \in DOMAIN services' /\ services'[e.id] = e.content
    PROVE  OneInv'
<1>1. pc'[a] = label /\ entry'[a] = e /\ \A b \in Admin : b = a
      BY DEF ManagerInv, ManagerTypes, OneAdministrator
<1> QED BY <1>1 DEF OneInv

LEMMA OneSubmit ==
    ASSUME OneAdministrator, ManagerInv, OneInv, NEW a \in Admin, Submit(a)
    PROVE  OneInv'
<1>1. PICK i \in DOMAIN services \cup {NewId}, c \in Content :
          Valid(i, c) /\ entry' = [entry EXCEPT ![a] = [id |-> i, content |-> c]]
      BY DEF Submit
<1> DEFINE e == [id |-> i, content |-> c]
<1>2. /\ pc[a] = "idle" /\ pc' = [pc EXCEPT ![a] = "save"] /\ lpc' = lpc
      /\ store' = store /\ services' = services
      BY DEF Submit, reload
<1>3. Conflictless(e)
      BY <1>1, ValidForAll DEF Conflictless, OneInv
<1>4. Conflictless(e)' /\ UniqueServiceIds' /\ \A k \in DOMAIN services' : Stored(k)'
      BY <1>2, <1>3 DEF Conflictless, Pattern, OneInv, UniqueServiceIds, Stored
<1> HIDE DEF e
<1>5. entry' = [entry EXCEPT ![a] = e]
      BY <1>1 DEF e
<1> QED BY <1>2, <1>4, <1>5, OneStep

LEMMA OneUpdate ==
    ASSUME OneAdministrator, ManagerInv, OneInv, NEW a \in Admin,
           NEW i \in DOMAIN services, NEW k \in EvaluationOrder, UpdateEvaluationOrder(a, i, k)
    PROVE  OneInv'
<1> PICK e : e = [id |-> i, content |-> [services[i] EXCEPT !.order = k]]
    OBVIOUS
<1>1. /\ pc[a] = "idle" /\ pc' = [pc EXCEPT ![a] = "save"] /\ lpc' = lpc
      /\ entry' = [entry EXCEPT ![a] = e]
      /\ store' = store /\ services' = services
      BY DEF UpdateEvaluationOrder, reload
<1>2. e.id = i /\ e.content.text = services[i].text
      BY ServedTypes DEF Content
<1>3. Conflictless(e)
      BY <1>2 DEF Conflictless, Pattern, OneInv, UniqueServiceIds
<1>4. Conflictless(e)' /\ UniqueServiceIds' /\ \A j \in DOMAIN services' : Stored(j)'
      BY <1>1, <1>3 DEF Conflictless, Pattern, OneInv, UniqueServiceIds, Stored
<1> QED BY <1>1, <1>4, OneStep

LEMMA OneSaveRemove ==
    ASSUME OneAdministrator, ManagerInv, OneInv, NEW a \in Admin, SaveRemove(a)
    PROVE  OneInv'
<1> PICK old : old = entry[a]
    OBVIOUS
<1> DEFINE id == IF old.id = NewId THEN HighestId(store) + 1 ELSE old.id
<1>1. /\ pc[a] = "save" /\ pc' = [pc EXCEPT ![a] = "add"] /\ lpc' = lpc
      /\ entry' = [entry EXCEPT ![a].id = id]
      /\ store' = RemoveEqual(store, old) /\ services' = services
      BY DEF SaveRemove, reload
<1>2. old \in [id : Nat \cup {NewId}, content : Content]
      BY DEF ManagerInv, ManagerTypes
<1> PICK new : new = [old EXCEPT !.id = id]
    OBVIOUS
<1>3. entry' = [entry EXCEPT ![a] = new] /\ new.id = id /\ new.content = old.content
      BY <1>1, <1>2 DEF ManagerInv, ManagerTypes
<1>4. \A j \in DOMAIN services : Pattern(j) = ServiceId[old.content.text] => j = new.id
  <2>1. ASSUME NEW j \in DOMAIN services, Pattern(j) = ServiceId[old.content.text]
        PROVE  j = new.id
    <3>1. j = old.id /\ j \in Nat
          BY <1>1, <2>1, ServedTypes DEF OneInv, Conflictless
    <3> QED BY <1>3, <3>1 DEF NewId
  <2> QED BY <2>1
<1>5. ASSUME NEW j \in DOMAIN services, j # new.id
      PROVE  j \in DOMAIN Loaded(store') /\ Loaded(store')[j] = services[j]
  <2>1. j \in DOMAIN Loaded(store) /\ Loaded(store)[j] = services[j]
        BY <1>1 DEF OneInv, Stored
  <2>2. Loaded(store)[j] # old.content
        BY <1>4, <1>5, <2>1 DEF Pattern
  <2> QED BY <1>1, <2>1, <2>2, LoadedRemove, ServedTypes
<1>6. Conflictless(new)' /\ UniqueServiceIds'
      BY <1>1, <1>3, <1>4 DEF Conflictless, Pattern, OneInv, UniqueServiceIds
<1>7. \A j \in DOMAIN services' : j # new.id => Stored(j)'
      BY <1>1, <1>5 DEF Stored
<1>8. \A j \in DOMAIN services' : "add" \in {"idle", "save"} \/ j # new.id => Stored(j)'
      BY <1>7
<1>9. entry' = [entry EXCEPT ![a] = new]
      BY <1>3
<1> HIDE DEF id
<1> QED BY <1>1, <1>6, <1>8, <1>9, OneStep

LEMMA OneSaveAdd ==
    ASSUME OneAdministrator, ManagerInv, OneInv, NEW a \in Admin, SaveAdd(a)
    PROVE  OneInv'
<1> PICK e : e = entry[a]
    OBVIOUS
<1>1. /\ pc[a] = "add" /\ pc' = [pc EXCEPT ![a] = "put"] /\ lpc' = lpc
      /\ entry' = [entry EXCEPT ![a] = e]
      /\ store' = Append(store, e) /\ services' = services
      BY DEF SaveAdd, reload, ManagerInv, ManagerTypes
<1>2. e \in Entry /\ store \in Seq(Entry)
      BY <1>1 DEF ManagerInv, ManagerTypes, IdInv, Entry
<1>3. Loaded(store') = Put(Loaded(store), e.id, e.content)
      BY <1>1, <1>2, LoadedAppend
<1>4. e.id \in DOMAIN Loaded(store') /\ Loaded(store')[e.id] = e.content
      BY <1>3 DEF Put
<1>5. ASSUME NEW j \in DOMAIN services, j # e.id
      PROVE  j \in DOMAIN Loaded(store') /\ Loaded(store')[j] = services[j]
  <2>1. j \in DOMAIN Loaded(store) /\ Loaded(store)[j] = services[j]
        BY <1>5 DEF OneInv, Stored
  <2> QED BY <1>3, <1>5, <2>1 DEF Put
<1>6. Conflictless(e)' /\ UniqueServiceIds'
      BY <1>1 DEF Conflictless, Pattern, OneInv, UniqueServiceIds
<1>7. \A j \in DOMAIN services' : j # e.id => Stored(j)'
      BY <1>1, <1>5 DEF Stored
<1>8. \A j \in DOMAIN services' : "put" \in {"idle", "save"} \/ j # e.id => Stored(j)'
      BY <1>7
<1> QED BY <1>1, <1>4, <1>6, <1>8, OneStep

LEMMA OneSavePut ==
    ASSUME OneAdministrator, ManagerInv, OneInv, NEW a \in Admin, SavePut(a)
    PROVE  OneInv'
<1> PICK e : e = entry[a]
    OBVIOUS
<1>1. /\ pc[a] = "put" /\ pc' = [pc EXCEPT ![a] = "idle"] /\ lpc' = lpc
      /\ entry' = [entry EXCEPT ![a] = NoEntry]
      /\ store' = store /\ services' = Put(services, e.id, e.content)
      BY DEF SavePut, reload
<1>2. /\ DOMAIN services' = DOMAIN services \cup {e.id} /\ services'[e.id] = e.content
      /\ \A j \in DOMAIN services : j # e.id => services'[j] = services[j]
      BY <1>1 DEF Put
<1>3. \A j \in DOMAIN services' : Stored(j)'
  <2>1. Loaded(store') = Loaded(store)
        BY <1>1
  <2>2. e.id \in DOMAIN Loaded(store) /\ Loaded(store)[e.id] = e.content
        BY <1>1 DEF OneInv
  <2>3. \A j \in DOMAIN services : j # e.id =>
            j \in DOMAIN Loaded(store) /\ Loaded(store)[j] = services[j]
        BY DEF OneInv, Stored
  <2> QED BY <1>2, <2>1, <2>2, <2>3 DEF Stored
<1>4. UniqueServiceIds'
  <2>1. \A j \in DOMAIN services : ServiceId[services[j].text] = ServiceId[e.content.text] => j = e.id
        BY <1>1 DEF OneInv, Conflictless, Pattern
  <2>2. \A i, j \in DOMAIN services : ServiceId[services[i].text] = ServiceId[services[j].text] => i = j
        BY DEF OneInv, UniqueServiceIds, Pattern
  <2>3. \A i, j \in DOMAIN services' : ServiceId[services'[i].text] = ServiceId[services'[j].text] => i = j
        BY <1>2, <2>1, <2>2
  <2> QED BY <2>3 DEF UniqueServiceIds, Pattern
<1> QED BY <1>1, <1>3, <1>4, OneStep

LEMMA OneDelete ==
    ASSUME OneAdministrator, ManagerInv, OneInv, NEW a \in Admin,
           NEW i \in DOMAIN services, Delete(a, i)
    PROVE  OneInv'
<1> PICK e : e = [id |-> i, content |-> services[i]]
    OBVIOUS
<1>1. /\ pc[a] = "idle" /\ pc' = [pc EXCEPT ![a] = "remove"] /\ lpc' = lpc
      /\ entry' = [entry EXCEPT ![a] = e]
      /\ store' = RemoveEqual(store, e) /\ services' = services
      BY DEF Delete, reload
<1>2. e.id = i /\ e.content = services[i]
      OBVIOUS
<1>3. ASSUME NEW j \in DOMAIN services, j # e.id
      PROVE  j \in DOMAIN Loaded(store') /\ Loaded(store')[j] = services[j]
  <2>1. j \in DOMAIN Loaded(store) /\ Loaded(store)[j] = services[j]
        BY <1>1 DEF OneInv, Stored
  <2>2. Loaded(store)[j] # e.content
        BY <1>2, <1>3, <2>1 DEF OneInv, UniqueServiceIds, Pattern
  <2> QED BY <1>1, <2>1, <2>2, LoadedRemove, ServedTypes
<1>4. UniqueServiceIds'
      BY <1>1 DEF Pattern, OneInv, UniqueServiceIds
<1>5. \A j \in DOMAIN services' : j # e.id => Stored(j)'
      BY <1>1, <1>3 DEF Stored
<1>6. \A j \in DOMAIN services' : "remove" \in {"idle", "save"} \/ j # e.id => Stored(j)'
      BY <1>5
<1> QED BY <1>1, <1>2, <1>4, <1>6, OneStep

LEMMA OneDeleteRemove ==
    ASSUME OneAdministrator, ManagerInv, OneInv, NEW a \in Admin, DeleteRemove(a)
    PROVE  OneInv'
<1> PICK e : e = entry[a]
    OBVIOUS
<1>1. /\ pc[a] = "remove" /\ pc' = [pc EXCEPT ![a] = "idle"] /\ lpc' = lpc
      /\ entry' = [entry EXCEPT ![a] = NoEntry]
      /\ store' = store /\ services' = Without(services, e.id)
      BY DEF DeleteRemove, reload
<1>2. /\ DOMAIN services' = DOMAIN services \ {e.id}
      /\ \A j \in DOMAIN services' : services'[j] = services[j]
      BY <1>1 DEF Without
<1>3. \A j \in DOMAIN services' : Stored(j)'
      BY <1>1, <1>2 DEF OneInv, Stored
<1>4. UniqueServiceIds'
      BY <1>2 DEF OneInv, UniqueServiceIds, Pattern
<1> QED BY <1>1, <1>3, <1>4, OneStep

LEMMA OneInvariant ==
    ASSUME OneAdministrator
    PROVE  Spec => []OneInv
<1>1. Init => OneInv
      BY OneInit
<1>2. ManagerInv /\ OneInv /\ [Next]_vars => OneInv'
  <2>1. OneInv /\ Reload => FALSE
        BY DEF OneInv, OneAdministrator, Reload, LoadStart, LoadNext, LoadEnd, LoadSwap
  <2>2. OneInv /\ UNCHANGED vars => OneInv'
        BY DEF vars, request, reload, OneInv, UniqueServiceIds, Pattern, Conflictless, Stored
  <2> QED BY <2>1, <2>2, OneSubmit, OneUpdate, OneSaveRemove, OneSaveAdd, OneSavePut,
             OneDelete, OneDeleteRemove DEF Next, Proceed
<1> QED BY ManagerInvariant, <1>1, <1>2, PTL DEF Spec

\* RegisteredServiceValidator keeps service ids unique, although it looks before
\* the monitor is entered and only at the services a lookup iterates over, when
\* one administrator works and nothing is reloaded.
THEOREM ServiceIdsStayUnique ==
    ASSUME OneAdministrator
    PROVE  Spec => []UniqueServiceIds
<1>1. OneInv => UniqueServiceIds
      BY DEF OneInv
<1> QED BY OneInvariant, <1>1, PTL

\* While no request is at work the lookups see, of every service, what the list
\* would load, whatever former versions the list keeps: dropping "the first equal
\* entry" never drops the current entry of another service.
THEOREM ServedStaysStored ==
    ASSUME OneAdministrator
    PROVE  Spec => []ServedIsStored
<1>1. OneInv => ServedIsStored
  <2>1. \E a : a \in Admin
        BY DEF OneAdministrator
  <2> QED BY <2>1 DEF OneInv, ServedIsStored, Stored
<1> QED BY OneInvariant, <1>1, PTL

-----------------------------------------------------------------------------
(***************************************************************************)
(* The page.                                                               *)
(***************************************************************************)

\* What the page does to the services manager is what a request does.
LEMMA PageStepIsManagerStep ==
    ASSUME [PageNext]_pageVars
    PROVE  [Next]_vars
<1>1. ASSUME Move PROVE Next
  <2>1. PICK i, k : k \in EvaluationOrder /\ UpdateEvaluationOrder(Tab, i, k)
        BY <1>1 DEF Move
  <2>2. i \in DOMAIN services
        BY <2>1 DEF UpdateEvaluationOrder
  <2> QED BY <2>1, <2>2, TabAssumption DEF Next
<1>2. ASSUME Yes PROVE Next
  <2>1. Delete(Tab, current) /\ current \in DOMAIN services
        BY <1>2 DEF Yes, Delete
  <2> QED BY <2>1, TabAssumption DEF Next
<1>3. ASSUME Manager PROVE Next
      BY <1>3 DEF Manager, Next
<1>4. ASSUME Manage \/ Moved \/ MoveFailed \/ SwapButtonsForConfirm \/ ResetOldValue \/ Deleted
      PROVE  UNCHANGED vars
      BY <1>4 DEF Manage, Moved, MoveFailed, SwapButtonsForConfirm, ResetOldValue, Deleted
<1> QED BY TabAssumption, <1>1, <1>2, <1>3, <1>4 DEF PageNext, pageVars

\* The services manager under the page is the services manager.
THEOREM PageIsManager == PageSpec => Spec
<1>1. PageInit => Init
      BY DEF PageInit
<1>2. [PageNext]_pageVars => [Next]_vars
      BY PageStepIsManagerStep
<1> QED BY <1>1, <1>2, PTL DEF PageSpec, Spec

Row == [id : Nat, order : Int]

\* No service has two rows.
OneRowEach(table) ==
    \A m, n \in 1 .. Len(table) : table[m].id = table[n].id => m = n

LEMMA RowTypes ==
    ASSUME NEW table \in Seq(Row)
    PROVE  /\ Len(table) \in Nat /\ DOMAIN table = 1 .. Len(table)
           /\ \A n \in 1 .. Len(table) : /\ table[n] \in Row
                                         /\ table[n].id \in Nat /\ table[n].order \in Int
<1>1. Len(table) \in Nat /\ DOMAIN table = 1 .. Len(table)
      BY LenProperties
<1>2. \A n \in 1 .. Len(table) : table[n] \in Row
      BY ElementOfSeq
<1> QED BY <1>1, <1>2 DEF Row

LEMMA InsertAtProperties ==
    ASSUME NEW S, NEW list \in Seq(S), NEW i \in 1 .. Len(list) + 1, NEW x \in S
    PROVE  /\ InsertAt(list, i, x) \in Seq(S)
           /\ Len(InsertAt(list, i, x)) = Len(list) + 1
           /\ InsertAt(list, i, x)[i] = x
           /\ \A k \in 1 .. Len(list) + 1 :
                /\ k < i => InsertAt(list, i, x)[k] = list[k]
                /\ k > i => InsertAt(list, i, x)[k] = list[k - 1]
<1> DEFINE left == SubSeq(list, 1, i - 1)
           middle == left \o <<x>>
           right == SubSeq(list, i, Len(list))
<1>1. Len(list) \in Nat /\ \A k \in 1 .. Len(list) : list[k] \in S
      BY LenProperties, ElementOfSeq
<1>2. /\ left \in Seq(S) /\ Len(left) = i - 1
      /\ \A k \in 1 .. i - 1 : left[k] = list[k]
      BY <1>1, SubSeqProperties
<1>3. /\ right \in Seq(S) /\ Len(right) = Len(list) - i + 1
      /\ \A k \in 1 .. Len(list) - i + 1 : right[k] = list[i + k - 1]
  <2>1. \A k \in i .. Len(list) : list[k] \in S
        BY <1>1
  <2>2. i \in 1 .. Len(list) + 1 /\ Len(list) \in i - 1 .. Len(list)
        BY <1>1
  <2> QED BY <1>1, <2>1, <2>2, SubSeqProperties
<1> HIDE DEF left, right
<1>4. /\ <<x>> \in Seq(S) /\ Len(<<x>>) = 1 /\ <<x>>[1] = x
      OBVIOUS
<1>5. /\ middle \in Seq(S) /\ Len(middle) = i
      /\ \A k \in 1 .. i : middle[k] = IF k <= i - 1 THEN left[k] ELSE <<x>>[k - (i - 1)]
  <2>1. (i - 1) + 1 = i
        OBVIOUS
  <2>2. /\ middle \in Seq(S) /\ Len(middle) = Len(left) + Len(<<x>>)
        /\ \A k \in 1 .. Len(left) + Len(<<x>>) :
              middle[k] = IF k <= Len(left) THEN left[k] ELSE <<x>>[k - Len(left)]
        BY <1>2, <1>4, ConcatProperties
  <2> QED BY <1>2, <1>4, <2>1, <2>2
<1> HIDE DEF middle
<1>6. /\ \A k \in 1 .. i : k < i => middle[k] = list[k]
      /\ middle[i] = x
  <2>1. i - (i - 1) = 1 /\ ~(i <= i - 1) /\ i \in 1 .. i
        BY <1>1
  <2>2. \A k \in 1 .. i : k < i => k <= i - 1 /\ k \in 1 .. i - 1
        BY <1>1
  <2> QED BY <1>2, <1>4, <1>5, <2>1, <2>2
<1>7. /\ middle \o right \in Seq(S)
      /\ Len(middle \o right) = Len(list) + 1
      /\ \A k \in 1 .. Len(list) + 1 :
            (middle \o right)[k] = IF k <= i THEN middle[k] ELSE right[k - i]
  <2>1. Len(middle) + Len(right) = Len(list) + 1
        BY <1>1, <1>3, <1>5
  <2>2. /\ middle \o right \in Seq(S) /\ Len(middle \o right) = Len(middle) + Len(right)
        /\ \A k \in 1 .. Len(middle) + Len(right) :
              (middle \o right)[k] = IF k <= Len(middle) THEN middle[k] ELSE right[k - Len(middle)]
        BY <1>3, <1>5, ConcatProperties
  <2> QED BY <1>5, <2>1, <2>2
<1>8. (middle \o right)[i] = x
      BY <1>1, <1>6, <1>7
<1>9. ASSUME NEW k \in 1 .. Len(list) + 1
      PROVE  /\ k < i => (middle \o right)[k] = list[k]
             /\ k > i => (middle \o right)[k] = list[k - 1]
  <2>1. CASE k < i
    <3>1. k <= i /\ k \in 1 .. i /\ ~(k > i)
          BY <1>1, <2>1
    <3> QED BY <1>6, <1>7, <2>1, <3>1
  <2>2. CASE k > i
    <3>1. ~(k <= i) /\ k - i \in 1 .. Len(list) - i + 1 /\ i + (k - i) - 1 = k - 1 /\ ~(k < i)
          BY <1>1, <2>2
    <3> QED BY <1>3, <1>7, <2>2, <3>1
  <2>3. CASE k = i
        BY <2>3
  <2> QED BY <1>1, <2>1, <2>2, <2>3
<1> QED BY <1>7, <1>8, <1>9 DEF InsertAt, middle, left, right

\* geometricMove: the rows afterwards are the others, as they were, and the one
\* that has been moved.
LEMMA MoveDomProperties ==
    ASSUME NEW table \in Seq(Row), OneRowEach(table), NEW row \in Row, NEW target,
           NEW position, row.id # target,
           \E r \in 1 .. Len(table) : table[r].id = row.id,
           \E t \in 1 .. Len(table) : table[t].id = target
    PROVE  LET moved == MoveDom(table, row, target, position)
           IN  /\ moved \in Seq(Row)
               /\ OneRowEach(moved)
               /\ \A k \in 1 .. Len(moved) :
                    \/ moved[k] = row
                    \/ \E n \in 1 .. Len(table) : moved[k] = table[n] /\ table[n].id # row.id
<1> DEFINE R == {k \in 1 .. Len(table) : table[k].id = row.id}
           others == RemoveFirstMatch(table, LAMBDA r : r.id = row.id)
           size == Len(table) - 1
<1>1. Len(table) \in Nat
      BY RowTypes
<1>2. PICK r \in 1 .. Len(table) : table[r].id = row.id
      OBVIOUS
<1>3. PICK t \in 1 .. Len(table) : table[t].id = target
      OBVIOUS
<1>4. R = {r}
      BY <1>2 DEF OneRowEach
<1>5. Min(R) = r
  <2>1. r \in R /\ R \in SUBSET (1 .. Len(table))
        BY <1>4
  <2>2. Min(R) \in R
        BY <1>1, <2>1, FirstMatch
  <2> QED BY <1>4, <2>2
<1>6. others = RemoveAt(table, r)
  <2>1. SelectInSeq(table, LAMBDA x : x.id = row.id) = r
        BY <1>4, <1>5 DEF SelectInSeq
  <2> QED BY <1>2, <2>1 DEF RemoveFirstMatch
<1> HIDE DEF others
<1>7. /\ others \in Seq(Row) /\ Len(others) = size /\ size \in Nat
      /\ \A k \in 1 .. size : others[k] = IF k < r THEN table[k] ELSE table[k + 1]
  <2>1. size \in Nat
        BY <1>1, <1>2
  <2> QED BY <2>1, <1>6, RemoveAtProperties
<1> DEFINE from(k) == IF k < r THEN k ELSE k + 1
<1>8. ASSUME NEW k \in 1 .. size
      PROVE  /\ from(k) \in 1 .. Len(table) /\ from(k) # r
             /\ others[k] = table[from(k)] /\ table[from(k)].id # row.id
  <2>1. from(k) \in 1 .. Len(table) /\ from(k) # r
        BY <1>1, <1>2
  <2>2. others[k] = table[from(k)]
        BY <1>7
  <2>3. table[from(k)].id # row.id
        BY <1>2, <2>1 DEF OneRowEach
  <2> QED BY <2>1, <2>2, <2>3
<1>9. ASSUME NEW j \in 1 .. size, NEW k \in 1 .. size, others[j].id = others[k].id
      PROVE  j = k
  <2>1. from(j) = from(k)
        BY <1>8, <1>9 DEF OneRowEach
  <2> QED BY <1>1, <2>1
<1> DEFINE T == {k \in 1 .. size : others[k].id = target}
           at == SelectInSeq(others, LAMBDA x : x.id = target)
           place == IF position = "before" THEN at ELSE at + 1
           moved == InsertAt(others, place, row)
<1>10. t # r
       BY <1>2, <1>3
<1>11. T # {}
  <2> DEFINE k == IF t < r THEN t ELSE t - 1
  <2>1. k \in 1 .. size /\ from(k) = t
        BY <1>1, <1>2, <1>3, <1>10
  <2>2. others[k].id = target
        BY <1>3, <1>8, <2>1
  <2> HIDE DEF k
  <2>3. k \in T
        BY <2>1, <2>2
  <2> QED BY <2>3
<1>12. Min(T) \in T
       BY <1>7, <1>11, FirstMatch
<1>13. at = Min(T)
       BY <1>7, <1>11 DEF SelectInSeq
<1> HIDE DEF at, from
<1>14. place \in 1 .. size + 1
       BY <1>7, <1>12, <1>13
<1> HIDE DEF T, place
<1>15. /\ moved \in Seq(Row) /\ Len(moved) = size + 1
       /\ moved[place] = row
       /\ \A k \in 1 .. size + 1 : /\ k < place => moved[k] = others[k]
                                   /\ k > place => moved[k] = others[k - 1]
       BY <1>7, <1>14, InsertAtProperties
<1> HIDE DEF moved
<1> DEFINE back(k) == IF k < place THEN k ELSE k - 1
<1>16. ASSUME NEW k \in 1 .. size + 1, k # place
       PROVE  back(k) \in 1 .. size /\ moved[k] = others[back(k)]
  <2>1. CASE k < place
        BY <1>7, <1>14, <1>15, <2>1
  <2>2. CASE ~(k < place)
    <3>1. k > place /\ k - 1 \in 1 .. size
          BY <1>7, <1>14, <1>16, <2>2
    <3> QED BY <1>15, <2>2, <3>1
  <2> QED BY <2>1, <2>2
<1>17. ASSUME NEW k \in 1 .. size + 1, k # place
       PROVE  /\ moved[k].id # row.id
              /\ \E n \in 1 .. Len(table) : moved[k] = table[n] /\ table[n].id # row.id
       BY <1>8, <1>16, <1>17
<1>18. ASSUME NEW j \in 1 .. size + 1, NEW k \in 1 .. size + 1, moved[j].id = moved[k].id
       PROVE  j = k
  <2>1. CASE j = place
        BY <1>15, <1>17, <1>18, <2>1
  <2>2. CASE k = place
        BY <1>15, <1>17, <1>18, <2>2
  <2>3. CASE j # place /\ k # place
    <3>1. back(j) = back(k)
      <4>1. PICK x \in 1 .. size : x = back(j) /\ moved[j] = others[x]
            BY <1>16, <2>3
      <4>2. PICK y \in 1 .. size : y = back(k) /\ moved[k] = others[y]
            BY <1>16, <2>3
      <4>3. x = y
            BY <1>9, <1>18, <4>1, <4>2
      <4> QED BY <4>1, <4>2, <4>3
    <3>2. j \in Int /\ k \in Int /\ place \in Int
          BY <1>7, <1>14
    <3>3. j < place <=> k < place
          BY <2>3, <3>1, <3>2
    <3> QED BY <3>1, <3>2, <3>3
  <2> QED BY <2>1, <2>2, <2>3
<1>19. moved = MoveDom(table, row, target, position)
       BY DEF MoveDom, moved, place, at, others
<1>20. \A k \in 1 .. size + 1 :
          \/ moved[k] = row
          \/ \E n \in 1 .. Len(table) : moved[k] = table[n] /\ table[n].id # row.id
       BY <1>15, <1>17
<1>21. OneRowEach(moved)
       BY <1>15, <1>18 DEF OneRowEach
<1> QED BY <1>15, <1>19, <1>20, <1>21

\* How many services are evaluated before one: its place in the table.
Sooner(i) == {j \in AllServices : Before(services[j], services[i])}

LEMMA BeforeIsOrder ==
    ASSUME ManagerInv
    PROVE  /\ \A i, j \in AllServices :
                i = j \/ Before(services[i], services[j]) \/ Before(services[j], services[i])
           /\ \A i \in AllServices : ~Before(services[i], services[i])
           /\ \A i, j, k \in AllServices :
                Before(services[i], services[j]) /\ Before(services[j], services[k])
                    => Before(services[i], services[k])
<1>1. \A i \in AllServices : /\ i \in DOMAIN services /\ i \in Nat
                             /\ services[i].order \in Int
                             /\ Name[services[i].text] \in Nat
      BY ServedTypes DEF AllServices
<1>2. \A i, j \in AllServices :
          i = j \/ Before(services[i], services[j]) \/ Before(services[j], services[i])
  <2> TAKE i, j \in AllServices
  <2>1. ASSUME ~Before(services[i], services[j]), ~Before(services[j], services[i])
        PROVE  Place[i] <= Place[j] /\ Place[j] <= Place[i]
        BY <1>1, <2>1 DEF AllServices
  <2> QED BY <1>1, <2>1, ServedPlaces
<1>3. \A i \in AllServices : ~Before(services[i], services[i])
      BY <1>1 DEF Before
<1>4. \A i, j, k \in AllServices :
          Before(services[i], services[j]) /\ Before(services[j], services[k])
              => Before(services[i], services[k])
      BY <1>1 DEF Before
<1> QED BY <1>2, <1>3, <1>4

LEMMA AllServicesFinite ==
    ASSUME ManagerInv
    PROVE  IsFiniteSet(AllServices) /\ Cardinality(AllServices) \in Nat
<1>1. AllServices \in SUBSET Nat /\ \A i \in AllServices : i <= IdBound
      BY BoundType DEF AllServices, ManagerInv, IdInv, Within
<1>2. IdBound \in Nat
      BY BoundType
<1> QED BY <1>1, <1>2, FS_BoundedSetOfNaturals, FS_CardinalityType

\* A service that is evaluated before another comes sooner in the table.
LEMMA SoonerRank ==
    ASSUME ManagerInv, NEW i \in AllServices, NEW j \in AllServices,
           Before(services[i], services[j])
    PROVE  Cardinality(Sooner(i)) < Cardinality(Sooner(j))
<1>1. Sooner(i) \in SUBSET Sooner(j)
      BY BeforeIsOrder DEF Sooner
<1>2. i \in Sooner(j) /\ i \notin Sooner(i)
      BY BeforeIsOrder DEF Sooner
<1>3. IsFiniteSet(Sooner(j))
  <2>1. Sooner(j) \in SUBSET AllServices
        BY DEF Sooner
  <2> QED BY <2>1, AllServicesFinite, FS_Subset
<1>4. /\ IsFiniteSet(Sooner(i)) /\ Cardinality(Sooner(i)) <= Cardinality(Sooner(j))
      /\ Cardinality(Sooner(j)) = Cardinality(Sooner(i)) => Sooner(j) = Sooner(i)
      BY <1>1, <1>3, FS_Subset
<1>5. Cardinality(Sooner(j)) # Cardinality(Sooner(i))
      BY <1>2, <1>4
<1>6. Cardinality(Sooner(i)) \in Nat /\ Cardinality(Sooner(j)) \in Nat
      BY <1>3, <1>4, FS_CardinalityType
<1> QED BY <1>4, <1>5, <1>6

LEMMA SameRank ==
    ASSUME ManagerInv, NEW i \in AllServices, NEW j \in AllServices,
           Cardinality(Sooner(i)) = Cardinality(Sooner(j))
    PROVE  i = j
<1>1. ASSUME NEW k \in AllServices PROVE Cardinality(Sooner(k)) \in Nat
  <2>1. Sooner(k) \in SUBSET AllServices
        BY DEF Sooner
  <2> QED BY <2>1, AllServicesFinite, FS_Subset, FS_CardinalityType
<1>2. ~Before(services[i], services[j]) /\ ~Before(services[j], services[i])
  <2>1. ~(Cardinality(Sooner(i)) < Cardinality(Sooner(j)))
        BY <1>1
  <2>2. ~(Cardinality(Sooner(j)) < Cardinality(Sooner(i)))
        BY <1>1
  <2> QED BY <2>1, <2>2, SoonerRank
<1> QED BY <1>2, BeforeIsOrder

\* Every place of the table is the place of exactly one service.
LEMMA EveryPlaceIsTaken ==
    ASSUME ManagerInv, NEW n \in 1 .. Cardinality(AllServices)
    PROVE  \E i \in AllServices : Cardinality(Sooner(i)) = n - 1
<1> DEFINE A == AllServices
           N == Cardinality(A)
           f == [i \in A |-> Cardinality(Sooner(i))]
<1>1. IsFiniteSet(A) /\ N \in Nat
      BY AllServicesFinite
<1>2. ASSUME NEW i \in A
      PROVE  /\ IsFiniteSet(Sooner(i)) /\ Cardinality(Sooner(i)) \in 0 .. N - 1
  <2>1. Sooner(i) \in SUBSET (A \ {i})
        BY BeforeIsOrder DEF Sooner
  <2>2. IsFiniteSet(A \ {i}) /\ Cardinality(A \ {i}) = N - 1
        BY <1>1, FS_RemoveElement
  <2>3. IsFiniteSet(Sooner(i)) /\ Cardinality(Sooner(i)) <= N - 1
        BY <2>1, <2>2, FS_Subset
  <2>4. Cardinality(Sooner(i)) \in Nat
        BY <2>3, FS_CardinalityType
  <2> QED BY <1>1, <2>3, <2>4
<1>3. \A i, j \in A : i # j => f[i] # f[j]
      BY SameRank
<1>4. SUFFICES ASSUME \A i \in A : f[i] # n - 1
               PROVE  FALSE
      OBVIOUS
<1> DEFINE places == (0 .. N - 1) \ {n - 1}
<1>5. IsFiniteSet(places) /\ Cardinality(places) = N - 1
  <2>1. IsFiniteSet(0 .. N - 1) /\ Cardinality(0 .. N - 1) = N
    <3>1. 0 \in Int /\ N - 1 \in Int /\ N \in Nat /\ N # 0
          BY <1>1
    <3>2. /\ IsFiniteSet(0 .. N - 1)
          /\ Cardinality(0 .. N - 1) = IF 0 > N - 1 THEN 0 ELSE (N - 1) - 0 + 1
          BY <3>1, FS_Interval
    <3> QED BY <3>1, <3>2
  <2>2. n - 1 \in 0 .. N - 1
        BY <1>1
  <2> QED BY <2>1, <2>2, FS_RemoveElement
<1>6. f \in [A -> places]
      BY <1>2, <1>4
<1> HIDE DEF f, places
<1>7. Cardinality(places) < Cardinality(A)
      BY <1>1, <1>5
<1>8. PICK i, j \in A : i # j /\ f[i] = f[j]
      BY <1>1, <1>5, <1>6, <1>7, FS_PigeonHole
<1> QED BY <1>3, <1>8

LEMMA TableProperties ==
    ASSUME ManagerInv
    PROVE  /\ Table \in Seq(Row) /\ OneRowEach(Table)
           /\ \A n \in 1 .. Len(Table) : /\ Table[n].id \in DOMAIN services
                                         /\ Table[n].order = services[Table[n].id].order
<1> DEFINE N == Cardinality(AllServices)
           at(n) == CHOOSE i \in AllServices : Cardinality(Sooner(i)) = n - 1
<1>1. N \in Nat
      BY AllServicesFinite
<1>2. Table = [n \in 1 .. N |-> [id |-> at(n), order |-> services[at(n)].order]]
      BY DEF Table, Sooner
<1>3. ASSUME NEW n \in 1 .. N
      PROVE  at(n) \in AllServices /\ Cardinality(Sooner(at(n))) = n - 1
      BY EveryPlaceIsTaken
<1> HIDE DEF at
<1>4. ASSUME NEW n \in 1 .. N
      PROVE  /\ at(n) \in DOMAIN services /\ at(n) \in Nat /\ services[at(n)].order \in Int
             /\ Table[n] \in Row
             /\ Table[n].id = at(n) /\ Table[n].order = services[at(n)].order
  <2>1. at(n) \in DOMAIN services
        BY <1>3 DEF AllServices
  <2>2. at(n) \in Nat /\ services[at(n)].order \in Int
        BY <2>1, ServedTypes
  <2>3. Table[n] = [id |-> at(n), order |-> services[at(n)].order]
        BY <1>2
  <2> QED BY <2>1, <2>2, <2>3 DEF Row
<1>5. Table \in Seq(Row) /\ Len(Table) = N
  <2>1. Table \in [1 .. N -> Row]
        BY <1>2, <1>4
  <2> QED BY <1>1, <2>1
<1>6. \A m, n \in 1 .. N : at(m) = at(n) => m = n
      BY <1>3
<1> QED BY <1>4, <1>5, <1>6 DEF OneRowEach

\* The table has a row for each service a lookup iterates over, in that order.
TableInOrder ==
    /\ {Table[n].id : n \in 1 .. Len(Table)} = AllServices
    /\ \A m, n \in 1 .. Len(Table) :
          m < n => Before(services[Table[m].id], services[Table[n].id])

LEMMA TableOrder == ASSUME ManagerInv PROVE TableInOrder
<1> DEFINE N == Cardinality(AllServices)
           at(n) == CHOOSE i \in AllServices : Cardinality(Sooner(i)) = n - 1
<1>1. N \in Nat /\ IsFiniteSet(AllServices)
      BY AllServicesFinite
<1>2. Table = [n \in 1 .. N |-> [id |-> at(n), order |-> services[at(n)].order]]
      BY DEF Table, Sooner
<1>3. ASSUME NEW n \in 1 .. N
      PROVE  at(n) \in AllServices /\ Cardinality(Sooner(at(n))) = n - 1
      BY EveryPlaceIsTaken
<1> HIDE DEF at
<1>4. Len(Table) = N /\ \A n \in 1 .. N : Table[n].id = at(n)
      BY <1>1, <1>2
<1>5. ASSUME NEW i \in AllServices
      PROVE  \E n \in 1 .. N : at(n) = i
  <2> DEFINE c == Cardinality(Sooner(i))
  <2>1. c \in 0 .. N - 1
    <3>1. Sooner(i) \in SUBSET (AllServices \ {i})
          BY BeforeIsOrder DEF Sooner
    <3>2. IsFiniteSet(AllServices \ {i}) /\ Cardinality(AllServices \ {i}) = N - 1
          BY <1>1, FS_RemoveElement
    <3>3. IsFiniteSet(Sooner(i)) /\ c <= N - 1
          BY <3>1, <3>2, FS_Subset
    <3>4. c \in Nat
          BY <3>3, FS_CardinalityType
    <3> QED BY <1>1, <3>3, <3>4
  <2>2. PICK n \in 1 .. N : n = c + 1
        BY <1>1, <2>1
  <2>3. at(n) \in AllServices /\ Cardinality(Sooner(at(n))) = c
        BY <1>3, <2>1, <2>2
  <2>4. at(n) = i
        BY <2>3, SameRank
  <2> QED BY <2>4
<1>6. ASSUME NEW m \in 1 .. N, NEW n \in 1 .. N, m < n
      PROVE  Before(services[at(m)], services[at(n)])
  <2>1. /\ at(m) \in AllServices /\ at(n) \in AllServices
        /\ Cardinality(Sooner(at(m))) = m - 1 /\ Cardinality(Sooner(at(n))) = n - 1
        BY <1>3
  <2>2. ~Before(services[at(n)], services[at(m)])
    <3> SUFFICES ASSUME Before(services[at(n)], services[at(m)]) PROVE FALSE
        OBVIOUS
    <3>1. Cardinality(Sooner(at(n))) < Cardinality(Sooner(at(m)))
          BY <2>1, SoonerRank
    <3> QED BY <1>1, <1>6, <2>1, <3>1
  <2>3. at(m) # at(n)
        BY <1>1, <1>6, <2>1
  <2> QED BY <2>1, <2>2, <2>3, BeforeIsOrder
<1>7. {Table[n].id : n \in 1 .. Len(Table)} = AllServices
      BY <1>3, <1>4, <1>5
<1>8. \A m, n \in 1 .. Len(Table) :
          m < n => Before(services[Table[m].id], services[Table[n].id])
      BY <1>4, <1>6
<1> QED BY <1>7, <1>8 DEF TableInOrder

\* The page lists the services a lookup goes through, all of them, and in the
\* order the lookup tries them: of two rows the upper one's service is asked first.
THEOREM PageListsAllInOrder == Spec => []TableInOrder
BY ManagerInvariant, TableOrder, PTL

\* A row shows the order its service is evaluated by, or is known to be stale.
Agrees(row) ==
    row.id \notin stale => row.id \in DOMAIN services /\ row.order = services[row.id].order

\* The order a move posts is next to the one its target shows.
NextTo(row) == move.order = IF move.position = "before" THEN row.order - 1 ELSE row.order + 1

\* Between the post of a move and its answer only the row that is moved may show
\* something else; the save on its way, or what it has put, says what the row will.
PostedInv ==
    /\ move.id \in Nat /\ move.target \in Nat /\ move.order \in Int
    /\ move.id # move.target
    /\ \E n \in 1 .. Len(rows) : rows[n].id = move.id
    /\ \E n \in 1 .. Len(rows) : rows[n].id = move.target /\ NextTo(rows[n])
    /\ \A n \in 1 .. Len(rows) : rows[n].id # move.id => Agrees(rows[n])
    /\ pc[Tab] # "idle" => /\ pc[Tab] \in {"save", "add", "put"}
                           /\ entry[Tab].id = move.id
                           /\ entry[Tab].content.order = move.order
    /\ pc[Tab] = "idle" => Agrees([id |-> move.id, order |-> move.order])

PageInv ==
    /\ rows \in Seq(Row) /\ OneRowEach(rows)
    /\ ppc \in {"shown", "posted", "deleting"}
    /\ stale \subseteq Nat
    /\ ppc # "posted" => move = NoMove
    /\ ppc = "shown" => \A n \in 1 .. Len(rows) : Agrees(rows[n])
    /\ ppc = "posted" => PostedInv

LEMMA TableShown ==
    ASSUME ManagerInv, rows' = Table, UNCHANGED vars
    PROVE  /\ rows' \in Seq(Row) /\ OneRowEach(rows')
           /\ \A n \in 1 .. Len(rows') : Agrees(rows[n])'
<1>1. services' = services
      BY DEF vars
<1>2. \A n \in 1 .. Len(rows') : /\ rows'[n].id \in DOMAIN services'
                                 /\ rows'[n].order = services'[rows'[n].id].order
      BY <1>1, TableProperties
<1> QED BY <1>2, TableProperties DEF Agrees

LEMMA PageInitially ==
    ASSUME PageInit
    PROVE  PageInv
<1>1. ManagerInv
      BY ManagerInit DEF PageInit
<1>2. rows = Table /\ ppc = "shown" /\ move = NoMove /\ stale = {}
      BY DEF PageInit
<1> QED BY <1>1, <1>2, TableProperties DEF PageInv, Agrees

LEMMA ListStep ==
    ASSUME ManagerInv, PageInv, Manage \/ Deleted
    PROVE  PageInv'
<1>1. rows' = Table /\ UNCHANGED vars /\ stale' = {} /\ ppc' = "shown" /\ move' = move
      BY DEF Manage, Deleted
<1>2. move = NoMove
      BY DEF PageInv, Manage, Deleted
<1> QED BY <1>1, <1>2, TableShown DEF PageInv

LEMMA MoveStep ==
    ASSUME ManagerInv, PageInv, Move
    PROVE  PageInv'
<1>0. PICK m, n \in DOMAIN rows, position \in {"before", "after"} : \E k :
          /\ k = EvalOrder(rows[m], rows[n], position)
          /\ m # n /\ k \in EvaluationOrder
          /\ UpdateEvaluationOrder(Tab, rows[m].id, k)
          /\ move' = [id |-> rows[m].id, target |-> rows[n].id,
                      position |-> position, order |-> k]
      BY DEF Move
<1>1. PICK k :
          /\ k = EvalOrder(rows[m], rows[n], position)
          /\ m # n /\ k \in EvaluationOrder
          /\ UpdateEvaluationOrder(Tab, rows[m].id, k)
          /\ move' = [id |-> rows[m].id, target |-> rows[n].id,
                      position |-> position, order |-> k]
      BY <1>0
<1> PICK c : c = [services[rows[m].id] EXCEPT !.order = k]
    OBVIOUS
<1>2. ppc = "shown" /\ ppc' = "posted" /\ UNCHANGED <<rows, stale>>
      BY DEF Move
<1>3. /\ m \in 1 .. Len(rows) /\ n \in 1 .. Len(rows)
      /\ rows[m].id \in Nat /\ rows[n].id \in Nat /\ rows[m].id # rows[n].id
      /\ k \in Int
      BY <1>1, RowTypes, ServicesAssumption DEF PageInv, OneRowEach
<1>4. /\ services' = services /\ pc'[Tab] = "save"
      /\ entry'[Tab] = [id |-> rows[m].id, content |-> c]
      /\ rows[m].id \in DOMAIN services
      BY <1>1, TabAssumption DEF UpdateEvaluationOrder, ManagerInv, ManagerTypes
<1>5. c.order = k
  <2>1. services[rows[m].id] \in Content
        BY <1>4, ServedTypes
  <2> QED BY <2>1 DEF Content
<1>6. NextTo(rows[n])'
      BY <1>1, <1>2 DEF NextTo, EvalOrder
<1>7. \A j \in 1 .. Len(rows') : Agrees(rows[j])'
      BY <1>2, <1>4 DEF PageInv, Agrees
<1>8. PostedInv'
  <2>1. /\ move'.id = rows[m].id /\ move'.target = rows[n].id /\ move'.order = k
        BY <1>1
  <2>2. \E j \in 1 .. Len(rows') : rows'[j].id = move'.target /\ NextTo(rows[j])'
        BY <1>2, <1>3, <1>6, <2>1
  <2>3. \E j \in 1 .. Len(rows') : rows'[j].id = move'.id
        BY <1>2, <1>3, <2>1
  <2>4. /\ pc'[Tab] # "idle" /\ pc'[Tab] \in {"save", "add", "put"}
        /\ entry'[Tab].id = move'.id /\ entry'[Tab].content.order = move'.order
    <3>1. entry'[Tab].id = rows[m].id /\ entry'[Tab].content = c
          BY <1>4
    <3> QED BY <1>4, <1>5, <2>1, <3>1
  <2>5. move'.id \in Nat /\ move'.target \in Nat /\ move'.order \in Int /\ move'.id # move'.target
        BY <1>3, <2>1
  <2> QED BY <1>7, <2>2, <2>3, <2>4, <2>5 DEF PostedInv
<1> QED BY <1>2, <1>8 DEF PageInv

LEMMA MovedStep ==
    ASSUME ManagerInv, PageInv, Moved
    PROVE  PageInv'
<1> PICK row : row = [id |-> move.id, order |-> move.order]
    OBVIOUS
<1>1. /\ ppc = "posted" /\ pc[Tab] = "idle" /\ ppc' = "shown" /\ move' = NoMove
      /\ rows' = MoveDom(rows, row, move.target, move.position)
      /\ UNCHANGED <<services, stale>>
      BY DEF Moved, vars
<1>2. PostedInv /\ rows \in Seq(Row) /\ OneRowEach(rows) /\ stale \subseteq Nat
      BY <1>1 DEF PageInv
<1>3. /\ row \in Row /\ row.id # move.target
      /\ \E r \in 1 .. Len(rows) : rows[r].id = row.id
      /\ \E t \in 1 .. Len(rows) : rows[t].id = move.target
      BY <1>2 DEF PostedInv, Row
<1>4. /\ rows' \in Seq(Row) /\ OneRowEach(rows')
      /\ \A k \in 1 .. Len(rows') :
            \/ rows'[k] = row
            \/ \E n \in 1 .. Len(rows) : rows'[k] = rows[n] /\ rows[n].id # row.id
      BY <1>1, <1>2, <1>3, MoveDomProperties
<1>5. Agrees(row) /\ \A n \in 1 .. Len(rows) : rows[n].id # row.id => Agrees(rows[n])
      BY <1>1, <1>2 DEF PostedInv
<1>6. ASSUME NEW k \in 1 .. Len(rows')
      PROVE  Agrees(rows[k])'
  <2> PICK shown : shown = rows'[k]
      OBVIOUS
  <2>1. Agrees(shown)
        BY <1>4, <1>5
  <2> QED BY <1>1, <2>1 DEF Agrees
<1> QED BY <1>1, <1>2, <1>4, <1>6 DEF PageInv

LEMMA MoveFailedStep ==
    ASSUME ManagerInv, PageInv, MoveFailed
    PROVE  PageInv'
<1>1. /\ ppc = "posted" /\ ppc' = "shown" /\ move' = NoMove
      /\ stale' = stale \cup {move.id} /\ UNCHANGED <<services, rows>>
      BY DEF MoveFailed, vars
<1>2. PostedInv /\ rows \in Seq(Row) /\ OneRowEach(rows) /\ stale \subseteq Nat
      BY <1>1 DEF PageInv
<1>3. \A n \in 1 .. Len(rows) : Agrees(rows[n])'
      BY <1>1, <1>2 DEF PostedInv, Agrees
<1>4. stale' \subseteq Nat
      BY <1>1, <1>2 DEF PostedInv
<1> QED BY <1>1, <1>2, <1>3, <1>4 DEF PageInv

LEMMA OtherStep ==
    ASSUME ManagerInv, PageInv, SwapButtonsForConfirm \/ ResetOldValue
    PROVE  PageInv'
<1>1. /\ UNCHANGED <<services, rows, ppc, move, stale>> /\ ppc = "shown"
      BY DEF SwapButtonsForConfirm, ResetOldValue, vars
<1> QED BY <1>1 DEF PageInv, Agrees

LEMMA YesStep ==
    ASSUME ManagerInv, PageInv, Yes
    PROVE  PageInv'
<1>1. UNCHANGED <<rows, move, stale>> /\ ppc = "shown" /\ ppc' = "deleting"
      BY DEF Yes
<1> QED BY <1>1 DEF PageInv

\* What the services manager changes under the page is noted as stale.
LEMMA ManagerNoted ==
    ASSUME ManagerInv, ManagerInv', Manager, stale \subseteq Nat,
           NEW row, Agrees(row), ~(row.id = move.id /\ pc[Tab] # "idle")
    PROVE  Agrees(row)'
<1>1. stale' = stale \cup
                    {i \in DOMAIN services \cup DOMAIN services' :
                        /\ ~(i = move.id /\ pc[Tab] # "idle")
                        /\ ~(/\ i \in DOMAIN services \cap DOMAIN services'
                             /\ services'[i] = services[i])}
      BY DEF Manager
<1>2. SUFFICES ASSUME row.id \notin stale'
               PROVE  row.id \in DOMAIN services' /\ row.order = services'[row.id].order
      BY DEF Agrees
<1>3. row.id \in DOMAIN services /\ row.order = services[row.id].order
      BY <1>1, <1>2 DEF Agrees
<1>4. row.id \in DOMAIN services' /\ services'[row.id] = services[row.id]
      BY <1>1, <1>2, <1>3
<1> QED BY <1>3, <1>4

\* While a move is posted the request of the tab is the move's.
LEMMA TabAtWork ==
    ASSUME ManagerInv, Manager, ppc = "posted", pc[Tab] \in {"idle", "save", "add", "put"}
    PROVE  \/ pc'[Tab] = pc[Tab] /\ entry'[Tab] = entry[Tab]
           \/ SaveRemove(Tab) \/ SaveAdd(Tab) \/ SavePut(Tab)
<1>1. ASSUME Reload PROVE pc'[Tab] = pc[Tab] /\ entry'[Tab] = entry[Tab]
      BY <1>1 DEF Reload, LoadStart, LoadNext, LoadEnd, LoadSwap, request
<1>2. ASSUME NEW a \in Admin, a # Tab,
             Submit(a) \/ Proceed(a) \/ \E i \in DOMAIN services : Delete(a, i)
      PROVE  pc'[Tab] = pc[Tab] /\ entry'[Tab] = entry[Tab]
  <2>1. \E label, e : pc' = [pc EXCEPT ![a] = label] /\ entry' = [entry EXCEPT ![a] = e]
    <3>1. CASE Submit(a)
          BY <3>1 DEF Submit
    <3>2. CASE SaveRemove(a)
      <4>1. /\ pc' = [pc EXCEPT ![a] = "add"]
            /\ \E id : entry' = [entry EXCEPT ![a] = [entry[a] EXCEPT !.id = id]]
            BY <3>2 DEF SaveRemove
      <4> QED BY <4>1
    <3>3. CASE SaveAdd(a)
      <4>1. entry' = [entry EXCEPT ![a] = entry[a]] /\ pc' = [pc EXCEPT ![a] = "put"]
            BY <3>3 DEF SaveAdd, ManagerInv, ManagerTypes
      <4> QED BY <4>1
    <3>4. CASE SavePut(a) \/ DeleteRemove(a)
          BY <3>4 DEF SavePut, DeleteRemove
    <3>5. CASE \E i \in DOMAIN services : Delete(a, i)
          BY <3>5 DEF Delete
    <3> QED BY <1>2, <3>1, <3>2, <3>3, <3>4, <3>5 DEF Proceed
  <2> QED BY <1>2, <2>1, TabAssumption DEF ManagerInv, ManagerTypes
<1>3. ~DeleteRemove(Tab)
      BY DEF DeleteRemove
<1> QED BY <1>1, <1>2, <1>3 DEF Manager, Proceed

LEMMA PostedStep ==
    ASSUME ManagerInv, ManagerInv', PageInv, Manager, ppc = "posted"
    PROVE  PostedInv'
<1>1. /\ PostedInv /\ stale \subseteq Nat /\ UNCHANGED <<rows, move, ppc>>
      /\ rows \in Seq(Row) /\ Tab \in Admin
      BY TabAssumption DEF PageInv, Manager, page
<1>2. \A n \in 1 .. Len(rows) : rows[n].id # move.id => Agrees(rows[n])'
      BY <1>1, ManagerNoted DEF PostedInv
<1>3. \E n \in 1 .. Len(rows) : rows[n].id = move.target /\ NextTo(rows[n])'
      BY <1>1 DEF PostedInv, NextTo
<1>4. /\ pc'[Tab] # "idle" => /\ pc'[Tab] \in {"save", "add", "put"}
                              /\ entry'[Tab].id = move.id
                              /\ entry'[Tab].content.order = move.order
      /\ pc'[Tab] = "idle" => Agrees([id |-> move.id, order |-> move.order])'
  <2> PICK row : row = [id |-> move.id, order |-> move.order]
      OBVIOUS
  <2>1. CASE pc'[Tab] = pc[Tab] /\ entry'[Tab] = entry[Tab]
    <3>1. pc[Tab] = "idle" => Agrees(row)'
      <4> SUFFICES ASSUME pc[Tab] = "idle" PROVE Agrees(row)'
          OBVIOUS
      <4>1. Agrees(row)
            BY <1>1 DEF PostedInv
      <4> QED BY <1>1, <4>1, ManagerNoted
    <3> QED BY <1>1, <2>1, <3>1 DEF PostedInv
  <2>2. CASE SaveRemove(Tab)
    <3> PICK e : e = entry[Tab]
        OBVIOUS
    <3>1. /\ pc[Tab] = "save" /\ pc'[Tab] = "add"
          /\ e \in [id : Nat \cup {NewId}, content : Content]
          /\ entry'[Tab] = [e EXCEPT !.id = IF e.id = NewId THEN HighestId(store) + 1 ELSE e.id]
          BY <1>1, <2>2 DEF SaveRemove, ManagerInv, ManagerTypes
    <3>2. e.id = move.id /\ e.content.order = move.order /\ move.id \in Nat
          BY <1>1, <3>1 DEF PostedInv
    <3>3. e.id # NewId
          BY <3>2 DEF NewId
    <3>4. entry'[Tab].id = e.id /\ entry'[Tab].content = e.content
          BY <3>1, <3>3
    <3> QED BY <3>1, <3>2, <3>4
  <2>3. CASE SaveAdd(Tab)
    <3>1. /\ pc[Tab] = "add" /\ pc'[Tab] = "put" /\ entry'[Tab] = entry[Tab]
          BY <1>1, <2>3 DEF SaveAdd, ManagerInv, ManagerTypes
    <3> QED BY <1>1, <3>1 DEF PostedInv
  <2>4. CASE SavePut(Tab)
    <3>1. /\ pc[Tab] = "put" /\ pc'[Tab] = "idle"
          /\ services' = Put(services, entry[Tab].id, entry[Tab].content)
          BY <1>1, <2>4 DEF SavePut, ManagerInv, ManagerTypes
    <3>2. entry[Tab].id = move.id /\ entry[Tab].content.order = move.order
          BY <1>1, <3>1 DEF PostedInv
    <3>3. move.id \in DOMAIN services' /\ services'[move.id].order = move.order
          BY <3>1, <3>2 DEF Put
    <3>4. Agrees(row)'
          BY <3>3 DEF Agrees
    <3> QED BY <1>1, <3>1, <3>4
  <2> QED BY <1>1, <2>1, <2>2, <2>3, <2>4, TabAtWork DEF PostedInv
<1> QED BY <1>1, <1>2, <1>3, <1>4 DEF PostedInv

LEMMA ManagerUnderPage ==
    ASSUME ManagerInv, ManagerInv', PageInv, Manager
    PROVE  PageInv'
<1>1. UNCHANGED <<rows, ppc, move>> /\ stale \subseteq Nat /\ rows \in Seq(Row)
      BY DEF PageInv, Manager, page
<1>2. stale' \subseteq Nat
  <2>1. DOMAIN services \subseteq Nat /\ DOMAIN services' \subseteq Nat
    <3>1. ManagerInv => DOMAIN services \subseteq Nat
          BY ServedTypes
    <3>2. ManagerInv' => DOMAIN services' \subseteq Nat
          BY <3>1, BoundType DEF ManagerInv, IdInv, Within
    <3> QED BY <3>1, <3>2
  <2> QED BY <1>1, <2>1 DEF Manager
<1>3. ppc = "shown" => \A n \in 1 .. Len(rows) : Agrees(rows[n])'
  <2> SUFFICES ASSUME ppc = "shown", NEW n \in 1 .. Len(rows) PROVE Agrees(rows[n])'
      OBVIOUS
  <2> PICK row : row = rows[n]
      OBVIOUS
  <2>1. Agrees(row) /\ move = NoMove
        BY DEF PageInv
  <2>2. row.id \in Nat
        BY <1>1, RowTypes
  <2>3. row.id # move.id
        BY <2>1, <2>2 DEF NoMove, NewId
  <2>4. Agrees(row)'
        BY <1>1, <2>1, <2>3, ManagerNoted
  <2> QED BY <1>1, <2>4
<1>4. ppc = "posted" => PostedInv'
      BY PostedStep
<1> QED BY <1>1, <1>2, <1>3, <1>4 DEF PageInv

LEMMA PageInvariant == PageSpec => [](ManagerInv /\ PageInv)
<1>1. PageInit => ManagerInv /\ PageInv
      BY PageInitially, ManagerInit DEF PageInit
<1>2. ManagerInv /\ PageInv /\ [PageNext]_pageVars => (ManagerInv /\ PageInv)'
  <2> SUFFICES ASSUME ManagerInv, PageInv, [PageNext]_pageVars
               PROVE  ManagerInv' /\ PageInv'
      OBVIOUS
  <2>1. ManagerInv'
        BY PageStepIsManagerStep, ManagerStep
  <2>2. CASE UNCHANGED pageVars
    <3>1. UNCHANGED <<services, pc, entry, rows, ppc, move, stale>>
          BY <2>2 DEF pageVars, vars, request, page
    <3>2. \A n \in 1 .. Len(rows) : Agrees(rows[n]) => Agrees(rows[n])'
          BY <3>1 DEF Agrees
    <3>3. Agrees([id |-> move.id, order |-> move.order])
            => Agrees([id |-> move.id, order |-> move.order])'
          BY <3>1 DEF Agrees
    <3>4. PostedInv => PostedInv'
          BY <3>1, <3>2, <3>3 DEF PostedInv, NextTo
    <3>5. ppc' = "shown" => \A n \in 1 .. Len(rows') : Agrees(rows[n])'
          BY <3>1, <3>2 DEF PageInv
    <3>6. rows' \in Seq(Row) /\ OneRowEach(rows') /\ stale' \subseteq Nat
          BY <3>1 DEF PageInv
    <3> QED BY <2>1, <3>1, <3>4, <3>5, <3>6 DEF PageInv
  <2> QED BY <2>1, <2>2, ListStep, MoveStep, MovedStep, MoveFailedStep, OtherStep, YesStep,
             ManagerUnderPage DEF PageNext
<1> QED BY <1>1, <1>2, PTL DEF PageSpec

\* Whatever drags, lost answers, other administrators and reloads come between:
\* a row shows the order its service is evaluated by, unless somebody else has
\* changed the service since the page was loaded, or an answer about it was lost.
THEOREM RowsShowWhatIsStored == PageSpec => []ShownIsStored
<1>1. PageInv => ShownIsStored
      BY RowTypes DEF PageInv, ShownIsStored, Agrees
<1> QED BY PageInvariant, <1>1, PTL

\* A drag does what the administrator sees: the service that has been dropped
\* before (after) another is evaluated before (after) it from then on, although
\* the page computes the order to post from what another row shows.
THEOREM DropsAreObeyed == PageSpec => EvaluatedWhereDropped
<1>1. ManagerInv /\ PageInv =>
        [Moved /\ {move.id, move.target} \cap stale = {} =>
           LET moved == services[move.id].order  target == services[move.target].order
           IN  IF move.position = "before" THEN moved < target ELSE moved > target]_pageVars
  <2> SUFFICES ASSUME ManagerInv, PageInv, Moved, move.id \notin stale, move.target \notin stale
               PROVE  LET moved == services[move.id].order
                          target == services[move.target].order
                      IN  IF move.position = "before" THEN moved < target ELSE moved > target
      OBVIOUS
  <2>1. PostedInv /\ pc[Tab] = "idle"
        BY DEF PageInv, Moved
  <2>2. services[move.id].order = move.order
        BY <2>1 DEF PostedInv, Agrees
  <2>3. PICK n \in 1 .. Len(rows) : rows[n].id = move.target /\ NextTo(rows[n])
        BY <2>1 DEF PostedInv
  <2>4. rows[n].order = services[move.target].order
        BY <2>1, <2>3 DEF PostedInv, Agrees
  <2>5. rows[n].order \in Int
        BY RowTypes DEF PageInv
  <2> QED BY <2>2, <2>3, <2>4, <2>5 DEF NextTo
<1> QED BY PageInvariant, <1>1, PTL DEF EvaluatedWhereDropped
=============================================================================
