--------------------------- MODULE IpcListProofs ---------------------------
(***************************************************************************)
(* Facts about the lists of suspended threads, for lists of any length     *)
(* over any set: what inserting and removing does to the threads listed,   *)
(* that nobody is ever listed twice, and that the order by priority is     *)
(* kept.                                                                   *)
(***************************************************************************)
EXTENDS IpcList, SequenceTheorems, WellFoundedInduction, TLAPS

(* No thread is listed twice. *)
Distinct(list) == \A i, j \in DOMAIN list : list[i] = list[j] => i = j

-----------------------------------------------------------------------------
(* A set of natural numbers that is not empty has a least element, and Min *)
(* is it.                                                                  *)
LEMMA MinIsLeast ==
    ASSUME NEW I \in SUBSET Nat, I # {}
    PROVE  Min(I) \in I /\ \A y \in I : Min(I) <= y
  <1> DEFINE R == {ss \in Nat \X Nat : ss[1] < ss[2]}
  <1>1. IsWellFoundedOn(R, Nat)
    BY NatLessThanWellFounded DEF OpToRel
  <1>2. \A x, y \in Nat : y < x => <<y, x>> \in R
    <2> TAKE x, y \in Nat
    <2> HAVE y < x
    <2>1. <<y, x>> \in Nat \X Nat
      OBVIOUS
    <2>2. <<y, x>>[1] = y /\ <<y, x>>[2] = x
      OBVIOUS
    <2> QED BY <2>1, <2>2
  <1> HIDE DEF R
  <1>3. PICK x \in I : \A y \in I : <<y, x>> \notin R
    BY <1>1, WFMin
  <1>4. \A y \in I : ~(y < x)
    BY <1>2, <1>3
  <1>5. \A y \in I : x <= y
    BY <1>4
  <1> QED BY <1>5 DEF Min

(* What concatenation returns, place by place. *)
LEMMA ConcatPlaces ==
    ASSUME NEW S, NEW a \in Seq(S), NEW b \in Seq(S), NEW n \in Nat, NEW m \in Nat,
           Len(a) = m, Len(b) = n - m
    PROVE  /\ a \o b \in Seq(S)
           /\ Len(a \o b) = n
           /\ \A k \in 1 .. n : (a \o b)[k] = IF k <= m THEN a[k] ELSE b[k - m]
  OBVIOUS

(* What RemoveAt returns, place by place. *)
LEMMA RemoveAtPlaces ==
    ASSUME NEW S, NEW s \in Seq(S), NEW i \in 1 .. Len(s)
    PROVE  /\ RemoveAt(s, i) \in Seq(S)
           /\ Len(RemoveAt(s, i)) = Len(s) - 1
           /\ \A j \in 1 .. Len(s) - 1 :
                 RemoveAt(s, i)[j] = IF j < i THEN s[j] ELSE s[j + 1]
  <1> DEFINE front == SubSeq(s, 1, i - 1)
             back == SubSeq(s, i + 1, Len(s))
             r == front \o back
             n == Len(s) - 1
  <1>1. /\ front \in Seq(S) /\ Len(front) = i - 1
        /\ \A k \in 1 .. i - 1 : front[k] = s[k]
    OBVIOUS
  <1>2. /\ back \in Seq(S) /\ Len(back) = n - (i - 1)
        /\ \A k \in 1 .. n - (i - 1) : back[k] = s[i + k]
    OBVIOUS
  <1>3. RemoveAt(s, i) = r
    BY DEF RemoveAt
  <1>4. n \in Nat /\ i - 1 \in Nat
    OBVIOUS
  <1> HIDE DEF front, back, n
  <1>5. /\ r \in Seq(S) /\ Len(r) = n
        /\ \A k \in 1 .. n : r[k] = IF k <= i - 1 THEN front[k] ELSE back[k - (i - 1)]
    BY <1>1, <1>2, <1>4, ConcatPlaces
  <1> HIDE DEF r
  <1>6. \A j \in 1 .. n : r[j] = IF j < i THEN s[j] ELSE s[j + 1]
    <2> TAKE j \in 1 .. n
    <2>1. CASE j < i
      <3>1. j \in 1 .. i - 1 /\ j <= i - 1
        BY <2>1, <1>4
      <3> QED BY <2>1, <3>1, <1>1, <1>5
    <2>2. CASE ~(j < i)
      <3>1. j - (i - 1) \in 1 .. n - (i - 1) /\ ~(j <= i - 1) /\ i + (j - (i - 1)) = j + 1
        BY <2>2, <1>4
      <3> QED BY <2>2, <3>1, <1>2, <1>5
    <2> QED BY <2>1, <2>2
  <1> QED BY <1>3, <1>5, <1>6 DEF n

(* What InsertAt returns, place by place. *)
LEMMA InsertAtPlaces ==
    ASSUME NEW S, NEW s \in Seq(S), NEW i \in 1 .. Len(s) + 1, NEW e \in S
    PROVE  /\ InsertAt(s, i, e) \in Seq(S)
           /\ Len(InsertAt(s, i, e)) = Len(s) + 1
           /\ \A j \in 1 .. Len(s) + 1 :
                 InsertAt(s, i, e)[j] = IF j < i THEN s[j]
                                        ELSE IF j = i THEN e ELSE s[j - 1]
  <1> DEFINE a == SubSeq(s, 1, i - 1)
             front == a \o <<e>>
             back == SubSeq(s, i, Len(s))
             r == front \o back
             n == Len(s) + 1
  <1>1. /\ a \in Seq(S) /\ Len(a) = i - 1
        /\ \A k \in 1 .. i - 1 : a[k] = s[k]
    OBVIOUS
  <1>2. /\ back \in Seq(S) /\ Len(back) = n - i
        /\ \A k \in 1 .. n - i : back[k] = s[i + k - 1]
    OBVIOUS
  <1>3. InsertAt(s, i, e) = r
    BY DEF InsertAt
  <1>4. n \in Nat /\ i \in Nat /\ i - 1 \in Nat
    OBVIOUS
  <1> HIDE DEF a, back, n
  <1>5. /\ <<e>> \in Seq(S) /\ Len(<<e>>) = i - (i - 1) /\ <<e>>[1] = e
    BY <1>4
  <1>6. /\ front \in Seq(S) /\ Len(front) = i
        /\ \A k \in 1 .. i : front[k] = IF k <= i - 1 THEN a[k] ELSE <<e>>[k - (i - 1)]
    BY <1>1, <1>4, <1>5, ConcatPlaces
  <1>7. \A k \in 1 .. i : front[k] = IF k < i THEN s[k] ELSE e
    <2> HIDE DEF front
    <2> TAKE k \in 1 .. i 
    <2>1. CASE k = i
      BY <2>1, <1>4, <1>5, <1>6
    <2>2. CASE k \in 1 .. i - 1
      BY <2>2, <1>1, <1>4, <1>6
    <2> QED BY <2>1, <2>2, <1>4
  <1> HIDE DEF front
  <1>8. /\ r \in Seq(S) /\ Len(r) = n
        /\ \A k \in 1 .. n : r[k] = IF k <= i THEN front[k] ELSE back[k - i]
    <2>1. front \in Seq(S) /\ Len(front) = i /\ back \in Seq(S) /\ Len(back) = n - i
      BY <1>2, <1>6
    <2> HIDE DEF r
    <2>2. /\ front \o back \in Seq(S) /\ Len(front \o back) = n
          /\ \A k \in 1 .. n : (front \o back)[k] = IF k <= i THEN front[k] ELSE back[k - i]
      BY <2>1, <1>4, ConcatPlaces
    <2> QED BY <2>2 DEF r
  <1> HIDE DEF r
  <1>9. \A j \in 1 .. n : r[j] = IF j < i THEN s[j] ELSE IF j = i THEN e ELSE s[j - 1]
    <2> TAKE j \in 1 .. n
    <2>1. CASE j <= i
      <3>1. j \in 1 .. i
        BY <2>1, <1>4
      <3> QED BY <2>1, <3>1, <1>4, <1>7, <1>8
    <2>2. CASE ~(j <= i)
      <3>1. j - i \in 1 .. n - i /\ ~(j < i) /\ j # i /\ i + (j - i) - 1 = j - 1
        BY <2>2, <1>4
      <3> QED BY <2>2, <3>1, <1>2, <1>8
    <2> QED BY <2>1, <2>2
  <1> QED BY <1>3, <1>8, <1>9 DEF n

-----------------------------------------------------------------------------
(* The head of a list is listed. *)
LEMMA HeadListed ==
    ASSUME NEW S, NEW list \in Seq(S), list # <<>>
    PROVE  Head(list) \in ToSet(list) /\ Head(list) \in S
  BY DEF ToSet

(* Who is listed is in the set the list is over, and an empty list lists   *)
(* nobody.                                                                 *)
LEMMA ListedIn ==
    ASSUME NEW S, NEW list \in Seq(S)
    PROVE  ToSet(list) \subseteq S /\ (ToSet(list) = {} <=> list = <<>>)
  BY DEF ToSet

(* rt_list_remove takes the thread off, and nobody else; the others stay   *)
(* listed once and in their order.                                         *)
LEMMA ListRemoveProperties ==
    ASSUME NEW S, NEW list \in Seq(S), Distinct(list), NEW t
    PROVE  /\ ListRemove(list, t) \in Seq(S)
           /\ Distinct(ListRemove(list, t))
           /\ ToSet(ListRemove(list, t)) = ToSet(list) \ {t}
           /\ \A prio : InPrioOrder(list, prio) =>
                            InPrioOrder(ListRemove(list, t), prio)
  <1> DEFINE I == {i \in 1 .. Len(list) : list[i] = t}
  <1>1. CASE I = {}
    <2>1. ListRemove(list, t) = list
      BY <1>1 DEF ListRemove, RemoveFirst
    <2>2. t \notin ToSet(list)
      BY <1>1 DEF ToSet
    <2> QED BY <2>1, <2>2
  <1>2. CASE I # {}
    <2> DEFINE p == Min(I)
               r == RemoveAt(list, p)
               n == Len(list) - 1
               from == [j \in 1 .. n |-> IF j < p THEN j ELSE j + 1]
    <2>1. p \in 1 .. Len(list) /\ list[p] = t
      <3>1. I \in SUBSET Nat
        OBVIOUS
      <3>2. Min(I) \in I
        BY <1>2, <3>1, MinIsLeast
      <3> QED BY <3>2
    <2>2. ListRemove(list, t) = r
      BY <1>2 DEF ListRemove, RemoveFirst, SelectInSeq
    <2>3. n \in Nat /\ p \in 1 .. n + 1 /\ DOMAIN list = 1 .. n + 1
      BY <2>1
    <2> HIDE DEF p
    <2>4. /\ r \in Seq(S) /\ Len(r) = n
          /\ \A j \in 1 .. n : r[j] = IF j < p THEN list[j] ELSE list[j + 1]
      BY <2>1, RemoveAtPlaces
    <2>5. DOMAIN r = 1 .. n
      BY <2>4
    <2> HIDE DEF r, n, I
    (* Every thread that is left comes from another place than p; places   *)
    (* keep their order.                                                   *)
    <2>6. \A j \in 1 .. n : from[j] \in 1 .. n + 1 /\ from[j] # p
      BY <2>3
    <2>7. \A j \in 1 .. n : r[j] = list[from[j]]
      BY <2>4
    <2>8. \A j, k \in 1 .. n : j < k => from[j] < from[k]
      BY <2>3
    <2>9. \A i \in 1 .. n + 1 : i # p => \E j \in 1 .. n : from[j] = i
      <3> SUFFICES ASSUME NEW i \in 1 .. n + 1, i # p
                   PROVE  \E j \in 1 .. n : from[j] = i
        OBVIOUS
      <3>1. CASE i < p
        <4>1. i \in 1 .. n
          BY <3>1, <2>3
        <4> QED BY <3>1, <4>1
      <3>2. CASE i > p
        <4>1. i - 1 \in 1 .. n /\ ~(i - 1 < p) /\ (i - 1) + 1 = i
          BY <3>2, <2>3
        <4>2. from[i - 1] = i
          BY <4>1
        <4> QED BY <4>1, <4>2
      <3> QED BY <3>1, <3>2, <2>3
    <2> HIDE DEF from
    <2>10. \A i \in 1 .. n + 1 : list[i] = t <=> i = p
      BY <2>1, <2>3 DEF Distinct
    <2>11. Distinct(r)
      <3> SUFFICES ASSUME NEW j \in 1 .. n, NEW k \in 1 .. n, r[j] = r[k]
                   PROVE  j = k
        BY <2>5 DEF Distinct
      <3>1. from[j] = from[k]
        BY <2>3, <2>6, <2>7 DEF Distinct
      <3> QED BY <3>1, <2>3, <2>6, <2>8
    <2>12. ToSet(r) \subseteq ToSet(list) \ {t}
      BY <2>3, <2>5, <2>6, <2>7, <2>10 DEF ToSet
    <2>13. ToSet(list) \ {t} \subseteq ToSet(r)
      <3> SUFFICES ASSUME NEW i \in 1 .. n + 1, list[i] # t
                   PROVE  \E j \in 1 .. n : r[j] = list[i]
        BY <2>3, <2>5 DEF ToSet
      <3>1. PICK j \in 1 .. n : from[j] = i
        BY <2>9, <2>10
      <3> QED BY <3>1, <2>7
    <2>14. ASSUME NEW prio, InPrioOrder(list, prio)
           PROVE  InPrioOrder(r, prio)
      <3> SUFFICES ASSUME NEW j \in 1 .. n, NEW k \in 1 .. n, j < k
                   PROVE  prio[r[j]] <= prio[r[k]]
        BY <2>5 DEF InPrioOrder
      <3>1. from[j] < from[k] /\ from[j] \in DOMAIN list /\ from[k] \in DOMAIN list
        BY <2>3, <2>6, <2>8
      <3> QED BY <3>1, <2>7, <2>14 DEF InPrioOrder
    <2> QED BY <2>2, <2>4, <2>11, <2>12, <2>13, <2>14
  <1> QED BY <1>1, <1>2

(* The place RT_IPC_FLAG_PRIO chooses is in the list or at its end; those  *)
(* before it are no less urgent and those from it on are less urgent.      *)
LEMMA PrioPositionProperties ==
    ASSUME NEW S, NEW list \in Seq(S), NEW prio \in [S -> Nat], NEW p \in Nat
    PROVE  LET i == PrioPosition(list, prio, p) IN
           /\ i \in 1 .. Len(list) + 1
           /\ \A j \in 1 .. Len(list) : j < i => prio[list[j]] <= p
           /\ i <= Len(list) => p < prio[list[i]]
  <1> DEFINE I == {i \in 1 .. Len(list) : p < prio[list[i]]}
  <1>0. \A j \in 1 .. Len(list) : prio[list[j]] \in Nat
    OBVIOUS
  <1>1. CASE I = {}
    <2>1. PrioPosition(list, prio, p) = Len(list) + 1
      BY <1>1 DEF PrioPosition, SelectInSeq
    <2> QED BY <2>1, <1>0, <1>1
  <1>2. CASE I # {}
    <2>0. I \in SUBSET Nat
      OBVIOUS
    <2> DEFINE m == Min(I)
    <2>1. m \in I /\ \A y \in I : m <= y
      <3> HIDE DEF I
      <3> QED BY <1>2, <2>0, MinIsLeast
    <2>2. PrioPosition(list, prio, p) = m
      BY <1>2, <2>1 DEF PrioPosition, SelectInSeq
    <2> HIDE DEF m
    <2>3. m \in 1 .. Len(list) /\ p < prio[list[m]]
      BY <2>1
    <2>4. \A j \in 1 .. Len(list) : j < m => ~(p < prio[list[j]])
      BY <2>1, <2>3
    <2>5. \A j \in 1 .. Len(list) : j < m => prio[list[j]] <= p
      BY <2>4, <1>0
    <2> QED BY <2>2, <2>3, <2>5
  <1> QED BY <1>1, <1>2

(* A list with one more at its end. *)
LEMMA AppendListed ==
    ASSUME NEW S, NEW s \in Seq(S), NEW e \in S
    PROVE  /\ Append(s, e) \in Seq(S) /\ Len(Append(s, e)) = Len(s) + 1
           /\ ToSet(Append(s, e)) = ToSet(s) \cup {e}
           /\ Distinct(s) /\ e \notin ToSet(s) => Distinct(Append(s, e))
  <1> DEFINE r == Append(s, e)
             n == Len(s)
  <1>1. n \in Nat /\ DOMAIN s = 1 .. n
    OBVIOUS
  <1>2. /\ r \in Seq(S) /\ Len(r) = n + 1 /\ DOMAIN r = 1 .. n + 1
        /\ r[n + 1] = e /\ \A i \in 1 .. n : r[i] = s[i]
    OBVIOUS
  <1> HIDE DEF r, n
  <1>3. \A i \in 1 .. n + 1 : i \in 1 .. n \/ i = n + 1
    BY <1>1
  <1>4. 1 .. n \subseteq 1 .. n + 1 /\ n + 1 \in 1 .. n + 1
    BY <1>1
  <1>5. ToSet(r) = ToSet(s) \cup {e}
    BY <1>1, <1>2, <1>3, <1>4 DEF ToSet
  <1>6. Distinct(s) /\ e \notin ToSet(s) => Distinct(r)
    BY <1>1, <1>2, <1>3 DEF Distinct, ToSet
  <1> QED BY <1>2, <1>5, <1>6 DEF r, n

(* A thread put at any place is listed once, and nobody else; it keeps an  *)
(* order by some key if its place fits its key.                            *)
LEMMA InsertListed ==
    ASSUME NEW S, NEW list \in Seq(S), Distinct(list),
           NEW t \in S, t \notin ToSet(list), NEW i \in 1 .. Len(list) + 1
    PROVE  LET r == InsertAt(list, i, t) IN
           /\ r \in Seq(S)
           /\ Distinct(r)
           /\ ToSet(r) = ToSet(list) \cup {t}
           /\ \A key :
                 /\ \A u \in S : key[u] \in Int
                 /\ InPrioOrder(list, key)
                 /\ \A j \in 1 .. Len(list) : j < i => key[list[j]] <= key[t]
                 /\ i <= Len(list) => key[t] <= key[list[i]]
                 => InPrioOrder(r, key)
  <1> DEFINE n == Len(list)
             r == InsertAt(list, i, t)
  <1>1. i \in 1 .. n + 1
    OBVIOUS
  <1>2. n \in Nat /\ DOMAIN list = 1 .. n
    OBVIOUS
  <1>3. /\ r \in Seq(S) /\ Len(r) = n + 1
        /\ \A j \in 1 .. n + 1 :
              r[j] = IF j < i THEN list[j] ELSE IF j = i THEN t ELSE list[j - 1]
    BY InsertAtPlaces
  <1>4. DOMAIN r = 1 .. n + 1
    BY <1>3
  <1>6. \A j \in 1 .. n : list[j] # t /\ list[j] \in S
    BY <1>2 DEF ToSet
  <1> DEFINE from == [k \in 1 .. n + 1 |-> IF k < i THEN k ELSE k - 1]
  <1> HIDE DEF n, r
  (* Every other thread comes from a place of the old list; places keep    *)
  (* their order.                                                          *)
  <1>a. \A k \in 1 .. n + 1 : k # i => from[k] \in 1 .. n /\ r[k] = list[from[k]]
    <2> SUFFICES ASSUME NEW k \in 1 .. n + 1, k # i
                 PROVE  from[k] \in 1 .. n /\ r[k] = list[from[k]]
      OBVIOUS
    <2>1. from[k] \in 1 .. n
      BY <1>1, <1>2
    <2>2. r[k] = IF k < i THEN list[k] ELSE list[k - 1]
      BY <1>3
    <2> QED BY <2>1, <2>2
  <1>b. r[i] = t
    BY <1>1, <1>2, <1>3
  <1>c. \A j, k \in 1 .. n + 1 : j # i /\ k # i /\ j < k => from[j] < from[k]
    BY <1>1, <1>2
  <1>d. \A k \in 1 .. n + 1 : /\ k < i => from[k] < i
                              /\ k > i => i <= from[k] /\ i <= n
    BY <1>1, <1>2
  <1>e. \A j \in 1 .. n : \E k \in 1 .. n + 1 : k # i /\ from[k] = j
    <2> TAKE j \in 1 .. n
    <2>1. CASE j < i
      <3>1. j \in 1 .. n + 1 /\ j # i
        BY <2>1, <1>1, <1>2
      <3>2. from[j] = j
        BY <2>1, <3>1
      <3> QED BY <3>1, <3>2
    <2>2. CASE ~(j < i)
      <3>1. j + 1 \in 1 .. n + 1 /\ ~(j + 1 < i) /\ j + 1 # i /\ (j + 1) - 1 = j
        BY <2>2, <1>1, <1>2
      <3>2. from[j + 1] = j
        BY <3>1
      <3> QED BY <3>1, <3>2
    <2> QED BY <2>1, <2>2
  <1> HIDE DEF from
  <1>7. Distinct(r)
    <2> SUFFICES ASSUME NEW j \in 1 .. n + 1, NEW k \in 1 .. n + 1, r[j] = r[k]
                 PROVE  j = k
      BY <1>4 DEF Distinct
    <2>1. CASE j = i \/ k = i
      BY <2>1, <1>6, <1>a, <1>b
    <2>2. CASE j # i /\ k # i
      <3>1. from[j] = from[k]
        BY <2>2, <1>2, <1>a DEF Distinct
      <3>2. ~(from[j] < from[k]) /\ ~(from[k] < from[j])
        BY <2>2, <3>1, <1>a
      <3>3. ~(j < k) /\ ~(k < j)
        BY <2>2, <3>2, <1>c
      <3> QED BY <3>3, <1>2
    <2> QED BY <2>1, <2>2
  <1>8. ToSet(r) \subseteq ToSet(list) \cup {t}
    BY <1>2, <1>4, <1>a, <1>b DEF ToSet
  <1>9. ToSet(list) \cup {t} \subseteq ToSet(r)
    <2>1. t \in ToSet(r)
      BY <1>1, <1>4, <1>b DEF ToSet
    <2>2. \A j \in 1 .. n : list[j] \in ToSet(r)
      <3> TAKE j \in 1 .. n
      <3>1. PICK k \in 1 .. n + 1 : k # i /\ from[k] = j
        BY <1>e
      <3> QED BY <3>1, <1>4, <1>a DEF ToSet
    <2> QED BY <1>2, <2>1, <2>2 DEF ToSet
  <1>10. ASSUME NEW key, \A u \in S : key[u] \in Int, InPrioOrder(list, key),
                \A j \in 1 .. n : j < i => key[list[j]] <= key[t],
                i <= n => key[t] <= key[list[i]],
                NEW j \in 1 .. n + 1, NEW k \in 1 .. n + 1, j < k
         PROVE  key[r[j]] <= key[r[k]]
    <2>1. key[t] \in Int /\ \A a \in 1 .. n : key[list[a]] \in Int
      BY <1>2, <1>10
    <2>2. \A a, b \in 1 .. n : a <= b => key[list[a]] <= key[list[b]]
      <3> SUFFICES ASSUME NEW a \in 1 .. n, NEW b \in 1 .. n, a <= b
                   PROVE  key[list[a]] <= key[list[b]]
        OBVIOUS
      <3>1. CASE a < b
        BY <3>1, <1>2, <1>10 DEF InPrioOrder
      <3>2. CASE a = b
        BY <3>2, <2>1
      <3> QED BY <3>1, <3>2, <1>2
    <2>3. CASE j # i /\ k # i
      <3>1. from[j] \in 1 .. n /\ from[k] \in 1 .. n /\ from[j] <= from[k]
        BY <2>3, <1>2, <1>10, <1>a, <1>c
      <3>2. r[j] = list[from[j]] /\ r[k] = list[from[k]]
        BY <2>3, <1>10, <1>a
      <3> QED BY <2>2, <3>1, <3>2
    <2>4. CASE k = i
      <3>1. j < i /\ j \in 1 .. n /\ from[j] < i
        BY <2>4, <1>1, <1>2, <1>10, <1>d
      <3>2. key[list[from[j]]] <= key[t]
        BY <2>4, <3>1, <1>1, <1>a, <1>10
      <3> QED BY <2>4, <3>1, <3>2, <1>a, <1>b
    <2>5. CASE j = i
      <3>1. k > i /\ i <= from[k] /\ i \in 1 .. n /\ from[k] \in 1 .. n
        BY <2>5, <1>1, <1>2, <1>10, <1>a, <1>d
      <3>2. key[t] <= key[list[i]] /\ key[list[i]] <= key[list[from[k]]]
        BY <3>1, <2>2, <1>10
      <3>3. r[j] = t /\ r[k] = list[from[k]]
        BY <2>5, <3>1, <1>a, <1>b
      <3> QED BY <2>1, <3>1, <3>2, <3>3
    <2> QED BY <1>10, <2>3, <2>4, <2>5
  <1>11. ASSUME NEW key, \A u \in S : key[u] \in Int, InPrioOrder(list, key),
                \A j \in 1 .. n : j < i => key[list[j]] <= key[t],
                i <= n => key[t] <= key[list[i]]
         PROVE  InPrioOrder(r, key)
    BY <1>4, <1>10, <1>11 DEF InPrioOrder
  <1> QED BY <1>3, <1>7, <1>8, <1>9, <1>11 DEF n, r

(* _ipc_list_suspend lists the thread and nobody else, once; by priority   *)
(* it keeps the order.                                                     *)
LEMMA ListInsertProperties ==
    ASSUME NEW S, NEW list \in Seq(S), Distinct(list),
           NEW t \in S, t \notin ToSet(list), NEW prio \in [S -> Nat], NEW flag
    PROVE  LET r == ListInsert(list, t, prio, flag) IN
           /\ r \in Seq(S)
           /\ Distinct(r)
           /\ ToSet(r) = ToSet(list) \cup {t}
           /\ flag # "FIFO" /\ InPrioOrder(list, prio) => InPrioOrder(r, prio)
  <1> DEFINE r == ListInsert(list, t, prio, flag)
  <1>1. CASE flag = "FIFO"
    <2>1. r = Append(list, t)
      BY <1>1 DEF ListInsert
    <2>2. /\ Append(list, t) \in Seq(S) /\ Distinct(Append(list, t))
          /\ ToSet(Append(list, t)) = ToSet(list) \cup {t}
      BY AppendListed
    <2> HIDE DEF r
    <2> QED BY <1>1, <2>1, <2>2 DEF r
  <1>2. CASE flag # "FIFO"
    <2> DEFINE i == PrioPosition(list, prio, prio[t])
    <2>1. r = InsertAt(list, i, t)
      BY <1>2 DEF ListInsert
    <2>2. /\ i \in 1 .. Len(list) + 1
          /\ \A j \in 1 .. Len(list) : j < i => prio[list[j]] <= prio[t]
          /\ i <= Len(list) => prio[t] < prio[list[i]]
      <3>1. prio[t] \in Nat
        OBVIOUS
      <3> QED BY <3>1, PrioPositionProperties
    <2> HIDE DEF i, r
    <2>3. /\ \A u \in S : prio[u] \in Int
          /\ i <= Len(list) => prio[t] <= prio[list[i]]
      BY <2>2
    <2>4. /\ r \in Seq(S) /\ Distinct(r) /\ ToSet(r) = ToSet(list) \cup {t}
          /\ InPrioOrder(list, prio) => InPrioOrder(r, prio)
      BY <2>1, <2>2, <2>3, InsertListed
    <2> QED BY <2>4 DEF r
  <1> QED BY <1>1, <1>2

-----------------------------------------------------------------------------
(* The rest of a list lists everybody but its head. *)
LEMMA TailProperties ==
    ASSUME NEW S, NEW s \in Seq(S), s # <<>>
    PROVE  /\ Tail(s) \in Seq(S) /\ Len(s) = Len(Tail(s)) + 1
           /\ ToSet(s) = {Head(s)} \cup ToSet(Tail(s))
           /\ Distinct(s) => Distinct(Tail(s)) /\ Head(s) \notin ToSet(Tail(s))
  <1> DEFINE r == Tail(s)
             n == Len(s) - 1
  <1>1. n \in Nat /\ DOMAIN s = 1 .. n + 1 /\ Len(s) = n + 1 /\ Head(s) = s[1]
    OBVIOUS
  <1>2. r \in Seq(S) /\ Len(r) = n /\ DOMAIN r = 1 .. n
    OBVIOUS
  <1>3. \A i \in 1 .. n : r[i] = s[i + 1]
    OBVIOUS
  <1> HIDE DEF r, n
  <1>4. ToSet(s) \subseteq {Head(s)} \cup ToSet(r)
    <2> SUFFICES ASSUME NEW i \in 1 .. n + 1, i # 1
                 PROVE  \E j \in 1 .. n : r[j] = s[i]
      BY SMTT(30), <1>1, <1>2 DEF ToSet
    <2>1. i - 1 \in 1 .. n /\ (i - 1) + 1 = i
      BY <1>1
    <2>2. r[i - 1] = s[i]
      BY <1>3, <2>1
    <2> QED BY <2>1, <2>2
  <1>4a. 1 \in 1 .. n + 1 /\ \A i \in 1 .. n : i + 1 \in 1 .. n + 1 /\ i + 1 # 1
    BY <1>1
  <1>5. {Head(s)} \cup ToSet(r) \subseteq ToSet(s)
    BY <1>1, <1>2, <1>3, <1>4a DEF ToSet
  <1>6. ASSUME Distinct(s) PROVE Distinct(r) /\ Head(s) \notin ToSet(r)
    <2>1. \A i, j \in 1 .. n : r[i] = r[j] => i + 1 = j + 1
      <3> SUFFICES ASSUME NEW i \in 1 .. n, NEW j \in 1 .. n, r[i] = r[j]
                   PROVE  i + 1 = j + 1
        OBVIOUS
      <3>1. /\ i + 1 \in DOMAIN s /\ j + 1 \in DOMAIN s
        BY <1>1, <1>4a
      <3>2. s[i + 1] = s[j + 1]
        BY <1>3
      <3> QED BY <1>6, <3>1, <3>2 DEF Distinct
    <2>2. \A i \in 1 .. n : r[i] # s[1]
      BY <1>1, <1>3, <1>6, <1>4a DEF Distinct
    <2>3. Distinct(r)
      BY <1>1, <1>2, <2>1 DEF Distinct
    <2> QED BY <1>1, <1>2, <2>2, <2>3 DEF ToSet
  <1> QED BY <1>1, <1>2, <1>4, <1>5, <1>6 DEF r

(* One list in front of another. *)
LEMMA ConcatListed ==
    ASSUME NEW S, NEW a \in Seq(S), NEW b \in Seq(S)
    PROVE  /\ a \o b \in Seq(S) /\ Len(a \o b) = Len(a) + Len(b)
           /\ ToSet(a \o b) = ToSet(a) \cup ToSet(b)
           /\ Distinct(a) /\ Distinct(b) /\ ToSet(a) \cap ToSet(b) = {} => Distinct(a \o b)
  <1> DEFINE r == a \o b
             m == Len(a)
             n == Len(a) + Len(b)
  <1>1. /\ m \in Nat /\ n \in Nat /\ m <= n
        /\ DOMAIN a = 1 .. m /\ DOMAIN b = 1 .. n - m
    OBVIOUS
  <1>2. /\ r \in Seq(S) /\ Len(r) = n /\ DOMAIN r = 1 .. n
    OBVIOUS
  <1>3. \A k \in 1 .. n : r[k] = IF k <= m THEN a[k] ELSE b[k - m]
    OBVIOUS
  <1> HIDE DEF r, m, n
  <1>4. \A k \in 1 .. n : \/ k \in 1 .. m /\ r[k] = a[k]
                          \/ k > m /\ k - m \in 1 .. n - m /\ r[k] = b[k - m]
    BY <1>1, <1>3
  <1>5. ToSet(r) \subseteq ToSet(a) \cup ToSet(b)
    BY <1>1, <1>2, <1>4 DEF ToSet
  <1>6. \A k \in 1 .. m : k \in 1 .. n /\ r[k] = a[k]
    BY <1>1, <1>3
  <1>7. \A k \in 1 .. n - m : k + m \in 1 .. n /\ r[k + m] = b[k]
    <2> TAKE k \in 1 .. n - m
    <2>1. k + m \in 1 .. n /\ ~(k + m <= m) /\ (k + m) - m = k
      BY <1>1
    <2> QED BY <1>3, <2>1
  <1>8. ToSet(a) \cup ToSet(b) \subseteq ToSet(r)
    BY <1>1, <1>2, <1>6, <1>7 DEF ToSet
  <1>9. ASSUME Distinct(a), Distinct(b), ToSet(a) \cap ToSet(b) = {}
        PROVE  Distinct(r)
    <2> SUFFICES ASSUME NEW j \in 1 .. n, NEW k \in 1 .. n, r[j] = r[k]
                 PROVE  j = k
      BY <1>2 DEF Distinct
    <2>1. \A i \in 1 .. m : a[i] \in ToSet(a)
      BY <1>1 DEF ToSet
    <2>2. \A i \in 1 .. n - m : b[i] \in ToSet(b)
      BY <1>1 DEF ToSet
    <2>3. CASE j \in 1 .. m /\ k \in 1 .. m
      BY <1>1, <1>6, <1>9, <2>3 DEF Distinct
    <2>4. CASE j > m /\ k > m
      <3>1. j - m = k - m
        BY <1>1, <1>4, <1>9, <2>4 DEF Distinct
      <3> QED BY <1>1, <3>1
    <2> QED BY <1>1, <1>4, <1>9, <2>1, <2>2, <2>3, <2>4
  <1> QED BY <1>2, <1>5, <1>8, <1>9 DEF r, n

(* One more at the front. *)
LEMMA PushListed ==
    ASSUME NEW S, NEW s \in Seq(S), NEW e \in S
    PROVE  /\ <<e>> \o s \in Seq(S) /\ Len(<<e>> \o s) = Len(s) + 1
           /\ ToSet(<<e>> \o s) = ToSet(s) \cup {e}
           /\ Distinct(s) /\ e \notin ToSet(s) => Distinct(<<e>> \o s)
  <1>1. <<e>> \in Seq(S) /\ Len(<<e>>) = 1 /\ Distinct(<<e>>) /\ ToSet(<<e>>) = {e}
    BY DEF Distinct, ToSet
  <1>2. Len(s) \in Nat
    OBVIOUS
  <1> DEFINE one == <<e>>
  <1> HIDE DEF one
  <1>3. /\ one \o s \in Seq(S) /\ Len(one \o s) = Len(one) + Len(s)
        /\ ToSet(one \o s) = ToSet(one) \cup ToSet(s)
        /\ Distinct(one) /\ Distinct(s) /\ ToSet(one) \cap ToSet(s) = {} => Distinct(one \o s)
    BY <1>1, ConcatListed DEF one
  <1>4. Len(one) = 1 /\ ToSet(one) = {e} /\ Distinct(one)
    BY <1>1 DEF one
  <1> QED BY <1>2, <1>3, <1>4 DEF one

(* The same list from its end. *)
LEMMA ReverseListed ==
    ASSUME NEW S, NEW s \in Seq(S)
    PROVE  /\ Reverse(s) \in Seq(S) /\ Len(Reverse(s)) = Len(s)
           /\ ToSet(Reverse(s)) = ToSet(s)
           /\ Distinct(s) => Distinct(Reverse(s))
  <1> DEFINE r == Reverse(s)
             n == Len(s)
  <1>1. n \in Nat /\ DOMAIN s = 1 .. n
    OBVIOUS
  <1>2. r = [i \in 1 .. n |-> s[(n - i) + 1]]
    BY DEF Reverse
  <1> HIDE DEF n, r
  <1>3. \A i \in 1 .. n : (n - i) + 1 \in 1 .. n /\ (n - ((n - i) + 1)) + 1 = i
    BY <1>1
  <1>4. \A i \in 1 .. n : s[i] \in S
    BY DEF n
  <1>5. r \in [1 .. n -> S]
    BY <1>2, <1>3, <1>4
  <1>6. r \in Seq(S) /\ Len(r) = n /\ DOMAIN r = 1 .. n
    BY <1>1, <1>5, SeqDef
  <1>7. ToSet(r) = ToSet(s)
    BY <1>1, <1>2, <1>3, <1>6 DEF ToSet
  <1>8. ASSUME Distinct(s) PROVE Distinct(r)
    <2> SUFFICES ASSUME NEW i \in 1 .. n, NEW j \in 1 .. n, r[i] = r[j]
                 PROVE  i = j
      BY <1>6 DEF Distinct
    <2>1. (n - i) + 1 = (n - j) + 1
      BY <1>1, <1>2, <1>3, <1>8 DEF Distinct
    <2> QED BY <1>1, <2>1
  <1> QED BY <1>6, <1>7, <1>8 DEF r, n
=============================================================================
