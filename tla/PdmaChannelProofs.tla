------------------------- MODULE PdmaChannelProofs -------------------------
(***************************************************************************)
(* Proofs about PdmaChannel, for any number of channels, any requests and  *)
(* any capacity of a descriptor.                                           *)
(*                                                                         *)
(* The engine walks the descriptors of one request in order: what is left  *)
(* are the descriptors from the k-th on, what it moved are the units the   *)
(* first k - 1 descriptors describe.  The heap holds at least what the     *)
(* tables of all channels hold together.                                   *)
(***************************************************************************)
EXTENDS PdmaChannel, NaturalsInduction, WellFoundedInduction, TLAPS

(* Counts the chain of descriptors is right for. *)
NoMultiples == \A n \in Counts : n > MaxTxCnt => n % MaxTxCnt # 0

(* Desc, of the control the channel had when the transfer was started. *)
DescOf(step, r, i, num) ==
    LET left == r.n - (i - 1) * MaxTxCnt
        off == (i - 1) * MaxTxCnt * r.w
    IN  [i |-> i, cnt |-> TxCnt(IF left > MaxTxCnt THEN MaxTxCnt ELSE left),
         src |-> IF step[1] THEN r.src + off ELSE r.src,
         dst |-> IF step[2] THEN r.dst + off ELSE r.dst,
         w |-> r.w, step |-> step, silent |-> i # num]

(* The descriptors from the k-th on, and the one the engine takes next. *)
Descs(step, r, num, k) == {DescOf(step, r, i, num) : i \in k .. num}
FirstOf(todo) == CHOOSE x \in todo : \A y \in todo : x.i <= y.i

(* num descriptors are just enough for n units. *)
Split(n, num) ==
    /\ \A i \in 1 .. num - 1 : n - (i - 1) * MaxTxCnt > MaxTxCnt
    /\ n - (num - 1) * MaxTxCnt \in 1 .. MaxTxCnt

(* The engine e has worked off k - 1 of the num descriptors of r. *)
Walk(e, step, r, num, k) ==
    /\ e.todo = Descs(step, r, num, k)
    /\ e.want = Cells(r.src, r.dst, r.w, step, r.n) /\ e.n = r.n
    /\ NoMultiples =>
          /\ Split(r.n, num)
          /\ e.moved = (k - 1) * MaxTxCnt
          /\ e.cells = Cells(r.src, r.dst, r.w, step, (k - 1) * MaxTxCnt)

Walks(e) ==
    \E r \in Requests, step \in BOOLEAN \X BOOLEAN, num \in Nat \ {0} :
        \E k \in 1 .. num : Walk(e, step, r, num, k)

(* An engine has its fields, walks the chain of a request it is awaited    *)
(* for, and ends having moved what was asked for.                          *)
Engine(e, awaited) ==
    /\ e = [st |-> e.st, todo |-> e.todo, moved |-> e.moved, cells |-> e.cells,
            want |-> e.want, n |-> e.n]
    /\ e.st \in {"idle", "busy", "done"}
    /\ e.st = "busy" => awaited /\ Walks(e)
    /\ e.st = "done" /\ NoMultiples => e.moved = e.n /\ e.cells = e.want

Engines ==
    /\ engine = [c \in Channels |-> engine[c]]
    /\ \A c \in Channels : Engine(engine[c], waiting[c])

Heap == InTables[NumChannels] <= live

ChannelInv == TypeOK /\ Engines /\ Heap

-----------------------------------------------------------------------------
(* Natural numbers, and sums over the channels *)

LEMMA LeastOf ==
    ASSUME NEW I \in SUBSET Nat, I # {}
    PROVE  \E x \in I : \A y \in I : x <= y
  <1> DEFINE R == {ss \in Nat \X Nat : ss[1] < ss[2]}
  <1>1. IsWellFoundedOn(R, Nat)
    BY NatLessThanWellFounded DEF OpToRel
  <1>2. \A x, y \in Nat : y < x => <<y, x>> \in R
    <2> TAKE x, y \in Nat
    <2> HAVE y < x
    <2>1. <<y, x>> \in Nat \X Nat
      OBVIOUS
    <2>2. <<y, x>>[1] = y /\ <<y, x>>[2] = x
      OBVIOUS
    <2> QED BY <2>1, <2>2
  <1> HIDE DEF R
  <1>3. PICK x \in I : \A y \in I : <<y, x>> \notin R
    BY <1>1, WFMin
  <1>4. \A y \in I : ~(y < x)
    BY <1>2, <1>3
  <1> QED BY <1>4

(* Induction, for a set: what holds of 0 and passes on to the next number  *)
(* holds up to N, for otherwise there is a least number it fails for.      *)
LEMMA UpTo ==
    ASSUME NEW N \in Nat, NEW S, 0 \in S, \A n \in 0 .. N - 1 : n \in S => n + 1 \in S
    PROVE  0 .. N \subseteq S
  <1> DEFINE I == {n \in 0 .. N : n \notin S}
  <1> SUFFICES ASSUME I # {} PROVE FALSE
    OBVIOUS
  <1>1. I \in SUBSET Nat
    OBVIOUS
  <1>2. PICK m \in I : \A y \in I : m <= y
    <2> HIDE DEF I
    <2> QED BY <1>1, LeastOf
  <1>3. m \in 0 .. N /\ m \notin S /\ m # 0
    BY <1>2
  <1>4. m - 1 \in 0 .. N - 1 /\ m - 1 \in 0 .. N /\ m - 1 < m
    BY <1>3
  <1>5. m - 1 \in S
    BY <1>2, <1>4
  <1>6. (m - 1) + 1 \in S /\ (m - 1) + 1 = m
    BY <1>3, <1>4, <1>5
  <1> QED BY <1>3, <1>6

LEMMA ChannelFacts ==
    /\ NumChannels \in Nat /\ MaxTxCnt \in Nat /\ MaxTxCnt > 0
    /\ Channels = 0 .. NumChannels - 1
    /\ \A r \in Requests : /\ r.n \in Counts /\ r.w \in {1, 2, 4}
                           /\ r.n \in Nat /\ r.src \in Nat /\ r.dst \in Nat
  <1>1. ASSUME NEW r \in Requests
        PROVE  r.n \in Counts /\ r.w \in Widths /\ r.src \in Addrs /\ r.dst \in Addrs
    BY DEF Requests
  <1>2. Widths \subseteq {1, 2, 4} /\ Counts \subseteq Nat /\ Addrs \subseteq Nat
    BY ChannelAssumption
  <1>3. NumChannels \in Nat /\ MaxTxCnt \in Nat /\ MaxTxCnt > 0
    BY ChannelAssumption
  <1>4. \A r \in Requests : r.w \in {1, 2, 4}
    <2> TAKE r \in Requests
    <2>1. r.w \in Widths
      BY <1>1
    <2> QED BY <1>2, <2>1
  <1>5. \A r \in Requests : r.n \in Counts /\ r.n \in Nat /\ r.src \in Nat /\ r.dst \in Nat
    <2> TAKE r \in Requests
    <2>1. r.n \in Counts /\ r.src \in Addrs /\ r.dst \in Addrs
      BY <1>1
    <2> QED BY <1>2, <2>1
  <1> QED BY <1>3, <1>4, <1>5 DEF Channels

(* s is the sequence of partial sums of f. *)
Sums(s, f) == s = [n \in 0 .. NumChannels |-> IF n = 0 THEN 0 ELSE s[n - 1] + f[n - 1]]

LEMMA SumsExist ==
    ASSUME NEW f \in [Channels -> Nat]
    PROVE  \E s : Sums(s, f)
  <1> DEFINE P(n) == \E s : s = [k \in 0 .. n |-> IF k = 0 THEN 0 ELSE s[k - 1] + f[k - 1]]
             S == {n \in 0 .. NumChannels : P(n)}
  <1>0. NumChannels \in Nat
    BY ChannelFacts
  <1>1. 0 \in S
    <2> DEFINE s == [k \in 0 .. 0 |-> 0]
    <2>1. s = [k \in 0 .. 0 |-> IF k = 0 THEN 0 ELSE s[k - 1] + f[k - 1]]
      OBVIOUS
    <2> HIDE DEF s
    <2> QED BY <1>0, <2>1
  <1>2. ASSUME NEW n \in 0 .. NumChannels - 1, n \in S PROVE n + 1 \in S
    <2>1. PICK s : s = [k \in 0 .. n |-> IF k = 0 THEN 0 ELSE s[k - 1] + f[k - 1]]
      BY <1>2
    <2> DEFINE g == [k \in 0 .. n + 1 |-> IF k = n + 1 THEN s[n] + f[n] ELSE s[k]]
    <2>2. \A k \in 0 .. n + 1 : g[k] = IF k = 0 THEN 0 ELSE g[k - 1] + f[k - 1]
      <3> TAKE k \in 0 .. n + 1
      <3>1. CASE k = n + 1
        BY <3>1, <1>0
      <3>2. CASE k # n + 1
        <4>1. k \in 0 .. n /\ (k # 0 => k - 1 \in 0 .. n)
          BY <3>2, <1>0
        <4>2. g[k] = s[k] /\ (k # 0 => g[k - 1] = s[k - 1])
          BY <3>2, <4>1
        <4>3. s[k] = IF k = 0 THEN 0 ELSE s[k - 1] + f[k - 1]
          BY <2>1, <4>1
        <4> HIDE DEF g
        <4> QED BY <4>2, <4>3
      <3> QED BY <3>1, <3>2
    <2>3. g = [k \in 0 .. n + 1 |-> g[k]]
      OBVIOUS
    <2> HIDE DEF g
    <2>4. g = [k \in 0 .. n + 1 |-> IF k = 0 THEN 0 ELSE g[k - 1] + f[k - 1]]
      BY <2>2, <2>3
    <2>5. n + 1 \in 0 .. NumChannels
      BY <1>0
    <2> QED BY <2>4, <2>5
  <1>3. NumChannels \in S
    <2> HIDE DEF S
    <2>1. 0 .. NumChannels \subseteq S
      BY <1>0, <1>1, <1>2, UpTo
    <2> QED BY <1>0, <2>1
  <1> QED BY <1>3 DEF Sums

(* A sum of natural numbers, and one in which a number was changed. *)
LEMMA SumFacts ==
    ASSUME NEW f \in [Channels -> Nat], NEW s, Sums(s, f)
    PROVE  \A n \in 0 .. NumChannels : s[n] \in Nat
  <1>0. NumChannels \in Nat /\ Channels = 0 .. NumChannels - 1
    BY ChannelFacts
  <1> DEFINE S == {n \in 0 .. NumChannels : s[n] \in Nat}
  <1>1. \A n \in 0 .. NumChannels : s[n] = IF n = 0 THEN 0 ELSE s[n - 1] + f[n - 1]
    BY DEF Sums
  <1>2. 0 \in S
    BY <1>0, <1>1
  <1>3. ASSUME NEW n \in 0 .. NumChannels - 1, n \in S PROVE n + 1 \in S
    <2>1. n + 1 \in 0 .. NumChannels /\ n + 1 # 0 /\ (n + 1) - 1 = n /\ n \in Channels
      BY <1>0
    <2>2. s[n + 1] = s[n] + f[n]
      BY <1>1, <2>1
    <2> QED BY <1>3, <2>1, <2>2
  <1>4. 0 .. NumChannels \subseteq S
    <2> HIDE DEF S
    <2> QED BY <1>0, <1>2, <1>3, UpTo
  <1> QED BY <1>4

LEMMA SumChanged ==
    ASSUME NEW f \in [Channels -> Nat], NEW c \in Channels, NEW v \in Nat,
           NEW s, NEW t, Sums(s, f), Sums(t, [f EXCEPT ![c] = v])
    PROVE  /\ t[NumChannels] = s[NumChannels] - f[c] + v
           /\ f[c] <= s[NumChannels]
  <1>0. NumChannels \in Nat /\ Channels = 0 .. NumChannels - 1
    BY ChannelFacts
  <1> DEFINE g == [f EXCEPT ![c] = v]
             S == {n \in 0 .. NumChannels :
                     /\ n <= c => t[n] = s[n]
                     /\ n > c => t[n] = s[n] - f[c] + v /\ f[c] <= s[n]}
  <1>1. /\ \A n \in 0 .. NumChannels : s[n] = IF n = 0 THEN 0 ELSE s[n - 1] + f[n - 1]
        /\ \A n \in 0 .. NumChannels : t[n] = IF n = 0 THEN 0 ELSE t[n - 1] + g[n - 1]
    BY DEF Sums
  <1>2. /\ \A n \in 0 .. NumChannels : s[n] \in Nat
        /\ \A n \in Channels : f[n] \in Nat /\ g[n] = IF n = c THEN v ELSE f[n]
    BY SumFacts
  <1> HIDE DEF g
  <1>3. 0 \in S
    BY <1>0, <1>1
  <1>4. ASSUME NEW n \in 0 .. NumChannels - 1, n \in S PROVE n + 1 \in S
    <2>1. n + 1 \in 0 .. NumChannels /\ n + 1 # 0 /\ (n + 1) - 1 = n /\ n \in Channels
          /\ n \in 0 .. NumChannels /\ c \in Int
      BY <1>0
    <2>2. s[n + 1] = s[n] + f[n] /\ t[n + 1] = t[n] + g[n]
      BY <1>1, <2>1
    <2>3. s[n] \in Nat /\ f[n] \in Nat /\ f[c] \in Nat /\ g[n] = IF n = c THEN v ELSE f[n]
      BY <1>2, <2>1
    <2>4. CASE n < c
      <3>1. t[n] = s[n] /\ g[n] = f[n] /\ n + 1 <= c
        BY <1>4, <2>1, <2>3, <2>4
      <3> QED BY <2>1, <2>2, <3>1
    <2>5. CASE n = c
      <3>1. t[n] = s[n] /\ g[n] = v /\ f[n] = f[c]
        BY <1>4, <2>1, <2>3, <2>5
      <3>2. t[n + 1] = s[n + 1] - f[c] + v /\ f[c] <= s[n + 1]
        BY <2>2, <2>3, <3>1
      <3> QED BY <2>1, <2>5, <3>2
    <2>6. CASE n > c
      <3>1. t[n] = s[n] - f[c] + v /\ f[c] <= s[n] /\ g[n] = f[n]
        BY <1>4, <2>1, <2>3, <2>6
      <3>2. t[n + 1] = s[n + 1] - f[c] + v /\ f[c] <= s[n + 1]
        BY <2>2, <2>3, <3>1
      <3> QED BY <2>1, <2>6, <3>2
    <2> QED BY <2>1, <2>4, <2>5, <2>6
  <1>5. NumChannels \in S
    <2> HIDE DEF S
    <2>1. 0 .. NumChannels \subseteq S
      BY <1>0, <1>3, <1>4, UpTo
    <2> QED BY <1>0, <2>1
  <1>6. NumChannels > c
    BY <1>0
  <1> QED BY <1>5, <1>6

(* The sums that InTables is. *)
SumTo(f) == CHOOSE s : s = [n \in 0 .. NumChannels |-> IF n = 0 THEN 0 ELSE s[n - 1] + f[n - 1]]

LEMMA TablesAre ==
    /\ InTables = SumTo(tbl) /\ InTables' = SumTo(tbl')
    /\ \A f \in [Channels -> Nat] : Sums(SumTo(f), f)
  <1>1. InTables = SumTo(tbl)
    BY DEF InTables, SumTo
  <1>2. InTables' = SumTo(tbl')
    BY DEF InTables, SumTo
  <1>3. ASSUME NEW f \in [Channels -> Nat] PROVE Sums(SumTo(f), f)
    <2>1. PICK s : s = [n \in 0 .. NumChannels |-> IF n = 0 THEN 0 ELSE s[n - 1] + f[n - 1]]
      BY SumsExist DEF Sums
    <2> QED BY <2>1 DEF Sums, SumTo
  <1> QED BY <1>1, <1>2, <1>3

(* One table is changed: the descriptors in all tables change by as many. *)
LEMMA TableChanged ==
    ASSUME tbl \in [Channels -> Nat], NEW c \in Channels, NEW v \in Nat,
           tbl' = [tbl EXCEPT ![c] = v]
    PROVE  /\ tbl' \in [Channels -> Nat] /\ tbl[c] \in Nat
           /\ InTables[NumChannels] \in Nat /\ tbl[c] <= InTables[NumChannels]
           /\ InTables'[NumChannels] = InTables[NumChannels] - tbl[c] + v
  <1>1. tbl' \in [Channels -> Nat] /\ tbl[c] \in Nat
    OBVIOUS
  <1>2. Sums(InTables, tbl) /\ Sums(InTables', tbl')
    BY <1>1, TablesAre
  <1>3. InTables[NumChannels] \in Nat
    <2>1. NumChannels \in 0 .. NumChannels
      BY ChannelFacts
    <2> QED BY <1>2, <2>1, SumFacts
  <1>4. PICK f : f = tbl
    OBVIOUS
  <1>5. PICK s : s = InTables
    OBVIOUS
  <1>6. PICK t : t = InTables'
    OBVIOUS
  <1>7. f \in [Channels -> Nat] /\ Sums(s, f) /\ Sums(t, [f EXCEPT ![c] = v])
    BY <1>2, <1>4, <1>5, <1>6
  <1>8. t[NumChannels] = s[NumChannels] - f[c] + v /\ f[c] <= s[NumChannels]
    BY <1>7, SumChanged
  <1> QED BY <1>1, <1>3, <1>4, <1>5, <1>6, <1>8

LEMMA TablesKept ==
    ASSUME tbl \in [Channels -> Nat], tbl' = tbl
    PROVE  InTables'[NumChannels] = InTables[NumChannels] /\ InTables[NumChannels] \in Nat
  <1>1. InTables' = InTables
    BY TablesAre
  <1>2. NumChannels \in 0 .. NumChannels
    BY ChannelFacts
  <1>3. Sums(InTables, tbl)
    BY TablesAre
  <1> QED BY <1>1, <1>2, <1>3, SumFacts

-----------------------------------------------------------------------------
(* How a request is split, and what its descriptors describe *)

LEMMA SplitOne ==
    ASSUME NEW n \in 1 .. MaxTxCnt
    PROVE  Split(n, 1)
  BY ChannelFacts DEF Split

LEMMA SplitChain ==
    ASSUME NEW n \in Nat, n > MaxTxCnt, n % MaxTxCnt # 0
    PROVE  Split(n, n \div MaxTxCnt + 1)
  <1> DEFINE q == n \div MaxTxCnt
             m == n % MaxTxCnt
  <1>0. MaxTxCnt \in Nat /\ MaxTxCnt > 0
    BY ChannelFacts
  <1>1. q \in Int /\ m \in 1 .. MaxTxCnt - 1 /\ n = q * MaxTxCnt + m
    BY <1>0
  <1> HIDE DEF q, m
  <1>2. ASSUME NEW i \in 1 .. q PROVE n - (i - 1) * MaxTxCnt > MaxTxCnt
    <2>1. q - i \in Nat
      BY <1>1
    <2>2. (q - i) * MaxTxCnt >= 0
      BY <1>0, <2>1
    <2>3. (q - i) * MaxTxCnt = q * MaxTxCnt - (i - 1) * MaxTxCnt - MaxTxCnt
      BY <1>0, <1>1
    <2>4. (i - 1) * MaxTxCnt \in Int /\ q * MaxTxCnt \in Int
      BY <1>0, <1>1
    <2> QED BY <1>0, <1>1, <2>2, <2>3, <2>4
  <1>3. (q + 1) - 1 = q
    BY <1>1
  <1>4. n - q * MaxTxCnt \in 1 .. MaxTxCnt
    <2>1. q * MaxTxCnt \in Int
      BY <1>0, <1>1
    <2> QED BY <1>0, <1>1, <2>1
  <1>5. Split(n, q + 1)
    BY <1>2, <1>3, <1>4 DEF Split
  <1> QED BY <1>5 DEF q

LEMMA TxCntFits ==
    ASSUME NEW n \in 1 .. MaxTxCnt
    PROVE  TxCnt(n) = n
  <1>0. MaxTxCnt \in Nat /\ MaxTxCnt > 0
    BY ChannelFacts
  <1>1. n - 1 \in 0 .. MaxTxCnt - 1
    BY <1>0
  <1>2. (n - 1) % MaxTxCnt = n - 1
    BY <1>0, <1>1
  <1> QED BY <1>0, <1>2 DEF TxCnt

(* The address A units of w bytes further on, if addresses are counted up *)
Further(on, addr, A, w) == IF on THEN addr + A * w ELSE addr

IsUnion(x, y, z) == x \cup y = z

(* A block of units, and the block that follows it *)
LEMMA CellsJoin ==
    ASSUME NEW src \in Nat, NEW dst \in Nat, NEW w \in {1, 2, 4},
           NEW step \in BOOLEAN \X BOOLEAN, NEW A \in Nat, NEW cnt \in Nat,
           NEW s2, s2 = Further(step[1], src, A, w),
           NEW d2, d2 = Further(step[2], dst, A, w)
    PROVE  IsUnion(Cells(src, dst, w, step, A), Cells(s2, d2, w, step, cnt),
                   Cells(src, dst, w, step, A + cnt))
  <1> DEFINE F(j) == <<IF step[1] THEN src + j * w ELSE src,
                       IF step[2] THEN dst + j * w ELSE dst>>
             G(j) == <<IF step[1] THEN s2 + j * w ELSE s2,
                       IF step[2] THEN d2 + j * w ELSE d2>>
  <1>1. ASSUME NEW j \in Nat PROVE G(j) = F(A + j)
    <2>1. CASE w = 1
      BY <2>1 DEF Further
    <2>2. CASE w = 2
      BY <2>2 DEF Further
    <2>3. CASE w = 4
      BY <2>3 DEF Further
    <2> QED BY <2>1, <2>2, <2>3
  <1>2. /\ Cells(src, dst, w, step, A) = {F(j) : j \in 0 .. A - 1}
        /\ Cells(s2, d2, w, step, cnt) = {G(j) : j \in 0 .. cnt - 1}
        /\ Cells(src, dst, w, step, A + cnt) = {F(j) : j \in 0 .. A + cnt - 1}
    BY DEF Cells
  <1> HIDE DEF F, G
  <1>3. {G(j) : j \in 0 .. cnt - 1} = {F(j) : j \in A .. A + cnt - 1}
    <2>1. ASSUME NEW j \in 0 .. cnt - 1 PROVE G(j) \in {F(i) : i \in A .. A + cnt - 1}
      <3>1. A + j \in A .. A + cnt - 1 /\ G(j) = F(A + j)
        BY <1>1
      <3> QED BY <3>1
    <2>2. ASSUME NEW i \in A .. A + cnt - 1 PROVE F(i) \in {G(j) : j \in 0 .. cnt - 1}
      <3>1. i - A \in 0 .. cnt - 1 /\ A + (i - A) = i /\ i - A \in Nat
        OBVIOUS
      <3>2. G(i - A) = F(i)
        BY <1>1, <3>1
      <3> QED BY <3>1, <3>2
    <2> QED BY <2>1, <2>2
  <1>4. 0 .. A + cnt - 1 = (0 .. A - 1) \cup (A .. A + cnt - 1)
    OBVIOUS
  <1> QED BY <1>2, <1>3, <1>4 DEF IsUnion


(* The descriptor of a walk's k-th part, and the units it adds *)
LEMMA DescMoves ==
    ASSUME NEW r \in Requests, NEW step \in BOOLEAN \X BOOLEAN, NEW num \in Nat \ {0},
           NEW k \in 1 .. num, Split(r.n, num)
    PROVE  LET d == DescOf(step, r, k, num)
               A == (k - 1) * MaxTxCnt
           IN  /\ A \in Nat
               /\ d.cnt \in Nat
               /\ A + d.cnt = IF k = num THEN r.n ELSE k * MaxTxCnt
               /\ Cells(r.src, r.dst, r.w, step, A)
                     \cup Cells(d.src, d.dst, d.w, d.step, d.cnt)
                  = Cells(r.src, r.dst, r.w, step, A + d.cnt)
  <1> DEFINE d == DescOf(step, r, k, num)
             A == (k - 1) * MaxTxCnt
  <1>0. /\ MaxTxCnt \in Nat /\ MaxTxCnt > 0
        /\ r.n \in Nat /\ r.src \in Nat /\ r.dst \in Nat /\ r.w \in {1, 2, 4}
    BY ChannelFacts
  <1>1. A \in Nat
    BY <1>0
  <1>2. /\ d.cnt = TxCnt(IF r.n - A > MaxTxCnt THEN MaxTxCnt ELSE r.n - A)
        /\ d.src = IF step[1] THEN r.src + A * r.w ELSE r.src
        /\ d.dst = IF step[2] THEN r.dst + A * r.w ELSE r.dst
        /\ d.w = r.w /\ d.step = step
    BY DEF DescOf
  <1>3. A + MaxTxCnt = k * MaxTxCnt
    BY <1>0
  <1>6. \A cnt \in Nat : Cells(r.src, r.dst, r.w, step, A) \cup Cells(d.src, d.dst, d.w, d.step, cnt)
                         = Cells(r.src, r.dst, r.w, step, A + cnt)
    <2> HIDE DEF A, d
    <2>1. PICK src \in Nat, dst \in Nat, w \in {1, 2, 4} : src = r.src /\ dst = r.dst /\ w = r.w
      BY <1>0
    <2>2. PICK s2, d2 : s2 = d.src /\ d2 = d.dst
      OBVIOUS
    <2>3. /\ s2 = Further(step[1], src, A, w) /\ d2 = Further(step[2], dst, A, w)
          /\ w = d.w /\ step = d.step
      BY <1>2, <2>1, <2>2 DEF Further
    <2>4. ASSUME NEW cnt \in Nat
          PROVE  IsUnion(Cells(src, dst, w, step, A), Cells(s2, d2, w, step, cnt),
                         Cells(src, dst, w, step, A + cnt))
      BY <1>1, <2>3, CellsJoin
    <2> QED BY <2>1, <2>2, <2>3, <2>4 DEF IsUnion
  <1>4. CASE k = num
    <2>1. r.n - A \in 1 .. MaxTxCnt
      BY <1>4 DEF Split
    <2> HIDE DEF A, d
    <2>2. d.cnt = r.n - A
      <3>1. ~(r.n - A > MaxTxCnt)
        BY <1>0, <2>1
      <3> QED BY <1>2, <2>1, <3>1, TxCntFits
    <2>3. d.cnt \in Nat /\ A + d.cnt = r.n
      BY <1>0, <1>1, <2>1, <2>2
    <2>4. Cells(r.src, r.dst, r.w, step, A) \cup Cells(d.src, d.dst, d.w, d.step, d.cnt)
          = Cells(r.src, r.dst, r.w, step, A + d.cnt)
      BY <1>6, <2>3
    <2> QED BY <1>1, <1>4, <2>3, <2>4 DEF A, d
  <1>5. CASE k # num
    <2>0. k \in 1 .. num - 1
      BY <1>5
    <2>1. r.n - A > MaxTxCnt
      BY <2>0 DEF Split
    <2> HIDE DEF A, d
    <2>2. d.cnt = MaxTxCnt
      <3>1. MaxTxCnt \in 1 .. MaxTxCnt
        BY <1>0
      <3> QED BY <1>2, <2>1, <3>1, TxCntFits
    <2>3. d.cnt \in Nat /\ A + d.cnt = k * MaxTxCnt
      BY <1>0, <1>3, <2>2
    <2>4. Cells(r.src, r.dst, r.w, step, A) \cup Cells(d.src, d.dst, d.w, d.step, d.cnt)
          = Cells(r.src, r.dst, r.w, step, A + d.cnt)
      BY <1>6, <2>3
    <2> QED BY <1>1, <1>5, <2>3, <2>4 DEF A, d
  <1> QED BY <1>4, <1>5

(* The engine's next descriptor is the k-th, and what it leaves *)
LEMMA NextDesc ==
    ASSUME NEW r \in Requests, NEW step \in BOOLEAN \X BOOLEAN, NEW num \in Nat \ {0},
           NEW k \in 1 .. num, NEW todo, todo = Descs(step, r, num, k)
    PROVE  /\ FirstOf(todo) = DescOf(step, r, k, num)
           /\ todo \ {DescOf(step, r, k, num)} = Descs(step, r, num, k + 1)
           /\ todo = {DescOf(step, r, k, num)} <=> k = num
           /\ DescOf(step, r, k, num).silent = (k # num)
  <1> DEFINE D(i) == DescOf(step, r, i, num)
  <1>1. \A i \in k .. num : D(i).i = i
    BY DEF DescOf
  <1>2. D(k).silent = (k # num)
    BY DEF DescOf
  <1> HIDE DEF D
  <1>3. /\ todo = {D(i) : i \in k .. num}
        /\ Descs(step, r, num, k + 1) = {D(i) : i \in k + 1 .. num}
    BY DEF D, Descs
  <1>4. D(k) \in todo /\ \A y \in todo : D(k).i <= y.i
    <2>1. k \in k .. num
      OBVIOUS
    <2>2. ASSUME NEW y \in todo PROVE D(k).i <= y.i
      <3>1. PICK j \in k .. num : y = D(j)
        BY <1>3
      <3>2. D(k).i = k /\ y.i = j
        BY <1>1, <2>1, <3>1
      <3> QED BY <3>2
    <2> QED BY <1>3, <2>1, <2>2
  <1>5. ASSUME NEW x \in todo, \A y \in todo : x.i <= y.i PROVE x = D(k)
    <2>1. PICK j \in k .. num : x = D(j)
      BY <1>3
    <2>2. x.i <= D(k).i /\ x.i = j /\ D(k).i = k
      BY <1>1, <1>4, <1>5, <2>1
    <2>3. j = k
      BY <2>2
    <2> QED BY <2>1, <2>3
  <1>6. FirstOf(todo) = D(k)
    BY <1>4, <1>5 DEF FirstOf
  <1>7. todo \ {D(k)} = Descs(step, r, num, k + 1)
    <2>1. \A i \in k + 1 .. num : D(i) # D(k) /\ i \in k .. num
      BY <1>1
    <2>2. \A i \in k .. num : i = k \/ i \in k + 1 .. num
      OBVIOUS
    <2> QED BY <1>3, <2>1, <2>2
  <1>8. CASE k = num
    <2>1. \A i \in k .. num : i = k
      BY <1>8
    <2>2. todo = {D(k)}
      BY <1>3, <1>4, <2>1
    <2> QED BY <1>2, <1>6, <1>7, <1>8, <2>2 DEF D
  <1>9. CASE k # num
    <2>1. num \in k .. num /\ num # k
      BY <1>9
    <2>2. D(num) \in todo /\ D(num) # D(k)
      BY <1>1, <1>3, <2>1
    <2>3. todo # {D(k)}
      BY <2>2
    <2> QED BY <1>2, <1>6, <1>7, <1>9, <2>3 DEF D
  <1> QED BY <1>8, <1>9

-----------------------------------------------------------------------------
(* The engine of one channel *)

LEMMA EngineIdle == \A b : Engine(Idle, b)
  BY DEF Engine, Idle

(* _nu_pdma_transfer gives the engine a request from its first descriptor. *)
LEMMA EngineStarted ==
    ASSUME NEW r \in Requests, NEW step \in BOOLEAN \X BOOLEAN, NEW num \in Nat \ {0},
           NoMultiples => Split(r.n, num)
    PROVE  Engine([st |-> "busy", todo |-> {DescOf(step, r, i, num) : i \in 1 .. num},
                   moved |-> 0, cells |-> {},
                   want |-> Cells(r.src, r.dst, r.w, step, r.n), n |-> r.n], TRUE)
  <1> DEFINE e == [st |-> "busy", todo |-> {DescOf(step, r, i, num) : i \in 1 .. num},
                   moved |-> 0, cells |-> {},
                   want |-> Cells(r.src, r.dst, r.w, step, r.n), n |-> r.n]
  <1>1. (1 - 1) * MaxTxCnt = 0 /\ 1 \in 1 .. num
    BY ChannelFacts
  <1>2. Cells(r.src, r.dst, r.w, step, 0) = {}
    <2>1. 0 .. 0 - 1 = {}
      OBVIOUS
    <2> QED BY <2>1 DEF Cells
  <1>3. Walk(e, step, r, num, 1)
    BY <1>1, <1>2 DEF Walk, Descs
  <1>4. e.st = "busy"
        /\ e = [st |-> e.st, todo |-> e.todo, moved |-> e.moved, cells |-> e.cells,
                want |-> e.want, n |-> e.n]
    OBVIOUS
  <1> HIDE DEF e
  <1>5. Walks(e)
    BY <1>1, <1>3 DEF Walks
  <1>6. Engine(e, TRUE)
    BY <1>4, <1>5 DEF Engine
  <1> QED BY <1>6 DEF e

(* The engine works off a descriptor: it goes on, or ends having moved     *)
(* what was asked for.                                                     *)
LEMMA EngineStepped ==
    ASSUME NEW e, Engine(e, TRUE), e.st = "busy"
    PROVE  LET d == CHOOSE x \in e.todo : \A y \in e.todo : x.i <= y.i
               e2 == [e EXCEPT !.todo = @ \ {d}, !.moved = @ + d.cnt,
                               !.st = IF e.todo = {d} THEN "done" ELSE "busy",
                               !.cells = @ \cup Cells(d.src, d.dst, d.w, d.step, d.cnt)]
           IN  d.silent \in BOOLEAN /\ Engine(e2, d.silent)
  <1> DEFINE d == CHOOSE x \in e.todo : \A y \in e.todo : x.i <= y.i
             e2 == [e EXCEPT !.todo = @ \ {d}, !.moved = @ + d.cnt,
                             !.st = IF e.todo = {d} THEN "done" ELSE "busy",
                             !.cells = @ \cup Cells(d.src, d.dst, d.w, d.step, d.cnt)]
  <1>0. PICK r \in Requests, step \in BOOLEAN \X BOOLEAN, num \in Nat \ {0} :
            \E k \in 1 .. num : Walk(e, step, r, num, k)
    BY DEF Engine, Walks
  <1>1. PICK k \in 1 .. num : Walk(e, step, r, num, k)
    BY <1>0
  <1>2. /\ e.todo = Descs(step, r, num, k)
        /\ e.want = Cells(r.src, r.dst, r.w, step, r.n) /\ e.n = r.n
        /\ NoMultiples =>
              /\ Split(r.n, num)
              /\ e.moved = (k - 1) * MaxTxCnt
              /\ e.cells = Cells(r.src, r.dst, r.w, step, (k - 1) * MaxTxCnt)
    BY <1>1 DEF Walk
  <1>3. e = [st |-> e.st, todo |-> e.todo, moved |-> e.moved, cells |-> e.cells,
             want |-> e.want, n |-> e.n]
    BY DEF Engine
  <1>4. /\ d = DescOf(step, r, k, num)
        /\ e.todo \ {d} = Descs(step, r, num, k + 1)
        /\ e.todo = {d} <=> k = num
        /\ d.silent = (k # num)
    <2>1. PICK todo : todo = e.todo
      OBVIOUS
    <2>2. /\ FirstOf(todo) = DescOf(step, r, k, num)
          /\ todo \ {DescOf(step, r, k, num)} = Descs(step, r, num, k + 1)
          /\ todo = {DescOf(step, r, k, num)} <=> k = num
          /\ DescOf(step, r, k, num).silent = (k # num)
      <3>1. todo = Descs(step, r, num, k)
        BY <1>2, <2>1
      <3> QED BY <3>1, NextDesc
    <2>3. d = DescOf(step, r, k, num)
      BY <2>1, <2>2 DEF FirstOf
    <2> HIDE DEF d
    <2> QED BY <2>1, <2>2, <2>3
  <1>5. NoMultiples =>
           /\ e.moved + d.cnt = IF k = num THEN r.n ELSE k * MaxTxCnt
           /\ e.cells \cup Cells(d.src, d.dst, d.w, d.step, d.cnt)
              = Cells(r.src, r.dst, r.w, step, IF k = num THEN r.n ELSE k * MaxTxCnt)
    <2> HIDE DEF d
    <2> SUFFICES ASSUME NoMultiples
                 PROVE  /\ e.moved + d.cnt = IF k = num THEN r.n ELSE k * MaxTxCnt
                        /\ e.cells \cup Cells(d.src, d.dst, d.w, d.step, d.cnt)
                           = Cells(r.src, r.dst, r.w, step, IF k = num THEN r.n ELSE k * MaxTxCnt)
      OBVIOUS
    <2>1. Split(r.n, num)
      BY <1>2
    <2>2. PICK x : x = DescOf(step, r, k, num)
      OBVIOUS
    <2>3. PICK A : A = (k - 1) * MaxTxCnt
      OBVIOUS
    <2>4. /\ A + x.cnt = IF k = num THEN r.n ELSE k * MaxTxCnt
          /\ Cells(r.src, r.dst, r.w, step, A) \cup Cells(x.src, x.dst, x.w, x.step, x.cnt)
             = Cells(r.src, r.dst, r.w, step, A + x.cnt)
      BY SMTT(30), <2>1, <2>2, <2>3, DescMoves
    <2>5. x = d /\ A = e.moved /\ Cells(r.src, r.dst, r.w, step, A) = e.cells
      BY <1>2, <1>4, <2>2, <2>3
    <2> QED BY <2>4, <2>5
  <1> HIDE DEF d
  <1>6. /\ e2 = [st |-> e2.st, todo |-> e2.todo, moved |-> e2.moved, cells |-> e2.cells,
                 want |-> e2.want, n |-> e2.n]
        /\ e2.st = IF e.todo = {d} THEN "done" ELSE "busy"
        /\ e2.todo = e.todo \ {d} /\ e2.moved = e.moved + d.cnt
        /\ e2.cells = e.cells \cup Cells(d.src, d.dst, d.w, d.step, d.cnt)
        /\ e2.want = e.want /\ e2.n = e.n
    <2>1. PICK a1, a2, a3, a4, a5, a6 :
             /\ a1 = e.st /\ a2 = e.todo /\ a3 = e.moved /\ a4 = e.cells /\ a5 = e.want /\ a6 = e.n
             /\ e = [st |-> a1, todo |-> a2, moved |-> a3, cells |-> a4, want |-> a5, n |-> a6]
      BY <1>3
    <2>2. PICK b1, b2, b3, b4 :
             /\ b1 = (IF e.todo = {d} THEN "done" ELSE "busy") /\ b2 = e.todo \ {d}
             /\ b3 = e.moved + d.cnt
             /\ b4 = e.cells \cup Cells(d.src, d.dst, d.w, d.step, d.cnt)
      OBVIOUS
    <2>3. e2 = [e EXCEPT !.todo = b2, !.moved = b3, !.st = b1, !.cells = b4]
      BY <2>2
    <2>4. e2 = [st |-> b1, todo |-> b2, moved |-> b3, cells |-> b4, want |-> a5, n |-> a6]
      <3> HIDE DEF e2
      <3> QED BY ONLY <2>1, <2>3
    <2> HIDE DEF e2
    <2> QED BY <2>1, <2>2, <2>4
  <1> HIDE DEF e2
  <1>7. d.silent \in BOOLEAN
    BY <1>4
  <1>8. CASE k = num
    <2>1. e2.st = "done" /\ (NoMultiples => e2.moved = e2.n /\ e2.cells = e2.want)
      BY <1>2, <1>4, <1>5, <1>6, <1>8
    <2>2. Engine(e2, d.silent)
      BY <1>6, <2>1 DEF Engine
    <2> QED BY <1>7, <2>2 DEF e2, d
  <1>9. CASE k # num
    <2>1. e2.st = "busy" /\ d.silent
      BY <1>4, <1>6, <1>9
    <2>2. k + 1 \in 1 .. num /\ (k + 1) - 1 = k
      BY <1>9
    <2>3. Walk(e2, step, r, num, k + 1)
      BY <1>2, <1>4, <1>5, <1>6, <1>9, <2>2 DEF Walk
    <2>4. Walks(e2)
      BY <2>2, <2>3 DEF Walks
    <2>5. Engine(e2, d.silent)
      BY <1>6, <2>1, <2>4 DEF Engine
    <2> QED BY <1>7, <2>5 DEF e2, d
  <1> QED BY <1>8, <1>9


-----------------------------------------------------------------------------
(* The invariant *)

LEMMA SumOfNone ==
    ASSUME NEW f, f = [c \in Channels |-> 0], NEW s, Sums(s, f)
    PROVE  s[NumChannels] = 0
  <1>0. NumChannels \in Nat /\ Channels = 0 .. NumChannels - 1
    BY ChannelFacts
  <1> DEFINE S == {n \in 0 .. NumChannels : s[n] = 0}
  <1>1. \A n \in 0 .. NumChannels : s[n] = IF n = 0 THEN 0 ELSE s[n - 1] + f[n - 1]
    BY DEF Sums
  <1>2. 0 \in S
    BY <1>0, <1>1
  <1>3. ASSUME NEW n \in 0 .. NumChannels - 1, n \in S PROVE n + 1 \in S
    <2>1. n + 1 \in 0 .. NumChannels /\ n + 1 # 0 /\ (n + 1) - 1 = n /\ n \in Channels
      BY <1>0
    <2>2. s[n + 1] = s[n] + f[n] /\ s[n] = 0 /\ f[n] = 0
      BY <1>1, <1>3, <2>1
    <2> QED BY <2>1, <2>2
  <1>4. 0 .. NumChannels \subseteq S
    <2> HIDE DEF S
    <2> QED BY <1>0, <1>2, <1>3, UpTo
  <1> QED BY <1>0, <1>4

LEMMA ChannelInit == Init => ChannelInv
  <1> SUFFICES ASSUME Init PROVE ChannelInv
    OBVIOUS
  <1>1. TypeOK
    <2>1. engine = [c \in Channels |-> Idle] /\ Idle.st = "idle"
      BY DEF Init, Idle
    <2>2. \A c \in Channels : engine[c].st \in {"idle", "busy", "done"}
      BY <2>1
    <2>3. /\ mask \subseteq Channels
          /\ kind \in [Channels -> {"MEM", "TX", "RX"}]
          /\ inc \in [Channels -> BOOLEAN \X BOOLEAN]
          /\ tbl \in [Channels -> Nat] /\ wanted \in [Channels -> Nat]
          /\ live \in Nat
          /\ waiting \in [Channels -> BOOLEAN]
          /\ fault \in BOOLEAN
      BY DEF Init
    <2> QED BY <2>2, <2>3 DEF TypeOK
  <1>2. Engines
    <2>1. engine = [c \in Channels |-> Idle]
      BY DEF Init
    <2>2. \A c \in Channels : engine[c] = Idle
      BY <2>1
    <2>3. engine = [c \in Channels |-> engine[c]]
      BY <2>1
    <2> QED BY <2>2, <2>3, EngineIdle DEF Engines
  <1>3. Heap
    <2>1. tbl = [c \in Channels |-> 0] /\ live = 0 /\ tbl \in [Channels -> Nat]
      BY DEF Init
    <2>2. Sums(InTables, tbl)
      BY <2>1, TablesAre
    <2>3. InTables[NumChannels] = 0
      BY <2>1, <2>2, SumOfNone
    <2> QED BY <2>1, <2>3 DEF Heap
  <1> QED BY <1>1, <1>2, <1>3 DEF ChannelInv

(* One channel's engine is replaced. *)
LEMMA EnginesStep ==
    ASSUME Engines, waiting \in [Channels -> BOOLEAN], NEW c \in Channels, NEW e,
           NEW a \in BOOLEAN, Engine(e, a),
           engine' = [engine EXCEPT ![c] = e], waiting' = [waiting EXCEPT ![c] = a]
    PROVE  /\ Engines'
           /\ waiting' \in [Channels -> BOOLEAN]
           /\ \A x \in Channels : engine'[x].st \in {"idle", "busy", "done"}
  <1>1. engine = [x \in Channels |-> engine[x]]
    BY DEF Engines
  <1>2. engine' = [x \in Channels |-> engine'[x]] /\ engine'[c] = e
        /\ \A x \in Channels : x # c => engine'[x] = engine[x]
    BY <1>1
  <1>3. waiting'[c] = a /\ (\A x \in Channels : x # c => waiting'[x] = waiting[x])
        /\ waiting' \in [Channels -> BOOLEAN]
    OBVIOUS
  <1>4. ASSUME NEW x \in Channels PROVE Engine(engine'[x], waiting'[x])
    <2>1. CASE x = c
      BY <1>2, <1>3, <2>1
    <2>2. CASE x # c
      <3>1. Engine(engine[x], waiting[x])
        BY DEF Engines
      <3> QED BY <1>2, <1>3, <2>2, <3>1
    <2> QED BY <2>1, <2>2
  <1>5. Engines'
    BY <1>2, <1>4 DEF Engines
  <1>6. \A x \in Channels : engine'[x].st \in {"idle", "busy", "done"}
    BY <1>4 DEF Engine
  <1> QED BY <1>3, <1>5, <1>6

(* An engine is stopped and nothing else changes for the drivers. *)
LEMMA EnginesStopped ==
    ASSUME Engines, waiting \in [Channels -> BOOLEAN], NEW c \in Channels,
           engine' = [engine EXCEPT ![c] = Idle],
           waiting' = [waiting EXCEPT ![c] = FALSE]
    PROVE  /\ Engines'
           /\ waiting' \in [Channels -> BOOLEAN]
           /\ \A x \in Channels : engine'[x].st \in {"idle", "busy", "done"}
  <1>1. PICK e : e = Idle
    OBVIOUS
  <1>2. Engine(e, FALSE) /\ FALSE \in BOOLEAN /\ engine' = [engine EXCEPT ![c] = e]
    BY <1>1, EngineIdle
  <1> QED BY <1>2, EnginesStep

LEMMA EnginesKept ==
    ASSUME Engines, TypeOK, engine' = engine, waiting' = waiting
    PROVE  /\ Engines'
           /\ waiting' \in [Channels -> BOOLEAN]
           /\ \A x \in Channels : engine'[x].st \in {"idle", "busy", "done"}
  BY DEF Engines, TypeOK

(* Starting a request *)
LEMMA EnginesStarted ==
    ASSUME Engines, TypeOK, NEW c \in Channels, NEW r \in Requests, NEW num \in Nat \ {0},
           NoMultiples => Split(r.n, num), Start(c, r, num)
    PROVE  /\ Engines'
           /\ waiting' \in [Channels -> BOOLEAN]
           /\ \A x \in Channels : engine'[x].st \in {"idle", "busy", "done"}
  <1>1. PICK step \in BOOLEAN \X BOOLEAN : step = inc[c]
    BY DEF TypeOK
  <1>2. \A i : Desc(c, r, i, num) = DescOf(step, r, i, num)
    BY <1>1 DEF Desc, DescOf
  <1> DEFINE todo == {DescOf(step, r, i, num) : i \in 1 .. num}
             e == [st |-> "busy", todo |-> todo, moved |-> 0, cells |-> {},
                   want |-> Cells(r.src, r.dst, r.w, step, r.n), n |-> r.n]
  <1>3. {Desc(c, r, i, num) : i \in 1 .. num} = todo
    BY <1>2
  <1>4. Engine(e, TRUE)
    BY EngineStarted
  <1>5. engine' = [engine EXCEPT ![c] = e] /\ waiting' = [waiting EXCEPT ![c] = TRUE]
    <2> HIDE DEF todo
    <2> QED BY <1>1, <1>3 DEF Start
  <1>6. waiting \in [Channels -> BOOLEAN] /\ TRUE \in BOOLEAN
    BY DEF TypeOK
  <1> HIDE DEF e
  <1> QED BY <1>4, <1>5, <1>6, EnginesStep

(* The channel Allocate takes *)
LEMMA FirstFree ==
    ASSUME mask \subseteq Channels, mask # Channels
    PROVE  Min(Channels \ mask) \in Channels \ mask
  <1> DEFINE S == Channels \ mask
  <1>0. Channels \subseteq Nat
    BY ChannelFacts
  <1>1. S \in SUBSET Nat /\ S # {}
    BY <1>0
  <1> HIDE DEF S
  <1>2. \E x \in S : \A y \in S : x <= y
    BY <1>1, LeastOf
  <1>3. Min(S) \in S
    BY <1>2 DEF Min
  <1> QED BY <1>3 DEF S


-----------------------------------------------------------------------------
(* What the steps do to the heap *)

(* What TransfersLeakNothing says of a step *)
LeakStep == Leaked' = Leaked \/ (Leaked' > Leaked /\ mask' \ mask # {})

HeapTypes == tbl \in [Channels -> Nat] /\ live \in Nat

LEMMA HeapKept ==
    ASSUME HeapTypes, Heap, tbl' = tbl, live' = live
    PROVE  HeapTypes' /\ Heap' /\ LeakStep
  <1>1. InTables'[NumChannels] = InTables[NumChannels]
    BY TablesKept DEF HeapTypes
  <1> QED BY <1>1 DEF HeapTypes, Heap, LeakStep, Leaked

(* The descriptors of a table are freed and v others allocated. *)
LEMMA HeapChanged ==
    ASSUME HeapTypes, Heap, NEW c \in Channels, NEW v \in Nat,
           tbl' = [tbl EXCEPT ![c] = v], live' = LiveWithout(c) + v
    PROVE  HeapTypes' /\ Heap' /\ LeakStep
  <1>1. /\ tbl' \in [Channels -> Nat] /\ tbl[c] \in Nat
        /\ InTables[NumChannels] \in Nat /\ tbl[c] <= InTables[NumChannels]
        /\ InTables'[NumChannels] = InTables[NumChannels] - tbl[c] + v
    BY TableChanged DEF HeapTypes
  <1>2. live \in Nat /\ InTables[NumChannels] <= live /\ live' = live - tbl[c] + v
    BY DEF HeapTypes, Heap, LiveWithout
  <1>3. live' \in Nat /\ InTables'[NumChannels] <= live'
        /\ live' - InTables'[NumChannels] = live - InTables[NumChannels]
    BY <1>1, <1>2
  <1> QED BY <1>1, <1>3 DEF HeapTypes, Heap, LeakStep, Leaked

(* A channel is allocated: its table is forgotten. *)
LEMMA HeapForgotten ==
    ASSUME HeapTypes, Heap, NEW c \in Channels, c \notin mask, mask' = mask \cup {c},
           tbl' = [tbl EXCEPT ![c] = 0], live' = live
    PROVE  HeapTypes' /\ Heap' /\ LeakStep
  <1>1. /\ tbl' \in [Channels -> Nat] /\ tbl[c] \in Nat
        /\ InTables[NumChannels] \in Nat /\ tbl[c] <= InTables[NumChannels]
        /\ InTables'[NumChannels] = InTables[NumChannels] - tbl[c] + 0
    <2>1. 0 \in Nat
      OBVIOUS
    <2> QED BY <2>1, TableChanged DEF HeapTypes
  <1>2. live \in Nat /\ InTables[NumChannels] <= live
    BY DEF HeapTypes, Heap
  <1>3. mask' \ mask # {}
    OBVIOUS
  <1>4. /\ InTables'[NumChannels] <= live'
        /\ \/ live' - InTables'[NumChannels] = live - InTables[NumChannels]
           \/ live' - InTables'[NumChannels] > live - InTables[NumChannels]
    BY <1>1, <1>2
  <1> QED BY <1>1, <1>2, <1>3, <1>4 DEF HeapTypes, Heap, LeakStep, Leaked

(* The parts of the invariant a step has to re-establish *)
LEMMA ChannelParts ==
    /\ ChannelInv => /\ TypeOK /\ Engines /\ Heap /\ HeapTypes
                     /\ waiting \in [Channels -> BOOLEAN]
    /\ /\ Engines' /\ waiting' \in [Channels -> BOOLEAN]
       /\ \A x \in Channels : engine'[x].st \in {"idle", "busy", "done"}
       /\ HeapTypes' /\ Heap'
       /\ mask' \subseteq Channels
       /\ kind' \in [Channels -> {"MEM", "TX", "RX"}]
       /\ inc' \in [Channels -> BOOLEAN \X BOOLEAN]
       /\ wanted' \in [Channels -> Nat]
       /\ fault' \in BOOLEAN
       => ChannelInv'
  <1>1. ChannelInv => /\ TypeOK /\ Engines /\ Heap /\ HeapTypes
                      /\ waiting \in [Channels -> BOOLEAN]
    BY DEF ChannelInv, TypeOK, HeapTypes
  <1>2. ASSUME Engines', waiting' \in [Channels -> BOOLEAN],
               \A x \in Channels : engine'[x].st \in {"idle", "busy", "done"},
               HeapTypes', Heap', mask' \subseteq Channels,
               kind' \in [Channels -> {"MEM", "TX", "RX"}],
               inc' \in [Channels -> BOOLEAN \X BOOLEAN],
               wanted' \in [Channels -> Nat], fault' \in BOOLEAN
        PROVE  ChannelInv'
    BY <1>2 DEF ChannelInv, TypeOK, HeapTypes
  <1> QED BY <1>1, <1>2

-----------------------------------------------------------------------------
(* The actions *)

LEMMA AllocateStep ==
    ASSUME ChannelInv, NEW k \in Kinds, Allocate(k)
    PROVE  ChannelInv' /\ LeakStep
  <1>0. TypeOK /\ Engines /\ Heap /\ HeapTypes
    BY ChannelParts
  <1>1. PICK c : c = Min(Channels \ mask)
    OBVIOUS
  <1>2. c \in Channels /\ c \notin mask
    BY <1>0, <1>1, FirstFree DEF TypeOK, Allocate
  <1>3. /\ mask' = mask \cup {c}
        /\ kind' = [kind EXCEPT ![c] = k]
        /\ inc' = [inc EXCEPT ![c] = DefaultInc(k)]
        /\ tbl' = [tbl EXCEPT ![c] = 0]
        /\ wanted' = [wanted EXCEPT ![c] = 0]
        /\ engine' = [engine EXCEPT ![c] = Idle]
        /\ live' = live /\ waiting' = waiting /\ fault' = fault
    BY <1>1 DEF Allocate
  <1>4. HeapTypes' /\ Heap' /\ LeakStep
    BY <1>0, <1>2, <1>3, HeapForgotten
  <1>5. /\ Engines'
        /\ waiting' \in [Channels -> BOOLEAN]
        /\ \A x \in Channels : engine'[x].st \in {"idle", "busy", "done"}
    <2>1. PICK e : e = Idle
      OBVIOUS
    <2>2. PICK a \in BOOLEAN : a = waiting[c]
      BY <1>0, <1>2 DEF TypeOK
    <2>3. waiting' = [waiting EXCEPT ![c] = a] /\ waiting \in [Channels -> BOOLEAN]
      BY <1>0, <1>2, <1>3, <2>2 DEF TypeOK
    <2>4. Engine(e, a) /\ engine' = [engine EXCEPT ![c] = e]
      BY <1>3, <2>1, EngineIdle
    <2> QED BY <1>0, <1>2, <2>3, <2>4, EnginesStep
  <1>6. k \in {"MEM", "TX", "RX"} /\ DefaultInc(k) \in BOOLEAN \X BOOLEAN
    BY ChannelAssumption DEF DefaultInc
  <1>7. /\ mask' \subseteq Channels
        /\ kind' \in [Channels -> {"MEM", "TX", "RX"}]
        /\ inc' \in [Channels -> BOOLEAN \X BOOLEAN]
        /\ wanted' \in [Channels -> Nat]
        /\ fault' \in BOOLEAN
    BY <1>0, <1>2, <1>3, <1>6 DEF TypeOK
  <1> QED BY <1>4, <1>5, <1>7, ChannelParts

(* nu_pdma_channel_free, nu_pdma_channel_terminate, a bus error *)
LEMMA StopStep ==
    ASSUME ChannelInv, NEW c \in Channels, Free(c) \/ Terminate(c) \/ HwAbort(c)
    PROVE  ChannelInv' /\ LeakStep
  <1>0. TypeOK /\ Engines /\ Heap /\ HeapTypes /\ waiting \in [Channels -> BOOLEAN]
    BY ChannelParts
  <1>1. /\ mask' \subseteq mask
        /\ engine' = [engine EXCEPT ![c] = Idle]
        /\ waiting' = [waiting EXCEPT ![c] = FALSE]
        /\ kind' = kind /\ inc' = inc /\ tbl' = tbl /\ wanted' = wanted /\ live' = live
        /\ fault' = fault
    BY DEF Free, Terminate, HwAbort
  <1>2. HeapTypes' /\ Heap' /\ LeakStep
    BY <1>0, <1>1, HeapKept
  <1>3. /\ Engines'
        /\ waiting' \in [Channels -> BOOLEAN]
        /\ \A x \in Channels : engine'[x].st \in {"idle", "busy", "done"}
    BY <1>0, <1>1, EnginesStopped
  <1>4. /\ mask' \subseteq Channels
        /\ kind' \in [Channels -> {"MEM", "TX", "RX"}]
        /\ inc' \in [Channels -> BOOLEAN \X BOOLEAN]
        /\ wanted' \in [Channels -> Nat]
        /\ fault' \in BOOLEAN
    BY <1>0, <1>1 DEF TypeOK
  <1> QED BY <1>2, <1>3, <1>4, ChannelParts

LEMMA MemctrlSetStep ==
    ASSUME ChannelInv, NEW c \in Channels, NEW i \in BOOLEAN \X BOOLEAN, MemctrlSet(c, i)
    PROVE  ChannelInv' /\ LeakStep
  <1>0. TypeOK /\ Engines /\ Heap /\ HeapTypes
    BY ChannelParts
  <1>1. /\ inc' = [inc EXCEPT ![c] = i]
        /\ mask' = mask /\ kind' = kind /\ tbl' = tbl /\ wanted' = wanted /\ live' = live
        /\ waiting' = waiting /\ engine' = engine /\ fault' = fault
    BY DEF MemctrlSet
  <1>2. HeapTypes' /\ Heap' /\ LeakStep
    BY <1>0, <1>1, HeapKept
  <1>3. /\ Engines'
        /\ waiting' \in [Channels -> BOOLEAN]
        /\ \A x \in Channels : engine'[x].st \in {"idle", "busy", "done"}
    BY <1>0, <1>1, EnginesKept
  <1>4. /\ mask' \subseteq Channels
        /\ kind' \in [Channels -> {"MEM", "TX", "RX"}]
        /\ inc' \in [Channels -> BOOLEAN \X BOOLEAN]
        /\ wanted' \in [Channels -> Nat]
        /\ fault' \in BOOLEAN
    BY <1>0, <1>1 DEF TypeOK
  <1> QED BY <1>2, <1>3, <1>4, ChannelParts

LEMMA TransferStep ==
    ASSUME ChannelInv, NEW c \in Channels, NEW r \in Requests, Transfer(c, r)
    PROVE  ChannelInv' /\ LeakStep
  <1>0. TypeOK /\ Engines /\ Heap /\ HeapTypes
    BY ChannelParts
  <1>1. /\ r.n \in 1 .. MaxTxCnt
        /\ Start(c, r, 1)
        /\ mask' = mask /\ kind' = kind /\ inc' = inc /\ tbl' = tbl /\ wanted' = wanted
        /\ live' = live /\ fault' = fault
    BY DEF Transfer
  <1>2. HeapTypes' /\ Heap' /\ LeakStep
    BY <1>0, <1>1, HeapKept
  <1>3. Split(r.n, 1)
    BY <1>1, SplitOne
  <1>4. /\ Engines'
        /\ waiting' \in [Channels -> BOOLEAN]
        /\ \A x \in Channels : engine'[x].st \in {"idle", "busy", "done"}
    <2>1. 1 \in Nat \ {0}
      OBVIOUS
    <2> QED BY <1>0, <1>1, <1>3, <2>1, EnginesStarted
  <1>5. /\ mask' \subseteq Channels
        /\ kind' \in [Channels -> {"MEM", "TX", "RX"}]
        /\ inc' \in [Channels -> BOOLEAN \X BOOLEAN]
        /\ wanted' \in [Channels -> Nat]
        /\ fault' \in BOOLEAN
    BY <1>0, <1>1 DEF TypeOK
  <1> QED BY <1>2, <1>4, <1>5, ChannelParts

LEMMA TableSizeFacts ==
    ASSUME NEW r \in Requests, r.n > MaxTxCnt
    PROVE  TableSize(r) \in Nat \ {0} /\ (NoMultiples => Split(r.n, TableSize(r)))
  <1>0. MaxTxCnt \in Nat /\ MaxTxCnt > 0 /\ r.n \in Nat /\ r.n \in Counts
    BY ChannelFacts
  <1>1. PICK n \in Nat : n = r.n
    BY <1>0
  <1>2. n \div MaxTxCnt \in Nat
    BY <1>0
  <1>3. NoMultiples => n % MaxTxCnt # 0
    BY <1>0, <1>1 DEF NoMultiples
  <1>4. NoMultiples => Split(n, n \div MaxTxCnt + 1)
    BY <1>1, <1>3, SplitChain
  <1>5. TableSize(r) = n \div MaxTxCnt + 1
    BY <1>1 DEF TableSize
  <1>6. TableSize(r) \in Nat \ {0}
    BY <1>2, <1>5
  <1> QED BY <1>1, <1>4, <1>5, <1>6

LEMMA ChainStep ==
    ASSUME ChannelInv, NEW c \in Channels, NEW r \in Requests, Chain(c, r)
    PROVE  ChannelInv' /\ LeakStep
  <1>0. TypeOK /\ Engines /\ Heap /\ HeapTypes
    BY ChannelParts
  <1>1. PICK num : num = TableSize(r)
    OBVIOUS
  <1>2. r.n > MaxTxCnt /\ Start(c, r, num)
        /\ mask' = mask /\ kind' = kind /\ inc' = inc /\ fault' = fault
    BY <1>1 DEF Chain, ChainCall
  <1>3. num \in Nat \ {0} /\ num \in Nat /\ (NoMultiples => Split(r.n, num))
    BY <1>1, <1>2, TableSizeFacts
  <1>4. /\ Engines'
        /\ waiting' \in [Channels -> BOOLEAN]
        /\ \A x \in Channels : engine'[x].st \in {"idle", "busy", "done"}
    BY <1>0, <1>2, <1>3, EnginesStarted
  <1>5. HeapTypes' /\ Heap' /\ LeakStep /\ wanted' \in [Channels -> Nat]
    <2>1. CASE tbl' = tbl /\ wanted' = wanted /\ live' = live
      <3>1. HeapTypes' /\ Heap' /\ LeakStep
        BY <1>0, <2>1, HeapKept
      <3> QED BY <1>0, <2>1, <3>1 DEF TypeOK
    <2>2. CASE /\ tbl' = [tbl EXCEPT ![c] = num]
               /\ wanted' = [wanted EXCEPT ![c] = num]
               /\ live' = LiveWithout(c) + num
      <3>1. HeapTypes' /\ Heap' /\ LeakStep
        BY <1>0, <1>3, <2>2, HeapChanged
      <3> QED BY <1>0, <1>3, <2>2, <3>1 DEF TypeOK
    <2> QED BY <1>1, <2>1, <2>2 DEF Chain
  <1>6. /\ mask' \subseteq Channels
        /\ kind' \in [Channels -> {"MEM", "TX", "RX"}]
        /\ inc' \in [Channels -> BOOLEAN \X BOOLEAN]
        /\ fault' \in BOOLEAN
    BY <1>0, <1>2 DEF TypeOK
  <1> QED BY <1>4, <1>5, <1>6, ChannelParts

(* A chain refused: its table is freed, with no new one. *)
LEMMA RefusedStep ==
    ASSUME ChannelInv, NEW c \in Channels, NEW r \in Requests,
           ChainRefused(c, r) \/ ChainNoMemory(c, r)
    PROVE  ChannelInv' /\ LeakStep
  <1>0. TypeOK /\ Engines /\ Heap /\ HeapTypes
    BY ChannelParts
  <1>1. r.n > MaxTxCnt
    BY DEF ChainRefused, ChainNoMemory, ChainCall
  <1>2. /\ tbl' = [tbl EXCEPT ![c] = 0]
        /\ live' = LiveWithout(c)
        /\ mask' = mask /\ kind' = kind /\ inc' = inc /\ waiting' = waiting
        /\ engine' = engine /\ fault' = fault
    BY DEF ChainRefused, ChainNoMemory
  <1>3. wanted' \in [Channels -> Nat]
    <2>1. wanted' = [wanted EXCEPT ![c] = 0] \/ wanted' = [wanted EXCEPT ![c] = TableSize(r)]
      BY DEF ChainRefused, ChainNoMemory
    <2>2. TableSize(r) \in Nat
      BY <1>1, TableSizeFacts
    <2> QED BY <1>0, <2>1, <2>2 DEF TypeOK
  <1>4. HeapTypes' /\ Heap' /\ LeakStep
    <2>1. 0 \in Nat /\ live' = LiveWithout(c) + 0
      BY <1>0, <1>2 DEF HeapTypes, LiveWithout
    <2> QED BY <1>0, <1>2, <2>1, HeapChanged
  <1>5. /\ Engines'
        /\ waiting' \in [Channels -> BOOLEAN]
        /\ \A x \in Channels : engine'[x].st \in {"idle", "busy", "done"}
    BY <1>0, <1>2, EnginesKept
  <1>6. /\ mask' \subseteq Channels
        /\ kind' \in [Channels -> {"MEM", "TX", "RX"}]
        /\ inc' \in [Channels -> BOOLEAN \X BOOLEAN]
        /\ fault' \in BOOLEAN
    BY <1>0, <1>2 DEF TypeOK
  <1> QED BY <1>3, <1>4, <1>5, <1>6, ChannelParts

(* The driver used a null table, or nothing happened. *)
LEMMA NothingStep ==
    ASSUME ChannelInv,
           \/ \E c \in Channels, r \in Requests : ChainNullTable(c, r)
           \/ UNCHANGED vars
    PROVE  ChannelInv' /\ LeakStep
  <1>0. TypeOK /\ Engines /\ Heap /\ HeapTypes
    BY ChannelParts
  <1>1. /\ mask' = mask /\ kind' = kind /\ inc' = inc /\ tbl' = tbl /\ wanted' = wanted
        /\ live' = live /\ waiting' = waiting /\ engine' = engine
        /\ fault' = TRUE \/ fault' = fault
    BY DEF ChainNullTable, vars
  <1>2. HeapTypes' /\ Heap' /\ LeakStep
    BY <1>0, <1>1, HeapKept
  <1>3. /\ Engines'
        /\ waiting' \in [Channels -> BOOLEAN]
        /\ \A x \in Channels : engine'[x].st \in {"idle", "busy", "done"}
    BY <1>0, <1>1, EnginesKept
  <1>4. /\ mask' \subseteq Channels
        /\ kind' \in [Channels -> {"MEM", "TX", "RX"}]
        /\ inc' \in [Channels -> BOOLEAN \X BOOLEAN]
        /\ wanted' \in [Channels -> Nat]
        /\ fault' \in BOOLEAN
    BY <1>0, <1>1 DEF TypeOK
  <1> QED BY <1>2, <1>3, <1>4, ChannelParts

LEMMA HwStepStep ==
    ASSUME ChannelInv, NEW c \in Channels, HwStep(c)
    PROVE  ChannelInv' /\ LeakStep
  <1>0. TypeOK /\ Engines /\ Heap /\ HeapTypes /\ waiting \in [Channels -> BOOLEAN]
    BY ChannelParts
  <1>1. PICK e : e = engine[c]
    OBVIOUS
  <1> DEFINE d == CHOOSE x \in e.todo : \A y \in e.todo : x.i <= y.i
             e2 == [e EXCEPT !.todo = @ \ {d}, !.moved = @ + d.cnt,
                             !.st = IF e.todo = {d} THEN "done" ELSE "busy",
                             !.cells = @ \cup Cells(d.src, d.dst, d.w, d.step, d.cnt)]
  <1>2. /\ e.st = "busy"
        /\ engine' = [engine EXCEPT ![c] = e2]
        /\ waiting' = [waiting EXCEPT ![c] = d.silent /\ @]
        /\ mask' = mask /\ kind' = kind /\ inc' = inc /\ tbl' = tbl /\ wanted' = wanted
        /\ live' = live /\ fault' = fault
    BY <1>1 DEF HwStep
  <1>3. Engine(e, waiting[c])
    BY <1>0, <1>1 DEF Engines
  <1>4. waiting[c] = TRUE
    <2>1. waiting[c] \in BOOLEAN
      BY <1>0
    <2>2. waiting[c]
      BY <1>2, <1>3 DEF Engine
    <2> QED BY <2>1, <2>2
  <1>5. d.silent \in BOOLEAN /\ Engine(e2, d.silent)
    <2>1. Engine(e, TRUE)
      BY <1>3, <1>4
    <2> QED BY <1>2, <2>1, EngineStepped
  <1> HIDE DEF e2, d
  <1>6. waiting' = [waiting EXCEPT ![c] = d.silent]
    BY <1>2, <1>4, <1>5
  <1>7. /\ Engines'
        /\ waiting' \in [Channels -> BOOLEAN]
        /\ \A x \in Channels : engine'[x].st \in {"idle", "busy", "done"}
    <2>1. PICK a \in BOOLEAN : a = d.silent
      BY <1>5
    <2>2. PICK f : f = e2
      OBVIOUS
    <2>3. Engine(f, a) /\ engine' = [engine EXCEPT ![c] = f] /\ waiting' = [waiting EXCEPT ![c] = a]
      BY <1>2, <1>5, <1>6, <2>1, <2>2
    <2> QED BY <1>0, <2>3, EnginesStep
  <1>8. HeapTypes' /\ Heap' /\ LeakStep
    BY <1>0, <1>2, HeapKept
  <1>9. /\ mask' \subseteq Channels
        /\ kind' \in [Channels -> {"MEM", "TX", "RX"}]
        /\ inc' \in [Channels -> BOOLEAN \X BOOLEAN]
        /\ wanted' \in [Channels -> Nat]
        /\ fault' \in BOOLEAN
    BY <1>0, <1>2 DEF TypeOK
  <1> QED BY <1>7, <1>8, <1>9, ChannelParts

LEMMA ChannelStep == ChannelInv /\ [Next]_vars => ChannelInv' /\ LeakStep
  <1> SUFFICES ASSUME ChannelInv, [Next]_vars PROVE ChannelInv' /\ LeakStep
    OBVIOUS
  <1>1. CASE \E k \in Kinds : Allocate(k)
    BY <1>1, AllocateStep
  <1>2. CASE \E c \in Channels : Free(c) \/ Terminate(c) \/ HwAbort(c)
    BY <1>2, StopStep
  <1>3. CASE \E c \in Channels : HwStep(c)
    BY <1>3, HwStepStep
  <1>4. CASE \E c \in Channels, i \in BOOLEAN \X BOOLEAN : MemctrlSet(c, i)
    BY <1>4, MemctrlSetStep
  <1>5. CASE \E c \in Channels, r \in Requests : Transfer(c, r)
    BY <1>5, TransferStep
  <1>6. CASE \E c \in Channels, r \in Requests : Chain(c, r)
    BY <1>6, ChainStep
  <1>7. CASE \E c \in Channels, r \in Requests : ChainRefused(c, r) \/ ChainNoMemory(c, r)
    BY <1>7, RefusedStep
  <1>8. CASE (\E c \in Channels, r \in Requests : ChainNullTable(c, r)) \/ UNCHANGED vars
    BY <1>8, NothingStep
  <1> QED BY <1>1, <1>2, <1>3, <1>4, <1>5, <1>6, <1>7, <1>8 DEF Next

-----------------------------------------------------------------------------
(* ChannelInv holds in every state the driver can reach, for any number of *)
(* channels, any requests and any capacity of a descriptor (drv_pdma.c).   *)
THEOREM ChannelInvariant == Spec => []ChannelInv
  <1>1. Init => ChannelInv
    BY ChannelInit
  <1>2. ChannelInv /\ [Next]_vars => ChannelInv'
    BY ChannelStep
  <1> QED BY <1>1, <1>2, PTL DEF Spec

(* The driver's variables keep their types; live, from which               *)
(* _nu_pdma_free_sgtbls subtracts a table, is never negative.              *)
THEOREM ChannelTypeOK == Spec => []TypeOK
  <1>1. ChannelInv => TypeOK
    BY DEF ChannelInv
  <1> QED BY <1>1, ChannelInvariant, PTL

(* While the engine walks a chain the driver waits for it: only the last   *)
(* descriptor of nu_pdma_desc_setup's chain raises the transfer-done flag. *)
THEOREM ChannelBusyIsAwaited == Spec => []BusyIsAwaited
  <1>1. ChannelInv => BusyIsAwaited
    BY DEF ChannelInv, Engines, Engine, BusyIsAwaited
  <1> QED BY <1>1, ChannelInvariant, PTL

(* When no count above NU_PDMA_MAX_TXCNT is a multiple of it, a transfer   *)
(* that ends has moved exactly what was asked for, whatever its length and *)
(* its data width.                                                         *)
THEOREM ChannelMovesExactly == NoMultiples => (Spec => []MovesExactly)
  <1>1. NoMultiples /\ ChannelInv => MovesExactly
    BY DEF ChannelInv, Engines, Engine, MovesExactly
  <1>2. ASSUME NoMultiples PROVE Spec => []MovesExactly
    <2>1. ChannelInv => MovesExactly
      BY <1>1, <1>2
    <2> QED BY <2>1, ChannelInvariant, PTL
  <1> QED BY <1>2

(* No transfer loses or frees twice a descriptor of                        *)
(* _nu_pdma_transfer_chain; only allocating a channel again may.           *)
THEOREM ChannelLeaksNothing == Spec => TransfersLeakNothing
  <1>1. ChannelInv /\ [Next]_vars => [LeakStep]_vars
    BY ChannelStep
  <1> QED BY <1>1, ChannelInvariant, PTL DEF Spec, TransfersLeakNothing, LeakStep
=============================================================================
