--------------------------- MODULE RtTimerProofs ---------------------------
(***************************************************************************)
(* Proofs about RtTimer, for any timers, times and range of the tick.      *)
(*                                                                         *)
(* The time really left of a timer is in the invariant: timeout_tick is    *)
(* the tick at which it will be over, modulo TickMod, and both differences *)
(* the code takes of wrapped counts are compared with it.                  *)
(***************************************************************************)
EXTENDS RtTimer, IpcListProofs

(* Who holds the lock, and when a timer is on a temporary list. *)
Locks ==
    /\ \A c \in Cores : isr[c] \in {"loop", "call"} <=> lock = c
    /\ hserv # None => lock \in Cores /\ isr[lock] = "call"
    /\ sserv # None => thr = "call"
    /\ thr = "sleep" => next \in 1 .. Half - 1

(* The first core checks with the tick; the second one's may be older. *)
Clocks ==
    /\ isr["cpu0"] # "off" => now["cpu0"] = tick
    /\ isr["cpu1"] # "off" => Minus(tick, now["cpu1"]) <= LateMax

(* timeout_tick is when the time left is over; hard timers are not late. *)
DueTimes ==
    /\ \A t \in Listed : timeout[t] = (tick + due[t]) % TickMod
    /\ \A t \in ToSet(hard) : due[t] >= 0 /\ (isr["cpu0"] = "off" => due[t] > 0)
    /\ InPrioOrder(hard, due)

TimerInv ==
    TypeOK /\ ActiveIsListed /\ OwnTimerOnlyAsleep /\ Locks /\ Clocks /\ DueTimes

(* Half of the range of the tick is enough for the longest timer and the   *)
(* longest delay of its service together.                                  *)
LateFits == \A v \in Times : v + LateMax <= TickMod - Half

(* No wrapped difference is taken for its opposite, and the timer thread's *)
(* decision to sleep is not too late for any soft timer.                   *)
DelayFits(d) ==
    /\ next = (tick + d) % TickMod
    /\ d + LateMax <= TickMod - Half
    /\ ~missed => \A u \in ToSet(soft) : d <= due[u]

Wakes ==
    ~missed =>
        /\ thr = "suspend" => soft = <<>>
        /\ thr = "sleep" => \A u \in ToSet(soft) : next <= due[u]
        /\ thr = "asleep" => \A u \in ToSet(soft) : Self \in active /\ due[Self] <= due[u]

Near ==
    /\ InPrioOrder(soft, due)
    /\ \A t \in Listed : due[t] + LateMax <= TickMod - Half
    /\ thr = "sleep" => next + LateMax <= TickMod - Half
    /\ thr = "delay" => \E d \in -Half .. Half - 1 : DelayFits(d)
    /\ Wakes

-----------------------------------------------------------------------------
(* The tick and its wrap-around *)

LEMMA HalfFacts ==
    /\ TickMod \in Nat /\ TickMod > 0 /\ Half \in Nat /\ Half >= 1
    /\ 2 * Half < TickMod /\ TickMod <= 2 * Half + 2
    /\ LateMax \in Nat /\ LateMax < Half
    /\ \A v \in Times : v \in 1 .. Half - 1
  <1>1. TickMod \in Nat /\ TickMod > 0 /\ LateMax \in 0 .. Half - 1 /\ Times \subseteq 1 .. Half - 1
    BY TimerAssumption
  <1>2. Half \in Int /\ 2 * Half < TickMod /\ TickMod <= 2 * Half + 2
    BY <1>1 DEF Half
  <1> QED BY <1>1, <1>2

(* x % TickMod for an x out of range by less than the range. *)
LEMMA ModCases ==
    ASSUME NEW x \in Int, -TickMod <= x, x < 2 * TickMod
    PROVE  x % TickMod = IF x < 0 THEN x + TickMod ELSE IF x < TickMod THEN x ELSE x - TickMod
  <1>1. TickMod \in Nat /\ TickMod > 0
    BY HalfFacts
  <1>2. CASE x < 0
    <2>1. x = (-1) * TickMod + (x + TickMod) /\ x + TickMod \in 0 .. TickMod - 1
      BY <1>1, <1>2
    <2> QED BY <1>1, <1>2, <2>1
  <1>3. CASE x >= 0 /\ x < TickMod
    BY <1>1, <1>3
  <1>4. CASE x >= TickMod
    <2>1. x = 1 * TickMod + (x - TickMod) /\ x - TickMod \in 0 .. TickMod - 1
      BY <1>1, <1>4
    <2> QED BY <1>1, <1>4, <2>1
  <1> QED BY <1>1, <1>2, <1>3, <1>4

(* The tick d from now, and the difference of two such ticks. *)
LEMMA TickPlace ==
    ASSUME NEW n \in 0 .. TickMod - 1, NEW d \in -Half .. Half
    PROVE  /\ (n + d) % TickMod \in 0 .. TickMod - 1
           /\ (n + d) % TickMod = IF n + d < 0 THEN n + d + TickMod
                                  ELSE IF n + d < TickMod THEN n + d ELSE n + d - TickMod
  <1>1. n + d \in Int /\ -TickMod <= n + d /\ n + d < 2 * TickMod
    BY HalfFacts
  <1> QED BY <1>1, ModCases, HalfFacts

LEMMA TickDifference ==
    ASSUME NEW n \in 0 .. TickMod - 1, NEW a \in -Half .. Half, NEW b \in -Half .. Half
    PROVE  /\ Minus((n + a) % TickMod, (n + b) % TickMod) =
                  IF a < b THEN a - b + TickMod ELSE a - b
           /\ (n + a) % TickMod = (n + b) % TickMod <=> a = b
  <1> DEFINE x == (n + a) % TickMod
             y == (n + b) % TickMod
  <1>1. /\ x = IF n + a < 0 THEN n + a + TickMod
               ELSE IF n + a < TickMod THEN n + a ELSE n + a - TickMod
        /\ y = IF n + b < 0 THEN n + b + TickMod
               ELSE IF n + b < TickMod THEN n + b ELSE n + b - TickMod
        /\ x \in 0 .. TickMod - 1 /\ y \in 0 .. TickMod - 1
    BY TickPlace
  <1> HIDE DEF x, y
  <1>2. x - y \in Int /\ -TickMod <= x - y /\ x - y < 2 * TickMod /\ x - y < TickMod
    BY <1>1, HalfFacts
  <1>3. (x - y) % TickMod = IF x - y < 0 THEN x - y + TickMod ELSE x - y
    BY <1>2, ModCases
  <1>4. (x - y) % TickMod = IF a < b THEN a - b + TickMod ELSE a - b
    BY <1>1, <1>2, <1>3, HalfFacts
  <1>5. x = y <=> a = b
    BY <1>1, HalfFacts
  <1> QED BY <1>4, <1>5 DEF x, y, Minus

(* The same, of a tick and now. *)
LEMMA TickFromNow ==
    ASSUME NEW n \in 0 .. TickMod - 1, NEW a \in -Half .. Half
    PROVE  /\ Minus((n + a) % TickMod, n) = IF a < 0 THEN a + TickMod ELSE a
           /\ Minus(n, (n + a) % TickMod) = IF a > 0 THEN TickMod - a ELSE -a
  <1>1. 0 \in -Half .. Half /\ n + 0 = n
    BY HalfFacts
  <1>2. (n + 0) % TickMod = n
    BY <1>1, HalfFacts
  <1>3. /\ Minus((n + a) % TickMod, (n + 0) % TickMod) = IF a < 0 THEN a - 0 + TickMod ELSE a - 0
        /\ Minus((n + 0) % TickMod, (n + a) % TickMod) = IF 0 < a THEN 0 - a + TickMod ELSE 0 - a
    BY <1>1, TickDifference
  <1> QED BY <1>2, <1>3, HalfFacts

(* One tick later everything is one tick nearer. *)
LEMMA TickLater ==
    ASSUME NEW n \in 0 .. TickMod - 1
    PROVE  LET m == (n + 1) % TickMod IN
           /\ m \in 0 .. TickMod - 1
           /\ \A d \in -Half + 1 .. Half : (m + (d - 1)) % TickMod = (n + d) % TickMod
           /\ \A k \in 0 .. TickMod - 1 :
                 Minus(n, k) < TickMod - 1 => Minus(m, k) = Minus(n, k) + 1
  <1> DEFINE m == (n + 1) % TickMod
  <1>1. 1 \in -Half .. Half
    BY HalfFacts
  <1>2. m \in 0 .. TickMod - 1 /\ m = IF n + 1 < TickMod THEN n + 1 ELSE 0
    <2>1. /\ m \in 0 .. TickMod - 1
          /\ m = IF n + 1 < 0 THEN n + 1 + TickMod
                 ELSE IF n + 1 < TickMod THEN n + 1 ELSE n + 1 - TickMod
      BY <1>1, TickPlace
    <2> QED BY <2>1, HalfFacts
  <1> HIDE DEF m
  <1>3. ASSUME NEW d \in -Half + 1 .. Half PROVE (m + (d - 1)) % TickMod = (n + d) % TickMod
    <2>1. d \in -Half .. Half /\ d - 1 \in -Half .. Half
      BY HalfFacts
    <2>2. (n + d) % TickMod = IF n + d < 0 THEN n + d + TickMod
                              ELSE IF n + d < TickMod THEN n + d ELSE n + d - TickMod
      BY <2>1, TickPlace
    <2> DEFINE e == d - 1
    <2>3. (m + e) % TickMod = IF m + e < 0 THEN m + e + TickMod
                              ELSE IF m + e < TickMod THEN m + e ELSE m + e - TickMod
      <3> HIDE DEF e
      <3> QED BY <1>2, <2>1, TickPlace DEF e
    <2> QED BY <1>2, <2>1, <2>2, <2>3, HalfFacts
  <1>4. ASSUME NEW k \in 0 .. TickMod - 1, Minus(n, k) < TickMod - 1
        PROVE  Minus(m, k) = Minus(n, k) + 1
    <2>1. /\ n - k \in Int /\ -TickMod <= n - k /\ n - k < 2 * TickMod
          /\ m - k \in Int /\ -TickMod <= m - k /\ m - k < 2 * TickMod
      BY <1>2, HalfFacts
    <2>2. (n - k) % TickMod = IF n - k < 0 THEN n - k + TickMod ELSE n - k
      BY <2>1, ModCases, HalfFacts
    <2>3. (m - k) % TickMod = IF m - k < 0 THEN m - k + TickMod ELSE m - k
      BY <1>2, <2>1, ModCases, HalfFacts
    <2> QED BY <1>2, <1>4, <2>2, <2>3, HalfFacts DEF Minus
  <1> QED BY <1>2, <1>3, <1>4 DEF m

-----------------------------------------------------------------------------
(* A list and the order of its timers *)

(* Only the keys of who is listed matter, and only by their difference. *)
LEMMA SameOrder ==
    ASSUME NEW S, NEW list \in Seq(S), NEW k1, NEW k2, NEW x \in Int,
           \A u \in ToSet(list) : k1[u] \in Int /\ k2[u] = k1[u] + x,
           InPrioOrder(list, k1)
    PROVE  InPrioOrder(list, k2)
  <1> SUFFICES ASSUME NEW i \in DOMAIN list, NEW j \in DOMAIN list, i < j
               PROVE  k2[list[i]] <= k2[list[j]]
    BY DEF InPrioOrder
  <1>1. k1[list[i]] <= k1[list[j]]
    BY DEF InPrioOrder
  <1>2. list[i] \in ToSet(list) /\ list[j] \in ToSet(list)
    BY DEF ToSet
  <1> QED BY <1>1, <1>2

LEMMA TailOrdered ==
    ASSUME NEW S, NEW list \in Seq(S), list # <<>>, NEW key,
           \A u \in ToSet(list) : key[u] \in Int, InPrioOrder(list, key)
    PROVE  /\ InPrioOrder(Tail(list), key)
           /\ \A u \in ToSet(list) : key[Head(list)] <= key[u]
  <1> DEFINE r == Tail(list)
             n == Len(list)
  <1>1. n \in Nat /\ n >= 1 /\ DOMAIN list = 1 .. n /\ Head(list) = list[1]
    OBVIOUS
  <1>2. DOMAIN r = 1 .. n - 1 /\ \A i \in 1 .. n - 1 : r[i] = list[i + 1]
    OBVIOUS
  <1> HIDE DEF r, n
  <1>3. InPrioOrder(r, key)
    <2> SUFFICES ASSUME NEW i \in 1 .. n - 1, NEW j \in 1 .. n - 1, i < j
                 PROVE  key[r[i]] <= key[r[j]]
      BY <1>2 DEF InPrioOrder
    <2>1. i + 1 \in 1 .. n /\ j + 1 \in 1 .. n /\ i + 1 < j + 1
      BY <1>1
    <2>2. key[list[i + 1]] <= key[list[j + 1]]
      BY <1>1, <2>1 DEF InPrioOrder
    <2> QED BY <1>2, <2>2
  <1>4. ASSUME NEW u \in ToSet(list) PROVE key[Head(list)] <= key[u]
    <2>1. PICK j \in 1 .. n : u = list[j]
      BY <1>1 DEF ToSet
    <2>2. CASE j = 1
      BY <1>1, <2>1, <2>2
    <2>3. CASE 1 < j
      BY <1>1, <2>1, <2>3 DEF InPrioOrder
    <2> QED BY <1>1, <2>2, <2>3
  <1> QED BY <1>3, <1>4 DEF r

(* rt_timer_start's search stops before the first timer that looks later. *)
LEMMA PositionPlace ==
    ASSUME NEW S, NEW list \in Seq(S), NEW at
    PROVE  LET i == Position(list, at)
               Later(t) == timeout[t] # at /\ Minus(timeout[t], at) < Half
           IN  /\ i \in 1 .. Len(list) + 1
               /\ \A j \in 1 .. Len(list) : j < i => ~Later(list[j])
               /\ i <= Len(list) => Later(list[i])
  <1> DEFINE Later(t) == timeout[t] # at /\ Minus(timeout[t], at) < Half
             I == {i \in 1 .. Len(list) : Later(list[i])}
             p == Position(list, at)
  <1>0. Len(list) \in Nat
    OBVIOUS
  <1>1. CASE I = {}
    <2>1. p = Len(list) + 1
      BY <1>1 DEF Position, SelectInSeq
    <2>2. \A j \in 1 .. Len(list) : ~Later(list[j])
      BY <1>1
    <2> HIDE DEF p, Later
    <2> QED BY <1>0, <2>1, <2>2 DEF p, Later
  <1>2. CASE I # {}
    <2>0. I \in SUBSET Nat
      OBVIOUS
    <2> DEFINE m == Min(I)
    <2>1. m \in I /\ \A y \in I : m <= y
      <3> HIDE DEF I
      <3> QED BY <1>2, <2>0, MinIsLeast
    <2>2. p = m
      BY <1>2, <2>1 DEF Position, SelectInSeq
    <2> HIDE DEF m, p, Later
    <2>3. m \in 1 .. Len(list) /\ Later(list[m])
      BY <2>1
    <2>4. \A j \in 1 .. Len(list) : j < m => ~Later(list[j])
      BY <2>1, <2>3
    <2> QED BY <1>0, <2>2, <2>3, <2>4 DEF p, Later
  <1> QED BY <1>1, <1>2

(* A timer started for some ticks is put on the list once, and in order as *)
(* long as no listed timer is so late that its difference looks positive.  *)
LEMMA InsertInTime ==
    ASSUME NEW S, NEW list \in Seq(S), Distinct(list),
           NEW t \in S, t \notin ToSet(list), NEW ticks \in 0 .. Half - 1,
           tick \in 0 .. TickMod - 1,
           \A u \in ToSet(list) : /\ timeout[u] = (tick + due[u]) % TickMod
                                  /\ due[u] \in -Half .. Half - 1
    PROVE  LET r == Insert(list, t, (tick + ticks) % TickMod) IN
           /\ r \in Seq(S) /\ Distinct(r) /\ ToSet(r) = ToSet(list) \cup {t}
           /\ \A key :
                 /\ \A u \in S : key[u] \in Int
                 /\ \A u \in ToSet(list) : key[u] = due[u]
                 /\ key[t] = ticks
                 /\ InPrioOrder(list, due)
                 /\ \A u \in ToSet(list) : ticks - due[u] <= TickMod - Half
                 => InPrioOrder(r, key)
  <1> DEFINE at == (tick + ticks) % TickMod
             p == Position(list, at)
             r == InsertAt(list, p, t)
             Later(u) == timeout[u] # at /\ Minus(timeout[u], at) < Half
  <1>1. /\ p \in 1 .. Len(list) + 1
        /\ \A j \in 1 .. Len(list) : j < p => ~Later(list[j])
        /\ p <= Len(list) => Later(list[p])
    <2> HIDE DEF at
    <2> QED BY PositionPlace
  <1>2. r = Insert(list, t, at)
    BY DEF Insert
  <1>3. ASSUME NEW u \in ToSet(list), ticks - due[u] <= TickMod - Half
        PROVE  Later(u) <=> ticks < due[u]
    <2>1. due[u] \in -Half .. Half /\ ticks \in -Half .. Half /\ due[u] <= Half - 1
      BY HalfFacts
    <2>2. /\ Minus(timeout[u], at) =
                 IF due[u] < ticks THEN due[u] - ticks + TickMod ELSE due[u] - ticks
          /\ timeout[u] = at <=> due[u] = ticks
      BY <2>1, TickDifference
    <2> HIDE DEF at
    <2> QED BY SMTT(30), <1>3, <2>1, <2>2, HalfFacts
  <1> HIDE DEF Later, at, p, r
  <1>4. /\ r \in Seq(S) /\ Distinct(r) /\ ToSet(r) = ToSet(list) \cup {t}
        /\ \A key :
                 /\ \A u \in S : key[u] \in Int
                 /\ InPrioOrder(list, key)
                 /\ \A j \in 1 .. Len(list) : j < p => key[list[j]] <= key[t]
                 /\ p <= Len(list) => key[t] <= key[list[p]]
                 => InPrioOrder(r, key)
    BY SMTT(30), <1>1, InsertListed DEF r
  <1>5. ASSUME NEW key, \A u \in S : key[u] \in Int, \A u \in ToSet(list) : key[u] = due[u],
               key[t] = ticks, InPrioOrder(list, due),
               \A u \in ToSet(list) : ticks - due[u] <= TickMod - Half
        PROVE  InPrioOrder(r, key)
    <2>1. \A u \in ToSet(list) : due[u] \in Int /\ key[u] = due[u] + 0
      BY <1>5
    <2>2. InPrioOrder(list, key)
      BY <1>5, <2>1, SameOrder
    <2>3. \A j \in 1 .. Len(list) : list[j] \in ToSet(list)
      BY DEF ToSet
    <2>4. \A j \in 1 .. Len(list) : j < p => key[list[j]] <= key[t]
      BY <1>1, <1>3, <1>5, <2>1, <2>3
    <2>5. p <= Len(list) => key[t] <= key[list[p]]
      BY <1>1, <1>3, <1>5, <2>1, <2>3
    <2> QED BY <1>4, <1>5, <2>2, <2>4, <2>5
  <1> QED BY <1>2, <1>4, <1>5 DEF at

-----------------------------------------------------------------------------
(* What the steps do to the lists *)

LEMMA TimerKinds ==
    /\ \A t \in Soft : t \in Timers /\ t \notin Hard /\ t # Self /\ t # None
    /\ \A t \in Hard : t \in Timers /\ t \notin Soft /\ t # Self /\ t # None
    /\ Self \in Timers /\ Self \notin Soft /\ Self \notin Hard /\ Self # None
    /\ Self \notin Periodic /\ None \notin Timers
    /\ Periodic \subseteq Timers
    /\ \A t \in Timers : t \in Soft \/ t \in Hard \/ t = Self
  BY TimerAssumption DEF Timers

(* Where the listed timers are, from the invariant. *)
LEMMA ListFacts ==
    ASSUME TimerInv
    PROVE  /\ hard \in Seq(Hard \cup {Self}) /\ soft \in Seq(Soft)
           /\ Distinct(hard) /\ Distinct(soft)
           /\ ToSet(hard) \subseteq Hard \cup {Self} /\ ToSet(soft) \subseteq Soft
           /\ Listed = ToSet(hard) \cup ToSet(soft) /\ Listed \subseteq Timers
           /\ \A u \in Timers : due[u] \in -LateMax .. Half - 1 /\ due[u] \in Int
           /\ \A u \in Timers : timeout[u] \in 0 .. TickMod - 1
           /\ \A u \in Listed : timeout[u] = (tick + due[u]) % TickMod
           /\ tick \in 0 .. TickMod - 1
  <1>1. hard \in Seq(Hard \cup {Self}) /\ soft \in Seq(Soft)
    BY DEF TimerInv, TypeOK
  <1>2. Distinct(hard) /\ Distinct(soft)
    BY DEF TimerInv, ActiveIsListed, Distinct
  <1>3. ToSet(hard) \subseteq Hard \cup {Self} /\ ToSet(soft) \subseteq Soft
    BY <1>1, ListedIn
  <1>4. Listed = ToSet(hard) \cup ToSet(soft) /\ Listed \subseteq Timers
    BY <1>3 DEF Listed, Timers
  <1>5. \A u \in Timers : due[u] \in -LateMax .. Half - 1 /\ due[u] \in Int
    BY HalfFacts DEF TimerInv, TypeOK
  <1>6. \A u \in Timers : timeout[u] \in 0 .. TickMod - 1
    BY DEF TimerInv, TypeOK
  <1>7. (\A u \in Listed : timeout[u] = (tick + due[u]) % TickMod) /\ tick \in 0 .. TickMod - 1
    BY DEF TimerInv, TypeOK, DueTimes
  <1> QED BY <1>1, <1>2, <1>3, <1>4, <1>5, <1>6, <1>7

(* ActiveIsListed in the next state, from the sets of listed timers. *)
LEMMA ActiveFrom ==
    ASSUME NEW L, L = Listed', Distinct(hard'), Distinct(soft'),
           \A u \in Timers :
              u \in active' <=> u \in L \/ (u \in Periodic /\ u \in {hserv', sserv'}),
           hserv' \notin L, sserv' \notin L
    PROVE  ActiveIsListed'
  BY DEF ActiveIsListed, Distinct

(* rt_timer_start: the timer is on its list once and in order, the timers  *)
(* that stop are on none, and the others keep their place and time.        *)
LEMMA StartedProperties ==
    ASSUME TimerInv, NEW t \in Timers, NEW ticks \in 1 .. Half - 1,
           NEW wakes \in BOOLEAN, wakes => t \in Soft, Started(t, ticks, wakes)
    PROVE  LET gone == IF wakes THEN {t, Self} ELSE {t} IN
           /\ hard' \in Seq(Hard \cup {Self}) /\ soft' \in Seq(Soft)
           /\ ToSet(hard') = (ToSet(hard) \ gone) \cup (IF t \in Soft THEN {} ELSE {t})
           /\ ToSet(soft') = (ToSet(soft) \ gone) \cup (IF t \in Soft THEN {t} ELSE {})
           /\ Listed' = (Listed \ gone) \cup {t}
           /\ active' \subseteq Timers
           /\ timeout' \in [Timers -> 0 .. TickMod - 1]
           /\ due' \in [Timers -> -LateMax .. Half - 1]
           /\ due'[t] = ticks /\ \A u \in Timers \ gone : due'[u] = due[u]
           /\ \A u \in Listed' : timeout'[u] = (tick + due'[u]) % TickMod
           /\ InPrioOrder(hard', due')
           /\ ActiveIsListed'
           /\ InPrioOrder(soft, due) /\ ticks + LateMax <= TickMod - Half =>
                  InPrioOrder(soft', due')
  <1> DEFINE gone == IF wakes THEN {t, Self} ELSE {t}
             at == (tick + ticks) % TickMod
             H == Hard \cup {Self}
  <1>1. /\ hard \in Seq(H) /\ soft \in Seq(Soft) /\ Distinct(hard) /\ Distinct(soft)
        /\ ToSet(hard) \subseteq H /\ ToSet(soft) \subseteq Soft
        /\ Listed = ToSet(hard) \cup ToSet(soft) /\ Listed \subseteq Timers
        /\ \A u \in Timers : due[u] \in -LateMax .. Half - 1 /\ due[u] \in Int
        /\ \A u \in Timers : timeout[u] \in 0 .. TickMod - 1
        /\ \A u \in Listed : timeout[u] = (tick + due[u]) % TickMod
        /\ tick \in 0 .. TickMod - 1
    BY ListFacts
  <1>2. ticks \in 0 .. Half - 1 /\ ticks \in -LateMax .. Half - 1 /\ at \in 0 .. TickMod - 1
    <2>1. ticks \in -Half .. Half
      BY HalfFacts
    <2> QED BY <1>1, <2>1, TickPlace, HalfFacts
  <1> HIDE DEF at
  <1>3. /\ timeout' = [u \in Timers |->
                         IF u = t THEN at ELSE IF u \in gone THEN 0 ELSE timeout[u]]
        /\ due' = [u \in Timers |->
                     IF u = t THEN ticks ELSE IF u \in gone THEN 0 ELSE due[u]]
        /\ active' = (active \ gone) \cup {t}
        /\ hserv' = (IF hserv \in gone THEN None ELSE hserv)
        /\ sserv' = (IF sserv \in gone THEN None ELSE sserv)
    BY DEF Started, at
  <1>4. /\ hard' = IF t \notin Soft THEN Insert(Without(hard, t), t, at)
                   ELSE IF wakes THEN Without(hard, Self) ELSE hard
        /\ soft' = IF t \in Soft THEN Insert(Without(soft, t), t, at) ELSE soft
    BY DEF Started, at
  <1>5. t \in gone /\ gone \subseteq {t, Self} /\ (t \notin Soft => gone = {t})
    OBVIOUS
  <1>6. wakes => gone = {t, Self}
    OBVIOUS
  <1>7. ~wakes => gone = {t}
    OBVIOUS
  <1> HIDE DEF gone
  <1>8. /\ timeout' \in [Timers -> 0 .. TickMod - 1]
        /\ due' \in [Timers -> -LateMax .. Half - 1]
        /\ due'[t] = ticks /\ \A u \in Timers \ gone : due'[u] = due[u]
        /\ timeout'[t] = at /\ \A u \in Timers \ gone : timeout'[u] = timeout[u]
        /\ \A u \in Timers : due'[u] \in Int
    <2>1. 0 \in 0 .. TickMod - 1 /\ 0 \in -LateMax .. Half - 1
      BY HalfFacts
    <2>2. /\ timeout' \in [Timers -> 0 .. TickMod - 1]
          /\ due' \in [Timers -> -LateMax .. Half - 1]
      BY <1>1, <1>2, <1>3, <2>1
    <2>3. \A u \in Timers : due'[u] \in Int
      BY <2>2, HalfFacts
    <2> QED BY <1>3, <1>5, <2>2, <2>3
  <1>9. \A u \in Listed : due[u] \in -Half .. Half - 1
    BY <1>1, HalfFacts
  (* The list the timer goes on *)
  <1>10. ASSUME NEW S, NEW list \in Seq(S), Distinct(list), t \in S, S \subseteq Timers,
                ToSet(list) \subseteq Listed
         PROVE  LET r == Insert(Without(list, t), t, at) IN
                /\ r \in Seq(S) /\ Distinct(r) /\ ToSet(r) = (ToSet(list) \ {t}) \cup {t}
                /\ /\ \A u \in ToSet(list) \ {t} : u \notin gone
                   /\ InPrioOrder(list, due)
                   /\ \A u \in ToSet(list) : ticks - due[u] <= TickMod - Half
                   => InPrioOrder(r, due')
    <2> DEFINE a == Without(list, t)
               r == Insert(a, t, at)
    <2>1. /\ a \in Seq(S) /\ Distinct(a) /\ ToSet(a) = ToSet(list) \ {t}
          /\ InPrioOrder(list, due) => InPrioOrder(a, due)
      <3>1. a = ListRemove(list, t)
        BY DEF Without, ListRemove
      <3> HIDE DEF a
      <3> QED BY <1>10, <3>1, ListRemoveProperties
    <2> HIDE DEF a
    <2>2. t \notin ToSet(a) /\ ToSet(a) \subseteq Listed
      BY <1>10, <2>1
    <2>3. \A u \in ToSet(a) : /\ timeout[u] = (tick + due[u]) % TickMod
                              /\ due[u] \in -Half .. Half - 1
      BY <1>1, <1>9, <2>2
    <2>4. /\ r \in Seq(S) /\ Distinct(r) /\ ToSet(r) = ToSet(a) \cup {t}
          /\ \A key :
                 /\ \A u \in S : key[u] \in Int
                 /\ \A u \in ToSet(a) : key[u] = due[u]
                 /\ key[t] = ticks
                 /\ InPrioOrder(a, due)
                 /\ \A u \in ToSet(a) : ticks - due[u] <= TickMod - Half
                 => InPrioOrder(r, key)
      BY ZenonT(30), <1>1, <1>2, <1>10, <2>1, <2>2, <2>3, InsertInTime DEF at
    <2> HIDE DEF r
    <2>5. \A u \in S : due'[u] \in Int
      BY <1>8, <1>10
    <2>6. ASSUME \A u \in ToSet(list) \ {t} : u \notin gone,
                 InPrioOrder(list, due),
                 \A u \in ToSet(list) : ticks - due[u] <= TickMod - Half
          PROVE  InPrioOrder(r, due')
      <3>1. \A u \in ToSet(a) : due'[u] = due[u]
        BY <1>1, <1>8, <2>1, <2>2, <2>6
      <3>2. \A u \in ToSet(a) : ticks - due[u] <= TickMod - Half
        BY <2>1, <2>6
      <3> QED BY <1>8, <2>1, <2>4, <2>5, <2>6, <3>1, <3>2
    <2>7. ToSet(r) = (ToSet(list) \ {t}) \cup {t}
      BY <2>1, <2>4
    <2> QED BY <2>4, <2>6, <2>7 DEF r, a
  <1>11. H \subseteq Timers /\ Soft \subseteq Timers /\ InPrioOrder(hard, due)
    BY DEF Timers, TimerInv, DueTimes
  <1>12. /\ hard' \in Seq(H) /\ Distinct(hard')
         /\ ToSet(hard') = (ToSet(hard) \ gone) \cup (IF t \in Soft THEN {} ELSE {t})
         /\ InPrioOrder(hard', due')
    <2>1. CASE t \notin Soft
      <3>1. t \in H /\ ToSet(hard) \subseteq Listed /\ gone = {t}
        BY <1>1, <1>5, <2>1, TimerKinds
      <3>2. \A u \in ToSet(hard) : ticks - due[u] <= TickMod - Half
        <4>1. \A u \in ToSet(hard) : due[u] >= 0 /\ due[u] \in Int
          BY <1>1 DEF TimerInv, DueTimes
        <4> QED BY <1>2, <4>1, HalfFacts
      <3>3. hard' = Insert(Without(hard, t), t, at)
        BY <1>4, <2>1
      <3>4. /\ hard' \in Seq(H) /\ Distinct(hard')
            /\ ToSet(hard') = (ToSet(hard) \ {t}) \cup {t}
            /\ InPrioOrder(hard', due')
        BY <1>1, <1>10, <1>11, <3>1, <3>2, <3>3
      <3> QED BY <2>1, <3>1, <3>4
    <2>2. CASE t \in Soft /\ wakes
      <3>1. hard' = ListRemove(hard, Self)
        BY <1>4, <2>2 DEF Without, ListRemove
      <3>2. /\ hard' \in Seq(H) /\ Distinct(hard') /\ ToSet(hard') = ToSet(hard) \ {Self}
            /\ InPrioOrder(hard', due)
        BY <1>1, <1>11, <3>1, ListRemoveProperties
      <3>3. ToSet(hard') = ToSet(hard) \ gone
        BY <1>1, <1>6, <2>2, <3>2, TimerKinds
      <3>4. \A u \in ToSet(hard') : due[u] \in Int /\ due'[u] = due[u] + 0
        BY <1>1, <1>8, <1>11, <3>3
      <3>5. InPrioOrder(hard', due')
        BY <3>2, <3>4, SameOrder
      <3> QED BY <2>2, <3>2, <3>3, <3>5
    <2>3. CASE t \in Soft /\ ~wakes
      <3>1. hard' = hard
        BY <1>4, <2>3
      <3>2. ToSet(hard') = ToSet(hard) \ gone
        BY <1>1, <1>7, <2>3, <3>1, TimerKinds
      <3>3. \A u \in ToSet(hard) : due[u] \in Int /\ due'[u] = due[u] + 0
        BY <1>1, <1>8, <1>11, <3>1, <3>2
      <3>4. InPrioOrder(hard, due')
        BY <1>1, <1>11, <3>3, SameOrder
      <3> QED BY <1>1, <2>3, <3>1, <3>2, <3>4
    <2> QED BY <2>1, <2>2, <2>3
  <1>13. /\ soft' \in Seq(Soft) /\ Distinct(soft')
         /\ ToSet(soft') = (ToSet(soft) \ gone) \cup (IF t \in Soft THEN {t} ELSE {})
         /\ InPrioOrder(soft, due) /\ ticks + LateMax <= TickMod - Half =>
                InPrioOrder(soft', due')
    <2>1. \A u \in ToSet(soft) \ {t} : u \notin gone
      BY <1>1, <1>5, TimerKinds
    <2>2. CASE t \in Soft
      <3>1. soft' = Insert(Without(soft, t), t, at)
        BY <1>4, <2>2
      <3>2. ToSet(soft) \subseteq Listed
        BY <1>1
      <3>3. ticks + LateMax <= TickMod - Half =>
                \A u \in ToSet(soft) : ticks - due[u] <= TickMod - Half
        BY <1>1, <1>2, <3>2, HalfFacts
      <3>4. /\ soft' \in Seq(Soft) /\ Distinct(soft')
            /\ ToSet(soft') = (ToSet(soft) \ {t}) \cup {t}
            /\ InPrioOrder(soft, due) /\ ticks + LateMax <= TickMod - Half =>
                   InPrioOrder(soft', due')
        BY <1>1, <1>10, <1>11, <2>1, <2>2, <3>1, <3>2, <3>3
      <3>5. ToSet(soft) \ gone = ToSet(soft) \ {t}
        BY <1>5, <2>1
      <3> QED BY <2>2, <3>4, <3>5
    <2>3. CASE t \notin Soft
      <3>1. soft' = soft
        BY <1>4, <2>3
      <3>2. ToSet(soft) \ gone = ToSet(soft)
        BY <1>1, <2>1, <2>3
      <3>3. \A u \in ToSet(soft) : due[u] \in Int /\ due'[u] = due[u] + 0
        BY <1>1, <1>8, <1>11, <3>2
      <3>4. ASSUME InPrioOrder(soft, due) PROVE InPrioOrder(soft, due')
        <4>1. soft \in Seq(Soft) /\ 0 \in Int
          BY <1>1
        <4> QED BY <3>3, <3>4, <4>1, SameOrder
      <3> QED BY <1>1, <2>3, <3>1, <3>2, <3>4
    <2> QED BY <2>2, <2>3
  <1>14. Listed' = (Listed \ gone) \cup {t}
    <2>1. Listed' = ToSet(hard') \cup ToSet(soft')
      BY DEF Listed
    <2> QED BY <1>1, <1>12, <1>13, <2>1
  <1>15. \A u \in Listed' : timeout'[u] = (tick + due'[u]) % TickMod
    BY <1>1, <1>8, <1>14 DEF at
  <1>16. active' \subseteq Timers
    BY <1>3 DEF TimerInv, TypeOK
  <1>17. ActiveIsListed'
    <2>1. /\ \A u \in Timers : u \in active <=> u \in Listed \/ (u \in Periodic /\ u \in {hserv, sserv})
          /\ hserv \notin Listed /\ sserv \notin Listed
      BY DEF TimerInv, ActiveIsListed
    <2>2. None \notin Timers /\ gone \subseteq Timers /\ Self \notin Periodic
      BY <1>5, TimerKinds
    <2>3. \A u \in Timers : u \in active' <=> u \in Listed' \/ (u \in Periodic /\ u \in {hserv', sserv'})
      <3> TAKE u \in Timers
      <3>0. u # None
        BY <2>2
      <3>1. CASE u = t
        BY <3>1, <1>3, <1>14
      <3>2. CASE u # t /\ u \in gone
        BY <3>0, <3>2, <1>3, <1>5, <1>14, <2>2
      <3>3. CASE u \notin gone
        <4>1. u # t /\ (u \in active' <=> u \in active) /\ (u \in Listed' <=> u \in Listed)
          BY <3>3, <1>3, <1>5, <1>14
        <4>2. (u = hserv' <=> u = hserv) /\ (u = sserv' <=> u = sserv)
          BY <3>0, <3>3, <1>3
        <4> QED BY <4>1, <4>2, <2>1
      <3> QED BY <1>5, <3>1, <3>2, <3>3
    <2>4. Listed' \subseteq Timers
      BY <1>1, <1>14
    <2>5. hserv' \notin Listed' /\ sserv' \notin Listed'
      BY <1>3, <1>5, <1>14, <2>1, <2>2, <2>4
    <2> DEFINE L == Listed'
    <2>6. L = Listed'
      OBVIOUS
    <2> HIDE DEF L
    <2> QED BY <1>12, <1>13, <2>3, <2>5, <2>6, ActiveFrom
  <1> QED BY <1>8, <1>12, <1>13, <1>14, <1>15, <1>16, <1>17 DEF gone, H

(* A timer that leaves the lists leaves the others in order and in time. *)
LEMMA LeavesProperties ==
    ASSUME TimerInv, NEW t \in Timers,
           hard' \in Seq(Hard \cup {Self}), soft' \in Seq(Soft),
           ToSet(hard') = ToSet(hard) \ {t}, ToSet(soft') = ToSet(soft) \ {t},
           InPrioOrder(hard', due),
           InPrioOrder(soft, due) => InPrioOrder(soft', due),
           timeout' = [timeout EXCEPT ![t] = 0], due' = [due EXCEPT ![t] = 0]
    PROVE  /\ Listed' = Listed \ {t}
           /\ timeout' \in [Timers -> 0 .. TickMod - 1]
           /\ due' \in [Timers -> -LateMax .. Half - 1]
           /\ \A u \in Timers \ {t} : due'[u] = due[u]
           /\ \A u \in Listed' : timeout'[u] = (tick + due'[u]) % TickMod
           /\ InPrioOrder(hard', due')
           /\ InPrioOrder(soft, due) => InPrioOrder(soft', due')
  <1>1. /\ Listed = ToSet(hard) \cup ToSet(soft) /\ Listed \subseteq Timers
        /\ \A u \in Timers : due[u] \in -LateMax .. Half - 1 /\ due[u] \in Int
        /\ \A u \in Timers : timeout[u] \in 0 .. TickMod - 1
        /\ \A u \in Listed : timeout[u] = (tick + due[u]) % TickMod
    BY ListFacts
  <1>2. Listed' = Listed \ {t}
    <2>1. Listed' = ToSet(hard') \cup ToSet(soft')
      BY DEF Listed
    <2> QED BY <1>1, <2>1
  <1>3. due \in [Timers -> -LateMax .. Half - 1] /\ timeout \in [Timers -> 0 .. TickMod - 1]
    BY DEF TimerInv, TypeOK
  <1>4. 0 \in 0 .. TickMod - 1 /\ 0 \in -LateMax .. Half - 1
    BY HalfFacts
  <1>5. /\ timeout' \in [Timers -> 0 .. TickMod - 1]
        /\ due' \in [Timers -> -LateMax .. Half - 1]
        /\ \A u \in Timers \ {t} : due'[u] = due[u] /\ timeout'[u] = timeout[u]
    BY <1>3, <1>4
  <1>6. \A u \in Listed' : timeout'[u] = (tick + due'[u]) % TickMod
    BY <1>1, <1>2, <1>5
  <1>7. /\ \A u \in ToSet(hard') : due[u] \in Int /\ due'[u] = due[u] + 0
        /\ \A u \in ToSet(soft') : due[u] \in Int /\ due'[u] = due[u] + 0
    BY <1>1, <1>5
  <1>8. InPrioOrder(hard', due')
    <2>1. InPrioOrder(hard', due) /\ 0 \in Int
      OBVIOUS
    <2> QED BY <1>7, <2>1, SameOrder
  <1>9. ASSUME InPrioOrder(soft, due) PROVE InPrioOrder(soft', due')
    <2>1. InPrioOrder(soft', due) /\ 0 \in Int
      BY <1>9
    <2> QED BY <1>7, <2>1, SameOrder
  <1> QED BY <1>2, <1>5, <1>6, <1>8, <1>9

(* _timer_remove: the timer is on no list and not active. *)
LEMMA UnlinkedProperties ==
    ASSUME TimerInv, NEW t \in Soft \cup Hard, Unlinked(t)
    PROVE  /\ hard' \in Seq(Hard \cup {Self}) /\ soft' \in Seq(Soft)
           /\ ToSet(hard') = ToSet(hard) \ {t} /\ ToSet(soft') = ToSet(soft) \ {t}
           /\ Listed' = Listed \ {t}
           /\ active' = active \ {t}
           /\ timeout' \in [Timers -> 0 .. TickMod - 1]
           /\ due' \in [Timers -> -LateMax .. Half - 1]
           /\ \A u \in Timers \ {t} : due'[u] = due[u]
           /\ \A u \in Listed' : timeout'[u] = (tick + due'[u]) % TickMod
           /\ InPrioOrder(hard', due')
           /\ ActiveIsListed'
           /\ InPrioOrder(soft, due) => InPrioOrder(soft', due')
  <1>1. /\ hard \in Seq(Hard \cup {Self}) /\ soft \in Seq(Soft)
        /\ Distinct(hard) /\ Distinct(soft) /\ Listed \subseteq Timers
    BY ListFacts
  <1>2. InPrioOrder(hard, due)
    BY DEF TimerInv, DueTimes
  <1>3. hard' = ListRemove(hard, t) /\ soft' = ListRemove(soft, t)
    BY DEF Unlinked, Without, ListRemove
  <1>4. /\ hard' \in Seq(Hard \cup {Self}) /\ Distinct(hard') /\ ToSet(hard') = ToSet(hard) \ {t}
        /\ InPrioOrder(hard', due)
    BY <1>1, <1>2, <1>3, ListRemoveProperties
  <1>5. /\ soft' \in Seq(Soft) /\ Distinct(soft') /\ ToSet(soft') = ToSet(soft) \ {t}
        /\ InPrioOrder(soft, due) => InPrioOrder(soft', due)
    BY <1>1, <1>3, ListRemoveProperties
  <1>6. /\ timeout' = [timeout EXCEPT ![t] = 0] /\ due' = [due EXCEPT ![t] = 0]
        /\ active' = active \ {t} /\ t \in Timers
        /\ hserv' = (IF hserv = t THEN None ELSE hserv)
        /\ sserv' = (IF sserv = t THEN None ELSE sserv)
    BY DEF Unlinked, Timers
  <1>7. /\ Listed' = Listed \ {t}
        /\ timeout' \in [Timers -> 0 .. TickMod - 1]
        /\ due' \in [Timers -> -LateMax .. Half - 1]
        /\ \A u \in Timers \ {t} : due'[u] = due[u]
        /\ \A u \in Listed' : timeout'[u] = (tick + due'[u]) % TickMod
        /\ InPrioOrder(hard', due')
        /\ InPrioOrder(soft, due) => InPrioOrder(soft', due')
    BY <1>4, <1>5, <1>6, LeavesProperties
  <1>8. ActiveIsListed'
    <2>1. /\ \A u \in Timers : u \in active <=> u \in Listed \/ (u \in Periodic /\ u \in {hserv, sserv})
          /\ hserv \notin Listed /\ sserv \notin Listed
      BY DEF TimerInv, ActiveIsListed
    <2>2. None \notin Timers
      BY TimerKinds
    <2>3. \A u \in Timers : u \in active' <=> u \in Listed' \/ (u \in Periodic /\ u \in {hserv', sserv'})
      BY <1>6, <1>7, <2>1, <2>2
    <2>4. hserv' \notin Listed' /\ sserv' \notin Listed'
      BY <1>1, <1>6, <1>7, <2>1, <2>2
    <2> DEFINE L == Listed'
    <2>5. L = Listed'
      OBVIOUS
    <2> HIDE DEF L
    <2> QED BY <1>4, <1>5, <2>3, <2>4, <2>5, ActiveFrom
  <1> QED BY <1>4, <1>5, <1>6, <1>7, <1>8

(* The first hard timer goes on the temporary list, which was empty. *)
LEMMA HardFires ==
    ASSUME TimerInv, hserv = None, hard # <<>>, hard' = Tail(hard), hserv' = Head(hard),
           Taken(Head(hard)), soft' = soft, sserv' = sserv
    PROVE  /\ Head(hard) \in Hard \cup {Self} /\ Head(hard) \in Listed /\ Head(hard) \in ToSet(hard)
           /\ hard' \in Seq(Hard \cup {Self})
           /\ ToSet(hard') = ToSet(hard) \ {Head(hard)}
           /\ Listed' = Listed \ {Head(hard)}
           /\ active' \subseteq active /\ (Head(hard) = Self => Self \notin active')
           /\ \A u \in active : u = Head(hard) \/ u \in active'
           /\ timeout' \in [Timers -> 0 .. TickMod - 1]
           /\ due' \in [Timers -> -LateMax .. Half - 1]
           /\ \A u \in Timers \ {Head(hard)} : due'[u] = due[u]
           /\ \A u \in Listed' : timeout'[u] = (tick + due'[u]) % TickMod
           /\ InPrioOrder(hard', due')
           /\ ActiveIsListed'
           /\ InPrioOrder(soft, due) => InPrioOrder(soft', due')
  <1> DEFINE t == Head(hard)
  <1>1. /\ hard \in Seq(Hard \cup {Self}) /\ soft \in Seq(Soft)
        /\ Distinct(hard) /\ Distinct(soft)
        /\ ToSet(hard) \subseteq Hard \cup {Self} /\ ToSet(soft) \subseteq Soft
        /\ Listed = ToSet(hard) \cup ToSet(soft) /\ Listed \subseteq Timers
        /\ \A u \in Timers : due[u] \in Int
    BY ListFacts
  <1>2. t \in ToSet(hard)
    BY <1>1, HeadListed
  <1>3. /\ Tail(hard) \in Seq(Hard \cup {Self}) /\ ToSet(hard) = {t} \cup ToSet(Tail(hard))
        /\ Distinct(Tail(hard)) /\ t \notin ToSet(Tail(hard))
    BY <1>1, TailProperties
  <1>4. InPrioOrder(Tail(hard), due)
    <2>1. InPrioOrder(hard, due) /\ \A u \in ToSet(hard) : due[u] \in Int
      BY <1>1 DEF TimerInv, DueTimes
    <2> QED BY <1>1, <2>1, TailOrdered
  <1>5. /\ timeout' = [timeout EXCEPT ![t] = 0] /\ due' = [due EXCEPT ![t] = 0]
        /\ active' = IF t \in Periodic THEN active ELSE active \ {t}
    BY DEF Taken
  <1> HIDE DEF t
  <1>6. /\ t \in Timers /\ t \in Hard \cup {Self} /\ t \notin Soft /\ t # None
        /\ (t = Self => t \notin Periodic)
    BY <1>1, <1>2, TimerKinds
  <1>7. hard' = Tail(hard) /\ hserv' = t
    BY DEF t
  <1>8. /\ hard' \in Seq(Hard \cup {Self}) /\ soft' \in Seq(Soft)
        /\ ToSet(hard') = ToSet(hard) \ {t} /\ ToSet(soft') = ToSet(soft) \ {t}
        /\ InPrioOrder(hard', due)
        /\ InPrioOrder(soft, due) => InPrioOrder(soft', due)
    BY <1>1, <1>3, <1>4, <1>6, <1>7
  <1>9. /\ Listed' = Listed \ {t}
        /\ timeout' \in [Timers -> 0 .. TickMod - 1]
        /\ due' \in [Timers -> -LateMax .. Half - 1]
        /\ \A u \in Timers \ {t} : due'[u] = due[u]
        /\ \A u \in Listed' : timeout'[u] = (tick + due'[u]) % TickMod
        /\ InPrioOrder(hard', due')
        /\ InPrioOrder(soft, due) => InPrioOrder(soft', due')
    BY <1>5, <1>6, <1>8, LeavesProperties
  <1>10. ActiveIsListed'
    <2>1. /\ \A u \in Timers : u \in active <=> u \in Listed \/ (u \in Periodic /\ u \in {hserv, sserv})
          /\ hserv \notin Listed /\ sserv \notin Listed
      BY DEF TimerInv, ActiveIsListed
    <2>2. None \notin Timers /\ t \in Listed
      BY <1>1, <1>2, TimerKinds
    <2>3. \A u \in Timers : u \in active' <=> u \in Listed' \/ (u \in Periodic /\ u \in {hserv', sserv'})
      BY <1>5, <1>7, <1>9, <2>1, <2>2
    <2>4. hserv' \notin Listed' /\ sserv' \notin Listed'
      BY <1>7, <1>9, <2>1, <2>2
    <2>5. Distinct(hard') /\ Distinct(soft')
      BY <1>1, <1>3, <1>7
    <2> DEFINE L == Listed'
    <2>6. L = Listed'
      OBVIOUS
    <2> HIDE DEF L
    <2> QED BY <2>3, <2>4, <2>5, <2>6, ActiveFrom
  <1>11. t \in Listed
    BY <1>1, <1>2
  <1>12. /\ active' \subseteq active /\ (t = Self => Self \notin active')
         /\ \A u \in active : u = t \/ u \in active'
    BY <1>5, <1>6
  <1> QED BY <1>2, <1>6, <1>8, <1>9, <1>10, <1>11, <1>12 DEF t

(* The same for the first soft timer. *)
LEMMA SoftFires ==
    ASSUME TimerInv, sserv = None, soft # <<>>, soft' = Tail(soft), sserv' = Head(soft),
           Taken(Head(soft)), hard' = hard, hserv' = hserv
    PROVE  /\ Head(soft) \in Soft /\ Head(soft) \in Listed
           /\ soft' \in Seq(Soft)
           /\ ToSet(hard') = ToSet(hard) \ {Head(soft)}
           /\ ToSet(soft') = ToSet(soft) \ {Head(soft)}
           /\ Listed' = Listed \ {Head(soft)}
           /\ active' \subseteq active
           /\ timeout' \in [Timers -> 0 .. TickMod - 1]
           /\ due' \in [Timers -> -LateMax .. Half - 1]
           /\ \A u \in Timers \ {Head(soft)} : due'[u] = due[u]
           /\ \A u \in Listed' : timeout'[u] = (tick + due'[u]) % TickMod
           /\ InPrioOrder(hard', due')
           /\ ActiveIsListed'
           /\ InPrioOrder(soft, due) => InPrioOrder(soft', due')
  <1> DEFINE t == Head(soft)
  <1>1. /\ hard \in Seq(Hard \cup {Self}) /\ soft \in Seq(Soft)
        /\ Distinct(hard) /\ Distinct(soft)
        /\ ToSet(hard) \subseteq Hard \cup {Self} /\ ToSet(soft) \subseteq Soft
        /\ Listed = ToSet(hard) \cup ToSet(soft) /\ Listed \subseteq Timers
        /\ \A u \in Timers : due[u] \in Int
    BY ListFacts
  <1>2. t \in ToSet(soft)
    BY <1>1, HeadListed
  <1>3. /\ Tail(soft) \in Seq(Soft) /\ ToSet(soft) = {t} \cup ToSet(Tail(soft))
        /\ Distinct(Tail(soft)) /\ t \notin ToSet(Tail(soft))
    BY <1>1, TailProperties
  <1>4. ASSUME InPrioOrder(soft, due) PROVE InPrioOrder(Tail(soft), due)
    <2>1. \A u \in ToSet(soft) : due[u] \in Int
      BY <1>1
    <2> QED BY <1>1, <1>4, <2>1, TailOrdered
  <1>5. /\ timeout' = [timeout EXCEPT ![t] = 0] /\ due' = [due EXCEPT ![t] = 0]
        /\ active' = IF t \in Periodic THEN active ELSE active \ {t}
    BY DEF Taken
  <1> HIDE DEF t
  <1>6. t \in Timers /\ t \in Soft /\ t \notin Hard \cup {Self} /\ t # None
    BY <1>1, <1>2, TimerKinds
  <1>7. soft' = Tail(soft) /\ sserv' = t /\ InPrioOrder(hard, due)
    BY DEF t, TimerInv, DueTimes
  <1>8. /\ hard' \in Seq(Hard \cup {Self}) /\ soft' \in Seq(Soft)
        /\ ToSet(hard') = ToSet(hard) \ {t} /\ ToSet(soft') = ToSet(soft) \ {t}
        /\ InPrioOrder(hard', due)
        /\ InPrioOrder(soft, due) => InPrioOrder(soft', due)
    BY <1>1, <1>3, <1>4, <1>6, <1>7
  <1>9. /\ Listed' = Listed \ {t}
        /\ timeout' \in [Timers -> 0 .. TickMod - 1]
        /\ due' \in [Timers -> -LateMax .. Half - 1]
        /\ \A u \in Timers \ {t} : due'[u] = due[u]
        /\ \A u \in Listed' : timeout'[u] = (tick + due'[u]) % TickMod
        /\ InPrioOrder(hard', due')
        /\ InPrioOrder(soft, due) => InPrioOrder(soft', due')
    BY <1>5, <1>6, <1>8, LeavesProperties
  <1>10. ActiveIsListed'
    <2>1. /\ \A u \in Timers : u \in active <=> u \in Listed \/ (u \in Periodic /\ u \in {hserv, sserv})
          /\ hserv \notin Listed /\ sserv \notin Listed
      BY DEF TimerInv, ActiveIsListed
    <2>2. None \notin Timers /\ t \in Listed
      BY <1>1, <1>2, TimerKinds
    <2>3. \A u \in Timers : u \in active' <=> u \in Listed' \/ (u \in Periodic /\ u \in {hserv', sserv'})
      BY <1>5, <1>7, <1>9, <2>1, <2>2
    <2>4. hserv' \notin Listed' /\ sserv' \notin Listed'
      BY <1>7, <1>9, <2>1, <2>2
    <2>5. Distinct(hard') /\ Distinct(soft')
      BY <1>1, <1>3, <1>7
    <2> DEFINE L == Listed'
    <2>6. L = Listed'
      OBVIOUS
    <2> HIDE DEF L
    <2> QED BY <2>3, <2>4, <2>5, <2>6, ActiveFrom
  <1>11. t \in Listed /\ active' \subseteq active
    BY <1>1, <1>2, <1>5
  <1> QED BY <1>6, <1>8, <1>9, <1>10, <1>11 DEF t

-----------------------------------------------------------------------------
(* Every step keeps the invariant *)

LEMMA StartedFrame ==
    ASSUME TimerInv, NEW t \in Timers, NEW ticks \in 1 .. Half - 1,
           NEW wakes \in BOOLEAN, wakes => t \in Soft, Started(t, ticks, wakes)
    PROVE  /\ active' = (active \ (IF wakes THEN {t, Self} ELSE {t})) \cup {t}
           /\ hserv' \in {hserv, None} /\ (hserv = t => hserv' = None)
           /\ sserv' \in {sserv, None} /\ (sserv = t => sserv' = None)
           /\ \A u \in ToSet(hard') : due'[u] >= 0 /\ (isr["cpu0"] = "off" => due'[u] > 0)
  <1>1. /\ active' = (active \ (IF wakes THEN {t, Self} ELSE {t})) \cup {t}
        /\ hserv' \in {hserv, None} /\ (hserv = t => hserv' = None)
        /\ sserv' \in {sserv, None} /\ (sserv = t => sserv' = None)
    BY DEF Started
  <1> DEFINE gone == IF wakes THEN {t, Self} ELSE {t}
  <1>2. /\ ToSet(hard') \subseteq (ToSet(hard) \ gone) \cup {t}
        /\ due'[t] = ticks /\ \A u \in Timers \ gone : due'[u] = due[u]
    BY StartedProperties
  <1> HIDE DEF gone
  <1>3. ToSet(hard) \subseteq Timers
    BY ListFacts
  <1>4. \A u \in ToSet(hard) : due[u] >= 0 /\ (isr["cpu0"] = "off" => due[u] > 0)
    BY DEF TimerInv, DueTimes
  <1>5. ticks >= 0 /\ ticks > 0
    BY HalfFacts
  <1>6. \A u \in ToSet(hard') : due'[u] >= 0 /\ (isr["cpu0"] = "off" => due'[u] > 0)
    BY <1>2, <1>3, <1>4, <1>5
  <1> QED BY <1>1, <1>6

LEMMA StartKeeps ==
    ASSUME TimerInv, NEW t \in Soft \cup Hard, NEW v \in Times, Start(t, v)
    PROVE  TimerInv'
  <1> DEFINE wakes == t \in Soft /\ thr = "asleep"
  <1>1. /\ Started(t, v, wakes)
        /\ thr' = IF wakes THEN "check" ELSE thr
        /\ missed' = (missed \/ (t \in Soft /\ thr \in {"suspend", "delay", "sleep"}))
        /\ UNCHANGED <<tick, init, lock, isr, now, next>>
    BY DEF Start
  <1>2. t \in Timers /\ v \in 1 .. Half - 1 /\ wakes \in BOOLEAN /\ (wakes => t \in Soft) /\ t # Self
    BY HalfFacts, TimerKinds
  <1> HIDE DEF wakes
  <1>3. /\ hard' \in Seq(Hard \cup {Self}) /\ soft' \in Seq(Soft)
        /\ active' \subseteq Timers
        /\ timeout' \in [Timers -> 0 .. TickMod - 1]
        /\ due' \in [Timers -> -LateMax .. Half - 1]
        /\ \A u \in Listed' : timeout'[u] = (tick + due'[u]) % TickMod
        /\ InPrioOrder(hard', due')
        /\ ActiveIsListed'
    BY <1>1, <1>2, StartedProperties
  <1>4. /\ active' = (active \ (IF wakes THEN {t, Self} ELSE {t})) \cup {t}
        /\ hserv' \in {hserv, None} /\ sserv' \in {sserv, None}
        /\ \A u \in ToSet(hard') : due'[u] >= 0 /\ (isr["cpu0"] = "off" => due'[u] > 0)
    BY <1>1, <1>2, StartedFrame
  <1>5. TypeOK'
    <2>1. TypeOK
      BY DEF TimerInv
    <2> QED BY <1>1, <1>3, <1>4, <2>1 DEF TypeOK
  <1>6. OwnTimerOnlyAsleep'
    <2>1. Self \in active => thr = "asleep"
      BY DEF TimerInv, OwnTimerOnlyAsleep
    <2>2. CASE wakes
      BY <1>2, <1>4, <2>2 DEF OwnTimerOnlyAsleep
    <2>3. CASE ~wakes
      BY <1>1, <1>2, <1>4, <2>1, <2>3 DEF OwnTimerOnlyAsleep
    <2> QED BY <2>2, <2>3
  <1>7. Locks'
    <2>1. Locks
      BY DEF TimerInv
    <2> QED BY <1>1, <1>4, <2>1 DEF Locks, wakes
  <1>8. Clocks'
    BY <1>1 DEF TimerInv, Clocks
  <1>9. DueTimes'
    BY <1>1, <1>3, <1>4 DEF DueTimes
  <1> QED BY <1>3, <1>5, <1>6, <1>7, <1>8, <1>9 DEF TimerInv

LEMMA UnlinkedKeeps ==
    ASSUME TimerInv, NEW t \in Soft \cup Hard, Unlinked(t),
           UNCHANGED <<tick, init, lock, isr, now, thr, next, missed>>
    PROVE  TimerInv'
  <1>1. /\ hard' \in Seq(Hard \cup {Self}) /\ soft' \in Seq(Soft)
        /\ ToSet(hard') = ToSet(hard) \ {t}
        /\ active' = active \ {t}
        /\ timeout' \in [Timers -> 0 .. TickMod - 1]
        /\ due' \in [Timers -> -LateMax .. Half - 1]
        /\ \A u \in Timers \ {t} : due'[u] = due[u]
        /\ \A u \in Listed' : timeout'[u] = (tick + due'[u]) % TickMod
        /\ InPrioOrder(hard', due')
        /\ ActiveIsListed'
    BY UnlinkedProperties
  <1>2. hserv' \in {hserv, None} /\ sserv' \in {sserv, None}
    BY DEF Unlinked
  <1>3. TypeOK'
    <2>1. TypeOK
      BY DEF TimerInv
    <2>2. active' \subseteq Timers
      BY <1>1, <2>1 DEF TypeOK
    <2> QED BY <1>1, <1>2, <2>1, <2>2 DEF TypeOK
  <1>4. OwnTimerOnlyAsleep'
    BY <1>1 DEF TimerInv, OwnTimerOnlyAsleep
  <1>5. Locks'
    <2>1. Locks
      BY DEF TimerInv
    <2> QED BY <1>2, <2>1 DEF Locks
  <1>6. Clocks'
    BY DEF TimerInv, Clocks
  <1>7. DueTimes'
    <2>1. ToSet(hard) \subseteq Timers
      BY ListFacts
    <2>2. \A u \in ToSet(hard) : due[u] >= 0 /\ (isr["cpu0"] = "off" => due[u] > 0)
      BY DEF TimerInv, DueTimes
    <2>3. \A u \in ToSet(hard') : due'[u] >= 0 /\ (isr["cpu0"] = "off" => due'[u] > 0)
      BY <1>1, <2>1, <2>2
    <2> QED BY <1>1, <2>3 DEF DueTimes
  <1> QED BY <1>1, <1>3, <1>4, <1>5, <1>6, <1>7 DEF TimerInv

(* Steps that leave the lists and the tick alone. *)
LEMMA ListsKept ==
    ASSUME TimerInv, UNCHANGED <<tick, lists>>,
           init' \in [Periodic -> Times], lock' \in Cores \cup {"none", "thread"},
           isr' \in [Cores -> {"off", "lock", "loop", "call"}],
           now' \in [Cores -> 0 .. TickMod - 1],
           thr' \in {"look", "suspend", "asleep", "delay", "sleep", "check", "call", "again"},
           next' \in 0 .. TickMod - 1, missed' \in BOOLEAN,
           Self \in active => thr' = "asleep",
           Locks', Clocks',
           isr'["cpu0"] = "off" => \A u \in ToSet(hard) : due[u] > 0
    PROVE  TimerInv'
  <1>1. UNCHANGED <<tick, hard, soft, active, timeout, hserv, sserv, due>>
    BY DEF lists
  <1>2. TypeOK' /\ OwnTimerOnlyAsleep'
    <2>1. TypeOK
      BY DEF TimerInv
    <2> QED BY <1>1, <2>1 DEF TypeOK, OwnTimerOnlyAsleep
  <1>3. ActiveIsListed'
    BY <1>1 DEF TimerInv, ActiveIsListed, Listed
  <1>4. DueTimes'
    BY <1>1 DEF TimerInv, DueTimes, Listed
  <1> QED BY <1>2, <1>3, <1>4 DEF TimerInv

LEMMA SetTimeKeeps ==
    ASSUME TimerInv, NEW t \in Soft \cup Hard, NEW v \in Times, SetTime(t, v)
    PROVE  TimerInv'
  <1>1. TypeOK /\ OwnTimerOnlyAsleep /\ Locks /\ Clocks /\ DueTimes
    BY DEF TimerInv
  <1>2. /\ t \in Periodic /\ init' = [init EXCEPT ![t] = v]
        /\ UNCHANGED <<tick, lists, lock, isr, now, thr, next, missed>>
    BY DEF SetTime
  <1>3. init' \in [Periodic -> Times]
    BY <1>1, <1>2 DEF TypeOK
  <1>4. Locks' /\ Clocks'
    BY <1>1, <1>2 DEF Locks, Clocks, lists
  <1>5. /\ lock' \in Cores \cup {"none", "thread"}
        /\ isr' \in [Cores -> {"off", "lock", "loop", "call"}]
        /\ now' \in [Cores -> 0 .. TickMod - 1]
        /\ thr' \in {"look", "suspend", "asleep", "delay", "sleep", "check", "call", "again"}
        /\ next' \in 0 .. TickMod - 1 /\ missed' \in BOOLEAN
    BY <1>1, <1>2 DEF TypeOK
  <1>6. /\ Self \in active => thr' = "asleep"
        /\ isr'["cpu0"] = "off" => \A u \in ToSet(hard) : due[u] > 0
    BY <1>1, <1>2 DEF OwnTimerOnlyAsleep, DueTimes
  <1> QED BY <1>2, <1>3, <1>4, <1>5, <1>6, ListsKept

(* Every listed timer is one tick nearer; no hard timer was due. *)
LEMMA TickTimes ==
    ASSUME TimerInv, Tick
    PROVE  /\ tick' \in 0 .. TickMod - 1
           /\ due' \in [Timers -> -LateMax .. Half - 1]
           /\ \A u \in Listed : due'[u] = due[u] - 1 /\ due'[u] = due[u] + (-1)
           /\ \A u \in Timers \ Listed : due'[u] = due[u]
           /\ \A u \in Listed : timeout[u] = (tick' + due'[u]) % TickMod
           /\ \A u \in ToSet(hard) : due'[u] >= 0
           /\ InPrioOrder(hard, due')
           /\ InPrioOrder(soft, due) => InPrioOrder(soft, due')
  <1>1. /\ hard \in Seq(Hard \cup {Self}) /\ soft \in Seq(Soft)
        /\ Listed = ToSet(hard) \cup ToSet(soft) /\ Listed \subseteq Timers
        /\ \A u \in Timers : due[u] \in -LateMax .. Half - 1 /\ due[u] \in Int
        /\ \A u \in Listed : timeout[u] = (tick + due[u]) % TickMod
        /\ tick \in 0 .. TickMod - 1
    BY ListFacts
  <1>2. /\ isr["cpu0"] = "off" /\ InTime /\ tick' = (tick + 1) % TickMod
        /\ due' = [t \in Timers |-> IF t \in Listed THEN due[t] - 1 ELSE due[t]]
    BY DEF Tick
  <1>3. /\ tick' \in 0 .. TickMod - 1
        /\ \A d \in -Half + 1 .. Half : (tick' + (d - 1)) % TickMod = (tick + d) % TickMod
    BY <1>1, <1>2, TickLater
  <1>4. \A u \in ToSet(hard) : due[u] > 0
    BY <1>2 DEF TimerInv, DueTimes
  <1>5. \A u \in ToSet(soft) : due[u] > -LateMax
    <2> TAKE u \in ToSet(soft)
    <2>1. PICK i \in DOMAIN soft : u = soft[i]
      BY <1>1 DEF ToSet
    <2> QED BY <1>2, <2>1 DEF InTime
  <1>6. \A u \in Listed : due[u] - 1 \in -LateMax .. Half - 1 /\ due[u] \in -Half + 1 .. Half
    <2> TAKE u \in Listed
    <2>1. due[u] \in Int /\ -LateMax <= due[u] /\ due[u] <= Half - 1
      BY <1>1, HalfFacts
    <2>2. due[u] > -LateMax
      BY <1>1, <1>4, <1>5, <2>1, HalfFacts
    <2> QED BY <2>1, <2>2, HalfFacts
  <1>7. due' \in [Timers -> -LateMax .. Half - 1]
    BY <1>1, <1>2, <1>6
  <1>8. /\ \A u \in Listed : due'[u] = due[u] - 1 /\ due'[u] = due[u] + (-1)
        /\ \A u \in Timers \ Listed : due'[u] = due[u]
    BY <1>1, <1>2
  <1>9. \A u \in Listed : timeout[u] = (tick' + due'[u]) % TickMod
    BY <1>1, <1>3, <1>6, <1>8
  <1>10. \A u \in ToSet(hard) : due'[u] >= 0
    BY <1>1, <1>4, <1>8
  <1>11. /\ \A u \in ToSet(hard) : due[u] \in Int /\ due'[u] = due[u] + (-1)
         /\ \A u \in ToSet(soft) : due[u] \in Int /\ due'[u] = due[u] + (-1)
         /\ -1 \in Int
    BY <1>1, <1>8
  <1>12. InPrioOrder(hard, due')
    <2>1. InPrioOrder(hard, due)
      BY DEF TimerInv, DueTimes
    <2> QED BY <1>1, <1>11, <2>1, SameOrder
  <1>13. ASSUME InPrioOrder(soft, due) PROVE InPrioOrder(soft, due')
    <2>1. soft \in Seq(Soft)
      BY <1>1
    <2> QED BY <1>11, <1>13, <2>1, SameOrder
  <1> QED BY <1>3, <1>7, <1>8, <1>9, <1>10, <1>12, <1>13

LEMMA TickKeeps ==
    ASSUME TimerInv, Tick
    PROVE  TimerInv'
  <1>1. /\ lock = "none" /\ isr["cpu0"] = "off" /\ InTime /\ tick' = (tick + 1) % TickMod
        /\ isr' = [isr EXCEPT !["cpu0"] = "lock"]
        /\ now' = [now EXCEPT !["cpu0"] = tick']
        /\ missed' = (missed \/ thr = "sleep")
        /\ UNCHANGED <<hard, soft, active, timeout, hserv, sserv, init, lock, thr, next>>
    BY DEF Tick
  <1>2. /\ tick' \in 0 .. TickMod - 1
        /\ due' \in [Timers -> -LateMax .. Half - 1]
        /\ \A u \in Listed : timeout[u] = (tick' + due'[u]) % TickMod
        /\ \A u \in ToSet(hard) : due'[u] >= 0
        /\ InPrioOrder(hard, due')
    BY TickTimes
  <1>3. TypeOK /\ OwnTimerOnlyAsleep /\ Locks /\ Clocks
    BY DEF TimerInv
  <1>4. /\ isr' \in [Cores -> {"off", "lock", "loop", "call"}]
        /\ now' \in [Cores -> 0 .. TickMod - 1]
        /\ isr'["cpu0"] = "lock" /\ now'["cpu0"] = tick'
        /\ isr'["cpu1"] = isr["cpu1"] /\ now'["cpu1"] = now["cpu1"]
        /\ now["cpu1"] \in 0 .. TickMod - 1
    BY <1>1, <1>2, <1>3 DEF TypeOK, Cores
  <1>5. TypeOK'
    BY <1>1, <1>2, <1>3, <1>4 DEF TypeOK
  <1>6. Locks' /\ OwnTimerOnlyAsleep'
    BY <1>1, <1>3, <1>4 DEF Locks, Cores, OwnTimerOnlyAsleep
  <1>7. Clocks'
    <2>1. ASSUME isr["cpu1"] # "off" PROVE Minus(tick', now["cpu1"]) <= LateMax
      <3>1. isr["cpu1"] = "lock"
        BY <1>1, <1>3, <2>1 DEF Locks, TypeOK, Cores
      <3>2. Minus(tick, now["cpu1"]) < LateMax
        BY <1>1, <3>1 DEF InTime
      <3>3. Minus(tick, now["cpu1"]) \in Int
        BY <1>3, <1>4, HalfFacts DEF Minus, TypeOK
      <3>4. Minus(tick, now["cpu1"]) < TickMod - 1 /\ tick \in 0 .. TickMod - 1
        BY <1>3, <3>2, <3>3, HalfFacts DEF TypeOK
      <3>5. Minus(tick', now["cpu1"]) = Minus(tick, now["cpu1"]) + 1
        BY <1>1, <1>4, <3>4, TickLater
      <3> QED BY <3>2, <3>3, <3>5, HalfFacts
    <2> QED BY <1>4, <2>1 DEF Clocks
  <1>8. ActiveIsListed'
    BY <1>1 DEF TimerInv, ActiveIsListed, Listed
  <1>9. DueTimes'
    BY <1>1, <1>2, <1>4 DEF DueTimes, Listed
  <1> QED BY <1>5, <1>6, <1>7, <1>8, <1>9 DEF TimerInv

LEMMA TickOtherKeeps ==
    ASSUME TimerInv, TickOther
    PROVE  TimerInv'
  <1>1. /\ lock = "none" /\ isr["cpu1"] = "off"
        /\ isr' = [isr EXCEPT !["cpu1"] = "lock"]
        /\ now' = [now EXCEPT !["cpu1"] = tick]
        /\ UNCHANGED <<tick, lists, init, lock, thr, next, missed>>
    BY DEF TickOther
  <1>2. TypeOK /\ OwnTimerOnlyAsleep /\ Locks /\ Clocks /\ DueTimes
    BY DEF TimerInv
  <1>3. /\ isr' \in [Cores -> {"off", "lock", "loop", "call"}]
        /\ now' \in [Cores -> 0 .. TickMod - 1]
        /\ isr'["cpu1"] = "lock" /\ now'["cpu1"] = tick
        /\ isr'["cpu0"] = isr["cpu0"] /\ now'["cpu0"] = now["cpu0"]
    BY <1>1, <1>2 DEF TypeOK, Cores
  <1>4. /\ init' \in [Periodic -> Times] /\ lock' \in Cores \cup {"none", "thread"}
        /\ thr' \in {"look", "suspend", "asleep", "delay", "sleep", "check", "call", "again"}
        /\ next' \in 0 .. TickMod - 1 /\ missed' \in BOOLEAN
    BY <1>1, <1>2 DEF TypeOK
  <1>5. Minus(tick, tick) <= LateMax
    <2>1. tick - tick = 0 /\ 0 % TickMod = 0
      BY <1>2, HalfFacts DEF TypeOK
    <2> QED BY <2>1, HalfFacts DEF Minus
  <1>6. Clocks'
    BY <1>1, <1>2, <1>3, <1>5 DEF Clocks
  <1>7. Locks'
    BY <1>1, <1>2, <1>3 DEF Locks, Cores, lists
  <1>8. /\ Self \in active => thr' = "asleep"
        /\ isr'["cpu0"] = "off" => \A u \in ToSet(hard) : due[u] > 0
    BY <1>1, <1>2, <1>3 DEF OwnTimerOnlyAsleep, DueTimes
  <1> QED BY <1>1, <1>3, <1>4, <1>6, <1>7, <1>8, ListsKept

(* In the loop of rt_timer_check its temporary list is empty. *)
LEMMA InLoopFacts ==
    ASSUME TimerInv, NEW c \in Cores, InLoop(c)
    PROVE  /\ hserv = None /\ lock \in {"none", c} /\ isr[c] \in {"lock", "loop"}
           /\ \A d \in Cores : d # c => isr[d] \notin {"loop", "call"}
           /\ isr \in [Cores -> {"off", "lock", "loop", "call"}]
  <1>1. Locks /\ TypeOK
    BY DEF TimerInv
  <1> QED BY <1>1 DEF InLoop, Locks, Cores, TypeOK

LEMMA CheckFireKeeps ==
    ASSUME TimerInv, NEW c \in Cores, CheckFire(c)
    PROVE  TimerInv'
  <1>1. /\ InLoop(c) /\ hard # <<>> /\ hard' = Tail(hard) /\ hserv' = Head(hard)
        /\ Taken(Head(hard))
        /\ thr' = (IF Head(hard) = Self THEN "check" ELSE thr)
        /\ lock' = c /\ isr' = [isr EXCEPT ![c] = "call"]
        /\ UNCHANGED <<tick, soft, sserv, init, now, next, missed>>
    BY DEF CheckFire, Expired
  <1>2. /\ hserv = None /\ lock \in {"none", c} /\ isr[c] \in {"lock", "loop"}
        /\ \A d \in Cores : d # c => isr[d] \notin {"loop", "call"}
    BY <1>1, InLoopFacts
  <1>3. /\ Head(hard) \in Hard \cup {Self} /\ Head(hard) \in Listed
        /\ hard' \in Seq(Hard \cup {Self})
        /\ ToSet(hard') = ToSet(hard) \ {Head(hard)}
        /\ active' \subseteq active /\ (Head(hard) = Self => Self \notin active')
        /\ timeout' \in [Timers -> 0 .. TickMod - 1]
        /\ due' \in [Timers -> -LateMax .. Half - 1]
        /\ \A u \in Timers \ {Head(hard)} : due'[u] = due[u]
        /\ \A u \in Listed' : timeout'[u] = (tick + due'[u]) % TickMod
        /\ InPrioOrder(hard', due')
        /\ ActiveIsListed'
    BY <1>1, <1>2, HardFires
  <1>4. TypeOK /\ OwnTimerOnlyAsleep /\ Locks /\ Clocks /\ DueTimes
    BY DEF TimerInv
  <1>5. /\ isr' \in [Cores -> {"off", "lock", "loop", "call"}]
        /\ isr'[c] = "call" /\ \A d \in Cores : d # c => isr'[d] = isr[d]
    BY <1>1, <1>4 DEF TypeOK
  <1>6. TypeOK'
    <2>1. active' \subseteq Timers /\ hserv' \in Hard \cup {Self, None}
      BY <1>1, <1>3, <1>4 DEF TypeOK
    <2>2. lock' \in Cores \cup {"none", "thread"}
      BY <1>1
    <2> QED BY <1>1, <1>3, <1>4, <1>5, <2>1, <2>2 DEF TypeOK
  <1>7. Head(hard) = Self => thr = "asleep"
    <2>1. Head(hard) \in Timers /\ Head(hard) \in active
      BY <1>3, TimerKinds DEF TimerInv, ActiveIsListed
    <2> QED BY <1>4, <2>1 DEF OwnTimerOnlyAsleep
  <1>8. OwnTimerOnlyAsleep'
    BY <1>1, <1>3, <1>4, <1>7 DEF OwnTimerOnlyAsleep
  <1>9. Locks'
    <2>1. \A d \in Cores : isr'[d] \in {"loop", "call"} <=> lock' = d
      BY <1>1, <1>2, <1>5
    <2>2. sserv' # None => thr' = "call"
      BY <1>1, <1>4, <1>7 DEF Locks
    <2>3. thr' = "sleep" => next' \in 1 .. Half - 1
      BY <1>1, <1>4, <1>7 DEF Locks
    <2>4. lock' \in Cores /\ isr'[lock'] = "call"
      BY <1>1, <1>5
    <2> QED BY <2>1, <2>2, <2>3, <2>4 DEF Locks
  <1>10. \A d \in Cores : isr'[d] = "off" <=> isr[d] = "off"
    BY <1>2, <1>5
  <1>11. Clocks'
    BY <1>1, <1>4, <1>10 DEF Clocks, Cores
  <1>12. DueTimes'
    <2>1. ToSet(hard) \subseteq Timers
      BY ListFacts
    <2>2. \A u \in ToSet(hard') : due'[u] >= 0 /\ (isr'["cpu0"] = "off" => due'[u] > 0)
      BY <1>3, <1>4, <1>10, <2>1 DEF DueTimes, Cores
    <2> QED BY <1>1, <1>3, <2>2 DEF DueTimes
  <1> QED BY <1>3, <1>6, <1>8, <1>9, <1>11, <1>12 DEF TimerInv

(* What a difference with the tick says of a listed timer. *)
LEMMA ExpiredIsDue ==
    ASSUME TimerInv, NEW t \in Listed
    PROVE  Minus(tick, timeout[t]) < Half <=> due[t] <= 0
  <1>1. /\ timeout[t] = (tick + due[t]) % TickMod /\ tick \in 0 .. TickMod - 1
        /\ due[t] \in -LateMax .. Half - 1
    BY ListFacts
  <1>2. due[t] \in -Half .. Half
    BY <1>1, HalfFacts
  <1>3. Minus(tick, timeout[t]) = IF due[t] > 0 THEN TickMod - due[t] ELSE -due[t]
    BY <1>1, <1>2, TickFromNow
  <1> QED BY <1>1, <1>3, HalfFacts

LEMMA CheckAfterKeeps ==
    ASSUME TimerInv, NEW c \in Cores, CheckAfter(c)
    PROVE  TimerInv'
  <1>1. /\ isr[c] = "call" /\ now' = [now EXCEPT ![c] = tick]
        /\ isr' = [isr EXCEPT ![c] = "loop"]
        /\ UNCHANGED <<tick, init, lock, thr, next, missed>>
    BY DEF CheckAfter
  <1>2. TypeOK /\ ActiveIsListed /\ OwnTimerOnlyAsleep /\ Locks /\ Clocks /\ DueTimes
    BY DEF TimerInv
  <1>3. /\ isr' \in [Cores -> {"off", "lock", "loop", "call"}]
        /\ now' \in [Cores -> 0 .. TickMod - 1]
        /\ isr'[c] = "loop" /\ \A d \in Cores : d # c => isr'[d] = isr[d]
        /\ now'[c] = tick /\ \A d \in Cores : d # c => now'[d] = now[d]
    BY <1>1, <1>2 DEF TypeOK
  <1>4. \A d \in Cores : isr'[d] = "off" <=> isr[d] = "off"
    BY <1>1, <1>3
  <1>5. Clocks'
    <2>1. isr'["cpu0"] # "off" => now'["cpu0"] = tick
      BY <1>2, <1>3, <1>4 DEF Clocks, Cores
    <2>2. isr'["cpu1"] # "off" => Minus(tick, now'["cpu1"]) <= LateMax
      <3>1. CASE c = "cpu1"
        <4>1. tick - tick = 0 /\ 0 % TickMod = 0
          BY <1>2, HalfFacts DEF TypeOK
        <4> QED BY <1>3, <3>1, <4>1, HalfFacts DEF Minus
      <3>2. CASE c # "cpu1"
        BY <1>2, <1>3, <1>4, <3>2 DEF Clocks, Cores
      <3> QED BY <3>1, <3>2
    <2> QED BY <1>1, <2>1, <2>2 DEF Clocks
  <1>6. hserv' = None /\ sserv' \in {sserv, None} => Locks'
    <2> HAVE hserv' = None /\ sserv' \in {sserv, None}
    <2>1. \A d \in Cores : isr'[d] \in {"loop", "call"} <=> lock' = d
      BY <1>1, <1>2, <1>3 DEF Locks
    <2>2. /\ sserv' # None => thr' = "call"
          /\ thr' = "sleep" => next' \in 1 .. Half - 1
      BY <1>1, <1>2 DEF Locks
    <2> QED BY <2>1, <2>2 DEF Locks
  <1>7. CASE hserv \in active
    <2>1. hserv \in Periodic /\ hserv \in Timers /\ hserv # Self /\ hserv \in Hard
      BY <1>2, <1>7, TimerKinds DEF ActiveIsListed, TypeOK
    <2> DEFINE t == hserv
               v == init[t]
    <2>2. Started(t, v, FALSE)
      BY <1>7 DEF CheckAfter
    <2>3. v \in 1 .. Half - 1
      BY <1>2, <2>1, HalfFacts DEF TypeOK
    <2>4. t \in Timers /\ t # Self /\ t = hserv /\ FALSE \in BOOLEAN
      BY <2>1
    <2> HIDE DEF t, v
    <2>5. /\ hard' \in Seq(Hard \cup {Self}) /\ soft' \in Seq(Soft)
          /\ active' \subseteq Timers
          /\ timeout' \in [Timers -> 0 .. TickMod - 1]
          /\ due' \in [Timers -> -LateMax .. Half - 1]
          /\ \A u \in Listed' : timeout'[u] = (tick + due'[u]) % TickMod
          /\ InPrioOrder(hard', due')
          /\ ActiveIsListed'
      BY <2>2, <2>3, <2>4, StartedProperties
    <2>6. /\ active' = (active \ {t}) \cup {t}
          /\ hserv' = None /\ sserv' \in {sserv, None}
          /\ \A u \in ToSet(hard') : due'[u] >= 0 /\ (isr["cpu0"] = "off" => due'[u] > 0)
      BY <2>2, <2>3, <2>4, StartedFrame
    <2>7. TypeOK'
      BY <1>1, <1>2, <1>3, <2>5, <2>6 DEF TypeOK
    <2>8. OwnTimerOnlyAsleep'
      BY <1>1, <1>2, <2>4, <2>6 DEF OwnTimerOnlyAsleep
    <2>9. DueTimes'
      BY <1>1, <1>4, <2>5, <2>6 DEF DueTimes, Cores
    <2> QED BY <1>5, <1>6, <2>5, <2>6, <2>7, <2>8, <2>9 DEF TimerInv
  <1>8. CASE hserv \notin active
    <2>1. hserv' = None /\ UNCHANGED <<hard, soft, active, timeout, sserv, due>>
      BY <1>8 DEF CheckAfter
    <2>2. TypeOK'
      BY <1>1, <1>2, <1>3, <2>1 DEF TypeOK
    <2>3. OwnTimerOnlyAsleep'
      BY <1>1, <1>2, <2>1 DEF OwnTimerOnlyAsleep
    <2>4. DueTimes'
      BY <1>1, <1>2, <1>4, <2>1 DEF DueTimes, Cores, Listed
    <2>5. ActiveIsListed'
      <3>1. Listed' = Listed /\ Listed \subseteq Timers /\ None \notin Timers
        BY <2>1, ListFacts, TimerKinds DEF Listed
      <3>2. \A u \in Timers : u \in active' <=> u \in Listed' \/ (u \in Periodic /\ u \in {hserv', sserv'})
        <4> TAKE u \in Timers
        <4>1. u # None /\ (u = hserv => u \notin active)
          BY <1>8, <3>1
        <4>2. u \in active <=> u \in Listed \/ (u \in Periodic /\ u \in {hserv, sserv})
          BY <1>2 DEF ActiveIsListed
        <4> QED BY <2>1, <3>1, <4>1, <4>2
      <3>3. hserv' \notin Listed' /\ sserv' \notin Listed'
        BY <1>2, <2>1, <3>1 DEF ActiveIsListed
      <3>4. Distinct(hard') /\ Distinct(soft')
        BY <2>1, ListFacts
      <3> DEFINE L == Listed'
      <3>5. L = Listed'
        OBVIOUS
      <3> HIDE DEF L
      <3> QED BY <3>2, <3>3, <3>4, <3>5, ActiveFrom
    <2> QED BY <1>5, <1>6, <2>1, <2>2, <2>3, <2>4, <2>5 DEF TimerInv
  <1> QED BY <1>7, <1>8

(* rt_timer_check of the first core ends with no hard timer due. *)
LEMMA CheckDoneKeeps ==
    ASSUME TimerInv, NEW c \in Cores, CheckDone(c)
    PROVE  TimerInv'
  <1>1. /\ InLoop(c) /\ ~Expired(hard, now[c]) /\ lock' = "none"
        /\ isr' = [isr EXCEPT ![c] = "off"] /\ now' = [now EXCEPT ![c] = 0]
        /\ UNCHANGED <<tick, lists, init, thr, next, missed>>
    BY DEF CheckDone
  <1>2. /\ hserv = None /\ isr[c] \in {"lock", "loop"}
        /\ \A d \in Cores : d # c => isr[d] \notin {"loop", "call"}
    BY <1>1, InLoopFacts
  <1>3. TypeOK /\ OwnTimerOnlyAsleep /\ Locks /\ Clocks /\ DueTimes
    BY DEF TimerInv
  <1>4. /\ isr' \in [Cores -> {"off", "lock", "loop", "call"}]
        /\ now' \in [Cores -> 0 .. TickMod - 1]
        /\ isr'[c] = "off" /\ \A d \in Cores : d # c => isr'[d] = isr[d]
        /\ \A d \in Cores : d # c => now'[d] = now[d]
    BY <1>1, <1>3, HalfFacts DEF TypeOK
  <1>5. Locks'
    <2>1. \A d \in Cores : isr'[d] \notin {"loop", "call"} /\ lock' # d
      BY <1>1, <1>2, <1>4 DEF Cores
    <2>2. /\ hserv' = None /\ (sserv' # None => thr' = "call")
          /\ thr' = "sleep" => next' \in 1 .. Half - 1
      BY <1>1, <1>2, <1>3 DEF Locks, lists
    <2> QED BY <2>1, <2>2 DEF Locks
  <1>6. Clocks'
    BY <1>1, <1>3, <1>4 DEF Clocks, Cores
  <1>7. isr'["cpu0"] = "off" => \A u \in ToSet(hard) : due[u] > 0
    <2>1. CASE c # "cpu0"
      BY <1>3, <1>4, <2>1 DEF DueTimes, Cores
    <2>2. CASE c = "cpu0"
      <3>1. now["cpu0"] = tick
        BY <1>2, <1>3, <2>2 DEF Clocks
      <3>2. hard = <<>> \/ (hard # <<>> /\ ~(Minus(tick, timeout[Head(hard)]) < Half))
        BY <1>1, <2>2, <3>1 DEF Expired
      <3>3. CASE hard = <<>>
        <4>1. ToSet(hard) = {}
          BY <3>3, ListFacts, ListedIn
        <4> QED BY <4>1
      <3>4. CASE hard # <<>> /\ ~(Minus(tick, timeout[Head(hard)]) < Half)
        <4>0. /\ hard \in Seq(Hard \cup {Self}) /\ Listed = ToSet(hard) \cup ToSet(soft)
              /\ Listed \subseteq Timers /\ \A u \in Timers : due[u] \in Int
          BY ListFacts
        <4>1. Head(hard) \in ToSet(hard)
          BY <3>4, <4>0, HeadListed
        <4>2. ~(due[Head(hard)] <= 0) /\ due[Head(hard)] \in Int
          BY <3>4, <4>0, <4>1, ExpiredIsDue
        <4>3. \A u \in ToSet(hard) : due[Head(hard)] <= due[u] /\ due[u] \in Int
          <5>1. InPrioOrder(hard, due) /\ \A u \in ToSet(hard) : due[u] \in Int
            BY <1>3, <4>0 DEF DueTimes
          <5> QED BY <3>4, <4>0, <5>1, TailOrdered
        <4> QED BY <4>2, <4>3
      <3> QED BY <3>2, <3>3, <3>4
    <2> QED BY <2>1, <2>2
  <1>8. /\ init' \in [Periodic -> Times] /\ lock' \in Cores \cup {"none", "thread"}
        /\ thr' \in {"look", "suspend", "asleep", "delay", "sleep", "check", "call", "again"}
        /\ next' \in 0 .. TickMod - 1 /\ missed' \in BOOLEAN
    BY <1>1, <1>3 DEF TypeOK
  <1>9. Self \in active => thr' = "asleep"
    BY <1>1, <1>3 DEF OwnTimerOnlyAsleep
  <1> QED BY <1>1, <1>4, <1>5, <1>6, <1>7, <1>8, <1>9, ListsKept

LEMMA ThreadDecides ==
    ASSUME TimerInv, Look \/ Suspend \/ Delay \/ SoftDone
    PROVE  TimerInv'
  <1>1. TypeOK /\ OwnTimerOnlyAsleep /\ Locks /\ Clocks /\ DueTimes
    BY DEF TimerInv
  <1>2. /\ UNCHANGED <<tick, lists, init, isr, now>>
        /\ thr \in {"look", "suspend", "delay", "check", "again"}
        /\ thr' \in {"look", "suspend", "delay", "sleep", "check", "asleep"}
        /\ lock' = lock \/ (lock = "thread" /\ lock' = "none")
    BY DEF Look, Suspend, Delay, SoftDone, ThreadAt, InSoftLoop
  <1>3. next' \in 0 .. TickMod - 1 /\ (thr' = "sleep" => next' \in 1 .. Half - 1) /\ missed' \in BOOLEAN
    <2>1. CASE Look
      <3>1. soft # <<>> => Head(soft) \in Timers
        BY ListFacts, HeadListed, TimerKinds
      <3>2. soft # <<>> => timeout[Head(soft)] \in 0 .. TickMod - 1
        BY <3>1, ListFacts
      <3> QED BY <1>1, <2>1, <3>2 DEF Look, TypeOK
    <2>2. CASE Suspend \/ SoftDone
      BY <1>1, <2>2 DEF Suspend, SoftDone, TypeOK
    <2>3. CASE Delay
      <3> DEFINE delta == Minus(next, tick)
      <3>1. delta \in 0 .. TickMod - 1
        BY <1>1, HalfFacts DEF Minus, TypeOK
      <3>2. /\ \/ delta < Half /\ delta # 0 /\ thr' = "sleep" /\ next' = delta
               \/ thr' = "check" /\ next' = 0
            /\ missed' = missed
        BY <2>3 DEF Delay
      <3> HIDE DEF delta
      <3>3. missed' \in BOOLEAN
        BY <1>1, <3>2 DEF TypeOK
      <3>4. next' \in 0 .. TickMod - 1 /\ (thr' = "sleep" => next' \in 1 .. Half - 1)
        BY <3>1, <3>2, HalfFacts
      <3> QED BY <3>3, <3>4
    <2> QED BY <2>1, <2>2, <2>3
  <1>4. /\ lock' \in Cores \cup {"none", "thread"} /\ (\A c \in Cores : lock' = c <=> lock = c)
    BY <1>1, <1>2 DEF TypeOK, Cores
  <1>5. Locks'
    <2>1. hserv' = hserv /\ sserv' = sserv /\ isr' = isr /\ sserv = None
      BY <1>1, <1>2 DEF Locks, lists
    <2>2. \A c \in Cores : isr'[c] \in {"loop", "call"} <=> lock' = c
      BY <1>1, <1>4, <2>1 DEF Locks
    <2>3. hserv' # None => lock' \in Cores /\ isr'[lock'] = "call"
      BY <1>1, <1>4, <2>1 DEF Locks
    <2> QED BY <1>3, <2>1, <2>2, <2>3 DEF Locks
  <1>6. Clocks'
    BY <1>1, <1>2 DEF Clocks
  <1>7. /\ init' \in [Periodic -> Times]
        /\ isr' \in [Cores -> {"off", "lock", "loop", "call"}]
        /\ now' \in [Cores -> 0 .. TickMod - 1]
        /\ thr' \in {"look", "suspend", "asleep", "delay", "sleep", "check", "call", "again"}
        /\ Self \in active => thr' = "asleep"
        /\ isr'["cpu0"] = "off" => \A u \in ToSet(hard) : due[u] > 0
    BY <1>1, <1>2 DEF TypeOK, OwnTimerOnlyAsleep, DueTimes
  <1> QED BY <1>2, <1>3, <1>4, <1>5, <1>6, <1>7, ListsKept

LEMMA SleepKeeps ==
    ASSUME TimerInv, Sleep
    PROVE  TimerInv'
  <1>1. /\ thr = "sleep" /\ Started(Self, next, FALSE) /\ thr' = "asleep" /\ next' = 0
        /\ UNCHANGED <<tick, init, lock, isr, now, missed>>
    BY DEF Sleep, ThreadAt
  <1>2. TypeOK /\ Locks /\ Clocks
    BY DEF TimerInv
  <1>3. next \in 1 .. Half - 1 /\ Self \in Timers /\ FALSE \in BOOLEAN
    BY <1>1, <1>2, TimerKinds DEF Locks
  <1>4. /\ hard' \in Seq(Hard \cup {Self}) /\ soft' \in Seq(Soft)
        /\ active' \subseteq Timers
        /\ timeout' \in [Timers -> 0 .. TickMod - 1]
        /\ due' \in [Timers -> -LateMax .. Half - 1]
        /\ \A u \in Listed' : timeout'[u] = (tick + due'[u]) % TickMod
        /\ InPrioOrder(hard', due')
        /\ ActiveIsListed'
    BY <1>1, <1>3, StartedProperties
  <1>5. /\ hserv' \in {hserv, None} /\ sserv' \in {sserv, None}
        /\ \A u \in ToSet(hard') : due'[u] >= 0 /\ (isr["cpu0"] = "off" => due'[u] > 0)
    BY <1>1, <1>3, StartedFrame
  <1>6. TypeOK'
    <2>1. 0 \in 0 .. TickMod - 1
      BY HalfFacts
    <2> QED BY <1>1, <1>2, <1>4, <1>5, <2>1 DEF TypeOK
  <1>7. Locks' /\ OwnTimerOnlyAsleep' /\ Clocks'
    BY <1>1, <1>2, <1>5 DEF Locks, OwnTimerOnlyAsleep, Clocks
  <1>8. DueTimes'
    BY <1>1, <1>4, <1>5 DEF DueTimes
  <1> QED BY <1>4, <1>6, <1>7, <1>8 DEF TimerInv

LEMMA SoftFireKeeps ==
    ASSUME TimerInv, SoftFire
    PROVE  TimerInv'
  <1>1. /\ InSoftLoop /\ soft # <<>> /\ soft' = Tail(soft) /\ sserv' = Head(soft)
        /\ Taken(Head(soft)) /\ thr' = "call" /\ lock' = "none"
        /\ UNCHANGED <<tick, hard, hserv, init, isr, now, next, missed>>
    BY DEF SoftFire, Expired
  <1>2. TypeOK /\ OwnTimerOnlyAsleep /\ Locks /\ Clocks /\ DueTimes
    BY DEF TimerInv
  <1>3. thr \in {"check", "again"} /\ lock \in {"none", "thread"} /\ sserv = None /\ hserv = None
    BY <1>1, <1>2 DEF InSoftLoop, Locks, Cores
  <1>4. /\ Head(soft) \in Soft /\ soft' \in Seq(Soft)
        /\ ToSet(hard') = ToSet(hard) \ {Head(soft)}
        /\ active' \subseteq active
        /\ timeout' \in [Timers -> 0 .. TickMod - 1]
        /\ due' \in [Timers -> -LateMax .. Half - 1]
        /\ \A u \in Timers \ {Head(soft)} : due'[u] = due[u]
        /\ \A u \in Listed' : timeout'[u] = (tick + due'[u]) % TickMod
        /\ InPrioOrder(hard', due')
        /\ ActiveIsListed'
    BY <1>1, <1>3, SoftFires
  <1>5. TypeOK'
    <2>1. active' \subseteq Timers
      BY <1>2, <1>4 DEF TypeOK
    <2> QED BY <1>1, <1>2, <1>4, <2>1 DEF TypeOK
  <1>6. OwnTimerOnlyAsleep' /\ Clocks'
    BY <1>1, <1>2, <1>3, <1>4 DEF OwnTimerOnlyAsleep, Clocks
  <1>7. Locks'
    BY <1>1, <1>2, <1>3 DEF Locks, Cores
  <1>8. DueTimes'
    <2>1. ToSet(hard) \subseteq Timers
      BY ListFacts
    <2>2. \A u \in ToSet(hard') : due'[u] >= 0 /\ (isr["cpu0"] = "off" => due'[u] > 0)
      BY <1>2, <1>4, <2>1 DEF DueTimes
    <2> QED BY <1>1, <1>4, <2>2 DEF DueTimes
  <1> QED BY <1>4, <1>5, <1>6, <1>7, <1>8 DEF TimerInv

LEMMA SoftAfterKeeps ==
    ASSUME TimerInv, SoftAfter
    PROVE  TimerInv'
  <1>1. /\ thr = "call" /\ lock = "none" /\ thr' = "again" /\ lock' = "thread"
        /\ UNCHANGED <<tick, init, isr, now, next, missed>>
    BY DEF SoftAfter, ThreadAt
  <1>2. TypeOK /\ ActiveIsListed /\ OwnTimerOnlyAsleep /\ Locks /\ Clocks /\ DueTimes
    BY DEF TimerInv
  <1>3. hserv = None
    BY <1>1, <1>2 DEF Locks, Cores
  <1>4. hserv' = None /\ sserv' = None => Locks'
    BY <1>1, <1>2 DEF Locks, Cores
  <1>5. Clocks'
    BY <1>1, <1>2 DEF Clocks
  <1>6. CASE sserv \in active
    <2>1. sserv \in Periodic /\ sserv \in Timers /\ sserv # Self /\ sserv \in Soft
      BY <1>2, <1>6, TimerKinds DEF ActiveIsListed, TypeOK
    <2> DEFINE t == sserv
               v == init[t]
    <2>2. Started(t, v, FALSE)
      BY <1>6 DEF SoftAfter
    <2>3. v \in 1 .. Half - 1
      BY <1>2, <2>1, HalfFacts DEF TypeOK
    <2>4. t \in Timers /\ t # Self /\ t = sserv /\ FALSE \in BOOLEAN
      BY <2>1
    <2> HIDE DEF t, v
    <2>5. /\ hard' \in Seq(Hard \cup {Self}) /\ soft' \in Seq(Soft)
          /\ active' \subseteq Timers
          /\ timeout' \in [Timers -> 0 .. TickMod - 1]
          /\ due' \in [Timers -> -LateMax .. Half - 1]
          /\ \A u \in Listed' : timeout'[u] = (tick + due'[u]) % TickMod
          /\ InPrioOrder(hard', due')
          /\ ActiveIsListed'
      BY <2>2, <2>3, <2>4, StartedProperties
    <2>6. /\ active' = (active \ {t}) \cup {t}
          /\ hserv' \in {hserv, None} /\ sserv' = None
          /\ \A u \in ToSet(hard') : due'[u] >= 0 /\ (isr["cpu0"] = "off" => due'[u] > 0)
      BY <2>2, <2>3, <2>4, StartedFrame
    <2>7. TypeOK'
      BY <1>1, <1>2, <2>5, <2>6 DEF TypeOK
    <2>8. OwnTimerOnlyAsleep'
      BY <1>1, <1>2, <2>4, <2>6 DEF OwnTimerOnlyAsleep
    <2>9. DueTimes'
      BY <1>1, <2>5, <2>6 DEF DueTimes
    <2> QED BY <1>3, <1>4, <1>5, <2>5, <2>6, <2>7, <2>8, <2>9 DEF TimerInv
  <1>7. CASE sserv \notin active
    <2>1. sserv' = None /\ UNCHANGED <<hard, soft, active, timeout, hserv, due>>
      BY <1>7 DEF SoftAfter
    <2>2. TypeOK'
      BY <1>1, <1>2, <2>1 DEF TypeOK
    <2>3. OwnTimerOnlyAsleep'
      BY <1>1, <1>2, <2>1 DEF OwnTimerOnlyAsleep
    <2>4. DueTimes'
      BY <1>1, <1>2, <2>1 DEF DueTimes, Listed
    <2>5. ActiveIsListed'
      <3>1. Listed' = Listed /\ Listed \subseteq Timers /\ None \notin Timers
        BY <2>1, ListFacts, TimerKinds DEF Listed
      <3>2. \A u \in Timers : u \in active' <=> u \in Listed' \/ (u \in Periodic /\ u \in {hserv', sserv'})
        <4> TAKE u \in Timers
        <4>1. u # None /\ (u = sserv => u \notin active)
          BY <1>7, <3>1
        <4>2. u \in active <=> u \in Listed \/ (u \in Periodic /\ u \in {hserv, sserv})
          BY <1>2 DEF ActiveIsListed
        <4> QED BY <2>1, <3>1, <4>1, <4>2
      <3>3. hserv' \notin Listed' /\ sserv' \notin Listed'
        BY <1>2, <2>1, <3>1 DEF ActiveIsListed
      <3>4. Distinct(hard') /\ Distinct(soft')
        BY <2>1, ListFacts
      <3> DEFINE L == Listed'
      <3>5. L = Listed'
        OBVIOUS
      <3> HIDE DEF L
      <3> QED BY <3>2, <3>3, <3>4, <3>5, ActiveFrom
    <2> QED BY <1>3, <1>4, <1>5, <2>1, <2>2, <2>3, <2>4, <2>5 DEF TimerInv
  <1> QED BY <1>6, <1>7

LEMMA InitTimerInv == Init => TimerInv
  <1> SUFFICES ASSUME Init PROVE TimerInv
    OBVIOUS
  <1>1. /\ ToSet(hard) = {} /\ ToSet(soft) = {} /\ Listed = {} /\ DOMAIN hard = {} /\ DOMAIN soft = {}
    BY DEF Init, ToSet, Listed
  <1>2. TypeOK
    <2>1. 0 \in 0 .. TickMod - 1 /\ 0 \in -LateMax .. Half - 1
      BY HalfFacts
    <2>2. hard \in Seq(Hard \cup {Self}) /\ soft \in Seq(Soft)
      BY DEF Init
    <2> QED BY <2>1, <2>2 DEF Init, TypeOK
  <1>3. ActiveIsListed
    BY <1>1, TimerKinds DEF Init, ActiveIsListed
  <1>4. OwnTimerOnlyAsleep /\ Locks /\ Clocks
    BY DEF Init, OwnTimerOnlyAsleep, Locks, Clocks, Cores
  <1>5. DueTimes
    BY <1>1 DEF DueTimes, InPrioOrder
  <1> QED BY <1>2, <1>3, <1>4, <1>5 DEF TimerInv

LEMMA NextTimerInv == TimerInv /\ [Next]_vars => TimerInv'
  <1> SUFFICES ASSUME TimerInv, [Next]_vars PROVE TimerInv'
    OBVIOUS
  <1>1. CASE \E t \in Soft \cup Hard, v \in Times : Start(t, v) \/ SetTime(t, v)
    BY <1>1, StartKeeps, SetTimeKeeps
  <1>2. CASE \E t \in Soft \cup Hard : Stop(t) \/ Detach(t)
    BY <1>2, UnlinkedKeeps DEF Stop, Detach
  <1>3. CASE Tick \/ TickOther
    BY <1>3, TickKeeps, TickOtherKeeps
  <1>4. CASE \E c \in Cores : Interrupt(c)
    BY <1>4, CheckFireKeeps, CheckAfterKeeps, CheckDoneKeeps DEF Interrupt
  <1>5. CASE Thread
    BY <1>5, ThreadDecides, SleepKeeps, SoftFireKeeps, SoftAfterKeeps DEF Thread
  <1>6. CASE UNCHANGED vars
    <2>1. UNCHANGED <<tick, hard, soft, active, timeout, hserv, sserv, due, init, lock, isr,
                      now, thr, next, missed>>
      BY <1>6 DEF vars, lists
    <2> QED BY <2>1 DEF TimerInv, TypeOK, ActiveIsListed, OwnTimerOnlyAsleep, Locks, Clocks,
                        DueTimes, Listed
  <1> QED BY <1>1, <1>2, <1>3, <1>4, <1>5, <1>6 DEF Next

(* The invariant holds for all timers, all times the kernel accepts and    *)
(* any range of the tick.                                                  *)
THEOREM TimerInvariant == Spec => []TimerInv
  BY InitTimerInv, NextTimerInv, PTL DEF Spec

(* The time left never leaves the range the wrapped counts can tell apart. *)
THEOREM TimerTypeOK == Spec => []TypeOK
  <1>1. TimerInv => TypeOK
    BY DEF TimerInv
  <1> QED BY <1>1, TimerInvariant, PTL

(* RT_TIMER_FLAG_ACTIVATED tells the truth in any order of starts, stops   *)
(* and callbacks on both cores.                                            *)
THEOREM TimerActiveIsListed == Spec => []ActiveIsListed
  <1>1. TimerInv => ActiveIsListed
    BY DEF TimerInv
  <1> QED BY <1>1, TimerInvariant, PTL

(* The assertion of _thread_timeout never fails for the timer thread.      *)
THEOREM TimerOwnOnlyAsleep == Spec => []OwnTimerOnlyAsleep
  <1>1. TimerInv => OwnTimerOnlyAsleep
    BY DEF TimerInv
  <1> QED BY <1>1, TimerInvariant, PTL

(* When the first core's tick interrupt is over no hard timer is due:      *)
(* hard timers are never late, so their list is in order for any time the  *)
(* kernel accepts, and the first one tells about all.                      *)
THEOREM TimerHardOnTime == Spec => []HardOnTime
  <1>1. TimerInv => HardOnTime
    <2>1. \A i \in DOMAIN hard : hard[i] \in ToSet(hard)
      BY DEF ToSet
    <2> QED BY <2>1 DEF HardOnTime, TimerInv, DueTimes
  <1> QED BY <1>1, TimerInvariant, PTL

-----------------------------------------------------------------------------
(* The soft timers and the timer thread's sleep, while half of the range   *)
(* of the tick is enough.                                                  *)

(* Steps that let the tick and next_timeout be, and the timer thread where *)
(* it is or away from its sleep.                                           *)
LEMMA NearKept ==
    ASSUME TimerInv, Near, tick' = tick, next' = next,
           thr' \in {thr, "check", "call", "again", "look"}, ~missed' => ~missed,
           soft' \in Seq(Soft), InPrioOrder(soft', due'),
           \A u \in Listed' : due'[u] + LateMax <= TickMod - Half,
           thr' = thr /\ thr \in {"suspend", "delay", "sleep", "asleep"} /\ ~missed' =>
               ToSet(soft') \subseteq ToSet(soft) /\ \A u \in ToSet(soft') : due'[u] = due[u],
           thr' = thr /\ thr = "asleep" /\ Self \in active =>
               Self \in active' /\ due'[Self] = due[Self]
    PROVE  Near'
  <1>1. thr' = "sleep" => next' + LateMax <= TickMod - Half
    BY DEF Near
  <1>2. thr' = "delay" => \E d \in -Half .. Half - 1 : DelayFits(d)'
    <2> SUFFICES ASSUME thr' = "delay" PROVE \E d \in -Half .. Half - 1 : DelayFits(d)'
      OBVIOUS
    <2>1. thr = "delay"
      OBVIOUS
    <2>2. PICK d \in -Half .. Half - 1 : DelayFits(d)
      BY <2>1 DEF Near
    <2>3. DelayFits(d)'
      BY <2>1, <2>2 DEF DelayFits
    <2> QED BY <2>3
  <1>3. Wakes'
    <2> SUFFICES ASSUME ~missed' PROVE
               /\ thr' = "suspend" => soft' = <<>>
               /\ thr' = "sleep" => \A u \in ToSet(soft') : next' <= due'[u]
               /\ thr' = "asleep" => \A u \in ToSet(soft') : Self \in active' /\ due'[Self] <= due'[u]
      BY DEF Wakes
    <2>1. Wakes /\ ~missed
      BY DEF Near
    <2>2. ASSUME thr' = "suspend" PROVE soft' = <<>>
      <3>1. thr = "suspend" /\ soft = <<>>
        BY <2>1, <2>2 DEF Wakes
      <3>2. ToSet(soft) = {}
        BY <3>1, ListFacts, ListedIn
      <3>3. ToSet(soft') = {}
        BY <2>2, <3>1, <3>2
      <3> QED BY <3>3, ListedIn
    <2>3. ASSUME thr' = "sleep" PROVE \A u \in ToSet(soft') : next' <= due'[u]
      BY <2>1, <2>3 DEF Wakes
    <2>4. ASSUME thr' = "asleep", NEW u \in ToSet(soft')
          PROVE  Self \in active' /\ due'[Self] <= due'[u]
      <3>1. thr = "asleep" /\ u \in ToSet(soft) /\ due'[u] = due[u]
        BY <2>4
      <3>2. Self \in active /\ due[Self] <= due[u]
        BY <2>1, <3>1 DEF Wakes
      <3> QED BY <2>4, <3>1, <3>2
    <2> QED BY <2>2, <2>3, <2>4
  <1> QED BY <1>1, <1>2, <1>3 DEF Near

(* Steps that leave the lists alone. *)
LEMMA NearListsKept ==
    ASSUME TimerInv, Near, UNCHANGED <<tick, lists, next, missed>>,
           thr' \in {thr, "check", "call", "again", "look"}
    PROVE  Near'
  <1>1. UNCHANGED <<hard, soft, active, due>> /\ Listed' = Listed
    BY DEF lists, Listed
  <1>2. /\ soft' \in Seq(Soft) /\ InPrioOrder(soft', due')
        /\ \A u \in Listed' : due'[u] + LateMax <= TickMod - Half
    BY <1>1, ListFacts DEF Near
  <1> QED BY <1>1, <1>2, NearKept

(* Steps in which a timer leaves its list. *)
LEMMA NearLeaves ==
    ASSUME TimerInv, Near, NEW t \in Timers, tick' = tick, next' = next, missed' = missed,
           thr' \in {thr, "check", "call", "again", "look"},
           soft' \in Seq(Soft), ToSet(soft') = ToSet(soft) \ {t}, Listed' = Listed \ {t},
           \A u \in Timers \ {t} : due'[u] = due[u],
           InPrioOrder(soft, due) => InPrioOrder(soft', due'),
           thr' = thr /\ thr = "asleep" => t # Self /\ (Self \in active => Self \in active')
    PROVE  Near'
  <1>1. Listed = ToSet(hard) \cup ToSet(soft) /\ Listed \subseteq Timers /\ Self \in Timers
    BY ListFacts, TimerKinds
  <1>2. /\ InPrioOrder(soft', due')
        /\ \A u \in Listed' : due'[u] + LateMax <= TickMod - Half
    BY <1>1 DEF Near
  <1>3. ToSet(soft') \subseteq ToSet(soft) /\ \A u \in ToSet(soft') : due'[u] = due[u]
    BY <1>1
  <1>4. thr' = thr /\ thr = "asleep" /\ Self \in active => Self \in active' /\ due'[Self] = due[Self]
    BY <1>1
  <1> QED BY <1>2, <1>3, <1>4, NearKept

(* Steps in which a timer is started. *)
LEMMA NearStarted ==
    ASSUME TimerInv, Near, NEW t \in Timers \ {Self}, NEW ticks \in 1 .. Half - 1,
           ticks + LateMax <= TickMod - Half,
           NEW wakes \in BOOLEAN, wakes => t \in Soft, Started(t, ticks, wakes),
           tick' = tick, next' = next, thr' \in {thr, "check", "call", "again", "look"},
           wakes => thr' # "asleep",
           ~missed' => ~missed,
           t \in Soft /\ thr' = thr => missed' \/ thr \notin {"suspend", "delay", "sleep", "asleep"}
    PROVE  Near'
  <1> DEFINE gone == IF wakes THEN {t, Self} ELSE {t}
  <1>1. Listed = ToSet(hard) \cup ToSet(soft) /\ Listed \subseteq Timers /\ Self \in Timers
    BY ListFacts, TimerKinds
  <1>2. /\ soft' \in Seq(Soft)
        /\ ToSet(soft') = (ToSet(soft) \ gone) \cup (IF t \in Soft THEN {t} ELSE {})
        /\ Listed' = (Listed \ gone) \cup {t}
        /\ due'[t] = ticks /\ \A u \in Timers \ gone : due'[u] = due[u]
        /\ InPrioOrder(soft, due) /\ ticks + LateMax <= TickMod - Half =>
               InPrioOrder(soft', due')
    BY StartedProperties
  <1>3. active' = (active \ gone) \cup {t}
    BY StartedFrame
  <1>4. t \in gone /\ (~wakes => Self \notin gone)
    OBVIOUS
  <1> HIDE DEF gone
  <1>5. InPrioOrder(soft', due')
    BY <1>2 DEF Near
  <1>6. \A u \in Listed' : due'[u] + LateMax <= TickMod - Half
    BY <1>1, <1>2 DEF Near
  <1>7. thr' = thr /\ thr \in {"suspend", "delay", "sleep", "asleep"} /\ ~missed' =>
            ToSet(soft') \subseteq ToSet(soft) /\ \A u \in ToSet(soft') : due'[u] = due[u]
    BY <1>1, <1>2
  <1>8. thr' = thr /\ thr = "asleep" /\ Self \in active => Self \in active' /\ due'[Self] = due[Self]
    BY <1>1, <1>2, <1>3, <1>4
  <1> QED BY <1>2, <1>5, <1>6, <1>7, <1>8, NearKept

LEMMA TickNear ==
    ASSUME TimerInv, Near, Tick
    PROVE  Near'
  <1>1. /\ InTime /\ tick' = (tick + 1) % TickMod /\ missed' = (missed \/ thr = "sleep")
        /\ UNCHANGED <<hard, soft, active, thr, next>>
    BY DEF Tick
  <1>2. /\ Listed = ToSet(hard) \cup ToSet(soft) /\ Listed \subseteq Timers
        /\ \A u \in Timers : due[u] \in Int
        /\ tick \in 0 .. TickMod - 1
    BY ListFacts
  <1>3. /\ \A u \in Listed : due'[u] = due[u] - 1
        /\ InPrioOrder(soft, due) => InPrioOrder(soft, due')
    BY TickTimes
  <1>4. Listed' = Listed
    BY <1>1 DEF Listed
  <1>5. InPrioOrder(soft', due')
    BY <1>1, <1>3 DEF Near
  <1>6. \A u \in Listed' : due'[u] + LateMax <= TickMod - Half
    <2> SUFFICES ASSUME NEW u \in Listed PROVE due[u] - 1 + LateMax <= TickMod - Half
      BY <1>3, <1>4
    <2>1. due[u] + LateMax <= TickMod - Half /\ due[u] \in Int
      BY <1>2 DEF Near
    <2> QED BY <2>1, HalfFacts
  <1>7. thr' = "sleep" => next' + LateMax <= TickMod - Half
    BY <1>1 DEF Near
  <1>8. ASSUME thr' = "delay" PROVE \E d \in -Half .. Half - 1 : DelayFits(d)'
    <2>1. thr = "delay" /\ (~missed' => ~missed)
      BY <1>1, <1>8
    <2>2. PICK d \in -Half .. Half - 1 : DelayFits(d)
      BY <2>1 DEF Near
    <2>3. d \in -Half .. Half /\ next = (tick + d) % TickMod
      BY <2>2, HalfFacts DEF DelayFits
    <2>4. /\ Minus(next, tick) = IF d < 0 THEN d + TickMod ELSE d
          /\ Minus(tick, next) = IF d > 0 THEN TickMod - d ELSE -d
      BY <1>2, <2>3, TickFromNow
    <2>5. Minus(next, tick) < Half \/ Minus(tick, next) < LateMax
      BY <1>1, <2>1 DEF InTime
    <2>6. d - 1 \in -Half .. Half - 1 /\ d \in -Half + 1 .. Half
      <3>1. d >= 0 \/ -d < LateMax
        BY <2>2, <2>4, <2>5, HalfFacts
      <3> QED BY <2>2, <3>1, HalfFacts
    <2>7. next' = (tick' + (d - 1)) % TickMod
      BY <1>1, <1>2, <2>3, <2>6, TickLater
    <2>8. (d - 1) + LateMax <= TickMod - Half
      BY <2>2, <2>6, HalfFacts DEF DelayFits
    <2>9. ~missed' => \A u \in ToSet(soft') : d - 1 <= due'[u]
      <3> SUFFICES ASSUME ~missed, NEW u \in ToSet(soft) PROVE d - 1 <= due[u] - 1
        BY <1>1, <1>2, <1>3, <2>1
      <3>1. d <= due[u] /\ due[u] \in Int
        BY <1>2, <2>2 DEF DelayFits
      <3> QED BY <3>1, HalfFacts
    <2> DEFINE e == d - 1
    <2>10. DelayFits(e)'
      <3> HIDE DEF e
      <3> QED BY <2>7, <2>8, <2>9 DEF DelayFits, e
    <2> QED BY <2>6, <2>10
  <1>9. Wakes'
    <2> SUFFICES ASSUME ~missed' PROVE
               /\ thr' = "suspend" => soft' = <<>>
               /\ thr' = "sleep" => \A u \in ToSet(soft') : next' <= due'[u]
               /\ thr' = "asleep" => \A u \in ToSet(soft') : Self \in active' /\ due'[Self] <= due'[u]
      BY DEF Wakes
    <2>1. Wakes /\ ~missed /\ thr # "sleep"
      BY <1>1 DEF Near
    <2>2. thr' = "suspend" => soft' = <<>>
      BY <1>1, <2>1 DEF Wakes
    <2>3. ASSUME thr' = "asleep", NEW u \in ToSet(soft')
          PROVE  Self \in active' /\ due'[Self] <= due'[u]
      <3>1. Self \in active /\ due[Self] <= due[u] /\ u \in ToSet(soft)
        BY <1>1, <2>1, <2>3 DEF Wakes
      <3>2. Self \in Listed
        BY <3>1, TimerKinds DEF TimerInv, ActiveIsListed
      <3>3. due'[Self] = due[Self] - 1 /\ due'[u] = due[u] - 1 /\ due[Self] \in Int /\ due[u] \in Int
        BY <1>2, <1>3, <3>1, <3>2
      <3> QED BY <1>1, <3>1, <3>3
    <2> QED BY <1>1, <2>1, <2>2, <2>3
  <1> QED BY <1>5, <1>6, <1>7, <1>8, <1>9 DEF Near

(* _timer_list_next_timeout finds the first soft timer, so all are later. *)
LEMMA LookNear ==
    ASSUME TimerInv, Near, Look
    PROVE  Near'
  <1>1. /\ UNCHANGED <<tick, hard, soft, active, due>> /\ Listed' = Listed
        /\ \/ soft = <<>> /\ thr' = "suspend"
           \/ soft # <<>> /\ thr' = "delay" /\ next' = timeout[Head(soft)]
    BY DEF Look, lists, Listed
  <1>2. /\ InPrioOrder(soft, due)
        /\ \A t \in Listed : due[t] + LateMax <= TickMod - Half
    BY DEF Near
  <1>3. ASSUME thr' = "delay" PROVE \E d \in -Half .. Half - 1 : DelayFits(d)'
    <2>1. soft # <<>> /\ next' = timeout[Head(soft)]
      BY <1>1, <1>3
    <2>2. /\ soft \in Seq(Soft) /\ Listed = ToSet(hard) \cup ToSet(soft) /\ Listed \subseteq Timers
          /\ \A u \in Timers : due[u] \in -LateMax .. Half - 1 /\ due[u] \in Int
          /\ \A u \in Listed : timeout[u] = (tick + due[u]) % TickMod
      BY ListFacts
    <2>3. Head(soft) \in ToSet(soft)
      BY <2>1, <2>2, HeadListed
    <2>4. PICK d \in -LateMax .. Half - 1 : d = due[Head(soft)]
      BY <2>2, <2>3
    <2>5. \A u \in ToSet(soft) : d <= due[u]
      <3>1. \A u \in ToSet(soft) : due[u] \in Int
        BY <2>2
      <3> QED BY <1>2, <2>1, <2>2, <2>4, <3>1, TailOrdered
    <2>6. next' = (tick + d) % TickMod /\ d + LateMax <= TickMod - Half
      BY <1>2, <2>1, <2>2, <2>3, <2>4
    <2>7. d \in -Half .. Half - 1
      BY <2>4, HalfFacts
    <2>8. DelayFits(d)'
      BY <1>1, <2>5, <2>6 DEF DelayFits
    <2> QED BY <2>7, <2>8
  <1>4. Wakes' /\ thr' # "sleep"
    BY <1>1 DEF Wakes
  <1> QED BY <1>1, <1>2, <1>3, <1>4 DEF Near

(* The delay is taken from the wrapped counts only while it is not over. *)
LEMMA DelayNear ==
    ASSUME TimerInv, Near, Delay
    PROVE  Near'
  <1> DEFINE delta == Minus(next, tick)
  <1>1. /\ UNCHANGED <<tick, hard, soft, active, due>> /\ Listed' = Listed /\ thr = "delay"
        /\ missed' = missed
        /\ \/ delta < Half /\ thr' = "sleep" /\ next' = delta
           \/ thr' = "check"
    BY DEF Delay, lists, Listed
  <1>2. PICK d \in -Half .. Half - 1 : DelayFits(d)
    BY <1>1 DEF Near
  <1>3. delta = IF d < 0 THEN d + TickMod ELSE d
    <2>1. d \in -Half .. Half /\ next = (tick + d) % TickMod
      BY <1>2, HalfFacts DEF DelayFits
    <2>2. tick \in 0 .. TickMod - 1
      BY ListFacts
    <2> QED BY <2>1, <2>2, TickFromNow
  <1> HIDE DEF delta
  <1>4. thr' = "sleep" => next' = d
    BY <1>1, <1>2, <1>3, HalfFacts
  <1>5. thr' = "sleep" => next' + LateMax <= TickMod - Half
    BY <1>2, <1>4 DEF DelayFits
  <1>6. Wakes'
    BY <1>1, <1>2, <1>4 DEF Wakes, DelayFits
  <1>7. /\ InPrioOrder(soft', due')
        /\ \A t \in Listed' : due'[t] + LateMax <= TickMod - Half
    BY <1>1 DEF Near
  <1> QED BY <1>1, <1>5, <1>6, <1>7 DEF Near

LEMMA SuspendNear ==
    ASSUME TimerInv, Near, Suspend
    PROVE  Near'
  <1>1. /\ UNCHANGED <<tick, hard, soft, active, due, next, missed>> /\ Listed' = Listed
        /\ thr = "suspend" /\ thr' = "asleep"
    BY DEF Suspend, ThreadAt, lists, Listed
  <1>2. /\ InPrioOrder(soft', due')
        /\ \A t \in Listed' : due'[t] + LateMax <= TickMod - Half
    BY <1>1 DEF Near
  <1>3. Wakes'
    <2>1. ~missed => soft = <<>>
      BY <1>1 DEF Near, Wakes
    <2>2. ~missed => ToSet(soft) = {}
      BY <2>1, ListFacts, ListedIn
    <2> QED BY <1>1, <2>2 DEF Wakes
  <1> QED BY <1>1, <1>2, <1>3 DEF Near

LEMMA SleepNear ==
    ASSUME TimerInv, Near, Sleep
    PROVE  Near'
  <1>1. /\ thr = "sleep" /\ Started(Self, next, FALSE) /\ thr' = "asleep" /\ missed' = missed
    BY DEF Sleep, ThreadAt
  <1>2. next \in 1 .. Half - 1 /\ Self \in Timers /\ FALSE \in BOOLEAN /\ Self \notin Soft
    BY <1>1, TimerKinds DEF TimerInv, Locks
  <1>3. next + LateMax <= TickMod - Half
    BY <1>1 DEF Near
  <1>4. /\ ToSet(soft') = ToSet(soft) \ {Self}
        /\ Listed' = (Listed \ {Self}) \cup {Self}
        /\ due'[Self] = next /\ \A u \in Timers \ {Self} : due'[u] = due[u]
        /\ InPrioOrder(soft, due) /\ next + LateMax <= TickMod - Half =>
               InPrioOrder(soft', due')
    BY <1>1, <1>2, StartedProperties
  <1>5. Self \in active'
    BY <1>1 DEF Started
  <1>6. Listed = ToSet(hard) \cup ToSet(soft) /\ Listed \subseteq Timers
    BY ListFacts
  <1>7. InPrioOrder(soft', due')
    BY <1>3, <1>4 DEF Near
  <1>8. \A u \in Listed' : due'[u] + LateMax <= TickMod - Half
    BY <1>3, <1>4, <1>6 DEF Near
  <1>9. Wakes'
    <2>1. ~missed => \A u \in ToSet(soft) : next <= due[u]
      BY <1>1 DEF Near, Wakes
    <2> QED BY <1>1, <1>4, <1>5, <1>6, <2>1 DEF Wakes
  <1> QED BY <1>1, <1>7, <1>8, <1>9 DEF Near

LEMMA StartNear ==
    ASSUME LateFits, TimerInv, Near, NEW t \in Soft \cup Hard, NEW v \in Times, Start(t, v)
    PROVE  Near'
  <1> DEFINE wakes == t \in Soft /\ thr = "asleep"
  <1>1. /\ Started(t, v, wakes)
        /\ thr' = IF wakes THEN "check" ELSE thr
        /\ missed' = (missed \/ (t \in Soft /\ thr \in {"suspend", "delay", "sleep"}))
        /\ UNCHANGED <<tick, next>>
    BY DEF Start
  <1>2. /\ t \in Timers \ {Self} /\ v \in 1 .. Half - 1 /\ wakes \in BOOLEAN /\ (wakes => t \in Soft)
        /\ v + LateMax <= TickMod - Half
    BY HalfFacts, TimerKinds DEF LateFits
  <1>3. /\ tick' = tick /\ next' = next /\ thr' \in {thr, "check", "call", "again", "look"}
        /\ wakes => thr' # "asleep"
        /\ ~missed' => ~missed
        /\ t \in Soft /\ thr' = thr => missed' \/ thr \notin {"suspend", "delay", "sleep", "asleep"}
    BY <1>1
  <1> HIDE DEF wakes
  <1> QED BY <1>1, <1>2, <1>3, NearStarted

LEMMA UnlinkedNear ==
    ASSUME TimerInv, Near, NEW t \in Soft \cup Hard, Unlinked(t),
           UNCHANGED <<tick, init, lock, isr, now, thr, next, missed>>
    PROVE  Near'
  <1>1. /\ soft' \in Seq(Soft) /\ ToSet(soft') = ToSet(soft) \ {t} /\ Listed' = Listed \ {t}
        /\ \A u \in Timers \ {t} : due'[u] = due[u]
        /\ InPrioOrder(soft, due) => InPrioOrder(soft', due')
        /\ active' = active \ {t}
    BY UnlinkedProperties
  <1>2. t \in Timers /\ t # Self
    BY TimerKinds
  <1> QED BY <1>1, <1>2, NearLeaves

LEMMA CheckFireNear ==
    ASSUME TimerInv, Near, NEW c \in Cores, CheckFire(c)
    PROVE  Near'
  <1>1. /\ InLoop(c) /\ hard # <<>> /\ hard' = Tail(hard) /\ hserv' = Head(hard)
        /\ Taken(Head(hard))
        /\ thr' = (IF Head(hard) = Self THEN "check" ELSE thr)
        /\ UNCHANGED <<tick, soft, sserv, next, missed>>
    BY DEF CheckFire, Expired
  <1>2. hserv = None
    BY <1>1, InLoopFacts
  <1>3. /\ Head(hard) \in Hard \cup {Self} /\ Listed' = Listed \ {Head(hard)}
        /\ \A u \in active : u = Head(hard) \/ u \in active'
        /\ \A u \in Timers \ {Head(hard)} : due'[u] = due[u]
        /\ InPrioOrder(soft, due) => InPrioOrder(soft', due')
    BY <1>1, <1>2, HardFires
  <1>4. /\ Head(hard) \in Timers /\ soft' \in Seq(Soft) /\ ToSet(soft') = ToSet(soft) \ {Head(hard)}
    BY <1>1, <1>3, ListFacts, TimerKinds
  <1>5. thr' = thr /\ thr = "asleep" => Head(hard) # Self /\ (Self \in active => Self \in active')
    BY <1>1, <1>3
  <1> DEFINE t == Head(hard)
  <1> HIDE DEF t
  <1> QED BY <1>1, <1>3, <1>4, <1>5, NearLeaves

LEMMA SoftFireNear ==
    ASSUME TimerInv, Near, SoftFire
    PROVE  Near'
  <1>1. /\ InSoftLoop /\ soft # <<>> /\ soft' = Tail(soft) /\ sserv' = Head(soft)
        /\ Taken(Head(soft)) /\ thr' = "call"
        /\ UNCHANGED <<tick, hard, hserv, next, missed>>
    BY DEF SoftFire, Expired
  <1>2. sserv = None /\ thr # "asleep"
    BY <1>1 DEF InSoftLoop, TimerInv, Locks
  <1>3. /\ Head(soft) \in Soft /\ Listed' = Listed \ {Head(soft)}
        /\ soft' \in Seq(Soft) /\ ToSet(soft') = ToSet(soft) \ {Head(soft)}
        /\ \A u \in Timers \ {Head(soft)} : due'[u] = due[u]
        /\ InPrioOrder(soft, due) => InPrioOrder(soft', due')
    BY <1>1, <1>2, SoftFires
  <1>4. Head(soft) \in Timers
    BY <1>3, TimerKinds
  <1> QED BY <1>1, <1>2, <1>3, <1>4, NearLeaves

(* A periodic timer is started again after its callback. *)
LEMMA AgainNear ==
    ASSUME LateFits, TimerInv, Near, NEW t \in Periodic, Started(t, init[t], FALSE),
           tick' = tick, next' = next, missed' = missed,
           thr' \in {thr, "again"}, t \in Soft => thr \notin {"suspend", "delay", "sleep", "asleep"}
    PROVE  Near'
  <1>1. init[t] \in Times
    BY DEF TimerInv, TypeOK
  <1>2. /\ t \in Timers \ {Self} /\ init[t] \in 1 .. Half - 1 /\ FALSE \in BOOLEAN
        /\ init[t] + LateMax <= TickMod - Half
    BY <1>1, HalfFacts, TimerKinds DEF LateFits
  <1> DEFINE v == init[t]
  <1>3. v = init[t]
    OBVIOUS
  <1> HIDE DEF v
  <1> QED BY <1>2, <1>3, NearStarted

LEMMA CheckAfterNear ==
    ASSUME LateFits, TimerInv, Near, NEW c \in Cores, CheckAfter(c)
    PROVE  Near'
  <1>1. UNCHANGED <<tick, init, lock, thr, next, missed>>
    BY DEF CheckAfter
  <1>2. CASE hserv \in active
    <2>1. hserv \in Periodic /\ hserv \notin Soft
      BY <1>2, TimerKinds DEF TimerInv, ActiveIsListed, TypeOK
    <2>2. Started(hserv, init[hserv], FALSE)
      BY <1>2 DEF CheckAfter
    <2> QED BY <1>1, <2>1, <2>2, AgainNear
  <1>3. CASE hserv \notin active
    <2>1. UNCHANGED <<hard, soft, active, due>> /\ Listed' = Listed
      BY <1>3 DEF CheckAfter, Listed
    <2>2. /\ soft' \in Seq(Soft) /\ InPrioOrder(soft', due')
          /\ \A u \in Listed' : due'[u] + LateMax <= TickMod - Half
      BY <2>1, ListFacts DEF Near
    <2> QED BY <1>1, <2>1, <2>2, NearKept
  <1> QED BY <1>2, <1>3

LEMMA SoftAfterNear ==
    ASSUME LateFits, TimerInv, Near, SoftAfter
    PROVE  Near'
  <1>1. UNCHANGED <<tick, next, missed>> /\ thr = "call" /\ thr' = "again"
    BY DEF SoftAfter, ThreadAt
  <1>2. CASE sserv \in active
    <2>1. sserv \in Periodic
      BY <1>2, TimerKinds DEF TimerInv, ActiveIsListed, TypeOK
    <2>2. Started(sserv, init[sserv], FALSE)
      BY <1>2 DEF SoftAfter
    <2> QED BY <1>1, <2>1, <2>2, AgainNear
  <1>3. CASE sserv \notin active
    <2>1. UNCHANGED <<hard, soft, active, due>> /\ Listed' = Listed
      BY <1>3 DEF SoftAfter, Listed
    <2>2. /\ soft' \in Seq(Soft) /\ InPrioOrder(soft', due')
          /\ \A u \in Listed' : due'[u] + LateMax <= TickMod - Half
      BY <2>1, ListFacts DEF Near
    <2> QED BY <1>1, <2>1, <2>2, NearKept
  <1> QED BY <1>2, <1>3

LEMMA InitNear == Init => Near
  <1> SUFFICES ASSUME Init PROVE Near
    OBVIOUS
  <1>1. Listed = {} /\ DOMAIN soft = {} /\ thr = "look"
    BY DEF Init, ToSet, Listed
  <1> QED BY <1>1 DEF Near, Wakes, InPrioOrder

LEMMA NextNear == LateFits /\ TimerInv /\ Near /\ [Next]_vars => Near'
  <1> SUFFICES ASSUME LateFits, TimerInv, Near, [Next]_vars PROVE Near'
    OBVIOUS
  <1>1. CASE \E t \in Soft \cup Hard, v \in Times : Start(t, v) \/ SetTime(t, v)
    <2>1. \A t \in Soft \cup Hard, v \in Times : SetTime(t, v) => Near'
      BY NearListsKept DEF SetTime
    <2> QED BY <1>1, <2>1, StartNear
  <1>2. CASE \E t \in Soft \cup Hard : Stop(t) \/ Detach(t)
    BY <1>2, UnlinkedNear DEF Stop, Detach
  <1>3. CASE Tick \/ TickOther
    <2>1. TickOther => Near'
      BY NearListsKept DEF TickOther
    <2> QED BY <1>3, <2>1, TickNear
  <1>4. CASE \E c \in Cores : Interrupt(c)
    <2>1. \A c \in Cores : CheckDone(c) => Near'
      BY NearListsKept DEF CheckDone
    <2> QED BY <1>4, <2>1, CheckFireNear, CheckAfterNear DEF Interrupt
  <1>5. CASE Thread
    <2>1. SoftDone => Near'
      BY NearListsKept DEF SoftDone
    <2> QED BY <1>5, <2>1, LookNear, SuspendNear, DelayNear, SleepNear, SoftFireNear,
               SoftAfterNear DEF Thread
  <1>6. CASE UNCHANGED vars
    BY <1>6, NearListsKept DEF vars
  <1> QED BY <1>1, <1>2, <1>3, <1>4, <1>5, <1>6 DEF Next

(* The part of the invariant about soft timers and the thread's sleep.     *)
LEMMA NearInvariant == Spec => [](LateFits => Near)
  <1>1. Init => (LateFits => Near)
    BY InitNear
  <1>2. TimerInv /\ (LateFits => Near) /\ [Next]_vars => (LateFits => Near)'
    BY NextNear DEF LateFits
  <1> QED BY <1>1, <1>2, TimerInvariant, PTL DEF Spec

(* Both lists are in order of the time left, across the wrap-around and    *)
(* with late timers among them, if the longest time and the longest delay  *)
(* together are at most the half of the range the code leaves for the past *)
(* (RT_ASSERT of the time alone is not enough: a late timer then looks     *)
(* later than a long one).                                                 *)
THEOREM TimerInOrder ==
    ASSUME LateFits
    PROVE  Spec => []InOrder
  <1>1. TimerInv /\ (LateFits => Near) => InOrder
    BY DEF TimerInv, DueTimes, Near, InOrder, InPrioOrder
  <1> QED BY <1>1, TimerInvariant, NearInvariant, PTL

(* The timer thread sleeps no longer than until the first soft timer, the  *)
(* two windows in which it is not woken excepted.                          *)
THEOREM TimerSleepsInTime ==
    ASSUME LateFits
    PROVE  Spec => []SleepsInTime
  <1>1. TimerInv /\ (LateFits => Near) => SleepsInTime
    <2> SUFFICES ASSUME TimerInv, Near PROVE SleepsInTime
      OBVIOUS
    <2>1. soft # <<>> => Head(soft) \in ToSet(soft)
      BY ListFacts, HeadListed
    <2> QED BY <2>1 DEF Near, Wakes, SleepsInTime
  <1> QED BY <1>1, TimerInvariant, NearInvariant, PTL

(* A difference with the second core's older tick. *)
LEMMA StaleExpired ==
    ASSUME NEW n \in 0 .. TickMod - 1, NEW k \in 0 .. TickMod - 1, Minus(n, k) <= LateMax,
           NEW a \in 0 .. Half - 1, a + LateMax <= TickMod - Half,
           Minus(k, (n + a) % TickMod) < Half
    PROVE  a <= 0
  <1> SUFFICES ASSUME a >= 1 PROVE FALSE
    BY HalfFacts
  <1> DEFINE x == (n + a) % TickMod
  <1>1. x \in 0 .. TickMod - 1 /\ x = IF n + a < TickMod THEN n + a ELSE n + a - TickMod
    <2>1. a \in -Half .. Half
      BY HalfFacts
    <2> QED BY <2>1, TickPlace, HalfFacts
  <1> HIDE DEF x
  <1>2. /\ n - k \in Int /\ -TickMod <= n - k /\ n - k < 2 * TickMod
        /\ k - x \in Int /\ -TickMod <= k - x /\ k - x < 2 * TickMod
    BY <1>1, HalfFacts
  <1>3. (n - k) % TickMod = IF n - k < 0 THEN n - k + TickMod ELSE n - k
    BY <1>2, ModCases, HalfFacts
  <1>4. (k - x) % TickMod = IF k - x < 0 THEN k - x + TickMod ELSE k - x
    BY <1>1, <1>2, ModCases, HalfFacts
  <1>5. (n - k) % TickMod <= LateMax /\ (k - x) % TickMod < Half
    BY DEF Minus, x
  <1> QED BY <1>1, <1>3, <1>4, <1>5, HalfFacts

(* A hard timer that a core's check calls is due. *)
LEMMA CheckFiresDue ==
    ASSUME TimerInv, Near, NEW c \in Cores, CheckFire(c)
    PROVE  due[Head(hard)] <= 0
  <1>1. InLoop(c) /\ hard # <<>> /\ Minus(now[c], timeout[Head(hard)]) < Half
    BY DEF CheckFire, Expired
  <1>2. isr[c] # "off"
    BY <1>1, InLoopFacts
  <1>3. /\ hard \in Seq(Hard \cup {Self}) /\ Listed = ToSet(hard) \cup ToSet(soft)
        /\ Listed \subseteq Timers /\ tick \in 0 .. TickMod - 1
        /\ \A u \in Timers : due[u] \in -LateMax .. Half - 1 /\ due[u] \in Int
        /\ \A u \in Listed : timeout[u] = (tick + due[u]) % TickMod
    BY ListFacts
  <1>4. Head(hard) \in ToSet(hard) /\ Head(hard) \in Listed
    BY <1>1, <1>3, HeadListed
  <1>5. CASE c = "cpu0"
    <2>1. now[c] = tick
      BY <1>2, <1>5 DEF TimerInv, Clocks
    <2> QED BY <1>1, <1>4, <2>1, ExpiredIsDue
  <1>6. CASE c = "cpu1"
    <2> DEFINE a == due[Head(hard)]
               k == now[c]
    <2>1. Minus(tick, k) <= LateMax /\ k \in 0 .. TickMod - 1
      BY <1>2, <1>6 DEF TimerInv, Clocks, TypeOK, Cores
    <2>2. a \in Int /\ a >= 0 /\ a <= Half - 1 /\ a + LateMax <= TickMod - Half
      BY <1>3, <1>4, HalfFacts DEF TimerInv, DueTimes, Near
    <2>3. Minus(k, (tick + a) % TickMod) < Half
      BY <1>1, <1>3, <1>4
    <2> HIDE DEF a, k
    <2>4. a \in 0 .. Half - 1
      BY <2>2, HalfFacts
    <2>5. a <= 0
      BY <1>3, <2>1, <2>2, <2>3, <2>4, StaleExpired
    <2> QED BY <2>5 DEF a
  <1> QED BY <1>5, <1>6 DEF Cores

(* No other step puts a timer on a temporary list. *)
LEMMA ServesOnly ==
    ASSUME TimerInv, [Next]_vars
    PROVE  \/ hserv' \in {hserv, None} /\ sserv' \in {sserv, None}
           \/ \E c \in Cores : CheckFire(c)
           \/ SoftFire
  <1>1. CASE \E t \in Soft \cup Hard, v \in Times : Start(t, v) \/ SetTime(t, v)
    BY <1>1 DEF Start, Started, SetTime, lists
  <1>2. CASE \E t \in Soft \cup Hard : Stop(t) \/ Detach(t)
    BY <1>2 DEF Stop, Detach, Unlinked
  <1>3. CASE Tick \/ TickOther
    BY <1>3 DEF Tick, TickOther, lists
  <1>4. CASE \E c \in Cores : Interrupt(c)
    <2>1. PICK c \in Cores : Interrupt(c)
      BY <1>4
    <2>2. CASE CheckFire(c)
      BY <2>2
    <2>3. CASE CheckAfter(c)
      BY <2>3 DEF CheckAfter, Started
    <2>4. CASE CheckDone(c)
      BY <2>4 DEF CheckDone, lists
    <2> QED BY <2>1, <2>2, <2>3, <2>4 DEF Interrupt
  <1>5. CASE Thread
    BY <1>5 DEF Thread, Look, Suspend, Delay, Sleep, SoftAfter, SoftDone, Started, lists
  <1>6. CASE UNCHANGED vars
    BY <1>6 DEF vars, lists
  <1> QED BY <1>1, <1>2, <1>3, <1>4, <1>5, <1>6 DEF Next

(* No callback runs before its time, though the second core checks with an *)
(* older tick, if the range of the tick is enough for it.                  *)
THEOREM TimerNeverEarly ==
    ASSUME LateFits
    PROVE  Spec => NeverEarly
  <1> DEFINE Early(t) == (hserv' = t /\ hserv # t) \/ (sserv' = t /\ sserv # t)
  <1>1. TimerInv /\ Near /\ [Next]_vars => [\A t \in Timers : Early(t) => due[t] <= 0]_vars
    <2> SUFFICES ASSUME TimerInv, Near, [Next]_vars, NEW t \in Timers, Early(t)
                 PROVE  due[t] <= 0
      OBVIOUS
    <2>1. t # None
      BY TimerKinds
    <2>2. CASE hserv' \in {hserv, None} /\ sserv' \in {sserv, None}
      BY <2>1, <2>2
    <2>3. CASE \E c \in Cores : CheckFire(c)
      <3>1. PICK c \in Cores : CheckFire(c)
        BY <2>3
      <3>2. hserv' = Head(hard) /\ sserv' = sserv
        BY <3>1 DEF CheckFire
      <3> QED BY <3>1, <3>2, CheckFiresDue
    <2>4. CASE SoftFire
      <3>1. /\ sserv' = Head(soft) /\ hserv' = hserv
            /\ soft # <<>> /\ Minus(tick, timeout[Head(soft)]) < Half
        BY <2>4 DEF SoftFire, Expired
      <3>2. Head(soft) \in Listed
        BY <3>1, ListFacts, HeadListed
      <3> QED BY <3>1, <3>2, ExpiredIsDue
    <2> QED BY <2>2, <2>3, <2>4, ServesOnly
  <1>2. LateFits
    OBVIOUS
  <1> HIDE DEF Early
  <1>3. (LateFits => Near) => Near
    BY <1>2
  <1>4. Spec => [][\A t \in Timers : Early(t) => due[t] <= 0]_vars
    BY <1>1, <1>3, TimerInvariant, NearInvariant, PTL DEF Spec
  <1> QED BY <1>4 DEF NeverEarly, Early
=============================================================================
