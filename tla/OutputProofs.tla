---------------------------- MODULE OutputProofs -----------------------------
(***************************************************************************)
(* Proofs about the output file of an event, for any number of runs,       *)
(* streams and generations and whatever fails, and about the delays of     *)
(* restarts, for all settings.                                             *)
(***************************************************************************)
EXTENDS Output, Backoff, FiniteSetTheorems, SequenceTheorems, WellFoundedInduction, TLAPS

-----------------------------------------------------------------------------
\* Induction

\* A set of numbers has a least one: of the intervals from 0 to its elements
\* one contains no other.
LEMMA LeastNumber ==
  ASSUME NEW T \in SUBSET Nat, T # {}
  PROVE  \E m \in T : \A n \in T : m <= n
<1> PICK t \in T : TRUE OBVIOUS
<1> DEFINE upTo(m) == {k \in 0 .. t : k <= m}
           sets    == {upTo(m) : m \in {n \in T : n <= t}}
<1>1. IsFiniteSet(0 .. t) BY FS_Interval
<1>2. sets \subseteq FiniteSubsetsOf(0 .. t) /\ sets # {}
  <2>1. FiniteSubsetsOf(0 .. t) = SUBSET (0 .. t) BY <1>1, FS_FiniteSubsetsOfFinite
  <2>2. \A u \in sets : u \in SUBSET (0 .. t) OBVIOUS
  <2>3. upTo(t) \in sets OBVIOUS
  <2> QED BY <2>1, <2>2, <2>3
<1>3. IsWellFoundedOn(StrictSubsetOrdering(0 .. t), FiniteSubsetsOf(0 .. t))
  BY FS_StrictSubsetOrderingWellFounded
<1> HIDE DEF sets
<1>4. PICK s \in sets : \A u \in sets : <<u, s>> \notin StrictSubsetOrdering(0 .. t)
  BY <1>2, <1>3, WFMin
<1>5. PICK m \in T : m <= t /\ s = upTo(m) BY <1>4 DEF sets
<1>6. ASSUME NEW n \in T, n < m PROVE FALSE
  <2>1. n <= t /\ n \in 0 .. t /\ m \in 0 .. t BY <1>5, <1>6
  <2>2. upTo(n) \in sets BY <2>1 DEF sets
  <2>3. m \in upTo(m) /\ m \notin upTo(n) BY <1>6, <2>1
  <2>4. upTo(n) \subseteq upTo(m) BY <1>6, <2>1
  <2>5. <<upTo(n), upTo(m)>> \in StrictSubsetOrdering(0 .. t)
    BY <2>3, <2>4 DEF StrictSubsetOrdering
  <2> QED BY <1>4, <1>5, <2>2, <2>5
<1> QED BY <1>6

\* Induction, of a set instead of a predicate.
LEMMA Induction ==
  ASSUME NEW T, 0 \in T, \A n \in Nat : n \in T => n + 1 \in T
  PROVE  Nat \subseteq T
<1> DEFINE missing == Nat \ T
<1>1. SUFFICES ASSUME missing # {} PROVE FALSE OBVIOUS
<1>2. PICK m \in missing : \A n \in missing : m <= n BY <1>1, LeastNumber
<1>3. m \in Nat /\ m # 0 /\ m - 1 \in Nat BY <1>2
<1>4. m - 1 \in T BY <1>2, <1>3
<1>5. m = (m - 1) + 1 BY <1>3
<1> QED BY <1>2, <1>3, <1>4, <1>5

\* A set of numbers with a bound has a greatest one.
LEMMA GreatestNumber ==
  ASSUME NEW T \in SUBSET Nat, T # {}, NEW b \in Nat, \A n \in T : n <= b
  PROVE  \E m \in T : \A n \in T : n <= m
<1> DEFINE D == {b - n : n \in T}
<1>1. D \in SUBSET Nat /\ D # {}
  <2>1. ASSUME NEW n \in T PROVE b - n \in Nat
    <3>1. n \in Nat /\ n <= b OBVIOUS
    <3> QED BY <3>1
  <2> QED BY <2>1
<1>2. PICK d \in D : \A n \in D : d <= n BY <1>1, LeastNumber
<1>3. PICK m \in T : d = b - m BY <1>2
<1>4. ASSUME NEW n \in T PROVE n <= m
  <2>1. d <= b - n BY <1>2
  <2> QED BY <1>3, <2>1
<1> QED BY <1>4

\* What begins a recursion, up to n.
Begins(g, n, S, first, next) ==
  g \in [0 .. n -> S] /\ g[0] = first /\ \A k \in 0 .. n - 1 : g[k + 1] = next[<<k, g[k]>>]

Recurs(f, S, first, next) ==
  f \in [Nat -> S] /\ f[0] = first /\ \A n \in Nat : f[n + 1] = next[<<n, f[n]>>]

\* Definition by recursion, of a function instead of an operator.
LEMMA Recursion ==
  ASSUME NEW S, NEW first \in S, NEW next \in [Nat \X S -> S]
  PROVE  \E f : Recurs(f, S, first, next)
<1> DEFINE G(n)  == {g \in [0 .. n -> S] : Begins(g, n, S, first, next)}
           Some  == {n \in Nat : G(n) # {}}
           f     == [n \in Nat |-> (CHOOSE g \in G(n) : TRUE)[n]]
<1>1. Nat \subseteq Some
  <2>1. 0 \in Some
    <3>1. [k \in 0 .. 0 |-> first] \in G(0) BY DEF Begins
    <3> QED BY <3>1
  <2>2. ASSUME NEW n \in Nat, n \in Some PROVE n + 1 \in Some
    <3>1. PICK g \in [0 .. n -> S] : Begins(g, n, S, first, next) BY <2>2
    <3> DEFINE h == [k \in 0 .. n + 1 |-> IF k = n + 1 THEN next[<<n, g[n]>>] ELSE g[k]]
    <3>2. g[n] \in S /\ next[<<n, g[n]>>] \in S BY <3>1
    <3>3. h \in [0 .. n + 1 -> S] BY <3>1, <3>2
    <3>4. h[0] = first BY <3>1 DEF Begins
    <3>5. ASSUME NEW k \in 0 .. (n + 1) - 1 PROVE h[k + 1] = next[<<k, h[k]>>]
      <4>1. k \in 0 .. n /\ h[k] = g[k] OBVIOUS
      <4>2. CASE k = n
        <5>1. h[n + 1] = next[<<n, g[n]>>] /\ h[n] = g[n] OBVIOUS
        <5> QED BY <4>2, <5>1
      <4>3. CASE k # n
        <5>1. k \in 0 .. n - 1 /\ h[k + 1] = g[k + 1] BY <4>3
        <5> QED BY <4>1, <5>1, <3>1 DEF Begins
      <4> QED BY <4>2, <4>3
    <3> HIDE DEF h
    <3> QED BY <3>3, <3>4, <3>5 DEF Begins
  <2> HIDE DEF Some
  <2> QED BY <2>1, <2>2, Induction
<1>2. ASSUME NEW m \in Nat, NEW n \in Nat, NEW g \in G(m), NEW h \in G(n)
      PROVE  \A k \in Nat : k <= m /\ k <= n => g[k] = h[k]
  <2> DEFINE Same == {k \in Nat : k <= m /\ k <= n => g[k] = h[k]}
  <2>1. 0 \in Same BY DEF Begins
  <2>2. ASSUME NEW k \in Nat, k \in Same PROVE k + 1 \in Same
    <3>1. SUFFICES ASSUME k + 1 <= m, k + 1 <= n PROVE g[k + 1] = h[k + 1] OBVIOUS
    <3>2. g[k] = h[k] /\ k \in 0 .. m - 1 /\ k \in 0 .. n - 1 BY <2>2, <3>1
    <3> QED BY <3>2 DEF Begins
  <2> HIDE DEF Same
  <2>3. Nat \subseteq Same BY <2>1, <2>2, Induction
  <2> QED BY <2>3 DEF Same
<1>3. \A n \in Nat : (CHOOSE g \in G(n) : TRUE) \in G(n) BY <1>1
<1> DEFINE c(n) == CHOOSE g \in G(n) : TRUE
<1>4. \A n \in Nat : f[n] = c(n)[n] /\ c(n) \in G(n) BY <1>3
<1> HIDE DEF f, c
<1>5. \A n \in Nat : f[n] \in S BY <1>4
<1>6. f[0] = first BY <1>4 DEF Begins
<1>7. ASSUME NEW n \in Nat PROVE f[n + 1] = next[<<n, f[n]>>]
  <2>1. c(n) \in G(n) /\ c(n + 1) \in G(n + 1) /\ f[n] = c(n)[n] /\ f[n + 1] = c(n + 1)[n + 1]
    BY <1>4
  <2>2. c(n + 1)[n + 1] = next[<<n, c(n + 1)[n]>>]
    <3>1. n \in 0 .. (n + 1) - 1 OBVIOUS
    <3> QED BY <2>1, <3>1 DEF Begins
  <2>3. c(n + 1)[n] = c(n)[n] BY <2>1, <1>2
  <2> QED BY <2>1, <2>2, <2>3
<1> QED
  <2>1. f \in [Nat -> S] BY <1>5 DEF f
  <2> QED BY <2>1, <1>6, <1>7 DEF Recurs

-----------------------------------------------------------------------------
\* The delays of restarts

LEMMA Powers ==
  /\ PowerOfTwo \in [Nat -> Nat] /\ PowerOfTwo[0] = 1
  /\ \A k \in Nat : PowerOfTwo[k + 1] = 2 * PowerOfTwo[k]
<1> DEFINE next == [p \in Nat \X Nat |-> 2 * p[2]]
           Rec(f) == f = [k \in Nat |-> IF k = 0 THEN 1 ELSE 2 * f[k - 1]]
<1>1. next \in [Nat \X Nat -> Nat] /\ \A n, v \in Nat : next[<<n, v>>] = 2 * v OBVIOUS
<1> HIDE DEF next
<1>2. PICK f : Recurs(f, Nat, 1, next)
  <2>1. 1 \in Nat OBVIOUS
  <2> QED BY <1>1, <2>1, Recursion
<1>3. Rec(f)
  <2>1. ASSUME NEW k \in Nat, k # 0 PROVE f[k] = 2 * f[k - 1]
    <3>1. k - 1 \in Nat /\ k = (k - 1) + 1 BY <2>1
    <3>2. f[(k - 1) + 1] = next[<<k - 1, f[k - 1]>>] /\ f[k - 1] \in Nat
      BY <1>2, <3>1 DEF Recurs
    <3> QED BY <1>1, <3>1, <3>2
  <2> QED BY <1>2, <2>1 DEF Recurs
<1>4. Rec(PowerOfTwo)
  <2>1. PowerOfTwo = CHOOSE g : Rec(g) BY DEF PowerOfTwo
  <2> HIDE DEF Rec
  <2> QED BY <1>3, <2>1
<1>5. PowerOfTwo[0] = 1 /\ \A k \in Nat : PowerOfTwo[k + 1] = 2 * PowerOfTwo[k]
  <2>1. ASSUME NEW k \in Nat PROVE PowerOfTwo[k + 1] = 2 * PowerOfTwo[k]
    <3>1. k + 1 \in Nat /\ k + 1 # 0 /\ (k + 1) - 1 = k OBVIOUS
    <3> QED BY <1>4, <3>1
  <2> QED BY <1>4, <2>1
<1>6. PowerOfTwo \in [Nat -> Nat]
  <2> DEFINE Typed == {k \in Nat : PowerOfTwo[k] \in Nat}
  <2>1. 0 \in Typed /\ \A k \in Nat : k \in Typed => k + 1 \in Typed BY <1>5
  <2> HIDE DEF Typed
  <2>2. Nat \subseteq Typed BY <2>1, Induction
  <2>3. \A k \in Nat : PowerOfTwo[k] \in Nat BY <2>2 DEF Typed
  <2> QED BY <1>4, <2>3
<1> QED BY <1>5, <1>6

LEMMA FirstPower == ASSUME NEW a \in Nat, NEW k, k = 1 PROVE a * PowerOfTwo[k - 1] = a
<1>1. PowerOfTwo[k - 1] = 1 BY Powers
<1> QED BY <1>1

LEMMA CountIs == ASSUME NEW n \in 0 .. MaxRestarts, DOMAIN waits = 1 .. n PROVE Count = n
<1>1. ASSUME NEW m \in 0 .. MaxRestarts, 1 .. m = 1 .. n PROVE m = n
  <2>1. m \in Nat /\ n \in Nat BY BackoffAssumption
  <2>2. ~(m < n) /\ ~(n < m)
    <3>1. CASE m < n
      <4>1. n \in 1 .. n /\ n \notin 1 .. m BY <2>1, <3>1
      <4> QED BY <1>1, <4>1
    <3>2. CASE n < m
      <4>1. m \in 1 .. m /\ m \notin 1 .. n BY <2>1, <3>2
      <4> QED BY <1>1, <4>1
    <3> QED BY <3>1, <3>2
  <2> QED BY <2>1, <2>2
<1> QED BY <1>1 DEF Count

\* The delay is the last wait, whatever the settings were.
BackoffInv ==
  /\ BackoffTypeOK
  /\ delay = 0 <=> waits = <<>>
  /\ \A n \in 1 .. MaxRestarts : DOMAIN waits = 1 .. n => delay = waits[n]
  /\ WaitsDouble

\* Twice a power that is cut off is the next power, cut off.
LEMMA DoubledLeast ==
  ASSUME NEW a \in Nat, NEW p \in Nat, NEW b \in Nat
  PROVE  Least(2 * Least(a * p, b), b) = Least(a * (2 * p), b)
<1>1. a * p \in Nat /\ a * (2 * p) = 2 * (a * p) OBVIOUS
<1> DEFINE c == a * p
<1>2. c \in Nat /\ a * (2 * p) = 2 * c BY <1>1
<1> HIDE DEF c
<1>3. Least(2 * Least(c, b), b) = Least(2 * c, b) BY <1>2 DEF Least
<1> QED BY <1>2, <1>3 DEF c

LEMMA InvRestart == ASSUME BackoffInv, NEW long \in BOOLEAN, RestartAfter(long) PROVE BackoffInv'
<1> PICK m \in 0 .. MaxRestarts : waits \in [1 .. m -> Nat] BY DEF BackoffInv, BackoffTypeOK
<1> DEFINE n == IF long THEN 0 ELSE m
<1>1. Count = m BY CountIs
<1>2. /\ MaxRestarts \in Nat /\ m \in Nat /\ m < MaxRestarts /\ n + 1 \in 1 .. MaxRestarts
      /\ n \in Nat /\ n <= m
  BY <1>1, BackoffAssumption DEF RestartAfter
<1>3. /\ delay' = NextDelay(long) /\ steady' = (long \/ steady) /\ setting' = setting
      /\ waits' = [k \in 1 .. n + 1 |-> IF k <= n THEN waits[k] ELSE delay']
  BY <1>1 DEF RestartAfter
<1>4. /\ setting \in Settings /\ setting[1] \in Nat \ {0} /\ setting[2] \in Nat
      /\ setting[1] <= setting[2] /\ delay \in Nat /\ steady \in BOOLEAN
  BY BackoffAssumption DEF BackoffInv, BackoffTypeOK
<1>5. delay' \in Nat \ {0} BY <1>3, <1>4 DEF NextDelay, Least
<1> HIDE DEF n
<1>6. waits' \in [1 .. n + 1 -> Nat] /\ waits'[n + 1] = delay' /\ waits' # <<>>
  <2>1. \A k \in 1 .. n : k \in 1 .. m BY <1>2
  <2>2. n + 1 \in 1 .. n + 1 BY <1>2
  <2> QED BY <1>2, <1>3, <1>5, <2>1, <2>2
<1>7. BackoffTypeOK'
  <2>1. n + 1 \in 0 .. MaxRestarts BY <1>2
  <2> QED BY <1>3, <1>4, <1>5, <1>6, <2>1 DEF BackoffTypeOK
<1>8. ASSUME NEW j \in 1 .. MaxRestarts, DOMAIN waits' = 1 .. j PROVE delay' = waits'[j]
  <2>1. j = n + 1
    <3>1. 1 .. j = 1 .. n + 1 BY <1>6, <1>8
    <3>2. n + 1 \in 1 .. j /\ j \in 1 .. n + 1 BY <1>2, <3>1
    <3> QED BY <1>2, <3>2
  <2> QED BY <1>6, <2>1
<1>9. WaitsDouble'
  <2>1. SUFFICES ASSUME long \/ steady, NEW k \in 1 .. n + 1
                 PROVE  waits'[k] = Least(setting[1] * PowerOfTwo[k - 1], setting[2])
    BY <1>3, <1>6 DEF WaitsDouble
  <2>2. k - 1 \in Nat /\ k \in Nat BY <1>2
  <2>3. CASE long
    <3>1. n = 0 /\ k = 1 BY <1>2, <2>3 DEF n
    <3>2. waits'[k] = setting[1] BY <1>3, <1>6, <2>3, <3>1 DEF NextDelay
    <3>3. setting[1] * PowerOfTwo[k - 1] = setting[1] BY <1>4, <3>1, FirstPower
    <3> QED BY <1>4, <3>2, <3>3 DEF Least
  <2>4. CASE ~long /\ k <= n
    <3>1. waits'[k] = waits[k] /\ k \in DOMAIN waits BY <1>2, <1>3, <2>4
    <3> QED BY <2>1, <2>4, <3>1 DEF BackoffInv, WaitsDouble
  <2>5. CASE ~long /\ k = n + 1 /\ n = 0
    <3>1. waits = <<>> BY <2>5 DEF n
    <3>2. delay = 0 BY <3>1 DEF BackoffInv
    <3>3. waits'[k] = setting[1] BY <1>3, <1>6, <2>5, <3>2 DEF NextDelay
    <3>4. setting[1] * PowerOfTwo[k - 1] = setting[1]
      <4>1. k = 1 BY <2>5
      <4> QED BY <1>4, <4>1, FirstPower
    <3> QED BY <1>4, <3>3, <3>4 DEF Least
  <2>6. CASE ~long /\ k = n + 1 /\ n # 0
    <3>1. m = n /\ n \in 1 .. MaxRestarts /\ DOMAIN waits = 1 .. n /\ n - 1 \in Nat
      BY <1>2, <2>6 DEF n
    <3>2. delay = waits[n] /\ n \in DOMAIN waits BY <1>2, <3>1 DEF BackoffInv
    <3>3. delay = Least(setting[1] * PowerOfTwo[n - 1], setting[2])
      BY <2>1, <2>6, <3>2 DEF BackoffInv, WaitsDouble
    <3>4. waits # <<>> BY <3>2
    <3>5. waits'[k] = Least(2 * delay, setting[2])
      BY <1>3, <1>6, <2>6, <3>4 DEF NextDelay, BackoffInv
    <3>6. PowerOfTwo[n - 1] \in Nat /\ PowerOfTwo[k - 1] = 2 * PowerOfTwo[n - 1]
      <4>1. k - 1 = (n - 1) + 1 BY <1>2, <2>6
      <4> QED BY <3>1, <4>1, Powers
    <3> DEFINE a == setting[1]  b == setting[2]  w == PowerOfTwo[n - 1]
    <3>7. a \in Nat /\ b \in Nat /\ w \in Nat BY <1>4, <3>6
    <3>8. waits'[k] = Least(2 * Least(a * w, b), b) BY <3>3, <3>5
    <3>9. Least(a * PowerOfTwo[k - 1], b) = Least(a * (2 * w), b) BY <3>6
    <3> HIDE DEF a, b, w
    <3>10. Least(2 * Least(a * w, b), b) = Least(a * (2 * w), b) BY <3>7, DoubledLeast
    <3>11. waits'[k] = Least(a * PowerOfTwo[k - 1], b) BY <3>8, <3>9, <3>10
    <3> QED BY <3>11 DEF a, b
  <2> QED BY <1>2, <2>3, <2>4, <2>5, <2>6
<1> QED BY <1>5, <1>6, <1>7, <1>8, <1>9 DEF BackoffInv

\* The inductive invariant of the delays.
THEOREM BackoffInvariant == BackoffSpec => []BackoffInv
<1>1. BackoffInit => BackoffInv
  <2>1. ASSUME BackoffInit PROVE BackoffInv
    <3>1. BackoffTypeOK
      <4>1. 0 \in 0 .. MaxRestarts /\ waits \in [1 .. 0 -> Nat]
        BY <2>1, BackoffAssumption DEF BackoffInit
      <4> QED BY <2>1, <4>1 DEF BackoffInit, BackoffTypeOK
    <3>2. DOMAIN waits = {} BY <2>1 DEF BackoffInit
    <3>3. \A n \in 1 .. MaxRestarts : 1 \in 1 .. n BY BackoffAssumption
    <3> QED BY <2>1, <3>1, <3>2, <3>3 DEF BackoffInit, BackoffInv, WaitsDouble
  <2> QED BY <2>1
<1>2. BackoffInv /\ [BackoffNext]_backoffVars => BackoffInv'
  <2>1. ASSUME BackoffInv, UNCHANGED backoffVars PROVE BackoffInv'
    BY <2>1 DEF BackoffInv, BackoffTypeOK, WaitsDouble, backoffVars
  <2>2. ASSUME BackoffInv, ChangeSetting PROVE BackoffInv'
    <3>1. /\ BackoffTypeOK /\ setting' \in Settings /\ steady' = (waits = <<>>)
          /\ delay' = delay /\ waits' = waits
      BY <2>2 DEF ChangeSetting, BackoffInv
    <3>2. BackoffTypeOK' BY <3>1 DEF BackoffTypeOK
    <3>3. WaitsDouble'
      <4>1. CASE waits = <<>>
        <5>1. DOMAIN waits' = {} BY <3>1, <4>1
        <5> QED BY <5>1 DEF WaitsDouble
      <4>2. CASE waits # <<>> BY <3>1, <4>2 DEF WaitsDouble
      <4> QED BY <4>1, <4>2
    <3> QED BY <2>2, <3>1, <3>2, <3>3 DEF BackoffInv
  <2> QED BY <2>1, <2>2, InvRestart DEF BackoffNext
<1> QED BY <1>1, <1>2, PTL DEF BackoffSpec

\* For all settings and any number of restarts, the k-th wait since the last long
\* run is 2^(k-1) times restart_delay, up to restart_max_delay.
THEOREM WaitsAreDoubled == BackoffSpec => []WaitsDouble
<1>1. BackoffInv => WaitsDouble BY DEF BackoffInv
<1> QED BY <1>1, BackoffInvariant, PTL

-----------------------------------------------------------------------------
\* The inductive invariant of the output

Active == {"read", "flush"}

\* How much of what a stream has received its goroutine has written.
Gone(s) == sent[s] - Len(pending[s]) - Len(piece[s])

\* q continues what the stream s has received, after the first m units.
Continues(q, s, m) == \A k \in 1 .. Len(q) : q[k].stream = s /\ q[k].n = m + k

NoEnd(q) == \A k \in 1 .. Len(q) : ~q[k].end

\* What a stream received is written, in its piece, or held back, in this order.
HoldsBack ==
  \A s \in Streams :
    /\ Gone(s) \in Nat
    /\ Continues(piece[s], s, Gone(s)) /\ Whole(piece[s])
    /\ Continues(pending[s], s, Gone(s) + Len(piece[s])) /\ NoEnd(pending[s])
    /\ phase[s] \notin Active => piece[s] = <<>>
    /\ phase[s] # "read" => pending[s] = <<>>
    /\ phase[s] = "off" => sent[s] = 0

\* The units of a stream are written in the order in which they were received,
\* and all of them unless an attempt failed.
Writes ==
  /\ \A i \in 1 .. Len(written) : written[i].n <= Gone(written[i].stream)
  /\ \A i, j \in 1 .. Len(written) :
       i < j /\ written[i].stream = written[j].stream => written[i].n < written[j].n
  /\ failures = 0 =>
       \A s \in Streams : phase[s] \in Active \cup {"closed"} =>
         \A n \in 1 .. Gone(s) :
           \E i \in 1 .. Len(written) : written[i].stream = s /\ written[i].n = n

\* Who has the file open and whose turn it is; a rotation moves a file that has
\* something in it.
Turns ==
  /\ \A s \in Streams : phase[s] \in Active => RunOf[s] \in refs
  /\ holder # "none" => piece[holder] # <<>>
  /\ holder = "none" => step[1] = "write"
  /\ step[1] = "shift" => step[2] < Backups
  /\ opened => step[1] = "write" /\ size = Len(files[0])
  /\ step[1] \in {"remove", "shift"} => files[0] # <<>>
  /\ failures = 0 /\ refs # {} /\ step[1] = "write" => opened

\* The generation that the next rename fills.
Hole == IF step[1] = "shift" THEN step[2] + 1 ELSE 0

Unhurt == failures = 0 /\ \A s \in Streams : phase[s] # "lost"

\* Generation g is what was written from lo[g] to hi[g].
IsSlices(lo, hi) ==
  \A g \in 0 .. Backups :
    /\ lo[g] \in Nat /\ hi[g] \in Nat /\ lo[g] <= hi[g] /\ hi[g] <= Len(written)
    /\ Len(files[g]) = hi[g] - lo[g]
    /\ \A i \in 1 .. Len(files[g]) : files[g][i] = written[lo[g] + i]

\* The slices are in order, and without a gap unless a rename failed.
InOrder(lo, hi) ==
  /\ hi[0] = Len(written)
  /\ \A g \in 0 .. Backups - 1 : hi[g + 1] <= lo[g] /\ (failures = 0 => hi[g + 1] = lo[g])
  /\ written # <<>> /\ files[0] = <<>> => files[1] # <<>> /\ hi[1] = lo[0]

\* Nothing is deleted while a generation is free.
Filled(lo) ==
  /\ failures = 0 /\ step[1] = "shift" => files[Hole] = <<>>
  /\ Unhurt =>
       /\ lo[Backups] = 0 \/ \A g \in (1 .. Backups) \ {Hole} : files[g] # <<>>
       /\ \A g, h \in 1 .. Backups : g < h /\ g # Hole /\ files[h] # <<>> => files[g] # <<>>

Sliced ==
  \E lo, hi \in [0 .. Backups -> Nat] : IsSlices(lo, hi) /\ InOrder(lo, hi) /\ Filled(lo)

OutputInv == OutputTypeOK /\ HoldsBack /\ Writes /\ Turns /\ Sliced /\ LinesWhole

-----------------------------------------------------------------------------
\* Pieces

LEMMA LastEndIs ==
  ASSUME NEW q \in Seq(Unit)
  PROVE  /\ LastEnd(q) \in 0 .. Len(q) /\ (LastEnd(q) = 0 \/ q[LastEnd(q)].end)
         /\ \A k \in 1 .. Len(q) : k > LastEnd(q) => ~q[k].end
<1> DEFINE ends == {0} \cup {k \in 1 .. Len(q) : q[k].end}
<1>1. Len(q) \in Nat /\ ends \in SUBSET Nat /\ ends # {} OBVIOUS
<1>2. \A k \in ends : k <= Len(q) BY <1>1
<1>3. PICK m \in ends : \A k \in ends : k <= m
  <2> HIDE DEF ends
  <2> QED BY <1>1, <1>2, GreatestNumber
<1>4. LastEnd(q) \in ends /\ \A k \in ends : k <= LastEnd(q)
  <2>1. LastEnd(q) = CHOOSE k \in ends : \A j \in ends : j <= k BY DEF LastEnd
  <2> HIDE DEF ends
  <2> QED BY <1>3, <2>1
<1>5. ASSUME NEW k \in 1 .. Len(q), k > LastEnd(q), q[k].end PROVE FALSE
  <2>1. k \in ends /\ k \in Nat /\ LastEnd(q) \in Nat BY <1>1, <1>4, <1>5
  <2>2. k <= LastEnd(q) BY <1>4, <2>1
  <2> QED BY <1>5, <2>1, <2>2
<1> QED BY <1>1, <1>2, <1>4, <1>5

LEMMA GoesIs ==
  ASSUME NEW q \in Seq(Unit)
  PROVE  /\ Goes(q) \in 0 .. Len(q)
         /\ \A k \in 1 .. Len(q) : k > Goes(q) => ~q[k].end
         /\ \/ Goes(q) = 0
            \/ q[Goes(q)].end
            \/ Goes(q) = Len(q) /\ Len(q) > MaxPending /\ NoEnd(q)
<1>1. Len(q) \in Nat OBVIOUS
<1>2. LastEnd(q) \in Nat /\ Goes(q) \in {Len(q), LastEnd(q)} BY LastEndIs DEF Goes
<1>3. CASE LastEnd(q) = 0 /\ Len(q) > MaxPending
  <2>1. Goes(q) = Len(q) BY <1>3 DEF Goes
  <2> QED BY <1>1, <1>3, <2>1, LastEndIs DEF NoEnd
<1>4. CASE ~(LastEnd(q) = 0 /\ Len(q) > MaxPending)
  <2>1. Goes(q) = LastEnd(q) BY <1>4 DEF Goes
  <2> QED BY <1>1, <2>1, LastEndIs
<1> QED BY <1>3, <1>4

\* What Goes splits: the one part is whole, the other has no end of a line.
LEMMA SplitUnits ==
  ASSUME NEW q \in Seq(Unit), NEW s, NEW m \in Nat, Continues(q, s, m)
  PROVE  LET p == SubSeq(q, 1, Goes(q))
             r == SubSeq(q, Goes(q) + 1, Len(q))
         IN  /\ p \in Seq(Unit) /\ Len(p) = Goes(q) /\ Continues(p, s, m) /\ Whole(p)
             /\ r \in Seq(Unit) /\ Len(r) = Len(q) - Goes(q)
             /\ Continues(r, s, m + Goes(q)) /\ NoEnd(r)
<1> DEFINE G == Goes(q)  L == Len(q)  p == SubSeq(q, 1, G)  r == SubSeq(q, G + 1, L)
<1>1. L \in Nat /\ G \in 0 .. L /\ \A k \in 1 .. L : q[k] \in Unit BY GoesIs
<1>2. p \in Seq(Unit) /\ Len(p) = G /\ \A k \in 1 .. G : p[k] = q[k]
  BY <1>1
<1>3. r \in Seq(Unit) /\ Len(r) = L - G /\ \A k \in 1 .. L - G : r[k] = q[G + k]
  BY <1>1
<1> HIDE DEF p, r, G, L
<1>4. Continues(p, s, m) BY <1>1, <1>2, SMTT(30) DEF Continues, L
<1>5. Continues(r, s, m + G)
  <2>1. ASSUME NEW k \in 1 .. Len(r) PROVE r[k].stream = s /\ r[k].n = m + G + k
    <3>1. G + k \in 1 .. L /\ r[k] = q[G + k] BY <1>1, <1>3
    <3> QED BY <1>1, <3>1 DEF Continues, L
  <2> QED BY <2>1 DEF Continues
<1>6. NoEnd(r)
  <2>1. ASSUME NEW k \in 1 .. Len(r) PROVE ~r[k].end
    <3>1. G + k \in 1 .. L /\ G + k > G /\ r[k] = q[G + k] BY <1>1, <1>3
    <3> QED BY <3>1, GoesIs DEF L, G
  <2> QED BY <2>1 DEF NoEnd
<1>7. Whole(p)
  <2>1. ASSUME NEW i \in 1 .. G, i # G PROVE i < Len(p) /\ Follows(p[i], p[i + 1])
    <3>1. i \in 1 .. L /\ i + 1 \in 1 .. L /\ i + 1 \in 1 .. G /\ i < Len(p)
      BY <1>1, <1>2, <2>1
    <3>2. /\ p[i].stream = s /\ p[i + 1].stream = s /\ p[i].n = m + i /\ p[i + 1].n = m + (i + 1)
      BY <1>2, <1>4, <3>1 DEF Continues
    <3> QED BY <3>1, <3>2 DEF Follows
  <2>2. CASE G = 0 BY <1>2, <2>2 DEF Whole
  <2>3. CASE G # 0 /\ q[G].end
    <3>1. G \in 1 .. G BY <1>1, <2>3
    <3>2. p[G].end BY <1>2, <2>3, <3>1
    <3> QED BY <1>2, <2>1, <3>2 DEF Whole
  <2>4. CASE G # 0 /\ G = L /\ L > MaxPending /\ NoEnd(q)
    <3>1. \A k \in 1 .. G : ~p[k].end BY <1>1, <1>2, <2>4 DEF NoEnd, L
    <3>2. MaxPending \in Nat BY OutputAssumption
    <3>3. \A k \in G - MaxPending .. G - 1 : k \in 1 .. G /\ k # G BY <1>1, <2>4, <3>2
    <3>4. \A k \in G - MaxPending .. G - 1 : ~p[k].end /\ Follows(p[k], p[k + 1])
      BY <2>1, <3>1, <3>3
    <3> QED BY <1>1, <1>2, <2>1, <2>4, <3>4 DEF Whole
  <2> QED BY <2>2, <2>3, <2>4, GoesIs DEF G, L
<1> QED BY <1>2, <1>3, <1>4, <1>5, <1>6, <1>7 DEF p, r, G, L

\* Whole pieces one after another are whole.
LEMMA WholeConcat ==
  ASSUME NEW f \in Seq(Unit), NEW p \in Seq(Unit), Whole(f), Whole(p) PROVE Whole(f \o p)
<1> DEFINE c == f \o p  F == Len(f)  P == Len(p)
<1>1. /\ F \in Nat /\ P \in Nat /\ Len(c) = F + P /\ MaxPending \in Nat
      /\ \A i \in 1 .. F : c[i] = f[i]
      /\ \A i \in 1 .. P : c[F + i] = p[i]
  BY OutputAssumption
<1> HIDE DEF c
<1>2. ASSUME NEW i \in 1 .. F + P
      PROVE  \/ c[i].end
             \/ i < F + P /\ Follows(c[i], c[i + 1])
             \/ i > MaxPending /\ \A k \in i - MaxPending .. i - 1 : ~c[k].end /\ Follows(c[k], c[k + 1])
  <2>1. CASE i <= F
    <3>1. i \in 1 .. F BY <1>1, <2>1
    <3>2. CASE f[i].end BY <1>1, <3>1, <3>2
    <3>3. CASE i < F /\ Follows(f[i], f[i + 1])
      <4>1. i + 1 \in 1 .. F /\ i < F + P BY <1>1, <3>1, <3>3
      <4> QED BY <1>1, <3>1, <3>3, <4>1
    <3>4. CASE i > MaxPending /\ \A k \in i - MaxPending .. i - 1 : ~f[k].end /\ Follows(f[k], f[k + 1])
      <4>1. \A k \in i - MaxPending .. i - 1 : k \in 1 .. F /\ k + 1 \in 1 .. F
        BY <1>1, <3>1, <3>4
      <4> QED BY <1>1, <3>4, <4>1
    <3> QED BY <3>1, <3>2, <3>3, <3>4 DEF Whole, F
  <2>2. CASE i > F
    <3> DEFINE j == i - F
    <3>1. j \in 1 .. P /\ i = F + j /\ j \in Nat BY <1>1, <2>2
    <3> HIDE DEF j
    <3>2. CASE p[j].end BY <1>1, <3>1, <3>2
    <3>3. CASE j < P /\ Follows(p[j], p[j + 1])
      <4>1. j + 1 \in 1 .. P /\ i + 1 = F + (j + 1) /\ i < F + P BY <1>1, <3>1, <3>3
      <4> QED BY <1>1, <3>1, <3>3, <4>1
    <3>4. CASE j > MaxPending /\ \A k \in j - MaxPending .. j - 1 : ~p[k].end /\ Follows(p[k], p[k + 1])
      <4>1. ASSUME NEW k \in i - MaxPending .. i - 1 PROVE ~c[k].end /\ Follows(c[k], c[k + 1])
        <5>1. k - F \in j - MaxPending .. j - 1 /\ k - F \in 1 .. P /\ (k - F) + 1 \in 1 .. P
          BY <1>1, <3>1, <3>4
        <5>2. k = F + (k - F) /\ k + 1 = F + ((k - F) + 1) BY <1>1, <3>1
        <5> QED BY <1>1, <3>4, <5>1, <5>2
      <4> QED BY <1>1, <3>1, <3>4, <4>1
    <3> QED BY <3>1, <3>2, <3>3, <3>4 DEF Whole, P
  <2> QED BY <1>1, <2>1, <2>2
<1> QED BY <1>1, <1>2 DEF Whole, c

-----------------------------------------------------------------------------
\* What an action leaves alone

LEMMA Typing ==
  ASSUME OutputTypeOK
  PROVE  /\ \A s \in Streams :
              /\ sent[s] \in Nat /\ pending[s] \in Seq(Unit) /\ piece[s] \in Seq(Unit)
              /\ Len(pending[s]) \in Nat /\ Len(piece[s]) \in Nat /\ RunOf[s] \in Range(RunOf)
         /\ \A i \in 1 .. Len(written) : written[i] \in Unit /\ written[i].stream \in Streams
                                       /\ written[i].n \in Nat
         /\ Len(written) \in Nat /\ failures \in Nat /\ step[2] \in Nat
         /\ Backups \in Nat \ {0} /\ 0 \in 0 .. Backups
         /\ \A g \in 0 .. Backups : files[g] \in Seq(Unit) /\ Len(files[g]) \in Nat
<1> USE OutputAssumption DEF OutputTypeOK
<1>1. \A s \in Streams : sent[s] \in Nat /\ pending[s] \in Seq(Unit) /\ piece[s] \in Seq(Unit)
  OBVIOUS
<1>2. \A s \in Streams : RunOf[s] \in Range(RunOf) BY DEF Range
<1>3. \A u \in Unit : u.stream \in Streams /\ u.n \in Nat BY DEF Unit
<1>4. \A i \in 1 .. Len(written) : written[i] \in Unit OBVIOUS
<1>5. failures \in Nat /\ step[2] \in Nat /\ Len(written) \in Nat OBVIOUS
<1>6. \A g \in 0 .. Backups : files[g] \in Seq(Unit) OBVIOUS
<1>7. Backups \in Nat \ {0} /\ 0 \in 0 .. Backups OBVIOUS
<1> HIDE OutputAssumption DEF OutputTypeOK
<1>8. \A q \in Seq(Unit) : Len(q) \in Nat OBVIOUS
<1> QED BY <1>1, <1>2, <1>3, <1>4, <1>5, <1>6, <1>7, <1>8

\* The files hold what they held.
LEMMA SlicedKept ==
  ASSUME OutputTypeOK, Sliced, UNCHANGED <<files, written>>, Hole' = Hole,
         step'[1] = "shift" => step[1] = "shift", failures' = 0 => failures = 0,
         Unhurt' => Unhurt
  PROVE  Sliced'
<1>1. PICK lo, hi \in [0 .. Backups -> Nat] : IsSlices(lo, hi) /\ InOrder(lo, hi) /\ Filled(lo)
  BY DEF Sliced
<1>2. IsSlices(lo, hi)' BY <1>1 DEF IsSlices
<1>3. InOrder(lo, hi)' BY <1>1 DEF InOrder
<1>4. Filled(lo)' BY <1>1 DEF Filled
<1> QED BY <1>2, <1>3, <1>4 DEF Sliced

\* The streams hold back what they held back.
LEMMA StreamsKept ==
  ASSUME HoldsBack, UNCHANGED <<sent, pending, piece, phase>> PROVE HoldsBack'
<1>1. ASSUME NEW s \in Streams
      PROVE  /\ Gone(s)' = Gone(s)
             /\ Continues(piece[s], s, Gone(s))' = Continues(piece[s], s, Gone(s))
             /\ Continues(pending[s], s, Gone(s) + Len(piece[s]))' =
                  Continues(pending[s], s, Gone(s) + Len(piece[s]))
             /\ Whole(piece[s])' = Whole(piece[s]) /\ NoEnd(pending[s])' = NoEnd(pending[s])
  BY DEF Gone, Continues, NoEnd, Whole, Follows
<1> QED BY <1>1 DEF HoldsBack

LEMMA WritesKept ==
  ASSUME Writes, UNCHANGED <<sent, pending, piece, phase, written>>, failures' = 0 => failures = 0
  PROVE  Writes'
BY DEF Writes, Gone

LEMMA LinesKept == ASSUME LinesWhole, UNCHANGED files PROVE LinesWhole'
BY DEF LinesWhole, Whole, Follows

\* A step that changes only how far a rotation is, or who has the file.
LEMMA RestKept ==
  ASSUME OutputInv, UNCHANGED <<sent, pending, piece, phase, files, written>>, Hole' = Hole,
         step'[1] = "shift" => step[1] = "shift", failures' = 0 => failures = 0
  PROVE  HoldsBack' /\ Writes' /\ Sliced' /\ LinesWhole'
<1>1. Unhurt' => Unhurt BY DEF Unhurt
<1> QED BY <1>1, StreamsKept, WritesKept, SlicedKept, LinesKept DEF OutputInv

\* Without a run that has the file open nobody writes.
LEMMA IdleFile ==
  ASSUME OutputInv, refs = {} PROVE holder = "none" /\ step[1] = "write"
BY DEF OutputInv, OutputTypeOK, HoldsBack, Turns

LEMMA HolderActive ==
  ASSUME OutputInv, holder # "none" PROVE holder \in Streams /\ phase[holder] \in Active
BY DEF OutputInv, OutputTypeOK, HoldsBack, Turns

-----------------------------------------------------------------------------
\* One lemma per action

LEMMA InvOpenOutput ==
  ASSUME OutputInv, NEW r \in Range(RunOf), OpenOutput(r) PROVE OutputInv'
<1>1. OutputTypeOK /\ HoldsBack /\ Writes /\ Turns BY DEF OutputInv
<1>2. PICK p \in {"read", "without"} :
        /\ \/ p = "without" /\ refs = {} /\ Fails /\ UNCHANGED <<refs, opened, size>>
           \/ /\ p = "read" /\ Works /\ refs' = refs \cup {r}
              /\ IF refs = {} THEN opened' = TRUE /\ size' = Len(files[0])
                             ELSE UNCHANGED <<opened, size>>
        /\ phase' = [s \in Streams |-> IF RunOf[s] = r THEN p ELSE phase[s]]
  BY DEF OpenOutput, Enter
<1>3. \A s \in Streams : RunOf[s] = r => phase[s] = "off" BY DEF OpenOutput, StreamsOf
<1>4. UNCHANGED <<sent, pending, piece, holder, step, files, written>> BY DEF OpenOutput
<1>5. failures' \in 0 .. MaxFailures /\ (failures' = 0 => failures = 0 /\ p = "read")
  BY <1>1, <1>2, OutputAssumption DEF OutputTypeOK, Fails, Works
<1>6. OutputTypeOK'
  <2>1. phase' \in [Streams -> {"off", "read", "flush", "closed", "without", "lost"}]
    BY <1>1, <1>2 DEF OutputTypeOK
  <2>2. refs' \subseteq Range(RunOf) /\ opened' \in BOOLEAN /\ size' \in Nat
    BY <1>1, <1>2, Typing DEF OutputTypeOK
  <2> QED BY <1>1, <1>4, <1>5, <2>1, <2>2 DEF OutputTypeOK, Unit
<1>7. HoldsBack' BY <1>1, <1>2, <1>3, <1>4 DEF HoldsBack, Gone, Continues, NoEnd, Whole, Follows, Active
<1>8. Writes'
  <2>1. ASSUME NEW s \in Streams, RunOf[s] = r PROVE Gone(s) = 0
    <3>1. sent[s] = 0 /\ pending[s] = <<>> /\ piece[s] = <<>>
      BY <1>1, <1>3, <2>1 DEF HoldsBack, Active
    <3>2. Len(pending[s]) = 0 /\ Len(piece[s]) = 0 BY <3>1
    <3>3. 0 - 0 - 0 = 0 OBVIOUS
    <3> QED BY <3>1, <3>2, <3>3 DEF Gone
  <2>2. \A s \in Streams : Gone(s)' = Gone(s) BY <1>4 DEF Gone
  <2>3. \A s \in Streams : RunOf[s] # r => phase'[s] = phase[s] BY <1>2
  <2>4. ASSUME failures' = 0, NEW s \in Streams, phase'[s] \in Active \cup {"closed"},
               NEW n \in 1 .. Gone(s)
        PROVE  \E i \in 1 .. Len(written) : written[i].stream = s /\ written[i].n = n
    BY <1>1, <1>5, <2>1, <2>3, <2>4 DEF Writes
  <2> QED BY <1>1, <1>4, <2>2, <2>4, Typing DEF Writes
<1>9. Turns'
  <2>1. \A s \in Streams : phase'[s] \in Active => RunOf[s] \in refs'
    BY <1>1, <1>2 DEF Turns, Active
  <2>2. opened' => step'[1] = "write" /\ size' = Len(files'[0])
    BY <1>1, <1>2, <1>4, IdleFile DEF Turns
  <2>3. failures' = 0 /\ refs' # {} /\ step'[1] = "write" => opened'
    BY <1>1, <1>2, <1>4, <1>5 DEF Turns
  <2> QED BY <1>1, <1>4, <2>1, <2>2, <2>3 DEF Turns
<1>10. Sliced'
  <2>1. Unhurt' => Unhurt
    <3>1. \A s \in Streams : phase[s] = "lost" => phase'[s] = "lost" BY <1>2, <1>3
    <3> QED BY <1>5, <3>1 DEF Unhurt
  <2> QED BY <1>1, <1>4, <1>5, <2>1, SlicedKept DEF OutputInv, Hole
<1>11. LinesWhole' BY <1>4, LinesKept DEF OutputInv
<1> QED BY <1>6, <1>7, <1>8, <1>9, <1>10, <1>11 DEF OutputInv

LEMMA InvRelease ==
  ASSUME OutputInv, NEW r \in Range(RunOf), Release(r) PROVE OutputInv'
<1>1. OutputTypeOK' BY DEF OutputInv, OutputTypeOK, Release, Unit
<1>2. Turns' BY DEF OutputInv, Turns, Release, StreamsOf, Active
<1>3. HoldsBack' /\ Writes' /\ Sliced' /\ LinesWhole' BY RestKept DEF Release, Hole
<1> QED BY <1>1, <1>2, <1>3 DEF OutputInv

\* A step of the goroutine of one stream, which writes nothing: what the stream
\* gives up is in its piece or held back.
LEMMA StreamStep ==
  ASSUME OutputInv, NEW s \in Streams, piece[s] = <<>>, UNCHANGED <<refs, fileVars>>,
         sent' \in [Streams -> 0 .. MaxUnits], pending' \in [Streams -> Seq(Unit)],
         piece' \in [Streams -> Seq(Unit)],
         phase' \in [Streams -> {"off", "read", "flush", "closed", "without", "lost"}],
         \A t \in Streams \ {s} : UNCHANGED <<sent[t], pending[t], piece[t], phase[t]>>,
         phase[s] \in Active, phase'[s] \in Active \cup {"closed"},
         Gone(s)' = Gone(s), Continues(piece'[s], s, Gone(s)), Whole(piece'[s]),
         Continues(pending'[s], s, Gone(s) + Len(piece'[s])), NoEnd(pending'[s]),
         phase'[s] \notin Active => piece'[s] = <<>>,
         phase'[s] # "read" => pending'[s] = <<>>
  PROVE  OutputInv'
<1>1. OutputTypeOK /\ HoldsBack /\ Writes /\ Turns BY DEF OutputInv
<1>2. OutputTypeOK' BY <1>1 DEF OutputTypeOK, fileVars, Unit
<1>3. \A t \in Streams : Gone(t)' = Gone(t) BY DEF Gone
<1>4. HoldsBack'
  <2>1. ASSUME NEW t \in Streams
        PROVE  /\ Gone(t)' \in Nat /\ Continues(piece'[t], t, Gone(t)) /\ Whole(piece'[t])
               /\ Continues(pending'[t], t, Gone(t) + Len(piece'[t])) /\ NoEnd(pending'[t])
               /\ phase'[t] \notin Active => piece'[t] = <<>>
               /\ phase'[t] # "read" => pending'[t] = <<>>
               /\ phase'[t] = "off" => sent'[t] = 0
    <3>1. CASE t = s BY <1>1, <1>3, <3>1 DEF HoldsBack, Active
    <3>2. CASE t # s BY <1>1, <1>3, <3>2 DEF HoldsBack
    <3> QED BY <3>1, <3>2
  <2> QED BY <1>3, <2>1 DEF HoldsBack, Continues, NoEnd, Whole, Follows
<1>5. Writes'
  <2>1. \A t \in Streams : phase'[t] \in Active \cup {"closed"} => phase[t] \in Active \cup {"closed"}
    OBVIOUS
  <2> QED BY <1>1, <1>3, <2>1, Typing DEF Writes, fileVars
<1>6. Turns'
  <2>1. \A t \in Streams : phase'[t] \in Active => phase[t] \in Active OBVIOUS
  <2>2. holder # "none" => piece'[holder] = piece[holder] BY <1>1 DEF Turns, OutputTypeOK
  <2> QED BY <1>1, <2>1, <2>2 DEF Turns, fileVars
<1>7. Sliced'
  <2>1. Unhurt' => Unhurt
    <3>1. \A t \in Streams : phase[t] = "lost" => phase'[t] = "lost" BY DEF Active
    <3> QED BY <3>1 DEF Unhurt, fileVars
  <2> QED BY <1>1, <2>1, SlicedKept DEF OutputInv, Hole, fileVars
<1>8. LinesWhole' BY LinesKept DEF OutputInv, fileVars
<1> QED BY <1>2, <1>4, <1>5, <1>6, <1>7, <1>8 DEF OutputInv

LEMMA ContinuesConcat ==
  ASSUME NEW a \in Seq(Unit), NEW b \in Seq(Unit), NEW s, NEW m \in Nat,
         Continues(a, s, m), Continues(b, s, m + Len(a))
  PROVE  a \o b \in Seq(Unit) /\ Len(a \o b) = Len(a) + Len(b) /\ Continues(a \o b, s, m)
<1> DEFINE c == a \o b  A == Len(a)  B == Len(b)
<1>1. /\ A \in Nat /\ B \in Nat /\ c \in Seq(Unit) /\ Len(c) = A + B
      /\ \A k \in 1 .. A : c[k] = a[k]
      /\ \A k \in 1 .. B : c[A + k] = b[k]
  OBVIOUS
<1> HIDE DEF c
<1>2. ASSUME NEW k \in 1 .. A + B PROVE c[k].stream = s /\ c[k].n = m + k
  <2>1. CASE k <= A
    <3>1. k \in 1 .. A BY <1>1, <2>1
    <3> QED BY <1>1, <3>1 DEF Continues
  <2>2. CASE k > A
    <3> DEFINE j == k - A
    <3>1. j \in 1 .. B /\ k = A + j BY <1>1, <2>2
    <3> HIDE DEF j
    <3>2. c[k].stream = s /\ c[k].n = m + A + j BY <1>1, <3>1 DEF Continues
    <3> QED BY <1>1, <3>1, <3>2
  <2> QED BY <1>1, <2>1, <2>2
<1> QED BY <1>1, <1>2 DEF Continues, c

\* A chunk continues what the stream has received.
LEMMA UnitsContinue ==
  ASSUME OutputTypeOK, HoldsBack, NEW s \in Streams, piece[s] = <<>>, NEW chunk \in Chunks(s)
  PROVE  /\ Len(chunk) \in Nat /\ sent[s] + Len(chunk) \in 0 .. MaxUnits
         /\ pending[s] \o Units(s, chunk) \in Seq(Unit)
         /\ Len(pending[s] \o Units(s, chunk)) = Len(pending[s]) + Len(chunk)
         /\ Continues(pending[s] \o Units(s, chunk), s, Gone(s))
<1> DEFINE u == Units(s, chunk)  C == Len(chunk)
<1>1. PICK c \in 1 .. (MaxUnits - sent[s]) : chunk \in [1 .. c -> BOOLEAN] BY DEF Chunks
<1>2. MaxUnits \in Nat /\ sent[s] \in 0 .. MaxUnits /\ pending[s] \in Seq(Unit)
  BY OutputAssumption DEF OutputTypeOK
<1>3. C = c /\ C \in Nat /\ sent[s] + C \in 0 .. MaxUnits BY <1>1, <1>2
<1>4. u \in Seq(Unit) /\ Len(u) = C
  <2>1. \A k \in 1 .. C : sent[s] + k \in 1 .. MaxUnits /\ chunk[k] \in BOOLEAN BY <1>1, <1>2, <1>3
  <2>2. \A k \in 1 .. C : [stream |-> s, n |-> sent[s] + k, end |-> chunk[k]] \in Unit
    BY <2>1 DEF Unit
  <2> QED BY <1>3, <2>2 DEF Units
<1>5. Len(pending[s]) \in Nat /\ Gone(s) = sent[s] - Len(pending[s]) /\ Gone(s) \in Nat
  BY <1>2 DEF Gone, HoldsBack
<1>6. Gone(s) + Len(pending[s]) = sent[s] /\ Gone(s) + Len(piece[s]) = Gone(s) BY <1>2, <1>5
<1>7. Continues(pending[s], s, Gone(s)) BY <1>6 DEF HoldsBack
<1>8. Continues(u, s, sent[s]) BY <1>3, <1>4 DEF Continues, Units
<1> HIDE DEF u
<1>9. Continues(u, s, Gone(s) + Len(pending[s])) BY <1>6, <1>8
<1> QED BY <1>2, <1>3, <1>4, <1>5, <1>7, <1>9, ContinuesConcat DEF u

LEMMA InvReceive == ASSUME OutputInv, NEW s \in Streams, Receive(s) PROVE OutputInv'
<1>1. OutputTypeOK /\ HoldsBack /\ Gone(s) \in Nat BY DEF OutputInv, HoldsBack
<1>2. phase[s] = "read" /\ piece[s] = <<>> /\ UNCHANGED <<phase, refs, fileVars>> BY DEF Receive
<1>3. PICK chunk \in Chunks(s) :
        LET q == pending[s] \o Units(s, chunk)
        IN /\ piece' = [piece EXCEPT ![s] = SubSeq(q, 1, Goes(q))]
           /\ pending' = [pending EXCEPT ![s] = SubSeq(q, Goes(q) + 1, Len(q))]
           /\ sent' = [sent EXCEPT ![s] = @ + Len(chunk)]
  BY DEF Receive
<1> DEFINE q == pending[s] \o Units(s, chunk)  p == SubSeq(q, 1, Goes(q))
           r == SubSeq(q, Goes(q) + 1, Len(q))
<1>4. /\ q \in Seq(Unit) /\ Len(q) = Len(pending[s]) + Len(chunk) /\ Continues(q, s, Gone(s))
      /\ Len(chunk) \in Nat /\ sent[s] + Len(chunk) \in 0 .. MaxUnits
  BY <1>1, <1>2, UnitsContinue
<1>5. /\ piece' = [piece EXCEPT ![s] = p] /\ pending' = [pending EXCEPT ![s] = r]
      /\ sent' = [sent EXCEPT ![s] = @ + Len(chunk)]
  BY <1>3
<1> HIDE DEF q
<1>6. /\ p \in Seq(Unit) /\ Len(p) = Goes(q) /\ Continues(p, s, Gone(s)) /\ Whole(p)
      /\ r \in Seq(Unit) /\ Len(r) = Len(q) - Goes(q)
      /\ Continues(r, s, Gone(s) + Goes(q)) /\ NoEnd(r) /\ Goes(q) \in 0 .. Len(q)
  BY <1>1, <1>4, SplitUnits, GoesIs
<1> HIDE DEF p, r
<1>7. piece'[s] = p /\ pending'[s] = r /\ sent'[s] = sent[s] + Len(chunk)
  BY <1>1, <1>5 DEF OutputTypeOK
<1>8. Gone(s)' = Gone(s)
  <2>1. Gone(s)' = sent'[s] - Len(pending'[s]) - Len(piece'[s]) BY DEF Gone
  <2>2. Gone(s) = sent[s] - Len(pending[s]) BY <1>1, <1>2, Typing DEF Gone
  <2>3. sent[s] \in Nat /\ Len(pending[s]) \in Nat BY <1>1, Typing
  <2>4. Len(r) = Len(pending[s]) + Len(chunk) - Goes(q) /\ Goes(q) \in Int BY <1>4, <1>6
  <2> QED BY <1>4, <1>6, <1>7, <2>1, <2>2, <2>3, <2>4, SMTT(30)
<1>9. /\ sent' \in [Streams -> 0 .. MaxUnits] /\ pending' \in [Streams -> Seq(Unit)]
      /\ piece' \in [Streams -> Seq(Unit)]
  BY <1>1, <1>4, <1>5, <1>6 DEF OutputTypeOK
<1>10. \A t \in Streams \ {s} : UNCHANGED <<sent[t], pending[t], piece[t], phase[t]>>
  BY <1>1, <1>2, <1>5 DEF OutputTypeOK
<1>11. phase[s] \in Active /\ phase'[s] = "read" BY <1>2 DEF Active
<1>12. phase' \in [Streams -> {"off", "read", "flush", "closed", "without", "lost"}]
  BY <1>1, <1>2 DEF OutputTypeOK
<1> QED BY <1>2, <1>6, <1>7, <1>8, <1>9, <1>10, <1>11, <1>12, StreamStep

LEMMA InvFlush == ASSUME OutputInv, NEW s \in Streams, Flush(s) PROVE OutputInv'
<1>1. OutputTypeOK /\ HoldsBack BY DEF OutputInv
<1>2. /\ phase[s] = "read" /\ piece[s] = <<>> /\ UNCHANGED <<sent, refs, fileVars>>
      /\ phase' = [phase EXCEPT ![s] = "flush"] /\ pending' = [pending EXCEPT ![s] = <<>>]
  BY DEF Flush
<1> DEFINE q == pending[s]  L == Len(q)
           p == [k \in 1 .. L |-> IF k = L THEN [q[k] EXCEPT !.end = TRUE] ELSE q[k]]
<1>3. piece' = [piece EXCEPT ![s] = p] BY DEF Flush
<1>4. /\ L \in Nat /\ q \in Seq(Unit) /\ Gone(s) \in Nat /\ Continues(q, s, Gone(s))
      /\ Gone(s) = sent[s] - L /\ sent[s] \in Nat
  <2>1. Gone(s) = sent[s] - L /\ Len(piece[s]) = 0 BY <1>1, <1>2, Typing DEF Gone
  <2>2. Gone(s) + Len(piece[s]) = Gone(s) BY <1>1, <2>1 DEF HoldsBack
  <2> QED BY <1>1, <2>1, <2>2, Typing DEF HoldsBack
<1>5. \A k \in 1 .. L : /\ q[k] \in Unit /\ p[k] \in Unit /\ p[k].stream = q[k].stream
                        /\ p[k].n = q[k].n /\ (k = L => p[k].end)
  <2>1. ASSUME NEW u \in Unit
        PROVE  LET v == [u EXCEPT !.end = TRUE]
               IN  v \in Unit /\ v.stream = u.stream /\ v.n = u.n /\ v.end
    BY DEF Unit
  <2>2. \A k \in 1 .. L : q[k] \in Unit BY <1>4
  <2> QED BY <2>1, <2>2
<1>6. p \in Seq(Unit) /\ Len(p) = L
  <2>1. p = [k \in 1 .. L |-> p[k]] OBVIOUS
  <2> HIDE DEF p
  <2>2. p \in [1 .. L -> Unit] BY <1>5, <2>1
  <2> QED BY <1>4, <2>2
<1> HIDE DEF p
<1>7. Continues(p, s, Gone(s)) BY <1>4, <1>5, <1>6 DEF Continues
<1>8. Whole(p)
  <2>1. ASSUME NEW i \in 1 .. L PROVE p[i].end \/ (i < Len(p) /\ Follows(p[i], p[i + 1]))
    <3>1. CASE i = L BY <1>5, <3>1
    <3>2. CASE i # L
      <4>1. i + 1 \in 1 .. L /\ i < L BY <1>4, <3>2
      <4>2. p[i + 1].n = Gone(s) + (i + 1) /\ p[i].n = Gone(s) + i /\ p[i].stream = p[i + 1].stream
        BY <1>6, <1>7, <4>1 DEF Continues
      <4> QED BY <1>4, <1>6, <4>1, <4>2 DEF Follows
    <3> QED BY <3>1, <3>2
  <2> QED BY <1>6, <2>1 DEF Whole
<1>9. piece'[s] = p /\ pending'[s] = <<>> /\ phase'[s] = "flush" /\ sent'[s] = sent[s]
  BY <1>1, <1>2, <1>3 DEF OutputTypeOK
<1>10. Gone(s)' = Gone(s) BY <1>4, <1>6, <1>9 DEF Gone
<1>11. /\ sent' \in [Streams -> 0 .. MaxUnits] /\ pending' \in [Streams -> Seq(Unit)]
       /\ piece' \in [Streams -> Seq(Unit)]
       /\ phase' \in [Streams -> {"off", "read", "flush", "closed", "without", "lost"}]
  BY <1>1, <1>2, <1>3, <1>6 DEF OutputTypeOK
<1>12. \A t \in Streams \ {s} : UNCHANGED <<sent[t], pending[t], piece[t], phase[t]>>
  BY <1>1, <1>2, <1>3 DEF OutputTypeOK
<1>13. Continues(pending'[s], s, Gone(s) + Len(piece'[s])) /\ NoEnd(pending'[s])
  BY <1>9 DEF Continues, NoEnd
<1> QED BY <1>2, <1>7, <1>8, <1>9, <1>10, <1>11, <1>12, <1>13, StreamStep DEF Active

LEMMA InvFlushed == ASSUME OutputInv, NEW s \in Streams, Flushed(s) PROVE OutputInv'
<1>1. OutputTypeOK /\ HoldsBack BY DEF OutputInv
<1>2. /\ phase[s] = "flush" /\ piece[s] = <<>> /\ phase' = [phase EXCEPT ![s] = "closed"]
      /\ UNCHANGED <<sent, pending, piece, refs, fileVars>>
  BY DEF Flushed
<1>3. pending[s] = <<>> BY <1>1, <1>2 DEF HoldsBack
<1>4. /\ phase' \in [Streams -> {"off", "read", "flush", "closed", "without", "lost"}]
      /\ phase'[s] = "closed" /\ \A t \in Streams \ {s} : phase'[t] = phase[t]
  BY <1>1, <1>2 DEF OutputTypeOK
<1>5. Gone(s)' = Gone(s) BY <1>2 DEF Gone
<1>6. /\ Continues(piece'[s], s, Gone(s)) /\ Whole(piece'[s])
      /\ Continues(pending'[s], s, Gone(s) + Len(piece'[s])) /\ NoEnd(pending'[s])
  BY <1>1, <1>2 DEF HoldsBack
<1>7. /\ sent' \in [Streams -> 0 .. MaxUnits] /\ pending' \in [Streams -> Seq(Unit)]
      /\ piece' \in [Streams -> Seq(Unit)]
  BY <1>1, <1>2 DEF OutputTypeOK
<1> QED BY <1>2, <1>3, <1>4, <1>5, <1>6, <1>7, StreamStep DEF Active

LEMMA InvTakeTurn == ASSUME OutputInv, NEW s \in Streams, TakeTurn(s) PROVE OutputInv'
<1>1. OutputTypeOK /\ Turns BY DEF OutputInv
<1>2. /\ piece[s] # <<>> /\ holder = "none" /\ holder' = s /\ step[1] = "write"
      /\ UNCHANGED <<streamVars, size, files, written, failures>>
  BY <1>1 DEF TakeTurn, Turns
<1>3. Backups \in 0 .. Backups /\ 0 \in 0 .. Backups BY OutputAssumption
<1>4. OutputTypeOK'
  <2>1. step' \in {"write", "remove", "shift", "open"} \X (0 .. Backups) /\ opened' \in BOOLEAN
    <3>1. \/ step' = <<"remove", Backups>> /\ opened' = FALSE
          \/ step' = <<"open", 0>> /\ opened' = opened
          \/ step' = <<"write", 0>> /\ opened' = opened
      BY DEF TakeTurn
    <3>2. opened \in BOOLEAN BY <1>1 DEF OutputTypeOK
    <3>3. ASSUME NEW a \in {"write", "remove", "shift", "open"}, NEW g \in 0 .. Backups
          PROVE  <<a, g>> \in {"write", "remove", "shift", "open"} \X (0 .. Backups)
      OBVIOUS
    <3>4. step' \in {"write", "remove", "shift", "open"} \X (0 .. Backups) BY <1>3, <3>1, <3>3
    <3> QED BY <3>1, <3>2, <3>4
  <2> QED BY <1>1, <1>2, <2>1 DEF OutputTypeOK, streamVars, Unit
<1>5. Turns'
  <2>1. CASE Full(piece[s]) /\ opened /\ opened' = FALSE /\ step' = <<"remove", Backups>>
    <3>1. files[0] # <<>>
      <4>1. size = Len(files[0]) /\ size > 0 BY <1>1, <2>1 DEF Turns, Full
      <4> QED BY <4>1
    <3>2. step'[1] = "remove" BY <2>1
    <3> QED BY <1>1, <1>2, <2>1, <3>1, <3>2, OutputAssumption DEF Turns, streamVars, OutputTypeOK
  <2>2. CASE Full(piece[s]) /\ ~opened /\ step' = <<"open", 0>> /\ UNCHANGED opened
    BY <1>1, <1>2, <2>2, OutputAssumption DEF Turns, streamVars, OutputTypeOK
  <2>3. CASE ~Full(piece[s]) /\ step' = <<"write", 0>> /\ UNCHANGED opened
    BY <1>1, <1>2, <2>3, OutputAssumption DEF Turns, streamVars, OutputTypeOK
  <2> QED BY <2>1, <2>2, <2>3 DEF TakeTurn
<1>6. Hole' = Hole /\ step'[1] # "shift" BY <1>2 DEF TakeTurn, Hole
<1>7. HoldsBack' /\ Writes' /\ Sliced' /\ LinesWhole' BY <1>2, <1>6, RestKept DEF streamVars
<1> QED BY <1>4, <1>5, <1>7 DEF OutputInv

LEMMA InvReopen == ASSUME OutputInv, Reopen PROVE OutputInv'
<1>1. OutputTypeOK /\ Turns BY DEF OutputInv
<1>2. /\ holder # "none" /\ step[1] = "open" /\ step' = <<"write", 0>>
      /\ UNCHANGED <<streamVars, holder, files, written>>
  BY DEF Reopen
<1>3. \/ Works /\ opened' = TRUE /\ size' = Len(files[0])
      \/ Fails /\ UNCHANGED <<opened, size>>
  BY DEF Reopen
<1>4. failures' \in 0 .. MaxFailures /\ (failures' = 0 => failures = 0 /\ opened')
  BY <1>1, <1>3, OutputAssumption DEF OutputTypeOK, Fails, Works
<1>5. OutputTypeOK'
  <2>1. opened' \in BOOLEAN /\ size' \in Nat BY <1>1, <1>3, Typing DEF OutputTypeOK
  <2>2. step' \in {"write", "remove", "shift", "open"} \X (0 .. Backups) BY <1>2, OutputAssumption
  <2> QED BY <1>1, <1>2, <1>4, <2>1, <2>2 DEF OutputTypeOK, streamVars, Unit
<1>6. Turns' BY <1>1, <1>2, <1>3, <1>4 DEF Turns, streamVars
<1>7. Hole' = Hole /\ step'[1] # "shift" BY <1>2 DEF Hole
<1>8. HoldsBack' /\ Writes' /\ Sliced' /\ LinesWhole' BY <1>2, <1>4, <1>7, RestKept DEF streamVars
<1> QED BY <1>5, <1>6, <1>8 DEF OutputInv

\* Slices of files of which generation k went to k + 1.
LEMMA MovedSlices ==
  ASSUME OutputInv, NEW lo \in [0 .. Backups -> Nat], NEW hi \in [0 .. Backups -> Nat],
         IsSlices(lo, hi), InOrder(lo, hi), NEW k \in 0 .. Backups - 1,
         files[k] # <<>>, files[0] # <<>>,
         failures = 0 => files[k + 1] = <<>>,
         files' = [files EXCEPT ![k + 1] = files[k], ![k] = <<>>], UNCHANGED <<written, failures>>
  PROVE  LET l == [lo EXCEPT ![k + 1] = lo[k], ![k] = hi[k]]
             h == [hi EXCEPT ![k + 1] = hi[k]]
         IN  /\ l \in [0 .. Backups -> Nat] /\ h \in [0 .. Backups -> Nat]
             /\ IsSlices(l, h)' /\ InOrder(l, h)'
<1> DEFINE l == [lo EXCEPT ![k + 1] = lo[k], ![k] = hi[k]]
           h == [hi EXCEPT ![k + 1] = hi[k]]
<1>1. OutputTypeOK BY DEF OutputInv
<1>2. Backups \in Nat \ {0} /\ k \in 0 .. Backups /\ k + 1 \in 0 .. Backups /\ 0 \in 0 .. Backups
  BY OutputAssumption
<1>3. /\ l \in [0 .. Backups -> Nat] /\ h \in [0 .. Backups -> Nat]
      /\ l[k + 1] = lo[k] /\ l[k] = hi[k] /\ h[k + 1] = hi[k]
      /\ \A g \in 0 .. Backups : g # k /\ g # k + 1 => l[g] = lo[g]
      /\ \A g \in 0 .. Backups : g # k + 1 => h[g] = hi[g]
  BY <1>2
<1>4. /\ files'[k + 1] = files[k] /\ files'[k] = <<>>
      /\ \A g \in 0 .. Backups : g # k /\ g # k + 1 => files'[g] = files[g]
  <2>1. k # k + 1 /\ DOMAIN files = 0 .. Backups BY <1>1, <1>2 DEF OutputTypeOK
  <2>2. files'[k + 1] = files[k] BY <1>2, <2>1
  <2>3. files'[k] = <<>> BY <1>2, <2>1
  <2>4. ASSUME NEW g \in 0 .. Backups, g # k, g # k + 1 PROVE files'[g] = files[g] BY <2>1, <2>4
  <2> QED BY <2>2, <2>3, <2>4
<1> HIDE DEF l, h
<1>5. IsSlices(l, h)'
  <2>1. ASSUME NEW g \in 0 .. Backups
        PROVE  /\ l[g] \in Nat /\ h[g] \in Nat /\ l[g] <= h[g] /\ h[g] <= Len(written)
               /\ Len(files'[g]) = h[g] - l[g]
               /\ \A i \in 1 .. Len(files'[g]) : files'[g][i] = written[l[g] + i]
    <3>1. CASE g = k
      <4>1. hi[k] \in Nat /\ hi[k] <= Len(written) BY <1>2 DEF IsSlices
      <4>2. Len(files'[g]) = 0 BY <1>4, <3>1
      <4>3. l[g] = hi[k] /\ h[g] = hi[k] BY <1>2, <1>3, <3>1
      <4>4. hi[k] <= hi[k] /\ hi[k] - hi[k] = 0 BY <4>1
      <4>5. \A i \in 1 .. Len(files'[g]) : FALSE BY <4>2
      <4> QED BY <4>1, <4>2, <4>3, <4>4, <4>5
    <3>2. CASE g = k + 1
      <4>1. /\ lo[k] \in Nat /\ hi[k] \in Nat /\ lo[k] <= hi[k] /\ hi[k] <= Len(written)
            /\ Len(files[k]) = hi[k] - lo[k]
            /\ \A i \in 1 .. Len(files[k]) : files[k][i] = written[lo[k] + i]
        BY <1>2 DEF IsSlices
      <4>2. l[g] = lo[k] /\ h[g] = hi[k] /\ files'[g] = files[k] BY <1>3, <1>4, <3>2
      <4> QED BY <4>1, <4>2
    <3>3. CASE g # k /\ g # k + 1
      <4>1. /\ lo[g] \in Nat /\ hi[g] \in Nat /\ lo[g] <= hi[g] /\ hi[g] <= Len(written)
            /\ Len(files[g]) = hi[g] - lo[g]
            /\ \A i \in 1 .. Len(files[g]) : files[g][i] = written[lo[g] + i]
        BY DEF IsSlices
      <4>2. l[g] = lo[g] /\ h[g] = hi[g] /\ files'[g] = files[g] BY <1>3, <1>4, <3>3
      <4> QED BY <4>1, <4>2
    <3> QED BY <3>1, <3>2, <3>3
  <2>2. \A g \in 0 .. Backups :
          /\ l[g] \in Nat /\ h[g] \in Nat /\ l[g] <= h[g] /\ h[g] <= Len(written')
          /\ Len(files'[g]) = h[g] - l[g]
          /\ \A i \in 1 .. Len(files'[g]) : files'[g][i] = written'[l[g] + i]
    <3>1. written' = written OBVIOUS
    <3> QED BY <2>1, <3>1, Zenon
  <2> QED BY <2>2, Zenon DEF IsSlices
<1>6. InOrder(l, h)'
  <2>1. h[0] = Len(written)
    <3>1. 0 # k + 1 BY <1>2
    <3> QED BY <1>2, <1>3, <3>1 DEF InOrder
  <2>2. ASSUME NEW g \in 0 .. Backups - 1
        PROVE  h[g + 1] <= l[g] /\ (failures = 0 => h[g + 1] = l[g])
    <3>1. g \in 0 .. Backups /\ g + 1 \in 0 .. Backups /\ g \in Nat BY <1>2
    <3>2. hi[g + 1] <= lo[g] /\ (failures = 0 => hi[g + 1] = lo[g]) BY DEF InOrder
    <3>3. CASE g = k
      <4>1. h[g + 1] = hi[k] /\ l[g] = hi[k] /\ hi[k] \in Nat BY <1>2, <1>3, <3>3
      <4> QED BY <4>1
    <3>4. CASE g = k + 1
      <4>1. h[g + 1] = hi[g + 1] /\ l[g] = lo[k] BY <1>2, <1>3, <3>1, <3>4
      <4>2. /\ hi[k + 1] <= lo[k] /\ (failures = 0 => hi[k + 1] = lo[k])
            /\ lo[k + 1] <= hi[k + 1] /\ Len(files[k + 1]) = hi[k + 1] - lo[k + 1]
            /\ hi[g + 1] \in Nat /\ lo[k] \in Nat /\ hi[k + 1] \in Nat /\ lo[k + 1] \in Nat
        BY <1>2, <3>1 DEF InOrder, IsSlices
      <4>3. failures = 0 => Len(files[k + 1]) = 0 OBVIOUS
      <4> QED BY <3>2, <3>4, <4>1, <4>2, <4>3
    <3>5. CASE g # k /\ g # k + 1
      <4>1. h[g + 1] = hi[g + 1] /\ l[g] = lo[g] BY <1>2, <1>3, <3>1, <3>5
      <4> QED BY <3>2, <4>1
    <3> QED BY <3>3, <3>4, <3>5
  <2>3. written # <<>> /\ files'[0] = <<>> => files'[1] # <<>> /\ h[1] = l[0]
    <3>1. CASE k = 0
      <4>1. files'[1] = files[0] /\ h[1] = hi[0] /\ l[0] = hi[0] BY <1>3, <1>4, <3>1
      <4> QED BY <4>1
    <3>2. CASE k # 0
      <4>1. 0 # k + 1 BY <1>2
      <4>2. files'[0] = files[0] BY <1>2, <1>4, <3>2, <4>1
      <4> QED BY <4>2
    <3> QED BY <3>1, <3>2
  <2> QED BY <2>1, <2>2, <2>3 DEF InOrder
<1> QED BY <1>3, <1>5, <1>6 DEF l, h

LEMMA NoUnits == Whole(<<>>)
BY DEF Whole

\* What each action of a rotation leaves alone.
LEMMA RotationFrame ==
  ASSUME OutputInv, holder # "none", step[1] # "write", UNCHANGED <<streamVars, holder, opened, size, written>>,
         Works \/ Fails, step' \in {"shift", "open"} \X (0 .. Backups),
         files' \in [0 .. Backups -> Seq(Unit)], files'[0] # <<>> \/ step'[1] = "open",
         step'[1] = "shift" => step'[2] < Backups,
         \A g \in 0 .. Backups : files'[g] = <<>> \/ \E j \in 0 .. Backups : files'[g] = files[j]
  PROVE  /\ OutputTypeOK' /\ HoldsBack' /\ Writes' /\ Turns' /\ LinesWhole'
         /\ failures' = 0 => failures = 0 /\ Works
         /\ Unhurt' => Unhurt
<1>1. OutputTypeOK /\ HoldsBack /\ Writes /\ Turns /\ LinesWhole BY DEF OutputInv
<1>2. failures' \in 0 .. MaxFailures /\ (failures' = 0 => failures = 0 /\ Works)
  <2>1. failures \in 0 .. MaxFailures /\ MaxFailures \in Nat BY <1>1, OutputAssumption DEF OutputTypeOK
  <2>2. CASE Works BY <2>1, <2>2 DEF Works
  <2>3. CASE Fails BY <2>1, <2>3 DEF Fails
  <2> QED BY <2>2, <2>3
<1>3. step'[1] \in {"shift", "open"} OBVIOUS
<1>4. OutputTypeOK'
  <2>1. step' \in {"write", "remove", "shift", "open"} \X (0 .. Backups) OBVIOUS
  <2> QED BY <1>1, <1>2, <2>1 DEF OutputTypeOK, streamVars, Unit
<1>5. HoldsBack' BY <1>1, StreamsKept DEF streamVars
<1>6. Writes' BY <1>1, <1>2, WritesKept DEF streamVars
<1>7. Turns' BY <1>1, <1>3 DEF Turns, streamVars
<1>8. LinesWhole'
  <2>1. ASSUME NEW g \in 0 .. Backups PROVE Whole(files'[g])
    <3>1. \A j \in 0 .. Backups : Whole(files[j]) BY <1>1 DEF LinesWhole
    <3> QED BY <3>1, NoUnits
  <2> QED BY <2>1 DEF LinesWhole, Whole, Follows
<1>9. Unhurt' => Unhurt BY <1>2 DEF Unhurt, streamVars
<1> QED BY <1>2, <1>4, <1>5, <1>6, <1>7, <1>8, <1>9

LEMMA InvRemoveOldest == ASSUME OutputInv, RemoveOldest PROVE OutputInv'
<1> DEFINE B == Backups
<1>1. OutputTypeOK /\ Turns /\ Sliced BY DEF OutputInv
<1>2. /\ holder # "none" /\ step[1] = "remove" /\ step' = <<"shift", B - 1>>
      /\ UNCHANGED <<streamVars, holder, opened, size, written>>
  BY DEF RemoveOldest
<1>3. \/ Works /\ files' = [files EXCEPT ![B] = <<>>]
      \/ Fails /\ files' = files
  BY DEF RemoveOldest
<1>4. B \in Nat \ {0} /\ B - 1 \in 0 .. B /\ 0 \in 0 .. B /\ 0 # B /\ B \in 0 .. B BY OutputAssumption
<1>5. /\ \A g \in 0 .. B : g # B => files'[g] = files[g]
      /\ files' \in [0 .. B -> Seq(Unit)] /\ files'[B] \in {<<>>, files[B]}
  <2>1. files \in [0 .. B -> Seq(Unit)] /\ <<>> \in Seq(Unit) BY <1>1 DEF OutputTypeOK
  <2>2. CASE files' = files BY <2>1, <2>2
  <2>3. CASE files' = [files EXCEPT ![B] = <<>>] BY <1>4, <2>1, <2>3
  <2> QED BY <1>3, <2>2, <2>3
<1>6. files[0] # <<>> /\ files'[0] = files[0] BY <1>1, <1>2, <1>4, <1>5 DEF Turns
<1>7. step' \in {"shift", "open"} \X (0 .. B) /\ step'[1] = "shift" /\ step'[2] = B - 1 /\ Hole' = B
  BY <1>2, <1>4 DEF Hole
<1>8. /\ OutputTypeOK' /\ HoldsBack' /\ Writes' /\ Turns' /\ LinesWhole'
      /\ (failures' = 0 => failures = 0 /\ Works) /\ (Unhurt' => Unhurt)
  <2>1. \A g \in 0 .. B : files'[g] = <<>> \/ \E j \in 0 .. B : files'[g] = files[j] BY <1>4, <1>5
  <2>2. step'[2] < Backups BY <1>4, <1>7
  <2> QED BY <1>2, <1>3, <1>5, <1>6, <1>7, <2>1, <2>2, RotationFrame
<1>9. Sliced'
  <2>1. PICK lo, hi \in [0 .. B -> Nat] : IsSlices(lo, hi) /\ InOrder(lo, hi) /\ Filled(lo)
    BY <1>1 DEF Sliced
  <2>2. CASE Fails /\ files' = files
    <3>1. failures' # 0 /\ failures \in Nat BY <1>1, <2>2, Typing DEF Fails
    <3>2. IsSlices(lo, hi)' BY <1>2, <2>1, <2>2 DEF IsSlices
    <3>3. InOrder(lo, hi)' BY <1>2, <2>1, <2>2, <3>1 DEF InOrder
    <3>4. Filled(lo)' BY <3>1 DEF Filled, Unhurt
    <3> QED BY <3>2, <3>3, <3>4 DEF Sliced
  <2>3. CASE Works /\ files' = [files EXCEPT ![B] = <<>>]
    <3> DEFINE l == [lo EXCEPT ![B] = hi[B]]
    <3>1. /\ l \in [0 .. B -> Nat] /\ l[B] = hi[B] /\ files'[B] = <<>> /\ failures' = failures
          /\ \A g \in 0 .. B : g # B => l[g] = lo[g]
      BY <1>1, <1>4, <2>3 DEF Works, OutputTypeOK
    <3> HIDE DEF l
    <3>2. IsSlices(l, hi)'
      <4>1. ASSUME NEW g \in 0 .. B
            PROVE  /\ l[g] \in Nat /\ hi[g] \in Nat /\ l[g] <= hi[g] /\ hi[g] <= Len(written)
                   /\ Len(files'[g]) = hi[g] - l[g]
                   /\ \A i \in 1 .. Len(files'[g]) : files'[g][i] = written[l[g] + i]
        <5>1. CASE g = B
          <6>1. Len(files'[g]) = 0 /\ hi[g] \in Nat /\ hi[g] <= Len(written)
            BY <2>1, <3>1, <5>1 DEF IsSlices
          <6> QED BY <3>1, <5>1, <6>1
        <5>2. CASE g # B BY <1>5, <2>1, <3>1, <5>2 DEF IsSlices
        <5> QED BY <5>1, <5>2
      <4> QED BY <1>2, <4>1 DEF IsSlices
    <3>3. InOrder(l, hi)'
      <4>1. \A g \in 0 .. B - 1 : g \in 0 .. B /\ g # B BY <1>4
      <4> QED BY <1>2, <1>6, <2>1, <3>1, <4>1 DEF InOrder
    <3>4. Filled(l)'
      <4>1. ASSUME Unhurt'
            PROVE  /\ l[B] = 0 \/ \A g \in (1 .. B) \ {B} : files'[g] # <<>>
                   /\ \A g, h \in 1 .. B : g < h /\ g # B /\ files'[h] # <<>> => files'[g] # <<>>
        <5>1. Hole = 0 /\ Unhurt BY <1>2, <1>8, <4>1 DEF Hole
        <5>2. /\ lo[B] = 0 \/ \A g \in (1 .. B) \ {0} : files[g] # <<>>
              /\ \A g, h \in 1 .. B : g < h /\ g # 0 /\ files[h] # <<>> => files[g] # <<>>
          BY <2>1, <5>1 DEF Filled
        <5>3. B \in 1 .. B /\ \A g \in 1 .. B : g # 0 /\ g \in 0 .. B /\ (g # B => g < B) BY <1>4
        <5>4. CASE files[B] = <<>>
          <6>1. Len(files[B]) = 0 /\ Len(files[B]) = hi[B] - lo[B] /\ hi[B] \in Nat /\ lo[B] \in Nat
            BY <1>4, <2>1, <5>4 DEF IsSlices
          <6>2. lo[B] = 0 BY <5>2, <5>3, <5>4
          <6>3. l[B] = 0 BY <3>1, <6>1, <6>2
          <6> QED BY <1>5, <3>1, <5>2, <5>3, <6>3
        <5>5. CASE files[B] # <<>> BY <1>5, <3>1, <5>2, <5>3, <5>5
        <5> QED BY <5>4, <5>5
      <4> QED BY <1>7, <3>1, <4>1 DEF Filled
    <3> QED BY <3>1, <3>2, <3>3, <3>4 DEF Sliced
  <2> QED BY <1>3, <2>2, <2>3
<1> QED BY <1>8, <1>9 DEF OutputInv

\* Which generations are free once generation k has moved to the free one after it.
LEMMA MovedFilled ==
  ASSUME OutputInv, NEW lo \in [0 .. Backups -> Nat], NEW hi \in [0 .. Backups -> Nat],
         IsSlices(lo, hi), InOrder(lo, hi), Filled(lo), NEW k \in 0 .. Backups - 1,
         step[1] = "shift", step[2] = k, Unhurt, files[k] # <<>>,
         NEW l \in [0 .. Backups -> Nat],
         l[k + 1] = lo[k], \A g \in 0 .. Backups : g # k /\ g # k + 1 => l[g] = lo[g],
         files'[k + 1] = files[k], files'[k] = <<>>,
         \A g \in 0 .. Backups : g # k /\ g # k + 1 => files'[g] = files[g]
  PROVE  /\ l[Backups] = 0 \/ \A g \in (1 .. Backups) \ {k} : files'[g] # <<>>
         /\ \A g, h \in 1 .. Backups : g < h /\ g # k /\ files'[h] # <<>> => files'[g] # <<>>
<1> DEFINE B == Backups
<1>1. /\ B \in Nat \ {0} /\ B \in 0 .. B /\ k \in Nat /\ k \in 0 .. B /\ k + 1 \in 1 .. B
      /\ k + 1 \in 0 .. B /\ \A g \in 1 .. B : g \in 0 .. B /\ g \in Nat
  BY OutputAssumption
<1>2. /\ files[k + 1] = <<>>
      /\ lo[B] = 0 \/ \A g \in (1 .. B) \ {k + 1} : files[g] # <<>>
      /\ \A g, h \in 1 .. B : g < h /\ g # k + 1 /\ files[h] # <<>> => files[g] # <<>>
  BY DEF Filled, Hole, Unhurt
<1>3. l[B] = 0 \/ \A g \in (1 .. B) \ {k} : files'[g] # <<>>
  <2>1. CASE lo[B] = 0 /\ k + 1 = B
    <3>1. /\ hi[k + 1] = lo[k] /\ Len(files[B]) = hi[B] - lo[B] /\ hi[B] \in Nat
      BY <1>1 DEF InOrder, IsSlices, Unhurt
    <3>2. Len(files[B]) = 0 BY <1>2, <2>1
    <3>3. hi[B] = 0 BY <2>1, <3>1, <3>2
    <3> QED BY <2>1, <3>1, <3>3
  <2>2. CASE lo[B] = 0 /\ k + 1 # B
    <3>1. B # k BY <1>1
    <3> QED BY <1>1, <2>2, <3>1
  <2>3. CASE \A g \in (1 .. B) \ {k + 1} : files[g] # <<>>
    <3>1. ASSUME NEW g \in 1 .. B, g # k PROVE files'[g] # <<>>
      <4>1. CASE g = k + 1 BY <4>1
      <4>2. CASE g # k + 1
        <5>1. g \in 0 .. B /\ files[g] # <<>> BY <1>1, <2>3, <4>2
        <5>2. files'[g] = files[g] BY <3>1, <4>2, <5>1
        <5> QED BY <5>1, <5>2
      <4> QED BY <4>1, <4>2
    <3> QED BY <3>1
  <2> QED BY <1>2, <2>1, <2>2, <2>3
<1>4. ASSUME NEW g \in 1 .. B, NEW h \in 1 .. B, g < h, g # k, files'[h] # <<>> PROVE files'[g] # <<>>
  <2>1. CASE g = k + 1 BY <2>1
  <2>2. CASE g # k + 1 /\ h = k + 1
    <3>1. k \in 1 .. B /\ g < k BY <1>1, <1>4, <2>2
    <3>2. files[g] # <<>> BY <1>2, <2>2, <3>1
    <3> QED BY <1>1, <1>4, <2>2, <3>2
  <2>3. CASE g # k + 1 /\ h # k + 1
    <3>1. h # k BY <1>4
    <3>2. files'[h] = files[h] /\ files'[g] = files[g] BY <1>1, <1>4, <2>3, <3>1
    <3> QED BY <1>2, <1>4, <2>3, <3>2
  <2> QED BY <2>1, <2>2, <2>3
<1> QED BY <1>3, <1>4

\* The same when there is nothing to move.
LEMMA SkippedFilled ==
  ASSUME OutputTypeOK, NEW lo, Filled(lo), NEW k \in 1 .. Backups - 1,
         step[1] = "shift", step[2] = k, Unhurt, files[k] = <<>>
  PROVE  /\ lo[Backups] = 0
         /\ \A g, h \in 1 .. Backups : g < h /\ g # k /\ files[h] # <<>> => files[g] # <<>>
<1> DEFINE B == Backups
<1>1. /\ B \in Nat \ {0} /\ k \in 1 .. B /\ k + 1 \in 1 .. B /\ k # k + 1
      /\ \A g \in 1 .. B : g \in Nat
  BY OutputAssumption
<1>2. /\ lo[B] = 0 \/ \A g \in (1 .. B) \ {k + 1} : files[g] # <<>>
      /\ \A g, h \in 1 .. B : g < h /\ g # k + 1 /\ files[h] # <<>> => files[g] # <<>>
  BY DEF Filled, Hole, Unhurt
<1>3. lo[B] = 0 BY <1>1, <1>2
<1>4. ASSUME NEW g \in 1 .. B, NEW h \in 1 .. B, g < h, g # k, files[h] # <<>> PROVE files[g] # <<>>
  <2>1. CASE g = k + 1
    <3>1. k < h BY <1>1, <1>4, <2>1
    <3> QED BY <1>1, <1>2, <1>4, <3>1
  <2>2. CASE g # k + 1 BY <1>2, <1>4, <2>2
  <2> QED BY <2>1, <2>2
<1> QED BY <1>3, <1>4

LEMMA InvRename == ASSUME OutputInv, Rename PROVE OutputInv'
<1> DEFINE B == Backups
<1>1. OutputTypeOK /\ Turns /\ Sliced BY DEF OutputInv
<1>0. PICK k \in Nat : k = step[2] BY <1>1, Typing
<1>2. /\ holder # "none" /\ step[1] = "shift" /\ step' = Turned(k)
      /\ UNCHANGED <<streamVars, holder, opened, size, written>>
  BY <1>0 DEF Rename
<1>3. \/ Works /\ ~(k > 0 /\ files[k] = <<>>)
         /\ files' = [files EXCEPT ![k + 1] = files[k], ![k] = <<>>]
      \/ (Fails \/ (Works /\ k > 0 /\ files[k] = <<>>)) /\ files' = files
  BY <1>0 DEF Rename, Moved
<1>4. /\ B \in Nat \ {0} /\ 0 \in 0 .. B /\ k \in Nat /\ k < B /\ k \in 0 .. B - 1
      /\ k \in 0 .. B /\ k + 1 \in 0 .. B
      /\ (k # 0 => k - 1 \in 0 .. B /\ k - 1 < B /\ k \in 1 .. B - 1 /\ (k - 1) + 1 = k)
  BY <1>0, <1>1, <1>2, OutputAssumption DEF Turns
<1>5. files[0] # <<>> /\ Hole = k + 1 BY <1>0, <1>1, <1>2 DEF Turns, Hole
<1>6. \/ k = 0 /\ step' = <<"open", 0>> /\ Hole' = 0
      \/ k # 0 /\ step' = <<"shift", k - 1>> /\ Hole' = k
  BY <1>2, <1>4 DEF Turned, Hole
<1>7. /\ OutputTypeOK' /\ HoldsBack' /\ Writes' /\ Turns' /\ LinesWhole'
      /\ (failures' = 0 => failures = 0 /\ Works) /\ (Unhurt' => Unhurt)
  <2>1. files \in [0 .. B -> Seq(Unit)] /\ files[k] \in Seq(Unit) /\ <<>> \in Seq(Unit)
    BY <1>1, <1>4 DEF OutputTypeOK
  <2>2. /\ files' \in [0 .. B -> Seq(Unit)] /\ (k # 0 => files'[0] = files[0])
        /\ \A g \in 0 .. B : files'[g] \in {<<>>, files[k], files[g]}
    <3>1. CASE files' = files BY <2>1, <3>1
    <3>2. CASE files' = [files EXCEPT ![k + 1] = files[k], ![k] = <<>>]
      <4>1. files' \in [0 .. B -> Seq(Unit)] BY <2>1, <3>2
      <4>2. ASSUME NEW g \in 0 .. B PROVE files'[g] \in {<<>>, files[k], files[g]}
        BY <2>1, <3>2
      <4>3. 0 # k + 1 BY <1>4
      <4>4. k # 0 => files'[0] = files[0] BY <1>4, <2>1, <3>2, <4>3
      <4> QED BY <4>1, <4>2, <4>4
    <3> QED BY <1>3, <3>1, <3>2
  <2>3. \A g \in 0 .. B : files'[g] = <<>> \/ \E j \in 0 .. B : files'[g] = files[j] BY <1>4, <2>2
  <2>4. step' \in {"shift", "open"} \X (0 .. B) BY <1>4, <1>6
  <2>5. files'[0] # <<>> \/ step'[1] = "open" BY <1>5, <1>6, <2>2
  <2>6. step'[1] = "shift" => step'[2] < B BY <1>4, <1>6
  <2>7. Works \/ Fails BY <1>3
  <2>8. step[1] # "write" BY <1>2
  <2> QED BY <1>2, <2>2, <2>3, <2>4, <2>5, <2>6, <2>7, <2>8, RotationFrame
<1>8. Sliced'
  <2>1. PICK lo, hi \in [0 .. B -> Nat] : IsSlices(lo, hi) /\ InOrder(lo, hi) /\ Filled(lo)
    BY <1>1 DEF Sliced
  <2>2. CASE (Fails \/ (Works /\ k > 0 /\ files[k] = <<>>)) /\ files' = files
    <3>1. failures' = 0 => k # 0 /\ files[k] = <<>> /\ failures = 0
      <4>1. Fails => failures' # 0 BY <1>1, Typing DEF Fails
      <4> QED BY <1>4, <1>7, <2>2, <4>1
    <3>2. IsSlices(lo, hi)' BY <1>2, <2>1, <2>2 DEF IsSlices
    <3>3. InOrder(lo, hi)' BY <1>2, <2>1, <2>2, <3>1 DEF InOrder
    <3>4. Filled(lo)'
      <4>1. failures' = 0 /\ step'[1] = "shift" => files'[Hole'] = <<>> BY <1>6, <2>2, <3>1
      <4>2. ASSUME Unhurt'
            PROVE  /\ lo[B] = 0
                   /\ \A g, h \in 1 .. B : g < h /\ g # Hole' /\ files[h] # <<>> => files[g] # <<>>
        <5>1. Unhurt /\ k # 0 /\ files[k] = <<>> /\ k \in 1 .. B - 1 /\ Hole' = k
          BY <1>4, <1>6, <1>7, <3>1, <4>2 DEF Unhurt
        <5> QED BY <1>0, <1>1, <1>2, <2>1, <5>1, SkippedFilled
      <4> QED BY <2>2, <4>1, <4>2 DEF Filled
    <3> QED BY <3>2, <3>3, <3>4 DEF Sliced
  <2>3. CASE Works /\ ~(k > 0 /\ files[k] = <<>>)
             /\ files' = [files EXCEPT ![k + 1] = files[k], ![k] = <<>>]
    <3> DEFINE l == [lo EXCEPT ![k + 1] = lo[k], ![k] = hi[k]]  h == [hi EXCEPT ![k + 1] = hi[k]]
    <3>1. files[k] # <<>> /\ failures' = failures /\ written' = written
      BY <1>2, <1>4, <1>5, <2>3 DEF Works
    <3>2. failures = 0 => files[k + 1] = <<>> BY <1>2, <1>5, <2>1 DEF Filled
    <3>3. /\ l \in [0 .. B -> Nat] /\ h \in [0 .. B -> Nat]
          /\ IsSlices(l, h)' /\ InOrder(l, h)'
      BY <1>4, <1>5, <2>1, <2>3, <3>1, <3>2, MovedSlices
    <3>4. k # k + 1 BY <1>4
    <3>5. l[k + 1] = lo[k] /\ \A g \in 0 .. B : g # k /\ g # k + 1 => l[g] = lo[g]
      BY <1>4, <3>4
    <3>6. /\ files'[k + 1] = files[k] /\ files'[k] = <<>>
          /\ \A g \in 0 .. B : g # k /\ g # k + 1 => files'[g] = files[g]
      <4>1. files \in [0 .. B -> Seq(Unit)] BY <1>1 DEF OutputTypeOK
      <4>2. files'[k + 1] = files[k] BY <1>4, <2>3, <3>4, <4>1
      <4>3. files'[k] = <<>> BY <1>4, <2>3, <3>4, <4>1
      <4>4. ASSUME NEW g \in 0 .. B, g # k, g # k + 1 PROVE files'[g] = files[g] BY <2>3, <4>1, <4>4
      <4> QED BY <4>2, <4>3, <4>4
    <3> HIDE DEF l, h
    <3>7. Filled(l)'
      <4>1. failures' = 0 /\ step'[1] = "shift" => files'[Hole'] = <<>> BY <1>6, <3>6
      <4>2. ASSUME Unhurt'
            PROVE  /\ l[B] = 0 \/ \A g \in (1 .. B) \ {Hole'} : files'[g] # <<>>
                   /\ \A g, j \in 1 .. B : g < j /\ g # Hole' /\ files'[j] # <<>> => files'[g] # <<>>
        <5>1. Unhurt /\ Hole' = k BY <1>6, <1>7, <4>2
        <5>2. /\ l[B] = 0 \/ \A g \in (1 .. B) \ {k} : files'[g] # <<>>
              /\ \A g, j \in 1 .. B : g < j /\ g # k /\ files'[j] # <<>> => files'[g] # <<>>
          <6>1. /\ IsSlices(lo, hi) /\ InOrder(lo, hi) /\ Filled(lo) /\ k \in 0 .. B - 1
                /\ step[1] = "shift" /\ step[2] = k /\ Unhurt /\ files[k] # <<>>
            BY <1>0, <1>2, <1>4, <2>1, <3>1, <5>1
          <6>2. l \in [0 .. B -> Nat] BY <3>3
          <6> QED BY <3>5, <3>6, <6>1, <6>2, MovedFilled
        <5> QED BY <5>1, <5>2
      <4> QED BY <4>1, <4>2 DEF Filled
    <3> QED BY <3>3, <3>7 DEF Sliced
  <2> QED BY <1>3, <2>2, <2>3
<1> QED BY <1>7, <1>8 DEF OutputInv

\* The holder gives its piece up, to the file or to nobody.
LEMMA PieceGone ==
  ASSUME OutputInv, WritePiece
  PROVE  /\ holder \in Streams /\ phase[holder] \in Active /\ step[1] = "write" /\ Hole = 0
         /\ piece[holder] \in Seq(Unit) /\ Len(piece[holder]) \in Nat \ {0}
         /\ \A t \in Streams : Gone(t)' = IF t = holder THEN Gone(t) + Len(piece[t]) ELSE Gone(t)
         /\ HoldsBack' /\ (~opened => failures # 0)
<1>1. OutputTypeOK /\ HoldsBack /\ Turns BY DEF OutputInv
<1>2. /\ holder # "none" /\ step[1] = "write" /\ piece' = [piece EXCEPT ![holder] = <<>>]
      /\ UNCHANGED <<sent, pending, phase, refs, step, opened, failures>>
  BY DEF WritePiece
<1>3. holder \in Streams /\ phase[holder] \in Active BY <1>2, HolderActive
<1>4. PICK w \in Streams : w = holder BY <1>3
<1>5. piece[w] \in Seq(Unit) /\ Len(piece[w]) \in Nat \ {0}
  <2>1. piece[w] # <<>> /\ piece[w] \in Seq(Unit) BY <1>1, <1>2, <1>4, Typing DEF Turns
  <2> QED BY <2>1
<1>6. piece'[w] = <<>> /\ \A t \in Streams \ {w} : piece'[t] = piece[t]
  BY <1>1, <1>2, <1>4 DEF OutputTypeOK
<1>7. Gone(w)' = Gone(w) + Len(piece[w])
  <2>1. Gone(w)' = sent[w] - Len(pending[w]) - Len(piece'[w]) BY <1>2 DEF Gone
  <2>2. Gone(w) = sent[w] - Len(pending[w]) - Len(piece[w]) BY DEF Gone
  <2>3. sent[w] \in Nat /\ Len(pending[w]) \in Nat /\ Len(piece[w]) \in Nat BY <1>1, Typing
  <2>4. Len(piece'[w]) = 0 BY <1>6
  <2> QED BY <2>1, <2>2, <2>3, <2>4
<1>8. \A t \in Streams \ {w} : Gone(t)' = Gone(t) BY <1>2, <1>6 DEF Gone
<1>9. HoldsBack'
  <2>1. ASSUME NEW t \in Streams
        PROVE  /\ Gone(t)' \in Nat
               /\ Continues(piece'[t], t, Gone(t)') /\ Whole(piece'[t])
               /\ Continues(pending[t], t, Gone(t)' + Len(piece'[t])) /\ NoEnd(pending[t])
               /\ phase[t] \notin Active => piece'[t] = <<>>
               /\ phase[t] # "read" => pending[t] = <<>>
               /\ phase[t] = "off" => sent[t] = 0
    <3>1. CASE t = w
      <4>1. Gone(w) \in Nat /\ Gone(w)' \in Nat /\ Gone(w)' + Len(piece'[w]) = Gone(w) + Len(piece[w])
        <5>1. Gone(w) \in Nat BY <1>1 DEF HoldsBack
        <5>2. Len(piece'[w]) = 0 BY <1>6
        <5> QED BY <1>5, <1>7, <5>1, <5>2
      <4>2. Continues(piece'[w], w, Gone(w)') /\ Whole(piece'[w]) BY <1>6, NoUnits DEF Continues
      <4>3. Continues(pending[w], w, Gone(w)' + Len(piece'[w])) BY <1>1, <4>1 DEF HoldsBack
      <4> QED BY <1>1, <1>6, <3>1, <4>1, <4>2, <4>3 DEF HoldsBack
    <3>2. CASE t # w BY <1>1, <1>6, <1>8, <3>2 DEF HoldsBack
    <3> QED BY <3>1, <3>2
  <2> QED BY <1>2, <2>1 DEF HoldsBack, Continues, NoEnd, Whole, Follows
<1>10. ~opened => failures # 0
  <2>1. RunOf[w] \in refs BY <1>1, <1>3, <1>4 DEF Turns
  <2> QED BY <1>1, <1>2, <2>1 DEF Turns
<1> QED BY <1>2, <1>3, <1>4, <1>5, <1>7, <1>8, <1>9, <1>10 DEF Hole

\* A unit of written \o p is one of written or one of p.
LEMMA Appended ==
  ASSUME NEW a \in Seq(Unit), NEW p \in Seq(Unit)
  PROVE  /\ a \o p \in Seq(Unit) /\ Len(a \o p) = Len(a) + Len(p)
         /\ Len(a) \in Nat /\ Len(p) \in Nat
         /\ \A i \in 1 .. Len(a) : (a \o p)[i] = a[i]
         /\ \A i \in 1 .. Len(p) : (a \o p)[Len(a) + i] = p[i]
         /\ \A i \in 1 .. Len(a \o p) :
              i \in 1 .. Len(a) \/ \E j \in 1 .. Len(p) : i = Len(a) + j
<1>1. /\ a \o p \in Seq(Unit) /\ Len(a \o p) = Len(a) + Len(p)
      /\ Len(a) \in Nat /\ Len(p) \in Nat
      /\ \A i \in 1 .. Len(a) : (a \o p)[i] = a[i]
      /\ \A i \in 1 .. Len(p) : (a \o p)[Len(a) + i] = p[i]
  OBVIOUS
<1>2. ASSUME NEW i \in 1 .. Len(a \o p), i \notin 1 .. Len(a)
      PROVE  \E j \in 1 .. Len(p) : i = Len(a) + j
  <2>1. i - Len(a) \in 1 .. Len(p) /\ i = Len(a) + (i - Len(a)) BY <1>1, <1>2
  <2> QED BY <2>1
<1> QED BY <1>1, <1>2

\* A piece that continues its stream leaves what is written in order.
LEMMA WritesMore ==
  ASSUME OutputInv, WritePiece, opened PROVE Writes'
<1> DEFINE W == written  L == Len(written)
<1>1. OutputTypeOK /\ HoldsBack /\ Writes BY DEF OutputInv
<1>2. PICK w \in Streams, p \in Seq(Unit) : w = holder /\ p = piece[holder] BY PieceGone
<1>3. /\ \A t \in Streams : Gone(t) \in Nat /\ Gone(t)' \in Nat /\ Gone(t) <= Gone(t)'
      /\ Gone(w)' = Gone(w) + Len(p) /\ \A t \in Streams \ {w} : Gone(t)' = Gone(t)
      /\ Continues(p, w, Gone(w)) /\ Len(p) \in Nat
  <2>1. \A t \in Streams : Gone(t)' = IF t = w THEN Gone(t) + Len(p) ELSE Gone(t)
    BY <1>2, PieceGone
  <2>2. /\ \A t \in Streams : Gone(t) \in Nat
        /\ Continues(p, w, Gone(w)) /\ Len(p) \in Nat
    BY <1>1, <1>2, Typing DEF HoldsBack
  <2> QED BY <2>1, <2>2
<1>4. written' = W \o p /\ UNCHANGED <<phase, failures>> BY <1>2 DEF WritePiece
<1>5. /\ Len(written') = L + Len(p) /\ L \in Nat
      /\ \A i \in 1 .. L : written'[i] = W[i] /\ W[i] \in Unit /\ W[i].stream \in Streams /\ W[i].n \in Nat
      /\ \A i \in 1 .. Len(p) : written'[L + i] = p[i]
      /\ \A i \in 1 .. Len(written') : i \in 1 .. L \/ \E j \in 1 .. Len(p) : i = L + j
  <2>1. W \in Seq(Unit) BY <1>1 DEF OutputTypeOK
  <2> QED BY <1>1, <1>4, <2>1, Appended, Typing
<1>6. \A j \in 1 .. Len(p) : /\ written'[L + j].stream = w /\ written'[L + j].n = Gone(w) + j
                             /\ j \in Nat \ {0} /\ j <= Len(p)
  <2>1. ASSUME NEW j \in 1 .. Len(p)
        PROVE  /\ written'[L + j].stream = w /\ written'[L + j].n = Gone(w) + j
               /\ j \in Nat \ {0} /\ j <= Len(p)
    <3>1. p[j].stream = w /\ p[j].n = Gone(w) + j BY <1>3 DEF Continues
    <3> QED BY <1>3, <1>5, <3>1
  <2> QED BY <2>1
<1>7. PICK new \in [Streams -> Nat] : \A t \in Streams : Gone(t)' = new[t] /\ Gone(t) <= new[t]
  <2> DEFINE new == [t \in Streams |-> Gone(t)']
  <2>1. new \in [Streams -> Nat] /\ \A t \in Streams : Gone(t)' = new[t] /\ Gone(t) <= new[t]
    BY <1>3
  <2> QED BY <2>1
<1>8. ASSUME NEW i \in 1 .. Len(written') PROVE written'[i].n <= new[written'[i].stream]
  <2>1. CASE i \in 1 .. L
    <3>1. W[i].n <= Gone(W[i].stream) BY <1>1, <2>1 DEF Writes
    <3>2. written'[i] = W[i] /\ W[i].stream \in Streams /\ W[i].n \in Nat BY <1>5, <2>1
    <3>3. Gone(W[i].stream) <= new[W[i].stream] /\ Gone(W[i].stream) \in Nat /\ new[W[i].stream] \in Nat
      BY <1>3, <1>7, <3>2
    <3> QED BY <3>1, <3>2, <3>3
  <2>2. CASE \E j \in 1 .. Len(p) : i = L + j
    <3>1. PICK j \in 1 .. Len(p) : i = L + j BY <2>2
    <3>2. new[w] = Gone(w) + Len(p) /\ Gone(w) \in Nat BY <1>3, <1>7
    <3>3. written'[i].stream = w /\ written'[i].n = Gone(w) + j BY <1>6, <3>1
    <3> QED BY <1>3, <3>1, <3>2, <3>3
  <2> QED BY <1>5, <2>1, <2>2
<1>9. ASSUME NEW i \in 1 .. Len(written'), NEW j \in 1 .. Len(written'), i < j,
             written'[i].stream = written'[j].stream
      PROVE  written'[i].n < written'[j].n
  <2>1. CASE i \in 1 .. L /\ j \in 1 .. L
    <3>1. written'[i] = W[i] /\ written'[j] = W[j] BY <1>5, <2>1
    <3> QED BY <1>1, <1>9, <2>1, <3>1 DEF Writes
  <2>2. CASE i \in 1 .. L /\ \E b \in 1 .. Len(p) : j = L + b
    <3>1. PICK b \in 1 .. Len(p) : j = L + b BY <2>2
    <3>2. written'[j].stream = w /\ written'[j].n = Gone(w) + b /\ b \in Nat \ {0} BY <1>6, <3>1
    <3>3. W[i].n <= Gone(W[i].stream) BY <1>1, <2>2 DEF Writes
    <3>4. written'[i] = W[i] /\ W[i].n \in Nat /\ W[i].stream = w BY <1>5, <1>9, <2>2, <3>2
    <3> QED BY <1>3, <3>2, <3>3, <3>4
  <2>3. CASE (\E a \in 1 .. Len(p) : i = L + a) /\ (\E b \in 1 .. Len(p) : j = L + b)
    <3>1. PICK a \in 1 .. Len(p) : i = L + a BY <2>3
    <3>2. PICK b \in 1 .. Len(p) : j = L + b BY <2>3
    <3>3. a < b BY <1>5, <1>9, <3>1, <3>2
    <3> QED BY <1>3, <1>6, <3>1, <3>2, <3>3
  <2>4. ~((\E a \in 1 .. Len(p) : i = L + a) /\ j \in 1 .. L) BY <1>5, <1>9
  <2> QED BY <1>5, <2>1, <2>2, <2>3, <2>4
<1>10. ASSUME failures' = 0, NEW s \in Streams, phase'[s] \in Active \cup {"closed"},
              NEW n \in 1 .. Gone(s)'
       PROVE  \E i \in 1 .. Len(written') : written'[i].stream = s /\ written'[i].n = n
  <2>1. CASE n \in 1 .. Gone(s)
    <3>1. PICK i \in 1 .. L : W[i].stream = s /\ W[i].n = n BY <1>1, <1>4, <1>10, <2>1 DEF Writes
    <3>2. i \in 1 .. Len(written') /\ written'[i] = W[i] BY <1>3, <1>5
    <3> QED BY <3>1, <3>2
  <2>2. CASE n \notin 1 .. Gone(s)
    <3>1. s = w BY <1>3, <2>2
    <3> DEFINE j == n - Gone(w)
    <3>2. j \in 1 .. Len(p) /\ n = Gone(w) + j BY <1>3, <2>2, <3>1
    <3> HIDE DEF j
    <3>3. L + j \in 1 .. Len(written') BY <1>3, <1>5, <3>2
    <3> QED BY <1>6, <3>1, <3>2, <3>3
  <2> QED BY <2>1, <2>2
<1>11. \A i \in 1 .. Len(written') : written'[i].stream \in Streams
  <2>1. ASSUME NEW i \in 1 .. Len(written') PROVE written'[i].stream \in Streams
    <3>1. CASE i \in 1 .. L BY <1>5, <3>1
    <3>2. CASE \E j \in 1 .. Len(p) : i = L + j BY <1>6, <3>2
    <3> QED BY <1>5, <3>1, <3>2
  <2> QED BY <2>1
<1>12. \A i \in 1 .. Len(written') :
         written'[i].n <= sent'[written'[i].stream] - Len(pending'[written'[i].stream])
                                                    - Len(piece'[written'[i].stream])
  BY <1>7, <1>8, <1>11 DEF Gone
<1> QED BY <1>9, <1>10, <1>12 DEF Writes, Gone

\* What is appended to the file is the end of what was written.
LEMMA SlicesGrow ==
  ASSUME OutputTypeOK, Turns, Sliced, NEW p \in Seq(Unit), p # <<>>, step[1] = "write",
         files' = [files EXCEPT ![0] = @ \o p], written' = written \o p,
         UNCHANGED <<step, phase, failures>>
  PROVE  Sliced'
<1> DEFINE B == Backups  L == Len(written)
<1>1. PICK lo, hi \in [0 .. B -> Nat] : IsSlices(lo, hi) /\ InOrder(lo, hi) /\ Filled(lo)
  BY DEF Sliced
<1>2. B \in Nat \ {0} /\ 0 \in 0 .. B /\ 1 \in 0 .. B BY OutputAssumption
<1> DEFINE h == [hi EXCEPT ![0] = hi[0] + Len(p)]
<1>3. /\ h \in [0 .. B -> Nat] /\ h[0] = hi[0] + Len(p)
      /\ \A g \in 0 .. B : g # 0 => h[g] = hi[g]
      /\ hi[0] = L /\ L \in Nat /\ Len(p) \in Nat \ {0}
  <2>1. hi[0] = L /\ L \in Nat /\ Len(p) \in Nat \ {0} BY <1>1, Typing DEF InOrder
  <2> QED BY <1>2, <2>1
<1> HIDE DEF h
<1>4. files'[0] = files[0] \o p /\ \A g \in 0 .. B : g # 0 => files'[g] = files[g]
  BY <1>2 DEF OutputTypeOK
<1>5. /\ Len(written') = L + Len(p)
      /\ \A i \in 1 .. L : written'[i] = written[i]
      /\ \A i \in 1 .. Len(p) : written'[L + i] = p[i]
  BY Appended DEF OutputTypeOK
<1>6. IsSlices(lo, h)'
  <2>1. ASSUME NEW g \in 0 .. B
        PROVE  /\ lo[g] \in Nat /\ h[g] \in Nat /\ lo[g] <= h[g] /\ h[g] <= Len(written')
               /\ Len(files'[g]) = h[g] - lo[g]
               /\ \A i \in 1 .. Len(files'[g]) : files'[g][i] = written'[lo[g] + i]
    <3>1. /\ lo[g] \in Nat /\ hi[g] \in Nat /\ lo[g] <= hi[g] /\ hi[g] <= L
          /\ Len(files[g]) = hi[g] - lo[g] /\ files[g] \in Seq(Unit)
          /\ \A i \in 1 .. Len(files[g]) : files[g][i] = written[lo[g] + i]
      BY <1>1, Typing DEF IsSlices
    <3>2. \A i \in 1 .. Len(files[g]) : files[g][i] = written'[lo[g] + i]
      <4>1. \A i \in 1 .. Len(files[g]) : lo[g] + i \in 1 .. L BY <1>3, <3>1
      <4> QED BY <1>5, <3>1, <4>1
    <3>3. CASE g = 0
      <4>1. /\ Len(files'[0]) = Len(files[0]) + Len(p)
            /\ \A i \in 1 .. Len(files[0]) : files'[0][i] = files[0][i]
            /\ \A i \in 1 .. Len(p) : files'[0][Len(files[0]) + i] = p[i]
            /\ \A i \in 1 .. Len(files'[0]) :
                 i \in 1 .. Len(files[0]) \/ \E j \in 1 .. Len(p) : i = Len(files[0]) + j
        BY <1>4, <3>1, <3>3, Appended
      <4>2. Len(files[0]) = L - lo[0] /\ lo[0] \in Nat /\ lo[0] <= L /\ Len(files[0]) \in Nat
        BY <1>3, <3>1, <3>3
      <4>3. ASSUME NEW i \in 1 .. Len(files'[0]) PROVE files'[0][i] = written'[lo[0] + i]
        <5>1. CASE i \in 1 .. Len(files[0]) BY <3>2, <3>3, <4>1, <5>1
        <5>2. CASE \E j \in 1 .. Len(p) : i = Len(files[0]) + j
          <6>1. PICK j \in 1 .. Len(p) : i = Len(files[0]) + j BY <5>2
          <6>2. j \in Nat BY <1>3
          <6>3. lo[0] + i = L + j BY <1>3, <4>2, <6>1, <6>2
          <6> QED BY <1>5, <4>1, <6>1, <6>3
        <5> QED BY <4>1, <5>1, <5>2
      <4>4. h[0] \in Nat /\ lo[0] <= h[0] /\ h[0] <= Len(written') /\ Len(files'[0]) = h[0] - lo[0]
        BY <1>3, <1>5, <4>1, <4>2
      <4> QED BY <3>1, <3>3, <4>3, <4>4
    <3>4. CASE g # 0
      <4>1. h[g] <= Len(written') BY <1>3, <1>5, <3>1, <3>4
      <4> QED BY <1>3, <1>4, <3>1, <3>2, <3>4, <4>1
    <3> QED BY <3>3, <3>4
  <2> QED BY <2>1 DEF IsSlices
<1>7. InOrder(lo, h)'
  <2>1. files'[0] # <<>>
    <3>1. Len(files'[0]) = Len(files[0]) + Len(p) /\ Len(files[0]) \in Nat
      BY <1>2, <1>4, Typing, Appended
    <3>2. Len(files'[0]) # 0 BY <1>3, <3>1
    <3> QED BY <3>2
  <2>2. \A g \in 0 .. B - 1 : g + 1 \in 0 .. B /\ g + 1 # 0 BY <1>2
  <2> QED BY <1>1, <1>3, <1>5, <2>1, <2>2 DEF InOrder
<1>8. Filled(lo)'
  <2>1. Hole' = 0 /\ Hole = 0 /\ (Unhurt' => Unhurt) BY DEF Hole, Unhurt
  <2>2. \A g \in 1 .. B : g \in 0 .. B /\ g # 0 BY <1>2
  <2> QED BY <1>1, <1>4, <2>1, <2>2 DEF Filled
<1> QED BY <1>3, <1>6, <1>7, <1>8 DEF Sliced

LEMMA InvWritePiece == ASSUME OutputInv, WritePiece PROVE OutputInv'
<1>1. OutputTypeOK /\ HoldsBack /\ Writes /\ Turns /\ Sliced /\ LinesWhole BY DEF OutputInv
<1>2. PICK w \in Streams, p \in Seq(Unit) : w = holder /\ p = piece[holder] BY PieceGone
<1>3. /\ step[1] = "write" /\ Hole = 0 /\ p # <<>> /\ Len(p) \in Nat /\ HoldsBack'
      /\ \A t \in Streams : Gone(t) \in Nat /\ Gone(t)' \in Nat /\ Gone(t) <= Gone(t)'
      /\ (~opened => failures # 0)
  <2>1. \A t \in Streams : Gone(t) \in Nat BY <1>1 DEF HoldsBack
  <2>2. /\ step[1] = "write" /\ Hole = 0 /\ Len(p) \in Nat \ {0} /\ HoldsBack'
        /\ \A t \in Streams : Gone(t)' = IF t = w THEN Gone(t) + Len(p) ELSE Gone(t)
        /\ (~opened => failures # 0)
    BY <1>2, PieceGone
  <2>3. p # <<>> BY <2>2
  <2> QED BY <2>1, <2>2, <2>3
<1>4. /\ piece' = [piece EXCEPT ![w] = <<>>] /\ holder' = "none"
      /\ UNCHANGED <<sent, pending, phase, refs, step, opened, failures>>
      /\ IF opened THEN /\ files' = [files EXCEPT ![0] = @ \o p]
                        /\ written' = written \o p
                        /\ size' = size + Len(p)
                   ELSE UNCHANGED <<files, written, size>>
  BY <1>2 DEF WritePiece
<1>5. 0 \in 0 .. Backups /\ 1 \in 0 .. Backups BY OutputAssumption
<1>6. OutputTypeOK'
  <2>1. piece' \in [Streams -> Seq(Unit)] BY <1>1, <1>4 DEF OutputTypeOK
  <2>2. files' \in [0 .. Backups -> Seq(Unit)] /\ written' \in Seq(Unit) /\ size' \in Nat
    <3>1. CASE opened
      <4>1. files[0] \o p \in Seq(Unit) /\ written \o p \in Seq(Unit) BY <1>1, Typing, Appended DEF OutputTypeOK
      <4>2. size + Len(p) \in Nat BY <1>1, <1>3 DEF OutputTypeOK
      <4>3. files' = [files EXCEPT ![0] = files[0] \o p] /\ written' = written \o p
        BY <1>1, <1>4, <1>5, <3>1 DEF OutputTypeOK
      <4> HIDE DEF OutputInv
      <4> QED BY <1>1, <1>4, <3>1, <4>1, <4>2, <4>3 DEF OutputTypeOK
    <3>2. CASE ~opened BY <1>1, <1>4, <3>2 DEF OutputTypeOK
    <3> QED BY <3>1, <3>2
  <2> QED BY <1>1, <1>4, <2>1, <2>2 DEF OutputTypeOK, Unit
<1>7. Writes'
  <2>1. CASE ~opened
    <3>1. failures' # 0 /\ written' = written BY <1>3, <1>4, <2>1
    <3>2. ASSUME NEW i \in 1 .. Len(written)
          PROVE  written[i].n <= sent'[written[i].stream] - Len(pending'[written[i].stream])
                                                          - Len(piece'[written[i].stream])
      <4>1. PICK t \in Streams : t = written[i].stream BY <1>1, Typing
      <4>2. written[i].n <= Gone(t) /\ written[i].n \in Nat BY <1>1, <4>1, Typing DEF Writes
      <4>3. written[i].n <= Gone(t)' BY <1>3, <4>2
      <4> QED BY <4>1, <4>3 DEF Gone
    <3> QED BY <1>1, <3>1, <3>2 DEF Writes, Gone
  <2>2. CASE opened BY <2>2, WritesMore
  <2> QED BY <2>1, <2>2
<1>8. Turns'
  <2>1. opened' => size' = Len(files'[0])
    <3>1. CASE opened
      <4>1. size = Len(files[0]) /\ files'[0] = files[0] \o p
        BY <1>1, <1>4, <1>5, <3>1 DEF Turns, OutputTypeOK
      <4>2. Len(files'[0]) = Len(files[0]) + Len(p) BY <1>1, <1>5, <4>1, Typing, Appended
      <4> QED BY <1>4, <3>1, <4>1, <4>2
    <3> QED BY <1>4, <3>1
  <2> QED BY <1>1, <1>3, <1>4, <2>1 DEF Turns
<1>9. Sliced'
  <2>1. CASE ~opened BY <1>1, <1>4, <2>1, SlicedKept DEF Hole, Unhurt
  <2>2. CASE opened BY <1>1, <1>3, <1>4, <2>2, SlicesGrow
  <2> QED BY <2>1, <2>2
<1>10. LinesWhole'
  <2>1. CASE ~opened BY <1>1, <1>4, <2>1, LinesKept
  <2>2. CASE opened
    <3>1. Whole(p) /\ Whole(files[0]) BY <1>1, <1>2, <1>5 DEF HoldsBack, LinesWhole
    <3>2. Whole(files[0] \o p) BY <1>1, <1>5, <3>1, Typing, WholeConcat
    <3>3. \A g \in 0 .. Backups : files'[g] = IF g = 0 THEN files[0] \o p ELSE files[g]
      BY <1>1, <1>4, <1>5, <2>2 DEF OutputTypeOK
    <3>4. ASSUME NEW g \in 0 .. Backups PROVE Whole(files'[g])
      <4>1. CASE g = 0 BY <3>2, <3>3, <4>1
      <4>2. CASE g # 0 BY <1>1, <3>3, <4>2 DEF LinesWhole
      <4> QED BY <4>1, <4>2
    <3> QED BY <3>4 DEF LinesWhole, Whole, Follows
  <2> QED BY <2>1, <2>2
<1> QED BY <1>3, <1>6, <1>7, <1>8, <1>9, <1>10 DEF OutputInv

LEMMA InvOutputCrash == ASSUME OutputInv, OutputCrash PROVE OutputInv'
<1>1. OutputTypeOK /\ HoldsBack /\ Writes /\ Turns /\ Sliced BY DEF OutputInv
<1>2. /\ phase' = [s \in Streams |-> IF phase[s] = "off" THEN "off" ELSE "lost"]
      /\ pending' = [s \in Streams |-> <<>>] /\ piece' = [s \in Streams |-> <<>>]
      /\ refs' = {} /\ holder' = "none" /\ step' = <<"write", 0>> /\ opened' = FALSE /\ size' = 0
      /\ phase' # phase /\ UNCHANGED <<sent, files, written, failures>>
  BY DEF OutputCrash
<1>3. /\ \A s \in Streams : pending'[s] = <<>> /\ piece'[s] = <<>> /\ phase'[s] \in {"off", "lost"}
      /\ \A s \in Streams : phase'[s] = "off" <=> phase[s] = "off"
  BY <1>2
<1>4. OutputTypeOK'
  <2>1. phase' \in [Streams -> {"off", "read", "flush", "closed", "without", "lost"}] BY <1>2
  <2>2. pending' \in [Streams -> Seq(Unit)] /\ piece' \in [Streams -> Seq(Unit)] BY <1>2
  <2>3. step' \in {"write", "remove", "shift", "open"} \X (0 .. Backups) BY <1>2, OutputAssumption
  <2> QED BY <1>1, <1>2, <2>1, <2>2, <2>3 DEF OutputTypeOK, Unit
<1>5. \A s \in Streams : Gone(s)' = sent[s] /\ sent[s] \in Nat /\ Gone(s) <= sent[s]
  <2>1. ASSUME NEW s \in Streams PROVE Gone(s)' = sent[s] /\ sent[s] \in Nat /\ Gone(s) <= sent[s]
    <3>1. Len(pending'[s]) = 0 /\ Len(piece'[s]) = 0 BY <1>3
    <3>2. sent[s] \in Nat /\ Len(pending[s]) \in Nat /\ Len(piece[s]) \in Nat BY <1>1, Typing
    <3>3. Gone(s)' = sent[s] - 0 - 0 BY <1>2, <3>1 DEF Gone
    <3>4. Gone(s) = sent[s] - Len(pending[s]) - Len(piece[s]) BY DEF Gone
    <3> QED BY <3>2, <3>3, <3>4
  <2> QED BY <2>1
<1>6. HoldsBack'
  <2>1. \A s \in Streams : phase[s] = "off" => sent[s] = 0 BY <1>1 DEF HoldsBack
  <2> QED BY <1>2, <1>3, <1>5, <2>1 DEF HoldsBack, Continues, NoEnd, Whole
<1>7. Writes'
  <2>1. ASSUME NEW i \in 1 .. Len(written)
        PROVE  written[i].n <= sent'[written[i].stream] - Len(pending'[written[i].stream])
                                                        - Len(piece'[written[i].stream])
    <3>1. PICK t \in Streams : t = written[i].stream BY <1>1, Typing
    <3>2. written[i].n <= Gone(t) /\ written[i].n \in Nat /\ Gone(t) \in Nat
      BY <1>1, <3>1, Typing DEF Writes, HoldsBack
    <3>3. written[i].n <= Gone(t)' BY <1>5, <3>2
    <3> QED BY <3>1, <3>3 DEF Gone
  <2> QED BY <1>1, <1>2, <1>3, <2>1 DEF Writes, Gone, Active
<1>8. Turns' BY <1>2, <1>3 DEF Turns, Active
<1>9. Sliced'
  <2>1. ~Unhurt'
    <3>1. \E s \in Streams : phase'[s] # phase[s]
      <4>1. phase \in [Streams -> {"off", "read", "flush", "closed", "without", "lost"}]
        BY <1>1 DEF OutputTypeOK
      <4> QED BY <1>2, <4>1
    <3>2. \E s \in Streams : phase'[s] = "lost" BY <1>3, <3>1
    <3> QED BY <3>2 DEF Unhurt
  <2>2. PICK lo, hi \in [0 .. Backups -> Nat] : IsSlices(lo, hi) /\ InOrder(lo, hi) /\ Filled(lo)
    BY <1>1 DEF Sliced
  <2>3. IsSlices(lo, hi)' BY <1>2, <2>2 DEF IsSlices
  <2>4. InOrder(lo, hi)' BY <1>2, <2>2 DEF InOrder
  <2>5. Filled(lo)' BY <1>2, <2>1 DEF Filled
  <2> QED BY <2>3, <2>4, <2>5 DEF Sliced
<1>10. LinesWhole' BY <1>2, LinesKept DEF OutputInv
<1> QED BY <1>4, <1>6, <1>7, <1>8, <1>9, <1>10 DEF OutputInv

LEMMA OutputStarts == ASSUME OutputInit PROVE OutputInv
<1>1. /\ \A s \in Streams : /\ sent[s] = 0 /\ pending[s] = <<>> /\ piece[s] = <<>> /\ phase[s] = "off"
                            /\ Gone(s) = 0 /\ Len(piece[s]) = 0
      /\ refs = {} /\ holder = "none" /\ step = <<"write", 0>> /\ opened = FALSE
      /\ written = <<>> /\ failures = 0 /\ \A g \in 0 .. Backups : files[g] = <<>>
  <2>1. ASSUME NEW s \in Streams
        PROVE  /\ sent[s] = 0 /\ pending[s] = <<>> /\ piece[s] = <<>> /\ phase[s] = "off"
               /\ Gone(s) = 0 /\ Len(piece[s]) = 0
    <3>1. sent[s] = 0 /\ pending[s] = <<>> /\ piece[s] = <<>> /\ phase[s] = "off" BY DEF OutputInit
    <3>2. Len(pending[s]) = 0 /\ Len(piece[s]) = 0 BY <3>1
    <3>3. Gone(s) = 0 - 0 - 0 BY <3>1, <3>2 DEF Gone
    <3> QED BY <3>1, <3>2, <3>3
  <2> QED BY <2>1 DEF OutputInit
<1>2. OutputTypeOK
  <2>1. step \in {"write", "remove", "shift", "open"} \X (0 .. Backups) BY <1>1, OutputAssumption
  <2>2. sent \in [Streams -> 0 .. MaxUnits] BY OutputAssumption DEF OutputInit
  <2>3. <<>> \in Seq(Unit) OBVIOUS
  <2>4. /\ pending \in [Streams -> Seq(Unit)] /\ piece \in [Streams -> Seq(Unit)]
        /\ files \in [0 .. Backups -> Seq(Unit)] /\ written \in Seq(Unit)
    BY <2>3 DEF OutputInit
  <2>5. /\ phase \in [Streams -> {"off", "read", "flush", "closed", "without", "lost"}]
        /\ refs \subseteq Range(RunOf) /\ holder \in Streams \cup {"none"}
        /\ opened \in BOOLEAN /\ size \in Nat /\ failures \in 0 .. MaxFailures
    BY OutputAssumption DEF OutputInit
  <2> QED BY <2>1, <2>2, <2>4, <2>5 DEF OutputTypeOK
<1>3. HoldsBack BY <1>1, NoUnits DEF HoldsBack, Continues, NoEnd
<1>4. Writes BY <1>1 DEF Writes
<1>5. Turns BY <1>1 DEF Turns, Active
<1>6. Sliced
  <2> DEFINE z == [g \in 0 .. Backups |-> 0]
  <2>1. z \in [0 .. Backups -> Nat] /\ \A g \in 0 .. Backups : z[g] = 0 OBVIOUS
  <2> HIDE DEF z
  <2>2. IsSlices(z, z) BY <1>1, <2>1 DEF IsSlices
  <2>3. InOrder(z, z)
    <3>1. \A g \in 0 .. Backups - 1 : g \in 0 .. Backups /\ g + 1 \in 0 .. Backups BY OutputAssumption
    <3> QED BY <1>1, <2>1, <3>1, OutputAssumption DEF InOrder
  <2>4. Filled(z)
    <3>1. Backups \in 0 .. Backups /\ \A g \in 1 .. Backups : g \in 0 .. Backups BY OutputAssumption
    <3> QED BY <1>1, <2>1, <3>1 DEF Filled
  <2> QED BY <2>1, <2>2, <2>3, <2>4 DEF Sliced
<1>7. LinesWhole BY <1>1, NoUnits DEF LinesWhole
<1> QED BY <1>2, <1>3, <1>4, <1>5, <1>6, <1>7 DEF OutputInv

-----------------------------------------------------------------------------
\* What the code promises holds in every state

\* The inductive invariant of the output file (openOutput, lineWriter,
\* rotatingFile): who may write, what each stream has given up, and of which
\* part of the output each generation is made.
THEOREM OutputInvariant == OutputSpec => []OutputInv
<1>1. ASSUME OutputInv, OutputNext PROVE OutputInv'
  <2>1. CASE \E r \in Range(RunOf) : OpenOutput(r) \/ Release(r)
    BY <1>1, <2>1, InvOpenOutput, InvRelease
  <2>2. CASE \E s \in Streams : Stream(s)
    BY <1>1, <2>2, InvReceive, InvFlush, InvFlushed, InvTakeTurn DEF Stream
  <2>3. CASE Rotate BY <1>1, <2>3, InvRemoveOldest, InvRename, InvReopen DEF Rotate
  <2>4. CASE WritePiece BY <1>1, <2>4, InvWritePiece
  <2>5. CASE OutputCrash BY <1>1, <2>5, InvOutputCrash
  <2> QED BY <1>1, <2>1, <2>2, <2>3, <2>4, <2>5 DEF OutputNext
<1>2. ASSUME OutputInv, UNCHANGED outputVars PROVE OutputInv'
  <2>1. UNCHANGED <<streamVars, refs, sent, pending, piece, phase, holder, step, opened, size,
                    files, written, failures>>
    BY <1>2 DEF outputVars, streamVars, fileVars
  <2>2. OutputTypeOK' BY <1>2, <2>1 DEF OutputInv, OutputTypeOK, Unit
  <2>3. Turns' BY <1>2, <2>1 DEF OutputInv, Turns
  <2>4. HoldsBack' /\ Writes' /\ Sliced' /\ LinesWhole' BY <1>2, <2>1, RestKept DEF Hole
  <2> QED BY <2>2, <2>3, <2>4 DEF OutputInv
<1> QED BY <1>1, <1>2, OutputStarts, PTL DEF OutputSpec

\* No file of the rotation ever holds a part of a line, unless the line was
\* longer than maxLogLine (lineWriter, rotatingFile.Write).
THEOREM LinesAreWhole == OutputSpec => []LinesWhole
<1>1. OutputInv => LinesWhole BY DEF OutputInv
<1> QED BY <1>1, OutputInvariant, PTL

\* A run that ended has all of its output in the file, once and in order, however
\* many other runs shared the file and ended before it (openOutput, flush).
THEOREM AllIsWritten == OutputSpec => []AllWritten
<1>1. ASSUME OutputInv PROVE AllWritten
  <2>1. OutputTypeOK /\ HoldsBack /\ Writes BY <1>1 DEF OutputInv
  <2>2. ASSUME NEW s \in Streams, phase[s] = "closed", failures = 0
        PROVE  LET mine == {i \in 1 .. Len(written) : written[i].stream = s} IN
               /\ \A k \in 1 .. sent[s] : \E i \in mine : written[i].n = k
               /\ \A i, j \in mine : i < j => written[i].n < written[j].n
    <3>1. Gone(s) = sent[s]
      <4>1. pending[s] = <<>> /\ piece[s] = <<>> BY <2>1, <2>2 DEF HoldsBack, Active
      <4>2. Len(pending[s]) = 0 /\ Len(piece[s]) = 0 /\ sent[s] \in Nat BY <2>1, <4>1, Typing
      <4> QED BY <4>2 DEF Gone
    <3>2. \A k \in 1 .. sent[s] :
            \E i \in 1 .. Len(written) : written[i].stream = s /\ written[i].n = k
      BY <2>1, <2>2, <3>1 DEF Writes
    <3> QED BY <2>1, <3>2 DEF Writes
  <2> QED BY <2>2 DEF AllWritten
<1> QED BY <1>1, OutputInvariant, PTL

-----------------------------------------------------------------------------
\* What is left of the output

\* The sequences joined so far, one after another.
Joins(f, q, S) ==
  /\ f \in [1 .. Len(q) -> Seq(S)] /\ f[1] = q[1]
  /\ \A k \in 1 .. Len(q) - 1 : f[k + 1] = f[k] \o q[k + 1]

\* FlattenSeq joins sequences: its recursion has a solution.
LEMMA FlattenJoins ==
  ASSUME NEW S, NEW q \in Seq(Seq(S)), Len(q) # 0
  PROVE  \E f : Joins(f, q, S) /\ FlattenSeq(q) = f[Len(q)]
<1> DEFINE n == Len(q)
           Rec(f) == f = [i \in 1 .. n |-> IF i = 1 THEN q[i] ELSE f[i - 1] \o q[i]]
           next == [x \in Nat \X Seq(S) |-> IF x[1] + 2 <= n THEN x[2] \o q[x[1] + 2] ELSE x[2]]
<1>1. n \in Nat \ {0} /\ \A i \in 1 .. n : q[i] \in Seq(S) OBVIOUS
<1>2. next \in [Nat \X Seq(S) -> Seq(S)]
  <2>1. ASSUME NEW x \in Nat \X Seq(S)
        PROVE  (IF x[1] + 2 <= n THEN x[2] \o q[x[1] + 2] ELSE x[2]) \in Seq(S)
    <3>1. x[1] \in Nat /\ x[2] \in Seq(S) OBVIOUS
    <3>2. x[1] + 2 <= n => x[1] + 2 \in 1 .. n BY <1>1, <3>1
    <3>3. x[1] + 2 <= n => q[x[1] + 2] \in Seq(S) BY <1>1, <3>2
    <3> QED BY <3>1, <3>3
  <2> QED BY <2>1
<1>3. q[1] \in Seq(S) BY <1>1
<1>4. \A k \in Nat : \A a \in Seq(S) : k + 2 <= n => next[<<k, a>>] = a \o q[k + 2] OBVIOUS
<1> HIDE DEF next, n
<1>5. PICK h : Recurs(h, Seq(S), q[1], next) BY <1>2, <1>3, Recursion
<1>6. h \in [Nat -> Seq(S)] /\ h[0] = q[1] /\ \A k \in Nat : h[k + 1] = next[<<k, h[k]>>]
  BY <1>5 DEF Recurs
<1> DEFINE g == [i \in 1 .. n |-> h[i - 1]]
<1>7. Rec(g)
  <2>1. ASSUME NEW i \in 1 .. n PROVE h[i - 1] = IF i = 1 THEN q[i] ELSE g[i - 1] \o q[i]
    <3>1. CASE i = 1 BY <1>6, <3>1
    <3>2. CASE i # 1
      <4>1. PICK k \in Nat : i = k + 2
        <5>1. i - 2 \in Nat /\ i = (i - 2) + 2 BY <1>1, <3>2
        <5> QED BY <5>1
      <4>2. i - 1 = k + 1 /\ i - 1 \in 1 .. n /\ g[i - 1] = h[k] /\ k + 2 <= n
        <5>1. i - 1 = k + 1 /\ i - 1 \in 1 .. n /\ (i - 1) - 1 = k /\ k + 2 <= n BY <1>1, <4>1
        <5> QED BY <5>1
      <4>3. h[k + 1] = h[k] \o q[k + 2] BY <1>4, <1>6, <4>2
      <4> QED BY <3>2, <4>1, <4>2, <4>3
    <3> QED BY <3>1, <3>2
  <2> QED BY <2>1
<1> DEFINE f == CHOOSE e : Rec(e)
<1>8. FlattenSeq(q) = f[n] BY <1>1 DEF FlattenSeq, n
<1> HIDE DEF g
<1>9. Rec(f) BY <1>7
<1> HIDE DEF f
<1>10. /\ DOMAIN f = 1 .. n /\ f = [i \in 1 .. n |-> f[i]]
       /\ \A i \in 1 .. n : f[i] = IF i = 1 THEN q[i] ELSE f[i - 1] \o q[i]
  BY <1>9
<1> HIDE DEF Rec
<1>11. f[1] = q[1] /\ \A k \in 1 .. n - 1 : f[k + 1] = f[k] \o q[k + 1]
  <2>1. f[1] = q[1]
    <3>1. 1 \in 1 .. n BY <1>1
    <3>2. f[1] = IF 1 = 1 THEN q[1] ELSE f[1 - 1] \o q[1] BY <1>10, <3>1, Zenon
    <3> QED BY <3>2, Zenon
  <2>2. ASSUME NEW k \in 1 .. n - 1 PROVE f[k + 1] = f[k] \o q[k + 1]
    <3>1. k + 1 \in 1 .. n /\ k + 1 # 1 /\ (k + 1) - 1 = k BY <1>1
    <3> QED BY <1>10, <3>1
  <2> QED BY <2>1, <2>2
<1>12. \A i \in 1 .. n : f[i] \in Seq(S)
  <2> DEFINE T == {k \in Nat : k + 1 <= n => f[k + 1] \in Seq(S)}
  <2>1. 0 \in T BY <1>3, <1>11
  <2>2. ASSUME NEW k \in Nat, k \in T PROVE k + 1 \in T
    <3>1. SUFFICES ASSUME (k + 1) + 1 <= n PROVE f[(k + 1) + 1] \in Seq(S) OBVIOUS
    <3>2. k + 1 \in 1 .. n - 1 /\ (k + 1) + 1 \in 1 .. n BY <1>1, <3>1
    <3>3. f[k + 1] \in Seq(S) BY <1>1, <2>2, <3>2
    <3>4. f[(k + 1) + 1] = f[k + 1] \o q[(k + 1) + 1] BY <1>11, <3>2
    <3>5. q[(k + 1) + 1] \in Seq(S) BY <1>1, <3>2
    <3> QED BY <3>3, <3>4, <3>5
  <2> HIDE DEF T
  <2>3. Nat \subseteq T BY <2>1, <2>2, Induction
  <2>4. ASSUME NEW i \in 1 .. n PROVE f[i] \in Seq(S)
    <3>1. i - 1 \in Nat /\ (i - 1) + 1 = i /\ i <= n BY <1>1
    <3>2. i - 1 \in T BY <2>3, <3>1
    <3> QED BY <3>1, <3>2 DEF T
  <2> QED BY <2>4
<1>13. f \in [1 .. n -> Seq(S)] BY <1>10, <1>12
<1>14. Joins(f, q, S) BY <1>11, <1>13 DEF Joins, n
<1> QED BY <1>8, <1>14 DEF n

\* s is what is left of the output up to generation g: pos is where it was
\* written, and nothing is missing unless a rename failed.
Picked(s, pos, lo, hi, g) ==
  /\ s \in Seq(Unit) /\ pos \in [1 .. Len(s) -> Nat]
  /\ \A i \in 1 .. Len(s) : pos[i] \in 1 .. hi[g] /\ s[i] = written[pos[i]]
  /\ \A i, j \in 1 .. Len(s) : i < j => pos[i] < pos[j]
  /\ failures = 0 => Len(s) = hi[g] - lo[Backups] /\ \A i \in 1 .. Len(s) : pos[i] = lo[Backups] + i
  /\ files[g] # <<>> => s # <<>> /\ pos[Len(s)] = hi[g]

LEMMA PickedOldest ==
  ASSUME OutputTypeOK, NEW lo, NEW hi, IsSlices(lo, hi)
  PROVE  \E pos : Picked(files[Backups], pos, lo, hi, Backups)
<1> DEFINE s == files[Backups]  n == Len(s)  pos == [i \in 1 .. n |-> lo[Backups] + i]
<1>1. Backups \in 0 .. Backups /\ s \in Seq(Unit) /\ n \in Nat BY Typing
<1>2. /\ lo[Backups] \in Nat /\ hi[Backups] \in Nat /\ n = hi[Backups] - lo[Backups]
      /\ \A i \in 1 .. n : s[i] = written[lo[Backups] + i]
  BY <1>1 DEF IsSlices
<1>3. s # <<>> => n # 0 BY <1>1
<1> HIDE DEF s, n
<1>4. \A i \in 1 .. n : pos[i] = lo[Backups] + i OBVIOUS
<1>5. pos \in [1 .. n -> Nat] BY <1>1, <1>2
<1> HIDE DEF pos
<1>6. \A i \in 1 .. n : pos[i] \in 1 .. hi[Backups] /\ s[i] = written[pos[i]] BY <1>1, <1>2, <1>4
<1>7. \A i, j \in 1 .. n : i < j => pos[i] < pos[j] BY <1>1, <1>2, <1>4
<1>8. s # <<>> => pos[n] = hi[Backups] BY <1>1, <1>2, <1>3, <1>4
<1>9. Picked(s, pos, lo, hi, Backups) BY <1>1, <1>2, <1>4, <1>5, <1>6, <1>7, <1>8 DEF Picked, n, s
<1> QED BY <1>9 DEF s

LEMMA PickedNext ==
  ASSUME OutputTypeOK, NEW lo, NEW hi, IsSlices(lo, hi), InOrder(lo, hi),
         NEW g \in 0 .. Backups - 1, NEW s, NEW pos, Picked(s, pos, lo, hi, g + 1)
  PROVE  \E p : Picked(s \o files[g], p, lo, hi, g)
<1> DEFINE f == files[g]  m == Len(s)  c == s \o f  n == Len(c)
           p == [i \in 1 .. n |-> IF i <= m THEN pos[i] ELSE lo[g] + (i - m)]
<1>1. g \in 0 .. Backups /\ g + 1 \in 0 .. Backups /\ Backups \in Nat \ {0} /\ Backups \in 0 .. Backups
  BY OutputAssumption
<1>2. /\ lo[g] \in Nat /\ hi[g] \in Nat /\ lo[g] <= hi[g] /\ Len(f) = hi[g] - lo[g]
      /\ \A i \in 1 .. Len(f) : f[i] = written[lo[g] + i]
      /\ hi[g + 1] \in Nat /\ lo[Backups] \in Nat
  BY <1>1 DEF IsSlices
<1>3. hi[g + 1] <= lo[g] /\ (failures = 0 => hi[g + 1] = lo[g]) BY DEF InOrder
<1>4. /\ s \in Seq(Unit) /\ \A i \in 1 .. m : pos[i] \in 1 .. hi[g + 1] /\ s[i] = written[pos[i]]
      /\ \A i, j \in 1 .. m : i < j => pos[i] < pos[j]
      /\ failures = 0 => m = hi[g + 1] - lo[Backups] /\ \A i \in 1 .. m : pos[i] = lo[Backups] + i
  BY DEF Picked
<1>5. /\ f \in Seq(Unit) /\ c \in Seq(Unit) /\ n = m + Len(f) /\ m \in Nat /\ Len(f) \in Nat
      /\ \A i \in 1 .. m : c[i] = s[i]
      /\ \A i \in 1 .. Len(f) : c[m + i] = f[i]
      /\ (f # <<>> => Len(f) # 0)
  <2>1. f \in Seq(Unit) BY <1>1, Typing
  <2>2. f # <<>> => Len(f) # 0 BY <2>1
  <2> HIDE DEF f
  <2> QED BY <1>4, <2>1, <2>2, Appended
<1> HIDE DEF f, m, c, n
<1>6. \A i \in 1 .. m : i \in 1 .. n /\ p[i] = pos[i] BY <1>5
<1>7. \A i \in 1 .. Len(f) : m + i \in 1 .. n /\ p[m + i] = lo[g] + i BY <1>2, <1>5
<1>8. DOMAIN p = 1 .. n /\ p = [i \in 1 .. n |-> p[i]] OBVIOUS
<1> HIDE DEF p
<1>9. \A i \in 1 .. n : i \in 1 .. m \/ \E j \in 1 .. Len(f) : i = m + j
  <2>1. ASSUME NEW i \in 1 .. n, i \notin 1 .. m PROVE \E j \in 1 .. Len(f) : i = m + j
    <3>1. i - m \in 1 .. Len(f) /\ i = m + (i - m) BY <1>5, <2>1
    <3> QED BY <3>1
  <2> QED BY <2>1
<1>10. ASSUME NEW i \in 1 .. n PROVE p[i] \in 1 .. hi[g] /\ c[i] = written[p[i]]
  <2>1. CASE i \in 1 .. m
    <3>1. p[i] \in 1 .. hi[g + 1] /\ c[i] = written[p[i]] BY <1>4, <1>5, <1>6, <2>1
    <3> QED BY <1>2, <1>3, <3>1
  <2>2. CASE \E j \in 1 .. Len(f) : i = m + j
    <3>1. PICK j \in 1 .. Len(f) : i = m + j BY <2>2
    <3>2. p[i] = lo[g] + j /\ c[i] = f[j] /\ f[j] = written[lo[g] + j] BY <1>2, <1>5, <1>7, <3>1
    <3> QED BY <1>2, <3>2
  <2> QED BY <1>9, <2>1, <2>2
<1>11. ASSUME NEW i \in 1 .. n, NEW j \in 1 .. n, i < j PROVE p[i] < p[j]
  <2>1. CASE j \in 1 .. m
    <3>1. i \in 1 .. m BY <1>5, <1>11, <2>1
    <3> QED BY <1>4, <1>6, <1>11, <2>1, <3>1
  <2>2. CASE \E b \in 1 .. Len(f) : j = m + b
    <3>1. PICK b \in 1 .. Len(f) : j = m + b BY <2>2
    <3>2. p[j] = lo[g] + b /\ b \in Nat \ {0} BY <1>5, <1>7, <3>1
    <3>3. CASE i \in 1 .. m
      <4>1. p[i] = pos[i] /\ pos[i] \in 1 .. hi[g + 1] BY <1>4, <1>6, <3>3
      <4> QED BY <1>2, <1>3, <3>2, <4>1
    <3>4. CASE \E a \in 1 .. Len(f) : i = m + a
      <4>1. PICK a \in 1 .. Len(f) : i = m + a BY <3>4
      <4>2. p[i] = lo[g] + a /\ a < b BY <1>5, <1>7, <1>11, <3>1, <4>1
      <4> QED BY <1>2, <3>2, <4>2
    <3> QED BY <1>9, <3>3, <3>4
  <2> QED BY <1>9, <2>1, <2>2
<1>12. ASSUME failures = 0
       PROVE  n = hi[g] - lo[Backups] /\ \A i \in 1 .. n : p[i] = lo[Backups] + i
  <2>1. m = lo[g] - lo[Backups] BY <1>3, <1>4, <1>12
  <2>2. n = hi[g] - lo[Backups] BY <1>2, <1>5, <2>1
  <2>3. ASSUME NEW i \in 1 .. n PROVE p[i] = lo[Backups] + i
    <3>1. CASE i \in 1 .. m BY <1>4, <1>6, <1>12, <3>1
    <3>2. CASE \E j \in 1 .. Len(f) : i = m + j
      <4>1. PICK j \in 1 .. Len(f) : i = m + j BY <3>2
      <4>2. p[i] = lo[g] + j /\ j \in Nat BY <1>5, <1>7, <4>1
      <4>3. lo[g] = m + lo[Backups] BY <1>2, <1>5, <2>1, SMTT(30)
      <4>4. (m + lo[Backups]) + j = lo[Backups] + (m + j) BY <1>2, <1>5, <4>2
      <4> QED BY <4>1, <4>2, <4>3, <4>4
    <3> QED BY <1>9, <3>1, <3>2
  <2> QED BY <2>2, <2>3
<1>13. ASSUME f # <<>> PROVE c # <<>> /\ p[n] = hi[g]
  <2>1. Len(f) \in 1 .. Len(f) /\ n = m + Len(f) /\ n # 0 BY <1>5, <1>13
  <2>2. p[n] = lo[g] + Len(f) BY <1>7, <2>1
  <2>3. c # <<>> BY <2>1 DEF n
  <2> QED BY <1>2, <2>2, <2>3
<1>14. p \in [1 .. n -> Nat] BY <1>2, <1>8, <1>10
<1>15. Picked(c, p, lo, hi, g) BY <1>5, <1>10, <1>11, <1>12, <1>13, <1>14 DEF Picked, n, f
<1> QED BY <1>15 DEF c, f

\* What is left is written in order, up to the last unit of all.
LEMMA KeptIs ==
  ASSUME OutputInv, NEW lo, NEW hi, IsSlices(lo, hi), InOrder(lo, hi)
  PROVE  /\ Kept \in Seq(Unit) /\ Len(Kept) \in Nat
         /\ \E pos : /\ \A i \in 1 .. Len(Kept) : pos[i] \in 1 .. Len(written) /\ Kept[i] = written[pos[i]]
                     /\ \A i, j \in 1 .. Len(Kept) : i < j => pos[i] < pos[j]
                     /\ failures = 0 =>
                          /\ Len(Kept) = Len(written) - lo[Backups]
                          /\ \A i \in 1 .. Len(Kept) : pos[i] = lo[Backups] + i
                     /\ written # <<>> => Kept # <<>> /\ pos[Len(Kept)] = Len(written)
<1> DEFINE B == Backups  q == [k \in 1 .. B + 1 |-> files[B + 1 - k]]
<1>1. OutputTypeOK BY DEF OutputInv
<1>2. B \in Nat \ {0} BY OutputAssumption
<1>3. q \in Seq(Seq(Unit)) /\ Len(q) = B + 1 /\ \A k \in 1 .. B + 1 : q[k] = files[B + 1 - k]
  <2>1. \A k \in 1 .. B + 1 : B + 1 - k \in 0 .. B BY <1>2
  <2>2. \A k \in 1 .. B + 1 : files[B + 1 - k] \in Seq(Unit) BY <1>1, <2>1, Typing
  <2>3. q \in [1 .. B + 1 -> Seq(Unit)] /\ B + 1 \in Nat BY <1>2, <2>2
  <2> QED BY <2>3
<1>4. Kept = FlattenSeq(q) BY DEF Kept
<1> HIDE DEF q
<1>5. PICK f : Joins(f, q, Unit) /\ Kept = f[B + 1]
  <2>1. Len(q) # 0 BY <1>2, <1>3
  <2> QED BY <1>3, <1>4, <2>1, FlattenJoins
<1>6. f[1] = files[B] /\ \A k \in 1 .. B : f[k + 1] = f[k] \o files[B - k]
  <2>1. f[1] = q[1] /\ \A k \in 1 .. (B + 1) - 1 : f[k + 1] = f[k] \o q[k + 1]
    BY <1>3, <1>5 DEF Joins
  <2>2. 1 \in 1 .. B + 1 /\ B + 1 - 1 = B BY <1>2
  <2>3. \A k \in 1 .. B : k \in 1 .. (B + 1) - 1 /\ k + 1 \in 1 .. B + 1 /\ B + 1 - (k + 1) = B - k
    BY <1>2
  <2> QED BY <1>3, <2>1, <2>2, <2>3
<1> DEFINE T == {k \in Nat : k <= B => \E pos : Picked(f[k + 1], pos, lo, hi, B - k)}
<1>7. 0 \in T
  <2>1. 0 + 1 = 1 /\ B - 0 = B BY <1>2
  <2>2. \E pos : Picked(f[1], pos, lo, hi, B) BY <1>1, <1>6, PickedOldest
  <2> QED BY <2>1, <2>2
<1>8. ASSUME NEW k \in Nat, k \in T PROVE k + 1 \in T
  <2>1. SUFFICES ASSUME k + 1 <= B
                 PROVE  \E pos : Picked(f[(k + 1) + 1], pos, lo, hi, B - (k + 1))
    OBVIOUS
  <2>2. /\ k + 1 \in 1 .. B /\ B - (k + 1) \in 0 .. B - 1 /\ (B - (k + 1)) + 1 = B - k /\ k <= B
    BY <1>2, <2>1
  <2>3. PICK pos : Picked(f[k + 1], pos, lo, hi, B - k) BY <1>8, <2>2
  <2>4. f[(k + 1) + 1] = f[k + 1] \o files[B - (k + 1)] BY <1>6, <2>2
  <2>5. Picked(f[k + 1], pos, lo, hi, (B - (k + 1)) + 1) BY <2>2, <2>3
  <2> HIDE DEF T
  <2>6. \E p : Picked(f[k + 1] \o files[B - (k + 1)], p, lo, hi, B - (k + 1))
    BY <1>1, <2>2, <2>5, PickedNext
  <2> QED BY <2>4, <2>6
<1> HIDE DEF T
<1>9. Nat \subseteq T BY <1>7, <1>8, Induction
<1>10. PICK p0 : Picked(f[B + 1], p0, lo, hi, 0)
  <2>1. B \in T /\ B - B = 0 BY <1>2, <1>9
  <2> QED BY <1>2, <2>1 DEF T
<1>11. PICK p1 : Picked(f[B], p1, lo, hi, 1)
  <2>1. B - 1 \in T /\ B - (B - 1) = 1 /\ (B - 1) + 1 = B /\ B - 1 <= B BY <1>2, <1>9
  <2> QED BY <1>2, <2>1 DEF T
<1>12. /\ hi[0] = Len(written) /\ 0 \in 0 .. B /\ 1 \in 0 .. B /\ Len(written) \in Nat
       /\ (written # <<>> /\ files[0] = <<>> => files[1] # <<>> /\ hi[1] = lo[0])
       /\ Len(files[0]) = hi[0] - lo[0] /\ lo[0] \in Nat
  BY <1>1, <1>2, Typing DEF InOrder, IsSlices
<1>13. Kept \in Seq(Unit) /\ Len(Kept) \in Nat BY <1>5, <1>10 DEF Picked
<1>14. CASE files[0] # <<>> \/ written = <<>>
  BY <1>5, <1>10, <1>12, <1>13, <1>14 DEF Picked
<1>15. CASE files[0] = <<>> /\ written # <<>>
  <2>1. Len(files[0]) = 0 BY <1>15
  <2>2. hi[1] = Len(written) /\ files[1] # <<>> BY <1>12, <1>15, <2>1
  <2>3. f[B + 1] = f[B] \o files[0] /\ f[B] \in Seq(Unit)
    <3>1. B \in 1 .. B /\ B - B = 0 BY <1>2
    <3>2. f[B + 1] = f[B] \o files[B - B] BY <1>6, <3>1
    <3> QED BY <1>11, <3>1, <3>2 DEF Picked
  <2>4. Kept = f[B] BY <1>5, <1>15, <2>3
  <2> QED BY <1>11, <1>13, <2>2, <2>4 DEF Picked
<1> QED BY <1>13, <1>14, <1>15

\* Each unit is written once, so that it has one position.
LEMMA PositionIs ==
  ASSUME OutputTypeOK, Writes, NEW i \in 1 .. Len(written) PROVE Position(written[i]) = i
<1>1. ASSUME NEW j \in 1 .. Len(written), written[j] = written[i] PROVE j = i
  <2>1. written[i].n \in Nat /\ Len(written) \in Nat BY Typing
  <2>2. ~(i < j) /\ ~(j < i) BY <1>1, <2>1 DEF Writes
  <2> QED BY <2>1, <2>2
<1> QED BY <1>1 DEF Position

\* What is left is in the order in which it was written, nothing is kept twice
\* and the newest unit is never lost, whatever failed (rotate).
THEOREM KeptIsInOrder == OutputSpec => []KeptInOrder
<1>1. ASSUME OutputInv PROVE KeptInOrder
  <2>1. OutputTypeOK /\ Writes /\ Sliced BY <1>1 DEF OutputInv
  <2>2. PICK lo, hi \in [0 .. Backups -> Nat] : IsSlices(lo, hi) /\ InOrder(lo, hi) /\ Filled(lo)
    BY <2>1 DEF Sliced
  <2>3. PICK pos :
          /\ \A i \in 1 .. Len(Kept) : pos[i] \in 1 .. Len(written) /\ Kept[i] = written[pos[i]]
          /\ \A i, j \in 1 .. Len(Kept) : i < j => pos[i] < pos[j]
          /\ written # <<>> => Kept # <<>> /\ pos[Len(Kept)] = Len(written)
    BY <1>1, <2>2, KeptIs
  <2>4. Kept \in Seq(Unit) /\ Len(Kept) \in Nat BY <1>1, <2>2, KeptIs
  <2>5. \A i \in 1 .. Len(Kept) : Position(Kept[i]) = pos[i] BY <2>1, <2>3, PositionIs
  <2>6. written # <<>> => Kept # <<>> /\ Last(Kept) = Last(written)
    <3>1. Kept # <<>> => Len(Kept) \in 1 .. Len(Kept)
      <4> HIDE DEF Kept
      <4> QED BY <2>4
    <3> QED BY <2>3, <3>1 DEF Last
  <2> QED BY <2>3, <2>5, <2>6 DEF KeptInOrder
<1> QED BY <1>1, OutputInvariant, PTL

\* The end of a sequence, from place a on.
LEMMA EndIsSuffix ==
  ASSUME NEW t \in Seq(Unit), NEW s \in Seq(Unit), NEW a \in Nat, Len(s) = Len(t) - a,
         \A i \in 1 .. Len(s) : s[i] = t[a + i]
  PROVE  IsSuffix(s, t) /\ (a = 0 => s = t)
<1> DEFINE n == Len(s)  m == Len(t)  x == Reverse(s)  y == Reverse(t)
<1>1. n \in Nat /\ m \in Nat /\ m = n + a OBVIOUS
<1>2. x \in Seq(Unit) /\ Len(x) = n /\ \A i \in 1 .. n : x[i] = s[n - i + 1]
  <2>1. \A i \in 1 .. n : n - i + 1 \in 1 .. n BY <1>1
  <2>2. \A i \in 1 .. n : s[n - i + 1] \in Unit BY <2>1
  <2>3. x \in [1 .. n -> Unit] BY <2>2 DEF Reverse
  <2>4. \A i \in 1 .. n : x[i] = s[n - i + 1] BY DEF Reverse
  <2> HIDE DEF x, n
  <2>5. x \in Seq(Unit) /\ Len(x) = n BY <1>1, <2>3
  <2> QED BY <2>4, <2>5
<1>3. y \in Seq(Unit) /\ Len(y) = m /\ \A i \in 1 .. m : y[i] = t[m - i + 1]
  <2>1. \A i \in 1 .. m : m - i + 1 \in 1 .. m BY <1>1
  <2>2. \A i \in 1 .. m : t[m - i + 1] \in Unit BY <2>1
  <2>3. y \in [1 .. m -> Unit] BY <2>2 DEF Reverse
  <2>4. \A i \in 1 .. m : y[i] = t[m - i + 1] BY DEF Reverse
  <2> HIDE DEF y
  <2>5. y \in Seq(Unit) /\ Len(y) = m BY <1>1, <2>3
  <2> QED BY <2>4, <2>5
<1> HIDE DEF n, m, x, y
<1>4. ASSUME NEW i \in 1 .. n PROVE x[i] = y[i]
  <2>1. n - i + 1 \in 1 .. n /\ i \in 1 .. m /\ a + (n - i + 1) = m - i + 1 BY <1>1
  <2> QED BY <1>2, <1>3, <2>1 DEF n
<1>5. SubSeq(x, 1, n) = SubSeq(y, 1, n)
  <2>1. \A i \in 1 .. n : i \in 1 .. Len(x) /\ i \in 1 .. Len(y) BY <1>1, <1>2, <1>3
  <2>2. SubSeq(x, 1, n) = [i \in 1 .. n |-> x[i]] BY <1>1, <1>2
  <2>3. SubSeq(y, 1, n) = [i \in 1 .. n |-> y[i]] BY <1>1, <1>3
  <2> QED BY <1>4, <2>2, <2>3
<1>6. IsSuffix(s, t)
  <2>1. IsPrefix(x, y) BY <1>1, <1>2, <1>3, <1>5 DEF IsPrefix
  <2> QED BY <2>1 DEF IsSuffix, x, y
<1>7. a = 0 => s = t BY <1>1 DEF n, m
<1> QED BY <1>6, <1>7

\* As long as no rename fails, what is left is the end of the output without a
\* gap, and nothing is deleted while a generation is free, unless kickd died
\* (rotate, docs/settings/log.md).
THEOREM KeptIsTheEnd == OutputSpec => []KeptIsSuffix
<1>1. ASSUME OutputInv PROVE KeptIsSuffix
  <2>1. SUFFICES ASSUME failures = 0
                 PROVE  /\ IsSuffix(Kept, written)
                        /\ (Kept # written /\ step[1] = "write" /\ \A s \in Streams : phase[s] # "lost") =>
                             \A g \in 1 .. Backups : files[g] # <<>>
    BY DEF KeptIsSuffix
  <2>2. OutputTypeOK /\ Sliced /\ written \in Seq(Unit) BY <1>1 DEF OutputInv, OutputTypeOK
  <2>3. PICK lo, hi \in [0 .. Backups -> Nat] : IsSlices(lo, hi) /\ InOrder(lo, hi) /\ Filled(lo)
    BY <2>2 DEF Sliced
  <2>4. PICK a \in Nat : a = lo[Backups]
    <3>1. Backups \in 0 .. Backups BY OutputAssumption
    <3> QED BY <3>1
  <2>5. /\ Kept \in Seq(Unit) /\ Len(Kept) = Len(written) - a
        /\ \A i \in 1 .. Len(Kept) : Kept[i] = written[a + i]
    BY <1>1, <2>1, <2>3, <2>4, KeptIs
  <2>6. IsSuffix(Kept, written) /\ (a = 0 => Kept = written) BY <2>2, <2>5, EndIsSuffix
  <2>7. ASSUME Kept # written, step[1] = "write", \A s \in Streams : phase[s] # "lost"
        PROVE  \A g \in 1 .. Backups : files[g] # <<>>
    <3>1. Unhurt /\ Hole = 0 /\ lo[Backups] # 0 BY <2>1, <2>4, <2>6, <2>7 DEF Unhurt, Hole
    <3>2. \A g \in (1 .. Backups) \ {0} : files[g] # <<>> BY <2>3, <3>1 DEF Filled
    <3>3. \A g \in 1 .. Backups : g # 0 OBVIOUS
    <3> QED BY <3>2, <3>3
  <2> QED BY <2>6, <2>7
<1> QED BY <1>1, OutputInvariant, PTL
=============================================================================
