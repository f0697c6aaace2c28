---------------------------- MODULE KernelProofs ----------------------------
(***************************************************************************)
(* Two parts of the kernel, each on its own, as MCKernel runs them.        *)
(*                                                                         *)
(* Console: what is typed comes out as lines, in order and once, and       *)
(* nobody sleeps beside a line that is ready: for any readers, any size of *)
(* the ring and any width of the counters that is a multiple of it.        *)
(*                                                                         *)
(* AddrSpace: the sizes of the address spaces, the pages and the frames,   *)
(* for any number of slots, spaces and frames, any size of a page and of   *)
(* the memory, and any arguments of sbrk().                                *)
(***************************************************************************)
EXTENDS AddrSpace, Console, FiniteSetTheorems, SequenceTheorems, WellFoundedInduction, TLAPS

-----------------------------------------------------------------------------
(* CONSOLE. *)

Cell == Chars \cup {NL, EOF}
Place == 0 .. (INPUT_BUF - 1)
Counter == 0 .. (Word - 1)

ConsoleTypeOK ==
  /\ buf \in [Place -> Cell] /\ r \in Counter /\ w \in Counter /\ e \in Counter
  /\ pc \in [Readers -> {"user", "read", "falling", "asleep"}]
  /\ asked \in [Readers -> Nat] /\ got \in [Readers -> Seq(Cell)]
  /\ killed \in [Readers -> BOOLEAN]

\* A read() that is under way has not all that it asked for.
ConsoleCalls == \A p \in Readers :
  /\ pc[p] = "user" <=> asked[p] = 0
  /\ pc[p] # "user" => Len(got[p]) < asked[p]

ConsoleIInv == ConsoleTypeOK /\ ConsoleCalls /\ ConsoleInv

-----------------------------------------------------------------------------
(* Counters that wrap. *)

LEMMA ConsoleConstants ==
  /\ INPUT_BUF \in Nat \ {0} /\ Word \in Nat \ {0} /\ INPUT_BUF < Word
  /\ (Word % INPUT_BUF) = 0 /\ Counts \subseteq Nat \ {0}
BY ConsoleAssumption

LEMMA ModIs ==
  ASSUME NEW a \in Int, NEW m \in Nat \ {0}
  PROVE  \E q \in Int, t \in 0..(m - 1) : a = q * m + t /\ a % m = t
<1>1. a % m \in 0..(m - 1)
  OBVIOUS
<1>2. a \div m \in Int /\ a = (a \div m) * m + (a % m)
  OBVIOUS
<1> QED
  BY <1>1, <1>2

LEMMA ModUnique ==
  ASSUME NEW m \in Nat \ {0}, NEW q \in Int, NEW t \in 0..(m - 1)
  PROVE  (q * m + t) % m = t
<1>1. q * m + t \in Int
  OBVIOUS
<1>2. PICK k \in Int, s \in 0..(m - 1) : q * m + t = k * m + s /\ (q * m + t) % m = s
  BY <1>1, ModIs
<1>3. (q - k) * m = s - t
  BY <1>2
<1>4. q - k >= 1 => (q - k) * m >= m
  OBVIOUS
<1>5. q - k <= -1 => (q - k) * m <= -m
  OBVIOUS
<1>6. q = k
  BY <1>3, <1>4, <1>5
<1> QED
  BY <1>2, <1>6

LEMMA ModSmall ==
  ASSUME NEW m \in Nat \ {0}, NEW t \in 0..(m - 1)
  PROVE  t % m = t
<1>1. (0 * m + t) % m = t
  BY ModUnique
<1>2. 0 * m + t = t
  OBVIOUS
<1> QED
  BY <1>1, <1>2

\* Numbers that differ by a multiple of m are one number to a counter.
LEMMA ModTurns ==
  ASSUME NEW m \in Nat \ {0}, NEW a \in Int, NEW k \in Int
  PROVE  (a + k * m) % m = a % m
<1>1. PICK q \in Int, t \in 0..(m - 1) : a = q * m + t /\ a % m = t
  BY ModIs
<1>2. a + k * m = (q + k) * m + t
  BY <1>1
<1>3. ((q + k) * m + t) % m = t
  BY ModUnique
<1> QED
  BY <1>1, <1>2, <1>3

\* Adding to a counter, before or after it wraps.
LEMMA ModAdd ==
  ASSUME NEW m \in Nat \ {0}, NEW a \in Int, NEW i \in Int
  PROVE  ((a % m) + i) % m = (a + i) % m
<1>1. PICK q \in Int, t \in 0..(m - 1) : a = q * m + t /\ a % m = t
  BY ModIs
<1>2. a + i = (t + i) + q * m
  BY <1>1
<1>3. ((t + i) + q * m) % m = (t + i) % m
  <2>1. t + i \in Int
    OBVIOUS
  <2> QED
    BY <2>1, ModTurns, Zenon
<1>4. a % m = t
  BY <1>1
<1> QED
  BY <1>2, <1>3, <1>4, Zenon

\* The distance of two counters.
LEMMA ModSub ==
  ASSUME NEW m \in Nat \ {0}, NEW a \in Int, NEW b \in Int
  PROVE  ((a % m) - (b % m)) % m = (a - b) % m
<1>1. PICK q \in Int, t \in 0..(m - 1) : a = q * m + t /\ a % m = t
  BY ModIs
<1>2. PICK k \in Int, s \in 0..(m - 1) : b = k * m + s /\ b % m = s
  BY ModIs
<1>3. a - b = (t - s) + (q - k) * m
  BY <1>1, <1>2
<1>4. ((t - s) + (q - k) * m) % m = (t - s) % m
  <2>1. t - s \in Int /\ q - k \in Int
    OBVIOUS
  <2> QED
    BY <2>1, ModTurns, Zenon
<1>5. a % m = t /\ b % m = s
  BY <1>1, <1>2
<1> QED
  BY <1>3, <1>4, <1>5, Zenon
\* A place in the ring is the same from a counter as from the number it stands
\* for, because the ring divides the width of the counter.
LEMMA PlaceOf ==
  ASSUME NEW a \in Int, NEW i \in Int
  PROVE  ((a % Word) + i) % INPUT_BUF = (a + i) % INPUT_BUF
<1>1. INPUT_BUF \in Nat \ {0} /\ Word \in Nat \ {0} /\ (Word % INPUT_BUF) = 0
  BY ConsoleConstants
<1>2. PICK c \in Int : Word = c * INPUT_BUF
  BY <1>1, ModIs
<1>3. PICK q \in Int, t \in 0..(Word - 1) : a = q * Word + t /\ a % Word = t
  BY <1>1, ModIs
<1>4. a = t + (q * c) * INPUT_BUF /\ q * c \in Int
  BY <1>1, <1>2, <1>3
<1>5. PICK d \in Int : a = t + d * INPUT_BUF
  BY <1>4
<1>6. a + i = (t + i) + d * INPUT_BUF
  <2>1. PICK f \in Int : f = d * INPUT_BUF
    BY <1>1
  <2> QED
    BY <1>5, <2>1
<1>7. t + i \in Int
  OBVIOUS
<1>8. ((t + i) + d * INPUT_BUF) % INPUT_BUF = (t + i) % INPUT_BUF
  BY <1>1, <1>7, ModTurns, Zenon
<1> QED
  BY <1>3, <1>6, <1>8, Zenon

\* Places that are less than a turn apart are different ones.
LEMMA PlacesDiffer ==
  ASSUME NEW a \in Int, NEW b \in Int, a < b, b < a + INPUT_BUF
  PROVE  /\ a % INPUT_BUF \in Place /\ b % INPUT_BUF \in Place
         /\ a % INPUT_BUF # b % INPUT_BUF
<1>1. INPUT_BUF \in Nat \ {0}
  BY ConsoleConstants
<1>2. PICK q \in Int, t \in 0..(INPUT_BUF - 1) : a = q * INPUT_BUF + t /\ a % INPUT_BUF = t
  BY <1>1, ModIs
<1>3. PICK k \in Int, s \in 0..(INPUT_BUF - 1) : b = k * INPUT_BUF + s /\ b % INPUT_BUF = s
  BY <1>1, ModIs
<1>4. ASSUME s = t PROVE FALSE
  <2>1. b - a = (k - q) * INPUT_BUF
    BY <1>1, <1>2, <1>3, <1>4
  <2>2. k - q >= 1 => (k - q) * INPUT_BUF >= INPUT_BUF
    BY <1>1
  <2>3. k - q <= 0 => (k - q) * INPUT_BUF <= 0
    BY <1>1
  <2> QED
    BY <1>1, <2>1, <2>2, <2>3
<1> QED
  BY <1>2, <1>3, <1>4 DEF Place

LEMMA InPlace ==
  ASSUME NEW a \in Int
  PROVE  a % INPUT_BUF \in Place
BY ConsoleConstants DEF Place

LEMMA InCounter ==
  ASSUME NEW a \in Int
  PROVE  a % Word \in Counter
BY ConsoleConstants DEF Counter

\* The distance of two counters, as consoleintr() and consoleread() compute it.
LEMMA Distance ==
  ASSUME NEW a \in Int, NEW b \in Int
  PROVE  Minus(a % Word, b % Word) = (a - b) % Word
<1>1. Word \in Nat \ {0}
  BY ConsoleConstants
<1>2. a % Word \in Int /\ b % Word \in Int
  BY <1>1
<1>3. PICK x \in Int, y \in Int : x = a % Word /\ y = b % Word
  BY <1>2
<1>4. x + Word - y = (x - y) + 1 * Word
  BY <1>1
<1>5. ((x - y) + 1 * Word) % Word = (x - y) % Word
  <2>1. x - y \in Int /\ 1 \in Int
    OBVIOUS
  <2> QED
    BY <1>1, <2>1, ModTurns, Zenon
<1>6. (x - y) % Word = (a - b) % Word
  BY <1>1, <1>3, ModSub
<1> QED
  BY <1>3, <1>4, <1>5, <1>6 DEF Minus

\* The two parts of the ring, from its counters.
LEMMA Distances ==
  ASSUME NEW x \in Counter, NEW n \in Nat, NEW m \in Nat, n + m <= INPUT_BUF
  PROVE  /\ Minus((x + n) % Word, x) = n
         /\ Minus((x + (n + m)) % Word, x) = n + m
         /\ Minus((x + (n + m)) % Word, (x + n) % Word) = m
<1>1. Word \in Nat \ {0} /\ INPUT_BUF < Word /\ x \in Int /\ INPUT_BUF \in Nat
  BY ConsoleConstants DEF Counter
<1>2. x % Word = x
  BY <1>1, ModSmall DEF Counter
<1>3. n \in 0..(Word - 1) /\ m \in 0..(Word - 1) /\ n + m \in 0..(Word - 1)
  BY <1>1
<1>4. x + n \in Int /\ x + (n + m) \in Int
  BY <1>1
<1>5. (x + n) - x = n /\ (x + (n + m)) - x = n + m /\ (x + (n + m)) - (x + n) = m
  BY <1>1
<1>6. n % Word = n /\ m % Word = m /\ (n + m) % Word = n + m
  BY <1>1, <1>3, ModSmall
<1>7. Minus((x + n) % Word, x % Word) = ((x + n) - x) % Word
  BY <1>1, <1>4, Distance
<1>8. Minus((x + (n + m)) % Word, x % Word) = ((x + (n + m)) - x) % Word
  BY <1>1, <1>4, Distance
<1>9. Minus((x + (n + m)) % Word, (x + n) % Word) = ((x + (n + m)) - (x + n)) % Word
  BY <1>1, <1>4, Distance
<1> QED
  BY <1>2, <1>5, <1>6, <1>7, <1>8, <1>9, Zenon

\* A counter from its distance.
LEMMA Counted ==
  ASSUME NEW x \in Counter, NEW y \in Counter
  PROVE  Minus(y, x) \in Counter /\ (x + Minus(y, x)) % Word = y
<1>1. Word \in Nat \ {0} /\ x \in Int /\ y \in Int
  BY ConsoleConstants DEF Counter
<1>2. x % Word = x /\ y % Word = y
  BY <1>1, ModSmall DEF Counter
<1>3. Minus(y, x) = (y - x) % Word
  <2>1. Minus(y % Word, x % Word) = (y - x) % Word
    BY <1>1, Distance
  <2> QED
    BY <1>2, <2>1, Zenon
<1>4. y - x \in Int /\ (y - x) + x = y
  BY <1>1
<1>5. (((y - x) % Word) + x) % Word = ((y - x) + x) % Word
  BY <1>1, <1>4, ModAdd
<1>6. (y - x) % Word \in Int
  BY <1>1, <1>4
<1>7. x + ((y - x) % Word) = ((y - x) % Word) + x
  BY <1>1, <1>6
<1>8. Minus(y, x) \in Counter
  BY <1>3, <1>4, InCounter
<1> QED
  BY <1>2, <1>3, <1>4, <1>5, <1>7, <1>8, Zenon

-----------------------------------------------------------------------------
(* What lies in the ring. *)

LEMMA LeastOf ==
  ASSUME NEW S \in SUBSET Nat, S # {}
  PROVE  Min(S) \in S /\ \A x \in S : Min(S) <= x
<1>1. IsWellFoundedOn(OpToRel(<, Nat), Nat)
  BY NatLessThanWellFounded
<1>2. PICK least \in S : \A t \in S : <<t, least>> \notin OpToRel(<, Nat)
  BY <1>1, WFMin
<1>3. ASSUME NEW t \in S PROVE least <= t
  <2>1. t \in Nat /\ least \in Nat
    OBVIOUS
  <2>2. ~(t < least)
    BY <1>2, <2>1 DEF OpToRel
  <2> QED
    BY <2>1, <2>2
<1> QED
  BY <1>3 DEF Min

\* n characters of b from counter x on.
Line(b, x, n) == [k \in 1 .. n |-> b[(x + k - 1) % INPUT_BUF]]

LEMMA LineIsSeq ==
  ASSUME NEW b \in [Place -> Cell], NEW x \in Int, NEW n \in Nat
  PROVE  /\ Line(b, x, n) \in Seq(Cell) /\ Len(Line(b, x, n)) = n
         /\ DOMAIN Line(b, x, n) = 1..n
         /\ \A k \in 1..n : Line(b, x, n)[k] = b[(x + k - 1) % INPUT_BUF]
<1>1. \A k \in 1..n : b[(x + k - 1) % INPUT_BUF] \in Cell
  BY InPlace
<1>2. Line(b, x, n) \in [1..n -> Cell]
  BY <1>1 DEF Line
<1>3. Line(b, x, n) \in Seq(Cell) /\ Len(Line(b, x, n)) = n
  BY <1>2
<1> QED
  BY <1>3 DEF Line

\* The end of a line is a line, from the counter where it begins.
LEMMA LineFrom ==
  ASSUME NEW b \in [Place -> Cell], NEW x \in Int, NEW n \in Nat, NEW i \in 0..n
  PROVE  Line(b, (x + i) % Word, n - i) = SubSeq(Line(b, x, n), i + 1, n)
<1>1. Word \in Nat \ {0}
  BY ConsoleConstants
<1>2. (x + i) % Word \in Int /\ x + i \in Int /\ n - i \in Nat
  BY <1>1
<1>3. \A k \in 1..(n - i) : Line(b, (x + i) % Word, n - i)[k] = b[(x + (i + k) - 1) % INPUT_BUF]
  <2> SUFFICES ASSUME NEW k \in 1..(n - i)
               PROVE  Line(b, (x + i) % Word, n - i)[k] = b[(x + (i + k) - 1) % INPUT_BUF]
    OBVIOUS
  <2>1. Line(b, (x + i) % Word, n - i)[k] = b[(((x + i) % Word) + k - 1) % INPUT_BUF]
    BY <1>2, LineIsSeq
  <2>2. (((x + i) % Word) + (k - 1)) % INPUT_BUF = ((x + i) + (k - 1)) % INPUT_BUF
    BY <1>2, PlaceOf
  <2>3. ((x + i) % Word) + k - 1 = ((x + i) % Word) + (k - 1) /\ (x + i) + (k - 1) = x + (i + k) - 1
    BY <1>2
  <2> QED
    BY <2>1, <2>2, <2>3, Zenon
<1>4. \A k \in 1..(n - i) : Line(b, x, n)[i + k] = b[(x + (i + k) - 1) % INPUT_BUF]
  <2>1. \A k \in 1..(n - i) : i + k \in 1..n
    OBVIOUS
  <2> QED
    BY <2>1, LineIsSeq
<1>5. Line(b, x, n) \in Seq(Cell) /\ Len(Line(b, x, n)) = n
  BY LineIsSeq
<1>6. /\ SubSeq(Line(b, x, n), i + 1, n) \in Seq(Cell)
      /\ Len(SubSeq(Line(b, x, n), i + 1, n)) = n - i
      /\ \A k \in 1..(n - i) : SubSeq(Line(b, x, n), i + 1, n)[k] = Line(b, x, n)[i + k]
  <2> DEFINE s == Line(b, x, n)
  <2>1. \A j \in (i + 1)..n : s[j] \in Cell
    BY <1>5
  <2>2. i + 1 \in Int /\ n \in Int
    OBVIOUS
  <2> HIDE DEF s
  <2>3. /\ SubSeq(s, i + 1, n) \in Seq(Cell)
        /\ Len(SubSeq(s, i + 1, n)) = IF i + 1 <= n THEN n - (i + 1) + 1 ELSE 0
        /\ \A k \in 1..(n - (i + 1) + 1) : SubSeq(s, i + 1, n)[k] = s[(i + 1) + k - 1]
    BY <2>1, <2>2, SubSeqProperties
  <2>4. Len(SubSeq(s, i + 1, n)) = n - i
    BY <2>3
  <2>5. \A k \in 1..(n - i) : SubSeq(s, i + 1, n)[k] = s[i + k]
    <3>1. n - (i + 1) + 1 = n - i
      OBVIOUS
    <3>2. \A k \in 1..(n - i) : (i + 1) + k - 1 = i + k
      OBVIOUS
    <3> QED
      BY <2>3, <3>1, <3>2
  <2> QED
    BY <2>3, <2>4, <2>5 DEF s
<1>7. Line(b, (x + i) % Word, n - i) \in Seq(Cell) /\ Len(Line(b, (x + i) % Word, n - i)) = n - i
  BY <1>2, LineIsSeq
<1> QED
  BY <1>3, <1>4, <1>6, <1>7, SeqEqual

LEMMA LineAfter ==
  ASSUME NEW b \in [Place -> Cell], NEW x \in Int, NEW n \in Nat, NEW m \in Nat
  PROVE  Line(b, (x + n) % Word, m) = SubSeq(Line(b, x, n + m), n + 1, n + m)
<1>1. n + m \in Nat /\ n \in 0..(n + m) /\ (n + m) - n = m
  OBVIOUS
<1>2. Line(b, (x + n) % Word, (n + m) - n) = SubSeq(Line(b, x, n + m), n + 1, n + m)
  BY <1>1, LineFrom
<1> QED
  BY <1>1, <1>2

\* Two lines that follow each other are one.
LEMMA LinesJoin ==
  ASSUME NEW b \in [Place -> Cell], NEW x \in Int, NEW n \in Nat, NEW m \in Nat
  PROVE  Line(b, x, n + m) = Line(b, x, n) \o Line(b, (x + n) % Word, m)
<1> DEFINE s == Line(b, x, n)
           t == Line(b, (x + n) % Word, m)
           u == Line(b, x, n + m)
<1>1. n + m \in Nat /\ n \in 0..(n + m) /\ (n + m) - n = m /\ (x + n) % Word \in Int
  BY ConsoleConstants
<1>2. s \in Seq(Cell) /\ t \in Seq(Cell) /\ u \in Seq(Cell) /\ Len(s) = n /\ Len(t) = m /\ Len(u) = n + m
  BY <1>1, LineIsSeq
<1>3. \A k \in 1..n : u[k] = s[k]
  BY <1>1, LineIsSeq
<1>4. t = SubSeq(u, n + 1, n + m)
  BY LineAfter
<1>5. \A k \in 1..m : t[k] = u[n + k]
  <2> HIDE DEF s, t, u
  <2> QED
    BY <1>2, <1>4
<1> HIDE DEF s, t, u
<1>6. s \o t \in Seq(Cell) /\ Len(s \o t) = n + m
  BY <1>2, SMTT(30)
<1>7. \A k \in 1..(n + m) : (s \o t)[k] = u[k]
  <2> SUFFICES ASSUME NEW k \in 1..(n + m) PROVE (s \o t)[k] = u[k]
    OBVIOUS
  <2>1. (s \o t)[k] = IF k <= n THEN s[k] ELSE t[k - n]
    BY <1>2, ConcatProperties
  <2>2. CASE k <= n
    BY <1>3, <2>1, <2>2
  <2>3. CASE k > n
    <3>1. PICK j \in 1..m : k = n + j /\ k - n = j
      BY <2>3
    <3> QED
      BY <1>5, <2>1, <2>3, <3>1
  <2>4. k <= n \/ k > n
    OBVIOUS
  <2> QED
    BY <2>2, <2>3, <2>4, Zenon
<1>8. s \o t = u
  BY <1>2, <1>6, <1>7, SeqEqual
<1> QED
  BY <1>8 DEF s, t, u

\* A line without its last character.
LEMMA LineFront ==
  ASSUME NEW b \in [Place -> Cell], NEW x \in Int, NEW n \in Nat \ {0}
  PROVE  Line(b, x, n - 1) = Front(Line(b, x, n))
<1>1. n - 1 \in Nat
  OBVIOUS
<1>2. Line(b, x, n) \in Seq(Cell) /\ Len(Line(b, x, n)) = n
  BY LineIsSeq
<1>3. Line(b, x, n - 1) \in Seq(Cell) /\ Len(Line(b, x, n - 1)) = n - 1
  BY <1>1, LineIsSeq
<1>4. \A k \in 1..(n - 1) : Line(b, x, n - 1)[k] = Line(b, x, n)[k]
  <2>1. \A k \in 1..(n - 1) : k \in 1..n
    OBVIOUS
  <2> QED
    BY <1>1, <2>1, LineIsSeq
<1> DEFINE s == Line(b, x, n)
           t == Line(b, x, n - 1)
<1> HIDE DEF s, t
<1>5. s \in Seq(Cell) /\ Len(s) = n /\ t \in Seq(Cell) /\ Len(t) = n - 1 /\ \A k \in 1..(n - 1) : t[k] = s[k]
  BY <1>2, <1>3, <1>4 DEF s, t
<1>6. Front(s) \in Seq(Cell) /\ Len(Front(s)) = n - 1 /\ \A k \in 1..(n - 1) : Front(s)[k] = s[k]
  BY <1>5 DEF Front
<1>7. t = Front(s)
  BY <1>5, <1>6, SeqEqual
<1> QED
  BY <1>7 DEF s, t

\* The lines of a ring in which one more character is stored behind them.
Stored(b, d, c, last) == d[last] = c /\ \A k \in Place : k # last => d[k] = b[k]

Behind(x, y, n, m, last) ==
  n + m < INPUT_BUF /\ y = (x + n) % Word /\ last = (x + (n + m)) % INPUT_BUF

OneMore(b, d, c, x, y, n, m) ==
  /\ Line(d, x, n) = Line(b, x, n)
  /\ Line(d, y, m) = Line(b, y, m)
  /\ Line(d, y, m + 1) = Append(Line(b, y, m), c)
  /\ Line(d, x, n + (m + 1)) = Line(b, x, n) \o Append(Line(b, y, m), c)

LEMMA LineStored ==
  ASSUME NEW b \in [Place -> Cell], NEW d \in [Place -> Cell], NEW c \in Cell, NEW last \in Place,
         NEW x \in Int, NEW y \in Int, NEW n \in Nat, NEW m \in Nat,
         Behind(x, y, n, m, last), Stored(b, d, c, last)
  PROVE  OneMore(b, d, c, x, y, n, m)
<1> USE DEF Behind, Stored
<1>1. \A k \in 1..(n + m) : d[(x + k - 1) % INPUT_BUF] = b[(x + k - 1) % INPUT_BUF]
  <2> SUFFICES ASSUME NEW k \in 1..(n + m)
               PROVE  d[(x + k - 1) % INPUT_BUF] = b[(x + k - 1) % INPUT_BUF]
    OBVIOUS
  <2>1. x + k - 1 \in Int /\ x + (n + m) \in Int /\ x + k - 1 < x + (n + m) /\ x + (n + m) < x + k - 1 + INPUT_BUF
    BY ConsoleConstants
  <2>2. (x + k - 1) % INPUT_BUF \in Place /\ (x + k - 1) % INPUT_BUF # (x + (n + m)) % INPUT_BUF
    BY <2>1, PlacesDiffer
  <2> QED
    BY <2>2
<1>2. Line(d, x, n) = Line(b, x, n)
  <2>1. \A k \in 1..n : k \in 1..(n + m)
    OBVIOUS
  <2> QED
    BY <1>1, <2>1 DEF Line
<1>3. Line(d, x, n + m) = Line(b, x, n + m)
  BY <1>1 DEF Line
<1>4. Line(d, y, m) = Line(b, y, m)
  <2>1. Line(d, (x + n) % Word, m) = SubSeq(Line(d, x, n + m), n + 1, n + m)
    BY LineAfter
  <2>2. Line(b, (x + n) % Word, m) = SubSeq(Line(b, x, n + m), n + 1, n + m)
    BY LineAfter
  <2> QED
    BY <1>3, <2>1, <2>2, Zenon
<1>5. PICK z \in Int : z = (y + m) % Word
  BY ConsoleConstants
<1>6. z % INPUT_BUF = last
  <2>1. Word \in Nat \ {0} /\ x + n \in Int /\ x + (n + m) \in Int /\ (x + n) + m = x + (n + m)
    BY ConsoleConstants
  <2>2. (((x + n) % Word) + m) % Word = ((x + n) + m) % Word
    <3>1. m \in Int
      OBVIOUS
    <3> QED
      BY <2>1, <3>1, ModAdd, Zenon
  <2>3. z = (x + (n + m)) % Word
    BY <1>5, <2>1, <2>2, Zenon
  <2>4. PICK v \in Int : v = x + (n + m)
    BY <2>1
  <2>5. ((v % Word) + 0) % INPUT_BUF = (v + 0) % INPUT_BUF
    <3>1. 0 \in Int
      OBVIOUS
    <3> QED
      BY <2>4, <3>1, PlaceOf, Zenon
  <2>6. v % Word = z
    BY <2>3, <2>4, Zenon
  <2>7. z + 0 = z /\ v + 0 = v
    OBVIOUS
  <2>8. (z + 0) % INPUT_BUF = (v + 0) % INPUT_BUF
    BY <2>5, <2>6, Zenon
  <2>9. z % INPUT_BUF = v % INPUT_BUF
    BY <2>7, <2>8, Zenon
  <2>10. v % INPUT_BUF = last
    BY <2>4
  <2> QED
    BY <2>9, <2>10
<1>7. Line(d, z, 1) = <<c>>
  <2>1. Line(d, z, 1) \in Seq(Cell) /\ Len(Line(d, z, 1)) = 1 /\ \A k \in 1..1 : Line(d, z, 1)[k] = d[(z + k - 1) % INPUT_BUF]
    <3>1. 1 \in Nat
      OBVIOUS
    <3> QED
      BY <3>1, LineIsSeq, Zenon
  <2>2. z + 1 - 1 = z /\ 1 \in 1..1
    OBVIOUS
  <2>3. Line(d, z, 1)[1] = c
    BY <1>6, <2>1, <2>2, Zenon
  <2>4. PICK s \in Seq(Cell) : s = Line(d, z, 1)
    BY <2>1
  <2>5. <<c>> \in Seq(Cell) /\ Len(<<c>>) = 1 /\ <<c>>[1] = c
    OBVIOUS
  <2>6. Len(s) = Len(<<c>>) /\ \A k \in 1..Len(s) : s[k] = <<c>>[k]
    <3>1. Len(s) = 1 /\ s[1] = c
      BY <2>1, <2>3, <2>4
    <3>2. \A k \in 1..Len(s) : k = 1
      BY <3>1
    <3> QED
      BY <2>5, <3>1, <3>2
  <2> QED
    BY <2>4, <2>5, <2>6, SeqEqual
<1>8. Line(d, y, m + 1) = Line(d, y, m) \o Line(d, z, 1)
  <2>1. Line(d, y, m + 1) = Line(d, y, m) \o Line(d, (y + m) % Word, 1)
    <3>1. 1 \in Nat
      OBVIOUS
    <3> QED
      BY <3>1, LinesJoin, Zenon
  <2> QED
    BY <1>5, <2>1, Zenon
<1>9. Line(b, y, m) \in Seq(Cell)
  BY LineIsSeq
<1>10. Line(d, y, m + 1) = Append(Line(b, y, m), c)
  <2>1. Append(Line(b, y, m), c) = Line(b, y, m) \o <<c>>
    BY <1>9, AppendIsConcat
  <2> QED
    BY <1>4, <1>7, <1>8, <2>1, Zenon
<1>11. Line(d, x, n + (m + 1)) = Line(b, x, n) \o Append(Line(b, y, m), c)
  <2>1. Line(d, x, n + (m + 1)) = Line(d, x, n) \o Line(d, (x + n) % Word, m + 1)
    <3>1. m + 1 \in Nat
      OBVIOUS
    <3> QED
      BY <3>1, LinesJoin, ZenonT(30)
  <2> QED
    BY <1>2, <1>10, <2>1, Zenon
<1> QED
  BY <1>2, <1>4, <1>10, <1>11, Zenon DEF OneMore

-----------------------------------------------------------------------------
(* The two parts of the ring: n characters that are ready and m that are    *)
(* being typed.                                                             *)

Parts(n, m) ==
  /\ n + m <= INPUT_BUF /\ (n + m = INPUT_BUF => m = 0)
  /\ w = (r + n) % Word /\ e = (r + (n + m)) % Word
  /\ Minus(w, r) = n /\ Minus(e, r) = n + m /\ Minus(e, w) = m
  /\ n = 0 <=> r = w
  /\ m = 0 <=> w = e
  /\ Between(r, w) = Line(buf, r, n) /\ Len(Between(r, w)) = n /\ Between(r, w) \in Seq(Cell)
  /\ Between(w, e) = Line(buf, w, m) /\ Len(Between(w, e)) = m /\ Between(w, e) \in Seq(Cell)

\* The counters that bound two parts, and what follows for the ring.
Bounds(x, y, z, n, m) ==
  n + m <= INPUT_BUF /\ y = (x + n) % Word /\ z = (x + (n + m)) % Word

LEMMA Rejoined ==
  ASSUME NEW b \in [Place -> Cell], NEW x \in Counter, NEW n \in Nat, NEW m \in Nat,
         NEW y, NEW z, Bounds(x, y, z, n, m)
  PROVE  /\ y \in Counter /\ z \in Counter
         /\ Minus(y, x) = n /\ Minus(z, x) = n + m /\ Minus(z, y) = m
         /\ n = 0 <=> x = y
         /\ m = 0 <=> y = z
         /\ Line(b, x, n) \in Seq(Cell) /\ Len(Line(b, x, n)) = n
         /\ Line(b, y, m) \in Seq(Cell) /\ Len(Line(b, y, m)) = m
<1> USE DEF Bounds
<1>1. Word \in Nat \ {0} /\ INPUT_BUF < Word /\ INPUT_BUF \in Nat /\ x \in Int /\ x + n \in Int /\ x + (n + m) \in Int
  BY ConsoleConstants DEF Counter
<1>2. y \in Counter /\ z \in Counter
  BY <1>1, InCounter
<1>3. Minus(y, x) = n /\ Minus(z, x) = n + m /\ Minus(z, y) = m
  BY Distances
<1>4. \A v \in Counter : Minus(v, v) = 0
  <2> SUFFICES ASSUME NEW v \in Counter PROVE Minus(v, v) = 0
    OBVIOUS
  <2>1. v \in Int /\ v + Word - v = 0 + 1 * Word /\ 0 \in Int /\ 1 \in Int /\ 0 \in 0..(Word - 1)
    BY <1>1 DEF Counter
  <2>2. (0 + 1 * Word) % Word = 0 % Word
    BY <1>1, <2>1, ModTurns, Zenon
  <2>3. 0 % Word = 0
    BY <1>1, <2>1, ModSmall, Zenon
  <2> QED
    BY <2>1, <2>2, <2>3 DEF Minus
<1>5. n = 0 => x = y
  <2>1. x % Word = x
    BY <1>1, ModSmall DEF Counter
  <2>2. n = 0 => x + n = x
    BY <1>1
  <2> QED
    BY <2>1, <2>2
<1>6. m = 0 => y = z
  <2>1. m = 0 => x + (n + m) = x + n
    BY <1>1
  <2> QED
    BY <2>1
<1>7. n = 0 <=> x = y
  BY <1>3, <1>4, <1>5, Zenon
<1>8. m = 0 <=> y = z
  BY <1>2, <1>3, <1>4, <1>6, Zenon
<1>9. y \in Int
  BY <1>1, <1>2 DEF Counter
<1>10. Line(b, x, n) \in Seq(Cell) /\ Len(Line(b, x, n)) = n
  BY <1>1, LineIsSeq, Zenon
<1>11. Line(b, y, m) \in Seq(Cell) /\ Len(Line(b, y, m)) = m
  BY <1>9, LineIsSeq, Zenon
<1> QED
  BY <1>2, <1>3, <1>7, <1>8, <1>10, <1>11, Zenon

LEMMA Opened ==
  ASSUME ConsoleTypeOK, ConsoleInv
  PROVE  \E n \in Nat, m \in Nat : Parts(n, m)
<1>1. Word \in Nat \ {0} /\ INPUT_BUF \in Nat
  BY ConsoleConstants
<1>2. PICK n \in Nat : n = Minus(w, r)
  BY Counted DEF ConsoleTypeOK, Counter
<1>3. PICK i \in Nat : i = Minus(e, r)
  BY Counted DEF ConsoleTypeOK, Counter
<1>4. n <= i /\ i <= INPUT_BUF
  BY <1>2, <1>3 DEF ConsoleInv
<1>5. PICK m \in Nat : i = n + m
  <2>1. i - n \in Nat /\ i = n + (i - n)
    BY <1>4
  <2> QED
    BY <2>1
<1>6. w = (r + n) % Word /\ e = (r + (n + m)) % Word
  <2>1. w = (r + n) % Word
    BY <1>2, Counted DEF ConsoleTypeOK
  <2>2. e = (r + i) % Word
    BY <1>3, Counted DEF ConsoleTypeOK
  <2> QED
    BY <1>5, <2>1, <2>2
<1>7. n + m <= INPUT_BUF
  BY <1>4, <1>5
<1>8. r \in Counter /\ buf \in [Place -> Cell]
  BY DEF ConsoleTypeOK
<1>9. /\ Minus(w, r) = n /\ Minus(e, r) = n + m /\ Minus(e, w) = m
      /\ n = 0 <=> r = w
      /\ m = 0 <=> w = e
      /\ Line(buf, r, n) \in Seq(Cell) /\ Len(Line(buf, r, n)) = n
      /\ Line(buf, w, m) \in Seq(Cell) /\ Len(Line(buf, w, m)) = m
  <2>1. Bounds(r, w, e, n, m)
    BY <1>6, <1>7, Zenon DEF Bounds
  <2> QED
    BY <1>8, <2>1, Rejoined
<1>10. Between(r, w) = Line(buf, r, n) /\ Between(w, e) = Line(buf, w, m)
  BY <1>9 DEF Between, Line
<1>11. n + m = INPUT_BUF => m = 0
  BY <1>9 DEF ConsoleInv
<1>12. Parts(n, m)
  BY <1>6, <1>7, <1>9, <1>10, <1>11, Zenon DEF Parts
<1> QED
  BY <1>12

\* The invariant of the ring holds again when the parts are n and m, and the
\* two sequences of the terminal are those lines.
LEMMA Again ==
  ASSUME NEW n \in Nat, NEW m \in Nat, n + m <= INPUT_BUF, n + m = INPUT_BUF => m = 0,
         r' \in Counter, buf' \in [Place -> Cell],
         w' = (r' + n) % Word, e' = (r' + (n + m)) % Word,
         ToSet(Line(buf', w', m)) \cap {NL, EOF} = {},
         n # 0 => \A p \in Readers : pc'[p] \notin {"falling", "asleep"}
  PROVE  /\ ConsoleInv' /\ w' \in Counter /\ e' \in Counter
         /\ Between(r, w)' = Line(buf', r', n) /\ Between(w, e)' = Line(buf', w', m)
<1>1. /\ w' \in Counter /\ e' \in Counter
      /\ Minus(w', r') = n /\ Minus(e', r') = n + m /\ Minus(e', w') = m
      /\ n = 0 <=> r' = w'
      /\ m = 0 <=> w' = e'
  <2>1. Bounds(r', w', e', n, m)
    BY DEF Bounds
  <2> QED
    BY <2>1, Rejoined
<1>2. Between(r, w)' = Line(buf', r', n) /\ Between(w, e)' = Line(buf', w', m)
  BY <1>1 DEF Between, Line
<1>3. \A p \in Readers : pc'[p] \in {"falling", "asleep"} => r' = w'
  BY <1>1
<1>4. n + m <= INPUT_BUF /\ n <= n + m
  OBVIOUS
<1>5. ConsoleInv'
  <2>1. Minus(e, r)' <= INPUT_BUF /\ Minus(w, r)' <= Minus(e, r)'
    <3>1. Minus(e, r)' = n + m /\ Minus(w, r)' = n
      BY <1>1 DEF Minus
    <3> QED
      BY <1>4, <3>1
  <2>2. Minus(e, r)' = INPUT_BUF => w' = e'
    <3>1. Minus(e, r)' = n + m
      BY <1>1 DEF Minus
    <3> QED
      BY <1>1, <3>1
  <2>3. ToSet(Between(w, e))' \cap {NL, EOF} = {}
    <3>1. ToSet(Between(w, e))' = ToSet(Line(buf', w', m))
      BY <1>2 DEF ToSet
    <3> QED
      BY <3>1
  <2> QED
    BY <1>3, <2>1, <2>2, <2>3, Zenon DEF ConsoleInv
<1> QED
  BY <1>1, <1>2, <1>5

-----------------------------------------------------------------------------
(* consoleintr() *)

LEMMA TypedStep ==
  ASSUME ConsoleIInv, NEW c \in Cell, Typed(c)
  PROVE  ConsoleIInv' /\ Abstract!Type(c)
<1>1. PICK n \in Nat, m \in Nat : Parts(n, m)
  BY Opened DEF ConsoleIInv
<1>2. n + m < INPUT_BUF /\ INPUT_BUF \in Nat /\ Word \in Nat \ {0} /\ INPUT_BUF < Word
  BY <1>1, ConsoleConstants DEF Typed, Parts
<1>3. r \in Counter /\ r \in Int /\ buf \in [Place -> Cell] /\ w \in Counter /\ w \in Int
  BY DEF ConsoleIInv, ConsoleTypeOK, Counter
<1>4. r' = r /\ asked' = asked /\ got' = got /\ killed' = killed
  BY DEF Typed
<1>5. PICK last \in Place : last = (r + (n + m)) % INPUT_BUF /\ last = e % INPUT_BUF
  <2>1. PICK v \in Int : v = r + (n + m)
    BY <1>3
  <2>2. v % INPUT_BUF \in Place
    BY InPlace
  <2>3. ((v % Word) + 0) % INPUT_BUF = (v + 0) % INPUT_BUF
    <3>1. 0 \in Int
      OBVIOUS
    <3> QED
      BY <3>1, PlaceOf, Zenon
  <2>4. PICK z \in Int : z = v % Word
    BY <1>2
  <2>5. z = e
    BY <1>1, <2>1, <2>4 DEF Parts
  <2>6. z + 0 = z /\ v + 0 = v
    OBVIOUS
  <2>7. (z + 0) % INPUT_BUF = (v + 0) % INPUT_BUF
    BY <2>3, <2>4, Zenon
  <2>8. z % INPUT_BUF = v % INPUT_BUF
    BY <2>6, <2>7, Zenon
  <2>9. e % INPUT_BUF = v % INPUT_BUF
    BY <2>5, <2>8, Zenon
  <2> QED
    BY <2>1, <2>2, <2>9, Zenon
<1>6. buf' = [buf EXCEPT ![last] = c]
  BY <1>5 DEF Typed
<1>7. buf' \in [Place -> Cell] /\ buf'[last] = c /\ \A k \in Place : k # last => buf'[k] = buf[k]
  BY <1>3, <1>6
<1>8. e' = (r + (n + m + 1)) % Word
  <2>1. e' = (e + 1) % Word /\ e = (r + (n + m)) % Word
    BY <1>1 DEF Typed, Parts
  <2>2. PICK v \in Int : v = r + (n + m) /\ v + 1 = r + (n + m + 1)
    BY <1>3
  <2>3. ((v % Word) + 1) % Word = (v + 1) % Word
    <3>1. 1 \in Int
      OBVIOUS
    <3> QED
      BY <1>2, <3>1, ModAdd, Zenon
  <2> QED
    BY <2>1, <2>2, <2>3, Zenon
<1>9. PICK i \in Nat : i = n + m + 1 /\ i = n + (m + 1) /\ i <= INPUT_BUF
  BY <1>2
<1>10. e' = (r + INPUT_BUF) % Word <=> i = INPUT_BUF
  <2>1. e' = (r + i) % Word
    BY <1>8, <1>9
  <2>2. Minus((r + i) % Word, r) = i
    <3>1. 0 \in Nat /\ i + 0 <= INPUT_BUF
      BY <1>9
    <3> QED
      BY <1>3, <3>1, Distances, Zenon
  <2>3. Minus((r + INPUT_BUF) % Word, r) = INPUT_BUF
    <3>1. 0 \in Nat /\ INPUT_BUF + 0 <= INPUT_BUF
      BY <1>2
    <3> QED
      BY <1>2, <1>3, <3>1, Distances, Zenon
  <2> QED
    BY <2>1, <2>2, <2>3, Zenon
<1>11. /\ Between(r, w) = Line(buf, r, n) /\ Between(w, e) = Line(buf, w, m)
       /\ Len(Between(r, w)) = n /\ Len(Between(w, e)) = m
       /\ Between(r, w) \in Seq(Cell) /\ Between(w, e) \in Seq(Cell)
  BY <1>1 DEF Parts
<1>12. w = (r + n) % Word
  BY <1>1 DEF Parts
<1>13. /\ Line(buf', r, n) = Line(buf, r, n)
       /\ Line(buf', w, m + 1) = Append(Line(buf, w, m), c)
       /\ Line(buf', r, n + (m + 1)) = Line(buf, r, n) \o Append(Line(buf, w, m), c)
  <2>1. Behind(r, w, n, m, last)
    BY <1>2, <1>5, <1>12, Zenon DEF Behind
  <2>2. Stored(buf, buf', c, last)
    BY <1>7 DEF Stored
  <2> QED
    <3>1. buf \in [Place -> Cell] /\ buf' \in [Place -> Cell] /\ r \in Int /\ w \in Int
      BY <1>3, <1>7
    <3>2. OneMore(buf, buf', c, r, w, n, m)
      BY <2>1, <2>2, <3>1, LineStored
    <3> QED
      BY <3>2, Zenon DEF OneMore
<1>14. \A p \in Readers : pc[p] # "falling"
  BY DEF Typed, LockFree
<1>15. CASE c \in {NL, EOF} \/ i = INPUT_BUF
  <2>1. w' = e' /\ pc' = [p \in Readers |-> IF pc[p] = "asleep" THEN "read" ELSE pc[p]]
    BY <1>10, <1>15 DEF Typed, Wakeup
  <2>2. /\ ConsoleInv' /\ w' \in Counter /\ e' \in Counter
        /\ Between(r, w)' = Line(buf', r', i) /\ Between(w, e)' = Line(buf', w', 0)
    <3>1. i + 0 = i /\ i <= INPUT_BUF /\ 0 \in Nat
      BY <1>9
    <3>2. w' = (r' + i) % Word /\ e' = (r' + (i + 0)) % Word
      BY <1>4, <1>8, <1>9, <2>1, <3>1
    <3>3. ToSet(Line(buf', w', 0)) \cap {NL, EOF} = {}
      BY DEF Line, ToSet
    <3>4. \A p \in Readers : pc'[p] \notin {"falling", "asleep"}
      BY <1>14, <2>1
    <3>5. r' \in Counter
      BY <1>3, <1>4
    <3>6. i + 0 <= INPUT_BUF /\ (i + 0 = INPUT_BUF => 0 = 0)
      BY <3>1
    <3> QED
      BY <1>7, <3>1, <3>2, <3>3, <3>4, <3>5, <3>6, Again, Zenon
  <2>3. ConsoleTypeOK'
    BY <1>3, <1>4, <1>7, <2>1, <2>2 DEF ConsoleIInv, ConsoleTypeOK
  <2>4. ConsoleCalls'
    BY <1>4, <2>1 DEF ConsoleIInv, ConsoleTypeOK, ConsoleCalls
  <2>5. Abstract!Type(c)
    <3>1. Between(r, w)' = Between(r, w) \o Append(Between(w, e), c)
      BY <1>4, <1>9, <1>11, <1>13, <2>2, Zenon
    <3>2. Between(w, e)' = <<>>
      BY <2>2 DEF Line
    <3>3. Len(Between(r, w)) + Len(Between(w, e)) < INPUT_BUF
      BY <1>2, <1>11
    <3>4. c \in {NL, EOF} \/ Len(Between(r, w)) + Len(Between(w, e)) + 1 = INPUT_BUF
      BY <1>9, <1>11, <1>15
    <3> QED
      BY <1>4, <3>1, <3>2, <3>3, <3>4, Zenon DEF Abstract!Type
  <2> QED
    BY <2>2, <2>3, <2>4, <2>5 DEF ConsoleIInv
<1>16. CASE ~(c \in {NL, EOF} \/ i = INPUT_BUF)
  <2>1. w' = w /\ pc' = pc
    BY <1>10, <1>16 DEF Typed
  <2>2. /\ ConsoleInv' /\ w' \in Counter /\ e' \in Counter
        /\ Between(r, w)' = Line(buf', r', n) /\ Between(w, e)' = Line(buf', w', m + 1)
    <3>1. m + 1 \in Nat /\ n + (m + 1) <= INPUT_BUF /\ (n + (m + 1) = INPUT_BUF => m + 1 = 0)
      BY <1>9, <1>16
    <3>2. w' = (r' + n) % Word /\ e' = (r' + (n + (m + 1))) % Word
      BY <1>4, <1>8, <1>9, <1>12, <2>1
    <3>3. ToSet(Line(buf', w', m + 1)) \cap {NL, EOF} = {}
      <4> DEFINE s == Between(w, e)
      <4>1. s \in Seq(Cell) /\ ToSet(s) \cap {NL, EOF} = {}
        BY <1>11 DEF ConsoleIInv, ConsoleInv
      <4>2. Line(buf', w', m + 1) = Append(s, c)
        BY <1>11, <1>13, <2>1
      <4> HIDE DEF s
      <4>3. ToSet(Append(s, c)) \cap {NL, EOF} = {}
        BY <1>16, <4>1, SMTT(30) DEF ToSet
      <4> QED
        BY <4>2, <4>3
    <3>4. n # 0 => \A p \in Readers : pc'[p] \notin {"falling", "asleep"}
      BY <1>1, <2>1 DEF Parts, ConsoleIInv, ConsoleInv
    <3>5. r' \in Counter
      BY <1>3, <1>4
    <3> QED
      BY <1>7, <3>1, <3>2, <3>3, <3>4, <3>5, Again, Zenon
  <2>3. ConsoleTypeOK'
    BY <1>3, <1>4, <1>7, <2>1, <2>2 DEF ConsoleIInv, ConsoleTypeOK
  <2>4. ConsoleCalls'
    BY <1>4, <2>1 DEF ConsoleIInv, ConsoleTypeOK, ConsoleCalls
  <2>5. Abstract!Type(c)
    <3>1. Between(r, w)' = Between(r, w)
      BY <1>4, <1>11, <1>13, <2>2, Zenon
    <3>2. Between(w, e)' = Append(Between(w, e), c)
      BY <1>11, <1>13, <2>1, <2>2, Zenon
    <3>3. Len(Between(r, w)) + Len(Between(w, e)) < INPUT_BUF
      BY <1>2, <1>11
    <3>4. ~(c \in {NL, EOF} \/ Len(Between(r, w)) + Len(Between(w, e)) + 1 = INPUT_BUF)
      BY <1>9, <1>11, <1>16
    <3> QED
      BY <1>4, <3>1, <3>2, <3>3, <3>4, Zenon DEF Abstract!Type
  <2> QED
    BY <2>2, <2>3, <2>4, <2>5 DEF ConsoleIInv
<1> QED
  BY <1>15, <1>16

-----------------------------------------------------------------------------
(* Erasing. *)

LEMMA PlaceMod ==
  ASSUME NEW a \in Int
  PROVE  (a % Word) % INPUT_BUF = a % INPUT_BUF
<1>1. PICK z \in Int : z = a % Word
  BY ConsoleConstants
<1>2. ((a % Word) + 0) % INPUT_BUF = (a + 0) % INPUT_BUF
  <2>1. 0 \in Int
    OBVIOUS
  <2> QED
    BY <2>1, PlaceOf, Zenon
<1>3. z + 0 = z /\ a + 0 = a
  OBVIOUS
<1>4. (z + 0) % INPUT_BUF = (a + 0) % INPUT_BUF
  BY <1>1, <1>2, Zenon
<1>5. z % INPUT_BUF = a % INPUT_BUF
  BY <1>3, <1>4, Zenon
<1> QED
  BY <1>1, <1>5, Zenon

LEMMA Back ==
  ASSUME NEW a \in Int, NEW k \in Int
  PROVE  Minus(a % Word, k) = (a - k) % Word
<1>1. Word \in Nat \ {0}
  BY ConsoleConstants
<1>2. PICK z \in Int : z = a % Word
  BY <1>1
<1>3. z + Word - k = (z + (-k)) + 1 * Word /\ -k \in Int /\ z + (-k) \in Int /\ 1 \in Int
  BY <1>1
<1>4. ((z + (-k)) + 1 * Word) % Word = (z + (-k)) % Word
  BY <1>1, <1>3, ModTurns, Zenon
<1>5. ((a % Word) + (-k)) % Word = (a + (-k)) % Word
  BY <1>1, <1>3, ModAdd, Zenon
<1>6. a + (-k) = a - k
  OBVIOUS
<1>7. Minus(z, k) = (z + Word - k) % Word
  BY DEF Minus
<1>8. Minus(z, k) = (z + (-k)) % Word
  BY <1>3, <1>4, <1>7, Zenon
<1> QED
  BY <1>2, <1>5, <1>6, <1>8, Zenon

\* The characters of the line that is typed, counted from its end.
LEMMA FromTheEnd ==
  ASSUME ConsoleIInv, NEW n \in Nat, NEW m \in Nat, Parts(n, m), NEW k \in 0..(m - 1)
  PROVE  Before(Minus(e, k)) \notin {NL, EOF}
<1>1. r \in Int /\ w \in Int /\ buf \in [Place -> Cell] /\ w = (r + n) % Word /\ e = (r + (n + m)) % Word
  BY DEF ConsoleIInv, ConsoleTypeOK, Parts, Counter
<1>2. PICK j \in 1..m : j = m - k
  OBVIOUS
<1>3. PICK a \in Int, b \in Int, c \in Int :
        a = r + (n + m) /\ b = r + n /\ c = b + (j - 1) /\ c = (a - k) - 1 /\ a - k \in Int /\ j - 1 \in Int
  BY <1>1, <1>2
<1>4. Minus(e, k) = (a - k) % Word
  BY <1>1, <1>3, Back
<1>5. Minus(Minus(e, k), 1) = c % Word
  <2>1. PICK d \in Int : d = a - k /\ c = d - 1
    BY <1>3
  <2>2. Minus(d % Word, 1) = (d - 1) % Word
    <3>1. 1 \in Int
      OBVIOUS
    <3> QED
      BY <3>1, Back, Zenon
  <2> QED
    BY <1>4, <2>1, <2>2, Zenon
<1>6. (c % Word) % INPUT_BUF = c % INPUT_BUF
  BY PlaceMod
<1>7. Before(Minus(e, k)) = buf[c % INPUT_BUF]
  BY <1>5, <1>6, Zenon DEF Before
<1>8. Line(buf, w, m)[j] = buf[(w + j - 1) % INPUT_BUF]
  BY <1>1, LineIsSeq
<1>9. (w + j - 1) % INPUT_BUF = c % INPUT_BUF
  <2>1. ((b % Word) + (j - 1)) % INPUT_BUF = (b + (j - 1)) % INPUT_BUF
    BY <1>3, PlaceOf
  <2>2. w = b % Word
    BY <1>1, <1>3
  <2>3. w + j - 1 = w + (j - 1)
    BY <1>1
  <2> QED
    BY <1>3, <2>1, <2>2, <2>3, Zenon
<1>10. Between(w, e) = Line(buf, w, m) /\ ToSet(Between(w, e)) \cap {NL, EOF} = {}
  BY DEF Parts, ConsoleIInv, ConsoleInv
<1>11. j \in DOMAIN Line(buf, w, m)
  BY DEF Line
<1>12. Line(buf, w, m)[j] \notin {NL, EOF}
  BY <1>10, <1>11 DEF ToSet
<1> QED
  BY <1>7, <1>8, <1>9, <1>12, Zenon

\* The typed line has become its first i characters.
LEMMA Erased ==
  ASSUME ConsoleIInv, NEW n \in Nat, NEW m \in Nat, Parts(n, m), NEW i \in 0..m,
         e' = (r + (n + i)) % Word, UNCHANGED <<buf, r, w, pc, asked, got, killed>>
  PROVE  /\ ConsoleIInv'
         /\ Between(r, w)' = Between(r, w) /\ Between(w, e)' = Line(buf, w, i)
<1>1. /\ r \in Counter /\ w \in Int /\ buf \in [Place -> Cell] /\ w = (r + n) % Word
      /\ n + m <= INPUT_BUF /\ (n + m = INPUT_BUF => m = 0) /\ INPUT_BUF \in Nat
  BY ConsoleConstants DEF ConsoleIInv, ConsoleTypeOK, Parts, Counter
<1>2. i \in Nat /\ n + i <= INPUT_BUF /\ (n + i = INPUT_BUF => i = 0)
  BY <1>1
<1>3. ToSet(Line(buf, w, i)) \cap {NL, EOF} = {}
  <2>1. Between(w, e) = Line(buf, w, m) /\ ToSet(Between(w, e)) \cap {NL, EOF} = {}
    BY DEF Parts, ConsoleIInv, ConsoleInv
  <2>2. \A k \in 1..i : k \in 1..m /\ Line(buf, w, i)[k] = Line(buf, w, m)[k]
    BY DEF Line
  <2>3. DOMAIN Line(buf, w, i) = 1..i /\ DOMAIN Line(buf, w, m) = 1..m
    BY DEF Line
  <2> QED
    BY <2>1, <2>2, <2>3 DEF ToSet
<1>4. n # 0 => \A p \in Readers : pc'[p] \notin {"falling", "asleep"}
  BY DEF Parts, ConsoleIInv, ConsoleInv
<1>5. /\ ConsoleInv' /\ w' \in Counter /\ e' \in Counter
      /\ Between(r, w)' = Line(buf', r', n) /\ Between(w, e)' = Line(buf', w', i)
  <2>1. r' \in Counter /\ buf' \in [Place -> Cell] /\ w' = (r' + n) % Word /\ e' = (r' + (n + i)) % Word
    BY <1>1
  <2>2. ToSet(Line(buf', w', i)) \cap {NL, EOF} = {}
    BY <1>3
  <2> QED
    BY <1>2, <1>4, <2>1, <2>2, Again
<1>6. ConsoleTypeOK' /\ ConsoleCalls'
  BY <1>1, <1>5 DEF ConsoleIInv, ConsoleTypeOK, ConsoleCalls
<1>7. Between(r, w) = Line(buf, r, n)
  BY DEF Parts
<1> QED
  BY <1>5, <1>6, <1>7 DEF ConsoleIInv

LEMMA BackspaceStep ==
  ASSUME ConsoleIInv, Backspace
  PROVE  ConsoleIInv' /\ Abstract!Edit
<1>1. PICK n \in Nat, m \in Nat : Parts(n, m)
  BY Opened DEF ConsoleIInv
<1>2. m # 0
  BY <1>1 DEF Backspace, Parts
<1>3. PICK i \in 0..m : i = m - 1
  BY <1>2
<1>4. e' = (r + (n + i)) % Word
  <2>1. r \in Int /\ e = (r + (n + m)) % Word
    BY <1>1 DEF ConsoleIInv, ConsoleTypeOK, Parts, Counter
  <2>2. PICK a \in Int : a = r + (n + m) /\ a - 1 = r + (n + i)
    BY <1>3, <2>1
  <2>3. Minus(a % Word, 1) = (a - 1) % Word
    <3>1. 1 \in Int
      OBVIOUS
    <3> QED
      BY <3>1, Back, Zenon
  <2> QED
    BY <2>1, <2>2, <2>3, Zenon DEF Backspace
<1>5. UNCHANGED <<buf, r, w, pc, asked, got, killed>>
  BY DEF Backspace, reader
<1>6. ConsoleIInv' /\ Between(r, w)' = Between(r, w) /\ Between(w, e)' = Line(buf, w, i)
  BY <1>1, <1>4, <1>5, Erased
<1>7. Line(buf, w, m - 1) = Front(Line(buf, w, m))
  BY <1>2, LineFront DEF ConsoleIInv, ConsoleTypeOK, Counter
<1>8. Between(w, e)' = Front(Between(w, e))
  BY <1>1, <1>3, <1>6, <1>7, Zenon DEF Parts
<1>9. Between(w, e) # <<>>
  BY <1>1, <1>2 DEF Parts
<1> QED
  BY <1>5, <1>6, <1>8, <1>9 DEF Abstract!Edit, Abstract!Front, Front

LEMMA KillLineStep ==
  ASSUME ConsoleIInv, KillLine
  PROVE  ConsoleIInv' /\ Abstract!Edit
<1>1. PICK n \in Nat, m \in Nat : Parts(n, m)
  BY Opened DEF ConsoleIInv
<1>2. m # 0 /\ Minus(e, w) = m
  BY <1>1 DEF KillLine, Parts
<1> DEFINE back == {k \in 0 .. Minus(e, w) : k = Minus(e, w) \/ Before(Minus(e, k)) = NL}
<1>3. \A k \in 0..m : k # m => Before(Minus(e, k)) # NL
  <2> SUFFICES ASSUME NEW k \in 0..m, k # m PROVE Before(Minus(e, k)) # NL
    OBVIOUS
  <2>1. k \in 0..(m - 1)
    OBVIOUS
  <2> QED
    BY <1>1, <2>1, FromTheEnd
<1>4. back = {m}
  BY <1>2, <1>3
<1>5. Min(back) = m
  BY <1>4, LeastOf
<1>6. e' = Minus(e, m)
  BY <1>5 DEF KillLine
<1>7. e' = (r + (n + 0)) % Word
  <2>1. r \in Int /\ e = (r + (n + m)) % Word
    BY <1>1 DEF ConsoleIInv, ConsoleTypeOK, Parts, Counter
  <2>2. PICK a \in Int : a = r + (n + m) /\ a - m = r + (n + 0)
    BY <2>1
  <2>3. Minus(a % Word, m) = (a - m) % Word
    BY Back
  <2> QED
    BY <1>6, <2>1, <2>2, <2>3, Zenon
<1>8. UNCHANGED <<buf, r, w, pc, asked, got, killed>>
  BY DEF KillLine, reader
<1>9. 0 \in 0..m
  OBVIOUS
<1>10. ConsoleIInv' /\ Between(r, w)' = Between(r, w) /\ Between(w, e)' = Line(buf, w, 0)
  BY <1>1, <1>7, <1>8, <1>9, Erased, Zenon
<1>11. Between(w, e)' = <<>>
  BY <1>10 DEF Line
<1>12. Between(w, e) # <<>>
  BY <1>1, <1>2 DEF Parts
<1> QED
  BY <1>8, <1>10, <1>11, <1>12 DEF Abstract!Edit

-----------------------------------------------------------------------------
(* consoleread() *)

\* A reader has taken i of the n characters that were ready.
LEMMA Advanced ==
  ASSUME ConsoleIInv, NEW n \in Nat, NEW m \in Nat, Parts(n, m), NEW i \in 0..n,
         r' = (r + i) % Word, UNCHANGED <<buf, w, e>>,
         i # n => \A p \in Readers : pc'[p] \notin {"falling", "asleep"}
  PROVE  /\ ConsoleInv' /\ r' \in Counter
         /\ Between(r, w)' = SubSeq(Between(r, w), i + 1, n) /\ Between(w, e)' = Between(w, e)
<1>1. /\ r \in Int /\ buf \in [Place -> Cell] /\ w = (r + n) % Word /\ e = (r + (n + m)) % Word
      /\ n + m <= INPUT_BUF /\ (n + m = INPUT_BUF => m = 0) /\ INPUT_BUF \in Nat /\ Word \in Nat \ {0}
      /\ Between(r, w) = Line(buf, r, n) /\ Between(w, e) = Line(buf, w, m)
  BY ConsoleConstants DEF ConsoleIInv, ConsoleTypeOK, Parts, Counter
<1>2. PICK k \in Nat : k = n - i /\ k + m <= INPUT_BUF /\ (k + m = INPUT_BUF => m = 0) /\ (k # 0 => i # n)
  BY <1>1
<1>3. r' \in Counter
  BY <1>1, InCounter, SMTT(30)
<1>4. w = (r' + k) % Word
  <2>1. PICK a \in Int : a = r + i /\ a + k = r + n
    BY <1>1, <1>2
  <2>2. ((a % Word) + k) % Word = (a + k) % Word
    <3>1. k \in Int
      OBVIOUS
    <3> QED
      BY <1>1, <3>1, ModAdd, Zenon
  <2>3. r' = a % Word
    BY <2>1
  <2> QED
    BY <1>1, <2>1, <2>2, <2>3, Zenon
<1>5. e = (r' + (k + m)) % Word
  <2>1. PICK a \in Int, j \in Int : a = r + i /\ j = k + m /\ a + j = r + (n + m)
    BY <1>1, <1>2
  <2>2. ((a % Word) + j) % Word = (a + j) % Word
    BY <1>1, ModAdd, Zenon
  <2>3. r' = a % Word
    BY <2>1
  <2> QED
    BY <1>1, <2>1, <2>2, <2>3, Zenon
<1>6. ToSet(Line(buf', w', m)) \cap {NL, EOF} = {}
  <2>1. ToSet(Between(w, e)) \cap {NL, EOF} = {}
    BY DEF ConsoleIInv, ConsoleInv
  <2> QED
    BY <1>1, <2>1
<1>7. k # 0 => \A p \in Readers : pc'[p] \notin {"falling", "asleep"}
  BY <1>2
<1>8. w' = (r' + k) % Word /\ e' = (r' + (k + m)) % Word /\ buf' \in [Place -> Cell]
  BY <1>1, <1>4, <1>5
<1>9. /\ ConsoleInv'
      /\ Between(r, w)' = Line(buf', r', k) /\ Between(w, e)' = Line(buf', w', m)
  BY <1>2, <1>3, <1>6, <1>7, <1>8, Again
<1>10. Line(buf, (r + i) % Word, n - i) = SubSeq(Line(buf, r, n), i + 1, n)
  BY <1>1, LineFrom
<1>11. Between(r, w)' = SubSeq(Between(r, w), i + 1, n)
  <2>1. r' = (r + i) % Word /\ buf' = buf
    OBVIOUS
  <2> QED
    BY <1>1, <1>2, <1>9, <1>10, <2>1, Zenon
<1>12. Between(w, e)' = Between(w, e)
  <2>1. w' = w /\ buf' = buf
    OBVIOUS
  <2> QED
    BY <1>1, <1>9, <2>1, Zenon
<1> QED
  BY <1>3, <1>9, <1>11, <1>12

\* What a part of a sequence is.
LEMMA PartOf ==
  ASSUME NEW s \in Seq(Cell), NEW k \in 0..Len(s)
  PROVE  /\ SubSeq(s, 1, k) \in Seq(Cell) /\ Len(SubSeq(s, 1, k)) = k
         /\ \A j \in 1..k : SubSeq(s, 1, k)[j] = s[j]
         /\ SubSeq(s, k + 1, Len(s)) \in Seq(Cell) /\ Len(SubSeq(s, k + 1, Len(s))) = Len(s) - k
         /\ \A j \in 1..(Len(s) - k) : SubSeq(s, k + 1, Len(s))[j] = s[k + j]
OBVIOUS

LEMMA JoinedLen ==
  ASSUME NEW s \in Seq(Cell), NEW t \in Seq(Cell)
  PROVE  s \o t \in Seq(Cell) /\ Len(s \o t) = Len(s) + Len(t) /\ (Len(t) > 0 => s \o t # <<>>)
BY ConcatProperties

\* Some characters are given to p: those that are before the end of a line.
Outcome(p, ready, k) ==
  \/ /\ ready[k] = NL \/ Len(got[p]) + k = asked[p] \/ (k < Len(ready) /\ ready[k + 1] = EOF)
     /\ asked' = [asked EXCEPT ![p] = 0]
  \/ /\ k = Len(ready) /\ ready[k] # NL /\ Len(got[p]) + k < asked[p]
     /\ asked' = asked \/ (killed[p] /\ asked' = [asked EXCEPT ![p] = 0])

LEMMA Delivers ==
  ASSUME ConsoleIInv, NEW p \in Readers, pc[p] = "read",
         NEW ready \in Seq(Cell), ready = Between(r, w), NEW k \in 1..Len(ready),
         Len(got[p]) + k <= asked[p],
         \A j \in 1..k : ready[j] # EOF, \A j \in 1..(k - 1) : ready[j] # NL,
         got' = [got EXCEPT ![p] = @ \o SubSeq(ready, 1, k)],
         Between(r, w)' = SubSeq(ready, k + 1, Len(ready)), Between(w, e)' = Between(w, e), killed' = killed,
         Outcome(p, ready, k)
  PROVE  Abstract!Deliver(p)
<1> DEFINE some == SubSeq(ready, 1, k)
           rest == SubSeq(ready, k + 1, Len(ready))
<1>1. /\ some \in Seq(Cell) /\ Len(some) = k
      /\ \A j \in 1..k : some[j] = ready[j]
      /\ rest \in Seq(Cell) /\ Len(rest) = Len(ready) - k
      /\ \A j \in 1..(Len(ready) - k) : rest[j] = ready[k + j]
  <2>1. k \in 0..Len(ready)
    OBVIOUS
  <2> QED
    BY <2>1, PartOf, Zenon
<1>2. got[p] \in Seq(Cell) /\ asked[p] \in Nat /\ got \in [Readers -> Seq(Cell)]
  BY DEF ConsoleIInv, ConsoleTypeOK
<1> HIDE DEF some, rest
<1>3. asked[p] > 0
  BY <1>2
<1>4. EOF \notin Abstract!ToSet(some)
  BY <1>1 DEF Abstract!ToSet
<1>5. NL \notin Abstract!ToSet(Abstract!Front(some))
  <2>1. Abstract!Front(some) = SubSeq(some, 1, k - 1)
    BY <1>1 DEF Abstract!Front
  <2>2. k - 1 \in 0..Len(some)
    BY <1>1
  <2>3. /\ SubSeq(some, 1, k - 1) \in Seq(Cell) /\ Len(SubSeq(some, 1, k - 1)) = k - 1
        /\ \A j \in 1..(k - 1) : SubSeq(some, 1, k - 1)[j] = some[j]
    BY <1>1, <2>2, PartOf
  <2> QED
    BY <1>1, <2>1, <2>3 DEF Abstract!ToSet
<1>6. got'[p] = got[p] \o some /\ Len(got'[p]) = Len(got[p]) + k
  <2>1. got'[p] = got[p] \o some
    BY <1>2 DEF some
  <2>2. Len(got[p] \o some) = Len(got[p]) + k
    <3>1. Len(got[p] \o some) = Len(got[p]) + Len(some)
      BY <1>1, <1>2, JoinedLen, Zenon
    <3> QED
      BY <1>1, <3>1
  <2> QED
    BY <2>1, <2>2
<1>7. Abstract!Last(some) = ready[k]
  BY <1>1 DEF Abstract!Last
<1>8. ASSUME k < Len(ready) PROVE rest # <<>> /\ rest[1] = ready[k + 1]
  <2>1. 1 \in 1..(Len(ready) - k) /\ Len(rest) # 0
    BY <1>1, <1>8
  <2>2. rest[1] = ready[k + 1]
    BY <1>1, <2>1
  <2>3. rest # <<>>
    BY <2>1
  <2> QED
    BY <2>2, <2>3
<1>9. k = Len(ready) => rest = <<>>
  BY <1>1
<1>10. got' = [got EXCEPT ![p] = @ \o some] /\ Between(r, w)' = rest
  BY DEF some, rest
<1>11. \/ /\ Abstract!Last(some) = NL \/ Len(got'[p]) = asked[p] \/ (rest # <<>> /\ rest[1] = EOF)
          /\ asked' = [asked EXCEPT ![p] = 0]
       \/ /\ rest = <<>> /\ Abstract!Last(some) # NL /\ Len(got'[p]) < asked[p]
          /\ asked' = asked \/ (killed[p] /\ asked' = [asked EXCEPT ![p] = 0])
  BY <1>6, <1>7, <1>8, <1>9 DEF Outcome
<1>12. k \in 1..Len(Between(r, w))
  OBVIOUS
<1>13. some = SubSeq(Between(r, w), 1, k) /\ rest = SubSeq(Between(r, w), k + 1, Len(Between(r, w)))
  BY DEF some, rest
<1>14. Len(got[p]) + k <= asked[p] /\ Between(w, e)' = Between(w, e) /\ killed' = killed
  OBVIOUS
<1> QED
  BY <1>3, <1>4, <1>5, <1>10, <1>11, <1>12, <1>13, <1>14, Zenon DEF Abstract!Deliver, Abstract!Returns

\* Where the loop of consoleread() ends.
LEMMA EndOf ==
  ASSUME ConsoleIInv, NEW p \in Readers, pc[p] = "read", NEW there \in Seq(Cell), Ends(p, there) # {}
  PROVE  \E k \in 1..Len(there) :
           /\ k = Min(Ends(p, there))
           /\ Len(got[p]) + k <= asked[p]
           /\ \A j \in 1..(k - 1) : there[j] \notin {NL, EOF}
           /\ there[k] \in {NL, EOF} \/ Len(got[p]) + k = asked[p]
<1>1. got[p] \in Seq(Cell) /\ asked[p] \in Nat /\ Len(got[p]) < asked[p] /\ Len(got[p]) \in Nat
  BY DEF ConsoleIInv, ConsoleTypeOK, ConsoleCalls
<1>2. PICK d \in Nat \ {0} : d = asked[p] - Len(got[p])
  BY <1>1
<1>3. Ends(p, there) = {k \in 1..Len(there) : there[k] \in {NL, EOF} \/ k = d}
  BY <1>2 DEF Ends
<1>4. PICK k : k = Min(Ends(p, there)) /\ k \in Ends(p, there) /\ \A j \in Ends(p, there) : k <= j
  <2>1. Ends(p, there) \in SUBSET Nat
    BY <1>3
  <2> QED
    BY <2>1, LeastOf
<1>5. k \in 1..Len(there) /\ (there[k] \in {NL, EOF} \/ k = d)
  BY <1>3, <1>4
<1>6. \A j \in 1..(k - 1) : there[j] \notin {NL, EOF} /\ j # d
  BY <1>3, <1>4, <1>5
<1>7. k <= d
  <2>1. CASE d < k
    BY <1>5, <1>6, <2>1
  <2> QED
    BY <1>5, <2>1
<1>8. Len(got[p]) + k <= asked[p] /\ (k = d => Len(got[p]) + k = asked[p])
  BY <1>1, <1>2, <1>5, <1>7, SMTT(30)
<1>9. \A j \in 1..(k - 1) : there[j] \notin {NL, EOF}
  BY <1>6
<1>10. there[k] \in {NL, EOF} \/ Len(got[p]) + k = asked[p]
  BY <1>5, <1>8
<1> QED
  BY <1>4, <1>5, <1>8, <1>9, <1>10, Zenon

\* What the return of p leaves of the invariant to be shown.
LEMMA Returned ==
  ASSUME ConsoleIInv, NEW p \in Readers, Returns(p), NEW s \in Seq(Cell),
         got' = [got EXCEPT ![p] = @ \o s], UNCHANGED <<buf, w, e, killed>>,
         r' \in Counter, ConsoleInv'
  PROVE  ConsoleIInv'
<1>1. got' \in [Readers -> Seq(Cell)] /\ \A q \in Readers : q # p => got'[q] = got[q]
  <2>1. got[p] \o s \in Seq(Cell)
    BY DEF ConsoleIInv, ConsoleTypeOK
  <2> QED
    BY <2>1 DEF ConsoleIInv, ConsoleTypeOK
<1>2. pc' = [pc EXCEPT ![p] = "user"] /\ asked' = [asked EXCEPT ![p] = 0]
  BY DEF Returns, Goto
<1>3. ConsoleTypeOK'
  BY <1>1, <1>2 DEF ConsoleIInv, ConsoleTypeOK
<1>4. ConsoleCalls'
  BY <1>1, <1>2 DEF ConsoleIInv, ConsoleTypeOK, ConsoleCalls
<1> QED
  BY <1>3, <1>4 DEF ConsoleIInv

LEMMA ReadEndsStep ==
  ASSUME ConsoleIInv, NEW p \in Readers, ReadEnds(p)
  PROVE  ConsoleIInv' /\ (Abstract!Deliver(p) \/ Abstract!End(p))
<1>1. PICK n \in Nat, m \in Nat : Parts(n, m)
  BY Opened DEF ConsoleIInv
<1>2. PICK there \in Seq(Cell) : there = Between(r, w) /\ Len(there) = n
  BY <1>1 DEF Parts
<1>3. pc[p] = "read" /\ Ends(p, there) # {} /\ UNCHANGED <<buf, w, e, killed>> /\ Returns(p)
  BY <1>2 DEF ReadEnds
<1>4. PICK k \in 1..n :
        /\ k = Min(Ends(p, there)) /\ Len(got[p]) + k <= asked[p]
        /\ \A j \in 1..(k - 1) : there[j] \notin {NL, EOF}
        /\ there[k] \in {NL, EOF} \/ Len(got[p]) + k = asked[p]
  BY <1>2, <1>3, EndOf
<1>5. /\ Taken(p, SubSeq(there, 1, IF there[k] = EOF THEN k - 1 ELSE k))
      /\ IF there[k] = EOF THEN EofKept(k, got'[p] = <<>>) ELSE Advance(k)
  BY <1>2, <1>4 DEF ReadEnds
<1>6. \A q \in Readers : pc'[q] \notin {"falling", "asleep"}
  <2>1. n # 0
    BY <1>4
  <2>2. r # w
    BY <1>1, <2>1 DEF Parts
  <2>3. \A q \in Readers : pc[q] \notin {"falling", "asleep"}
    BY <2>2 DEF ConsoleIInv, ConsoleInv
  <2>4. pc' = [pc EXCEPT ![p] = "user"] /\ pc \in [Readers -> {"user", "read", "falling", "asleep"}]
    BY <1>3 DEF Returns, Goto, ConsoleIInv, ConsoleTypeOK
  <2> QED
    BY <2>3, <2>4
<1>7. ASSUME NEW i \in 0..n, r' = (r + i) % Word, NEW s \in Seq(Cell), got' = [got EXCEPT ![p] = @ \o s]
      PROVE  ConsoleIInv' /\ Between(r, w)' = SubSeq(there, i + 1, n) /\ Between(w, e)' = Between(w, e)
  <2>1. /\ ConsoleInv' /\ r' \in Counter
        /\ Between(r, w)' = SubSeq(Between(r, w), i + 1, n) /\ Between(w, e)' = Between(w, e)
    BY <1>1, <1>3, <1>6, <1>7, Advanced
  <2>2. ConsoleIInv'
    BY <1>3, <1>7, <2>1, Returned
  <2> QED
    BY <1>2, <2>1, <2>2
<1>8. asked' = [asked EXCEPT ![p] = 0] /\ killed' = killed
  BY <1>3 DEF Returns
<1>9. ASSUME there[k] # EOF PROVE ConsoleIInv' /\ Abstract!Deliver(p)
  <2>1. k \in 0..n /\ r' = (r + k) % Word /\ got' = [got EXCEPT ![p] = @ \o SubSeq(there, 1, k)]
    BY <1>4, <1>5, <1>9 DEF Advance, Taken
  <2>2. ConsoleIInv' /\ Between(r, w)' = SubSeq(there, k + 1, Len(there)) /\ Between(w, e)' = Between(w, e)
    <3>1. SubSeq(there, 1, k) \in Seq(Cell)
      BY <1>2, <2>1, PartOf
    <3> QED
      BY <1>2, <1>7, <2>1, <3>1
  <2>3. Outcome(p, there, k)
    BY <1>4, <1>8, <1>9 DEF Outcome
  <2>4. \A j \in 1..k : there[j] # EOF
    <3>1. \A j \in 1..k : j = k \/ j \in 1..(k - 1)
      OBVIOUS
    <3> QED
      BY <1>4, <1>9, <3>1
  <2>5. \A j \in 1..(k - 1) : there[j] # NL
    BY <1>4
  <2>6. k \in 1..Len(there) /\ Len(got[p]) + k <= asked[p]
    BY <1>2, <1>4
  <2>7. Abstract!Deliver(p)
    BY <1>2, <1>3, <1>8, <2>1, <2>2, <2>3, <2>4, <2>5, <2>6, Delivers
  <2> QED
    BY <2>2, <2>7
<1>10. ASSUME there[k] = EOF, k > 1 PROVE ConsoleIInv' /\ Abstract!Deliver(p)
  <2>1. PICK i \in 1..n : i = k - 1 /\ i \in 0..n /\ i < Len(there) /\ i + 1 = k
    BY <1>2, <1>4, <1>10
  <2>2. got' = [got EXCEPT ![p] = @ \o SubSeq(there, 1, i)]
    BY <1>5, <1>10, <2>1 DEF Taken
  <2>3. got'[p] # <<>>
    <3>1. SubSeq(there, 1, i) \in Seq(Cell) /\ Len(SubSeq(there, 1, i)) = i
      BY <1>2, <2>1, PartOf
    <3>2. got \in [Readers -> Seq(Cell)] /\ got[p] \in Seq(Cell)
      BY DEF ConsoleIInv, ConsoleTypeOK
    <3>3. got[p] \o SubSeq(there, 1, i) # <<>>
      <4>1. Len(SubSeq(there, 1, i)) > 0
        BY <3>1
      <4> QED
        BY <3>1, <3>2, <4>1, JoinedLen
    <3>4. got'[p] = got[p] \o SubSeq(there, 1, i)
      BY <2>2, <3>2
    <3> QED
      BY <3>3, <3>4
  <2>4. r' = (r + i) % Word
    BY <1>5, <1>10, <2>1, <2>3 DEF EofKept, Advance
  <2>5. ConsoleIInv' /\ Between(r, w)' = SubSeq(there, i + 1, Len(there)) /\ Between(w, e)' = Between(w, e)
    <3>1. SubSeq(there, 1, i) \in Seq(Cell)
      BY <1>2, <2>1, PartOf
    <3> QED
      BY <1>2, <1>7, <2>1, <2>2, <2>4, <3>1
  <2>6. Outcome(p, there, i)
    BY <1>8, <1>10, <2>1 DEF Outcome
  <2>7. \A j \in 1..i : there[j] # EOF
    BY <1>4, <2>1
  <2>8. \A j \in 1..(i - 1) : there[j] # NL
    <3>1. \A j \in 1..(i - 1) : j \in 1..(k - 1)
      BY <2>1
    <3> QED
      BY <1>4, <3>1
  <2>9. i \in 1..Len(there) /\ Len(got[p]) + i <= asked[p]
    BY <1>2, <1>4, <2>1 DEF ConsoleIInv, ConsoleTypeOK
  <2>10. Abstract!Deliver(p)
    BY <1>2, <1>3, <1>8, <2>2, <2>5, <2>6, <2>7, <2>8, <2>9, Delivers
  <2> QED
    BY <2>5, <2>10
<1>11. ASSUME there[k] = EOF, k = 1 PROVE ConsoleIInv' /\ Abstract!End(p)
  <2>1. SubSeq(there, 1, 0) = <<>>
    BY SubSeqEmpty
  <2>2. got' = [got EXCEPT ![p] = @ \o SubSeq(there, 1, 0)]
    BY <1>5, <1>11 DEF Taken
  <2>3. got \in [Readers -> Seq(Cell)] /\ got[p] \in Seq(Cell) /\ asked[p] \in Nat /\ Len(got[p]) < asked[p]
    BY <1>3 DEF ConsoleIInv, ConsoleTypeOK, ConsoleCalls
  <2>4. got[p] \o <<>> = got[p]
    BY <2>3, ConcatEmptySeq
  <2>5. got' = got
    BY <2>1, <2>2, <2>3, <2>4
  <2>6. asked[p] > 0 /\ there # <<>> /\ Head(there) = EOF
    BY <1>2, <1>4, <1>11, <2>3
  <2>7. got' = [got EXCEPT ![p] = @ \o <<>>] /\ <<>> \in Seq(Cell)
    <3>1. <<>> \in Seq(Cell)
      OBVIOUS
    <3> QED
      BY <2>1, <2>2, <3>1, Zenon
  <2>8. CASE got[p] = <<>>
    <3>1. r' = (r + 1) % Word
      BY <1>5, <1>11, <2>5, <2>8 DEF EofKept, Advance
    <3>2. 1 \in 0..n
      BY <1>4
    <3>3. ConsoleIInv' /\ Between(r, w)' = SubSeq(there, 1 + 1, n) /\ Between(w, e)' = Between(w, e)
      BY <1>7, <2>7, <3>1, <3>2
    <3>4. Tail(there) = SubSeq(there, 1 + 1, n)
      BY <1>2, <2>6, TailIsSubSeq
    <3>5. Between(r, w)' = Tail(there)
      BY <3>3, <3>4
    <3> QED
      BY <1>2, <1>8, <2>5, <2>6, <2>8, <3>3, <3>5, Zenon DEF Abstract!End, Abstract!Returns
  <2>9. CASE got[p] # <<>>
    <3>1. r' = (r + 0) % Word
      BY <1>5, <1>11, <2>5, <2>9 DEF EofKept, Advance
    <3>2. 0 \in 0..n
      OBVIOUS
    <3>3. ConsoleIInv' /\ Between(r, w)' = SubSeq(there, 0 + 1, n) /\ Between(w, e)' = Between(w, e)
      BY <1>7, <2>7, <3>1, <3>2
    <3>4. there = SubSeq(there, 0 + 1, n)
      BY <1>2, SubSeqFull
    <3>5. Between(r, w)' = there
      BY <3>3, <3>4
    <3> QED
      BY <1>2, <1>8, <2>5, <2>6, <2>9, <3>3, <3>5, Zenon DEF Abstract!End, Abstract!Returns
  <2> QED
    BY <2>8, <2>9
<1> QED
  BY <1>4, <1>9, <1>10, <1>11

AbstractVars == <<Between(w, e), Between(r, w), asked, got, killed>>

LEMMA ReadWaitsStep ==
  ASSUME ConsoleIInv, NEW p \in Readers, ReadWaits(p)
  PROVE  ConsoleIInv' /\ (Abstract!Deliver(p) \/ Abstract!GiveUp(p) \/ UNCHANGED AbstractVars)
<1>1. PICK n \in Nat, m \in Nat : Parts(n, m)
  BY Opened DEF ConsoleIInv
<1>2. PICK there \in Seq(Cell) : there = Between(r, w) /\ Len(there) = n
  BY <1>1 DEF Parts
<1>3. /\ pc[p] = "read" /\ Ends(p, there) = {} /\ UNCHANGED <<buf, w, e, killed>>
      /\ Taken(p, there) /\ Advance(n)
      /\ IF killed[p] THEN Returns(p) ELSE Goto(p, "falling") /\ UNCHANGED asked
  BY <1>2 DEF ReadWaits
<1>4. /\ got \in [Readers -> Seq(Cell)] /\ got[p] \in Seq(Cell) /\ asked[p] \in Nat /\ Len(got[p]) < asked[p]
      /\ asked \in [Readers -> Nat] /\ pc \in [Readers -> {"user", "read", "falling", "asleep"}]
  BY <1>3 DEF ConsoleIInv, ConsoleTypeOK, ConsoleCalls
<1>5. Len(got[p]) + n < asked[p] /\ \A j \in 1..n : there[j] \notin {NL, EOF}
  <2>1. PICK g \in Nat, d \in Nat : g = Len(got[p]) /\ d = asked[p] /\ g < d
    BY <1>4
  <2>2. \A j \in 1..n : there[j] \notin {NL, EOF} /\ j # d - g
    BY <1>2, <1>3, <2>1 DEF Ends
  <2>3. ~(d - g <= n)
    BY <2>1, <2>2
  <2> QED
    BY <2>1, <2>2, <2>3
<1>6. n \in 0..n /\ r' = (r + n) % Word
  BY <1>3 DEF Advance
<1>7. /\ ConsoleInv' /\ r' \in Counter
      /\ Between(r, w)' = SubSeq(there, n + 1, n) /\ Between(w, e)' = Between(w, e)
  BY <1>1, <1>2, <1>3, <1>6, Advanced
<1>8. got' = [got EXCEPT ![p] = @ \o there]
  BY <1>3 DEF Taken
<1>9. Between(r, w)' = <<>>
  <2>1. SubSeq(there, n + 1, n) = <<>>
    BY SubSeqEmpty
  <2> QED
    BY <1>7, <2>1
<1>10. ConsoleIInv'
  <2>1. CASE killed[p]
    BY <1>3, <1>7, <1>8, <2>1, Returned
  <2>2. CASE ~killed[p]
    <3>1. pc' = [pc EXCEPT ![p] = "falling"] /\ asked' = asked
      BY <1>3, <2>2 DEF Goto
    <3>2. got[p] \o there \in Seq(Cell) /\ Len(got[p] \o there) = Len(got[p]) + n
      BY <1>2, <1>4, JoinedLen
    <3>3. got' \in [Readers -> Seq(Cell)] /\ got'[p] = got[p] \o there /\ \A q \in Readers : q # p => got'[q] = got[q]
      BY <1>4, <1>8, <3>2
    <3>4. ConsoleTypeOK'
      BY <1>3, <1>7, <3>1, <3>3 DEF ConsoleIInv, ConsoleTypeOK
    <3>5. Len(got'[p]) < asked[p] /\ asked[p] # 0
      BY <1>4, <1>5, <3>2, <3>3
    <3>6. ASSUME NEW q \in Readers
          PROVE  /\ pc'[q] = "user" <=> asked'[q] = 0
                 /\ pc'[q] # "user" => Len(got'[q]) < asked'[q]
      <4>1. CASE q = p
        BY <1>4, <3>1, <3>5, <4>1
      <4>2. CASE q # p
        BY <1>4, <3>1, <3>3, <4>2 DEF ConsoleIInv, ConsoleCalls
      <4> QED
        BY <4>1, <4>2
    <3>7. ConsoleCalls'
      BY <3>6 DEF ConsoleCalls
    <3> QED
      BY <1>7, <3>4, <3>7 DEF ConsoleIInv
  <2> QED
    BY <2>1, <2>2
<1>11. CASE n # 0
  <2>1. there = SubSeq(there, 1, n)
    BY <1>2, SubSeqFull
  <2>2. got' = [got EXCEPT ![p] = @ \o SubSeq(there, 1, n)]
    BY <1>8, <2>1
  <2>3. Between(r, w)' = SubSeq(there, n + 1, Len(there))
    BY <1>2, <1>7
  <2>4. asked' = asked \/ (killed[p] /\ asked' = [asked EXCEPT ![p] = 0])
    BY <1>3 DEF Returns
  <2>5. n = Len(there) /\ there[n] # NL /\ Len(got[p]) + n < asked[p] /\ n \in 1..Len(there)
    BY <1>2, <1>5, <1>11
  <2>6. Outcome(p, there, n)
    BY <2>4, <2>5 DEF Outcome
  <2>7. Len(got[p]) + n <= asked[p] /\ (\A j \in 1..n : there[j] # EOF) /\ \A j \in 1..(n - 1) : there[j] # NL
    BY <1>4, <1>5
  <2>8. Abstract!Deliver(p)
    BY <1>2, <1>3, <1>7, <2>2, <2>3, <2>5, <2>6, <2>7, Delivers
  <2> QED
    BY <1>10, <2>8
<1>12. CASE n = 0
  <2>1. there = <<>>
    BY <1>2, <1>12
  <2>2. got' = got
    <3>1. got[p] \o <<>> = got[p]
      BY <1>4, ConcatEmptySeq
    <3>2. got' = [got EXCEPT ![p] = got[p]]
      BY <1>8, <2>1, <3>1
    <3> QED
      BY <1>4, <3>2
  <2>3. CASE killed[p]
    <3>1. asked' = [asked EXCEPT ![p] = 0]
      BY <1>3, <2>3 DEF Returns
    <3>2. asked[p] > 0
      BY <1>4
    <3>3. killed' = killed /\ Between(w, e)' = Between(w, e)
      BY <1>3, <1>7
    <3>4. Abstract!GiveUp(p)
      BY <1>2, <1>9, <2>1, <2>2, <2>3, <3>1, <3>2, <3>3, Zenon DEF Abstract!GiveUp, Abstract!Returns
    <3> QED
      BY <1>10, <3>4
  <2>4. CASE ~killed[p]
    <3>1. UNCHANGED AbstractVars
      BY <1>2, <1>3, <1>7, <1>9, <2>1, <2>2, <2>4 DEF AbstractVars
    <3> QED
      BY <1>10, <3>1
  <2> QED
    BY <2>3, <2>4
<1> QED
  BY <1>11, <1>12

\* What does not touch the ring leaves its lines.
LEMMA RingStands ==
  ASSUME UNCHANGED input
  PROVE  /\ Between(r, w)' = Between(r, w) /\ Between(w, e)' = Between(w, e)
         /\ Minus(e, r)' = Minus(e, r) /\ Minus(w, r)' = Minus(w, r)
         /\ r' = r /\ w' = w /\ e' = e /\ buf' = buf
<1>1. r' = r /\ w' = w /\ e' = e /\ buf' = buf
  BY DEF input
<1> QED
  BY <1>1 DEF Between, Minus

LEMMA RingKept ==
  ASSUME ConsoleIInv, UNCHANGED input,
         \A p \in Readers : pc'[p] \in {"falling", "asleep"} => pc[p] \in {"falling", "asleep"} \/ r = w
  PROVE  ConsoleInv'
<1>1. ToSet(Between(w, e))' = ToSet(Between(w, e))
  BY RingStands DEF ToSet
<1>2. \A p \in Readers : pc'[p] \in {"falling", "asleep"} => r' = w'
  BY RingStands DEF ConsoleIInv, ConsoleInv
<1> QED
  BY <1>1, <1>2, RingStands, Zenon DEF ConsoleIInv, ConsoleInv

LEMMA readStep ==
  ASSUME ConsoleIInv, NEW p \in Readers, NEW n \in Counts, read(p, n)
  PROVE  ConsoleIInv' /\ Abstract!Read(p)
<1>1. n \in Nat \ {0}
  BY ConsoleConstants
<1>2. /\ pc[p] = "user" /\ ~killed[p] /\ pc' = [pc EXCEPT ![p] = "read"]
      /\ asked' = [asked EXCEPT ![p] = n] /\ got' = [got EXCEPT ![p] = <<>>]
      /\ UNCHANGED input /\ killed' = killed
  BY DEF read
<1>3. ConsoleInv'
  BY <1>2, RingKept DEF ConsoleIInv, ConsoleTypeOK
<1>4. ConsoleTypeOK'
  <2>1. got' \in [Readers -> Seq(Cell)]
    BY <1>2 DEF ConsoleIInv, ConsoleTypeOK
  <2> QED
    BY <1>1, <1>2, <2>1, RingStands DEF ConsoleIInv, ConsoleTypeOK
<1>5. ConsoleCalls'
  BY <1>1, <1>2 DEF ConsoleIInv, ConsoleTypeOK, ConsoleCalls
<1>6. asked[p] = 0
  BY <1>2 DEF ConsoleIInv, ConsoleCalls
<1>7. Abstract!Read(p)
  BY <1>2, <1>6, RingStands, Zenon DEF Abstract!Read
<1> QED
  BY <1>3, <1>4, <1>5, <1>7 DEF ConsoleIInv

LEMMA sleepStep ==
  ASSUME ConsoleIInv, NEW p \in Readers, sleep(p)
  PROVE  ConsoleIInv' /\ UNCHANGED AbstractVars
<1>1. pc[p] = "falling" /\ pc' = [pc EXCEPT ![p] = "asleep"] /\ UNCHANGED <<input, asked, got, killed>>
  BY DEF sleep, Goto
<1>2. ConsoleInv'
  BY <1>1, RingKept DEF ConsoleIInv, ConsoleTypeOK
<1>3. ConsoleTypeOK' /\ ConsoleCalls'
  BY <1>1, RingStands DEF ConsoleIInv, ConsoleTypeOK, ConsoleCalls
<1> QED
  BY <1>1, <1>2, <1>3, RingStands DEF ConsoleIInv, AbstractVars

LEMMA killStep ==
  ASSUME ConsoleIInv, NEW p \in Readers, kill(p)
  PROVE  ConsoleIInv' /\ Abstract!Kill(p)
<1>1. /\ ~killed[p] /\ killed' = [killed EXCEPT ![p] = TRUE]
      /\ pc' = [pc EXCEPT ![p] = IF pc[p] = "asleep" THEN "read" ELSE pc[p]]
      /\ UNCHANGED <<input, asked, got>>
  BY DEF kill, Goto
<1>2. ConsoleInv'
  BY <1>1, RingKept DEF ConsoleIInv, ConsoleTypeOK
<1>3. ConsoleTypeOK' /\ ConsoleCalls'
  BY <1>1, RingStands DEF ConsoleIInv, ConsoleTypeOK, ConsoleCalls
<1>4. killed' = [killed EXCEPT ![p] = ~@]
  BY <1>1
<1> QED
  BY <1>1, <1>2, <1>3, <1>4, RingStands DEF ConsoleIInv, Abstract!Kill

LEMMA ReplacedStep ==
  ASSUME ConsoleIInv, NEW p \in Readers, Replaced(p)
  PROVE  ConsoleIInv' /\ Abstract!Kill(p)
<1>1. killed[p] /\ pc[p] = "user" /\ killed' = [killed EXCEPT ![p] = FALSE] /\ UNCHANGED <<input, pc, asked, got>>
  BY DEF Replaced
<1>2. ConsoleInv'
  BY <1>1, RingKept DEF ConsoleIInv, ConsoleTypeOK
<1>3. ConsoleTypeOK' /\ ConsoleCalls'
  BY <1>1, RingStands DEF ConsoleIInv, ConsoleTypeOK, ConsoleCalls
<1>4. killed' = [killed EXCEPT ![p] = ~@]
  BY <1>1
<1>5. asked[p] = 0
  BY <1>1 DEF ConsoleIInv, ConsoleCalls
<1> QED
  BY <1>1, <1>2, <1>3, <1>4, <1>5, RingStands DEF ConsoleIInv, Abstract!Kill

-----------------------------------------------------------------------------

LEMMA ConsoleStarts == ConsoleInit => ConsoleIInv /\ Abstract!Init
<1> SUFFICES ASSUME ConsoleInit PROVE ConsoleIInv /\ Abstract!Init
  OBVIOUS
<1>1. Word \in Nat \ {0} /\ INPUT_BUF \in Nat \ {0} /\ INPUT_BUF < Word
  BY ConsoleConstants
<1>2. r = 0 /\ w = 0 /\ e = 0 /\ 0 \in Counter
  BY <1>1 DEF ConsoleInit, Counter
<1>3. ConsoleTypeOK
  <2>1. buf \in [Place -> Cell]
    BY DEF ConsoleInit, Place, Cell
  <2>2. got \in [Readers -> Seq(Cell)]
    BY DEF ConsoleInit
  <2> QED
    BY <1>2, <2>1, <2>2 DEF ConsoleInit, ConsoleTypeOK
<1>4. ConsoleCalls
  BY DEF ConsoleInit, ConsoleCalls
<1>5. Minus(0, 0) = 0
  <2>1. (0 + 0) % Word = 0 /\ 0 + (0 + 0) = 0 /\ 0 + 0 = 0
    BY <1>1
  <2>2. Minus((0 + 0) % Word, 0) = 0
    <3>1. 0 \in Nat /\ 0 + 0 <= INPUT_BUF
      BY <1>1
    <3> QED
      BY <1>2, <3>1, Distances, Zenon
  <2> QED
    BY <2>1, <2>2, Zenon
<1>6. Between(r, w) = <<>> /\ Between(w, e) = <<>>
  BY <1>2, <1>5 DEF Between
<1>7. ConsoleInv
  <2>1. ToSet(Between(w, e)) \cap {NL, EOF} = {}
    BY <1>6 DEF ToSet
  <2> QED
    BY <1>1, <1>2, <1>5, <2>1 DEF ConsoleInit, ConsoleInv
<1>8. Abstract!Init
  BY <1>6 DEF ConsoleInit, Abstract!Init
<1> QED
  BY <1>3, <1>4, <1>7, <1>8 DEF ConsoleIInv

LEMMA ConsoleStep ==
  ASSUME ConsoleIInv, [ConsoleNext]_consoleVars
  PROVE  ConsoleIInv' /\ [Abstract!Next]_AbstractVars
<1>1. ASSUME NEW c \in Chars \cup {NL, EOF}, Typed(c) PROVE ConsoleIInv' /\ Abstract!Next
  BY <1>1, TypedStep DEF Cell, Abstract!Next
<1>2. CASE Backspace
  BY <1>2, BackspaceStep DEF Abstract!Next
<1>3. CASE KillLine
  BY <1>3, KillLineStep DEF Abstract!Next
<1>4. ASSUME NEW p \in Readers, NEW n \in Counts, read(p, n) PROVE ConsoleIInv' /\ Abstract!Next
  BY <1>4, readStep DEF Abstract!Next
<1>5. ASSUME NEW p \in Readers, ReadEnds(p) PROVE ConsoleIInv' /\ Abstract!Next
  BY <1>5, ReadEndsStep DEF Abstract!Next
<1>6. ASSUME NEW p \in Readers, ReadWaits(p) PROVE ConsoleIInv' /\ (Abstract!Next \/ UNCHANGED AbstractVars)
  BY <1>6, ReadWaitsStep DEF Abstract!Next
<1>7. ASSUME NEW p \in Readers, sleep(p) PROVE ConsoleIInv' /\ UNCHANGED AbstractVars
  BY <1>7, sleepStep
<1>8. ASSUME NEW p \in Readers, kill(p) PROVE ConsoleIInv' /\ Abstract!Next
  BY <1>8, killStep DEF Abstract!Next
<1>9. ASSUME NEW p \in Readers, Replaced(p) PROVE ConsoleIInv' /\ Abstract!Next
  BY <1>9, ReplacedStep DEF Abstract!Next
<1>10. CASE UNCHANGED consoleVars
  <2>1. UNCHANGED <<input, pc, asked, got, killed>>
    BY <1>10 DEF consoleVars, reader
  <2>2. ConsoleInv'
    BY <2>1, RingKept
  <2> QED
    BY <2>1, <2>2, RingStands DEF ConsoleIInv, ConsoleTypeOK, ConsoleCalls, AbstractVars
<1> QED
  BY <1>1, <1>2, <1>3, <1>4, <1>5, <1>6, <1>7, <1>8, <1>9, <1>10, Zenon DEF ConsoleNext

\* In every state of the console: nobody sleeps beside a line that is ready, a
\* full ring has been handed to the readers, and the line that is being typed
\* has no end in it (console.c).
THEOREM ConsoleCorrect == ConsoleSpec => []ConsoleInv
<1>1. ConsoleInit => ConsoleIInv
  BY ConsoleStarts
<1>2. ConsoleIInv /\ [ConsoleNext]_consoleVars => ConsoleIInv'
  BY ConsoleStep
<1>3. ConsoleIInv => ConsoleInv
  BY DEF ConsoleIInv
<1> QED
  BY <1>1, <1>2, <1>3, PTL DEF ConsoleSpec

\* consoleintr() and consoleread() give the lines that are typed, in order and
\* once, and a read() ends with a line or at ^D: the ring with its three
\* counters implements the terminal (console.c).
THEOREM TerminalRefinement == ConsoleSpec => ImplementsTerminal
<1>1. ConsoleInit => ConsoleIInv /\ Abstract!Init
  BY ConsoleStarts
<1>2. ConsoleIInv /\ [ConsoleNext]_consoleVars => ConsoleIInv' /\ [Abstract!Next]_AbstractVars
  BY ConsoleStep
<1> QED
  BY <1>1, <1>2, PTL DEF ConsoleSpec, ImplementsTerminal, Abstract!Spec, AbstractVars

-----------------------------------------------------------------------------
(* ADDRESS SPACES. *)

CallType == [name : {"none", "fork", "clone"}, child : Slots \cup {NoSlot},
             to : Spaces \cup {NoSpace}, size : 0 .. KERNBASE - 1, page : Nat]

\* TypeOK as far as the sizes depend on it: without the frames that are counted.
Types ==
  /\ state \in [Slots -> {"unused", "embryo", "live", "zombie"}]
  /\ space \in [Slots -> Spaces \cup {NoSpace}]
  /\ sz \in [Slots -> 0 .. KERNBASE - 1]
  /\ mapped \in [Spaces -> SUBSET Pages] /\ inUse \subseteq Spaces
  /\ call \in [Slots -> CallType]
  /\ panicked \in BOOLEAN /\ disturbed \in BOOLEAN

IInv == Types /\ SizeInv

\* What the proofs need of the constants.
LEMMA MemoryConstants ==
  /\ InitSlot \in Slots /\ NoSlot \notin Slots /\ NoSpace \notin Spaces
  /\ PGSIZE \in Nat \ {0} /\ KERNBASE \in Nat /\ InitSz \in 1 .. KERNBASE - 1 /\ Amounts \subseteq Int
BY ConstantsAssumption

USE MemoryConstants

-----------------------------------------------------------------------------
(* Pages and sizes. *)

\* Pages lie in memory in the order of their numbers.
LEMMA PagesAscend ==
  ASSUME NEW i \in Nat, NEW j \in Nat, i <= j
  PROVE  i * PGSIZE <= j * PGSIZE
<1>1. PICK d \in Nat : j = i + d
  <2>1. j - i \in Nat /\ j = i + (j - i)
    OBVIOUS
  <2> QED
    BY <2>1
<1>2. (i + d) * PGSIZE = i * PGSIZE + d * PGSIZE /\ d * PGSIZE >= 0 /\ i * PGSIZE \in Nat /\ d * PGSIZE \in Nat
  OBVIOUS
<1> QED
  BY <1>1, <1>2

\* A page that begins below KERNBASE is one of Pages.
LEMMA PageBelow ==
  ASSUME NEW i \in Nat, i * PGSIZE < KERNBASE
  PROVE  i \in Pages
<1>1. PICK d \in Nat : PGSIZE = d + 1
  <2>1. PGSIZE - 1 \in Nat /\ PGSIZE = (PGSIZE - 1) + 1
    OBVIOUS
  <2> QED
    BY <2>1
<1>2. i * (d + 1) = i * d + i /\ i * d \in Nat
  OBVIOUS
<1> QED
  BY <1>1, <1>2 DEF Pages

\* What growing adds to the pages of a space, and what shrinking leaves of them.
LEMMA PagesSplit ==
  ASSUME NEW a \in Nat, NEW b \in Nat, a <= b
  PROVE  /\ PagesIn(0, b) = PagesIn(0, a) \cup PagesIn(a, b)
         /\ PagesIn(0, a) \cap PagesIn(a, b) = {}
         /\ PagesIn(0, b) \ PagesIn(a, b) = PagesIn(0, a)
<1>1. \A i \in Pages : i * PGSIZE \in Nat
  BY DEF Pages
<1> DEFINE at(i) == i * PGSIZE
<1>2. \A i \in Pages : at(i) \in Nat
  BY <1>1
<1>3. \A x, y : PagesIn(x, y) = {i \in Pages : x <= at(i) /\ at(i) < y}
  BY DEF PagesIn
<1> HIDE DEF at
<1> QED
  BY <1>2, <1>3

\* A copy that has gone through all of a size has the pages of that size.
LEMMA CopyComplete ==
  ASSUME NEW page \in Nat, NEW size \in Nat, ~ (page * PGSIZE < size),
         \A i \in Pages : i < page => i * PGSIZE < size
  PROVE  {i \in Pages : i < page} = PagesIn(0, size)
<1>1. ASSUME NEW i \in Pages PROVE i \in Nat /\ i * PGSIZE \in Nat
  BY DEF Pages
<1>2. ASSUME NEW i \in Pages, i * PGSIZE < size PROVE i < page
  <2>1. SUFFICES ASSUME page <= i PROVE FALSE
    BY <1>1
  <2>2. page * PGSIZE <= i * PGSIZE
    BY <1>1, <2>1, PagesAscend
  <2>3. page * PGSIZE \in Nat
    OBVIOUS
  <2> QED
    BY <1>1, <1>2, <2>2, <2>3
<1> QED
  BY <1>1, <1>2 DEF PagesIn

-----------------------------------------------------------------------------
(* The first state. *)

LEMMA InitIInv == Init => IInv
<1> SUFFICES ASSUME Init PROVE IInv
  OBVIOUS
<1>1. PagesIn(0, InitSz) \subseteq Pages
  BY DEF PagesIn
<1>2. NoCall \in CallType /\ NoCall.name = "none"
  BY DEF CallType, NoCall
<1>3. Types
  <2>1. PICK s \in Spaces :
          /\ space = [p \in Slots |-> IF p = InitSlot THEN s ELSE NoSpace]
          /\ inUse = {s}
          /\ mapped = [t \in Spaces |-> IF t = s THEN PagesIn(0, InitSz) ELSE {}]
    BY DEF Init
  <2>2. space \in [Slots -> Spaces \cup {NoSpace}] /\ inUse \subseteq Spaces
        /\ mapped \in [Spaces -> SUBSET Pages]
    BY <1>1, <2>1
  <2>3. call \in [Slots -> CallType] /\ sz \in [Slots -> 0 .. KERNBASE - 1]
    BY <1>2 DEF Init
  <2> QED
    BY <2>2, <2>3 DEF Init, Types
<1>4. CallsSound /\ CopiesApart
  BY <1>2 DEF Init, CallsSound, CopiesApart
<1>5. SpacesSound /\ SizesKnown
  BY DEF Init, SpacesSound, SizesKnown, SizesAgree
<1> QED
  BY <1>3, <1>4, <1>5 DEF IInv, SizeInv

-----------------------------------------------------------------------------
(* sbrk() *)

\* What Grow and Shrink leave alone beside the sizes: the spaces of the others.
LEMMA SetSizeTypes ==
  ASSUME Types, NEW p \in Slots, NEW size \in 0 .. KERNBASE - 1, SetSize(p, size)
  PROVE  /\ sz' \in [Slots -> 0 .. KERNBASE - 1]
         /\ \A q \in Slots : space[q] # space[p] => sz'[q] = sz[q]
         /\ \A q \in Slots : space[q] = space[p] /\ state[q] # "unused" => sz'[q] = size
         /\ sz'[p] = size
BY DEF Types, SetSize, Sharers, SameSpace

\* As long as the sizes are known, a growth maps none of its pages twice, and
\* one that fails leaves the pages as they were.
LEMMA GrowKeepsPages ==
  ASSUME IInv, NEW p \in Slots, state[p] = "live", NEW n \in Int, Grow(p, n), ~disturbed'
  PROVE  /\ ~panicked'
         /\ \/ UNCHANGED <<sz, mapped>>
            \/ /\ sz[p] + n \in 0 .. KERNBASE - 1
               /\ mapped' = [mapped EXCEPT ![space[p]] = PagesIn(0, sz[p] + n)]
               /\ SetSize(p, sz[p] + n)
<1> DEFINE wanted == PagesIn(sz[p], sz[p] + n)
           there == wanted \cap mapped[space[p]]
<1>1. ~disturbed /\ ~panicked /\ n > 0 /\ sz[p] \in Nat /\ sz[p] + n \in Nat
  BY DEF Grow, IInv, SizeInv, SizesKnown, Types
<1>2. space[p] \in Spaces /\ mapped[space[p]] = PagesIn(0, sz[p])
  BY <1>1 DEF IInv, SizeInv, SizesKnown, SizesAgree, Types
<1>3. there = {} /\ PagesIn(0, sz[p] + n) = mapped[space[p]] \cup wanted
  BY <1>1, <1>2, PagesSplit
<1>4. mapped \in [Spaces -> SUBSET Pages]
  BY DEF IInv, Types
<1>5. CASE sz[p] + n >= KERNBASE
  BY <1>1, <1>5 DEF Grow
<1>6. CASE sz[p] + n < KERNBASE
  <2>1. sz[p] + n \in 0 .. KERNBASE - 1
    BY <1>1, <1>6
  <2>2. \/ mapped' = [mapped EXCEPT ![space[p]] = @ \ wanted] /\ UNCHANGED <<sz, panicked>>
        \/ /\ mapped' = [mapped EXCEPT ![space[p]] = @ \cup wanted]
           /\ SetSize(p, sz[p] + n)
           /\ UNCHANGED panicked
    <3>1. ~ (sz[p] + n >= KERNBASE)
      BY <1>1, <1>6
    <3>2. ~ \E i \in there : Cardinality({j \in wanted : j < i}) < free
      BY <1>3
    <3> QED
      BY <3>1, <3>2 DEF Grow
  <2>3. mapped[space[p]] \ wanted = mapped[space[p]]
    BY <1>3
  <2> HIDE DEF wanted
  <2>4. [mapped EXCEPT ![space[p]] = @ \ wanted] = mapped
    BY <1>4, <1>2, <2>3
  <2>5. [mapped EXCEPT ![space[p]] = @ \cup wanted] = [mapped EXCEPT ![space[p]] = PagesIn(0, sz[p] + n)]
    BY <1>3
  <2>6. CASE mapped' = [mapped EXCEPT ![space[p]] = @ \ wanted] /\ UNCHANGED <<sz, panicked>>
    BY <1>1, <2>4, <2>6
  <2>7. CASE /\ mapped' = [mapped EXCEPT ![space[p]] = @ \cup wanted]
             /\ SetSize(p, sz[p] + n)
             /\ UNCHANGED panicked
    <3>1. ~panicked' /\ mapped' = [mapped EXCEPT ![space[p]] = PagesIn(0, sz[p] + n)]
      BY <1>1, <2>5, <2>7
    <3> QED
      BY <2>1, <2>7, <3>1
  <2> QED
    BY <2>2, <2>6, <2>7
<1> QED
  BY <1>1, <1>5, <1>6

\* The same of shrinking: it leaves the pages of the new size.
LEMMA ShrinkKeepsPages ==
  ASSUME IInv, NEW p \in Slots, state[p] = "live", NEW n \in Int, Shrink(p, n), ~disturbed'
  PROVE  /\ ~panicked'
         /\ \E size \in 0 .. KERNBASE - 1 :
              /\ mapped' = [mapped EXCEPT ![space[p]] = PagesIn(0, size)]
              /\ SetSize(p, size)
              /\ size = sz[p] \/ size # 0
<1> DEFINE new == sz[p] + n
           gone == PagesIn(new, sz[p]) \cap mapped[space[p]]
<1>1. ~disturbed /\ ~panicked' /\ n < 0 /\ sz[p] \in 0 .. KERNBASE - 1 /\ new \in Int /\ new < sz[p] /\ new # 0
  <2>1. disturbed' = (disturbed \/ Disturbs(p) \/ new = 0) /\ panicked' = panicked /\ n < 0
    BY DEF Shrink
  <2>2. sz[p] \in 0 .. KERNBASE - 1
    BY DEF IInv, Types
  <2>3. ~disturbed /\ new # 0
    BY <2>1
  <2>4. ~panicked
    BY <2>3 DEF IInv, SizeInv, SizesKnown
  <2> QED
    BY <2>1, <2>2, <2>3, <2>4
<1>2. space[p] \in Spaces /\ mapped[space[p]] = PagesIn(0, sz[p]) /\ mapped \in [Spaces -> SUBSET Pages]
  BY <1>1 DEF IInv, SizeInv, SizesKnown, SizesAgree, Types
<1>3. CASE new < 0
  <2>1. [mapped EXCEPT ![space[p]] = PagesIn(0, sz[p])] = mapped
    BY <1>2
  <2>2. SetSize(p, sz[p]) /\ mapped' = mapped
    BY <1>3 DEF Shrink
  <2> QED
    BY <1>1, <2>1, <2>2
<1>4. CASE ~ (new < 0)
  <2>1. mapped' = [mapped EXCEPT ![space[p]] = @ \ gone] /\ SetSize(p, new)
    BY <1>1, <1>4 DEF Shrink
  <2>2. mapped[space[p]] \ gone = PagesIn(0, new)
    BY <1>1, <1>2, <1>4, PagesSplit
  <2>3. new \in 0 .. KERNBASE - 1
    BY <1>1, <1>4
  <2> HIDE DEF new, gone
  <2> QED
    BY <1>1, <2>1, <2>2, <2>3
<1> QED
  BY <1>3, <1>4

\* Types, whether or not the sizes are known.
LEMMA SbrkTypes ==
  ASSUME Types, NEW p \in Slots, state[p] = "live", space[p] \in Spaces, NEW n \in Int, sys_sbrk(p, n)
  PROVE  /\ Types'
         /\ \A s \in Spaces : s # space[p] => mapped'[s] = mapped[s]
         /\ \A q \in Slots : space[q] # space[p] => sz'[q] = sz[q]
         /\ Disturbs(p) \/ disturbed => disturbed'
<1>1. sz[p] \in 0 .. KERNBASE - 1 /\ sz[p] + n \in Int /\ PagesIn(sz[p], sz[p] + n) \subseteq Pages
      /\ disturbed \in BOOLEAN /\ Disturbs(p) \in BOOLEAN /\ panicked \in BOOLEAN
  BY DEF Types, PagesIn, Disturbs
<1>2. CASE Grow(p, n)
  <2>1. \/ UNCHANGED <<sz, mapped>>
        \/ mapped' = [mapped EXCEPT ![space[p]] = @ \ PagesIn(sz[p], sz[p] + n)] /\ UNCHANGED sz
        \/ /\ mapped' = [mapped EXCEPT ![space[p]] = @ \cup PagesIn(sz[p], sz[p] + n)]
           /\ sz[p] + n \in 0 .. KERNBASE - 1 /\ SetSize(p, sz[p] + n)
    <3>1. n > 0
      BY <1>2 DEF Grow
    <3>2. CASE sz[p] + n >= KERNBASE
      BY <1>2, <3>2 DEF Grow
    <3>3. CASE ~ (sz[p] + n >= KERNBASE)
      <4>1. sz[p] + n \in 0 .. KERNBASE - 1
        BY <1>1, <3>1, <3>3
      <4> QED
        BY <1>2, <3>3, <4>1 DEF Grow
    <3> QED
      BY <3>2, <3>3
  <2>2. disturbed' = (disturbed \/ Disturbs(p)) /\ panicked' \in BOOLEAN
    BY <1>1, <1>2 DEF Grow
  <2>3. sz' \in [Slots -> 0 .. KERNBASE - 1] /\ \A q \in Slots : space[q] # space[p] => sz'[q] = sz[q]
    BY <2>1, SetSizeTypes DEF Types
  <2>4. mapped' \in [Spaces -> SUBSET Pages] /\ \A s \in Spaces : s # space[p] => mapped'[s] = mapped[s]
    BY <1>1, <2>1 DEF Types
  <2> QED
    BY <1>1, <2>2, <2>3, <2>4 DEF Types, sys_sbrk
<1>3. CASE Shrink(p, n)
  <2>1. \/ mapped' = mapped /\ SetSize(p, sz[p])
        \/ /\ mapped' = [mapped EXCEPT ![space[p]] = @ \ (PagesIn(sz[p] + n, sz[p]) \cap mapped[space[p]])]
           /\ sz' = sz \/ (sz[p] + n \in 0 .. KERNBASE - 1 /\ SetSize(p, sz[p] + n))
    BY <1>1, <1>3 DEF Shrink
  <2>2. disturbed' = (disturbed \/ Disturbs(p) \/ sz[p] + n = 0) /\ panicked' \in BOOLEAN
    BY <1>1, <1>3 DEF Shrink
  <2>3. sz' \in [Slots -> 0 .. KERNBASE - 1] /\ \A q \in Slots : space[q] # space[p] => sz'[q] = sz[q]
    BY <1>1, <2>1, SetSizeTypes DEF Types
  <2>4. mapped' \in [Spaces -> SUBSET Pages] /\ \A s \in Spaces : s # space[p] => mapped'[s] = mapped[s]
    BY <1>1, <2>1 DEF Types
  <2> QED
    BY <1>1, <2>2, <2>3, <2>4 DEF Types, sys_sbrk
<1> QED
  BY <1>2, <1>3 DEF sys_sbrk

LEMMA SbrkKeeps ==
  ASSUME IInv, NEW p \in Slots, NEW n \in Int, sys_sbrk(p, n)
  PROVE  IInv'
<1>1. state[p] = "live" /\ call[p] = NoCall /\ space[p] \in inUse /\ space[p] \in Spaces
  BY DEF sys_sbrk, User, IInv, SizeInv, SpacesSound, Types
<1>2. UNCHANGED <<state, space, parent, inUse, call>>
  BY DEF sys_sbrk
<1>3. /\ Types'
      /\ \A s \in Spaces : s # space[p] => mapped'[s] = mapped[s]
      /\ \A q \in Slots : space[q] # space[p] => sz'[q] = sz[q]
      /\ Disturbs(p) \/ disturbed => disturbed'
  BY <1>1, SbrkTypes DEF IInv
<1>4. CallsSound'
  <2>1. ASSUME NEW u \in Slots, call[u] # NoCall, ~disturbed'
        PROVE  call[u].size = sz'[u]
    <3>1. state[u] = "live" /\ call[u].size = sz[u] /\ u # p
      BY <1>1, <1>3, <2>1 DEF IInv, SizeInv, CallsSound
    <3>2. space[u] # space[p]
      BY <1>3, <2>1, <3>1 DEF Disturbs, SameSpace
    <3> QED
      BY <1>3, <3>1, <3>2
  <2> QED
    BY <1>2, <2>1 DEF IInv, SizeInv, CallsSound
<1>5. CopiesApart'
  <2>1. ASSUME NEW u \in Slots, call[u].name = "fork"
        PROVE  mapped'[call[u].to] = mapped[call[u].to]
    BY <1>1, <1>3, <2>1 DEF IInv, SizeInv, CopiesApart, Types
  <2> QED
    BY <1>2, <2>1 DEF IInv, SizeInv, CopiesApart
<1>6. SpacesSound'
  BY <1>1, <1>2, <1>3 DEF IInv, SizeInv, SpacesSound
<1>7. SizesKnown'
  <2>1. SUFFICES ASSUME ~disturbed' PROVE SizesAgree' /\ ~panicked'
    BY DEF SizesKnown
  <2>2. ~disturbed /\ SizesAgree
    BY <1>3, <2>1 DEF IInv, SizeInv, SizesKnown
  <2>3. /\ ~panicked'
        /\ \/ UNCHANGED <<sz, mapped>>
           \/ \E size \in 0 .. KERNBASE - 1 :
                /\ mapped' = [mapped EXCEPT ![space[p]] = PagesIn(0, size)]
                /\ SetSize(p, size)
    <3>1. CASE Grow(p, n)
      BY <1>1, <2>1, <3>1, GrowKeepsPages
    <3>2. CASE Shrink(p, n)
      BY <1>1, <2>1, <3>2, ShrinkKeepsPages
    <3> QED
      BY <3>1, <3>2 DEF sys_sbrk
  <2>4. CASE UNCHANGED <<sz, mapped>>
    BY <1>2, <2>2, <2>3, <2>4 DEF SizesAgree
  <2>5. ASSUME NEW size \in 0 .. KERNBASE - 1,
               mapped' = [mapped EXCEPT ![space[p]] = PagesIn(0, size)],
               SetSize(p, size)
        PROVE  SizesAgree'
    <3>1. mapped'[space[p]] = PagesIn(0, size)
      BY <1>1, <2>5 DEF IInv, Types
    <3>2. ASSUME NEW q \in Slots, state[q] = "live"
          PROVE  space[q] \in inUse /\ mapped'[space[q]] = PagesIn(0, sz'[q])
      <4>1. space[q] \in inUse /\ space[q] \in Spaces /\ mapped[space[q]] = PagesIn(0, sz[q])
        BY <2>2, <3>2 DEF SizesAgree, IInv, Types
      <4>2. CASE space[q] = space[p]
        BY <2>5, <3>1, <3>2, <4>1, <4>2, SetSizeTypes DEF IInv
      <4>3. CASE space[q] # space[p]
        BY <1>3, <4>1, <4>3
      <4> QED
        BY <4>2, <4>3
    <3> QED
      BY <1>2, <3>2 DEF SizesAgree
  <2> QED
    BY <2>3, <2>4, <2>5
<1> QED
  BY <1>3, <1>4, <1>5, <1>6, <1>7 DEF IInv, SizeInv

-----------------------------------------------------------------------------
(* fork() *)

LEMMA ForkBeginKeeps ==
  ASSUME IInv, NEW p \in Slots, NEW q \in Slots, ForkBegin(p, q)
  PROVE  IInv'
<1>1. PICK s \in Spaces \ inUse :
        /\ inUse' = inUse \cup {s}
        /\ call' = [call EXCEPT ![p] = [name |-> "fork", child |-> q, to |-> s, size |-> sz[p], page |-> 0]]
  BY DEF ForkBegin
<1> DEFINE new == [name |-> "fork", child |-> q, to |-> s, size |-> sz[p], page |-> 0]
<1>2. /\ state[p] = "live" /\ call[p] = NoCall /\ state[q] = "unused" /\ q # p
      /\ state' = [state EXCEPT ![q] = "embryo"]
      /\ UNCHANGED <<space, sz, parent, mapped, free, panicked, disturbed>>
  BY DEF ForkBegin, User
<1>3. sz[p] \in 0 .. KERNBASE - 1 /\ new \in CallType
  BY DEF IInv, Types, CallType
<1>4. Types'
  BY <1>1, <1>2, <1>3 DEF IInv, Types
<1>5. /\ \A u \in Slots : u # p => call'[u] = call[u]
      /\ call'[p] = new
      /\ \A u \in Slots : u # q => state'[u] = state[u]
      /\ state'[q] = "embryo"
  BY <1>1, <1>2 DEF IInv, Types
<1>6. new # NoCall /\ new.name = "fork" /\ new.child = q /\ new.to = s /\ new.size = sz[p] /\ new.page = 0
  BY DEF NoCall
<1>7. \A u \in Slots : call[u] # NoCall => call[u].child # q /\ u # q
  BY <1>2 DEF IInv, SizeInv, CallsSound
<1> HIDE DEF new
<1>8. CallsSound'
  BY <1>2, <1>5, <1>6, <1>7 DEF IInv, SizeInv, CallsSound
<1>9. CopiesApart'
  <2>1. \A i \in Pages : ~ (i < 0)
    BY DEF Pages
  <2>2. mapped[s] = {} /\ \A u \in Slots : state[u] \in {"live", "zombie"} => space[u] # s
    BY DEF IInv, SizeInv, SpacesSound
  <2>3. \A u \in Slots : call[u].name = "fork" => call[u].to # s
    BY DEF IInv, SizeInv, CopiesApart
  <2>4. ASSUME NEW u \in Slots, u # p, call[u].name = "fork"
        PROVE  /\ call[u].to \in inUse'
               /\ \A t \in Slots : state'[t] \in {"live", "zombie"} => space[t] # call[u].to
               /\ \A t \in Slots \ {u} : call'[t].name = "fork" => call'[t].to # call[u].to
               /\ mapped[call[u].to] = {i \in Pages : i < call[u].page}
               /\ \A i \in Pages : i < call[u].page => i * PGSIZE < call[u].size
    BY <1>1, <1>2, <1>5, <1>6, <2>3, <2>4 DEF IInv, SizeInv, CopiesApart
  <2>5. /\ s \in inUse'
        /\ \A t \in Slots : state'[t] \in {"live", "zombie"} => space[t] # s
        /\ \A t \in Slots \ {p} : call'[t].name = "fork" => call'[t].to # s
        /\ mapped[s] = {i \in Pages : i < 0}
    BY <1>1, <1>5, <2>1, <2>2, <2>3
  <2> QED
    BY <1>2, <1>5, <1>6, <2>1, <2>4, <2>5 DEF CopiesApart
<1>10. SpacesSound'
  BY <1>1, <1>2, <1>5 DEF IInv, SizeInv, SpacesSound
<1>11. SizesKnown'
  BY <1>1, <1>2, <1>5 DEF IInv, SizeInv, SizesKnown, SizesAgree
<1> QED
  BY <1>4, <1>8, <1>9, <1>10, <1>11 DEF IInv, SizeInv

LEMMA ForkFailsKeeps ==
  ASSUME IInv, NEW p \in Slots, NEW q \in Slots, ForkFails(p, q)
  PROVE  IInv'
<1>1. /\ state[q] = "unused" /\ space' = [space EXCEPT ![q] = NoSpace]
      /\ UNCHANGED <<state, sz, parent, mapped, inUse, free, call, panicked, disturbed>>
  BY DEF ForkFails, memory
<1>2. \A u \in Slots : u # q => space'[u] = space[u]
  BY <1>1 DEF IInv, Types
<1>3. Types'
  BY <1>1 DEF IInv, Types
<1>4. CallsSound'
  <2>1. \A u \in Slots : call[u] # NoCall => u # q /\ call[u].child # q /\ call[u].child \in Slots
    BY <1>1 DEF IInv, SizeInv, CallsSound
  <2> QED
    BY <1>1, <1>2, <2>1 DEF IInv, SizeInv, CallsSound
<1>5. CopiesApart' /\ SpacesSound'
  BY <1>1, <1>2 DEF IInv, SizeInv, CopiesApart, SpacesSound
<1>6. SizesKnown'
  BY <1>1, <1>2 DEF IInv, SizeInv, SizesKnown, SizesAgree
<1> QED
  BY <1>3, <1>4, <1>5, <1>6 DEF IInv, SizeInv

LEMMA CopyPageKeeps ==
  ASSUME IInv, NEW p \in Slots, CopyPage(p)
  PROVE  IInv'
<1> DEFINE i == call[p].page
           to == call[p].to
<1>1. /\ call[p].name = "fork" /\ call[p] # NoCall /\ i * PGSIZE < call[p].size
      /\ UNCHANGED <<state, space, sz, parent, inUse, disturbed>>
  BY DEF CopyPage, Copying, NoCall, tables
<1>2. /\ state[p] = "live" /\ to \in inUse /\ to \in Spaces /\ space[p] \in Spaces /\ space[p] # to
      /\ i \in Nat /\ call[p].size \in Nat
  BY <1>1 DEF IInv, SizeInv, CallsSound, CopiesApart, SpacesSound, Types, CallType
<1>3. ~disturbed => i \in mapped[space[p]]
  <2>1. SUFFICES ASSUME ~disturbed PROVE i \in mapped[space[p]]
    OBVIOUS
  <2>2. call[p].size = sz[p] /\ mapped[space[p]] = PagesIn(0, sz[p]) /\ sz[p] < KERNBASE /\ sz[p] \in Nat
    BY <1>1, <1>2, <2>1 DEF IInv, SizeInv, CallsSound, SizesKnown, SizesAgree, Types
  <2>3. i * PGSIZE \in Nat
    BY <1>2
  <2> HIDE DEF i
  <2>4. i \in Pages
    BY <1>1, <1>2, <2>2, <2>3, PageBelow
  <2> QED
    BY <1>1, <2>2, <2>3, <2>4 DEF PagesIn
<1>4. CASE i \notin mapped[space[p]]
  <2>1. panicked' = TRUE /\ UNCHANGED <<mapped, call>>
    BY <1>4 DEF CopyPage
  <2>2. disturbed
    BY <1>3, <1>4 DEF IInv, Types
  <2> QED
    BY <1>1, <2>1, <2>2
    DEF IInv, SizeInv, Types, CallsSound, CopiesApart, SpacesSound, SizesKnown
<1>5. CASE i \in mapped[space[p]]
  <2>1. /\ mapped' = [mapped EXCEPT ![to] = @ \cup {i}]
        /\ call' = [call EXCEPT ![p].page = @ + 1]
        /\ UNCHANGED panicked
    BY <1>5 DEF CopyPage
  <2>2. i \in Pages /\ i + 1 \in Nat
    BY <1>2, <1>5 DEF IInv, Types
  <2>3. /\ call' \in [Slots -> CallType]
        /\ \A u \in Slots : u # p => call'[u] = call[u]
        /\ call'[p] # NoCall /\ call'[p].page = i + 1
        /\ call'[p].name = "fork" /\ call'[p].child = call[p].child
        /\ call'[p].to = to /\ call'[p].size = call[p].size
    BY <1>1, <2>1, <2>2 DEF IInv, Types, CallType, NoCall
  <2>4. /\ mapped' \in [Spaces -> SUBSET Pages]
        /\ \A s \in Spaces : s # to => mapped'[s] = mapped[s]
        /\ mapped'[to] = mapped[to] \cup {i}
    BY <1>2, <2>1, <2>2 DEF IInv, Types
  <2>5. Types'
    BY <1>1, <2>1, <2>3, <2>4 DEF IInv, Types
  <2>6. CallsSound'
    BY <1>1, <2>3 DEF IInv, SizeInv, CallsSound
  <2>7. CopiesApart'
    <3>1. mapped[to] = {j \in Pages : j < i} /\ \A j \in Pages : j < i => j * PGSIZE < call[p].size
      BY <1>1 DEF IInv, SizeInv, CopiesApart
    <3>2. \A j \in Pages : j < i + 1 <=> j < i \/ j = i
      BY <1>2 DEF Pages
    <3>3. /\ mapped'[to] = {j \in Pages : j < i + 1}
          /\ \A j \in Pages : j < i + 1 => j * PGSIZE < call[p].size
      <4> HIDE DEF i
      <4> QED
        BY <1>1, <2>2, <2>4, <3>1, <3>2
    <3>4. ASSUME NEW u \in Slots, u # p, call[u].name = "fork"
          PROVE  mapped'[call[u].to] = mapped[call[u].to]
      BY <1>1, <2>4, <3>4 DEF IInv, SizeInv, CopiesApart, Types
    <3> HIDE DEF i, to
    <3>5. ASSUME NEW u \in Slots, u # p, call'[u].name = "fork"
          PROVE  /\ call'[u].to \in inUse'
                 /\ \A t \in Slots : state'[t] \in {"live", "zombie"} => space'[t] # call'[u].to
                 /\ \A t \in Slots \ {u} : call'[t].name = "fork" => call'[t].to # call'[u].to
                 /\ mapped'[call'[u].to] = {j \in Pages : j < call'[u].page}
                 /\ \A j \in Pages : j < call'[u].page => j * PGSIZE < call'[u].size
      BY <1>1, <2>3, <3>4, <3>5 DEF IInv, SizeInv, CopiesApart, to
    <3>6. /\ to \in inUse'
          /\ \A t \in Slots : state'[t] \in {"live", "zombie"} => space'[t] # to
          /\ \A t \in Slots \ {p} : call'[t].name = "fork" => call'[t].to # to
      BY <1>1, <2>3 DEF IInv, SizeInv, CopiesApart, to
    <3> QED
      BY <2>3, <3>3, <3>5, <3>6 DEF CopiesApart
  <2>8. SpacesSound'
    BY <1>1, <1>2, <2>4 DEF IInv, SizeInv, SpacesSound
  <2>9. SizesKnown'
    <3>1. ASSUME NEW u \in Slots, state[u] = "live" PROVE mapped'[space[u]] = mapped[space[u]]
      BY <1>1, <2>4, <3>1 DEF IInv, SizeInv, CopiesApart, SpacesSound, Types
    <3> QED
      BY <1>1, <2>1, <3>1 DEF IInv, SizeInv, SizesKnown, SizesAgree
  <2> QED
    BY <2>5, <2>6, <2>7, <2>8, <2>9 DEF IInv, SizeInv
<1> QED
  BY <1>4, <1>5

LEMMA CopyFailsKeeps ==
  ASSUME IInv, NEW p \in Slots, CopyFails(p)
  PROVE  IInv'
<1> DEFINE q == call[p].child
           to == call[p].to
<1>1. /\ call[p].name = "fork" /\ call[p] # NoCall
      /\ mapped' = [mapped EXCEPT ![to] = {}] /\ inUse' = inUse \ {to}
      /\ state' = [state EXCEPT ![q] = "unused"] /\ space' = [space EXCEPT ![q] = NoSpace]
      /\ call' = [call EXCEPT ![p] = NoCall]
      /\ UNCHANGED <<sz, parent, panicked, disturbed>>
  BY DEF CopyFails, Copying, NoCall
<1>2. /\ state[p] = "live" /\ q \in Slots /\ state[q] = "embryo" /\ to \in inUse /\ to \in Spaces
      /\ \A u \in Slots \ {p} : call[u] # NoCall => call[u].child # q
  BY <1>1 DEF IInv, SizeInv, CallsSound, CopiesApart, Types
<1>3. NoCall \in CallType /\ NoCall.name = "none"
  BY DEF NoCall, CallType
<1>4. Types'
  BY <1>1, <1>2, <1>3 DEF IInv, Types
<1>5. /\ \A u \in Slots : u # p => call'[u] = call[u]
      /\ call'[p] = NoCall
      /\ \A u \in Slots : u # q => state'[u] = state[u] /\ space'[u] = space[u]
      /\ state'[q] = "unused"
      /\ \A s \in Spaces : s # to => mapped'[s] = mapped[s]
      /\ mapped'[to] = {}
  BY <1>1, <1>2 DEF IInv, Types
<1> HIDE DEF q, to
<1>6. CallsSound'
  <2>1. ASSUME NEW u \in Slots, call'[u] # NoCall
        PROVE  /\ u # p /\ call'[u] = call[u] /\ u # q /\ call[u].child \in Slots /\ call[u].child # q
               /\ state'[u] = state[u] /\ space'[u] = space[u]
               /\ state'[call[u].child] = state[call[u].child] /\ space'[call[u].child] = space[call[u].child]
    BY <1>2, <1>5, <2>1 DEF IInv, SizeInv, CallsSound
  <2> QED
    BY <1>1, <2>1 DEF IInv, SizeInv, CallsSound
<1>7. CopiesApart'
  <2>1. ASSUME NEW u \in Slots, call'[u].name = "fork"
        PROVE  /\ u # p /\ call'[u] = call[u] /\ call[u].to # to
               /\ call[u].to \in inUse' /\ mapped'[call[u].to] = mapped[call[u].to]
    BY <1>1, <1>3, <1>5, <2>1 DEF IInv, SizeInv, CopiesApart, Types, to
  <2> QED
    BY <1>5, <2>1 DEF IInv, SizeInv, CopiesApart
<1>8. ASSUME NEW u \in Slots, state'[u] \in {"live", "zombie"}
      PROVE  /\ u # q /\ state'[u] = state[u] /\ space'[u] = space[u] /\ space[u] # to /\ space[u] \in Spaces
             /\ mapped'[space[u]] = mapped[space[u]]
  BY <1>1, <1>5, <1>8 DEF IInv, SizeInv, CopiesApart, SpacesSound, Types, to
<1>9. SpacesSound'
  BY <1>1, <1>5, <1>8 DEF IInv, SizeInv, SpacesSound
<1>10. SizesKnown'
  BY <1>1, <1>8 DEF IInv, SizeInv, SizesKnown, SizesAgree
<1> QED
  BY <1>4, <1>6, <1>7, <1>9, <1>10 DEF IInv, SizeInv

LEMMA ForkEndKeeps ==
  ASSUME IInv, NEW p \in Slots, ForkEnd(p)
  PROVE  IInv'
<1> DEFINE q == call[p].child
           to == call[p].to
<1>1. /\ call[p].name = "fork" /\ call[p] # NoCall /\ ~ (call[p].page * PGSIZE < call[p].size)
      /\ state' = [state EXCEPT ![q] = "live"] /\ space' = [space EXCEPT ![q] = to]
      /\ sz' = [sz EXCEPT ![q] = sz[p]]
      /\ call' = [call EXCEPT ![p] = NoCall]
      /\ UNCHANGED <<mapped, inUse, free, panicked, disturbed>>
  BY DEF ForkEnd, Copying, NoCall, memory
<1>2. /\ state[p] = "live" /\ q \in Slots /\ state[q] = "embryo" /\ to \in inUse /\ to \in Spaces
      /\ \A u \in Slots \ {p} : call[u] # NoCall => call[u].child # q
      /\ call[q] = NoCall
  BY <1>1 DEF IInv, SizeInv, CallsSound, CopiesApart, Types
<1>3. NoCall \in CallType /\ NoCall.name = "none"
  BY DEF NoCall, CallType
<1>4. Types'
  BY <1>1, <1>2, <1>3 DEF IInv, Types
<1>5. /\ \A u \in Slots : u # p => call'[u] = call[u]
      /\ call'[p] = NoCall
      /\ \A u \in Slots : u # q => state'[u] = state[u] /\ space'[u] = space[u] /\ sz'[u] = sz[u]
      /\ state'[q] = "live" /\ space'[q] = to /\ sz'[q] = sz[p]
  BY <1>1, <1>2 DEF IInv, Types
<1>6. ~disturbed => mapped[to] = PagesIn(0, sz[p])
  <2>1. call[p].page \in Nat /\ call[p].size \in Nat
    BY DEF IInv, Types, CallType
  <2>2. mapped[to] = PagesIn(0, call[p].size)
    BY <1>1, <2>1, CopyComplete DEF IInv, SizeInv, CopiesApart
  <2> QED
    BY <1>1, <2>2 DEF IInv, SizeInv, CallsSound
<1> HIDE DEF q, to
<1>7. CallsSound'
  <2>1. ASSUME NEW u \in Slots, call'[u] # NoCall
        PROVE  /\ u # p /\ call'[u] = call[u] /\ u # q /\ call[u].child \in Slots /\ call[u].child # q
               /\ state'[u] = state[u] /\ space'[u] = space[u] /\ sz'[u] = sz[u]
               /\ state'[call[u].child] = state[call[u].child] /\ space'[call[u].child] = space[call[u].child]
    BY <1>2, <1>5, <2>1 DEF IInv, SizeInv, CallsSound
  <2> QED
    BY <1>1, <2>1 DEF IInv, SizeInv, CallsSound
<1>8. CopiesApart'
  <2>1. ASSUME NEW u \in Slots, call'[u].name = "fork"
        PROVE  u # p /\ call'[u] = call[u] /\ call[u].to # to
    BY <1>1, <1>3, <1>5, <2>1 DEF IInv, SizeInv, CopiesApart, to
  <2> QED
    BY <1>1, <1>5, <2>1 DEF IInv, SizeInv, CopiesApart
<1>9. SpacesSound'
  BY <1>1, <1>2, <1>5 DEF IInv, SizeInv, SpacesSound
<1>10. SizesKnown'
  BY <1>1, <1>2, <1>5, <1>6 DEF IInv, SizeInv, SizesKnown, SizesAgree
<1> QED
  BY <1>4, <1>7, <1>8, <1>9, <1>10 DEF IInv, SizeInv

-----------------------------------------------------------------------------
(* clone() *)

LEMMA CloneBeginKeeps ==
  ASSUME IInv, NEW p \in Slots, NEW q \in Slots, CloneBegin(p, q)
  PROVE  IInv'
<1> DEFINE new == [name |-> "clone", child |-> q, to |-> NoSpace, size |-> sz[p], page |-> 0]
<1>1. /\ state[p] = "live" /\ call[p] = NoCall /\ state[q] = "unused" /\ q # p
      /\ state' = [state EXCEPT ![q] = "embryo"] /\ space' = [space EXCEPT ![q] = space[p]]
      /\ call' = [call EXCEPT ![p] = new]
      /\ UNCHANGED <<sz, parent, mapped, inUse, free, panicked, disturbed>>
  BY DEF CloneBegin, User, memory
<1>2. /\ new # NoCall /\ new.name = "clone" /\ new.child = q /\ new.size = sz[p]
      /\ new \in CallType /\ NoCall.name = "none"
  BY DEF NoCall, CallType, IInv, Types
<1> HIDE DEF new
<1>3. Types'
  BY <1>1, <1>2 DEF IInv, Types
<1>4. /\ \A u \in Slots : u # p => call'[u] = call[u]
      /\ call'[p] = new
      /\ \A u \in Slots : u # q => state'[u] = state[u] /\ space'[u] = space[u]
      /\ state'[q] = "embryo" /\ space'[q] = space[p]
  BY <1>1 DEF IInv, Types
<1>5. \A u \in Slots : call[u] # NoCall => u # p /\ u # q /\ call[u].child \in Slots /\ call[u].child # q
  BY <1>1 DEF IInv, SizeInv, CallsSound
<1>6. CallsSound'
  <2>1. ASSUME NEW u \in Slots, u # p, call'[u] # NoCall
        PROVE  /\ state'[u] = "live" /\ call'[u].child \in Slots /\ state'[call'[u].child] = "embryo"
               /\ call'[u].name \in {"fork", "clone"}
               /\ \A t \in Slots \ {u} : call'[t] # NoCall => call'[t].child # call'[u].child
               /\ call'[u].name = "clone" => space'[call'[u].child] = space'[u]
               /\ ~disturbed' => call'[u].size = sz'[u]
    BY <1>1, <1>2, <1>4, <1>5, <2>1 DEF IInv, SizeInv, CallsSound
  <2>2. \A t \in Slots \ {p} : call'[t] # NoCall => call'[t].child # q
    BY <1>4, <1>5
  <2> QED
    BY <1>1, <1>2, <1>4, <2>1, <2>2 DEF CallsSound
<1>7. CopiesApart'
  <2>1. \A u \in Slots : call'[u].name = "fork" => u # p /\ call'[u] = call[u]
    BY <1>2, <1>4
  <2> QED
    BY <1>1, <1>4, <2>1 DEF IInv, SizeInv, CopiesApart
<1>8. SpacesSound' /\ SizesKnown'
  BY <1>1, <1>4 DEF IInv, SizeInv, SpacesSound, SizesKnown, SizesAgree
<1> QED
  BY <1>3, <1>6, <1>7, <1>8 DEF IInv, SizeInv

LEMMA CloneEndKeeps ==
  ASSUME IInv, NEW p \in Slots, CloneEnd(p)
  PROVE  IInv'
<1> DEFINE q == call[p].child
<1>1. /\ call[p].name = "clone" /\ call[p] # NoCall
      /\ state' = [state EXCEPT ![q] = "live"]
      /\ sz' = [sz EXCEPT ![q] = call[p].size]
      /\ call' = [call EXCEPT ![p] = NoCall]
      /\ UNCHANGED <<space, mapped, inUse, free, panicked, disturbed>>
  BY DEF CloneEnd, NoCall, memory
<1>2. /\ state[p] = "live" /\ q \in Slots /\ state[q] = "embryo" /\ space[q] = space[p]
      /\ \A u \in Slots \ {p} : call[u] # NoCall => call[u].child # q
      /\ call[q] = NoCall
      /\ ~disturbed => call[p].size = sz[p]
  BY <1>1 DEF IInv, SizeInv, CallsSound
<1>3. NoCall \in CallType /\ NoCall.name = "none"
  BY DEF NoCall, CallType
<1>4. /\ \A u \in Slots : u # p => call'[u] = call[u]
      /\ call'[p] = NoCall
      /\ \A u \in Slots : u # q => state'[u] = state[u] /\ sz'[u] = sz[u]
      /\ state'[q] = "live" /\ sz'[q] = call[p].size
  BY <1>1, <1>2 DEF IInv, Types
<1>5. Types'
  <2>1. call[p].size \in 0 .. KERNBASE - 1
    BY DEF IInv, Types, CallType
  <2>2. call' \in [Slots -> CallType] /\ sz' \in [Slots -> 0 .. KERNBASE - 1]
    BY <1>1, <1>3, <2>1 DEF IInv, Types
  <2> QED
    BY <1>1, <2>2 DEF IInv, Types
<1> HIDE DEF q
<1>6. CallsSound'
  <2>1. ASSUME NEW u \in Slots, call'[u] # NoCall
        PROVE  /\ u # p /\ call'[u] = call[u] /\ u # q /\ call[u].child \in Slots /\ call[u].child # q
               /\ state'[u] = state[u] /\ sz'[u] = sz[u]
               /\ state'[call[u].child] = state[call[u].child]
    BY <1>2, <1>4, <2>1 DEF IInv, SizeInv, CallsSound
  <2> QED
    BY <1>1, <2>1 DEF IInv, SizeInv, CallsSound
<1>7. CopiesApart'
  <2>1. \A u \in Slots : call'[u].name = "fork" => u # p /\ call'[u] = call[u]
    BY <1>3, <1>4
  <2>2. \A u \in Slots : state'[u] \in {"live", "zombie"} =>
          \E t \in Slots : state[t] \in {"live", "zombie"} /\ space[t] = space'[u]
    BY <1>1, <1>2, <1>4
  <2> QED
    BY <1>1, <1>4, <2>1, <2>2 DEF IInv, SizeInv, CopiesApart
<1>8. SpacesSound' /\ SizesKnown'
  BY <1>1, <1>2, <1>4 DEF IInv, SizeInv, SpacesSound, SizesKnown, SizesAgree
<1> QED
  BY <1>5, <1>6, <1>7, <1>8 DEF IInv, SizeInv

-----------------------------------------------------------------------------
(* exit(), wait() and join() *)

LEMMA ExitKeeps ==
  ASSUME IInv, NEW p \in Slots, exit(p)
  PROVE  IInv'
<1>1. /\ state[p] = "live" /\ call[p] = NoCall
      /\ state' = [state EXCEPT ![p] = "zombie"]
      /\ UNCHANGED <<space, sz, mapped, inUse, call, panicked, disturbed>>
  BY DEF exit, User, memory
<1>2. /\ \A u \in Slots : u # p => state'[u] = state[u]
      /\ state'[p] = "zombie"
  BY <1>1 DEF IInv, Types
<1>3. Types'
  BY <1>1 DEF IInv, Types
<1>4. CallsSound'
  <2>1. \A u \in Slots : call[u] # NoCall => u # p /\ call[u].child # p /\ call[u].child \in Slots
    BY <1>1 DEF IInv, SizeInv, CallsSound
  <2> QED
    BY <1>1, <1>2, <2>1 DEF IInv, SizeInv, CallsSound
<1>5. CopiesApart' /\ SpacesSound' /\ SizesKnown'
  BY <1>1, <1>2 DEF IInv, SizeInv, CopiesApart, SpacesSound, SizesKnown, SizesAgree
<1> QED
  BY <1>3, <1>4, <1>5 DEF IInv, SizeInv

\* The slot of a zombie that is reaped has no call and is nobody's child.
LEMMA ReapedSlot ==
  ASSUME IInv, NEW q \in Slots, state[q] = "zombie", state' = [state EXCEPT ![q] = "unused"]
  PROVE  /\ \A u \in Slots : u # q => state'[u] = state[u]
         /\ state'[q] = "unused"
         /\ \A u \in Slots : call[u] # NoCall => u # q /\ call[u].child # q /\ call[u].child \in Slots
BY DEF IInv, SizeInv, Types, CallsSound

LEMMA JoinKeeps ==
  ASSUME IInv, NEW p \in Slots, NEW q \in Slots, join(p, q)
  PROVE  IInv'
<1>1. /\ state[q] = "zombie" /\ state' = [state EXCEPT ![q] = "unused"]
      /\ UNCHANGED <<space, sz, mapped, inUse, call, panicked, disturbed>>
  BY DEF join, Reaped, memory
<1>2. Types'
  BY <1>1 DEF IInv, Types
<1>3. CallsSound'
  BY <1>1, ReapedSlot DEF IInv, SizeInv, CallsSound
<1>4. CopiesApart' /\ SpacesSound' /\ SizesKnown'
  BY <1>1, ReapedSlot DEF IInv, SizeInv, CopiesApart, SpacesSound, SizesKnown, SizesAgree
<1> QED
  BY <1>2, <1>3, <1>4 DEF IInv, SizeInv

LEMMA WaitKeeps ==
  ASSUME IInv, NEW p \in Slots, NEW q \in Slots, wait(p, q)
  PROVE  IInv'
<1>1. /\ state[q] = "zombie" /\ state' = [state EXCEPT ![q] = "unused"]
      /\ UNCHANGED <<sz, call, panicked, disturbed>>
  BY DEF wait, Reaped
<1>2. space[q] \in inUse /\ space[q] \in Spaces
  BY <1>1 DEF IInv, SizeInv, SpacesSound, Types
<1>3. CASE Shared(q)
  <2>1. space' = [space EXCEPT ![q] = NoSpace] /\ UNCHANGED <<mapped, inUse>>
    BY <1>3 DEF wait, memory
  <2>2. \A u \in Slots : u # q => space'[u] = space[u]
    BY <2>1 DEF IInv, Types
  <2>3. Types'
    BY <1>1, <2>1 DEF IInv, Types
  <2>4. CallsSound'
    BY <1>1, <2>2, ReapedSlot DEF IInv, SizeInv, CallsSound
  <2>5. ASSUME NEW u \in Slots, state'[u] \in {"live", "zombie"}
        PROVE  state'[u] = state[u] /\ space'[u] = space[u]
    BY <1>1, <2>2, <2>5, ReapedSlot
  <2>6. CopiesApart'
    BY <1>1, <2>1, <2>5 DEF IInv, SizeInv, CopiesApart
  <2>7. SpacesSound' /\ SizesKnown'
    BY <1>1, <2>1, <2>5 DEF IInv, SizeInv, SpacesSound, SizesKnown, SizesAgree
  <2> QED
    BY <2>3, <2>4, <2>6, <2>7 DEF IInv, SizeInv
<1>4. CASE ~Shared(q)
  <2>1. /\ mapped' = [mapped EXCEPT ![space[q]] = {}] /\ inUse' = inUse \ {space[q]} /\ space' = space
    BY <1>4 DEF wait
  <2>2. \A u \in Slots : u # q => space[u] # space[q]
    BY <1>4 DEF Shared, SameSpace
  <2>3. /\ \A s \in Spaces : s # space[q] => mapped'[s] = mapped[s]
        /\ mapped'[space[q]] = {}
    BY <1>2, <2>1 DEF IInv, Types
  <2>4. Types'
    BY <1>1, <2>1 DEF IInv, Types
  <2>5. CallsSound'
    BY <1>1, <2>1, ReapedSlot DEF IInv, SizeInv, CallsSound
  <2>6. CopiesApart'
    <3>1. ASSUME NEW u \in Slots, call[u].name = "fork"
          PROVE  call[u].to # space[q] /\ call[u].to \in inUse' /\ mapped'[call[u].to] = mapped[call[u].to]
      BY <1>1, <2>1, <2>3, <3>1 DEF IInv, SizeInv, CopiesApart, Types
    <3> QED
      BY <1>1, <2>1, <3>1, ReapedSlot DEF IInv, SizeInv, CopiesApart
  <2>7. SpacesSound'
    BY <1>1, <2>1, <2>2, <2>3, ReapedSlot DEF IInv, SizeInv, SpacesSound
  <2>8. SizesKnown'
    <3>1. ASSUME NEW u \in Slots, state'[u] = "live"
          PROVE  u # q /\ state[u] = "live" /\ space[u] # space[q] /\ (space[u] \in Spaces => mapped'[space[u]] = mapped[space[u]])
      BY <1>1, <2>2, <2>3, <3>1, ReapedSlot
    <3> QED
      BY <1>1, <2>1, <3>1 DEF IInv, SizeInv, SizesKnown, SizesAgree, Types
  <2> QED
    BY <2>4, <2>5, <2>6, <2>7, <2>8 DEF IInv, SizeInv
<1> QED
  BY <1>3, <1>4

-----------------------------------------------------------------------------
(* The theorems. *)

LEMMA StepIInv == IInv /\ [Next]_vars => IInv'
<1> SUFFICES ASSUME IInv, [Next]_vars PROVE IInv'
  OBVIOUS
<1>1. CASE UNCHANGED vars
  BY <1>1 DEF vars, tables, memory, IInv, SizeInv, Types, CallsSound, CopiesApart, SpacesSound, SizesKnown, SizesAgree
<1>2. ASSUME NEW p \in Slots, NEW n \in Amounts, sys_sbrk(p, n) PROVE IInv'
  BY <1>2, SbrkKeeps
<1>3. ASSUME NEW p \in Slots,
             CopyPage(p) \/ CopyFails(p) \/ ForkEnd(p) \/ CloneEnd(p) \/ exit(p)
      PROVE  IInv'
  BY <1>3, CopyPageKeeps, CopyFailsKeeps, ForkEndKeeps, CloneEndKeeps, ExitKeeps
<1>4. ASSUME NEW p \in Slots, NEW q \in Slots,
             ForkBegin(p, q) \/ ForkFails(p, q) \/ CloneBegin(p, q) \/ join(p, q) \/ wait(p, q)
      PROVE  IInv'
  BY <1>4, ForkBeginKeeps, ForkFailsKeeps, CloneBeginKeeps, JoinKeeps, WaitKeeps
<1> QED
  BY <1>1, <1>2, <1>3, <1>4 DEF Next

LEMMA Invariant == Spec => []IInv
BY InitIInv, StepIInv, PTL DEF Spec

\* Until a sbrk() meets a fork() or a clone() in its space, or takes all of
\* it, the threads know the size of their space and no copy or growth panics
\* (growproc, fork and clone of proc.c; mappages and copyuvm of vm.c).
THEOREM ThreadsKnowSize == Spec => []SizesKnown
<1>1. IInv => SizesKnown
  BY DEF IInv, SizeInv
<1> QED
  BY Invariant, <1>1, PTL

\* What makes a page of a live thread come or go, under the invariant.
LEMMA StepPages ==
  ASSUME IInv, [Next]_vars, ~disturbed',
         NEW p \in Slots, state[p] = "live", mapped'[space[p]] # mapped[space[p]], state'[p] = "live"
  PROVE  \E q \in Slots : space[q] = space[p] /\ state[q] = "live" /\ sz'[q] # sz[q]
<1>1. space[p] \in inUse /\ space[p] \in Spaces
  BY DEF IInv, SizeInv, SpacesSound, Types
<1>2. ASSUME NEW q \in Slots, NEW n \in Int, sys_sbrk(q, n)
      PROVE  space[q] = space[p] /\ state[q] = "live" /\ sz'[q] # sz[q]
  <2>1. state[q] = "live" /\ space[q] \in inUse /\ space[q] \in Spaces
    BY <1>2 DEF sys_sbrk, User, IInv, SizeInv, SpacesSound, Types
  <2>2. space[q] = space[p]
    BY <1>1, <1>2, <2>1, SbrkTypes DEF IInv
  <2>3. ~disturbed
    BY <1>2, <2>1, SbrkTypes DEF IInv
  <2>4. mapped[space[q]] = PagesIn(0, sz[q]) /\ mapped \in [Spaces -> SUBSET Pages]
    BY <2>1, <2>3 DEF IInv, SizeInv, SizesKnown, SizesAgree, Types
  <2>5. \E size \in 0 .. KERNBASE - 1 :
          mapped' = [mapped EXCEPT ![space[q]] = PagesIn(0, size)] /\ SetSize(q, size)
    <3>1. CASE Grow(q, n)
      <4>1. mapped' # mapped
        OBVIOUS
      <4> QED
        BY <2>1, <3>1, <4>1, GrowKeepsPages
    <3>2. CASE Shrink(q, n)
      BY <2>1, <3>2, ShrinkKeepsPages
    <3> QED
      BY <1>2, <3>1, <3>2 DEF sys_sbrk
  <2>6. PICK size \in 0 .. KERNBASE - 1 :
          mapped' = [mapped EXCEPT ![space[q]] = PagesIn(0, size)] /\ SetSize(q, size)
    BY <2>5
  <2>7. sz'[q] = size
    BY <2>6, SetSizeTypes DEF IInv
  <2>8. size # sz[q]
    BY <2>1, <2>2, <2>4, <2>6
  <2> QED
    BY <2>1, <2>2, <2>7, <2>8
<1>3. ASSUME NEW q \in Slots, CopyPage(q) \/ CopyFails(q) PROVE FALSE
  <2>1. call[q].name = "fork" /\ call[q] # NoCall
    BY <1>3 DEF CopyPage, CopyFails, Copying, NoCall
  <2>2. space[p] # call[q].to
    BY <2>1 DEF IInv, SizeInv, CopiesApart
  <2>3. mapped' = mapped \/ \E S : mapped' = [mapped EXCEPT ![call[q].to] = S]
    BY <1>3 DEF CopyPage, CopyFails
  <2> QED
    BY <1>1, <2>2, <2>3 DEF IInv, Types
<1>4. ASSUME NEW u \in Slots, NEW q \in Slots, wait(u, q) PROVE FALSE
  <2>1. state[q] = "zombie" /\ q # p
    BY <1>4 DEF wait
  <2>2. CASE Shared(q)
    BY <1>4, <2>2 DEF wait, memory
  <2>3. CASE ~Shared(q)
    <3>1. space[p] # space[q]
      BY <2>1, <2>3 DEF Shared, SameSpace
    <3>2. mapped' = [mapped EXCEPT ![space[q]] = {}]
      BY <1>4, <2>3 DEF wait
    <3> QED
      BY <1>1, <3>1, <3>2 DEF IInv, Types
  <2> QED
    BY <2>2, <2>3
<1>5. ASSUME NEW u \in Slots, NEW q \in Slots,
             \/ ForkEnd(u) \/ CloneEnd(u) \/ exit(u)
             \/ ForkBegin(u, q) \/ ForkFails(u, q) \/ CloneBegin(u, q) \/ join(u, q)
      PROVE  FALSE
  <2>1. UNCHANGED mapped
    BY <1>5 DEF ForkEnd, CloneEnd, exit, ForkBegin, ForkFails, CloneBegin, join, memory
  <2> QED
    BY <2>1
<1>6. CASE UNCHANGED vars
  BY <1>6 DEF vars, memory
<1> QED
  BY <1>2, <1>3, <1>4, <1>5, <1>6 DEF Next

\* A page of a space in which threads live comes or goes only by a sbrk() that
\* changes its size: not by wait() nor by a fork(), be it one that fails
\* (growproc, wait and fork of proc.c, freevm of vm.c).
THEOREM LivePagesKept == Spec => PagesKept
<1> DEFINE OnlySbrk == \A p \in Slots :
             /\ state[p] = "live" /\ state'[p] = "live"
             /\ ~disturbed' /\ mapped'[space[p]] # mapped[space[p]]
             => \E q \in Slots : /\ space[q] = space[p] /\ state[q] = "live"
                                 /\ sz'[q] # sz[q]
<1>1. IInv /\ [Next]_vars => OnlySbrk
  BY StepPages
<1>2. IInv /\ [Next]_vars => [OnlySbrk]_vars
  BY <1>1
<1> QED
  BY Invariant, <1>2, PTL DEF Spec, PagesKept

-----------------------------------------------------------------------------
(* The frames that are counted. *)

\* The mappings there are when the pages m are mapped.
Mappings(m) == {x \in Spaces \X Pages : x[2] \in m[x[1]]}

\* A page number of a copy that is under way is no more than its size.
CallsBounded == \A p \in Slots : call[p].page <= KERNBASE

\* What MemoryInv needs beside the invariant of the sizes.
MemInv ==
  /\ parent \in [Slots -> Slots \cup {NoSlot}]
  /\ free \in Nat /\ free + Cardinality(Mappings(mapped)) = Frames
  /\ CallsBounded

LEMMA PagesFinite ==
  /\ IsFiniteSet(Pages) /\ IsFiniteSet(Spaces)
  /\ \A S \in SUBSET Pages : IsFiniteSet(S) /\ Cardinality(S) \in Nat
<1>1. IsFiniteSet(Pages) /\ IsFiniteSet(Spaces)
  <2>1. IsFiniteSet(0 .. KERNBASE)
    BY FS_Interval
  <2>2. Pages \in SUBSET (0 .. KERNBASE)
    BY DEF Pages
  <2> QED
    BY <2>1, <2>2, FS_Subset, ConstantsAssumption
<1> QED
  BY <1>1, FS_Subset, FS_CardinalityType

\* When the pages of one space change, the mappings change by as many.
LEMMA Recount ==
  ASSUME NEW m \in [Spaces -> SUBSET Pages], NEW s \in Spaces, NEW new \in SUBSET Pages
  PROVE  /\ Cardinality(Mappings(m)) \in Nat
         /\ Cardinality(Mappings([m EXCEPT ![s] = new])) =
              (Cardinality(Mappings(m)) - Cardinality(m[s])) + Cardinality(new)
<1> DEFINE others == {x \in Spaces \X Pages : x[1] # s /\ x[2] \in m[x[1]]}
<1>1. IsFiniteSet(Spaces \X Pages)
  BY PagesFinite, FS_Product
<1>2. IsFiniteSet(others) /\ Cardinality(others) \in Nat
  <2>1. others \in SUBSET (Spaces \X Pages)
    OBVIOUS
  <2> HIDE DEF others
  <2> QED
    BY <1>1, <2>1, FS_Subset, FS_CardinalityType
<1>3. ASSUME NEW S \in SUBSET Pages
      PROVE  Cardinality(others \cup ({s} \X S)) = Cardinality(others) + Cardinality(S)
  <2>1. IsFiniteSet({s}) /\ Cardinality({s}) = 1 /\ IsFiniteSet(S) /\ Cardinality(S) \in Nat
    BY PagesFinite, FS_Singleton
  <2>2. IsFiniteSet({s} \X S) /\ Cardinality({s} \X S) = Cardinality({s}) * Cardinality(S)
    BY <2>1, FS_Product
  <2>3. Cardinality({s} \X S) = Cardinality(S)
    BY <2>1, <2>2
  <2>4. others \cap ({s} \X S) = {}
    OBVIOUS
  <2> HIDE DEF others
  <2>5. Cardinality(others \cup ({s} \X S)) =
          Cardinality(others) + Cardinality({s} \X S) - Cardinality(others \cap ({s} \X S))
    BY <1>2, <2>2, FS_Union
  <2> QED
    BY <1>2, <2>1, <2>3, <2>4, <2>5, FS_EmptySet
<1>4. Mappings(m) = others \cup ({s} \X m[s]) /\ m[s] \in SUBSET Pages
  <2>1. m[s] \in SUBSET Pages
    OBVIOUS
  <2>2. ASSUME NEW x \in Spaces \X Pages
        PROVE  x \in Mappings(m) <=> x \in others \cup ({s} \X m[s])
    BY DEF Mappings
  <2>3. Mappings(m) \subseteq Spaces \X Pages /\ others \cup ({s} \X m[s]) \subseteq Spaces \X Pages
    BY <2>1 DEF Mappings
  <2> HIDE DEF others
  <2> QED
    BY <2>1, <2>2, <2>3
<1>5. Mappings([m EXCEPT ![s] = new]) = others \cup ({s} \X new)
  <2> DEFINE n == [m EXCEPT ![s] = new]
  <2>1. n \in [Spaces -> SUBSET Pages] /\ n[s] = new /\ \A t \in Spaces \ {s} : n[t] = m[t]
    OBVIOUS
  <2> HIDE DEF n
  <2>2. ASSUME NEW x \in Spaces \X Pages
        PROVE  x \in Mappings(n) <=> x \in others \cup ({s} \X new)
    BY <2>1 DEF Mappings
  <2>3. Mappings(n) \subseteq Spaces \X Pages /\ others \cup ({s} \X new) \subseteq Spaces \X Pages
    BY DEF Mappings
  <2> HIDE DEF others
  <2>4. Mappings(n) = others \cup ({s} \X new)
    BY <2>2, <2>3
  <2> QED
    BY <2>4 DEF n
<1>6. Cardinality(m[s]) \in Nat /\ Cardinality(new) \in Nat
  BY <1>4, PagesFinite
<1> HIDE DEF others
<1>7. /\ Cardinality(Mappings(m)) = Cardinality(others) + Cardinality(m[s])
      /\ Cardinality(Mappings([m EXCEPT ![s] = new])) = Cardinality(others) + Cardinality(new)
  BY <1>3, <1>4, <1>5
<1> QED
  BY <1>2, <1>6, <1>7

\* Pages that are mapped anew, or unmapped, take and give as many frames.
LEMMA SetsOfPages ==
  ASSUME NEW S \in SUBSET Pages, NEW T \in SUBSET Pages
  PROVE  /\ S \cap T = {} => Cardinality(S \cup T) = Cardinality(S) + Cardinality(T)
         /\ Cardinality(S \ T) = Cardinality(S) - Cardinality(S \cap T)
         /\ Cardinality({}) = 0
<1>1. IsFiniteSet(S) /\ IsFiniteSet(T) /\ Cardinality(S) \in Nat /\ Cardinality(T) \in Nat
  BY PagesFinite
<1>2. Cardinality(S \cup T) = Cardinality(S) + Cardinality(T) - Cardinality(S \cap T)
  BY <1>1, FS_Union
<1>3. Cardinality(S \ T) = Cardinality(S) - Cardinality(S \cap T)
  BY <1>1, FS_Difference
<1>4. Cardinality({}) = 0
  BY FS_EmptySet
<1>5. ASSUME S \cap T = {} PROVE Cardinality(S \cup T) = Cardinality(S) + Cardinality(T)
  <2>1. Cardinality(S \cup T) = Cardinality(S) + Cardinality(T) - 0
    BY <1>2, <1>4, <1>5
  <2> QED
    BY <1>1, <2>1
<1> QED
  BY <1>3, <1>4, <1>5

\* userinit() takes the frames of the first process, of which there are enough.
LEMMA MemInvInit == Init => MemInv
<1> SUFFICES ASSUME Init PROVE MemInv
  OBVIOUS
<1> DEFINE first == PagesIn(0, InitSz)
           none == [t \in Spaces |-> {}]
<1>1. first \in SUBSET Pages
  BY DEF PagesIn
<1>2. Frames \in Nat /\ Frames * PGSIZE >= InitSz
  BY ConstantsAssumption
<1>3. Cardinality(first) \in Nat /\ Cardinality(first) <= Frames
  <2>1. ASSUME NEW i \in first PROVE i \in 0 .. Frames - 1
    <3>1. i \in Nat /\ i * PGSIZE < InitSz /\ i * PGSIZE \in Nat
      BY DEF PagesIn, Pages
    <3>2. SUFFICES ASSUME Frames <= i PROVE FALSE
      BY <1>2, <3>1
    <3>3. Frames * PGSIZE <= i * PGSIZE /\ Frames * PGSIZE \in Nat
      BY <1>2, <3>1, <3>2, PagesAscend
    <3> QED
      BY <1>2, <3>1, <3>3
  <2>2. first \in SUBSET (0 .. Frames - 1)
    BY <2>1
  <2> HIDE DEF first
  <2>3. IsFiniteSet(0 .. Frames - 1) /\ Cardinality(0 .. Frames - 1) = Frames
    BY <1>2, FS_Interval
  <2> QED
    BY <1>1, <2>2, <2>3, FS_Subset, PagesFinite
<1>4. PICK s \in Spaces : mapped = [t \in Spaces |-> IF t = s THEN first ELSE {}]
  BY DEF Init
<1>5. Cardinality(Mappings(mapped)) = Cardinality(first)
  <2>1. none \in [Spaces -> SUBSET Pages] /\ mapped = [none EXCEPT ![s] = first] /\ none[s] = {}
    BY <1>4
  <2>2. Mappings(none) = {}
    BY DEF Mappings
  <2> HIDE DEF none, first
  <2>3. Cardinality(Mappings([none EXCEPT ![s] = first])) =
          (Cardinality(Mappings(none)) - Cardinality(none[s])) + Cardinality(first)
    BY <1>1, <2>1, Recount
  <2>4. Cardinality(Mappings(none)) = 0 /\ Cardinality(none[s]) = 0
    BY <2>1, <2>2, FS_EmptySet
  <2> QED
    BY <1>3, <2>1, <2>3, <2>4
<1>6. free = Frames - Cardinality(first)
  BY DEF Init
<1> HIDE DEF first
<1>7. free \in Nat /\ free + Cardinality(Mappings(mapped)) = Frames
  BY <1>2, <1>3, <1>5, <1>6
<1>8. parent \in [Slots -> Slots \cup {NoSlot}] /\ CallsBounded
  BY DEF Init, CallsBounded, NoCall
<1> QED
  BY <1>7, <1>8 DEF MemInv

\* What a step does to the frames when it sets the pages of one space.
LEMMA FramesMove ==
  ASSUME Types, MemInv, NEW s \in Spaces, NEW new \in SUBSET Pages,
         mapped' = [mapped EXCEPT ![s] = new],
         free' = (free + Cardinality(mapped[s])) - Cardinality(new)
  PROVE  free' \in Int /\ free' + Cardinality(Mappings(mapped))' = Frames
<1>1. mapped \in [Spaces -> SUBSET Pages] /\ mapped[s] \in SUBSET Pages
  BY DEF Types
<1>2. Cardinality(mapped[s]) \in Nat /\ Cardinality(new) \in Nat
  BY <1>1, PagesFinite
<1>3. /\ Cardinality(Mappings(mapped)) \in Nat
      /\ Cardinality(Mappings(mapped))' =
           (Cardinality(Mappings(mapped)) - Cardinality(mapped[s])) + Cardinality(new)
  BY <1>1, Recount
<1> QED
  BY <1>2, <1>3 DEF MemInv

\* A growth without a panic has its pages to itself: a page that is there
\* already is met while there is still a frame for it.
LEMMA GrowthApart ==
  ASSUME NEW wanted \in SUBSET Pages, NEW S \in SUBSET Pages, free \in Nat,
         Cardinality(wanted) <= free,
         ~ \E i \in wanted \cap S : Cardinality({j \in wanted : j < i}) < free
  PROVE  wanted \cap S = {}
<1>1. SUFFICES ASSUME NEW i \in wanted \cap S PROVE FALSE
  OBVIOUS
<1> DEFINE before == {j \in wanted : j < i}
<1>2. IsFiniteSet(wanted) /\ Cardinality(wanted) \in Nat /\ before \in SUBSET wanted
  BY PagesFinite
<1>3. before # wanted
  <2>1. i \in Nat
    BY DEF Pages
  <2>2. i \in wanted /\ ~(i < i)
    BY <2>1
  <2> QED
    BY <2>2
<1>4. ~(Cardinality(before) < free)
  OBVIOUS
<1> HIDE DEF before
<1>5. Cardinality(before) \in Nat /\ Cardinality(before) <= Cardinality(wanted)
      /\ Cardinality(before) # Cardinality(wanted)
  BY <1>2, <1>3, FS_Subset, FS_CardinalityType
<1> QED
  BY <1>2, <1>4, <1>5

LEMMA GrowFrames ==
  ASSUME Types, MemInv, NEW p \in Slots, space[p] \in Spaces, NEW n \in Int, Grow(p, n)
  PROVE  free' \in Nat /\ free' + Cardinality(Mappings(mapped))' = Frames
<1> DEFINE wanted == PagesIn(sz[p], sz[p] + n)
           s == space[p]
           there == wanted \cap mapped[s]
<1>1. wanted \in SUBSET Pages /\ mapped[s] \in SUBSET Pages /\ free \in Nat
  BY DEF PagesIn, Types, MemInv
<1>2. /\ Cardinality(wanted) \in Nat /\ Cardinality(mapped[s]) \in Nat /\ Cardinality(there) \in Nat
      /\ mapped[s] \cap wanted = there
  <2>1. there \in SUBSET Pages /\ mapped[s] \cap wanted = there
    BY <1>1
  <2> HIDE DEF wanted, there
  <2> QED
    BY <1>1, <2>1, PagesFinite
<1>3. \/ UNCHANGED <<mapped, free>>
      \/ /\ Cardinality(wanted) > free
         /\ mapped' = [mapped EXCEPT ![s] = @ \ wanted] /\ free' = free + Cardinality(there)
      \/ /\ ~ \E i \in there : Cardinality({j \in wanted : j < i}) < free
         /\ ~ (Cardinality(wanted) > free)
         /\ mapped' = [mapped EXCEPT ![s] = @ \cup wanted] /\ free' = free - Cardinality(wanted)
  BY DEF Grow
<1> HIDE DEF wanted
<1>4. CASE UNCHANGED <<mapped, free>>
  <2>1. Mappings(mapped)' = Mappings(mapped)
    BY <1>4 DEF Mappings
  <2> QED
    BY <1>4, <2>1 DEF MemInv
<1>5. CASE /\ mapped' = [mapped EXCEPT ![s] = @ \ wanted] /\ free' = free + Cardinality(there)
  <2>1. Cardinality(mapped[s] \ wanted) = Cardinality(mapped[s]) - Cardinality(there)
    BY <1>1, <1>2, SetsOfPages, ZenonT(30)
  <2>2. free' = (free + Cardinality(mapped[s])) - Cardinality(mapped[s] \ wanted)
    BY <1>1, <1>2, <1>5, <2>1
  <2>3. mapped[s] \ wanted \in SUBSET Pages /\ mapped' = [mapped EXCEPT ![s] = mapped[s] \ wanted]
    BY <1>1, <1>5
  <2>4. free' \in Nat
    BY <1>1, <1>2, <1>5
  <2> QED
    BY <2>2, <2>3, <2>4, FramesMove
<1>6. CASE /\ ~ \E i \in there : Cardinality({j \in wanted : j < i}) < free
           /\ ~ (Cardinality(wanted) > free)
           /\ mapped' = [mapped EXCEPT ![s] = @ \cup wanted] /\ free' = free - Cardinality(wanted)
  <2>1. Cardinality(wanted) <= free
    BY <1>1, <1>2, <1>6
  <2>2. there = {}
    BY <1>1, <1>6, <2>1, GrowthApart, ZenonT(30)
  <2>3. Cardinality(mapped[s] \cup wanted) = Cardinality(mapped[s]) + Cardinality(wanted)
    BY <1>1, <1>2, <2>2, SetsOfPages
  <2>4. free' = (free + Cardinality(mapped[s])) - Cardinality(mapped[s] \cup wanted)
    BY <1>1, <1>2, <1>6, <2>3
  <2>5. mapped[s] \cup wanted \in SUBSET Pages /\ mapped' = [mapped EXCEPT ![s] = mapped[s] \cup wanted]
    BY <1>1, <1>6
  <2>6. free' \in Nat
    BY <1>1, <1>2, <1>6, <2>1
  <2> QED
    BY <2>4, <2>5, <2>6, FramesMove
<1> QED
  BY <1>3, <1>4, <1>5, <1>6

LEMMA ShrinkFrames ==
  ASSUME Types, MemInv, NEW p \in Slots, space[p] \in Spaces, NEW n \in Int, Shrink(p, n)
  PROVE  free' \in Nat /\ free' + Cardinality(Mappings(mapped))' = Frames
<1> DEFINE s == space[p]
           gone == PagesIn(sz[p] + n, sz[p]) \cap mapped[s]
<1>1. gone \in SUBSET Pages /\ mapped[s] \in SUBSET Pages /\ free \in Nat /\ mapped[s] \cap gone = gone
  BY DEF PagesIn, Types, MemInv
<1>2. \/ UNCHANGED <<mapped, free>>
      \/ mapped' = [mapped EXCEPT ![s] = @ \ gone] /\ free' = free + Cardinality(gone)
  BY DEF Shrink
<1> HIDE DEF gone
<1>3. Cardinality(gone) \in Nat /\ Cardinality(mapped[s]) \in Nat
  BY <1>1, PagesFinite
<1>4. CASE UNCHANGED <<mapped, free>>
  <2>1. Mappings(mapped)' = Mappings(mapped)
    BY <1>4 DEF Mappings
  <2> QED
    BY <1>4, <2>1 DEF MemInv
<1>5. CASE mapped' = [mapped EXCEPT ![s] = @ \ gone] /\ free' = free + Cardinality(gone)
  <2>1. Cardinality(mapped[s] \ gone) = Cardinality(mapped[s]) - Cardinality(gone)
    BY <1>1, SetsOfPages
  <2>2. free' = (free + Cardinality(mapped[s])) - Cardinality(mapped[s] \ gone)
    BY <1>1, <1>3, <1>5, <2>1
  <2>3. mapped[s] \ gone \in SUBSET Pages /\ mapped' = [mapped EXCEPT ![s] = mapped[s] \ gone]
    BY <1>1, <1>5
  <2>4. free' \in Nat
    BY <1>1, <1>3, <1>5
  <2> QED
    BY <2>2, <2>3, <2>4, FramesMove
<1> QED
  BY <1>2, <1>4, <1>5

\* All pages of a space are given back at once (freevm).
LEMMA SpaceFreed ==
  ASSUME Types, MemInv, NEW s \in Spaces, mapped' = [mapped EXCEPT ![s] = {}],
         free' = free + Cardinality(mapped[s])
  PROVE  free' \in Nat /\ free' + Cardinality(Mappings(mapped))' = Frames
<1>1. mapped[s] \in SUBSET Pages /\ {} \in SUBSET Pages /\ free \in Nat
  BY DEF Types, MemInv
<1>2. Cardinality(mapped[s]) \in Nat /\ Cardinality({}) = 0
  BY <1>1, PagesFinite, FS_EmptySet
<1>3. free' = (free + Cardinality(mapped[s])) - Cardinality({})
  BY <1>1, <1>2
<1>4. free' + Cardinality(Mappings(mapped))' = Frames
  BY <1>1, <1>3, FramesMove
<1> QED
  BY <1>1, <1>2, <1>4

\* copyuvm() maps a page that the copy does not have yet.
LEMMA CopyPageFrames ==
  ASSUME IInv, MemInv, NEW p \in Slots, CopyPage(p)
  PROVE  /\ free' \in Nat /\ free' + Cardinality(Mappings(mapped))' = Frames
         /\ CallsBounded'
<1> DEFINE i == call[p].page
           s == call[p].to
<1>1. /\ call[p].name = "fork" /\ i * PGSIZE < call[p].size /\ free \in Nat
      /\ call \in [Slots -> CallType]
  BY DEF CopyPage, Copying, MemInv, IInv, Types
<1>2. s \in Spaces /\ mapped[s] = {j \in Pages : j < i} /\ i \in Nat /\ call[p].size \in 0 .. KERNBASE - 1
      /\ mapped[s] \in SUBSET Pages /\ space[p] \in Spaces
  <2>1. call[p] # NoCall
    BY <1>1 DEF NoCall
  <2>2. space[p] \in inUse /\ s \in inUse
    BY <1>1, <2>1 DEF IInv, SizeInv, CallsSound, SpacesSound, CopiesApart
  <2> QED
    BY <1>1, <2>2 DEF IInv, SizeInv, CopiesApart, Types, CallType
<1>3. CASE i \notin mapped[space[p]]
  <2>1. UNCHANGED <<mapped, free, call>>
    BY <1>3 DEF CopyPage
  <2>2. Mappings(mapped)' = Mappings(mapped)
    BY <2>1 DEF Mappings
  <2> QED
    BY <2>1, <2>2 DEF MemInv, CallsBounded
<1>4. CASE i \in mapped[space[p]]
  <2>1. /\ free > 0 /\ mapped' = [mapped EXCEPT ![s] = @ \cup {i}] /\ free' = free - 1
        /\ call' = [call EXCEPT ![p].page = i + 1]
    BY <1>4 DEF CopyPage
  <2>2. i \in Pages
    BY <1>2, <1>4 DEF IInv, Types
  <2>3. i < call[p].size
    <3>1. PICK d \in Nat : PGSIZE = d + 1
      <4>1. PGSIZE - 1 \in Nat /\ PGSIZE = (PGSIZE - 1) + 1
        OBVIOUS
      <4> QED
        BY <4>1
    <3>2. PICK k \in Nat : i * PGSIZE = k + i
      <4>1. i * (d + 1) = i * d + i /\ i * d \in Nat
        BY <1>2
      <4> QED
        BY <3>1, <4>1
    <3> QED
      BY <1>1, <1>2, <3>2
  <2> HIDE DEF i, s
  <2>4. {i} \in SUBSET Pages /\ mapped[s] \cap {i} = {} /\ i \in Nat
    BY <1>2, <2>2
  <2>5. Cardinality({i}) = 1 /\ Cardinality(mapped[s]) \in Nat
    BY <1>2, PagesFinite, FS_Singleton
  <2>6. Cardinality(mapped[s] \cup {i}) = Cardinality(mapped[s]) + 1
    BY <1>2, <2>4, <2>5, SetsOfPages
  <2>7. free' = (free + Cardinality(mapped[s])) - Cardinality(mapped[s] \cup {i})
    BY <1>1, <2>1, <2>5, <2>6
  <2>8. mapped[s] \cup {i} \in SUBSET Pages /\ mapped' = [mapped EXCEPT ![s] = mapped[s] \cup {i}]
    BY <1>2, <2>1, <2>4
  <2>9. free' + Cardinality(Mappings(mapped))' = Frames
    BY <1>2, <2>7, <2>8, FramesMove DEF IInv
  <2>10. CallsBounded'
    <3>1. ASSUME NEW u \in Slots PROVE call'[u].page <= KERNBASE
      <4>1. call[u].page <= KERNBASE
        BY DEF MemInv, CallsBounded
      <4>2. call'[u].page = IF u = p THEN i + 1 ELSE call[u].page
        BY <1>1, <2>1 DEF CallType
      <4>3. i + 1 <= KERNBASE
        BY <1>2, <2>3, <2>4
      <4> QED
        BY <4>1, <4>2, <4>3
    <3> QED
      BY <3>1 DEF CallsBounded
  <2> QED
    BY <1>1, <2>1, <2>9, <2>10
<1> QED
  BY <1>3, <1>4

\* Calls that are under way go on with the page they are at, end, or begin
\* with none.
LEMMA BoundsStay ==
  ASSUME Types, MemInv, NEW p \in Slots, NEW new, call' = [call EXCEPT ![p] = new], new.page <= KERNBASE
  PROVE  CallsBounded'
BY DEF Types, MemInv, CallsBounded

LEMMA MemInvStep ==
  ASSUME IInv, MemInv, [Next]_vars
  PROVE  MemInv'
<1>1. /\ parent \in [Slots -> Slots \cup {NoSlot}]
      /\ free \in Nat /\ free + Cardinality(Mappings(mapped)) = Frames /\ CallsBounded /\ Types
  BY DEF MemInv, IInv
<1>2. NoCall.page <= KERNBASE
  BY DEF NoCall
<1>3. ASSUME UNCHANGED <<mapped, free>>
      PROVE  free' \in Nat /\ free' + Cardinality(Mappings(mapped))' = Frames
  <2>1. Mappings(mapped)' = Mappings(mapped)
    BY <1>3 DEF Mappings
  <2> QED
    BY <1>1, <1>3, <2>1
<1>4. ASSUME UNCHANGED call PROVE CallsBounded'
  BY <1>1, <1>4 DEF CallsBounded
<1>5. CASE UNCHANGED vars
  BY <1>1, <1>3, <1>4, <1>5 DEF MemInv, vars, tables, memory
<1>6. ASSUME NEW p \in Slots, NEW n \in Amounts, sys_sbrk(p, n) PROVE MemInv'
  <2>1. n \in Int /\ space[p] \in Spaces
    BY <1>6 DEF sys_sbrk, User, IInv, SizeInv, SpacesSound, Types
  <2>2. free' \in Nat /\ free' + Cardinality(Mappings(mapped))' = Frames
    BY <1>1, <1>6, <2>1, GrowFrames, ShrinkFrames DEF sys_sbrk
  <2>3. UNCHANGED <<parent, call>>
    BY <1>6 DEF sys_sbrk
  <2> QED
    BY <1>1, <1>4, <2>2, <2>3 DEF MemInv
<1>7. ASSUME NEW p \in Slots, CopyPage(p) PROVE MemInv'
  <2>1. UNCHANGED parent
    BY <1>7 DEF CopyPage, tables
  <2> QED
    BY <1>1, <1>7, <2>1, CopyPageFrames DEF MemInv
<1>8. ASSUME NEW p \in Slots, CopyFails(p) PROVE MemInv'
  <2>1. call[p].name = "fork" /\ call' = [call EXCEPT ![p] = NoCall] /\ parent' = parent
        /\ mapped' = [mapped EXCEPT ![call[p].to] = {}]
        /\ free' = free + Cardinality(mapped[call[p].to])
    BY <1>8 DEF CopyFails, Copying
  <2>2. call[p].to \in Spaces
    BY <2>1 DEF IInv, SizeInv, CopiesApart, Types
  <2>3. free' \in Nat /\ free' + Cardinality(Mappings(mapped))' = Frames
    BY <1>1, <2>1, <2>2, SpaceFreed
  <2>4. CallsBounded'
    BY <1>1, <1>2, <2>1, BoundsStay
  <2> QED
    BY <1>1, <2>1, <2>3, <2>4 DEF MemInv
<1>9. ASSUME NEW p \in Slots, ForkEnd(p) \/ CloneEnd(p) PROVE MemInv'
  <2>1. call' = [call EXCEPT ![p] = NoCall] /\ UNCHANGED <<mapped, free>>
        /\ parent' = [parent EXCEPT ![call[p].child] = p]
    BY <1>9 DEF ForkEnd, CloneEnd, memory
  <2>2. parent' \in [Slots -> Slots \cup {NoSlot}]
    BY <1>1, <2>1
  <2> QED
    BY <1>1, <1>2, <1>3, <2>1, <2>2, BoundsStay DEF MemInv
<1>10. ASSUME NEW p \in Slots, exit(p) PROVE MemInv'
  <2>1. UNCHANGED <<mapped, free, call>> /\ parent' \in [Slots -> Slots \cup {NoSlot}]
    BY <1>1, <1>10 DEF exit, memory
  <2> QED
    BY <1>3, <1>4, <2>1 DEF MemInv
<1>11. ASSUME NEW p \in Slots, NEW q \in Slots, ForkBegin(p, q) PROVE MemInv'
  <2>1. PICK s \in Spaces : call' = [call EXCEPT ![p] =
          [name |-> "fork", child |-> q, to |-> s, size |-> sz[p], page |-> 0]]
    BY <1>11 DEF ForkBegin
  <2>2. UNCHANGED <<parent, mapped, free>>
    BY <1>11 DEF ForkBegin
  <2>3. CallsBounded'
    <3> DEFINE new == [name |-> "fork", child |-> q, to |-> s, size |-> sz[p], page |-> 0]
    <3>1. call' = [call EXCEPT ![p] = new] /\ new.page <= KERNBASE
      BY <2>1
    <3> HIDE DEF new
    <3> QED
      BY <1>1, <3>1, BoundsStay
  <2> QED
    BY <1>1, <1>3, <2>2, <2>3 DEF MemInv
<1>12. ASSUME NEW p \in Slots, NEW q \in Slots, CloneBegin(p, q) PROVE MemInv'
  <2>1. /\ call' = [call EXCEPT ![p] =
             [name |-> "clone", child |-> q, to |-> NoSpace, size |-> sz[p], page |-> 0]]
        /\ UNCHANGED <<parent, mapped, free>>
    BY <1>12 DEF CloneBegin, memory
  <2>2. CallsBounded'
    <3> DEFINE new == [name |-> "clone", child |-> q, to |-> NoSpace, size |-> sz[p], page |-> 0]
    <3>1. call' = [call EXCEPT ![p] = new] /\ new.page <= KERNBASE
      BY <2>1
    <3> HIDE DEF new
    <3> QED
      BY <1>1, <3>1, BoundsStay
  <2> QED
    BY <1>1, <1>3, <2>1, <2>2 DEF MemInv
<1>13. ASSUME NEW p \in Slots, NEW q \in Slots, ForkFails(p, q) \/ join(p, q) PROVE MemInv'
  <2>1. UNCHANGED <<mapped, free, call>> /\ parent' \in [Slots -> Slots \cup {NoSlot}]
    BY <1>1, <1>13 DEF ForkFails, join, Reaped, memory
  <2> QED
    BY <1>3, <1>4, <2>1 DEF MemInv
<1>14. ASSUME NEW p \in Slots, NEW q \in Slots, wait(p, q) PROVE MemInv'
  <2>1. UNCHANGED call /\ parent' \in [Slots -> Slots \cup {NoSlot}] /\ state[q] = "zombie"
    BY <1>1, <1>14 DEF wait, Reaped
  <2>2. space[q] \in Spaces
    BY <2>1 DEF IInv, SizeInv, SpacesSound, Types
  <2>3. free' \in Nat /\ free' + Cardinality(Mappings(mapped))' = Frames
    <3>1. CASE Shared(q)
      BY <1>3, <1>14, <3>1 DEF wait, memory
    <3>2. CASE ~Shared(q)
      BY <1>1, <1>14, <2>2, <3>2, SpaceFreed DEF wait
    <3> QED
      BY <3>1, <3>2
  <2> QED
    BY <1>4, <2>1, <2>3 DEF MemInv
<1> QED
  BY <1>5, <1>6, <1>7, <1>8, <1>9, <1>10, <1>11, <1>12, <1>13, <1>14 DEF Next

\* No frame is lost, and none is mapped twice or given back twice, whichever way
\* fork(), clone(), sbrk(), exit(), wait() and join() follow each other: what is
\* free and what is mapped are the frames there were.
THEOREM MemoryCorrect == Spec => []MemoryInv
<1>1. IInv /\ MemInv => MemoryInv
  <2> SUFFICES ASSUME IInv, MemInv PROVE MemoryInv
    OBVIOUS
  <2>1. Cardinality(Mappings(mapped)) \in Nat
    <3>1. IsFiniteSet(Spaces \X Pages) /\ Mappings(mapped) \in SUBSET (Spaces \X Pages)
      BY PagesFinite, FS_Product DEF Mappings
    <3> QED
      BY <3>1, FS_Subset, FS_CardinalityType
  <2>2. free \in 0 .. Frames
    BY <2>1, ConstantsAssumption DEF MemInv
  <2>3. ASSUME NEW p \in Slots
        PROVE  call[p] \in [name : {"none", "fork", "clone"}, child : Slots \cup {NoSlot},
                            to : Spaces \cup {NoSpace}, size : 0 .. KERNBASE, page : 0 .. KERNBASE]
    BY DEF IInv, Types, CallType, MemInv, CallsBounded
  <2>4. TypeOK
    BY <2>2, <2>3 DEF IInv, Types, MemInv, TypeOK
  <2>5. FramesAccounted
    BY DEF IInv, SizeInv, SpacesSound, MemInv, Mappings, FramesAccounted
  <2> QED
    BY <2>4, <2>5 DEF MemoryInv
<1>2. MemInv /\ IInv /\ [Next]_vars => MemInv'
  BY MemInvStep
<1> QED
  BY Invariant, MemInvInit, <1>1, <1>2, PTL DEF Spec
=============================================================================
