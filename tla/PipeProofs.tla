------------------------------ MODULE PipeProofs -----------------------------
(***************************************************************************)
(* A pipe carries its bytes in order and once, its sleepers have a reason  *)
(* to sleep, and its page lives as long as its ends: for any number of     *)
(* readers and writers, any size of the ring and any width of the counters *)
(* that is a multiple of it.                                               *)
(***************************************************************************)
EXTENDS Pipe, TLAPS

\* The counters, which wrap, are the lengths of the two histories; the ring
\* holds what is between them.
RingHolds ==
  /\ Len(received) <= Len(sent) /\ Len(sent) - Len(received) <= PIPESIZE
  /\ nwrite = Len(sent) % Word /\ nread = Len(received) % Word
  /\ \A k \in 1..Len(received) : received[k] = sent[k]
  /\ \A k \in (Len(received) + 1)..Len(sent) : data[(k - 1) % PIPESIZE] = sent[k]

\* An end is open while a process holds it, and the page while an end is open.
EndsHeld ==
  /\ readopen <=> \E r \in Reader : pc[r] # "closed"
  /\ writeopen <=> \E w \in Writer : pc[w] # "closed"
  /\ page <=> readopen \/ writeopen

\* One process at a time is on its way into sleep(), with p->lock, and what it
\* has seen stays true until somebody wakes it.
Waits ==
  /\ \A p, q \in Proc : pc[p] = "falling" /\ pc[q] = "falling" => p = q
  /\ \A r \in Reader : pc[r] \in {"falling", "asleep"} =>
       writeopen /\ (Empty \/ \E w \in Writer : killed[w])
  /\ \A w \in Writer : pc[w] \in {"falling", "asleep"} => Full /\ readopen

\* A read() that is under way asks for something.
Wants == \A r \in Reader : pc[r] \in Busy => want[r] # 0

IInv == TypeOK /\ RingHolds /\ EndsHeld /\ Waits /\ Wants /\ EofIsEnd

-----------------------------------------------------------------------------
(* Counters that wrap. *)

LEMMA Constants ==
  /\ Reader # {} /\ Writer # {} /\ Reader \cap Writer = {}
  /\ PIPESIZE \in Nat \ {0} /\ Word \in Nat \ {0} /\ PIPESIZE < Word /\ Word % PIPESIZE = 0
  /\ MaxCall \in Nat /\ MaxBytes \in [Writer -> Nat]
BY ConstantsAssumption

LEMMA ModIs ==
  ASSUME NEW a \in Int, NEW m \in Nat \ {0}
  PROVE  \E q \in Int, r \in 0..(m - 1) : a = q * m + r /\ a % m = r
<1>1. a % m \in 0..(m - 1)
  OBVIOUS
<1>2. a \div m \in Int /\ a = (a \div m) * m + (a % m)
  OBVIOUS
<1> QED
  BY <1>1, <1>2

LEMMA ModUnique ==
  ASSUME NEW m \in Nat \ {0}, NEW q \in Int, NEW r \in 0..(m - 1)
  PROVE  (q * m + r) % m = r
<1>1. q * m + r \in Int
  OBVIOUS
<1>2. PICK k \in Int, s \in 0..(m - 1) : q * m + r = k * m + s /\ (q * m + r) % m = s
  BY <1>1, ModIs
<1>3. (q - k) * m = s - r
  BY <1>2
<1>4. q - k >= 1 => (q - k) * m >= m
  OBVIOUS
<1>5. q - k <= -1 => (q - k) * m <= -m
  OBVIOUS
<1>6. q = k
  BY <1>3, <1>4, <1>5
<1> QED
  BY <1>2, <1>6

LEMMA ModSmall ==
  ASSUME NEW m \in Nat \ {0}, NEW r \in 0..(m - 1)
  PROVE  r % m = r
<1>1. (0 * m + r) % m = r
  BY ModUnique
<1>2. 0 * m + r = r
  OBVIOUS
<1> QED
  BY <1>1, <1>2

\* Numbers that differ by a multiple of m are one number to a counter.
LEMMA ModTurns ==
  ASSUME NEW m \in Nat \ {0}, NEW a \in Int, NEW k \in Int
  PROVE  (a + k * m) % m = a % m
<1>1. PICK q \in Int, r \in 0..(m - 1) : a = q * m + r /\ a % m = r
  BY ModIs
<1>2. a + k * m = (q + k) * m + r
  BY <1>1
<1>3. ((q + k) * m + r) % m = r
  BY ModUnique
<1> QED
  BY <1>1, <1>2, <1>3

\* Adding to a counter, before or after it wraps.
LEMMA ModAdd ==
  ASSUME NEW m \in Nat \ {0}, NEW a \in Int, NEW i \in Int
  PROVE  ((a % m) + i) % m = (a + i) % m
<1>1. PICK q \in Int, r \in 0..(m - 1) : a = q * m + r /\ a % m = r
  BY ModIs
<1>2. a + i = (r + i) + q * m
  BY <1>1
<1>3. ((r + i) + q * m) % m = (r + i) % m
  <2>1. r + i \in Int
    OBVIOUS
  <2> QED
    BY <2>1, ModTurns, Zenon
<1>4. a % m = r
  BY <1>1
<1> QED
  BY <1>2, <1>3, <1>4, Zenon

\* The distance of two counters.
LEMMA ModSub ==
  ASSUME NEW m \in Nat \ {0}, NEW a \in Int, NEW b \in Int
  PROVE  ((a % m) - (b % m)) % m = (a - b) % m
<1>1. PICK q \in Int, r \in 0..(m - 1) : a = q * m + r /\ a % m = r
  BY ModIs
<1>2. PICK k \in Int, s \in 0..(m - 1) : b = k * m + s /\ b % m = s
  BY ModIs
<1>3. a - b = (r - s) + (q - k) * m
  BY <1>1, <1>2
<1>4. ((r - s) + (q - k) * m) % m = (r - s) % m
  <2>1. r - s \in Int /\ q - k \in Int
    OBVIOUS
  <2> QED
    BY <2>1, ModTurns, Zenon
<1>5. a % m = r /\ b % m = s
  BY <1>1, <1>2
<1> QED
  BY <1>3, <1>4, <1>5, Zenon

\* A place in the ring is the same from a counter as from the number it stands
\* for, because the ring divides the width of the counter.
LEMMA PlaceOf ==
  ASSUME NEW a \in Int, NEW i \in Int
  PROVE  /\ ((a % Word) + i) % PIPESIZE = (a + i) % PIPESIZE
         /\ (i - (a % Word)) % PIPESIZE = (i - a) % PIPESIZE
<1>1. PIPESIZE \in Nat \ {0} /\ Word \in Nat \ {0} /\ Word % PIPESIZE = 0
  BY Constants
<1>2. PICK c \in Int : Word = c * PIPESIZE
  BY <1>1, ModIs
<1>3. PICK q \in Int, r \in 0..(Word - 1) : a = q * Word + r /\ a % Word = r
  BY <1>1, ModIs
<1>4. a = r + (q * c) * PIPESIZE /\ q * c \in Int
  BY <1>1, <1>2, <1>3
<1>5. PICK d \in Int : a = r + d * PIPESIZE
  BY <1>4
<1>6. a + i = (r + i) + d * PIPESIZE /\ i - a = (i - r) + (-d) * PIPESIZE
  <2>1. PICK e \in Int : e = d * PIPESIZE /\ -e = (-d) * PIPESIZE
    BY <1>1
  <2>2. a = r + e
    BY <1>5, <2>1
  <2>3. a + i = (r + i) + e /\ i - a = (i - r) + (-e)
    BY <2>2
  <2> QED
    BY <2>1, <2>3
<1>7. r + i \in Int /\ i - r \in Int /\ -d \in Int
  BY <1>1
<1>8. ((r + i) + d * PIPESIZE) % PIPESIZE = (r + i) % PIPESIZE
  BY <1>1, <1>7, ModTurns, Zenon
<1>9. ((i - r) + (-d) * PIPESIZE) % PIPESIZE = (i - r) % PIPESIZE
  BY <1>1, <1>7, ModTurns, Zenon
<1>10. a % Word = r
  BY <1>3
<1> QED
  BY <1>6, <1>8, <1>9, <1>10, Zenon

-----------------------------------------------------------------------------
(* The ring and the two histories. *)

LEMMA ByteSeq ==
  ASSUME TypeOK
  PROVE  /\ sent \in Seq(Byte) /\ received \in Seq(Byte)
         /\ Len(sent) \in Nat /\ Len(received) \in Nat
BY DEF TypeOK

\* What two counters say, although they wrap.
LEMMA CounterDistance ==
  ASSUME NEW S \in Nat, NEW R \in Nat, S - R \in 0..PIPESIZE
  PROVE  /\ ((S % Word) - (R % Word)) % Word = S - R
         /\ S % Word = R % Word <=> S = R
         /\ S % Word = ((R % Word) + PIPESIZE) % Word <=> S = R + PIPESIZE
<1>1. PIPESIZE \in Nat \ {0} /\ Word \in Nat \ {0} /\ PIPESIZE < Word
  BY Constants
<1>2. S \in Int /\ R \in Int /\ PIPESIZE \in Int /\ R + PIPESIZE \in Int
  BY <1>1
<1>3. ((S % Word) - (R % Word)) % Word = S - R
  <2>1. ((S % Word) - (R % Word)) % Word = (S - R) % Word
    BY <1>1, <1>2, ModSub, Zenon
  <2>2. S - R \in 0..(Word - 1)
    BY <1>1
  <2>3. (S - R) % Word = S - R
    BY <1>1, <2>2, ModSmall
  <2> QED
    BY <2>1, <2>3
<1>4. ASSUME S % Word = R % Word PROVE S = R
  <2>1. (R % Word) - (R % Word) = 0 /\ 0 % Word = 0
    <3>1. R % Word \in Int
      BY <1>1
    <3> QED
      BY <1>1, <3>1, ModSmall
  <2>2. S - R = 0
    BY <1>3, <1>4, <2>1
  <2> QED
    BY <2>2
<1>5. ((R % Word) + PIPESIZE) % Word = (R + PIPESIZE) % Word
  BY <1>1, <1>2, ModAdd, Zenon
<1>6. ASSUME S % Word = (R + PIPESIZE) % Word PROVE S = R + PIPESIZE
  <2>1. (((R + PIPESIZE) % Word) - (R % Word)) % Word = ((R + PIPESIZE) - R) % Word
    BY <1>1, <1>2, ModSub, Zenon
  <2>2. (R + PIPESIZE) - R = PIPESIZE /\ PIPESIZE \in 0..(Word - 1)
    BY <1>1
  <2>3. PIPESIZE % Word = PIPESIZE
    BY <1>1, <2>2, ModSmall
  <2>4. S - R = PIPESIZE
    BY <1>3, <1>6, <2>1, <2>2, <2>3
  <2> QED
    BY <1>2, <2>4
<1> QED
  BY <1>3, <1>4, <1>5, <1>6

\* So it is with those of the ring, in this state and in the next.
LEMMA RingNumbers ==
  ASSUME TypeOK, RingHolds
  PROVE  /\ Used = Len(sent) - Len(received) /\ Used \in 0..PIPESIZE
         /\ Empty <=> Len(sent) = Len(received)
         /\ Full <=> Len(sent) = Len(received) + PIPESIZE
<1>1. Len(sent) \in Nat /\ Len(received) \in Nat /\ Len(sent) - Len(received) \in 0..PIPESIZE
  BY ByteSeq, Constants DEF RingHolds
<1> QED
  BY <1>1, CounterDistance DEF RingHolds, Used, Empty, Full

LEMMA RingNumbersNext ==
  ASSUME sent' \in Seq(Byte), received' \in Seq(Byte), RingHolds'
  PROVE  /\ Empty' <=> Len(sent') = Len(received')
         /\ Full' <=> Len(sent') = Len(received') + PIPESIZE
<1>1. Len(sent') \in Nat /\ Len(received') \in Nat
  OBVIOUS
<1>2. Len(sent') - Len(received') \in 0..PIPESIZE
  BY <1>1, Constants DEF RingHolds
<1> QED
  BY <1>1, <1>2, CounterDistance DEF RingHolds, Empty, Full

LEMMA PrefixIs ==
  ASSUME NEW s \in Seq(Byte), NEW t \in Seq(Byte), Len(s) <= Len(t),
         \A k \in 1..Len(s) : s[k] = t[k]
  PROVE  IsPrefix(s, t)
<1>1. Len(s) \in Nat /\ Len(t) \in Nat
  OBVIOUS
<1>2. SubSeq(s, 1, Len(s)) = [k \in 1..Len(s) |-> s[k]] /\ SubSeq(t, 1, Len(s)) = [k \in 1..Len(s) |-> t[k]]
  BY <1>1
<1> QED
  BY <1>2 DEF IsPrefix

\* Where the bytes of a write go: k-th from now is at the (k-1)-th place after
\* nwrite; what has not been read yet is in the other places.
LEMMA PlaceInRing ==
  ASSUME NEW S \in Nat, NEW R \in Nat, NEW n \in Nat, S - R \in 0..PIPESIZE, n <= PIPESIZE - (S - R),
         NEW k \in (R + 1)..(S + n)
  PROVE  /\ (k - 1) % PIPESIZE \in 0..(PIPESIZE - 1)
         /\ k > S  => (((k - 1) % PIPESIZE) - (S % Word)) % PIPESIZE = k - 1 - S
         /\ k <= S => (((k - 1) % PIPESIZE) - (S % Word)) % PIPESIZE >= n
<1>1. PIPESIZE \in Nat \ {0} /\ k \in Int /\ k - 1 \in Int
  BY Constants
<1>2. (k - 1) % PIPESIZE \in 0..(PIPESIZE - 1)
  BY <1>1
<1>3. (((k - 1) % PIPESIZE) - (S % Word)) % PIPESIZE = ((k - 1) - S) % PIPESIZE
  <2>1. PICK j \in 0..(PIPESIZE - 1) : j = (k - 1) % PIPESIZE
    BY <1>2
  <2>2. j \in Int /\ S \in Int
    BY <1>1
  <2>3. (j - (S % Word)) % PIPESIZE = (j - S) % PIPESIZE
    BY <2>2, PlaceOf
  <2>4. (((k - 1) % PIPESIZE) + (-S)) % PIPESIZE = ((k - 1) + (-S)) % PIPESIZE
    <3>1. -S \in Int
      OBVIOUS
    <3> QED
      BY <1>1, <3>1, ModAdd, Zenon
  <2>5. j + (-S) = j - S /\ (k - 1) + (-S) = (k - 1) - S
    BY <2>2, <1>1
  <2> QED
    BY <2>1, <2>3, <2>4, <2>5, Zenon
<1>4. ASSUME k > S PROVE ((k - 1) - S) % PIPESIZE = k - 1 - S
  <2>1. k - 1 - S \in 0..(PIPESIZE - 1)
    BY <1>1, <1>4
  <2> QED
    BY <1>1, <2>1, ModSmall
<1>5. ASSUME k <= S PROVE ((k - 1) - S) % PIPESIZE >= n
  <2>1. k - 1 - S + PIPESIZE \in 0..(PIPESIZE - 1) /\ k - 1 - S + PIPESIZE >= n
    BY <1>1, <1>5
  <2>2. (k - 1 - S + PIPESIZE) % PIPESIZE = k - 1 - S + PIPESIZE
    BY <1>1, <2>1, ModSmall
  <2>3. k - 1 - S \in Int /\ 1 \in Int /\ 1 * PIPESIZE = PIPESIZE
    BY <1>1
  <2>4. (k - 1 - S + 1 * PIPESIZE) % PIPESIZE = (k - 1 - S) % PIPESIZE
    BY <1>1, <2>3, ModTurns, Zenon
  <2> QED
    BY <2>1, <2>2, <2>3, <2>4
<1> QED
  BY <1>2, <1>3, <1>4, <1>5

LEMMA Appended ==
  ASSUME NEW s \in Seq(Byte), NEW t \in Seq(Byte)
  PROVE  /\ s \o t \in Seq(Byte) /\ Len(s \o t) = Len(s) + Len(t)
         /\ \A k \in 1..Len(s) : (s \o t)[k] = s[k]
         /\ \A k \in (Len(s) + 1)..(Len(s) + Len(t)) : (s \o t)[k] = t[k - Len(s)]
OBVIOUS

LEMMA BytesInOrder ==
  ASSUME NEW n \in Nat, NEW f, f = [i \in 1..n |-> f[i]], \A i \in 1..n : f[i] \in Byte
  PROVE  f \in Seq(Byte) /\ Len(f) = n
OBVIOUS

LEMMA FirstBytes ==
  ASSUME NEW s \in Seq(Byte), NEW n \in 0..Len(s)
  PROVE  /\ SubSeq(s, 1, n) \in Seq(Byte) /\ Len(SubSeq(s, 1, n)) = n
         /\ \A k \in 1..n : SubSeq(s, 1, n)[k] = s[k]
<1>1. SubSeq(s, 1, n) = [k \in 1..n |-> s[k]] /\ n \in Nat
  OBVIOUS
<1>2. \A k \in 1..n : s[k] \in Byte
  OBVIOUS
<1> QED
  BY <1>1, <1>2

\* Writing n bytes, for which there is room: the counters and the ring follow.
LEMMA PutKeeps ==
  ASSUME TypeOK, RingHolds, NEW w \in Writer, NEW n \in 0..Len(left[w]), n <= Room, Put(w, n),
         UNCHANGED <<nread, received>>
  PROVE  /\ RingHolds' /\ sent' \in Seq(Byte) /\ nwrite' \in 0..(Word - 1)
         /\ data' \in [0..(PIPESIZE - 1) -> Byte \cup {NoByte}]
         /\ Len(sent') = Len(sent) + n
         /\ IsPrefix(sent, sent') /\ Len(sent') - Len(received) <= PIPESIZE
<1> DEFINE S == Len(sent)
           R == Len(received)
           slot(k) == (k - 1) % PIPESIZE
           new == SubSeq(left[w], 1, n)
<1>1. /\ left[w] \in Seq(Byte) /\ n \in Nat /\ S \in Nat /\ R \in Nat
      /\ DOMAIN data = 0..(PIPESIZE - 1) /\ S - R \in 0..PIPESIZE
      /\ nwrite = S % Word /\ nread = R % Word
      /\ n <= PIPESIZE - (S - R) /\ PIPESIZE \in Nat \ {0} /\ Word \in Nat \ {0}
  <2>1. left[w] \in Seq(Byte) /\ n \in Nat /\ DOMAIN data = 0..(PIPESIZE - 1)
    BY DEF TypeOK
  <2>2. S - R = Used /\ Used \in 0..PIPESIZE
    BY RingNumbers
  <2> QED
    BY <2>1, <2>2, ByteSeq, Constants DEF RingHolds, Room
<1>2. /\ sent' = sent \o new /\ nwrite' = (nwrite + n) % Word
      /\ data' = [i \in DOMAIN data |->
                    IF (i - nwrite) % PIPESIZE < n THEN left[w][1 + ((i - nwrite) % PIPESIZE)] ELSE data[i]]
  BY DEF Put
<1>3. /\ new \in Seq(Byte) /\ Len(new) = n /\ \A k \in 1..n : new[k] = left[w][k]
  BY <1>1, FirstBytes
<1>4. /\ sent' \in Seq(Byte) /\ Len(sent') = S + n
      /\ \A k \in 1..S : sent'[k] = sent[k]
      /\ \A k \in (S + 1)..(S + n) : sent'[k] = left[w][k - S]
  <2>1. sent \in Seq(Byte)
    BY ByteSeq
  <2>2. \A k \in (S + 1)..(S + n) : k - S \in 1..n
    BY <1>1
  <2> HIDE DEF new
  <2> QED
    BY <1>2, <1>3, <2>1, <2>2, Appended
<1>5. data' \in [0..(PIPESIZE - 1) -> Byte \cup {NoByte}]
  <2>1. ASSUME NEW i \in 0..(PIPESIZE - 1), (i - nwrite) % PIPESIZE < n
        PROVE  left[w][1 + ((i - nwrite) % PIPESIZE)] \in Byte
    <3>1. i - nwrite \in Int
      BY <1>1
    <3>2. (i - nwrite) % PIPESIZE \in 0..(PIPESIZE - 1)
      BY <1>1, <3>1, SMTT(30)
    <3>3. PICK j \in 0..(PIPESIZE - 1) : j = (i - nwrite) % PIPESIZE
      BY <3>2
    <3>4. j < n
      BY <2>1, <3>3
    <3>5. 1 + j \in 1..Len(left[w])
      <4>1. Len(left[w]) \in Nat /\ n <= Len(left[w]) /\ PIPESIZE \in Nat
        BY <1>1
      <4> QED
        BY <3>4, <4>1
    <3> QED
      BY <1>1, <3>3, <3>5, SMTT(30)
  <2>2. \A i \in 0..(PIPESIZE - 1) : data[i] \in Byte \cup {NoByte}
    BY DEF TypeOK
  <2> QED
    BY <1>1, <1>2, <2>1, <2>2
<1>6. nwrite' = (S + n) % Word
  <2>1. S \in Int /\ n \in Int
    BY <1>1
  <2>2. ((S % Word) + n) % Word = (S + n) % Word
    BY <1>1, <2>1, ModAdd, Zenon
  <2> QED
    BY <1>1, <1>2, <2>2
<1>7. ASSUME NEW k \in (R + 1)..(S + n)
      PROVE  data'[slot(k)] = sent'[k]
  <2>1. /\ slot(k) \in 0..(PIPESIZE - 1)
        /\ k > S  => (slot(k) - (S % Word)) % PIPESIZE = k - 1 - S
        /\ k <= S => (slot(k) - (S % Word)) % PIPESIZE >= n
    BY <1>1, PlaceInRing
  <2> HIDE DEF slot
  <2>2. data'[slot(k)] = IF (slot(k) - nwrite) % PIPESIZE < n
                         THEN left[w][1 + ((slot(k) - nwrite) % PIPESIZE)] ELSE data[slot(k)]
    BY <1>1, <1>2, <2>1
  <2>3. CASE k > S
    <3>0. k - 1 - S < n /\ 1 + (k - 1 - S) = k - S
      BY <1>1
    <3>1. (slot(k) - nwrite) % PIPESIZE = k - 1 - S
      BY <1>1, <2>1, <2>3
    <3>2. data'[slot(k)] = left[w][k - S]
      BY <2>2, <3>0, <3>1
    <3>3. k \in (S + 1)..(S + n)
      BY <1>1, <2>3
    <3> QED
      BY <1>4, <3>2, <3>3
  <2>4. CASE k <= S
    <3>1. ~((slot(k) - nwrite) % PIPESIZE < n)
      <4>1. PICK x \in Int : x = (slot(k) - nwrite) % PIPESIZE
        BY <1>1, <2>1
      <4> QED
        BY <1>1, <2>1, <2>4, <4>1
    <3>2. data'[slot(k)] = data[slot(k)]
      BY <2>2, <3>1
    <3>3. k \in (R + 1)..S /\ k \in 1..S
      BY <1>1, <2>4
    <3>4. data[slot(k)] = sent[k]
      BY <3>3 DEF RingHolds, slot
    <3> QED
      BY <1>4, <3>2, <3>3, <3>4
  <2> QED
    BY <1>1, <2>3, <2>4
<1>8. RingHolds'
  <2>1. received' = received /\ nread' = nread
    OBVIOUS
  <2>2. \A k \in 1..R : received[k] = sent'[k]
    <3>1. \A k \in 1..R : k \in 1..S
      BY <1>1
    <3> QED
      BY <1>4, <3>1 DEF RingHolds
  <2> QED
    BY <1>1, <1>4, <1>6, <1>7, <2>1, <2>2 DEF RingHolds
<1>9. nwrite' \in 0..(Word - 1)
  BY <1>1, <1>6
<1>10. IsPrefix(sent, sent') /\ Len(sent') - R <= PIPESIZE
  BY <1>1, <1>4, ByteSeq, PrefixIs, SMTT(30)
<1> QED
  BY <1>4, <1>5, <1>8, <1>9, <1>10

LEMMA Indices ==
  ASSUME NEW S \in Nat, NEW R \in Nat, NEW n \in Nat, n <= S - R
  PROVE  /\ R \in Int /\ R + n \in Nat /\ R <= R + n /\ R + n <= S
         /\ \A i \in 1..n : R + i \in (R + 1)..S /\ R + i \in 1..S /\ i - 1 \in Int
OBVIOUS

\* Reading n bytes that are there.
LEMMA TakeKeeps ==
  ASSUME TypeOK, RingHolds, NEW n \in 0..Used, NEW new,
         new = [i \in 1..n |-> data[(nread + i - 1) % PIPESIZE]],
         received' = received \o new,
         nread' = (nread + n) % Word, UNCHANGED <<data, nwrite, sent>>
  PROVE  /\ RingHolds' /\ received' \in Seq(Byte) /\ nread' \in 0..(Word - 1)
         /\ Len(received') = Len(received) + n
         /\ IsPrefix(received, received') /\ IsPrefix(received', sent)
<1> DEFINE S == Len(sent)
           R == Len(received)
<1>1. /\ n \in Nat /\ S \in Nat /\ R \in Nat /\ sent \in Seq(Byte) /\ received \in Seq(Byte)
      /\ n <= S - R /\ S - R \in 0..PIPESIZE /\ nread = R % Word /\ nwrite = S % Word
      /\ PIPESIZE \in Nat \ {0} /\ Word \in Nat \ {0}
  <2>1. S - R = Used /\ Used \in 0..PIPESIZE
    BY RingNumbers
  <2> QED
    BY <2>1, ByteSeq, Constants DEF RingHolds
<1>2. ASSUME NEW i \in 1..n PROVE data[(nread + i - 1) % PIPESIZE] = sent[R + i] /\ sent[R + i] \in Byte
  <2>1. R \in Int /\ i - 1 \in Int /\ R + i \in (R + 1)..S /\ R + i \in 1..S
    BY <1>1, Indices
  <2>2. ((R % Word) + (i - 1)) % PIPESIZE = (R + (i - 1)) % PIPESIZE
    BY <2>1, PlaceOf, Zenon
  <2>3. (R % Word) + (i - 1) = nread + i - 1 /\ R + (i - 1) = (R + i) - 1
    <3>1. R % Word \in Int
      BY <1>1
    <3> QED
      BY <1>1, <2>1, <3>1
  <2>4. data[((R + i) - 1) % PIPESIZE] = sent[R + i]
    BY <2>1 DEF RingHolds
  <2>5. sent[R + i] \in Byte
    BY <1>1, <2>1, SMTT(30)
  <2> QED
    BY <2>2, <2>3, <2>4, <2>5
<1>3. new \in Seq(Byte) /\ Len(new) = n /\ \A i \in 1..n : new[i] = sent[R + i]
  <2>1. \A i \in 1..n : new[i] = sent[R + i] /\ new[i] \in Byte
    BY <1>2
  <2>2. new = [i \in 1..n |-> new[i]] /\ n \in Nat
    BY <1>1
  <2> QED
    BY <2>1, <2>2, BytesInOrder
<1>4. /\ received' \in Seq(Byte) /\ Len(received') = R + n
      /\ \A k \in 1..R : received'[k] = received[k]
      /\ \A k \in (R + 1)..(R + n) : received'[k] = sent[k]
  <2>1. received' = received \o new
    OBVIOUS
  <2>2. \A k \in (R + 1)..(R + n) : k - R \in 1..n /\ R + (k - R) = k
    BY <1>1
  <2>3. /\ received' \in Seq(Byte) /\ Len(received') = R + n
        /\ \A k \in 1..R : received'[k] = received[k]
        /\ \A k \in (R + 1)..(R + n) : received'[k] = new[k - R]
    <3>1. received \in Seq(Byte) /\ new \in Seq(Byte) /\ Len(new) = n
      BY <1>1, <1>3
    <3> QED
      BY <2>1, <3>1, Appended
  <2> QED
    BY <1>3, <2>2, <2>3
<1>5. nread' = (R + n) % Word
  <2>1. R \in Int /\ n \in Int
    BY <1>1
  <2>2. ((R % Word) + n) % Word = (R + n) % Word
    BY <1>1, <2>1, ModAdd, Zenon
  <2> QED
    BY <1>1, <2>2
<1>6. \A k \in 1..(R + n) : received'[k] = sent[k]
  <2>1. ASSUME NEW k \in 1..(R + n) PROVE received'[k] = sent[k]
    <3>1. n \in Nat /\ R \in Nat
      BY <1>1
    <3>2. k \in 1..R \/ k \in (R + 1)..(R + n)
      BY <3>1
    <3> QED
      BY <1>4, <3>2 DEF RingHolds
  <2> QED
    BY <2>1
<1>7. RingHolds'
  <2>1. \A k \in ((R + n) + 1)..S : data[(k - 1) % PIPESIZE] = sent[k]
    <3>1. \A k \in ((R + n) + 1)..S : k \in (R + 1)..S
      BY <1>1
    <3> QED
      BY <3>1 DEF RingHolds
  <2>2. R + n <= S /\ S - (R + n) <= PIPESIZE
    BY <1>1
  <2> QED
    BY <1>1, <1>4, <1>5, <1>6, <2>1, <2>2 DEF RingHolds
<1>8. nread' \in 0..(Word - 1)
  BY <1>1, <1>5
<1>9. received \in Seq(Byte) /\ sent \in Seq(Byte) /\ R <= R + n /\ R + n <= S
  BY <1>1, Indices
<1>10. IsPrefix(received, received')
  BY <1>4, <1>9, PrefixIs
<1>11. IsPrefix(received', sent)
  BY <1>4, <1>6, <1>9, PrefixIs
<1> QED
  BY <1>4, <1>7, <1>8, <1>10, <1>11

-----------------------------------------------------------------------------
(* Processes that go, sleep and are woken. *)

LEMMA PcAfter ==
  ASSUME TypeOK, NEW sleepers, NEW p \in Proc, NEW to \in PC, WakeupAndGoto(sleepers, p, to)
  PROVE  /\ pc' \in [Proc -> PC] /\ pc'[p] = to
         /\ \A q \in Proc \ {p} : pc'[q] = IF q \in sleepers /\ pc[q] = "asleep" THEN "call" ELSE pc[q]
<1>1. \A q \in Proc : pc[q] \in PC
  BY DEF TypeOK
<1> QED
  BY <1>1 DEF WakeupAndGoto, PC

LEMMA PcGoto ==
  ASSUME TypeOK, NEW p \in Proc, NEW to \in PC, Goto(p, to)
  PROVE  /\ pc' \in [Proc -> PC] /\ pc'[p] = to
         /\ \A q \in Proc \ {p} : pc'[q] = pc[q]
BY PcAfter DEF Goto

\* The ends are as before while nobody closes one.
LEMMA EndsStay ==
  ASSUME EndsHeld, UNCHANGED ends, \A q \in Proc : pc'[q] = "closed" <=> pc[q] = "closed"
  PROVE  EndsHeld'
BY DEF EndsHeld, ends, Proc

LEMMA InitInv == Init => IInv
<1> SUFFICES ASSUME Init PROVE IInv
  OBVIOUS
<1>1. PIPESIZE \in Nat \ {0} /\ Word \in Nat \ {0} /\ MaxCall \in Nat /\ MaxBytes \in [Writer -> Nat]
  BY Constants
<1>2. /\ page = TRUE /\ readopen = TRUE /\ writeopen = TRUE
      /\ data = [i \in 0..(PIPESIZE - 1) |-> NoByte] /\ nread = 0 /\ nwrite = 0
      /\ \A p \in Proc : pc[p] = "user"
      /\ sent = <<>> /\ received = <<>> /\ sawEof = {}
  BY DEF Init
<1>3. TypeOK
  <2>1. pc \in [Proc -> PC] /\ killed \in [Proc -> BOOLEAN]
    BY DEF Init, PC
  <2>2. left \in [Writer -> Seq(Byte)]
    <3>1. <<>> \in Seq(Byte)
      OBVIOUS
    <3> QED
      BY <3>1 DEF Init
  <2>3. want \in [Reader -> 0..MaxCall] /\ \A w \in Writer : offered[w] \in 0..MaxBytes[w]
    BY <1>1 DEF Init
  <2>4. sent \in Seq(Byte) /\ received \in Seq(Byte) /\ sawEof \subseteq Reader
    BY <1>2
  <2> QED
    BY <1>1, <1>2, <2>1, <2>2, <2>3, <2>4 DEF TypeOK
<1>4. RingHolds
  <2>1. Len(sent) = 0 /\ Len(received) = 0 /\ 0 % Word = 0
    BY <1>1, <1>2, ModSmall
  <2> QED
    BY <1>1, <1>2, <2>1 DEF RingHolds
<1>5. EndsHeld
  BY <1>2, Constants DEF EndsHeld, Proc
<1>6. Waits /\ Wants /\ EofIsEnd
  BY <1>2 DEF Waits, Wants, EofIsEnd, Busy, Proc
<1> QED
  BY <1>3, <1>4, <1>5, <1>6 DEF IInv

\* A process that leaves the ring, the ends and the counts alone.
LEMMA RingStays ==
  ASSUME RingHolds, UNCHANGED ring, UNCHANGED <<sent, received>>
  PROVE  RingHolds'
BY DEF RingHolds, ring

-----------------------------------------------------------------------------
(* pipewrite() *)

LEMMA WriteCallKeeps ==
  ASSUME IInv, NEW w \in Writer, NEW n \in 1..MaxCall, WriteCall(w, n)
  PROVE  IInv'
<1>1. /\ UNCHANGED <<ring, ends, killed, want, history>> /\ pc[w] = "user" /\ Goto(w, "call")
      /\ left' = [left EXCEPT ![w] = [i \in 1..n |-> <<w, offered[w] + i>>]]
      /\ offered' = [offered EXCEPT ![w] = @ + n] /\ offered[w] + n <= MaxBytes[w]
  BY DEF WriteCall
<1>2. UNCHANGED <<data, nread, nwrite, page, readopen, writeopen, sent, received, sawEof>>
  BY <1>1 DEF ring, ends, history
<1>3. /\ pc' \in [Proc -> PC] /\ pc'[w] = "call" /\ w \in Proc
      /\ \A q \in Proc \ {w} : pc'[q] = pc[q]
  BY <1>1, PcGoto DEF IInv, Proc, PC
<1>4. TypeOK'
  <2>1. /\ n \in Nat /\ offered[w] \in Nat /\ MaxBytes[w] \in Nat
        /\ \A v \in Writer : offered[v] \in 0..MaxBytes[v]
    BY Constants DEF IInv, TypeOK
  <2>2. ASSUME NEW i \in 1..n PROVE <<w, offered[w] + i>> \in Byte
    <3>1. offered[w] + i \in 1..MaxBytes[w]
      BY <1>1, <2>1
    <3>2. <<w, offered[w] + i>> \in {w} \X (1..MaxBytes[w])
      BY <3>1
    <3> QED
      BY <3>2 DEF Byte
  <2>3. [i \in 1..n |-> <<w, offered[w] + i>>] \in Seq(Byte)
    BY <2>1, <2>2
  <2>4. left' \in [Writer -> Seq(Byte)]
    BY <1>1, <2>3 DEF IInv, TypeOK
  <2>5. offered[w] + n \in 0..MaxBytes[w]
    BY <1>1, <2>1
  <2>6. \A v \in Writer : offered'[v] = offered[v] \/ (v = w /\ offered'[v] = offered[w] + n)
    BY <1>1
  <2>7. \A v \in Writer : offered'[v] \in 0..MaxBytes[v]
    BY <2>1, <2>5, <2>6
  <2> QED
    BY <1>1, <1>2, <1>3, <2>4, <2>7 DEF IInv, TypeOK
<1>5. RingHolds'
  BY <1>1, <1>2, RingStays DEF IInv
<1>6. EndsHeld'
  BY <1>1, <1>3, EndsStay DEF IInv
<1>7. Waits'
  BY <1>1, <1>2, <1>3 DEF IInv, Waits, Empty, Full, Proc
<1>8. Wants' /\ EofIsEnd'
  BY <1>1, <1>2, <1>3, Constants DEF IInv, Wants, EofIsEnd, Proc
<1> QED
  BY <1>4, <1>5, <1>6, <1>7, <1>8 DEF IInv

\* The room of the ring, and that there is none while a writer sleeps.
LEMMA RoomIs ==
  ASSUME TypeOK, RingHolds
  PROVE  Room \in 0..PIPESIZE /\ (Full <=> Room = 0)
<1>1. PIPESIZE \in Nat /\ Len(sent) \in Nat /\ Len(received) \in Nat
  BY Constants, ByteSeq
<1>2. /\ Used = Len(sent) - Len(received) /\ Used \in 0..PIPESIZE
      /\ Full <=> Len(sent) = Len(received) + PIPESIZE
  BY RingNumbers
<1> QED
  BY <1>1, <1>2 DEF Room

\* What holds however a round of pipewrite() ends.
LEMMA Written ==
  ASSUME IInv, NEW w \in Writer, pc[w] = "call", NEW n \in 0..Len(left[w]), n <= Room, Put(w, n),
         NEW rest \in Seq(Byte), left' = [left EXCEPT ![w] = rest], pc' \in [Proc -> PC],
         UNCHANGED <<nread, ends, killed, want, offered, received, sawEof>>
  PROVE  /\ TypeOK' /\ RingHolds' /\ EofIsEnd'
         /\ n = Room \/ Full => Full'
<1>1. UNCHANGED <<nread, received, page, readopen, writeopen, killed, want, offered, sawEof>>
  BY DEF ends
<1>2. /\ RingHolds' /\ sent' \in Seq(Byte) /\ nwrite' \in 0..(Word - 1)
      /\ data' \in [0..(PIPESIZE - 1) -> Byte \cup {NoByte}] /\ Len(sent') = Len(sent) + n
  BY <1>1, PutKeeps DEF IInv
<1>3. TypeOK'
  <2>1. left' \in [Writer -> Seq(Byte)]
    BY DEF IInv, TypeOK
  <2> QED
    BY <1>1, <1>2, <2>1 DEF IInv, TypeOK
<1>4. EofIsEnd'
  <2>1. writeopen
    BY DEF IInv, EndsHeld
  <2>2. sawEof = {}
    BY <2>1 DEF IInv, EofIsEnd
  <2> QED
    BY <1>1, <2>2 DEF EofIsEnd
<1>5. ASSUME n = Room \/ Full PROVE Full'
  <2>1. /\ Len(sent) \in Nat /\ Len(received) \in Nat /\ PIPESIZE \in Nat /\ Used = Len(sent) - Len(received)
        /\ Room \in Nat /\ (Full <=> Room = 0)
    BY Constants, ByteSeq, RingNumbers, RoomIs DEF IInv
  <2>2. n = Room
    BY <1>5, <2>1
  <2>3. Room = PIPESIZE - Used
    BY DEF Room
  <2>4. Len(sent') = Len(received) + PIPESIZE
    BY <1>2, <2>1, <2>2, <2>3
  <2>5. Full' <=> Len(sent') = Len(received') + PIPESIZE
    BY <1>1, <1>2, <1>3, RingNumbersNext DEF TypeOK
  <2> QED
    BY <1>1, <2>4, <2>5
<1> QED
  BY <1>2, <1>3, <1>4, <1>5

LEMMA WriteDoneKeeps ==
  ASSUME IInv, NEW w \in Writer, WriteDone(w)
  PROVE  IInv'
<1>1. /\ pc[w] = "call" /\ LockFree /\ Len(left[w]) <= Room /\ Put(w, Len(left[w]))
      /\ left' = [left EXCEPT ![w] = <<>>] /\ WakeupAndGoto(Reader, w, "user")
      /\ UNCHANGED <<nread, ends, killed, want, offered, received, sawEof>>
  BY DEF WriteDone
<1>2. /\ pc' \in [Proc -> PC] /\ pc'[w] = "user" /\ w \in Proc
      /\ \A q \in Proc \ {w} : pc'[q] = IF q \in Reader /\ pc[q] = "asleep" THEN "call" ELSE pc[q]
  BY <1>1, PcAfter DEF IInv, Proc, PC
<1>3. /\ TypeOK' /\ RingHolds' /\ EofIsEnd'
      /\ Full => Full'
  <2>1. Len(left[w]) \in 0..Len(left[w]) /\ <<>> \in Seq(Byte)
    BY DEF IInv, TypeOK
  <2> QED
    BY <1>1, <1>2, <2>1, Written
<1>4. EndsHeld'
  BY <1>1, <1>2, EndsStay DEF IInv
<1>5. Waits'
  <2>1. \A q \in Proc : pc'[q] # "falling" /\ (pc'[q] = "asleep" => q \in Writer /\ pc[q] = "asleep")
    BY <1>1, <1>2 DEF LockFree, Proc
  <2> QED
    BY <1>1, <1>3, <2>1, Constants DEF IInv, Waits, ends, Proc
<1>6. Wants'
  BY <1>1, <1>2 DEF IInv, Wants, Busy, Proc
<1> QED
  BY <1>3, <1>4, <1>5, <1>6 DEF IInv

LEMMA WriteFullKeeps ==
  ASSUME IInv, NEW w \in Writer, WriteFull(w)
  PROVE  IInv'
<1>1. /\ pc[w] = "call" /\ LockFree /\ Len(left[w]) > Room /\ readopen /\ Put(w, Room)
      /\ left' = [left EXCEPT ![w] = SubSeq(left[w], Room + 1, Len(left[w]))]
      /\ WakeupAndGoto(Reader, w, "falling")
      /\ UNCHANGED <<nread, ends, killed, want, offered, received, sawEof>>
  BY DEF WriteFull
<1>2. /\ pc' \in [Proc -> PC] /\ pc'[w] = "falling" /\ w \in Proc
      /\ \A q \in Proc \ {w} : pc'[q] = IF q \in Reader /\ pc[q] = "asleep" THEN "call" ELSE pc[q]
  BY <1>1, PcAfter DEF IInv, Proc, PC
<1>3. TypeOK' /\ RingHolds' /\ EofIsEnd' /\ Full'
  <2>1. left[w] \in Seq(Byte) /\ Room \in Nat
    BY Constants, RoomIs DEF IInv, TypeOK
  <2>2. Room \in 0..Len(left[w]) /\ Room <= Room /\ SubSeq(left[w], Room + 1, Len(left[w])) \in Seq(Byte)
    BY <1>1, <2>1
  <2> QED
    BY <1>1, <1>2, <2>2, Written
<1>4. EndsHeld'
  BY <1>1, <1>2, EndsStay DEF IInv
<1>5. Waits'
  <2>1. \A q \in Proc : q = w \/ (pc'[q] # "falling" /\ (pc'[q] = "asleep" => q \in Writer))
    BY <1>1, <1>2 DEF LockFree, Proc
  <2>2. readopen'
    BY <1>1 DEF ends
  <2> QED
    BY <1>2, <1>3, <2>1, <2>2, Constants DEF Waits, Proc
<1>6. Wants'
  BY <1>1, <1>2, Constants DEF IInv, Wants, Busy, Proc
<1> QED
  BY <1>3, <1>4, <1>5, <1>6 DEF IInv

LEMMA WriteFailsKeeps ==
  ASSUME IInv, NEW w \in Writer, WriteFails(w)
  PROVE  IInv'
<1>1. /\ pc[w] = "call" /\ LockFree /\ Len(left[w]) > Room /\ (~readopen \/ killed[w]) /\ Put(w, Room)
      /\ left' = [left EXCEPT ![w] = <<>>] /\ Goto(w, "user")
      /\ UNCHANGED <<nread, ends, killed, want, offered, received, sawEof>>
  BY DEF WriteFails
<1>2. /\ pc' \in [Proc -> PC] /\ pc'[w] = "user" /\ w \in Proc
      /\ \A q \in Proc \ {w} : pc'[q] = pc[q]
  BY <1>1, PcGoto DEF IInv, Proc, PC
<1>3. TypeOK' /\ RingHolds' /\ EofIsEnd' /\ Full'
  <2>1. left[w] \in Seq(Byte) /\ Room \in Nat /\ <<>> \in Seq(Byte)
    BY Constants, RoomIs DEF IInv, TypeOK
  <2>2. Room \in 0..Len(left[w]) /\ Room <= Room
    BY <1>1, <2>1
  <2> QED
    BY <1>1, <1>2, <2>1, <2>2, Written
<1>4. EndsHeld'
  BY <1>1, <1>2, EndsStay DEF IInv
<1>5. Waits'
  <2>1. \A q \in Proc : pc'[q] # "falling" /\ (pc'[q] = "asleep" => pc[q] = "asleep")
    BY <1>1, <1>2 DEF LockFree
  <2>2. UNCHANGED <<readopen, writeopen, killed>>
    BY <1>1 DEF ends
  <2>3. ASSUME NEW r \in Reader, pc[r] = "asleep" PROVE writeopen /\ killed[w]
    <3>1. readopen /\ writeopen
      BY <2>3 DEF IInv, EndsHeld, Waits
    <3> QED
      BY <1>1, <3>1
  <2> QED
    BY <1>3, <2>1, <2>2, <2>3 DEF IInv, Waits, Proc
<1>6. Wants'
  BY <1>1, <1>2, Constants DEF IInv, Wants, Busy, Proc
<1> QED
  BY <1>3, <1>4, <1>5, <1>6 DEF IInv

-----------------------------------------------------------------------------
(* piperead() *)

LEMMA ReadCallKeeps ==
  ASSUME IInv, NEW r \in Reader, NEW n \in 1..MaxCall, ReadCall(r, n)
  PROVE  IInv'
<1>1. /\ pc[r] = "user" /\ want' = [want EXCEPT ![r] = n] /\ Goto(r, "call")
      /\ UNCHANGED <<ring, ends, killed, left, offered, history>>
  BY DEF ReadCall
<1>2. UNCHANGED <<data, nread, nwrite, page, readopen, writeopen, sent, received, sawEof>>
  BY <1>1 DEF ring, ends, history
<1>3. /\ pc' \in [Proc -> PC] /\ pc'[r] = "call" /\ r \in Proc
      /\ \A q \in Proc \ {r} : pc'[q] = pc[q]
  BY <1>1, PcGoto DEF IInv, Proc, PC
<1>4. TypeOK'
  <2>1. n \in 0..MaxCall
    BY Constants
  <2>2. want' \in [Reader -> 0..MaxCall]
    BY <1>1, <2>1 DEF IInv, TypeOK
  <2> QED
    BY <1>1, <1>2, <1>3, <2>2 DEF IInv, TypeOK
<1>5. RingHolds' /\ EndsHeld' /\ EofIsEnd'
  BY <1>1, <1>2, <1>3, RingStays, EndsStay DEF IInv, EofIsEnd
<1>6. Waits'
  BY <1>1, <1>2, <1>3 DEF IInv, Waits, Empty, Full, Proc
<1>7. Wants'
  <2>1. n # 0 /\ want \in [Reader -> 0..MaxCall]
    BY Constants DEF IInv, TypeOK
  <2>2. \A q \in Reader : want'[q] = IF q = r THEN n ELSE want[q]
    BY <1>1, <2>1
  <2> QED
    BY <1>3, <2>1, <2>2 DEF IInv, Wants, Proc
<1> QED
  BY <1>4, <1>5, <1>6, <1>7 DEF IInv

LEMMA ReadKilledKeeps ==
  ASSUME IInv, NEW r \in Reader, ReadKilled(r)
  PROVE  IInv'
<1>1. /\ pc[r] = "call" /\ want' = [want EXCEPT ![r] = 0] /\ Goto(r, "user")
      /\ UNCHANGED <<ring, ends, killed, left, offered, history>>
  BY DEF ReadKilled
<1>2. UNCHANGED <<data, nread, nwrite, page, readopen, writeopen, sent, received, sawEof>>
  BY <1>1 DEF ring, ends, history
<1>3. /\ pc' \in [Proc -> PC] /\ pc'[r] = "user" /\ r \in Proc
      /\ \A q \in Proc \ {r} : pc'[q] = pc[q]
  BY <1>1, PcGoto DEF IInv, Proc, PC
<1>4. TypeOK'
  <2>1. want' \in [Reader -> 0..MaxCall]
    BY <1>1, Constants DEF IInv, TypeOK
  <2> QED
    BY <1>1, <1>2, <1>3, <2>1 DEF IInv, TypeOK
<1>5. RingHolds' /\ EndsHeld' /\ EofIsEnd'
  BY <1>1, <1>2, <1>3, RingStays, EndsStay DEF IInv, EofIsEnd
<1>6. Waits'
  BY <1>1, <1>2, <1>3 DEF IInv, Waits, Empty, Full, Proc
<1>7. Wants'
  <2>1. \A q \in Reader : q = r \/ want'[q] = want[q]
    BY <1>1 DEF IInv, TypeOK
  <2> QED
    BY <1>3, <2>1 DEF IInv, Wants, Busy, Proc
<1> QED
  BY <1>4, <1>5, <1>6, <1>7 DEF IInv

\* Steps that change nothing but where processes stand, and who is killed.
LEMMA OthersStay ==
  ASSUME IInv, pc' \in [Proc -> PC], killed' \in [Proc -> BOOLEAN],
         UNCHANGED <<ring, left, want, offered, history>>,
         page' \in BOOLEAN, readopen' \in BOOLEAN, writeopen' \in BOOLEAN,
         \A q \in Proc : pc'[q] \in Busy => pc[q] \in Busy,
         writeopen' => writeopen
  PROVE  TypeOK' /\ RingHolds' /\ Wants' /\ EofIsEnd' /\ (Full' <=> Full) /\ (Empty' <=> Empty)
<1>1. UNCHANGED <<data, nread, nwrite, sent, received, sawEof>>
  BY DEF ring, history
<1>2. TypeOK'
  BY <1>1 DEF IInv, TypeOK
<1>3. RingHolds' /\ EofIsEnd'
  BY <1>1, RingStays DEF IInv, EofIsEnd
<1>4. Wants'
  BY DEF IInv, Wants, Proc
<1>5. (Full' <=> Full) /\ (Empty' <=> Empty)
  BY <1>1 DEF Full, Empty
<1> QED
  BY <1>2, <1>3, <1>4, <1>5

LEMMA ReadEmptyKeeps ==
  ASSUME IInv, NEW r \in Reader, ReadEmpty(r)
  PROVE  IInv'
<1>1. /\ pc[r] = "call" /\ LockFree /\ Empty /\ writeopen /\ Goto(r, "falling")
      /\ UNCHANGED <<ring, ends, killed, left, want, offered, history>>
  BY DEF ReadEmpty, NothingYet
<1>2. UNCHANGED <<page, readopen, writeopen>>
  BY <1>1 DEF ends
<1>3. /\ pc' \in [Proc -> PC] /\ pc'[r] = "falling" /\ r \in Proc
      /\ \A q \in Proc \ {r} : pc'[q] = pc[q]
  BY <1>1, PcGoto DEF IInv, Proc, PC
<1>4. TypeOK' /\ RingHolds' /\ Wants' /\ EofIsEnd' /\ (Full' <=> Full) /\ (Empty' <=> Empty)
  <2>1. \A q \in Proc : pc'[q] \in Busy => pc[q] \in Busy
    BY <1>1, <1>3 DEF Busy
  <2> QED
    BY <1>1, <1>2, <1>3, <2>1, OthersStay DEF IInv, TypeOK
<1>5. EndsHeld'
  BY <1>1, <1>3, EndsStay DEF IInv
<1>6. Waits'
  BY <1>1, <1>2, <1>3, <1>4, Constants DEF IInv, Waits, LockFree, Proc
<1> QED
  BY <1>4, <1>5, <1>6 DEF IInv

\* A read() that takes everything: the two histories are one.
LEMMA SameBytes ==
  ASSUME TypeOK, RingHolds, Empty
  PROVE  received = sent
<1>1. /\ sent \in Seq(Byte) /\ received \in Seq(Byte) /\ Len(sent) = Len(received) /\ Len(sent) \in Nat
  BY ByteSeq, RingNumbers
<1>2. \A k \in 1..Len(sent) : received[k] = sent[k]
  BY <1>1 DEF RingHolds
<1> QED
  BY <1>1, <1>2

\* Nothing is taken of nothing.
LEMMA NothingTaken ==
  ASSUME NEW s \in Seq(Byte), NEW t \in Seq(Byte), NEW n \in Nat, Len(t) = Len(s) + n, n = 0, IsPrefix(s, t)
  PROVE  t = s
<1>1. Len(s) \in Nat /\ Len(t) = Len(s)
  OBVIOUS
<1>2. SubSeq(s, 1, Len(s)) = s /\ SubSeq(t, 1, Len(t)) = t
  OBVIOUS
<1> QED
  BY <1>1, <1>2 DEF IsPrefix

LEMMA ReadTakeKeeps ==
  ASSUME IInv, NEW r \in Reader, ReadTake(r)
  PROVE  IInv' /\ IsPrefix(received, received') /\ IsPrefix(received', sent) /\ sent' = sent
<1> DEFINE n == IF want[r] <= Used THEN want[r] ELSE Used
<1>1. /\ pc[r] = "call" /\ LockFree /\ ~(Empty /\ writeopen)
      /\ received' = received \o [i \in 1..n |-> data[(nread + i - 1) % PIPESIZE]]
      /\ nread' = (nread + n) % Word /\ sawEof' = IF n = 0 THEN sawEof \cup {r} ELSE sawEof
      /\ want' = [want EXCEPT ![r] = 0] /\ WakeupAndGoto(Writer, r, "user")
      /\ UNCHANGED <<data, nwrite, ends, killed, left, offered, sent>>
  BY DEF ReadTake, NothingYet
<1>2. UNCHANGED <<page, readopen, writeopen>>
  BY <1>1 DEF ends
<1>3. /\ pc' \in [Proc -> PC] /\ pc'[r] = "user" /\ r \in Proc
      /\ \A q \in Proc \ {r} : pc'[q] = IF q \in Writer /\ pc[q] = "asleep" THEN "call" ELSE pc[q]
  BY <1>1, PcAfter DEF IInv, Proc, PC
<1>4. /\ n \in 0..Used /\ n \in Nat /\ Used \in Nat /\ want[r] \in Nat \ {0}
      /\ n = 0 => Used = 0
  <2>1. Used \in 0..PIPESIZE /\ PIPESIZE \in Nat /\ MaxCall \in Nat
    BY Constants, RingNumbers DEF IInv
  <2>2. want[r] \in 0..MaxCall /\ want[r] # 0
    BY <1>1 DEF IInv, TypeOK, Wants, Busy
  <2> QED
    BY <2>1, <2>2
<1> HIDE DEF n
<1>5. /\ RingHolds' /\ received' \in Seq(Byte) /\ nread' \in 0..(Word - 1)
      /\ Len(received') = Len(received) + n
      /\ IsPrefix(received, received') /\ IsPrefix(received', sent)
  BY <1>1, <1>4, TakeKeeps DEF IInv
<1>6. TypeOK'
  <2>1. want' \in [Reader -> 0..MaxCall] /\ sawEof' \subseteq Reader
    BY <1>1, Constants DEF IInv, TypeOK
  <2> QED
    BY <1>1, <1>2, <1>3, <1>5, <2>1 DEF IInv, TypeOK
<1>7. EndsHeld'
  BY <1>1, <1>3, EndsStay DEF IInv
<1>8. Waits'
  <2>1. \A q \in Proc : pc'[q] # "falling" /\ (pc'[q] = "asleep" => q \in Reader /\ pc[q] = "asleep")
    BY <1>1, <1>3 DEF LockFree, Proc
  <2> QED
    BY <1>1, <1>2, <2>1, Constants DEF IInv, Waits, Proc
<1>9. Wants'
  <2>1. \A q \in Reader : q = r \/ want'[q] = want[q]
    BY <1>1 DEF IInv, TypeOK
  <2> QED
    BY <1>3, <2>1, Constants DEF IInv, Wants, Busy, Proc
<1>10. EofIsEnd'
  <2>1. n = 0 => Empty
    BY <1>4, RingNumbers, ByteSeq DEF IInv
  <2>2. sawEof # {} => received = sent /\ ~writeopen
    BY DEF IInv, EofIsEnd
  <2>3. received = sent => n = 0
    <3>1. Len(received) \in Nat /\ Used = Len(sent) - Len(received)
      BY RingNumbers, ByteSeq DEF IInv
    <3> QED
      BY <1>4, <3>1
  <2>4. n = 0 => received' = received /\ received = sent /\ ~writeopen
    <3>1. ASSUME n = 0 PROVE received = sent /\ ~writeopen
      BY <1>1, <2>1, <3>1, SameBytes DEF IInv
    <3>2. ASSUME n = 0 PROVE received' = received
      BY <1>4, <1>5, <3>2, NothingTaken, ByteSeq DEF IInv
    <3> QED
      BY <3>1, <3>2
  <2> QED
    BY <1>1, <1>2, <2>2, <2>3, <2>4 DEF EofIsEnd
<1> QED
  BY <1>1, <1>5, <1>6, <1>7, <1>8, <1>9, <1>10 DEF IInv

-----------------------------------------------------------------------------
(* sleep(), pipeclose(), kill() *)

LEMMA SleepKeeps ==
  ASSUME IInv, NEW p \in Proc, Sleep(p)
  PROVE  IInv'
<1>1. /\ pc[p] = "falling" /\ Goto(p, "asleep")
      /\ UNCHANGED <<ring, ends, killed, left, want, offered, history>>
  BY DEF Sleep
<1>2. UNCHANGED <<page, readopen, writeopen>>
  BY <1>1 DEF ends
<1>3. /\ pc' \in [Proc -> PC] /\ pc'[p] = "asleep"
      /\ \A q \in Proc \ {p} : pc'[q] = pc[q]
  BY <1>1, PcGoto DEF IInv, PC
<1>4. TypeOK' /\ RingHolds' /\ Wants' /\ EofIsEnd' /\ (Full' <=> Full) /\ (Empty' <=> Empty)
  <2>1. \A q \in Proc : pc'[q] \in Busy => pc[q] \in Busy
    BY <1>1, <1>3 DEF Busy
  <2> QED
    BY <1>1, <1>2, <1>3, <2>1, OthersStay DEF IInv, TypeOK
<1>5. EndsHeld'
  BY <1>1, <1>3, EndsStay DEF IInv
<1>6. Waits'
  BY <1>1, <1>2, <1>3, <1>4 DEF IInv, Waits, Proc
<1> QED
  BY <1>4, <1>5, <1>6 DEF IInv

LEMMA CloseSharedKeeps ==
  ASSUME IInv, NEW p \in Proc, CloseShared(p)
  PROVE  IInv'
<1>1. /\ pc[p] = "user" /\ EndShared(p) /\ Goto(p, "closed")
      /\ UNCHANGED <<ring, ends, killed, left, want, offered, history>>
  BY DEF CloseShared
<1>2. UNCHANGED <<page, readopen, writeopen>>
  BY <1>1 DEF ends
<1>3. /\ pc' \in [Proc -> PC] /\ pc'[p] = "closed"
      /\ \A q \in Proc \ {p} : pc'[q] = pc[q]
  BY <1>1, PcGoto DEF IInv, PC
<1>4. TypeOK' /\ RingHolds' /\ Wants' /\ EofIsEnd' /\ (Full' <=> Full) /\ (Empty' <=> Empty)
  <2>1. \A q \in Proc : pc'[q] \in Busy => pc[q] \in Busy
    BY <1>1, <1>3 DEF Busy
  <2> QED
    BY <1>1, <1>2, <1>3, <2>1, OthersStay DEF IInv, TypeOK
<1>5. EndsHeld'
  \* Somebody else still holds the end that p has closed.
  <2>1. PICK q \in (IF p \in Writer THEN Writer ELSE Reader) \ {p} : pc[q] # "closed"
    BY <1>1 DEF EndShared
  <2>2. q \in Proc /\ pc'[q] # "closed"
    BY <1>3, <2>1 DEF Proc
  <2>3. (\E r \in Reader : pc'[r] # "closed") <=> (\E r \in Reader : pc[r] # "closed")
    BY <1>1, <1>3, <2>1, <2>2, Constants DEF Proc
  <2>4. (\E w \in Writer : pc'[w] # "closed") <=> (\E w \in Writer : pc[w] # "closed")
    BY <1>1, <1>3, <2>1, <2>2, Constants DEF Proc
  <2> QED
    BY <1>2, <2>3, <2>4 DEF IInv, EndsHeld
<1>6. Waits'
  BY <1>1, <1>2, <1>3, <1>4 DEF IInv, Waits, Proc
<1> QED
  BY <1>4, <1>5, <1>6 DEF IInv

LEMMA PipecloseKeeps ==
  ASSUME IInv, NEW p \in Proc, Pipeclose(p)
  PROVE  IInv'
<1> DEFINE other == IF p \in Writer THEN Reader ELSE Writer
<1>1. /\ pc[p] = "user" /\ ~EndShared(p) /\ LockFree /\ WakeupAndGoto(other, p, "closed")
      /\ (readopen' <=> readopen /\ p \in Writer) /\ (writeopen' <=> writeopen /\ p \in Reader)
      /\ (page' <=> readopen' \/ writeopen')
      /\ readopen' \in BOOLEAN /\ writeopen' \in BOOLEAN /\ page' \in BOOLEAN
      /\ UNCHANGED <<ring, killed, left, want, offered, history>>
  BY DEF Pipeclose
<1>2. /\ pc' \in [Proc -> PC] /\ pc'[p] = "closed"
      /\ \A q \in Proc \ {p} : pc'[q] = IF q \in other /\ pc[q] = "asleep" THEN "call" ELSE pc[q]
  BY <1>1, PcAfter DEF IInv, PC
<1>3. TypeOK' /\ RingHolds' /\ Wants' /\ EofIsEnd' /\ (Full' <=> Full) /\ (Empty' <=> Empty)
  <2>1. \A q \in Proc : pc'[q] \in Busy => pc[q] \in Busy
    BY <1>1, <1>2 DEF Busy
  <2> QED
    BY <1>1, <1>2, <2>1, OthersStay DEF IInv, TypeOK
<1>4. \A q \in Proc \ {p} : pc'[q] = "closed" <=> pc[q] = "closed"
  BY <1>2
\* The end that p has closed nobody holds, nobody has let go of the other.
<1>5. CASE p \in Writer
  <2>1. p \notin Reader /\ \A w \in Writer : pc'[w] = "closed"
    BY <1>1, <1>2, <1>4, <1>5, Constants DEF EndShared, Proc
  <2>2. \A r \in Reader : pc'[r] = "closed" <=> pc[r] = "closed"
    BY <1>4, <2>1 DEF Proc
  <2>3. EndsHeld'
    BY <1>1, <1>5, <2>1, <2>2 DEF IInv, EndsHeld
  <2>4. \A q \in Proc : pc'[q] \notin {"falling", "asleep"}
    BY <1>1, <1>2, <1>5, <2>1 DEF LockFree, Proc
  <2>5. Waits'
    BY <2>4 DEF Waits, Proc
  <2> QED
    BY <1>3, <2>3, <2>5 DEF IInv
<1>6. CASE p \notin Writer
  <2>1. p \in Reader /\ \A r \in Reader : pc'[r] = "closed"
    BY <1>1, <1>2, <1>4, <1>6 DEF EndShared, Proc
  <2>2. \A w \in Writer : pc'[w] = "closed" <=> pc[w] = "closed"
    BY <1>4, <1>6 DEF Proc
  <2>3. EndsHeld'
    BY <1>1, <1>6, <2>1, <2>2 DEF IInv, EndsHeld
  <2>4. \A q \in Proc : pc'[q] \notin {"falling", "asleep"}
    BY <1>1, <1>2, <1>6, <2>1 DEF LockFree, Proc
  <2>5. Waits'
    BY <2>4 DEF Waits, Proc
  <2> QED
    BY <1>3, <2>3, <2>5 DEF IInv
<1> QED
  BY <1>5, <1>6

LEMMA KillKeeps ==
  ASSUME IInv, NEW p \in Proc, Kill(p)
  PROVE  IInv'
<1> DEFINE to == IF pc[p] = "asleep" THEN "call" ELSE pc[p]
<1>1. /\ killed' = [killed EXCEPT ![p] = TRUE] /\ Goto(p, to)
      /\ UNCHANGED <<ring, ends, left, want, offered, history>>
  BY DEF Kill
<1>2. UNCHANGED <<page, readopen, writeopen>>
  BY <1>1 DEF ends
<1>3. to \in PC
  BY DEF IInv, TypeOK, PC
<1>4. /\ pc' \in [Proc -> PC] /\ pc'[p] = to
      /\ \A q \in Proc \ {p} : pc'[q] = pc[q]
  BY <1>1, <1>3, PcGoto DEF IInv
<1>5. killed' \in [Proc -> BOOLEAN] /\ \A q \in Proc : killed[q] => killed'[q]
  BY <1>1 DEF IInv, TypeOK
<1>6. TypeOK' /\ RingHolds' /\ Wants' /\ EofIsEnd' /\ (Full' <=> Full) /\ (Empty' <=> Empty)
  <2>1. \A q \in Proc : pc'[q] \in Busy => pc[q] \in Busy
    BY <1>4 DEF Busy
  <2> QED
    BY <1>1, <1>2, <1>4, <1>5, <2>1, OthersStay DEF IInv, TypeOK
<1>7. EndsHeld'
  <2>1. \A q \in Proc : pc'[q] = "closed" <=> pc[q] = "closed"
    BY <1>4
  <2> QED
    BY <1>1, <2>1, EndsStay DEF IInv
<1>8. Waits'
  <2>1. \A q \in Proc : pc'[q] = pc[q] \/ pc'[q] = "call"
    BY <1>4
  <2> QED
    BY <1>2, <1>5, <1>6, <2>1 DEF IInv, Waits, Proc
<1> QED
  BY <1>6, <1>7, <1>8 DEF IInv

-----------------------------------------------------------------------------
(* The steps together *)

LEMMA NextCases ==
  ASSUME Next
  PROVE  \/ \E w \in Writer : WriteDone(w) \/ WriteFull(w) \/ WriteFails(w)
         \/ \E r \in Reader : ReadKilled(r) \/ ReadEmpty(r) \/ ReadTake(r)
         \/ \E p \in Proc : Sleep(p) \/ CloseShared(p) \/ Pipeclose(p) \/ Kill(p)
         \/ \E n \in 1..MaxCall : \/ \E w \in Writer : WriteCall(w, n)
                                  \/ \E r \in Reader : ReadCall(r, n)
BY DEF Next, Proceed, Close, pipewrite, piperead

LEMMA StutterKeeps ==
  ASSUME IInv, UNCHANGED vars
  PROVE  IInv'
<1>1. /\ UNCHANGED <<page, data, nread, nwrite, readopen, writeopen, pc, killed, left, want>>
      /\ UNCHANGED <<offered, sent, received, sawEof>>
  BY DEF vars, ring, ends, history
<1>2. TypeOK' /\ RingHolds'
  BY <1>1 DEF IInv, TypeOK, RingHolds
<1>3. EndsHeld' /\ Waits' /\ Wants' /\ EofIsEnd'
  BY <1>1 DEF IInv, EndsHeld, Waits, Wants, EofIsEnd, Empty, Full
<1> QED
  BY <1>2, <1>3 DEF IInv

LEMMA StepInv == IInv /\ [Next]_vars => IInv'
<1> SUFFICES ASSUME IInv, [Next]_vars PROVE IInv'
  OBVIOUS
<1>1. ASSUME NEW w \in Writer, WriteDone(w) \/ WriteFull(w) \/ WriteFails(w) PROVE IInv'
  BY <1>1, WriteDoneKeeps, WriteFullKeeps, WriteFailsKeeps
<1>2. ASSUME NEW r \in Reader, ReadKilled(r) \/ ReadEmpty(r) \/ ReadTake(r) PROVE IInv'
  BY <1>2, ReadKilledKeeps, ReadEmptyKeeps, ReadTakeKeeps
<1>3. ASSUME NEW p \in Proc, Sleep(p) \/ CloseShared(p) \/ Pipeclose(p) \/ Kill(p) PROVE IInv'
  BY <1>3, SleepKeeps, CloseSharedKeeps, PipecloseKeeps, KillKeeps
<1>4. ASSUME NEW n \in 1..MaxCall, NEW w \in Writer, WriteCall(w, n) PROVE IInv'
  BY <1>4, WriteCallKeeps
<1>5. ASSUME NEW n \in 1..MaxCall, NEW r \in Reader, ReadCall(r, n) PROVE IInv'
  BY <1>5, ReadCallKeeps
<1>6. CASE UNCHANGED vars
  BY <1>6, StutterKeeps
<1> QED
  BY <1>1, <1>2, <1>3, <1>4, <1>5, <1>6, NextCases

\* What the pipe does at any time (pipe.c), with what makes it inductive: the
\* ring is the difference of the histories, and what a sleeper saw still holds.
THEOREM Invariance == Spec => []IInv
BY InitInv, StepInv, PTL DEF Spec

\* The variables of a pipe have their types.
THEOREM TypeCorrect == Spec => []TypeOK
<1>1. IInv => TypeOK
  BY DEF IInv
<1> QED
  BY <1>1, Invariance, PTL

\* Nobody sleeps in piperead() or pipewrite() beside what he waits for, but for
\* a reader that a killed writer has left.
THEOREM SleepersCorrect == Spec => []SleepersHaveReason
<1>1. IInv => SleepersHaveReason
  BY DEF IInv, Waits, SleepersHaveReason
<1> QED
  BY <1>1, Invariance, PTL

\* piperead() returns 0 at the end of the stream only.
THEOREM EofCorrect == Spec => []EofIsEnd
<1>1. IInv => EofIsEnd
  BY DEF IInv
<1> QED
  BY <1>1, Invariance, PTL

\* pipeclose() frees the page when the last process closes its end.
THEOREM PageCorrect == Spec => []PageLive
<1>1. IInv => PageLive
  BY DEF IInv, EndsHeld, PageLive, Proc
<1> QED
  BY <1>1, Invariance, PTL

\* The sleepers, the end of the stream and the page of a pipe (pipe.c), for
\* any processes at its ends.
THEOREM PipeCorrect == Spec => []PipeInv
<1>1. TypeOK /\ SleepersHaveReason /\ EofIsEnd /\ PageLive => PipeInv
  BY DEF PipeInv
<1> QED
  BY <1>1, TypeCorrect, SleepersCorrect, EofCorrect, PageCorrect, PTL

-----------------------------------------------------------------------------
(* The ring is a stream *)

\* A round of pipewrite() puts bytes at the end of the stream.
LEMMA WritesSend ==
  ASSUME IInv, NEW w \in Writer, WriteDone(w) \/ WriteFull(w) \/ WriteFails(w)
  PROVE  Stream!Send
<1>1. UNCHANGED <<nread, received>>
  BY DEF WriteDone, WriteFull, WriteFails
<1>2. Len(left[w]) \in Nat /\ Room \in Nat
  BY Constants, RoomIs DEF IInv, TypeOK
<1>3. PICK n \in 0..Len(left[w]) : n <= Room /\ Put(w, n)
  <2>1. CASE WriteDone(w)
    <3>1. Len(left[w]) \in 0..Len(left[w]) /\ Len(left[w]) <= Room /\ Put(w, Len(left[w]))
      BY <1>2, <2>1 DEF WriteDone
    <3> QED
      BY <3>1
  <2>2. CASE WriteFull(w) \/ WriteFails(w)
    <3>1. Len(left[w]) > Room /\ Put(w, Room)
      BY <2>2 DEF WriteFull, WriteFails
    <3>2. Room \in 0..Len(left[w]) /\ Room <= Room
      BY <1>2, <3>1
    <3> QED
      BY <3>1, <3>2
  <2> QED
    BY <2>1, <2>2
<1>4. sent' \in Seq(Byte) /\ IsPrefix(sent, sent') /\ Len(sent') - Len(received) <= PIPESIZE
  BY <1>1, <1>3, PutKeeps DEF IInv
<1> QED
  BY <1>1, <1>4 DEF Stream!Send, IsPrefix, Stream!IsPrefix

LEMMA StepRefines == IInv /\ [Next]_vars => [Stream!Send \/ Stream!Receive]_<<sent, received>>
<1> SUFFICES ASSUME IInv, [Next]_vars
             PROVE  Stream!Send \/ Stream!Receive \/ UNCHANGED <<sent, received>>
  OBVIOUS
<1>1. ASSUME NEW w \in Writer, WriteDone(w) \/ WriteFull(w) \/ WriteFails(w) PROVE Stream!Send
  BY <1>1, WritesSend
<1>2. ASSUME NEW r \in Reader, ReadTake(r) PROVE Stream!Receive
  BY <1>2, ReadTakeKeeps DEF Stream!Receive, IsPrefix, Stream!IsPrefix
<1>3. ASSUME NEW r \in Reader, ReadKilled(r) \/ ReadEmpty(r) PROVE UNCHANGED <<sent, received>>
  BY <1>3 DEF ReadKilled, ReadEmpty, history
<1>4. ASSUME NEW p \in Proc, Sleep(p) \/ CloseShared(p) \/ Pipeclose(p) \/ Kill(p)
      PROVE  UNCHANGED <<sent, received>>
  BY <1>4 DEF Sleep, CloseShared, Pipeclose, Kill, history
<1>5. ASSUME NEW n \in 1..MaxCall,
             (\E w \in Writer : WriteCall(w, n)) \/ (\E r \in Reader : ReadCall(r, n))
      PROVE  UNCHANGED <<sent, received>>
  BY <1>5 DEF WriteCall, ReadCall, history
<1>6. CASE UNCHANGED vars
  BY <1>6 DEF vars, history
<1> QED
  BY <1>1, <1>2, <1>3, <1>4, <1>5, <1>6, NextCases

\* pipewrite() and piperead() are a stream of bytes, although the ring is small
\* and its counters wrap.
THEOREM Refinement == Spec => ImplementsByteStream
<1>1. Init => Stream!Init
  BY DEF Init, Stream!Init
<1> QED
  BY <1>1, Invariance, StepRefines, PTL DEF Spec, ImplementsByteStream, Stream!Spec
=============================================================================
