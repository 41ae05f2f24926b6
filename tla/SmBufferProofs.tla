--------------------------- MODULE SmBufferProofs ---------------------------
(***************************************************************************)
(* Proofs about SmBuffer for every set of readers, every number and size   *)
(* of items, all minimums, and every interleaving of the blocks' threads,  *)
(* when both ends of each edge have items of one size, as graph::connect   *)
(* requires.  Placed holds always; IInv is what holds until a reader goes  *)
(* astray.                                                                 *)
(***************************************************************************)
EXTENDS SmBuffer, WellFoundedInduction, TLAPS

(* graph::connect takes no two ports that declare different sizes. *)
Uniform == \A r \in Readers : ReaderItemSize[r] = ItemSize

(* Bytes that reader r has given back, and those it has still to give back. *)
Consumed(r) == total_read[r] * ItemSize
Unread(r) == Published - Consumed(r)

(* What was granted to the work calls, in bytes. *)
WriteWindow == space * ItemSize
ReadWindow(r) == granted[r] * ItemSize

(* The indices are at items, and no window goes past the end of the memory. *)
IndicesPlaced ==
  /\ \E i \in 0..(NumItems - 1) : write_index = i * ItemSize
  /\ \A r \in Readers : \E j \in 0..(NumItems - 1) : read_index[r] = j * ItemSize
WindowsPlaced ==
  /\ wpc \in {"work", "post"} =>
       write_index + WriteWindow <= BufSize /\ stored <= WriteWindow
  /\ wpc = "post" => produced * ItemSize <= stored
  /\ wpc = "idle" => stored = 0
  /\ \A r \in Readers : rpc[r] = "work" => read_index[r] + ReadWindow(r) <= BufSize
Placed == TypeOK /\ IndicesPlaced /\ WindowsPlaced

(* The indices are the running totals, wrapped. *)
IndexInv ==
  /\ write_index = Published % BufSize
  /\ \A r \in Readers :
       /\ read_index[r] = Consumed(r) % BufSize
       /\ 0 <= Unread(r) /\ Unread(r) <= BufSize

(* What was granted to the writer's work call is free ... *)
WriteWindowInv ==
  /\ space < NumItems /\ produced < NumItems
  /\ wpc \in {"work", "post"} => \A r \in Readers : Unread(r) + WriteWindow <= BufSize

(* ... and what was granted to a reader's is still there.  The index it has
   loaded was that of the writer at some moment since it gave back its last
   bytes. *)
Since(r, k) == loaded[r] = k % BufSize /\ Consumed(r) <= k /\ k <= Published
ReadWindowInv ==
  \A r \in Readers :
    /\ rpc[r] = "look" => \E k \in Nat : Since(r, k)
    /\ rpc[r] = "work" => ReadWindow(r) <= Unread(r) /\ Len(seen[r]) <= ReadWindow(r)
    /\ rpc[r] # "work" => seen[r] = <<>>

(* Each unread byte is at its place, and so is what work has stored. *)
MemoryInv ==
  /\ \A r \in Readers : \A k \in Consumed(r)..(Published - 1) : mem[k % BufSize] = k
  /\ wpc \in {"work", "post"} =>
       \A k \in 0..(stored - 1) : mem[write_index + k] = total_written * ItemSize + k

SeenInv ==
  \A r \in Readers : \A k \in 1..Len(seen[r]) : seen[r][k] = Consumed(r) + k - 1

(* What holds until a reader goes astray ... *)
IInv ==
  /\ Placed
  /\ IndexInv
  /\ WriteWindowInv
  /\ ReadWindowInv
  /\ MemoryInv
  /\ SeenInv

(* ... and what holds always. *)
Inv == Placed /\ (astray \/ IInv)

-----------------------------------------------------------------------------
(* Arithmetic on sizes, stated once so that the provers never meet a product
   of two variables elsewhere. *)

(* Products grow with their factors. *)
LEMMA MulMono ==
  ASSUME NEW a \in Nat, NEW b \in Nat, NEW d \in Nat, a <= b
  PROVE  a * d \in Nat /\ b * d \in Nat /\ a * d <= b * d
  OBVIOUS

(* ... and with them only. *)
LEMMA MulCancel ==
  ASSUME NEW a \in Nat, NEW b \in Nat, NEW d \in Nat \ {0}
  PROVE  (a * d <= b * d => a <= b) /\ (a * d = b * d => a = b)
<1>1. ASSUME a * d <= b * d, ~ (a <= b) PROVE FALSE
  <2>1. (b + 1) * d <= a * d
    BY <1>1, MulMono
  <2>2. (b + 1) * d = b * d + d /\ b * d \in Nat /\ a * d \in Nat
    OBVIOUS
  <2> QED
    BY <1>1, <2>1, <2>2
<1>2. ASSUME a * d = b * d, ~ (b <= a) PROVE FALSE
  <2>1. (a + 1) * d <= b * d
    BY <1>2, MulMono
  <2>2. (a + 1) * d = a * d + d /\ b * d \in Nat /\ a * d \in Nat
    OBVIOUS
  <2> QED
    BY <1>2, <2>1, <2>2
<1>3. a * d \in Nat /\ b * d \in Nat
  OBVIOUS
<1> QED
  BY <1>1, <1>2, <1>3

(* Distribution. *)
LEMMA MulAdd ==
  ASSUME NEW a \in Nat, NEW b \in Nat, NEW d \in Nat
  PROVE  (a + b) * d = a * d + b * d /\ a * d \in Nat /\ b * d \in Nat
  OBVIOUS

(* A quotient is rounded down. *)
LEMMA DivBound ==
  ASSUME NEW x \in Nat, NEW d \in Nat \ {0}
  PROVE  x \div d \in Nat /\ (x \div d) * d \in Nat /\ (x \div d) * d <= x
  OBVIOUS

(* ... to no less than what fits. *)
LEMMA DivFits ==
  ASSUME NEW x \in Nat, NEW d \in Nat \ {0}, NEW k \in Nat, k * d <= x
  PROVE  x \div d >= k
<1> DEFINE q == x \div d
<1>1. q \in Nat /\ x < q * d + d
  OBVIOUS
<1> HIDE DEF q
<1>2. ASSUME ~ (q >= k) PROVE FALSE
  <2>1. (q + 1) * d <= k * d /\ (q + 1) * d = q * d + d /\ q * d \in Nat /\ k * d \in Nat
    BY <1>1, <1>2, MulMono, MulAdd
  <2> QED
    BY <1>1, <2>1
<1> QED
  BY <1>2 DEF q

(* A number is determined by its quotient and its remainder. *)
LEMMA ModUnique ==
  ASSUME NEW q \in Nat, NEW r \in Nat, NEW m \in Nat \ {0}, r < m
  PROVE  (q * m + r) % m = r
  OBVIOUS

(* Division with remainder. *)
LEMMA Remainder ==
  ASSUME NEW x \in Nat, NEW m \in Nat \ {0}
  PROVE  x % m \in 0..(m - 1) /\ \E q \in Nat : x = q * m + (x % m)
<1>1. x \div m \in Nat /\ x = (x \div m) * m + (x % m) /\ x % m \in 0..(m - 1)
  OBVIOUS
<1> QED
  BY <1>1

(* Adding less than what is left of the round, or just that. *)
LEMMA ModAdd ==
  ASSUME NEW x \in Nat, NEW n \in Nat, NEW m \in Nat \ {0}, (x % m) + n <= m
  PROVE  (x + n) % m = IF (x % m) + n = m THEN 0 ELSE (x % m) + n
<1>1. PICK q \in Nat : x = q * m + (x % m)
  BY Remainder
<1>2. x % m \in Nat
  BY Remainder
<1>3. q * m \in Nat /\ (q + 1) * m = q * m + m
  OBVIOUS
<1>4. CASE (x % m) + n < m
  <2>1. x + n = q * m + ((x % m) + n)
    BY <1>1, <1>2, <1>3
  <2>2. (q * m + ((x % m) + n)) % m = (x % m) + n
    BY <1>2, <1>4, ModUnique
  <2> QED
    BY <2>1, <2>2, <1>4, <1>2
<1>5. CASE (x % m) + n = m
  <2>1. x + n = (q + 1) * m + 0
    BY <1>1, <1>2, <1>3, <1>5
  <2>2. ((q + 1) * m + 0) % m = 0
    BY ModUnique
  <2> QED
    BY <2>1, <2>2, <1>5
<1> QED
  BY <1>2, <1>4, <1>5

(* The remainders of two numbers that are at most a round apart. *)
LEMMA ModNear ==
  ASSUME NEW x \in Nat, NEW y \in Nat, NEW m \in Nat \ {0}, x <= y, y - x <= m
  PROVE  (y % m) - (x % m) \in {y - x, y - x - m}
<1>1. PICK q \in Nat : x = q * m + (x % m)
  BY Remainder
<1>2. x % m \in 0..(m - 1)
  BY Remainder
<1>3. q * m \in Nat /\ (q + 1) * m = q * m + m /\ (q + 2) * m = q * m + m + m
  OBVIOUS
<1> DEFINE r == (x % m) + (y - x)
<1>4. r \in Nat /\ y = q * m + r /\ r < m + m
  <2> DEFINE a == q * m
             b == x % m
  <2>1. a \in Nat /\ b \in Nat /\ b < m /\ x = a + b
    BY <1>1, <1>2, <1>3
  <2> HIDE DEF a, b
  <2>2. b + (y - x) \in Nat /\ y = a + (b + (y - x)) /\ b + (y - x) < m + m
    BY <2>1
  <2> QED
    BY <2>2 DEF a, b
<1> HIDE DEF r
<1>5. CASE r < m
  <2>1. y % m = r
    BY <1>4, <1>5, ModUnique
  <2> QED
    BY <2>1, <1>2 DEF r
<1>6. CASE r >= m
  <2>1. r - m \in Nat /\ r - m < m /\ y = (q + 1) * m + (r - m)
    BY <1>3, <1>4, <1>6
  <2>2. ((q + 1) * m + (r - m)) % m = r - m
    <3> DEFINE a == q + 1
               b == r - m
    <3>1. a \in Nat /\ b \in Nat /\ b < m
      BY <2>1
    <3> HIDE DEF a, b
    <3>2. (a * m + b) % m = b
      BY <3>1, ModUnique
    <3> QED
      BY <3>2 DEF a, b
  <2> QED
    BY <2>1, <2>2, <1>2 DEF r
<1> QED
  BY <1>4, <1>5, <1>6

-----------------------------------------------------------------------------
(* The smallest of a set of naturals, of two numbers, the greatest of two. *)
LEMMA LeastExists ==
  ASSUME NEW S \in SUBSET Nat, S # {}
  PROVE  \E x \in S : \A y \in S : x <= y
<1> DEFINE less == OpToRel(<, Nat)
<1>1. IsWellFoundedOn(less, Nat)
  BY NatLessThanWellFounded
<1>2. \A h, g \in Nat : h < g => <<h, g>> \in less
  BY DEF OpToRel
<1> HIDE DEF less
<1>3. PICK x \in S : \A y \in S : ~ (<<y, x>> \in less)
  BY <1>1, WFMin
<1>4. \A y \in S : ~ (y < x)
  BY <1>2, <1>3
<1> QED
  BY <1>4

(* The least of two naturals. *)
LEMMA MinPair ==
  ASSUME NEW a \in Nat, NEW b \in Nat
  PROVE  /\ Min({a, b}) \in {a, b}
         /\ Min({a, b}) <= a /\ Min({a, b}) <= b
<1>1. \E x \in {a, b} : \A y \in {a, b} : x <= y
  OBVIOUS
<1> QED
  BY <1>1 DEF Min

(* The minimum of items of a side that has none set. *)
LEMMA MaxWithOne ==
  ASSUME NEW a \in Nat
  PROVE  /\ AtLeastOne(a) \in Nat /\ AtLeastOne(a) >= 1
         /\ a <= 1 => AtLeastOne(a) = 1
<1>1. \E x \in {1, a} : \A y \in {1, a} : x >= y
  OBVIOUS
<1>2. Max({1, a}) \in {1, a} /\ \A y \in {1, a} : Max({1, a}) >= y
  BY <1>1 DEF Max
<1> QED
  BY <1>2 DEF AtLeastOne

(* The sizes. *)
LEMMA SizeFacts ==
  /\ NumItems \in Nat \ {0} /\ ItemSize \in Nat \ {0} /\ MaxItems \in Nat
  /\ BufSize \in Nat \ {0} /\ BufSize = NumItems * ItemSize
  BY SmSizes, SmBounds DEF BufSize

(* The slowest reader has read the least. *)
LEMMA SlowestIsLast ==
  ASSUME TypeOK
  PROVE  Slowest \in Readers /\ \A s \in Readers : total_read[Slowest] <= total_read[s]
<1> DEFINE S == {total_read[r] : r \in Readers}
<1>1. S \in SUBSET Nat /\ S # {}
  BY SmReaders DEF TypeOK
<1>2. PICK x \in S : \A y \in S : x <= y
  <2> HIDE DEF S
  <2> QED BY <1>1, LeastExists
<1>3. \E r \in Readers : \A s \in Readers : total_read[r] <= total_read[s]
  BY <1>2
<1> QED
  BY <1>3 DEF Slowest

(* The running totals in bytes. *)
LEMMA CountTypes ==
  ASSUME TypeOK
  PROVE  /\ Published \in Nat
         /\ \E k \in Nat : Published = k * ItemSize
         /\ \A r \in Readers : /\ Consumed(r) \in Nat /\ Unread(r) \in Int
                               /\ total_read[r] \in Nat
         /\ WriteWindow \in Nat
         /\ \A r \in Readers : ReadWindow(r) \in Nat /\ granted[r] \in Nat
<1> DEFINE k == total_written + IF wpc = "count" THEN produced ELSE 0
<1>1. k \in Nat /\ Published = k * ItemSize
  BY SizeFacts DEF TypeOK, Published
<1>2. Published \in Nat
  <2> HIDE DEF k
  <2> QED BY <1>1, SizeFacts, MulMono
<1>3. ASSUME NEW r \in Readers
      PROVE  Consumed(r) \in Nat /\ total_read[r] \in Nat
  BY SizeFacts, MulMono DEF TypeOK, Consumed
<1>4. WriteWindow \in Nat
  <2>1. space \in Nat
    BY SizeFacts DEF TypeOK
  <2> QED
    BY <2>1, SizeFacts, MulMono DEF WriteWindow
<1>5. ASSUME NEW r \in Readers
      PROVE  ReadWindow(r) \in Nat /\ granted[r] \in Nat
  <2>1. granted[r] \in Nat
    BY SizeFacts DEF TypeOK
  <2> QED
    BY <2>1, SizeFacts, MulMono DEF ReadWindow
<1> HIDE DEF k
<1> QED
  BY <1>1, <1>2, <1>3, <1>4, <1>5 DEF Unread

(* Where the indices are: apart by what is unread or by what is free. *)
LEMMA Positions ==
  ASSUME TypeOK, IndexInv, NEW r \in Readers
  PROVE  /\ write_index \in 0..(BufSize - 1) /\ read_index[r] \in 0..(BufSize - 1)
         /\ Unread(r) \in 0..BufSize
         /\ write_index - read_index[r] \in {Unread(r), Unread(r) - BufSize}
<1>1. Published \in Nat /\ Consumed(r) \in Nat /\ Unread(r) \in Int
  BY CountTypes
<1>2. /\ write_index = Published % BufSize /\ read_index[r] = Consumed(r) % BufSize
      /\ 0 <= Unread(r) /\ Unread(r) <= BufSize
  BY DEF IndexInv
<1>3. write_index \in 0..(BufSize - 1) /\ read_index[r] \in 0..(BufSize - 1)
  BY <1>1, <1>2, SizeFacts, Remainder
<1>4. write_index - read_index[r] \in {Unread(r), Unread(r) - BufSize}
  BY <1>1, <1>2, SizeFacts, ModNear DEF Unread
<1> QED
  BY <1>1, <1>2, <1>3, <1>4

(* Equal indices: the totals tell full from empty. *)
LEMMA EqualIndices ==
  ASSUME TypeOK, IndexInv, WriteWindowInv, NEW r \in Readers, read_index[r] = write_index
  PROVE  /\ Unread(r) \in {0, BufSize}
         /\ total_read[r] < total_written <=> Unread(r) = BufSize
         /\ wpc # "count" => (total_read[r] = total_written <=> Unread(r) = 0)
<1> DEFINE p == IF wpc = "count" THEN produced ELSE 0
           k == total_written + p
           t == total_read[r]
<1>1. Unread(r) \in {0, BufSize}
  BY Positions, SizeFacts
<1>2. p \in Nat /\ p < NumItems /\ total_written \in Nat /\ t \in Nat
  BY SizeFacts DEF TypeOK, WriteWindowInv
<1>3. Published = k * ItemSize /\ Consumed(r) = t * ItemSize
  BY DEF Published, Consumed
<1>4. CASE Unread(r) = 0
  <2>1. k * ItemSize = t * ItemSize
    BY <1>3, <1>4, CountTypes DEF Unread
  <2>2. k = t
    <3> HIDE DEF p, t
    <3> QED BY <2>1, <1>2, SizeFacts, MulCancel
  <2> QED
    BY <2>2, <1>2, <1>4, SizeFacts
<1>5. CASE Unread(r) = BufSize
  <2>1. k * ItemSize = t * ItemSize + NumItems * ItemSize
    BY <1>3, <1>5, CountTypes, SizeFacts DEF Unread
  <2>2. k * ItemSize = (t + NumItems) * ItemSize
    <3> HIDE DEF p, t
    <3> QED BY <2>1, <1>2, SizeFacts, MulAdd
  <2>3. k = t + NumItems
    <3> DEFINE n == t + NumItems
    <3>1. n \in Nat /\ k \in Nat
      BY <1>2, SizeFacts
    <3> HIDE DEF p, t, k, n
    <3>2. k * ItemSize = n * ItemSize
      BY <2>2 DEF n
    <3> QED BY <3>1, <3>2, SizeFacts, MulCancel DEF n
  <2> QED
    BY <2>3, <1>2, <1>5, SizeFacts
<1> QED
  BY <1>1, <1>4, <1>5

(* Distribution over a difference. *)
LEMMA MulSub ==
  ASSUME NEW a \in Nat, NEW b \in Nat, NEW d \in Nat, b <= a
  PROVE  (a - b) * d = a * d - b * d /\ a - b \in Nat
<1> DEFINE c == a - b
<1>1. c \in Nat /\ a = c + b
  OBVIOUS
<1> HIDE DEF c
<1>2. (c + b) * d = c * d + b * d /\ c * d \in Nat /\ b * d \in Nat
  BY <1>1, MulAdd
<1>3. c * d = a * d - b * d
  BY <1>1, <1>2
<1> QED
  BY <1>1, <1>3 DEF c

(* What a reader finds ends in the memory, whichever index it has loaded. *)
LEMMA FoundEnds ==
  ASSUME Uniform, TypeOK, NEW r \in Readers, NEW w \in 0..(BufSize - 1)
  PROVE  /\ BytesAvailable(r, w) \in 0..BufSize
         /\ read_index[r] + BytesAvailable(r, w) <= BufSize
         /\ ItemsAvailable(r, w) \in 0..BufSize
         /\ ItemsAvailable(r, w) * ItemSize \in Nat
         /\ ItemsAvailable(r, w) * ItemSize <= BytesAvailable(r, w)
<1> DEFINE a == BytesAvailable(r, w)
           n == ItemsAvailable(r, w)
<1>1. read_index[r] \in 0..(BufSize - 1)
  BY DEF TypeOK
<1>2. a \in 0..BufSize /\ read_index[r] + a <= BufSize
  BY <1>1, SizeFacts DEF BytesAvailable
<1>3. n = a \div ItemSize
  BY DEF ItemsAvailable, Uniform
<1> HIDE DEF a, n
<1>4. n \in Nat /\ n * ItemSize \in Nat /\ n * ItemSize <= a
  BY <1>2, <1>3, SizeFacts, DivBound
<1>5. n <= n * ItemSize
  <2>1. 1 * n <= ItemSize * n /\ ItemSize * n = n * ItemSize /\ 1 * n = n
    BY <1>4, SizeFacts, MulMono
  <2> QED
    BY <2>1
<1>6. n \in 0..BufSize
  BY <1>2, <1>4, <1>5, SizeFacts
<1> QED
  BY <1>2, <1>4, <1>6 DEF a, n

(* It is unread, unless the look is outdated. *)
LEMMA FoundIsUnread ==
  ASSUME TypeOK, IndexInv, WriteWindowInv, NEW r \in Readers,
         NEW k \in Nat, Since(r, k)
  PROVE  BytesAvailable(r, loaded[r]) <= Unread(r) <=> ~Outdated(r)
<1> DEFINE l == loaded[r]
           i == read_index[r]
           w == write_index
           c == Consumed(r)
           u == Unread(r)
           t == total_read[r] < total_written
           a == BytesAvailable(r, l)
<1>1. /\ w \in 0..(BufSize - 1) /\ i \in 0..(BufSize - 1)
      /\ u \in 0..BufSize /\ w - i \in {u, u - BufSize}
  BY Positions
<1>2. /\ c \in Nat /\ Published \in Nat /\ u = Published - c
      /\ l = k % BufSize /\ c <= k /\ k <= Published /\ i = c % BufSize
  BY CountTypes DEF Since, Unread, IndexInv
<1>3. k - c \in 0..u
  <2> HIDE DEF c, u
  <2> QED BY <1>2
<1>4. l \in 0..(BufSize - 1) /\ l - i \in {k - c, k - c - BufSize}
  <2> HIDE DEF c, u, l, i
  <2>1. k - c <= BufSize
    BY <1>1, <1>3, SizeFacts
  <2>2. c <= k
    BY <1>2
  <2>3. (k % BufSize) - (c % BufSize) \in {k - c, k - c - BufSize}
    BY <1>2, <2>1, <2>2, SizeFacts, ModNear
  <2>4. k % BufSize \in 0..(BufSize - 1)
    BY SizeFacts, Remainder
  <2> QED
    BY <1>2, <2>3, <2>4
<1>5. t => u > 0
  <2>1. SUFFICES ASSUME t PROVE Consumed(r) < Published
    BY <1>2
  <2> DEFINE p == total_written + IF wpc = "count" THEN produced ELSE 0
  <2>2. p \in Nat /\ total_read[r] \in Nat /\ total_read[r] + 1 <= p
    BY <2>1, SizeFacts DEF TypeOK
  <2>3. Published = p * ItemSize
    BY DEF Published
  <2> HIDE DEF p
  <2>4. (total_read[r] + 1) * ItemSize <= p * ItemSize
    BY <2>2, SizeFacts, MulMono
  <2>5. (total_read[r] + 1) * ItemSize = Consumed(r) + ItemSize /\ Consumed(r) \in Nat
    BY <2>2, SizeFacts, MulAdd DEF Consumed
  <2> QED
    BY <2>3, <2>4, <2>5, <1>2, SizeFacts
<1>6. Outdated(r) <=> l = i /\ w > i /\ t
  BY DEF Outdated
<1>7. a = IF l < i \/ (l = i /\ t) THEN BufSize - i ELSE l - i
  BY DEF BytesAvailable
<1> DEFINE d == k - c
<1> HIDE DEF l, i, w, c, u, t, a, d
<1>8. d \in 0..u /\ l - i \in {d, d - BufSize}
  BY <1>3, <1>4 DEF d
<1>9. a <= u <=> ~ (l = i /\ w > i /\ t)
  <2>1. CASE l # i
    BY <2>1, <1>1, <1>4, <1>7, <1>8, SizeFacts
  <2>2. CASE l = i
    <3>1. CASE t
      BY <2>2, <3>1, <1>1, <1>5, <1>7, SizeFacts
    <3>2. CASE ~t
      BY <2>2, <3>2, <1>1, <1>7, SizeFacts
    <3> QED BY <3>1, <3>2
  <2> QED BY <2>1, <2>2
<1> QED
  BY <1>6, <1>9 DEF a, u, l

(* What the writer is granted ends in the memory. *)
LEMMA SpaceEnds ==
  ASSUME TypeOK
  PROVE  /\ SpaceBytes \in Nat /\ write_index + SpaceBytes <= BufSize
         /\ SpaceAvailable \in Nat /\ SpaceAvailable < NumItems
         /\ SpaceAvailable * ItemSize \in Nat
         /\ SpaceAvailable * ItemSize <= SpaceBytes
<1> DEFINE s == Slowest
           n == SpaceBytes \div ItemSize
<1>1. s \in Readers
  BY SlowestIsLast
<1>2. write_index \in 0..(BufSize - 1) /\ read_index[s] \in 0..(BufSize - 1)
  BY <1>1 DEF TypeOK
<1> HIDE DEF s
<1>3. SpaceBytes \in Nat /\ write_index + SpaceBytes <= BufSize
  BY <1>2, SizeFacts DEF SpaceBytes, s
<1>4. n \in Nat /\ n * ItemSize <= SpaceBytes
  BY <1>3, SizeFacts, DivBound
<1>5. NumItems \div 2 \in Nat /\ NumItems \div 2 < NumItems
  BY SizeFacts
<1>6. SpaceAvailable \in Nat /\ SpaceAvailable <= n /\ SpaceAvailable < NumItems
  <2> HIDE DEF n
  <2>1. SpaceAvailable = Min({n, NumItems \div 2})
    BY DEF SpaceAvailable, n
  <2>2. Min({n, NumItems \div 2}) \in {n, NumItems \div 2} /\ Min({n, NumItems \div 2}) <= n
        /\ Min({n, NumItems \div 2}) <= NumItems \div 2
    BY <1>4, <1>5, MinPair
  <2> QED
    BY <2>1, <2>2, <1>4, <1>5, SizeFacts
<1>7. SpaceAvailable * ItemSize \in Nat /\ SpaceAvailable * ItemSize <= SpaceBytes
  <2> HIDE DEF n
  <2>1. SpaceAvailable * ItemSize \in Nat /\ n * ItemSize \in Nat
        /\ SpaceAvailable * ItemSize <= n * ItemSize
    BY <1>4, <1>6, SizeFacts, MulMono
  <2> QED
    BY <2>1, <1>3, <1>4
<1> QED
  BY <1>3, <1>6, <1>7

(* What the writer is granted is free for every reader. *)
LEMMA SpaceIsFree ==
  ASSUME TypeOK, IndexInv, WriteWindowInv, wpc = "idle"
  PROVE  \A r \in Readers : Unread(r) + SpaceAvailable * ItemSize <= BufSize
<1> DEFINE s == Slowest
<1>1. s \in Readers /\ \A r \in Readers : total_read[s] <= total_read[r]
  BY SlowestIsLast
<1>2. \A r \in Readers : Unread(r) <= Unread(s) /\ Unread(r) \in Int
  <2> SUFFICES ASSUME NEW r \in Readers PROVE Unread(r) <= Unread(s) /\ Unread(r) \in Int
    OBVIOUS
  <2>1. total_read[s] \in Nat /\ total_read[r] \in Nat /\ total_read[s] <= total_read[r]
    BY <1>1, CountTypes
  <2>2. Consumed(s) <= Consumed(r)
    BY <2>1, SizeFacts, MulMono DEF Consumed
  <2> QED
    BY <2>2, <1>1, CountTypes DEF Unread
<1>3. /\ write_index \in 0..(BufSize - 1) /\ read_index[s] \in 0..(BufSize - 1)
      /\ Unread(s) \in 0..BufSize
      /\ write_index - read_index[s] \in {Unread(s), Unread(s) - BufSize}
  BY <1>1, Positions
<1>4. SpaceBytes \in Nat /\ SpaceBytes + Unread(s) <= BufSize
  <2>1. read_index[s] = write_index =>
          Unread(s) \in {0, BufSize} /\ (total_read[s] = total_written <=> Unread(s) = 0)
    BY <1>1, EqualIndices
  <2> HIDE DEF s
  <2>2. SpaceBytes = IF read_index[s] > write_index THEN read_index[s] - write_index
                     ELSE IF read_index[s] = write_index /\ total_read[s] # total_written THEN 0
                     ELSE BufSize - write_index
    BY DEF SpaceBytes, s
  <2> QED
    BY <2>1, <2>2, <1>3, SizeFacts
<1> DEFINE b == SpaceAvailable * ItemSize
<1>5. b \in Nat /\ b <= SpaceBytes
  BY SpaceEnds
<1> HIDE DEF s, b
<1>6. \A r \in Readers : Unread(r) + b <= BufSize
  BY <1>2, <1>3, <1>4, <1>5, SizeFacts
<1> QED
  BY <1>6 DEF b

-----------------------------------------------------------------------------
(* Placed holds initially, and every step preserves it, those of a reader
   that has gone astray too. *)
LEMMA InitPlaced == Init => Placed
<1> SUFFICES ASSUME Init PROVE Placed
  OBVIOUS
<1>1. TypeOK
  <2>1. seen \in [Readers -> Seq(Nat \cup {-1})]
    <3>1. <<>> \in Seq(Nat \cup {-1})
      OBVIOUS
    <3> QED
      BY <3>1 DEF Init
  <2>2. mem \in [0..(BufSize - 1) -> Nat \cup {-1}]
    BY DEF Init
  <2>3. astray \in BOOLEAN
    BY DEF Init
  <2>4. /\ write_index \in 0..(BufSize - 1) /\ total_written \in Nat
        /\ wpc \in {"idle", "work", "post", "count"}
        /\ {space, produced} \subseteq 0..NumItems /\ stored \in 0..BufSize
    BY SizeFacts DEF Init
  <2>5. /\ read_index \in [Readers -> 0..(BufSize - 1)] /\ total_read \in [Readers -> Nat]
        /\ rpc \in [Readers -> {"idle", "look", "work"}]
        /\ loaded \in [Readers -> 0..(BufSize - 1)]
        /\ granted \in [Readers -> 0..BufSize]
    BY SizeFacts DEF Init
  <2> QED
    BY <2>1, <2>2, <2>3, <2>4, <2>5 DEF TypeOK
<1>2. 0 \in 0..(NumItems - 1) /\ 0 = 0 * ItemSize
  BY SizeFacts
<1>3. IndicesPlaced
  BY <1>2 DEF Init, IndicesPlaced
<1>4. WindowsPlaced
  BY DEF Init, WindowsPlaced
<1> QED
  BY <1>1, <1>3, <1>4 DEF Placed

(* An index that is at an item, advanced by items inside the memory. *)
LEMMA AdvancePlaced ==
  ASSUME NEW i \in 0..(NumItems - 1), NEW n \in Nat, i * ItemSize + n * ItemSize <= BufSize
  PROVE  /\ \E j \in 0..(NumItems - 1) : Wrapped(i * ItemSize + n * ItemSize) = j * ItemSize
         /\ Wrapped(i * ItemSize + n * ItemSize) \in 0..(BufSize - 1)
<1> DEFINE k == i + n
           x == i * ItemSize + n * ItemSize
<1>1. k \in Nat /\ x \in Nat /\ x = k * ItemSize
  BY SizeFacts, MulAdd
<1>2. x <= NumItems * ItemSize /\ BufSize = NumItems * ItemSize
  BY SizeFacts
<1> HIDE DEF k, x
<1>3. k <= NumItems
  BY <1>1, <1>2, SizeFacts, MulCancel
<1>4. CASE k = NumItems
  <2>1. Wrapped(x) = 0 /\ 0 = 0 * ItemSize /\ 0 \in 0..(NumItems - 1)
    BY <1>1, <1>2, <1>4, SizeFacts DEF Wrapped
  <2> QED
    BY <2>1, SizeFacts DEF x
<1>5. CASE k # NumItems
  <2>1. x # BufSize
    BY <1>1, <1>2, <1>5, SizeFacts, MulCancel
  <2>2. Wrapped(x) = x /\ x \in 0..(BufSize - 1) /\ k \in 0..(NumItems - 1)
    BY <1>1, <1>2, <1>3, <1>5, <2>1, SizeFacts DEF Wrapped
  <2> QED
    BY <1>1, <2>2 DEF x
<1> QED
  BY <1>4, <1>5

(* output_blocked_callback moves the data by whole items. *)
LEMMA OutputBlockedPlaced == ASSUME Placed, OutputBlocked PROVE Placed'
<1> DEFINE S == {read_index[r] : r \in Readers}
           first == Min(S)
           size == write_index - first
           moves == SpaceAvailable > 0 /\ first # 0 /\ first < write_index /\ size <= first
<1>1. /\ wpc = "idle" /\ UNCHANGED <<total_written, wpc, space, stored, produced, readerVars>>
      /\ moves => /\ mem' = [a \in DOMAIN mem |-> IF a < size THEN mem[first + a] ELSE mem[a]]
                  /\ write_index' = size /\ astray' = TRUE
      /\ ~moves => UNCHANGED <<mem, write_index, astray>>
  BY DEF OutputBlocked
<1>2. \E r \in Readers : first = read_index[r]
  <2>1. S \in SUBSET Nat /\ S # {}
    BY SmReaders, SizeFacts DEF Placed, TypeOK
  <2>2. \E x \in S : \A y \in S : x <= y
    <3> HIDE DEF S
    <3> QED BY <2>1, LeastExists
  <2>3. first \in S
    <3> HIDE DEF S
    <3> QED BY <2>2 DEF Min
  <2> QED
    BY <2>3
<1>3. PICK j \in 0..(NumItems - 1) : first = j * ItemSize
  BY <1>2 DEF Placed, IndicesPlaced
<1>4. PICK i \in 0..(NumItems - 1) : write_index = i * ItemSize
  BY DEF Placed, IndicesPlaced
<1>5. write_index \in 0..(BufSize - 1) /\ first \in 0..(BufSize - 1)
  BY <1>2 DEF Placed, TypeOK
<1> HIDE DEF S, first, moves
<1>6. CASE moves
  <2>1. first < write_index /\ size \in 0..(BufSize - 1)
    BY <1>5, <1>6, SizeFacts DEF moves
  <2>2. size = (i - j) * ItemSize /\ i - j \in 0..(NumItems - 1)
    <3>1. j * ItemSize <= i * ItemSize /\ i \in Nat /\ j \in Nat
      BY <2>1, <1>3, <1>4, <1>5, SizeFacts
    <3>2. j <= i
      BY <3>1, SizeFacts, MulCancel
    <3>3. (i - j) * ItemSize = i * ItemSize - j * ItemSize /\ i - j \in 0..(NumItems - 1)
      BY <3>1, <3>2, SizeFacts, MulSub
    <3> QED
      BY <3>3, <1>3, <1>4
  <2>3. mem' \in [0..(BufSize - 1) -> Nat \cup {-1}]
    <3>1. mem \in [0..(BufSize - 1) -> Nat \cup {-1}]
      BY DEF Placed, TypeOK
    <3>2. \A a \in 0..(BufSize - 1) : a < size => first + a \in 0..(BufSize - 1)
      BY <1>5, <2>1, SizeFacts
    <3> HIDE DEF size
    <3> QED
      BY <3>1, <3>2, <1>1, <1>6
  <2>4. TypeOK'
    BY <1>1, <1>6, <2>1, <2>3 DEF Placed, TypeOK, readerVars
  <2>5. IndicesPlaced'
    <3>1. write_index' = (i - j) * ItemSize /\ read_index' = read_index
      BY <1>1, <1>6, <2>2 DEF readerVars
    <3> QED
      BY <3>1, <2>2 DEF Placed, IndicesPlaced
  <2>6. WindowsPlaced'
    BY <1>1 DEF Placed, WindowsPlaced, ReadWindow, readerVars
  <2> QED
    BY <2>4, <2>5, <2>6 DEF Placed
<1>7. CASE ~moves
  BY <1>1, <1>7 DEF Placed, TypeOK, IndicesPlaced, WindowsPlaced, WriteWindow, ReadWindow,
     readerVars
<1> QED
  BY <1>6, <1>7

(* The other steps of the writer. *)
LEMMA WriterPlaced ==
  ASSUME Placed, WriteInfo \/ StoreByte \/ (\E n \in 0..NumItems : FinishWork(n))
                 \/ PostWrite \/ CountWritten
  PROVE  Placed'
<1>0. WriteWindow \in Nat /\ \A r \in Readers : ReadWindow(r) \in Nat
  BY CountTypes DEF Placed
<1>1. CASE WriteInfo
  <2>1. /\ wpc' = "work" /\ wpc = "idle" /\ space' = SpaceAvailable
        /\ UNCHANGED <<mem, write_index, total_written, stored, produced, readerVars, astray>>
    BY <1>1 DEF WriteInfo
  <2>2. /\ SpaceAvailable \in 0..NumItems
        /\ write_index + SpaceAvailable * ItemSize <= BufSize
        /\ SpaceAvailable * ItemSize \in Nat
    <3>1. write_index \in Nat
      BY SizeFacts DEF Placed, TypeOK
    <3> DEFINE b == SpaceAvailable * ItemSize
    <3>2. /\ b \in Nat /\ b <= SpaceBytes /\ SpaceBytes \in Nat
          /\ write_index + SpaceBytes <= BufSize
          /\ SpaceAvailable \in Nat /\ SpaceAvailable < NumItems
      BY SpaceEnds DEF Placed
    <3> HIDE DEF b
    <3>3. write_index + b <= BufSize /\ SpaceAvailable \in 0..NumItems
      BY <3>1, <3>2, SizeFacts
    <3> QED
      BY <3>2, <3>3 DEF b
  <2>3. stored = 0
    BY <2>1 DEF Placed, WindowsPlaced
  <2>4. TypeOK' /\ IndicesPlaced'
    BY <2>1, <2>2 DEF Placed, TypeOK, IndicesPlaced, readerVars
  <2>5. WindowsPlaced'
    <3>1. WriteWindow' = SpaceAvailable * ItemSize
      BY <2>1 DEF WriteWindow
    <3> QED
      BY <2>1, <2>2, <2>3, <3>1 DEF Placed, WindowsPlaced, ReadWindow, readerVars
  <2> QED
    BY <2>4, <2>5 DEF Placed
<1>2. CASE StoreByte
  <2> DEFINE position == write_index + stored
             byte == total_written * ItemSize + stored
  <2>1. /\ wpc = "work" /\ stored < WriteWindow
        /\ mem' = [mem EXCEPT ![position] = byte]
        /\ stored' = stored + 1
        /\ UNCHANGED <<write_index, total_written, wpc, space, produced, readerVars, astray>>
    BY <1>2 DEF StoreByte, WriteWindow
  <2>2. total_written * ItemSize \in Nat /\ stored \in Nat /\ write_index \in Nat
    BY SizeFacts, MulMono DEF Placed, TypeOK
  <2>3. byte \in Nat /\ write_index + WriteWindow <= BufSize
    BY <2>1, <2>2 DEF Placed, WindowsPlaced
  <2> HIDE DEF position, byte
  <2>4. mem' \in [0..(BufSize - 1) -> Nat \cup {-1}]
    BY <2>1, <2>3 DEF Placed, TypeOK
  <2>5. stored' \in 0..BufSize /\ stored' <= WriteWindow
    BY <2>1, <2>2, <2>3, <1>0, SizeFacts
  <2>6. TypeOK' /\ IndicesPlaced'
    BY <2>1, <2>4, <2>5 DEF Placed, TypeOK, IndicesPlaced, readerVars
  <2>7. WindowsPlaced'
    <3>1. WriteWindow' = WriteWindow
      BY <2>1 DEF WriteWindow
    <3> QED
      BY <2>1, <2>3, <2>5, <3>1 DEF Placed, WindowsPlaced, ReadWindow, readerVars
  <2> QED
    BY <2>6, <2>7 DEF Placed
<1>3. CASE \E n \in 0..NumItems : FinishWork(n)
  BY <1>3 DEF FinishWork, Placed, TypeOK, IndicesPlaced, WindowsPlaced, WriteWindow,
     ReadWindow, readerVars
<1>4. CASE PostWrite
  <2> DEFINE bytes == produced * ItemSize
  <2>1. /\ wpc = "post" /\ wpc' = "count"
        /\ write_index' = Wrapped(write_index + bytes)
        /\ UNCHANGED <<mem, total_written, space, stored, produced, readerVars, astray>>
    BY <1>4 DEF PostWrite
  <2>2. PICK i \in 0..(NumItems - 1) : write_index = i * ItemSize
    BY DEF Placed, IndicesPlaced
  <2>3. write_index + bytes <= BufSize /\ produced \in Nat
    <3>1. produced \in Nat /\ stored \in Nat /\ write_index \in Nat
      BY SizeFacts DEF Placed, TypeOK
    <3>2. bytes \in Nat
      BY <3>1, SizeFacts, MulMono
    <3>3. bytes <= stored /\ stored <= WriteWindow /\ write_index + WriteWindow <= BufSize
      BY <2>1 DEF Placed, WindowsPlaced
    <3> HIDE DEF bytes
    <3> QED
      BY <3>1, <3>2, <3>3, <1>0, SizeFacts
  <2>4. /\ write_index' \in 0..(BufSize - 1)
        /\ \E j \in 0..(NumItems - 1) : write_index' = j * ItemSize
    <3>1. i * ItemSize + produced * ItemSize <= BufSize
      BY <2>2, <2>3
    <3>2. write_index' = Wrapped(i * ItemSize + produced * ItemSize)
      BY <2>1, <2>2
    <3> QED
      BY <3>1, <3>2, <2>3, AdvancePlaced
  <2>5. TypeOK' /\ IndicesPlaced'
    BY <2>1, <2>4 DEF Placed, TypeOK, IndicesPlaced, readerVars
  <2>6. WindowsPlaced'
    BY <2>1 DEF Placed, WindowsPlaced, ReadWindow, readerVars
  <2> QED
    BY <2>5, <2>6 DEF Placed
<1>5. CASE CountWritten
  <2>1. /\ wpc' = "idle" /\ total_written' = total_written + produced
        /\ space' = 0 /\ stored' = 0 /\ produced' = 0
        /\ UNCHANGED <<mem, write_index, readerVars, astray>>
    BY <1>5 DEF CountWritten
  <2>2. total_written + produced \in Nat /\ 0 \in 0..NumItems /\ 0 \in 0..BufSize
    BY SizeFacts DEF Placed, TypeOK
  <2>3. TypeOK'
    BY <2>1, <2>2 DEF Placed, TypeOK, readerVars
  <2>4. IndicesPlaced' /\ WindowsPlaced'
    BY <2>1 DEF Placed, IndicesPlaced, WindowsPlaced, ReadWindow, readerVars
  <2> QED
    BY <2>3, <2>4 DEF Placed
<1> QED
  BY <1>1, <1>2, <1>3, <1>4, <1>5

(* A reader short of items has none in front of the end of the memory only if
   the write index is not behind its own: nothing is moved. *)
LEMMA NothingBehind ==
  ASSUME Uniform, Placed, NEW r \in Readers, InputBlocked(r)
  PROVE  /\ rpc[r] = "look"
         /\ rpc' = [rpc EXCEPT ![r] = "idle"]
         /\ UNCHANGED <<mem, writerVars, read_index, total_read, loaded, granted, seen, astray>>
<1>1. ASSUME write_index < read_index[r] PROVE ItemsAvailable(r, write_index) >= 1
  <2>1. PICK j \in 0..(NumItems - 1) : read_index[r] = j * ItemSize
    BY DEF Placed, IndicesPlaced
  <2>2. (NumItems - j) * ItemSize = BufSize - read_index[r] /\ NumItems - j \in Nat
        /\ 1 <= NumItems - j
    BY <2>1, SizeFacts, MulSub
  <2> DEFINE n == NumItems - j
             a == BytesAvailable(r, write_index)
  <2>3. a = n * ItemSize /\ n \in Nat /\ 1 <= n
    BY <1>1, <2>2 DEF BytesAvailable
  <2>4. ItemsAvailable(r, write_index) = a \div ItemSize
    BY DEF ItemsAvailable, Uniform
  <2> HIDE DEF n, a
  <2>5. a \in Nat /\ 1 * ItemSize <= a
    BY <2>3, SizeFacts, MulMono
  <2> QED
    BY <2>4, <2>5, SizeFacts, DivFits
<1>2. ItemsAvailable(r, write_index) \in Nat
  <2>1. write_index \in 0..(BufSize - 1)
    BY DEF Placed, TypeOK
  <2> QED
    BY <2>1, FoundEnds, SizeFacts DEF Placed
<1>3. UNCHANGED <<mem, write_index, read_index, astray>>
  BY <1>1, <1>2 DEF InputBlocked
<1> QED
  BY <1>3 DEF InputBlocked, writerVars

(* The steps of a reader. *)
LEMMA ReaderPlaced ==
  ASSUME Uniform, Placed, NEW r \in Readers, ReaderNext(r)
  PROVE  Placed'
<1>0. \A q \in Readers : ReadWindow(q) \in Nat /\ granted[q] \in Nat
  BY CountTypes DEF Placed
<1>1. CASE LoadWriteIndex(r)
  BY <1>1 DEF LoadWriteIndex, Placed, TypeOK, IndicesPlaced, WindowsPlaced, WriteWindow,
     ReadWindow, writerVars
<1>2. CASE ReadInfo(r)
  <2> DEFINE n == ItemsAvailable(r, loaded[r])
  <2>1. /\ granted' = [granted EXCEPT ![r] = n] /\ rpc' = [rpc EXCEPT ![r] = "work"]
        /\ astray' = (astray \/ Outdated(r))
        /\ UNCHANGED <<mem, writerVars, read_index, total_read, loaded, seen>>
    BY <1>2 DEF ReadInfo
  <2>2. n \in 0..BufSize /\ n * ItemSize \in Nat /\ read_index[r] + n * ItemSize <= BufSize
    <3> DEFINE a == BytesAvailable(r, loaded[r])
               b == n * ItemSize
    <3>1. loaded[r] \in 0..(BufSize - 1) /\ read_index[r] \in Nat
      BY SizeFacts DEF Placed, TypeOK
    <3>2. a \in 0..BufSize /\ read_index[r] + a <= BufSize /\ n \in 0..BufSize
          /\ b \in Nat /\ b <= a
      BY <3>1, FoundEnds DEF Placed
    <3> HIDE DEF a, b, n
    <3>3. read_index[r] + b <= BufSize
      BY <3>1, <3>2, SizeFacts
    <3> QED
      BY <3>2, <3>3 DEF b
  <2> HIDE DEF n
  <2>3. granted' \in [Readers -> 0..BufSize] /\ rpc' \in [Readers -> {"idle", "look", "work"}]
    BY <2>1, <2>2 DEF Placed, TypeOK
  <2>4. astray' \in BOOLEAN
    BY <2>1, Zenon DEF Placed, TypeOK
  <2>5. TypeOK' /\ IndicesPlaced'
    BY <2>1, <2>3, <2>4 DEF Placed, TypeOK, IndicesPlaced, writerVars
  <2>6. WindowsPlaced'
    <3>1. ASSUME NEW q \in Readers, rpc'[q] = "work"
          PROVE  read_index'[q] + ReadWindow(q)' <= BufSize
      <4>1. CASE q = r
        <5>1. granted'[r] = n
          BY <2>1 DEF Placed, TypeOK
        <5> QED
          BY <4>1, <5>1, <2>1, <2>2 DEF ReadWindow
      <4>2. CASE q # r
        <5>1. granted'[q] = granted[q] /\ rpc'[q] = rpc[q]
          BY <4>2, <2>1 DEF Placed, TypeOK
        <5> QED
          BY <5>1, <3>1, <2>1 DEF Placed, WindowsPlaced, ReadWindow
      <4> QED
        BY <4>1, <4>2
    <3> QED
      BY <3>1, <2>1 DEF Placed, WindowsPlaced, WriteWindow, writerVars
  <2> QED
    BY <2>5, <2>6 DEF Placed
<1>3. CASE InputBlocked(r)
  BY <1>3, NothingBehind DEF Placed, TypeOK, IndicesPlaced, WindowsPlaced, WriteWindow,
     ReadWindow, writerVars
<1>4. CASE LoadByte(r)
  <2> DEFINE byte == mem[read_index[r] + Len(seen[r])]
  <2>1. /\ seen' = [seen EXCEPT ![r] = Append(seen[r], byte)]
        /\ UNCHANGED <<mem, writerVars, read_index, total_read, rpc, loaded, granted, astray>>
    BY <1>4 DEF LoadByte
  <2>2. byte \in Nat \cup {-1}
    <3>1. read_index[r] + Len(seen[r]) \in 0..(BufSize - 1)
      BY <1>4, SizeFacts DEF LoadByte, Placed, TypeOK
    <3> QED
      BY <3>1 DEF Placed, TypeOK
  <2> HIDE DEF byte
  <2>3. seen' \in [Readers -> Seq(Nat \cup {-1})]
    <3>1. Append(seen[r], byte) \in Seq(Nat \cup {-1})
      BY <2>2 DEF Placed, TypeOK
    <3> QED
      BY <2>1, <3>1 DEF Placed, TypeOK
  <2>4. TypeOK' /\ IndicesPlaced'
    BY <2>1, <2>3 DEF Placed, TypeOK, IndicesPlaced, writerVars
  <2>5. WindowsPlaced'
    BY <2>1 DEF Placed, WindowsPlaced, WriteWindow, ReadWindow, writerVars
  <2> QED
    BY <2>4, <2>5 DEF Placed
<1>5. ASSUME NEW n \in 0..BufSize, PostRead(r, n) PROVE Placed'
  <2> DEFINE b == n * ItemSize
  <2>1. /\ rpc[r] = "work" /\ n <= granted[r]
        /\ read_index' = [read_index EXCEPT ![r] = Wrapped(read_index[r] + b)]
        /\ total_read' = [total_read EXCEPT ![r] = total_read[r] + n]
        /\ rpc' = [rpc EXCEPT ![r] = "idle"]
        /\ loaded' = [loaded EXCEPT ![r] = 0] /\ granted' = [granted EXCEPT ![r] = 0]
        /\ seen' = [seen EXCEPT ![r] = <<>>]
        /\ UNCHANGED <<mem, writerVars, astray>>
    BY <1>5 DEF PostRead, Uniform
  <2>2. PICK j \in 0..(NumItems - 1) : read_index[r] = j * ItemSize
    BY DEF Placed, IndicesPlaced
  <2>3. read_index[r] + b <= BufSize /\ n \in Nat
    <3>1. n \in Nat /\ granted[r] \in Nat /\ read_index[r] \in Nat
      BY <1>0, SizeFacts DEF Placed, TypeOK
    <3>2. b \in Nat /\ b <= ReadWindow(r) /\ ReadWindow(r) \in Nat
      BY <2>1, <3>1, <1>0, SizeFacts, MulMono DEF ReadWindow
    <3>3. read_index[r] + ReadWindow(r) <= BufSize
      BY <2>1 DEF Placed, WindowsPlaced
    <3> HIDE DEF b
    <3> QED
      BY <3>1, <3>2, <3>3, SizeFacts
  <2>4. /\ Wrapped(read_index[r] + b) \in 0..(BufSize - 1)
        /\ \E k \in 0..(NumItems - 1) : Wrapped(read_index[r] + b) = k * ItemSize
    <3>1. j * ItemSize + n * ItemSize <= BufSize
      BY <2>2, <2>3
    <3> QED
      BY <3>1, <2>2, <2>3, AdvancePlaced
  <2> DEFINE x == Wrapped(read_index[r] + b)
  <2>5. read_index' = [read_index EXCEPT ![r] = x] /\ x \in 0..(BufSize - 1)
        /\ \E k \in 0..(NumItems - 1) : x = k * ItemSize
    BY <2>1, <2>4
  <2> HIDE DEF x
  <2>6. IndicesPlaced'
    <3>1. ASSUME NEW q \in Readers
          PROVE  \E k \in 0..(NumItems - 1) : read_index'[q] = k * ItemSize
      <4>1. read_index'[q] = IF q = r THEN x ELSE read_index[q]
        BY <2>5 DEF Placed, TypeOK
      <4> QED
        BY <4>1, <2>5 DEF Placed, IndicesPlaced
    <3> QED
      BY <3>1, <2>1 DEF Placed, IndicesPlaced, writerVars
  <2>7. TypeOK'
    <3>1. total_read[r] + n \in Nat /\ 0 \in 0..(BufSize - 1) /\ 0 \in 0..BufSize
          /\ <<>> \in Seq(Nat \cup {-1})
      BY <2>3, SizeFacts DEF Placed, TypeOK
    <3>2. /\ read_index' \in [Readers -> 0..(BufSize - 1)]
          /\ total_read' \in [Readers -> Nat]
          /\ rpc' \in [Readers -> {"idle", "look", "work"}]
      BY <3>1, <2>1, <2>5 DEF Placed, TypeOK
    <3>3. /\ loaded' \in [Readers -> 0..(BufSize - 1)]
          /\ granted' \in [Readers -> 0..BufSize]
          /\ seen' \in [Readers -> Seq(Nat \cup {-1})]
      BY <3>1, <2>1 DEF Placed, TypeOK
    <3> QED
      BY <3>2, <3>3, <2>1 DEF Placed, TypeOK, writerVars
  <2>8. WindowsPlaced'
    <3>1. ASSUME NEW q \in Readers, rpc'[q] = "work"
          PROVE  read_index'[q] + ReadWindow(q)' <= BufSize
      <4>1. q # r
        BY <3>1, <2>1 DEF Placed, TypeOK
      <4>2. granted'[q] = granted[q] /\ rpc'[q] = rpc[q] /\ read_index'[q] = read_index[q]
        BY <4>1, <2>1 DEF Placed, TypeOK
      <4> QED
        BY <4>2, <3>1 DEF Placed, WindowsPlaced, ReadWindow
    <3> QED
      BY <3>1, <2>1 DEF Placed, WindowsPlaced, WriteWindow, writerVars
  <2> QED
    BY <2>6, <2>7, <2>8 DEF Placed
<1> QED
  BY <1>1, <1>2, <1>3, <1>4, <1>5 DEF ReaderNext

LEMMA NextPlaced == ASSUME Uniform, Placed, [Next]_vars PROVE Placed'
<1>1. CASE UNCHANGED vars
  BY <1>1 DEF vars, writerVars, readerVars, Placed, TypeOK, IndicesPlaced, WindowsPlaced,
     WriteWindow, ReadWindow
<1> QED
  BY <1>1, OutputBlockedPlaced, WriterPlaced, ReaderPlaced DEF Next, WriterNext

-----------------------------------------------------------------------------
(* An empty buffer. *)
LEMMA InitIInv == Init => IInv
<1> SUFFICES ASSUME Init PROVE IInv
  OBVIOUS
<1> USE DEF Init
<1>1. Placed
  BY InitPlaced
<1>2. Published = 0 /\ \A r \in Readers : Consumed(r) = 0 /\ Unread(r) = 0
  BY SizeFacts DEF Published, Consumed, Unread
<1>3. IndexInv
  <2>1. 0 % BufSize = 0
    BY SizeFacts
  <2> QED
    BY <2>1, <1>2, SizeFacts DEF IndexInv
<1>4. WriteWindowInv
  BY SizeFacts DEF WriteWindowInv
<1>5. ReadWindowInv /\ SeenInv
  BY DEF ReadWindowInv, SeenInv
<1>6. MemoryInv
  BY <1>2 DEF MemoryInv
<1> QED
  BY <1>1, <1>3, <1>4, <1>5, <1>6 DEF IInv

-----------------------------------------------------------------------------
(* Every step of the writer preserves the invariant. *)
LEMMA SameCounts ==
  ASSUME total_read' = total_read, Published' = Published
  PROVE  \A r \in Readers : Consumed(r)' = Consumed(r) /\ Unread(r)' = Unread(r)
  BY DEF Consumed, Unread

(* write_info grants what is free and in one piece. *)
LEMMA WriteInfoStep == ASSUME IInv, Placed', WriteInfo PROVE IInv'
<1>0. /\ wpc = "idle" /\ wpc' = "work" /\ space' = SpaceAvailable
      /\ UNCHANGED <<mem, write_index, total_written, stored, produced, readerVars>>
  BY DEF WriteInfo
<1>1. Published' = Published
  BY <1>0 DEF Published
<1>2. \A r \in Readers : Consumed(r)' = Consumed(r) /\ Unread(r)' = Unread(r)
  BY <1>0, <1>1, SameCounts DEF readerVars
<1>3. IndexInv'
  BY <1>0, <1>1, <1>2 DEF IInv, IndexInv, readerVars
<1>4. WriteWindowInv'
  <2>1. SpaceAvailable < NumItems
    BY SpaceEnds DEF IInv, Placed
  <2>2. \A r \in Readers : Unread(r) + SpaceAvailable * ItemSize <= BufSize
    BY <1>0, SpaceIsFree DEF IInv, Placed
  <2>3. WriteWindow' = SpaceAvailable * ItemSize
    BY <1>0 DEF WriteWindow
  <2> QED
    BY <1>0, <1>2, <2>1, <2>2, <2>3 DEF IInv, WriteWindowInv
<1>5. ReadWindowInv' /\ SeenInv'
  BY <1>0, <1>1, <1>2 DEF IInv, ReadWindowInv, ReadWindow, Since, SeenInv, readerVars
<1>6. MemoryInv'
  <2>1. stored = 0
    BY <1>0 DEF IInv, Placed, WindowsPlaced
  <2> QED
    BY <1>0, <1>1, <1>2, <2>1 DEF IInv, MemoryInv
<1> QED
  BY <1>3, <1>4, <1>5, <1>6 DEF IInv

(* A writer short of space moves nothing, unless the readers go astray. *)
LEMMA OutputBlockedStep == ASSUME IInv, Placed', ~astray', OutputBlocked PROVE IInv'
<1>1. UNCHANGED <<mem, writerVars, readerVars>>
  BY DEF OutputBlocked, writerVars
<1> QED
  BY <1>1 DEF writerVars, readerVars, IInv, IndexInv, WriteWindowInv, WriteWindow,
     ReadWindowInv, ReadWindow, Since, MemoryInv, SeenInv, Published, Consumed, Unread

(* The writer's work call stores into its window. *)
LEMMA StoreByteStep == ASSUME IInv, Placed', StoreByte PROVE IInv'
<1> DEFINE position == write_index + stored
           byte == total_written * ItemSize + stored
<1>0. /\ wpc = "work" /\ stored < WriteWindow
      /\ mem' = [mem EXCEPT ![position] = byte]
      /\ stored' = stored + 1
      /\ UNCHANGED <<write_index, total_written, wpc, space, produced, readerVars>>
  BY DEF StoreByte, WriteWindow
<1>1. Published' = Published /\ Published = total_written * ItemSize
  BY <1>0 DEF Published, IInv, Placed, TypeOK
<1>2. \A r \in Readers : Consumed(r)' = Consumed(r) /\ Unread(r)' = Unread(r)
  BY <1>0, <1>1, SameCounts DEF readerVars
<1>3. /\ Published \in Nat /\ stored \in Nat /\ WriteWindow \in Nat
      /\ write_index \in Nat
      /\ \A r \in Readers : Consumed(r) \in Nat /\ Unread(r) \in Int
  BY CountTypes, SizeFacts, MulMono DEF IInv, Placed, TypeOK
<1>4. /\ write_index + WriteWindow <= BufSize
      /\ \A r \in Readers : Unread(r) + WriteWindow <= BufSize /\ 0 <= Unread(r)
      /\ write_index = Published % BufSize
  BY <1>0 DEF IInv, Placed, WindowsPlaced, WriteWindowInv, IndexInv
<1>5. position \in 0..(BufSize - 1) /\ byte \in Nat /\ byte = Published + stored
  BY <1>0, <1>1, <1>3, <1>4, SizeFacts
<1>7. IndexInv'
  BY <1>0, <1>1, <1>2 DEF IInv, IndexInv, readerVars
<1>8. WriteWindowInv'
  <2>1. WriteWindow' = WriteWindow
    BY <1>0 DEF WriteWindow
  <2> QED
    BY <1>0, <1>2, <1>4, <2>1 DEF IInv, WriteWindowInv
<1>9. ReadWindowInv' /\ SeenInv'
  BY <1>0, <1>1, <1>2 DEF IInv, ReadWindowInv, ReadWindow, Since, SeenInv, readerVars
<1>10. MemoryInv'
  <2>1. ASSUME NEW r \in Readers, NEW k \in Consumed(r)..(Published - 1)
        PROVE  mem'[k % BufSize] = k
    <3>1. mem[k % BufSize] = k
      BY DEF IInv, MemoryInv
    <3>2. k \in Nat /\ k <= byte /\ byte - k < BufSize /\ byte - k > 0
      BY <1>0, <1>3, <1>4, <1>5, SizeFacts DEF Unread
    <3>3. byte % BufSize = position
      <4>1. (Published + stored) % BufSize = position
        <5>1. (Published % BufSize) + stored <= BufSize /\ (Published % BufSize) + stored # BufSize
          <6> DEFINE w == Published % BufSize
          <6>1. w = write_index
            BY <1>4
          <6> HIDE DEF w
          <6> QED
            BY <6>1, <1>5, SizeFacts DEF w
        <5>2. (Published + stored) % BufSize
                = IF (Published % BufSize) + stored = BufSize THEN 0
                  ELSE (Published % BufSize) + stored
          <6>1. BufSize \in Nat \ {0}
            BY SizeFacts
          <6> QED
            BY ONLY <5>1, <6>1, <1>3, ModAdd
        <5>3. (Published + stored) % BufSize = (Published % BufSize) + stored
          BY <5>1, <5>2
        <5> QED
          BY ONLY <5>3, <1>4 DEF position
      <4> QED
        BY <4>1, <1>5
    <3>4. k % BufSize # position
      <4> HIDE DEF byte, position
      <4>0. k \in Nat /\ byte \in Nat /\ k <= byte /\ byte - k <= BufSize
        BY <3>2, <1>5, SizeFacts
      <4>1. (byte % BufSize) - (k % BufSize) \in {byte - k, byte - k - BufSize}
        BY ONLY <4>0, ModNear, SizeFacts
      <4>2. k % BufSize \in 0..(BufSize - 1)
        BY <3>2, Remainder, SizeFacts
      <4> QED
        BY <4>1, <4>2, <3>2, <3>3, <1>5, SizeFacts
    <3>5. k % BufSize \in 0..(BufSize - 1)
      BY <3>2, Remainder, SizeFacts
    <3> QED
      BY <1>0, <3>1, <3>4, <3>5 DEF IInv, Placed, TypeOK
  <2>2. ASSUME NEW k \in 0..(stored' - 1)
        PROVE  mem'[write_index + k] = total_written * ItemSize + k
    <3>1. CASE k = stored
      BY <3>1, <1>0, <1>5 DEF IInv, Placed, TypeOK
    <3>2. CASE k # stored
      <4>1. k \in 0..(stored - 1)
        BY <3>2, <1>0, <1>3
      <4>2. mem[write_index + k] = total_written * ItemSize + k
        BY <4>1, <1>0 DEF IInv, MemoryInv
      <4>3. write_index + k \in 0..(BufSize - 1) /\ write_index + k # position
        BY <4>1, <1>3, <1>5, SizeFacts
      <4> QED
        BY <4>2, <4>3, <1>0 DEF IInv, Placed, TypeOK
    <3> QED
      BY <3>1, <3>2
  <2> QED
    BY <2>1, <2>2, <1>0, <1>1, <1>2 DEF MemoryInv
<1> QED
  BY <1>7, <1>8, <1>9, <1>10 DEF IInv

(* Work has produced whole items. *)
LEMMA FinishWorkStep ==
  ASSUME IInv, Placed', NEW n \in 0..NumItems, FinishWork(n)
  PROVE  IInv'
<1>0. /\ wpc = "work" /\ wpc' = "post" /\ n * ItemSize <= stored /\ produced' = n
      /\ UNCHANGED <<mem, write_index, total_written, space, stored, readerVars>>
  BY DEF FinishWork
<1>1. Published' = Published
  BY <1>0 DEF Published
<1>2. \A r \in Readers : Consumed(r)' = Consumed(r) /\ Unread(r)' = Unread(r)
  BY <1>0, <1>1, SameCounts DEF readerVars
<1>3. WriteWindow' = WriteWindow
  BY <1>0 DEF WriteWindow
<1>4. n < NumItems
  <2>1. n \in Nat /\ space \in Nat /\ stored \in Nat /\ stored <= space * ItemSize
    BY <1>0, SizeFacts DEF IInv, Placed, TypeOK, WindowsPlaced, WriteWindow
  <2>2. n * ItemSize \in Nat /\ space * ItemSize \in Nat
    BY <2>1, SizeFacts, MulMono
  <2>3. n * ItemSize <= space * ItemSize
    BY <1>0, <2>1, <2>2
  <2>4. n <= space
    BY <2>1, <2>3, SizeFacts, MulCancel
  <2> QED
    BY <2>1, <2>4, SizeFacts DEF IInv, WriteWindowInv
<1>6. IndexInv'
  BY <1>0, <1>1, <1>2 DEF IInv, IndexInv, readerVars
<1>7. WriteWindowInv'
  BY <1>0, <1>2, <1>3, <1>4 DEF IInv, WriteWindowInv
<1>8. ReadWindowInv' /\ SeenInv'
  BY <1>0, <1>1, <1>2 DEF IInv, ReadWindowInv, ReadWindow, Since, SeenInv, readerVars
<1>9. MemoryInv'
  BY <1>0, <1>1, <1>2 DEF IInv, MemoryInv
<1> QED
  BY <1>6, <1>7, <1>8, <1>9 DEF IInv

(* An index that follows a running total, advanced with it. *)
LEMMA Advance ==
  ASSUME NEW x \in Nat, NEW n \in Nat, NEW i \in Nat, i = x % BufSize, i + n <= BufSize
  PROVE  /\ (x + n) % BufSize = Wrapped(i + n)
         /\ Wrapped(i + n) \in 0..(BufSize - 1)
<1>1. BufSize \in Nat \ {0}
  BY SizeFacts
<1>2. (x % BufSize) + n <= BufSize
  BY ONLY i = x % BufSize, i + n <= BufSize
<1>3. (x + n) % BufSize = IF (x % BufSize) + n = BufSize THEN 0 ELSE (x % BufSize) + n
  BY ONLY <1>1, <1>2, x \in Nat, n \in Nat, ModAdd
<1>4. (x + n) % BufSize = IF i + n = BufSize THEN 0 ELSE i + n
  BY ONLY <1>3, i = x % BufSize
<1>5. (IF i + n = BufSize THEN 0 ELSE i + n) \in 0..(BufSize - 1)
  BY <1>1
<1> QED
  BY <1>4, <1>5 DEF Wrapped

(* post_write moves the write index behind what was stored. *)
LEMMA PostWriteStep == ASSUME IInv, Placed', PostWrite PROVE IInv'
<1> DEFINE bytes == produced * ItemSize
<1>0. /\ wpc = "post" /\ wpc' = "count"
      /\ write_index' = Wrapped(write_index + bytes)
      /\ UNCHANGED <<mem, total_written, space, stored, produced, readerVars>>
  BY DEF PostWrite
<1>2. /\ total_written \in Nat /\ produced \in Nat /\ stored \in Nat /\ write_index \in Nat
      /\ space \in Nat
  BY SizeFacts DEF IInv, Placed, TypeOK
<1>3. /\ Published = total_written * ItemSize /\ Published \in Nat
      /\ \A r \in Readers : Consumed(r) \in Nat /\ Unread(r) \in Int
      /\ WriteWindow \in Nat
  <2>1. total_written + 0 = total_written
    BY <1>2
  <2> QED
    BY <1>0, <2>1, CountTypes DEF IInv, Placed, Published
<1>4. Published' = Published + bytes /\ bytes \in Nat
  <2>1. Published' = (total_written + produced) * ItemSize
    BY <1>0 DEF Published
  <2> QED
    BY <2>1, <1>2, <1>3, SizeFacts, MulAdd
<1>5. /\ bytes <= stored /\ stored <= WriteWindow
      /\ write_index + WriteWindow <= BufSize
      /\ \A r \in Readers : Unread(r) + WriteWindow <= BufSize /\ 0 <= Unread(r)
      /\ write_index = Published % BufSize
  BY <1>0 DEF IInv, Placed, WindowsPlaced, WriteWindowInv, IndexInv
<1> HIDE DEF bytes
<1>6. \A r \in Readers : Consumed(r)' = Consumed(r) /\ Unread(r)' = Unread(r) + bytes
  <2>1. \A r \in Readers : Consumed(r)' = Consumed(r)
    BY <1>0 DEF Consumed, readerVars
  <2> QED
    BY <2>1, <1>3, <1>4 DEF Unread
<1>7. write_index + bytes <= BufSize
  BY <1>2, <1>3, <1>4, <1>5, SizeFacts
<1>8. write_index' = Published' % BufSize /\ write_index' \in 0..(BufSize - 1)
  <2>1. /\ (Published + bytes) % BufSize = Wrapped(write_index + bytes)
        /\ Wrapped(write_index + bytes) \in 0..(BufSize - 1)
    BY <1>2, <1>3, <1>4, <1>5, <1>7, Advance
  <2> QED
    BY ONLY <2>1, <1>0, <1>4
<1>10. IndexInv'
  <2>1. \A r \in Readers : 0 <= Unread(r)' /\ Unread(r)' <= BufSize
    BY <1>2, <1>3, <1>4, <1>5, <1>6, SizeFacts
  <2> QED
    BY <1>0, <1>6, <1>8, <2>1 DEF IInv, IndexInv, readerVars
<1>11. WriteWindowInv'
  BY <1>0 DEF IInv, WriteWindowInv
<1>12. ReadWindowInv'
  <2> SUFFICES ASSUME NEW r \in Readers
               PROVE  /\ rpc'[r] = "look" => \E k \in Nat : Since(r, k)'
                      /\ rpc'[r] = "work" =>
                           ReadWindow(r)' <= Unread(r)' /\ Len(seen'[r]) <= ReadWindow(r)'
                      /\ rpc'[r] # "work" => seen'[r] = <<>>
    BY DEF ReadWindowInv
  <2>1. ReadWindow(r)' = ReadWindow(r) /\ ReadWindow(r) \in Nat
    BY <1>0, CountTypes DEF IInv, Placed, ReadWindow, readerVars
  <2>2. /\ rpc[r] = "look" => \E k \in Nat : Since(r, k)
        /\ rpc[r] = "work" => ReadWindow(r) <= Unread(r)
        /\ rpc[r] = "work" => Len(seen[r]) <= ReadWindow(r)
        /\ rpc[r] # "work" => seen[r] = <<>>
    BY DEF IInv, ReadWindowInv
  <2>3. ReadWindow(r) <= Unread(r) => ReadWindow(r) <= Unread(r) + bytes
    BY <2>1, <1>3, <1>4
  <2>4. ASSUME NEW k \in Nat, Since(r, k) PROVE Since(r, k)'
    <3>1. k <= Published => k <= Published + bytes
      BY <1>3, <1>4
    <3> QED
      BY <2>4, <3>1, <1>0, <1>4, <1>6 DEF Since, readerVars
  <2> QED
    BY <1>0, <1>6, <2>1, <2>2, <2>3, <2>4 DEF readerVars
<1>13. MemoryInv'
  <2>1. ASSUME NEW r \in Readers, NEW k \in Consumed(r)..(Published + bytes - 1)
        PROVE  mem[k % BufSize] = k
    <3>1. CASE k < Published
      <4>1. k \in Consumed(r)..(Published - 1)
        BY <3>1, <1>3, <1>4
      <4> QED
        BY <4>1 DEF IInv, MemoryInv
    <3>2. CASE k >= Published
      <4> DEFINE j == k - Published
      <4>1. j \in 0..(stored - 1) /\ k = Published + j
        BY <3>2, <1>2, <1>3, <1>4, <1>5
      <4>2. mem[write_index + j] = Published + j
        BY <4>1, <1>0, <1>3 DEF IInv, MemoryInv
      <4> HIDE DEF j
      <4>3. j \in Nat /\ write_index + j < BufSize
        BY <4>1, <1>2, <1>3, <1>5, SizeFacts
      <4>4. (Published + j) % BufSize = Wrapped(write_index + j)
        <5>1. write_index + j <= BufSize
          BY <4>3, <1>2, SizeFacts
        <5>2. Published \in Nat /\ write_index \in Nat /\ j \in Nat
          BY <4>3, <1>2, <1>3
        <5>3. write_index = Published % BufSize
          BY <1>5
        <5> QED
          BY ONLY <5>1, <5>2, <5>3, Advance
      <4>5. Wrapped(write_index + j) = write_index + j
        BY <4>3, <1>2, SizeFacts DEF Wrapped
      <4> QED
        BY ONLY <4>1, <4>2, <4>4, <4>5
    <3> QED
      BY <3>1, <3>2, <1>3, <1>4
  <2>2. wpc' # "work" /\ wpc' # "post" /\ mem' = mem
    BY <1>0
  <2>3. /\ \A r \in Readers : Consumed(r)' = Consumed(r)
        /\ Published' = Published + bytes
    BY <1>4, <1>6
  <2>4. ASSUME NEW r \in Readers, NEW k \in Consumed(r)'..(Published' - 1)
        PROVE  mem'[k % BufSize] = k
    <3>1. k \in Consumed(r)..(Published + bytes - 1)
      BY <2>3, <1>3, <1>4
    <3>2. mem[k % BufSize] = k
      BY <3>1, <2>1
    <3> QED
      BY ONLY <3>2, <2>2
  <2> QED
    BY <2>2, <2>4 DEF MemoryInv
<1>14. SeenInv'
  BY <1>0, <1>6 DEF IInv, SeenInv, readerVars
<1> QED
  BY <1>10, <1>11, <1>12, <1>13, <1>14 DEF IInv

(* ... and counts it. *)
LEMMA CountWrittenStep == ASSUME IInv, Placed', CountWritten PROVE IInv'
<1>0. /\ wpc = "count" /\ wpc' = "idle"
      /\ total_written' = total_written + produced
      /\ space' = 0 /\ stored' = 0 /\ produced' = 0
      /\ UNCHANGED <<mem, write_index, readerVars>>
  BY DEF CountWritten
<1>1. total_written \in Nat /\ produced \in Nat
  BY SizeFacts DEF IInv, Placed, TypeOK
<1>2. Published' = Published
  <2>1. Published = (total_written + produced) * ItemSize
    BY <1>0 DEF Published
  <2>2. Published' = (total_written + produced + 0) * ItemSize
    BY <1>0 DEF Published
  <2>3. total_written + produced + 0 = total_written + produced
    BY <1>1
  <2> QED
    BY ONLY <2>1, <2>2, <2>3
<1>3. \A r \in Readers : Consumed(r)' = Consumed(r) /\ Unread(r)' = Unread(r)
  BY <1>0, <1>2, SameCounts DEF readerVars
<1>5. IndexInv'
  BY <1>0, <1>2, <1>3 DEF IInv, IndexInv, readerVars
<1>6. WriteWindowInv'
  BY <1>0, SizeFacts DEF WriteWindowInv
<1>7. ReadWindowInv' /\ SeenInv'
  BY <1>0, <1>2, <1>3 DEF IInv, ReadWindowInv, ReadWindow, Since, SeenInv, readerVars
<1>8. MemoryInv'
  BY <1>0, <1>2, <1>3 DEF IInv, MemoryInv
<1> QED
  BY <1>5, <1>6, <1>7, <1>8 DEF IInv

-----------------------------------------------------------------------------
(* Every step of a reader preserves the invariant. *)

(* Steps that leave the memory, the writer and the totals alone. *)
LEMMA ReaderFrame ==
  ASSUME IInv, UNCHANGED <<mem, writerVars, read_index, total_read>>
  PROVE  /\ Published' = Published
         /\ \A r \in Readers : Consumed(r)' = Consumed(r) /\ Unread(r)' = Unread(r)
         /\ IndexInv' /\ WriteWindowInv' /\ MemoryInv'
<1>1. Published' = Published
  BY DEF Published, writerVars
<1>2. \A r \in Readers : Consumed(r)' = Consumed(r) /\ Unread(r)' = Unread(r)
  BY <1>1, SameCounts
<1>3. IndexInv'
  BY <1>1, <1>2 DEF IInv, IndexInv, writerVars
<1>4. WriteWindowInv'
  BY <1>2 DEF IInv, WriteWindowInv, WriteWindow, writerVars
<1>5. MemoryInv'
  BY <1>1, <1>2 DEF IInv, MemoryInv, writerVars
<1> QED
  BY <1>1, <1>2, <1>3, <1>4, <1>5

(* A reader looks at the write index. *)
LEMMA LoadWriteIndexStep ==
  ASSUME IInv, Placed', NEW r \in Readers, LoadWriteIndex(r)
  PROVE  IInv'
<1>0. /\ rpc[r] = "idle"
      /\ loaded' = [loaded EXCEPT ![r] = write_index]
      /\ rpc' = [rpc EXCEPT ![r] = "look"]
      /\ UNCHANGED <<mem, writerVars, read_index, total_read, granted, seen>>
  BY DEF LoadWriteIndex
<1>1. /\ Published' = Published
      /\ \A q \in Readers : Consumed(q)' = Consumed(q) /\ Unread(q)' = Unread(q)
      /\ IndexInv' /\ WriteWindowInv' /\ MemoryInv'
  BY <1>0, ReaderFrame
<1>2. ReadWindowInv'
  <2> SUFFICES ASSUME NEW q \in Readers
               PROVE  /\ rpc'[q] = "look" => \E k \in Nat : Since(q, k)'
                      /\ rpc'[q] = "work" =>
                           ReadWindow(q)' <= Unread(q)' /\ Len(seen'[q]) <= ReadWindow(q)'
                      /\ rpc'[q] # "work" => seen'[q] = <<>>
    BY DEF ReadWindowInv
  <2>1. CASE q = r
    <3>1. rpc'[r] = "look" /\ loaded'[r] = write_index /\ seen'[r] = <<>>
      BY <1>0 DEF IInv, Placed, TypeOK, ReadWindowInv
    <3>2. Published \in Nat /\ Consumed(r) <= Published
      BY CountTypes DEF IInv, Placed, IndexInv, Unread
    <3>3. Since(r, Published)'
      BY <3>1, <3>2, <1>1 DEF IInv, IndexInv, Since
    <3>4. \E k \in Nat : Since(r, k)'
      BY <3>2, <3>3, <1>1 DEF Since
    <3> QED
      BY <2>1, <3>1, <3>4
  <2>2. CASE q # r
    <3>1. rpc'[q] = rpc[q] /\ loaded'[q] = loaded[q]
      BY <1>0, <2>2 DEF IInv, Placed, TypeOK
    <3> QED
      BY <3>1, <1>0, <1>1 DEF IInv, ReadWindowInv, ReadWindow, Since
  <2> QED
    BY <2>1, <2>2
<1>3. SeenInv'
  BY <1>0, <1>1 DEF IInv, SeenInv
<1> QED
  BY <1>1, <1>2, <1>3 DEF IInv

(* read_info grants what is there and in one piece. *)
LEMMA ReadInfoStep ==
  ASSUME Uniform, IInv, Placed', NEW r \in Readers, ~astray', ReadInfo(r)
  PROVE  IInv'
<1> DEFINE items == ItemsAvailable(r, loaded[r])
           a == BytesAvailable(r, loaded[r])
           b == items * ItemSize
<1>0. /\ rpc[r] = "look" /\ ~Outdated(r)
      /\ granted' = [granted EXCEPT ![r] = items]
      /\ rpc' = [rpc EXCEPT ![r] = "work"]
      /\ UNCHANGED <<mem, writerVars, read_index, total_read, loaded, seen>>
  BY DEF ReadInfo
<1>1. /\ Published' = Published
      /\ \A q \in Readers : Consumed(q)' = Consumed(q) /\ Unread(q)' = Unread(q)
      /\ IndexInv' /\ WriteWindowInv' /\ MemoryInv'
  BY <1>0, ReaderFrame
<1>2. a <= Unread(r)
  <2>1. PICK k \in Nat : Since(r, k)
    BY <1>0 DEF IInv, ReadWindowInv
  <2> QED
    BY <1>0, <2>1, FoundIsUnread DEF IInv, Placed
<1>3. b \in Nat /\ b <= Unread(r)
  <2>1. loaded[r] \in 0..(BufSize - 1)
    BY DEF IInv, Placed, TypeOK
  <2>2. a \in 0..BufSize /\ b \in Nat /\ b <= a
    BY <2>1, FoundEnds DEF IInv, Placed
  <2>3. Unread(r) \in Int
    BY CountTypes DEF IInv, Placed
  <2> HIDE DEF a, b
  <2> QED
    BY <1>2, <2>2, <2>3, SizeFacts
<1> HIDE DEF items
<1>4. ReadWindowInv'
  <2> SUFFICES ASSUME NEW q \in Readers
               PROVE  /\ rpc'[q] = "look" => \E k \in Nat : Since(q, k)'
                      /\ rpc'[q] = "work" =>
                           ReadWindow(q)' <= Unread(q)' /\ Len(seen'[q]) <= ReadWindow(q)'
                      /\ rpc'[q] # "work" => seen'[q] = <<>>
    BY DEF ReadWindowInv
  <2>1. CASE q = r
    <3>1. granted'[r] = items /\ rpc'[r] = "work"
      BY <1>0 DEF IInv, Placed, TypeOK
    <3>2. ReadWindow(r)' = b
      BY <3>1 DEF ReadWindow
    <3>3. seen'[r] = <<>> /\ Len(<<>>) = 0
      BY <1>0 DEF IInv, ReadWindowInv
    <3> HIDE DEF b
    <3> QED
      BY <2>1, <1>1, <1>3, <3>1, <3>2, <3>3
  <2>2. CASE q # r
    <3>1. granted'[q] = granted[q] /\ rpc'[q] = rpc[q]
      BY <1>0, <2>2 DEF IInv, Placed, TypeOK
    <3> QED
      BY <3>1, <1>0, <1>1 DEF IInv, ReadWindowInv, ReadWindow, Since
  <2> QED
    BY <2>1, <2>2
<1>5. SeenInv'
  BY <1>0, <1>1 DEF IInv, SeenInv
<1> QED
  BY <1>1, <1>4, <1>5 DEF IInv

(* input_blocked_callback finds nothing to realign. *)
LEMMA InputBlockedStep ==
  ASSUME Uniform, IInv, Placed', NEW r \in Readers, InputBlocked(r)
  PROVE  IInv'
<1>0. /\ rpc[r] = "look"
      /\ rpc' = [rpc EXCEPT ![r] = "idle"]
      /\ UNCHANGED <<mem, writerVars, read_index, total_read, loaded, granted, seen>>
  BY NothingBehind DEF IInv
<1>1. /\ Published' = Published
      /\ \A q \in Readers : Consumed(q)' = Consumed(q) /\ Unread(q)' = Unread(q)
      /\ IndexInv' /\ WriteWindowInv' /\ MemoryInv'
  BY <1>0, ReaderFrame
<1>3. ReadWindowInv'
  <2> SUFFICES ASSUME NEW q \in Readers
               PROVE  /\ rpc'[q] = "look" => \E k \in Nat : Since(q, k)'
                      /\ rpc'[q] = "work" =>
                           ReadWindow(q)' <= Unread(q)' /\ Len(seen'[q]) <= ReadWindow(q)'
                      /\ rpc'[q] # "work" => seen'[q] = <<>>
    BY DEF ReadWindowInv
  <2>1. /\ rpc'[q] = "look" => rpc[q] = "look"
        /\ rpc'[q] = "work" => rpc[q] = "work"
        /\ rpc'[q] # "work" => rpc[q] # "work"
    BY <1>0 DEF IInv, Placed, TypeOK
  <2>2. \A k \in Nat : Since(q, k)' <=> Since(q, k)
    BY <1>0, <1>1 DEF Since
  <2>3. ReadWindow(q)' = ReadWindow(q)
    BY <1>0 DEF ReadWindow
  <2> QED
    BY <1>0, <1>1, <2>1, <2>2, <2>3 DEF IInv, ReadWindowInv
<1>4. SeenInv'
  BY <1>0, <1>1 DEF IInv, SeenInv
<1> QED
  BY <1>1, <1>3, <1>4 DEF IInv

(* The byte a work call looks at is the next one of the stream. *)
LEMMA NextByte ==
  ASSUME Uniform, IInv, NEW r \in Readers, LoadByte(r)
  PROVE  /\ mem[read_index[r] + Len(seen[r])] = Consumed(r) + Len(seen[r])
         /\ Consumed(r) + Len(seen[r]) \in Nat
         /\ Consumed(r) + Len(seen[r]) < Published
         /\ Len(seen[r]) < ReadWindow(r)
<1> DEFINE n == Len(seen[r])
<1>1. rpc[r] = "work" /\ n < granted[r] * ReaderItemSize[r] /\ read_index[r] + n < BufSize
  BY DEF LoadByte
<1>2. n \in Nat
  BY DEF IInv, Placed, TypeOK
<1> HIDE DEF n
<1>3. /\ Published \in Nat /\ Consumed(r) \in Nat /\ ReadWindow(r) \in Nat
      /\ read_index[r] \in Nat /\ Unread(r) = Published - Consumed(r)
  <2>1. TypeOK
    BY DEF IInv, Placed
  <2>2. Published \in Nat /\ Consumed(r) \in Nat /\ ReadWindow(r) \in Nat
    BY <2>1, CountTypes
  <2>3. read_index[r] \in Nat
    BY <2>1, SizeFacts DEF TypeOK
  <2> QED
    BY <2>2, <2>3 DEF Unread
<1>4. ReadWindow(r) <= Unread(r) /\ read_index[r] = Consumed(r) % BufSize
  BY <1>1 DEF IInv, ReadWindowInv, IndexInv
<1>5. n < ReadWindow(r)
  BY <1>1 DEF ReadWindow, Uniform
<1>6. Consumed(r) + n < Published
  BY <1>2, <1>3, <1>4, <1>5
<1>7. (Consumed(r) + n) % BufSize = read_index[r] + n
  <2>1. read_index[r] + n <= BufSize /\ read_index[r] + n # BufSize
    BY <1>1, <1>2, <1>3, SizeFacts
  <2>2. (Consumed(r) + n) % BufSize = Wrapped(read_index[r] + n)
    <3>1. read_index[r] + n <= BufSize
      BY <2>1
    <3>2. read_index[r] = Consumed(r) % BufSize
      BY <1>4
    <3>3. Consumed(r) \in Nat /\ n \in Nat /\ read_index[r] \in Nat
      BY <1>2, <1>3
    <3> QED
      BY ONLY <3>1, <3>2, <3>3, Advance
  <2> QED
    BY <2>1, <2>2 DEF Wrapped
<1>8. Consumed(r) + n \in Consumed(r)..(Published - 1)
  BY <1>2, <1>3, <1>6
<1>9. mem[(Consumed(r) + n) % BufSize] = Consumed(r) + n
  BY <1>8 DEF IInv, MemoryInv
<1> QED
  BY <1>2, <1>3, <1>5, <1>6, <1>7, <1>9 DEF n

(* The reader's work call looks at its window. *)
LEMMA LoadByteStep ==
  ASSUME Uniform, IInv, Placed', NEW r \in Readers, LoadByte(r)
  PROVE  IInv'
<1> DEFINE next == Consumed(r) + Len(seen[r])
<1>0. /\ rpc[r] = "work"
      /\ seen' = [seen EXCEPT ![r] = Append(seen[r], next)]
      /\ UNCHANGED <<mem, writerVars, read_index, total_read, rpc, loaded, granted>>
  BY NextByte DEF LoadByte
<1>1. /\ Published' = Published
      /\ \A q \in Readers : Consumed(q)' = Consumed(q) /\ Unread(q)' = Unread(q)
      /\ IndexInv' /\ WriteWindowInv' /\ MemoryInv'
  BY <1>0, ReaderFrame
<1>2. next \in Nat /\ Len(seen[r]) < ReadWindow(r) /\ ReadWindow(r) \in Nat
  BY NextByte, CountTypes DEF IInv, Placed
<1>3. seen[r] \in Seq(Nat \cup {-1}) /\ Consumed(r) \in Nat
  BY CountTypes DEF IInv, Placed, TypeOK
<1>4. /\ seen'[r] = Append(seen[r], next) /\ Len(seen'[r]) = Len(seen[r]) + 1
      /\ \A q \in Readers \ {r} : seen'[q] = seen[q]
  BY <1>0, <1>3 DEF IInv, Placed, TypeOK
<1>6. ReadWindowInv'
  <2> SUFFICES ASSUME NEW q \in Readers
               PROVE  /\ rpc'[q] = "look" => \E k \in Nat : Since(q, k)'
                      /\ rpc'[q] = "work" =>
                           ReadWindow(q)' <= Unread(q)' /\ Len(seen'[q]) <= ReadWindow(q)'
                      /\ rpc'[q] # "work" => seen'[q] = <<>>
    BY DEF ReadWindowInv
  <2>1. ReadWindow(q)' = ReadWindow(q)
    BY <1>0 DEF ReadWindow
  <2>2. CASE q = r
    BY <2>1, <2>2, <1>0, <1>1, <1>2, <1>3, <1>4 DEF IInv, ReadWindowInv
  <2>3. CASE q # r
    BY <2>1, <2>3, <1>0, <1>1, <1>4 DEF IInv, ReadWindowInv, Since
  <2> QED
    BY <2>2, <2>3
<1>7. SeenInv'
  <2> SUFFICES ASSUME NEW q \in Readers, NEW k \in 1..Len(seen'[q])
               PROVE  seen'[q][k] = Consumed(q) + k - 1
    BY <1>1 DEF SeenInv
  <2>1. CASE q = r
    <3>1. CASE k = Len(seen[r]) + 1
      BY <2>1, <3>1, <1>3, <1>4
    <3>2. CASE k # Len(seen[r]) + 1
      <4>1. k \in 1..Len(seen[r])
        BY <2>1, <3>2, <1>3, <1>4
      <4>2. seen[r][k] = Consumed(r) + k - 1
        BY <4>1 DEF IInv, SeenInv
      <4>3. seen'[r][k] = seen[r][k]
        BY <4>1, <1>3, <1>4
      <4> QED
        BY <2>1, <4>2, <4>3
    <3> QED
      BY <3>1, <3>2
  <2>2. CASE q # r
    <3>1. seen'[q] = seen[q]
      BY <2>2, <1>4
    <3> QED
      BY <3>1 DEF IInv, SeenInv
  <2> QED
    BY <2>1, <2>2
<1> QED
  BY <1>1, <1>6, <1>7 DEF IInv

(* What post_read adds to the total, in bytes. *)
LEMMA TakenBytes ==
  ASSUME Uniform, IInv, NEW r \in Readers, NEW n \in 0..BufSize, PostRead(r, n)
  PROVE  /\ n * ItemSize \in Nat
         /\ n * ItemSize <= Unread(r)
         /\ read_index[r] + n * ItemSize <= BufSize
         /\ Consumed(r)' = Consumed(r) + n * ItemSize
         /\ \A q \in Readers \ {r} : Consumed(q)' = Consumed(q)
         /\ Published' = Published
<1>1. /\ rpc[r] = "work" /\ n <= granted[r]
      /\ total_read' = [total_read EXCEPT ![r] = total_read[r] + n]
      /\ UNCHANGED writerVars
  BY DEF PostRead
<1>2. /\ n \in Nat /\ granted[r] \in Nat /\ total_read \in [Readers -> Nat]
      /\ read_index[r] \in Nat /\ ReadWindow(r) \in Nat /\ Unread(r) \in Int
  <2>1. n \in Nat /\ total_read \in [Readers -> Nat] /\ read_index[r] \in Nat
    BY SizeFacts DEF IInv, Placed, TypeOK
  <2>2. granted[r] \in Nat /\ ReadWindow(r) \in Nat /\ Unread(r) \in Int
    BY CountTypes DEF IInv, Placed
  <2> QED
    BY <2>1, <2>2
<1>3. n * ItemSize \in Nat /\ n * ItemSize <= ReadWindow(r)
  BY <1>1, <1>2, SizeFacts, MulMono DEF ReadWindow
<1>4. ReadWindow(r) <= Unread(r) /\ read_index[r] + ReadWindow(r) <= BufSize
  BY <1>1 DEF IInv, Placed, WindowsPlaced, ReadWindowInv
<1>5. Consumed(r)' = Consumed(r) + n * ItemSize
  <2>1. total_read'[r] = total_read[r] + n /\ total_read[r] \in Nat
    BY <1>1, <1>2
  <2>2. (total_read[r] + n) * ItemSize = total_read[r] * ItemSize + n * ItemSize
    BY <2>1, <1>2, SizeFacts, MulAdd
  <2> QED
    BY ONLY <2>1, <2>2 DEF Consumed
<1>6. \A q \in Readers \ {r} : Consumed(q)' = Consumed(q)
  BY <1>1, <1>2 DEF Consumed
<1>7. Published' = Published
  BY <1>1 DEF Published, writerVars
<1> DEFINE b == n * ItemSize
<1>8. b \in Nat /\ b <= ReadWindow(r)
  BY <1>3
<1> HIDE DEF b
<1>9. b <= Unread(r) /\ read_index[r] + b <= BufSize
  BY <1>2, <1>4, <1>8, SizeFacts
<1> QED
  BY <1>5, <1>6, <1>7, <1>8, <1>9 DEF b

(* post_read moves the read index behind what was read. *)
LEMMA PostReadStep ==
  ASSUME Uniform, IInv, Placed', NEW r \in Readers, NEW n \in 0..BufSize, PostRead(r, n)
  PROVE  IInv'
<1> DEFINE bytes == n * ItemSize
<1>0. /\ rpc[r] = "work"
      /\ read_index' = [read_index EXCEPT ![r] = Wrapped(read_index[r] + bytes)]
      /\ total_read' = [total_read EXCEPT ![r] = total_read[r] + n]
      /\ rpc' = [rpc EXCEPT ![r] = "idle"]
      /\ loaded' = [loaded EXCEPT ![r] = 0] /\ granted' = [granted EXCEPT ![r] = 0]
      /\ seen' = [seen EXCEPT ![r] = <<>>]
      /\ UNCHANGED <<mem, writerVars>>
  BY DEF PostRead, Uniform
<1>1. /\ bytes \in Nat /\ bytes <= Unread(r)
      /\ read_index[r] + bytes <= BufSize
      /\ Consumed(r)' = Consumed(r) + bytes
      /\ \A q \in Readers \ {r} : Consumed(q)' = Consumed(q)
      /\ Published' = Published
  BY TakenBytes
<1> HIDE DEF bytes
<1>2. /\ Published \in Nat /\ WriteWindow \in Nat
      /\ \A q \in Readers : Consumed(q) \in Nat /\ Unread(q) \in Int
  BY CountTypes DEF IInv, Placed
<1>3. \A q \in Readers : /\ Unread(q)' = IF q = r THEN Unread(r) - bytes ELSE Unread(q)
                         /\ 0 <= Unread(q)' /\ Unread(q)' <= Unread(q)
  <2> SUFFICES ASSUME NEW q \in Readers
               PROVE  /\ Unread(q)' = IF q = r THEN Unread(r) - bytes ELSE Unread(q)
                      /\ 0 <= Unread(q)' /\ Unread(q)' <= Unread(q)
    OBVIOUS
  <2>1. Unread(q)' = Published' - Consumed(q)' /\ Unread(q) = Published - Consumed(q)
    BY DEF Unread
  <2>2. 0 <= Unread(q)
    BY DEF IInv, IndexInv
  <2>3. CASE q = r
    BY <2>1, <2>3, <1>1, <1>2
  <2>4. CASE q # r
    BY <2>1, <2>2, <2>4, <1>1, <1>2
  <2> QED
    BY <2>3, <2>4
<1>4. read_index'[r] = Consumed(r)' % BufSize /\ read_index'[r] \in 0..(BufSize - 1)
  <2>1. read_index[r] \in Nat /\ read_index'[r] = Wrapped(read_index[r] + bytes)
    BY <1>0, SizeFacts DEF IInv, Placed, TypeOK
  <2>2. read_index[r] = Consumed(r) % BufSize
    BY DEF IInv, IndexInv
  <2>3. /\ (Consumed(r) + bytes) % BufSize = Wrapped(read_index[r] + bytes)
        /\ Wrapped(read_index[r] + bytes) \in 0..(BufSize - 1)
    <3>1. read_index[r] + bytes <= BufSize /\ bytes \in Nat /\ Consumed(r) \in Nat
      BY <1>1, <1>2
    <3> QED
      BY ONLY <3>1, <2>1, <2>2, Advance
  <2> QED
    BY ONLY <2>1, <2>3, <1>1
<1>6. IndexInv'
  <2>1. \A q \in Readers : read_index'[q] = Consumed(q)' % BufSize
    <3>1. \A q \in Readers \ {r} : read_index'[q] = read_index[q]
      BY <1>0 DEF IInv, Placed, TypeOK
    <3>2. \A q \in Readers : read_index[q] = Consumed(q) % BufSize
      BY DEF IInv, IndexInv
    <3> QED
      BY <1>1, <1>4, <3>1, <3>2
  <2>2. \A q \in Readers : 0 <= Unread(q)' /\ Unread(q)' <= BufSize
    <3> SUFFICES ASSUME NEW q \in Readers PROVE 0 <= Unread(q)' /\ Unread(q)' <= BufSize
      OBVIOUS
    <3>1. Unread(q) <= BufSize
      BY DEF IInv, IndexInv
    <3>2. Unread(q)' \in Int
      BY <1>1, <1>2, <1>3
    <3> QED
      BY <3>1, <3>2, <1>2, <1>3, SizeFacts
  <2>3. write_index' = Published' % BufSize
    BY <1>0, <1>1 DEF IInv, IndexInv, writerVars
  <2> QED
    BY <2>1, <2>2, <2>3 DEF IndexInv
<1>7. WriteWindowInv'
  <2>1. WriteWindow' = WriteWindow
    BY <1>0 DEF WriteWindow, writerVars
  <2>2. wpc \in {"work", "post"} => \A q \in Readers : Unread(q)' + WriteWindow' <= BufSize
    <3> SUFFICES ASSUME wpc \in {"work", "post"}, NEW q \in Readers
                 PROVE  Unread(q)' + WriteWindow' <= BufSize
      OBVIOUS
    <3>1. Unread(q) + WriteWindow <= BufSize
      BY DEF IInv, WriteWindowInv
    <3>2. Unread(q)' \in Int
      BY <1>1, <1>2, <1>3
    <3> QED
      BY <3>1, <3>2, <2>1, <1>2, <1>3, SizeFacts
  <2> QED
    BY <1>0, <2>1, <2>2 DEF IInv, WriteWindowInv, writerVars
<1>8. ReadWindowInv'
  <2> SUFFICES ASSUME NEW q \in Readers
               PROVE  /\ rpc'[q] = "look" => \E k \in Nat : Since(q, k)'
                      /\ rpc'[q] = "work" =>
                           ReadWindow(q)' <= Unread(q)' /\ Len(seen'[q]) <= ReadWindow(q)'
                      /\ rpc'[q] # "work" => seen'[q] = <<>>
    BY DEF ReadWindowInv
  <2>1. CASE q = r
    <3>1. rpc'[r] = "idle" /\ seen'[r] = <<>>
      BY <1>0 DEF IInv, Placed, TypeOK
    <3> QED
      BY <2>1, <3>1
  <2>2. CASE q # r
    <3>1. /\ rpc'[q] = rpc[q] /\ seen'[q] = seen[q] /\ granted'[q] = granted[q]
          /\ loaded'[q] = loaded[q] /\ read_index'[q] = read_index[q]
      BY <1>0, <2>2 DEF IInv, Placed, TypeOK
    <3>2. ReadWindow(q)' = ReadWindow(q) /\ Unread(q)' = Unread(q)
      BY <3>1, <2>2, <1>3 DEF ReadWindow
    <3> QED
      BY <3>1, <3>2, <2>2, <1>0, <1>1 DEF IInv, ReadWindowInv, Since, writerVars
  <2> QED
    BY <2>1, <2>2
<1>9. MemoryInv'
  <2>1. ASSUME NEW q \in Readers, NEW k \in Consumed(q)'..(Published' - 1)
        PROVE  mem'[k % BufSize] = k
    <3>1. Consumed(q) <= Consumed(q)' /\ Consumed(q)' \in Nat
      BY <1>1, <1>2
    <3>2. k \in Consumed(q)..(Published - 1)
      BY <3>1, <1>1, <1>2
    <3> QED
      BY <3>2, <1>0 DEF IInv, MemoryInv
  <2>2. wpc' \in {"work", "post"} =>
          \A k \in 0..(stored' - 1) : mem'[write_index' + k] = total_written' * ItemSize + k
    BY <1>0 DEF IInv, MemoryInv, writerVars
  <2> QED
    BY <2>1, <2>2 DEF MemoryInv
<1>10. SeenInv'
  <2> SUFFICES ASSUME NEW q \in Readers, NEW k \in 1..Len(seen'[q])
               PROVE  seen'[q][k] = Consumed(q)' + k - 1
    BY DEF SeenInv
  <2>1. q # r
    BY <1>0 DEF IInv, Placed, TypeOK
  <2>2. seen'[q] = seen[q] /\ Consumed(q)' = Consumed(q)
    BY <2>1, <1>0, <1>1 DEF IInv, Placed, TypeOK
  <2> QED
    BY <2>2 DEF IInv, SeenInv
<1> QED
  BY <1>6, <1>7, <1>8, <1>9, <1>10 DEF IInv

(* IInv is preserved by every step that leads no reader astray. *)
LEMMA NextIInv == ASSUME Uniform, IInv, Placed', ~astray', [Next]_vars PROVE IInv'
<1>1. CASE WriterNext
  BY <1>1, WriteInfoStep, OutputBlockedStep, StoreByteStep, FinishWorkStep,
     PostWriteStep, CountWrittenStep DEF WriterNext
<1>2. CASE \E r \in Readers : ReaderNext(r)
  BY <1>2, LoadWriteIndexStep, ReadInfoStep, InputBlockedStep, LoadByteStep,
     PostReadStep DEF ReaderNext
<1>3. CASE UNCHANGED vars
  BY <1>3 DEF vars, writerVars, readerVars, IInv, IndexInv, WriteWindowInv, WriteWindow,
     ReadWindowInv, ReadWindow, Since, MemoryInv, SeenInv, Published, Consumed, Unread
<1> QED
  BY <1>1, <1>2, <1>3 DEF Next

(* A reader that has gone astray stays so. *)
LEMMA AstrayStays == ASSUME Uniform, Placed, [Next]_vars, astray PROVE astray'
<1>1. CASE WriterNext
  BY <1>1 DEF WriterNext, WriteInfo, OutputBlocked, StoreByte, FinishWork, PostWrite,
     CountWritten
<1>2. CASE \E r \in Readers : ReaderNext(r)
  BY <1>2, NothingBehind DEF ReaderNext, LoadWriteIndex, ReadInfo, LoadByte, PostRead
<1>3. CASE UNCHANGED vars
  BY <1>3 DEF vars
<1> QED
  BY <1>1, <1>2, <1>3 DEF Next

(* The invariant holds throughout: until a reader goes astray the indices are
   the running totals wrapped at the end of the memory (write_info, post_write,
   read_info, post_read), and neither window is touched by the other side. *)
THEOREM InductiveInvariant == ASSUME Uniform PROVE Spec => []Inv
<1>1. Init => Inv
  BY InitPlaced, InitIInv DEF Inv
<1>2. Inv /\ [Next]_vars => Inv'
  <2> SUFFICES ASSUME Inv, [Next]_vars PROVE Inv'
    OBVIOUS
  <2>1. Placed /\ Placed'
    BY NextPlaced DEF Inv
  <2>2. CASE astray
    BY <2>1, <2>2, AstrayStays DEF Inv
  <2>3. CASE ~astray
    BY <2>1, <2>3, NextIInv DEF Inv
  <2> QED
    BY <2>2, <2>3
<1> QED
  BY <1>1, <1>2, PTL DEF Spec

(* The indices stay inside the memory whatever the work calls use of their
   windows (buffer_sm::post_write and buffer_sm_reader::post_read wrap only an
   index that is exactly at the end), those of a reader that has gone astray
   too. *)
THEOREM TypeCorrect == ASSUME Uniform PROVE Spec => []TypeOK
<1>1. Inv => TypeOK
  BY DEF Inv, Placed
<1> QED
  BY <1>1, InductiveInvariant, PTL

(* What input_blocked_callback is asked for is always in front of the end of
   the memory when the write index is behind the reader's, so that it moves
   nothing (adjust_buffer_data leaves the indices wrong where it does). *)
THEOREM NothingAdjusted == ASSUME Uniform PROVE Spec => NeverAdjusts
<1> DEFINE Kept == \A r \in Readers : rpc[r] = "look" /\ rpc'[r] = "idle" =>
                     UNCHANGED <<mem, write_index, read_index>>
<1>1. Inv /\ [Next]_vars => [Kept]_vars
  <2> SUFFICES ASSUME Inv, Next PROVE Kept
    BY DEF vars
  <2> SUFFICES ASSUME NEW r \in Readers, rpc[r] = "look", rpc'[r] = "idle"
               PROVE  UNCHANGED <<mem, write_index, read_index>>
    OBVIOUS
  <2>0. rpc \in [Readers -> {"idle", "look", "work"}]
    BY DEF Inv, Placed, TypeOK
  <2>1. ASSUME WriterNext PROVE FALSE
    BY <2>1 DEF WriterNext, WriteInfo, OutputBlocked, StoreByte, FinishWork, PostWrite,
       CountWritten, readerVars
  <2>2. ASSUME NEW q \in Readers, ReaderNext(q)
        PROVE  UNCHANGED <<mem, write_index, read_index>>
    <3>1. CASE InputBlocked(q)
      BY <3>1, NothingBehind DEF Inv, writerVars
    <3>2. CASE ~InputBlocked(q)
      <4>1. rpc'[r] # "idle"
        BY <2>0, <2>2, <3>2 DEF ReaderNext, LoadWriteIndex, ReadInfo, LoadByte, PostRead
      <4> QED
        BY <4>1
    <3> QED
      BY <3>1, <3>2
  <2> QED
    BY <2>1, <2>2 DEF Next
<1> QED
  BY <1>1, InductiveInvariant, PTL DEF Spec, NeverAdjusts

(* bytes_available, asked with an index loaded at any moment since the reader
   gave back its last bytes, takes more for readable than there is just when
   the writer has moved on from an index equal to the reader's. *)
THEOREM LooksAreSafe == ASSUME Uniform PROVE Spec => []LookIsSafe
<1>1. ASSUME IInv, NEW r \in Readers, rpc[r] = "look"
      PROVE  BytesAvailable(r, loaded[r]) <= Published - total_read[r] * ReaderItemSize[r]
               <=> ~Outdated(r)
  <2>1. PICK k \in Nat : Since(r, k)
    BY <1>1 DEF IInv, ReadWindowInv
  <2>2. Unread(r) = Published - total_read[r] * ReaderItemSize[r]
    BY DEF Unread, Consumed, Uniform
  <2> QED
    BY <1>1, <2>1, <2>2, FoundIsUnread DEF IInv, Placed
<1>2. Inv => LookIsSafe
  BY <1>1 DEF Inv, LookIsSafe
<1> QED
  BY <1>2, InductiveInvariant, PTL

(* A work call reads the next bytes of the stream, in place: no byte is
   overwritten before every reader has given it back, until a reader goes
   astray. *)
THEOREM Integrity == ASSUME Uniform PROVE Spec => []StreamIntegrity
<1>1. Inv => StreamIntegrity
  <2>1. \A r \in Readers : total_read[r] * ReaderItemSize[r] = Consumed(r)
    BY DEF Uniform, Consumed
  <2> QED
    BY <2>1 DEF Inv, IInv, SeenInv, StreamIntegrity
<1> QED
  BY <1>1, InductiveInvariant, PTL

-----------------------------------------------------------------------------
(* If the slowest reader is behind the end of the memory or a full memory away,
   it finds what is in front of the end; otherwise the writer does. *)
LEMMA SomeoneCanRun == ASSUME Uniform, IInv PROVE NotBothBlocked
<1> DEFINE s == Slowest
           f == AtLeastOne(MinFill)
           m == AtLeastOne(MinRead)
<1> SUFFICES ASSUME NumItems \div 2 >= f, wpc = "idle",
                    ~ (BufSize - write_index < f * ItemSize),
                    ~ (BufSize - read_index[s] < m * ItemSize)
             PROVE  SpaceAvailable >= f \/ ItemsAvailable(s, write_index) >= m
  BY SlowestIsLast DEF NotBothBlocked, CutOffAtTheEnd, IInv, Placed, Uniform
<1>1. s \in Readers
  BY SlowestIsLast DEF IInv, Placed
<1>2. f \in Nat /\ m \in Nat
  BY MaxWithOne, SmBounds
<1>3. f * ItemSize \in Nat /\ m * ItemSize \in Nat
  BY <1>2, SizeFacts, MulMono
<1>4. write_index \in 0..(BufSize - 1) /\ read_index[s] \in 0..(BufSize - 1)
  BY <1>1, Positions DEF IInv, Placed
<1>5. /\ f * ItemSize <= BufSize - write_index /\ BufSize - write_index \in Nat
      /\ m * ItemSize <= BufSize - read_index[s] /\ BufSize - read_index[s] \in Nat
  <2> DEFINE x == f * ItemSize
             y == m * ItemSize
  <2>1. x \in Nat /\ y \in Nat /\ ~ (BufSize - write_index < x)
        /\ ~ (BufSize - read_index[s] < y)
    BY <1>3
  <2> HIDE DEF x, y, s
  <2>2. x <= BufSize - write_index /\ y <= BufSize - read_index[s]
    BY <2>1, <1>4, SizeFacts
  <2> QED
    BY <2>2, <1>4, SizeFacts DEF x, y
<1>6. ASSUME BytesAvailable(s, write_index) = BufSize - read_index[s]
      PROVE  ItemsAvailable(s, write_index) >= m
  <2>1. ItemsAvailable(s, write_index) = (BufSize - read_index[s]) \div ItemSize
    BY <1>1, <1>6 DEF ItemsAvailable, Uniform
  <2> DEFINE x == BufSize - read_index[s]
  <2>2. x \in Nat /\ m * ItemSize <= x
    BY <1>5
  <2> HIDE DEF x, m
  <2>3. x \div ItemSize >= m
    BY <2>2, <1>2, SizeFacts, DivFits
  <2> QED
    BY <2>1, <2>3 DEF x
<1>7. CASE read_index[s] > write_index
  <2>1. write_index < read_index[s]
    BY <1>4, <1>7
  <2>2. BytesAvailable(s, write_index) = BufSize - read_index[s]
    BY <2>1 DEF BytesAvailable
  <2> QED
    BY <1>6, <2>2
<1>8. CASE read_index[s] = write_index /\ total_read[s] # total_written
  <2>1. total_read[s] < total_written
    BY <1>1, <1>8, EqualIndices, SizeFacts DEF IInv, Placed
  <2>2. BytesAvailable(s, write_index) = BufSize - read_index[s]
    BY <1>8, <2>1 DEF BytesAvailable
  <2> QED
    BY <1>6, <2>2
<1>9. CASE ~ (read_index[s] > write_index)
           /\ ~ (read_index[s] = write_index /\ total_read[s] # total_written)
  <2> DEFINE n == SpaceBytes \div ItemSize
             h == NumItems \div 2
  <2>1. SpaceBytes = BufSize - write_index
    BY <1>9 DEF SpaceBytes
  <2> HIDE DEF f
  <2>2. n \in Nat /\ n >= f
    BY <2>1, <1>2, <1>5, SizeFacts, DivBound, DivFits
  <2>3. h \in Nat /\ h >= f
    BY SizeFacts
  <2>4. SpaceAvailable = Min({n, h})
    BY DEF SpaceAvailable
  <2> HIDE DEF n, h
  <2>5. Min({n, h}) \in {n, h}
    BY <2>2, <2>3, MinPair
  <2>6. SpaceAvailable >= f
    BY <2>2, <2>3, <2>4, <2>5
  <2> QED
    BY <2>6
<1> QED
  BY <1>7, <1>8, <1>9

(* An edge is never stuck with its writer short of space and all its readers
   short of items, unless what one of them waits for does not fit in front of
   the end of the memory (space_available, items_available, min_buffer_fill,
   min_buffer_read). *)
THEOREM NeverBothBlocked == ASSUME Uniform PROVE Spec => []NotBothBlocked
<1>1. Inv => NotBothBlocked
  <2>1. astray => NotBothBlocked
    BY DEF NotBothBlocked
  <2> QED
    BY <2>1, SomeoneCanRun DEF Inv
<1> QED
  BY <1>1, InductiveInvariant, PTL

-----------------------------------------------------------------------------
(* The buffer is the abstract channel: post_write sends, a look at a byte sees
   it, post_read takes, and every other step leaves the channel as it is. *)
LEMMA ChannelQuiet ==
  ASSUME Published' = Published, total_read' = total_read, seen' = seen
  PROVE  UNCHANGED Channel!vars
  BY DEF Channel!vars

(* The initial state maps to that of the channel. *)
LEMMA ChannelInit == ASSUME Uniform, Init PROVE Channel!Init
<1>1. Published = 0
  BY SizeFacts DEF Init, Published
<1>2. \A r \in Readers : total_read[r] * ReaderItemSize[r] = 0
  BY SizeFacts DEF Init, Uniform
<1> QED
  BY <1>1, <1>2 DEF Init, Channel!Init

(* post_write sends what was produced. *)
LEMMA SendStep == ASSUME Uniform, IInv, Placed', PostWrite PROVE Channel!Next
<1> DEFINE bytes == produced * ItemSize
           taken == [r \in Readers |-> total_read[r] * ReaderItemSize[r]]
<1>1. /\ wpc = "post" /\ wpc' = "count"
      /\ UNCHANGED <<total_written, stored, produced, readerVars>>
  BY DEF PostWrite
<1>2. IInv'
  BY PostWriteStep
<1>3. /\ total_written \in Nat /\ produced \in Nat /\ stored \in Nat /\ space \in Nat
      /\ BufSize \in Nat
  BY SizeFacts DEF IInv, Placed, TypeOK
<1>4. Published' = Published + bytes /\ bytes \in Nat /\ Published \in Nat
  <2>1. Published' = (total_written + produced) * ItemSize
    BY <1>1 DEF Published
  <2>2. total_written + 0 = total_written
    BY <1>3
  <2>3. Published = total_written * ItemSize
    BY <1>1, <2>2 DEF Published
  <2> QED
    BY <2>1, <2>3, <1>3, SizeFacts, MulAdd
<1> HIDE DEF bytes
<1>5. ASSUME NEW r \in Readers
      PROVE  taken[r] = Consumed(r) /\ Consumed(r) \in Nat
             /\ Published + bytes - Consumed(r) <= BufSize /\ Consumed(r) <= Published
  <2>1. taken[r] = Consumed(r)
    BY DEF Uniform, Consumed
  <2>2. Consumed(r)' = Consumed(r)
    BY <1>1 DEF Consumed, readerVars
  <2>3. Unread(r)' <= BufSize
    BY <1>2 DEF IInv, IndexInv
  <2>4. 0 <= Unread(r) /\ Consumed(r) \in Nat
    BY CountTypes DEF IInv, Placed, IndexInv
  <2> HIDE DEF taken
  <2> QED
    BY <2>1, <2>2, <2>3, <2>4, <1>3, <1>4 DEF Unread
<1>6. bytes \in 0..BufSize
  <2>1. PICK r \in Readers : TRUE
    BY SmReaders
  <2> QED
    BY <1>3, <1>4, <1>5
<1>7. \A r \in Readers : Published + bytes - taken[r] <= BufSize
  <2> SUFFICES ASSUME NEW r \in Readers PROVE Published + bytes - taken[r] <= BufSize
    OBVIOUS
  <2>1. taken[r] = Consumed(r) /\ Published + bytes - Consumed(r) <= BufSize
    BY <1>5
  <2> HIDE DEF taken
  <2> QED
    BY <2>1
<1>8. taken' = taken /\ seen' = seen
  BY <1>1 DEF readerVars
<1>9. Channel!Send(bytes)
  BY <1>4, <1>7, <1>8 DEF Channel!Send
<1> QED
  BY <1>6, <1>9 DEF Channel!Next

(* A byte looked at is the next one of the stream. *)
LEMMA SeeStep ==
  ASSUME Uniform, IInv, Placed', NEW r \in Readers, LoadByte(r)
  PROVE  Channel!Next
<1> DEFINE taken == [q \in Readers |-> total_read[q] * ReaderItemSize[q]]
<1>1. /\ mem[read_index[r] + Len(seen[r])] = Consumed(r) + Len(seen[r])
      /\ Consumed(r) + Len(seen[r]) < Published
  BY NextByte
<1>2. taken[r] = Consumed(r)
  BY DEF Uniform, Consumed
<1>3. /\ seen' = [seen EXCEPT ![r] = Append(seen[r], Consumed(r) + Len(seen[r]))]
      /\ Published' = Published /\ taken' = taken
  BY <1>1 DEF LoadByte, Published, writerVars
<1>4. Channel!See(r)
  BY <1>1, <1>2, <1>3 DEF Channel!See
<1> QED
  BY <1>4 DEF Channel!Next

(* post_read takes what was consumed. *)
LEMMA TakeStep ==
  ASSUME Uniform, IInv, Placed', NEW r \in Readers, NEW n \in 0..BufSize, PostRead(r, n)
  PROVE  Channel!Next
<1> DEFINE bytes == n * ItemSize
           taken == [q \in Readers |-> total_read[q] * ReaderItemSize[q]]
<1>1. /\ bytes \in Nat /\ bytes <= Unread(r)
      /\ Consumed(r)' = Consumed(r) + bytes
      /\ \A q \in Readers \ {r} : Consumed(q)' = Consumed(q)
      /\ Published' = Published
  BY TakenBytes
<1>2. \A q \in Readers : taken[q] = Consumed(q) /\ taken'[q] = Consumed(q)'
  BY DEF Uniform, Consumed
<1> HIDE DEF bytes
<1>3. taken' = [taken EXCEPT ![r] = taken[r] + bytes]
  BY <1>1, <1>2
<1>4. seen' = [seen EXCEPT ![r] = <<>>]
  BY DEF PostRead
<1>5. Unread(r) <= BufSize /\ Unread(r) \in Int /\ BufSize \in Nat
  BY CountTypes, SizeFacts DEF IInv, Placed, IndexInv
<1>6. bytes \in 0..BufSize /\ bytes <= Published - taken[r]
  BY <1>1, <1>2, <1>5 DEF Unread
<1>7. Channel!Take(r, bytes)
  BY <1>1, <1>3, <1>4, <1>6 DEF Channel!Take
<1> QED
  BY <1>6, <1>7 DEF Channel!Next

(* Every step maps to a step of the channel or a stutter, until a reader goes
   astray. *)
LEMMA ChannelStep ==
  ASSUME Uniform, IInv, Placed', [Next]_vars
  PROVE  [Channel!Next]_Channel!vars
<1>1. ASSUME WriteInfo \/ StoreByte \/ \E n \in 0..NumItems : FinishWork(n)
      PROVE  UNCHANGED Channel!vars
  <2>1. Published' = Published /\ total_read' = total_read /\ seen' = seen
    BY <1>1 DEF WriteInfo, StoreByte, FinishWork, Published, readerVars
  <2> QED
    BY <2>1, ChannelQuiet
<1>2. ASSUME OutputBlocked PROVE UNCHANGED Channel!vars
  <2>1. Published' = Published /\ total_read' = total_read /\ seen' = seen
    BY <1>2 DEF OutputBlocked, Published, readerVars
  <2> QED
    BY <2>1, ChannelQuiet
<1>3. ASSUME CountWritten PROVE UNCHANGED Channel!vars
  <2>1. total_written \in Nat /\ produced \in Nat
    BY SizeFacts DEF IInv, Placed, TypeOK
  <2>2. total_written + produced + 0 = total_written + produced
    BY <2>1
  <2>3. Published' = Published /\ total_read' = total_read /\ seen' = seen
    BY <1>3, <2>2 DEF CountWritten, Published, readerVars
  <2> QED
    BY <2>3, ChannelQuiet
<1>4. ASSUME NEW r \in Readers, LoadWriteIndex(r) \/ ReadInfo(r) \/ InputBlocked(r)
      PROVE  UNCHANGED Channel!vars
  <2>1. total_read' = total_read /\ seen' = seen /\ total_written' = total_written
        /\ wpc' = wpc /\ produced' = produced
    BY <1>4 DEF LoadWriteIndex, ReadInfo, InputBlocked, writerVars
  <2> QED
    BY <2>1, ChannelQuiet DEF Published
<1>5. CASE UNCHANGED vars
  <2>1. Published' = Published /\ total_read' = total_read /\ seen' = seen
    BY <1>5 DEF vars, writerVars, readerVars, Published
  <2> QED
    BY <2>1, ChannelQuiet
<1>6. CASE WriterNext
  BY <1>1, <1>2, <1>3, <1>6, SendStep DEF WriterNext
<1>7. CASE \E r \in Readers : ReaderNext(r)
  BY <1>4, <1>7, SeeStep, TakeStep DEF ReaderNext
<1> QED
  BY <1>5, <1>6, <1>7 DEF Next

(* Until a reader goes astray, the buffer implements, with one memory and the
   whole of it used, the stream channel that the doubly mapped one does. *)
THEOREM Refinement == ASSUME Uniform PROVE Spec => ImplementsChannel
<1>1. Init => Channel!Init
  BY ChannelInit
<1>2. Inv /\ [Next]_vars => [astray \/ Channel!Next]_Channel!vars
  BY ChannelStep, NextPlaced DEF Inv
<1> QED
  BY <1>1, <1>2, InductiveInvariant, PTL DEF Spec, ImplementsChannel
=============================================================================
