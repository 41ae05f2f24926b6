-------------------------- MODULE CircBufferProofs --------------------------
(***************************************************************************)
(* Proofs about CircBuffer for every set of readers, every buffer and item *)
(* size, both ways of doubling the memory and both ways of storing the     *)
(* write index, with every interleaving of the threads.  The invariant is  *)
(* that of a buffer no thread has counted wrongly (IInv); all that is left *)
(* of it once one has been misled are the types.                           *)
(***************************************************************************)
EXTENDS CircBuffer, WellFoundedInduction, TLAPS

(* Bytes that reader r has still to give back. *)
Unread(r) == Published - Consumed(r)

(* The difference of the indices, before it is reduced modulo Word. *)
Distance(w, r) == IF w < r THEN w + BufSize - r ELSE w - r

(* The distance of the indices, each taken as it will be once it has been
   wrapped, is the number of unread bytes. *)
IndexInv ==
  \A r \in Readers :
    /\ 0 <= Unread(r)
    /\ Unread(r) <= BufSize - ItemSize
    /\ Distance(Wrapped(write_index), Wrapped(read_index[r])) = Unread(r)

(* What was granted to the writer's work call is still free ... *)
WriteWindowInv ==
  /\ wpc = "scan" => \A r \in Readers \ unscanned : Unread(r) <= n_available
  /\ wpc \in {"work", "copy", "index"} =>
       /\ \A r \in Readers : Unread(r) + wspace * ItemSize <= BufSize - ItemSize
       /\ wdone <= wspace * ItemSize
  /\ wpc \in {"copy", "index"} => wbytes <= wdone

(* ... and what was granted to a reader's is still there. *)
ReadWindow(r) == ravail[r] * ReaderItemSize[r]
ReadWindowInv ==
  \A r \in Readers :
    /\ rpc[r] \in {"work", "index"} =>
         ReadWindow(r) <= Unread(r) /\ Len(seen[r]) <= ReadWindow(r)
    /\ rpc[r] = "index" => rbytes[r] <= ReadWindow(r)
    /\ rpc[r] \in {"idle", "wrap"} => seen[r] = <<>>

(* Both addresses of ring position p hold byte b. *)
Holds(p, b) == mem[p] = b /\ mem[p + BufSize] = b

(* Unread bytes are in both halves; bytes being written are at least where
   work stored them, and in both halves before they are published. *)
MemoryInv ==
  /\ \A r \in Readers : \A k \in 0..(BufSize - 1) :
       k < Unread(r) =>
         Holds(Wrapped(Wrapped(read_index[r]) + k), Consumed(r) + k)
  /\ wpc \in {"work", "copy"} =>
       \A k \in 0..(BufSize - 1) : k < wdone =>
         mem[write_index + k] = total_written + k
  /\ (wpc = "work" /\ DoubleMapped) \/ wpc = "index" =>
       \A k \in 0..(BufSize - 1) :
         k < (IF wpc = "work" THEN wdone ELSE wbytes) =>
           Holds(Wrapped(write_index + k), total_written + k)
  /\ wpc = "copy" => ~DoubleMapped

SeenInv ==
  \A r \in Readers : \A k \in 1..Len(seen[r]) : seen[r][k] = total_read[r] + k - 1

(* The types and bounds of the variables in one predicate. *)
Tight ==
  /\ mem \in [0..(2 * BufSize - 1) -> Nat \cup {-1}]
  /\ write_index \in 0..(2 * BufSize - 1)
  /\ wpc # "wrap" => write_index < BufSize
  /\ total_written \in Nat
  /\ wpc \in {"idle", "scan", "work", "copy", "index", "wrap"}
  /\ unscanned \subseteq Readers
  /\ n_available \in 0..(BufSize - 1)
  /\ wspace \in 0..NumItems
  /\ wdone \in 0..BufSize
  /\ wbytes \in 0..BufSize
  /\ read_index \in [Readers -> 0..(2 * BufSize - 1)]
  /\ \A r \in Readers : rpc[r] # "wrap" => read_index[r] < BufSize
  /\ total_read \in [Readers -> Nat]
  /\ rpc \in [Readers -> {"idle", "work", "index", "wrap"}]
  /\ ravail \in [Readers -> 0..BufSize]
  /\ seen \in [Readers -> Seq(Nat)]
  /\ rbytes \in [Readers -> 0..BufSize]

(* What holds until a thread is misled ... *)
IInv ==
  /\ Tight
  /\ IndexInv
  /\ WriteWindowInv
  /\ ReadWindowInv
  /\ MemoryInv
  /\ SeenInv

(* ... and what holds always. *)
Inv == Types /\ (misled \/ IInv)

-----------------------------------------------------------------------------
(* Arithmetic on sizes, stated once so that the provers never meet a product
   of two variables elsewhere. *)

LEMMA MulMono ==
  ASSUME NEW a \in Nat, NEW b \in Nat, NEW d \in Nat, a <= b
  PROVE  a * d \in Nat /\ a * d <= b * d
  OBVIOUS

LEMMA DivBound ==
  ASSUME NEW x \in Nat, NEW d \in Nat \ {0}
  PROVE  x \div d \in Nat /\ (x \div d) * d <= x /\ x \div d <= x
  OBVIOUS

LEMMA ModSmall ==
  ASSUME NEW x \in Nat, NEW m \in Nat, x < m
  PROVE  x % m = x
  OBVIOUS

(* The whole buffer is a positive number of bytes, at least one item. *)
LEMMA BufSizeFacts ==
  /\ BufSize \in Nat \ {0}
  /\ ItemSize \in Nat \ {0}
  /\ ItemSize <= BufSize
  /\ Word \in Nat
  /\ 2 * BufSize < Word
  BY SizeAssumption, WordAssumption DEF BufSize

(* The space derived from a backlog leaves that backlog and one item free. *)
LEMMA SpaceFits ==
  ASSUME NEW backlog \in 0..(BufSize - 1)
  PROVE  /\ SpaceAvailable(backlog) \in 0..NumItems
         /\ SpaceAvailable(backlog) >= 1 =>
              backlog + SpaceAvailable(backlog) * ItemSize <= BufSize - ItemSize
<1> DEFINE free == BufSize - backlog
           items == free \div ItemSize
           space == SpaceAvailable(backlog)
<1>1. free \in Nat /\ free < Word
  BY BufSizeFacts
<1>2. free % Word = free
  BY <1>1, BufSizeFacts, ModSmall
<1>3. items \in Nat /\ items * ItemSize <= free
  BY <1>1, BufSizeFacts, DivBound
<1>4. space = MinOf(MaxOf(items - 1, 0), NumItems \div 2)
  BY <1>2 DEF SpaceAvailable
<1>5. NumItems \div 2 \in 0..NumItems
  BY SizeAssumption
<1>6. space \in 0..NumItems /\ (space >= 1 => space + 1 <= items)
  <2> HIDE DEF items, space
  <2> QED BY <1>3, <1>4, <1>5, SizeAssumption DEF MinOf, MaxOf
<1>7. space >= 1 => (space + 1) * ItemSize <= items * ItemSize
  <2> HIDE DEF items, space
  <2> QED BY <1>3, <1>6, MulMono, BufSizeFacts, SizeAssumption
<1>8. (space + 1) * ItemSize = space * ItemSize + ItemSize
  <2> HIDE DEF items, space
  <2> QED BY <1>6, BufSizeFacts, SizeAssumption
<1>9. space * ItemSize \in Nat /\ items * ItemSize \in Nat
  <2> HIDE DEF items, space
  <2> QED BY <1>3, <1>6, BufSizeFacts, SizeAssumption
<1> QED
  <2> DEFINE filled == space * ItemSize
             room == items * ItemSize
  <2> HIDE DEF items, space, filled, room
  <2>1. space >= 1 => filled + ItemSize <= room
    BY <1>7, <1>8 DEF filled, room
  <2>2. filled \in Nat /\ room \in Nat /\ room <= free
    BY <1>3, <1>9 DEF filled, room
  <2>3. space >= 1 => backlog + filled <= BufSize - ItemSize
    BY <2>1, <2>2, <1>1, BufSizeFacts
  <2> QED BY <1>6, <2>3 DEF filled, space

-----------------------------------------------------------------------------
(* The initial states satisfy the invariant. *)
LEMMA InitIInv == Init => IInv
<1> SUFFICES ASSUME Init PROVE IInv
  OBVIOUS
<1> USE BufSizeFacts DEF Init
<1>1. Tight
  BY SizeAssumption DEF Tight
<1>2. IndexInv
  BY DEF IndexInv, Unread, Published, Consumed, Distance, Wrapped
<1>3. WriteWindowInv /\ ReadWindowInv
  BY DEF WriteWindowInv, ReadWindowInv
<1>4. MemoryInv
  BY DEF MemoryInv, Unread, Published, Consumed
<1>5. SeenInv
  BY DEF SeenInv
<1> QED
  BY <1>1, <1>2, <1>3, <1>4, <1>5 DEF IInv

LEMMA WrappedRange ==
  ASSUME NEW i \in 0..(2 * BufSize - 1)
  PROVE  /\ Wrapped(i) \in 0..(BufSize - 1)
         /\ Wrapped(i) = i \/ Wrapped(i) = i - BufSize
         /\ i < BufSize => Wrapped(i) = i
         /\ i >= BufSize => Wrapped(i) = i - BufSize
  BY BufSizeFacts DEF Wrapped

(* Advancing a read index by no more than the distance shortens it by as much
   and renumbers the ring positions it leaves behind. *)
LEMMA ReadAdvance ==
  ASSUME NEW w \in 0..(BufSize - 1), NEW i \in 0..(BufSize - 1),
         NEW b \in 0..BufSize, b <= Distance(w, i)
  PROVE  /\ Distance(w, Wrapped(i + b)) = Distance(w, i) - b
         /\ \A k \in 0..(BufSize - 1) : k + b < BufSize =>
              Wrapped(Wrapped(i) + (k + b)) = Wrapped(Wrapped(i + b) + k)
<1>1. Distance(w, Wrapped(i + b)) = Distance(w, i) - b
  BY BufSizeFacts DEF Distance, Wrapped
<1>2. ASSUME NEW k \in 0..(BufSize - 1), k + b < BufSize
      PROVE  Wrapped(Wrapped(i) + (k + b)) = Wrapped(Wrapped(i + b) + k)
  BY <1>2, BufSizeFacts DEF Wrapped
<1> QED
  BY <1>1, <1>2

LEMMA ModNegative ==
  ASSUME NEW x \in Int, NEW m \in Nat, x < 0, 0 <= x + m
  PROVE  x % m = x + m
  OBVIOUS

LEMMA CountTypes ==
  ASSUME Tight
  PROVE  /\ Published \in Nat
         /\ \A r \in Readers : Consumed(r) \in Nat /\ Unread(r) \in Int
<1>1. Published \in Nat
  BY DEF Tight, Published
<1>2. \A r \in Readers : Consumed(r) \in Nat
  BY DEF Tight, Consumed
<1> QED
  BY <1>1, <1>2 DEF Unread

(* The difference of two indices that count from 0 to 2 * BufSize - 1, one of
   which may still have to be wrapped, is the distance of the wrapped ones if
   it is not off by a whole buffer. *)
LEMMA DifferenceOfIndices ==
  ASSUME NEW w \in 0..(2 * BufSize - 1), NEW i \in 0..(2 * BufSize - 1),
         NEW d \in 0..(BufSize - 1), Distance(Wrapped(w), Wrapped(i)) = d
  PROVE  /\ ~ (\/ i >= BufSize /\ w < i - BufSize
               \/ w >= BufSize /\ i <= w - BufSize) => Distance(w, i) = d
         /\ i >= BufSize /\ w < i - BufSize => Distance(w, i) = d - BufSize
         /\ w >= BufSize /\ i <= w - BufSize => Distance(w, i) = d + BufSize
  BY BufSizeFacts DEF Distance, Wrapped

(* bytes_available, modulo Word or not, is the number of unread bytes just if
   neither side has been overtaken in an advance. *)
LEMMA BytesAvailableIsUnread ==
  ASSUME IInv, NEW r \in Readers
  PROVE  /\ Unread(r) \in 0..(BufSize - 1)
         /\ BytesAvailable(write_index, read_index[r]) = Unread(r) <=> ~Overtaken(r)
<1> DEFINE w == write_index
           i == read_index[r]
           d == Unread(r)
<1>1. w \in 0..(2 * BufSize - 1) /\ i \in 0..(2 * BufSize - 1)
  BY DEF IInv, Tight
<1>2. d \in 0..(BufSize - 1) /\ Distance(Wrapped(w), Wrapped(i)) = d
  BY CountTypes, BufSizeFacts DEF IInv, IndexInv
<1>3. BytesAvailable(w, i) = Distance(w, i) % Word
  BY DEF BytesAvailable, Distance
<1>4. Overtaken(r) <=> \/ i >= BufSize /\ w < i - BufSize
                       \/ w >= BufSize /\ i <= w - BufSize
  BY DEF Overtaken
<1> HIDE DEF w, i, d
<1>5. CASE ~Overtaken(r)
  <2>1. Distance(w, i) = d
    BY <1>1, <1>2, <1>4, <1>5, DifferenceOfIndices
  <2>2. d % Word = d
    BY <1>2, ModSmall, BufSizeFacts
  <2> QED
    BY <1>2, <1>3, <1>5, <2>1, <2>2 DEF w, i, d
<1>6. CASE i >= BufSize /\ w < i - BufSize
  <2>1. Distance(w, i) = d - BufSize
    BY <1>1, <1>2, <1>6, DifferenceOfIndices
  <2>2. (d - BufSize) % Word = d - BufSize + Word
    BY <1>2, ModNegative, BufSizeFacts
  <2>3. d - BufSize + Word # d
    BY <1>2, BufSizeFacts
  <2> QED
    BY <1>2, <1>3, <1>4, <1>6, <2>1, <2>2, <2>3 DEF w, i, d
<1>7. CASE w >= BufSize /\ i <= w - BufSize
  <2>1. Distance(w, i) = d + BufSize
    BY <1>1, <1>2, <1>7, DifferenceOfIndices
  <2>2. (d + BufSize) % Word = d + BufSize
    BY <1>2, ModSmall, BufSizeFacts
  <2>3. d + BufSize # d
    BY <1>2, BufSizeFacts
  <2> QED
    BY <1>2, <1>3, <1>4, <1>7, <2>1, <2>2, <2>3 DEF w, i, d
<1> QED
  BY <1>4, <1>5, <1>6, <1>7

(* Outside an advance, an index is in the first half of the memory. *)
LEMMA IndexRange ==
  ASSUME IInv
  PROVE  /\ wpc # "wrap" => write_index \in 0..(BufSize - 1)
         /\ \A r \in Readers : rpc[r] # "wrap" => read_index[r] \in 0..(BufSize - 1)
<1>1. /\ write_index \in 0..(2 * BufSize - 1)
      /\ wpc # "wrap" => write_index < BufSize
      /\ \A r \in Readers : read_index[r] \in 0..(2 * BufSize - 1)
      /\ \A r \in Readers : rpc[r] # "wrap" => read_index[r] < BufSize
  BY DEF IInv, Tight
<1> QED
  BY <1>1, BufSizeFacts

(* The sizes of the windows in bytes are natural numbers. *)
LEMMA WindowBytes ==
  ASSUME Tight
  PROVE  /\ wspace * ItemSize \in Nat
         /\ \A r \in Readers : ReadWindow(r) \in Nat
<1>1. wspace \in Nat /\ ItemSize \in Nat
  BY SizeAssumption DEF Tight
<1>2. \A r \in Readers : ravail[r] \in Nat /\ ReaderItemSize[r] \in Nat
  BY SizeAssumption, BufSizeFacts DEF Tight
<1> QED
  BY <1>1, <1>2, MulMono DEF ReadWindow

(* A writer's step that takes no unread byte away keeps the readers' part of
   the invariant, a reader's step that adds none keeps the writer's part. *)
LEMMA ReadersKept ==
  ASSUME IInv, UNCHANGED readerVars,
         \A r \in Readers : Unread(r)' \in Int /\ Unread(r) <= Unread(r)'
  PROVE  ReadWindowInv' /\ SeenInv'
<1>1. \A r \in Readers : /\ Unread(r) \in Int
                          /\ ReadWindow(r) \in Nat /\ ReadWindow(r)' = ReadWindow(r)
  <2>1. \A r \in Readers : Unread(r) \in Int
    BY SMTT(30) DEF IInv, Tight, Unread, Published, Consumed
  <2>2. \A r \in Readers : ReadWindow(r) \in Nat
    BY WindowBytes DEF IInv
  <2>3. \A r \in Readers : ReadWindow(r)' = ReadWindow(r)
    BY DEF ReadWindow, readerVars
  <2> QED
    BY <2>1, <2>2, <2>3
<1>2. ReadWindowInv'
  <2>1. ASSUME NEW r \in Readers
        PROVE  /\ rpc'[r] \in {"work", "index"} =>
                    ReadWindow(r)' <= Unread(r)' /\ Len(seen'[r]) <= ReadWindow(r)'
               /\ rpc'[r] = "index" => rbytes'[r] <= ReadWindow(r)'
               /\ rpc'[r] \in {"idle", "wrap"} => seen'[r] = <<>>
    BY <1>1 DEF IInv, ReadWindowInv, readerVars
  <2> QED
    BY <2>1 DEF ReadWindowInv
<1>3. SeenInv'
  BY DEF IInv, SeenInv, readerVars
<1> QED
  BY <1>2, <1>3

LEMMA WriterKept ==
  ASSUME IInv, UNCHANGED <<mem, writerVars>>,
         \A r \in Readers : Unread(r)' \in Int /\ Unread(r)' <= Unread(r)
  PROVE  WriteWindowInv'
<1> DEFINE bytes == wspace * ItemSize
<1>1. bytes \in Nat /\ bytes' = bytes
  BY WindowBytes DEF IInv, writerVars
<1>2. \A r \in Readers : Unread(r) \in Int
  BY CountTypes DEF IInv
<1>3. WriteWindowInv <=>
        /\ wpc = "scan" => \A r \in Readers \ unscanned : Unread(r) <= n_available
        /\ wpc \in {"work", "copy", "index"} =>
             /\ \A r \in Readers : Unread(r) + bytes <= BufSize - ItemSize
             /\ wdone <= bytes
        /\ wpc \in {"copy", "index"} => wbytes <= wdone
  BY DEF WriteWindowInv
<1>4. WriteWindowInv' <=>
        /\ wpc = "scan" => \A r \in Readers \ unscanned : Unread(r)' <= n_available
        /\ wpc \in {"work", "copy", "index"} =>
             /\ \A r \in Readers : Unread(r)' + bytes <= BufSize - ItemSize
             /\ wdone <= bytes
        /\ wpc \in {"copy", "index"} => wbytes <= wdone
  BY <1>1 DEF WriteWindowInv, writerVars
<1>5. n_available \in Int
  BY DEF IInv, Tight
<1> HIDE DEF bytes
<1> QED
  BY <1>1, <1>2, <1>3, <1>4, <1>5, BufSizeFacts DEF IInv

(* The memory part, for a step that changes no index and no memory. *)
LEMMA MemoryKept ==
  ASSUME IInv, UNCHANGED <<mem, write_index, total_written, wpc, wdone, wbytes,
                           read_index>>,
         \A r \in Readers : Unread(r)' = Unread(r) /\ Consumed(r)' = Consumed(r)
  PROVE  MemoryInv'
  BY DEF IInv, MemoryInv, Holds, Wrapped

-----------------------------------------------------------------------------
(* Every step of the writer preserves the invariant. *)
LEMMA BeginWriteInfoStep == ASSUME IInv, BeginWriteInfo PROVE IInv'
<1> USE BufSizeFacts DEF BeginWriteInfo, readerVars
<1>0. /\ \A r \in Readers : Unread(r)' = Unread(r) /\ Consumed(r)' = Consumed(r)
      /\ \A r \in Readers : Unread(r) \in Int
  BY DEF Unread, Published, Consumed, IInv, Tight
<1>1. Tight'
  BY DEF IInv, Tight
<1>2. IndexInv'
  BY <1>0 DEF IInv, IndexInv, Distance, Wrapped
<1>3. WriteWindowInv'
  BY DEF WriteWindowInv
<1>4. ReadWindowInv' /\ SeenInv'
  BY <1>0, ReadersKept
<1>5. MemoryInv'
  BY <1>0 DEF IInv, MemoryInv, Holds, Wrapped
<1> QED
  BY <1>1, <1>2, <1>3, <1>4, <1>5 DEF IInv

LEMMA ScanReaderStep ==
  ASSUME IInv, NEW r \in Readers, ScanReader(r), ~misled' PROVE IInv'
<1> USE BufSizeFacts DEF ScanReader, readerVars
<1>a. ~Overtaken(r)
  BY Zenon DEF ScanReader
<1>0. /\ \A q \in Readers : Unread(q)' = Unread(q) /\ Consumed(q)' = Consumed(q)
      /\ \A q \in Readers : Unread(q) \in 0..(BufSize - 1)
      /\ n_available' = MaxOf(n_available, Unread(r))
      /\ n_available \in 0..(BufSize - 1)
  BY <1>a, BytesAvailableIsUnread DEF Unread, Published, Consumed, IInv, Tight
<1>1. Tight'
  BY <1>0 DEF IInv, Tight, MaxOf
<1>2. IndexInv'
  BY <1>0 DEF IInv, IndexInv, Distance, Wrapped
<1>3. WriteWindowInv'
  <2>1. \A q \in Readers \ unscanned : Unread(q) <= n_available
    BY DEF IInv, WriteWindowInv
  <2>2. \A q \in Readers \ unscanned' : q = r \/ q \notin unscanned
    OBVIOUS
  <2>3. \A q \in Readers \ unscanned' : Unread(q)' <= n_available'
    BY <1>0, <2>1, <2>2 DEF MaxOf
  <2> QED
    BY <2>3 DEF WriteWindowInv
<1>4. ReadWindowInv' /\ SeenInv'
  BY <1>0, ReadersKept
<1>5. MemoryInv'
  BY <1>0, MemoryKept
<1> QED
  BY <1>1, <1>2, <1>3, <1>4, <1>5 DEF IInv

LEMMA EndWriteInfoStep == ASSUME IInv, EndWriteInfo PROVE IInv'
<1> USE BufSizeFacts DEF EndWriteInfo, readerVars
<1>0. /\ \A r \in Readers : Unread(r)' = Unread(r) /\ Consumed(r)' = Consumed(r)
      /\ \A r \in Readers : Unread(r) \in Int
      /\ n_available \in 0..(BufSize - 1)
  BY DEF Unread, Published, Consumed, IInv, Tight
<1>a. /\ wspace' \in 0..NumItems
      /\ wspace' >= 1 => n_available + wspace' * ItemSize <= BufSize - ItemSize
  BY <1>0, SpaceFits
<1>b. /\ wdone' = 0 /\ wpc' \in {"idle", "work"}
      /\ wpc' = "work" => wspace' >= 1
  BY <1>a, SizeAssumption
<1>1. Tight'
  BY <1>a, <1>b DEF IInv, Tight
<1>2. IndexInv'
  BY <1>0, <1>b DEF IInv, IndexInv, Distance, Wrapped
<1>3. WriteWindowInv'
  <2> DEFINE bytes == wspace' * ItemSize
  <2>1. bytes \in Nat
    BY <1>a, SizeAssumption, MulMono
  <2>2. \A r \in Readers : Unread(r) <= n_available
    BY DEF IInv, WriteWindowInv
  <2>3. wpc' = "work" => n_available + bytes <= BufSize - ItemSize
    BY <1>a, <1>b
  <2>4. WriteWindowInv' <=>
          (wpc' = "work" =>
             /\ \A r \in Readers : Unread(r)' + bytes <= BufSize - ItemSize
             /\ wdone' <= bytes)
    BY <1>b DEF WriteWindowInv
  <2> HIDE DEF bytes, EndWriteInfo
  <2> QED
    BY <2>1, <2>2, <2>3, <2>4, <1>0, <1>b
<1>4. ReadWindowInv' /\ SeenInv'
  BY <1>0, ReadersKept
<1>5. MemoryInv'
  BY <1>0, <1>b DEF IInv, MemoryInv, Holds, Wrapped
<1> QED
  BY <1>1, <1>2, <1>3, <1>4, <1>5 DEF IInv

(* The window granted to the writer holds no unread byte of any reader. *)
LEMMA WindowMissesUnread ==
  ASSUME IInv, wpc \in {"work", "copy", "index"},
         NEW j \in Nat, j < wspace * ItemSize,
         NEW r \in Readers, NEW k \in 0..(BufSize - 1), k < Unread(r)
  PROVE  Wrapped(write_index + j) # Wrapped(Wrapped(read_index[r]) + k)
<1> DEFINE bytes == wspace * ItemSize
<1>1. bytes \in Nat /\ Unread(r) + bytes <= BufSize - ItemSize /\ j < bytes
  BY WindowBytes DEF IInv, WriteWindowInv
<1> HIDE DEF bytes
<1>2. /\ Distance(Wrapped(write_index), Wrapped(read_index[r])) = Unread(r)
      /\ Unread(r) \in Nat
  BY SMTT(30) DEF IInv, IndexInv, Tight, Unread, Published, Consumed
<1>3. /\ write_index \in 0..(BufSize - 1)
      /\ read_index[r] \in 0..(2 * BufSize - 1)
  <2>1. write_index \in 0..(BufSize - 1)
    BY IndexRange
  <2>2. read_index[r] \in 0..(2 * BufSize - 1)
    BY DEF IInv, Tight
  <2> QED
    BY <2>1, <2>2
<1> DEFINE q == Wrapped(read_index[r])
<1>4. /\ q \in 0..(BufSize - 1)
      /\ write_index - q = Unread(r) \/ write_index + BufSize - q = Unread(r)
  <2> HIDE DEF IInv
  <2> QED
    BY <1>2, <1>3, BufSizeFacts DEF Distance, Wrapped
<1> HIDE DEF q, IInv
<1> DEFINE x == write_index + j
           y == q + k
<1>5. x \in 0..(2 * BufSize - 1) /\ y \in 0..(2 * BufSize - 1)
  BY <1>1, <1>2, <1>3, <1>4, BufSizeFacts
<1>6. x # y /\ x # y + BufSize /\ x # y - BufSize
  BY <1>1, <1>2, <1>3, <1>4, BufSizeFacts
<1>8. Wrapped(y) = Wrapped(Wrapped(read_index[r]) + k)
  BY DEF q
<1> HIDE DEF x, y
<1>9. Wrapped(x) # Wrapped(y)
  BY <1>5, <1>6, BufSizeFacts DEF Wrapped
<1> QED
  BY <1>8, <1>9 DEF x

LEMMA WriteByteStep == ASSUME IInv, WriteByte PROVE IInv'
<1> DEFINE bytes == wspace * ItemSize
           a == write_index + wdone
           b == total_written + wdone
<1>0. /\ \A r \in Readers : Unread(r)' = Unread(r) /\ Consumed(r)' = Consumed(r)
      /\ \A r \in Readers : Unread(r) \in Int /\ Consumed(r) \in Nat
  BY SMTT(30) DEF Unread, Published, Consumed, IInv, Tight, WriteByte, readerVars
<1>1. /\ bytes \in Nat /\ wdone < bytes /\ wdone' = wdone + 1
      /\ \A r \in Readers : Unread(r) + bytes <= BufSize - ItemSize
  BY WindowBytes DEF IInv, WriteWindowInv, WriteByte
<1>2. bytes <= BufSize - ItemSize
  <2>1. PICK r \in Readers : TRUE
    BY ReadersAssumption
  <2>2. Unread(r) >= 0
    BY <2>1 DEF IInv, IndexInv
  <2> HIDE DEF bytes
  <2> QED
    BY <2>1, <2>2, <1>0, <1>1, BufSizeFacts
<1>3. /\ write_index \in 0..(BufSize - 1) /\ wdone \in Nat
      /\ total_written \in Nat /\ wpc = "work"
  <2>1. wpc = "work"
    BY DEF WriteByte
  <2>2. wdone \in Nat /\ total_written \in Nat
    BY DEF IInv, Tight
  <2> QED
    BY <2>1, <2>2, IndexRange
<1>4. a \in 0..(2 * BufSize - 1) /\ b \in Nat /\ Mirror(a) \in 0..(2 * BufSize - 1)
  <2> HIDE DEF bytes
  <2> QED
    BY <1>1, <1>2, <1>3, BufSizeFacts DEF Mirror
<1>5. /\ mem \in [0..(2 * BufSize - 1) -> Nat \cup {-1}]
      /\ mem' = IF DoubleMapped THEN [mem EXCEPT ![a] = b, ![Mirror(a)] = b]
                ELSE [mem EXCEPT ![a] = b]
  BY DEF IInv, Tight, WriteByte
<1>6. UNCHANGED <<write_index, total_written, wpc, unscanned, n_available,
                  wspace, wbytes, readerVars>>
  BY DEF WriteByte
<1> HIDE DEF bytes, a, b
<1>7. /\ mem' \in [0..(2 * BufSize - 1) -> Nat \cup {-1}]
      /\ \A x \in 0..(2 * BufSize - 1) : x \notin {a, Mirror(a)} => mem'[x] = mem[x]
      /\ mem'[a] = b
      /\ DoubleMapped => mem'[Mirror(a)] = b
  BY <1>4, <1>5
<1>8. \A p \in 0..(BufSize - 1) : p # Wrapped(a) =>
        /\ p \in 0..(2 * BufSize - 1) /\ p + BufSize \in 0..(2 * BufSize - 1)
        /\ p \notin {a, Mirror(a)} /\ p + BufSize \notin {a, Mirror(a)}
  BY <1>4, BufSizeFacts DEF Wrapped, Mirror
<1>9. \A p \in 0..(BufSize - 1), v \in Nat :
        p # Wrapped(a) /\ Holds(p, v) => Holds(p, v)'
  BY <1>7, <1>8 DEF Holds
<1>10. Tight'
  BY <1>1, <1>2, <1>3, <1>6, <1>7, BufSizeFacts DEF IInv, Tight, readerVars
<1>11. IndexInv'
  BY <1>0, <1>6 DEF IInv, IndexInv, Distance, Wrapped, readerVars
<1>12. WriteWindowInv'
  <2>1. bytes' = bytes
    BY <1>6 DEF bytes
  <2>2. WriteWindowInv' <=>
          /\ \A r \in Readers : Unread(r)' + bytes <= BufSize - ItemSize
          /\ wdone' <= bytes
    BY <1>3, <1>6, <2>1 DEF WriteWindowInv, bytes
  <2> QED
    BY <2>2, <1>0, <1>1, <1>3
<1>13. ReadWindowInv' /\ SeenInv'
  BY <1>0, <1>6, ReadersKept
<1>14. MemoryInv'
  <2>1. ASSUME NEW r \in Readers, NEW k \in 0..(BufSize - 1), k < Unread(r)
        PROVE  Holds(Wrapped(Wrapped(read_index[r]) + k), Consumed(r) + k)'
    <3> DEFINE p == Wrapped(Wrapped(read_index[r]) + k)
    <3>1. Wrapped(read_index[r]) \in 0..(BufSize - 1)
      BY WrappedRange DEF IInv, Tight
    <3>2. p \in 0..(BufSize - 1)
      BY <3>1, WrappedRange, BufSizeFacts
    <3>3. p # Wrapped(a)
      BY <1>1, <1>3, <2>1, WindowMissesUnread DEF a, bytes
    <3>4. Holds(p, Consumed(r) + k)
      BY <2>1 DEF IInv, MemoryInv
    <3>5. Consumed(r) + k \in Nat
      BY <1>0
    <3>6. read_index' = read_index /\ Consumed(r)' = Consumed(r)
      BY <1>0, <1>6 DEF readerVars
    <3> QED
      BY <3>2, <3>3, <3>4, <3>5, <3>6, <1>9 DEF Holds, Wrapped
  <2>2. ASSUME NEW k \in 0..(BufSize - 1), k < wdone + 1
        PROVE  mem'[write_index + k] = total_written + k
    <3>1. CASE k = wdone
      BY <3>1, <1>7 DEF a, b
    <3>2. CASE k < wdone
      <4>1. mem[write_index + k] = total_written + k
        BY <3>2, <1>3 DEF IInv, MemoryInv
      <4>2. write_index + k \in 0..(2 * BufSize - 1) /\ write_index + k \notin {a, Mirror(a)}
        BY <3>2, <1>1, <1>2, <1>3, BufSizeFacts DEF a, Mirror
      <4> QED
        BY <4>1, <4>2, <1>7
    <3> QED
      BY <2>2, <3>1, <3>2, <1>3
  <2>3. ASSUME DoubleMapped, NEW k \in 0..(BufSize - 1), k < wdone + 1
        PROVE  Holds(Wrapped(write_index + k), total_written + k)'
    <3>1. CASE k = wdone
      <4>1. mem'[Wrapped(a)] = b /\ mem'[Wrapped(a) + BufSize] = b
        BY <2>3, <1>4, <1>7, BufSizeFacts DEF Wrapped, Mirror
      <4> QED
        BY <3>1, <4>1, <1>6 DEF Holds, Wrapped, a, b
    <3>2. CASE k < wdone
      <4>1. Holds(Wrapped(write_index + k), total_written + k)
        BY <2>3, <3>2, <1>3 DEF IInv, MemoryInv
      <4>2. /\ Wrapped(write_index + k) \in 0..(BufSize - 1)
            /\ Wrapped(write_index + k) # Wrapped(a)
        BY <3>2, <1>1, <1>2, <1>3, BufSizeFacts DEF a, Wrapped
      <4>3. total_written + k \in Nat
        BY <1>3
      <4> QED
        BY <4>1, <4>2, <4>3, <1>6, <1>9 DEF Holds, Wrapped
    <3> QED
      BY <2>3, <3>1, <3>2, <1>3
  <2> QED
    BY <2>1, <2>2, <2>3, <1>0, <1>1, <1>3, <1>6 DEF MemoryInv, readerVars
<1> QED
  BY <1>10, <1>11, <1>12, <1>13, <1>14 DEF IInv

LEMMA FinishWorkStep ==
  ASSUME IInv, NEW n \in 0..NumItems, FinishWork(n) PROVE IInv'
<1> DEFINE bytes == n * ItemSize
<1>0. /\ bytes \in Nat /\ bytes <= wdone /\ wbytes' = bytes /\ wpc = "work"
      /\ wpc' = IF DoubleMapped THEN "index" ELSE "copy"
  BY SizeAssumption DEF FinishWork
<1>1. UNCHANGED <<mem, write_index, total_written, unscanned, n_available,
                  wspace, wdone, readerVars>>
  BY DEF FinishWork
<1> HIDE DEF bytes
<1>2. /\ \A r \in Readers : Unread(r)' = Unread(r) /\ Consumed(r)' = Consumed(r)
      /\ \A r \in Readers : Unread(r) \in Int
      /\ wdone \in 0..BufSize
  BY SMTT(30), <1>0, <1>1 DEF IInv, Tight, Unread, Published, Consumed, readerVars
<1>3. Tight'
  BY <1>0, <1>1, <1>2, BufSizeFacts DEF IInv, Tight, readerVars
<1>4. IndexInv'
  BY <1>0, <1>1, <1>2 DEF IInv, IndexInv, Distance, Wrapped, readerVars
<1>5. WriteWindowInv'
  BY <1>0, <1>1, <1>2 DEF IInv, WriteWindowInv
<1>6. ReadWindowInv' /\ SeenInv'
  BY <1>1, <1>2, ReadersKept
<1>7. MemoryInv'
  <2>1. \A r \in Readers : \A k \in 0..(BufSize - 1) :
          k < Unread(r)' =>
            Holds(Wrapped(Wrapped(read_index[r]) + k), Consumed(r) + k)'
    BY <1>1, <1>2 DEF IInv, MemoryInv, Holds, Wrapped, readerVars
  <2>2. \A k \in 0..(BufSize - 1) : k < wdone =>
           mem[write_index + k] = total_written + k
    BY <1>0 DEF IInv, MemoryInv
  <2>3. wpc' = "index" => \A k \in 0..(BufSize - 1) : k < bytes =>
           Holds(Wrapped(write_index + k), total_written + k)
    BY <1>0, <1>2 DEF IInv, MemoryInv
  <2>4. wpc' = "copy" => ~DoubleMapped
    BY <1>0
  <2> QED
    BY <2>1, <2>2, <2>3, <2>4, <1>0, <1>1, <1>2 DEF MemoryInv, Holds, Wrapped
<1> QED
  BY <1>3, <1>4, <1>5, <1>6, <1>7 DEF IInv

LEMMA CopyHalvesStep == ASSUME IInv, CopyHalves PROVE IInv'
<1> DEFINE bytes == wspace * ItemSize
           end == write_index + wbytes
           m1 == MinOf(BufSize - write_index, wbytes)
           copied == ((write_index + BufSize)..(write_index + BufSize + m1 - 1))
                       \cup (0..(wbytes - m1 - 1))
<1>0. /\ wpc = "copy" /\ wpc' = "index"
      /\ mem' = [x \in DOMAIN mem |-> IF x \in copied THEN mem[Mirror(x)] ELSE mem[x]]
      /\ UNCHANGED <<write_index, total_written, unscanned, n_available,
                     wspace, wdone, wbytes, readerVars>>
  BY DEF CopyHalves
<1>1. /\ \A r \in Readers : Unread(r)' = Unread(r) /\ Consumed(r)' = Consumed(r)
      /\ \A r \in Readers : Unread(r) \in Int /\ Consumed(r) \in Nat
  BY SMTT(30), <1>0 DEF IInv, Tight, Unread, Published, Consumed, readerVars
<1>2. /\ write_index \in 0..(BufSize - 1) /\ wdone \in 0..BufSize
      /\ wbytes \in 0..BufSize /\ total_written \in Nat
      /\ mem \in [0..(2 * BufSize - 1) -> Nat \cup {-1}]
  BY <1>0, IndexRange DEF IInv, Tight
<1>3. /\ bytes \in Nat /\ wbytes <= wdone /\ wdone <= bytes
      /\ \A r \in Readers : Unread(r) + bytes <= BufSize - ItemSize
  BY <1>0, WindowBytes DEF IInv, WriteWindowInv
<1> HIDE DEF bytes
<1>4. /\ m1 \in 0..BufSize /\ m1 <= wbytes
      /\ write_index + m1 <= BufSize
      /\ m1 < wbytes => write_index + m1 = BufSize
  BY <1>2, BufSizeFacts DEF MinOf
<1> HIDE DEF m1
<1>5. \A x \in 0..(2 * BufSize - 1) :
        x \in copied => Mirror(x) \in 0..(2 * BufSize - 1)
  BY <1>2, BufSizeFacts DEF Mirror
<1>6. Tight'
  BY <1>0, <1>2, <1>5 DEF IInv, Tight, readerVars
<1>7. IndexInv'
  BY <1>0, <1>1 DEF IInv, IndexInv, Distance, Wrapped, readerVars
<1>8. WriteWindowInv'
  BY <1>0, <1>1 DEF IInv, WriteWindowInv
<1>9. ReadWindowInv' /\ SeenInv'
  BY <1>0, <1>1, ReadersKept
<1>10. MemoryInv'
  <2>1. wbytes < BufSize
    <3>1. PICK r \in Readers : TRUE
      BY ReadersAssumption
    <3>2. Unread(r) >= 0
      BY <3>1 DEF IInv, IndexInv
    <3> QED
      BY <3>1, <3>2, <1>1, <1>2, <1>3, BufSizeFacts
  <2>2. \A x \in 0..(2 * BufSize - 1) :
          mem'[x] = IF x \in copied THEN mem[Mirror(x)] ELSE mem[x]
    BY <1>0, <1>2
  <2>3. ASSUME NEW r \in Readers, NEW k \in 0..(BufSize - 1), k < Unread(r)
        PROVE  Holds(Wrapped(Wrapped(read_index[r]) + k), Consumed(r) + k)'
    <3> DEFINE p == Wrapped(Wrapped(read_index[r]) + k)
    <3>1. Wrapped(read_index[r]) \in 0..(BufSize - 1)
      BY WrappedRange DEF IInv, Tight
    <3>2. p \in 0..(BufSize - 1)
      BY <3>1, WrappedRange, BufSizeFacts
    <3>3. \A j \in 0..BufSize : j < wbytes => Wrapped(write_index + j) # p
      <4> SUFFICES ASSUME NEW j \in 0..BufSize, j < wbytes
                   PROVE  Wrapped(write_index + j) # p
        OBVIOUS
      <4>1. j \in Nat /\ j < bytes
        BY <1>2, <1>3, BufSizeFacts
      <4> QED
        BY <4>1, <2>3, <1>0, WindowMissesUnread DEF bytes
    <3>4. Holds(p, Consumed(r) + k)
      BY <2>3 DEF IInv, MemoryInv
    <3>5. Wrapped(read_index[r])' = Wrapped(read_index[r]) /\ p' = p
          /\ Consumed(r)' = Consumed(r)
      BY <1>0, <1>1 DEF Wrapped, readerVars
    <3> HIDE DEF p
    <3>6. p \notin copied
      <4> SUFFICES ASSUME p \in copied PROVE FALSE
        OBVIOUS
      <4>1. /\ write_index + (m1 + p) = p + BufSize
            /\ m1 + p \in 0..BufSize /\ m1 + p < wbytes
        BY <3>2, <1>2, <1>4, BufSizeFacts
      <4> QED
        BY <4>1, <3>2, <3>3, BufSizeFacts DEF Wrapped
    <3>7. p + BufSize \notin copied
      <4> SUFFICES ASSUME p + BufSize \in copied PROVE FALSE
        OBVIOUS
      <4>1. /\ p - write_index \in 0..BufSize /\ p - write_index < wbytes
            /\ write_index + (p - write_index) = p
        BY <3>2, <1>2, <1>4, <2>1, BufSizeFacts
      <4> QED
        BY <4>1, <3>2, <3>3, BufSizeFacts DEF Wrapped
    <3>8. mem'[p] = mem[p] /\ mem'[p + BufSize] = mem[p + BufSize]
      BY <2>2, <3>2, <3>6, <3>7, BufSizeFacts
    <3> QED
      BY <3>4, <3>5, <3>8 DEF Holds, p
  <2>4. ASSUME NEW k \in 0..(BufSize - 1), k < wbytes
        PROVE  Holds(Wrapped(write_index + k), total_written + k)'
    <3> DEFINE p == Wrapped(write_index + k)
    <3>1. mem[write_index + k] = total_written + k
      BY <2>4, <1>0, <1>2, <1>3 DEF IInv, MemoryInv
    <3>2. CASE write_index + k < BufSize
      <4>1. p = write_index + k /\ k < m1
        BY <3>2, <2>4, <1>2, <1>4, BufSizeFacts DEF Wrapped
      <4>2. p \notin copied /\ p + BufSize \in copied
        BY <4>1, <3>2, <2>1, <2>4, <1>2, <1>4, BufSizeFacts
      <4>3. Mirror(p + BufSize) = p
        BY <4>1, <3>2, <1>2, BufSizeFacts DEF Mirror
      <4>4. p \in 0..(BufSize - 1)
        BY <4>1, <3>2, <2>4, <1>2, BufSizeFacts
      <4> HIDE DEF p
      <4>5. mem'[p] = mem[p] /\ mem'[p + BufSize] = mem[p]
        BY <4>2, <4>3, <4>4, <2>2, BufSizeFacts
      <4> QED
        BY <4>1, <4>5, <3>1, <1>0 DEF Holds, Wrapped, p
    <3>3. CASE write_index + k >= BufSize
      <4>1. p = write_index + k - BufSize /\ p + BufSize = write_index + k /\ m1 <= k
        BY <3>3, <2>4, <1>2, <1>4, BufSizeFacts DEF Wrapped
      <4>2. p \in copied /\ p + BufSize \notin copied
        BY <4>1, <3>3, <2>1, <2>4, <1>2, <1>4, BufSizeFacts
      <4>3. Mirror(p) = p + BufSize /\ p \in 0..(BufSize - 1)
        BY <4>1, <3>3, <2>4, <1>2, BufSizeFacts DEF Mirror
      <4> HIDE DEF p
      <4>4. mem'[p] = mem[p + BufSize] /\ mem'[p + BufSize] = mem[p + BufSize]
        BY <4>2, <4>3, <2>2, BufSizeFacts
      <4> QED
        BY <4>1, <4>4, <3>1, <1>0 DEF Holds, Wrapped, p
    <3> QED
      BY <3>2, <3>3, <1>2, BufSizeFacts
  <2> QED
    BY <2>3, <2>4, <1>0, <1>1 DEF MemoryInv
<1> QED
  BY <1>6, <1>7, <1>8, <1>9, <1>10 DEF IInv

LEMMA AdvanceWriteIndexStep ==
  ASSUME IInv, AdvanceWriteIndex PROVE IInv'
<1>0. /\ wpc = "index" /\ wpc' = "wrap"
      /\ write_index' \in {write_index + wbytes, Wrapped(write_index + wbytes)}
      /\ UNCHANGED <<mem, total_written, unscanned, n_available, wspace, wdone,
                     wbytes, readerVars>>
  BY DEF AdvanceWriteIndex, readerVars
<1>1. /\ wbytes \in 0..BufSize /\ wdone \in Nat
      /\ write_index \in 0..(BufSize - 1) /\ total_written \in Nat
      /\ \A r \in Readers : /\ read_index[r] \in 0..(2 * BufSize - 1)
                             /\ Wrapped(read_index[r]) \in 0..(BufSize - 1)
  BY <1>0, IndexRange, WrappedRange DEF IInv, Tight
<1>2. \A r \in Readers :
        /\ Unread(r) \in Nat /\ Unread(r) = total_written - Consumed(r)
        /\ Consumed(r) \in Nat /\ Consumed(r)' = Consumed(r)
        /\ Unread(r)' = Unread(r) + wbytes
  <2>1. \A r \in Readers : Unread(r) \in Nat /\ Consumed(r) \in Nat
    BY CountTypes DEF IInv, IndexInv
  <2>2. Published = total_written /\ Published' = total_written + wbytes
    BY <1>0, <1>1 DEF Published
  <2>3. \A r \in Readers : Consumed(r)' = Consumed(r)
    BY <1>0 DEF Consumed, readerVars
  <2> QED
    BY <2>1, <2>2, <2>3, <1>1 DEF Unread
<1>3. \A r \in Readers : Unread(r) + wbytes <= BufSize - ItemSize
  <2> DEFINE bytes == wspace * ItemSize
  <2>1. bytes \in Nat
    BY WindowBytes DEF IInv
  <2>2. /\ \A r \in Readers : Unread(r) + bytes <= BufSize - ItemSize
        /\ wbytes <= wdone /\ wdone <= bytes
    BY <1>0 DEF IInv, WriteWindowInv
  <2> HIDE DEF bytes
  <2> QED
    BY <2>1, <2>2, <1>1, <1>2, BufSizeFacts
<1>4. write_index + wbytes \in 0..(2 * BufSize - 1)
  BY <1>1, BufSizeFacts
<1>5. write_index' \in 0..(2 * BufSize - 1)
  BY <1>0, <1>4, WrappedRange, BufSizeFacts
<1>6. Tight'
  BY <1>0, <1>5 DEF IInv, Tight, readerVars
<1>7. IndexInv'
  <2>1. ASSUME NEW r \in Readers
        PROVE  Distance(Wrapped(write_index'), Wrapped(read_index[r])) = Unread(r) + wbytes
    <3>1. Distance(write_index, Wrapped(read_index[r])) = Unread(r)
      <4>1. Wrapped(write_index) = write_index
        BY <1>1, BufSizeFacts DEF Wrapped
      <4> QED
        BY <4>1 DEF IInv, IndexInv
    <3> QED
      BY <3>1, <1>0, <1>1, <1>2, <1>3, <1>4, BufSizeFacts DEF Distance, Wrapped
  <2>2. \A r \in Readers :
          /\ 0 <= Unread(r)' /\ Unread(r)' <= BufSize - ItemSize
          /\ Distance(Wrapped(write_index'), Wrapped(read_index'[r])) = Unread(r)'
    BY <2>1, <1>0, <1>1, <1>2, <1>3 DEF readerVars
  <2> QED
    BY <2>2, <1>0 DEF IndexInv, Distance, Wrapped
<1>8. WriteWindowInv'
  BY <1>0 DEF WriteWindowInv
<1>9. ReadWindowInv' /\ SeenInv'
  BY <1>0, <1>1, <1>2, ReadersKept
<1>10. MemoryInv'
  <2>1. ASSUME NEW r \in Readers, NEW k \in 0..(BufSize - 1), k < Unread(r) + wbytes
        PROVE  Holds(Wrapped(Wrapped(read_index[r]) + k), Consumed(r) + k)
    <3>1. CASE k < Unread(r)
      BY <2>1, <3>1 DEF IInv, MemoryInv
    <3>2. CASE k >= Unread(r)
      <4> DEFINE j == k - Unread(r)
                 q == Wrapped(read_index[r])
      <4>1. j \in 0..(BufSize - 1) /\ j < wbytes
        BY <2>1, <3>2, <1>1, <1>2, BufSizeFacts
      <4>2. Holds(Wrapped(write_index + j), total_written + j)
        BY <4>1, <1>0 DEF IInv, MemoryInv
      <4>3. q + Unread(r) = write_index \/ q + Unread(r) = write_index + BufSize
        BY <1>1, <1>2, BufSizeFacts DEF IInv, IndexInv, Distance, Wrapped
      <4>4. q \in 0..(BufSize - 1) /\ Wrapped(q) = q
        BY <1>1, BufSizeFacts DEF Wrapped
      <4>5. q + k <= q + BufSize - 1 /\ j + Unread(r) = k /\ j + Unread(r) < BufSize
        BY <2>1, <1>1, <1>2, <1>3, BufSizeFacts
      <4>6. Wrapped(q + k) = Wrapped(write_index + j)
        <5> HIDE DEF q, j
        <5> QED
          BY <4>1, <4>3, <4>4, <4>5, <1>1, <1>2, BufSizeFacts DEF Wrapped
      <4>7. Consumed(r) + k = total_written + j
        BY <1>1, <1>2, <2>1
      <4> QED
        BY <4>2, <4>4, <4>6, <4>7
    <3> QED
      BY <3>1, <3>2, <1>2
  <2> QED
    BY <2>1, <1>0, <1>2 DEF MemoryInv, Holds, Wrapped, readerVars
<1> QED
  BY <1>6, <1>7, <1>8, <1>9, <1>10 DEF IInv

LEMMA WrapWriteIndexStep == ASSUME IInv, WrapWriteIndex PROVE IInv'
<1>0. /\ wpc = "wrap" /\ wpc' = "idle" /\ wbytes' = 0 /\ wdone' = 0 /\ wspace' = 0
      /\ write_index' = Wrapped(write_index) /\ total_written' = total_written + wbytes
      /\ UNCHANGED <<mem, unscanned, n_available, readerVars>>
  BY DEF WrapWriteIndex
<1>1. /\ wbytes \in Nat /\ total_written \in Nat
      /\ write_index \in 0..(2 * BufSize - 1)
      /\ Wrapped(write_index) \in 0..(BufSize - 1)
  BY SMTT(30), <1>0, WrappedRange DEF IInv, Tight
<1>2. \A r \in Readers : /\ Consumed(r)' = Consumed(r) /\ Unread(r)' = Unread(r)
                          /\ Unread(r) \in Int
  BY <1>0, <1>1 DEF IInv, Tight, Unread, Published, Consumed, readerVars
<1>3. write_index' \in 0..(BufSize - 1)
  BY <1>0, <1>1, WrappedRange
<1>4. Tight'
  BY <1>0, <1>1, <1>3, SizeAssumption, BufSizeFacts DEF IInv, Tight, readerVars
<1>5. IndexInv'
  <2>1. ASSUME NEW r \in Readers
        PROVE  Distance(Wrapped(write_index'), Wrapped(read_index[r])) = Unread(r)
    <3>1. Wrapped(write_index') = Wrapped(write_index)
      BY <1>0, <1>1, BufSizeFacts DEF Wrapped
    <3> QED
      BY <3>1 DEF IInv, IndexInv
  <2> QED
    BY <2>1, <1>0, <1>1, <1>2 DEF IInv, IndexInv, Distance, Wrapped, readerVars
<1>6. WriteWindowInv'
  BY <1>0 DEF WriteWindowInv
<1>7. ReadWindowInv' /\ SeenInv'
  BY <1>0, <1>2, ReadersKept
<1>8. MemoryInv'
  BY <1>0, <1>2 DEF IInv, MemoryInv, Holds, Wrapped, readerVars
<1> QED
  BY <1>4, <1>5, <1>6, <1>7, <1>8 DEF IInv

-----------------------------------------------------------------------------
(* Every step of a reader preserves the invariant. *)
LEMMA ReadInfoStep ==
  ASSUME IInv, NEW r \in Readers, ReadInfo(r), ~misled' PROVE IInv'
<1> DEFINE items == ItemsAvailable(r)
<1>0. /\ rpc[r] = "idle" /\ rpc' = [rpc EXCEPT ![r] = "work"]
      /\ ravail' = [ravail EXCEPT ![r] = items]
      /\ UNCHANGED <<mem, writerVars, read_index, total_read, seen, rbytes>>
  BY DEF ReadInfo
<1>a. ~Overtaken(r)
  BY Zenon DEF ReadInfo
<1>1. items \in Nat /\ items * ReaderItemSize[r] <= Unread(r) /\ items <= BufSize
  <2>1. items = Unread(r) \div ReaderItemSize[r] /\ Unread(r) \in 0..(BufSize - 1)
    BY <1>a, BytesAvailableIsUnread DEF ItemsAvailable
  <2>2. ReaderItemSize[r] \in Nat \ {0}
    BY SizeAssumption
  <2> HIDE DEF items
  <2> QED
    BY <2>1, <2>2, DivBound, BufSizeFacts
<1> HIDE DEF items
<1>2. /\ \A q \in Readers : Unread(q)' = Unread(q) /\ Consumed(q)' = Consumed(q)
      /\ \A q \in Readers : Unread(q) \in Int
  <2>1. \A q \in Readers : rpc'[q] = "wrap" <=> rpc[q] = "wrap"
    BY <1>0 DEF IInv, Tight
  <2>2. Published' = Published /\ \A q \in Readers : Consumed(q)' = Consumed(q)
    BY <1>0, <2>1 DEF Published, Consumed, writerVars
  <2>3. \A q \in Readers : Unread(q) \in Int
    BY CountTypes DEF IInv
  <2> QED
    BY <2>2, <2>3 DEF Unread
<1>3. Tight'
  BY <1>0, <1>1, BufSizeFacts DEF IInv, Tight, writerVars
<1>4. IndexInv'
  BY <1>0, <1>2 DEF IInv, IndexInv, Tight, Distance, Wrapped, writerVars
<1>5. WriteWindowInv'
  BY <1>0, <1>2, WriterKept
<1>6. ReadWindowInv'
  <2>1. ReadWindow(r)' <= Unread(r) /\ ReadWindow(r)' \in Nat
    <3>1. ravail'[r] = items
      BY <1>0 DEF IInv, Tight
    <3>2. items * ReaderItemSize[r] \in Nat
      BY <1>1, SizeAssumption, MulMono
    <3> QED
      BY <3>1, <3>2, <1>1 DEF ReadWindow
  <2>2. seen'[r] = <<>> /\ rpc'[r] = "work"
    BY <1>0 DEF IInv, ReadWindowInv, Tight
  <2>3. \A q \in Readers \ {r} :
          ReadWindow(q)' = ReadWindow(q) /\ rpc'[q] = rpc[q] /\ seen'[q] = seen[q]
          /\ rbytes'[q] = rbytes[q]
    BY <1>0 DEF ReadWindow, IInv, Tight
  <2> QED
    BY <2>1, <2>2, <2>3, <1>2 DEF IInv, ReadWindowInv
<1>7. MemoryInv'
  BY <1>0, <1>2, MemoryKept DEF writerVars
<1>8. SeenInv'
  BY <1>0 DEF IInv, SeenInv
<1> QED
  BY <1>3, <1>4, <1>5, <1>6, <1>7, <1>8 DEF IInv

LEMMA ReadByteStep ==
  ASSUME IInv, NEW r \in Readers, ReadByte(r) PROVE IInv'
<1> DEFINE i == Len(seen[r])
           byte == mem[read_index[r] + i]
<1>0. /\ rpc[r] = "work" /\ i < ReadWindow(r)
      /\ seen' = [seen EXCEPT ![r] = Append(seen[r], byte)]
      /\ UNCHANGED <<mem, writerVars, read_index, total_read, rpc, ravail, rbytes>>
  BY DEF ReadByte, ReadWindow
<1>1. /\ \A q \in Readers : Unread(q)' = Unread(q) /\ Consumed(q)' = Consumed(q)
      /\ \A q \in Readers : Unread(q) \in Int
  <2>1. Published' = Published /\ \A q \in Readers : Consumed(q)' = Consumed(q)
    BY <1>0 DEF Published, Consumed, writerVars
  <2>2. \A q \in Readers : Unread(q) \in Int
    BY CountTypes DEF IInv
  <2> QED
    BY <2>1, <2>2 DEF Unread
<1>2. /\ seen[r] \in Seq(Nat) /\ i \in Nat
      /\ read_index[r] \in 0..(BufSize - 1)
      /\ total_read[r] \in Nat /\ Consumed(r) = total_read[r]
  BY SMTT(30), <1>0, IndexRange DEF IInv, Tight, Consumed
<1>3. i < Unread(r) /\ i \in 0..(BufSize - 1)
  <2>1. /\ ReadWindow(r) \in Nat /\ ReadWindow(r) <= Unread(r)
        /\ Unread(r) <= BufSize - ItemSize
    BY <1>0, WindowBytes DEF IInv, ReadWindowInv, IndexInv
  <2> QED
    BY <2>1, <1>0, <1>1, <1>2, BufSizeFacts
<1>4. byte = total_read[r] + i
  <2>1. Holds(Wrapped(Wrapped(read_index[r]) + i), Consumed(r) + i)
    BY <1>3 DEF IInv, MemoryInv
  <2>2. Wrapped(read_index[r]) = read_index[r]
    BY <1>2, BufSizeFacts DEF Wrapped
  <2>3. \/ Wrapped(read_index[r] + i) = read_index[r] + i
        \/ Wrapped(read_index[r] + i) + BufSize = read_index[r] + i
    BY <1>2, <1>3, BufSizeFacts DEF Wrapped
  <2> HIDE DEF i
  <2> QED
    BY <2>1, <2>2, <2>3, <1>2 DEF Holds
<1> HIDE DEF i, byte
<1>5. /\ seen' \in [Readers -> Seq(Nat)]
      /\ seen'[r] = Append(seen[r], byte) /\ Len(seen'[r]) = i + 1
      /\ \A q \in Readers \ {r} : seen'[q] = seen[q]
  <2>1. seen \in [Readers -> Seq(Nat)] /\ byte \in Nat
    BY <1>2, <1>4 DEF IInv, Tight
  <2>2. Append(seen[r], byte) \in Seq(Nat) /\ Len(Append(seen[r], byte)) = i + 1
    BY <2>1, <1>2 DEF i
  <2> QED
    BY <2>1, <2>2, <1>0
<1>6. Tight'
  BY <1>0, <1>5 DEF IInv, Tight, writerVars
<1>7. IndexInv'
  BY <1>0, <1>1 DEF IInv, IndexInv, Distance, Wrapped, writerVars
<1>8. WriteWindowInv'
  BY <1>0, <1>1, WriterKept
<1>9. ReadWindowInv'
  <2>1. \A q \in Readers : ReadWindow(q)' = ReadWindow(q) /\ ReadWindow(q) \in Nat
    BY <1>0, WindowBytes DEF ReadWindow, IInv
  <2>2. Len(seen'[r]) <= ReadWindow(r)
    BY <2>1, <1>0, <1>2, <1>5
  <2> QED
    BY <2>1, <2>2, <1>0, <1>1, <1>5 DEF IInv, ReadWindowInv
<1>10. MemoryInv'
  BY <1>0, <1>1, MemoryKept DEF writerVars
<1>11. SeenInv'
  <2>1. ASSUME NEW k \in 1..Len(seen'[r]) PROVE seen'[r][k] = total_read[r] + k - 1
    <3>1. CASE k = i + 1
      BY <3>1, <1>2, <1>4, <1>5 DEF i
    <3>2. CASE k # i + 1
      BY <3>2, <1>2, <1>5 DEF i, IInv, SeenInv
    <3> QED
      BY <3>1, <3>2
  <2> QED
    BY <2>1, <1>0, <1>5 DEF IInv, SeenInv
<1> QED
  BY <1>6, <1>7, <1>8, <1>9, <1>10, <1>11 DEF IInv

LEMMA FinishReadStep ==
  ASSUME IInv, NEW r \in Readers, NEW n \in 0..BufSize, FinishRead(r, n) PROVE IInv'
<1> DEFINE bytes == n * ReaderItemSize[r]
<1>0. /\ rpc[r] = "work" /\ n <= ravail[r]
      /\ rbytes' = [rbytes EXCEPT ![r] = bytes]
      /\ rpc' = [rpc EXCEPT ![r] = "index"]
      /\ UNCHANGED <<mem, writerVars, read_index, total_read, ravail, seen>>
  BY DEF FinishRead
<1>1. bytes \in Nat /\ bytes <= ReadWindow(r)
  <2>1. n \in Nat /\ ravail[r] \in Nat /\ ReaderItemSize[r] \in Nat
    BY SizeAssumption, BufSizeFacts DEF IInv, Tight
  <2> QED
    BY <2>1, <1>0, MulMono DEF ReadWindow
<1> HIDE DEF bytes
<1>2. /\ \A q \in Readers : Unread(q)' = Unread(q) /\ Consumed(q)' = Consumed(q)
      /\ \A q \in Readers : Unread(q) \in Int
  <2>1. \A q \in Readers : rpc'[q] = "wrap" <=> rpc[q] = "wrap"
    BY <1>0 DEF IInv, Tight
  <2>2. Published' = Published /\ \A q \in Readers : Consumed(q)' = Consumed(q)
    <3>1. \A q \in Readers : rpc[q] = "wrap" => q # r
      BY <1>0
    <3> QED
      BY <1>0, <2>1, <3>1 DEF IInv, Tight, Published, Consumed, writerVars
  <2>3. \A q \in Readers : Unread(q) \in Int
    BY CountTypes DEF IInv
  <2> QED
    BY <2>2, <2>3 DEF Unread
<1>3. bytes \in 0..BufSize
  <2>1. ReadWindow(r) \in Nat /\ ReadWindow(r) <= BufSize - ItemSize
    BY <1>0, <1>2, WindowBytes, BufSizeFacts DEF IInv, ReadWindowInv, IndexInv
  <2> QED
    BY <2>1, <1>1, BufSizeFacts
<1>4. Tight'
  BY <1>0, <1>3 DEF IInv, Tight, writerVars
<1>5. IndexInv'
  BY <1>0, <1>2 DEF IInv, IndexInv, Tight, Distance, Wrapped, writerVars
<1>6. WriteWindowInv'
  BY <1>0, <1>2, WriterKept
<1>7. ReadWindowInv'
  <2>1. \A q \in Readers : ReadWindow(q)' = ReadWindow(q)
    BY <1>0 DEF ReadWindow
  <2>2. rbytes'[r] = bytes /\ rpc'[r] = "index"
    BY <1>0 DEF IInv, Tight
  <2>3. \A q \in Readers \ {r} : rpc'[q] = rpc[q] /\ rbytes'[q] = rbytes[q]
    BY <1>0 DEF IInv, Tight
  <2> QED
    BY <2>1, <2>2, <2>3, <1>0, <1>1, <1>2 DEF IInv, ReadWindowInv
<1>8. MemoryInv'
  BY <1>0, <1>2, MemoryKept DEF writerVars
<1>9. SeenInv'
  BY <1>0 DEF IInv, SeenInv
<1> QED
  BY <1>4, <1>5, <1>6, <1>7, <1>8, <1>9 DEF IInv

LEMMA AdvanceReadIndexStep ==
  ASSUME IInv, NEW r \in Readers, AdvanceReadIndex(r) PROVE IInv'
<1>0. /\ rpc[r] = "index"
      /\ read_index' = [read_index EXCEPT ![r] = @ + rbytes[r]]
      /\ rpc' = [rpc EXCEPT ![r] = "wrap"]
      /\ seen' = [seen EXCEPT ![r] = <<>>]
      /\ UNCHANGED <<mem, writerVars, total_read, ravail, rbytes>>
  BY DEF AdvanceReadIndex
<1>1. /\ rbytes[r] \in 0..BufSize /\ rbytes[r] <= Unread(r)
      /\ Wrapped(write_index) \in 0..(BufSize - 1)
      /\ read_index[r] \in 0..(BufSize - 1) /\ Wrapped(read_index[r]) = read_index[r]
      /\ Unread(r) \in Nat /\ Consumed(r) = total_read[r] /\ total_read[r] \in Nat
  <2>1. rbytes[r] \in 0..BufSize /\ total_read[r] \in Nat
    BY DEF IInv, Tight
  <2>2. /\ Wrapped(write_index) \in 0..(BufSize - 1)
        /\ read_index[r] \in 0..(BufSize - 1) /\ Wrapped(read_index[r]) = read_index[r]
    BY <1>0, IndexRange, WrappedRange, BufSizeFacts DEF IInv, Tight, Wrapped
  <2>3. Unread(r) \in Nat /\ ReadWindow(r) \in Nat
    BY CountTypes, WindowBytes DEF IInv, IndexInv
  <2>4. rbytes[r] <= ReadWindow(r) /\ ReadWindow(r) <= Unread(r)
    BY <1>0 DEF IInv, ReadWindowInv
  <2>5. Consumed(r) = total_read[r]
    BY <1>0, <2>1 DEF Consumed
  <2> QED
    BY <2>1, <2>2, <2>3, <2>4, <2>5, BufSizeFacts
<1>2. /\ rpc'[r] = "wrap" /\ seen'[r] = <<>>
      /\ read_index'[r] = read_index[r] + rbytes[r]
      /\ \A q \in Readers \ {r} :
           rpc'[q] = rpc[q] /\ read_index'[q] = read_index[q] /\ seen'[q] = seen[q]
  BY <1>0 DEF IInv, Tight
<1>3. /\ Consumed(r)' = Consumed(r) + rbytes[r]
      /\ Unread(r)' = Unread(r) - rbytes[r]
      /\ \A q \in Readers \ {r} : Unread(q)' = Unread(q) /\ Consumed(q)' = Consumed(q)
      /\ \A q \in Readers : Unread(q) \in Int /\ Consumed(q) \in Nat
  <2>1. Published' = Published /\ Published \in Nat
    BY <1>0, CountTypes DEF Published, writerVars, IInv
  <2>2. Consumed(r)' = Consumed(r) + rbytes[r]
    BY <1>0, <1>1, <1>2 DEF Consumed
  <2>3. \A q \in Readers \ {r} : Consumed(q)' = Consumed(q)
    BY <1>0, <1>2 DEF Consumed
  <2>4. \A q \in Readers : Unread(q) \in Int /\ Consumed(q) \in Nat
    BY CountTypes DEF IInv
  <2> QED
    BY <2>1, <2>2, <2>3, <2>4, <1>1 DEF Unread
<1>4. Tight'
  <2>1. read_index'[r] \in 0..(2 * BufSize - 1)
    BY <1>1, <1>2, BufSizeFacts
  <2> QED
    BY SMTT(30), <2>1, <1>0, <1>2 DEF IInv, Tight, writerVars
<1>5. IndexInv'
  <2>1. Distance(Wrapped(write_index), Wrapped(read_index'[r])) = Unread(r)'
    <3>1. Distance(Wrapped(write_index), read_index[r]) = Unread(r)
          /\ Unread(r) <= BufSize - ItemSize
      BY <1>1 DEF IInv, IndexInv
    <3>2. Distance(Wrapped(write_index), Wrapped(read_index[r] + rbytes[r]))
            = Unread(r) - rbytes[r]
      BY <3>1, <1>1, ReadAdvance
    <3> QED
      BY <3>2, <1>2, <1>3
  <2>2. Unread(r)' >= 0 /\ Unread(r)' <= BufSize - ItemSize
    BY <1>1, <1>3, BufSizeFacts DEF IInv, IndexInv
  <2>3. \A q \in Readers \ {r} :
          /\ 0 <= Unread(q)' /\ Unread(q)' <= BufSize - ItemSize
          /\ Distance(Wrapped(write_index), Wrapped(read_index'[q])) = Unread(q)'
    BY <1>2, <1>3 DEF IInv, IndexInv
  <2> QED
    BY <2>1, <2>2, <2>3, <1>0 DEF IndexInv, writerVars, Distance, Wrapped
<1>6. WriteWindowInv'
  BY <1>0, <1>1, <1>3, WriterKept
<1>7. ReadWindowInv'
  <2>1. \A q \in Readers : ReadWindow(q)' = ReadWindow(q)
    BY <1>0 DEF ReadWindow
  <2> QED
    BY <2>1, <1>0, <1>2, <1>3 DEF IInv, ReadWindowInv
<1>8. MemoryInv'
  <2>1. ASSUME NEW k \in 0..(BufSize - 1), k < Unread(r)'
        PROVE  Holds(Wrapped(Wrapped(read_index'[r]) + k), Consumed(r)' + k)
    <3> DEFINE j == k + rbytes[r]
    <3>1. j \in 0..(BufSize - 1) /\ j < Unread(r) /\ Consumed(r)' + k = Consumed(r) + j
      BY <2>1, <1>1, <1>3, BufSizeFacts DEF IInv, IndexInv
    <3>2. Holds(Wrapped(Wrapped(read_index[r]) + j), Consumed(r) + j)
      BY <3>1 DEF IInv, MemoryInv
    <3>3. Wrapped(Wrapped(read_index[r]) + j) = Wrapped(Wrapped(read_index'[r]) + k)
      <4>1. Distance(Wrapped(write_index), read_index[r]) = Unread(r)
        BY <1>1 DEF IInv, IndexInv
      <4> QED
        BY SMTT(30), <4>1, <3>1, <2>1, <1>1, <1>2, ReadAdvance, BufSizeFacts
    <3> HIDE DEF j
    <3> QED
      BY <3>1, <3>2, <3>3
  <2>2. ASSUME NEW q \in Readers \ {r}, NEW k \in 0..(BufSize - 1), k < Unread(q)'
        PROVE  Holds(Wrapped(Wrapped(read_index'[q]) + k), Consumed(q)' + k)
    BY <2>2, <1>2, <1>3 DEF IInv, MemoryInv
  <2> QED
    BY <2>1, <2>2, <1>0 DEF IInv, MemoryInv, Holds, Wrapped, writerVars
<1>9. SeenInv'
  BY <1>0, <1>2 DEF IInv, SeenInv
<1> QED
  BY <1>4, <1>5, <1>6, <1>7, <1>8, <1>9 DEF IInv

LEMMA WrapReadIndexStep ==
  ASSUME IInv, NEW r \in Readers, WrapReadIndex(r) PROVE IInv'
<1>0. /\ rpc[r] = "wrap"
      /\ read_index' = [read_index EXCEPT ![r] = Wrapped(read_index[r])]
      /\ total_read' = [total_read EXCEPT ![r] = @ + rbytes[r]]
      /\ rpc' = [rpc EXCEPT ![r] = "idle"]
      /\ ravail' = [ravail EXCEPT ![r] = 0]
      /\ rbytes' = [rbytes EXCEPT ![r] = 0]
      /\ UNCHANGED <<mem, writerVars, seen>>
  BY DEF WrapReadIndex
<1>1. /\ rbytes[r] \in Nat /\ total_read[r] \in Nat
      /\ read_index[r] \in 0..(2 * BufSize - 1)
  BY SMTT(30), <1>0 DEF IInv, Tight
<1>2. /\ rpc'[r] = "idle" /\ rbytes'[r] = 0 /\ ravail'[r] = 0
      /\ read_index'[r] = Wrapped(read_index[r])
      /\ total_read'[r] = total_read[r] + rbytes[r]
      /\ \A q \in Readers \ {r} :
           /\ rpc'[q] = rpc[q] /\ read_index'[q] = read_index[q]
           /\ rbytes'[q] = rbytes[q] /\ total_read'[q] = total_read[q]
           /\ ravail'[q] = ravail[q]
  BY <1>0 DEF IInv, Tight
<1>3. /\ Wrapped(read_index[r]) \in 0..(BufSize - 1)
      /\ Wrapped(read_index'[r]) = Wrapped(read_index[r])
  BY <1>1, <1>2, BufSizeFacts DEF Wrapped
<1>4. \A q \in Readers : /\ Consumed(q)' = Consumed(q) /\ Unread(q)' = Unread(q)
                          /\ Unread(q) \in Int
  <2>1. Published' = Published
    BY <1>0 DEF Published, writerVars
  <2>2. \A q \in Readers : Consumed(q)' = Consumed(q)
    BY <1>0, <1>1, <1>2 DEF Consumed
  <2>3. \A q \in Readers : Unread(q) \in Int
    BY CountTypes DEF IInv
  <2> QED
    BY <2>1, <2>2, <2>3 DEF Unread
<1>5. Tight'
  <2>1. /\ read_index' \in [Readers -> 0..(2 * BufSize - 1)]
        /\ \A q \in Readers : rpc'[q] # "wrap" => read_index'[q] < BufSize
    BY SMTT(30), <1>0, <1>2, <1>3, BufSizeFacts DEF IInv, Tight
  <2>2. /\ total_read' \in [Readers -> Nat]
        /\ rpc' \in [Readers -> {"idle", "work", "index", "wrap"}]
        /\ ravail' \in [Readers -> 0..BufSize]
        /\ rbytes' \in [Readers -> 0..BufSize]
    BY <1>0, <1>1, BufSizeFacts DEF IInv, Tight
  <2> QED
    BY <1>0, <2>1, <2>2 DEF IInv, Tight, writerVars
<1>6. IndexInv'
  <2>1. \A q \in Readers : Wrapped(read_index'[q]) = Wrapped(read_index[q])
    BY <1>2, <1>3
  <2>2. \A q \in Readers :
          Distance(Wrapped(write_index), Wrapped(read_index'[q])) = Unread(q)
    BY <2>1 DEF IInv, IndexInv
  <2> QED
    BY <2>2, <1>0, <1>4 DEF IInv, IndexInv, writerVars, Distance, Wrapped
<1>7. WriteWindowInv'
  BY <1>0, <1>4, WriterKept
<1>8. ReadWindowInv'
  <2>1. \A q \in Readers \ {r} : ReadWindow(q)' = ReadWindow(q)
    BY <1>2 DEF ReadWindow
  <2> QED
    BY <2>1, <1>0, <1>2, <1>4 DEF IInv, ReadWindowInv
<1>9. MemoryInv'
  <2>1. \A q \in Readers : Wrapped(read_index'[q]) = Wrapped(read_index[q])
    BY <1>2, <1>3, BufSizeFacts DEF Wrapped
  <2>2. \A q \in Readers : \A k \in 0..(BufSize - 1) : k < Unread(q)' =>
          Holds(Wrapped(Wrapped(read_index'[q]) + k), Consumed(q)' + k)
    BY <2>1, <1>4 DEF IInv, MemoryInv
  <2> QED
    BY <2>2, <1>0 DEF IInv, MemoryInv, Holds, Wrapped, writerVars
<1>10. SeenInv'
  <2>1. seen[r] = <<>>
    BY <1>0 DEF IInv, ReadWindowInv
  <2> QED
    BY <2>1, <1>0, <1>2 DEF IInv, SeenInv
<1> QED
  BY <1>5, <1>6, <1>7, <1>8, <1>9, <1>10 DEF IInv

-----------------------------------------------------------------------------
(* The invariant is inductive. *)
LEMMA NextIInv == ASSUME IInv, ~misled', [Next]_vars PROVE IInv'
<1>1. CASE WriterNext
  BY <1>1, BeginWriteInfoStep, ScanReaderStep, EndWriteInfoStep, WriteByteStep,
     FinishWorkStep, CopyHalvesStep, AdvanceWriteIndexStep, WrapWriteIndexStep
     DEF WriterNext
<1>2. ASSUME NEW r \in Readers, ReaderNext(r) PROVE IInv'
  BY <1>2, ReadInfoStep, ReadByteStep, FinishReadStep, AdvanceReadIndexStep,
     WrapReadIndexStep DEF ReaderNext
<1>3. CASE UNCHANGED vars
  <2>1. UNCHANGED <<mem, writerVars, readerVars>>
    BY <1>3 DEF vars
  <2>2. \A r \in Readers : /\ Unread(r)' = Unread(r) /\ Consumed(r)' = Consumed(r)
                            /\ Unread(r) \in Int
    <3>1. \A r \in Readers : Unread(r) \in Int
      BY CountTypes DEF IInv
    <3> QED
      BY <3>1, <2>1 DEF Unread, Published, Consumed, writerVars, readerVars
  <2>3. Tight'
    BY <2>1 DEF IInv, Tight, writerVars, readerVars
  <2>4. IndexInv'
    BY <2>1, <2>2 DEF IInv, IndexInv, Distance, Wrapped, writerVars, readerVars
  <2>5. WriteWindowInv' /\ ReadWindowInv' /\ SeenInv'
    BY <2>1, <2>2, WriterKept, ReadersKept
  <2>6. MemoryInv'
    BY <2>1, <2>2, MemoryKept DEF writerVars, readerVars
  <2> QED
    BY <2>3, <2>4, <2>5, <2>6 DEF IInv
<1> QED
  BY <1>1, <1>2, <1>3 DEF Next

LEMMA ModNat ==
  ASSUME NEW x \in Int, NEW m \in Nat \ {0}
  PROVE  x % m \in Nat
  OBVIOUS

LEMMA DivInt ==
  ASSUME NEW x \in Int, NEW d \in Nat \ {0}
  PROVE  x \div d \in Int
  OBVIOUS

(* The counts are numbers even where they are wrong. *)
LEMMA CountsAreNat ==
  ASSUME Types
  PROVE  /\ \A r \in Readers : /\ BytesAvailable(write_index, read_index[r]) \in Nat
                               /\ ItemsAvailable(r) \in Nat
         /\ SpaceAvailable(n_available) \in Nat
<1> USE BufSizeFacts
<1>0. Word \in Nat \ {0}
  OBVIOUS
<1>1. ASSUME NEW r \in Readers
      PROVE  BytesAvailable(write_index, read_index[r]) \in Nat
  <2>1. write_index \in Int /\ read_index[r] \in Int
    BY DEF Types
  <2> DEFINE x == IF write_index < read_index[r] THEN write_index + BufSize - read_index[r]
                  ELSE write_index - read_index[r]
  <2>2. x \in Int
    BY <2>1
  <2> HIDE DEF x
  <2>3. x % Word \in Nat
    BY <1>0, <2>2, ModNat
  <2> QED
    BY <2>3 DEF x, BytesAvailable
<1>2. ASSUME NEW r \in Readers
      PROVE  ItemsAvailable(r) \in Nat
  <2>1. ReaderItemSize[r] \in Nat \ {0}
    BY SizeAssumption
  <2> QED
    BY <1>1, <2>1, DivBound DEF ItemsAvailable
<1>3. SpaceAvailable(n_available) \in Nat
  <2> DEFINE free == (BufSize - n_available) % Word
  <2>1. free \in Nat
    <3>1. BufSize - n_available \in Int
      BY DEF Types
    <3> QED
      BY <3>1, <1>0, ModNat
  <2>2. free \div ItemSize \in Nat
    <3> HIDE DEF free
    <3> QED BY <2>1, DivBound
  <2>3. NumItems \div 2 \in Nat
    BY SizeAssumption
  <2>4. SpaceAvailable(n_available) = MinOf(MaxOf(free \div ItemSize - 1, 0), NumItems \div 2)
    BY DEF SpaceAvailable
  <2> HIDE DEF free
  <2> DEFINE items == free \div ItemSize
  <2> HIDE DEF items
  <2>5. items \in Nat /\ SpaceAvailable(n_available) = MinOf(MaxOf(items - 1, 0), NumItems \div 2)
    BY <2>2, <2>4 DEF items
  <2> QED
    BY <2>3, <2>5 DEF MinOf, MaxOf
<1> QED
  BY <1>1, <1>2, <1>3

LEMMA WrappedNat ==
  ASSUME NEW i \in Nat PROVE Wrapped(i) \in Nat
  BY BufSizeFacts DEF Wrapped

(* Every step keeps the types, a misled thread's too. *)
LEMMA TypesStep == ASSUME Types, [Next]_vars PROVE Types'
<1> USE BufSizeFacts DEF readerVars, writerVars
<1>1. CASE BeginWriteInfo
  BY <1>1 DEF Types, BeginWriteInfo
<1>2. ASSUME NEW r \in Readers, ScanReader(r) PROVE Types'
  <2>1. n_available' \in Nat
    BY <1>2, CountsAreNat DEF Types, ScanReader, MaxOf
  <2>2. misled' \in BOOLEAN
    BY <1>2, Zenon DEF Types, ScanReader
  <2> QED
    BY <1>2, <2>1, <2>2 DEF Types, ScanReader
<1>3. CASE EndWriteInfo
  <2>1. /\ wspace' \in Nat /\ wdone' \in Nat /\ wpc' \in {"idle", "work"}
        /\ UNCHANGED <<mem, write_index, total_written, unscanned, n_available,
                       wbytes, readerVars, misled>>
    BY <1>3, CountsAreNat DEF EndWriteInfo
  <2> QED
    BY <2>1 DEF Types
<1>4. CASE WriteByte
  <2> DEFINE a == write_index + wdone
             b == total_written + wdone
  <2>1. b \in Nat /\ wdone + 1 \in Nat
    BY DEF Types
  <2>2. mem' = IF DoubleMapped THEN [mem EXCEPT ![a] = b, ![Mirror(a)] = b]
               ELSE [mem EXCEPT ![a] = b]
    BY <1>4 DEF WriteByte
  <2> HIDE DEF a, b
  <2>3. mem' \in [0..(2 * BufSize - 1) -> Nat \cup {-1}]
    BY <2>1, <2>2 DEF Types
  <2> QED
    BY <1>4, <2>1, <2>3 DEF Types, WriteByte
<1>5. ASSUME NEW n \in 0..NumItems, FinishWork(n) PROVE Types'
  <2>1. n * ItemSize \in Nat
    BY SizeAssumption
  <2> QED
    BY <1>5, <2>1 DEF Types, FinishWork
<1>6. CASE CopyHalves
  <2>1. \A a \in 0..(2 * BufSize - 1) : Mirror(a) \in 0..(2 * BufSize - 1)
    BY DEF Mirror
  <2>2. mem' \in [0..(2 * BufSize - 1) -> Nat \cup {-1}]
    <3>1. mem \in [0..(2 * BufSize - 1) -> Nat \cup {-1}]
      BY DEF Types
    <3>2. PICK S : mem' = [a \in DOMAIN mem |-> IF a \in S THEN mem[Mirror(a)] ELSE mem[a]]
      BY <1>6 DEF CopyHalves
    <3> QED
      BY <2>1, <3>1, <3>2
  <2> QED
    BY <1>6, <2>2 DEF Types, CopyHalves
<1>7. CASE AdvanceWriteIndex \/ WrapWriteIndex
  <2>1. write_index \in Nat /\ total_written \in Nat /\ wbytes \in Nat
    BY DEF Types
  <2>2. write_index + wbytes \in Nat /\ total_written + wbytes \in Nat
    BY <2>1
  <2>3. Wrapped(write_index) \in Nat /\ Wrapped(write_index + wbytes) \in Nat
    BY <2>1, <2>2, WrappedNat
  <2>4. CASE AdvanceWriteIndex
    <3>1. /\ write_index' \in Nat /\ wpc' = "wrap"
          /\ UNCHANGED <<mem, total_written, unscanned, n_available, wspace, wdone,
                         wbytes, readerVars, misled>>
      BY <2>2, <2>3, <2>4 DEF AdvanceWriteIndex
    <3> QED
      BY <3>1 DEF Types
  <2>5. CASE WrapWriteIndex
    <3>1. /\ {write_index', total_written', wspace', wdone', wbytes'} \subseteq Nat
          /\ wpc' = "idle"
          /\ UNCHANGED <<mem, unscanned, n_available, readerVars, misled>>
      BY <2>2, <2>3, <2>5 DEF WrapWriteIndex
    <3> QED
      BY <3>1 DEF Types
  <2> QED
    BY <1>7, <2>4, <2>5
<1>8. ASSUME NEW r \in Readers, ReadInfo(r) PROVE Types'
  <2>1. misled' \in BOOLEAN
    BY <1>8, Zenon DEF Types, ReadInfo
  <2> QED
    BY <1>8, <2>1, CountsAreNat DEF Types, ReadInfo
<1>9. ASSUME NEW r \in Readers, ReadByte(r) PROVE Types'
  <2> DEFINE byte == mem[read_index[r] + Len(seen[r])]
  <2>1. byte \in Nat \cup {-1}
    BY <1>9 DEF Types, ReadByte
  <2>2. seen' = [seen EXCEPT ![r] = Append(@, byte)]
    BY <1>9 DEF ReadByte
  <2> HIDE DEF byte
  <2>3. Append(seen[r], byte) \in Seq(Nat \cup {-1})
    BY <2>1 DEF Types
  <2>4. seen' \in [Readers -> Seq(Nat \cup {-1})]
    BY <2>2, <2>3 DEF Types
  <2> QED
    BY <1>9, <2>4 DEF Types, ReadByte
<1>10. ASSUME NEW r \in Readers, NEW n \in 0..BufSize, FinishRead(r, n) PROVE Types'
  <2>1. n * ReaderItemSize[r] \in Nat
    BY SizeAssumption
  <2> QED
    BY <1>10, <2>1 DEF Types, FinishRead
<1>11. ASSUME NEW r \in Readers, AdvanceReadIndex(r) \/ WrapReadIndex(r) PROVE Types'
  <2>1. CASE AdvanceReadIndex(r)
    <3>1. read_index[r] + rbytes[r] \in Nat
      BY DEF Types
    <3>2. <<>> \in Seq(Nat \cup {-1})
      OBVIOUS
    <3>3. /\ read_index' = [read_index EXCEPT ![r] = read_index[r] + rbytes[r]]
          /\ rpc' = [rpc EXCEPT ![r] = "wrap"]
          /\ seen' = [seen EXCEPT ![r] = <<>>]
          /\ UNCHANGED <<mem, writerVars, total_read, ravail, rbytes, misled>>
      BY <2>1 DEF AdvanceReadIndex
    <3>4. read_index' \in [Readers -> Nat] /\ seen' \in [Readers -> Seq(Nat \cup {-1})]
      BY <3>1, <3>2, <3>3 DEF Types
    <3>5. rpc' \in [Readers -> {"idle", "work", "index", "wrap"}]
      BY <3>3 DEF Types
    <3> QED
      BY <3>3, <3>4, <3>5 DEF Types
  <2>2. CASE WrapReadIndex(r)
    <3>0. read_index[r] \in Nat /\ total_read[r] \in Nat /\ rbytes[r] \in Nat
      BY DEF Types
    <3>1. Wrapped(read_index[r]) \in Nat /\ total_read[r] + rbytes[r] \in Nat
      BY <3>0, WrappedNat
    <3>2. /\ read_index' = [read_index EXCEPT ![r] = Wrapped(read_index[r])]
          /\ total_read' = [total_read EXCEPT ![r] = total_read[r] + rbytes[r]]
          /\ rpc' = [rpc EXCEPT ![r] = "idle"]
          /\ ravail' = [ravail EXCEPT ![r] = 0]
          /\ rbytes' = [rbytes EXCEPT ![r] = 0]
          /\ UNCHANGED <<mem, writerVars, seen, misled>>
      BY <2>2 DEF WrapReadIndex
    <3>3. read_index' \in [Readers -> Nat] /\ total_read' \in [Readers -> Nat]
      BY <3>1, <3>2 DEF Types
    <3>4. /\ rpc' \in [Readers -> {"idle", "work", "index", "wrap"}]
          /\ ravail' \in [Readers -> Nat] /\ rbytes' \in [Readers -> Nat]
      BY <3>2 DEF Types
    <3> QED
      BY <3>2, <3>3, <3>4 DEF Types
  <2> QED
    BY <1>11, <2>1, <2>2
<1>12. CASE UNCHANGED vars
  BY <1>12 DEF Types, vars
<1> QED
  BY <1>1, <1>2, <1>3, <1>4, <1>5, <1>6, <1>7, <1>8, <1>9, <1>10, <1>11, <1>12
     DEF Next, WriterNext, ReaderNext

(* A thread that has been misled stays so, and only a look misleads. *)
LEMMA MisledStays ==
  ASSUME [Next]_vars, misled PROVE misled'
  BY Zenon DEF Next, WriterNext, ReaderNext, BeginWriteInfo, ScanReader, EndWriteInfo,
     WriteByte, FinishWork, CopyHalves, AdvanceWriteIndex, WrapWriteIndex, ReadInfo,
     ReadByte, FinishRead, AdvanceReadIndex, WrapReadIndex, vars

LEMMA TightIsInMemory == ASSUME Tight PROVE InMemory
  BY BufSizeFacts DEF Tight, InMemory

(* The invariant holds in every reachable state. *)
THEOREM InductiveInvariant == Spec => []Inv
<1>1. Init => Inv
  <2>1. Init => Types
    BY SizeAssumption, BufSizeFacts DEF Init, Types
  <2> QED
    BY <2>1, InitIInv DEF Inv
<1>2. Inv /\ [Next]_vars => Inv'
  <2> SUFFICES ASSUME Inv, [Next]_vars PROVE Inv'
    OBVIOUS
  <2>1. Types'
    BY TypesStep DEF Inv
  <2>2. misled' \/ IInv'
    <3>1. CASE misled
      BY <3>1, MisledStays
    <3>2. CASE IInv
      BY <3>2, NextIInv
    <3> QED
      BY <3>1, <3>2 DEF Inv
  <2> QED
    BY <2>1, <2>2 DEF Inv
<1> QED
  BY <1>1, <1>2, PTL DEF Spec

(* Type correctness, and as long as no thread is misled: no index leaves the
   doubled memory, and outside the two stores of an advance each is in its
   first half. *)
THEOREM TypeCorrect == Spec => []TypeOK
<1>1. Inv => TypeOK
  BY TightIsInMemory DEF Inv, IInv, TypeOK
<1> QED
  BY <1>1, InductiveInvariant, PTL

(* bytes_available is exact in every state in which either side can call it,
   unless one side has been overtaken in an advance past the end. *)
THEOREM AvailableExact == Spec => []AvailableIsExact
<1>1. Inv => AvailableIsExact
  BY BytesAvailableIsUnread DEF Inv, AvailableIsExact, Unread
<1> QED
  BY <1>1, InductiveInvariant, PTL

(* A granted write window stays clear of unread data until it is published. *)
THEOREM WriteWindowFree == Spec => []WriteWindowIsFree
<1>1. ASSUME IInv PROVE WriteWindowIsFree
  <2>1. wspace * ItemSize \in Nat
    BY <1>1, WindowBytes DEF IInv
  <2>2. wpc \in {"work", "copy", "index"} =>
          \A r \in Readers : Unread(r) + wspace * ItemSize <= BufSize - ItemSize
    BY <1>1 DEF IInv, WriteWindowInv
  <2>3. \A r \in Readers :
          Published + wspace * ItemSize - Consumed(r) = Unread(r) + wspace * ItemSize
    BY <1>1, <2>1, CountTypes DEF IInv, Unread
  <2> QED
    BY <2>2, <2>3 DEF WriteWindowIsFree
<1>2. Inv => WriteWindowIsFree
  BY <1>1 DEF Inv, WriteWindowIsFree
<1> QED
  BY <1>2, InductiveInvariant, PTL

(* Every reader loads exactly the stream that was written. *)
THEOREM Integrity == Spec => []StreamIntegrity
<1>1. Inv => StreamIntegrity
  BY DEF Inv, IInv, SeenInv, StreamIntegrity
<1> QED
  BY <1>1, InductiveInvariant, PTL

(* A bounded set of numbers has a largest member: the one whose complement to
   the bound is smallest. *)
LEMMA MaxOfBounded ==
  ASSUME NEW bound \in Nat, NEW S \in SUBSET (0..bound), S # {}
  PROVE  Max(S) \in S
<1> DEFINE gaps == {bound - x : x \in S}
           less == OpToRel(<, Nat)
<1>1. gaps \subseteq Nat
  OBVIOUS
<1>2. gaps # {}
  <2>1. PICK x : x \in S
    OBVIOUS
  <2> QED
    BY <2>1
<1>3. \A h, g \in Nat : h < g => <<h, g>> \in less
  BY DEF OpToRel
<1>4. \E g \in gaps : \A h \in gaps : ~ (<<h, g>> \in less)
  <2>1. IsWellFoundedOn(less, Nat)
    BY NatLessThanWellFounded
  <2> HIDE DEF gaps, less
  <2> QED
    BY <1>1, <1>2, <2>1, WFMin
<1>5. PICK g \in gaps : \A h \in gaps : g <= h
  <2> HIDE DEF gaps, less
  <2>1. PICK g \in gaps : \A h \in gaps : ~ (<<h, g>> \in less)
    BY <1>4
  <2>2. \A h \in gaps : ~ (h < g)
    BY <1>1, <1>3, <2>1
  <2> QED
    BY <1>1, <2>2
<1>6. bound - g \in S /\ \A y \in S : bound - g >= y
  <2>1. PICK x \in S : g = bound - x
    BY DEF gaps
  <2>2. \A y \in S : g <= bound - y
    BY <1>5
  <2> QED
    BY <2>1, <2>2
<1> QED
  BY <1>6 DEF Max

(* A buffer with room for two items beside the backlog grants one of them. *)
LEMMA SpaceForOne ==
  ASSUME NEW backlog \in 0..(BufSize - 1), NumItems >= 2,
         backlog <= BufSize - 2 * ItemSize
  PROVE  SpaceAvailable(backlog) >= 1
<1> DEFINE free == BufSize - backlog
           items == free \div ItemSize
<1>1. free \in Nat /\ free < Word /\ 2 * ItemSize <= free
  BY BufSizeFacts
<1>2. free % Word = free
  BY <1>1, BufSizeFacts, ModSmall
<1>3. items \in Nat /\ items >= 2
  <2>1. \A x \in Nat, d \in Nat \ {0} : 2 * d <= x => x \div d \in Nat /\ x \div d >= 2
    OBVIOUS
  <2> QED
    BY <2>1, <1>1, BufSizeFacts
<1>4. NumItems \div 2 >= 1 /\ NumItems \div 2 \in Nat
  BY SizeAssumption
<1>5. SpaceAvailable(backlog) = MinOf(MaxOf(items - 1, 0), NumItems \div 2)
  BY <1>2 DEF SpaceAvailable
<1> QED
  <2> HIDE DEF items
  <2> QED BY <1>3, <1>4, <1>5 DEF MinOf, MaxOf

(* The writer and all the readers are never blocked on each other, if every
   reader's item fits in beside two of the writer's (less one byte). *)
THEOREM NeverBothBlocked == Spec => []NotBothBlocked
<1>1. ASSUME IInv PROVE NotBothBlocked
  <2> SUFFICES ASSUME NumItems >= 2,
                      \A r \in Readers : ReaderItemSize[r] <= BufSize - 2 * ItemSize + 1,
                      \A r \in Readers : ~Overtaken(r),
                      \A r \in Readers : ~ (ItemsAvailable(r) >= 1)
               PROVE  SpaceAvailable(Max({BytesAvailable(write_index, read_index[r]) :
                                            r \in Readers})) >= 1
    BY DEF NotBothBlocked
  <2> DEFINE backlogs == {BytesAvailable(write_index, read_index[r]) : r \in Readers}
  <2>1. ASSUME NEW r \in Readers
        PROVE  Unread(r) <= BufSize - 2 * ItemSize
    <3>1. Unread(r) \in 0..(BufSize - 1) /\ ItemsAvailable(r) = Unread(r) \div ReaderItemSize[r]
      BY <1>1, BytesAvailableIsUnread DEF ItemsAvailable
    <3>2. ReaderItemSize[r] \in Nat \ {0}
      BY SizeAssumption
    <3>3. \A x \in Nat, d \in Nat \ {0} : x >= d => x \div d >= 1
      OBVIOUS
    <3>4. Unread(r) \in Nat /\ ~ (Unread(r) >= ReaderItemSize[r])
      BY <3>1, <3>2, <3>3, BufSizeFacts
    <3> QED
      BY <3>2, <3>4, BufSizeFacts
  <2>2. backlogs = {Unread(r) : r \in Readers}
    BY <1>1, BytesAvailableIsUnread
  <2>3. backlogs \in SUBSET (0..(BufSize - 1)) /\ backlogs # {}
    BY <2>2, <1>1, BytesAvailableIsUnread, ReadersAssumption
  <2>4. Max(backlogs) \in backlogs
    <3>1. BufSize - 1 \in Nat
      BY BufSizeFacts
    <3> HIDE DEF backlogs
    <3> QED BY <2>3, <3>1, MaxOfBounded
  <2>5. Max(backlogs) \in 0..(BufSize - 1) /\ Max(backlogs) <= BufSize - 2 * ItemSize
    <3> HIDE DEF backlogs
    <3> QED BY <2>1, <2>2, <2>3, <2>4
  <2> QED
    BY <2>5, SpaceForOne
<1>2. Inv => NotBothBlocked
  BY <1>1 DEF Inv, NotBothBlocked
<1> QED
  BY <1>2, InductiveInvariant, PTL

-----------------------------------------------------------------------------
(* The buffer implements the abstract stream: publishing is the first store
   of an advance of write_index, giving back that of a read_index. *)
LEMMA ChannelInit == Init => Channel!Init
  BY DEF Init, Channel!Init, Published, Consumed

LEMMA ChannelQuiet ==
  ASSUME seen' = seen, Published' = Published,
         \A r \in Readers : Consumed(r)' = Consumed(r)
  PROVE  UNCHANGED Channel!vars
  BY DEF Channel!vars

LEMMA ChannelStep ==
  ASSUME IInv, ~misled, [Next]_vars PROVE [Channel!Next]_Channel!vars
<1> DEFINE taken == [r \in Readers |-> Consumed(r)]
<1>0. ASSUME misled' = misled PROVE IInv'
  BY <1>0, NextIInv
<1>1. ASSUME WriterNext, wpc # "index", wpc # "wrap" PROVE UNCHANGED Channel!vars
  <2>1. seen' = seen /\ \A r \in Readers : Consumed(r)' = Consumed(r)
    BY <1>1 DEF WriterNext, BeginWriteInfo, ScanReader, EndWriteInfo, WriteByte,
       FinishWork, CopyHalves, AdvanceWriteIndex, WrapWriteIndex, readerVars, Consumed
  <2>2. total_written' = total_written /\ wpc' # "wrap"
    BY <1>1 DEF WriterNext, BeginWriteInfo, ScanReader, EndWriteInfo, WriteByte,
       FinishWork, CopyHalves, AdvanceWriteIndex, WrapWriteIndex
  <2> QED
    BY <2>1, <2>2, <1>1, ChannelQuiet DEF Published
<1>2. ASSUME WriterNext, wpc = "wrap" PROVE UNCHANGED Channel!vars
  <2>1. WrapWriteIndex
    BY <1>2 DEF WriterNext, BeginWriteInfo, ScanReader, EndWriteInfo, WriteByte,
       FinishWork, CopyHalves, AdvanceWriteIndex
  <2>2. /\ seen' = seen /\ \A r \in Readers : Consumed(r)' = Consumed(r)
        /\ wpc' = "idle" /\ total_written' = total_written + wbytes
    BY <2>1 DEF WrapWriteIndex, readerVars, Consumed
  <2>3. total_written \in Nat /\ wbytes \in Nat
    BY BufSizeFacts DEF IInv, Tight
  <2> QED
    BY <2>2, <2>3, <1>2, ChannelQuiet DEF Published
<1>3. ASSUME WriterNext, wpc = "index" PROVE Channel!Next
  <2>1. AdvanceWriteIndex
    BY <1>3 DEF WriterNext, BeginWriteInfo, ScanReader, EndWriteInfo, WriteByte,
       FinishWork, CopyHalves, WrapWriteIndex
  <2>2. /\ seen' = seen /\ \A r \in Readers : Consumed(r)' = Consumed(r)
        /\ wpc' = "wrap" /\ total_written' = total_written /\ wbytes' = wbytes
    BY <2>1 DEF AdvanceWriteIndex, readerVars, Consumed
  <2>3. total_written \in Nat /\ wbytes \in Nat
    BY BufSizeFacts DEF IInv, Tight
  <2>4. Published' = Published + wbytes
    BY <2>2, <2>3, <1>3 DEF Published
  <2>5. \A r \in Readers : Published + wbytes - Consumed(r) <= BufSize - ItemSize
    <3> SUFFICES ASSUME NEW r \in Readers
                 PROVE  Published + wbytes - Consumed(r) <= BufSize - ItemSize
      OBVIOUS
    <3>1. Unread(r)' <= BufSize - ItemSize
      BY <1>0, <2>1 DEF AdvanceWriteIndex, IInv, IndexInv
    <3>2. Unread(r)' = Published' - Consumed(r)'
      BY DEF Unread
    <3>3. Consumed(r)' = Consumed(r)
      BY <2>2
    <3>4. Published \in Nat /\ Consumed(r) \in Nat
      BY CountTypes DEF IInv
    <3> QED
      BY <3>1, <3>2, <3>3, <3>4, <2>3, <2>4, BufSizeFacts
  <2>6. wbytes \in 0..(BufSize - ItemSize)
    <3>1. PICK r \in Readers : TRUE
      BY ReadersAssumption
    <3>2. Published - Consumed(r) >= 0 /\ Published \in Nat /\ Consumed(r) \in Nat
      BY <3>1, CountTypes DEF IInv, IndexInv, Unread
    <3> QED
      BY <3>1, <3>2, <2>3, <2>5, BufSizeFacts
  <2>7. taken' = taken
    BY <2>2
  <2>8. Channel!Send(wbytes)
    BY <2>2, <2>4, <2>5, <2>7 DEF Channel!Send
  <2> QED
    BY <2>6, <2>8 DEF Channel!Next
<1>4. ASSUME NEW r \in Readers, ReadInfo(r) \/ (\E n \in 0..BufSize : FinishRead(r, n))
                                \/ WrapReadIndex(r)
      PROVE  UNCHANGED Channel!vars
  <2>1. Published' = Published /\ seen' = seen
    BY <1>4 DEF ReadInfo, FinishRead, WrapReadIndex, writerVars, Published
  <2>2. \A q \in Readers : Consumed(q)' = Consumed(q)
    <3>1. /\ rpc \in [Readers -> {"idle", "work", "index", "wrap"}]
          /\ total_read \in [Readers -> Nat] /\ rbytes \in [Readers -> 0..BufSize]
      BY DEF IInv, Tight
    <3>2. CASE ReadInfo(r) \/ \E n \in 0..BufSize : FinishRead(r, n)
      BY <3>1, <3>2 DEF ReadInfo, FinishRead, Consumed
    <3>3. CASE WrapReadIndex(r)
      BY <3>1, <3>3, BufSizeFacts DEF WrapReadIndex, Consumed
    <3> QED
      BY <1>4, <3>2, <3>3
  <2> QED
    BY <2>1, <2>2, ChannelQuiet
<1>5. ASSUME NEW r \in Readers, ReadByte(r) PROVE Channel!Next
  <2> DEFINE i == Len(seen[r])
  <2>1. /\ rpc[r] = "work" /\ i < ReadWindow(r) /\ i \in Nat
        /\ seen' = [seen EXCEPT ![r] = Append(@, mem[read_index[r] + i])]
        /\ UNCHANGED <<mem, writerVars, read_index, total_read, rpc, ravail, rbytes>>
    BY <1>5 DEF ReadByte, ReadWindow, IInv, Tight
  <2>2. Published' = Published /\ taken' = taken
    BY <2>1 DEF Published, Consumed, writerVars
  <2>3. Consumed(r) = total_read[r] /\ Consumed(r) \in Nat /\ Published \in Nat
    <3>1. Consumed(r) \in Nat /\ Published \in Nat /\ total_read[r] \in Nat
      BY CountTypes DEF IInv, Tight
    <3> QED
      BY <3>1, <2>1 DEF Consumed
  <2>4. Consumed(r) + i < Published
    <3>1. ReadWindow(r) <= Unread(r) /\ ReadWindow(r) \in Nat
      BY <2>1, WindowBytes DEF IInv, ReadWindowInv
    <3> QED
      BY <3>1, <2>1, <2>3 DEF Unread
  <2>5. seen'[r] = Append(seen[r], mem[read_index[r] + i]) /\ seen[r] \in Seq(Nat)
    BY <2>1 DEF IInv, Tight
  <2>6. seen'[r][i + 1] = Consumed(r) + i
    <3>1. i + 1 \in 1..Len(seen'[r])
      BY <2>5, <2>1
    <3>2. seen'[r][i + 1] = total_read'[r] + (i + 1) - 1
      BY <3>1, <1>0, <1>5 DEF ReadByte, IInv, SeenInv
    <3> QED
      BY <3>2, <2>1, <2>3
  <2>7. mem[read_index[r] + i] = Consumed(r) + i
    BY <2>5, <2>6, <2>1
  <2>8. Channel!See(r)
    BY <2>1, <2>2, <2>4, <2>7 DEF Channel!See
  <2> QED
    BY <2>8 DEF Channel!Next
<1>6. ASSUME NEW r \in Readers, AdvanceReadIndex(r) PROVE Channel!Next
  <2>1. /\ rpc[r] = "index" /\ rpc' = [rpc EXCEPT ![r] = "wrap"]
        /\ seen' = [seen EXCEPT ![r] = <<>>]
        /\ UNCHANGED <<mem, writerVars, total_read, ravail, rbytes>>
    BY <1>6 DEF AdvanceReadIndex
  <2>2. /\ rbytes[r] \in Nat /\ total_read[r] \in Nat
        /\ rpc \in [Readers -> {"idle", "work", "index", "wrap"}]
    BY BufSizeFacts DEF IInv, Tight
  <2>3. Published' = Published
    BY <2>1 DEF Published, writerVars
  <2>4. taken' = [taken EXCEPT ![r] = @ + rbytes[r]]
    <3>1. rpc'[r] = "wrap" /\ \A q \in Readers \ {r} : rpc'[q] = rpc[q]
      BY <2>1, <2>2
    <3>2. Consumed(r)' = Consumed(r) + rbytes[r]
      BY <3>1, <2>1, <2>2 DEF Consumed
    <3>3. \A q \in Readers \ {r} : Consumed(q)' = Consumed(q)
      BY <3>1, <2>1 DEF Consumed
    <3> QED
      BY <3>2, <3>3
  <2>5. rbytes[r] <= Unread(r) /\ Unread(r) <= BufSize - ItemSize
    <3>1. /\ rbytes[r] <= ReadWindow(r) /\ ReadWindow(r) <= Unread(r)
          /\ ReadWindow(r) \in Nat /\ Unread(r) \in Int
          /\ Unread(r) <= BufSize - ItemSize
      BY <2>1, WindowBytes, CountTypes DEF IInv, ReadWindowInv, IndexInv
    <3> QED
      BY <3>1, <2>2
  <2>6. rbytes[r] \in 0..(BufSize - ItemSize)
    BY <2>2, <2>5, BufSizeFacts, CountTypes DEF IInv
  <2>7. Channel!Take(r, rbytes[r])
    BY <2>1, <2>3, <2>4, <2>5 DEF Channel!Take, Unread
  <2> QED
    BY <2>6, <2>7 DEF Channel!Next
<1>7. CASE UNCHANGED vars
  BY <1>7, ChannelQuiet DEF vars, writerVars, readerVars, Published, Consumed
<1> QED
  BY <1>1, <1>2, <1>3, <1>4, <1>5, <1>6, <1>7 DEF Next, ReaderNext

(* Until a thread is misled, every step of the buffer is one of the abstract
   stream. *)
THEOREM Refinement == Spec => ImplementsChannel
<1>1. Init => Channel!Init
  BY ChannelInit
<1>2. Inv /\ [Next]_vars => [misled \/ Channel!Next]_Channel!vars
  BY ChannelStep DEF Inv
<1> QED
  BY <1>1, <1>2, InductiveInvariant, PTL DEF Spec, ImplementsChannel
=============================================================================
