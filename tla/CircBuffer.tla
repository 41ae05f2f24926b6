----------------------------- MODULE CircBuffer -----------------------------
(***************************************************************************)
(* The circular stream buffer of an edge (buffer, buffer_cpu_vmcirc,       *)
(* buffer_cpu_simple): one writer thread and one thread per reader, no     *)
(* lock common to the two sides.  The writer owns write_index, each reader *)
(* its read_index, and either side reads the other's index while the other *)
(* is in the middle of advancing it.                                       *)
(*                                                                         *)
(* An index is advanced by "index += n" and then, past the end,            *)
(* "index -= buf_size".  For read_index every build stores both values;    *)
(* for write_index an unoptimised build stores both (SplitWrite), an       *)
(* optimising one only the last.  Each store is a step, and the un-wrapped *)
(* value in between is visible to the other threads, for as long as the    *)
(* thread between its two stores is not scheduled.  The distance of the    *)
(* indices survives that, with one exception (Overtaken): the other side   *)
(* wraps its index in the meantime.  A thread that looks at the indices    *)
(* then goes on from a wrong count of bytes; misled records that this has  *)
(* happened, for the properties to read; no step depends on it.            *)
(*                                                                         *)
(* Memory is sequentially consistent.  total_written and total_read are    *)
(* counted in bytes.                                                       *)
(***************************************************************************)
EXTENDS Integers, Sequences, FiniteSetsExt

CONSTANTS
  Readers,        (* the readers attached with add_reader                  *)
  NumItems,       (* _num_items                                            *)
  ItemSize,       (* _item_size: bytes in an item on the writer's side     *)
  ReaderItemSize, (* [Readers -> Nat] bytes in an item on a reader's side  *)
  DoubleMapped,   (* TRUE: buffer_cpu_vmcirc, one memory mapped twice;     *)
                  (* FALSE: buffer_cpu_simple, two halves kept by copying  *)
  SplitWrite,     (* the build stores _write_index before it is wrapped    *)
  Word,           (* 2^64: size_t arithmetic is modulo Word                *)
  MaxBytes        (* bound of the checked runs on the length of the stream *)

ASSUME ReadersAssumption == Readers # {}
ASSUME SizeAssumption ==
  /\ NumItems \in Nat \ {0}
  /\ ItemSize \in Nat \ {0}
  /\ ReaderItemSize \in [Readers -> Nat \ {0}]
ASSUME BuildAssumption == {DoubleMapped, SplitWrite} \subseteq BOOLEAN
ASSUME WordAssumption == Word \in Nat /\ Word > 2 * NumItems * ItemSize
ASSUME BoundAssumption == MaxBytes \in Nat

BufSize == NumItems * ItemSize

VARIABLES
  mem,            (* the 2 * BufSize addresses behind read_ptr, write_ptr  *)
  write_index,    (* _write_index                                          *)
  total_written,  (* _total_written                                        *)
  wpc,            (* where the writer's thread is                          *)
  unscanned,      (* readers write_info has still to ask                   *)
  n_available,    (* the largest backlog write_info has found so far       *)
  wspace,         (* items granted to the work call                        *)
  wdone,          (* bytes the work call has stored so far                 *)
  wbytes,         (* bytes_written of the post_write under way             *)
  read_index,     (* [Readers -> Nat] _read_index                          *)
  total_read,     (* [Readers -> Nat] _total_read                          *)
  rpc,            (* where each reader's thread is                         *)
  ravail,         (* items granted to each reader's work call              *)
  seen,           (* bytes each reader's work call has loaded so far       *)
  rbytes,         (* bytes of each post_read under way                     *)
  misled          (* history: a thread has taken a count that was not so   *)

writerVars == <<write_index, total_written, wpc, unscanned, n_available,
                wspace, wdone, wbytes>>
readerVars == <<read_index, total_read, rpc, ravail, seen, rbytes>>
vars == <<mem, writerVars, readerVars, misled>>

-----------------------------------------------------------------------------
MinOf(a, b) == IF a <= b THEN a ELSE b
MaxOf(a, b) == IF a >= b THEN a ELSE b

(* The other address of the same ring position. *)
Mirror(a) == IF a < BufSize THEN a + BufSize ELSE a - BufSize

(* Mutant: wraps one byte too late. *)
WrappedLate(i) == IF i > BufSize THEN i - BufSize ELSE i

Wrapped(i) == IF i >= BufSize THEN i - BufSize ELSE i

(* Mutant: forgets that the writer may be a lap ahead. *)
BytesAvailableNoLap(w, r) == (w - r) % Word

(* buffer_reader::bytes_available on one load of each index. *)
BytesAvailable(w, r) == (IF w < r THEN w + BufSize - r ELSE w - r) % Word

(* buffer_reader::items_available. *)
ItemsAvailable(r) ==
  BytesAvailable(write_index, read_index[r]) \div ReaderItemSize[r]

(* One side has stored its index past the end of the first half but not yet
   the wrapped one, and the other has wrapped its own since: the writer the
   index of its next lap, or reader r that of the same lap.  The distance of
   the indices is then wrong by one buffer size. *)
Overtaken(r) ==
  \/ read_index[r] >= BufSize /\ write_index < read_index[r] - BufSize
  \/ write_index >= BufSize /\ read_index[r] <= write_index - BufSize

(* Mutant: does not keep an item free. *)
SpaceAvailableNoGap(backlog) ==
  MinOf(((BufSize - backlog) % Word) \div ItemSize, NumItems \div 2)

(* Mutant: keeps half of the buffer free instead of limiting one grant to it. *)
SpaceAvailableHalf(backlog) ==
  MaxOf(((BufSize - backlog) % Word) \div ItemSize - 1 - NumItems \div 2, 0)

(* The number of items buffer::space_available derives from the largest
   backlog.  One item is kept free so that full and empty differ. *)
SpaceAvailable(backlog) ==
  LET space_in_items == ((BufSize - backlog) % Word) \div ItemSize - 1
  IN  MinOf(MaxOf(space_in_items, 0), NumItems \div 2)

Init ==
  /\ mem = [a \in 0..(2 * BufSize - 1) |-> -1]
  /\ write_index = 0
  /\ total_written = 0
  /\ wpc = "idle"
  /\ unscanned = {}
  /\ n_available = 0
  /\ wspace = 0
  /\ wdone = 0
  /\ wbytes = 0
  /\ read_index = [r \in Readers |-> 0]
  /\ total_read = [r \in Readers |-> 0]
  /\ rpc = [r \in Readers |-> "idle"]
  /\ ravail = [r \in Readers |-> 0]
  /\ seen = [r \in Readers |-> <<>>]
  /\ rbytes = [r \in Readers |-> 0]
  /\ misled = FALSE

-----------------------------------------------------------------------------
(* The writer's thread. *)

(* write_info: ask the readers for their backlog ... *)
BeginWriteInfo ==
  /\ wpc = "idle"
  /\ wpc' = "scan"
  /\ unscanned' = Readers
  /\ n_available' = 0
  /\ UNCHANGED <<mem, write_index, total_written, wspace, wdone, wbytes,
                 readerVars, misled>>

(* Mutant: keeps the backlog of the last reader asked, not the largest. *)
ScanReaderKeepLast(r) ==
  /\ wpc = "scan"
  /\ r \in unscanned
  /\ unscanned' = unscanned \ {r}
  /\ n_available' = BytesAvailable(write_index, read_index[r])
  /\ misled' = (misled \/ Overtaken(r))
  /\ UNCHANGED <<mem, write_index, total_written, wpc, wspace, wdone, wbytes,
                 readerVars>>

(* ... one after the other, while they go on reading ... *)
ScanReader(r) ==
  /\ wpc = "scan"
  /\ r \in unscanned
  /\ unscanned' = unscanned \ {r}
  /\ n_available' = MaxOf(n_available, BytesAvailable(write_index, read_index[r]))
  /\ misled' = (misled \/ Overtaken(r))
  /\ UNCHANGED <<mem, write_index, total_written, wpc, wspace, wdone, wbytes,
                 readerVars>>

(* ... and call work if an item fits, else the block is BLKD_OUT. *)
EndWriteInfo ==
  /\ wpc = "scan"
  /\ unscanned = {}
  /\ wspace' = SpaceAvailable(n_available)
  /\ wdone' = 0
  /\ wpc' = IF wspace' < 1 THEN "idle" ELSE "work"
  /\ UNCHANGED <<mem, write_index, total_written, unscanned, n_available,
                 wbytes, readerVars, misled>>

(* Work stores the next byte of the stream at write_ptr() + wdone. *)
WriteByte ==
  LET a == write_index + wdone
      b == total_written + wdone
  IN
  /\ wpc = "work"
  /\ wdone < wspace * ItemSize
  /\ b < MaxBytes
  /\ mem' = IF DoubleMapped THEN [mem EXCEPT ![a] = b, ![Mirror(a)] = b]
            ELSE [mem EXCEPT ![a] = b]
  /\ wdone' = wdone + 1
  /\ UNCHANGED <<write_index, total_written, wpc, unscanned, n_available,
                 wspace, wbytes, readerVars, misled>>

(* Work returns; the n items it produced may be fewer than it stored. *)
FinishWork(n) ==
  /\ wpc = "work"
  /\ n * ItemSize <= wdone
  /\ wbytes' = n * ItemSize
  /\ wpc' = IF DoubleMapped THEN "index" ELSE "copy"
  /\ UNCHANGED <<mem, write_index, total_written, unscanned, n_available,
                 wspace, wdone, readerVars, misled>>

(* Mutant: copies to the upper half only. *)
CopyHalvesUpper ==
  LET num_bytes_1 == MinOf(BufSize - write_index, wbytes)
      upper == (write_index + BufSize)..(write_index + BufSize + num_bytes_1 - 1)
  IN
  /\ wpc = "copy"
  /\ mem' = [a \in DOMAIN mem |-> IF a \in upper THEN mem[Mirror(a)] ELSE mem[a]]
  /\ wpc' = "index"
  /\ UNCHANGED <<write_index, total_written, unscanned, n_available,
                 wspace, wdone, wbytes, readerVars, misled>>

(* buffer_cpu_simple::post_write copies what was stored in either half to
   the other half before it moves the index. *)
CopyHalves ==
  LET num_bytes_1 == MinOf(BufSize - write_index, wbytes)
      num_bytes_2 == wbytes - num_bytes_1
      upper == (write_index + BufSize)..(write_index + BufSize + num_bytes_1 - 1)
      lower == 0..(num_bytes_2 - 1)
  IN
  /\ wpc = "copy"
  /\ mem' = [a \in DOMAIN mem |->
               IF a \in upper \cup lower THEN mem[Mirror(a)] ELSE mem[a]]
  /\ wpc' = "index"
  /\ UNCHANGED <<write_index, total_written, unscanned, n_available,
                 wspace, wdone, wbytes, readerVars, misled>>

(* post_write: _write_index += bytes_written ... *)
AdvanceWriteIndex ==
  /\ wpc = "index"
  /\ write_index' = IF SplitWrite THEN write_index + wbytes
                    ELSE Wrapped(write_index + wbytes)
  /\ wpc' = "wrap"
  /\ UNCHANGED <<mem, total_written, unscanned, n_available, wspace, wdone,
                 wbytes, readerVars, misled>>

(* ... then the wrap and the running total. *)
WrapWriteIndex ==
  /\ wpc = "wrap"
  /\ write_index' = Wrapped(write_index)
  /\ total_written' = total_written + wbytes
  /\ wpc' = "idle"
  /\ wbytes' = 0
  /\ wdone' = 0
  /\ wspace' = 0
  /\ UNCHANGED <<mem, unscanned, n_available, readerVars, misled>>

-----------------------------------------------------------------------------
(* A reader's thread. *)

(* read_info: work is called if there is at least one item, else BLKD_IN. *)
ReadInfo(r) ==
  /\ rpc[r] = "idle"
  /\ ItemsAvailable(r) >= 1
  /\ ravail' = [ravail EXCEPT ![r] = ItemsAvailable(r)]
  /\ rpc' = [rpc EXCEPT ![r] = "work"]
  /\ misled' = (misled \/ Overtaken(r))
  /\ UNCHANGED <<mem, writerVars, read_index, total_read, seen, rbytes>>

(* Work loads the next byte from read_ptr(); a load from behind the doubled
   memory, which a wrong count can lead to, is not followed. *)
ReadByte(r) ==
  /\ rpc[r] = "work"
  /\ Len(seen[r]) < ravail[r] * ReaderItemSize[r]
  /\ read_index[r] + Len(seen[r]) \in DOMAIN mem
  /\ seen' = [seen EXCEPT ![r] = Append(@, mem[read_index[r] + Len(@)])]
  /\ UNCHANGED <<mem, writerVars, read_index, total_read, rpc, ravail, rbytes, misled>>

(* Work returns having consumed n items (with an exact count, never more than
   MaxBytes bytes in all). *)
FinishRead(r, n) ==
  /\ rpc[r] = "work"
  /\ n <= ravail[r]
  /\ total_read[r] + n * ReaderItemSize[r] <= MaxBytes
  /\ rbytes' = [rbytes EXCEPT ![r] = n * ReaderItemSize[r]]
  /\ rpc' = [rpc EXCEPT ![r] = "index"]
  /\ UNCHANGED <<mem, writerVars, read_index, total_read, ravail, seen, misled>>

(* post_read: _read_index += num_items * _itemsize ... *)
AdvanceReadIndex(r) ==
  /\ rpc[r] = "index"
  /\ read_index' = [read_index EXCEPT ![r] = @ + rbytes[r]]
  /\ rpc' = [rpc EXCEPT ![r] = "wrap"]
  /\ seen' = [seen EXCEPT ![r] = <<>>]
  /\ UNCHANGED <<mem, writerVars, total_read, ravail, rbytes, misled>>

(* ... then the wrap and the running total. *)
WrapReadIndex(r) ==
  /\ rpc[r] = "wrap"
  /\ read_index' = [read_index EXCEPT ![r] = Wrapped(@)]
  /\ total_read' = [total_read EXCEPT ![r] = @ + rbytes[r]]
  /\ rpc' = [rpc EXCEPT ![r] = "idle"]
  /\ ravail' = [ravail EXCEPT ![r] = 0]
  /\ rbytes' = [rbytes EXCEPT ![r] = 0]
  /\ UNCHANGED <<mem, writerVars, seen, misled>>

WriterNext ==
  \/ BeginWriteInfo
  \/ \E r \in Readers : ScanReader(r)
  \/ EndWriteInfo
  \/ WriteByte
  \/ \E n \in 0..NumItems : FinishWork(n)
  \/ CopyHalves
  \/ AdvanceWriteIndex
  \/ WrapWriteIndex

ReaderNext(r) ==
  \/ ReadInfo(r)
  \/ ReadByte(r)
  \/ \E n \in 0..BufSize : FinishRead(r, n)
  \/ AdvanceReadIndex(r)
  \/ WrapReadIndex(r)

Next == WriterNext \/ \E r \in Readers : ReaderNext(r)

Spec == Init /\ [][Next]_vars

-----------------------------------------------------------------------------
(* Properties. *)

(* The types of the variables, whatever a wrong count has led to. *)
Types ==
  /\ mem \in [0..(2 * BufSize - 1) -> Nat \cup {-1}]
  /\ {write_index, total_written, n_available, wspace, wdone, wbytes} \subseteq Nat
  /\ wpc \in {"idle", "scan", "work", "copy", "index", "wrap"}
  /\ unscanned \subseteq Readers
  /\ read_index \in [Readers -> Nat] /\ total_read \in [Readers -> Nat]
  /\ rpc \in [Readers -> {"idle", "work", "index", "wrap"}]
  /\ ravail \in [Readers -> Nat] /\ rbytes \in [Readers -> Nat]
  /\ seen \in [Readers -> Seq(Nat \cup {-1})]
  /\ misled \in BOOLEAN

(* No thread leaves the memory: an index is past the end of the first half
   only between the two stores that advance it, and no count, grant or
   advance exceeds the buffer. *)
InMemory ==
  /\ write_index < 2 * BufSize /\ (wpc # "wrap" => write_index < BufSize)
  /\ n_available < BufSize /\ wspace <= NumItems
  /\ wdone <= BufSize /\ wbytes <= BufSize
  /\ \A r \in Readers :
       /\ read_index[r] < 2 * BufSize
       /\ rpc[r] # "wrap" => read_index[r] < BufSize
       /\ ravail[r] <= BufSize /\ rbytes[r] <= BufSize
       /\ seen[r] \in Seq(Nat)

TypeOK == Types /\ (misled \/ InMemory)

(* Bytes the readers can find, and bytes reader r has given back, counted
   from the first of the two stores of an advance. *)
Published == total_written + (IF wpc = "wrap" THEN wbytes ELSE 0)
Consumed(r) == total_read[r] + (IF rpc[r] = "wrap" THEN rbytes[r] ELSE 0)

(* However the advances of the two sides are torn and interleaved,
   bytes_available is the exact number of unread bytes, except when one side
   has an advance past the end half stored and the other has wrapped its
   index since (and then it never is).  Only a look in that window misleads. *)
AvailableIsExact ==
  misled \/ \A r \in Readers :
    BytesAvailable(write_index, read_index[r]) = Published - Consumed(r)
      <=> ~Overtaken(r)

(* The space granted to a work call (from a backlog read reader by reader)
   stays free for as long as the call runs: not even all of it filled would
   reach a byte that a reader has yet to give back. *)
WriteWindowIsFree ==
  (~misled /\ wpc \in {"work", "copy", "index"}) =>
    \A r \in Readers :
      Published + wspace * ItemSize - Consumed(r) <= BufSize - ItemSize

(* Every byte a reader's work call loads is the next byte of the stream:
   nothing lost, repeated, overwritten early or read from a stale half, until
   a thread has counted bytes in the window that Overtaken describes. *)
StreamIntegrity ==
  misled \/ \A r \in Readers : \A k \in 1..Len(seen[r]) :
    seen[r][k] = total_read[r] + k - 1

(* If the buffer holds one reader item beside two writer items (less one
   byte), the writer and all the readers are never blocked on each other,
   whichever of them are between the two stores of an advance. *)
NotBothBlocked ==
  (NumItems >= 2 /\ \A r \in Readers : ReaderItemSize[r] <= BufSize - 2 * ItemSize + 1)
    => \/ misled \/ \E r \in Readers : Overtaken(r)
       \/ \E r \in Readers : ItemsAvailable(r) >= 1
       \/ SpaceAvailable(Max({BytesAvailable(write_index, read_index[r]) : r \in Readers})) >= 1

(* The buffer implements the abstract stream of StreamChannel, step by step,
   for as long as no thread has been misled. *)
Channel == INSTANCE StreamChannel WITH
  Capacity <- BufSize - ItemSize,
  sent <- Published,
  taken <- [r \in Readers |-> Consumed(r)]

ImplementsChannel == Channel!Init /\ [][misled \/ Channel!Next]_Channel!vars
=============================================================================
