------------------------------ MODULE SmBuffer ------------------------------
(***************************************************************************)
(* The singly mapped stream buffer (buffer_sm, buffer_sm_reader): one      *)
(* memory, so that neither side is handed a window across its end, and all *)
(* of it used, so that equal indices mean empty or full by the running     *)
(* totals.  When a side is blocked, the executor asks the buffer to move   *)
(* the unread data: to the front if the writer is short of space, up to    *)
(* make room for the data at the end if a reader is short of items.        *)
(*                                                                         *)
(* Blocks in one thread run one after the other; with Threads each runs in *)
(* its own, and a reader looks at the writer's index and then at its total *)
(* while the writer advances them.  The writer asks all readers at once:   *)
(* what they consume while it asks only adds space.                        *)
(*                                                                         *)
(* Two things make a reader go wrong, and astray records for the           *)
(* properties that one has happened (no step depends on it): it compares   *)
(* the totals of another moment than the index it has loaded (Outdated),   *)
(* or a callback moves unread data.                                        *)
(***************************************************************************)
EXTENDS Integers, Sequences, FiniteSetsExt

CONSTANTS
  Readers,        (* the readers attached with add_reader                  *)
  NumItems,       (* _num_items                                            *)
  ItemSize,       (* _item_size: bytes in an item on the writer's side     *)
  ReaderItemSize, (* [Readers -> Nat] bytes in an item on a reader's side  *)
  MinFill,        (* min_buffer_fill; 0: not set                           *)
  MinRead,        (* min_buffer_read; 0: not set                           *)
  Threads,        (* every block has a thread of its own                   *)
  MaxItems        (* bound on the items written, and on those a reader     *)
                  (* that has gone astray gives back                       *)

ASSUME SmReaders == Readers # {}
ASSUME SmSizes ==
  /\ {NumItems, ItemSize} \subseteq Nat \ {0}
  /\ ReaderItemSize \in [Readers -> Nat \ {0}]
ASSUME SmBounds == {MinFill, MinRead, MaxItems} \subseteq Nat /\ Threads \in BOOLEAN

BufSize == NumItems * ItemSize

VARIABLES
  mem,            (* _buffer: the position in the stream of each byte      *)
  write_index,    (* _write_index, in bytes                                *)
  total_written,  (* _total_written, in items                              *)
  wpc,            (* the writer: "idle", "work", "post", "count"           *)
  space,          (* items granted to its work call                        *)
  stored,         (* bytes its work call has stored                        *)
  produced,       (* items its work call returned                          *)
  read_index,     (* [Readers -> Nat] _read_index, in bytes                *)
  total_read,     (* [Readers -> Nat] _total_read, in reader items         *)
  rpc,            (* [Readers -> {"idle", "look", "work"}]                 *)
  loaded,         (* [Readers -> Nat] the write index read_info has loaded *)
  granted,        (* [Readers -> Nat] items granted to the work call       *)
  seen,           (* [Readers -> Seq] bytes the work call has looked at    *)
  astray          (* history: some reader no longer finds its next byte    *)

writerVars == <<write_index, total_written, wpc, space, stored, produced>>
readerVars == <<read_index, total_read, rpc, loaded, granted, seen>>
vars == <<mem, writerVars, readerVars, astray>>

Init ==
  /\ mem = [a \in 0..(BufSize - 1) |-> -1]
  /\ write_index = 0 /\ total_written = 0
  /\ wpc = "idle" /\ space = 0 /\ stored = 0 /\ produced = 0
  /\ read_index = [r \in Readers |-> 0] /\ total_read = [r \in Readers |-> 0]
  /\ rpc = [r \in Readers |-> "idle"]
  /\ loaded = [r \in Readers |-> 0] /\ granted = [r \in Readers |-> 0]
  /\ seen = [r \in Readers |-> <<>>]
  /\ astray = FALSE

(* A thread runs one block after the other. *)
MayRun == Threads \/ (wpc = "idle" /\ \A r \in Readers : rpc[r] = "idle")

AtLeastOne(minimum) == Max({1, minimum})

-----------------------------------------------------------------------------
(* buffer_sm_reader::bytes_available, once it has loaded the write index. *)

(* Mutant: takes equal indices for an empty buffer. *)
BytesAvailableEmpty(r, w) ==
  IF w < read_index[r] THEN BufSize - read_index[r] ELSE w - read_index[r]

BytesAvailable(r, w) ==
  IF \/ w < read_index[r]
     \/ w = read_index[r] /\ total_read[r] < total_written
  THEN BufSize - read_index[r]
  ELSE w - read_index[r]

(* The reader found the indices equal and compares the totals now: the items
   published in between count as a full buffer to it. *)
Outdated(r) ==
  /\ loaded[r] = read_index[r] /\ write_index > read_index[r]
  /\ total_read[r] < total_written

ItemsAvailable(r, w) == BytesAvailable(r, w) \div ReaderItemSize[r]

(* buffer_sm::space_available: up to the reader that has read least, or to
   the end of the memory, and at most half of it. *)
Slowest == CHOOSE r \in Readers : \A s \in Readers : total_read[r] <= total_read[s]
SpaceBytes ==
  IF read_index[Slowest] > write_index THEN read_index[Slowest] - write_index
  ELSE IF read_index[Slowest] = write_index /\ total_read[Slowest] # total_written THEN 0
  ELSE BufSize - write_index

(* Mutant: equal indices are an empty buffer. *)
SpaceAvailableFull ==
  Min({(IF read_index[Slowest] > write_index THEN read_index[Slowest] ELSE BufSize)
       - write_index, NumItems \div 2})

SpaceAvailable == Min({SpaceBytes \div ItemSize, NumItems \div 2})

-----------------------------------------------------------------------------
(* The writer's block. *)

(* write_info grants enough items for a work call ... *)
WriteInfo ==
  /\ wpc = "idle" /\ MayRun
  /\ SpaceAvailable >= AtLeastOne(MinFill)
  /\ space' = SpaceAvailable
  /\ wpc' = "work"
  /\ UNCHANGED <<mem, write_index, total_written, stored, produced, readerVars, astray>>

(* ... or output_blocked_callback moves what is unread to the front, if it
   fits there, and the write index with it; the readers' indices stay. *)
OutputBlocked ==
  LET first == Min({read_index[r] : r \in Readers})
      size  == write_index - first
  IN
  /\ wpc = "idle" /\ MayRun
  /\ SpaceAvailable < AtLeastOne(MinFill)
  /\ IF SpaceAvailable > 0 /\ first # 0 /\ first < write_index /\ size <= first
     THEN /\ mem' = [a \in DOMAIN mem |-> IF a < size THEN mem[first + a] ELSE mem[a]]
          /\ write_index' = size
          /\ astray' = TRUE
     ELSE UNCHANGED <<mem, write_index, astray>>
  /\ UNCHANGED <<total_written, wpc, space, stored, produced, readerVars>>

(* Work stores the next byte of the stream ... *)
StoreByte ==
  /\ wpc = "work"
  /\ stored < space * ItemSize /\ total_written * ItemSize + stored < MaxItems * ItemSize
  /\ mem' = [mem EXCEPT ![write_index + stored] = total_written * ItemSize + stored]
  /\ stored' = stored + 1
  /\ UNCHANGED <<write_index, total_written, wpc, space, produced, readerVars, astray>>

(* ... and returns n items. *)
FinishWork(n) ==
  /\ wpc = "work" /\ n * ItemSize <= stored
  /\ produced' = n
  /\ wpc' = "post"
  /\ UNCHANGED <<mem, write_index, total_written, space, stored, readerVars, astray>>

(* Mutant: does not go back to the front at the end of the memory. *)
WrappedNever(i) == i

Wrapped(i) == IF i = BufSize THEN 0 ELSE i

(* post_write advances the index ... *)
PostWrite ==
  /\ wpc = "post"
  /\ write_index' = Wrapped(write_index + produced * ItemSize)
  /\ wpc' = "count"
  /\ UNCHANGED <<mem, total_written, space, stored, produced, readerVars, astray>>

(* ... and then the running total. *)
CountWritten ==
  /\ wpc = "count"
  /\ total_written' = total_written + produced
  /\ wpc' = "idle" /\ space' = 0 /\ stored' = 0 /\ produced' = 0
  /\ UNCHANGED <<mem, write_index, readerVars, astray>>

-----------------------------------------------------------------------------
(* A reader's block. *)

(* read_info loads the write index without a lock ... *)
LoadWriteIndex(r) ==
  /\ rpc[r] = "idle" /\ MayRun
  /\ loaded' = [loaded EXCEPT ![r] = write_index]
  /\ rpc' = [rpc EXCEPT ![r] = "look"]
  /\ UNCHANGED <<mem, writerVars, read_index, total_read, granted, seen, astray>>

(* ... and compares the totals if it is equal to the reader's own. *)
ReadInfo(r) ==
  /\ rpc[r] = "look"
  /\ ItemsAvailable(r, loaded[r]) >= AtLeastOne(MinRead)
  /\ granted' = [granted EXCEPT ![r] = ItemsAvailable(r, loaded[r])]
  /\ rpc' = [rpc EXCEPT ![r] = "work"]
  /\ astray' = (astray \/ Outdated(r))
  /\ UNCHANGED <<mem, writerVars, read_index, total_read, loaded, seen>>

(* adjust_buffer_data: the data behind the first index above the write index
   is put in front of the rest.  The indices are set as if they counted items,
   those of readers below the write index too. *)
Behind == {read_index[r] : r \in {s \in Readers : read_index[s] > write_index}}
Adjustable == Behind # {} /\ BufSize - Min(Behind) <= Min(Behind) - write_index
Adjust ==
  LET first == Min(Behind)
      tail  == BufSize - first
      items == tail \div ItemSize
      Source(a) == (first * ItemSize + a) % BufSize
  IN
  /\ mem' = [a \in DOMAIN mem |->
               IF a < tail THEN mem[Source(a)]
               ELSE IF a < tail + write_index THEN mem[a - tail] ELSE mem[a]]
  /\ read_index' = [r \in Readers |-> items - ItemsAvailable(r, write_index)]
  /\ write_index' = write_index + items
  /\ astray' = TRUE

(* Mutant: asks for as many items as the block waits for. *)
InputBlockedMinimum(r) ==
  /\ rpc[r] = "look"
  /\ ItemsAvailable(r, loaded[r]) < AtLeastOne(MinRead)
  /\ IF /\ ItemsAvailable(r, write_index) < AtLeastOne(MinRead)
        /\ write_index < read_index[r] /\ Adjustable
     THEN Adjust
     ELSE UNCHANGED <<mem, write_index, read_index, astray>>
  /\ rpc' = [rpc EXCEPT ![r] = "idle"]
  /\ UNCHANGED <<total_written, wpc, space, stored, produced, total_read,
                 loaded, granted, seen>>

(* Too few items: input_blocked_callback, which always asks for one item. *)
InputBlocked(r) ==
  /\ rpc[r] = "look"
  /\ ItemsAvailable(r, loaded[r]) < AtLeastOne(MinRead)
  /\ IF ItemsAvailable(r, write_index) < 1 /\ write_index < read_index[r] /\ Adjustable
     THEN Adjust
     ELSE UNCHANGED <<mem, write_index, read_index, astray>>
  /\ rpc' = [rpc EXCEPT ![r] = "idle"]
  /\ UNCHANGED <<total_written, wpc, space, stored, produced, total_read,
                 loaded, granted, seen>>

(* Work looks at the next byte ... *)
LoadByte(r) ==
  /\ rpc[r] = "work"
  /\ Len(seen[r]) < granted[r] * ReaderItemSize[r]
  /\ read_index[r] + Len(seen[r]) < BufSize
  /\ seen' = [seen EXCEPT ![r] = Append(@, mem[read_index[r] + Len(@)])]
  /\ UNCHANGED <<mem, writerVars, read_index, total_read, rpc, loaded, granted, astray>>

(* ... and returns n items, which post_read gives back. *)
PostRead(r, n) ==
  /\ rpc[r] = "work" /\ n <= granted[r]
  /\ (total_read[r] + n) * ReaderItemSize[r] <= MaxItems * ItemSize
  /\ read_index' = [read_index EXCEPT ![r] = Wrapped(@ + n * ReaderItemSize[r])]
  /\ total_read' = [total_read EXCEPT ![r] = @ + n]
  /\ rpc' = [rpc EXCEPT ![r] = "idle"]
  /\ loaded' = [loaded EXCEPT ![r] = 0] /\ granted' = [granted EXCEPT ![r] = 0]
  /\ seen' = [seen EXCEPT ![r] = <<>>]
  /\ UNCHANGED <<mem, writerVars, astray>>

WriterNext ==
  \/ WriteInfo \/ OutputBlocked \/ StoreByte
  \/ \E n \in 0..NumItems : FinishWork(n)
  \/ PostWrite \/ CountWritten
ReaderNext(r) ==
  \/ LoadWriteIndex(r) \/ ReadInfo(r) \/ InputBlocked(r) \/ LoadByte(r)
  \/ \E n \in 0..BufSize : PostRead(r, n)
Next == WriterNext \/ \E r \in Readers : ReaderNext(r)
Spec == Init /\ [][Next]_vars

-----------------------------------------------------------------------------
(* Properties. *)

(* The types of the variables.  The indices stay in the memory, also those of
   a reader that has gone astray. *)
TypeOK ==
  /\ mem \in [0..(BufSize - 1) -> Nat \cup {-1}]
  /\ write_index \in 0..(BufSize - 1) /\ total_written \in Nat
  /\ wpc \in {"idle", "work", "post", "count"}
  /\ {space, produced} \subseteq 0..NumItems /\ stored \in 0..BufSize
  /\ read_index \in [Readers -> 0..(BufSize - 1)] /\ total_read \in [Readers -> Nat]
  /\ rpc \in [Readers -> {"idle", "look", "work"}]
  /\ loaded \in [Readers -> 0..(BufSize - 1)]
  /\ granted \in [Readers -> 0..BufSize]
  /\ seen \in [Readers -> Seq(Nat \cup {-1})]
  /\ astray \in BOOLEAN

(* A work call reads the next bytes of the stream, until a reader has compared
   outdated totals or a callback has moved data ("Adjust write index and each
   reader index", buffer_sm.cc, where only the former is adjusted). *)
StreamIntegrity ==
  astray \/ \A r \in Readers : \A k \in 1..Len(seen[r]) :
    seen[r][k] = total_read[r] * ReaderItemSize[r] + k - 1

(* Bytes the readers can find: those of a post_write once it has moved the
   index. *)
Published == (total_written + IF wpc = "count" THEN produced ELSE 0) * ItemSize

(* Whatever the writer publishes between the two looks of a reader, the reader
   takes more bytes for its own than there are just when its look is Outdated;
   an index that has moved otherwise, wrapped or even come full circle, does
   no harm. *)
LookIsSafe ==
  astray \/ \A r \in Readers : rpc[r] = "look" =>
    (BytesAvailable(r, loaded[r]) <= Published - total_read[r] * ReaderItemSize[r]
       <=> ~Outdated(r))

(* With items of one size (graph::connect takes no others) no reader makes
   the buffer move data to the end: input_blocked_callback is asked for one
   item, and what is in front of the end of the memory is at least that. *)
NeverAdjusts ==
  [][\A r \in Readers : rpc[r] = "look" /\ rpc'[r] = "idle" =>
       UNCHANGED <<mem, write_index, read_index>>]_vars

(* Whatever part of the windows the work calls use, full memory included, the
   buffer is the abstract stream of StreamChannel until a reader goes astray. *)
Channel == INSTANCE StreamChannel WITH
  Capacity <- BufSize,
  sent <- Published,
  taken <- [r \in Readers |-> total_read[r] * ReaderItemSize[r]]
ImplementsChannel == Channel!Init /\ [][astray \/ Channel!Next]_Channel!vars

(* The writer and all the readers are blocked on each other only where the end
   of the memory cuts off what one of them waits for. *)
CutOffAtTheEnd ==
  \/ BufSize - write_index < AtLeastOne(MinFill) * ItemSize
  \/ \E r \in Readers : BufSize - read_index[r] < AtLeastOne(MinRead) * ReaderItemSize[r]
NotBothBlocked ==
  (NumItems \div 2 >= AtLeastOne(MinFill) /\ wpc = "idle") =>
    \/ astray \/ CutOffAtTheEnd
    \/ SpaceAvailable >= AtLeastOne(MinFill)
    \/ \E r \in Readers : ItemsAvailable(r, write_index) >= AtLeastOne(MinRead)
=============================================================================
