----------------------------- MODULE StreamOps -----------------------------
(***************************************************************************)
(* One block of blocklib between others, run by graph_executor: what its   *)
(* work function makes of any sequence of partly filled and partly drained *)
(* buffers, with output_multiple, several ports, the INSUFFICIENT codes    *)
(* and parameters changed while it runs.  The buffers have the sizes that  *)
(* buffer_manager gives them.                                              *)
(*                                                                         *)
(* file_sink's files are numbered as they are opened, from any thread.     *)
(*                                                                         *)
(* Item k of input p is <<p, k>>; the sources make <<0, k>>, delay pads    *)
(* with Zero, and an output of the filters is <<1, the inputs it sums>>    *)
(* (their taps and lengths do not change).  The neighbours write and read  *)
(* any number of items at a time and notify the block, which sleeps until  *)
(* it is notified: the notify_self of a READY iteration polls the queue    *)
(* once, and calls work only if something is in it.                        *)
(*                                                                         *)
(* A few work functions use more items than they are given, or produce     *)
(* more.  astray records that for the properties, which say nothing of     *)
(* what follows: the indices of the buffers mean nothing then.             *)
(***************************************************************************)
EXTENDS Integers, SequencesExt, FiniteSetsExt

CONSTANTS
  Kinds,         (* the blocks tried                                          *)
  FixedItems,    (* items of a buffer of s_fixed_buf_size                     *)
  MaxFeed,       (* bound on the items of each input                          *)
  MaxOut,        (* bound on the items read from a repeating source           *)
  Streams,       (* nstreams of the blocks with several ports                 *)
  BlockSize,     (* blocksize of interleave and deinterleave                  *)
  Delays,        (* the values set_dly is called with                         *)
  MaxChanges,    (* bound on calls of set_dly, and of open and close          *)
  M, N, Offset,  (* parameters of keep_m_in_n                                 *)
  NItems,        (* nitems of head                                            *)
  DataSize,      (* items of vector_source and of file_source                 *)
  Taps, FirDecim,     (* ntaps and decimation of fir_filter                   *)
  Length, MaxIter,    (* length and max_iter of moving_average                *)
  MinReads,      (* [Kinds -> SUBSET Nat] min_buffer_read of the inputs; 0:   *)
                 (* not set, which is how every block is made                 *)
  Word,          (* 2^64: what size_t is counted modulo                       *)
  Itemsizes      (* the itemsize of interleave and deinterleave: "given" to   *)
                 (* the constructor, or "unknown", which is the default       *)

ASSUME OpsSizes ==
  /\ {FixedItems, MaxFeed, MaxOut, Streams, BlockSize, M, N, NItems, DataSize,
      Taps, FirDecim, Length, MaxIter} \subseteq Nat \ {0}
  /\ MinReads \in [Kinds -> SUBSET Nat] /\ Word \in Nat /\ Word > 4 * MaxFeed
  /\ M <= N /\ Offset \in 0..(N - 1) /\ Delays \subseteq Nat /\ Delays # {}
  /\ MaxChanges \in Nat /\ Itemsizes \subseteq {"given", "unknown"}

Sources == {"vector_source", "vector_repeat", "file_source"}
ASSUME OpsKinds ==
  Kinds \subseteq Sources \cup {"delay", "keep_m_in_n", "interleave", "deinterleave",
                                "stream_to_streams", "head", "fir_filter", "moving_average",
                                "file_sink"}

Ports == 1..Streams

VARIABLES
  kind, min_read,    (* the block, and the min_buffer_read of its inputs      *)
  fed,               (* [Ports -> Nat] items written to each input            *)
  consumed,          (* [Ports -> Nat] ... and consumed by the block          *)
  out,               (* [Ports -> Seq] items produced on each output          *)
  drained,           (* [Ports -> Nat] ... and read by the block behind it    *)
  tags,              (* offsets of the tags added to output 1                 *)
  awake,             (* a notification waits in the queue                     *)
  status,            (* executor_iteration_status of the last iteration       *)
  silent,            (* history: work returned WORK_OK then, with no output   *)
  astray,            (* history: work has gone beyond what it was given       *)
  d_delay, d_delta,  (* delay: the delay, and what is not yet carried out     *)
  changes,           (* calls of set_dly, or of open and close                *)
  d_itemsize,        (* of the two: "given", "unknown" or "found"             *)
  d_offset,          (* items of a source's data so far                       *)
  d_file_begin, d_items_remaining, (* file_source                             *)
  d_sum,             (* moving_average's: the inputs in it                    *)
  d_fp, d_new_fp, d_updated, (* file_sink: the file in use, the one to be     *)
  files              (* the items in each of the files                        *)

sourceVars == <<d_offset, d_file_begin, d_items_remaining>>
fileVars == <<d_fp, d_new_fp, d_updated, files>>
ownVars == <<d_delay, d_delta, changes, d_itemsize, sourceVars, d_sum, fileVars>>
historyVars == <<silent, astray>>
vars == <<kind, min_read, fed, consumed, out, drained, tags, awake, status, historyVars, ownVars>>

Ins == CASE kind \in Sources -> {}
         [] kind = "interleave" -> Ports
         [] OTHER -> {1}
Outs == CASE kind \in {"deinterleave", "stream_to_streams"} -> Ports
          [] kind = "file_sink" -> {}
          [] OTHER -> {1}

OutputMultiple ==
  CASE kind = "keep_m_in_n" -> M
    [] kind = "interleave" -> BlockSize * Streams
    [] kind = "deinterleave" -> IF d_itemsize = "unknown" THEN 1 ELSE BlockSize
    [] kind \in {"vector_source", "vector_repeat"} -> DataSize
    [] OTHER -> 1

(* The output_multiple when the buffers are made. *)
FirstMultiple ==
  IF kind = "deinterleave" /\ d_itemsize # "given" THEN 1 ELSE OutputMultiple

(* 1 / relative_rate * output_multiple *)
Decimation ==
  CASE kind = "keep_m_in_n" -> N
    [] kind = "interleave" -> BlockSize
    [] kind = "deinterleave" -> FirstMultiple * Streams
    [] kind = "fir_filter" -> FirDecim
    [] OTHER -> 1

(* get_buffer_num_items, for the buffers before the block and behind it; a
   buffer keeps one item free. *)
InCap == Max({FixedItems, 2 * Decimation}) - 1

OutCap == Max({FixedItems, 2 * FirstMultiple}) - 1

NoFile == 0
Init ==
  /\ kind \in Kinds /\ min_read \in MinReads[kind]
  /\ fed = [p \in Ports |-> 0] /\ consumed = [p \in Ports |-> 0]
  /\ out = [p \in Ports |-> <<>>] /\ drained = [p \in Ports |-> 0]
  /\ tags = {} /\ awake = TRUE /\ status = "NONE"
  /\ silent = FALSE /\ astray = FALSE
  /\ d_delay \in Delays /\ (kind # "delay" => d_delay = Min(Delays))
  /\ d_delta = d_delay /\ changes = 0
  /\ d_itemsize \in Itemsizes /\ (kind \notin {"interleave", "deinterleave"} => d_itemsize = "given")
  /\ d_offset = 0
  /\ d_file_begin = TRUE /\ d_items_remaining = DataSize
  /\ d_sum = <<>>
  /\ d_fp = NoFile /\ d_new_fp = 1 /\ d_updated = TRUE
  /\ files = <<<<>>>>

-----------------------------------------------------------------------------
(* The blocks before and behind, and the application. *)

Available(p) == fed[p] - consumed[p]
(* Mutant: fills the item that is kept free. *)
SpaceNoGap(p) == OutCap + 1 - (Len(out[p]) - drained[p])
(* All but one item, and at most half of the buffer. *)
Space(p) == Min({OutCap - (Len(out[p]) - drained[p]), (OutCap + 1) \div 2})

Feed(p, n) ==
  /\ p \in Ins /\ n <= InCap - Available(p) /\ fed[p] + n <= MaxFeed
  /\ fed' = [fed EXCEPT ![p] = @ + n]
  /\ awake' = TRUE
  /\ UNCHANGED <<kind, min_read, consumed, out, drained, tags, status, historyVars, ownVars>>

Drain(p, n) ==
  /\ p \in Outs /\ n <= Len(out[p]) - drained[p]
  /\ kind \in Sources => drained[p] + n <= MaxOut
  /\ drained' = [drained EXCEPT ![p] = @ + n]
  /\ awake' = TRUE
  /\ UNCHANGED <<kind, min_read, fed, consumed, out, tags, status, historyVars, ownVars>>

(* Mutant: forgets what the last call left over. *)
SetDlyFresh(d) ==
  /\ kind = "delay" /\ d # d_delay /\ changes < MaxChanges
  /\ d_delta' = d - d_delay
  /\ d_delay' = d /\ changes' = changes + 1
  /\ UNCHANGED <<kind, min_read, fed, consumed, out, drained, tags, awake, status, historyVars,
                 d_itemsize, sourceVars, d_sum, fileVars>>

(* delay's set_dly, from any thread, between two work calls. *)
SetDly(d) ==
  /\ kind = "delay" /\ d # d_delay /\ changes < MaxChanges
  /\ d_delta' = d_delta + d - d_delay
  /\ d_delay' = d /\ changes' = changes + 1
  /\ UNCHANGED <<kind, min_read, fed, consumed, out, drained, tags, awake, status, historyVars,
                 d_itemsize, sourceVars, d_sum, fileVars>>

(* file_sink's open: a file that waits to be installed is closed again ... *)
OpenFile ==
  /\ kind = "file_sink" /\ changes < MaxChanges
  /\ files' = Append(files, <<>>)
  /\ d_new_fp' = Len(files') /\ d_updated' = TRUE /\ changes' = changes + 1
  /\ UNCHANGED <<kind, min_read, fed, consumed, out, drained, tags, awake, status, historyVars,
                 d_delay, d_delta, d_itemsize, sourceVars, d_sum, d_fp>>

(* ... and close. *)
CloseFile ==
  /\ kind = "file_sink" /\ changes < MaxChanges
  /\ d_new_fp' = NoFile /\ d_updated' = TRUE /\ changes' = changes + 1
  /\ UNCHANGED <<kind, min_read, fed, consumed, out, drained, tags, awake, status, historyVars,
                 d_delay, d_delta, d_itemsize, sourceVars, d_sum, d_fp, files>>

-----------------------------------------------------------------------------
(* run_one_iteration. *)

RoundDown(n, multiple) == (n \div multiple) * multiple
OutItems(p) == RoundDown(Space(p), OutputMultiple)

(* An input is short of items, or an output has no space for a multiple. *)
Enough(p) == Available(p) >= Max({1, min_read})
BlockedIn ==
  /\ awake /\ \E p \in Ins : ~Enough(p)
  /\ awake' = FALSE /\ status' = "BLKD_IN" /\ silent' = FALSE
  /\ UNCHANGED <<kind, min_read, fed, consumed, out, drained, tags, astray, ownVars>>
BlockedOut ==
  /\ awake /\ (\A p \in Ins : Enough(p)) /\ \E p \in Outs : OutItems(p) <= 0
  /\ awake' = FALSE /\ status' = "BLKD_OUT" /\ silent' = FALSE
  /\ UNCHANGED <<kind, min_read, fed, consumed, out, drained, tags, astray, ownVars>>

Ready(k) ==
  /\ kind = k /\ awake
  /\ \A p \in Ins : Enough(p)
  /\ \A p \in Outs : OutItems(p) >= 1

(* Work returned INSUFFICIENT_INPUT_ITEMS, and again with fewer and fewer
   output items, or INSUFFICIENT_OUTPUT_ITEMS: nothing is posted. *)
Insufficient(blocked) ==
  /\ awake' = FALSE /\ status' = blocked /\ silent' = FALSE
  /\ UNCHANGED <<kind, min_read, fed, consumed, out, drained, tags, astray, ownVars>>

(* What an item that is not there yet is read as. *)
Garbage == -1

(* Work consumed c items of each input and produced the sequences o[p]: more
   than it was given, fewer than none, from items that are not there, or from
   some that moving_average will take for new ones again. *)
Beyond(c, o) ==
  \/ \E p \in Ins : c \notin 0..Available(p)
  \/ \E p \in Outs : Len(o[p]) > OutItems(p)
  \/ kind = "fir_filter" /\ \E k \in DOMAIN o[1] : Garbage \in Range(o[1][k][2])
  \/ kind = "moving_average" /\ c = 0 /\ o[1] # <<>>

(* ... with tags at t, and returned ret. *)
Post(c, o, t, ret) ==
  /\ consumed' = [p \in Ports |-> IF p \in Ins THEN consumed[p] + c ELSE 0]
  /\ out' = [p \in Ports |-> IF p \in Outs THEN out[p] \o o[p] ELSE <<>>]
  /\ tags' = tags \cup t
  /\ status' = IF ret = "READY" /\ Ins = {} /\ Len(o[1]) = 0 THEN "BLKD_IN" ELSE ret
  /\ silent' = (status' = "READY" /\ Outs # {} /\ out' = out)
  /\ astray' = (astray \/ Beyond(c, o))
  /\ awake' = FALSE
  /\ UNCHANGED <<kind, min_read, fed, drained>>

(* Items i, i+1, ... up to n of them, of input 1. *)
Copied(i, n) == [k \in 1..n |-> <<1, consumed[1] + i + k - 1>>]

-----------------------------------------------------------------------------
(* The work functions. *)

Zero == <<0, -1>>

(* delay: copies, skips -d_delta items, or pads with d_delta of them. *)
DelayWork ==
  LET n    == Min({OutItems(1), Available(1)})
      skip == Min({-d_delta, n})
      pad  == Min({d_delta, n})
  IN
  /\ Ready("delay")
  /\ IF d_delta <= 0
     THEN /\ Post(n, <<Copied(skip, n - skip)>>, {}, "READY")
          /\ d_delta' = d_delta + skip
     ELSE /\ Post(n - pad, <<[k \in 1..pad |-> Zero] \o Copied(0, n - pad)>>, {}, "READY")
          /\ d_delta' = d_delta - pad
  /\ UNCHANGED <<changes, d_delay, d_itemsize, sourceVars, d_sum, fileVars>>

(* Mutant: cuts off what goes beyond the end. *)
ExcessNone == 0
Excess == Max({0, Offset + M - N})

(* keep_m_in_n: of each n items, m from the offset on; what goes beyond the
   end of the n comes from their beginning, first. *)
KeepWork ==
  LET blks   == Min({OutItems(1) \div M, Available(1) \div N})
      Block(i) == Copied(i * N, Excess) \o Copied(i * N + Offset, M - Excess)
      Result == FlattenSeq([i \in 1..blks |-> Block(i - 1)])
  IN
  /\ Ready("keep_m_in_n")
  /\ Post(blks * N, <<Result>>, {}, "READY")
  /\ UNCHANGED ownVars

(* interleave, which spends its first work call on finding the item size ... *)
InterleaveStart ==
  /\ Ready("interleave") /\ d_itemsize = "unknown"
  /\ d_itemsize' = "found"
  /\ Post(0, <<<<>>>>, {}, "READY")
  /\ UNCHANGED <<d_delay, d_delta, changes, sourceVars, d_sum, fileVars>>

(* Mutant: asks for all outputs' worth of items of each input. *)
OutputBlocksAll(nin, nout) == Min({nin, nout}) \div (BlockSize * Streams)

(* ... and then copies a block of each input in turn. *)
OutputBlocks(nin, nout) == Min({nin \div BlockSize, nout \div (BlockSize * Streams)})
InterleaveWork ==
  LET blocks == OutputBlocks(Min({Available(p) : p \in Ins}), OutItems(1))
      Block(i, p) == [k \in 1..BlockSize |-> <<p, consumed[p] + i * BlockSize + k - 1>>]
      Round(i) == FlattenSeq([p \in 1..Streams |-> Block(i, p)])
      Result == FlattenSeq([i \in 1..blocks |-> Round(i - 1)])
  IN
  /\ Ready("interleave") /\ d_itemsize # "unknown"
  /\ IF blocks < 1
     THEN Insufficient("BLKD_OUT")
     ELSE Post(blocks * BlockSize, <<Result>>, {}, "READY") /\ UNCHANGED ownVars

OutputRoom == Min({OutItems(p) : p \in Outs})

(* deinterleave, which sets its output_multiple in its first work call if it
   does not know the item size before ... *)
DeinterleaveStart ==
  /\ Ready("deinterleave") /\ d_itemsize = "unknown"
  /\ d_itemsize' = "found"
  /\ Post(0, [p \in Ports |-> <<>>], {}, "READY")
  /\ UNCHANGED <<d_delay, d_delta, changes, sourceVars, d_sum, fileVars>>

(* ... and then copies a block to each output in turn. *)
DeinterleaveWork ==
  LET most   == BlockSize * (Available(1) \div (BlockSize * Streams))
      blocks == Min({OutputRoom, most}) \div BlockSize
      Result == [p \in Ports |->
        FlattenSeq([i \in 1..blocks |-> Copied(((i - 1) * Streams + p - 1) * BlockSize, BlockSize)])]
  IN
  /\ Ready("deinterleave") /\ d_itemsize # "unknown"
  /\ IF most < 1
     THEN Insufficient("BLKD_IN")
     ELSE Post(blocks * BlockSize * Streams, Result, {}, "READY") /\ UNCHANGED ownVars

(* stream_to_streams looks at the space of its first output only. *)
StreamsWork ==
  LET n == Min({Available(1) \div Streams, OutItems(1)})
      Result == [p \in Ports |-> [k \in 1..n |-> <<1, consumed[1] + (k - 1) * Streams + p - 1>>]]
  IN
  /\ Ready("stream_to_streams")
  /\ Post(n * Streams, Result, {}, "READY")
  /\ UNCHANGED ownVars

(* head: a sync_block, done after NItems. *)
HeadWork ==
  LET n == Min({OutItems(1), Available(1), NItems - Len(out[1])}) IN
  /\ Ready("head")
  /\ Post(n, <<Copied(0, n)>>, {}, IF Len(out[1]) + n >= NItems THEN "DONE" ELSE "READY")
  /\ UNCHANGED ownVars

FromData(i, n) == [k \in 1..n |-> <<0, (i + k - 1) % DataSize>>]
Written == Len(out[1])

(* vector_source with a tag on its first item: once through ... *)
VectorWork ==
  LET n == Min({DataSize - d_offset, OutItems(1)}) IN
  /\ Ready("vector_source")
  /\ Post(0, <<FromData(d_offset, n)>>,
          IF d_offset = 0 THEN {0} ELSE {}, IF n = 0 THEN "DONE" ELSE "READY")
  /\ d_offset' = d_offset + n
  /\ UNCHANGED <<d_delay, d_delta, changes, d_itemsize, d_file_begin, d_items_remaining, d_sum,
                 fileVars>>
(* ... or again and again, always a multiple of all of its data. *)
RepeatWork ==
  /\ Ready("vector_repeat")
  /\ Post(0, <<FromData(0, OutItems(1))>>,
          {Written + i : i \in {j \in 0..(OutItems(1) - 1) : j % DataSize = 0}}, "READY")
  /\ UNCHANGED ownVars

(* file_source, repeating: a tag at each beginning of the file, on the item
   that follows, which another work call may read. *)
FileWork ==
  LET n     == OutItems(1)
      first == DataSize - d_items_remaining
      Begins == {k \in 0..(n - 1) : (first + k) % DataSize = 0}
  IN
  /\ Ready("file_source")
  /\ Post(0, <<FromData(first, n)>>,
          {Written + k : k \in {j \in Begins : j > 0 \/ d_file_begin}}, "READY")
  /\ d_items_remaining' = DataSize - ((first + n) % DataSize)
  /\ d_file_begin' = (d_items_remaining' = DataSize)
  /\ UNCHANGED <<d_delay, d_delta, changes, d_itemsize, d_offset, d_sum, fileVars>>

(* fir_filter: each output sums Taps inputs, FirDecim after those of the last.
   The counts are size_t, and wrap if there are fewer items than the history. *)
Loaded(i) == IF i < fed[1] THEN i ELSE Garbage
FirWork ==
  LET left == (Available(1) - (Taps - 1)) % Word
      n    == Min({Min({OutItems(1) * FirDecim + Taps - 1, left}) \div FirDecim, OutItems(1)})
      Result == [k \in 1..n |->
        <<1, [j \in 1..Taps |-> Loaded(consumed[1] + (k - 1) * FirDecim + j - 1)]>>]
  IN
  /\ Ready("fir_filter")
  /\ IF n = 0
     THEN Insufficient("BLKD_IN")
     ELSE Post(n * FirDecim, <<Result>>, {}, "READY") /\ UNCHANGED ownVars

(* moving_average: adds the next input to d_sum for each output and takes the
   oldest off.  Until it has consumed something it has no history, and keeps
   Length - 1 of what it has summed, even if it has summed fewer. *)
MovingWork ==
  LET n     == Min({Available(1) - Length, OutItems(1), MaxIter})
      first == consumed[1] = 0
      ahead == IF first THEN 0 ELSE Length - 1
      all   == d_sum \o [k \in 1..n |-> consumed[1] + ahead + k - 1]
      Dropped(k) == IF first THEN Max({0, k - Length}) ELSE k - 1
      Result == [k \in 1..n |-> <<1, SubSeq(all, Dropped(k) + 1, Len(d_sum) + k)>>]
  IN
  /\ Ready("moving_average")
  /\ IF Available(1) < Length
     THEN Insufficient("BLKD_IN")
     ELSE /\ Post(IF first THEN n - (Length - 1) ELSE n, <<Result>>, {}, "READY")
          /\ d_sum' = SubSeq(all, Dropped(n + 1) + 1, Len(all))
          /\ UNCHANGED <<d_delay, d_delta, changes, d_itemsize, sourceVars, fileVars>>

(* do_update installs the file that was opened last, or none. *)
DoUpdate ==
  /\ d_fp' = IF d_updated THEN d_new_fp ELSE d_fp
  /\ d_new_fp' = IF d_updated THEN NoFile ELSE d_new_fp
  /\ d_updated' = FALSE

(* file_sink: after do_update, writes all of its input, or drops it "on the
   floor" when there is no file. *)
FileSinkWork ==
  LET n == Available(1) IN
  /\ Ready("file_sink")
  /\ Post(n, [p \in Ports |-> <<>>], {}, "READY")
  /\ DoUpdate
  /\ files' = IF d_fp' = NoFile THEN files ELSE [files EXCEPT ![d_fp'] = @ \o Copied(0, n)]
  /\ UNCHANGED <<d_delay, d_delta, changes, d_itemsize, sourceVars, d_sum>>

Work == DelayWork \/ KeepWork \/ InterleaveStart \/ InterleaveWork
        \/ DeinterleaveStart \/ DeinterleaveWork \/ StreamsWork \/ HeadWork \/ VectorWork \/ RepeatWork \/ FileWork
        \/ FirWork \/ MovingWork \/ FileSinkWork
Iterate == BlockedIn \/ BlockedOut \/ Work
FeedSome(p) == \E n \in 1..MaxFeed : Feed(p, n)
DrainSome(p) == \E n \in 1..MaxOut : Drain(p, n)
Next ==
  \/ Iterate
  \/ \E p \in Ports : FeedSome(p) \/ DrainSome(p)
  \/ \E d \in Delays : SetDly(d)
  \/ OpenFile \/ CloseFile
(* The threads of all blocks go on. *)
Fairness ==
  /\ WF_vars(Iterate)
  /\ \A p \in Ports : WF_vars(FeedSome(p)) /\ WF_vars(DrainSome(p))
Spec == Init /\ [][Next]_vars /\ Fairness

-----------------------------------------------------------------------------
(* Properties. *)

(* "The work call can only produce the minimum available across the buffers"
   (graph_executor.cc): of all blocks only stream_to_streams, which looks at
   one output, goes beyond that; and only a filter whose input has a smaller
   min_buffer_read than its history needs takes more than there is. *)
HistoryNeeded ==
  CASE kind = "fir_filter" -> Taps - 1
    [] kind = "moving_average" -> 2 * Length
    [] OTHER -> 0
MayGoAstray == kind = "stream_to_streams" \/ min_read < HistoryNeeded

(* The types of the variables, and that no buffer is overrun. *)
TypeOK ==
  /\ kind \in Kinds /\ status \in {"NONE", "BLKD_IN", "BLKD_OUT", "READY", "DONE"}
  /\ min_read \in MinReads[kind] /\ {awake, d_file_begin, silent, astray} \subseteq BOOLEAN
  /\ tags \subseteq 0..(Len(out[1]) - 1)
  /\ d_delay \in Delays /\ d_delta \in Int /\ changes \in 0..MaxChanges
  /\ d_itemsize \in {"given", "unknown", "found"}
  /\ d_offset \in 0..DataSize /\ d_items_remaining \in 1..DataSize
  /\ {d_fp, d_new_fp} \subseteq 0..Len(files) /\ d_updated \in BOOLEAN
  /\ IF astray
     THEN MayGoAstray
     ELSE /\ \A p \in Ports : Available(p) \in 0..InCap /\ Len(out[p]) - drained[p] \in 0..OutCap
          /\ d_sum \in Seq(Nat) /\ Len(d_sum) < Length

(* What each block is for: item k of output p, whatever the work calls. *)
Kept == {j \in 0..(N - 1) : (j - Offset) % N < M}
KeptAt(k) == CHOOSE j \in Kept : Cardinality({i \in Kept : i < j}) = k
Expected(p, k) ==
  LET block == k \div BlockSize
      rest  == k % BlockSize
  IN
  CASE kind = "delay" -> IF k < d_delay THEN Zero ELSE <<1, k - d_delay>>
    [] kind = "keep_m_in_n" -> <<1, (k \div M) * N + KeptAt(k % M)>>
    [] kind = "interleave" ->
         <<1 + (block % Streams), ((block \div Streams) * BlockSize) + rest>>
    [] kind = "deinterleave" -> <<1, (block * Streams + p - 1) * BlockSize + rest>>
    [] kind = "stream_to_streams" -> <<1, k * Streams + p - 1>>
    [] kind = "head" -> <<1, k>>
    [] kind = "fir_filter" -> <<1, [j \in 1..Taps |-> k * FirDecim + j - 1]>>
    [] kind = "moving_average" -> <<1, [j \in 1..Min({k + 1, Length}) |-> Max({0, k + 1 - Length}) + j - 1]>>
    [] OTHER -> <<0, k % DataSize>>

(* "Close current output file and ignores any output until open is called"
   (file_sink_base.h): however open and close fall between the work calls, no
   item is in two files or behind a later one, the file in use has the latest,
   and without a close all of the input is in one of the files. *)
FilesHoldStream ==
  LET stored == FlattenSeq(files) IN
  /\ \A j, k \in DOMAIN stored : j < k => stored[j][2] < stored[k][2]
  /\ d_fp # NoFile => files[d_fp] # <<>> /\ Last(files[d_fp])[2] = consumed[1] - 1
  /\ changes = Len(files) - 1 => Len(stored) = consumed[1]

(* The output is a function of the input alone, however the stream is cut
   into work calls, until one goes beyond what it was given; tags of a source
   are where its data begin; what file_sink is given goes to its files. *)
OutputIsFunction ==
  /\ changes = 0 /\ ~astray =>
       \A p \in Outs : \A k \in DOMAIN out[p] : out[p][k] = Expected(p, k - 1)
  /\ kind \in Sources => tags = {k \in 0..(Len(out[1]) - 1) : k % DataSize = 0}
  /\ kind = "head" => Len(out[1]) <= NItems
  /\ kind = "file_sink" => FilesHoldStream

(* However set_dly falls between the work calls of delay, padding and skipping
   add up to the delay that was set last, and no item is copied twice or out
   of order. *)
DelayAddsUp ==
  kind = "delay" =>
    /\ Len(out[1]) - consumed[1] = d_delay - d_delta
    /\ \A j, k \in DOMAIN out[1] : (j < k /\ out[1][j] # Zero /\ out[1][k] # Zero)
         => out[1][j][2] < out[1][k][2]

(* The whole input is there, and less of it is left than a work call needs. *)
InputUsed ==
  /\ \A p \in Ins : fed[p] = MaxFeed
  /\ CASE kind = "keep_m_in_n" -> Available(1) < N
       [] kind = "deinterleave" -> Available(1) < BlockSize * Streams
       [] kind = "stream_to_streams" -> Available(1) < Streams
       [] kind = "interleave" -> \E p \in Ports : Available(p) < BlockSize
       [] kind = "fir_filter" -> Available(1) < Taps - 1 + FirDecim
       [] kind = "moving_average" -> Available(1) <= Length \/ ~Enough(1)
       [] OTHER -> Available(1) = 0
Finished ==
  CASE kind = "head" -> Len(out[1]) = NItems
    [] kind = "vector_source" -> drained[1] = Min({DataSize, MaxOut})
    [] kind \in Sources -> drained[1] = MaxOut
    [] OTHER -> InputUsed

(* The sizes of get_buffer_num_items suffice, and a block that was blocked, or
   had insufficient items, is called again: all of the input is used, and the
   sources go on.  Excepted is a block that sleeps since a work call that
   returned WORK_OK and produced nothing, so that no block behind it answers:
   such a call, of an interleave or deinterleave that finds its item size, a
   delay that only skips or a moving average that has just its history, spends
   the notification. *)
SleepsOnWork == silent /\ kind \in {"interleave", "deinterleave", "delay", "moving_average"}
AllIsUsed == <>[](Finished \/ SleepsOnWork \/ astray)
=============================================================================
