------------------------------ MODULE WalStore ------------------------------
(***************************************************************************)
(* storage.WAL (src/storage/wal_segment.go): a log of frames in segment    *)
(* files of fixed size, each with a sparse index, both memory-mapped.      *)
(* Every method holds w.mu and is one step.  What a step writes to a       *)
(* mapping survives the process; what a flush has written to disk survives *)
(* a power failure, and of the rest any set of pages may.                  *)
(*                                                                         *)
(* Calls of the operating system succeed, except the opening of a new      *)
(* segment's files.  SyncOnWrite is an Append followed by a Sync.          *)
(***************************************************************************)
EXTENDS Frames, SparseIndex, Selection

CONSTANTS
  MaxSegmentBytes, IndexInterval,   \* Config
  NotFound,                         \* what ReadAt's errors return
  PageBytes,                        \* what the disk takes at a time
  MaxRecords,           \* bound: no record gets this offset
  MaxClosed,            \* bound: rolls in the life of a process
  Faults                \* bound: which of AllFaults may happen

\* A header that a crash cuts short before its length; records appended after a
\* power failure; a failed roll that leaves the file of the new segment behind.
AllFaults == {"torn header", "append after outage", "half-made segment"}

ASSUME SegmentAssumption ==
  /\ MaxSegmentBytes \in Nat \ {0} /\ IndexInterval \in Nat \ {0} /\ PageBytes \in Nat \ {0}
  /\ MaxEntries > MaxSegmentBytes \div IndexInterval
  /\ NotFound \notin Payload
ASSUME WalBoundAssumption ==
  MaxRecords \in Nat /\ MaxClosed \in Nat /\ Faults \subseteq AllFaults

VARIABLES
  files,                  \* the base offsets of the segments whose files exist
  mem, indexMem,          \* the mapped contents of every .log and .index file
  disk, indexDisk,        \* what of them is on disk
  isOpen,
  segments,               \* the Segment objects of this life of the process
  closed,                 \* closedSegments, as positions in segments
  active,                 \* activeSegment
  nextOffset,
  records,                \* the payloads the frames in the files hold, by offset
  synced,                 \* how many of them a flush has covered
  hadOutage

fileVars == <<files, mem, indexMem>>
diskVars == <<disk, indexDisk>>
walVars  == <<isOpen, segments, closed, active, nextOffset>>
vars == <<fileVars, diskVars, walVars, records, synced, hadOutage>>

Base == 0..MaxRecords
Position == 0..MaxSegmentBytes - 1
EmptyLog == [p \in Position |-> Zero]

-----------------------------------------------------------------------------
(* Segments.                                                               *)

\* recover: where the frames of a segment end, and the offset after the last one.
Recovered(base, cells) ==
  LET scan[pos \in 0..MaxSegmentBytes] ==
        IF ~Decodes(cells, pos, MaxSegmentBytes) THEN [end |-> pos, next |-> base]
        ELSE LET rest == scan[NextFrame(cells, pos)] IN
             IF rest.end = NextFrame(cells, pos)
             THEN [end |-> rest.end, next |-> FrameAt(cells, pos).offset + 1]
             ELSE rest
  IN scan[0]

\* NewSegment over the files as they are.
NewSegment(base, isNew, cells) ==
  [base |-> base, next |-> Recovered(base, cells).next, writePos |-> Recovered(base, cells).end,
   lastIndexByte |-> 0, entries |-> EntryCount(isNew)]

Fits(seg, d) == seg.writePos + FrameLen(d) <= MaxSegmentBytes

\* Segment.Append's errors.
Writable(seg, d) == Encodable(d) /\ Fits(seg, d)

\* Mutant: the entry points behind its frame.
IndexPosLate(seg, d) == seg.writePos + FrameLen(d)

\* The position an index entry is given.
IndexPos(seg, d) == seg.writePos

\* Whether Segment.Append writes an index entry; a full index is not an error.
Indexed(seg) ==
  /\ seg.writePos - seg.lastIndexByte >= IndexInterval \/ seg.writePos = 0
  /\ ~IndexFull(seg.entries)

Appended(seg, d) ==
  [base |-> seg.base, next |-> nextOffset + 1, writePos |-> seg.writePos + FrameLen(d),
   lastIndexByte |-> IF Indexed(seg) THEN seg.writePos ELSE seg.lastIndexByte,
   entries |-> IF Indexed(seg) THEN seg.entries + 1 ELSE seg.entries]

\* The first k cells of the record's frame, copied to the segment's write position.
Written(seg, d, k) ==
  [p \in Position |->
     IF p \in seg.writePos .. seg.writePos + k - 1
     THEN EncodeFrame(nextOffset, d)[p - seg.writePos + 1] ELSE mem[seg.base][p]]

IndexWritten(seg, d) ==
  IF Indexed(seg)
  THEN WithEntry(indexMem[seg.base], seg.entries, nextOffset - seg.base, IndexPos(seg, d))
  ELSE indexMem[seg.base]

\* Segment.ReadAt.
SegmentReadAt(seg, offset, cells, entries) ==
  LET find[pos \in 0..MaxSegmentBytes] ==
        IF ~Decodes(cells, pos, seg.writePos) THEN NotFound
        ELSE IF FrameAt(cells, pos).offset = offset THEN FrameAt(cells, pos).data
        ELSE find[NextFrame(cells, pos)]
  IN IF offset < seg.base \/ offset >= seg.next THEN NotFound
     ELSE find[Lookup(entries, seg.entries, offset - seg.base)]

-----------------------------------------------------------------------------
(* OpenWAL.                                                                *)

\* The base offsets in ascending order.
Sorted(bases) == [i \in 1..Cardinality(bases) |-> Nth(bases, i)]

Last(bases) == CHOOSE b \in bases : \A c \in bases : c <= b

\* The segments OpenWAL makes of the files; the last one is active.  The first start
\* finds no file and makes one.
OpenedSegments ==
  IF files = {} THEN <<NewSegment(0, TRUE, EmptyLog)>>
  ELSE [i \in 1..Cardinality(files) |->
          NewSegment(Sorted(files)[i], FALSE, mem[Sorted(files)[i]])]

OpenWAL ==
  /\ ~isOpen
  /\ isOpen' = TRUE
  /\ files' = files \cup (IF files = {} THEN {0} ELSE {})
  /\ segments' = OpenedSegments
  /\ active' = Len(OpenedSegments)
  /\ closed' = [i \in 1..Len(OpenedSegments) - 1 |-> i]
  /\ nextOffset' = OpenedSegments[Len(OpenedSegments)].next
  /\ UNCHANGED <<mem, indexMem, diskVars, records, synced, hadOutage>>

\* WAL.ReadAt: the active segment, or the newest closed one that may hold the offset.
ReadAt(offset) ==
  LET holders == {i \in 1..Len(closed) : offset >= segments[closed[i]].base}
      read(seg) == SegmentReadAt(seg, offset, mem[seg.base], indexMem[seg.base])
  IN IF offset >= segments[active].base THEN read(segments[active])
     ELSE IF holders = {} THEN NotFound
     ELSE read(segments[closed[CHOOSE i \in holders : \A j \in holders : j <= i]])

-----------------------------------------------------------------------------
(* WAL.Append.                                                             *)

MayAppend == isOpen /\ nextOffset < MaxRecords /\ (hadOutage => "append after outage" \in Faults)

\* Mutant: a full segment is rolled without a flush.
FlushNothing == UNCHANGED diskVars

\* Flush of the active segment and its index.
FlushActive ==
  LET base == segments[active].base IN
  /\ disk' = [disk EXCEPT ![base] = mem[base]]
  /\ indexDisk' = [indexDisk EXCEPT ![base] = indexMem[base]]

\* rollActiveSegment's new segment.  Its files exist already when the active segment
\* is empty, or when an earlier roll has failed after making them.
Rolled == NewSegment(nextOffset, nextOffset \notin files, mem[nextOffset])

\* A roll, up to what becomes of the new segment.
Roll(d) ==
  /\ ~Fits(segments[active], d) /\ Len(closed) < MaxClosed
  /\ FlushActive
  /\ synced' = nextOffset
  /\ closed' = Append(closed, active)

\* Segment.Append to a segment that takes the record.
Write(seg, d) ==
  /\ mem' = [mem EXCEPT ![seg.base] = Written(seg, d, FrameLen(d))]
  /\ indexMem' = [indexMem EXCEPT ![seg.base] = IndexWritten(seg, d)]
  /\ nextOffset' = nextOffset + 1
  /\ records' = Append(records, d)

AppendInPlace(d) ==
  /\ MayAppend /\ Writable(segments[active], d)
  /\ segments' = [segments EXCEPT ![active] = Appended(@, d)]
  /\ Write(segments[active], d)
  /\ UNCHANGED <<files, diskVars, isOpen, closed, active, synced, hadOutage>>

AppendToNewSegment(d) ==
  /\ MayAppend /\ Roll(d) /\ Writable(Rolled, d)
  /\ files' = files \cup {nextOffset}
  /\ segments' = Append(segments, Appended(Rolled, d))
  /\ active' = Len(segments) + 1
  /\ Write(Rolled, d)
  /\ UNCHANGED <<isOpen, hadOutage>>

\* The record does not fit a new segment either, or no frame holds it: Append returns
\* an error, after the roll.  Without a roll such an error changes nothing.
AppendRefused(d) ==
  /\ MayAppend /\ Roll(d) /\ ~Writable(Rolled, d)
  /\ files' = files \cup {nextOffset}
  /\ segments' = Append(segments, Rolled)
  /\ active' = Len(segments) + 1
  /\ UNCHANGED <<mem, indexMem, isOpen, nextOffset, records, hadOutage>>

\* NewSegment fails, before or after the new files are made: Append returns an error, and
\* the active segment is among the closed ones as well.
RollFails(d) ==
  /\ MayAppend /\ Roll(d)
  /\ \/ UNCHANGED files
     \/ "half-made segment" \in Faults /\ files' = files \cup {nextOffset}
  /\ UNCHANGED <<mem, indexMem, isOpen, segments, active, nextOffset, records, hadOutage>>

Sync ==
  /\ isOpen
  /\ FlushActive
  /\ synced' = nextOffset
  /\ UNCHANGED <<fileVars, walVars, records, hadOutage>>

-----------------------------------------------------------------------------
(* The end of a process, and of the power.                                 *)

Ended ==
  /\ isOpen' = FALSE
  /\ segments' = <<>> /\ closed' = <<>> /\ active' = 0 /\ nextOffset' = 0

\* Close: index.Close flushes the index, mmapHandle.Close unmaps the log and flushes
\* nothing.
Close ==
  /\ isOpen /\ Ended
  /\ indexDisk' = [b \in Base |->
       IF \E i \in 1..Len(segments) : segments[i].base = b THEN indexMem[b] ELSE indexDisk[b]]
  /\ UNCHANGED <<fileVars, disk, records, synced, hadOutage>>

\* The operating system ends the process between two calls of the WAL.
Killed ==
  /\ isOpen /\ Ended
  /\ UNCHANGED <<fileVars, diskVars, records, synced, hadOutage>>

\* Segment.Append is killed inside the index's Append: the entry has its offset and no
\* position yet.
IndexTorn(seg) ==
  IF Indexed(seg)
  THEN [indexMem[seg.base] EXCEPT ![seg.entries].rel = nextOffset - seg.base]
  ELSE indexMem[seg.base]

\* The copy of the frame ends inside the fields and leaves the bytes of the length and of
\* the checksum zero: whatever there is of the offset, it is the frame of no payload.
\* (With a length but not its checksum the frame does not verify, as with k = 2 below.)
HeaderTorn(seg, d) ==
  {[Written(seg, d, 1) EXCEPT ![seg.writePos + 1] = Fields(0, offset, Empty)] : offset \in 0..nextOffset}
    \ {Written(seg, d, FrameLen(d))}

\* The process is killed while Segment.Append writes the record to seg: to the index, or,
\* after that, the first k cells of the frame.
KilledInWrite(seg, d) ==
  /\ \/ /\ indexMem' \in {indexMem, [indexMem EXCEPT ![seg.base] = IndexTorn(seg)]}
        /\ UNCHANGED <<mem, records>>
     \/ \E k \in 0..FrameLen(d) :
          /\ k = 1 => "torn header" \in Faults
          /\ indexMem' = [indexMem EXCEPT ![seg.base] = IndexWritten(seg, d)]
          /\ mem' = [mem EXCEPT ![seg.base] = Written(seg, d, k)]
          /\ records' = IF k = FrameLen(d) THEN Append(records, d) ELSE records
     \/ /\ "torn header" \in Faults
        /\ indexMem' = [indexMem EXCEPT ![seg.base] = IndexWritten(seg, d)]
        /\ mem' \in {[mem EXCEPT ![seg.base] = cells] : cells \in HeaderTorn(seg, d)}
        /\ UNCHANGED records
  /\ Ended
  /\ UNCHANGED hadOutage

KilledInAppend(d) ==
  /\ MayAppend /\ Writable(segments[active], d)
  /\ KilledInWrite(segments[active], d)
  /\ UNCHANGED <<files, diskVars, synced>>

KilledAfterRoll(d) ==
  /\ MayAppend /\ Writable(Rolled, d) /\ ~Fits(segments[active], d)
  /\ KilledInWrite(Rolled, d)
  /\ FlushActive
  /\ synced' = nextOffset
  /\ files' = files \cup {nextOffset}

\* The pages of the logs, and the indexes, that are not on disk as they are in memory.
DirtyPages ==
  {<<x[1], x[2] \div PageBytes>> : x \in {y \in Base \X Position : mem[y[1]][y[2]] # disk[y[1]][y[2]]}}
DirtyIndexes == {b \in Base : indexMem[b] # indexDisk[b]}

WrittenBack(pages, indexes) ==
  /\ disk' = [b \in Base |-> [p \in Position |->
       IF <<b, p \div PageBytes>> \in pages THEN mem[b][p] ELSE disk[b][p]]]
  /\ indexDisk' = [b \in Base |-> IF b \in indexes THEN indexMem[b] ELSE indexDisk[b]]

HeadersWhole(cells) ==
  \A p \in Position : cells[p] = Magic => p + 1 \in Position /\ cells[p + 1] # Zero

\* A power failure: of the dirty pages any may have been written back.  What remains of
\* the log are the records up to the end of the last segment that can be recovered.
Outage ==
  /\ \E pages \in SUBSET DirtyPages, indexes \in SUBSET DirtyIndexes : WrittenBack(pages, indexes)
  /\ "torn header" \in Faults \/ \A b \in Base : HeadersWhole(disk'[b])
  /\ mem' = disk' /\ indexMem' = indexDisk'
  /\ Ended
  /\ files # {} /\ UNCHANGED files
  /\ \E next \in {Recovered(Last(files), mem'[Last(files)]).next} :
       LET kept == IF next <= Len(records) THEN next ELSE Len(records) IN
       synced' = kept /\ records' = SubSeq(records, 1, kept)
  /\ hadOutage' = TRUE

-----------------------------------------------------------------------------
Init ==
  /\ files = {}
  /\ mem = [b \in Base |-> EmptyLog] /\ disk = mem
  /\ indexMem = [b \in Base |-> EmptyIndex] /\ indexDisk = indexMem
  /\ isOpen = FALSE
  /\ segments = <<>> /\ closed = <<>> /\ active = 0 /\ nextOffset = 0
  /\ records = <<>> /\ synced = 0 /\ hadOutage = FALSE

Next ==
  \/ OpenWAL
  \/ \E d \in Payload : AppendInPlace(d)
  \/ \E d \in Payload : AppendToNewSegment(d)
  \/ \E d \in Payload : AppendRefused(d)
  \/ \E d \in Payload : RollFails(d)
  \/ Sync
  \/ Close
  \/ Killed
  \/ \E d \in Payload : KilledInAppend(d)
  \/ \E d \in Payload : KilledAfterRoll(d)
  \/ Outage

Spec == Init /\ [][Next]_vars

-----------------------------------------------------------------------------
(* The shape of the state.                                                 *)
TypeOK ==
  /\ files \subseteq Base
  /\ {mem, disk} \subseteq [Base -> [Position -> Cell]]
  /\ {indexMem, indexDisk} \subseteq [Base -> [0..MaxEntries - 1 -> IndexEntry]]
  /\ isOpen \in BOOLEAN /\ hadOutage \in BOOLEAN
  /\ segments \in Seq([base : Base, next : Nat, writePos : 0..MaxSegmentBytes,
                        lastIndexByte : Nat, entries : 0..MaxEntries])
  /\ closed \in Seq(1..Len(segments)) /\ active \in 0..Len(segments)
  /\ nextOffset \in Nat /\ synced \in Nat /\ records \in Seq(Payload)

(* Every index entry of an open segment that lies at or before an offset    *)
(* leads to a frame from which the offset can be reached: an entry never   *)
(* points past the frame it was written for, nor between two frames.       *)
IndexPointsAtFrames ==
  \A i \in 1..Len(segments) :
    LET seg == segments[i]
        index == indexMem[seg.base]
    IN \A e \in 0..seg.entries - 1 :
         index[e].rel < seg.next - seg.base =>
           /\ index[e].pos = 0 \/ Decodes(mem[seg.base], index[e].pos, seg.writePos)
           /\ index[e].pos > 0 => FrameAt(mem[seg.base], index[e].pos).offset = seg.base + index[e].rel

(* ReadAt finds every record at the offset Append gave it, in this and every *)
(* later life of the process: through rolls, refused records, failed rolls,  *)
(* kills inside Append, torn tails and a reopened, full index.              *)
ReadersSeeAll ==
  isOpen => /\ nextOffset = Len(records)
            /\ \A o \in 0..nextOffset - 1 : ReadAt(o) = records[o + 1]

Log == INSTANCE AppendOnlyLog WITH Record <- Payload

(* The WAL is the log its name promises: no step but a power failure takes a *)
(* record back, and that takes none a flush has covered.  Sync flushes the   *)
(* active segment alone.                                                    *)
IsALog == Log!Spec
=============================================================================
