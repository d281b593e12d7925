------------------------------ MODULE FileJournal -----------------------------
(***************************************************************************)
(* FileJournal<T> (crates/journal/src/journal.rs, frame.rs): an append-    *)
(* only file written through a BufWriter by one owner, across process      *)
(* crashes, power losses, I/O errors and reopenings.                       *)
(*                                                                         *)
(* Bytes are counted in pieces, the units of write_all: a frame is the     *)
(* pieces 1 (length), 2 (payload), 3 (CRC) of one append, the file header  *)
(* the pieces magic, version, reserved.  A cut inside a piece reads like a *)
(* cut next to it: both leave an undecodable rest.  A CRC that matches by  *)
(* accident is left out.                                                   *)
(***************************************************************************)
EXTENDS Naturals, Sequences, FiniteSets

CONSTANTS
  MaxAppends,    \* bound: calls of append
  MaxCrashes,    \* bound: process crashes
  MaxPowerLoss,  \* bound: crashes of the machine
  MaxIoErrors,   \* bound: failed writes to the OS
  MaxReads       \* bound: results an iteration yields in one session

ASSUME FileJournalAssumption ==
  {MaxAppends, MaxCrashes, MaxPowerLoss, MaxIoErrors, MaxReads} \subseteq Nat

HeaderPieces == 3
FramePieces == 3

VARIABLES
  header,        \* pieces of the file header in the file
  file,          \* the pieces after the header that reached the OS
  cursor,        \* where the writer's file handle writes next
  buffer,        \* the pieces in the BufWriter
  pc,            \* what the owner of the journal is doing
  byte_offset,   \* FileJournal::byte_offset, in pieces after the header
  appended_total, read_total, corrupt_frames_total,
  nextId,        \* identity of the next envelope to append
  written,       \* pieces of the current append already handed to the writer
  acked,         \* appends that ever returned Ok
  session,       \* the JournalPositions this session returned, with their envelopes
  clean,         \* this session opened an undamaged file and saw no I/O error
  flushed,       \* appends that returned Ok before a flush that returned Ok
  safe,          \* those of them made in clean sessions
  faults         \* how many crashes, power losses and I/O errors happened

disk == <<header, file, cursor>>
counters == <<appended_total, read_total, corrupt_frames_total>>
history == <<acked, session, clean, flushed, safe>>
vars == <<disk, buffer, pc, byte_offset, counters, nextId, written, history, faults>>

Piece(id, k) == [id |-> id, part |-> k]

Init ==
  /\ header = 0 /\ file = <<>> /\ cursor = 0 /\ buffer = <<>> /\ pc = "down"
  /\ byte_offset = 0 /\ appended_total = 0 /\ read_total = 0 /\ corrupt_frames_total = 0
  /\ nextId = 1 /\ written = 0
  /\ acked = {} /\ session = {} /\ clean = FALSE /\ flushed = {} /\ safe = {}
  /\ faults = [crash |-> 0, power |-> 0, io |-> 0]

-----------------------------------------------------------------------------
(* Reading: JournalIter::next from the first record until None or the first Err *)

\* The k-th frame-sized stretch of f is one whole frame.
WholeFrame(f, k) ==
  /\ k * FramePieces <= Len(f)
  /\ \E id \in 1 .. MaxAppends :
       \A j \in 1 .. FramePieces : f[(k - 1) * FramePieces + j] = Piece(id, j)

\* How many envelopes iter_all yields before it ends or fuses.
Yielded(f) ==
  CHOOSE n \in 0 .. Len(f) :
    /\ \A k \in 1 .. n : WholeFrame(f, k)
    /\ ~WholeFrame(f, n + 1)

Decoded(f) == [k \in 1 .. Yielded(f) |-> f[(k - 1) * FramePieces + 1].id]

\* The iterator ends with None, not with an error: no piece is left over.
EndsCleanly(f) == Len(f) = Yielded(f) * FramePieces

\* iter_all and a full walk; it borrows the journal, so no append interleaves.
Iterate ==
  /\ pc = "ready" /\ read_total + corrupt_frames_total < MaxReads
  /\ read_total' = read_total + Yielded(file)
  /\ corrupt_frames_total' = corrupt_frames_total + (IF EndsCleanly(file) THEN 0 ELSE 1)
  /\ UNCHANGED <<disk, buffer, pc, byte_offset, appended_total, nextId, written,
                 history, faults>>

-----------------------------------------------------------------------------
(* open *)

\* A fresh FileJournal: empty buffer, zero counters, write head at offset n.
Session(n) ==
  /\ pc' = "ready" /\ buffer' = <<>> /\ byte_offset' = n /\ cursor' = n
  /\ appended_total' = 0 /\ read_total' = 0 /\ corrupt_frames_total' = 0
  /\ session' = {} /\ clean' = EndsCleanly(file)
  /\ UNCHANGED <<header, file, nextId, written, acked, flushed, safe, faults>>

\* Absent or empty file: the header is written in three unbuffered pieces.
OpenNew ==
  /\ pc = "down" /\ header = 0
  /\ pc' = "header"
  /\ UNCHANGED <<disk, buffer, byte_offset, counters, nextId, written, history, faults>>

WriteHeaderPiece ==
  /\ pc = "header" /\ header < HeaderPieces
  /\ header' = header + 1
  /\ UNCHANGED <<file, cursor, buffer, pc, byte_offset, counters, nextId, written, history, faults>>

HeaderWritten ==
  pc = "header" /\ header = HeaderPieces /\ Session(0)

\* An existing file with a valid header is opened as it is, whatever its tail.
\* A header of one or two pieces is refused (TruncatedFileHeader): no action.
OpenAnyHeader == pc = "down" /\ header > 0 /\ Session(Len(file))
OpenAtHeader == pc = "down" /\ header = HeaderPieces /\ Session(0)
OpenExisting == pc = "down" /\ header = HeaderPieces /\ Session(Len(file))

-----------------------------------------------------------------------------
(* append *)

\* Serialisation or validate_frame_length refuses the envelope before any write.
AppendRejected ==
  /\ pc = "ready" /\ nextId <= MaxAppends
  /\ nextId' = nextId + 1
  /\ UNCHANGED <<disk, buffer, pc, byte_offset, counters, written, history, faults>>

StartAppend ==
  /\ pc = "ready" /\ nextId <= MaxAppends
  /\ nextId' = nextId + 1
  /\ written' = 0
  /\ pc' = "append"
  /\ UNCHANGED <<disk, buffer, byte_offset, counters, history, faults>>

WritePiece ==
  /\ pc = "append" /\ written < FramePieces
  /\ written' = written + 1
  /\ buffer' = Append(buffer, Piece(nextId - 1, written + 1))
  /\ UNCHANGED <<disk, pc, byte_offset, counters, nextId, history, faults>>

\* The next piece does not fit: BufWriter drains its whole buffer first.
StartSpillEager ==
  /\ pc = "append" /\ buffer # <<>>
  /\ pc' = "spill"
  /\ UNCHANGED <<disk, buffer, byte_offset, counters, nextId, written, history, faults>>
StartSpill ==
  /\ pc = "append" /\ written < FramePieces /\ buffer # <<>>
  /\ pc' = "spill"
  /\ UNCHANGED <<disk, buffer, byte_offset, counters, nextId, written, history, faults>>

SpillDone ==
  /\ pc = "spill" /\ buffer = <<>>
  /\ pc' = "append"
  /\ UNCHANGED <<disk, buffer, byte_offset, counters, nextId, written, history, faults>>

\* All three pieces accepted: advance the write head, count, return the position.
Returned(offset) ==
  /\ acked' = acked \cup {nextId - 1}
  /\ session' = session \cup {[id |-> nextId - 1, byte_offset |-> offset]}
AppendOkEndOffset ==
  /\ pc = "append" /\ written = FramePieces
  /\ byte_offset' = byte_offset + FramePieces
  /\ appended_total' = appended_total + 1
  /\ Returned(byte_offset + FramePieces)
  /\ pc' = "ready"
  /\ UNCHANGED <<disk, buffer, read_total, corrupt_frames_total, nextId, written,
                 clean, flushed, safe, faults>>
AppendOk ==
  /\ pc = "append" /\ written = FramePieces
  /\ byte_offset' = byte_offset + FramePieces
  /\ appended_total' = appended_total + 1
  /\ Returned(byte_offset)
  /\ pc' = "ready"
  /\ UNCHANGED <<disk, buffer, read_total, corrupt_frames_total, nextId, written,
                 clean, flushed, safe, faults>>

-----------------------------------------------------------------------------
(* flush, drop, and the writes to the OS they and a spill make *)

OsWrite ==
  /\ pc \in {"spill", "flush", "drop"} /\ buffer # <<>>
  /\ file' = IF cursor < Len(file) THEN [file EXCEPT ![cursor + 1] = Head(buffer)]
                                  ELSE Append(file, Head(buffer))
  /\ cursor' = cursor + 1
  /\ buffer' = Tail(buffer)
  /\ UNCHANGED <<header, pc, byte_offset, counters, nextId, written, history, faults>>

\* append or flush returns Err(Io): the write head stays, the unwritten pieces too.
\* While the header is being written, open fails; in drop the error is ignored.
IoError ==
  /\ pc \in {"header", "spill", "flush", "drop"} /\ faults.io < MaxIoErrors
  /\ pc \in {"flush", "drop"} => buffer # <<>>
  /\ faults' = [faults EXCEPT !.io = @ + 1]
  /\ pc' = IF pc \in {"spill", "flush"} THEN "ready" ELSE "down"
  /\ buffer' = IF pc = "drop" THEN <<>> ELSE buffer
  /\ clean' = FALSE
  /\ UNCHANGED <<disk, byte_offset, counters, nextId, written, acked, session, flushed, safe>>

StartFlush ==
  /\ pc = "ready"
  /\ pc' = "flush"
  /\ UNCHANGED <<disk, buffer, byte_offset, counters, nextId, written, history, faults>>

\* Everything this session appended has left the BufWriter.
MarkFlushed ==
  LET ids == {r.id : r \in session}
  IN  /\ flushed' = flushed \cup ids
      /\ safe' = IF clean THEN safe \cup ids ELSE safe

\* A flush that reports success after handing over one write only.
FlushOkEarly ==
  /\ pc = "flush" /\ Len(buffer) <= 1
  /\ MarkFlushed
  /\ pc' = "ready"
  /\ UNCHANGED <<disk, buffer, byte_offset, counters, nextId, written,
                 acked, session, clean, faults>>
FlushOk ==
  /\ pc = "flush" /\ buffer = <<>>
  /\ MarkFlushed
  /\ pc' = "ready"
  /\ UNCHANGED <<disk, buffer, byte_offset, counters, nextId, written,
                 acked, session, clean, faults>>

\* BufWriter's Drop writes what is left.
StartDrop ==
  /\ pc = "ready"
  /\ pc' = "drop"
  /\ UNCHANGED <<disk, buffer, byte_offset, counters, nextId, written, history, faults>>

DropDone ==
  /\ pc = "drop" /\ buffer = <<>>
  /\ MarkFlushed
  /\ pc' = "down"
  /\ UNCHANGED <<disk, buffer, byte_offset, counters, nextId, written,
                 acked, session, clean, faults>>

-----------------------------------------------------------------------------
(* The environment *)

\* The process dies: the buffer is gone, what the OS has stays.
Crash ==
  /\ pc # "down" /\ faults.crash < MaxCrashes
  /\ faults' = [faults EXCEPT !.crash = @ + 1]
  /\ pc' = "down" /\ buffer' = <<>>
  /\ UNCHANGED <<disk, byte_offset, counters, nextId, written, history>>

\* The machine dies.  flush never syncs, so any suffix of the file may be gone.
PowerLoss ==
  /\ faults.power < MaxPowerLoss
  /\ faults' = [faults EXCEPT !.power = @ + 1]
  /\ pc' = "down" /\ buffer' = <<>>
  /\ \/ \E n \in 0 .. Len(file) : file' = SubSeq(file, 1, n) /\ UNCHANGED header
     \/ \E h \in 0 .. header : header' = h /\ file' = <<>>
  /\ flushed' = {} /\ safe' = {}
  /\ UNCHANGED <<cursor, byte_offset, counters, nextId, written, acked, session, clean>>

-----------------------------------------------------------------------------
Open == OpenNew \/ WriteHeaderPiece \/ HeaderWritten \/ OpenExisting
AppendCall == AppendRejected \/ StartAppend \/ WritePiece \/ StartSpill \/ SpillDone \/ AppendOk
FlushCall == StartFlush \/ FlushOk
DropCall == StartDrop \/ DropDone

Next ==
  \/ Open \/ AppendCall \/ FlushCall \/ DropCall \/ OsWrite \/ Iterate
  \/ IoError \/ Crash \/ PowerLoss

Spec == Init /\ [][Next]_vars

-----------------------------------------------------------------------------
(* Properties *)

InSequence(f) == {f[i] : i \in 1 .. Len(f)}

\* Type invariant.
TypeOK ==
  /\ header \in 0 .. HeaderPieces
  /\ LET Pieces == [id : 1 .. MaxAppends, part : 1 .. FramePieces]
     IN  file \in Seq(Pieces) /\ buffer \in Seq(Pieces)
  /\ header < HeaderPieces => file = <<>>
  /\ cursor \in Nat
  /\ pc \in {"down", "header", "ready", "append", "spill", "flush", "drop"}
  /\ {byte_offset, appended_total, read_total, corrupt_frames_total} \subseteq Nat
  /\ nextId \in 1 .. MaxAppends + 1 /\ written \in 0 .. FramePieces
  /\ session \subseteq [id : 1 .. MaxAppends, byte_offset : Nat]
  /\ clean \in BOOLEAN
  /\ safe \subseteq flushed /\ flushed \subseteq acked /\ acked \subseteq 1 .. MaxAppends
  /\ faults.crash \in 0 .. MaxCrashes /\ faults.power \in 0 .. MaxPowerLoss
  /\ faults.io \in 0 .. MaxIoErrors

\* The journal yields only envelopes whose append returned Ok: none whose append
\* failed or was cut short, none twice, none out of order, whatever tore the file.
NoPhantomRecords ==
  LET d == Decoded(file)
  IN  \A k \in 1 .. Len(d) : d[k] \in acked /\ \A j \in 1 .. k - 1 : d[j] < d[k]

\* Append-only: short of a power loss, what iter_all once yields it yields for
\* ever, across crashes, failed writes and reopenings.
AppendOnly ==
  [][LET old == Decoded(file) new == Decoded(file')
     IN  faults'.power = faults.power =>
           Len(old) <= Len(new) /\ old = SubSeq(new, 1, Len(old))]_vars

\* An envelope whose append and a later flush (or drop) succeeded in a clean session
\* is read back, whatever crashes and failed writes come later.
SafeIsReadable == safe \subseteq InSequence(Decoded(file))

\* "byte_offset is the offset of the FIRST byte of the frame" (append): each position
\* of this session names the place of its envelope's frame.
PositionNamesFrame ==
  pc \notin {"down", "header"} =>
    \A r \in session :
      LET bytes == file \o buffer
      IN  r.byte_offset < Len(bytes) /\ bytes[r.byte_offset + 1] = Piece(r.id, 1)

\* ... which holds until a write fails: the bytes of a failed append stay in the writer
\* while the write head stands still.
PositionsBeforeFailure == faults.io = 0 => PositionNamesFrame

\* "flush + iter_all reads back the appended record reliably" (flush): after a
\* successful append and a successful flush the record is there.
FlushedIsReadable == flushed \subseteq InSequence(Decoded(file))
=============================================================================
