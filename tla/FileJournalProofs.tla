--------------------------- MODULE FileJournalProofs ---------------------------
(***************************************************************************)
(* Proofs about FileJournal, for any number of appends and of crashes,     *)
(* power losses and I/O errors.  They look at the pieces in the file       *)
(* followed by those in the writer's buffer: writing to the OS moves the   *)
(* border and leaves the sequence as it is, an append makes it longer by   *)
(* one piece, and everything else cuts it short.  The pieces of an         *)
(* envelope stand next to each other, and envelopes in the order of their  *)
(* appends, whatever was cut off in between; in a clean session they are   *)
(* whole frames and what the current append has written.                   *)
(***************************************************************************)
EXTENDS FileJournal, NumberLemmas, SequenceTheorems

-----------------------------------------------------------------------------
(* Reading *)

\* g starts with f.
Begins(f, g) ==
  Len(f) \in Nat /\ Len(g) \in Nat /\ Len(f) <= Len(g) /\ \A i \in 1 .. Len(f) : g[i] = f[i]

\* Yielded is the number of whole frames before the first place that has none.
LEMMA YieldedFrames ==
  ASSUME NEW f, Len(f) \in Nat
  PROVE  /\ Yielded(f) \in 0 .. Len(f)
         /\ \A k \in 1 .. Yielded(f) : WholeFrame(f, k)
         /\ ~ WholeFrame(f, Yielded(f) + 1)
         /\ Yielded(f) * FramePieces <= Len(f)
<1> DEFINE Torn == {n \in Nat : ~ WholeFrame(f, n + 1)}
<1>1. \A k \in Nat : WholeFrame(f, k) => k * FramePieces <= Len(f)
  BY DEF WholeFrame
<1>2. Len(f) \in Torn
  <2>1. ~ ((Len(f) + 1) * 3 <= Len(f))
    OBVIOUS
  <2>. QED
    BY <1>1, <2>1 DEF FramePieces
<1>3. PICK n \in Torn : \A m \in Torn : n <= m
  BY <1>2, Least
<1>4. n \in 0 .. Len(f) /\ ~ WholeFrame(f, n + 1)
  BY <1>2, <1>3
<1>5. \A k \in 1 .. n : WholeFrame(f, k)
  <2> TAKE k \in 1 .. n
  <2>1. k - 1 \in Nat /\ ~ (n <= k - 1) /\ (k - 1) + 1 = k
    BY <1>3
  <2>. QED
    BY <1>3, <2>1
<1> HIDE DEF Torn
<1>6. /\ Yielded(f) \in 0 .. Len(f) /\ ~ WholeFrame(f, Yielded(f) + 1)
      /\ \A k \in 1 .. Yielded(f) : WholeFrame(f, k)
  BY <1>4, <1>5, Zenon DEF Yielded
<1>7. Yielded(f) * FramePieces <= Len(f)
  <2> DEFINE y == Yielded(f)
  <2>1. y = 0 \/ (y \in 1 .. y /\ y \in Nat)
    BY <1>6
  <2>2. CASE y = 0
    <3>1. 0 * 3 <= Len(f)
      OBVIOUS
    <3>. QED
      BY <2>2, <3>1 DEF FramePieces
  <2>3. CASE y \in 1 .. y /\ y \in Nat
    BY <1>1, <1>6, <2>3
  <2>. QED
    BY <2>1, <2>2, <2>3
<1>. QED
  BY <1>6, <1>7

\* A frame that is whole stays whole in every longer file.
LEMMA WholeInLonger ==
  ASSUME NEW f, NEW g, Begins(f, g), NEW k \in Nat \ {0}, WholeFrame(f, k)
  PROVE  WholeFrame(g, k) /\ g[(k - 1) * FramePieces + 1] = f[(k - 1) * FramePieces + 1]
<1>1. k * 3 <= Len(f) /\ Len(f) \in Nat /\ Len(g) \in Nat /\ Len(f) <= Len(g)
  BY DEF WholeFrame, FramePieces, Begins
<1>2. \A j \in 1 .. 3 : (k - 1) * 3 + j \in 1 .. Len(f)
  BY <1>1
<1>3. \A j \in 1 .. 3 : g[(k - 1) * 3 + j] = f[(k - 1) * 3 + j]
  BY <1>2 DEF Begins
<1>4. k * 3 <= Len(g)
  BY <1>1
<1>5. WholeFrame(g, k)
  BY <1>3, <1>4 DEF WholeFrame, FramePieces
<1>6. 1 \in 1 .. 3
  OBVIOUS
<1>. QED
  BY <1>3, <1>5, <1>6 DEF FramePieces

LEMMA YieldedInLonger ==
  ASSUME NEW f, NEW g, Begins(f, g)
  PROVE  Yielded(f) <= Yielded(g)
<1>1. /\ Yielded(f) \in Nat /\ Yielded(g) \in Nat /\ ~ WholeFrame(g, Yielded(g) + 1)
      /\ \A k \in 1 .. Yielded(f) : WholeFrame(f, k)
  BY YieldedFrames DEF Begins
<1> SUFFICES ASSUME Yielded(g) < Yielded(f) PROVE FALSE
  BY <1>1
<1>2. Yielded(g) + 1 \in 1 .. Yielded(f) /\ Yielded(g) + 1 \in Nat \ {0}
  BY <1>1
<1>3. WholeFrame(g, Yielded(g) + 1)
  BY <1>1, <1>2, WholeInLonger
<1>. QED
  BY <1>1, <1>3

PieceRecord == [id : 1 .. MaxAppends, part : 1 .. FramePieces]

LEMMA DecodedType ==
  ASSUME NEW f \in Seq(PieceRecord)
  PROVE  /\ Decoded(f) \in Seq(1 .. MaxAppends) /\ Len(Decoded(f)) = Yielded(f)
         /\ Yielded(f) \in Nat
         /\ \A k \in 1 .. Yielded(f) :
              /\ Decoded(f)[k] = f[(k - 1) * FramePieces + 1].id
              /\ WholeFrame(f, k)
<1> DEFINE y == Yielded(f)
           d == Decoded(f)
<1>1. y \in Nat /\ (\A k \in 1 .. y : WholeFrame(f, k)) /\ Len(f) \in Nat
  BY YieldedFrames
<1>2. \A k \in 1 .. y : (k - 1) * FramePieces + 1 \in 1 .. Len(f)
  <2> TAKE k \in 1 .. y
  <2>1. k * 3 <= Len(f)
    BY <1>1 DEF WholeFrame, FramePieces
  <2>. QED
    BY <1>1, <2>1 DEF FramePieces
<1>3. \A k \in 1 .. y : f[(k - 1) * FramePieces + 1].id \in 1 .. MaxAppends
  <2>1. \A p \in PieceRecord : p.id \in 1 .. MaxAppends
    BY DEF PieceRecord
  <2> HIDE DEF PieceRecord
  <2>. QED
    BY <1>2, <2>1
<1>4. d = [k \in 1 .. y |-> f[(k - 1) * FramePieces + 1].id]
  BY DEF Decoded
<1> HIDE DEF d, y
<1>5. d \in [1 .. y -> 1 .. MaxAppends] /\ \A k \in 1 .. y : d[k] = f[(k - 1) * FramePieces + 1].id
  BY <1>3, <1>4, Zenon
<1>6. d \in Seq(1 .. MaxAppends) /\ Len(d) = y
  <2>1. y \in Nat
    BY <1>1
  <2>2. \A S : d \in [1 .. y -> S] => d \in Seq(S) /\ Len(d) = y
    BY <2>1
  <2>. QED
    BY <1>5, <2>2
<1>. QED
  BY <1>1, <1>5, <1>6 DEF d, y

\* What a file yields, every longer file yields first.
LEMMA DecodedInLonger ==
  ASSUME NEW f \in Seq(PieceRecord), NEW g \in Seq(PieceRecord), Begins(f, g)
  PROVE  /\ Len(Decoded(f)) <= Len(Decoded(g))
         /\ Decoded(f) = SubSeq(Decoded(g), 1, Len(Decoded(f)))
         /\ InSequence(Decoded(f)) \subseteq InSequence(Decoded(g))
<1> DEFINE d == Decoded(f)
           e == Decoded(g)
           n == Len(d)
<1>1. /\ d \in Seq(1 .. MaxAppends) /\ e \in Seq(1 .. MaxAppends)
      /\ n = Yielded(f) /\ Len(e) = Yielded(g) /\ n <= Len(e)
  BY DecodedType, YieldedInLonger
<1>2. \A k \in 1 .. n : e[k] = d[k]
  <2> TAKE k \in 1 .. n
  <2>1. k \in Nat \ {0} /\ k \in 1 .. Yielded(f) /\ k \in 1 .. Yielded(g)
    BY <1>1, DecodedType
  <2>2. g[(k - 1) * FramePieces + 1] = f[(k - 1) * FramePieces + 1]
    BY <2>1, DecodedType, WholeInLonger
  <2>. QED
    BY <2>1, <2>2, DecodedType
<1> HIDE DEF d, e
<1>3. d = SubSeq(e, 1, n)
  <2>1. n \in Nat /\ Len(e) \in Nat /\ 1 \in Int
    BY <1>1
  <2>2. \A i \in 1 .. n : e[i] \in 1 .. MaxAppends
    <3>1. \A i \in 1 .. n : i \in 1 .. Len(e)
      BY <1>1, <2>1
    <3>. QED
      BY <1>1, <3>1, ElementOfSeq
  <2>3. /\ SubSeq(e, 1, n) \in Seq(1 .. MaxAppends)
        /\ Len(SubSeq(e, 1, n)) = (IF 1 <= n THEN n - 1 + 1 ELSE 0)
        /\ \A i \in 1 .. n - 1 + 1 : SubSeq(e, 1, n)[i] = e[1 + i - 1]
    BY <2>1, <2>2, SubSeqProperties
  <2>4. Len(SubSeq(e, 1, n)) = n /\ \A i \in 1 .. n : SubSeq(e, 1, n)[i] = d[i]
    <3>1. n - 1 + 1 = n /\ \A i \in 1 .. n : 1 + i - 1 = i
      BY <2>1
    <3>. QED
      BY <1>2, <2>1, <2>3, <3>1
  <2>. QED
    BY <1>1, <2>3, <2>4, SeqEqual
<1>4. InSequence(d) \subseteq InSequence(e)
  BY <1>1, <1>2 DEF InSequence
<1>. QED
  BY <1>1, <1>3, <1>4 DEF d, e

-----------------------------------------------------------------------------
(* Types *)

InSession == pc \in {"ready", "append", "spill", "flush", "drop"}

\* In a session the writer stands at the end of the file; outside, nothing is buffered.
DiskTyped ==
  /\ header \in 0 .. HeaderPieces /\ cursor \in Nat
  /\ file \in Seq(PieceRecord) /\ buffer \in Seq(PieceRecord)
  /\ header < HeaderPieces => file = <<>>
  /\ pc \in {"down", "header", "ready", "append", "spill", "flush", "drop"}
  /\ InSession => cursor = Len(file) /\ header = HeaderPieces
  /\ ~ InSession => buffer = <<>>
  /\ pc = "header" => file = <<>>

CallTyped ==
  /\ nextId \in 1 .. MaxAppends + 1 /\ written \in 0 .. FramePieces
  /\ pc \in {"append", "spill"} => nextId # 1
  /\ pc = "spill" => written # FramePieces

CountTyped ==
  /\ byte_offset \in Nat /\ appended_total \in Nat
  /\ read_total \in Nat /\ corrupt_frames_total \in Nat
  /\ faults \in [crash : 0 .. MaxCrashes, power : 0 .. MaxPowerLoss, io : 0 .. MaxIoErrors]

HistoryTyped ==
  /\ clean \in BOOLEAN
  /\ session \subseteq [id : 1 .. MaxAppends, byte_offset : Nat]
  /\ \A r \in session : r.id \in acked
  /\ safe \subseteq flushed /\ flushed \subseteq acked /\ acked \subseteq 1 .. MaxAppends

Typed == DiskTyped /\ CallTyped /\ CountTyped /\ HistoryTyped

LEMMA DiskTypedInductive ==
  ASSUME Typed, [Next]_vars
  PROVE  DiskTyped'
<1>1. /\ Len(file) \in Nat /\ Len(buffer) \in Nat /\ MaxAppends \in Nat
      /\ <<>> \in Seq(PieceRecord)
  BY FileJournalAssumption DEF Typed, DiskTyped
<1>2. CASE OpenNew \/ WriteHeaderPiece
  BY <1>1, <1>2
  DEF OpenNew, WriteHeaderPiece, Typed, DiskTyped, InSession, disk, HeaderPieces
<1>3. CASE HeaderWritten
  BY <1>1, <1>3 DEF HeaderWritten, Session, Typed, DiskTyped, InSession, HeaderPieces
<1>4. CASE OpenExisting
  BY <1>1, <1>4 DEF OpenExisting, Session, Typed, DiskTyped, InSession, HeaderPieces
<1>5. CASE AppendRejected \/ StartAppend \/ StartSpill \/ SpillDone \/ AppendOk
  BY <1>5
  DEF AppendRejected, StartAppend, StartSpill, SpillDone, AppendOk, Typed, DiskTyped, InSession, disk
<1>6. CASE WritePiece
  <2>1. Piece(nextId - 1, written + 1) \in PieceRecord
    BY <1>1, <1>6
    DEF WritePiece, Typed, CallTyped, PieceRecord, Piece, FramePieces
  <2>2. buffer' \in Seq(PieceRecord)
    <3> HIDE DEF PieceRecord
    <3>. QED
      BY <1>6, <2>1 DEF WritePiece, Typed, DiskTyped
  <2>. QED
    BY <1>6, <2>2 DEF WritePiece, Typed, DiskTyped, InSession, disk
<1>7. CASE OsWrite
  <2>1. cursor = Len(file) /\ buffer \in Seq(PieceRecord) /\ file \in Seq(PieceRecord)
    BY <1>7 DEF OsWrite, Typed, DiskTyped, InSession
  <2>2. file' = Append(file, Head(buffer)) /\ buffer' = Tail(buffer) /\ buffer # <<>>
    BY <1>1, <1>7, <2>1 DEF OsWrite
  <2> HIDE DEF PieceRecord
  <2>3. Head(buffer) \in PieceRecord /\ Tail(buffer) \in Seq(PieceRecord)
    BY <2>1, <2>2
  <2>4. file' \in Seq(PieceRecord) /\ Len(file') = Len(file) + 1
    BY <2>1, <2>2, <2>3
  <2>5. cursor' = Len(file') /\ cursor' \in Nat /\ UNCHANGED <<header, pc>> /\ InSession
    BY <1>1, <1>7, <2>1, <2>4 DEF OsWrite, InSession
  <2>6. pc # "header" /\ header = HeaderPieces
    BY <2>5 DEF InSession, Typed, DiskTyped
  <2>. QED
    BY <2>2, <2>3, <2>4, <2>5, <2>6 DEF Typed, DiskTyped, InSession, HeaderPieces
<1>8. CASE Iterate \/ FlushCall \/ DropCall
  BY <1>8
  DEF Iterate, FlushCall, StartFlush, FlushOk, DropCall, StartDrop, DropDone, Typed, DiskTyped,
      InSession, disk
<1>9. CASE IoError \/ Crash
  BY <1>1, <1>9 DEF IoError, Crash, Typed, DiskTyped, InSession, disk
<1>10. CASE PowerLoss
  <2>1. \A n \in 0 .. Len(file) : SubSeq(file, 1, n) \in Seq(PieceRecord)
    BY <1>1 DEF Typed, DiskTyped
  <2>2. \A n \in 0 .. Len(file) : file = <<>> => SubSeq(file, 1, n) = <<>>
    BY <1>1
  <2>3. pc' = "down" /\ buffer' = <<>> /\ UNCHANGED cursor
    BY <1>10 DEF PowerLoss
  <2>4. file' \in Seq(PieceRecord) /\ header' \in 0 .. HeaderPieces
    <3> HIDE DEF PieceRecord
    <3>1. file' \in Seq(PieceRecord)
      BY <1>1, <1>10, <2>1 DEF PowerLoss
    <3>2. header \in 0 .. 3
      BY DEF Typed, DiskTyped, HeaderPieces
    <3>3. header' = header \/ header' \in 0 .. header
      BY <1>10 DEF PowerLoss
    <3>. QED
      BY <3>1, <3>2, <3>3 DEF HeaderPieces
  <2>5. header' < HeaderPieces => file' = <<>>
    BY <1>10, <2>2 DEF PowerLoss, Typed, DiskTyped
  <2>. QED
    BY <1>1, <2>3, <2>4, <2>5 DEF Typed, DiskTyped, InSession
<1>11. CASE UNCHANGED vars
  BY <1>11 DEF vars, disk, Typed, DiskTyped, InSession
<1>. QED
  BY <1>2, <1>3, <1>4, <1>5, <1>6, <1>7, <1>8, <1>9, <1>10, <1>11
  DEF Next, Open, AppendCall

LEMMA CallTypedInductive ==
  ASSUME Typed, [Next]_vars
  PROVE  CallTyped'
<1>1. MaxAppends \in Nat
  BY FileJournalAssumption
<1>2. CASE UNCHANGED <<nextId, written>> /\ (pc' \in {"append", "spill"} => pc' = pc)
  BY <1>2 DEF Typed, CallTyped
<1>3. CASE StartAppend \/ AppendRejected
  BY <1>1, <1>3 DEF StartAppend, AppendRejected, Typed, CallTyped, FramePieces
<1>4. CASE WritePiece
  BY <1>1, <1>4 DEF WritePiece, Typed, CallTyped, FramePieces
<1>5. CASE StartSpill \/ SpillDone
  BY <1>1, <1>5 DEF StartSpill, SpillDone, Typed, CallTyped, FramePieces
<1>6. CASE Open \/ AppendOk \/ FlushCall \/ DropCall \/ OsWrite \/ Iterate
  BY <1>2, <1>6
  DEF Open, OpenNew, WriteHeaderPiece, HeaderWritten, OpenExisting, Session, AppendOk, FlushCall,
      StartFlush, FlushOk, DropCall, StartDrop, DropDone, OsWrite, Iterate
<1>7. CASE IoError \/ Crash \/ PowerLoss \/ UNCHANGED vars
  BY <1>2, <1>7 DEF IoError, Crash, PowerLoss, vars
<1>. QED
  BY <1>3, <1>4, <1>5, <1>6, <1>7 DEF Next, AppendCall

LEMMA CountTypedInductive ==
  ASSUME Typed, [Next]_vars
  PROVE  CountTyped'
<1>1. /\ Len(file) \in Nat /\ Yielded(file) \in Nat
      /\ MaxCrashes \in Nat /\ MaxPowerLoss \in Nat /\ MaxIoErrors \in Nat
  BY FileJournalAssumption, DecodedType DEF Typed, DiskTyped
<1>2. CASE UNCHANGED <<byte_offset, counters, faults>>
  BY <1>2 DEF Typed, CountTyped, counters
<1>3. CASE HeaderWritten \/ OpenExisting
  BY <1>1, <1>3 DEF HeaderWritten, OpenExisting, Session, Typed, CountTyped
<1>4. CASE AppendOk
  BY <1>4 DEF AppendOk, Typed, CountTyped, FramePieces
<1>5. CASE Iterate
  BY <1>1, <1>5 DEF Iterate, Typed, CountTyped
<1>6. CASE IoError
  BY <1>1, <1>6 DEF IoError, Typed, CountTyped, counters
<1>7. CASE Crash
  BY <1>1, <1>7 DEF Crash, Typed, CountTyped, counters
<1>8. CASE PowerLoss
  BY <1>1, <1>8 DEF PowerLoss, Typed, CountTyped, counters
<1>. QED
  BY <1>2, <1>3, <1>4, <1>5, <1>6, <1>7, <1>8
  DEF Next, Open, OpenNew, WriteHeaderPiece, AppendCall, AppendRejected, StartAppend, WritePiece,
      StartSpill, SpillDone, FlushCall, StartFlush, FlushOk, DropCall, StartDrop, DropDone, OsWrite, vars

LEMMA HistoryTypedInductive ==
  ASSUME Typed, [Next]_vars
  PROVE  HistoryTyped'
<1>1. CASE UNCHANGED history
  BY <1>1 DEF Typed, HistoryTyped, history
<1>2. CASE HeaderWritten \/ OpenExisting
  BY <1>2 DEF HeaderWritten, OpenExisting, Session, Typed, HistoryTyped, EndsCleanly
<1>3. CASE AppendOk
  <2>1. nextId - 1 \in 1 .. MaxAppends /\ byte_offset \in Nat
    BY <1>3, FileJournalAssumption DEF AppendOk, Typed, CallTyped, CountTyped
  <2>2. PICK r : r = [id |-> nextId - 1, byte_offset |-> byte_offset]
    OBVIOUS
  <2>3. r \in [id : 1 .. MaxAppends, byte_offset : Nat] /\ r.id = nextId - 1
    BY <2>1, <2>2
  <2>4. acked' = acked \cup {nextId - 1} /\ session' = session \cup {r}
        /\ UNCHANGED <<clean, flushed, safe>>
    BY <1>3, <2>2 DEF AppendOk, Returned
  <2>5. acked' \subseteq 1 .. MaxAppends /\ flushed' \subseteq acked' /\ safe' \subseteq flushed'
    BY <2>1, <2>4 DEF Typed, HistoryTyped
  <2> DEFINE R == [id : 1 .. MaxAppends, byte_offset : Nat]
  <2>6. session \subseteq R /\ r \in R
    BY <2>3 DEF Typed, HistoryTyped
  <2> HIDE DEF R
  <2>7. session' \subseteq R /\ \A x \in session' : x.id \in acked'
    BY <2>3, <2>4, <2>6 DEF Typed, HistoryTyped
  <2>. QED
    BY <2>4, <2>5, <2>7, Zenon DEF Typed, HistoryTyped, R
<1>4. CASE FlushOk \/ DropDone
  <2>1. {r.id : r \in session} \subseteq acked
    BY DEF Typed, HistoryTyped
  <2>. QED
    BY <1>4, <2>1 DEF FlushOk, DropDone, MarkFlushed, Typed, HistoryTyped
<1>5. CASE IoError \/ PowerLoss
  BY <1>5 DEF IoError, PowerLoss, Typed, HistoryTyped
<1>. QED
  BY <1>1, <1>2, <1>3, <1>4, <1>5
  DEF Next, Open, OpenNew, WriteHeaderPiece, AppendCall, AppendRejected, StartAppend, WritePiece,
      StartSpill, SpillDone, FlushCall, StartFlush, DropCall, StartDrop, OsWrite, Iterate, Crash, vars

LEMMA TypedInductive ==
  /\ Init => Typed
  /\ Typed /\ [Next]_vars => Typed'
<1>1. ASSUME Init PROVE Typed
  <2>1. DiskTyped /\ CallTyped
    BY <1>1, FileJournalAssumption
    DEF Init, DiskTyped, CallTyped, InSession, HeaderPieces, FramePieces
  <2>2. {MaxCrashes, MaxPowerLoss, MaxIoErrors} \subseteq Nat
    BY FileJournalAssumption
  <2>3. faults \in [crash : 0 .. MaxCrashes, power : 0 .. MaxPowerLoss, io : 0 .. MaxIoErrors]
    BY <1>1, <2>2 DEF Init
  <2>4. CountTyped /\ HistoryTyped
    BY <1>1, <2>3 DEF Init, CountTyped, HistoryTyped
  <2>. QED
    BY <2>1, <2>4 DEF Typed
<1>. QED
  BY <1>1, DiskTypedInductive, CallTypedInductive, CountTypedInductive, HistoryTypedInductive
  DEF Typed

\* The types of FileJournal hold across every crash, power loss and I/O error; a file without
\* a whole header has no records, and only appends that returned Ok count as flushed.
THEOREM TypeCorrect == Spec => []TypeOK
<1>1. Spec => []Typed
  BY TypedInductive, PTL DEF Spec
<1>2. Typed => TypeOK
  BY DEF Typed, DiskTyped, CallTyped, CountTyped, HistoryTyped, TypeOK, PieceRecord
<1>. QED
  BY <1>1, <1>2, PTL

-----------------------------------------------------------------------------
(* What the steps do to the pieces *)

Bytes == file \o buffer

LEMMA BytesFacts ==
  ASSUME DiskTyped
  PROVE  /\ Bytes \in Seq(PieceRecord) /\ Len(Bytes) = Len(file) + Len(buffer)
         /\ Len(file) \in Nat /\ Len(buffer) \in Nat
         /\ \A i \in 1 .. Len(file) : Bytes[i] = file[i]
         /\ \A i \in 1 .. Len(buffer) : Bytes[Len(file) + i] = buffer[i]
         /\ Begins(file, Bytes)
         /\ buffer = <<>> => Bytes = file
<1> HIDE DEF PieceRecord
<1>1. file \in Seq(PieceRecord) /\ buffer \in Seq(PieceRecord)
  BY DEF DiskTyped
<1>2. /\ Bytes \in Seq(PieceRecord) /\ Len(Bytes) = Len(file) + Len(buffer)
      /\ \A i \in 1 .. Len(file) + Len(buffer) :
           Bytes[i] = IF i <= Len(file) THEN file[i] ELSE buffer[i - Len(file)]
  BY <1>1, ConcatProperties DEF Bytes
<1>3. Len(file) \in Nat /\ Len(buffer) \in Nat
  BY <1>1
<1>4. \A i \in 1 .. Len(file) : Bytes[i] = file[i]
  <2>1. \A i \in 1 .. Len(file) : i \in 1 .. Len(file) + Len(buffer) /\ i <= Len(file)
    BY <1>3
  <2>. QED
    BY <1>2, <2>1
<1>5. \A i \in 1 .. Len(buffer) : Bytes[Len(file) + i] = buffer[i]
  <2>1. \A i \in 1 .. Len(buffer) :
          /\ Len(file) + i \in 1 .. Len(file) + Len(buffer) /\ ~ (Len(file) + i <= Len(file))
          /\ Len(file) + i - Len(file) = i
    BY <1>3
  <2>. QED
    BY <1>2, <2>1
<1>6. Begins(file, Bytes)
  BY <1>2, <1>3, <1>4 DEF Begins
<1>7. buffer = <<>> => Bytes = file
  BY <1>1, ConcatEmptySeq DEF Bytes
<1>. QED
  BY <1>1, <1>2, <1>3, <1>4, <1>5, <1>6, <1>7

\* Writing to the OS moves the border between the file and the buffer.
LEMMA OsWriteMoves ==
  ASSUME Typed, OsWrite
  PROVE  /\ Bytes' = Bytes /\ buffer # <<>>
         /\ Len(file') = Len(file) + 1 /\ Len(buffer') = Len(buffer) - 1
         /\ file'[Len(file) + 1] = buffer[1]
         /\ \A i \in 1 .. Len(file) : file'[i] = file[i]
         /\ \A i \in 1 .. Len(buffer) - 1 : buffer'[i] = buffer[i + 1]
<1> HIDE DEF PieceRecord
<1>1. /\ file \in Seq(PieceRecord) /\ buffer \in Seq(PieceRecord) /\ buffer # <<>>
      /\ cursor = Len(file) /\ Len(file) \in Nat
  BY DEF OsWrite, Typed, DiskTyped, InSession
<1>2. file' = Append(file, Head(buffer)) /\ buffer' = Tail(buffer)
  BY <1>1 DEF OsWrite
<1>3. /\ Len(file') = Len(file) + 1 /\ Len(buffer') = Len(buffer) - 1 /\ Len(buffer) \in Nat \ {0}
      /\ file'[Len(file) + 1] = buffer[1]
      /\ \A i \in 1 .. Len(file) : file'[i] = file[i]
      /\ \A i \in 1 .. Len(buffer) - 1 : buffer'[i] = buffer[i + 1]
      /\ file' \in Seq(PieceRecord) /\ buffer' \in Seq(PieceRecord)
  <2>1. Head(buffer) \in PieceRecord /\ Head(buffer) = buffer[1]
    BY <1>1
  <2>2. /\ file' \in Seq(PieceRecord) /\ Len(file') = Len(file) + 1
        /\ file'[Len(file) + 1] = buffer[1] /\ \A i \in 1 .. Len(file) : file'[i] = file[i]
    BY <1>1, <1>2, <2>1
  <2>3. Len(buffer) \in Nat \ {0}
    BY <1>1, EmptySeq
  <2>4. /\ buffer' \in Seq(PieceRecord) /\ Len(buffer') = Len(buffer) - 1
        /\ \A i \in 1 .. Len(buffer') : buffer'[i] = buffer[i + 1]
    BY <1>1, <1>2, HeadTailProperties
  <2>. QED
    BY <2>2, <2>3, <2>4
<1>4. Bytes' = Bytes
  <2> DEFINE n == Len(file) + Len(buffer)
  <2>1. /\ Bytes \in Seq(PieceRecord) /\ Len(Bytes) = n
        /\ \A i \in 1 .. n : Bytes[i] = IF i <= Len(file) THEN file[i] ELSE buffer[i - Len(file)]
    BY <1>1, ConcatProperties DEF Bytes
  <2>2. /\ file' \o buffer' \in Seq(PieceRecord) /\ Len(file' \o buffer') = Len(file') + Len(buffer')
        /\ \A i \in 1 .. Len(file') + Len(buffer') :
             (file' \o buffer')[i] = IF i <= Len(file') THEN file'[i] ELSE buffer'[i - Len(file')]
    BY <1>3, ConcatProperties
  <2>3. Len(file') + Len(buffer') = n
    BY <1>1, <1>3
  <2>4. \A i \in 1 .. n : (file' \o buffer')[i] = Bytes[i]
    <3> TAKE i \in 1 .. n
    <3>1. CASE i <= Len(file)
      <4>1. i \in 1 .. Len(file) /\ i <= Len(file')
        BY <1>1, <1>3, <3>1
      <4>2. (file' \o buffer')[i] = file'[i] /\ Bytes[i] = file[i]
        BY <2>1, <2>2, <2>3, <4>1
      <4>. QED
        BY <1>3, <4>1, <4>2
    <3>2. CASE i = Len(file) + 1
      <4>1. i <= Len(file') /\ ~ (i <= Len(file)) /\ i - Len(file) = 1
        BY <1>1, <1>3, <3>2
      <4>2. (file' \o buffer')[i] = file'[i] /\ Bytes[i] = buffer[1]
        BY <2>1, <2>2, <2>3, <4>1
      <4>. QED
        BY <1>3, <3>2, <4>2
    <3>3. CASE i > Len(file) + 1
      <4>1. /\ i - Len(file') \in 1 .. Len(buffer) - 1 /\ (i - Len(file')) + 1 = i - Len(file)
            /\ ~ (i <= Len(file')) /\ ~ (i <= Len(file))
        BY <1>1, <1>3, <3>3
      <4>2. buffer'[i - Len(file')] = buffer[i - Len(file)]
        BY <1>3, <4>1
      <4>. QED
        BY <2>1, <2>2, <2>3, <4>1, <4>2
    <3>4. i <= Len(file) \/ i = Len(file) + 1 \/ i > Len(file) + 1
      BY <1>1
    <3>. QED
      BY <3>1, <3>2, <3>3, <3>4, Zenon
  <2>5. file' \o buffer' = Bytes
    BY <2>1, <2>2, <2>3, <2>4, SeqEqual
  <2>. QED
    BY <2>5 DEF Bytes
<1>. QED
  BY <1>1, <1>3, <1>4

\* A step moves the border, appends one piece, cuts the pieces short, or leaves them.
Cut ==
  /\ buffer' = <<>> /\ Begins(file', file) /\ pc' \in {"ready", "down"}
  /\ UNCHANGED <<nextId, acked>>

LEMMA PieceSteps ==
  ASSUME Typed, [Next]_vars
  PROVE  UNCHANGED <<file, buffer>> \/ OsWrite \/ WritePiece \/ Cut
<1>1. Begins(file, file)
  BY DEF Begins, Typed, DiskTyped
<1>2. CASE UNCHANGED file /\ buffer' = <<>> /\ pc' \in {"ready", "down"} /\ UNCHANGED <<nextId, acked>>
  BY <1>1, <1>2 DEF Cut
<1>3. CASE HeaderWritten \/ OpenExisting \/ Crash
  BY <1>2, <1>3 DEF HeaderWritten, OpenExisting, Session, Crash, disk, history
<1>4. CASE IoError
  <2>1. UNCHANGED file /\ (UNCHANGED buffer \/ (buffer' = <<>> /\ pc' = "down"))
        /\ UNCHANGED <<nextId, acked>>
    BY <1>4 DEF IoError, disk
  <2>. QED
    BY <1>2, <2>1
<1>5. CASE PowerLoss
  <2>1. Len(file) \in Nat /\ file \in Seq(PieceRecord)
    BY DEF Typed, DiskTyped
  <2>2. Begins(<<>>, file)
    BY <2>1 DEF Begins
  <2>3. ASSUME NEW n \in 0 .. Len(file) PROVE Begins(SubSeq(file, 1, n), file)
    <3> HIDE DEF PieceRecord
    <3>1. \A i \in 1 .. n : file[i] \in PieceRecord
      BY <2>1
    <3>2. Len(SubSeq(file, 1, n)) = n /\ \A i \in 1 .. n : SubSeq(file, 1, n)[i] = file[i]
      BY <2>1, <3>1
    <3>. QED
      BY <2>1, <3>2 DEF Begins
  <2>. QED
    BY <1>5, <2>2, <2>3 DEF PowerLoss, Cut
<1>. QED
  BY <1>3, <1>4, <1>5
  DEF Next, Open, OpenNew, WriteHeaderPiece, AppendCall, AppendRejected, StartAppend,
      StartSpill, SpillDone, AppendOk, FlushCall, StartFlush, FlushOk, DropCall, StartDrop, DropDone,
      Iterate, vars, disk

\* Without a power loss the file only grows.
LEMMA FileGrows ==
  ASSUME Typed, [Next]_vars, faults'.power = faults.power
  PROVE  Begins(file, file')
<1>1. Begins(file, file)
  BY DEF Begins, Typed, DiskTyped
<1>2. CASE UNCHANGED file
  BY <1>1, <1>2
<1>3. CASE OsWrite
  <2>1. Len(file) \in Nat
    BY DEF Typed, DiskTyped
  <2>. QED
    BY <1>3, <2>1, OsWriteMoves DEF Begins
<1>4. CASE PowerLoss
  <2>1. faults'.power = faults.power + 1 /\ faults.power \in Nat
    BY <1>4 DEF PowerLoss, Typed, CountTyped
  <2>. QED
    BY <2>1
<1>. QED
  BY <1>2, <1>3, <1>4
  DEF Next, Open, OpenNew, WriteHeaderPiece, HeaderWritten, OpenExisting, Session, AppendCall,
      AppendRejected, StartAppend, WritePiece, StartSpill, SpillDone, AppendOk, FlushCall,
      StartFlush, FlushOk, DropCall, StartDrop, DropDone, Iterate, IoError, Crash, vars, disk

\* What iter_all once yields it yields for ever, across crashes, failed writes and
\* reopenings: no write of a later session goes over a record of an earlier one.
THEOREM RecordsStay == Spec => AppendOnly
<1>1. Spec => []Typed
  BY TypedInductive, PTL DEF Spec
<1>2. ASSUME Typed, Typed', [Next]_vars
      PROVE  LET old == Decoded(file) new == Decoded(file')
             IN  faults'.power = faults.power =>
                   Len(old) <= Len(new) /\ old = SubSeq(new, 1, Len(old))
  <2>1. file \in Seq(PieceRecord) /\ file' \in Seq(PieceRecord)
    BY <1>2 DEF Typed, DiskTyped, PieceRecord
  <2>. QED
    BY <1>2, <2>1, FileGrows, DecodedInLonger
<1>3. Typed /\ Typed' /\ [Next]_vars =>
        [LET old == Decoded(file) new == Decoded(file')
         IN  faults'.power = faults.power =>
               Len(old) <= Len(new) /\ old = SubSeq(new, 1, Len(old))]_vars
  BY <1>2
<1>. QED
  BY <1>1, <1>3, PTL DEF Spec, AppendOnly

-----------------------------------------------------------------------------
(* The pieces of an envelope *)

\* A later piece is of a later envelope, or of the same one and as much further on.
Ordered(b) ==
  \A i, j \in 1 .. Len(b) : i < j =>
    b[i].id < b[j].id \/ (b[i].id = b[j].id /\ b[j].part = b[i].part + (j - i))

\* The last pieces are those that the current append has written.
Tailed(b, w, id) ==
  /\ w <= Len(b)
  /\ \A i \in 1 .. Len(b) :
       IF i <= Len(b) - w THEN b[i].id < id ELSE b[i] = Piece(id, i - (Len(b) - w))

Stream ==
  /\ \A i \in 1 .. Len(Bytes) : Bytes[i].id < nextId
  /\ Ordered(Bytes)
  /\ pc \in {"append", "spill"} => Tailed(Bytes, written, nextId - 1)

LEMMA PieceOf ==
  ASSUME NEW b \in Seq(PieceRecord), NEW i \in 1 .. Len(b)
  PROVE  b[i].id \in 1 .. MaxAppends /\ b[i].part \in 1 .. FramePieces
<1>1. \A p \in PieceRecord : p.id \in 1 .. MaxAppends /\ p.part \in 1 .. FramePieces
  BY DEF PieceRecord
<1> HIDE DEF PieceRecord
<1>. QED
  BY <1>1, ElementOfSeq

LEMMA WritePieceAppends ==
  ASSUME Typed, WritePiece
  PROVE  /\ Len(Bytes') = Len(Bytes) + 1
         /\ Bytes'[Len(Bytes) + 1] = Piece(nextId - 1, written + 1)
         /\ \A i \in 1 .. Len(Bytes) : Bytes'[i] = Bytes[i]
         /\ file' = file /\ Len(buffer') = Len(buffer) + 1
         /\ buffer'[Len(buffer) + 1] = Piece(nextId - 1, written + 1)
         /\ \A i \in 1 .. Len(buffer) : buffer'[i] = buffer[i]
<1>1. DiskTyped /\ DiskTyped'
  BY DiskTypedInductive DEF Typed, Next, AppendCall
<1>2. PICK p : p = Piece(nextId - 1, written + 1)
  OBVIOUS
<1>3. file' = file /\ buffer' = Append(buffer, p)
  BY <1>2 DEF WritePiece, disk
<1> HIDE DEF PieceRecord
<1>4. /\ Len(buffer') = Len(buffer) + 1 /\ buffer'[Len(buffer) + 1] = p
      /\ \A i \in 1 .. Len(buffer) : buffer'[i] = buffer[i]
      /\ Len(buffer) \in Nat /\ Len(file) \in Nat
  BY <1>1, <1>3 DEF DiskTyped
<1>5. /\ Bytes' \in Seq(PieceRecord) /\ Len(Bytes') = Len(file') + Len(buffer')
      /\ \A i \in 1 .. Len(file') : Bytes'[i] = file'[i]
      /\ \A i \in 1 .. Len(buffer') : Bytes'[Len(file') + i] = buffer'[i]
  <2>1. /\ file' \o buffer' \in Seq(PieceRecord) /\ Len(file' \o buffer') = Len(file') + Len(buffer')
        /\ \A i \in 1 .. Len(file') + Len(buffer') :
             (file' \o buffer')[i] = IF i <= Len(file') THEN file'[i] ELSE buffer'[i - Len(file')]
    BY <1>1, ConcatProperties DEF DiskTyped, PieceRecord
  <2>2. \A i \in 1 .. Len(file') : i \in 1 .. Len(file') + Len(buffer') /\ i <= Len(file')
    BY <1>3, <1>4
  <2>3. \A i \in 1 .. Len(buffer') :
          /\ Len(file') + i \in 1 .. Len(file') + Len(buffer') /\ ~ (Len(file') + i <= Len(file'))
          /\ Len(file') + i - Len(file') = i
    BY <1>3, <1>4
  <2>. QED
    BY <2>1, <2>2, <2>3 DEF Bytes
<1>6. /\ Len(Bytes) = Len(file) + Len(buffer)
      /\ \A i \in 1 .. Len(file) : Bytes[i] = file[i]
      /\ \A i \in 1 .. Len(buffer) : Bytes[Len(file) + i] = buffer[i]
  BY <1>1, BytesFacts
<1>7. Len(Bytes') = Len(Bytes) + 1 /\ Len(Bytes) + 1 = Len(file) + (Len(buffer) + 1)
  BY <1>3, <1>4, <1>5, <1>6
<1>8. Bytes'[Len(Bytes) + 1] = p
  <2>1. Len(buffer) + 1 \in 1 .. Len(buffer')
    BY <1>4
  <2>. QED
    BY <1>3, <1>4, <1>5, <1>7, <2>1
<1>9. \A i \in 1 .. Len(Bytes) : Bytes'[i] = Bytes[i]
  <2> TAKE i \in 1 .. Len(Bytes)
  <2>1. CASE i \in 1 .. Len(file)
    BY <1>3, <1>5, <1>6, <2>1
  <2>2. CASE i \notin 1 .. Len(file)
    <3>1. i - Len(file) \in 1 .. Len(buffer) /\ i - Len(file) \in 1 .. Len(buffer')
          /\ Len(file) + (i - Len(file)) = i
      BY <1>4, <1>6, <2>2
    <3>2. Bytes[i] = buffer[i - Len(file)] /\ Bytes'[i] = buffer'[i - Len(file)]
      BY <1>3, <1>5, <1>6, <3>1
    <3>. QED
      BY <1>4, <3>1, <3>2
  <2>. QED
    BY <2>1, <2>2
<1>. QED
  BY <1>2, <1>3, <1>4, <1>7, <1>8, <1>9

LEMMA StreamInductive ==
  /\ Init => Stream
  /\ Typed /\ Stream /\ [Next]_vars => Stream'
<1>1. ASSUME Init PROVE Stream
  <2>1. Bytes = <<>>
    BY <1>1, ConcatEmptySeq DEF Init, Bytes
  <2>. QED
    BY <1>1, <2>1 DEF Init, Stream, Ordered
<1>2. ASSUME Typed, Stream, [Next]_vars PROVE Stream'
  <2> DEFINE n == Len(Bytes)
  <2>1. /\ n \in Nat /\ Bytes \in Seq(PieceRecord)
        /\ \A i \in 1 .. n : Bytes[i].id \in Nat /\ Bytes[i].part \in Nat
        /\ nextId \in Nat /\ written \in 0 .. 3
    <3>1. Bytes \in Seq(PieceRecord) /\ n \in Nat
      BY <1>2, BytesFacts DEF Typed
    <3>2. \A i \in 1 .. n : Bytes[i].id \in 1 .. MaxAppends /\ Bytes[i].part \in 1 .. FramePieces
      BY <3>1, PieceOf
    <3>. QED
      BY <1>2, <3>1, <3>2 DEF Typed, CallTyped, FramePieces
  <2>2. /\ \A i \in 1 .. n : Bytes[i].id < nextId
        /\ Ordered(Bytes)
        /\ pc \in {"append", "spill"} => Tailed(Bytes, written, nextId - 1)
    BY <1>2 DEF Stream
  <2>3. CASE Bytes' = Bytes
    <3>1. CASE StartAppend
      <4>1. nextId' = nextId + 1 /\ written' = 0 /\ nextId' - 1 = nextId
        BY <2>1, <3>1 DEF StartAppend
      <4>2. \A i \in 1 .. n : Bytes[i].id < nextId + 1
        BY <2>1, <2>2
      <4>3. Tailed(Bytes, 0, nextId)
        BY <2>1, <2>2 DEF Tailed
      <4>. QED
        BY <2>2, <2>3, <4>1, <4>2, <4>3 DEF Stream
    <3>2. CASE AppendRejected
      <4>1. nextId' = nextId + 1 /\ pc' \notin {"append", "spill"}
        BY <3>2 DEF AppendRejected
      <4>2. \A i \in 1 .. n : Bytes[i].id < nextId + 1
        BY <2>1, <2>2
      <4>. QED
        BY <2>2, <2>3, <4>1, <4>2 DEF Stream
    <3>3. CASE UNCHANGED <<nextId, written>> /\ (pc' \in {"append", "spill"} => pc \in {"append", "spill"})
      BY <2>2, <2>3, <3>3 DEF Stream
    <3>4. CASE WritePiece
      BY <1>2, <2>1, <2>3, <3>4, WritePieceAppends
    <3>. QED
      BY <1>2, <3>1, <3>2, <3>3, <3>4
      DEF Next, Open, OpenNew, WriteHeaderPiece, HeaderWritten, OpenExisting, Session, AppendCall,
          StartSpill, SpillDone, AppendOk, FlushCall, StartFlush, FlushOk, DropCall,
          StartDrop, DropDone, OsWrite, Iterate, IoError, Crash, PowerLoss, vars
  <2>4. CASE WritePiece
    <3> DEFINE w == written
               id == nextId - 1
               p == Piece(id, w + 1)
    <3>1. /\ Len(Bytes') = n + 1 /\ Bytes'[n + 1] = p
          /\ \A i \in 1 .. n : Bytes'[i] = Bytes[i]
      BY <1>2, <2>4, WritePieceAppends
    <3>2. Tailed(Bytes, w, id) /\ written' = w + 1 /\ UNCHANGED nextId /\ pc = "append"
      BY <2>2, <2>4 DEF WritePiece
    <3>3. p.id = id /\ p.part = w + 1 /\ id \in Int /\ w \in 0 .. 3
      BY <2>1 DEF Piece
    <3> HIDE DEF p
    <3>4. \A i \in 1 .. n + 1 : Bytes'[i].id < nextId
      <4> TAKE i \in 1 .. n + 1
      <4>1. i \in 1 .. n \/ i = n + 1
        BY <2>1
      <4>2. id < nextId
        BY <2>1
      <4>. QED
        BY <2>2, <3>1, <3>3, <4>1, <4>2
    <3>5. ASSUME NEW i \in 1 .. n
          PROVE  Bytes[i].id < id \/ (Bytes[i].id = id /\ w + 1 = Bytes[i].part + (n + 1 - i))
      <4>1. CASE i <= n - w
        BY <3>2, <4>1 DEF Tailed
      <4>2. CASE ~ (i <= n - w)
        <5>1. Bytes[i] = Piece(id, i - (n - w))
          BY <3>2, <4>2 DEF Tailed
        <5>2. Bytes[i].id = id /\ Bytes[i].part = i - (n - w)
          BY <5>1 DEF Piece
        <5>. QED
          BY <2>1, <5>2
      <4>. QED
        BY <4>1, <4>2
    <3>6. Ordered(Bytes')
      <4> SUFFICES ASSUME NEW i \in 1 .. n + 1, NEW j \in 1 .. n + 1, i < j
                   PROVE  \/ Bytes'[i].id < Bytes'[j].id
                          \/ Bytes'[i].id = Bytes'[j].id /\ Bytes'[j].part = Bytes'[i].part + (j - i)
        BY <3>1 DEF Ordered
      <4>1. i \in 1 .. n
        BY <2>1
      <4>2. CASE j \in 1 .. n
        BY <2>2, <3>1, <4>1, <4>2 DEF Ordered
      <4>3. CASE j = n + 1
        BY <3>1, <3>3, <3>5, <4>1, <4>3
      <4>. QED
        BY <2>1, <4>2, <4>3
    <3>7. Tailed(Bytes', w + 1, id)
      <4>1. w + 1 <= n + 1 /\ (n + 1) - (w + 1) = n - w
        BY <2>1, <3>2 DEF Tailed
      <4>2. ASSUME NEW i \in 1 .. n + 1
            PROVE  IF i <= n - w THEN Bytes'[i].id < id ELSE Bytes'[i] = Piece(id, i - (n - w))
        <5>1. CASE i = n + 1
          <6>1. ~ (i <= n - w) /\ i - (n - w) = w + 1
            BY <2>1, <5>1
          <6>. QED
            BY <3>1, <5>1, <6>1 DEF p
        <5>2. CASE i \in 1 .. n
          BY <3>1, <3>2, <5>2 DEF Tailed
        <5>. QED
          BY <2>1, <5>1, <5>2
      <4>. QED
        BY <3>1, <4>1, <4>2 DEF Tailed
    <3>. QED
      BY <3>1, <3>2, <3>4, <3>6, <3>7 DEF Stream
  <2>5. CASE Cut
    <3>1. Begins(Bytes', Bytes)
      <4>1. DiskTyped'
        BY <1>2, DiskTypedInductive
      <4>2. file' \o buffer' = file'
        BY <2>5, <4>1, ConcatEmptySeq DEF Cut, DiskTyped
      <4>3. Bytes' = file'
        BY <4>2 DEF Bytes
      <4>4. Begins(file', file) /\ Begins(file, Bytes)
        BY <1>2, <2>5, BytesFacts DEF Cut, Typed
      <4>. QED
        BY <4>3, <4>4 DEF Begins
    <3>2. \A i \in 1 .. Len(Bytes') : i \in 1 .. n /\ Bytes'[i] = Bytes[i]
      BY <3>1 DEF Begins
    <3>3. Ordered(Bytes') /\ \A i \in 1 .. Len(Bytes') : Bytes'[i].id < nextId
      BY <2>2, <3>2 DEF Ordered
    <3>. QED
      BY <2>5, <3>3 DEF Stream, Cut
  <2>. QED
    BY <1>2, <2>3, <2>4, <2>5, PieceSteps, OsWriteMoves DEF Bytes
<1>. QED
  BY <1>1, <1>2

\* The last piece of a frame reaches the file only when its append has returned Ok.
Acks ==
  /\ \A i \in 1 .. Len(file) : file[i].part = FramePieces => file[i].id \in acked
  /\ \A i \in 1 .. Len(buffer) : buffer[i].part = FramePieces =>
       \/ buffer[i].id \in acked
       \/ pc = "append" /\ written = FramePieces /\ buffer[i].id = nextId - 1

LEMMA AcksInductive ==
  /\ Init => Acks
  /\ Typed /\ Acks /\ [Next]_vars => Acks'
<1>1. Init => Acks
  BY DEF Init, Acks
<1>2. ASSUME Typed, Acks, [Next]_vars PROVE Acks'
  <2>1. Len(file) \in Nat /\ Len(buffer) \in Nat
    BY <1>2 DEF Typed, DiskTyped
  <2>2. acked \subseteq acked'
    BY <1>2
    DEF Next, Open, OpenNew, WriteHeaderPiece, HeaderWritten, OpenExisting, Session, AppendCall,
        AppendRejected, StartAppend, WritePiece, StartSpill, SpillDone, AppendOk, Returned,
        FlushCall, StartFlush, FlushOk, DropCall, StartDrop, DropDone, OsWrite, Iterate, IoError,
        Crash, PowerLoss, vars, history
  <2>3. CASE OsWrite
    <3>1. pc # "append" /\ UNCHANGED <<pc, acked>>
      BY <2>3 DEF OsWrite, history
    <3>2. \A i \in 1 .. Len(buffer) : buffer[i].part = FramePieces => buffer[i].id \in acked
      BY <1>2, <3>1 DEF Acks
    <3>3. /\ buffer # <<>> /\ Len(file') = Len(file) + 1 /\ Len(buffer') = Len(buffer) - 1
          /\ file'[Len(file) + 1] = buffer[1]
          /\ \A i \in 1 .. Len(file) : file'[i] = file[i]
          /\ \A i \in 1 .. Len(buffer) - 1 : buffer'[i] = buffer[i + 1]
      BY <1>2, <2>3, OsWriteMoves
    <3>4. 1 \in 1 .. Len(buffer)
      BY <1>2, <2>1, <3>3, EmptySeq DEF Typed, DiskTyped
    <3>5. \A i \in 1 .. Len(file') : file'[i].part = FramePieces => file'[i].id \in acked
      <4> TAKE i \in 1 .. Len(file')
      <4>1. i \in 1 .. Len(file) \/ i = Len(file) + 1
        BY <2>1, <3>3
      <4>. QED
        BY <1>2, <3>2, <3>3, <3>4, <4>1 DEF Acks
    <3>6. \A i \in 1 .. Len(buffer') : buffer'[i].part = FramePieces => buffer'[i].id \in acked
      <4> TAKE i \in 1 .. Len(buffer')
      <4>1. i \in 1 .. Len(buffer) - 1 /\ i + 1 \in 1 .. Len(buffer)
        BY <2>1, <3>3
      <4>. QED
        BY <3>2, <3>3, <4>1
    <3>. QED
      BY <3>1, <3>5, <3>6 DEF Acks
  <2>4. CASE WritePiece
    <3>1. /\ file' = file /\ Len(buffer') = Len(buffer) + 1
          /\ buffer'[Len(buffer) + 1] = Piece(nextId - 1, written + 1)
          /\ \A i \in 1 .. Len(buffer) : buffer'[i] = buffer[i]
      BY <1>2, <2>4, WritePieceAppends
    <3>2. /\ pc' = "append" /\ written' = written + 1 /\ UNCHANGED <<nextId, acked>>
          /\ written # FramePieces
      BY <1>2, <2>4 DEF WritePiece, history, FramePieces, Typed, CallTyped
    <3>3. \A i \in 1 .. Len(buffer) : buffer[i].part = FramePieces => buffer[i].id \in acked
      BY <1>2, <3>2 DEF Acks
    <3>4. ASSUME NEW i \in 1 .. Len(buffer'), buffer'[i].part = FramePieces
          PROVE  buffer'[i].id \in acked \/ (written' = FramePieces /\ buffer'[i].id = nextId - 1)
      <4>1. i \in 1 .. Len(buffer) \/ i = Len(buffer) + 1
        BY <2>1, <3>1
      <4>2. CASE i = Len(buffer) + 1
        BY <3>1, <3>2, <3>4, <4>2 DEF Piece
      <4>. QED
        BY <3>1, <3>3, <3>4, <4>1, <4>2
    <3>. QED
      BY <1>2, <3>1, <3>2, <3>4 DEF Acks
  <2>5. CASE Cut
    <3>1. \A i \in 1 .. Len(file') : i \in 1 .. Len(file) /\ file'[i] = file[i]
      BY <2>5 DEF Cut, Begins
    <3>2. Len(buffer') = 0
      BY <2>5 DEF Cut
    <3>. QED
      BY <1>2, <2>5, <3>1, <3>2 DEF Acks, Cut
  <2>6. CASE UNCHANGED <<file, buffer>>
    <3>1. ASSUME NEW i \in 1 .. Len(buffer), buffer[i].part = FramePieces
          PROVE  \/ buffer[i].id \in acked'
                 \/ pc' = "append" /\ written' = FramePieces /\ buffer[i].id = nextId' - 1
      <4>1. CASE buffer[i].id \in acked
        BY <2>2, <4>1
      <4>2. CASE pc = "append" /\ written = FramePieces /\ buffer[i].id = nextId - 1
        <5>1. CASE AppendOk
          BY <4>2, <5>1 DEF AppendOk, Returned
        <5>2. CASE Crash \/ PowerLoss
          <6>1. buffer' = <<>>
            BY <5>2 DEF Crash, PowerLoss
          <6>. QED
            BY <2>1, <2>6, <6>1
        <5>3. CASE WritePiece
          BY <1>2, <2>1, <2>6, <5>3, WritePieceAppends
        <5>4. CASE UNCHANGED vars
          BY <4>2, <5>4 DEF vars
        <5>. QED
          BY <1>2, <4>2, <5>1, <5>2, <5>3, <5>4
          DEF Next, Open, OpenNew, WriteHeaderPiece, HeaderWritten, OpenExisting, AppendCall,
              AppendRejected, StartAppend, StartSpill, SpillDone, FlushCall, StartFlush, FlushOk,
              DropCall, StartDrop, DropDone, OsWrite, Iterate, IoError, FramePieces
      <4>. QED
        BY <1>2, <3>1, <4>1, <4>2 DEF Acks
    <3>. QED
      BY <1>2, <2>2, <2>6, <3>1 DEF Acks
  <2>. QED
    BY <1>2, <2>3, <2>4, <2>5, <2>6, PieceSteps
<1>. QED
  BY <1>1, <1>2

\* What the journal yields are envelopes whose append returned Ok, each once and in the order
\* of their appends, whatever tore the file.
THEOREM NoPhantoms == Spec => []NoPhantomRecords
<1>1. Spec => [](Typed /\ Stream /\ Acks)
  BY TypedInductive, StreamInductive, AcksInductive, PTL DEF Spec
<1>2. ASSUME Typed, Stream, Acks PROVE NoPhantomRecords
  <2> DEFINE d == Decoded(file)
             first(k) == (k - 1) * FramePieces + 1
             y == Yielded(file)
  <2>1. /\ file \in Seq(PieceRecord) /\ Len(file) \in Nat /\ Len(d) = y /\ y \in Nat
        /\ \A k \in 1 .. y : d[k] = file[first(k)].id /\ WholeFrame(file, k)
    BY <1>2, DecodedType DEF Typed, DiskTyped
  <2>2. ASSUME NEW k \in 1 .. y
        PROVE  /\ first(k) \in 1 .. Len(file) /\ first(k) + 2 \in 1 .. Len(file)
               /\ file[first(k)].part = 1
               /\ file[first(k) + 2].part = 3 /\ file[first(k) + 2].id = d[k]
    <3>1. /\ k * 3 <= Len(file)
          /\ \E id \in 1 .. MaxAppends : \A j \in 1 .. 3 : file[(k - 1) * 3 + j] = Piece(id, j)
      BY <2>1 DEF WholeFrame, FramePieces
    <3>2. PICK id \in 1 .. MaxAppends : \A j \in 1 .. 3 : file[(k - 1) * 3 + j] = Piece(id, j)
      BY <3>1
    <3>3. first(k) = (k - 1) * 3 + 1 /\ first(k) + 2 = (k - 1) * 3 + 3
      BY DEF FramePieces
    <3>4. file[first(k)] = Piece(id, 1) /\ file[first(k) + 2] = Piece(id, 3)
      BY <3>2, <3>3
    <3>5. first(k) \in 1 .. Len(file) /\ first(k) + 2 \in 1 .. Len(file)
      BY <2>1, <3>1, <3>3
    <3>. QED
      BY <2>1, <3>4, <3>5 DEF Piece
  <2>3. \A k \in 1 .. y : d[k] \in acked
    BY <1>2, <2>2 DEF Acks, FramePieces
  <2>4. ASSUME NEW k \in 1 .. y, NEW j \in 1 .. k - 1 PROVE d[j] < d[k]
    <3>1. j \in 1 .. y /\ first(j) < first(k)
      BY <2>1 DEF FramePieces
    <3> HIDE DEF first
    <3>2. /\ first(j) \in 1 .. Len(file) /\ first(k) \in 1 .. Len(file)
          /\ file[first(j)].part = 1 /\ file[first(k)].part = 1
          /\ file[first(j)].id = d[j] /\ file[first(k)].id = d[k]
      BY <2>1, <2>2, <3>1
    <3>3. /\ \A i \in 1 .. Len(file) : i \in 1 .. Len(Bytes) /\ Bytes[i] = file[i]
      BY <1>2, BytesFacts DEF Typed, Begins
    <3>4. \/ d[j] < d[k]
          \/ d[j] = d[k] /\ 1 = 1 + (first(k) - first(j))
      BY <1>2, <3>1, <3>2, <3>3 DEF Stream, Ordered
    <3>. QED
      BY <3>1, <3>2, <3>4
  <2>. QED
    BY <2>1, <2>3, <2>4 DEF NoPhantomRecords
<1>. QED
  BY <1>1, <1>2, PTL

-----------------------------------------------------------------------------
(* Positions *)

\* What the current append has written: it is not yet counted in byte_offset.
Partial == IF pc \in {"append", "spill"} THEN written ELSE 0

\* b has a frame of r's envelope where r says.
Placed(b, r) == r.byte_offset < Len(b) /\ b[r.byte_offset + 1] = Piece(r.id, 1)

Positions ==
  faults.io = 0 /\ InSession =>
    /\ Len(Bytes) = byte_offset + Partial
    /\ \A r \in session : Placed(Bytes, r)

LEMMA SessionStarts ==
  ASSUME Typed, HeaderWritten \/ OpenExisting
  PROVE  /\ Bytes' = file /\ file' = file /\ byte_offset' = Len(file) /\ session' = {}
         /\ pc' = "ready" /\ clean' = EndsCleanly(file) /\ UNCHANGED <<faults, acked>>
<1>1. buffer = <<>>
  BY DEF HeaderWritten, OpenExisting, Typed, DiskTyped, InSession
<1>2. file' = file /\ buffer' = buffer
  BY <1>1 DEF HeaderWritten, OpenExisting, Session
<1>3. Bytes' = file
  BY <1>1, <1>2, BytesFacts DEF Bytes, Typed
<1>4. byte_offset' = Len(file)
  BY DEF HeaderWritten, OpenExisting, Session, Typed, DiskTyped
<1>. QED
  BY <1>2, <1>3, <1>4 DEF HeaderWritten, OpenExisting, Session

LEMMA SessionEnds ==
  ASSUME Crash \/ PowerLoss
  PROVE  ~ InSession'
BY DEF Crash, PowerLoss, InSession

LEMMA PositionsInductive ==
  /\ Init => Positions
  /\ Typed /\ Stream /\ Positions /\ [Next]_vars => Positions'
<1>1. Init => Positions
  BY DEF Init, Positions, InSession
<1>2. ASSUME Typed, Stream, Positions, [Next]_vars PROVE Positions'
  <2>1. /\ Len(Bytes) \in Nat /\ byte_offset \in Nat /\ written \in 0 .. 3
        /\ \A r \in session : r.byte_offset \in Nat
    BY <1>2, BytesFacts DEF Typed, CallTyped, CountTyped, HistoryTyped, FramePieces
  <2>2. CASE HeaderWritten \/ OpenExisting
    <3>1. Len(file) \in Nat
      BY <1>2 DEF Typed, DiskTyped
    <3>. QED
      BY <1>2, <2>2, <3>1, SessionStarts DEF Positions, Partial
  <2>3. CASE Crash \/ PowerLoss
    BY <2>3, SessionEnds DEF Positions
  <2>4. CASE IoError
    <3>1. faults.io \in Nat /\ faults'.io = faults.io + 1
      BY <1>2, <2>4 DEF IoError, Typed, CountTyped
    <3>2. faults'.io # 0
      BY <3>1
    <3>. QED
      BY <3>2 DEF Positions
  <2>5. CASE WritePiece
    <3>1. /\ Len(Bytes') = Len(Bytes) + 1 /\ \A i \in 1 .. Len(Bytes) : Bytes'[i] = Bytes[i]
      BY <1>2, <2>5, WritePieceAppends
    <3>2. /\ UNCHANGED <<byte_offset, session, faults>> /\ InSession
          /\ Partial' = Partial + 1 /\ Partial = written
      BY <2>5 DEF WritePiece, history, Partial, InSession
    <3>3. ASSUME faults.io = 0
          PROVE  Len(Bytes') = byte_offset + Partial' /\ \A r \in session : Placed(Bytes', r)
      <4>1. Len(Bytes) = byte_offset + Partial /\ \A r \in session : Placed(Bytes, r)
        BY <1>2, <3>2, <3>3 DEF Positions
      <4>2. ASSUME NEW r \in session PROVE Placed(Bytes', r)
        <5>1. r.byte_offset + 1 \in 1 .. Len(Bytes)
          BY <2>1, <4>1 DEF Placed
        <5>. QED
          BY <2>1, <3>1, <4>1, <5>1 DEF Placed
      <4>. QED
        BY <2>1, <3>1, <3>2, <4>1, <4>2
    <3>. QED
      BY <3>2, <3>3 DEF Positions
  <2>6. CASE AppendOk
    <3>1. /\ UNCHANGED <<file, buffer, faults>> /\ Bytes' = Bytes
          /\ byte_offset' = byte_offset + 3 /\ Partial' = 0 /\ Partial = 3 /\ pc = "append"
          /\ session' = session \cup {[id |-> nextId - 1, byte_offset |-> byte_offset]}
          /\ written = 3 /\ InSession
      BY <2>6 DEF AppendOk, Returned, disk, Bytes, Partial, FramePieces, InSession
    <3>2. ASSUME faults.io = 0
          PROVE  Len(Bytes) = byte_offset + 3 /\ \A r \in session' : Placed(Bytes, r)
      <4>1. Len(Bytes) = byte_offset + 3 /\ \A r \in session : Placed(Bytes, r)
        BY <1>2, <3>1, <3>2 DEF Positions
      <4>2. Tailed(Bytes, 3, nextId - 1)
        BY <1>2, <3>1 DEF Stream
      <4>3. PICK k, n : k = byte_offset + 1 /\ n = Len(Bytes)
        OBVIOUS
      <4>4. byte_offset \in Nat /\ n = byte_offset + 3
        BY <2>1, <4>1, <4>3
      <4>5. /\ k \in 1 .. n /\ ~ (k <= n - 3) /\ k - (n - 3) = 1
        BY <4>3, <4>4
      <4>6. Bytes[k] = Piece(nextId - 1, k - (n - 3))
        BY <4>2, <4>3, <4>5 DEF Tailed
      <4>7. Bytes[byte_offset + 1] = Piece(nextId - 1, 1)
        BY <4>3, <4>5, <4>6
      <4>8. byte_offset < Len(Bytes)
        BY <2>1, <4>1
      <4>. QED
        BY <3>1, <4>1, <4>7, <4>8 DEF Placed
    <3>. QED
      BY <2>1, <3>1, <3>2 DEF Positions
  <2>7. CASE UNCHANGED <<byte_offset, session, faults>> /\ Bytes' = Bytes
             /\ (InSession' => InSession /\ Partial' = Partial)
    BY <1>2, <2>7 DEF Positions
  <2>8. CASE StartAppend \/ StartSpill \/ SpillDone \/ AppendRejected
    <3>1. UNCHANGED <<byte_offset, session, faults>> /\ Bytes' = Bytes
      BY <2>8 DEF StartAppend, StartSpill, SpillDone, AppendRejected, history, disk, Bytes
    <3>2. InSession /\ Partial' = Partial
      BY <2>8 DEF StartAppend, StartSpill, SpillDone, AppendRejected, InSession, Partial
    <3>. QED
      BY <2>7, <3>1, <3>2
  <2>9. CASE OsWrite
    <3>1. UNCHANGED <<byte_offset, session, faults, pc, written>> /\ Bytes' = Bytes
      BY <1>2, <2>9, OsWriteMoves DEF OsWrite, history
    <3>. QED
      BY <2>7, <3>1 DEF InSession, Partial
  <2>10. CASE OpenNew \/ WriteHeaderPiece
    BY <2>10 DEF OpenNew, WriteHeaderPiece, Positions, InSession
  <2>11. CASE Iterate \/ FlushCall \/ DropCall \/ UNCHANGED vars
    <3>1. UNCHANGED <<byte_offset, session, faults>> /\ Bytes' = Bytes
      BY <2>11
      DEF Iterate, FlushCall, StartFlush, FlushOk, DropCall, StartDrop, DropDone, vars, history,
          disk, Bytes
    <3>2. InSession' => InSession /\ Partial' = Partial
      BY <2>11
      DEF Iterate, FlushCall, StartFlush, FlushOk, DropCall, StartDrop, DropDone, vars, InSession,
          Partial
    <3>. QED
      BY <2>7, <3>1, <3>2
  <2>. QED
    BY <1>2, <2>2, <2>3, <2>4, <2>5, <2>6, <2>8, <2>9, <2>10, <2>11 DEF Next, Open, AppendCall
<1>. QED
  BY <1>1, <1>2

\* append: until a write to the OS fails, each position a session returned is that of the
\* first byte of its envelope's frame, also in a file opened with a torn tail.
THEOREM PositionsName == Spec => []PositionsBeforeFailure
<1>1. Spec => [](Typed /\ Stream /\ Positions)
  BY TypedInductive, StreamInductive, PositionsInductive, PTL DEF Spec
<1>2. ASSUME Typed, Positions PROVE PositionsBeforeFailure
  <2>1. pc \notin {"down", "header"} => InSession
    BY <1>2 DEF Typed, DiskTyped, InSession
  <2>. QED
    BY <1>2, <2>1 DEF PositionsBeforeFailure, PositionNamesFrame, Positions, Placed, Bytes
<1>. QED
  BY <1>1, <1>2, PTL

-----------------------------------------------------------------------------
(* Flushed in a clean session *)

\* The pieces are m whole frames and what the current append has written; the session's
\* envelopes are among the frames.
Framed(m) ==
  /\ Len(Bytes) = m * FramePieces + Partial
  /\ \A k \in 1 .. m : WholeFrame(Bytes, k)
  /\ \A r \in session : \E k \in 1 .. m : Bytes[(k - 1) * FramePieces + 1].id = r.id

Clean == clean /\ InSession => \E m \in Nat : Framed(m)

LEMMA CleanInductive ==
  /\ Init => Clean
  /\ Typed /\ Stream /\ Clean /\ [Next]_vars => Clean'
<1>1. Init => Clean
  BY DEF Init, Clean
<1>2. ASSUME Typed, Stream, Clean, [Next]_vars PROVE Clean'
  <2>1. Len(Bytes) \in Nat /\ written \in 0 .. 3 /\ Begins(Bytes, Bytes)
    BY <1>2, BytesFacts DEF Typed, CallTyped, FramePieces, Begins
  <2>2. CASE HeaderWritten \/ OpenExisting
    <3>1. /\ Bytes' = file /\ session' = {} /\ Partial' = 0 /\ clean' = EndsCleanly(file)
      BY <1>2, <2>2, SessionStarts DEF Partial
    <3>2. PICK m : m = Yielded(file)
      OBVIOUS
    <3>3. /\ m \in Nat /\ \A k \in 1 .. m : WholeFrame(file, k)
      BY <1>2, <3>2, YieldedFrames DEF Typed, DiskTyped
    <3>4. clean' => Len(file) = m * FramePieces + 0
      <4>1. Len(file) = m * FramePieces => Len(file) = m * FramePieces + 0
        BY <3>3 DEF FramePieces
      <4>2. EndsCleanly(file) => Len(file) = m * FramePieces
        BY <3>2 DEF EndsCleanly
      <4>. QED
        BY <3>1, <4>1, <4>2
    <3>5. clean' => Framed(m)'
      BY <3>1, <3>3, <3>4 DEF Framed
    <3>. QED
      BY <3>3, <3>5 DEF Clean
  <2>3. CASE Crash \/ PowerLoss
    BY <2>3, SessionEnds DEF Clean
  <2>4. CASE IoError
    BY <2>4 DEF IoError, Clean
  <2>5. CASE WritePiece
    <3>1. /\ Len(Bytes') = Len(Bytes) + 1 /\ \A i \in 1 .. Len(Bytes) : Bytes'[i] = Bytes[i]
      BY <1>2, <2>5, WritePieceAppends
    <3>2. /\ UNCHANGED <<session, clean>> /\ InSession
          /\ Partial' = Partial + 1 /\ Partial = written
      BY <2>5 DEF WritePiece, history, Partial, InSession
    <3>3. Begins(Bytes, Bytes')
      BY <2>1, <3>1 DEF Begins
    <3>4. ASSUME NEW m \in Nat, Framed(m) PROVE Framed(m)'
      <4>1. Len(Bytes') = m * FramePieces + Partial'
        BY <2>1, <3>1, <3>2, <3>4 DEF Framed, FramePieces
      <4>2. \A k \in 1 .. m :
              /\ WholeFrame(Bytes', k)
              /\ Bytes'[(k - 1) * FramePieces + 1] = Bytes[(k - 1) * FramePieces + 1]
        <5> TAKE k \in 1 .. m
        <5>1. k \in Nat \ {0} /\ WholeFrame(Bytes, k)
          BY <3>4 DEF Framed
        <5>. QED
          BY <3>3, <5>1, WholeInLonger
      <4>3. \A r \in session : \E k \in 1 .. m : Bytes'[(k - 1) * FramePieces + 1].id = r.id
        BY <3>4, <4>2 DEF Framed
      <4>. QED
        BY <3>2, <4>1, <4>2, <4>3 DEF Framed
    <3>. QED
      BY <1>2, <3>2, <3>4 DEF Clean
  <2>6. CASE AppendOk
    <3>1. /\ Bytes' = Bytes /\ Partial' = 0 /\ Partial = 3 /\ pc = "append" /\ written = 3
          /\ InSession /\ UNCHANGED clean
      BY <2>6 DEF AppendOk, disk, Bytes, Partial, FramePieces, InSession
    <3>2. PICK r : r.id = nextId - 1 /\ session' = session \cup {r}
      BY <2>6 DEF AppendOk, Returned
    <3>3. Tailed(Bytes, 3, nextId - 1)
      BY <1>2, <3>1 DEF Stream
    <3>4. ASSUME NEW m \in Nat, Framed(m) PROVE Framed(m + 1)'
      <4>1. Len(Bytes) = m * 3 + 3
        BY <3>1, <3>4 DEF Framed, FramePieces
      <4>2. ASSUME NEW j \in 1 .. 3 PROVE Bytes[m * 3 + j] = Piece(nextId - 1, j)
        <5>1. /\ m * 3 + j \in 1 .. Len(Bytes) /\ ~ (m * 3 + j <= Len(Bytes) - 3)
              /\ m * 3 + j - (Len(Bytes) - 3) = j
          BY <4>1
        <5>. QED
          BY <3>3, <5>1 DEF Tailed
      <4>3. nextId - 1 \in 1 .. MaxAppends
        BY <1>2, <3>1, FileJournalAssumption DEF Typed, CallTyped
      <4>4. (m + 1) - 1 = m /\ (m + 1) * 3 = m * 3 + 3
        OBVIOUS
      <4>5. WholeFrame(Bytes, m + 1)
        <5>1. \A j \in 1 .. 3 : Bytes[((m + 1) - 1) * 3 + j] = Piece(nextId - 1, j)
          BY <4>2, <4>4
        <5>2. (m + 1) * 3 <= Len(Bytes)
          BY <4>1, <4>4
        <5>. QED
          BY <4>3, <5>1, <5>2 DEF WholeFrame, FramePieces
      <4>6. \A k \in 1 .. m + 1 : k \in 1 .. m \/ k = m + 1
        OBVIOUS
      <4>7. \A k \in 1 .. m + 1 : WholeFrame(Bytes, k)
        BY <3>4, <4>5, <4>6 DEF Framed
      <4>8. \A x \in session : \E k \in 1 .. m + 1 : Bytes[(k - 1) * FramePieces + 1].id = x.id
        <5>1. \A k \in 1 .. m : k \in 1 .. m + 1
          OBVIOUS
        <5>. QED
          BY <3>4, <5>1 DEF Framed
      <4>9. Bytes[((m + 1) - 1) * FramePieces + 1].id = r.id /\ m + 1 \in 1 .. m + 1
        <5>1. 1 \in 1 .. 3
          OBVIOUS
        <5>2. Bytes[m * 3 + 1] = Piece(nextId - 1, 1)
          BY <4>2, <5>1
        <5>. QED
          BY <3>2, <4>4, <5>2 DEF Piece, FramePieces
      <4>10. Len(Bytes) = (m + 1) * FramePieces + 0
        BY <4>1, <4>4 DEF FramePieces
      <4>11. \A x \in session' : \E k \in 1 .. m + 1 : Bytes[(k - 1) * FramePieces + 1].id = x.id
        BY <3>2, <4>8, <4>9
      <4>. QED
        BY <3>1, <4>7, <4>10, <4>11 DEF Framed
    <3>5. \A m \in Nat : m + 1 \in Nat
      OBVIOUS
    <3>. QED
      BY <1>2, <3>1, <3>4, <3>5 DEF Clean
  <2>7. CASE UNCHANGED <<session, clean>> /\ Bytes' = Bytes
             /\ (InSession' => InSession /\ Partial' = Partial)
    <3>1. InSession' => \A m \in Nat : Framed(m) => Framed(m)'
      BY <2>7 DEF Framed
    <3>. QED
      BY <1>2, <2>7, <3>1 DEF Clean
  <2>8. CASE StartAppend \/ StartSpill \/ SpillDone \/ AppendRejected
    <3>1. UNCHANGED <<session, clean>> /\ Bytes' = Bytes
      BY <2>8 DEF StartAppend, StartSpill, SpillDone, AppendRejected, history, disk, Bytes
    <3>2. InSession /\ Partial' = Partial
      BY <2>8 DEF StartAppend, StartSpill, SpillDone, AppendRejected, InSession, Partial
    <3>. QED
      BY <2>7, <3>1, <3>2
  <2>9. CASE OsWrite
    <3>1. UNCHANGED <<session, clean, pc, written>> /\ Bytes' = Bytes
      BY <1>2, <2>9, OsWriteMoves DEF OsWrite, history
    <3>. QED
      BY <2>7, <3>1 DEF InSession, Partial
  <2>10. CASE OpenNew \/ WriteHeaderPiece
    BY <2>10 DEF OpenNew, WriteHeaderPiece, Clean, InSession
  <2>11. CASE Iterate \/ FlushCall \/ DropCall \/ UNCHANGED vars
    <3>1. UNCHANGED <<session, clean>> /\ Bytes' = Bytes
      BY <2>11
      DEF Iterate, FlushCall, StartFlush, FlushOk, DropCall, StartDrop, DropDone, vars, history,
          disk, Bytes
    <3>2. InSession' => InSession /\ Partial' = Partial
      BY <2>11
      DEF Iterate, FlushCall, StartFlush, FlushOk, DropCall, StartDrop, DropDone, vars, InSession,
          Partial
    <3>. QED
      BY <2>7, <3>1, <3>2
  <2>. QED
    BY <1>2, <2>2, <2>3, <2>4, <2>5, <2>6, <2>8, <2>9, <2>10, <2>11 DEF Next, Open, AppendCall
<1>. QED
  BY <1>1, <1>2

LEMMA SafeInductive ==
  /\ Init => SafeIsReadable
  /\ Typed /\ Typed' /\ Clean /\ SafeIsReadable /\ [Next]_vars => SafeIsReadable'
<1>1. Init => SafeIsReadable
  BY DEF Init, SafeIsReadable
<1>2. ASSUME Typed, Typed', Clean, SafeIsReadable, [Next]_vars PROVE SafeIsReadable'
  <2>1. file \in Seq(PieceRecord) /\ file' \in Seq(PieceRecord)
    BY <1>2 DEF Typed, DiskTyped
  <2>2. CASE PowerLoss
    BY <2>2 DEF PowerLoss, SafeIsReadable
  <2>3. ASSUME ~ PowerLoss PROVE InSequence(Decoded(file)) \subseteq InSequence(Decoded(file'))
    <3>1. faults'.power = faults.power
      <4>1. faults \in [crash : 0 .. MaxCrashes, power : 0 .. MaxPowerLoss, io : 0 .. MaxIoErrors]
        BY <1>2 DEF Typed, CountTyped
      <4>2. CASE UNCHANGED faults
        BY <4>2
      <4>3. CASE IoError \/ Crash
        BY <4>1, <4>3 DEF IoError, Crash
      <4>. QED
        BY <1>2, <2>3, <4>2, <4>3
        DEF Next, Open, OpenNew, WriteHeaderPiece, HeaderWritten, OpenExisting, Session, AppendCall,
            AppendRejected, StartAppend, WritePiece, StartSpill, SpillDone, AppendOk, FlushCall,
            StartFlush, FlushOk, DropCall, StartDrop, DropDone, OsWrite, Iterate, vars
    <3>. QED
      BY <1>2, <2>1, <3>1, FileGrows, DecodedInLonger
  <2>4. CASE UNCHANGED safe
    BY <1>2, <2>2, <2>3, <2>4 DEF SafeIsReadable
  <2>5. CASE (FlushOk \/ DropDone) /\ clean
    <3>1. /\ buffer = <<>> /\ Partial = 0 /\ InSession /\ file' = file
          /\ safe' = safe \cup {r.id : r \in session}
      BY <2>5 DEF FlushOk, DropDone, MarkFlushed, Partial, InSession, disk
    <3>2. PICK m \in Nat : Framed(m)
      BY <1>2, <2>5, <3>1 DEF Clean
    <3>3. Bytes = file
      BY <1>2, <3>1, BytesFacts DEF Typed
    <3>4. /\ Yielded(file) \in Nat /\ ~ WholeFrame(file, Yielded(file) + 1)
          /\ Len(Decoded(file)) = Yielded(file)
          /\ \A k \in 1 .. Yielded(file) : Decoded(file)[k] = file[(k - 1) * FramePieces + 1].id
      BY <2>1, YieldedFrames, DecodedType
    <3>5. m <= Yielded(file)
      <4> SUFFICES ASSUME Yielded(file) < m PROVE FALSE
        BY <3>4
      <4>1. Yielded(file) + 1 \in 1 .. m
        BY <3>4
      <4>. QED
        BY <3>2, <3>3, <3>4, <4>1 DEF Framed
    <3>6. ASSUME NEW r \in session PROVE r.id \in InSequence(Decoded(file))
      <4>1. PICK k \in 1 .. m : file[(k - 1) * FramePieces + 1].id = r.id
        BY <3>2, <3>3 DEF Framed
      <4>2. k \in 1 .. Len(Decoded(file)) /\ Decoded(file)[k] = r.id
        BY <3>4, <3>5, <4>1
      <4>. QED
        BY <4>2 DEF InSequence
    <3>. QED
      BY <1>2, <3>1, <3>6 DEF SafeIsReadable
  <2>. QED
    BY <1>2, <2>2, <2>4, <2>5
    DEF Next, Open, OpenNew, WriteHeaderPiece, HeaderWritten, OpenExisting, Session, AppendCall,
        AppendRejected, StartAppend, WritePiece, StartSpill, SpillDone, AppendOk, FlushCall,
        StartFlush, FlushOk, DropCall, StartDrop, DropDone, MarkFlushed, OsWrite, Iterate, IoError,
        Crash, vars, history
<1>. QED
  BY <1>1, <1>2

\* flush: an envelope whose append and a later flush or drop succeeded in a session that opened
\* an undamaged file and saw no I/O error is read back for ever, whatever later sessions meet.
THEOREM FlushedInCleanSession == Spec => []SafeIsReadable
<1>1. Spec => [](Typed /\ Stream /\ Clean)
  BY TypedInductive, StreamInductive, CleanInductive, PTL DEF Spec
<1>. QED
  BY <1>1, SafeInductive, PTL DEF Spec
=============================================================================
