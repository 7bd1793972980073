------------------------- MODULE StreamingAnalyzer --------------------------
(***************************************************************************)
(* StreamingAnalyzer (crates/performance/src/streaming.rs): files are      *)
(* handed to a chunk processor whole, mapped into memory or read piece by  *)
(* piece, each chunk beginning in the last bytes of the one before it.     *)
(*                                                                         *)
(* Bytes are only counted: a chunk is the part of the file it covers and   *)
(* the place it is said to have.  An overlap that is switched off is one   *)
(* of no bytes.  Nobody decides on the progress or the chunk number; the   *)
(* number is kept because it tells a loop that goes on from one that ended *)
(* and wraps, if sooner than the code's.                                   *)
(***************************************************************************)
EXTENDS Integers

CONSTANTS
    ChunkSizes, Overlaps, Thresholds,
    Lengths,   \* that files may have
    MaxNumber, \* of a chunk, after which numbers start again
    MaxFiles   \* how many files one analyzer is given

ASSUME SizesAssumption ==
    /\ ChunkSizes \subseteq Nat /\ Overlaps \subseteq Nat
    /\ Thresholds \subseteq Nat /\ Lengths \subseteq Nat
    /\ MaxNumber \in Nat \ {0}

Configs == [chunk_size : ChunkSizes, overlap : Overlaps,
            streaming_threshold : Thresholds, enable_mmap : BOOLEAN]

VARIABLES
    config,
    doing,     \* what it does: it is idle, or maps a file, reads it or finishes it
    outcome,   \* of the last file
    length,    \* of the file
    cursor,    \* where the next chunk begins
    number,    \* state.chunk_number
    position,  \* state.position, where the next chunk is said to begin
    seen,      \* the chunks the file was handed over in
    start,     \* history: the position when the file was given
    files

vars == <<config, doing, outcome, length, cursor, number, position, seen, start, files>>

-----------------------------------------------------------------------------

Smaller(a, b) == IF a < b THEN a ELSE b

Chunk(from, to, place) == [from |-> from, to |-> to, place |-> place]

Init ==
    /\ config \in Configs
    /\ doing = "idle"
    /\ outcome = "none"
    /\ length = 0
    /\ cursor = 0
    /\ number = 0
    /\ position = 0
    /\ seen = {}
    /\ start = 0
    /\ files = 0

Given(n) ==
    /\ doing = "idle"
    /\ files < MaxFiles
    /\ files' = files + 1
    /\ length' = n
    /\ cursor' = 0
    /\ start' = position
    /\ UNCHANGED <<config, number, position>>

(* analyze_small_file: one chunk, and no trace in the state.               *)
AnalyzeSmallFile(n) ==
    /\ Given(n)
    /\ n < config.streaming_threshold
    /\ \/ seen' = {Chunk(0, n, 0)} /\ outcome' \in {"ok", "failed"}
       \/ seen' = {} /\ outcome' = "failed"
    /\ UNCHANGED doing

(* analyze_file.                                                           *)
StartStreaming(n) ==
    /\ Given(n)
    /\ n >= config.streaming_threshold
    /\ seen' = {}
    /\ outcome' = "none"
    /\ doing' = IF config.enable_mmap /\ n > 0 THEN "map" ELSE "read"

(* The processor takes the chunk that begins at the cursor.                *)
Process(bytes, place) ==
    /\ seen' = seen \cup {Chunk(cursor, cursor + bytes, place)}
    /\ UNCHANGED <<config, length, start, files>>

Advance(newCursor, newPosition) ==
    /\ cursor' = newCursor
    /\ position' = newPosition
    /\ number' = (number + 1) % (MaxNumber + 1)
    /\ UNCHANGED <<doing, outcome>>

(* An error ends the analysis with nothing moved.                          *)
Fail ==
    /\ doing' = "idle"
    /\ outcome' = "failed"
    /\ UNCHANGED <<cursor, number, position>>

(* analyze_with_mmap: a step back is taken after the last chunk too, so    *)
(* with an overlap the loop never ends.                                    *)
MapChunk ==
    /\ doing = "map"
    /\ cursor < length
    /\ LET bytes == Smaller(config.chunk_size, length - cursor)
           end == cursor + bytes
       IN /\ Process(bytes, cursor)
          /\ Advance(end - Smaller(config.overlap, end), end) \/ Fail

MapDone ==
    /\ doing = "map"
    /\ cursor >= length
    /\ doing' = "finish"
    /\ UNCHANGED <<config, outcome, length, cursor, number, position, seen, start, files>>

(* Mutant: a chunk that is said to be the last is stepped back from too.   *)
StepBackAlways(bytes) == Smaller(config.overlap, bytes)

StepBack(bytes) ==
    IF bytes < config.chunk_size THEN 0 ELSE Smaller(config.overlap, bytes)

(* Mutant: the file steps back and the position does not.                  *)
ReadChunkMisplaced ==
    /\ doing = "read"
    /\ \E bytes \in 1 .. Smaller(config.chunk_size, length - cursor) :
          /\ Process(bytes, position)
          /\ Advance(cursor + bytes - StepBack(bytes), position + bytes) \/ Fail

(* analyze_with_streaming.  A read may return fewer bytes than there are;  *)
(* the chunk is then taken for the last one, and the next does not overlap *)
(* it.                                                                     *)
ReadChunk ==
    /\ doing = "read"
    /\ \E bytes \in 1 .. Smaller(config.chunk_size, length - cursor) :
          /\ Process(bytes, position)
          /\ \/ Advance(cursor + bytes - StepBack(bytes),
                        position + bytes - StepBack(bytes))
             \/ Fail

(* No byte was read: the file has no more, or the buffer has no room.      *)
EndOfFile ==
    /\ doing = "read"
    /\ Smaller(config.chunk_size, length - cursor) = 0
    /\ doing' = "finish"
    /\ UNCHANGED <<config, outcome, length, cursor, number, position, seen, start, files>>

(* The file cannot be opened, mapped or read.                              *)
FileFails ==
    /\ doing = "read" \/ (doing = "map" /\ seen = {})
    /\ Fail
    /\ UNCHANGED <<config, length, seen, start, files>>

(* The processor finalizes its context.                                    *)
Finalize ==
    /\ doing = "finish"
    /\ doing' = "idle"
    /\ outcome' \in {"ok", "failed"}
    /\ UNCHANGED <<config, length, cursor, number, position, seen, start, files>>

Reset ==
    /\ doing = "idle"
    /\ number' = 0
    /\ position' = 0
    /\ UNCHANGED <<config, doing, outcome, length, cursor, seen, start, files>>

Work == MapChunk \/ MapDone \/ ReadChunk \/ EndOfFile \/ FileFails \/ Finalize

Next ==
    \/ \E n \in Lengths : AnalyzeSmallFile(n) \/ StartStreaming(n)
    \/ Work
    \/ Reset

(* An analysis that can go on goes on; nobody has to start one.            *)
Spec == Init /\ [][Next]_vars /\ WF_vars(Work)

-----------------------------------------------------------------------------

(* A chunk smaller than it could have been, although more of the file      *)
(* follows.                                                                *)
IsShort(c) == c.to - c.from < config.chunk_size /\ c.to < length

Within(from, to) == \E c \in seen : c.from <= from /\ to <= c.to

CutShort(from, to) == \E c \in seen : IsShort(c) /\ from < c.to /\ c.to < to

(* Whatever is no longer than an overlap and one byte lies within one      *)
(* chunk, unless it lies across the end of one that a read cut short: such *)
(* a chunk is not stepped back from.                                       *)
CoveredTo(end) ==
    \A to \in 0 .. end : \A from \in 0 .. to :
        to - from <= config.overlap + 1 => Within(from, to) \/ CutShort(from, to)

NothingBetween == \A c \in seen : CoveredTo(c.to)

(* A chunk is where it is said to be, as far as files are read counted     *)
(* from where the last one left the analyzer.                              *)
PlacedFromStart ==
    \A c \in seen :
        c.place = IF config.enable_mmap \/ length < config.streaming_threshold
                  THEN c.from ELSE start + c.from

HandedOverToEnd ==
    outcome = "ok" /\ config.chunk_size # 0 /\ length # 0 =>
        \E c \in seen : c.to = length

(* Nothing is lost between two chunks, at the end of the file or by a step *)
(* back that moves the file but not the position, or the other way round;  *)
(* where reads come back short, at the end of what they returned and       *)
(* nowhere else (analyze_with_mmap, analyze_with_streaming).               *)
NothingLostInChunks == NothingBetween /\ PlacedFromStart /\ HandedOverToEnd

(* An analysis ends if chunks are larger than their overlap and mapped     *)
(* files have none.                                                        *)
EveryAnalysisEnds ==
    config.overlap < config.chunk_size /\ (config.enable_mmap => config.overlap = 0)
      => (doing # "idle" ~> doing = "idle")
=============================================================================
