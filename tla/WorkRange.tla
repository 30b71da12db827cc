----------------------------- MODULE WorkRange -----------------------------
(***************************************************************************)
(* How a RangePolicy is divided among the threads of a pool: the static    *)
(* schedule runs a part per thread, the dynamic one cuts it into chunks.   *)
(*                                                                         *)
(* A policy is a range [begin, end) of indices and a chunk size.  The      *)
(* constructor makes an empty range of one whose begin is not below its    *)
(* end.  The granularity mask rounds up to multiples of the chunk size,    *)
(* which is a power of two unless set_chunk_size was given another number. *)
(***************************************************************************)
EXTENDS Integers

Policy(begin, end, chunk) ==
  [begin |-> IF begin < end THEN begin ELSE 0,
   end   |-> IF begin < end THEN end ELSE 0,
   chunk |-> chunk]

Indices(p) == p.begin..(p.end - 1)

CeilDiv(n, d) == (n + d - 1) \div d
Least(a, b) == IF a < b THEN a ELSE b

(* split evenly, then round up to the granularity                          *)
RoundedDown(p, parts) == (((p.end - p.begin) \div parts) \div p.chunk) * p.chunk
PartLength(p, parts) == CeilDiv(CeilDiv(p.end - p.begin, parts), p.chunk) * p.chunk

PartBegin(p, rank, parts) == Least(p.end, p.begin + PartLength(p, parts) * rank)
PartEnd(p, rank, parts) ==
  Least(p.end, p.begin + PartLength(p, parts) * rank + PartLength(p, parts))
Part(p, rank, parts) == PartBegin(p, rank, parts)..(PartEnd(p, rank, parts) - 1)

(* set_work_range: the chunks a part stands for                            *)
RoundsDown(begin, chunk) == begin \div chunk
FirstChunk(begin, chunk) == CeilDiv(begin, chunk)
LastChunk(begin, end, chunk) ==
  IF end > 0 THEN CeilDiv(end, chunk) ELSE FirstChunk(begin, chunk)

(* the indices of a chunk that exec_schedule runs                          *)
ChunkIndices(p, c) == (c * p.chunk)..(Least(c * p.chunk + p.chunk, p.end) - 1)

Chunks(p, rank, parts) ==
  LET begin == PartBegin(p, rank, parts)
      end == PartEnd(p, rank, parts)
  IN  FirstChunk(begin, p.chunk)..(LastChunk(begin, end, p.chunk) - 1)
-----------------------------------------------------------------------------
(* What the division promises.                                             *)

(* The parts of the ranks cover the range, and no two parts meet: the      *)
(* static schedule runs every index once.                                  *)
PartsCover(p, parts) == Indices(p) = UNION {Part(p, r, parts) : r \in 0..(parts - 1)}
PartsAreDisjoint(p, parts) ==
  \A r, s \in 0..(parts - 1) : r # s => Part(p, r, parts) \cap Part(p, s, parts) = {}
IsPartition(p, parts) == PartsCover(p, parts) /\ PartsAreDisjoint(p, parts)

(* So do the chunks of the ranks, if the range begins on a chunk: the      *)
(* dynamic schedule runs every index once.                                 *)
ChunksCover(p, parts) ==
  Indices(p) = UNION {UNION {ChunkIndices(p, c) : c \in Chunks(p, r, parts)} :
                        r \in 0..(parts - 1)}
ChunksAreDisjoint(p, parts) ==
  \A r, s \in 0..(parts - 1) : r # s => Chunks(p, r, parts) \cap Chunks(p, s, parts) = {}
IsChunked(p, parts) ==
  p.begin % p.chunk = 0 => ChunksCover(p, parts) /\ ChunksAreDisjoint(p, parts)
=============================================================================
