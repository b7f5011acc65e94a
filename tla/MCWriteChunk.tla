---------------------------- MODULE MCWriteChunk ----------------------------
(* WriteChunk with a three-byte buffer and 6-bit words, for TLC. *)
EXTENDS WriteChunk

(* More than one chunk, as WriteData sends here, from a reader that has    *)
(* less, as much or more; sizes at and around the multiples of the chunk.  *)
LargeRequests == [offset : {0, 5}, total : 4 .. 8, input : 2 .. 9]

(* What the exported WriteChunk also accepts: an object of one chunk. *)
SmallRequests ==
    {r \in [offset : {0}, total : 1 .. 3, input : 1 .. 3] :
        r.input = r.total}

=============================================================================
