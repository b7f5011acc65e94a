---------------------------- MODULE MCStreamHTTP ----------------------------
(* StreamHTTP with three-byte chunks and 5-bit words, for TLC. *)
EXTENDS StreamHTTP

(* Offsets up to beyond the longest record; everything, less than a chunk, *)
(* a chunk, more, more than there is.                                      *)
MCRequests == [offset : {0, 1, 4, 7, 9}, size : {0, 1, 3, 4, 7, 12}]

=============================================================================
