----------------------------- MODULE StreamHTTP -----------------------------
(***************************************************************************)
(* Session.StreamHTTP: a record, or a part of it, is read chunk by chunk   *)
(* and each chunk is written to an HTTP response before the next is asked  *)
(* for.                                                                    *)
(*                                                                         *)
(* Offsets and sizes are uint64 in the code and integers modulo Word here. *)
(* The response is what net/http makes of it: the first WriteHeader counts *)
(* and later ones are ignored.  What Write returns is ignored by the code, *)
(* so a client that went away changes nothing.  Other clients may rewrite  *)
(* the record between two chunks.                                          *)
(*                                                                         *)
(* What is assumed of the storage (external): a good result has at least   *)
(* one byte and no more than was asked for and than the record holds; at   *)
(* or beyond the end of the record it may be an error or empty.  The       *)
(* session's filter is positive, so that a good result is one (BulkKeys    *)
(* has what becomes of that after BulkRemove).                             *)
(***************************************************************************)
EXTENDS Integers, Sequences

CONSTANTS
    MaxChunk,    \* max_chunk_size
    Word,        \* 2^64
    Requests,    \* [offset, size] pairs StreamHTTP is called with
    MaxLength,   \* bound: length of the record
    MaxRewrites  \* bound: changes of the record during the call

ASSUME SizesAssumption ==
    /\ MaxChunk \in Nat \ {0}
    /\ MaxLength \in Nat
    /\ MaxRewrites \in Nat
    /\ Word \in Nat /\ 2 * MaxLength < Word /\ MaxChunk < Word
ASSUME RequestsAssumption ==
    Requests \subseteq [offset : 0 .. Word - 1, size : 0 .. Word - 1]

VARIABLES
    req,       \* the arguments: orig_offset and orig_size
    length,    \* TotalSize of the record
    rewrites,  \* how often the record was rewritten
    pc,        \* "key", "ask", "range", "done" (nil returned) or "failed"
    offset,
    size,      \* what is left to send; 0 at first means everything
    chunk,     \* chunk_size of the read under way
    header,    \* what WriteHeader sent, see NoHeader
    body,      \* positions in the record of the bytes written
    last       \* number of bytes in the last good result

vars == <<req, length, rewrites, pc, offset, size, chunk, header, body, last>>

(* at is the length the record had when the header was made. *)
NoHeader == [sent |-> FALSE, length |-> 0, at |-> 0]

Init ==
    /\ req \in Requests
    /\ length \in 0 .. MaxLength
    /\ rewrites = 0
    /\ pc = "key"
    /\ offset = req.offset
    /\ size = req.size
    /\ chunk = 0
    /\ header = NoHeader
    /\ body = << >>
    /\ last = 0

(* NewKey: if it fails its error is returned and nothing was sent. *)
MakeKey(made) ==
    /\ pc = "key"
    /\ pc' = IF made THEN "ask" ELSE "failed"
    /\ UNCHANGED <<req, length, rewrites, offset, size, chunk, header, body,
                   last>>

(* Slip: signed sizes. *)
Minus_Signed(a, b) == a - b

Minus(a, b) == (a + Word - b) % Word

(* Slip: a whole chunk is asked for even when less is left. *)
ChunkSize_Max == MaxChunk

ChunkSize == IF size > MaxChunk \/ size = 0 THEN MaxChunk ELSE size

(* The head of the loop, up to the call of ReadKey. *)
Ask ==
    /\ pc = "ask"
    /\ chunk' = ChunkSize
    /\ pc' = "range"
    /\ UNCHANGED <<req, length, rewrites, offset, size, header, body, last>>

(* Slips: the requested size is compared with the whole record; the        *)
(* comparison is the wrong way round.                                      *)
SizeToSend_Whole ==
    IF size = 0 \/ size > length THEN Minus(length, offset) ELSE size
SizeToSend_Reversed ==
    IF size = 0 \/ size < Minus(length, offset)
      THEN Minus(length, offset) ELSE size

(* size, as the first good result corrects it: no more than there is. *)
SizeToSend ==
    IF size = 0 \/ size > Minus(length, offset)
      THEN Minus(length, offset) ELSE size

(* Slips: the position moves by the chunk asked for, not by what came;     *)
(* the end is taken to be reached with the first short chunk; the end is   *)
(* never noticed.                                                          *)
NextOffset_Chunk(n) == (offset + chunk) % Word
After_ShortChunk(n, left) == IF left = 0 \/ n < chunk THEN "done" ELSE "ask"
After_Never(n, left) == "ask"

NextOffset(n) == (offset + n) % Word
After(n, left) == IF left = 0 THEN "done" ELSE "ask"

(* A result without error, of n bytes.  Results with an error that come    *)
(* first are skipped and change nothing; the rest of the channel is left   *)
(* unread.                                                                 *)
GoodResult(n) ==
    LET first == offset = req.offset
        rest == IF first THEN SizeToSend ELSE size
        left == Minus(rest, n)
    IN
    /\ pc = "range"
    /\ IF offset >= length
         THEN n = 0
         ELSE n \in 1 .. chunk /\ n <= length - offset
    /\ header' = IF first /\ ~header.sent
                   THEN [sent |-> TRUE, length |-> rest, at |-> length]
                   ELSE header
    /\ body' = body \o [i \in 1 .. n |-> offset + i - 1]
    /\ offset' = NextOffset(n)
    /\ size' = left
    /\ last' = n
    /\ pc' = After(n, left)
    /\ UNCHANGED <<req, length, rewrites, chunk>>

(* The channel is closed and no result was good: the error is returned. *)
NoGoodResult ==
    /\ pc = "range"
    /\ pc' = "failed"
    /\ UNCHANGED <<req, length, rewrites, offset, size, chunk, header, body,
                   last>>

(* Another client writes the record while StreamHTTP is at work. *)
Rewrite(l) ==
    /\ pc \in {"ask", "range"}
    /\ rewrites < MaxRewrites
    /\ l # length
    /\ length' = l
    /\ rewrites' = rewrites + 1
    /\ UNCHANGED <<req, pc, offset, size, chunk, header, body, last>>

Returned ==
    /\ pc \in {"done", "failed"}
    /\ UNCHANGED vars

Read == (\E n \in 0 .. MaxChunk : GoodResult(n)) \/ NoGoodResult

Begin == \E made \in BOOLEAN : MakeKey(made)

Next ==
    \/ Begin \/ Ask \/ Read
    \/ \E l \in 0 .. MaxLength : Rewrite(l)
    \/ Returned

Spec == Init /\ [][Next]_vars

(* The goroutine runs, and every read is answered: with results, or with   *)
(* an error once wait_timeout is over.                                     *)
FairSpec == Spec /\ WF_vars(Begin) /\ WF_vars(Ask) /\ WF_vars(Read)

---------------------------------------------------------------------------
(* Properties *)

(* Types; a header is sent before the body begins. *)
TypeOK ==
    /\ req \in Requests
    /\ length \in 0 .. MaxLength
    /\ rewrites \in 0 .. MaxRewrites
    /\ pc \in {"key", "ask", "range", "done", "failed"}
    /\ offset \in 0 .. Word - 1
    /\ size \in 0 .. Word - 1
    /\ chunk \in 0 .. MaxChunk
    /\ header \in [sent : BOOLEAN, length : 0 .. Word - 1, at : 0 .. MaxLength]
    /\ body \in Seq(0 .. MaxLength - 1)
    /\ last \in 0 .. MaxChunk
    /\ body # << >> => header.sent

(* The response is one piece of the record: it starts at the requested     *)
(* offset and has no gap and no repetition, however short the chunks are   *)
(* (session.go:239-273).                                                   *)
BodyIsContiguous ==
    /\ offset = (req.offset + Len(body)) % Word
    /\ \A i \in DOMAIN body : body[i] = req.offset + i - 1

(* The body never exceeds its Content-Length, not even when the record     *)
(* grows meanwhile (session.go:241-244, 259-263).                          *)
WithinAnnounced == header.sent => Len(body) <= header.length

(* A request that starts within the record gets all it asked for, or an    *)
(* error: nil is returned only when the body is as long as announced       *)
(* (session.go:276-287).  Beyond the end of the record the length wraps.   *)
SuccessIsWhole ==
    pc = "done" /\ req.offset <= header.at => Len(body) = header.length

(* What was asked for of a record of length l, by definition: the rest of  *)
(* the record from offset, and no more than size bytes of it if size is    *)
(* given.                                                                  *)
Wanted(l) ==
    IF req.size = 0 \/ req.size > l - req.offset THEN l - req.offset
                                                 ELSE req.size

(* If nobody rewrites the record, a successful response within it is       *)
(* exactly the range that was asked for (session.go:255-263).              *)
ExactRange ==
    pc = "done" /\ rewrites = 0 /\ req.offset <= length =>
        Len(body) = Wanted(length)

(* Once the length is known no chunk reaches beyond the end of a record    *)
(* nobody rewrites: a range that exists is never failed for the sake of    *)
(* bytes that do not (session.go:241-244, 259-261, 272).                   *)
AsksWithin ==
    pc = "range" /\ header.sent /\ rewrites = 0 /\ req.offset < length =>
        offset + chunk <= length

(* StreamHTTP returns, unless it has come to read beyond the end of the    *)
(* record, because the request began there or because the record was made  *)
(* shorter, and the storage answers that with success and no data again    *)
(* and again: such a result moves neither offset nor size                  *)
(* (session.go:239, 271-272).                                              *)
EndsUnlessEmpty ==
    \/ <>(pc \in {"done", "failed"})
    \/ []<>(/\ header.sent /\ last = 0
            /\ rewrites > 0 \/ req.offset > header.at)

---------------------------------------------------------------------------
(* The inductive invariant, in parts: the position is where the body ends; *)
(* a chunk fits what is left; what is sent and what is left make up what   *)
(* was announced, exactly so if the record reached to where the request    *)
(* began; then that is what was wanted, and something of it has been sent  *)
(* already, so that the size is not corrected again.                       *)

InPlace ==
    /\ offset = req.offset + Len(body)
    /\ \A i \in DOMAIN body : body[i] = req.offset + i - 1
    /\ ~header.sent => body = << >> /\ size = req.size /\ pc # "done"
    /\ pc = "key" => ~header.sent

ChunkFits ==
    /\ pc = "range" /\ size # 0 => chunk <= size
    /\ pc \in {"ask", "range"} /\ header.sent => size # 0
    /\ pc = "done" => size = 0

Balance ==
    /\ header.sent => Len(body) + size <= header.length
    /\ header.sent /\ rewrites = 0 => header.at = length
    /\ header.sent /\ req.offset <= header.at =>
          /\ Len(body) + size = header.length
          /\ header.length = Wanted(header.at)
          /\ body # << >> \/ pc = "done"

Paced == InPlace /\ ChunkFits /\ Balance

=============================================================================
