----------------------------- MODULE WriteChunk -----------------------------
(***************************************************************************)
(* One Session.WriteChunk call: the prepare/write/commit sequence for      *)
(* large objects.  A buffer of max_chunk_size bytes is refilled from an    *)
(* io.Reader in the final callback of each write and sent by the next one, *)
(* under the same three contexts throughout.                               *)
(*                                                                         *)
(* Bytes are not represented; a write is known by where in the object it   *)
(* goes (off), where in the input its data starts (src) and its length.    *)
(* Sizes and offsets are uint64 in the code: arithmetic here is modulo     *)
(* Word.  The library is as in AsyncOps: per-result callbacks, then one    *)
(* final callback per write; node timeouts end every write.                *)
(***************************************************************************)
EXTENDS Integers, Sequences

CONSTANTS
    MaxChunk,     \* max_chunk_size: the length of the buffer
    Volume,       \* defaultVOLUME: capacity of the response channel
    Word,         \* 2^64 in the code
    Requests,     \* the calls: initial_offset, total_size, and how many
                  \* bytes the reader really has
    MaxLookups,   \* bound: per-result callbacks of one write
    MaxStalls     \* bound: reads that return no byte and no error

ASSUME ChunkAssumption ==
    /\ Word \in Nat
    /\ MaxChunk \in 1 .. Word - 1
    /\ Volume \in Nat \ {0, 1}
    /\ Requests \subseteq [offset : 0 .. Word - 1, total : 0 .. Word - 1,
                           input : 0 .. Word - 1]
    /\ MaxLookups \in Nat
    /\ MaxStalls \in Nat

VARIABLES
    initial_offset,   \* the parameters, and the length of the input
    orig_total_size,
    input,
    total_size,       \* the closure's variables
    offset,
    pos,              \* bytes taken from the reader so far
    stalls,           \* empty reads so far
    buf,              \* which part of the input the buffer holds
    flight,           \* the write in the library's hands, or NoWrite
    nlookups,         \* per-result callbacks it has had
    log,              \* the writes that have ended without an error
    pooled,           \* the three contexts are in the pool
    chan, closed,     \* the response channel
    got,              \* what the caller has received
    ended             \* the caller has seen the close

params == <<initial_offset, orig_total_size, input>>
counts == <<total_size, offset, pos, stalls, buf>>
sink == <<chan, closed, got, ended>>
vars == <<params, counts, flight, nlookups, log, pooled, sink>>

---------------------------------------------------------------------------

Add(a, b) == IF a + b < Word THEN a + b ELSE a + b - Word
Sub(a, b) == IF a >= b THEN a - b ELSE a + Word - b

NoWrite == [kind |-> "none", off |-> 0, src |-> 0, len |-> 0, size |-> 0]

Error == [kind |-> "error", of |-> "none"]
EmptyRead == [kind |-> "error", of |-> "empty"]
LookupOf(write) == [kind |-> "lookup", of |-> write.kind]

(* Slip: the whole rest of the input is read at once, as WriteKey does. *)
Reads_Everything == [n : 1 .. input - pos, err : {FALSE}]

(* What input.Read(chunk) may answer: some bytes, with or without io.EOF   *)
(* when they are the last; no byte and an error; no byte and no error.     *)
Reads ==
    LET left == input - pos
        most == IF left < MaxChunk THEN left ELSE MaxChunk
    IN  [n : 1 .. most, err : {FALSE}]
        \cup {r \in [n : 1 .. most, err : {TRUE}] : r.n = left}
        \cup {[n |-> 0, err |-> TRUE]}
        \cup {r \in {[n |-> 0, err |-> FALSE]} :
                 stalls < MaxStalls /\ left > 0}

(* The reader's side of a read, and the closure's after it. *)
Took(r) ==
    /\ pos' = pos + r.n
    /\ stalls' = IF r.n = 0 /\ ~r.err THEN stalls + 1 ELSE stalls
    /\ buf' = IF r.n = 0 THEN buf ELSE [src |-> pos, len |-> r.n]

(* Slips: offset is not moved on; total_size stops at zero.  *)
Account_NoOffset(r) ==
    /\ total_size' = Sub(total_size, r.n)
    /\ UNCHANGED offset
Account_Stops(r) ==
    /\ total_size' = IF total_size >= r.n THEN total_size - r.n ELSE 0
    /\ offset' = Add(offset, r.n)

Account(r) ==
    /\ total_size' = Sub(total_size, r.n)
    /\ offset' = Add(offset, r.n)

Init ==
    /\ \E r \in Requests :
          /\ initial_offset = r.offset
          /\ orig_total_size = r.total
          /\ input = r.input
    /\ total_size = orig_total_size
    /\ offset = initial_offset
    /\ pos = 0
    /\ stalls = 0
    /\ buf = [src |-> 0, len |-> 0]
    /\ flight = NoWrite
    /\ nlookups = 0
    /\ log = << >>
    /\ pooled = FALSE
    /\ chan = << >>
    /\ closed = FALSE
    /\ got = << >>
    /\ ended = FALSE

---------------------------------------------------------------------------
(* The body of WriteChunk, on the caller's goroutine *)

Started == flight # NoWrite \/ closed

(* Any error of the first read ends the call, bytes or not. *)
FirstReadFails(r) ==
    /\ ~Started
    /\ r.err
    /\ Took(r)
    /\ chan' = <<Error>>
    /\ closed' = TRUE
    /\ UNCHANGED <<params, total_size, offset, flight, nlookups, log, pooled,
                   got, ended>>

(* NewKey fails after the first read. *)
FirstKeyFails(r) ==
    /\ ~Started
    /\ ~r.err
    /\ Took(r)
    /\ Account(r)
    /\ chan' = IF r.n = 0 THEN <<EmptyRead, Error>> ELSE <<Error>>
    /\ closed' = TRUE
    /\ UNCHANGED <<params, flight, nlookups, log, pooled, got, ended>>

(* A first read of no bytes puts an error on the channel and goes on. *)
Prepare(r) ==
    /\ ~Started
    /\ ~r.err
    /\ Took(r)
    /\ Account(r)
    /\ chan' = IF r.n = 0 THEN <<EmptyRead>> ELSE << >>
    /\ pooled' = TRUE
    /\ flight' = [kind |-> "prepare", off |-> Sub(offset', r.n), src |-> pos,
                  len |-> r.n, size |-> Add(total_size', r.n)]
    /\ UNCHANGED <<params, nlookups, log, closed, got, ended>>

---------------------------------------------------------------------------
(* The callbacks, on a thread of the library *)

Room == Len(chan) < Volume

(* Slip: the buffer is refilled as soon as the storage has answered. *)
ChunkResult_Prefetch ==
    /\ flight # NoWrite
    /\ nlookups < MaxLookups
    /\ nlookups' = nlookups + 1
    /\ \E r \in Reads : r.n > 0 /\ Took(r)
    /\ UNCHANGED <<params, total_size, offset, flight, log, pooled, chan,
                   closed, got, ended>>

(* Slip: every answer is passed on. *)
PassedOn_Always == TRUE

PassedOn == total_size = 0

(* onChunkResult: only what arrives once total_size is down to zero is     *)
(* passed on.                                                              *)
ChunkResult ==
    /\ flight # NoWrite
    /\ nlookups < MaxLookups
    /\ nlookups' = nlookups + 1
    /\ IF PassedOn
         THEN Room /\ chan' = Append(chan, LookupOf(flight))
         ELSE UNCHANGED chan
    /\ UNCHANGED <<params, counts, flight, log, pooled, closed, got, ended>>

(* Slip: the error is sent and the callback just returns. *)
FailAndRelease_Returns ==
    /\ Room
    /\ chan' = Append(chan, Error)
    /\ UNCHANGED <<params, closed, pooled, flight, nlookups, got, ended>>

(* Send the error, close, delete the three contexts. *)
FailAndRelease ==
    /\ Room
    /\ chan' = Append(chan, Error)
    /\ closed' = TRUE
    /\ pooled' = FALSE
    /\ flight' = NoWrite
    /\ nlookups' = 0
    /\ UNCHANGED <<params, got, ended>>

(* onChunkFinish of a write that failed. *)
ChunkFails ==
    /\ flight # NoWrite
    /\ FailAndRelease
    /\ UNCHANGED <<counts, log>>

(* Slip: the contexts are not deleted on success. *)
LastChunkDone_NoDelete ==
    /\ flight # NoWrite
    /\ total_size = 0
    /\ log' = Append(log, flight)
    /\ closed' = TRUE
    /\ flight' = NoWrite
    /\ nlookups' = 0
    /\ UNCHANGED <<params, counts, pooled, chan, got, ended>>

(* onChunkFinish of the last write. *)
LastChunkDone ==
    /\ flight # NoWrite
    /\ total_size = 0
    /\ log' = Append(log, flight)
    /\ closed' = TRUE
    /\ pooled' = FALSE
    /\ flight' = NoWrite
    /\ nlookups' = 0
    /\ UNCHANGED <<params, counts, chan, got, ended>>

(* onChunkFinish of another write: the input gives nothing more. *)
NextReadFails(r) ==
    /\ flight # NoWrite
    /\ total_size # 0
    /\ r.n = 0 /\ r.err
    /\ Took(r)
    /\ log' = Append(log, flight)
    /\ FailAndRelease
    /\ UNCHANGED <<total_size, offset>>

(* onChunkFinish of another write: NewKey fails. *)
NextKeyFails(r) ==
    /\ flight # NoWrite
    /\ total_size # 0
    /\ ~(r.n = 0 /\ r.err)
    /\ Took(r)
    /\ Account(r)
    /\ log' = Append(log, flight)
    /\ FailAndRelease

(* Slip: no write is ever the commit. *)
NextWrite_NoCommit(r) ==
    [kind |-> "plain", off |-> Sub(offset', r.n), src |-> pos, len |-> r.n,
     size |-> 0]

(* session_write_plain, or session_write_commit when total_size is now     *)
(* down to zero; both go to offset - n64.                                  *)
NextWrite(r) ==
    [kind |-> IF total_size' # 0 THEN "plain" ELSE "commit",
     off |-> Sub(offset', r.n), src |-> pos, len |-> r.n,
     size |-> IF total_size' # 0 THEN 0 ELSE offset']

(* onChunkFinish of another write: the next chunk goes out. *)
NextChunk(r) ==
    /\ flight # NoWrite
    /\ total_size # 0
    /\ ~(r.n = 0 /\ r.err)
    /\ Took(r)
    /\ Account(r)
    /\ log' = Append(log, flight)
    /\ nlookups' = 0
    /\ flight' = NextWrite(r)
    /\ UNCHANGED <<params, pooled, sink>>

---------------------------------------------------------------------------
(* The caller, reading the channel *)

Receive ==
    /\ Started
    /\ chan # << >>
    /\ got' = Append(got, Head(chan))
    /\ chan' = Tail(chan)
    /\ UNCHANGED <<params, counts, flight, nlookups, log, pooled, closed,
                   ended>>

SeeEnd ==
    /\ closed /\ chan = << >> /\ ~ended
    /\ ended' = TRUE
    /\ UNCHANGED <<params, counts, flight, nlookups, log, pooled, chan, closed,
                   got>>

Begin == \E r \in Reads :
    FirstReadFails(r) \/ FirstKeyFails(r) \/ Prepare(r)

ChunkFinish ==
    \/ ChunkFails
    \/ LastChunkDone
    \/ \E r \in Reads : NextReadFails(r) \/ NextKeyFails(r) \/ NextChunk(r)

Next ==
    \/ Begin \/ ChunkResult \/ ChunkFinish \/ Receive \/ SeeEnd
    \/ ended /\ UNCHANGED vars

Spec == Init /\ [][Next]_vars

(* The caller calls and reads, and the library ends every write. *)
FairSpec ==
    Spec /\ WF_vars(Begin) /\ WF_vars(ChunkFinish) /\ WF_vars(Receive \/ SeeEnd)

---------------------------------------------------------------------------
(* Properties *)

Writes == [kind : {"none", "prepare", "plain", "commit"}, off : 0 .. Word - 1,
           src : Nat, len : Nat, size : 0 .. Word - 1]
Values == [kind : {"error", "lookup"},
           of : {"none", "empty", "prepare", "plain", "commit"}]

(* Every variable has its type. *)
TypeOK ==
    /\ initial_offset \in 0 .. Word - 1
    /\ orig_total_size \in 0 .. Word - 1
    /\ input \in Nat
    /\ total_size \in 0 .. Word - 1
    /\ offset \in 0 .. Word - 1
    /\ pos \in 0 .. input
    /\ stalls \in 0 .. MaxStalls
    /\ buf \in [src : Nat, len : 0 .. MaxChunk]
    /\ flight \in Writes
    /\ nlookups \in 0 .. MaxLookups
    /\ log \in Seq(Writes)
    /\ pooled \in BOOLEAN
    /\ chan \in Seq(Values)
    /\ closed \in BOOLEAN
    /\ got \in Seq(Values)
    /\ ended \in BOOLEAN

(* The writes made so far, the one under way last. *)
Sequence == IF flight = NoWrite THEN log ELSE Append(log, flight)

(* Each write of s goes to its place in the object, carries on where the   *)
(* one before it stopped, and s has its prepare first and its commit last. *)
InOrder(s) ==
    \A i \in 1 .. Len(s) :
        /\ s[i].off = Add(initial_offset, s[i].src)
        /\ s[i].src = (IF i = 1 THEN 0 ELSE s[i-1].src + s[i-1].len)
        /\ s[i].kind = "prepare" <=> i = 1
        /\ s[i].kind = "commit" => i = Len(s)

(* The object is a copy of the input: the first write goes to              *)
(* initial_offset with the first byte, and each one continues, in the      *)
(* object and in the input, where the one before it stopped; it starts     *)
(* with the prepare and nothing follows a commit.                          *)
CopiesInOrder == InOrder(Sequence)

(* The library sends from the Go buffer without a copy, so the buffer      *)
(* holds what the write under way is made of, and the pool keeps the       *)
(* buffer alive, until its final callback.                                 *)
BufferHoldsFlight ==
    flight # NoWrite =>
        /\ pooled
        /\ flight.len > 0 => buf = [src |-> flight.src, len |-> flight.len]

(* Once the channel is closed the contexts are released and no write is    *)
(* under way that could call back.                                         *)
ClosedIsQuiet == closed => ~pooled /\ flight = NoWrite

Stream == got \o chan

(* The caller has, or will find, the error that ended the call.  The error *)
(* of an empty first read is not it: the call goes on after that.          *)
Failed == \E i \in 1 .. Len(Stream) : Stream[i] = Error

(* A caller that was not told that the call failed has its whole object on *)
(* the storage: all of total_size was written and committed as the size of *)
(* the object, also when the first read was empty and said so.             *)
SuccessMeansCommitted ==
    closed /\ ~Failed =>
        /\ log # << >>
        /\ LET last == log[Len(log)] IN
              /\ last.kind = "commit"
              /\ last.src + last.len = orig_total_size
              /\ last.size = Add(initial_offset, orig_total_size)

(* Only the commit is reported, never a write that leaves the object       *)
(* incomplete.                                                             *)
OnlyCommitReported ==
    \A i \in 1 .. Len(Stream) :
        Stream[i].kind = "lookup" => Stream[i].of = "commit"

(* A write reaches beyond the area the prepare asked for. *)
Overshot ==
    \E i \in 1 .. Len(Sequence) :
        Sequence[i].src + Sequence[i].len > orig_total_size

(* A reader may have more than total_size bytes, and a read may go past    *)
(* it: total_size wraps and is not zero again, so that everything else the *)
(* reader has is written behind the prepared area.  Such an object is      *)
(* never committed and such a call never passes for a success              *)
(* (session.go:550, 559, 573-583, 601).                                    *)
OvershootFails ==
    Overshot => /\ \A i \in 1 .. Len(Sequence) : Sequence[i].kind # "commit"
                /\ closed => Failed

(* The error that ends the call, whichever of the read, the key or the     *)
(* write failed, is the last value on the channel, and the channel is      *)
(* closed behind it.                                                       *)
FailureLast ==
    \A i \in 1 .. Len(Stream) :
        Stream[i] = Error => i = Len(Stream) /\ closed

(* The call ends: the caller sees the close and the contexts are gone. *)
CallEnds == <>(ended /\ ~pooled)

---------------------------------------------------------------------------
(* The inductive invariant behind the safety properties, proved in         *)
(* WriteChunkProofs.                                                       *)

(* The parameters are those of one request. *)
Asked ==
    [offset |-> initial_offset, total |-> orig_total_size, input |-> input]
        \in Requests

(* Before the first read nothing has happened. *)
Untouched ==
    ~Started => /\ pos = 0 /\ nlookups = 0 /\ ~pooled
                /\ log = << >> /\ chan = << >> /\ got = << >>

(* The closure's counters agree with what was taken from the reader. *)
Counted ==
    ~closed => /\ offset = Add(initial_offset, pos)
               /\ total_size = Sub(orig_total_size, pos)

(* The write under way is made of the last bytes read, out of the buffer   *)
(* in the pool; it is the commit when all of total_size has been read, and *)
(* plain when not.                                                         *)
UnderWay ==
    flight # NoWrite =>
        /\ pooled /\ ~closed
        /\ flight.kind # "none"
        /\ flight.src + flight.len = pos
        /\ flight.len > 0 => buf = [src |-> flight.src, len |-> flight.len]
        /\ flight.len <= MaxChunk
        /\ flight.kind = "commit" => total_size = 0 /\ flight.size = offset
        /\ flight.kind = "plain" => total_size # 0

(* No write carries bytes that were not read. *)
WithinRead ==
    \A i \in 1 .. Len(Sequence) : Sequence[i].src + Sequence[i].len <= pos

Steady ==
    /\ Asked /\ Untouched /\ Counted /\ UnderWay
    /\ CopiesInOrder /\ WithinRead
    /\ ClosedIsQuiet /\ FailureLast

(* A commit, and a close without an error, come when exactly total_size    *)
(* bytes have been read: what OvershootFails needs.                        *)
Exact ==
    /\ \A i \in 1 .. Len(Sequence) :
          Sequence[i].kind = "commit" => pos = orig_total_size
    /\ closed /\ ~Failed => pos = orig_total_size

=============================================================================
