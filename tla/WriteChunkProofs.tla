-------------------------- MODULE WriteChunkProofs --------------------------
(***************************************************************************)
(* Proofs about WriteChunk, for every chunk size, word size, channel       *)
(* capacity and set of requests.                                           *)
(***************************************************************************)
EXTENDS WriteChunk, SequenceTheorems, TLAPS

---------------------------------------------------------------------------
(* uint64 arithmetic *)

(* Sums and differences are words, and each undoes the other. *)
LEMMA AddSub ==
    ASSUME NEW a \in 0 .. Word - 1, NEW n \in 0 .. Word - 1
    PROVE  /\ Add(a, n) \in 0 .. Word - 1 /\ Sub(a, n) \in 0 .. Word - 1
           /\ Sub(Add(a, n), n) = a /\ Add(Sub(a, n), n) = a
           /\ Sub(a, n) = 0 <=> a = n
           /\ Add(a, n) <= a + n
  BY ChunkAssumption DEF Add, Sub

(* Counting two reads one after the other is counting them together. *)
LEMMA Counting ==
    ASSUME NEW a \in 0 .. Word - 1, NEW p \in Nat, NEW n \in Nat, p + n < Word
    PROVE  /\ Add(Add(a, p), n) = Add(a, p + n)
           /\ Sub(Sub(a, p), n) = Sub(a, p + n)
  BY ChunkAssumption DEF Add, Sub

(* Nothing read is nothing counted. *)
LEMMA CountingNone ==
    ASSUME NEW a \in 0 .. Word - 1
    PROVE  Add(a, 0) = a /\ Sub(a, 0) = a
  BY ChunkAssumption DEF Add, Sub

---------------------------------------------------------------------------
(* Sequences *)

(* The last value of an extended sequence, and the others. *)
LEMMA AppendFacts ==
    ASSUME NEW T, NEW s \in Seq(T), NEW x \in T
    PROVE  /\ Append(s, x) \in Seq(T) /\ Append(s, x) # << >>
           /\ Len(s) \in Nat /\ Len(Append(s, x)) = Len(s) + 1
           /\ Append(s, x)[Len(s) + 1] = x
           /\ \A i \in 1 .. Len(s) : Append(s, x)[i] = s[i]
  BY AppendProperties

(* A value put into the channel is the new end of the stream. *)
LEMMA ConcatAppend ==
    ASSUME NEW T, NEW s \in Seq(T), NEW t \in Seq(T), NEW x \in T
    PROVE  s \o Append(t, x) = Append(s \o t, x)
  OBVIOUS

(* A receive leaves the stream as it is. *)
LEMMA MoveHead ==
    ASSUME NEW T, NEW s \in Seq(T), NEW t \in Seq(T), t # << >>
    PROVE  /\ Append(s, Head(t)) \o Tail(t) = s \o t
           /\ Append(s, Head(t)) \in Seq(T) /\ Tail(t) \in Seq(T)
  OBVIOUS

(* Where the input goes on after the writes of s. *)
Reached(s) == IF s = << >> THEN 0 ELSE s[Len(s)].src + s[Len(s)].len

(* A write that carries on where s stopped may follow it. *)
LEMMA InOrderAppend ==
    ASSUME NEW s \in Seq(Writes), NEW w \in Writes, InOrder(s),
           w.off = Add(initial_offset, w.src), w.src = Reached(s),
           w.kind = "prepare" <=> s = << >>,
           s # << >> => s[Len(s)].kind # "commit"
    PROVE  InOrder(Append(s, w))
  <1> DEFINE a == Append(s, w)
  <1>1. /\ Len(s) \in Nat /\ Len(a) = Len(s) + 1 /\ a[Len(s) + 1] = w
        /\ \A i \in 1 .. Len(s) : a[i] = s[i]
    BY AppendFacts
  <1>2. s = << >> <=> Len(s) = 0
    BY EmptySeq
  <1> HIDE DEF a
  <1>3. ASSUME NEW i \in 1 .. Len(s)
        PROVE  /\ a[i].off = Add(initial_offset, a[i].src)
               /\ a[i].src = (IF i = 1 THEN 0 ELSE a[i-1].src + a[i-1].len)
               /\ a[i].kind = "prepare" <=> i = 1
               /\ a[i].kind # "commit"
    <2>1. a[i] = s[i] /\ (i # 1 => a[i-1] = s[i-1])
      BY <1>1
    <2>2. s[i].kind = "commit" => i = Len(s) /\ s # << >>
      BY <1>1, <1>2 DEF InOrder
    <2> QED
      BY <2>1, <2>2 DEF InOrder
  <1>4. LET i == Len(s) + 1 IN
        /\ a[i].off = Add(initial_offset, a[i].src)
        /\ a[i].src = (IF i = 1 THEN 0 ELSE a[i-1].src + a[i-1].len)
        /\ a[i].kind = "prepare" <=> i = 1
    <2>1. Len(s) + 1 = 1 <=> s = << >>
      BY <1>1, <1>2
    <2>2. s # << >> => a[Len(s) + 1 - 1] = s[Len(s)]
      BY <1>1, <1>2
    <2> QED
      BY <1>1, <2>1, <2>2 DEF Reached
  <1>5. \A i \in 1 .. Len(a) : i \in 1 .. Len(s) \/ i = Len(s) + 1
    BY <1>1
  <1> QED
    BY <1>1, <1>3, <1>4, <1>5 DEF InOrder, a

(* A sequence in order stays so without its last write. *)
LEMMA InOrderPrefix ==
    ASSUME NEW s \in Seq(Writes), NEW w \in Writes, InOrder(Append(s, w))
    PROVE  InOrder(s)
  <1> DEFINE a == Append(s, w)
  <1>1. /\ Len(s) \in Nat /\ Len(a) = Len(s) + 1
        /\ \A i \in 1 .. Len(s) : a[i] = s[i]
    BY AppendFacts
  <1>2. InOrder(a)
    OBVIOUS
  <1> HIDE DEF a
  <1>3. ASSUME NEW i \in 1 .. Len(s)
        PROVE  /\ s[i].off = Add(initial_offset, s[i].src)
               /\ s[i].src = (IF i = 1 THEN 0 ELSE s[i-1].src + s[i-1].len)
               /\ s[i].kind = "prepare" <=> i = 1
               /\ s[i].kind = "commit" => i = Len(s)
    <2>1. a[i] = s[i] /\ (i # 1 => a[i-1] = s[i-1])
      BY <1>1
    <2>2. i \in 1 .. Len(a) /\ i # Len(a)
      BY <1>1
    <2> QED
      BY <1>2, <2>1, <2>2 DEF InOrder
  <1> QED
    BY <1>3 DEF InOrder

---------------------------------------------------------------------------
(* Reads *)

CInv == TypeOK /\ Steady

(* The sizes are words. *)
LEMMA WordTypes ==
    ASSUME CInv
    PROVE  /\ Word \in Nat /\ MaxChunk \in 1 .. Word - 1
           /\ input \in 0 .. Word - 1 /\ pos \in 0 .. Word - 1
           /\ initial_offset \in 0 .. Word - 1
           /\ orig_total_size \in 0 .. Word - 1
           /\ offset \in 0 .. Word - 1 /\ total_size \in 0 .. Word - 1
  <1>1. /\ Word \in Nat /\ MaxChunk \in 1 .. Word - 1
        /\ input \in 0 .. Word - 1
    BY ChunkAssumption DEF CInv, Steady, Asked
  <1>2. pos \in 0 .. input /\ input \in Nat
    BY DEF CInv, TypeOK
  <1>3. pos \in 0 .. Word - 1
    BY <1>1, <1>2
  <1> QED
    BY <1>1, <1>3 DEF CInv, TypeOK

(* What a read may answer. *)
LEMMA ReadFacts ==
    ASSUME CInv, NEW r \in Reads
    PROVE  /\ r.n \in 0 .. Word - 1 /\ r.n <= MaxChunk
           /\ pos + r.n <= input /\ pos + r.n < Word
           /\ r.err \in BOOLEAN
           /\ r.n = 0 /\ ~r.err => stalls < MaxStalls
  <1>1. /\ Word \in Nat /\ MaxChunk \in 1 .. Word - 1
        /\ input \in 0 .. Word - 1 /\ pos \in 0 .. input
    BY WordTypes DEF CInv, TypeOK
  <1> DEFINE left == input - pos
             most == IF left < MaxChunk THEN left ELSE MaxChunk
  <1>2. most \in Nat /\ most <= MaxChunk /\ most <= left
    BY <1>1
  <1>3. \/ r \in [n : 1 .. most, err : {FALSE}]
        \/ r \in [n : 1 .. most, err : {TRUE}]
        \/ r = [n |-> 0, err |-> TRUE]
        \/ r = [n |-> 0, err |-> FALSE] /\ stalls < MaxStalls
    BY Zenon DEF Reads
  <1> HIDE DEF most
  <1>4. \/ r.n \in 1 .. most /\ r.err \in BOOLEAN
        \/ r.n = 0 /\ r.err = TRUE
        \/ r.n = 0 /\ r.err = FALSE /\ stalls < MaxStalls
    <2>1. CASE r \in [n : 1 .. most, err : {FALSE}]
      BY <2>1, Zenon
    <2>2. CASE r \in [n : 1 .. most, err : {TRUE}]
      BY <2>2, Zenon
    <2>3. CASE r = [n |-> 0, err |-> TRUE]
      BY <2>3
    <2>4. CASE r = [n |-> 0, err |-> FALSE] /\ stalls < MaxStalls
      BY <2>4
    <2> QED
      BY <1>3, <2>1, <2>2, <2>3, <2>4
  <1>5. 0 \notin 1 .. most
    BY <1>2
  <1>6. r.n \in Nat /\ r.n <= MaxChunk /\ r.n <= left
    <2>1. r.n \in 1 .. most \/ r.n = 0
      BY <1>4, Zenon
    <2> QED
      BY <1>1, <1>2, <2>1
  <1>7. /\ r.n \in 0 .. Word - 1 /\ r.n <= MaxChunk
        /\ pos + r.n <= input /\ pos + r.n < Word
    BY <1>1, <1>6
  <1>8. r.err \in BOOLEAN /\ (r.n = 0 /\ ~r.err => stalls < MaxStalls)
    BY <1>4, <1>5, Zenon
  <1> QED
    BY <1>7, <1>8, Zenon

(* The reader's side of a read keeps its types. *)
LEMMA TookFacts ==
    ASSUME CInv, NEW r \in Reads, Took(r)
    PROVE  /\ pos' = pos + r.n /\ pos' \in 0 .. input
           /\ stalls' \in 0 .. MaxStalls
           /\ buf' \in [src : Nat, len : 0 .. MaxChunk]
           /\ r.n > 0 => buf' = [src |-> pos, len |-> r.n]
  <1>1. /\ r.n \in Nat /\ r.n <= MaxChunk /\ MaxChunk \in Nat
        /\ pos + r.n <= input
        /\ pos \in Nat /\ input \in Nat
        /\ r.n = 0 /\ ~r.err => stalls < MaxStalls
    BY ReadFacts, WordTypes
  <1>2. stalls \in 0 .. MaxStalls /\ MaxStalls \in Nat
        /\ buf \in [src : Nat, len : 0 .. MaxChunk]
    BY ChunkAssumption DEF CInv, TypeOK
  <1>3. [src |-> pos, len |-> r.n] \in [src : Nat, len : 0 .. MaxChunk]
    BY <1>1
  <1>4. pos' = pos + r.n /\ pos' \in 0 .. input
    BY <1>1 DEF Took
  <1>5. stalls' \in 0 .. MaxStalls
    BY <1>1, <1>2 DEF Took
  <1>6. buf' = IF r.n = 0 THEN buf ELSE [src |-> pos, len |-> r.n]
    BY DEF Took
  <1> QED
    BY <1>1, <1>2, <1>3, <1>4, <1>5, <1>6

(* The closure's side: the counters follow the reader, and going back by   *)
(* n64 gives what they were before the read.                               *)
LEMMA AccountFacts ==
    ASSUME CInv, ~closed, NEW r \in Reads, Took(r), Account(r),
           UNCHANGED params
    PROVE  /\ offset' \in 0 .. Word - 1 /\ total_size' \in 0 .. Word - 1
           /\ offset' = Add(initial_offset, pos')
           /\ total_size' = Sub(orig_total_size, pos')
           /\ Sub(offset', r.n) = Add(initial_offset, pos)
           /\ Add(total_size', r.n) = total_size
  <1>1. /\ offset = Add(initial_offset, pos)
        /\ total_size = Sub(orig_total_size, pos)
    BY DEF CInv, Steady, Counted
  <1>2. /\ r.n \in 0 .. Word - 1 /\ r.n \in Nat /\ pos \in Nat
        /\ pos + r.n < Word /\ pos' = pos + r.n
    BY ReadFacts, TookFacts, WordTypes
  <1>3. offset' = Add(offset, r.n) /\ total_size' = Sub(total_size, r.n)
    BY DEF Account
  <1>4. /\ offset' = Add(initial_offset, pos')
        /\ total_size' = Sub(orig_total_size, pos')
    BY <1>1, <1>2, <1>3, WordTypes, Counting
  <1>5. /\ offset' \in 0 .. Word - 1 /\ total_size' \in 0 .. Word - 1
        /\ Sub(offset', r.n) = offset /\ Add(total_size', r.n) = total_size
    BY <1>2, <1>3, WordTypes, AddSub
  <1> QED
    BY <1>1, <1>4, <1>5

---------------------------------------------------------------------------
(* Parts of the invariant that several actions share *)

(* The typing of the two sequences a call leaves. *)
LEMMA TraceTypes ==
    ASSUME CInv
    PROVE  /\ log \in Seq(Writes) /\ flight \in Writes
           /\ Sequence \in Seq(Writes)
           /\ got \in Seq(Values) /\ chan \in Seq(Values)
           /\ Stream \in Seq(Values)
  BY AppendFacts, ConcatProperties DEF CInv, TypeOK, Sequence, Stream

(* NoWrite is a write record, and no write that was made is like it. *)
LEMMA NoWriteType == NoWrite \in Writes /\ NoWrite.kind = "none"
  BY ChunkAssumption DEF NoWrite, Writes

(* The same writes are in order afterwards. *)
LEMMA SameSequence ==
    ASSUME CInv, Sequence' = Sequence, UNCHANGED params,
           pos' \in Nat, pos <= pos'
    PROVE  CopiesInOrder' /\ WithinRead'
  <1>1. CopiesInOrder'
    BY DEF CInv, Steady, CopiesInOrder, InOrder, params
  <1>2. ASSUME NEW i \in 1 .. Len(Sequence)
        PROVE  Sequence[i].src + Sequence[i].len <= pos'
    <2>1. Sequence[i] \in Writes
      BY TraceTypes, ElementOfSeq
    <2>2. Sequence[i].src + Sequence[i].len \in Nat /\ pos \in Nat
      BY <2>1, WordTypes DEF Writes
    <2>3. Sequence[i].src + Sequence[i].len <= pos
      BY DEF CInv, Steady, WithinRead
    <2> QED
      BY <2>2, <2>3
  <1>3. WithinRead'
    BY <1>2 DEF WithinRead
  <1> QED
    BY <1>1, <1>3

(* Until the close there is no ending error on the stream. *)
LEMMA NoErrorYet ==
    ASSUME CInv, ~closed
    PROVE  \A i \in 1 .. Len(Stream) : Stream[i] # Error
  BY DEF CInv, Steady, FailureLast

(* One value more on the channel is one more on the stream; an ending      *)
(* error may be it when the channel is closed with it.                     *)
LEMMA StreamGrows ==
    ASSUME CInv, ~closed, NEW x \in Values, chan' = Append(chan, x),
           got' = got, x = Error => closed'
    PROVE  /\ Stream' = Append(Stream, x) /\ chan' \in Seq(Values)
           /\ FailureLast'
  <1>1. got \in Seq(Values) /\ chan \in Seq(Values) /\ Stream \in Seq(Values)
    BY TraceTypes
  <1>2. Stream' = Append(Stream, x) /\ chan' \in Seq(Values)
    BY <1>1, ConcatAppend, AppendFacts DEF Stream
  <1> DEFINE a == Append(Stream, x)
  <1>3. /\ Len(Stream) \in Nat /\ Len(a) = Len(Stream) + 1
        /\ a[Len(Stream) + 1] = x
        /\ \A i \in 1 .. Len(Stream) : a[i] = Stream[i]
    BY <1>1, AppendFacts
  <1>4. FailureLast' <=>
           \A i \in 1 .. Len(a) : a[i] = Error => i = Len(a) /\ closed'
    BY <1>2 DEF FailureLast, Error
  <1> HIDE DEF a
  <1>5. \A i \in 1 .. Len(a) : i \in 1 .. Len(Stream) \/ i = Len(Stream) + 1
    BY <1>3
  <1>6. \A i \in 1 .. Len(a) : a[i] = Error => i = Len(a) /\ closed'
    BY <1>3, <1>5, NoErrorYet
  <1> QED
    BY <1>2, <1>4, <1>6

(* A stream that stays, with a close that stays. *)
LEMMA StreamKept ==
    ASSUME CInv, Stream' = Stream, closed => closed'
    PROVE  FailureLast'
  BY DEF CInv, Steady, FailureLast, Error

(* The values the channel carries. *)
LEMMA ValueTypes ==
    /\ Error \in Values /\ EmptyRead \in Values /\ EmptyRead # Error
    /\ \A w \in Writes : w.kind # "none" =>
          LookupOf(w) \in Values /\ LookupOf(w) # Error
  BY DEF Error, EmptyRead, LookupOf, Values, Writes

(* What is known before the first read. *)
LEMMA NotStarted ==
    ASSUME CInv, ~Started
    PROVE  /\ flight = NoWrite /\ ~closed /\ pos = 0 /\ nlookups = 0
           /\ ~pooled /\ log = << >> /\ chan = << >> /\ got = << >>
           /\ Sequence = << >>
  BY DEF CInv, Steady, Untouched, Started, Sequence

---------------------------------------------------------------------------
(* The body of WriteChunk *)

(* Init *)
LEMMA SteadyInit == Init => CInv
  <1> SUFFICES ASSUME Init PROVE CInv
    OBVIOUS
  <1>1. PICK r \in Requests : /\ initial_offset = r.offset
                              /\ orig_total_size = r.total
                              /\ input = r.input
    BY DEF Init
  <1>2. /\ r \in [offset : 0 .. Word - 1, total : 0 .. Word - 1,
                   input : 0 .. Word - 1]
        /\ Word \in Nat /\ MaxChunk \in 1 .. Word - 1
        /\ MaxStalls \in Nat /\ MaxLookups \in Nat
    BY ChunkAssumption
  <1>3. /\ initial_offset \in 0 .. Word - 1 /\ orig_total_size \in 0 .. Word - 1
        /\ input \in 0 .. Word - 1
        /\ r = [offset |-> initial_offset, total |-> orig_total_size,
                input |-> input]
    BY <1>1, <1>2
  <1>4. Asked
    BY <1>3 DEF Asked
  <1>5. TypeOK
    <2>1. /\ input \in Nat /\ 0 \in 0 .. input /\ 0 \in 0 .. MaxStalls
          /\ 0 \in 0 .. MaxLookups
          /\ [src |-> 0, len |-> 0] \in [src : Nat, len : 0 .. MaxChunk]
      BY <1>2, <1>3
    <2>2. /\ total_size \in 0 .. Word - 1 /\ offset \in 0 .. Word - 1
          /\ pos \in 0 .. input /\ stalls \in 0 .. MaxStalls
          /\ nlookups \in 0 .. MaxLookups
      BY <1>3, <2>1 DEF Init
    <2>3. /\ buf \in [src : Nat, len : 0 .. MaxChunk] /\ flight \in Writes
          /\ log \in Seq(Writes) /\ chan \in Seq(Values)
          /\ got \in Seq(Values)
      BY <2>1, NoWriteType, EmptySeq, Zenon DEF Init
    <2>4. pooled \in BOOLEAN /\ closed \in BOOLEAN /\ ended \in BOOLEAN
      BY DEF Init
    <2> QED
      BY <1>3, <2>1, <2>2, <2>3, <2>4 DEF TypeOK
  <1>6. Sequence = << >> /\ Stream = << >>
    BY DEF Init, Sequence, Stream
  <1>7. CopiesInOrder /\ WithinRead /\ FailureLast
    BY <1>6 DEF CopiesInOrder, InOrder, WithinRead, FailureLast
  <1>8. Counted
    BY <1>3, CountingNone DEF Init, Counted
  <1>9. Untouched /\ UnderWay /\ ClosedIsQuiet
    BY DEF Init, Untouched, UnderWay, ClosedIsQuiet
  <1> QED
    BY <1>4, <1>5, <1>7, <1>8, <1>9 DEF CInv, Steady

(* The call ends before a write was made. *)
LEMMA FirstFails ==
    ASSUME CInv, NEW r \in Reads, FirstReadFails(r) \/ FirstKeyFails(r)
    PROVE  CInv'
  <1>1. /\ ~Started /\ Took(r) /\ closed' /\ UNCHANGED params
        /\ flight' = flight /\ nlookups' = nlookups /\ log' = log
        /\ pooled' = pooled /\ got' = got /\ ended' = ended
        /\ chan' = <<Error>> \/ chan' = <<EmptyRead, Error>>
        /\ closed' = TRUE
    BY DEF FirstReadFails, FirstKeyFails
  <1>2. /\ flight = NoWrite /\ ~closed /\ ~pooled /\ log = << >>
        /\ got = << >> /\ Sequence = << >>
    BY <1>1, NotStarted
  <1>3. offset' \in 0 .. Word - 1 /\ total_size' \in 0 .. Word - 1
    <2>1. CASE FirstReadFails(r)
      BY <2>1, WordTypes DEF FirstReadFails
    <2>2. CASE FirstKeyFails(r)
      BY <1>1, <1>2, <2>2, AccountFacts DEF FirstKeyFails
    <2> QED
      BY <2>1, <2>2
  <1>4. chan' \in Seq(Values) /\ Stream' = chan'
    <2>1. <<Error>> \in Seq(Values) /\ <<EmptyRead, Error>> \in Seq(Values)
      BY ValueTypes
    <2>2. chan' \in Seq(Values)
      BY <1>1, <2>1
    <2> QED
      BY <1>1, <1>2, <2>2, ConcatEmptySeq DEF Stream
  <1>5. FailureLast'
    <2>1. Error' = Error
      BY DEF Error
    <2>2. CASE chan' = <<Error>>
      BY <1>1, <1>4, <2>1, <2>2 DEF FailureLast
    <2>3. CASE chan' = <<EmptyRead, Error>>
      <3>1. \A i \in 1 .. Len(chan') : chan'[i] = Error => i = Len(chan')
        BY <2>3, ValueTypes
      <3> QED
        BY <1>1, <1>4, <2>1, <3>1 DEF FailureLast
    <2> QED
      BY <1>1, <2>2, <2>3
  <1>6. CopiesInOrder' /\ WithinRead'
    BY <1>1, <1>2 DEF Sequence, NoWrite, CopiesInOrder, InOrder, WithinRead
  <1>7. TypeOK'
    BY <1>1, <1>3, <1>4, TookFacts DEF CInv, TypeOK, params
  <1>8. Asked'
    BY <1>1 DEF CInv, Steady, Asked, params
  <1>9. Untouched' /\ Counted' /\ UnderWay' /\ ClosedIsQuiet'
    BY <1>1, <1>2 DEF Untouched, Started, Counted, UnderWay, ClosedIsQuiet
  <1> QED
    BY <1>5, <1>6, <1>7, <1>8, <1>9 DEF CInv, Steady

(* The prepare goes out. *)
LEMMA PrepareSteady ==
    ASSUME CInv, NEW r \in Reads, Prepare(r)
    PROVE  CInv'
  <1>1. /\ ~Started /\ Took(r) /\ Account(r) /\ UNCHANGED params
        /\ nlookups' = nlookups /\ log' = log /\ closed' = closed
        /\ got' = got /\ ended' = ended /\ pooled' = TRUE
        /\ chan' = << >> \/ chan' = <<EmptyRead>>
        /\ flight' = [kind |-> "prepare", off |-> Sub(offset', r.n),
                      src |-> pos, len |-> r.n, size |-> Add(total_size', r.n)]
    BY DEF Prepare
  <1>2. /\ ~closed /\ log = << >> /\ got = << >> /\ pos = 0
        /\ Sequence = << >>
    BY <1>1, NotStarted
  <1>3. /\ offset' \in 0 .. Word - 1 /\ total_size' \in 0 .. Word - 1
        /\ offset' = Add(initial_offset, pos')
        /\ total_size' = Sub(orig_total_size, pos')
        /\ Sub(offset', r.n) = Add(initial_offset, pos)
        /\ Add(total_size', r.n) = total_size
    BY <1>1, <1>2, AccountFacts
  <1>4. /\ r.n \in Nat /\ r.n <= MaxChunk /\ pos' = pos + r.n /\ pos' <= input
        /\ r.n > 0 => buf' = [src |-> pos, len |-> r.n]
        /\ Add(initial_offset, pos) \in 0 .. Word - 1
        /\ total_size \in 0 .. Word - 1
    <2>1. r.n \in 0 .. Word - 1 /\ r.n <= MaxChunk /\ Word \in Nat
      BY ReadFacts, WordTypes
    <2>2. /\ pos' = pos + r.n /\ pos' \in 0 .. input /\ input \in 0 .. Word - 1
          /\ r.n > 0 => buf' = [src |-> pos, len |-> r.n]
      BY <1>1, TookFacts, WordTypes
    <2>3. /\ Add(initial_offset, pos) \in 0 .. Word - 1
          /\ total_size \in 0 .. Word - 1
      BY WordTypes, AddSub
    <2> QED
      BY <2>1, <2>2, <2>3
  <1>5. /\ flight' \in Writes /\ flight' # NoWrite
        /\ flight'.kind = "prepare" /\ flight'.src = 0 /\ flight'.len = r.n
        /\ flight'.off = Add(initial_offset, 0)
    BY <1>1, <1>2, <1>3, <1>4 DEF Writes, NoWrite
  <1>6. chan' \in Seq(Values) /\ Stream' = chan'
    <2>1. << >> \in Seq(Values) /\ <<EmptyRead>> \in Seq(Values)
      BY ValueTypes
    <2>2. chan' \in Seq(Values)
      BY <1>1, <2>1
    <2> QED
      BY <1>1, <1>2, <2>2, ConcatEmptySeq DEF Stream
  <1>7. FailureLast'
    <2>1. \A i \in 1 .. Len(chan') : chan'[i] # Error
      BY <1>1, ValueTypes
    <2> QED
      BY <1>6, <2>1 DEF FailureLast, Error
  <1>8. TypeOK'
    <2>1. /\ pos' \in 0 .. input /\ stalls' \in 0 .. MaxStalls
          /\ buf' \in [src : Nat, len : 0 .. MaxChunk]
      BY <1>1, TookFacts
    <2> QED
      BY <1>1, <1>3, <1>5, <1>6, <2>1 DEF CInv, TypeOK, params
  <1>9. Sequence' = Append(<< >>, flight')
    BY <1>1, <1>2, <1>5 DEF Sequence, NoWrite
  <1>10. CopiesInOrder' /\ WithinRead'
    <2> DEFINE w == flight'
    <2>1. InOrder(Append(<< >>, w))
      <3>1. << >> \in Seq(Writes) /\ InOrder(<< >>) /\ Reached(<< >>) = 0
        BY EmptySeq DEF InOrder, Reached
      <3> QED
        BY <1>5, <3>1, InOrderAppend
    <2>2. /\ Len(Append(<< >>, w)) = 1 /\ Append(<< >>, w)[1] = w
      OBVIOUS
    <2>3. w.src + w.len <= pos'
      BY <1>2, <1>4, <1>5
    <2>4. initial_offset' = initial_offset
      BY <1>1 DEF params
    <2> HIDE DEF w
    <2> QED
      BY <1>9, <2>1, <2>2, <2>3, <2>4
      DEF CopiesInOrder, InOrder, WithinRead, Add, w
  <1>11. Asked' /\ Untouched' /\ ClosedIsQuiet'
    BY <1>1, <1>2, <1>5 DEF CInv, Steady, Asked, params, Untouched, Started,
       ClosedIsQuiet, NoWrite
  <1>12. Counted'
    BY <1>1, <1>3 DEF Counted, params, Add, Sub
  <1>13. UnderWay'
    BY <1>1, <1>2, <1>4, <1>5 DEF UnderWay
  <1> QED
    BY <1>7, <1>8, <1>10, <1>11, <1>12, <1>13 DEF CInv, Steady

---------------------------------------------------------------------------
(* The callbacks *)

(* What is known while a write is under way. *)
LEMMA InFlight ==
    ASSUME CInv, flight # NoWrite
    PROVE  /\ ~closed /\ flight.kind # "none"
           /\ flight.src + flight.len = pos
           /\ Sequence = Append(log, flight)
           /\ Sequence \in Seq(Writes) /\ Sequence # << >>
           /\ Sequence[Len(Sequence)] = flight
           /\ Reached(Sequence) = pos
  <1>1. /\ ~closed /\ flight.kind # "none" /\ flight.src + flight.len = pos
    BY DEF CInv, Steady, UnderWay
  <1>2. Sequence = Append(log, flight)
    BY DEF Sequence
  <1>3. /\ Sequence \in Seq(Writes) /\ Sequence # << >>
        /\ Sequence[Len(Sequence)] = flight
    BY <1>2, TraceTypes, AppendFacts
  <1> QED
    BY <1>1, <1>2, <1>3 DEF Reached

(* onChunkResult. *)
LEMMA ResultSteady ==
    ASSUME CInv, ChunkResult
    PROVE  CInv'
  <1>1. /\ flight # NoWrite /\ nlookups < MaxLookups
        /\ nlookups' = nlookups + 1
        /\ UNCHANGED <<params, counts, flight, log, pooled, closed, got, ended>>
        /\ chan' = Append(chan, LookupOf(flight)) \/ chan' = chan
    BY DEF ChunkResult
  <1>2. nlookups' \in 0 .. MaxLookups
    BY <1>1, ChunkAssumption DEF CInv, TypeOK
  <1>3. ~closed /\ LookupOf(flight) \in Values /\ LookupOf(flight) # Error
    BY <1>1, InFlight, TraceTypes, ValueTypes
  <1>4. chan' \in Seq(Values) /\ FailureLast'
    <2>1. CASE chan' = chan
      BY <1>1, <2>1, StreamKept, TraceTypes DEF Stream
    <2>2. CASE chan' = Append(chan, LookupOf(flight))
      BY <1>1, <1>3, <2>2, StreamGrows
    <2> QED
      BY <1>1, <2>1, <2>2
  <1>5. CopiesInOrder' /\ WithinRead'
    BY <1>1, WordTypes, SameSequence DEF Sequence, NoWrite, counts
  <1>6. TypeOK'
    BY <1>1, <1>2, <1>4 DEF CInv, TypeOK, params, counts
  <1>7. Asked' /\ Untouched' /\ Counted' /\ UnderWay' /\ ClosedIsQuiet'
    BY <1>1 DEF CInv, Steady, Asked, Untouched, Started, Counted, UnderWay,
       ClosedIsQuiet, NoWrite, params, counts, Add, Sub
  <1> QED
    BY <1>4, <1>5, <1>6, <1>7 DEF CInv, Steady

(* The parts of the invariant once a callback has closed the channel. *)
LEMMA Released ==
    ASSUME CInv, flight # NoWrite, flight' = NoWrite, closed' = TRUE,
           pooled' = FALSE, nlookups' = 0,
           UNCHANGED <<params, got, ended>>,
           log' = log \/ log' = Append(log, flight),
           offset' \in 0 .. Word - 1, total_size' \in 0 .. Word - 1,
           UNCHANGED <<pos, stalls, buf>> \/ \E r \in Reads : Took(r),
           chan' \in Seq(Values), FailureLast'
    PROVE  CInv'
  <1>1. log' \in Seq(Writes) /\ Sequence' = log'
    BY TraceTypes, AppendFacts DEF Sequence, NoWrite
  <1>2. /\ pos' \in 0 .. input /\ stalls' \in 0 .. MaxStalls
        /\ buf' \in [src : Nat, len : 0 .. MaxChunk]
    BY TookFacts DEF CInv, TypeOK
  <1>a. pos \in Nat /\ pos' \in Nat /\ pos <= pos'
    <2>1. CASE pos' = pos
      BY <2>1, WordTypes
    <2>2. ASSUME NEW r \in Reads, Took(r)
          PROVE  pos \in Nat /\ pos' \in Nat /\ pos <= pos'
      <3>1. pos' = pos + r.n /\ r.n \in Nat /\ pos \in Nat
        BY <2>2, TookFacts, ReadFacts, WordTypes
      <3> QED
        BY <3>1
    <2> QED
      BY <2>1, <2>2
  <1>3. TypeOK'
    <2>1. 0 \in 0 .. MaxLookups
      BY ChunkAssumption
    <2> QED
      BY <1>1, <1>2, <2>1, NoWriteType DEF CInv, TypeOK, params
  <1>4. CopiesInOrder' /\ WithinRead'
    <2>1. CASE log' = Append(log, flight)
      BY <1>1, <1>a, <2>1, InFlight, SameSequence
    <2>2. CASE log' = log
      <3>1. InOrder(log)
        BY TraceTypes, InFlight, InOrderPrefix DEF CInv, Steady, CopiesInOrder
      <3>2. ASSUME NEW i \in 1 .. Len(log)
            PROVE  log[i].src + log[i].len <= pos'
        <4>1. /\ Len(log) \in Nat /\ Len(Sequence) = Len(log) + 1
              /\ Sequence[i] = log[i]
          BY TraceTypes, InFlight, AppendFacts
        <4>2. log[i].src + log[i].len <= pos
          BY <4>1 DEF CInv, Steady, WithinRead
        <4>3. log[i] \in Writes
          BY TraceTypes, ElementOfSeq
        <4>4. log[i].src + log[i].len \in Nat
          BY <4>3 DEF Writes
        <4> QED
          BY <1>a, <4>2, <4>4
      <3>3. initial_offset' = initial_offset
        BY DEF params
      <3> QED
        BY <1>1, <2>2, <3>1, <3>2, <3>3
        DEF CopiesInOrder, InOrder, WithinRead, Add
    <2> QED
      BY <2>1, <2>2
  <1>5. Asked' /\ Untouched' /\ Counted' /\ UnderWay' /\ ClosedIsQuiet'
    BY DEF CInv, Steady, Asked, Untouched, Started, Counted, UnderWay,
       ClosedIsQuiet, NoWrite, params
  <1> QED
    BY <1>3, <1>4, <1>5 DEF CInv, Steady

(* The error sent before the close is the last value. *)
LEMMA FailureSent ==
    ASSUME CInv, flight # NoWrite, FailAndRelease
    PROVE  /\ chan' \in Seq(Values) /\ FailureLast'
           /\ Stream' = Append(Stream, Error)
  BY InFlight, ValueTypes, StreamGrows DEF FailAndRelease

(* A write, the next read or the next key failed. *)
LEMMA FailuresSteady ==
    ASSUME CInv,
           ChunkFails \/ \E r \in Reads : NextReadFails(r) \/ NextKeyFails(r)
    PROVE  CInv'
  <1>1. CASE ChunkFails
    <2>1. /\ flight # NoWrite /\ FailAndRelease /\ log' = log
          /\ UNCHANGED <<pos, stalls, buf>>
          /\ offset' = offset /\ total_size' = total_size
      BY <1>1 DEF ChunkFails, counts
    <2> QED
      BY <2>1, WordTypes, FailureSent, Released DEF FailAndRelease
  <1>2. ASSUME NEW r \in Reads, NextReadFails(r)
        PROVE  CInv'
    <2>1. /\ flight # NoWrite /\ FailAndRelease /\ log' = Append(log, flight)
          /\ Took(r) /\ offset' = offset /\ total_size' = total_size
      BY <1>2 DEF NextReadFails
    <2> QED
      BY <2>1, WordTypes, FailureSent, Released DEF FailAndRelease
  <1>3. ASSUME NEW r \in Reads, NextKeyFails(r)
        PROVE  CInv'
    <2>1. /\ flight # NoWrite /\ FailAndRelease /\ log' = Append(log, flight)
          /\ Took(r) /\ Account(r) /\ UNCHANGED params
      BY <1>3 DEF NextKeyFails, FailAndRelease
    <2>2. offset' \in 0 .. Word - 1 /\ total_size' \in 0 .. Word - 1
      BY <2>1, InFlight, AccountFacts
    <2> QED
      BY <2>1, <2>2, FailureSent, Released DEF FailAndRelease
  <1> QED
    BY <1>1, <1>2, <1>3

(* The last write has ended well. *)
LEMMA LastSteady ==
    ASSUME CInv, LastChunkDone
    PROVE  CInv'
  <1>1. /\ flight # NoWrite /\ log' = Append(log, flight) /\ closed' = TRUE
        /\ pooled' = FALSE /\ flight' = NoWrite /\ nlookups' = 0
        /\ UNCHANGED <<params, got, ended>> /\ chan' = chan
        /\ UNCHANGED <<pos, stalls, buf>>
        /\ offset' = offset /\ total_size' = total_size
    BY DEF LastChunkDone, counts
  <1>2. chan' \in Seq(Values) /\ FailureLast'
    BY <1>1, TraceTypes, StreamKept DEF Stream
  <1> QED
    BY <1>1, <1>2, WordTypes, Released

(* The next chunk goes out. *)
LEMMA ChunkSteady ==
    ASSUME CInv, NEW r \in Reads, NextChunk(r)
    PROVE  CInv'
  <1>1. /\ flight # NoWrite /\ total_size # 0 /\ Took(r) /\ Account(r)
        /\ log' = Append(log, flight) /\ nlookups' = 0
        /\ flight' = NextWrite(r)
        /\ UNCHANGED params /\ pooled' = pooled
        /\ chan' = chan /\ closed' = closed /\ got' = got /\ ended' = ended
    BY DEF NextChunk, sink
  <1>2. /\ ~closed /\ Sequence = Append(log, flight)
        /\ Sequence \in Seq(Writes) /\ Sequence # << >>
        /\ Sequence[Len(Sequence)] = flight /\ Reached(Sequence) = pos
        /\ flight.kind # "commit" /\ pooled
    BY <1>1, InFlight DEF CInv, Steady, UnderWay
  <1>3. /\ offset' \in 0 .. Word - 1 /\ total_size' \in 0 .. Word - 1
        /\ offset' = Add(initial_offset, pos')
        /\ total_size' = Sub(orig_total_size, pos')
        /\ Sub(offset', r.n) = Add(initial_offset, pos)
    BY <1>1, <1>2, AccountFacts
  <1>4. /\ r.n \in Nat /\ r.n <= MaxChunk /\ pos \in Nat
        /\ Add(initial_offset, pos) \in 0 .. Word - 1 /\ Word \in Nat \ {0}
    <2>1. r.n \in 0 .. Word - 1 /\ r.n <= MaxChunk
      BY ReadFacts
    <2>2. /\ pos \in 0 .. Word - 1 /\ Word \in Nat /\ MaxChunk \in 1 .. Word - 1
          /\ initial_offset \in 0 .. Word - 1
      BY WordTypes
    <2>3. Add(initial_offset, pos) \in 0 .. Word - 1
      BY <2>2, AddSub
    <2> QED
      BY <2>1, <2>2, <2>3
  <1>5. /\ pos' = pos + r.n /\ pos' \in 0 .. input
        /\ stalls' \in 0 .. MaxStalls
        /\ buf' \in [src : Nat, len : 0 .. MaxChunk]
        /\ r.n > 0 => buf' = [src |-> pos, len |-> r.n]
    BY <1>1, TookFacts
  <1>6. /\ flight' \in Writes /\ flight' # NoWrite
        /\ flight'.kind = (IF total_size' # 0 THEN "plain" ELSE "commit")
        /\ flight'.src = pos /\ flight'.len = r.n
        /\ flight'.off = Add(initial_offset, pos)
        /\ flight'.kind = "commit" => flight'.size = offset'
    <2>1. flight' = [kind |-> IF total_size' # 0 THEN "plain" ELSE "commit",
                     off |-> Add(initial_offset, pos), src |-> pos,
                     len |-> r.n,
                     size |-> IF total_size' # 0 THEN 0 ELSE offset']
      BY <1>1, <1>3 DEF NextWrite
    <2> QED
      BY <1>3, <1>4, <2>1 DEF Writes, NoWrite
  <1>7. TypeOK'
    <2>1. log' \in Seq(Writes) /\ 0 \in 0 .. MaxLookups
      BY <1>1, <1>2, ChunkAssumption
    <2> QED
      BY <1>1, <1>3, <1>5, <1>6, <2>1 DEF CInv, TypeOK, params
  <1>8. Sequence' = Append(Sequence, flight')
    BY <1>1, <1>2, <1>6 DEF Sequence, NoWrite
  <1>9. CopiesInOrder' /\ WithinRead'
    <2> DEFINE w == flight'
               s == Sequence
    <2>1. InOrder(Append(s, w))
      <3>1. InOrder(s)
        BY DEF CInv, Steady, CopiesInOrder
      <3>2. w.kind # "prepare"
        BY <1>6
      <3> QED
        BY <1>2, <1>6, <3>1, <3>2, InOrderAppend
    <2>2. /\ Len(s) \in Nat /\ Len(Append(s, w)) = Len(s) + 1
          /\ Append(s, w)[Len(s) + 1] = w
          /\ \A i \in 1 .. Len(s) : Append(s, w)[i] = s[i]
      BY <1>2, <1>6, AppendFacts
    <2>3. w.src + w.len <= pos'
      BY <1>4, <1>5, <1>6
    <2>4. initial_offset' = initial_offset
      BY <1>1 DEF params
    <2>5. ASSUME NEW i \in 1 .. Len(s) PROVE s[i].src + s[i].len <= pos'
      <3>1. s[i].src + s[i].len <= pos
        BY DEF CInv, Steady, WithinRead
      <3>2. s[i] \in Writes
        BY <1>2, ElementOfSeq
      <3>3. s[i].src + s[i].len \in Nat
        BY <3>2 DEF Writes
      <3> QED
        BY <1>4, <1>5, <3>1, <3>3
    <2>6. CopiesInOrder'
      BY <1>8, <2>1, <2>4 DEF CopiesInOrder, InOrder, Add
    <2> DEFINE a == Append(s, w)
    <2>7. WithinRead' <=> \A i \in 1 .. Len(a) : a[i].src + a[i].len <= pos'
      BY <1>8 DEF WithinRead
    <2> HIDE DEF w, s, a
    <2>8. \A i \in 1 .. Len(a) : a[i].src + a[i].len <= pos'
      <3>1. \A i \in 1 .. Len(a) : i \in 1 .. Len(s) \/ i = Len(s) + 1
        BY <2>2 DEF a
      <3> QED
        BY <2>2, <2>3, <2>5, <3>1 DEF a
    <2> QED
      BY <2>6, <2>7, <2>8
  <1>10. Asked' /\ Untouched' /\ ClosedIsQuiet'
    BY <1>1, <1>2, <1>6 DEF CInv, Steady, Asked, params, Untouched, Started,
       ClosedIsQuiet, NoWrite
  <1>11. Counted'
    BY <1>1, <1>3 DEF Counted, params, Add, Sub
  <1>12. UnderWay'
    BY <1>1, <1>2, <1>4, <1>5, <1>6 DEF UnderWay
  <1>13. FailureLast'
    BY <1>1, StreamKept DEF Stream
  <1> QED
    BY <1>7, <1>9, <1>10, <1>11, <1>12, <1>13 DEF CInv, Steady

---------------------------------------------------------------------------
(* The caller *)

(* A receive moves a value to the caller's side of the stream. *)
LEMMA ReceiveFacts ==
    ASSUME CInv, Receive
    PROVE  /\ Stream' = Stream /\ got' \in Seq(Values) /\ chan' \in Seq(Values)
           /\ UNCHANGED <<params, counts, flight, nlookups, log, pooled,
                          closed, ended>>
  <1>1. /\ got \in Seq(Values) /\ chan \in Seq(Values) /\ chan # << >>
        /\ got' = Append(got, Head(chan)) /\ chan' = Tail(chan)
    BY TraceTypes DEF Receive
  <1>2. Stream' = Stream /\ got' \in Seq(Values) /\ chan' \in Seq(Values)
    BY <1>1, MoveHead DEF Stream
  <1> QED
    BY <1>2 DEF Receive

(* The caller's steps. *)
LEMMA CallerSteady ==
    ASSUME CInv, Receive \/ SeeEnd \/ UNCHANGED vars
    PROVE  CInv'
  <1>1. /\ UNCHANGED <<params, counts, flight, nlookups, log, pooled, closed>>
        /\ Stream' = Stream /\ got' \in Seq(Values) /\ chan' \in Seq(Values)
        /\ ended' \in BOOLEAN
    <2>1. CASE Receive
      BY <2>1, ReceiveFacts DEF CInv, TypeOK
    <2>2. CASE SeeEnd \/ UNCHANGED vars
      BY <2>2, TraceTypes DEF CInv, TypeOK, SeeEnd, vars, sink, Stream
    <2> QED
      BY <2>1, <2>2
  <1>2. TypeOK'
    BY <1>1 DEF CInv, TypeOK, params, counts
  <1>3. CopiesInOrder' /\ WithinRead' /\ FailureLast'
    BY <1>1, WordTypes, SameSequence, StreamKept DEF Sequence, NoWrite, counts
  <1>4. Asked' /\ Counted' /\ UnderWay' /\ ClosedIsQuiet'
    BY <1>1 DEF CInv, Steady, Asked, Counted, UnderWay, ClosedIsQuiet,
       NoWrite, params, counts, Add, Sub
  <1>5. Untouched'
    <2>1. CASE Receive
      BY <1>1, <2>1 DEF Receive, Untouched, Started, NoWrite
    <2>2. CASE SeeEnd \/ UNCHANGED vars
      BY <2>2 DEF CInv, Steady, Untouched, Started, NoWrite, SeeEnd, vars,
         sink, params, counts
    <2> QED
      BY <2>1, <2>2
  <1> QED
    BY <1>2, <1>3, <1>4, <1>5 DEF CInv, Steady

---------------------------------------------------------------------------
(* The theorems that hold for every request *)

(* Every step keeps the invariant. *)
LEMMA SteadyNext == CInv /\ [Next]_vars => CInv'
  BY FirstFails, PrepareSteady, ResultSteady, FailuresSteady, LastSteady,
     ChunkSteady, CallerSteady
  DEF Next, Begin, ChunkFinish

(* The counters, the buffer, the write under way and the stream agree in   *)
(* every reachable state of a WriteChunk call.                             *)
THEOREM ChunkSteadiness == Spec => []CInv
  BY SteadyInit, SteadyNext, PTL DEF Spec

(* Every variable of a WriteChunk call keeps its type; offsets and sizes   *)
(* stay words.                                                             *)
THEOREM ChunkTypeCorrect == Spec => []TypeOK
  <1>1. CInv => TypeOK
    BY DEF CInv
  <1> QED
    BY <1>1, ChunkSteadiness, PTL

(* The writes of a call copy the input to the object in order, prepare     *)
(* first and nothing after the commit, whatever sizes the reader answers   *)
(* with (WriteChunk, onChunkFinish).                                       *)
THEOREM WritesInOrder == Spec => []CopiesInOrder
  <1>1. CInv => CopiesInOrder
    BY DEF CInv, Steady
  <1> QED
    BY <1>1, ChunkSteadiness, PTL

(* The buffer the library sends from is in the pool and is not refilled    *)
(* until the final callback of the write (WriteChunk, onChunkFinish).      *)
THEOREM BufferIsHeld == Spec => []BufferHoldsFlight
  <1>1. CInv => BufferHoldsFlight
    BY DEF CInv, Steady, UnderWay, BufferHoldsFlight
  <1> QED
    BY <1>1, ChunkSteadiness, PTL

(* After the close nothing of the call is left in the pool or in the       *)
(* library (the returns of WriteChunk and onChunkFinish).                  *)
THEOREM QuietOnceClosed == Spec => []ClosedIsQuiet
  <1>1. CInv => ClosedIsQuiet
    BY DEF CInv, Steady
  <1> QED
    BY <1>1, ChunkSteadiness, PTL

(* The error that ends a call is the last value on its channel and the     *)
(* channel is closed behind it (every error return of WriteChunk).         *)
THEOREM FailureIsLast == Spec => []FailureLast
  <1>1. CInv => FailureLast
    BY DEF CInv, Steady
  <1> QED
    BY <1>1, ChunkSteadiness, PTL

---------------------------------------------------------------------------
(* A reader with more than total_size bytes *)

(* A call that ends in its body has its error on the channel. *)
LEMMA FirstFailed ==
    ASSUME CInv, NEW r \in Reads,
           FirstReadFails(r) \/ FirstKeyFails(r) \/ Prepare(r)
    PROVE  closed' => Failed'
  <1>1. /\ ~Started /\ got' = got
        /\ closed' => \/ closed \/ chan' = <<Error>>
                      \/ chan' = <<EmptyRead, Error>>
    BY DEF FirstReadFails, FirstKeyFails, Prepare
  <1>2. got' = << >> /\ ~closed
    BY <1>1, NotStarted
  <1>3. <<Error>> \in Seq(Values) /\ <<EmptyRead, Error>> \in Seq(Values)
    BY ValueTypes
  <1>4. CASE chan' = <<Error>>
    <2>1. Stream' = <<Error>>
      BY <1>2, <1>3, <1>4, ConcatEmptySeq DEF Stream
    <2>2. 1 \in 1 .. Len(<<Error>>) /\ <<Error>>[1] = Error
      OBVIOUS
    <2> QED
      BY <2>1, <2>2 DEF Failed, Error
  <1>5. CASE chan' = <<EmptyRead, Error>>
    <2>1. Stream' = <<EmptyRead, Error>>
      BY <1>2, <1>3, <1>5, ConcatEmptySeq DEF Stream
    <2>2. 2 \in 1 .. Len(<<EmptyRead, Error>>)
          /\ <<EmptyRead, Error>>[2] = Error
      OBVIOUS
    <2> QED
      BY <2>1, <2>2 DEF Failed, Error
  <1> QED
    BY <1>1, <1>2, <1>4, <1>5

(* An error sent before the close is seen. *)
LEMMA SentFailed ==
    ASSUME CInv, flight # NoWrite, FailAndRelease
    PROVE  Failed'
  <1>1. Stream' = Append(Stream, Error)
    BY FailureSent
  <1>2. /\ Len(Stream) + 1 \in 1 .. Len(Append(Stream, Error))
        /\ Append(Stream, Error)[Len(Stream) + 1] = Error
    BY TraceTypes, ValueTypes, AppendFacts
  <1> QED
    BY <1>1, <1>2 DEF Failed, Error

(* While something is left of total_size, no write was the commit. *)
LEMMA NoCommitYet ==
    ASSUME CInv, flight # NoWrite, total_size # 0
    PROVE  \A i \in 1 .. Len(Sequence) : Sequence[i].kind # "commit"
  <1>1. Sequence[Len(Sequence)] = flight /\ flight.kind # "commit"
    BY InFlight DEF CInv, Steady, UnderWay
  <1> QED
    BY <1>1 DEF CInv, Steady, CopiesInOrder, InOrder

(* total_size is down to zero when exactly that much has been read. *)
LEMMA ZeroIsExact ==
    ASSUME CInv, ~closed, total_size = 0
    PROVE  pos = orig_total_size
  <1>1. Sub(orig_total_size, pos) = 0
    BY DEF CInv, Steady, Counted
  <1> QED
    BY <1>1, WordTypes, AddSub

OInv == CInv /\ Exact

(* Every step commits, and closes without an error, at total_size only. *)
LEMMA ExactNext == OInv /\ [Next]_vars => OInv'
  <1> SUFFICES ASSUME OInv, [Next]_vars
               PROVE  Exact'
    BY SteadyNext DEF OInv
  <1>0. CInv /\ CInv' /\ Exact
    BY SteadyNext DEF OInv
  <1>1. ASSUME NEW r \in Reads,
               FirstReadFails(r) \/ FirstKeyFails(r) \/ Prepare(r)
        PROVE  Exact'
    <2>1. closed' => Failed'
      BY <1>0, <1>1, FirstFailed
    <2>2. /\ log = << >> /\ log' = log
          /\ flight' = NoWrite \/ flight'.kind = "prepare"
      BY <1>0, <1>1, NotStarted DEF FirstReadFails, FirstKeyFails, Prepare
    <2>3. Sequence' = << >> \/ Sequence' = <<flight'>>
      BY <2>2 DEF Sequence, NoWrite
    <2>4. \A i \in 1 .. Len(Sequence') : Sequence'[i].kind # "commit"
      BY <2>2, <2>3 DEF Sequence, NoWrite
    <2> QED
      BY <2>1, <2>4 DEF Exact
  <1>2. ASSUME Sequence' = Sequence, pos' = pos, UNCHANGED params,
               closed' /\ ~Failed' => (closed /\ ~Failed) \/ pos = orig_total_size
        PROVE  Exact'
    BY <1>0, <1>2 DEF Exact, params
  <1>3. CASE ChunkResult
    <2>1. /\ flight # NoWrite /\ closed' = closed
      BY <1>3 DEF ChunkResult
    <2>2. ~closed
      BY <1>0, <2>1, InFlight
    <2>3. Sequence' = Sequence /\ pos' = pos /\ UNCHANGED params
      BY <1>3 DEF ChunkResult, Sequence, NoWrite, counts
    <2> QED
      BY <1>2, <2>1, <2>2, <2>3
  <1>4. CASE ChunkFails
    <2>1. /\ flight # NoWrite /\ FailAndRelease /\ log' = log
          /\ flight' = NoWrite /\ pos' = pos /\ UNCHANGED params
      BY <1>4 DEF ChunkFails, counts, FailAndRelease
    <2>2. Failed'
      BY <1>0, <2>1, SentFailed
    <2>3. Sequence' = log
      BY <2>1 DEF Sequence, NoWrite
    <2>4. /\ Len(log) \in Nat /\ Len(Sequence) = Len(log) + 1
          /\ \A i \in 1 .. Len(log) : Sequence[i] = log[i]
      BY <1>0, <2>1, TraceTypes, InFlight, AppendFacts
    <2>5. \A i \in 1 .. Len(log) : log[i].kind = "commit" => pos = orig_total_size
      BY <1>0, <2>4 DEF Exact
    <2> QED
      BY <2>1, <2>2, <2>3, <2>5 DEF Exact, params
  <1>5. ASSUME flight # NoWrite, total_size # 0, FailAndRelease,
               log' = Append(log, flight)
        PROVE  Exact'
    <2>1. Failed'
      BY <1>0, <1>5, SentFailed
    <2>2. Sequence' = Sequence
      BY <1>5 DEF FailAndRelease, Sequence, NoWrite
    <2>3. \A i \in 1 .. Len(Sequence') : Sequence'[i].kind # "commit"
      BY <1>0, <1>5, <2>2, NoCommitYet
    <2> QED
      BY <2>1, <2>3 DEF Exact
  <1>6. CASE LastChunkDone
    <2>1. /\ flight # NoWrite /\ total_size = 0 /\ log' = Append(log, flight)
          /\ flight' = NoWrite /\ pos' = pos /\ UNCHANGED params
      BY <1>6 DEF LastChunkDone, counts
    <2>2. Sequence' = Sequence
      BY <2>1 DEF Sequence, NoWrite
    <2>3. pos = orig_total_size
      BY <1>0, <2>1, InFlight, ZeroIsExact
    <2> QED
      BY <1>2, <2>1, <2>2, <2>3
  <1>7. ASSUME NEW r \in Reads, NextChunk(r)
        PROVE  Exact'
    <2>1. /\ flight # NoWrite /\ total_size # 0 /\ log' = Append(log, flight)
          /\ flight' = NextWrite(r) /\ closed' = closed
          /\ UNCHANGED params
      BY <1>7 DEF NextChunk, sink
    <2>2. ~closed /\ Sequence = Append(log, flight)
          /\ Sequence \in Seq(Writes)
      BY <1>0, <2>1, InFlight
    <2>3. flight'.kind = "commit" => total_size' = 0
      BY <2>1 DEF NextWrite
    <2>4. flight'.kind = "commit" => pos' = orig_total_size'
      <3>1. /\ total_size' = Sub(orig_total_size, pos')
            /\ pos' \in 0 .. input
        BY <1>0, <1>7, <2>2, AccountFacts, TookFacts DEF NextChunk
      <3>2. pos' \in 0 .. Word - 1
        BY <1>0, <3>1, WordTypes
      <3>3. total_size' = 0 => orig_total_size = pos'
        BY <1>0, <3>1, <3>2, WordTypes, AddSub
      <3> QED
        BY <2>1, <2>3, <3>3 DEF params
    <2>5. flight' # NoWrite /\ flight' \in Writes
      <3>1. flight'.kind # "none"
        BY <2>1 DEF NextWrite
      <3> QED
        BY <1>0, <3>1 DEF CInv, TypeOK, NoWrite, Writes
    <2> DEFINE a == Append(Sequence, flight')
    <2>6. Sequence' = a
      BY <2>1, <2>2, <2>5 DEF Sequence, NoWrite
    <2>7. /\ Len(Sequence) \in Nat /\ Len(a) = Len(Sequence) + 1
          /\ a[Len(Sequence) + 1] = flight'
          /\ \A i \in 1 .. Len(Sequence) : a[i] = Sequence[i]
      BY <2>2, <2>5, AppendFacts
    <2> HIDE DEF a
    <2>8. ASSUME NEW i \in 1 .. Len(a), a[i].kind = "commit"
          PROVE  pos' = orig_total_size'
      <3>1. i \in 1 .. Len(Sequence) \/ i = Len(Sequence) + 1
        BY <2>7
      <3> QED
        BY <1>0, <2>1, <2>4, <2>7, <2>8, <3>1, NoCommitYet
    <2> QED
      BY <2>1, <2>2, <2>6, <2>8 DEF Exact
  <1>8. CASE Receive \/ SeeEnd \/ UNCHANGED vars
    <2>1. /\ Stream' = Stream /\ closed' = closed /\ pos' = pos
          /\ UNCHANGED params /\ flight' = flight /\ log' = log
      <3>1. CASE Receive
        BY <1>0, <3>1, ReceiveFacts DEF counts
      <3>2. CASE SeeEnd \/ UNCHANGED vars
        BY <3>2 DEF SeeEnd, vars, sink, Stream, counts
      <3> QED
        BY <1>8, <3>1, <3>2
    <2>2. Sequence' = Sequence /\ (Failed' <=> Failed)
      BY <2>1 DEF Sequence, NoWrite, Failed, Error
    <2> QED
      BY <1>2, <2>1, <2>2
  <1>9. ASSUME NEW r \in Reads, NextReadFails(r) \/ NextKeyFails(r)
        PROVE  Exact'
    BY <1>5, <1>9 DEF NextReadFails, NextKeyFails
  <1> QED
    BY <1>1, <1>3, <1>4, <1>6, <1>7, <1>8, <1>9
    DEF Next, Begin, ChunkFinish

(* For every length of the reader, also beyond total_size: an object that  *)
(* was written past the prepared area is never committed, and its call     *)
(* never ends without an error (WriteChunk, onChunkFinish; nothing in the  *)
(* code keeps such a read back).                                           *)
THEOREM OvershootNeverSucceeds == Spec => []OvershootFails
  <1>1. Init => OInv
    BY SteadyInit DEF OInv, Exact, Init, Sequence
  <1>2. OInv => OvershootFails
    <2> SUFFICES ASSUME OInv, NEW i \in 1 .. Len(Sequence),
                        Sequence[i].src + Sequence[i].len > orig_total_size
                 PROVE  pos # orig_total_size
      BY DEF OvershootFails, Overshot, OInv, Exact
    <2>1. Sequence[i].src + Sequence[i].len <= pos
      BY DEF OInv, CInv, Steady, WithinRead
    <2>2. Sequence[i] \in Writes
      BY TraceTypes, ElementOfSeq DEF OInv
    <2>3. /\ Sequence[i].src + Sequence[i].len \in Nat /\ pos \in Nat
          /\ orig_total_size \in Nat
      BY <2>2, WordTypes DEF OInv, Writes
    <2> QED
      BY <2>1, <2>3
  <1> QED
    BY <1>1, <1>2, ExactNext, PTL DEF Spec

---------------------------------------------------------------------------
(* The theorems about objects larger than one chunk, the ones WriteData    *)
(* sends here                                                              *)

Large == \A r \in Requests : r.total > MaxChunk

(* When a write is under way and nothing is left to read, it is the commit *)
(* and all of total_size has been read: one chunk was not enough.          *)
LEMMA OnlyCommitIsLast ==
    ASSUME Large, CInv, flight # NoWrite, total_size = 0
    PROVE  flight.kind = "commit" /\ pos = orig_total_size
  <1>1. /\ ~closed /\ flight.kind # "none" /\ flight.src + flight.len = pos
        /\ Sequence \in Seq(Writes) /\ Sequence # << >>
        /\ Sequence[Len(Sequence)] = flight
    BY InFlight
  <1>2. flight \in Writes /\ flight.len <= MaxChunk /\ flight.kind # "plain"
    BY DEF CInv, TypeOK, Steady, UnderWay
  <1>3. pos = orig_total_size
    <2>1. Sub(orig_total_size, pos) = 0
      BY <1>1 DEF CInv, Steady, Counted
    <2> QED
      BY <2>1, WordTypes, AddSub
  <1>4. orig_total_size > MaxChunk
    BY DEF Large, CInv, Steady, Asked
  <1>5. flight.kind # "prepare"
    <2> SUFFICES ASSUME flight.kind = "prepare"
                 PROVE  FALSE
      OBVIOUS
    <2>1. Len(Sequence) \in 1 .. Len(Sequence)
      BY <1>1, EmptySeq, LenProperties
    <2>2. Len(Sequence) = 1 /\ flight.src = 0
      BY <1>1, <2>1 DEF CInv, Steady, CopiesInOrder, InOrder
    <2>3. flight.len \in Nat /\ MaxChunk \in Nat /\ pos \in Nat
      BY <1>2, WordTypes DEF Writes
    <2> QED
      BY <1>1, <1>2, <1>3, <1>4, <2>2, <2>3
  <1>6. flight.kind \in {"none", "prepare", "plain", "commit"}
    BY <1>2 DEF Writes
  <1> QED
    BY <1>1, <1>2, <1>3, <1>5, <1>6

LInv == CInv /\ OnlyCommitReported /\ SuccessMeansCommitted

(* A value that is no premature lookup may follow. *)
LEMMA ReportedAppend ==
    ASSUME LInv, NEW x \in Values, Stream' = Append(Stream, x),
           x.kind = "lookup" => x.of = "commit"
    PROVE  OnlyCommitReported' /\ (x = Error => Failed')
  <1> DEFINE a == Append(Stream, x)
  <1>1. /\ Len(Stream) \in Nat /\ Len(a) = Len(Stream) + 1
        /\ a[Len(Stream) + 1] = x
        /\ \A i \in 1 .. Len(Stream) : a[i] = Stream[i]
    BY TraceTypes, AppendFacts DEF LInv
  <1>2. /\ OnlyCommitReported' <=> \A i \in 1 .. Len(a) :
              a[i].kind = "lookup" => a[i].of = "commit"
        /\ Failed' <=> \E i \in 1 .. Len(a) : a[i] = Error
    BY DEF OnlyCommitReported, Failed, Error
  <1> HIDE DEF a
  <1>3. \A i \in 1 .. Len(a) : i \in 1 .. Len(Stream) \/ i = Len(Stream) + 1
    BY <1>1
  <1>4. Len(Stream) + 1 \in 1 .. Len(a)
    BY <1>1
  <1>5. \A i \in 1 .. Len(Stream) :
           Stream[i].kind = "lookup" => Stream[i].of = "commit"
    BY DEF LInv, OnlyCommitReported
  <1> QED
    BY <1>1, <1>2, <1>3, <1>4, <1>5

(* A stream, a log and a close that stay. *)
LEMMA ReportedKept ==
    ASSUME LInv, Stream' = Stream, UNCHANGED params,
           closed' => closed /\ log' = log
    PROVE  OnlyCommitReported' /\ SuccessMeansCommitted'
  <1>1. OnlyCommitReported'
    BY DEF LInv, OnlyCommitReported
  <1>2. Failed' <=> Failed
    BY DEF Failed, Error
  <1> QED
    BY <1>1, <1>2 DEF LInv, SuccessMeansCommitted, params, Add

(* Every step reports the commit only, and success only after it. *)
LEMMA ReportedNext == Large /\ LInv /\ [Next]_vars => LInv'
  <1> SUFFICES ASSUME Large, LInv, [Next]_vars
               PROVE  OnlyCommitReported' /\ SuccessMeansCommitted'
    BY SteadyNext DEF LInv
  <1>0. CInv
    BY DEF LInv
  <1>1. ASSUME NEW r \in Reads,
               FirstReadFails(r) \/ FirstKeyFails(r) \/ Prepare(r)
        PROVE  OnlyCommitReported' /\ SuccessMeansCommitted'
    <2>1. /\ ~Started /\ got' = got
          /\ \/ chan' = <<Error>> \/ chan' = <<EmptyRead, Error>>
             \/ chan' \in {<< >>, <<EmptyRead>>} /\ closed' = closed
      BY <1>1 DEF FirstReadFails, FirstKeyFails, Prepare
    <2>2. got' = << >> /\ ~closed
      BY <1>0, <2>1, NotStarted
    <2>3. /\ <<Error>> \in Seq(Values) /\ <<EmptyRead, Error>> \in Seq(Values)
          /\ << >> \in Seq(Values) /\ <<EmptyRead>> \in Seq(Values)
      BY ValueTypes
    <2>4. Stream' = chan'
      BY <2>1, <2>2, <2>3, ConcatEmptySeq DEF Stream
    <2>5. Error.kind = "error" /\ EmptyRead.kind = "error"
      BY DEF Error, EmptyRead
    <2>6. \A i \in 1 .. Len(chan') : chan'[i].kind = "error"
      BY <2>1, <2>5
    <2>8. closed' => Failed'
      BY <1>0, <1>1, FirstFailed
    <2> QED
      BY <2>4, <2>6, <2>8 DEF OnlyCommitReported, SuccessMeansCommitted
  <1>2. CASE ChunkResult
    <2>1. /\ flight # NoWrite /\ got' = got /\ closed' = closed /\ log' = log
          /\ UNCHANGED params
          /\ \/ total_size = 0 /\ chan' = Append(chan, LookupOf(flight))
             \/ chan' = chan
      BY <1>2 DEF ChunkResult, PassedOn
    <2>2. CASE chan' = chan
      BY <2>1, <2>2, ReportedKept DEF Stream
    <2>3. CASE total_size = 0 /\ chan' = Append(chan, LookupOf(flight))
      <3> DEFINE x == LookupOf(flight)
      <3>1. flight.kind = "commit" /\ ~closed
        BY <1>0, <2>1, <2>3, OnlyCommitIsLast, InFlight
      <3>2. /\ x \in Values /\ x # Error /\ x.of = "commit"
        BY <1>0, <3>1, TraceTypes, ValueTypes DEF LookupOf
      <3>3. Stream' = Append(Stream, x)
        BY <1>0, <2>1, <2>3, <3>1, <3>2, StreamGrows
      <3> HIDE DEF x
      <3>4. OnlyCommitReported'
        BY <3>2, <3>3, ReportedAppend
      <3> QED
        BY <2>1, <3>1, <3>4 DEF SuccessMeansCommitted
    <2> QED
      BY <2>1, <2>2, <2>3
  <1>3. ASSUME flight # NoWrite, FailAndRelease
        PROVE  OnlyCommitReported' /\ SuccessMeansCommitted'
    <2>1. Stream' = Append(Stream, Error) /\ Error \in Values
          /\ Error.kind = "error"
      BY <1>0, <1>3, FailureSent, ValueTypes DEF Error
    <2>2. OnlyCommitReported' /\ Failed'
      BY <2>1, ReportedAppend
    <2> QED
      BY <2>2 DEF SuccessMeansCommitted
  <1>4. CASE LastChunkDone
    <2>1. /\ flight # NoWrite /\ total_size = 0 /\ log' = Append(log, flight)
          /\ chan' = chan /\ got' = got /\ UNCHANGED params
      BY <1>4 DEF LastChunkDone
    <2>2. /\ flight.kind = "commit" /\ pos = orig_total_size
          /\ flight.src + flight.len = pos /\ ~closed
      BY <1>0, <2>1, OnlyCommitIsLast, InFlight
    <2>3. flight.size = Add(initial_offset, orig_total_size)
      BY <1>0, <2>1, <2>2 DEF CInv, Steady, UnderWay, Counted
    <2>4. log' # << >> /\ log'[Len(log')] = flight
      BY <1>0, <2>1, TraceTypes, AppendFacts
    <2>5. OnlyCommitReported'
      BY <2>1 DEF LInv, OnlyCommitReported, Stream
    <2> QED
      BY <2>1, <2>2, <2>3, <2>4, <2>5 DEF SuccessMeansCommitted, params, Add
  <1>5. ASSUME NEW r \in Reads, NextChunk(r)
        PROVE  OnlyCommitReported' /\ SuccessMeansCommitted'
    <2>1. flight # NoWrite /\ UNCHANGED params /\ closed' = closed
          /\ chan' = chan /\ got' = got
      BY <1>5 DEF NextChunk, sink
    <2>2. ~closed
      BY <1>0, <2>1, InFlight
    <2> QED
      BY <2>1, <2>2, ReportedKept DEF Stream
  <1>6. CASE Receive
    BY <1>0, <1>6, ReceiveFacts, ReportedKept
  <1>7. CASE SeeEnd \/ UNCHANGED vars
    BY <1>7, ReportedKept DEF SeeEnd, vars, sink, Stream
  <1> QED
    BY <1>1, <1>2, <1>3, <1>4, <1>5, <1>6, <1>7
    DEF Next, Begin, ChunkFinish, ChunkFails, NextReadFails, NextKeyFails

(* Nothing is reported at first. *)
LEMMA ReportedInit == Init => LInv
  <1> SUFFICES ASSUME Init PROVE LInv
    OBVIOUS
  <1>1. Stream = << >> /\ ~closed
    BY DEF Init, Stream
  <1> QED
    BY <1>1, SteadyInit DEF LInv, OnlyCommitReported, SuccessMeansCommitted

(* For objects larger than one chunk: no write but the commit is ever      *)
(* reported to the caller, and a call that ends without an error has       *)
(* committed all of total_size, even if the reader has more than that      *)
(* (onChunkResult, onChunkFinish).                                         *)
THEOREM ReportsAreTrue == Large => (Spec => []LInv)
  <1> SUFFICES ASSUME Large PROVE Spec => []LInv
    OBVIOUS
  <1>1. LInv /\ [Next]_vars => LInv'
    BY ReportedNext
  <1> QED
    BY <1>1, ReportedInit, PTL DEF Spec

(* Only the commit is reported, for objects larger than one chunk.         *)
THEOREM CommitOnly == Large => (Spec => []OnlyCommitReported)
  <1>1. LInv => OnlyCommitReported
    BY DEF LInv
  <1> SUFFICES ASSUME Large PROVE Spec => []OnlyCommitReported
    OBVIOUS
  <1>2. Spec => []LInv
    BY ReportsAreTrue
  <1> QED
    BY <1>1, <1>2, PTL

(* Success means that the whole object is committed, for objects larger    *)
(* than one chunk.                                                         *)
THEOREM SuccessIsCommitted == Large => (Spec => []SuccessMeansCommitted)
  <1>1. LInv => SuccessMeansCommitted
    BY DEF LInv
  <1> SUFFICES ASSUME Large PROVE Spec => []SuccessMeansCommitted
    OBVIOUS
  <1>2. Spec => []LInv
    BY ReportsAreTrue
  <1> QED
    BY <1>1, <1>2, PTL

=============================================================================
