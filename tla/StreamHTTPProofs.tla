-------------------------- MODULE StreamHTTPProofs --------------------------
(***************************************************************************)
(* Proofs about StreamHTTP, for every chunk size, word, set of requests    *)
(* and bound: the response is a contiguous piece of the record, within and *)
(* in the end equal to what was announced, which is what was asked for.    *)
(***************************************************************************)
EXTENDS StreamHTTP, TLAPS

---------------------------------------------------------------------------
(* Arithmetic modulo Word *)

(* A number below the modulus is its own remainder, and so is what it has  *)
(* beyond the modulus: no wrap, and one wrap.                              *)
LEMMA ModSmall ==
    ASSUME NEW w \in Nat \ {0}, NEW x \in 0 .. w - 1
    PROVE  x % w = x /\ (w + x) % w = x
  BY SMTT(30)

(* A remainder is a word.                                                 *)
LEMMA ModRange ==
    ASSUME NEW w \in Nat \ {0}, NEW x \in Nat
    PROVE  x % w \in 0 .. w - 1
  BY SMTT(30)

(* Minus is the difference where there is one, and a word in any case.     *)
LEMMA MinusFacts ==
    ASSUME NEW a \in 0 .. Word - 1, NEW b \in 0 .. Word - 1
    PROVE  /\ Minus(a, b) \in 0 .. Word - 1
           /\ b <= a => Minus(a, b) = a - b
  <1>1. Word \in Nat \ {0} /\ a + Word - b \in Nat
    BY SizesAssumption
  <1>2. Minus(a, b) \in 0 .. Word - 1
    BY <1>1, ModRange DEF Minus
  <1>3. ASSUME b <= a PROVE Minus(a, b) = a - b
    <2>1. a - b \in 0 .. Word - 1 /\ a + Word - b = Word + (a - b)
      BY <1>1, <1>3
    <2>2. (Word + (a - b)) % Word = a - b
      BY <1>1, <2>1, ModSmall
    <2> QED
      BY <2>1, <2>2 DEF Minus
  <1> QED
    BY <1>2, <1>3

---------------------------------------------------------------------------
(* One good result *)

(* The corrected size is a word again, wrapped or not. *)
LEMMA SizeToSendType ==
    ASSUME TypeOK
    PROVE  /\ Minus(length, offset) \in 0 .. Word - 1
           /\ SizeToSend \in 0 .. Word - 1
  <1>1. length \in 0 .. Word - 1 /\ offset \in 0 .. Word - 1
    BY SizesAssumption DEF TypeOK
  <1>2. Minus(length, offset) \in 0 .. Word - 1
    BY <1>1, MinusFacts
  <1> QED
    BY <1>2 DEF SizeToSend, TypeOK

(* The bytes of a result: how many, where they are from, and what is       *)
(* appended to the body.                                                   *)
LEMMA ResultBytes ==
    ASSUME TypeOK, NEW n \in 0 .. MaxChunk, GoodResult(n)
    PROVE  /\ n <= chunk
           /\ n > 0 => n <= length - offset
           /\ offset' = offset + n
           /\ body' \in Seq(0 .. MaxLength - 1)
           /\ Len(body') = Len(body) + n
           /\ \A i \in 1 .. Len(body) : body'[i] = body[i]
           /\ \A i \in Len(body) + 1 .. Len(body) + n :
                 body'[i] = offset + (i - Len(body)) - 1
  <1> DEFINE new == [i \in 1 .. n |-> offset + i - 1]
  <1>1. /\ chunk \in 0 .. MaxChunk /\ offset \in 0 .. Word - 1
        /\ length \in 0 .. MaxLength /\ body \in Seq(0 .. MaxLength - 1)
        /\ MaxLength < Word /\ Word \in Nat \ {0} /\ MaxChunk \in Nat
        /\ MaxLength \in Nat /\ n \in Nat
    BY SizesAssumption DEF TypeOK
  <1>2. n <= chunk /\ (n > 0 => n <= length - offset)
    BY <1>1 DEF GoodResult
  <1>3. offset + n \in 0 .. Word - 1
    BY <1>1, <1>2
  <1>4. offset' = offset + n
    BY <1>1, <1>3, ModSmall DEF GoodResult, NextOffset
  <1>5. new \in Seq(0 .. MaxLength - 1) /\ Len(new) = n
    BY <1>1, <1>2
  <1>6. body' = body \o new
    BY DEF GoodResult
  <1>7. body' \in Seq(0 .. MaxLength - 1) /\ Len(body') = Len(body) + n
    BY <1>1, <1>5, <1>6
  <1>8. \A i \in 1 .. Len(body) : body'[i] = body[i]
    BY <1>1, <1>5, <1>6
  <1>9. ASSUME NEW i \in Len(body) + 1 .. Len(body) + n
        PROVE  body'[i] = offset + (i - Len(body)) - 1
    <2>1. i - Len(body) \in 1 .. n
      BY <1>1
    <2>2. body'[i] = new[i - Len(body)]
      BY <1>1, <1>5, <1>6, <2>1
    <2> QED
      BY <2>1, <2>2
  <1> QED
    BY <1>2, <1>4, <1>7, <1>8, <1>9

(* The balance after a result of n bytes, of which rest were to be sent    *)
(* when it came: nothing wraps, since a chunk is never more than the rest. *)
LEMMA ResultBalance ==
    ASSUME TypeOK, Paced, NEW n \in 0 .. MaxChunk, GoodResult(n),
           NEW rest, rest = IF offset = req.offset THEN SizeToSend ELSE size
    PROVE  /\ rest \in 0 .. Word - 1
           /\ n <= rest
           /\ size' = rest - n
           /\ pc' = IF rest = n THEN "done" ELSE "ask"
  <1>1. /\ size \in 0 .. Word - 1 /\ chunk \in Nat /\ n \in Nat
        /\ length \in 0 .. Word - 1 /\ offset \in 0 .. Word - 1
        /\ Word \in Nat /\ length \in Nat /\ offset \in Nat
        /\ n \in 0 .. Word - 1
    BY SizesAssumption DEF TypeOK
  <1>2. rest \in 0 .. Word - 1
    BY <1>1, SizeToSendType
  <1>3. n <= chunk /\ (n > 0 => n <= length - offset)
    BY ResultBytes
  <1>4. pc = "range" /\ (size # 0 => chunk <= size)
    BY DEF GoodResult, Paced, ChunkFits
  <1>5. n <= rest
    <2>1. CASE offset = req.offset
      <3>1. offset <= length => Minus(length, offset) = length - offset
        BY <1>1, MinusFacts
      <3>2. n > 0 => offset <= length
        BY <1>1, <1>3
      <3>3. Minus(length, offset) \in Nat
        BY SizeToSendType
      <3> QED
        BY <2>1, <1>1, <1>3, <1>4, <3>1, <3>2, <3>3 DEF SizeToSend
    <2>2. CASE offset # req.offset
      <3>1. body # << >>
        BY <2>2, <1>1, RequestsAssumption DEF TypeOK, Paced, InPlace
      <3>2. size # 0
        BY <3>1, <1>4 DEF TypeOK, Paced, ChunkFits
      <3> QED
        BY <2>2, <1>1, <1>3, <1>4, <3>2
    <2> QED
      BY <2>1, <2>2
  <1>6. size' = Minus(rest, n) /\ pc' = After(n, Minus(rest, n))
    BY DEF GoodResult
  <1>7. Minus(rest, n) = rest - n
    BY <1>1, <1>2, <1>5, MinusFacts
  <1> QED
    BY <1>1, <1>2, <1>5, <1>6, <1>7 DEF After

---------------------------------------------------------------------------
(* The invariant *)

(* At the start nothing has been sent. *)
LEMMA InitPaced == Init => TypeOK /\ Paced
  <1> SUFFICES ASSUME Init PROVE TypeOK /\ Paced
    OBVIOUS
  <1>1. /\ req \in Requests /\ req.offset \in 0 .. Word - 1
        /\ req.size \in 0 .. Word - 1
    BY RequestsAssumption DEF Init
  <1>2. TypeOK
    BY <1>1, SizesAssumption DEF Init, TypeOK, NoHeader
  <1>3. Paced
    BY <1>1, SizesAssumption DEF Init, Paced, InPlace, ChunkFits, Balance, NoHeader
  <1> QED
    BY <1>2, <1>3

(* NewKey sends nothing. *)
LEMMA BeginPaced ==
    ASSUME TypeOK, Paced, Begin PROVE TypeOK' /\ Paced'
  <1>1. PICK made \in BOOLEAN : MakeKey(made)
    BY DEF Begin
  <1>2. TypeOK'
    BY <1>1 DEF MakeKey, TypeOK
  <1>3. InPlace' /\ ChunkFits'
    BY <1>1 DEF MakeKey, Paced, InPlace, ChunkFits
  <1>4. Balance'
    BY <1>1 DEF MakeKey, Paced, InPlace, Balance, Wanted
  <1> QED
    BY <1>2, <1>3, <1>4 DEF Paced

(* Asking fixes the chunk: no more than the maximum, and than the rest if  *)
(* there is a known one.                                                   *)
LEMMA AskPaced ==
    ASSUME TypeOK, Paced, Ask PROVE TypeOK' /\ Paced'
  <1>1. ChunkSize \in 0 .. MaxChunk /\ (size # 0 => ChunkSize <= size)
    BY SizesAssumption DEF TypeOK, ChunkSize
  <1>2. TypeOK'
    BY <1>1 DEF Ask, TypeOK
  <1>3. InPlace' /\ ChunkFits'
    BY <1>1 DEF Ask, Paced, InPlace, ChunkFits
  <1>4. Balance'
    BY DEF Ask, Paced, Balance, Wanted
  <1> QED
    BY <1>2, <1>3, <1>4 DEF Paced

(* A good result, the one step that moves the position. *)
LEMMA GoodResultPaced ==
    ASSUME TypeOK, Paced, NEW n \in 0 .. MaxChunk, GoodResult(n)
    PROVE  TypeOK' /\ Paced'
  <1> DEFINE first == offset = req.offset
             rest == IF first THEN SizeToSend ELSE size
  <1>1. /\ size \in 0 .. Word - 1 /\ chunk \in Nat /\ n \in Nat
        /\ length \in 0 .. MaxLength /\ length \in Nat /\ MaxLength \in Nat
        /\ length \in 0 .. Word - 1 /\ offset \in 0 .. Word - 1
        /\ req \in Requests /\ req.offset \in 0 .. Word - 1
        /\ req.size \in 0 .. Word - 1 /\ Word \in Nat
        /\ body \in Seq(0 .. MaxLength - 1) /\ Len(body) \in Nat
        /\ header \in [sent : BOOLEAN, length : 0 .. Word - 1,
                       at : 0 .. MaxLength]
    BY SizesAssumption, RequestsAssumption DEF TypeOK
  <1>2. /\ rest \in 0 .. Word - 1 /\ n <= rest /\ size' = rest - n
        /\ pc' = IF rest = n THEN "done" ELSE "ask"
    BY ResultBalance
  <1> HIDE DEF first, rest
  <1>3. /\ n > 0 => n <= length - offset
        /\ offset' = offset + n
        /\ body' \in Seq(0 .. MaxLength - 1)
        /\ Len(body') = Len(body) + n
    BY ResultBytes
  <1>4. /\ header' = IF first /\ ~header.sent
                       THEN [sent |-> TRUE, length |-> rest, at |-> length]
                       ELSE header
        /\ req' = req /\ length' = length /\ rewrites' = rewrites
        /\ chunk' = chunk /\ last' = n /\ pc = "range"
    BY DEF GoodResult, first, rest
  <1>5. offset = req.offset + Len(body)
    BY DEF Paced, InPlace
  <1>6. header'.sent
    BY <1>1, <1>4, <1>5 DEF first, Paced, InPlace
  <1>7. TypeOK'
    <2>1. offset' \in 0 .. Word - 1
      BY <1>1, <1>3
    <2>2. size' \in 0 .. Word - 1 /\ pc' \in {"ask", "range", "done", "failed"}
      BY <1>1, <1>2
    <2>3. header' \in [sent : BOOLEAN, length : 0 .. Word - 1, at : 0 .. MaxLength]
      BY <1>1, <1>2, <1>4
    <2>4. chunk' \in 0 .. MaxChunk /\ last' \in 0 .. MaxChunk
      BY <1>4 DEF TypeOK
    <2> QED
      BY <1>1, <1>3, <1>4, <1>6, <2>1, <2>2, <2>3, <2>4 DEF TypeOK
  <1>8. InPlace'
    <2>1. offset' = req'.offset + Len(body')
      BY <1>1, <1>3, <1>4, <1>5, SMTT(30)
    <2>2. ASSUME NEW i \in DOMAIN body' PROVE body'[i] = req'.offset + i - 1
      <3>1. i \in 1 .. Len(body) + n
        BY <1>1, <1>3
      <3>2. CASE i \in 1 .. Len(body)
        <4>1. i \in DOMAIN body
          BY <3>2, <1>1
        <4>2. body[i] = req.offset + i - 1
          BY <4>1 DEF Paced, InPlace
        <4>3. body'[i] = body[i]
          BY <3>2, ResultBytes
        <4> QED
          BY <4>2, <4>3, <1>4
      <3>3. CASE i \in Len(body) + 1 .. Len(body) + n
        <4>1. body'[i] = offset + (i - Len(body)) - 1
          BY <3>3, ResultBytes
        <4>2. /\ i \in Int /\ Len(body) \in Int
              /\ offset \in Int /\ req.offset \in Int
          BY <3>3, <1>1
        <4>3. offset + (i - Len(body)) - 1 = req.offset + i - 1
          BY <4>2, <1>5
        <4> QED
          BY <4>1, <4>3, <1>4
      <3> QED
        BY <1>1, <3>1, <3>2, <3>3
    <2>3. pc' # "key"
      BY <1>2
    <2> QED
      BY <1>6, <2>1, <2>2, <2>3 DEF InPlace
  <1>9. ChunkFits'
    BY <1>1, <1>2 DEF ChunkFits
  <1>10. Balance'
    <2>1. CASE ~header.sent
      <3>1. first /\ Len(body) = 0 /\ size = req.size
        BY <2>1, <1>1, <1>5 DEF first, Paced, InPlace
      <3>2. header' = [sent |-> TRUE, length |-> rest, at |-> length]
        BY <2>1, <3>1, <1>4
      <3>3. Len(body') + size' = header'.length /\ header'.at = length'
        BY <1>1, <1>2, <1>3, <1>4, <3>1, <3>2
      <3>4. ASSUME req.offset <= length
            PROVE  /\ rest = Wanted(length)
                   /\ body' # << >> \/ pc' = "done"
        <4>1. Minus(length, offset) = length - req.offset
          BY <3>1, <3>4, <1>1, MinusFacts DEF first
        <4>2. rest = Wanted(length)
          BY <3>1, <4>1 DEF rest, SizeToSend, Wanted
        <4>3. CASE n = 0
          <5>1. offset >= length
            BY <4>3, <1>1 DEF GoodResult
          <5>2. length - req.offset = 0
            BY <3>1, <3>4, <5>1, <1>1 DEF first
          <5>3. rest = 0
            BY <4>2, <5>2, <1>1 DEF Wanted
          <5> QED
            BY <4>2, <4>3, <5>3, <1>2
        <4>4. CASE n # 0
          <5>1. Len(body') # 0
            BY <4>4, <1>1, <1>3
          <5> QED
            BY <4>2, <5>1
        <4> QED
          BY <4>2, <4>3, <4>4
      <3>5. /\ header'.length = rest /\ header'.at = length
            /\ \A l : Wanted(l)' = Wanted(l)
        BY <3>2, <1>4 DEF Wanted
      <3>6. Len(body') + size' <= header'.length
        BY <3>3, <3>5, <1>2
      <3> QED
        BY <3>3, <3>4, <3>5, <3>6, <1>4 DEF Balance
    <2>2. CASE header.sent
      <3>1. header' = header
        BY <2>2, <1>4
      <3>2. rest <= size
        <4>1. Minus(length, offset) \in Nat /\ size # 0
          BY <2>2, <1>4, SizeToSendType DEF Paced, ChunkFits
        <4> QED
          BY <4>1, <1>1 DEF rest, SizeToSend
      <3>3. Len(body') + size' <= header'.length
        BY <2>2, <3>1, <3>2, <1>1, <1>2, <1>3 DEF Paced, Balance
      <3>4. ASSUME req.offset <= header.at
            PROVE  /\ Len(body') + size' = header'.length
                   /\ header'.length = Wanted(header.at)
                   /\ body' # << >>
        <4>1. body # << >> /\ Len(body) + size = header.length
              /\ header.length = Wanted(header.at)
          BY <2>2, <3>4, <1>4 DEF Paced, Balance
        <4>2. Len(body) # 0
          BY <4>1, <1>1
        <4>3. rest = size
          BY <4>2, <1>1, <1>5 DEF first, rest
        <4>4. Len(body') + size' = header.length /\ Len(body') # 0
          BY <4>1, <4>2, <4>3, <1>1, <1>2, <1>3
        <4> QED
          BY <4>1, <4>4, <3>1
      <3> QED
        BY <2>2, <3>1, <3>3, <3>4, <1>4 DEF Paced, Balance, Wanted
    <2> QED
      BY <2>1, <2>2
  <1> QED
    BY <1>7, <1>8, <1>9, <1>10 DEF Paced

(* The steps that move nothing: a read that fails, and other clients. *)
LEMMA OtherPaced ==
    ASSUME TypeOK, Paced,
           NoGoodResult \/ (\E l \in 0 .. MaxLength : Rewrite(l)) \/ UNCHANGED vars
    PROVE  TypeOK' /\ Paced'
  <1>1. CASE NoGoodResult
    <2>1. TypeOK'
      BY <1>1 DEF NoGoodResult, TypeOK
    <2>2. InPlace' /\ ChunkFits'
      BY <1>1 DEF NoGoodResult, Paced, InPlace, ChunkFits
    <2>3. Balance'
      BY <1>1 DEF NoGoodResult, Paced, Balance, Wanted
    <2> QED
      BY <2>1, <2>2, <2>3 DEF Paced
  <1>2. CASE \E l \in 0 .. MaxLength : Rewrite(l)
    <2>1. PICK l \in 0 .. MaxLength : Rewrite(l)
      BY <1>2
    <2>2. TypeOK' /\ rewrites' # 0
      BY <2>1, SizesAssumption DEF Rewrite, TypeOK
    <2>3. InPlace' /\ ChunkFits'
      BY <2>1 DEF Rewrite, Paced, InPlace, ChunkFits
    <2>4. Balance'
      BY <2>1, <2>2 DEF Rewrite, Paced, Balance, Wanted
    <2> QED
      BY <2>2, <2>3, <2>4 DEF Paced
  <1>3. CASE UNCHANGED vars
    BY <1>3 DEF vars, TypeOK, Paced, InPlace, ChunkFits, Balance, Wanted
  <1> QED
    BY <1>1, <1>2, <1>3

(* Every step of the loop and of other clients keeps the invariant. *)
LEMMA NextPaced == TypeOK /\ Paced /\ [Next]_vars => TypeOK' /\ Paced'
  <1> SUFFICES ASSUME TypeOK, Paced, [Next]_vars PROVE TypeOK' /\ Paced'
    OBVIOUS
  <1>1. CASE Ask
    BY <1>1, AskPaced
  <1>2. CASE Read
    BY <1>2, GoodResultPaced, OtherPaced DEF Read
  <1>3. CASE \E l \in 0 .. MaxLength : Rewrite(l)
    BY <1>3, OtherPaced
  <1>4. CASE Returned \/ UNCHANGED vars
    BY <1>4, OtherPaced DEF Returned
  <1>5. CASE Begin
    BY <1>5, BeginPaced
  <1> QED
    BY <1>1, <1>2, <1>3, <1>4, <1>5 DEF Next

---------------------------------------------------------------------------
(* The theorems *)

(* The inductive invariant holds: the position is where the body ends, a   *)
(* chunk fits what is left, sent and left make up what was announced.      *)
THEOREM Pacing == Spec => [](TypeOK /\ Paced)
  <1> QED
    BY InitPaced, NextPaced, PTL DEF Spec

(* Every variable of StreamHTTP keeps its type, and nothing is written     *)
(* before the header.                                                      *)
THEOREM HTTPTypeCorrect == Spec => []TypeOK
  <1> QED
    BY Pacing, PTL

(* The response is one contiguous piece of the record, from the requested  *)
(* offset on, whatever the sizes of the chunks and however often the       *)
(* record is rewritten.                                                    *)
THEOREM Contiguous == Spec => []BodyIsContiguous
  <1>1. TypeOK /\ Paced => BodyIsContiguous
    <2> SUFFICES ASSUME TypeOK, Paced PROVE BodyIsContiguous
      OBVIOUS
    <2>1. /\ offset = req.offset + Len(body)
          /\ \A i \in DOMAIN body : body[i] = req.offset + i - 1
      BY DEF Paced, InPlace
    <2>2. offset % Word = offset
      BY SizesAssumption, ModSmall DEF TypeOK
    <2> QED
      BY <2>1, <2>2 DEF BodyIsContiguous
  <1> QED
    BY <1>1, Pacing, PTL

(* The body is never longer than its Content-Length. *)
THEOREM NeverTooLong == Spec => []WithinAnnounced
  <1>1. TypeOK /\ Paced => WithinAnnounced
    <2> SUFFICES ASSUME TypeOK, Paced, header.sent
                 PROVE  Len(body) <= header.length
      BY DEF WithinAnnounced
    <2>1. Len(body) \in Nat /\ size \in Nat /\ header.length \in Int
      BY SizesAssumption DEF TypeOK
    <2>2. Len(body) + size <= header.length
      BY DEF Paced, Balance
    <2> QED
      BY <2>1, <2>2
  <1> QED
    BY <1>1, Pacing, PTL

(* A request that begins within the record and succeeds has been sent all  *)
(* that was announced.                                                     *)
THEOREM Whole == Spec => []SuccessIsWhole
  <1>1. TypeOK /\ Paced => SuccessIsWhole
    <2> SUFFICES ASSUME TypeOK, Paced, pc = "done", req.offset <= header.at
                 PROVE  Len(body) = header.length
      BY DEF SuccessIsWhole
    <2>1. header.sent /\ size = 0
      BY DEF Paced, InPlace, ChunkFits
    <2>2. Len(body) + size = header.length
      BY <2>1 DEF Paced, Balance
    <2>3. Len(body) \in Nat
      BY DEF TypeOK
    <2> QED
      BY <2>1, <2>2, <2>3
  <1> QED
    BY <1>1, Pacing, PTL

(* If nobody rewrites the record, a successful response within it is       *)
(* exactly the range asked for.                                            *)
THEOREM Exact == Spec => []ExactRange
  <1>1. TypeOK /\ Paced => ExactRange
    <2> SUFFICES ASSUME TypeOK, Paced, pc = "done", rewrites = 0,
                        req.offset <= length
                 PROVE  Len(body) = Wanted(length)
      BY DEF ExactRange
    <2>1. header.sent /\ size = 0
      BY DEF Paced, InPlace, ChunkFits
    <2>2. header.at = length
      BY <2>1 DEF Paced, Balance
    <2>3. Len(body) + size = header.length /\ header.length = Wanted(length)
      BY <2>1, <2>2 DEF Paced, Balance
    <2>4. Len(body) \in Nat
      BY DEF TypeOK
    <2> QED
      BY <2>1, <2>3, <2>4
  <1> QED
    BY <1>1, Pacing, PTL

(* Once the length is known, no chunk of a record nobody rewrites reaches  *)
(* beyond its end.                                                         *)
THEOREM NeverPastEnd == Spec => []AsksWithin
  <1>1. TypeOK /\ Paced => AsksWithin
    <2> SUFFICES ASSUME TypeOK, Paced, pc = "range", header.sent, rewrites = 0,
                        req.offset < length
                 PROVE  offset + chunk <= length
      BY DEF AsksWithin
    <2>1. /\ Len(body) \in Nat /\ size \in Nat /\ length \in Nat
          /\ chunk \in Nat /\ req.offset \in Nat /\ req.size \in Nat
      BY SizesAssumption, RequestsAssumption DEF TypeOK
    <2>2. header.at = length /\ chunk <= size
      BY DEF Paced, Balance, ChunkFits
    <2>3. Len(body) + size = Wanted(length)
      BY <2>1, <2>2 DEF Paced, Balance
    <2>4. Wanted(length) <= length - req.offset
      BY <2>1 DEF Wanted
    <2>5. offset = req.offset + Len(body)
      BY DEF Paced, InPlace
    <2> QED
      BY <2>1, <2>2, <2>3, <2>4, <2>5
  <1> QED
    BY <1>1, Pacing, PTL

=============================================================================
