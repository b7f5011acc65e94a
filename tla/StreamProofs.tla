---------------------------- MODULE StreamProofs ----------------------------
(***************************************************************************)
(* Proofs about the streams of AsyncOps: what a caller receives is its     *)
(* own, in order and complete, and every run of the machinery is a run of  *)
(* ResultStream.  They build on the soundness of the machinery itself,     *)
(* proved in AsyncOpsProofs.                                               *)
(***************************************************************************)
EXTENDS AsyncOpsProofs

---------------------------------------------------------------------------
(* Sequences *)

(* A value put into the channel is the new end of the stream. *)
LEMMA ConcatAppend ==
    ASSUME NEW T, NEW s \in Seq(T), NEW t \in Seq(T), NEW x \in T
    PROVE  s \o Append(t, x) = Append(s \o t, x)
  OBVIOUS

(* So is a value given to a function, while the channel is not used. *)
LEMMA AppendConcatEmpty ==
    ASSUME NEW T, NEW s \in Seq(T), NEW x \in T
    PROVE  Append(s, x) \o << >> = Append(s \o << >>, x)
  OBVIOUS

(* A receive moves the boundary within the stream, not the stream. *)
LEMMA MoveHead ==
    ASSUME NEW T, NEW s \in Seq(T), NEW t \in Seq(T), t # << >>
    PROVE  /\ Append(s, Head(t)) \o Tail(t) = s \o t
           /\ Len(Append(s, Head(t))) = Len(s) + 1
           /\ Len(s) < Len(s \o t)
  OBVIOUS

(* What an appended value adds. *)
LEMMA HoldsAppend ==
    ASSUME NEW s \in Seq(Items), NEW item \in Items, NEW K
    PROVE  Holds(Append(s, item), K) <=> Holds(s, K) \/ item.kind \in K
  <1>1. /\ Len(Append(s, item)) = Len(s) + 1 /\ Len(s) \in Nat
        /\ Append(s, item)[Len(s) + 1] = item
        /\ \A i \in 1 .. Len(s) : Append(s, item)[i] = s[i]
    BY AppendProperties
  <1> DEFINE a == Append(s, item)
  <1> HIDE DEF a
  <1>2. Holds(a, K) => Holds(s, K) \/ item.kind \in K
    BY <1>1 DEF Holds, a
  <1>3. Holds(s, K) \/ item.kind \in K => Holds(a, K)
    BY <1>1 DEF Holds, a
  <1> QED
    BY <1>2, <1>3 DEF a

(* A stream without a closing value is made of results. *)
LEMMA NotClosing ==
    ASSUME NEW s \in Seq(Items), ~Holds(s, {"error", "status"})
    PROVE  \A i \in 1 .. Len(s) : s[i].kind = "result"
  <1> TAKE i \in 1 .. Len(s)
  <1>1. s[i] \in Items
    BY ElementOfSeq
  <1>2. s[i].kind \in {"result", "error", "status"}
    BY <1>1 DEF Items
  <1> QED
    BY <1>2 DEF Holds

(* The result of the next callback may follow. *)
LEMMA NumberedResult ==
    ASSUME NEW c, NEW s \in Seq(Items), NEW h \in Nat, NEW item \in Items,
           Numbered(s, c, h), ~Holds(s, {"error", "status"}),
           item.call = c, item.n = h + 1, item.kind = "result"
    PROVE  Numbered(Append(s, item), c, h + 1)
  <1> DEFINE a == Append(s, item)
  <1>1. /\ Len(a) = Len(s) + 1 /\ Len(s) \in Nat
        /\ a[Len(s) + 1] = item
        /\ \A i \in 1 .. Len(s) : a[i] = s[i]
    BY AppendProperties
  <1>2. \A i \in 1 .. Len(s) : s[i] \in Items /\ s[i].kind = "result"
    BY NotClosing, ElementOfSeq
  <1> HIDE DEF a
  <1>3. \A i \in 1 .. Len(a) :
           a[i].call = c /\ a[i].n \in 1 .. h + 1 /\ a[i].kind = "result"
    BY <1>1, <1>2 DEF Numbered, Items
  <1>4. \A i, j \in 1 .. Len(a) : i < j => a[i].n < a[j].n
    <2> SUFFICES ASSUME NEW i \in 1 .. Len(a), NEW j \in 1 .. Len(a), i < j
                 PROVE  a[i].n < a[j].n
      OBVIOUS
    <2>1. i \in 1 .. Len(s) /\ a[i] = s[i] /\ a[i].n <= h /\ a[i].n \in Nat
      BY <1>1, <1>2 DEF Numbered, Items
    <2> QED
      BY <1>1, <2>1 DEF Numbered
  <1> QED
    BY <1>3, <1>4 DEF Numbered, a

(* The closing value may follow. *)
LEMMA NumberedClosing ==
    ASSUME NEW c, NEW s \in Seq(Items), NEW h \in Nat, NEW item \in Items,
           Numbered(s, c, h), ~Holds(s, {"error", "status"}),
           item.call = c, item.n = h + 1, item.kind # "result"
    PROVE  Numbered(Append(s, item), c, h)
  <1> DEFINE a == Append(s, item)
  <1>1. /\ Len(a) = Len(s) + 1 /\ Len(s) \in Nat
        /\ a[Len(s) + 1] = item
        /\ \A i \in 1 .. Len(s) : a[i] = s[i]
    BY AppendProperties
  <1>2. \A i \in 1 .. Len(s) : s[i] \in Items /\ s[i].kind = "result"
    BY NotClosing, ElementOfSeq
  <1> HIDE DEF a
  <1>3. \A i \in 1 .. Len(a) :
           /\ a[i].call = c /\ a[i].n \in 1 .. h + 1
           /\ a[i].kind = "result" => a[i].n <= h
           /\ a[i].kind # "result" => i = Len(a)
    BY <1>1, <1>2 DEF Numbered, Items
  <1>4. \A i, j \in 1 .. Len(a) : i < j => a[i].n < a[j].n
    <2> SUFFICES ASSUME NEW i \in 1 .. Len(a), NEW j \in 1 .. Len(a), i < j
                 PROVE  a[i].n < a[j].n
      OBVIOUS
    <2>1. i \in 1 .. Len(s) /\ a[i] = s[i] /\ a[i].n <= h /\ a[i].n \in Nat
      BY <1>1, <1>2 DEF Numbered, Items
    <2> QED
      BY <1>1, <2>1 DEF Numbered
  <1> QED
    BY <1>3, <1>4 DEF Numbered, a

(* A result may be left out. *)
LEMMA NumberedMore ==
    ASSUME NEW c, NEW s \in Seq(Items), NEW h \in Nat, Numbered(s, c, h)
    PROVE  Numbered(s, c, h + 1)
  BY ElementOfSeq DEF Numbered, Items

(* Appending loses no result, and adds the one appended. *)
LEMMA AllThereAppend ==
    ASSUME NEW s \in Seq(Items), NEW h \in Nat, NEW item \in Items,
           AllThere(s, h)
    PROVE  /\ AllThere(Append(s, item), h)
           /\ item.kind = "result" /\ item.n = h + 1 =>
                 AllThere(Append(s, item), h + 1)
  <1> DEFINE a == Append(s, item)
  <1>1. /\ Len(a) = Len(s) + 1 /\ Len(s) \in Nat
        /\ a[Len(s) + 1] = item
        /\ \A i \in 1 .. Len(s) : a[i] = s[i]
    BY AppendProperties
  <1> HIDE DEF a
  <1>2. AllThere(a, h)
    BY <1>1 DEF AllThere
  <1>3. ASSUME item.kind = "result", item.n = h + 1
        PROVE  AllThere(a, h + 1)
    <2>1. \A n \in 1 .. h + 1 : n \in 1 .. h \/ n = h + 1
      OBVIOUS
    <2>2. Len(s) + 1 \in 1 .. Len(a)
      BY <1>1
    <2> QED
      BY <1>1, <1>2, <1>3, <2>1, <2>2 DEF AllThere
  <1> QED
    BY <1>2, <1>3 DEF a

---------------------------------------------------------------------------
(* What a step does to a stream *)

SInv == IInv /\ Flowing

(* The types of a call's part of the state. *)
LEMMA StreamTypes ==
    ASSUME IInv, NEW c \in Calls
    PROVE  /\ got[c] \in Seq(Items) /\ chan[c] \in Seq(Items)
           /\ Stream(c) \in Seq(Items)
           /\ Len(got[c]) \in Nat /\ Len(chan[c]) \in Nat
           /\ Len(Stream(c)) = Len(got[c]) + Len(chan[c])
           /\ nresults[c] \in Nat
           /\ cb[c] \in Callbacks /\ cb[c].to = c
           /\ closed[c] \in BOOLEAN
           /\ method[c].sink \in {"chan", "func"}
           /\ Volume \in Nat \ {0}
  <1>1. /\ got[c] \in Seq(Items) /\ chan[c] \in Seq(Items)
        /\ nresults[c] \in Nat /\ cb[c] \in Callbacks
        /\ closed[c] \in BOOLEAN
    BY DEF IInv, TypeOK
  <1>2. cb[c].to = c
    BY DEF IInv, Sound, Stage
  <1>3. method[c].sink \in {"chan", "func"}
    BY MethodFacts DEF IInv, WellFormed
  <1> QED
    BY <1>1, <1>2, <1>3, ConcatProperties, LenProperties, BoundsAssumption
    DEF Stream

(* Handled is a number, and one less than nresults during a result. *)
LEMMA HandledType ==
    ASSUME SInv, NEW c \in Calls
    PROVE  /\ Handled(c) \in Nat
           /\ Handled(c) <= MaxResults + MaxEarly
           /\ InResult(c) => nresults[c] = Handled(c) + 1
           /\ ~InResult(c) => nresults[c] = Handled(c)
           /\ MaxResults \in Nat /\ MaxEarly \in Nat
  <1>1. nresults[c] \in Nat /\ MaxResults \in Nat /\ MaxEarly \in Nat
    BY StreamTypes, BoundsAssumption DEF SInv
  <1>2. /\ InResult(c) => nresults[c] > 0
        /\ nresults[c] <= MaxResults + MaxEarly
    BY DEF SInv, Flowing, Streamed
  <1> QED
    BY <1>1, <1>2 DEF Handled

(* A step that leaves c's stream and its closing alone. *)
LEMMA KeepStream ==
    ASSUME SInv, NEW c \in Calls, method' = method, Stream(c)' = Stream(c),
           method[c].sink = "func" => chan'[c] = << >>,
           nresults'[c] = nresults[c],
           cb'[c].step # "idle" /\ cb'[c].role = "result" <=>
               cb[c].step # "idle" /\ cb[c].role = "result",
           closed'[c] = closed[c], lib'[c] = lib[c],
           PastAnswer(c) => PastAnswer(c)',
           PastAnswer(c)' => PastAnswer(c) \/ lib[c] # "failed"
    PROVE  Streamed(c)'
  <1>1. Streamed(c)
    BY DEF SInv, Flowing
  <1>2. InResult(c)' <=> InResult(c)
    BY DEF InResult
  <1>3. Handled(c)' = Handled(c)
    BY <1>2 DEF Handled
  <1>4. Truthful(c)'
    BY <1>1 DEF Streamed, Truthful
  <1> QED
    BY <1>1, <1>2, <1>3, <1>4 DEF Streamed

(* A send extends the stream by its value. *)
LEMMA DeliverAppends ==
    ASSUME SInv, NEW c \in Calls, NEW item \in Items, Deliver(c, item)
    PROVE  /\ Stream(c)' = Append(Stream(c), item)
           /\ method[c].sink = "func" =>
                 /\ chan'[c] = << >> /\ Len(got'[c]) = Len(got[c]) + 1
           /\ method[c].sink = "chan" => got'[c] = got[c]
           /\ \A d \in Calls \ {c} : chan'[d] = chan[d] /\ got'[d] = got[d]
  <1>1. /\ chan \in [Calls -> Seq(Items)] /\ got \in [Calls -> Seq(Items)]
        /\ method[c].sink \in {"chan", "func"}
    BY StreamTypes DEF SInv, IInv, TypeOK
  <1>2. CASE method[c].sink = "chan"
    <2>1. got' = got /\ chan' = [chan EXCEPT ![c] = Append(chan[c], item)]
      BY <1>2 DEF Deliver
    <2>2. Stream(c)' = got[c] \o Append(chan[c], item)
      BY <1>1, <2>1 DEF Stream
    <2>3. got[c] \o Append(chan[c], item) = Append(Stream(c), item)
      BY <1>1, ConcatAppend DEF Stream
    <2> QED
      BY <1>1, <1>2, <2>1, <2>2, <2>3
  <1>3. CASE method[c].sink = "func"
    <2>1. chan' = chan /\ got' = [got EXCEPT ![c] = Append(got[c], item)]
      BY <1>3 DEF Deliver
    <2>2. chan[c] = << >>
      BY <1>3 DEF SInv, Flowing, Streamed
    <2>3. Stream(c)' = Append(got[c], item) \o << >>
      BY <1>1, <2>1, <2>2 DEF Stream
    <2>4. Append(got[c], item) \o << >> = Append(Stream(c), item)
      BY <1>1, <2>2, AppendConcatEmpty DEF Stream
    <2>5. Len(got'[c]) = Len(got[c]) + 1
      BY <1>1, <2>1, AppendProperties
    <2> QED
      BY <1>1, <1>3, <2>1, <2>2, <2>3, <2>4, <2>5
  <1> QED
    BY <1>1, <1>2, <1>3

(* What Advance does to the callback of the call. *)
LEMMA AdvanceFacts ==
    ASSUME IInv, NEW c \in Calls,
           NEW step \in {"idle", "get", "send", "close", "delete"},
           Advance(c, step)
    PROVE  /\ cb'[c].step = step
           /\ step # "idle" => cb'[c].role = cb[c].role
  <1>1. cb \in [Calls -> Callbacks] /\ cb[c] \in Callbacks
    BY DEF IInv, TypeOK
  <1>2. cb'[c] = IF step = "idle" THEN NoCallback(c)
                                  ELSE [cb[c] EXCEPT !.step = step]
    BY <1>1 DEF Advance
  <1>3. /\ [cb[c] EXCEPT !.step = step].step = step
        /\ [cb[c] EXCEPT !.step = step].role = cb[c].role
        /\ NoCallback(c).step = "idle"
    BY <1>1 DEF Callbacks, NoCallback
  <1> QED
    BY <1>2, <1>3

(* The other calls' streams are left alone. *)
LEMMA OtherStreams ==
    ASSUME SInv, NEW c \in Calls, Step(c), NEW d \in Calls, d # c
    PROVE  /\ Streamed(d)'
           /\ chan'[d] = chan[d] /\ got'[d] = got[d]
           /\ closed'[d] = closed[d]
  <1>0. cb[c].to = c /\ IInv
    BY DEF SInv, IInv, Sound, Stage
  <1>1. chan'[d] = chan[d] /\ got'[d] = got[d] /\ nresults'[d] = nresults[d]
    <2>t. /\ chan \in [Calls -> Seq(Items)] /\ got \in [Calls -> Seq(Items)]
          /\ nresults \in [Calls -> Nat]
      BY <1>0 DEF IInv, TypeOK
    <2>1. CASE Caller(c)
      BY <2>t, <2>1 DEF Caller, AllocContext, RejectError, RejectPanic,
         StoreContext, CallLibrary, IndexPanic, Return, Deliver, sinkVars
    <2>2. CASE Start(c)
      BY <2>t, <2>2 DEF Start, StartResult, StartFinalSomewhere, StartFinal,
         sinkVars
    <2>3. CASE Callback(c)
      BY <1>0, <2>t, <2>3 DEF Callback, Get, DropResult, Send, Close,
         DeleteContext, Deliver, sinkVars
    <2>4. CASE Reader(c) \/ Abandon(c)
      BY <2>t, <2>4 DEF Reader, Receive, SeeEnd, Abandon
    <2> QED
      BY <2>1, <2>2, <2>3, <2>4 DEF Step
  <1>2. /\ method' = method /\ cb'[d] = cb[d] /\ closed'[d] = closed[d]
        /\ lib'[d] = lib[d]
    BY <1>0, OthersUnchanged, Frames
  <1>3. method[d].sink = "func" => chan'[d] = << >>
    BY <1>1 DEF SInv, Flowing, Streamed
  <1>4. Stream(d)' = Stream(d) /\ (PastAnswer(d)' <=> PastAnswer(d))
    BY <1>1, <1>2 DEF Stream, PastAnswer
  <1> QED
    BY <1>1, <1>2, <1>3, <1>4, KeepStream

(* The goroutine inside the method. *)
LEMMA CallerStream ==
    ASSUME SInv, NEW c \in Calls, Caller(c)
    PROVE  Streamed(c)'
  <1>0. Streamed(c) /\ Stage(c)
    BY DEF SInv, Flowing, IInv, Sound
  <1>t. /\ closed \in [Calls -> BOOLEAN]
        /\ lib \in [Calls -> {"none", "open", "succeeded", "failed"}]
    BY DEF SInv, IInv, TypeOK
  <1>1. CASE RejectError(c)
    <2> DEFINE item == Item(c, "error")
    <2>1. /\ lib[c] = "none" /\ cb[c].step = "idle" /\ ~closed[c]
          /\ lib' = lib /\ cb' = cb /\ nresults' = nresults
          /\ method' = method /\ closed'[c]
      BY <1>0, <1>t, <1>1 DEF RejectError, Stage, BeforeLibrary, InLibrary, Ending
    <2>2. /\ Stream(c) \in Seq(Items) /\ Handled(c) \in Nat
          /\ ~InResult(c) /\ Handled(c) = nresults[c]
      BY <2>1, StreamTypes, HandledType DEF SInv, InResult
    <2>3. item \in Items /\ item.call = c /\ item.n = Handled(c) + 1
          /\ item.kind = "error"
      BY <2>2 DEF Item, Items
    <2>4. Stream(c)' = Append(Stream(c), item)
          /\ (method[c].sink = "func" => chan'[c] = << >>)
      BY <1>1, <2>3, DeliverAppends DEF RejectError
    <2>5. Stream(c) = << >>
      BY <1>0, <2>1 DEF Streamed, Truthful
    <2>6. ~Holds(Stream(c), {"error", "status"})
      BY <2>5 DEF Holds
    <2> HIDE DEF item
    <2>7. Numbered(Stream(c)', c, Handled(c))
      BY <1>0, <2>2, <2>3, <2>4, <2>6, NumberedClosing DEF Streamed
    <2>8. method[c].drops \/ AllThere(Stream(c)', Handled(c))
      BY <1>0, <2>2, <2>3, <2>4, AllThereAppend DEF Streamed
    <2>9. InResult(c)' = InResult(c) /\ Handled(c)' = Handled(c)
      BY <2>1 DEF InResult, Handled
    <2>10. Truthful(c)'
      BY <2>1 DEF Truthful, PastAnswer
    <2> QED
      BY <1>0, <2>1, <2>4, <2>7, <2>8, <2>9, <2>10 DEF Streamed
  <1>2. CASE ~RejectError(c)
    <2>1. /\ method' = method /\ cb' = cb /\ closed' = closed /\ chan' = chan
          /\ got' = got /\ nresults' = nresults
          /\ lib'[c] = lib[c] \/ lib'[c] = "open"
      BY <1>t, <1>2 DEF Caller, AllocContext, RejectPanic, StoreContext,
         CallLibrary, IndexPanic, Return, sinkVars
    <2>2. Stream(c)' = Stream(c) /\ (PastAnswer(c)' <=> PastAnswer(c))
          /\ Handled(c)' = Handled(c) /\ (InResult(c)' <=> InResult(c))
      BY <2>1 DEF Stream, PastAnswer, Handled, InResult
    <2>3. Truthful(c)'
      BY <1>0, <2>1, <2>2 DEF Streamed, Truthful
    <2> QED
      BY <1>0, <2>1, <2>2, <2>3 DEF Streamed
  <1> QED
    BY <1>1, <1>2

(* The library starts a callback. *)
LEMMA StartStream ==
    ASSUME SInv, NEW c \in Calls, Start(c)
    PROVE  Streamed(c)'
  <1>0. Streamed(c) /\ Stage(c)
    BY DEF SInv, Flowing, IInv, Sound
  <1>t. /\ lib \in [Calls -> {"none", "open", "succeeded", "failed"}]
        /\ nresults \in [Calls -> Nat] /\ cb \in [Calls -> Callbacks]
        /\ nresults[c] \in Nat /\ MaxResults \in Nat /\ MaxEarly \in Nat
    BY BoundsAssumption DEF SInv, IInv, TypeOK
  <1>1. /\ lib[c] = "open" /\ cb[c].step = "idle" /\ ~closed[c]
        /\ method' = method /\ closed' = closed /\ chan' = chan /\ got' = got
    BY <1>0 DEF Start, StartResult, StartFinalSomewhere, StartFinal, Stage,
       BeforeLibrary, InLibrary, Ending, callVars, sinkVars
  <1>2. /\ Stream(c)' = Stream(c) /\ ~PastAnswer(c) /\ ~InResult(c)
        /\ Handled(c) = nresults[c]
    BY <1>1 DEF Stream, PastAnswer, InResult, Handled
  <1>3. ~Holds(Stream(c), {"error", "status"})
    BY <1>0, <1>2 DEF Streamed, Truthful
  <1>4. ~Holds(Stream(c), {"error"})
    BY <1>3 DEF Holds
  <1>5. ASSUME NEW t \in Threads \cup {"caller"}, StartResult(c, t)
        PROVE  Streamed(c)'
    <2>1. /\ nresults'[c] = nresults[c] + 1 /\ lib' = lib
          /\ cb'[c].step = "get" /\ cb'[c].role = "result"
          /\ nresults[c] < MaxEarly \/ nresults[c] < MaxResults
      BY <1>t, <1>5 DEF StartResult, callVars
    <2>2. InResult(c)' /\ Handled(c)' = Handled(c)
      BY <1>t, <1>2, <2>1 DEF InResult, Handled
    <2>3. nresults'[c] > 0 /\ nresults'[c] <= MaxResults + MaxEarly
      BY <1>t, <2>1
    <2>4. Truthful(c)'
      BY <1>1, <1>2, <1>3, <2>1 DEF Truthful, PastAnswer
    <2> QED
      BY <1>0, <1>1, <1>2, <2>2, <2>3, <2>4 DEF Streamed
  <1>6. ASSUME NEW t \in Threads \cup {"caller"},
               NEW outcome \in {"succeeded", "failed"},
               StartFinal(c, t, outcome)
        PROVE  Streamed(c)'
    <2>1. /\ nresults' = nresults /\ lib'[c] = outcome
          /\ cb'[c].step = "get" /\ cb'[c].role = "final"
      BY <1>t, <1>6 DEF StartFinal
    <2>2. ~InResult(c)' /\ Handled(c)' = Handled(c)
      BY <1>t, <1>2, <2>1 DEF InResult, Handled
    <2>3. Truthful(c)'
      BY <1>1, <1>2, <1>3, <1>4, <2>1 DEF Truthful, PastAnswer
    <2> QED
      BY <1>0, <1>1, <1>2, <2>1, <2>2, <2>3 DEF Streamed
  <1> QED
    BY <1>5, <1>6 DEF Start, StartFinalSomewhere

(* The closure is found: onFinish with nothing to say goes to its close. *)
LEMMA GetStream ==
    ASSUME SInv, NEW c \in Calls, Get(c)
    PROVE  Streamed(c)'
  <1>t. cb \in [Calls -> Callbacks] /\ cb[c] \in Callbacks
    BY DEF SInv, IInv, TypeOK
  <1>1. /\ cb[c].step = "get" /\ method' = method /\ closed' = closed
        /\ chan' = chan /\ got' = got /\ nresults' = nresults /\ lib' = lib
    BY DEF Get, callVars, sinkVars
  <1>2. \/ cb'[c] = cb[c]
        \/ cb'[c].step = AfterGet(c) /\ cb'[c].role = cb[c].role
    <2> DEFINE e == pool[ctx[c][Slot(c)]].call
    <2>1. \/ cb' = cb
          \/ cb' = [cb EXCEPT ![c] = [cb[c] EXCEPT !.step = AfterGet(c),
                                                  !.to = e]]
      BY DEF Get
    <2> HIDE DEF e
    <2>2. \/ cb'[c] = cb[c]
          \/ cb'[c] = [cb[c] EXCEPT !.step = AfterGet(c), !.to = e]
      BY <1>t, <2>1
    <2> QED
      BY <1>t, <2>2 DEF Callbacks
  <1>3. /\ AfterGet(c) \in {"delete", "send", "close"}
        /\ AfterGet(c) = "close" => lib[c] # "failed"
    BY DEF AfterGet, HasAnswer
  <1>4. Stream(c)' = Stream(c)
    BY <1>1 DEF Stream
  <1>5. method[c].sink = "func" => chan'[c] = << >>
    BY <1>1 DEF SInv, Flowing, Streamed
  <1>6. /\ PastAnswer(c) => PastAnswer(c)'
        /\ PastAnswer(c)' => PastAnswer(c) \/ lib[c] # "failed"
    BY <1>1, <1>2, <1>3 DEF PastAnswer
  <1>7. cb'[c].step # "idle" /\ cb'[c].role = "result" <=>
            cb[c].step # "idle" /\ cb[c].role = "result"
    BY <1>1, <1>2, <1>3
  <1> QED
    BY <1>1, <1>4, <1>5, <1>6, <1>7, KeepStream

(* onResult returns without a value. *)
LEMMA DropStream ==
    ASSUME SInv, NEW c \in Calls, DropResult(c)
    PROVE  Streamed(c)'
  <1>0. Streamed(c) /\ IInv
    BY DEF SInv, Flowing
  <1>1. /\ cb[c].step = "send" /\ cb[c].role = "result" /\ method[c].drops
        /\ method' = method /\ closed' = closed /\ chan' = chan /\ got' = got
        /\ nresults' = nresults /\ lib' = lib /\ Advance(c, "idle")
    BY <1>0, StreamTypes DEF DropResult, callVars, sinkVars
  <1>2. cb'[c].step = "idle"
    BY <1>0, <1>1, AdvanceFacts
  <1>3. /\ InResult(c) /\ ~InResult(c)' /\ Handled(c) \in Nat
        /\ nresults[c] = Handled(c) + 1
    BY <1>1, <1>2, HandledType DEF InResult
  <1>4. Handled(c)' = Handled(c) + 1
    BY <1>1, <1>3 DEF Handled
  <1>5. Stream(c)' = Stream(c) /\ (PastAnswer(c)' <=> PastAnswer(c))
    BY <1>1, <1>2 DEF Stream, PastAnswer
  <1>6. Numbered(Stream(c)', c, Handled(c)')
    <2>1. Stream(c) \in Seq(Items) /\ Numbered(Stream(c), c, Handled(c))
      BY <1>0, StreamTypes DEF Streamed
    <2>2. Numbered(Stream(c), c, Handled(c) + 1)
      BY <1>3, <2>1, NumberedMore
    <2> QED
      BY <1>4, <1>5, <2>2
  <1>7. Truthful(c)'
    BY <1>0, <1>1, <1>5 DEF Streamed, Truthful
  <1> QED
    BY <1>0, <1>1, <1>3, <1>6, <1>7 DEF Streamed

(* The value a callback sends, and when it sends it. *)
SentItem(c) ==
    IF cb[c].role = "result"
      THEN [call |-> c, n |-> nresults[c], kind |-> "result"]
      ELSE Item(c, IF lib[c] = "failed" THEN "error" ELSE "status")

(* A send finds the channel open, extends the stream by a value with the   *)
(* next number, and finds no closing value there.                          *)
LEMMA SendFacts ==
    ASSUME SInv, NEW c \in Calls, Send(c)
    PROVE  /\ ~closed[c] /\ CanSend(c)
           /\ SentItem(c) \in Items
           /\ SentItem(c).call = c /\ SentItem(c).n = Handled(c) + 1
           /\ Deliver(c, SentItem(c))
           /\ Stream(c)' = Append(Stream(c), SentItem(c))
           /\ ~Holds(Stream(c), {"error", "status"})
           /\ method' = method /\ closed' = closed /\ lib' = lib
           /\ nresults' = nresults
           /\ \/ /\ cb[c].role = "result" /\ lib[c] = "open"
                 /\ SentItem(c).kind = "result" /\ cb'[c].step = "idle"
              \/ /\ cb[c].role = "final" /\ lib[c] \in {"succeeded", "failed"}
                 /\ SentItem(c).kind = (IF lib[c] = "failed" THEN "error"
                                                             ELSE "status")
                 /\ cb'[c].step = "close" /\ cb'[c].role = "final"
  <1>0. Streamed(c) /\ Stage(c) /\ IInv /\ cb[c].to = c
    BY StreamTypes DEF SInv, Flowing, IInv, Sound
  <1>t. /\ cb[c] \in Callbacks /\ nresults[c] \in Nat
        /\ lib[c] \in {"none", "open", "succeeded", "failed"}
        /\ closed[c] \in BOOLEAN
    BY <1>0 DEF IInv, TypeOK
  <1>1. cb[c].step = "send" /\ cb[c].role \in {"result", "final"}
    BY <1>t DEF Send, Callbacks
  <1>2. /\ ~closed[c]
        /\ \/ cb[c].role = "result" /\ lib[c] = "open"
           \/ cb[c].role = "final" /\ lib[c] \in {"succeeded", "failed"}
    BY <1>0, <1>1 DEF Stage, BeforeLibrary, InLibrary, Ending
  <1>3. /\ CanSend(c) /\ Deliver(c, SentItem(c)) /\ Advance(c, AfterSend(c))
        /\ method' = method /\ closed' = closed /\ lib' = lib
        /\ nresults' = nresults
    BY <1>0, <1>2 DEF Send, SentItem, callVars
  <1>4. SentItem(c) \in Items /\ SentItem(c).call = c
        /\ SentItem(c).kind = (IF cb[c].role = "result" THEN "result"
                               ELSE IF lib[c] = "failed" THEN "error"
                               ELSE "status")
        /\ SentItem(c).n = (IF cb[c].role = "result" THEN nresults[c]
                                                     ELSE nresults[c] + 1)
    BY <1>t DEF SentItem, Item, Items
  <1>5. SentItem(c).n = Handled(c) + 1
    BY <1>1, <1>2, <1>4, HandledType DEF InResult
  <1>6. Stream(c)' = Append(Stream(c), SentItem(c))
    BY <1>3, <1>4, DeliverAppends
  <1>7. ~Holds(Stream(c), {"error", "status"})
    BY <1>0, <1>1, <1>2 DEF Streamed, Truthful, PastAnswer
  <1>8. AfterSend(c) = (IF cb[c].role = "result" THEN "idle" ELSE "close")
    BY DEF AfterSend
  <1>9. /\ cb'[c].step = AfterSend(c)
        /\ AfterSend(c) # "idle" => cb'[c].role = cb[c].role
    BY <1>0, <1>3, <1>8, AdvanceFacts
  <1>10. \/ /\ cb[c].role = "result" /\ lib[c] = "open"
            /\ SentItem(c).kind = "result" /\ cb'[c].step = "idle"
         \/ /\ cb[c].role = "final" /\ lib[c] \in {"succeeded", "failed"}
            /\ SentItem(c).kind = (IF lib[c] = "failed" THEN "error"
                                                        ELSE "status")
            /\ cb'[c].step = "close" /\ cb'[c].role = "final"
    BY <1>2, <1>4, <1>8, <1>9
  <1> QED
    BY <1>2, <1>3, <1>4, <1>5, <1>6, <1>7, <1>10

(* A value is sent. *)
LEMMA SendStream ==
    ASSUME SInv, NEW c \in Calls, Send(c)
    PROVE  Streamed(c)'
  <1> DEFINE item == SentItem(c)
             s == Stream(c)
             h == Handled(c)
  <1>0. Streamed(c) /\ IInv
    BY DEF SInv, Flowing
  <1>1. /\ s \in Seq(Items) /\ h \in Nat /\ nresults[c] \in Nat
        /\ Numbered(s, c, h) /\ (method[c].drops \/ AllThere(s, h))
        /\ nresults[c] <= MaxResults + MaxEarly
    BY <1>0, StreamTypes, HandledType DEF Streamed
  <1>2. /\ item \in Items /\ item.call = c /\ item.n = h + 1
        /\ Stream(c)' = Append(s, item) /\ ~Holds(s, {"error", "status"})
        /\ method' = method /\ closed' = closed /\ lib' = lib
        /\ nresults' = nresults /\ Deliver(c, item) /\ ~closed[c]
    BY SendFacts
  <1>3. method[c].sink = "func" => chan'[c] = << >>
    BY <1>2, DeliverAppends
  <1>4. CASE /\ cb[c].role = "result" /\ lib[c] = "open"
             /\ item.kind = "result" /\ cb'[c].step = "idle"
    <2>1. InResult(c) /\ ~InResult(c)'
      BY <1>4 DEF InResult, Send
    <2>2. Handled(c)' = h + 1
      BY <1>2, <2>1, HandledType DEF Handled
    <2> HIDE DEF item, s, h
    <2>3. Numbered(Append(s, item), c, h + 1)
      BY <1>1, <1>2, <1>4, NumberedResult
    <2>4. method[c].drops \/ AllThere(Append(s, item), h + 1)
      BY <1>1, <1>2, <1>4, AllThereAppend
    <2>5. ~Holds(Append(s, item), {"error", "status"})
      BY <1>1, <1>2, <1>4, HoldsAppend
    <2>6. Truthful(c)'
      BY <1>2, <1>4, <2>5 DEF Truthful, PastAnswer
    <2> QED
      BY <1>1, <1>2, <1>3, <2>1, <2>2, <2>3, <2>4, <2>6 DEF Streamed
  <1>5. CASE /\ cb[c].role = "final" /\ lib[c] \in {"succeeded", "failed"}
             /\ item.kind = (IF lib[c] = "failed" THEN "error" ELSE "status")
             /\ cb'[c].step = "close" /\ cb'[c].role = "final"
    <2>1. ~InResult(c) /\ ~InResult(c)'
      BY <1>5 DEF InResult
    <2>2. Handled(c)' = h
      BY <1>2, <2>1, HandledType DEF Handled
    <2>3. PastAnswer(c)'
      BY <1>5 DEF PastAnswer
    <2>4. ~Holds(s, {"error"})
      BY <1>2 DEF Holds
    <2> HIDE DEF item, s, h
    <2>5. Numbered(Append(s, item), c, h)
      BY <1>1, <1>2, <1>5, NumberedClosing
    <2>6. method[c].drops \/ AllThere(Append(s, item), h)
      BY <1>1, <1>2, AllThereAppend
    <2>7. /\ lib[c] = "failed" => Holds(Append(s, item), {"error"})
          /\ lib[c] = "succeeded" => ~Holds(Append(s, item), {"error"})
      BY <1>1, <1>2, <1>5, <2>4, HoldsAppend
    <2>8. Truthful(c)'
      BY <1>2, <1>5, <2>3, <2>7 DEF Truthful
    <2> QED
      BY <1>1, <1>2, <1>3, <2>1, <2>2, <2>5, <2>6, <2>8 DEF Streamed
  <1> QED
    BY <1>4, <1>5, SendFacts

(* The close comes from onFinish, which is past its answer. *)
LEMMA CloseFacts ==
    ASSUME SInv, NEW c \in Calls, Close(c)
    PROVE  /\ ~closed[c] /\ PastAnswer(c)
           /\ closed' = [closed EXCEPT ![c] = TRUE]
           /\ cb[c].role = "final"
           /\ method' = method /\ lib' = lib /\ nresults' = nresults
           /\ chan' = chan /\ got' = got
           /\ cb'[c].step = "idle" \/ cb'[c].role = "final"
  <1>0. Stage(c) /\ IInv /\ cb[c].to = c
    BY StreamTypes DEF SInv, IInv, Sound
  <1>1. cb[c].step = "close" /\ ~closed[c] /\ cb[c].role = "final"
    BY <1>0 DEF Close, Stage, BeforeLibrary, InLibrary, Ending
  <1>2. /\ closed' = [closed EXCEPT ![c] = TRUE]
        /\ Advance(c, AfterClose(c))
        /\ method' = method /\ lib' = lib /\ nresults' = nresults
        /\ chan' = chan /\ got' = got
    BY <1>0, <1>1 DEF Close, callVars
  <1>3. AfterClose(c) \in {"idle", "delete"}
    BY DEF AfterClose
  <1> QED
    BY <1>0, <1>1, <1>2, <1>3, AdvanceFacts DEF PastAnswer

(* The channel is closed. *)
LEMMA CloseStream ==
    ASSUME SInv, NEW c \in Calls, Close(c)
    PROVE  Streamed(c)'
  <1>0. Streamed(c) /\ closed \in [Calls -> BOOLEAN]
    BY DEF SInv, Flowing, IInv, TypeOK
  <1>1. closed'[c] /\ PastAnswer(c)'
    BY <1>0, CloseFacts DEF PastAnswer
  <1>2. /\ Stream(c)' = Stream(c) /\ ~InResult(c) /\ ~InResult(c)'
        /\ method' = method /\ chan' = chan /\ nresults' = nresults
        /\ lib' = lib /\ PastAnswer(c)
    BY CloseFacts DEF Stream, InResult
  <1>3. Handled(c)' = Handled(c)
    BY <1>2 DEF Handled
  <1>4. Truthful(c)'
    BY <1>0, <1>1, <1>2 DEF Streamed, Truthful
  <1> QED
    BY <1>0, <1>2, <1>3, <1>4 DEF Streamed

(* onFinish deletes a context. *)
LEMMA DeleteStream ==
    ASSUME SInv, NEW c \in Calls, DeleteContext(c)
    PROVE  Streamed(c)'
  <1>0. Stage(c) /\ IInv /\ cb[c].to = c
    BY StreamTypes DEF SInv, IInv, Sound
  <1>1. /\ cb[c].step = "delete" /\ cb[c].role = "final"
        /\ closed[c] <=> ~method[c].deleteFirst
    BY <1>0 DEF DeleteContext, Stage, BeforeLibrary, InLibrary, Ending
  <1> DEFINE next == IF nfreed[c] + 1 < ToDelete(c) THEN "delete"
                                                   ELSE AfterDelete(c)
  <1>2. /\ Advance(c, next)
        /\ method' = method /\ lib' = lib /\ nresults' = nresults
        /\ chan' = chan /\ got' = got /\ closed' = closed
    BY <1>0 DEF DeleteContext, callVars, sinkVars
  <1>3. /\ next \in {"idle", "delete", "send", "close"}
        /\ next = "close" => lib[c] # "failed"
    BY DEF AfterDelete, HasAnswer
  <1> HIDE DEF next
  <1>4. cb'[c].step = next /\ (next # "idle" => cb'[c].role = "final")
    BY <1>0, <1>1, <1>2, <1>3, AdvanceFacts
  <1>5. Stream(c)' = Stream(c) /\ closed'[c] = closed[c]
    BY <1>2 DEF Stream
  <1>6. /\ PastAnswer(c) => PastAnswer(c)'
        /\ PastAnswer(c)' => PastAnswer(c) \/ lib[c] # "failed"
    BY <1>1, <1>3, <1>4, <1>5 DEF PastAnswer
  <1>7. method[c].sink = "func" => chan'[c] = << >>
    BY <1>2 DEF SInv, Flowing, Streamed
  <1>8. cb'[c].step # "idle" /\ cb'[c].role = "result" <=>
            cb[c].step # "idle" /\ cb[c].role = "result"
    BY <1>1, <1>4
  <1> QED
    BY <1>2, <1>5, <1>6, <1>7, <1>8, KeepStream

(* A receive leaves the stream as it is. *)
LEMMA ReceiveFacts ==
    ASSUME SInv, NEW c \in Calls, Receive(c)
    PROVE  /\ Stream(c)' = Stream(c) /\ Len(got'[c]) = Len(got[c]) + 1
           /\ Len(got[c]) < Len(Stream(c))
           /\ method[c].sink = "chan"
           /\ method' = method /\ lib' = lib /\ nresults' = nresults
           /\ closed' = closed /\ cb' = cb
           /\ \A d \in Calls \ {c} : got'[d] = got[d] /\ chan'[d] = chan[d]
  <1>t. /\ chan \in [Calls -> Seq(Items)] /\ got \in [Calls -> Seq(Items)]
        /\ chan[c] \in Seq(Items) /\ got[c] \in Seq(Items)
        /\ method[c].sink \in {"chan", "func"}
    BY StreamTypes DEF SInv, IInv, TypeOK
  <1>1. /\ chan[c] # << >>
        /\ got'[c] = Append(got[c], Head(chan[c]))
        /\ chan'[c] = Tail(chan[c])
        /\ method' = method /\ lib' = lib /\ nresults' = nresults
        /\ closed' = closed /\ cb' = cb
        /\ \A d \in Calls \ {c} : got'[d] = got[d] /\ chan'[d] = chan[d]
    BY <1>t DEF Receive, callVars
  <1>2. method[c].sink = "chan"
    BY <1>t, <1>1 DEF SInv, Flowing, Streamed
  <1>3. /\ Stream(c)' = Stream(c) /\ Len(got'[c]) = Len(got[c]) + 1
        /\ Len(got[c]) < Len(Stream(c))
    BY <1>t, <1>1, MoveHead DEF Stream
  <1> QED
    BY <1>1, <1>2, <1>3

(* The caller after the method returned. *)
LEMMA ReaderStream ==
    ASSUME SInv, NEW c \in Calls, Reader(c) \/ Abandon(c)
    PROVE  Streamed(c)'
  <1>1. CASE Receive(c)
    <2>1. PastAnswer(c)' <=> PastAnswer(c)
      BY <1>1, ReceiveFacts DEF PastAnswer
    <2> QED
      BY <1>1, <2>1, ReceiveFacts, KeepStream
  <1>2. CASE ~Receive(c)
    <2>1. /\ method' = method /\ lib' = lib /\ nresults' = nresults
          /\ closed' = closed /\ cb' = cb /\ chan' = chan /\ got' = got
      BY <1>2 DEF Reader, SeeEnd, Abandon, callVars
    <2>2. Stream(c)' = Stream(c) /\ (PastAnswer(c)' <=> PastAnswer(c))
      BY <2>1 DEF Stream, PastAnswer
    <2>3. method[c].sink = "func" => chan'[c] = << >>
      BY <2>1 DEF SInv, Flowing, Streamed
    <2> QED
      BY <2>1, <2>2, <2>3, KeepStream
  <1> QED
    BY <1>1, <1>2

---------------------------------------------------------------------------
(* The theorems *)

(* Nothing has been sent at first. *)
LEMMA FlowingInit == Init => Flowing
  <1> SUFFICES ASSUME Init, NEW c \in Calls
               PROVE  Streamed(c)
    BY DEF Flowing
  <1>1. /\ chan[c] = << >> /\ got[c] = << >> /\ nresults[c] = 0
        /\ lib[c] = "none" /\ cb[c].step = "idle" /\ ~closed[c]
    BY DEF Init, NoCallback
  <1>2. Stream(c) = << >> /\ ~InResult(c) /\ Handled(c) = 0
    BY <1>1 DEF Stream, InResult, Handled
  <1>3. Truthful(c)
    BY <1>1, <1>2 DEF Truthful, Holds
  <1>4. Numbered(Stream(c), c, Handled(c)) /\ AllThere(Stream(c), Handled(c))
    BY <1>2 DEF Numbered, AllThere
  <1>5. 0 <= MaxResults + MaxEarly
    BY BoundsAssumption
  <1> QED
    BY <1>1, <1>2, <1>3, <1>4, <1>5 DEF Streamed

(* A step that changes nothing keeps the streams. *)
LEMMA FlowingStutter == Flowing /\ UNCHANGED vars => Flowing'
  BY DEF Flowing, Streamed, Truthful, PastAnswer, Handled, InResult, Stream,
         vars, callVars, sinkVars

(* Every step keeps the streams. *)
LEMMA FlowingStep ==
    ASSUME SInv, NEW c \in Calls, Step(c)
    PROVE  Flowing'
  <1>1. Streamed(c)'
    BY CallerStream, StartStream, GetStream, DropStream, SendStream,
       CloseStream, DeleteStream, ReaderStream DEF Step, Callback
  <1> QED
    BY <1>1, OtherStreams DEF Flowing

(* In every reachable state each stream is numbered by the callbacks that  *)
(* have returned, complete, and closed by a value that tells the truth.    *)
THEOREM StreamsFlow == Spec => []SInv
  <1>1. Init => SInv
    BY TypeInit, SoundInit, FlowingInit DEF SInv, IInv
  <1>2. SInv /\ IInv' /\ [Next]_vars => SInv'
    <2> SUFFICES ASSUME SInv, IInv', [Next]_vars
                 PROVE  Flowing'
      BY DEF SInv
    <2>1. CASE UNCHANGED vars
      BY <2>1, FlowingStutter DEF SInv
    <2>2. ASSUME NEW c \in Calls, Step(c)
          PROVE  Flowing'
      BY <2>2, FlowingStep
    <2> QED
      BY <2>1, <2>2 DEF Next, Finished
  <1>3. TypeOK /\ Sound => IInv
    BY DEF IInv
  <1> QED
    BY <1>1, <1>2, <1>3, TypeCorrect, Soundness, PTL DEF Spec

(* A caller receives only its own values, in the order the library         *)
(* delivered them, and the closing value last (the closures onResult and   *)
(* onFinish of every Session method).                                      *)
THEOREM OwnInOrder == Spec => []OwnInOrderEndLast
  <1>1. SInv => OwnInOrderEndLast
    BY DEF SInv, Flowing, Streamed, Numbered, OwnInOrderEndLast
  <1> QED
    BY <1>1, StreamsFlow, PTL

(* A caller that reaches the end of a closed channel was told every result *)
(* (unless the method drops some) and an error exactly when the operation  *)
(* failed (the onFinish closures).                                         *)
THEOREM CloseFaithful == Spec => []CloseIsFaithful
  <1>1. SInv => CloseIsFaithful
    <2> SUFFICES ASSUME SInv, NEW c \in Calls, closed[c],
                        lib[c] \in {"succeeded", "failed"}
                 PROVE  /\ method[c].drops \/ AllThere(Stream(c), nresults[c])
                        /\ lib[c] = "failed" <=> Holds(Stream(c), {"error"})
      BY DEF CloseIsFaithful, AllThere, Holds
    <2>1. Streamed(c) /\ Stage(c)
      BY DEF SInv, Flowing, IInv, Sound
    <2>2. ~InResult(c)
      BY <2>1 DEF InResult, Stage, BeforeLibrary, InLibrary, Ending
    <2>3. Handled(c) = nresults[c] /\ PastAnswer(c)
      BY <2>2 DEF Handled, PastAnswer
    <2> QED
      BY <2>1, <2>3 DEF Streamed, Truthful
  <1> QED
    BY <1>1, StreamsFlow, PTL

---------------------------------------------------------------------------
(* The refinement of ResultStream *)

(* A stream has a closing value exactly when it holds an error or status. *)
LEMMA ConcludedHolds ==
    ASSUME IInv, NEW c \in Calls
    PROVE  Concluded(c) <=> Holds(Stream(c), {"error", "status"})
  <1>1. \A i \in 1 .. Len(Stream(c)) :
           Stream(c)[i].kind \in {"result", "error", "status"}
    <2> TAKE i \in 1 .. Len(Stream(c))
    <2>1. Stream(c)[i] \in Items
      BY StreamTypes, ElementOfSeq
    <2> QED
      BY <2>1 DEF Items
  <1> QED
    BY <1>1 DEF Concluded, Holds

(* The abstract state of one call. *)
LEMMA Bars ==
    ASSUME NEW c \in Calls
    PROVE  /\ DirectBar[c] = (method[c].sink = "func")
           /\ SentBar[c] = Stream(c)
           /\ TakenBar[c] = Len(got[c])
           /\ StateBar[c] = (IF closed[c] THEN "closed"
                             ELSE IF Concluded(c) THEN "ending" ELSE "open")
           /\ SentBar'[c] = Stream(c)'
           /\ TakenBar'[c] = Len(got'[c])
           /\ StateBar'[c] = (IF closed'[c] THEN "closed"
                              ELSE IF Concluded(c)' THEN "ending" ELSE "open")
  BY DEF DirectBar, SentBar, TakenBar, StateBar

(* A step that keeps c's stream, what its caller has and its close is a    *)
(* stuttering step.                                                        *)
LEMMA QuietStep ==
    ASSUME method' = method, closed' = closed, got' = got, chan' = chan
    PROVE  UNCHANGED Streams!vars
  BY DEF Streams!vars, DirectBar, SentBar, TakenBar, StateBar, Stream, Concluded

(* How the abstract state moves when only c's part of the state does. *)
LEMMA BarsStep ==
    ASSUME method' = method, NEW c \in Calls,
           \A d \in Calls \ {c} : /\ chan'[d] = chan[d] /\ got'[d] = got[d]
                                  /\ closed'[d] = closed[d]
    PROVE  /\ DirectBar' = DirectBar
           /\ SentBar' = [SentBar EXCEPT ![c] = Stream(c)']
           /\ TakenBar' = [TakenBar EXCEPT ![c] = Len(got'[c])]
           /\ StateBar' = [StateBar EXCEPT ![c] =
                  IF closed'[c] THEN "closed"
                  ELSE IF Concluded(c)' THEN "ending" ELSE "open"]
  <1>1. DirectBar' = DirectBar
    BY DEF DirectBar
  <1>2. \A d \in Calls \ {c} : /\ Stream(d)' = Stream(d)
                               /\ Concluded(d)' <=> Concluded(d)
    BY DEF Stream, Concluded
  <1>3. SentBar' = [SentBar EXCEPT ![c] = Stream(c)']
    BY <1>2 DEF SentBar
  <1>4. TakenBar' = [TakenBar EXCEPT ![c] = Len(got'[c])]
    BY DEF TakenBar
  <1> DEFINE st(d) == IF closed[d] THEN "closed"
                      ELSE IF Concluded(d) THEN "ending" ELSE "open"
  <1>5. \A d \in Calls \ {c} : st(d)' = st(d)
    BY <1>2
  <1>6. /\ StateBar = [d \in Calls |-> st(d)]
        /\ StateBar' = [d \in Calls |-> st(d)']
    BY DEF StateBar
  <1> HIDE DEF st
  <1>7. StateBar' = [StateBar EXCEPT ![c] = st(c)']
    BY <1>5, <1>6
  <1> QED
    BY <1>1, <1>3, <1>4, <1>7 DEF st

(* Appending a value with the next number to an open stream is a Put. *)
LEMMA PutStep ==
    ASSUME SInv, NEW c \in Calls, method' = method, NEW item \in Items,
           \A d \in Calls \ {c} : /\ chan'[d] = chan[d] /\ got'[d] = got[d]
                                  /\ closed'[d] = closed[d],
           ~Holds(Stream(c), {"error", "status"}),
           Deliver(c, item), CanSend(c), item.call = c,
           item.n = Handled(c) + 1
    PROVE  /\ Streams!Put(c, item)
           /\ item \in Streams!Candidates
  <1>0. IInv
    BY DEF SInv
  <1> DEFINE s == Stream(c)
  <1>1. /\ s \in Seq(Items) /\ Len(got[c]) \in Nat /\ Len(chan[c]) \in Nat
        /\ Len(s) = Len(got[c]) + Len(chan[c])
        /\ method[c].sink \in {"chan", "func"}
    BY <1>0, StreamTypes
  <1>2. Handled(c) \in Nat /\ Handled(c) <= MaxResults + MaxEarly
        /\ MaxResults \in Nat /\ MaxEarly \in Nat
    BY HandledType
  <1>3. item \in Streams!Candidates
    <2>1. item.n \in 1 .. MaxResults + MaxEarly + 1
      BY <1>2
    <2> QED
      BY <2>1 DEF Streams!Candidates, Streams!Kinds, Items
  <1>4. \A i \in 1 .. Len(s) : s[i].n < item.n
    <2> TAKE i \in 1 .. Len(s)
    <2>1. s[i] \in Items /\ s[i].kind = "result" /\ s[i].n <= Handled(c)
      BY <1>1, NotClosing, ElementOfSeq DEF SInv, Flowing, Streamed, Numbered
    <2>2. s[i].n \in Nat
      BY <2>1 DEF Items
    <2> QED
      BY <1>2, <2>1, <2>2
  <1>5. /\ Stream(c)' = Append(s, item)
        /\ method[c].sink = "func" => Len(got'[c]) = Len(got[c]) + 1
        /\ method[c].sink = "chan" => got'[c] = got[c]
    BY DeliverAppends
  <1> HIDE DEF s
  <1>6. SentBar[c] = s /\ TakenBar[c] = Len(got[c])
        /\ DirectBar[c] = (method[c].sink = "func")
    BY Bars DEF s
  <1>7. SentBar' = [SentBar EXCEPT ![c] = Append(SentBar[c], item)]
        /\ DirectBar' = DirectBar
    BY <1>5, <1>6, BarsStep
  <1>8. CASE method[c].sink = "func"
    <2>1. TakenBar' = [TakenBar EXCEPT ![c] = TakenBar[c] + 1]
      BY <1>5, <1>6, <1>8, BarsStep
    <2> QED
      BY <1>3, <1>4, <1>6, <1>7, <1>8, <2>1 DEF Streams!Put
  <1>9. CASE method[c].sink = "chan"
    <2>1. TakenBar' = TakenBar
      <3>1. TakenBar' = [TakenBar EXCEPT ![c] = TakenBar[c]]
        BY <1>5, <1>6, <1>9, BarsStep
      <3> QED
        BY <3>1 DEF TakenBar
    <2>2. Len(SentBar[c]) - TakenBar[c] < Volume
      <3>1. Len(chan[c]) < Volume /\ Volume \in Nat
        BY <1>9, BoundsAssumption DEF CanSend
      <3>2. \A x, y, z, v \in Nat : x = y + z /\ z < v => x - y < v
        OBVIOUS
      <3>3. Len(s) \in Nat
        BY <1>1, LenProperties
      <3>4. /\ Len(s) = Len(got[c]) + Len(chan[c])
            /\ Len(got[c]) \in Nat /\ Len(chan[c]) \in Nat
        BY <1>1, <1>6
      <3>5. Len(s) - Len(got[c]) < Volume
        BY <3>1, <3>2, <3>3, <3>4
      <3> QED
        BY <1>6, <3>5
    <2> QED
      BY <1>3, <1>4, <1>6, <1>7, <1>9, <2>1, <2>2 DEF Streams!Put
  <1> QED
    BY <1>1, <1>8, <1>9

(* A send is an Emit, or the Conclude of the stream. *)
LEMMA SendRefines ==
    ASSUME SInv, NEW c \in Calls, Send(c), Step(c)
    PROVE  Streams!Next
  <1> DEFINE item == SentItem(c)
  <1>0. IInv
    BY DEF SInv
  <1>1. /\ ~closed[c] /\ CanSend(c) /\ item \in Items /\ item.call = c
        /\ item.n = Handled(c) + 1 /\ Deliver(c, item)
        /\ Stream(c)' = Append(Stream(c), item)
        /\ ~Holds(Stream(c), {"error", "status"})
        /\ method' = method /\ closed' = closed
        /\ item.kind \in {"result", "error", "status"}
    BY SendFacts DEF Items
  <1> HIDE DEF item
  <1>2. \A d \in Calls \ {c} : /\ chan'[d] = chan[d] /\ got'[d] = got[d]
                               /\ closed'[d] = closed[d]
    BY OtherStreams
  <1>3. Streams!Put(c, item) /\ item \in Streams!Candidates
    BY <1>1, <1>2, PutStep
  <1>4. StateBar[c] = "open"
    BY <1>0, <1>1, ConcludedHolds, Bars
  <1>5. Concluded(c)' <=> item.kind # "result"
    <2>1. Len(Append(Stream(c), item)) = Len(Stream(c)) + 1
          /\ Len(Stream(c)) \in Nat
          /\ Append(Stream(c), item)[Len(Stream(c)) + 1] = item
          /\ \A i \in 1 .. Len(Stream(c)) :
                 Append(Stream(c), item)[i] = Stream(c)[i]
      BY <1>0, <1>1, StreamTypes, AppendProperties
    <2>2. \A i \in 1 .. Len(Stream(c)) : Stream(c)[i].kind = "result"
      BY <1>0, <1>1, StreamTypes, NotClosing
    <2> DEFINE a == Append(Stream(c), item)
    <2>3. Concluded(c)' <=> \E i \in 1 .. Len(a) : a[i].kind # "result"
      BY <1>1 DEF Concluded
    <2> HIDE DEF a
    <2> QED
      BY <2>1, <2>2, <2>3 DEF a
  <1>6. StateBar' = [StateBar EXCEPT ![c] =
                        IF item.kind # "result" THEN "ending" ELSE "open"]
    BY <1>1, <1>2, <1>5, BarsStep
  <1>7. CASE item.kind = "result"
    <2>1. StateBar' = StateBar
      <3>1. StateBar' = [StateBar EXCEPT ![c] = StateBar[c]]
        BY <1>4, <1>6, <1>7
      <3> QED
        BY <3>1 DEF StateBar
    <2>2. Streams!Emit(c, item)
      BY <1>3, <1>4, <1>7, <2>1 DEF Streams!Emit
    <2> QED
      BY <1>3, <2>2 DEF Streams!Next
  <1>8. CASE item.kind # "result"
    <2>1. Streams!Conclude(c, item)
      BY <1>1, <1>3, <1>4, <1>6, <1>8 DEF Streams!Conclude, Streams!Kinds
    <2> QED
      BY <1>3, <2>1 DEF Streams!Next
  <1> QED
    BY <1>7, <1>8

(* An argument that cannot be converted is a Refuse. *)
LEMMA RejectRefines ==
    ASSUME SInv, NEW c \in Calls, RejectError(c), Step(c)
    PROVE  Streams!Next
  <1> DEFINE item == Item(c, "error")
  <1>0. IInv /\ Streamed(c) /\ Stage(c)
    BY DEF SInv, Flowing, IInv, Sound
  <1>1. /\ lib[c] = "none" /\ cb[c].step = "idle" /\ ~closed[c]
        /\ method' = method /\ closed' = [closed EXCEPT ![c] = TRUE]
        /\ Deliver(c, item)
    BY <1>0 DEF RejectError, Stage, BeforeLibrary, InLibrary, Ending
  <1>2. Stream(c) = << >> /\ ~Holds(Stream(c), {"error", "status"})
    BY <1>0, <1>1 DEF Streamed, Truthful, Holds
  <1>3. item \in Items /\ item.call = c /\ item.kind = "error"
        /\ item.n = Handled(c) + 1
    <2>1. nresults[c] \in Nat /\ Handled(c) = nresults[c]
      BY <1>0, <1>1, StreamTypes, HandledType DEF InResult
    <2> QED
      BY <2>1 DEF Item, Items
  <1> HIDE DEF item
  <1>4. \A d \in Calls \ {c} : /\ chan'[d] = chan[d] /\ got'[d] = got[d]
                               /\ closed'[d] = closed[d]
    BY OtherStreams
  <1>5. CanSend(c)
    <2>1. /\ Len(Stream(c)) = 0 /\ Len(got[c]) \in Nat /\ Len(chan[c]) \in Nat
          /\ Len(Stream(c)) = Len(got[c]) + Len(chan[c])
          /\ Volume \in Nat \ {0}
      BY <1>0, <1>2, StreamTypes
    <2>2. \A x, y \in Nat : 0 = x + y => y = 0
      OBVIOUS
    <2>3. Len(chan[c]) = 0
      BY <2>1, <2>2
    <2> QED
      BY <2>1, <2>3 DEF CanSend
  <1>6. Streams!Put(c, item) /\ item \in Streams!Candidates
    BY <1>1, <1>2, <1>3, <1>4, <1>5, PutStep
  <1>7. StateBar[c] = "open" /\ SentBar[c] = << >>
    BY <1>0, <1>1, <1>2, ConcludedHolds, Bars
  <1>8. StateBar' = [StateBar EXCEPT ![c] = "closed"]
    <2>1. closed'[c]
      BY <1>0, <1>1 DEF IInv, TypeOK
    <2> QED
      BY <1>1, <1>4, <2>1, BarsStep
  <1>9. Streams!Refuse(c, item)
    BY <1>3, <1>6, <1>7, <1>8 DEF Streams!Refuse
  <1> QED
    BY <1>6, <1>9 DEF Streams!Next

(* close(responseCh) is a Close. *)
LEMMA CloseRefines ==
    ASSUME SInv, NEW c \in Calls, Close(c)
    PROVE  Streams!Next
  <1>0. closed \in [Calls -> BOOLEAN]
    BY DEF SInv, IInv, TypeOK
  <1>1. /\ ~closed[c] /\ closed'[c] /\ method' = method
        /\ chan' = chan /\ got' = got
        /\ \A d \in Calls \ {c} : closed'[d] = closed[d]
    BY <1>0, CloseFacts
  <1>2. StateBar[c] # "closed"
    BY <1>1, Bars
  <1>3. /\ StateBar' = [StateBar EXCEPT ![c] = "closed"]
        /\ DirectBar' = DirectBar
    BY <1>1, BarsStep
  <1>4. SentBar' = SentBar /\ TakenBar' = TakenBar
    BY <1>1 DEF SentBar, TakenBar, Stream
  <1>5. Streams!Close(c)
    BY <1>2, <1>3, <1>4 DEF Streams!Close
  <1> QED
    BY <1>5 DEF Streams!Next

(* A receive is a Take. *)
LEMMA ReceiveRefines ==
    ASSUME SInv, NEW c \in Calls, Receive(c)
    PROVE  Streams!Next
  <1>1. /\ Stream(c)' = Stream(c) /\ Len(got'[c]) = Len(got[c]) + 1
        /\ Len(got[c]) < Len(Stream(c)) /\ method' = method
        /\ closed' = closed
        /\ \A d \in Calls \ {c} : got'[d] = got[d] /\ chan'[d] = chan[d]
    BY ReceiveFacts
  <1>2. Concluded(c)' <=> Concluded(c)
    BY <1>1 DEF Concluded
  <1>3. TakenBar[c] = Len(got[c]) /\ SentBar[c] = Stream(c)
    BY Bars
  <1>4. /\ DirectBar' = DirectBar
        /\ SentBar' = [SentBar EXCEPT ![c] = SentBar[c]]
        /\ TakenBar' = [TakenBar EXCEPT ![c] = TakenBar[c] + 1]
        /\ StateBar' = [StateBar EXCEPT ![c] = StateBar[c]]
    BY <1>1, <1>2, <1>3, BarsStep, Bars
  <1>5. SentBar' = SentBar /\ StateBar' = StateBar
    BY <1>4 DEF SentBar, StateBar
  <1>6. Streams!Take(c)
    BY <1>1, <1>3, <1>4, <1>5 DEF Streams!Take
  <1> QED
    BY <1>6 DEF Streams!Next

(* Every other step of a call is invisible to the streams. *)
LEMMA OtherRefines ==
    ASSUME NEW c \in Calls, Step(c), ~RejectError(c), ~Send(c), ~Close(c),
           ~Receive(c)
    PROVE  UNCHANGED Streams!vars
  <1>1. method' = method /\ closed' = closed /\ got' = got /\ chan' = chan
    <2>1. CASE Caller(c)
      BY <2>1 DEF Caller, AllocContext, RejectPanic, StoreContext,
         CallLibrary, IndexPanic, Return, sinkVars
    <2>2. CASE Start(c)
      BY <2>2 DEF Start, StartResult, StartFinalSomewhere, StartFinal,
         callVars, sinkVars
    <2>3. CASE Callback(c)
      BY <2>3 DEF Callback, Get, DropResult, DeleteContext, callVars, sinkVars
    <2>4. CASE Reader(c) \/ Abandon(c)
      BY <2>4 DEF Reader, SeeEnd, Abandon, callVars
    <2> QED
      BY <2>1, <2>2, <2>3, <2>4 DEF Step
  <1> QED
    BY <1>1, QuietStep

(* The contexts, callbacks and channels of session.go and callback.go      *)
(* implement the plain result streams of the comment above Session: every  *)
(* behaviour of the machinery is, seen by the callers, a behaviour of      *)
(* ResultStream.                                                           *)
THEOREM MachineryImplementsStreams == Spec => ImplementsStreams
  <1>1. Init => Streams!Init
    <2> SUFFICES ASSUME Init
                 PROVE  Streams!Init
      OBVIOUS
    <2>1. DirectBar \in [Calls -> BOOLEAN]
      BY DEF DirectBar
    <2>2. \A c \in Calls : Stream(c) = << >> /\ Len(got[c]) = 0 /\ ~closed[c]
      BY DEF Init, Stream
    <2>3. \A c \in Calls : ~Concluded(c)
      BY <2>2 DEF Concluded
    <2> QED
      BY <2>1, <2>2, <2>3 DEF Streams!Init, SentBar, TakenBar, StateBar
  <1>2. SInv /\ [Next]_vars => [Streams!Next]_(Streams!vars)
    <2> SUFFICES ASSUME SInv, [Next]_vars
                 PROVE  Streams!Next \/ UNCHANGED Streams!vars
      OBVIOUS
    <2>1. ASSUME NEW c \in Calls, Step(c)
          PROVE  Streams!Next \/ UNCHANGED Streams!vars
      BY <2>1, RejectRefines, SendRefines, CloseRefines, ReceiveRefines,
         OtherRefines
    <2>2. CASE UNCHANGED vars
      BY <2>2, QuietStep DEF vars, callVars, sinkVars
    <2> QED
      BY <2>1, <2>2 DEF Next, Finished
  <1> QED
    BY <1>1, <1>2, StreamsFlow, PTL DEF Spec, ImplementsStreams, Streams!Spec

=============================================================================
