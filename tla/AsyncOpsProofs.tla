--------------------------- MODULE AsyncOpsProofs ---------------------------
(***************************************************************************)
(* Proofs about AsyncOps, for every set of calls, threads and well-formed  *)
(* methods and for every channel capacity and bound.                       *)
(***************************************************************************)
EXTENDS AsyncOps, SequenceTheorems, TLAPS

---------------------------------------------------------------------------
(* Type correctness *)

(* The facts about a call's method record that the steps use. *)
LEMMA MethodFacts ==
    ASSUME TypeOK, NEW c \in Calls
    PROVE  /\ WellFormed(method[c])
           /\ NContexts(c) \in Nat \ {0}
           /\ \A i \in 1 .. NContexts(c) : method[c].stored[i] \in STRING
           /\ Slot(c) \in 1 .. NContexts(c)
  <1>1. WellFormed(method[c])
    BY MethodsAssumption DEF TypeOK
  <1> QED
    BY <1>1 DEF WellFormed, NContexts, Slot

(* Sending an item of the right type keeps both ends of the stream typed. *)
LEMMA DeliverType ==
    ASSUME TypeOK, NEW d \in Calls, NEW item \in Items, Deliver(d, item)
    PROVE  /\ chan' \in [Calls -> Seq(Items)]
           /\ got' \in [Calls -> Seq(Items)]
  <1>1. CASE method[d].sink = "chan"
    <2>1. Append(chan[d], item) \in Seq(Items)
      BY AppendProperties DEF TypeOK
    <2> QED
      BY <1>1, <2>1 DEF TypeOK, Deliver
  <1>2. CASE method[d].sink # "chan"
    <2>1. Append(got[d], item) \in Seq(Items)
      BY AppendProperties DEF TypeOK
    <2> QED
      BY <1>2, <2>1 DEF TypeOK, Deliver
  <1> QED
    BY <1>1, <1>2

(* A callback record stays one when its step changes. *)
LEMMA AdvanceType ==
    ASSUME TypeOK, NEW c \in Calls,
           NEW step \in {"idle", "get", "send", "close", "delete"},
           Advance(c, step)
    PROVE  cb' \in [Calls -> Callbacks]
  <1>1. cb[c] \in Callbacks
    BY DEF TypeOK
  <1>2. NoCallback(c) \in Callbacks /\ [cb[c] EXCEPT !.step = step] \in Callbacks
    BY <1>1 DEF NoCallback, Callbacks
  <1> QED
    BY <1>2 DEF TypeOK, Advance

(* Everything starts with its type. *)
LEMMA TypeInit == Init => TypeOK
  BY DEF Init, PoolInit, TypeOK, NoCallback, Callbacks

(* The goroutine inside the method keeps the types. *)
LEMMA TypeCaller ==
    ASSUME TypeOK, NEW c \in Calls, Caller(c)
    PROVE  TypeOK'
  <1>1. CASE AllocContext(c)
    <2>1. counter + 1 \in Nat \ {0}
          /\ Append(ctx[c], counter + 1) \in Seq(Nat \ {0})
      BY AppendProperties DEF TypeOK
    <2> QED
      BY <1>1, <2>1 DEF AllocContext, NextContext, TypeOK, sinkVars
  <1>2. CASE RejectError(c)
    <2>1. Item(c, "error") \in Items
      BY DEF TypeOK, Item, Items
    <2> QED
      BY <1>2, <2>1, DeliverType DEF RejectError, TypeOK, poolVars
  <1>3. CASE RejectPanic(c)
    BY <1>3 DEF RejectPanic, TypeOK, poolVars, sinkVars
  <1>4. CASE StoreContext(c)
    <2> DEFINE i == nstored[c] + 1
               key == ctx[c][i]
               entry == Entry(c, i)
    <2>1. i \in 1 .. NContexts(c) /\ key \in Nat \ {0}
      BY <1>4 DEF StoreContext, TypeOK
    <2>2. entry \in Entries
      BY <2>1, MethodFacts DEF Entries, Entry, TypeOK
    <2>3. /\ DOMAIN pool' \subseteq Nat \ {0}
          /\ \A k \in DOMAIN pool' : pool'[k] \in Entries
      <3>1. pool' = [k \in DOMAIN pool \cup {key} |->
                        IF k = key THEN entry ELSE pool[k]]
        BY <1>4 DEF StoreContext, Store
      <3> HIDE DEF entry, key
      <3> QED
        BY <2>1, <2>2, <3>1 DEF TypeOK
    <2>4. nstored' \in [Calls -> Nat]
      BY <1>4 DEF StoreContext, TypeOK
    <2> HIDE DEF i, key, entry
    <2> QED
      BY <1>4, <2>3, <2>4 DEF StoreContext, TypeOK, sinkVars
  <1>5. CASE CallLibrary(c)
    BY <1>5 DEF CallLibrary, TypeOK, poolVars, sinkVars
  <1>6. CASE IndexPanic(c)
    BY <1>6 DEF IndexPanic, TypeOK, poolVars, sinkVars
  <1>7. CASE Return(c)
    BY <1>7 DEF Return, TypeOK, poolVars, sinkVars
  <1> QED
    BY <1>1, <1>2, <1>3, <1>4, <1>5, <1>6, <1>7 DEF Caller

(* Starting a callback keeps the types. *)
LEMMA TypeStart ==
    ASSUME TypeOK, NEW c \in Calls, Start(c)
    PROVE  TypeOK'
  <1>1. ASSUME NEW t \in Threads \cup {"caller"}, StartResult(c, t)
        PROVE  TypeOK'
    <2>1. [step |-> "get", role |-> "result", by |-> t, to |-> c] \in Callbacks
      BY DEF Callbacks
    <2> QED
      BY <1>1, <2>1 DEF StartResult, TypeOK, poolVars, callVars, sinkVars
  <1>2. ASSUME NEW t \in Threads \cup {"caller"},
               NEW outcome \in {"succeeded", "failed"},
               StartFinal(c, t, outcome)
        PROVE  TypeOK'
    <2>1. [step |-> "get", role |-> "final", by |-> t, to |-> c] \in Callbacks
      BY DEF Callbacks
    <2> QED
      BY <1>2, <2>1 DEF StartFinal, TypeOK, poolVars, sinkVars
  <1> QED
    BY <1>1, <1>2 DEF Start, StartFinalSomewhere

(* The callbacks keep the types. *)
LEMMA TypeCallback ==
    ASSUME TypeOK, NEW c \in Calls, Callback(c)
    PROVE  TypeOK'
  <1>0. cb[c] \in Callbacks /\ cb[c].to \in Calls
    BY DEF TypeOK, Callbacks
  <1>1. CASE Get(c)
    <2>1. AfterGet(c) \in {"send", "close", "delete"}
      BY DEF AfterGet
    <2> DEFINE key == ctx[c][Slot(c)]
    <2>2. cb' \in [Calls -> Callbacks]
      <3>1. CASE key \in DOMAIN pool /\ pool[key].type = Asserted(c)
        <4>1. pool[key].call \in Calls
          BY <3>1 DEF TypeOK, Entries
        <4>2. [cb[c] EXCEPT !.step = AfterGet(c), !.to = pool[key].call]
                  \in Callbacks
          BY <1>0, <2>1, <4>1 DEF Callbacks
        <4> QED
          BY <1>1, <3>1, <4>2 DEF Get, Exists, TypeOK
      <3>2. CASE ~(key \in DOMAIN pool /\ pool[key].type = Asserted(c))
        BY <1>1, <3>2 DEF Get, Exists, TypeOK
      <3> QED
        BY <3>1, <3>2
    <2>3. crash' \in {"none", "missing", "type", "closed"}
      BY <1>1 DEF Get, TypeOK
    <2> QED
      BY <1>1, <2>2, <2>3 DEF Get, TypeOK, poolVars, callVars, sinkVars
  <1>2. CASE DropResult(c)
    BY <1>2, AdvanceType
    DEF DropResult, TypeOK, poolVars, callVars, sinkVars
  <1>3. CASE Send(c)
    <2> DEFINE item == IF cb[c].role = "result"
                  THEN [call |-> c, n |-> nresults[c], kind |-> "result"]
                  ELSE Item(c, IF lib[c] = "failed" THEN "error" ELSE "status")
    <2>1. item \in Items
      BY DEF TypeOK, Item, Items
    <2>2. AfterSend(c) \in {"idle", "close"}
      BY DEF AfterSend
    <2>3. CASE closed[cb[c].to]
      BY <1>3, <2>3 DEF Send, TypeOK, poolVars, callVars
    <2>4. CASE ~closed[cb[c].to]
      <3>1. Deliver(cb[c].to, item) /\ Advance(c, AfterSend(c))
        BY <1>3, <2>4 DEF Send
      <3> HIDE DEF item
      <3> QED
        BY <1>0, <1>3, <2>1, <2>2, <2>4, <3>1, DeliverType, AdvanceType
        DEF Send, TypeOK, poolVars, callVars
    <2> QED
      BY <2>3, <2>4
  <1>4. CASE Close(c)
    <2>1. AfterClose(c) \in {"idle", "delete"}
      BY DEF AfterClose
    <2>2. CASE closed[cb[c].to]
      BY <1>4, <2>2 DEF Close, TypeOK, poolVars, callVars
    <2>3. CASE ~closed[cb[c].to]
      BY <1>0, <1>4, <2>1, <2>3, AdvanceType
      DEF Close, TypeOK, poolVars, callVars
    <2> QED
      BY <2>2, <2>3
  <1>5. CASE DeleteContext(c)
    <2>1. AfterDelete(c) \in {"idle", "send", "close"}
      BY DEF AfterDelete
    <2>2. cb' \in [Calls -> Callbacks]
      BY <1>5, <2>1, AdvanceType DEF DeleteContext
    <2>3. nfreed' \in [Calls -> Nat]
      <3>1. /\ nfreed \in [Calls -> Nat]
            /\ nfreed' = [nfreed EXCEPT ![cb[c].to] = nfreed[cb[c].to] + 1]
        BY <1>5 DEF DeleteContext, TypeOK
      <3> QED
        BY <1>0, <3>1
    <2>4. /\ DOMAIN pool' \subseteq Nat \ {0}
          /\ \A k \in DOMAIN pool' : pool'[k] \in Entries
      BY <1>5 DEF DeleteContext, Delete, TypeOK
    <2> QED
      BY <1>5, <2>2, <2>3, <2>4 DEF DeleteContext, TypeOK, callVars, sinkVars
  <1> QED
    BY <1>1, <1>2, <1>3, <1>4, <1>5 DEF Callback

(* The reading goroutine keeps the types. *)
LEMMA TypeReader ==
    ASSUME TypeOK, NEW c \in Calls, Reader(c) \/ Abandon(c)
    PROVE  TypeOK'
  <1>1. CASE Receive(c)
    <2>1. chan[c] \in Seq(Items) /\ chan[c] # << >>
      BY <1>1 DEF Receive, TypeOK
    <2>2. Head(chan[c]) \in Items /\ Tail(chan[c]) \in Seq(Items)
      BY <2>1, HeadTailProperties
    <2> QED
      BY <1>1, <2>2 DEF Receive, TypeOK, poolVars, callVars
  <1>2. CASE SeeEnd(c)
    BY <1>2 DEF SeeEnd, TypeOK, poolVars, callVars
  <1>3. CASE Abandon(c)
    BY <1>3 DEF Abandon, TypeOK, poolVars, callVars
  <1> QED
    BY <1>1, <1>2, <1>3 DEF Reader

(* A step that changes nothing keeps the types. *)
LEMMA TypeStutter == TypeOK /\ UNCHANGED vars => TypeOK'
  BY DEF TypeOK, vars, poolVars, callVars, sinkVars

(* Every reachable state is well typed: in particular no step puts         *)
(* anything but a closure of some call into the pool, or anything but an   *)
(* item of some call on a channel.                                         *)
THEOREM TypeCorrect == Spec => []TypeOK
  <1>1. TypeOK /\ [Next]_vars => TypeOK'
    BY TypeCaller, TypeStart, TypeCallback, TypeReader, TypeStutter
    DEF Next, Step, Finished
  <1> QED
    BY <1>1, TypeInit, PTL DEF Spec

---------------------------------------------------------------------------
(* The inductive invariant *)

IInv == TypeOK /\ Sound

(* What a step of c leaves alone: every other call's part of the state,    *)
(* because a callback acts for the call it was started for.                *)
LEMMA OthersUnchanged ==
    ASSUME IInv, NEW c \in Calls, Step(c), NEW d \in Calls, d # c
    PROVE  /\ pc'[d] = pc[d] /\ ctx'[d] = ctx[d] /\ lib'[d] = lib[d]
           /\ nstored'[d] = nstored[d] /\ nfreed'[d] = nfreed[d]
           /\ cb'[d] = cb[d] /\ closed'[d] = closed[d]
  <1>0. cb[c].to = c
    BY DEF IInv, Sound, Stage
  <1>1. CASE Caller(c)
    BY <1>1 DEF Caller, AllocContext, RejectError, RejectPanic, StoreContext,
                CallLibrary, IndexPanic, Return, IInv, TypeOK, sinkVars
  <1>2. CASE Start(c)
    BY <1>2 DEF Start, StartResult, StartFinalSomewhere, StartFinal, IInv,
                TypeOK, callVars, sinkVars
  <1>3. CASE Callback(c)
    BY <1>0, <1>3 DEF Callback, Get, DropResult, Send, Close, DeleteContext,
                Advance, IInv, TypeOK, callVars, sinkVars
  <1>4. CASE Reader(c) \/ Abandon(c)
    BY <1>4 DEF Reader, Receive, SeeEnd, Abandon, callVars
  <1> QED
    BY <1>1, <1>2, <1>3, <1>4 DEF Step

(* Which steps touch what. *)
LEMMA Frames ==
    ASSUME NEW c \in Calls, Step(c)
    PROVE  /\ method' = method
           /\ AllocContext(c) \/ UNCHANGED <<counter, ctx>>
           /\ \/ StoreContext(c) \/ DeleteContext(c)
              \/ UNCHANGED <<pool, nstored, nfreed>>
  <1>1. CASE Caller(c)
    BY <1>1 DEF Caller, AllocContext, RejectError, RejectPanic, StoreContext,
                CallLibrary, IndexPanic, Return, poolVars
  <1>2. CASE Start(c)
    BY <1>2 DEF Start, StartResult, StartFinalSomewhere, StartFinal, poolVars,
                callVars
  <1>3. CASE Callback(c)
    BY <1>3 DEF Callback, Get, DropResult, Send, Close, DeleteContext,
                poolVars, callVars
  <1>4. CASE Reader(c) \/ Abandon(c)
    BY <1>4 DEF Reader, Receive, SeeEnd, Abandon, poolVars, callVars
  <1> QED
    BY <1>1, <1>2, <1>3, <1>4 DEF Step

(* A fresh number is larger than all numbers drawn before it. *)
LEMMA NumbersStep ==
    ASSUME IInv, NEW c \in Calls, Step(c)
    PROVE  OwnNumbers'
  <1>1. CASE AllocContext(c)
    <2>1. /\ ctx[c] \in Seq(Nat \ {0}) /\ counter \in Nat
          /\ ctx'[c] = Append(ctx[c], counter + 1)
          /\ counter' = counter + 1
          /\ \A d \in Calls : d # c => ctx'[d] = ctx[d]
      BY <1>1 DEF AllocContext, NextContext, IInv, TypeOK
    <2>2. /\ Len(ctx'[c]) = Len(ctx[c]) + 1
          /\ \A i \in 1 .. Len(ctx[c]) : ctx'[c][i] = ctx[c][i]
          /\ ctx'[c][Len(ctx[c]) + 1] = counter + 1
      BY <2>1, AppendProperties, counter + 1 \in Nat \ {0}
    <2>3. \A d \in Calls : \A i \in 1 .. Len(ctx'[d]) :
             \/ i \in 1 .. Len(ctx[d]) /\ ctx'[d][i] = ctx[d][i]
             \/ d = c /\ i = Len(ctx[c]) + 1 /\ ctx'[d][i] = counter + 1
      <3> SUFFICES ASSUME NEW d \in Calls, NEW i \in 1 .. Len(ctx'[d])
                   PROVE  \/ i \in 1 .. Len(ctx[d]) /\ ctx'[d][i] = ctx[d][i]
                          \/ /\ d = c /\ i = Len(ctx[c]) + 1
                             /\ ctx'[d][i] = counter + 1
        OBVIOUS
      <3>1. CASE d = c
        <4>1. Len(ctx[c]) \in Nat
          BY <2>1, LenProperties
        <4> QED
          BY <2>2, <3>1, <4>1
      <3>2. CASE d # c
        BY <2>1, <3>2
      <3> QED
        BY <3>1, <3>2
    <2>4. \A d \in Calls : \A i \in 1 .. Len(ctx[d]) :
             ctx[d][i] \in Nat /\ ctx[d][i] <= counter
      BY DEF IInv, TypeOK, Sound, OwnNumbers
    <2>5. \A d \in Calls : \A i \in 1 .. Len(ctx'[d]) : ctx'[d][i] <= counter'
      BY <2>1, <2>3, <2>4
    <2>6. \A d, e \in Calls :
             \A i \in 1 .. Len(ctx'[d]), j \in 1 .. Len(ctx'[e]) :
                 ctx'[d][i] = ctx'[e][j] => d = e /\ i = j
      <3> SUFFICES ASSUME NEW d \in Calls, NEW e \in Calls,
                          NEW i \in 1 .. Len(ctx'[d]),
                          NEW j \in 1 .. Len(ctx'[e]),
                          ctx'[d][i] = ctx'[e][j]
                   PROVE  d = e /\ i = j
        OBVIOUS
      <3>0. counter \in Nat /\ \A f \in Calls : \A k \in 1 .. Len(ctx[f]) :
               ctx[f][k] # counter + 1
        BY <2>1, <2>4
      <3>1. CASE /\ i \in 1 .. Len(ctx[d]) /\ ctx'[d][i] = ctx[d][i]
                 /\ j \in 1 .. Len(ctx[e]) /\ ctx'[e][j] = ctx[e][j]
        <4>1. ctx[d][i] = ctx[e][j]
          BY <3>1
        <4> QED
          BY <3>1, <4>1 DEF IInv, Sound, OwnNumbers
      <3>2. CASE d = c /\ i = Len(ctx[c]) + 1 /\ e = c /\ j = Len(ctx[c]) + 1
        BY <3>2
      <3>3. CASE /\ i \in 1 .. Len(ctx[d]) /\ ctx'[d][i] = ctx[d][i]
                 /\ ctx'[e][j] = counter + 1
        BY <3>0, <3>3, Zenon
      <3>4. CASE /\ j \in 1 .. Len(ctx[e]) /\ ctx'[e][j] = ctx[e][j]
                 /\ ctx'[d][i] = counter + 1
        BY <3>0, <3>4, Zenon
      <3> QED
        BY <2>3, <3>1, <3>2, <3>3, <3>4
    <2> QED
      BY <2>5, <2>6 DEF OwnNumbers
  <1>2. CASE UNCHANGED <<counter, ctx>>
    BY <1>2 DEF IInv, Sound, OwnNumbers
  <1> QED
    BY <1>1, <1>2, Frames

(* A callback finds the closure its own call stored: the library names a   *)
(* context only while nothing of the call has been deleted.                *)
LEMMA GetFinds ==
    ASSUME IInv, NEW c \in Calls, cb[c].step = "get"
    PROVE  /\ Exists(ctx[c][Slot(c)])
           /\ pool[ctx[c][Slot(c)]] = Entry(c, Slot(c))
  <1>1. Slot(c) \in 1 .. NContexts(c) /\ NContexts(c) \in Nat
    BY MethodFacts DEF IInv
  <1>2. nfreed[c] = 0 /\ nstored[c] = NContexts(c)
    BY DEF IInv, Sound, Stage, BeforeLibrary, InLibrary, Ending
  <1>3. Slot(c) \in 1 .. nstored[c] /\ nfreed[c] < Slot(c)
    BY <1>1, <1>2
  <1> QED
    BY <1>3 DEF IInv, Sound, StoredIsThere

(* A call's stage does not move while its own state stands still. *)
LEMMA StageOthers ==
    ASSUME IInv, NEW c \in Calls, Step(c), NEW d \in Calls, d # c
    PROVE  Stage(d)'
  BY OthersUnchanged, Frames
  DEF IInv, Sound, Stage, BeforeLibrary, InLibrary, Ending, NContexts

(* The goroutine inside the method moves its call to a legal stage. *)
LEMMA StageCaller ==
    ASSUME IInv, NEW c \in Calls, Caller(c)
    PROVE  Stage(c)'
  <1>0. Stage(c) /\ NContexts(c) \in Nat \ {0} /\ nstored[c] \in Nat
    BY MethodFacts DEF IInv, Sound, TypeOK
  <1>1. CASE AllocContext(c)
    <2>1. /\ ctx[c] \in Seq(Nat \ {0}) /\ Len(ctx[c]) \in Nat
          /\ ctx'[c] = Append(ctx[c], counter + 1) /\ counter + 1 \in Nat \ {0}
      BY <1>1 DEF AllocContext, NextContext, IInv, TypeOK
    <2>2. Len(ctx'[c]) = Len(ctx[c]) + 1
      BY <2>1, AppendProperties
    <2>3. nstored[c] = 0
      BY <1>0, <1>1, <2>1 DEF AllocContext, Stage
    <2> QED
      BY <1>0, <1>1, <2>1, <2>2, <2>3
      DEF AllocContext, Stage, BeforeLibrary, InLibrary, Ending, NContexts,
          sinkVars
  <1>2. CASE RejectError(c)
    BY <1>0, <1>2 DEF RejectError, Stage, BeforeLibrary, InLibrary, Ending,
          NContexts, IInv, TypeOK
  <1>3. CASE RejectPanic(c)
    BY <1>0, <1>3 DEF RejectPanic, Stage, BeforeLibrary, InLibrary, Ending,
          NContexts, IInv, TypeOK, sinkVars
  <1>4. CASE StoreContext(c)
    BY <1>0, <1>4 DEF StoreContext, Stage, BeforeLibrary, InLibrary, Ending,
          NContexts, IInv, TypeOK, sinkVars
  <1>5. CASE CallLibrary(c)
    BY <1>0, <1>5 DEF CallLibrary, Stage, BeforeLibrary, InLibrary, Ending,
          NContexts, IInv, TypeOK, sinkVars
  <1>6. CASE IndexPanic(c)
    BY <1>0, <1>6 DEF IndexPanic, Stage, BeforeLibrary, InLibrary, Ending,
          NContexts, IInv, TypeOK, sinkVars
  <1>7. CASE Return(c)
    BY <1>0, <1>7 DEF Return, Stage, BeforeLibrary, InLibrary, Ending,
          NContexts, IInv, TypeOK, sinkVars
  <1> QED
    BY <1>1, <1>2, <1>3, <1>4, <1>5, <1>6, <1>7 DEF Caller

(* The library starting a callback moves the call to a legal stage. *)
LEMMA StageStart ==
    ASSUME IInv, NEW c \in Calls, Start(c)
    PROVE  Stage(c)'
  <1>0. Stage(c)
    BY DEF IInv, Sound
  <1>1. ASSUME NEW t \in Threads \cup {"caller"}, StartResult(c, t)
        PROVE  Stage(c)'
    BY <1>0, <1>1 DEF StartResult, Stage, BeforeLibrary, InLibrary, Ending,
          NContexts, IInv, TypeOK, callVars, sinkVars
  <1>2. ASSUME NEW t \in Threads \cup {"caller"},
               NEW outcome \in {"succeeded", "failed"},
               StartFinal(c, t, outcome)
        PROVE  Stage(c)'
    BY <1>0, <1>2 DEF StartFinal, Stage, BeforeLibrary, InLibrary, Ending,
          NContexts, IInv, TypeOK, sinkVars
  <1> QED
    BY <1>1, <1>2 DEF Start, StartFinalSomewhere

(* The reading goroutine does not touch the stage of its call. *)
LEMMA StageReader ==
    ASSUME IInv, NEW c \in Calls, Reader(c) \/ Abandon(c)
    PROVE  Stage(c)'
  BY DEF Reader, Receive, SeeEnd, Abandon, Stage, BeforeLibrary, InLibrary,
         Ending, NContexts, IInv, Sound, callVars

(* The callbacks move the call to a legal stage, and find what they need:  *)
(* neither of the first two panics can happen.                             *)
LEMMA StageCallback ==
    ASSUME IInv, NEW c \in Calls, Callback(c), crash = "none"
    PROVE  Stage(c)' /\ crash' \notin {"missing", "closed"}
  <1>0. Stage(c) /\ NContexts(c) \in Nat \ {0} /\ nfreed[c] \in Nat
    BY MethodFacts DEF IInv, Sound, TypeOK
  <1>t. /\ cb \in [Calls -> Callbacks] /\ cb[c] \in Callbacks
        /\ closed \in [Calls -> BOOLEAN] /\ nfreed \in [Calls -> Nat]
        /\ cb[c].to = c
    BY DEF IInv, TypeOK, Sound, Stage
  <1>1. CASE Get(c)
    <2>1. cb[c].step = "get" /\ Exists(ctx[c][Slot(c)])
      BY <1>1, GetFinds DEF Get
    <2>2. pool[ctx[c][Slot(c)]].call = c
      <3>1. pool[ctx[c][Slot(c)]] = Entry(c, Slot(c))
        BY <2>1, GetFinds
      <3>2. Entry(c, Slot(c)).call = c
        BY DEF Entry
      <3> QED
        BY <3>1, <3>2
    <2>3. CASE pool[ctx[c][Slot(c)]].type # Asserted(c)
      BY <1>0, <1>1, <2>1, <2>3 DEF Get, Stage, BeforeLibrary, InLibrary,
         Ending, NContexts, callVars, sinkVars
    <2>4. CASE pool[ctx[c][Slot(c)]].type = Asserted(c)
      <3>1. /\ cb'[c].step = AfterGet(c) /\ cb'[c].role = cb[c].role
            /\ cb'[c].to = c /\ crash' = "none"
        <4>1. /\ crash' = crash
              /\ cb' = [cb EXCEPT ![c] = [@ EXCEPT !.step = AfterGet(c),
                            !.to = pool[ctx[c][Slot(c)]].call]]
          BY <1>1, <2>1, <2>4 DEF Get
        <4> QED
          BY <1>t, <2>2, <4>1 DEF Callbacks
      <3> QED
        BY <1>0, <1>1, <2>1, <3>1 DEF Get, Stage, BeforeLibrary, InLibrary,
           Ending, NContexts, AfterGet, HasAnswer, callVars, sinkVars
    <2> QED
      BY <2>3, <2>4
  <1>2. CASE DropResult(c)
    <2>1. cb'[c] = NoCallback(c) /\ crash' = "none"
      BY <1>t, <1>2 DEF DropResult, Advance
    <2> QED
      BY <1>0, <1>2, <2>1 DEF DropResult, NoCallback, Stage, BeforeLibrary,
         InLibrary, Ending, NContexts, callVars, sinkVars
  <1>3. CASE Send(c)
    <2>1. cb[c].step = "send" /\ ~closed[c]
      BY <1>0, <1>3 DEF Send, Stage, BeforeLibrary, InLibrary, Ending
    <2>2. crash' = "none" /\ Advance(c, AfterSend(c)) /\ UNCHANGED closed
      BY <1>t, <1>3, <2>1 DEF Send
    <2>3. CASE cb[c].role = "result"
      <3>1. cb'[c] = NoCallback(c)
        BY <1>t, <2>2, <2>3 DEF Advance, AfterSend
      <3> QED
        BY <1>0, <1>3, <2>1, <2>2, <2>3, <3>1 DEF Send, NoCallback, Stage,
           BeforeLibrary, InLibrary, Ending, NContexts, callVars
    <2>4. CASE cb[c].role # "result"
      <3>1. cb'[c].step = "close" /\ cb'[c].role = cb[c].role /\ cb'[c].to = c
        BY <1>t, <2>2, <2>4 DEF Advance, AfterSend, Callbacks
      <3> QED
        BY <1>0, <1>3, <2>1, <2>2, <2>4, <3>1 DEF Send, Stage, BeforeLibrary,
           InLibrary, Ending, NContexts, callVars
    <2> QED
      BY <2>3, <2>4
  <1>4. CASE Close(c)
    <2>1. cb[c].step = "close" /\ ~closed[c]
      BY <1>0, <1>4 DEF Close, Stage, BeforeLibrary, InLibrary, Ending
    <2>2. /\ crash' = "none" /\ Advance(c, AfterClose(c))
          /\ closed'[c] = TRUE
      BY <1>t, <1>4, <2>1 DEF Close
    <2>3. CASE method[c].deleteFirst
      <3>1. cb'[c] = NoCallback(c)
        BY <1>t, <2>2, <2>3 DEF Advance, AfterClose
      <3> QED
        BY <1>0, <1>4, <2>1, <2>2, <2>3, <3>1 DEF Close, NoCallback, Stage,
           BeforeLibrary, InLibrary, Ending, NContexts, callVars
    <2>4. CASE ~method[c].deleteFirst
      <3>1. cb'[c].step = "delete" /\ cb'[c].role = cb[c].role /\ cb'[c].to = c
        BY <1>t, <2>2, <2>4 DEF Advance, AfterClose, Callbacks
      <3> QED
        BY <1>0, <1>4, <2>1, <2>2, <2>4, <3>1 DEF Close, Stage, BeforeLibrary,
           InLibrary, Ending, NContexts, callVars
    <2> QED
      BY <2>3, <2>4
  <1>5. CASE DeleteContext(c)
    <2>1. /\ cb[c].step = "delete" /\ crash' = "none"
          /\ nfreed'[c] = nfreed[c] + 1
          /\ UNCHANGED <<closed, method, pc, ctx, nstored, lib>>
      BY <1>t, <1>5 DEF DeleteContext, callVars, sinkVars
    <2>2. CASE nfreed[c] + 1 < NContexts(c)
      <3>1. cb'[c].step = "delete" /\ cb'[c].role = cb[c].role /\ cb'[c].to = c
        BY <1>t, <1>5, <2>2 DEF DeleteContext, ToDelete, Advance, Callbacks
      <3> QED
        BY <1>0, <2>1, <2>2, <3>1 DEF Stage, BeforeLibrary, InLibrary, Ending,
           NContexts
    <2>3. CASE ~(nfreed[c] + 1 < NContexts(c))
      <3>1. Advance(c, AfterDelete(c))
        BY <1>t, <1>5, <2>3 DEF DeleteContext, ToDelete
      <3>2. CASE method[c].deleteFirst
        <4>1. /\ cb'[c].step \in {"send", "close"}
              /\ cb'[c].role = cb[c].role /\ cb'[c].to = c
          BY <1>t, <3>1, <3>2 DEF Advance, AfterDelete, Callbacks
        <4> QED
          BY <1>0, <2>1, <2>3, <3>2, <4>1 DEF Stage, BeforeLibrary, InLibrary,
             Ending, NContexts
      <3>3. CASE ~method[c].deleteFirst
        <4>1. cb'[c] = NoCallback(c)
          BY <1>t, <3>1, <3>3 DEF Advance, AfterDelete
        <4> QED
          BY <1>0, <2>1, <2>3, <3>3, <4>1 DEF NoCallback, Stage,
             BeforeLibrary, InLibrary, Ending, NContexts
      <3> QED
        BY <3>2, <3>3
    <2> QED
      BY <2>2, <2>3
  <1> QED
    BY <1>1, <1>2, <1>3, <1>4, <1>5 DEF Callback

(* What has been stored has been drawn. *)
LEMMA StoredIsDrawn ==
    ASSUME IInv, NEW d \in Calls, NEW j \in 1 .. nstored[d]
    PROVE  j \in 1 .. Len(ctx[d]) /\ ctx[d][j] \in Nat
  <1>1. nstored[d] \in Nat /\ NContexts(d) \in Nat
    BY MethodFacts DEF IInv, TypeOK
  <1>2. nstored[d] # 0 /\ nstored[d] <= NContexts(d)
        /\ Len(ctx[d]) = NContexts(d)
    BY <1>1 DEF IInv, Sound, Stage
  <1>3. j \in 1 .. Len(ctx[d])
    BY <1>1, <1>2
  <1> QED
    BY <1>3 DEF IInv, TypeOK

(* A step that neither stores nor deletes leaves the pool in agreement     *)
(* with the calls: a call that is still drawing numbers has stored none.   *)
LEMMA PoolKept ==
    ASSUME IInv, NEW c \in Calls, Step(c),
           UNCHANGED <<pool, nstored, nfreed>>
    PROVE  StoredIsThere' /\ NothingElseIsThere'
  <1>1. \A d \in Calls : nstored[d] # 0 => ctx'[d] = ctx[d]
    <2>1. CASE AllocContext(c)
      <3>1. nstored[c] = 0
        BY <2>1 DEF AllocContext, IInv, Sound, Stage, TypeOK
      <3> QED
        BY <2>1, <3>1 DEF AllocContext, IInv, TypeOK
    <2>2. CASE UNCHANGED <<counter, ctx>>
      BY <2>2
    <2> QED
      BY <2>1, <2>2, Frames
  <1>2. method' = method
    BY Frames
  <1>3. \A d \in Calls : nstored[d] \in Nat
    BY DEF IInv, TypeOK
  <1>4. StoredIsThere'
    BY <1>1, <1>2, <1>3
    DEF IInv, Sound, StoredIsThere, Exists, Entry
  <1>5. NothingElseIsThere'
    <2> SUFFICES ASSUME NEW k \in DOMAIN pool
                 PROVE  /\ pool[k].slot \in 1 .. nstored[pool[k].call]
                        /\ nfreed[pool[k].call] < pool[k].slot
                        /\ ctx'[pool[k].call][pool[k].slot] = k
      BY DEF NothingElseIsThere
    <2>1. pool[k].call \in Calls
      BY DEF IInv, TypeOK, Entries
    <2>2. /\ pool[k].slot \in 1 .. nstored[pool[k].call]
          /\ nfreed[pool[k].call] < pool[k].slot
          /\ ctx[pool[k].call][pool[k].slot] = k
      BY DEF IInv, Sound, NothingElseIsThere
    <2>3. nstored[pool[k].call] # 0
      BY <1>3, <2>1, <2>2
    <2> QED
      BY <1>1, <2>1, <2>2, <2>3
  <1> QED
    BY <1>4, <1>5

(* Storing under a number of one's own disturbs no other entry. *)
LEMMA PoolStore ==
    ASSUME IInv, NEW c \in Calls, StoreContext(c)
    PROVE  StoredIsThere' /\ NothingElseIsThere'
  <1> DEFINE i == nstored[c] + 1
             key == ctx[c][i]
             entry == Entry(c, i)
  <1>1. /\ nstored[c] \in Nat /\ i \in 1 .. Len(ctx[c]) /\ key \in Nat
        /\ nfreed[c] = 0
    <2>1. NContexts(c) \in Nat
      BY MethodFacts DEF IInv
    <2> QED
      BY <2>1 DEF StoreContext, IInv, TypeOK, Sound, Stage, BeforeLibrary,
                  InLibrary, Ending
  <1>2. /\ pool' = [k \in DOMAIN pool \cup {key} |->
                        IF k = key THEN entry ELSE pool[k]]
        /\ nstored' = [nstored EXCEPT ![c] = i]
        /\ UNCHANGED <<ctx, nfreed, method>>
    BY DEF StoreContext, Store
  <1>3. \A d \in Calls : \A j \in 1 .. nstored[d] :
            ctx[d][j] # key
    <2> SUFFICES ASSUME NEW d \in Calls, NEW j \in 1 .. nstored[d],
                        ctx[d][j] = key
                 PROVE  FALSE
      OBVIOUS
    <2>1. j \in 1 .. Len(ctx[d])
      BY StoredIsDrawn
    <2>2. d = c /\ j = i
      BY <1>1, <2>1 DEF IInv, Sound, OwnNumbers
    <2> QED
      BY <1>1, <2>2
  <1>4. entry.call = c /\ entry.slot = i
    BY DEF Entry
  <1>5. StoredIsThere'
    <2> SUFFICES ASSUME NEW d \in Calls, NEW j \in 1 .. nstored'[d],
                        nfreed[d] < j
                 PROVE  ctx[d][j] \in DOMAIN pool' /\ pool'[ctx[d][j]] = Entry(d, j)
      BY <1>2 DEF StoredIsThere, Exists, Entry
    <2>1. CASE d = c /\ j = i
      BY <1>2, <2>1
    <2>2. CASE ~(d = c /\ j = i)
      <3>1. j \in 1 .. nstored[d]
        BY <1>1, <1>2, <2>2 DEF IInv, TypeOK
      <3>2. ctx[d][j] \in DOMAIN pool /\ pool[ctx[d][j]] = Entry(d, j)
        BY <3>1 DEF IInv, Sound, StoredIsThere, Exists
      <3>3. ctx[d][j] # key
        BY <1>3, <3>1
      <3> HIDE DEF key, entry
      <3> QED
        BY <1>2, <3>2, <3>3
    <2> QED
      BY <2>1, <2>2
  <1>6. NothingElseIsThere'
    <2> SUFFICES ASSUME NEW k \in DOMAIN pool'
                 PROVE  /\ pool'[k].slot \in 1 .. nstored'[pool'[k].call]
                        /\ nfreed[pool'[k].call] < pool'[k].slot
                        /\ ctx[pool'[k].call][pool'[k].slot] = k
      BY <1>2 DEF NothingElseIsThere
    <2>1. CASE k = key
      <3>1. pool'[k] = entry
        BY <1>2, <2>1
      <3>2. nstored'[c] = i
        BY <1>2 DEF IInv, TypeOK
      <3> QED
        BY <1>1, <1>4, <2>1, <3>1, <3>2
    <2>2. CASE k # key
      <3>1. k \in DOMAIN pool /\ pool'[k] = pool[k]
        BY <1>2, <2>2
      <3>2. pool[k].call \in Calls
        BY <3>1 DEF IInv, TypeOK, Entries
      <3>3. /\ pool[k].slot \in 1 .. nstored[pool[k].call]
            /\ nfreed[pool[k].call] < pool[k].slot
            /\ ctx[pool[k].call][pool[k].slot] = k
        BY <3>1 DEF IInv, Sound, NothingElseIsThere
      <3>4. \A d \in Calls : nstored[d] \in Nat /\ nstored'[d] \in Nat
                              /\ nstored[d] <= nstored'[d]
        <4>1. nstored \in [Calls -> Nat]
          BY DEF IInv, TypeOK
        <4> QED
          BY <1>1, <1>2, <4>1
      <3> QED
        BY <3>1, <3>2, <3>3, <3>4
    <2> QED
      BY <2>1, <2>2
  <1> QED
    BY <1>5, <1>6

(* Deleting removes the next entry of the call and no other. *)
LEMMA PoolDelete ==
    ASSUME IInv, NEW c \in Calls, DeleteContext(c)
    PROVE  StoredIsThere' /\ NothingElseIsThere'
  <1> DEFINE i == nfreed[c] + 1
             key == ctx[c][i]
  <1>0. cb[c].to = c /\ NContexts(c) \in Nat /\ nfreed[c] \in Nat
    BY MethodFacts DEF IInv, TypeOK, Sound, Stage
  <1>1. i \in 1 .. nstored[c]
    BY <1>0 DEF DeleteContext, IInv, Sound, Stage, BeforeLibrary,
                InLibrary, Ending
  <1>2. /\ pool' = [k \in DOMAIN pool \ {key} |-> pool[k]]
        /\ nfreed' = [nfreed EXCEPT ![c] = i]
        /\ UNCHANGED <<ctx, nstored, method>>
    BY <1>0 DEF DeleteContext, Delete, callVars
  <1>3. \A d \in Calls : /\ nfreed[d] \in Nat /\ nfreed'[d] \in Nat
                          /\ nfreed[d] <= nfreed'[d] /\ (d # c => nfreed'[d] = nfreed[d])
    BY <1>0, <1>2 DEF IInv, TypeOK
  <1>4. nfreed'[c] = i
    BY <1>2 DEF IInv, TypeOK
  <1>5. StoredIsThere'
    <2> SUFFICES ASSUME NEW d \in Calls, NEW j \in 1 .. nstored[d],
                        nfreed'[d] < j
                 PROVE  ctx[d][j] \in DOMAIN pool' /\ pool'[ctx[d][j]] = Entry(d, j)
      BY <1>2 DEF StoredIsThere, Exists, Entry
    <2>1. nfreed[d] < j
      BY <1>3
    <2>2. ctx[d][j] \in DOMAIN pool /\ pool[ctx[d][j]] = Entry(d, j)
      BY <2>1 DEF IInv, Sound, StoredIsThere, Exists
    <2>3. ctx[d][j] # key
      <3> SUFFICES ASSUME ctx[d][j] = key
                   PROVE  FALSE
        OBVIOUS
      <3>1. j \in 1 .. Len(ctx[d]) /\ i \in 1 .. Len(ctx[c])
        BY <1>1, StoredIsDrawn
      <3>2. d = c /\ j = i
        BY <3>1 DEF IInv, Sound, OwnNumbers
      <3> QED
        BY <1>0, <1>4, <3>2
    <2> HIDE DEF key
    <2> QED
      BY <1>2, <2>2, <2>3
  <1>6. NothingElseIsThere'
    <2> SUFFICES ASSUME NEW k \in DOMAIN pool'
                 PROVE  /\ pool'[k].slot \in 1 .. nstored[pool'[k].call]
                        /\ nfreed'[pool'[k].call] < pool'[k].slot
                        /\ ctx[pool'[k].call][pool'[k].slot] = k
      BY <1>2 DEF NothingElseIsThere
    <2>1. k \in DOMAIN pool /\ k # key /\ pool'[k] = pool[k]
      BY <1>2
    <2>2. pool[k].call \in Calls /\ pool[k].slot \in Nat
      BY <2>1 DEF IInv, TypeOK, Entries
    <2>3. /\ pool[k].slot \in 1 .. nstored[pool[k].call]
          /\ nfreed[pool[k].call] < pool[k].slot
          /\ ctx[pool[k].call][pool[k].slot] = k
      BY <2>1 DEF IInv, Sound, NothingElseIsThere
    <2>4. ~(pool[k].call = c /\ pool[k].slot = i)
      BY <2>1, <2>3
    <2>5. nfreed'[pool[k].call] < pool[k].slot
      BY <1>0, <1>3, <1>4, <2>2, <2>3, <2>4
    <2> QED
      BY <2>1, <2>3, <2>5
  <1> QED
    BY <1>5, <1>6

(* No caller's step and no reader's step ends the process. *)
LEMMA NoCrashElsewhere ==
    ASSUME NEW c \in Calls, Step(c), ~Callback(c)
    PROVE  crash' = crash
  BY DEF Step, Caller, AllocContext, RejectError, RejectPanic, StoreContext,
         CallLibrary, IndexPanic, Return, Start, StartResult,
         StartFinalSomewhere, StartFinal, Reader, Receive, SeeEnd, Abandon

(* Nothing has been drawn, stored or started at first. *)
LEMMA SoundInit == Init => Sound
  BY DEF Init, PoolInit, NoCallback, Sound, OwnNumbers, StoredIsThere,
         NothingElseIsThere, Stage, BeforeLibrary, NContexts

(* A step that changes nothing keeps the invariant. *)
LEMMA SoundStutter == Sound /\ UNCHANGED vars => Sound'
  BY DEF Sound, OwnNumbers, StoredIsThere, NothingElseIsThere, Stage,
         BeforeLibrary, InLibrary, Ending, NContexts, Exists, Entry, vars,
         poolVars, callVars, sinkVars

(* Every step of a live process keeps the invariant. *)
LEMMA SoundStep ==
    ASSUME IInv, crash = "none", NEW c \in Calls, Step(c)
    PROVE  Sound'
  <1>1. OwnNumbers'
    BY NumbersStep
  <1>2. StoredIsThere' /\ NothingElseIsThere'
    BY PoolKept, PoolStore, PoolDelete, Frames
  <1>3. Stage(c)' /\ crash' \notin {"missing", "closed"}
    BY StageCaller, StageStart, StageReader, StageCallback, NoCrashElsewhere
    DEF Step
  <1>4. \A d \in Calls : Stage(d)'
    BY <1>3, StageOthers
  <1> QED
    BY <1>1, <1>2, <1>3, <1>4 DEF Sound

(* The machinery of numbers, pool entries and callback stages is sound in  *)
(* every reachable state (pool.go, callback.go and the closures of the     *)
(* Session methods together).                                              *)
THEOREM Soundness == Spec => []Sound
  <1>1. Init => IInv
    BY TypeInit, SoundInit DEF IInv
  <1>2. IInv /\ [Next]_vars => IInv'
    <2> SUFFICES ASSUME IInv, [Next]_vars
                 PROVE  IInv'
      OBVIOUS
    <2>1. CASE UNCHANGED vars
      BY <2>1, TypeStutter, SoundStutter DEF IInv
    <2>2. ASSUME crash = "none", NEW c \in Calls, Step(c)
          PROVE  IInv'
      <3>1. TypeOK'
        BY <2>2, TypeCaller, TypeStart, TypeCallback, TypeReader
        DEF Step, IInv
      <3> QED
        BY <2>2, <3>1, SoundStep DEF IInv
    <2> QED
      BY <2>1, <2>2 DEF Next, Finished
  <1>3. IInv => Sound
    BY DEF IInv
  <1> QED
    BY <1>1, <1>2, <1>3, PTL DEF Spec

---------------------------------------------------------------------------
(* What follows from it *)

(* No callback of any method, in any interleaving of calls and I/O         *)
(* threads, panics because its context number is not in the pool           *)
(* (callback.go, "Unable to find session numbder").                        *)
THEOREM ContextsAreFound == Spec => []NoMissingContext
  <1>1. Sound => NoMissingContext
    BY DEF Sound, NoMissingContext
  <1> QED
    BY <1>1, Soundness, PTL

(* No callback sends on, or closes, a channel that onFinish has closed. *)
THEOREM ClosedOnceAndLast == Spec => []NoSendOnClosed
  <1>1. Sound => NoSendOnClosed
    BY DEF Sound, NoSendOnClosed
  <1> QED
    BY <1>1, Soundness, PTL

(* The closures and the data of a call stay reachable from the pool until  *)
(* the library has started its final callback.                             *)
THEOREM Pinned == Spec => []PinnedUntilFinal
  <1>1. TypeOK /\ Sound => PinnedUntilFinal
    <2> SUFFICES ASSUME TypeOK, Sound, NEW c \in Calls, lib[c] = "open"
                 PROVE  /\ Len(ctx[c]) = NContexts(c)
                        /\ \A i \in 1 .. NContexts(c) :
                              /\ Exists(ctx[c][i])
                              /\ pool[ctx[c][i]] = Entry(c, i)
      BY DEF PinnedUntilFinal
    <2>1. NContexts(c) \in Nat \ {0}
      BY MethodFacts
    <2>2. nstored[c] = NContexts(c) /\ nfreed[c] = 0
          /\ Len(ctx[c]) = NContexts(c)
      BY <2>1 DEF Sound, Stage, BeforeLibrary, InLibrary, Ending
    <2> QED
      BY <2>1, <2>2 DEF Sound, StoredIsThere
  <1> QED
    BY <1>1, TypeCorrect, Soundness, PTL

(* A call that is over has left nothing in the pool, except after a panic  *)
(* of &x[0], when it has left all of its contexts there; for any methods   *)
(* (RejectError, RejectPanic, IndexPanic and onFinish's deletions).        *)
THEOREM LeaksByIndexPanic == Spec => []LeaksOnlyByIndexPanic
  <1>1. TypeOK /\ Sound => LeaksOnlyByIndexPanic
    <2> SUFFICES ASSUME TypeOK, Sound, NEW c \in Calls, IsOver(c)
                 PROVE  {k \in DOMAIN pool : pool[k].call = c} =
                            IF pc[c] = "panicked" /\ nstored[c] # 0
                              THEN {ctx[c][i] : i \in 1 .. NContexts(c)}
                              ELSE {}
      BY DEF LeaksOnlyByIndexPanic
    <2>1. /\ Stage(c) /\ NContexts(c) \in Nat
          /\ nstored[c] \in Nat /\ nfreed[c] \in Nat
      BY MethodFacts DEF TypeOK, Sound
    <2>2. ASSUME NEW k \in DOMAIN pool, pool[k].call = c
          PROVE  /\ pool[k].slot \in 1 .. nstored[c]
                 /\ nfreed[c] < pool[k].slot
                 /\ ctx[c][pool[k].slot] = k
      BY <2>2 DEF Sound, NothingElseIsThere
    <2>3. CASE pc[c] = "panicked" /\ nstored[c] # 0
      <3>1. nstored[c] = NContexts(c) /\ nfreed[c] = 0
        BY <2>1, <2>3 DEF Stage, BeforeLibrary, InLibrary, Ending
      <3>2. ASSUME NEW i \in 1 .. NContexts(c)
            PROVE  ctx[c][i] \in DOMAIN pool /\ pool[ctx[c][i]].call = c
        <4>1. i \in 1 .. nstored[c] /\ nfreed[c] < i
          BY <2>1, <3>1
        <4>2. Exists(ctx[c][i]) /\ pool[ctx[c][i]] = Entry(c, i)
          BY <4>1 DEF Sound, StoredIsThere
        <4> QED
          BY <4>2 DEF Exists, Entry
      <3> QED
        BY <2>1, <2>2, <2>3, <3>1, <3>2
    <2>4. CASE ~(pc[c] = "panicked" /\ nstored[c] # 0)
      <3>1. nstored[c] = 0 \/ nfreed[c] = nstored[c]
        BY <2>1, <2>4 DEF IsOver, Stage, BeforeLibrary, InLibrary, Ending
      <3>2. \A k \in DOMAIN pool : pool[k].call # c
        BY <2>1, <2>2, <3>1
      <3> QED
        BY <2>4, <3>2
    <2> QED
      BY <2>3, <2>4
  <1> QED
    BY <1>1, TypeCorrect, Soundness, PTL

(* If every method stores under a number the very type that the callback   *)
(* handed that number asserts, no callback panics on a type assertion.     *)
(* (write and cache do not: the hypothesis is what a fix has to establish.)*)
THEOREM TypesAgree ==
    ASSUME \A m \in Methods :
              /\ m.result # "none" => m.stored[1] = m.result
              /\ m.stored[m.finalSlot] = m.final
    PROVE  Spec => []NoTypePanic
  <1>1. Init => NoTypePanic
    BY DEF Init, NoTypePanic
  <1>2. TypeOK /\ Sound /\ NoTypePanic /\ [Next]_vars => NoTypePanic'
    <2> SUFFICES ASSUME TypeOK, Sound, NoTypePanic, [Next]_vars
                 PROVE  NoTypePanic'
      OBVIOUS
    <2>1. CASE UNCHANGED vars
      BY <2>1 DEF vars, NoTypePanic
    <2>2. ASSUME crash = "none", NEW c \in Calls, Step(c)
          PROVE  NoTypePanic'
      <3>1. CASE Get(c)
        <4>1. cb[c].step = "get"
          BY <3>1 DEF Get
        <4>2. /\ Exists(ctx[c][Slot(c)])
              /\ pool[ctx[c][Slot(c)]] = Entry(c, Slot(c))
          BY <4>1, GetFinds DEF IInv
        <4>3. method[c] \in Methods
          BY DEF TypeOK
        <4>4. method[c].stored[Slot(c)] = Asserted(c)
          <5>1. Stage(c)
            BY DEF Sound
          <5>2. cb[c].role = "result" => method[c].result # "none"
            BY <4>1, <5>1 DEF Stage, BeforeLibrary, InLibrary, Ending
          <5> QED
            BY <4>3, <5>2 DEF Slot, Asserted
        <4>5. Entry(c, Slot(c)).type = Asserted(c)
          BY <4>4 DEF Entry
        <4> QED
          BY <2>2, <3>1, <4>2, <4>5 DEF Get, NoTypePanic
      <3>2. CASE Callback(c) /\ ~Get(c)
        BY <2>2, <3>2 DEF Callback, DropResult, Send, Close, DeleteContext,
                          NoTypePanic
      <3>3. CASE ~Callback(c)
        BY <2>2, <3>3, NoCrashElsewhere DEF NoTypePanic
      <3> QED
        BY <3>1, <3>2, <3>3
    <2> QED
      BY <2>1, <2>2 DEF Next, Finished
  <1> QED
    BY <1>1, <1>2, TypeCorrect, Soundness, PTL DEF Spec

=============================================================================
