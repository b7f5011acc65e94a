------------------------------ MODULE AsyncOps ------------------------------
(***************************************************************************)
(* The life of asynchronous Session calls, from the Go method to the last  *)
(* value on its response channel.                                          *)
(*                                                                         *)
(* Actors:                                                                 *)
(*   - one goroutine per call: it draws and stores contexts, enters C++,   *)
(*     returns with a channel and reads it (or walks away from it);        *)
(*   - the I/O threads of the elliptics client library, which run the      *)
(*     exported Go callbacks; a callback that blocks keeps its thread.     *)
(*                                                                         *)
(* What is assumed of the library (external code, as session.cpp uses it): *)
(* the handlers given to connect() are run one at a time for each call,    *)
(* any number of per-result calls first and then the final one exactly     *)
(* once; answers that arrived before connect() are delivered by connect()  *)
(* itself, on the goroutine that is still inside the Session method.       *)
(***************************************************************************)
EXTENDS ContextPool, Sequences

CONSTANTS
    Calls,       \* calls made during the life of the process
    Threads,     \* I/O threads of the client library
    Methods,     \* the methods the calls may invoke (SessionMethods)
    Volume,      \* defaultVOLUME: capacity of a response channel
    MaxResults,  \* bound: per-result callbacks of one call
    MaxEarly,    \* bound: of these, how many connect() may deliver itself
    MayAbandon   \* whether a caller may stop reading its channel

(* The shape every method record must have. *)
WellFormed(m) ==
    /\ m.stored \in Seq(STRING) /\ Len(m.stored) \in Nat \ {0}
    /\ m.finalSlot \in 1 .. Len(m.stored)
    /\ m.rejectAt \in 0 .. Len(m.stored)
    /\ m.result \in STRING /\ m.final \in STRING
    /\ m.deleteFirst \in BOOLEAN /\ m.answers \in BOOLEAN
    /\ m.drops \in BOOLEAN /\ m.first \in BOOLEAN
    /\ m.sink \in {"chan", "func"}
    /\ m.reject \subseteq {"error", "panic"}

ASSUME MethodsAssumption == \A m \in Methods : WellFormed(m)
ASSUME BoundsAssumption ==
    /\ Volume \in Nat \ {0}
    /\ MaxResults \in Nat
    /\ MaxEarly \in Nat
    /\ MayAbandon \in BOOLEAN

VARIABLES
    method,     \* the method each call invokes
    pc,         \* where the caller's goroutine is
    ctx,        \* context numbers the call has drawn, in order
    nstored,    \* how many of them it has stored
    nfreed,     \* how many of them its onFinish has deleted
    lib,        \* the library's side: "none", "open", then how it ended,
                \* "succeeded" or "failed"
    nresults,   \* per-result callbacks the library has started
    cb,         \* the callback running for the call
    chan,       \* buffered values of the response channel
    closed,     \* the response channel is closed
    got,        \* values the caller has received
    consumer,   \* "reading", "done" (saw the close) or "gone"
    crash       \* why the process died: "none" while it lives

callVars == <<method, pc, ctx, nstored, lib>>
sinkVars == <<chan, closed, got, consumer>>
vars == <<poolVars, callVars, nfreed, nresults, cb, sinkVars, crash>>

---------------------------------------------------------------------------

NContexts(c) == Len(method[c].stored)

(* What call c keeps in the pool under its i-th number. *)
Entry(c, i) == [call |-> c, slot |-> i, type |-> method[c].stored[i]]

(* No callback is running for c. *)
NoCallback(c) ==
    [step |-> "idle", role |-> "result", by |-> "caller", to |-> c]

Item(c, k) == [call |-> c, n |-> nresults[c] + 1, kind |-> k]

Idle(t) == \A c \in Calls : cb[c].step = "idle" \/ cb[c].by # t

(* A send: into the channel, or straight into the caller's function. *)
Deliver(d, item) ==
    IF method[d].sink = "chan"
      THEN /\ chan' = [chan EXCEPT ![d] = Append(@, item)]
           /\ UNCHANGED got
      ELSE /\ got' = [got EXCEPT ![d] = Append(@, item)]
           /\ UNCHANGED chan

(* A channel has room; a function always takes the value. *)
CanSend(d) == method[d].sink = "func" \/ Len(chan[d]) < Volume

Init ==
    /\ PoolInit
    /\ method \in [Calls -> Methods]
    /\ pc = [c \in Calls |-> "setup"]
    /\ ctx = [c \in Calls |-> << >>]
    /\ nstored = [c \in Calls |-> 0]
    /\ nfreed = [c \in Calls |-> 0]
    /\ lib = [c \in Calls |-> "none"]
    /\ nresults = [c \in Calls |-> 0]
    /\ cb = [c \in Calls |-> NoCallback(c)]
    /\ chan = [c \in Calls |-> << >>]
    /\ closed = [c \in Calls |-> FALSE]
    /\ got = [c \in Calls |-> << >>]
    /\ consumer = [c \in Calls |-> "reading"]
    /\ crash = "none"

---------------------------------------------------------------------------
(* The caller's goroutine inside the Session method *)

(* onResultContext := NextContext() and its siblings. *)
AllocContext(c) ==
    /\ pc[c] = "setup"
    /\ Len(ctx[c]) < NContexts(c)
    /\ counter' = NextContext
    /\ ctx' = [ctx EXCEPT ![c] = Append(@, NextContext)]
    /\ UNCHANGED <<pool, method, pc, nstored, lib, nfreed, nresults, cb,
                   sinkVars, crash>>

(* Argument conversion fails with an error: a channel (or onResult) with   *)
(* that one error, closed; nothing has been stored.                        *)
RejectError(c) ==
    /\ pc[c] = "setup"
    /\ Len(ctx[c]) = method[c].rejectAt
    /\ nstored[c] = 0
    /\ "error" \in method[c].reject
    /\ Deliver(c, Item(c, "error"))
    /\ closed' = [closed EXCEPT ![c] = TRUE]
    /\ pc' = [pc EXCEPT ![c] = "returned"]
    /\ UNCHANGED <<poolVars, method, ctx, nstored, lib, nfreed, nresults, cb,
                   consumer, crash>>

(* Argument conversion fails with a panic on the caller's goroutine. *)
RejectPanic(c) ==
    /\ pc[c] = "setup"
    /\ Len(ctx[c]) = method[c].rejectAt
    /\ nstored[c] = 0
    /\ "panic" \in method[c].reject
    /\ pc' = [pc EXCEPT ![c] = "panicked"]
    /\ UNCHANGED <<poolVars, method, ctx, nstored, lib, nfreed, nresults, cb,
                   sinkVars, crash>>

(* Pool.Store of the next closure (or of the data to keep alive). *)
StoreContext(c) ==
    LET i == nstored[c] + 1 IN
    /\ pc[c] = "setup"
    /\ Len(ctx[c]) = NContexts(c)
    /\ i <= NContexts(c)
    /\ Store(ctx[c][i], Entry(c, i))
    /\ nstored' = [nstored EXCEPT ![c] = i]
    /\ UNCHANGED <<counter, method, pc, ctx, lib, nfreed, nresults, cb,
                   sinkVars, crash>>

(* Slip: the library is called before the last context is stored. *)
CallLibrary_Early(c) ==
    /\ pc[c] = "setup"
    /\ Len(ctx[c]) = NContexts(c)
    /\ pc' = [pc EXCEPT ![c] = "calling"]
    /\ lib' = [lib EXCEPT ![c] = "open"]
    /\ UNCHANGED <<poolVars, method, ctx, nstored, nfreed, nresults, cb,
                   sinkVars, crash>>

(* The C.session_... call: the request is out and connect() is running. *)
CallLibrary(c) ==
    /\ pc[c] = "setup"
    /\ nstored[c] = NContexts(c)
    /\ pc' = [pc EXCEPT ![c] = "calling"]
    /\ lib' = [lib EXCEPT ![c] = "open"]
    /\ UNCHANGED <<poolVars, method, ctx, nstored, nfreed, nresults, cb,
                   sinkVars, crash>>

(* &x[0] of an empty slice, evaluated as an argument of that call. *)
IndexPanic(c) ==
    /\ pc[c] = "setup"
    /\ nstored[c] = NContexts(c)
    /\ method[c].first
    /\ pc' = [pc EXCEPT ![c] = "panicked"]
    /\ UNCHANGED <<poolVars, method, ctx, nstored, lib, nfreed, nresults, cb,
                   sinkVars, crash>>

(* connect() is through and has handed the request over to the threads.    *)
(* What is left of the method, up to the caller's having the channel,      *)
(* touches nothing; it only delays the first Receive.                      *)
Return(c) ==
    /\ pc[c] = "calling"
    /\ cb[c].step = "idle"
    /\ pc' = [pc EXCEPT ![c] = "returned"]
    /\ UNCHANGED <<poolVars, method, ctx, nstored, lib, nfreed, nresults, cb,
                   sinkVars, crash>>

---------------------------------------------------------------------------
(* The library starts a callback: inside connect() on the caller's own     *)
(* goroutine, afterwards on an I/O thread with nothing else to do.         *)

MayRun(c, t) ==
    \/ pc[c] = "calling" /\ t = "caller"
    \/ pc[c] = "returned" /\ t \in Threads /\ Idle(t)

StartResult(c, t) ==
    /\ lib[c] = "open"
    /\ cb[c].step = "idle"
    /\ MayRun(c, t)
    /\ method[c].result # "none"
    /\ nresults[c] < (IF t = "caller" THEN MaxEarly ELSE MaxResults)
    /\ nresults' = [nresults EXCEPT ![c] = @ + 1]
    /\ cb' = [cb EXCEPT ![c] =
                [step |-> "get", role |-> "result", by |-> t, to |-> c]]
    /\ UNCHANGED <<poolVars, callVars, nfreed, sinkVars, crash>>

StartFinal(c, t, outcome) ==
    /\ lib[c] = "open"
    /\ cb[c].step = "idle"
    /\ MayRun(c, t)
    /\ lib' = [lib EXCEPT ![c] = outcome]
    /\ cb' = [cb EXCEPT ![c] =
                [step |-> "get", role |-> "final", by |-> t, to |-> c]]
    /\ UNCHANGED <<poolVars, method, pc, ctx, nstored, nfreed, nresults,
                   sinkVars, crash>>

---------------------------------------------------------------------------
(* The exported Go callback and the closure it finds in the pool *)

(* Slip: the two context numbers are passed to C++ in the wrong order. *)
Slot_Swapped(c) == IF cb[c].role = "result" THEN method[c].finalSlot ELSE 1

(* Which of the call's numbers C++ hands the callback. *)
Slot(c) == IF cb[c].role = "result" THEN 1 ELSE method[c].finalSlot

Asserted(c) == IF cb[c].role = "result" THEN method[c].result
                                        ELSE method[c].final

(* Slip: onFinish ignores its error. *)
HasAnswer_IgnoresError(c) == cb[c].role = "result" \/ method[c].answers

(* onFinish has something to send: the error, or always for the methods    *)
(* whose final callback carries the answer.                                *)
HasAnswer(c) ==
    \/ cb[c].role = "result"
    \/ lib[c] = "failed"
    \/ method[c].answers

(* The order of the statements of onResult and onFinish. *)
AfterGet(c) ==
    IF cb[c].role = "final" /\ method[c].deleteFirst THEN "delete"
    ELSE IF HasAnswer(c) THEN "send" ELSE "close"

(* Slips: onResult closes the channel, or deletes the contexts, as         *)
(* onFinish does.                                                          *)
AfterSend_Closes(c) == "close"
AfterSend_Deletes(c) == IF cb[c].role = "result" THEN "delete" ELSE "close"

AfterSend(c) == IF cb[c].role = "result" THEN "idle" ELSE "close"

(* Slips: onFinish never deletes the contexts; the error branch closes     *)
(* and does not return.                                                    *)
AfterClose_NoDelete(c) == "idle"
AfterClose_Again(c) == IF lib[c] = "failed" THEN "close" ELSE "delete"

AfterClose(c) == IF method[c].deleteFirst THEN "idle" ELSE "delete"

AfterDelete(c) ==
    IF ~method[c].deleteFirst THEN "idle"
    ELSE IF HasAnswer(c) THEN "send" ELSE "close"

(* Slip: one Pool.Delete is missing. *)
ToDelete_OneLess(c) == NContexts(c) - 1

(* How many contexts onFinish deletes. *)
ToDelete(c) == NContexts(c)

(* The callback goes on to its next statement, or returns. *)
Advance(c, step) ==
    cb' = [cb EXCEPT ![c] = IF step = "idle" THEN NoCallback(c)
                                             ELSE [@ EXCEPT !.step = step]]

(* The exported callback up to its call of the closure.  It panics when    *)
(* the number is not in the pool and when the value found is of another    *)
(* type than the one it asserts; otherwise the closure runs, for the call  *)
(* that stored it.                                                         *)
Get(c) ==
    LET key == ctx[c][Slot(c)] IN
    /\ cb[c].step = "get"
    /\ IF ~Exists(key)
         THEN crash' = "missing" /\ UNCHANGED cb
       ELSE IF pool[key].type # Asserted(c)
         THEN crash' = "type" /\ UNCHANGED cb
       ELSE /\ cb' = [cb EXCEPT ![c] = [@ EXCEPT !.step = AfterGet(c),
                                                !.to = pool[key].call]]
            /\ UNCHANGED crash
    /\ UNCHANGED <<poolVars, callVars, nfreed, nresults, sinkVars>>

(* onResult of the bulk methods returns without sending when Find fails    *)
(* or, in BulkRemove, when the status is zero.                             *)
DropResult(c) ==
    /\ cb[c].step = "send"
    /\ cb[c].role = "result"
    /\ method[cb[c].to].drops
    /\ Advance(c, "idle")
    /\ UNCHANGED <<poolVars, callVars, nfreed, nresults, sinkVars, crash>>

(* responseCh <- value: waits for room; panics if the channel is closed.   *)
Send(c) ==
    LET d == cb[c].to
        item == IF cb[c].role = "result"
                  THEN [call |-> c, n |-> nresults[c], kind |-> "result"]
                ELSE Item(c, IF lib[c] = "failed" THEN "error" ELSE "status")
    IN
    /\ cb[c].step = "send"
    /\ IF closed[d]
         THEN crash' = "closed" /\ UNCHANGED <<chan, got, cb>>
         ELSE /\ CanSend(d)
              /\ Deliver(d, item)
              /\ Advance(c, AfterSend(c))
              /\ UNCHANGED crash
    /\ UNCHANGED <<poolVars, callVars, nfreed, nresults, closed, consumer>>

(* close(responseCh): panics if it is closed already. *)
Close(c) ==
    LET d == cb[c].to IN
    /\ cb[c].step = "close"
    /\ IF closed[d]
         THEN crash' = "closed" /\ UNCHANGED <<closed, cb>>
         ELSE /\ closed' = [closed EXCEPT ![d] = TRUE]
              /\ Advance(c, AfterClose(c))
              /\ UNCHANGED crash
    /\ UNCHANGED <<poolVars, callVars, nfreed, nresults, chan, got, consumer>>

(* Pool.Delete of the next context, in the order they were drawn. *)
DeleteContext(c) ==
    LET d == cb[c].to
        i == nfreed[d] + 1
    IN
    /\ cb[c].step = "delete"
    /\ Delete(ctx[d][i])
    /\ nfreed' = [nfreed EXCEPT ![d] = i]
    /\ Advance(c, IF i < ToDelete(d) THEN "delete" ELSE AfterDelete(c))
    /\ UNCHANGED <<counter, callVars, nresults, sinkVars, crash>>

---------------------------------------------------------------------------
(* The caller's goroutine after the method returned *)

Receive(c) ==
    /\ pc[c] = "returned"
    /\ consumer[c] = "reading"
    /\ chan[c] # << >>
    /\ got' = [got EXCEPT ![c] = Append(@, Head(chan[c]))]
    /\ chan' = [chan EXCEPT ![c] = Tail(@)]
    /\ UNCHANGED <<poolVars, callVars, nfreed, nresults, cb, closed, consumer,
                   crash>>

(* The receive that returns ok = false, or onResult having been called. *)
SeeEnd(c) ==
    /\ pc[c] = "returned"
    /\ consumer[c] = "reading"
    /\ chan[c] = << >>
    /\ closed[c]
    /\ consumer' = [consumer EXCEPT ![c] = "done"]
    /\ UNCHANGED <<poolVars, callVars, nfreed, nresults, cb, chan, closed, got,
                   crash>>

(* The caller stops reading early, as StreamHTTP does after its first good *)
(* result and the single receive of the package's Remove example does.     *)
Abandon(c) ==
    /\ MayAbandon
    /\ pc[c] = "returned"
    /\ consumer[c] = "reading"
    /\ consumer' = [consumer EXCEPT ![c] = "gone"]
    /\ UNCHANGED <<poolVars, callVars, nfreed, nresults, cb, chan, closed, got,
                   crash>>

---------------------------------------------------------------------------

Caller(c) ==
    \/ AllocContext(c) \/ RejectError(c) \/ RejectPanic(c)
    \/ StoreContext(c) \/ CallLibrary(c) \/ IndexPanic(c) \/ Return(c)

StartFinalSomewhere(c) ==
    \E t \in Threads \cup {"caller"}, outcome \in {"succeeded", "failed"} :
        StartFinal(c, t, outcome)

Start(c) ==
    \/ \E t \in Threads \cup {"caller"} : StartResult(c, t)
    \/ StartFinalSomewhere(c)

Callback(c) ==
    \/ Get(c) \/ DropResult(c) \/ Send(c) \/ Close(c) \/ DeleteContext(c)

Reader(c) == Receive(c) \/ SeeEnd(c)

(* Everything is over for c: nothing is owed to it and nobody waits. *)
Over(c) ==
    \/ pc[c] = "panicked"
    \/ /\ pc[c] = "returned"
       /\ lib[c] # "open"
       /\ cb[c].step = "idle"
       /\ consumer[c] # "reading"

(* The process died, or every call is over: the model stutters. *)
Finished ==
    /\ crash # "none" \/ \A c \in Calls : Over(c)
    /\ UNCHANGED vars

Step(c) == Caller(c) \/ Start(c) \/ Callback(c) \/ Reader(c) \/ Abandon(c)

Next ==
    \/ crash = "none" /\ \E c \in Calls : Step(c)
    \/ Finished

Spec == Init /\ [][Next]_vars

(***************************************************************************)
(* Fairness.  Goroutines and library threads that can run do run; a caller *)
(* that neither left nor saw the end keeps reading; and the library ends   *)
(* every request, because node.cpp configures wait_timeout and a request   *)
(* without an answer is finished with an error when it expires.  Nothing   *)
(* is assumed about results: the library may deliver none.                 *)
(***************************************************************************)
Alive(A) == crash = "none" /\ A

Fairness ==
    \A c \in Calls :
        /\ WF_vars(Alive(Caller(c)))
        /\ WF_vars(Alive(StartFinalSomewhere(c)))
        /\ WF_vars(Alive(Callback(c)))
        /\ WF_vars(Alive(Reader(c)))

FairSpec == Spec /\ Fairness

---------------------------------------------------------------------------
(* Properties *)

Items == [call : Calls, n : Nat, kind : {"result", "error", "status"}]

Entries == [call : Calls, slot : Nat, type : STRING]

Callbacks ==
    [step : {"idle", "get", "send", "close", "delete"},
     role : {"result", "final"}, by : Threads \cup {"caller"}, to : Calls]

(* Every variable has its type; in particular context number 0, the one a  *)
(* forgotten argument would have, is never handed out.                     *)
TypeOK ==
    /\ counter \in Nat
    /\ DOMAIN pool \subseteq Nat \ {0}
    /\ \A k \in DOMAIN pool : pool[k] \in Entries
    /\ method \in [Calls -> Methods]
    /\ pc \in [Calls -> {"setup", "calling", "returned", "panicked"}]
    /\ ctx \in [Calls -> Seq(Nat \ {0})]
    /\ nstored \in [Calls -> Nat]
    /\ nfreed \in [Calls -> Nat]
    /\ lib \in [Calls -> {"none", "open", "succeeded", "failed"}]
    /\ nresults \in [Calls -> Nat]
    /\ cb \in [Calls -> Callbacks]
    /\ chan \in [Calls -> Seq(Items)]
    /\ closed \in [Calls -> BOOLEAN]
    /\ got \in [Calls -> Seq(Items)]
    /\ consumer \in [Calls -> {"reading", "done", "gone"}]
    /\ crash \in {"none", "missing", "type", "closed"}

(* No callback ever finds its context gone: onFinish deletes the contexts  *)
(* only when the library can name them no more, and no two calls share a   *)
(* number (the panics of callback.go).                                     *)
NoMissingContext == crash # "missing"

(* No callback sends on or closes a channel that is closed: the close of   *)
(* onFinish comes after the last result and happens once.                  *)
NoSendOnClosed == crash # "closed"

(* Every callback finds a value of the type it asserts. *)
NoTypePanic == crash # "type"

(* While the library owes the call its final callback, every closure of    *)
(* the call, and the data it is writing from, is reachable from the pool   *)
(* under the number the library was given.                                 *)
PinnedUntilFinal ==
    \A c \in Calls : lib[c] = "open" =>
        /\ Len(ctx[c]) = NContexts(c)
        /\ \A i \in 1 .. NContexts(c) :
              /\ Exists(ctx[c][i])
              /\ pool[ctx[c][i]] = Entry(c, i)

(* The goroutine has left the method and the library is through with c. *)
IsOver(c) ==
    /\ pc[c] \in {"returned", "panicked"}
    /\ lib[c] # "open"
    /\ cb[c].step = "idle"

(* A call that has ended, with its final callback, with an error or with a *)
(* panic before it stored anything, has left nothing in the pool.  The one *)
(* exception is &x[0] of an empty slice, which panics when everything is   *)
(* stored already: all of it stays for ever (session.go:484, 1072).        *)
LeaksOnlyByIndexPanic ==
    \A c \in Calls : IsOver(c) =>
        {k \in DOMAIN pool : pool[k].call = c} =
            IF pc[c] = "panicked" /\ nstored[c] # 0
              THEN {ctx[c][i] : i \in 1 .. NContexts(c)} ELSE {}

(* What a caller has received and what its channel still holds. *)
Stream(c) == got[c] \o chan[c]

(* What a caller receives is its own, in the order the library delivered   *)
(* it, and the error (or the answer) of the whole operation is the last    *)
(* value: no closure ever reaches another call's channel and no result     *)
(* follows the end.                                                        *)
OwnInOrderEndLast ==
    \A c \in Calls : LET s == Stream(c) IN
        /\ \A i \in 1 .. Len(s) : s[i].call = c
        /\ \A i, j \in 1 .. Len(s) : i < j => s[i].n < s[j].n
        /\ \A i \in 1 .. Len(s) : s[i].kind # "result" => i = Len(s)

(* A caller that reaches the end of a closed channel was told everything:  *)
(* every result the library delivered (unless the method drops some) and   *)
(* an error exactly when the operation failed.                             *)
CloseIsFaithful ==
    \A c \in Calls : closed[c] /\ lib[c] \in {"succeeded", "failed"} =>
        LET s == Stream(c) IN
        /\ method[c].drops \/ \A n \in 1 .. nresults[c] :
               \E i \in 1 .. Len(s) : s[i].n = n /\ s[i].kind = "result"
        /\ lib[c] = "failed" <=>
               \E i \in 1 .. Len(s) : s[i].kind = "error"

(* A value of c's stream is a closing one. *)
Concluded(c) == \E i \in 1 .. Len(Stream(c)) : Stream(c)[i].kind # "result"

(* The channels of AsyncOps are result streams as their callers see them.  *)
DirectBar == [c \in Calls |-> method[c].sink = "func"]
SentBar == [c \in Calls |-> Stream(c)]
TakenBar == [c \in Calls |-> Len(got[c])]
StateBar == [c \in Calls |-> IF closed[c] THEN "closed"
                             ELSE IF Concluded(c) THEN "ending" ELSE "open"]

Streams == INSTANCE ResultStream WITH
    Numbers <- 1 .. MaxResults + MaxEarly + 1,
    direct <- DirectBar, sent <- SentBar, taken <- TakenBar, state <- StateBar

(* Every run of the machinery of contexts and callbacks is a run of the    *)
(* plain streams the package documents.                                    *)
ImplementsStreams == Streams!Spec

(* A request handed to the library leads to the end of the response        *)
(* channel and to the release of the contexts.                             *)
Ends(c) == closed[c] /\ nfreed[c] = NContexts(c)
RequestsEnd == \A c \in Calls : lib[c] = "open" ~> Ends(c)

(* A callback has a value for a full channel that nobody reads: the caller *)
(* has walked away, or is itself the one that runs the callback, inside    *)
(* connect(), and gets the channel only when it is back.  It never ends.   *)
Stuck(c) ==
    /\ cb[c].step = "send"
    /\ ~CanSend(c)
    /\ pc[c] = "calling" \/ consumer[c] = "gone"

(* What can keep call c from its end: it is stuck itself, or somebody else *)
(* is who keeps an I/O thread.  A call stuck in connect() keeps none.      *)
Jammed(c) == Stuck(c) \/ \E d \in Calls : Stuck(d) /\ cb[d].by \in Threads

(* Callers may walk away without harm to themselves or to others as long   *)
(* as what is left unread fits the channel, and a method that never comes  *)
(* back from connect() harms nobody else: every request ends unless one of *)
(* its own callbacks, or one on a thread, waits at a full channel that     *)
(* nobody reads (session.go:43-47, 295).                                   *)
RequestsEndUnlessJammed ==
    \A c \in Calls : lib[c] = "open" ~> Ends(c) \/ Jammed(c)

(* A caller that keeps reading sees the end of its channel, with more      *)
(* results than the channel holds and a single thread for all calls, with  *)
(* the same exceptions.                                                    *)
ReadersFinish ==
    \A c \in Calls :
        lib[c] = "open" ~> consumer[c] \in {"done", "gone"} \/ Jammed(c)

(* A Session method whose request went out returns to its caller, whatever *)
(* becomes of the other calls, unless connect() itself has more for the    *)
(* response channel than that holds: then the method has filled a channel  *)
(* its caller does not have yet, and waits for ever (session.go:295, 317). *)
ReturnsUnlessOverfull ==
    \A c \in Calls :
        pc[c] = "calling" ~>
            pc[c] = "returned" \/ (Stuck(c) /\ cb[c].by = "caller")

---------------------------------------------------------------------------
(* The inductive invariant behind the safety properties: who owns which    *)
(* number, what the pool holds, and how far a call and its callback have   *)
(* come.  AsyncOpsProofs proves it.                                        *)

(* Numbers are never drawn twice. *)
OwnNumbers ==
    /\ \A c \in Calls : \A i \in 1 .. Len(ctx[c]) : ctx[c][i] <= counter
    /\ \A c, d \in Calls :
          \A i \in 1 .. Len(ctx[c]), j \in 1 .. Len(ctx[d]) :
              ctx[c][i] = ctx[d][j] => c = d /\ i = j

(* What was stored and not yet deleted is in the pool. *)
StoredIsThere ==
    \A c \in Calls : \A i \in 1 .. nstored[c] :
        nfreed[c] < i => Exists(ctx[c][i]) /\ pool[ctx[c][i]] = Entry(c, i)

(* And nothing else is. *)
NothingElseIsThere ==
    \A k \in DOMAIN pool : LET e == pool[k] IN
        /\ e.slot \in 1 .. nstored[e.call]
        /\ nfreed[e.call] < e.slot
        /\ ctx[e.call][e.slot] = k

BeforeLibrary(c) ==
    /\ lib[c] = "none"
    /\ cb[c].step = "idle"
    /\ nfreed[c] = 0
    /\ \/ pc[c] = "setup" /\ ~closed[c]
       \/ pc[c] = "returned" /\ nstored[c] = 0
       \/ /\ pc[c] = "panicked"
          /\ \/ nstored[c] = 0
             \/ nstored[c] = NContexts(c) /\ method[c].first

InLibrary(c) ==
    /\ lib[c] = "open"
    /\ pc[c] \in {"calling", "returned"}
    /\ nstored[c] = NContexts(c)
    /\ nfreed[c] = 0
    /\ ~closed[c]
    /\ \/ cb[c].step = "idle"
       \/ /\ cb[c].step \in {"get", "send"}
          /\ cb[c].role = "result"
          /\ method[c].result # "none"

(* The final callback has started: how far onFinish is. *)
Ending(c) ==
    /\ lib[c] \in {"succeeded", "failed"}
    /\ pc[c] \in {"calling", "returned"}
    /\ nstored[c] = NContexts(c)
    /\ \/ /\ cb[c].step = "idle"
          /\ closed[c] /\ nfreed[c] = NContexts(c)
       \/ /\ cb[c].step = "get" /\ cb[c].role = "final"
          /\ ~closed[c] /\ nfreed[c] = 0
       \/ /\ cb[c].step \in {"send", "close"} /\ cb[c].role = "final"
          /\ ~closed[c]
          /\ nfreed[c] = (IF method[c].deleteFirst THEN NContexts(c) ELSE 0)
       \/ /\ cb[c].step = "delete" /\ cb[c].role = "final"
          /\ closed[c] <=> ~method[c].deleteFirst
          /\ nfreed[c] < NContexts(c)

Stage(c) ==
    /\ cb[c].to = c
    /\ Len(ctx[c]) <= NContexts(c)
    /\ nstored[c] <= NContexts(c)
    /\ nstored[c] # 0 => Len(ctx[c]) = NContexts(c)
    /\ BeforeLibrary(c) \/ InLibrary(c) \/ Ending(c)

(* The machinery is sound: the parts above together. *)
Sound ==
    /\ OwnNumbers
    /\ StoredIsThere
    /\ NothingElseIsThere
    /\ \A c \in Calls : Stage(c)
    /\ crash \notin {"missing", "closed"}

---------------------------------------------------------------------------
(* The same for the streams: what OwnInOrderEndLast, CloseIsFaithful and   *)
(* ImplementsStreams need.  StreamProofs proves it.                        *)

(* Some value of the stream s is of one of the kinds. *)
Holds(s, kinds) == \E i \in 1 .. Len(s) : s[i].kind \in kinds

(* s is made of call c's values, numbered by the first h result callbacks, *)
(* and a closing value is the last.                                        *)
Numbered(s, c, h) ==
    /\ \A i \in 1 .. Len(s) : s[i].call = c /\ s[i].n \in 1 .. h + 1
    /\ \A i \in 1 .. Len(s) : s[i].kind = "result" => s[i].n <= h
    /\ \A i, j \in 1 .. Len(s) : i < j => s[i].n < s[j].n
    /\ \A i \in 1 .. Len(s) : s[i].kind # "result" => i = Len(s)

(* s has the results of all of the first h result callbacks. *)
AllThere(s, h) ==
    \A n \in 1 .. h :
        \E i \in 1 .. Len(s) : s[i].n = n /\ s[i].kind = "result"

InResult(c) == cb[c].step # "idle" /\ cb[c].role = "result"

(* The result callbacks that have returned. *)
Handled(c) == IF InResult(c) THEN nresults[c] - 1 ELSE nresults[c]

(* onFinish is at its close, or past it. *)
PastAnswer(c) == closed[c] \/ (cb[c].step = "close" /\ cb[c].role = "final")

(* The closing value is sent by onFinish and says how the call ended. *)
Truthful(c) ==
    /\ Holds(Stream(c), {"error", "status"}) => PastAnswer(c)
    /\ lib[c] = "failed" /\ PastAnswer(c) => Holds(Stream(c), {"error"})
    /\ lib[c] = "succeeded" => ~Holds(Stream(c), {"error"})
    /\ lib[c] = "none" /\ ~closed[c] => Stream(c) = << >>

Streamed(c) ==
    /\ method[c].sink = "func" => chan[c] = << >>
    /\ InResult(c) => nresults[c] > 0
    /\ nresults[c] <= MaxResults + MaxEarly
    /\ Numbered(Stream(c), c, Handled(c))
    /\ method[c].drops \/ AllThere(Stream(c), Handled(c))
    /\ Truthful(c)

(* Every stream is sound. *)
Flowing == \A c \in Calls : Streamed(c)

=============================================================================
