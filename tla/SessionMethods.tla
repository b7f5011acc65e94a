--------------------------- MODULE SessionMethods ---------------------------
(***************************************************************************)
(* What distinguishes one asynchronous method of Session from another.     *)
(*                                                                         *)
(* Every such method has the same skeleton: draw context numbers, build    *)
(* closures over a response channel, Pool.Store them, call the C++ shim    *)
(* with the numbers, return the channel.  AsyncOps models that skeleton;   *)
(* this module records, method by method, the parameters of it:            *)
(*                                                                         *)
(*   stored       Go dynamic types put in the pool, in order of allocation *)
(*   finalSlot    which of them C++ names in the final callback; the       *)
(*                per-result callback is always handed the first           *)
(*   result       type asserted by the exported per-result callback, or    *)
(*                "none" when C++ passes no result on to Go                *)
(*   final        type asserted by the exported final callback             *)
(*   deleteFirst  onFinish removes the contexts before it reports the end  *)
(*   answers      the final callback delivers a value even on success      *)
(*   drops        onResult may return without delivering the result        *)
(*   sink         "chan": results go to a channel of the caller;           *)
(*                "func": they go to functions the caller passed in        *)
(*   reject       what a failed argument conversion may do: "error" (one   *)
(*                error value, then closed) or "panic"                     *)
(*   rejectAt     context numbers already drawn when it does               *)
(*   first        takes &x[0] of a slice the caller may have left empty,   *)
(*                after the contexts are stored                            *)
(***************************************************************************)
EXTENDS Naturals, Sequences

(* The skeleton as RemoveKey, Lookup and ReadKey have it. *)
Skeleton(resultType) ==
    [stored |-> <<resultType, "func(error)">>, finalSlot |-> 2,
     result |-> resultType, final |-> "func(error)",
     deleteFirst |-> FALSE, answers |-> FALSE, drops |-> FALSE,
     sink |-> "chan", reject |-> {}, rejectAt |-> 0, first |-> FALSE]

(* What NewKey, NewKeys or ReadAll failing does before anything is drawn. *)
Checked(m) == [m EXCEPT !.reject = {"error"}]

---------------------------------------------------------------------------
(* Reads *)

ReadKey  == Skeleton("func(*readResult)")
ReadData == Checked(ReadKey)
BulkRead == [Checked(ReadKey) EXCEPT !.drops = TRUE]

---------------------------------------------------------------------------
(* Writes *)

(* The unexported write: `onLookup' is a parameter of the defined type     *)
(* onLookupCallback, and that is the dynamic type the pool receives, while *)
(* on_lookup reaches go_lookup_callback, which asserts the function type   *)
(* itself.  The third context only keeps the data reachable.               *)
write ==
    [Skeleton("func(*lookupResult)") EXCEPT
        !.stored = <<"onLookupCallback", "func(error)", "[]byte">>,
        !.deleteFirst = TRUE]

(* cache differs from write in the C++ function it calls. *)
cache == write

(* Write hands the caller's own functions on and calls onResult in any     *)
(* case; nothing checks that data is not empty before &data[0].  A nil     *)
(* onResult is not called, which nobody can tell from one that does        *)
(* nothing with what it is given.                                          *)
Write ==
    [Checked(write) EXCEPT !.sink = "func", !.answers = TRUE, !.first = TRUE]

(* Cache refuses zero-length data. *)
Cache == [Checked(cache) EXCEPT !.sink = "func", !.answers = TRUE]

WriteKey   == Checked(write)
WriteCache == Checked(cache)

(* WriteData up to max_chunk_size; beyond it the call is WriteChunk's. *)
WriteData == Checked(WriteKey)

---------------------------------------------------------------------------
(* Lookups and removals *)

Lookup == Skeleton("func(*lookupResult)")

(* ParallelLookup draws its two numbers before NewKey can fail. *)
ParallelLookup == [Checked(Lookup) EXCEPT !.rejectAt = 2]

RemoveKey == Skeleton("func(*removeResult)")
Remove    == Checked(RemoveKey)

(* BulkWrite takes &v[0] of every blob before it draws its numbers. *)
BulkWrite  == [Lookup EXCEPT !.drops = TRUE, !.reject = {"error", "panic"}]
BulkRemove == [Checked(RemoveKey) EXCEPT !.drops = TRUE]

---------------------------------------------------------------------------
(* Secondary indexes *)

findIndexes    == [Skeleton("func(*findResult)") EXCEPT !.first = TRUE]
FindAllIndexes == findIndexes
FindAnyIndexes == findIndexes

(* on_set_indexes drops every result in C++, so func() is never called. *)
setOrUpdateIndexes ==
    [Skeleton("func()") EXCEPT
        !.result = "none", !.reject = {"panic"}, !.first = TRUE]

SetIndexes    == setOrUpdateIndexes
UpdateIndexes == setOrUpdateIndexes
RemoveIndexes == setOrUpdateIndexes

ListIndexes == [Skeleton("func(*IndexEntry)") EXCEPT !.reject = {"panic"}]

---------------------------------------------------------------------------
(* Backend control and statistics *)

(* One context only: on_backend_status is connected as the final handler   *)
(* and answers with a status or with an error, never with nothing.         *)
BackendOp ==
    [Skeleton("func(*DnetBackendsStatus)") EXCEPT
        !.stored = <<"func(*DnetBackendsStatus)">>, !.finalSlot = 1,
        !.result = "none", !.final = "func(*DnetBackendsStatus)",
        !.answers = TRUE]

BackendsStatus      == BackendOp
BackendStartDefrag  == BackendOp
BackendEnable       == BackendOp
BackendDisable      == BackendOp
BackendMakeWritable == BackendOp
BackendMakeReadOnly == BackendOp
BackendSetDelay     == BackendOp

DnetStat == Skeleton("func(*StatEntry)")

=============================================================================
