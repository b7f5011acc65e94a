---------------------------- MODULE ContextPool ----------------------------
(***************************************************************************)
(* The process-wide table that keeps Go values alive while C++ holds only  *)
(* a number for them (pool.go).  cgo may not hand a Go closure to C++, so   *)
(* every asynchronous call draws numbers from `counter', stores its        *)
(* closures under them, and the exported callbacks look them up again.     *)
(*                                                                         *)
(* Each operation is one atomic step: NextContext is an atomic add, and    *)
(* Store, Get and Delete hold contextPool.mutex for their whole body.      *)
(*                                                                         *)
(* `counter' is a uint64 in the code; the models draw a handful of numbers *)
(* so the wrap-around after 2^64 of them is out of scope.                  *)
(***************************************************************************)
EXTENDS Naturals

VARIABLES
    counter,    \* the last number handed out
    pool        \* the map: a function whose domain is the set of live keys

poolVars == <<counter, pool>>

(* var counter uint64 = 0; var Pool = contextPool{pool: make(map...)} *)
PoolInit ==
    /\ counter = 0
    /\ pool = [k \in {} |-> k]

(* Slip: the value before the addition is returned, and never moves on. *)
NextContext_Old == counter

(* atomic.AddUint64(&counter, 1): the value the call returns. *)
NextContext == counter + 1

(* Store: insert, or overwrite what the key held. *)
Store(key, value) ==
    pool' = [k \in DOMAIN pool \cup {key} |->
                IF k = key THEN value ELSE pool[k]]

(* Get: the `exists' of the map read; the value is then pool[key]. *)
Exists(key) == key \in DOMAIN pool

(* Delete: removing a key that is not there is allowed and does nothing. *)
Delete(key) ==
    pool' = [k \in DOMAIN pool \ {key} |-> pool[k]]

=============================================================================
