---------------------------- MODULE ResultStream ----------------------------
(***************************************************************************)
(* What the package promises the caller of an asynchronous method          *)
(* (session.go, the comment above Session): results, then at most one      *)
(* closing value that tells how the operation ended, then the end of the   *)
(* channel.  Values are never lost, duplicated, reordered or taken from    *)
(* another call, and at most Volume of them wait for the caller.           *)
(*                                                                         *)
(* No contexts, callbacks, threads or panics appear here.                  *)
(***************************************************************************)
EXTENDS Naturals, Sequences

CONSTANTS
    Calls,
    Volume,     \* how many values may wait for the caller
    Numbers     \* the numbers results may carry

VARIABLES
    direct, \* per call: its values go to functions, not to a channel
    sent,   \* per call: values put on the stream so far
    taken,  \* per call: how many of them the caller has
    state   \* per call: "open", "ending" (closing value sent) or "closed"

vars == <<direct, sent, taken, state>>

Kinds == {"error", "status"}

Init ==
    /\ direct \in [Calls -> BOOLEAN]
    /\ sent = [c \in Calls |-> << >>]
    /\ taken = [c \in Calls |-> 0]
    /\ state = [c \in Calls |-> "open"]

(* One value more; results handed to a function are taken at once. *)
Put(c, item) ==
    /\ item.call = c
    /\ UNCHANGED direct
    /\ \A i \in 1 .. Len(sent[c]) : sent[c][i].n < item.n
    /\ sent' = [sent EXCEPT ![c] = Append(@, item)]
    /\ IF direct[c] THEN taken' = [taken EXCEPT ![c] = @ + 1]
       ELSE Len(sent[c]) - taken[c] < Volume /\ UNCHANGED taken

Emit(c, item) ==
    /\ state[c] = "open"
    /\ item.kind = "result"
    /\ Put(c, item)
    /\ UNCHANGED state

Conclude(c, item) ==
    /\ state[c] = "open"
    /\ item.kind \in Kinds
    /\ Put(c, item)
    /\ state' = [state EXCEPT ![c] = "ending"]

Close(c) ==
    /\ state[c] # "closed"
    /\ state' = [state EXCEPT ![c] = "closed"]
    /\ UNCHANGED <<direct, sent, taken>>

(* The operation could not even start: its error and the end at once. *)
Refuse(c, item) ==
    /\ state[c] = "open"
    /\ sent[c] = << >>
    /\ item.kind = "error"
    /\ Put(c, item)
    /\ state' = [state EXCEPT ![c] = "closed"]

Take(c) ==
    /\ taken[c] < Len(sent[c])
    /\ taken' = [taken EXCEPT ![c] = @ + 1]
    /\ UNCHANGED <<direct, sent, state>>

(* The values that may come next: results may be left out on the way. *)
Candidates == [call : Calls, n : Numbers, kind : {"result"} \cup Kinds]

Next ==
    \E c \in Calls :
        \/ \E item \in Candidates :
              Emit(c, item) \/ Conclude(c, item) \/ Refuse(c, item)
        \/ Close(c)
        \/ Take(c)

Spec == Init /\ [][Next]_vars

=============================================================================
