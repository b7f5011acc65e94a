----------------------------- MODULE MCAsyncOps -----------------------------
(***************************************************************************)
(* AsyncOps with the methods of Session, for TLC.                          *)
(***************************************************************************)
EXTENDS AsyncOps, SessionMethods

CONSTANTS c1, c2, t1

MCCalls == {c1, c2}
MCThreads == {t1}

(* One method of each behaviour whose callbacks agree on their types: an   *)
(* error only at the end, with &x[0] after the contexts are stored;        *)
(* numbers drawn before the argument is checked; results left out; an      *)
(* answer in any case from a single context.                               *)
Streaming == {FindAllIndexes, ParallelLookup, BulkRemove, BackendsStatus}

(* The ways in which a call can panic or end: &x[0] after the contexts     *)
(* are stored, an argument refused with a panic, the closure type of       *)
(* write, contexts deleted first; with an error only, with an answer       *)
(* always, through functions instead of a channel, with all its results.   *)
Varied == {ListIndexes, Write, WriteKey, BackendsStatus}

(* Enough for the questions about progress. *)
Live == {RemoveKey, BackendsStatus}
OneWrite == {WriteKey}

=============================================================================
