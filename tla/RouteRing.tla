----------------------------- MODULE RouteRing ------------------------------
(***************************************************************************)
(* StatGroup.Finalize: how the ring of ids of a group is divided between   *)
(* its backends.  ids[b] is the set of range starts of backend b, reduced  *)
(* to their first eight bytes as Finalize reduces them.                    *)
(***************************************************************************)
EXTENDS Integers, FiniteSetsExt

CONSTANT MaxId   \* math.MaxUint64
ASSUME MaxIdAssumption == MaxId \in Nat \ {0}

(* The ids of all backends, each of them once. *)
Starts(ids) == UNION {ids[b] : b \in DOMAIN ids}

(* ids2backend: an id that several backends have belongs to the one that   *)
(* came first when Finalize went through its map; rank is that order.      *)
FirstHolder(ids, rank, x) ==
    CHOOSE b \in DOMAIN ids :
        /\ x \in ids[b]
        /\ \A d \in DOMAIN ids : x \in ids[d] => rank[b] <= rank[d]

Below(S, x) == {y \in S : y < x}

(* prev_val and the id at prev_idx. *)
PrevVal(S, x) == IF Below(S, x) = {} THEN 0 ELSE Max(Below(S, x))
PrevId(S, x) == IF Below(S, x) = {} THEN Max(S) ELSE Max(Below(S, x))

(* Slip: a gap is given to the backend it ends at. *)
Gain_OfNext(ids, rank, b) ==
    LET S == Starts(ids) IN
    MapThenSumSet(LAMBDA x : x - PrevVal(S, x),
                  {x \in S : FirstHolder(ids, rank, x) = b})
    + (IF S # {} /\ FirstHolder(ids, rank, Max(S)) = b
         THEN MaxId - Max(S) ELSE 0)

(* What one run of Finalize adds to the sum of b: every gap between two    *)
(* ids goes to the backend of the id it follows, the one before the first  *)
(* id and the one behind the last to the backend of the last.              *)
Gain(ids, rank, b) ==
    LET S == Starts(ids) IN
    MapThenSumSet(LAMBDA x : x - PrevVal(S, x),
                  {x \in S : FirstHolder(ids, rank, PrevId(S, x)) = b})
    + (IF S # {} /\ FirstHolder(ids, rank, Max(S)) = b
         THEN MaxId - Max(S) ELSE 0)

---------------------------------------------------------------------------
(* The same, by definition: a point of the ring belongs to the greatest id *)
(* that is not above it, and to the greatest of all if there is none; an   *)
(* id that several backends have is the first holder's alone.              *)

StartOf(S, p) ==
    LET upTo == {x \in S : x <= p}
    IN  IF upTo = {} THEN Max(S) ELSE Max(upTo)

Arc(ids, rank, b) ==
    {p \in 0 .. MaxId - 1 :
        FirstHolder(ids, rank, StartOf(Starts(ids), p)) = b}

=============================================================================
