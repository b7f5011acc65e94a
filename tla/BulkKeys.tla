------------------------------ MODULE BulkKeys ------------------------------
(***************************************************************************)
(* How the results of a session's calls get their key and their error.     *)
(*                                                                         *)
(* A bulk call sends many keys in one request.  The storage answers with   *)
(* ids, and Keys.Find turns an id back into the name the caller knows.     *)
(* Which answers reach the callbacks at all is decided by the session's    *)
(* filter, a setting that calls share and that BulkRemove changes.         *)
(*                                                                         *)
(* Names are numbers in the order of sort.Strings, ids numbers in the      *)
(* order of memcmp.  Contexts and channels are AsyncOps's business: here   *)
(* a result is appended to what the caller receives in one step.           *)
(***************************************************************************)
EXTENDS Integers, Sequences, FiniteSets, Functions

CONSTANTS
    Names,       \* key names
    Namespaces,  \* namespaces a session may be given
    DefaultNamespace,
    Hashes,      \* the functions elliptics may use to turn names into ids
    Slices,      \* the lists of names callers pass
    Calls,       \* calls made on the session
    MaxSettings  \* bound: SetNamespace and SetFilter calls

NoId == 0        \* the id of a key that was never transformed
NoName == 0      \* a result without a key

ASSUME NamesAssumption == Names \subseteq Nat \ {NoName}
ASSUME NamespacesAssumption == DefaultNamespace \in Namespaces
ASSUME HashesAssumption ==
    \A h \in Hashes :
        /\ \A ns \in Namespaces, n \in Names : h[ns][n] \in Nat \ {NoId}
        /\ \A ns \in Namespaces, n, m \in Names :
              h[ns][n] = h[ns][m] => n = m
ASSUME SlicesAssumption == Slices \subseteq Seq(Names)
ASSUME SettingsAssumption == MaxSettings \in Nat

Bulk == {"BulkRead", "BulkWrite", "BulkRemove"}
Single == {"ReadKey", "RemoveKey", "Lookup"}

VARIABLES
    hash,       \* the transformation in use; it never changes
    filter,     \* "positive", "all" or "all_with_ack"
    namespace,
    settings,   \* SetNamespace and SetFilter calls so far
    loosened,   \* history: of BulkRemove, SetFilter(All) and SetFilter(Positive),
                \* the last was not SetFilter(Positive)
    call,       \* the calls, see NotMade
    out,        \* the results each caller was given, in order
    wild        \* a callback used keys that had been freed

sessionVars == <<filter, namespace, settings, loosened>>
vars == <<hash, sessionVars, call, out, wild>>

(* kk is the vector of ell_keys as ids, in the order of the names; asked   *)
(* are the ids the storage was sent, answer what it said about each, under *)
(* is the filter the request was made with, and loose (history) whether    *)
(* the session was loosened by then.                                       *)
NotMade == [method |-> "none", names |-> << >>, kk |-> << >>, asked |-> << >>,
            answer |-> << >>, under |-> "positive", loose |-> FALSE,
            keys |-> "none", ended |-> FALSE]

(* Slip: the line commented out in new_elliptics_session. *)
NewFilter_All == "all"

(* new_elliptics_session: the library's own default. *)
NewFilter == "positive"

Init ==
    /\ hash \in Hashes
    /\ filter = NewFilter
    /\ namespace = DefaultNamespace
    /\ settings = 0
    /\ loosened = FALSE
    /\ call = [c \in Calls |-> NotMade]
    /\ out = [c \in Calls |-> << >>]
    /\ wild = FALSE

---------------------------------------------------------------------------
(* ell_keys *)

(* NewKeys: sort.Strings over the names. *)
NewKeys(slice) ==
    LET from == CHOOSE p \in Bijection(DOMAIN slice, DOMAIN slice) :
                    \A i, j \in DOMAIN slice :
                        i < j => slice[p[i]] <= slice[p[j]]
    IN  [i \in DOMAIN slice |-> slice[from[i]]]

(* Slip: upper_bound, which passes an equal id. *)
LowerBound_Upper(ids, id) ==
    LET search[len \in 0 .. Len(ids)] == [first \in Nat |->
            LET half == len \div 2 IN
            IF len = 0 THEN first
            ELSE IF ids[first + half] <= id
              THEN search[len - half - 1][first + half + 1]
              ELSE search[half][first]]
    IN  search[Len(ids)][1]

(* std::lower_bound, the bisection of the library; the result is a         *)
(* position, one beyond the last if there is none.  search[len][first] is  *)
(* where it ends from first, with len elements left.                       *)
LowerBound(ids, id) ==
    LET search[len \in 0 .. Len(ids)] == [first \in Nat |->
            LET half == len \div 2 IN
            IF len = 0 THEN first
            ELSE IF ids[first + half] < id
              THEN search[len - half - 1][first + half + 1]
              ELSE search[half][first]]
    IN  search[Len(ids)][1]

(* Keys.Find: the name at that position, whatever its id. *)
Find(k, id) ==
    LET i == LowerBound(k.kk, id)
    IN  IF i <= Len(k.kk) THEN k.names[i] ELSE NoName

---------------------------------------------------------------------------
(* Settings *)

SetNamespace(ns) ==
    /\ settings < MaxSettings
    /\ settings' = settings + 1
    /\ namespace' = ns
    /\ UNCHANGED <<hash, filter, loosened, call, out, wild>>

(* SessionFilterAll = 0, SessionFilterPositive = 1, SessionFilterMax = 2. *)
SetFilter(f) ==
    /\ settings < MaxSettings
    /\ settings' = settings + 1
    /\ filter' = CASE f = 0 -> "all" [] f = 1 -> "positive" [] OTHER -> filter
    /\ loosened' = (f = 0 \/ (f # 1 /\ loosened))
    /\ UNCHANGED <<hash, namespace, call, out, wild>>

---------------------------------------------------------------------------
(* Calls *)

Transformed(names) == [i \in DOMAIN names |-> hash[namespace][names[i]]]

(* Slip: session_bulk_read sends the keys without transforming its copy. *)
KeyIds_Never(m, names) == [i \in DOMAIN names |-> NoId]

(* Slip: the transformed keys are added to the vector, not put in place. *)
KeyIds_Added(m, names) ==
    [i \in DOMAIN names |-> NoId] \o Transformed(names)

(* The ids in ell_keys once the shim has run: session_bulk_read and        *)
(* session_bulk_remove transform them in place, session_bulk_write works   *)
(* on attributes of its own and leaves them as they were made.             *)
KeyIds(m, names) ==
    IF m = "BulkWrite" THEN [i \in DOMAIN names |-> NoId]
                       ELSE Transformed(names)

(* session_bulk_remove: the only shim that sets the filter. *)
FilterFor(m) == IF m = "BulkRemove" THEN "all_with_ack" ELSE filter

(* Slip: the keys are freed when the method returns, as the blobs are. *)
KeysAfter_Freed(m) == IF m \in Bulk THEN "freed" ELSE "none"

KeysAfter(m) == IF m \in Bulk THEN "live" ELSE "none"

(* The method from its first line to its return. *)
Make(c, m, slice) ==
    LET names == NewKeys(slice) IN
    /\ call[c].method = "none"
    /\ m \in Single => Len(slice) = 1
    /\ filter' = FilterFor(m)
    /\ loosened' = (loosened \/ m = "BulkRemove")
    /\ call' = [call EXCEPT ![c] =
                  [method |-> m, names |-> names, kk |-> KeyIds(m, names),
                   asked |-> Transformed(names), under |-> FilterFor(m),
                   loose |-> loosened \/ m = "BulkRemove",
                   answer |-> [i \in DOMAIN names |-> "none"],
                   keys |-> KeysAfter(m), ended |-> FALSE]]
    /\ UNCHANGED <<hash, namespace, settings, out, wild>>

---------------------------------------------------------------------------
(* Answers (external): "data" for what was asked, "ack" for done without   *)
(* data, "failed" for a status other than zero.  The filter of the         *)
(* request decides what the handler is called for.                         *)

Answers(m) == IF m \in {"BulkRemove", "RemoveKey"} THEN {"ack", "failed"}
                                                  ELSE {"data", "failed"}

Passes(under, a) ==
    \/ under = "all_with_ack"
    \/ under = "all" /\ a # "ack"
    \/ under = "positive" /\ a = "data"

Result(name, key, a, err) ==
    [about |-> name, key |-> key, failed |-> (a = "failed"), err |-> err]

(* on_read, and onResult of ReadKey and BulkRead: no error is ever set;    *)
(* the bulk version drops what Find does not find.  The io attribute of a  *)
(* failed entry is a pointer nobody initialised (session.cpp:129-132), and *)
(* go_read_callback reads through it: the model goes on where the process  *)
(* survives that.                                                          *)
OnRead(k, name, id, a) ==
    IF k.method = "ReadKey" THEN <<Result(name, NoName, a, FALSE)>>
    ELSE IF Find(k, id) = NoName THEN << >>
    ELSE <<Result(name, Find(k, id), a, FALSE)>>

(* on_lookup, and onResult of Lookup and BulkWrite. *)
OnLookup(k, name, id, a) ==
    IF a = "failed" THEN <<Result(name, NoName, a, TRUE)>>
    ELSE IF k.method = "Lookup" THEN <<Result(name, NoName, a, FALSE)>>
    ELSE IF Find(k, id) = NoName THEN << >>
    ELSE <<Result(name, Find(k, id), a, FALSE)>>

(* Slip: BulkRemove drops what Find does not find, as BulkRead does. *)
OnRemove_Drops(k, name, id, a) ==
    IF k.method = "RemoveKey" THEN <<Result(name, NoName, a, FALSE)>>
    ELSE IF a # "failed" \/ Find(k, id) = NoName THEN << >>
    ELSE <<Result(name, Find(k, id), a, TRUE)>>

(* on_remove, and onResult of RemoveKey and BulkRemove, which reports      *)
(* failures only, those of keys it cannot name included.                   *)
OnRemove(k, name, id, a) ==
    IF k.method = "RemoveKey" THEN <<Result(name, NoName, a, FALSE)>>
    ELSE IF a # "failed" THEN << >>
    ELSE <<Result(name, Find(k, id), a, TRUE)>>

OnResult(k, name, id, a) ==
    CASE k.method \in {"ReadKey", "BulkRead"} -> OnRead(k, name, id, a)
      [] k.method \in {"Lookup", "BulkWrite"} -> OnLookup(k, name, id, a)
      [] k.method \in {"RemoveKey", "BulkRemove"} -> OnRemove(k, name, id, a)

Answer(c, i, a) ==
    LET k == call[c] IN
    /\ ~k.ended
    /\ k.answer[i] = "none"
    /\ a \in Answers(k.method)
    /\ call' = [call EXCEPT ![c].answer[i] = a]
    /\ IF Passes(k.under, a)
         THEN /\ out' = [out EXCEPT ![c] =
                           @ \o OnResult(k, k.names[i], k.asked[i], a)]
              /\ wild' = (wild \/ k.keys = "freed")
         ELSE UNCHANGED <<out, wild>>
    /\ UNCHANGED <<hash, sessionVars>>

(* onFinish: the error is passed on if there is one, as there is whenever  *)
(* an answer is missing; BulkRead and BulkWrite free their keys,           *)
(* BulkRemove keeps them for ever.                                         *)
Finish(c, err) ==
    LET k == call[c] IN
    /\ k.method # "none"
    /\ ~k.ended
    /\ err \/ \A i \in DOMAIN k.answer : k.answer[i] # "none"
    /\ out' = [out EXCEPT ![c] =
                 IF err THEN Append(@, Result(NoName, NoName, "none", TRUE))
                        ELSE @]
    /\ call' = [call EXCEPT ![c].ended = TRUE,
                            ![c].keys = IF k.method \in {"BulkRead", "BulkWrite"}
                                          THEN "freed" ELSE @]
    /\ UNCHANGED <<hash, sessionVars, wild>>

(* Every call has ended: nothing is left to happen. *)
Quiet ==
    /\ \A c \in Calls : call[c].ended
    /\ settings = MaxSettings
    /\ UNCHANGED vars

Next ==
    \/ \E ns \in Namespaces : SetNamespace(ns)
    \/ \E f \in 0 .. 2 : SetFilter(f)
    \/ \E c \in Calls :
          \/ \E m \in Bulk \cup Single, s \in Slices : Make(c, m, s)
          \/ \E i \in DOMAIN call[c].names, a \in {"data", "ack", "failed"} :
                Answer(c, i, a)
          \/ \E err \in BOOLEAN : Finish(c, err)
    \/ Quiet

Spec == Init /\ [][Next]_vars

---------------------------------------------------------------------------
(* Properties *)

FilterKinds == {"positive", "all", "all_with_ack"}

CallRecords ==
    [method : Bulk \cup Single \cup {"none"}, names : Seq(Names),
     kk : Seq(Nat), asked : Seq(Nat),
     answer : Seq({"none", "data", "ack", "failed"}), under : FilterKinds,
     loose : BOOLEAN, keys : {"none", "live", "freed"}, ended : BOOLEAN]

Results ==
    [about : Names \cup {NoName}, key : Names \cup {NoName},
     failed : BOOLEAN, err : BOOLEAN]

(* Types: names, vector of ids, request and answers are of one length.     *)
TypeOK ==
    /\ hash \in Hashes
    /\ filter \in FilterKinds
    /\ namespace \in Namespaces
    /\ settings \in 0 .. MaxSettings
    /\ loosened \in BOOLEAN
    /\ call \in [Calls -> CallRecords]
    /\ \A c \in Calls : /\ Len(call[c].kk) = Len(call[c].names)
                        /\ Len(call[c].asked) = Len(call[c].names)
                        /\ Len(call[c].answer) = Len(call[c].names)
    /\ out \in [Calls -> Seq(Results)]
    /\ wild \in BOOLEAN

(* When the order of the ids happens to be that of the names, the search   *)
(* by id finds the right key: every result of BulkRead and BulkRemove that *)
(* bears a key bears its own, and none is left without (key.h:31-38).      *)
InIdOrder(k) == \A i, j \in DOMAIN k.kk : i < j => k.kk[i] <= k.kk[j]

NamedWhenOrdered ==
    \A c \in Calls :
        call[c].method \in {"BulkRead", "BulkRemove"} /\ InIdOrder(call[c]) =>
            \A i \in DOMAIN out[c] : out[c][i].key = out[c][i].about

(* How many results of c are about name n, and how many answers to c with  *)
(* that name are of one of the kinds K.                                    *)
Delivered(c, n) == Cardinality({i \in DOMAIN out[c] : out[c][i].about = n})

Given(c, n, K) ==
    Cardinality({i \in DOMAIN call[c].names :
                    call[c].names[i] = n /\ call[c].answer[i] \in K})

(* Failures that pass for successes, to the call: a result without an      *)
(* error stands for an operation that did not fail, except for ReadKey,    *)
(* BulkRead and RemoveKey, whose callbacks do not look at the entry, on a  *)
(* session that a BulkRemove or a SetFilter(SessionFilterAll) before the   *)
(* call left without the positive filter, no SetFilter(Positive) since.    *)
(* There every failure of ReadKey and RemoveKey comes as a success, and    *)
(* without that none at all (session.cpp:47-48, 122-143, 320).             *)
SuccessIsReal ==
    \A c \in Calls :
        /\ \A i \in DOMAIN out[c] : ~out[c][i].err /\ out[c][i].failed =>
              call[c].loose /\ call[c].method \in {"ReadKey", "BulkRead", "RemoveKey"}
        /\ call[c].method \in {"ReadKey", "RemoveKey"} =>
              \A n \in Names :
                 Cardinality({i \in DOMAIN out[c] :
                                out[c][i].about = n /\ ~out[c][i].err /\ out[c][i].failed})
                   = IF call[c].loose THEN Given(c, n, {"failed"}) ELSE 0

(* Whatever the order of the ids, BulkRead loses an answer only if its id  *)
(* is above that of the last name: the bisection ends beyond the vector    *)
(* only by way of its last element (key.h:31-38, session.go:337-344).      *)
DropsOnlyBeyondLast ==
    \A c \in Calls : call[c].method = "BulkRead" =>
        \A i \in DOMAIN call[c].kk :
            call[c].kk[i] <= call[c].kk[Len(call[c].kk)] =>
                Delivered(c, call[c].names[i]) =
                    Given(c, call[c].names[i],
                          {a \in {"data", "failed"} : Passes(call[c].under, a)})

(* No failure is hidden or invented: for every key BulkRemove and          *)
(* BulkWrite give as many errors as there were failed answers the filter   *)
(* lets through, all of them for BulkRemove whatever filter the session    *)
(* had, and even when the search has no name for the key.  Neither gives   *)
(* anything else: BulkWrite searches keys that were never transformed, all *)
(* of them below every id, and drops every good answer                     *)
(* (session.cpp:273-308, 320, session.go:934-946, 976-1011).               *)
FailuresReported ==
    \A c \in Calls : call[c].method \in {"BulkWrite", "BulkRemove"} =>
        /\ \A n \in Names :
              Cardinality({i \in DOMAIN out[c] :
                             out[c][i].about = n /\ out[c][i].err})
                = IF call[c].method = "BulkRemove" \/ Passes(call[c].under, "failed")
                    THEN Given(c, n, {"failed"}) ELSE 0
        /\ \A i \in DOMAIN out[c] : out[c][i].err

(* A callback never searches keys that were freed: Free waits for the      *)
(* final callback, after which the library sends nothing more              *)
(* (session.go:346-354, 948-958).                                          *)
KeysOutliveRequest == ~wild

(* What the test of BulkRead expects (elliptics_test.go:334-345): if every *)
(* key was read, as many results come, under one of the keys asked for.    *)
AllRetrieved ==
    \A c \in Calls :
        LET k == call[c]
            asked == {k.names[i] : i \in DOMAIN k.names}
        IN
        /\ k.method = "BulkRead" /\ k.ended
        /\ \A i \in DOMAIN k.answer : k.answer[i] = "data"
        => Cardinality({i \in DOMAIN out[c] : out[c][i].key \in asked})
              = Len(k.names)

=============================================================================
