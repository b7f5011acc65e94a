-------------------------- MODULE StatMonitorProofs -------------------------
(***************************************************************************)
(* The properties of StatMonitor, for every topology, every routing table  *)
(* and any number of polls and ticks.                                      *)
(*                                                                         *)
(* MInv is the inductive invariant.  Its parts are disturbed by few        *)
(* actions each: the lemmas in front say what an action does to the        *)
(* StatBackends, field by field, and the proofs about the parts go on from *)
(* there.  RInv adds that every run of Finalize gives out the whole ring.  *)
(***************************************************************************)
EXTENDS StatMonitor, RingProofs, SequenceTheorems

MInv == TypeOK /\ PIDExclusive /\ Recorded /\ RateIsTrue

---------------------------------------------------------------------------
(* StatBackends *)

(* Counters are kept modulo the word. *)
LEMMA WordFacts ==
    /\ MaxId \in Nat /\ Word \in Nat /\ Word = MaxId + 1
    /\ \A x \in Int : x % Word \in 0 .. MaxId
    /\ \A x \in 0 .. MaxId : x % Word = x
<1>1. MaxId \in Nat /\ Word \in Nat \ {0} /\ Word = MaxId + 1
  BY MaxIdAssumption DEF Word
<1>2. \A x \in Int : x % Word \in 0 .. Word - 1
  BY <1>1
<1>3. \A x \in 0 .. MaxId : x % Word = x
  BY <1>1
<1> QED
  BY <1>1, <1>2, <1>3

---------------------------------------------------------------------------
(* What the actions do to them *)

Known(t) == {b \in Backends : t[b] # {}}
IdsWith(o, t, g) == [d \in Members(g) |-> o[d].ids \cup t[d]]

(* A run of Finalize that counts, on a StatGroup of poll q. *)
Run(r1, q, o, t, g) ==
    IF r1[g] = q /\ Starts(IdsWith(o, t, g)) # {} THEN 1 ELSE 0

(* FindBackend refers to groups of the poll itself, if it adds any. *)
LEMMA RefsAfter ==
    ASSUME NEW p \in Polls, NEW r \in [Groups -> 0 .. MaxPolls], NEW known
    PROVE  /\ RefAfter(p, r, known) \in [Groups -> 0 .. MaxPolls]
           /\ \A g \in Groups :
                 \/ RefAfter(p, r, known)[g] = r[g]
                 \/ r[g] = 0 /\ RefAfter(p, r, known)[g] = p
BY DEF RefAfter, Polls

(* With the ids of a routing table a ring remains a ring. *)
LEMMA GainOfRoutes ==
    ASSUME TypeOK, NEW q \in Polls, NEW g, NEW t \in Tables, NEW rank, NEW b
    PROVE  Gain(IdsWith(obj[q], t, g), rank, b) \in Nat
<1>1. \A d \in Backends : obj[q][d].ids \subseteq 0 .. MaxId
  BY DEF TypeOK, StatBackends
<1>2. \A d \in Backends : t[d] \subseteq 0 .. MaxId
  BY TopologyAssumption
<1>3. OnRing(IdsWith(obj[q], t, g))
  BY <1>1, <1>2 DEF OnRing, IdsWith, Members
<1> QED
  BY <1>3, GainNatural

(* GetRoutes: ids and sums of the groups the DnetStat refers to. *)
LEMMA RoutesEffect ==
    ASSUME TypeOK, NEW p \in Polls, NEW r \in [Groups -> 0 .. MaxPolls],
           NEW t \in Tables, NEW rank, GetRoutes(p, r, t, rank),
           NEW r1, r1 = RefAfter(p, r, Known(t))
    PROVE  /\ ref' = [ref EXCEPT ![p] = r1]
           /\ obj' \in [Polls -> [Backends -> StatBackends]]
           /\ \A q \in Polls, b \in Backends :
                 /\ obj'[q][b].at = obj[q][b].at
                 /\ obj'[q][b].count = obj[q][b].count
                 /\ obj'[q][b].rate = obj[q][b].rate
                 /\ obj'[q][b].locked = obj[q][b].locked
                 /\ r1[GroupOf[b]] # q => obj'[q][b] = obj[q][b]
                 /\ r1[GroupOf[b]] = q =>
                      /\ obj'[q][b].ids = obj[q][b].ids \cup t[b]
                      /\ obj'[q][b].sum =
                           (obj[q][b].sum + Gain(IdsWith(obj[q], t, GroupOf[b]),
                                                 rank, b)) % Word
           /\ finals' = [q \in Polls |-> [g \in Groups |->
                   finals[q][g] + Run(r1, q, obj[q], t, g)]]
<1> DEFINE ids(q, g) == IdsWith(obj[q], t, g)
<1>0. /\ t \in [Backends -> SUBSET (0 .. MaxId)]
      /\ GroupOf \in [Backends -> Groups]
      /\ obj \in [Polls -> [Backends -> StatBackends]]
  BY TopologyAssumption DEF TypeOK
<1>1. /\ ref' = [ref EXCEPT ![p] = r1]
      /\ obj' = [q \in Polls |-> [b \in Backends |->
                 IF r1[GroupOf[b]] # q THEN obj[q][b]
                 ELSE [obj[q][b] EXCEPT
                         !.made = @ \/ t[b] # {},
                         !.ids = @ \cup t[b],
                         !.sum = (@ + Gain(ids(q, GroupOf[b]), rank, b))
                                    % Word]]]
      /\ finals' = [q \in Polls |-> [g \in Groups |->
                       finals[q][g] + Run(r1, q, obj[q], t, g)]]
  BY DEF GetRoutes, Known, IdsWith, Run
<1>2. ASSUME NEW q \in Polls, NEW g \in Groups, NEW b
      PROVE  Gain(ids(q, g), rank, b) \in Nat
  BY GainOfRoutes
<1>3. ASSUME NEW q \in Polls, NEW b \in Backends
      PROVE  /\ obj'[q][b] \in StatBackends
             /\ obj'[q][b].at = obj[q][b].at
             /\ obj'[q][b].count = obj[q][b].count
             /\ obj'[q][b].rate = obj[q][b].rate
             /\ obj'[q][b].locked = obj[q][b].locked
             /\ r1[GroupOf[b]] # q => obj'[q][b] = obj[q][b]
             /\ r1[GroupOf[b]] = q =>
                  /\ obj'[q][b].ids = obj[q][b].ids \cup t[b]
                  /\ obj'[q][b].sum =
                       (obj[q][b].sum + Gain(ids(q, GroupOf[b]), rank, b)) % Word
  <2> DEFINE o == obj[q][b]
             m == o.made \/ t[b] # {}
             i == o.ids \cup t[b]
             s == (o.sum + Gain(ids(q, GroupOf[b]), rank, b)) % Word
  <2>1. o \in StatBackends
    BY <1>0
  <2>2. CASE r1[GroupOf[b]] # q
    BY <1>1, <2>1, <2>2
  <2>3. CASE r1[GroupOf[b]] = q
    <3>1. obj'[q][b] = [o EXCEPT !.made = m, !.ids = i, !.sum = s]
      BY <1>1, <2>3
    <3>2. o.sum \in Int /\ Gain(ids(q, GroupOf[b]), rank, b) \in Nat
      BY <2>1, <1>0, <1>2, WordFacts DEF StatBackends
    <3>3. m \in BOOLEAN
      OBVIOUS
    <3>4. i \in SUBSET (0 .. MaxId)
      BY <2>1, <1>0 DEF StatBackends
    <3>5. s \in 0 .. MaxId
      <4>1. o.sum + Gain(ids(q, GroupOf[b]), rank, b) \in Int
        BY <3>2
      <4> HIDE DEF o
      <4> QED
        BY <4>1, WordFacts
    <3> HIDE DEF o, m, i, s
    <3>6. /\ obj'[q][b] \in StatBackends
          /\ obj'[q][b].ids = i /\ obj'[q][b].sum = s
          /\ obj'[q][b].at = o.at /\ obj'[q][b].count = o.count
          /\ obj'[q][b].rate = o.rate /\ obj'[q][b].locked = o.locked
      BY <2>1, <3>1, <3>3, <3>4, <3>5 DEF StatBackends
    <3> QED
      BY <3>6, <2>3 DEF o, m, i, s
  <2> QED
    BY <2>2, <2>3
<1>4. obj' \in [Polls -> [Backends -> StatBackends]]
  <2>1. obj' = [q \in Polls |-> [b \in Backends |-> obj'[q][b]]]
    BY <1>1
  <2> QED
    BY <2>1, <1>3
<1>5. /\ ref' = [ref EXCEPT ![p] = r1]
      /\ finals' = [q \in Polls |-> [g \in Groups |->
                       finals[q][g] + Run(r1, q, obj[q], t, g)]]
  BY <1>1
<1> QED
  BY <1>3, <1>4, <1>5, ZenonT(60)

(* While a call of DnetStat is under way or waits for Diff there is one. *)
LEMMA UnderWay ==
    ASSUME TypeOK, OwnGroups, phase # "idle"
    PROVE  poll \in Polls
BY DEF TypeOK, OwnGroups, Polls

(* AddStatEntry: counters of the poll's own groups. *)
LEMMA EntryEffect ==
    ASSUME TypeOK, OwnGroups, NEW s \in Servers,
           NEW at \in since .. Now, NEW status \in Replies(s),
           GoodEntry(s, at, status)
    PROVE  \E r1 \in [Groups -> 0 .. MaxPolls] :
           /\ ref' = [ref EXCEPT ![poll] = r1]
           /\ \A g \in Groups : /\ r1[g] \in {0, poll}
                                /\ r1[g] = ref[poll][g] \/ ref[poll][g] = 0
           /\ obj' \in [Polls -> [Backends -> StatBackends]]
           /\ \A q \in Polls, b \in Backends :
                 /\ obj'[q][b].ids = obj[q][b].ids
                 /\ obj'[q][b].sum = obj[q][b].sum
                 /\ obj'[q][b].rate = obj[q][b].rate
                 /\ obj'[q][b].locked = obj[q][b].locked
                 /\ q # poll => obj'[q][b] = obj[q][b]
                 /\ \/ /\ obj'[q][b].at = obj[q][b].at
                       /\ obj'[q][b].count = obj[q][b].count
                    \/ /\ obj'[q][b].at = at
                       /\ obj'[q][b].count = hist[at][b]
<1> DEFINE known == {b \in DOMAIN status : status[b] # "off"}
           fresh == {b \in DOMAIN status : status[b] = "ok"}
           r1 == RefAfter(poll, ref[poll], known)
<1>0. poll \in Polls /\ phase = "entries"
  BY UnderWay DEF GoodEntry
<1>1. /\ ref' = [ref EXCEPT ![poll] = r1]
      /\ obj' = [q \in Polls |-> [b \in Backends |->
                 IF r1[GroupOf[b]] # q \/ b \notin known THEN obj[q][b]
                 ELSE IF b \in fresh
                   THEN [obj[q][b] EXCEPT !.made = TRUE, !.at = at,
                                          !.count = hist[at][b]]
                 ELSE [obj[q][b] EXCEPT !.made = TRUE]]]
  BY DEF GoodEntry
<1>2. ref[poll] \in [Groups -> 0 .. MaxPolls]
  BY <1>0 DEF TypeOK
<1>3. /\ r1 \in [Groups -> 0 .. MaxPolls]
      /\ \A g \in Groups : /\ r1[g] \in {0, poll}
                           /\ r1[g] = ref[poll][g] \/ ref[poll][g] = 0
  <2>1. \A g \in Groups : ref[poll][g] \in {0, poll}
    BY <1>0 DEF OwnGroups
  <2> HIDE DEF known
  <2> QED
    BY <2>1, <1>0, <1>2, RefsAfter
<1> HIDE DEF r1, known, fresh
<1>4. /\ GroupOf \in [Backends -> Groups]
      /\ obj \in [Polls -> [Backends -> StatBackends]]
      /\ at \in 0 .. MaxClock /\ \A b \in Backends : hist[at][b] \in 0 .. MaxId
  <2>1. at \in 1 .. Len(hist) /\ at \in 0 .. MaxClock
    BY <1>0, TopologyAssumption DEF TypeOK, Now
  <2>2. hist[at] \in [Backends -> 0 .. MaxId]
    BY <2>1 DEF TypeOK
  <2> QED
    BY <2>1, <2>2, TopologyAssumption DEF TypeOK
<1>5. ASSUME NEW q \in Polls, NEW b \in Backends
      PROVE  /\ obj'[q][b] \in StatBackends
             /\ obj'[q][b].ids = obj[q][b].ids
             /\ obj'[q][b].sum = obj[q][b].sum
             /\ obj'[q][b].rate = obj[q][b].rate
             /\ obj'[q][b].locked = obj[q][b].locked
             /\ q # poll => obj'[q][b] = obj[q][b]
             /\ \/ /\ obj'[q][b].at = obj[q][b].at
                   /\ obj'[q][b].count = obj[q][b].count
                \/ /\ obj'[q][b].at = at
                   /\ obj'[q][b].count = hist[at][b]
  <2> DEFINE o == obj[q][b]
             c == hist[at][b]
             a == at
  <2>1. o \in StatBackends /\ c \in 0 .. MaxId /\ a \in 0 .. MaxClock
    BY <1>4
  <2>2. CASE r1[GroupOf[b]] # q \/ b \notin known
    BY <1>1, <2>1, <2>2
  <2>3. CASE ~(r1[GroupOf[b]] # q \/ b \notin known) /\ b \in fresh
    <3>0. q = poll
      <4>1. r1[GroupOf[b]] \in {0, poll} /\ q # 0
        BY <1>3, <1>4 DEF Polls
      <4> QED
        BY <4>1, <2>3
    <3>1. obj'[q][b] = [o EXCEPT !.made = TRUE, !.at = a, !.count = c]
      BY <1>1, <2>3
    <3> HIDE DEF o, c, a
    <3>2. /\ obj'[q][b] \in StatBackends
          /\ obj'[q][b].at = a /\ obj'[q][b].count = c
          /\ obj'[q][b].ids = o.ids /\ obj'[q][b].sum = o.sum
          /\ obj'[q][b].rate = o.rate /\ obj'[q][b].locked = o.locked
      BY <2>1, <3>1 DEF StatBackends
    <3> QED
      BY <3>0, <3>2 DEF o, c, a
  <2>4. CASE ~(r1[GroupOf[b]] # q \/ b \notin known) /\ b \notin fresh
    <3>0. q = poll
      <4>1. r1[GroupOf[b]] \in {0, poll} /\ q # 0
        BY <1>3, <1>4 DEF Polls
      <4> QED
        BY <4>1, <2>4
    <3>1. obj'[q][b] = [o EXCEPT !.made = TRUE]
      BY <1>1, <2>4
    <3> HIDE DEF o
    <3>2. /\ obj'[q][b] \in StatBackends
          /\ obj'[q][b].at = o.at /\ obj'[q][b].count = o.count
          /\ obj'[q][b].ids = o.ids /\ obj'[q][b].sum = o.sum
          /\ obj'[q][b].rate = o.rate /\ obj'[q][b].locked = o.locked
      BY <2>1, <3>1 DEF StatBackends
    <3> QED
      BY <3>0, <3>2 DEF o
  <2> QED
    BY <2>2, <2>3, <2>4
<1>6. obj' \in [Polls -> [Backends -> StatBackends]]
  <2>1. obj' = [q \in Polls |-> [b \in Backends |-> obj'[q][b]]]
    BY <1>1
  <2> QED
    BY <2>1, <1>5
<1>7. ref' = [ref EXCEPT ![poll] = r1]
  BY <1>1
<1> QED
  BY <1>3, <1>5, <1>6, <1>7, ZenonT(60)

(* The statistics Diff compares with: those of the poll before. *)
Old(b) == obj[ref[poll - 1][GroupOf[b]]][b]

(* Diff: rates and locks of the poll's own groups. *)
LEMMA DiffEffect ==
    ASSUME TypeOK, OwnGroups, Diff, poll # 1
    PROVE  /\ poll \in Polls /\ poll - 1 \in Polls /\ phase = "polled"
           /\ ref' = [ref EXCEPT ![poll] = GroupsAfterDiff(poll)]
           /\ obj' \in [Polls -> [Backends -> StatBackends]]
           /\ torn' \in [Polls -> [Backends -> {"no", "stuck", "open"}]]
           /\ \A q \in Polls, b \in Backends :
                 /\ obj'[q][b].ids = obj[q][b].ids
                 /\ obj'[q][b].sum = obj[q][b].sum
                 /\ obj'[q][b].at = obj[q][b].at
                 /\ obj'[q][b].count = obj[q][b].count
                 /\ \/ obj'[q][b] = obj[q][b] /\ torn'[q][b] = torn[q][b]
                    \/ /\ q = poll /\ ref[poll][GroupOf[b]] = poll
                       /\ ref[poll - 1][GroupOf[b]] # 0
                       /\ obj'[q][b].rate = Rate(obj[q][b], Old(b),
                                                 time[poll] - time[poll - 1])
                       /\ torn'[q][b] = Tear(obj'[q][b].locked, users[q][b],
                                             torn[q][b])
<1> DEFINE p == poll
           duration == time[p] - time[p - 1]
           common(b) ==
            LET q == ref[p][GroupOf[b]]
                o == ref[p - 1][GroupOf[b]]
            IN  q # 0 /\ o # 0 /\ obj[q][b].made /\ obj[o][b].made
           copied(q, b) == ref[p][GroupOf[b]] = q /\ common(b)
<1>0. poll \in Polls /\ phase = "polled"
  BY UnderWay DEF Diff
<1>1. poll - 1 \in Polls /\ MaxPolls \in Nat
  BY <1>0, TopologyAssumption DEF Polls
<1>2. /\ obj' = [q \in Polls |-> [b \in Backends |->
                  IF ~copied(q, b) THEN obj[q][b]
                  ELSE [obj[q][b] EXCEPT
                          !.locked = Old(b).locked,
                          !.rate = Rate(obj[q][b], Old(b), duration)]]]
      /\ torn' = [q \in Polls |-> [b \in Backends |->
                  IF ~copied(q, b) THEN torn[q][b]
                  ELSE Tear(Old(b).locked, users[q][b], torn[q][b])]]
      /\ ref' = [ref EXCEPT ![p] = GroupsAfterDiff(p)]
  BY DEF Diff, Old
<1>3. /\ GroupOf \in [Backends -> Groups] /\ MaxClock \in Nat
      /\ obj \in [Polls -> [Backends -> StatBackends]]
      /\ \A q \in Polls, g \in Groups : ref[q][g] \in 0 .. MaxPolls
      /\ \A q \in Polls : time[q] \in 0 .. MaxClock
  BY TopologyAssumption DEF TypeOK
<1>4. ASSUME NEW q \in Polls, NEW b \in Backends
      PROVE  /\ obj'[q][b] \in StatBackends
             /\ obj'[q][b].ids = obj[q][b].ids
             /\ obj'[q][b].sum = obj[q][b].sum
             /\ obj'[q][b].at = obj[q][b].at
             /\ obj'[q][b].count = obj[q][b].count
             /\ torn'[q][b] \in {"no", "stuck", "open"}
             /\ \/ obj'[q][b] = obj[q][b] /\ torn'[q][b] = torn[q][b]
                \/ /\ q = poll /\ ref[poll][GroupOf[b]] = poll
                   /\ ref[poll - 1][GroupOf[b]] # 0
                   /\ obj'[q][b].rate = Rate(obj[q][b], Old(b), duration)
                   /\ torn'[q][b] = Tear(obj'[q][b].locked, users[q][b],
                                         torn[q][b])
  <2>0. torn[q][b] \in {"no", "stuck", "open"}
    BY DEF TypeOK
  <2>1. CASE ~copied(q, b)
    BY <1>2, <1>3, <2>0, <2>1
  <2>2. CASE copied(q, b)
    <3>1. q = poll /\ ref[poll][GroupOf[b]] = poll /\ ref[poll - 1][GroupOf[b]] # 0
      <4>1. ref[poll][GroupOf[b]] \in {0, poll} /\ q # 0
        BY <1>0, <1>3 DEF OwnGroups, Polls
      <4> QED
        BY <4>1, <2>2
    <3>2. Old(b) \in StatBackends
      <4>1. ref[poll - 1][GroupOf[b]] \in 0 .. MaxPolls
        BY <1>1, <1>3
      <4>2. ref[poll - 1][GroupOf[b]] \in Polls
        BY <3>1, <4>1, <1>1 DEF Polls
      <4> QED
        BY <4>2, <1>3 DEF Old
    <3> DEFINE o == obj[q][b]
               l == Old(b).locked
               r == Rate(o, Old(b), duration)
    <3>3. obj'[q][b] = [o EXCEPT !.locked = l, !.rate = r]
      BY <1>2, <2>2
    <3>4. o \in StatBackends
      BY <1>3
    <3>5. l \in BOOLEAN
      BY <3>2 DEF StatBackends
    <3>6. r \in [num : 0 .. MaxId, dur : -MaxClock .. MaxClock, set : BOOLEAN]
      <4>1. o.count \in 0 .. MaxId /\ Old(b).count \in 0 .. MaxId
        BY <3>2, <3>4 DEF StatBackends
      <4>2. o.count + Word - Old(b).count \in Int
        <5>1. o.count \in Int /\ Old(b).count \in Int /\ Word \in Int
          BY <4>1, WordFacts
        <5> HIDE DEF o
        <5> QED
          BY <5>1
      <4>3. (o.count + Word - Old(b).count) % Word \in 0 .. MaxId
        <5> HIDE DEF o
        <5> QED
          BY <4>2, WordFacts
      <4>4. time[p] \in 0 .. MaxClock /\ time[p - 1] \in 0 .. MaxClock
        BY <1>0, <1>1, <1>3
      <4>5. duration \in -MaxClock .. MaxClock
        BY <4>4, <1>3
      <4> HIDE DEF o, duration
      <4> QED
        BY <4>3, <4>5 DEF Rate
    <3>7. /\ torn'[q][b] = Tear(l, users[q][b], torn[q][b])
          /\ torn'[q][b] \in {"no", "stuck", "open"}
      <4>1. torn'[q][b] = Tear(l, users[q][b], torn[q][b])
        <5> HIDE DEF copied
        <5> QED
          BY <1>2, <2>2
      <4> QED
        BY <4>1, <2>0 DEF Tear
    <3> HIDE DEF o, l, r
    <3>8. /\ obj'[q][b] \in StatBackends
          /\ obj'[q][b].locked = l /\ obj'[q][b].rate = r
          /\ obj'[q][b].at = o.at /\ obj'[q][b].count = o.count
          /\ obj'[q][b].ids = o.ids /\ obj'[q][b].sum = o.sum
      BY <3>3, <3>4, <3>5, <3>6 DEF StatBackends
    <3> QED
      BY <3>1, <3>7, <3>8 DEF o, r
  <2> QED
    BY <2>1, <2>2
<1>5. obj' \in [Polls -> [Backends -> StatBackends]]
  <2>1. obj' = [q \in Polls |-> [b \in Backends |-> obj'[q][b]]]
    BY <1>2
  <2> QED
    BY <2>1, <1>4
<1>6. torn' \in [Polls -> [Backends -> {"no", "stuck", "open"}]]
  <2>1. torn' = [q \in Polls |-> [b \in Backends |-> torn'[q][b]]]
    BY <1>2
  <2> QED
    BY <2>1, <1>4
<1>7. ref' = [ref EXCEPT ![poll] = GroupsAfterDiff(poll)]
  BY <1>2
<1> QED
  BY <1>0, <1>1, <1>4, <1>5, <1>6, <1>7, ZenonT(40)

(* PIDUpdate: the lock of one backend is set to l, and nothing else. *)
SetsLock(q, b, l) == obj' = [obj EXCEPT ![q][b].locked = l]

OnlyLock(q, b, l) ==
    /\ obj' \in [Polls -> [Backends -> StatBackends]]
    /\ obj'[q][b].locked = l
    /\ \A p \in Polls, d \in Backends :
          /\ obj'[p][d].ids = obj[p][d].ids
          /\ obj'[p][d].sum = obj[p][d].sum
          /\ obj'[p][d].at = obj[p][d].at
          /\ obj'[p][d].count = obj[p][d].count
          /\ obj'[p][d].rate = obj[p][d].rate
          /\ <<p, d>> # <<q, b>> => obj'[p][d] = obj[p][d]
          /\ [obj'[p][d] EXCEPT !.locked = FALSE]
                 = [obj[p][d] EXCEPT !.locked = FALSE]

(* Setting one lock changes no number of any backend. *)
LEMMA LockEffect ==
    ASSUME TypeOK, NEW q \in Polls, NEW b \in Backends, NEW l \in BOOLEAN,
           SetsLock(q, b, l)
    PROVE  OnlyLock(q, b, l)
<1>0. obj' = [obj EXCEPT ![q][b].locked = l]
  BY DEF SetsLock
<1>1. obj \in [Polls -> [Backends -> StatBackends]]
  BY DEF TypeOK
<1>2. \A p \in Polls, d \in Backends : <<p, d>> # <<q, b>> => obj'[p][d] = obj[p][d]
  BY <1>0, <1>1
<1>3. obj'[q][b] = [obj[q][b] EXCEPT !.locked = l]
  BY <1>0, <1>1
<1> DEFINE o == obj[q][b]
<1>4. o \in StatBackends
  BY <1>1
<1> HIDE DEF o
<1>5. /\ obj'[q][b] \in StatBackends
      /\ obj'[q][b].locked = l /\ obj'[q][b].rate = o.rate
      /\ obj'[q][b].at = o.at /\ obj'[q][b].count = o.count
      /\ obj'[q][b].ids = o.ids /\ obj'[q][b].sum = o.sum
  <2>1. obj'[q][b] = [o EXCEPT !.locked = l]
    BY <1>3 DEF o
  <2> QED
    BY <2>1, <1>4 DEF StatBackends
<1>50. [obj'[q][b] EXCEPT !.locked = FALSE] = [o EXCEPT !.locked = FALSE]
  <2>1. obj'[q][b] = [o EXCEPT !.locked = l]
    BY <1>3 DEF o
  <2>2. DOMAIN o = {"made", "ids", "sum", "count", "at", "rate", "locked"}
    BY <1>4 DEF StatBackends
  <2>3. \A x \in DOMAIN o : [obj'[q][b] EXCEPT !.locked = FALSE][x]
                             = [o EXCEPT !.locked = FALSE][x]
    BY <2>1, <2>2
  <2> QED
    BY <2>1, <2>3
<1>6. obj' \in [Polls -> [Backends -> StatBackends]]
  <2>1. obj' = [p \in Polls |-> [d \in Backends |-> obj'[p][d]]]
    BY <1>0, <1>1
  <2>2. \A p \in Polls, d \in Backends : obj'[p][d] \in StatBackends
    BY <1>1, <1>2, <1>5
  <2> QED
    BY <2>1, <2>2
<1>7. \A p \in Polls, d \in Backends : (p = q /\ d = b) \/ <<p, d>> # <<q, b>>
  OBVIOUS
<1> QED
  BY <1>2, <1>5, <1>50, <1>6, <1>7 DEF o, OnlyLock

---------------------------------------------------------------------------
(* The steps *)

(* Every poll but the first has one before it. *)
LEMMA PollPairs == \A p \in 2 .. MaxPolls : p \in Polls /\ p - 1 \in Polls
<1>1. MaxPolls \in Nat
  BY TopologyAssumption
<1> QED
  BY <1>1 DEF Polls

(* A rate stays true as long as the rate, the samples and their times do. *)
LEMMA RateKept ==
    ASSUME NEW p, NEW b, TrueRate(p, b), hist' = hist,
           obj'[p][b].rate.set =>
               /\ obj'[p][b].rate = obj[p][b].rate
               /\ obj'[p][b].at = obj[p][b].at
               /\ obj'[p - 1][b].at = obj[p - 1][b].at
               /\ Sampled(p, b)' => Sampled(p, b)
               /\ Sampled(p - 1, b)' => Sampled(p - 1, b)
    PROVE  TrueRate(p, b)'
<1> SUFFICES ASSUME obj'[p][b].rate.set PROVE TrueRate(p, b)'
  BY DEF TrueRate
<1> QED
  BY DEF TrueRate, NoRestart

(* Steps that leave locks and rates alone. *)
LEMMA LocksKept ==
    ASSUME PIDExclusive, UNCHANGED <<users, torn, fatal>>,
           \A q \in Polls, b \in Backends :
              /\ obj'[q][b].locked = obj[q][b].locked
              /\ obj'[q][b].rate = obj[q][b].rate
    PROVE  PIDExclusive'
<1>1. ASSUME NEW q \in Polls, NEW b \in Backends PROVE LockState(q, b)'
  <2>1. LockState(q, b)
    BY DEF PIDExclusive
  <2> QED
    BY <2>1 DEF LockState
<1>2. fatal' => \E q \in Polls, b \in Backends :
                   torn'[q][b] = "open" /\ ~obj'[q][b].locked
  BY DEF PIDExclusive
<1> QED
  BY <1>1, <1>2 DEF PIDExclusive

(* Steps that leave ids and sums alone. *)
LEMMA FinalizedKept ==
    ASSUME NEW q \in Polls, NEW g \in Groups, Finalized(q, g), finals' = finals,
           \A b \in Backends : /\ obj'[q][b].ids = obj[q][b].ids
                               /\ obj'[q][b].sum = obj[q][b].sum
    PROVE  Finalized(q, g)'
<1>1. \A b \in Members(g) : /\ obj'[q][b].ids = obj[q][b].ids
                            /\ obj'[q][b].sum = obj[q][b].sum
  BY DEF Members
<1>2. IdsOf(q, g)' = IdsOf(q, g)
  BY <1>1 DEF IdsOf
<1> QED
  BY <1>1, <1>2 DEF Finalized

(* Finalize keeps its books, and so does GetRoutes. *)
LEMMA FinalizedAfter ==
    ASSUME TypeOK, NEW p \in Polls, NEW r \in [Groups -> 0 .. MaxPolls],
           NEW t \in Tables, NEW rank \in Orders, GetRoutes(p, r, t, rank),
           NEW q \in Polls, NEW g \in Groups, Finalized(q, g)
    PROVE  Finalized(q, g)'
<1> DEFINE r1 == RefAfter(p, r, Known(t))
<1>1. /\ \A b \in Backends :
                 /\ r1[GroupOf[b]] # q => obj'[q][b] = obj[q][b]
                 /\ r1[GroupOf[b]] = q =>
                      /\ obj'[q][b].ids = obj[q][b].ids \cup t[b]
                      /\ obj'[q][b].sum =
                           (obj[q][b].sum + Gain(IdsWith(obj[q], t, GroupOf[b]),
                                                 rank, b)) % Word
      /\ finals'[q][g] = finals[q][g] + Run(r1, q, obj[q], t, g)
  BY RoutesEffect
<1>2. \A b \in Members(g) : b \in Backends /\ GroupOf[b] = g
  BY DEF Members
<1>3. finals[q][g] \in Nat
  BY DEF TypeOK
<1> HIDE DEF r1
<1>4. CASE r1[g] # q
  <2>1. \A b \in Members(g) : obj'[q][b] = obj[q][b]
    BY <1>1, <1>2, <1>4
  <2>2. IdsOf(q, g)' = IdsOf(q, g)
    BY <2>1 DEF IdsOf
  <2>3. finals'[q][g] = finals[q][g]
    BY <1>1, <1>3, <1>4 DEF Run
  <2> QED
    BY <2>1, <2>2, <2>3 DEF Finalized
<1>5. CASE r1[g] = q
  <2> DEFINE new == IdsWith(obj[q], t, g)
  <2>1. IdsOf(q, g)' = new
    <3>1. \A d \in Members(g) : obj'[q][d].ids = obj[q][d].ids \cup t[d]
      BY <1>1, <1>2, <1>5
    <3> QED
      BY <3>1 DEF IdsOf, IdsWith
  <2>2. ASSUME NEW b \in Members(g), finals[q][g] = 0
        PROVE  obj'[q][b].sum = Gain(new, rank, b) % Word
    <3>1. obj[q][b].sum = 0
      BY <2>2 DEF Finalized
    <3>2. obj'[q][b].sum = (0 + Gain(new, rank, b)) % Word
      BY <1>1, <1>2, <1>5, <3>1
    <3>3. Gain(new, rank, b) \in Nat
      BY GainOfRoutes
    <3>4. 0 + Gain(new, rank, b) = Gain(new, rank, b)
      BY <3>3
    <3> QED
      BY <3>2, <3>4
  <2>3. CASE Starts(new) # {}
    <3>1. finals'[q][g] = finals[q][g] + 1
      BY <1>1, <1>5, <2>3 DEF Run
    <3>2. finals'[q][g] # 0 /\ (finals'[q][g] = 1 => finals[q][g] = 0)
      BY <3>1, <1>3
    <3> QED
      BY <2>1, <2>2, <2>3, <3>2 DEF Finalized
  <2>4. CASE Starts(new) = {}
    <3>1. \A b \in Members(g) : new[b] = {} /\ new[b] = obj[q][b].ids \cup t[b]
      <4>1. DOMAIN new = Members(g)
        BY DEF IdsWith
      <4>2. \A b \in Members(g) : new[b] = obj[q][b].ids \cup t[b]
        BY DEF IdsWith
      <4> HIDE DEF new
      <4> QED
        BY <2>4, <4>1, <4>2 DEF Starts
    <3>2. Starts(IdsOf(q, g)) = {}
      <4>1. \A b \in Members(g) : obj[q][b].ids = {}
        BY <3>1
      <4> QED
        BY <4>1 DEF Starts, IdsOf
    <3>3. finals[q][g] = 0 /\ finals'[q][g] = 0
      BY <1>1, <1>3, <2>4, <3>2 DEF Run, Finalized
    <3>4. ASSUME NEW b \in Members(g)
          PROVE  obj'[q][b].ids = {} /\ obj'[q][b].sum = 0
      <4>1. obj'[q][b].ids = {}
        BY <1>1, <1>2, <1>5, <3>1
      <4>2. Gain(new, rank, b) = 0
        <5>1. OnRing(new)
          BY <3>1 DEF OnRing, IdsWith
        <5> QED
          BY <5>1, <2>4, NothingToGive
      <4>3. 0 % Word = 0
        BY WordFacts
      <4> QED
        BY <2>2, <3>3, <4>1, <4>2, <4>3
    <3> QED
      BY <3>3, <3>4 DEF Finalized
  <2> QED
    BY <2>3, <2>4
<1> QED
  BY <1>4, <1>5

(* Initially there is nothing. *)
LEMMA InitMInv == Init => MInv
<1> SUFFICES ASSUME Init PROVE MInv
  OBVIOUS
<1>0. MaxPolls \in Nat \ {0} /\ MaxClock \in Nat \ {0} /\ MaxAgain \in Nat /\ MaxId \in Nat
  BY TopologyAssumption, WordFacts
<1>1. NewStatBackend \in StatBackends
  BY <1>0 DEF NewStatBackend, NoRate, StatBackends
<1>2. Now = 1 /\ hist \in Seq([Backends -> 0 .. MaxId])
  BY <1>0 DEF Init, Now
<1>3. TypeOK
  <2>1. obj \in [Polls -> [Backends -> StatBackends]]
    BY <1>1 DEF Init
  <2>2. Now \in 1 .. MaxClock
    BY <1>0, <1>2
  <2>3. /\ time \in [Polls -> 0 .. MaxClock]
        /\ ref \in [Polls -> [Groups -> 0 .. MaxPolls]]
        /\ \A p \in Polls, g \in Groups : ref[p][g] <= p
        /\ finals \in [Polls -> [Groups -> 0 .. MaxPolls + MaxAgain]]
    BY <1>0 DEF Init, Polls
  <2>4. /\ poll \in 0 .. MaxPolls /\ again \in 0 .. MaxAgain
        /\ phase = "idle" /\ waiting = {} /\ since = 0 /\ fatal = FALSE
        /\ since \in 0 .. Now
    BY <1>0, <1>2 DEF Init
  <2>5. /\ users \in [Polls -> [Backends -> 0 .. 2]]
        /\ torn \in [Polls -> [Backends -> {"no", "stuck", "open"}]]
    BY DEF Init
  <2> QED
    BY <1>2, <2>1, <2>2, <2>3, <2>4, <2>5 DEF TypeOK
<1>4. \A q \in Polls, b \in Backends :
         /\ obj[q][b].locked = FALSE /\ obj[q][b].at = 0
         /\ obj[q][b].rate.set = FALSE
         /\ users[q][b] = 0 /\ torn[q][b] = "no"
         /\ obj[q][b].ids = {} /\ obj[q][b].sum = 0
  BY DEF Init, NewStatBackend, NoRate
<1>5. PIDExclusive
  BY <1>4 DEF Init, PIDExclusive, LockState
<1>6. Recorded
  <2>1. OwnGroups
    BY DEF Init, OwnGroups
  <2>2. FinalsCounted
    BY DEF Init, FinalsCounted
  <2>3. \A q \in Polls, g \in Groups : Finalized(q, g)
    <3>1. \A q \in Polls, g \in Groups : finals[q][g] = 0
      BY DEF Init
    <3> QED
      BY <3>1, <1>4 DEF Finalized, Members
  <2>4. \A q \in Polls, b \in Backends : Dated(q, b) /\ Rated(q, b)
    BY <1>4 DEF Dated, Rated
  <2>5. \A p \in 2 .. MaxPolls, b \in Backends : Aging(p, b)
    <3>1. \A p \in 2 .. MaxPolls : p \in Polls
      BY DEF Polls
    <3> QED
      BY <3>1, <1>4 DEF Aging
  <2>6. Climbs
    <3>1. \A b \in Backends : hist[1][b] = 0
      BY DEF Init
    <3>2. \A i \in 1 .. Now : i = 1
      BY <1>2
    <3> QED
      BY <3>1, <3>2 DEF Climbs
  <2> QED
    BY <2>1, <2>2, <2>3, <2>4, <2>5, <2>6 DEF Recorded
<1>7. RateIsTrue
  <2>1. \A p \in 2 .. MaxPolls : p \in Polls
    BY DEF Polls
  <2> QED
    BY <2>1, <1>4 DEF RateIsTrue, TrueRate
<1> QED
  BY <1>3, <1>5, <1>6, <1>7 DEF MInv

(* The servers' clock: one more entry in the history. *)
LEMMA TickStep ==
    ASSUME MInv, NEW c \in [Backends -> 0 .. MaxId], Tick(c)
    PROVE  MInv'
<1>0. /\ TypeOK /\ PIDExclusive /\ Recorded /\ RateIsTrue
      /\ MaxClock \in Nat
  BY TopologyAssumption DEF MInv
<1>1. /\ hist' = Append(hist, c) /\ Now < MaxClock
      /\ UNCHANGED <<poll, phase, since, waiting, time, ref, obj, finals,
                     again, users, torn, fatal>>
  BY DEF Tick, statVars, pidVars
<1>2. /\ hist \in Seq([Backends -> 0 .. MaxId]) /\ Now \in 1 .. MaxClock
      /\ Now \in Nat
  BY <1>0 DEF TypeOK
<1>3. /\ hist' \in Seq([Backends -> 0 .. MaxId]) /\ Now' = Now + 1
      /\ Now' \in 1 .. MaxClock
      /\ \A i \in 1 .. Now : hist'[i] = hist[i]
      /\ hist'[Now + 1] = c
  BY <1>0, <1>1, <1>2 DEF Now
<1>4. TypeOK'
  <2>1. since \in 0 .. Now /\ since \in 0 .. Now + 1
    BY <1>0, <1>2 DEF TypeOK
  <2> QED
    BY <1>0, <1>1, <1>3, <2>1 DEF TypeOK
<1>5. PIDExclusive'
  BY <1>0, <1>1, LocksKept
<1>6. \A q \in Polls, b \in Backends :
         obj[q][b].at \in 0 .. MaxClock
  BY <1>0 DEF TypeOK, StatBackends
<1>7. Climbs'
  <2> SUFFICES ASSUME NEW b \in Backends, NEW from \in 1 .. Now + 1,
                      NEW to \in 1 .. Now + 1, from <= to,
                      \A t \in from .. to - 1 : hist'[t][b] <= hist'[t + 1][b]
               PROVE  hist'[from][b] <= hist'[to][b]
    BY <1>3 DEF Climbs, NoRestart
  <2>0. \A i \in 1 .. Now + 1 : hist'[i][b] \in 0 .. MaxId
    <3>1. \A i \in 1 .. Now + 1 : hist'[i] \in [Backends -> 0 .. MaxId]
      BY <1>3 DEF Now
    <3> QED
      BY <3>1
  <2>1. CASE to <= Now
    <3>1. from \in 1 .. Now /\ to \in 1 .. Now
      BY <2>1, <1>2
    <3>2. \A t \in from .. to - 1 : hist[t][b] <= hist[t + 1][b]
      <4>1. \A t \in from .. to - 1 : t \in 1 .. Now /\ t + 1 \in 1 .. Now
        BY <3>1, <1>2
      <4> QED
        BY <4>1, <1>3
    <3>3. hist[from][b] <= hist[to][b]
      BY <3>1, <3>2, <1>0 DEF Recorded, Climbs, NoRestart
    <3> QED
      BY <3>1, <3>3, <1>3
  <2>2. CASE to = Now + 1 /\ from = to
    BY <2>0, <2>2
  <2>3. CASE to = Now + 1 /\ from # to
    <3>1. from \in 1 .. Now /\ Now \in 1 .. Now /\ from <= Now
      BY <2>3, <1>2
    <3>2. \A t \in from .. Now - 1 : hist[t][b] <= hist[t + 1][b]
      <4>1. \A t \in from .. Now - 1 :
               t \in 1 .. Now /\ t + 1 \in 1 .. Now /\ t \in from .. to - 1
        BY <3>1, <2>3, <1>2
      <4> QED
        BY <4>1, <1>3
    <3>3. hist[from][b] <= hist[Now][b]
      BY <3>1, <3>2, <1>0 DEF Recorded, Climbs, NoRestart
    <3>4. hist'[Now][b] <= hist'[Now + 1][b]
      <4>1. Now \in from .. to - 1
        BY <2>3, <3>1, <1>2
      <4> QED
        BY <4>1
    <3>5. hist'[from][b] = hist[from][b] /\ hist'[Now][b] = hist[Now][b]
      BY <3>1, <1>3
    <3>6. /\ hist'[from][b] \in Nat /\ hist'[Now][b] \in Nat
          /\ hist'[Now + 1][b] \in Nat
      <4>1. Now \in 1 .. Now + 1 /\ Now + 1 \in 1 .. Now + 1
        BY <1>2
      <4>2. /\ hist'[from][b] \in 0 .. MaxId /\ hist'[Now][b] \in 0 .. MaxId
            /\ hist'[Now + 1][b] \in 0 .. MaxId
        BY <4>1, <2>0
      <4> QED
        BY <4>2
    <3>7. \A x, y, z \in Nat : x <= y /\ y <= z => x <= z
      OBVIOUS
    <3> QED
      BY <2>3, <3>3, <3>4, <3>5, <3>6, <3>7
  <2> QED
    BY <2>1, <2>2, <2>3, <1>2
<1>8. ASSUME NEW q \in Polls, NEW b \in Backends PROVE Dated(q, b)'
  <2>1. Dated(q, b)
    BY <1>0 DEF Recorded
  <2>2. obj[q][b].at # 0 /\ obj[q][b].at <= Now => obj[q][b].at \in 1 .. Now
    BY <1>6, <1>2
  <2>3. obj[q][b].at # 0 => /\ q <= poll /\ obj[q][b].at \in 1 .. Now
                            /\ q < poll /\ since # 0 => obj[q][b].at <= since
                            /\ obj[q][b].count = hist[obj[q][b].at][b]
    BY <2>1, <2>2 DEF Dated
  <2>4. obj[q][b].at \in 1 .. Now => obj[q][b].at <= Now + 1
    BY <1>2
  <2> QED
    BY <1>1, <1>3, <2>3, <2>4 DEF Dated
<1>9. Recorded'
  <2>1. OwnGroups' /\ FinalsCounted'
    BY <1>0, <1>1 DEF Recorded, OwnGroups, FinalsCounted
  <2>2. \A q \in Polls, g \in Groups : Finalized(q, g)'
    BY <1>0, <1>1, FinalizedKept DEF Recorded
  <2>3. \A q \in Polls, b \in Backends : Rated(q, b)'
    BY <1>0, <1>1 DEF Recorded, Rated
  <2>4. \A p \in 2 .. MaxPolls, b \in Backends : Aging(p, b)'
    BY <1>0, <1>1 DEF Recorded, Aging
  <2> QED
    BY <1>7, <1>8, <2>1, <2>2, <2>3, <2>4 DEF Recorded
<1>10. ASSUME NEW p \in 2 .. MaxPolls, NEW b \in Backends PROVE TrueRate(p, b)'
  <2> DEFINE from == obj[p - 1][b].at
             to == obj[p][b].at
  <2>0. p \in Polls /\ p - 1 \in Polls
    BY PollPairs
  <2>1. TrueRate(p, b)
    BY <1>0 DEF RateIsTrue
  <2>2. /\ from # 0 => from \in 1 .. Now
        /\ to # 0 => to \in 1 .. Now
    <3>1. Dated(p, b) /\ Dated(p - 1, b)
      BY <1>0, <2>0 DEF Recorded
    <3>2. from \in 0 .. MaxClock /\ to \in 0 .. MaxClock
      BY <1>6, <2>0
    <3>3. (from # 0 => from <= Now) /\ (to # 0 => to <= Now)
      BY <3>1 DEF Dated
    <3> HIDE DEF from, to
    <3> QED
      BY <3>2, <3>3, <1>2
  <2>3. ASSUME from # 0, to # 0,
               \A t \in from .. to - 1 : hist'[t][b] <= hist'[t + 1][b]
        PROVE  \A t \in from .. to - 1 : hist[t][b] <= hist[t + 1][b]
    <3> HIDE DEF from, to
    <3>1. from \in 1 .. Now /\ to \in 1 .. Now
      BY <2>2, <2>3
    <3>2. \A t \in from .. to - 1 : t \in 1 .. Now /\ t + 1 \in 1 .. Now
      BY <3>1, <1>2
    <3> QED
      BY <3>2, <2>3, <1>3
  <2>4. from # 0 /\ to # 0 => hist'[from] = hist[from] /\ hist'[to] = hist[to]
    BY <2>2, <1>3
  <2> QED
    BY <1>1, <2>1, <2>3, <2>4 DEF TrueRate, Sampled, NoRestart
<1>11. RateIsTrue'
  BY <1>10 DEF RateIsTrue
<1> QED
  BY <1>4, <1>5, <1>9, <1>11 DEF MInv

(* A new call of DnetStat. *)
LEMMA StartStep ==
    ASSUME MInv, NEW t \in Tables, NEW rank \in Orders, StartPoll(t, rank)
    PROVE  MInv'
<1>0. /\ TypeOK /\ PIDExclusive /\ Recorded /\ RateIsTrue
      /\ MaxPolls \in Nat /\ MaxAgain \in Nat
  BY TopologyAssumption DEF MInv
<1>1. /\ phase = "idle" /\ poll < MaxPolls /\ poll' = poll + 1
      /\ GetRoutes(poll + 1, FirstGroups(poll + 1), t, rank)
      /\ waiting' = Servers /\ phase' = "entries" /\ since' = Now
      /\ UNCHANGED <<hist, time, again, users, torn, fatal>>
  BY DEF StartPoll, pidVars
<1> DEFINE p == poll + 1
           r == FirstGroups(p)
           r1 == RefAfter(p, r, Known(t))
<1>2. poll \in Nat /\ p \in Polls /\ p \in 1 .. MaxPolls
  BY <1>0, <1>1 DEF TypeOK, Polls
<1>3. r \in [Groups -> 0 .. MaxPolls] /\ \A g \in Groups : r[g] = 0
  BY <1>0 DEF FirstGroups
<1> HIDE DEF p, r
<1>4. r1 \in [Groups -> 0 .. MaxPolls] /\ \A g \in Groups : r1[g] \in {0, p}
  BY <1>2, <1>3, RefsAfter
<1>5. GetRoutes(p, r, t, rank) /\ poll' = p /\ p = poll + 1
  BY <1>1 DEF p, r
<1>6. /\ ref' = [ref EXCEPT ![p] = r1]
      /\ obj' \in [Polls -> [Backends -> StatBackends]]
      /\ \A q \in Polls, b \in Backends :
            /\ obj'[q][b].at = obj[q][b].at
            /\ obj'[q][b].count = obj[q][b].count
            /\ obj'[q][b].rate = obj[q][b].rate
            /\ obj'[q][b].locked = obj[q][b].locked
      /\ finals' = [q \in Polls |-> [g \in Groups |->
                       finals[q][g] + Run(r1, q, obj[q], t, g)]]
  BY <1>0, <1>2, <1>3, <1>5, RoutesEffect
<1> HIDE DEF r1
<1>7. FinalsCounted'
  <2>1. \A q \in Polls, g \in Groups : finals[q][g] <= poll + again /\ finals[q][g] \in Nat
    BY <1>0 DEF Recorded, FinalsCounted, TypeOK
  <2>2. again \in Nat
    BY <1>0 DEF TypeOK
  <2>3. \A q \in Polls, g \in Groups : finals'[q][g] <= (poll + 1) + again
    BY <1>2, <1>6, <2>1, <2>2 DEF Run
  <2> QED
    BY <2>3, <1>1, <1>5 DEF FinalsCounted
<1>8. TypeOK'
  <2>1. finals' \in [Polls -> [Groups -> 0 .. MaxPolls + MaxAgain]]
    <3>1. \A q \in Polls, g \in Groups : finals[q][g] \in Nat
      BY <1>0 DEF TypeOK
    <3>2. again \in 0 .. MaxAgain /\ p <= MaxPolls /\ p \in Nat
      BY <1>0, <1>2 DEF TypeOK
    <3>3. \A q \in Polls, g \in Groups : finals'[q][g] <= p + again
      BY <1>1, <1>5, <1>7 DEF FinalsCounted
    <3>4. \A q \in Polls, g \in Groups : finals'[q][g] \in 0 .. MaxPolls + MaxAgain
      <4>1. \A q \in Polls, g \in Groups : finals'[q][g] \in Nat
        BY <3>1, <1>6 DEF Run
      <4> QED
        BY <3>2, <3>3, <4>1, <1>0
    <3>5. finals' = [q \in Polls |-> [g \in Groups |-> finals'[q][g]]]
      BY <1>6
    <3> QED
      BY <3>4, <3>5
  <2>2. ref' \in [Polls -> [Groups -> 0 .. MaxPolls]]
    BY <1>0, <1>2, <1>4, <1>6 DEF TypeOK
  <2>3. \A q \in Polls, g \in Groups : ref'[q][g] <= q
    <3>1. \A g \in Groups : r1[g] <= p
      BY <1>2, <1>4
    <3> QED
      BY <3>1, <1>0, <1>2, <1>6 DEF TypeOK
  <2>4. poll' \in 0 .. MaxPolls
    BY <1>2, <1>5
  <2> QED
    BY <1>0, <1>1, <1>6, <2>1, <2>2, <2>3, <2>4 DEF TypeOK, Now
<1>9. PIDExclusive'
  BY <1>0, <1>1, <1>6, LocksKept
<1>10. \A q \in Polls : q # p => ref'[q] = ref[q]
  BY <1>0, <1>6 DEF TypeOK
<1>11. ref'[p] = r1 /\ p # 0
  BY <1>0, <1>2, <1>6 DEF TypeOK
<1>12. ASSUME NEW q \in Polls, NEW b \in Backends PROVE Dated(q, b)' /\ Rated(q, b)'
  <2>1. Dated(q, b) /\ Rated(q, b)
    BY <1>0 DEF Recorded
  <2>2. q <= poll => q <= p
    BY <1>2, <1>5 DEF Polls
  <2>3. q < poll \/ q = poll => q < p /\ q # p
    BY <1>2, <1>5 DEF Polls
  <2>4. Dated(q, b)'
    BY <1>1, <1>5, <1>6, <2>1, <2>2 DEF Dated, Now
  <2>5. Rated(q, b)'
    BY <1>5, <1>6, <1>10, <2>1, <2>3 DEF Rated
  <2> QED
    BY <2>4, <2>5
<1>13. Recorded'
  <2>1. OwnGroups'
    BY <1>1, <1>4, <1>5, <1>11 DEF OwnGroups
  <2>2. \A q \in Polls, g \in Groups : Finalized(q, g)'
    BY <1>0, <1>2, <1>3, <1>5, FinalizedAfter DEF Recorded
  <2>3. \A i \in 2 .. MaxPolls, b \in Backends : Aging(i, b)'
    BY <1>0, <1>6, PollPairs DEF Recorded, Aging
  <2>4. Climbs'
    BY <1>0, <1>1 DEF Recorded, Climbs, NoRestart, Now
  <2> QED
    BY <1>7, <1>12, <2>1, <2>2, <2>3, <2>4 DEF Recorded
<1>14. RateIsTrue'
  <2> SUFFICES ASSUME NEW i \in 2 .. MaxPolls, NEW b \in Backends
               PROVE  TrueRate(i, b)'
    BY DEF RateIsTrue
  <2>0. i \in Polls /\ i - 1 \in Polls
    BY PollPairs
  <2>1. TrueRate(i, b) /\ Rated(i, b)
    BY <1>0, <2>0 DEF RateIsTrue, Recorded
  <2>2. obj'[i][b].rate.set => i # p /\ i - 1 # p
    <3>1. obj'[i][b].rate.set => i < poll \/ i = poll
      BY <1>6, <2>0, <2>1 DEF Rated
    <3> QED
      BY <3>1, <1>2, <1>5
  <2>3. obj'[i][b].rate.set => /\ Sampled(i, b)' => Sampled(i, b)
                               /\ Sampled(i - 1, b)' => Sampled(i - 1, b)
    BY <1>1, <1>6, <1>10, <2>0, <2>2 DEF Sampled
  <2> QED
    BY <1>1, <1>6, <2>0, <2>1, <2>3, RateKept
<1> QED
  BY <1>8, <1>9, <1>13, <1>14 DEF MInv

(* GetRoutes once more. *)
LEMMA AgainStep ==
    ASSUME MInv, NEW t \in Tables, NEW rank \in Orders, RouteAgain(t, rank)
    PROVE  MInv'
<1>0. /\ TypeOK /\ PIDExclusive /\ Recorded /\ RateIsTrue
      /\ MaxPolls \in Nat /\ MaxAgain \in Nat
  BY TopologyAssumption DEF MInv
<1>1. /\ phase # "entries" /\ poll > 0 /\ again < MaxAgain /\ again' = again + 1
      /\ GetRoutes(poll, ref[poll], t, rank)
      /\ UNCHANGED <<hist, poll, phase, since, waiting, time, users, torn,
                     fatal>>
  BY DEF RouteAgain, pidVars
<1> DEFINE r1 == RefAfter(poll, ref[poll], Known(t))
<1>2. poll \in Nat /\ poll \in Polls
  BY <1>0, <1>1 DEF TypeOK, Polls
<1>3. ref[poll] \in [Groups -> 0 .. MaxPolls] /\ \A g \in Groups : ref[poll][g] <= poll
  BY <1>0, <1>2 DEF TypeOK
<1>4. /\ r1 \in [Groups -> 0 .. MaxPolls]
      /\ \A g \in Groups : \/ r1[g] = ref[poll][g]
                           \/ ref[poll][g] = 0 /\ r1[g] = poll
  BY <1>2, <1>3, RefsAfter
<1>6. /\ ref' = [ref EXCEPT ![poll] = r1]
      /\ obj' \in [Polls -> [Backends -> StatBackends]]
      /\ \A q \in Polls, b \in Backends :
            /\ obj'[q][b].at = obj[q][b].at
            /\ obj'[q][b].count = obj[q][b].count
            /\ obj'[q][b].rate = obj[q][b].rate
            /\ obj'[q][b].locked = obj[q][b].locked
      /\ finals' = [q \in Polls |-> [g \in Groups |->
                       finals[q][g] + Run(r1, q, obj[q], t, g)]]
  BY <1>0, <1>1, <1>2, <1>3, RoutesEffect
<1> HIDE DEF r1
<1>7. FinalsCounted'
  <2>1. \A q \in Polls, g \in Groups : finals[q][g] <= poll + again /\ finals[q][g] \in Nat
    BY <1>0 DEF Recorded, FinalsCounted, TypeOK
  <2>2. again \in Nat
    BY <1>0 DEF TypeOK
  <2>3. \A q \in Polls, g \in Groups : finals'[q][g] <= poll + (again + 1)
    BY <1>2, <1>6, <2>1, <2>2 DEF Run
  <2> QED
    BY <2>3, <1>1 DEF FinalsCounted
<1>8. TypeOK'
  <2>0. again' \in 0 .. MaxAgain
    BY <1>0, <1>1 DEF TypeOK
  <2>1. finals' \in [Polls -> [Groups -> 0 .. MaxPolls + MaxAgain]]
    <3>1. \A q \in Polls, g \in Groups : finals[q][g] \in Nat
      BY <1>0 DEF TypeOK
    <3>2. poll <= MaxPolls
      BY <1>0 DEF TypeOK
    <3>3. \A q \in Polls, g \in Groups : finals'[q][g] <= poll + again'
      BY <1>1, <1>7 DEF FinalsCounted
    <3>4. \A q \in Polls, g \in Groups : finals'[q][g] \in 0 .. MaxPolls + MaxAgain
      <4>1. \A q \in Polls, g \in Groups : finals'[q][g] \in Nat
        BY <3>1, <1>6 DEF Run
      <4> QED
        BY <3>2, <3>3, <4>1, <1>0, <1>2, <2>0
    <3>5. finals' = [q \in Polls |-> [g \in Groups |-> finals'[q][g]]]
      BY <1>6
    <3> QED
      BY <3>4, <3>5
  <2>2. ref' \in [Polls -> [Groups -> 0 .. MaxPolls]]
    BY <1>0, <1>2, <1>4, <1>6 DEF TypeOK
  <2>3. \A q \in Polls, g \in Groups : ref'[q][g] <= q
    <3>1. \A g \in Groups : r1[g] <= poll
      BY <1>2, <1>3, <1>4
    <3> QED
      BY <3>1, <1>0, <1>2, <1>6 DEF TypeOK
  <2> QED
    BY <1>0, <1>1, <1>6, <2>0, <2>1, <2>2, <2>3 DEF TypeOK, Now
<1>9. PIDExclusive'
  BY <1>0, <1>1, <1>6, LocksKept
<1>10. \A q \in Polls : q # poll => ref'[q] = ref[q]
  BY <1>0, <1>6 DEF TypeOK
<1>11. ref'[poll] = r1 /\ poll # 0
  BY <1>0, <1>1, <1>2, <1>6 DEF TypeOK
<1>12. ASSUME NEW q \in Polls, NEW b \in Backends PROVE Dated(q, b)' /\ Rated(q, b)'
  <2>1. Dated(q, b) /\ Rated(q, b) /\ GroupOf[b] \in Groups
    BY <1>0, TopologyAssumption DEF Recorded
  <2>4. Dated(q, b)'
    BY <1>1, <1>6, <2>1 DEF Dated, Now
  <2>5. ref[q][GroupOf[b]] = q => ref'[q][GroupOf[b]] = q
    BY <1>4, <1>10, <1>11, <2>1
  <2>6. Rated(q, b)'
    BY <1>1, <1>6, <2>1, <2>5 DEF Rated
  <2> QED
    BY <2>4, <2>6
<1>13. Recorded'
  <2>1. OwnGroups'
    BY <1>0, <1>1, <1>4, <1>11 DEF Recorded, OwnGroups
  <2>2. \A q \in Polls, g \in Groups : Finalized(q, g)'
    BY <1>0, <1>1, <1>2, <1>3, FinalizedAfter DEF Recorded
  <2>3. \A i \in 2 .. MaxPolls, b \in Backends : Aging(i, b)'
    BY <1>0, <1>6, PollPairs DEF Recorded, Aging
  <2>4. Climbs'
    BY <1>0, <1>1 DEF Recorded, Climbs, NoRestart, Now
  <2> QED
    BY <1>7, <1>12, <2>1, <2>2, <2>3, <2>4 DEF Recorded
<1>14. RateIsTrue'
  <2> SUFFICES ASSUME NEW i \in 2 .. MaxPolls, NEW b \in Backends
               PROVE  TrueRate(i, b)'
    BY DEF RateIsTrue
  <2>0. i \in Polls /\ i - 1 \in Polls
    BY PollPairs
  <2>1. TrueRate(i, b) /\ Rated(i, b)
    BY <1>0, <2>0 DEF RateIsTrue, Recorded
  <2>2. obj'[i][b].rate.set => i - 1 # poll /\ ref[i][GroupOf[b]] = i
    <3>1. obj'[i][b].rate.set => (i < poll \/ i = poll) /\ ref[i][GroupOf[b]] = i
      BY <1>6, <2>0, <2>1 DEF Rated
    <3> QED
      BY <3>1, <1>2
  <2>3. obj'[i][b].rate.set => /\ Sampled(i, b)' => Sampled(i, b)
                               /\ Sampled(i - 1, b)' => Sampled(i - 1, b)
    BY <1>1, <1>6, <1>10, <2>0, <2>2 DEF Sampled
  <2> QED
    BY <1>1, <1>6, <2>0, <2>1, <2>3, RateKept
<1> QED
  BY <1>8, <1>9, <1>13, <1>14 DEF MInv

(* A reply without statistics, or the end of the replies: only the time. *)
Timed ==
    /\ phase = "entries"
    /\ \/ phase' = "entries" /\ since' = since
       \/ phase' = "polled" /\ since' = 0
    /\ waiting' \subseteq waiting
    /\ \/ time' = time
       \/ \E v \in 0 .. MaxClock : time' = [time EXCEPT ![poll] = v]
    /\ UNCHANGED <<hist, poll, ref, obj, finals, again, users, torn, fatal>>

(* Replies that only give a time, and the end of the replies. *)
LEMMA TimedStep ==
    ASSUME MInv, Timed
    PROVE  MInv'
<1>0. /\ TypeOK /\ PIDExclusive /\ Recorded /\ RateIsTrue
      /\ MaxClock \in Nat
  BY TopologyAssumption DEF MInv
<1>1. /\ phase = "entries" /\ phase' \in {"entries", "polled"}
      /\ since' = since \/ since' = 0
      /\ UNCHANGED <<hist, poll, ref, obj, finals, again, users, torn, fatal>>
  BY DEF Timed
<1>2. poll \in Polls
  BY <1>0, <1>1, UnderWay DEF Recorded
<1>3. /\ time' \in [Polls -> 0 .. MaxClock]
      /\ \A q \in Polls : q # poll => time'[q] = time[q]
  BY <1>0, <1>2 DEF TypeOK, Timed
<1>4. TypeOK'
  BY <1>0, <1>1, <1>3 DEF TypeOK, Timed, Now
<1>5. PIDExclusive'
  BY <1>0, <1>1, LocksKept
<1>6. Recorded'
  <2>1. OwnGroups' /\ FinalsCounted'
    BY <1>0, <1>1 DEF Recorded, OwnGroups, FinalsCounted
  <2>2. \A q \in Polls, g \in Groups : Finalized(q, g)'
    BY <1>0, <1>1, FinalizedKept DEF Recorded
  <2>3. \A q \in Polls, b \in Backends : Dated(q, b)' /\ Rated(q, b)'
    BY <1>0, <1>1 DEF Recorded, Dated, Rated, Now
  <2>4. \A p \in 2 .. MaxPolls, b \in Backends : Aging(p, b)'
    BY <1>0, <1>1 DEF Recorded, Aging
  <2>5. Climbs'
    BY <1>0, <1>1 DEF Recorded, Climbs, NoRestart, Now
  <2> QED
    BY <2>1, <2>2, <2>3, <2>4, <2>5 DEF Recorded
<1>7. RateIsTrue'
  <2> SUFFICES ASSUME NEW i \in 2 .. MaxPolls, NEW b \in Backends
               PROVE  TrueRate(i, b)'
    BY DEF RateIsTrue
  <2>0. i \in Polls /\ i - 1 \in Polls /\ poll \in Nat
    BY PollPairs, <1>2 DEF Polls
  <2>1. TrueRate(i, b) /\ Rated(i, b)
    BY <1>0, <2>0 DEF RateIsTrue, Recorded
  <2>2. obj'[i][b].rate.set => i # poll /\ i - 1 # poll
    <3>1. obj'[i][b].rate.set => i < poll
      BY <1>1, <2>0, <2>1 DEF Rated
    <3> QED
      BY <3>1, <2>0
  <2>3. obj'[i][b].rate.set => /\ Sampled(i, b)' => Sampled(i, b)
                               /\ Sampled(i - 1, b)' => Sampled(i - 1, b)
    BY <1>1, <1>3, <2>0, <2>2 DEF Sampled
  <2> QED
    BY <1>1, <2>0, <2>1, <2>3, RateKept
<1> QED
  BY <1>4, <1>5, <1>6, <1>7 DEF MInv

(* A reply with statistics. *)
LEMMA EntryStep ==
    ASSUME MInv, NEW s \in Servers,
           NEW at \in since .. Now, NEW status \in Replies(s),
           GoodEntry(s, at, status)
    PROVE  MInv'
<1>0. /\ TypeOK /\ PIDExclusive /\ Recorded /\ RateIsTrue /\ OwnGroups
      /\ MaxClock \in Nat /\ GroupOf \in [Backends -> Groups]
  BY TopologyAssumption DEF MInv, Recorded
<1>1. /\ phase = "entries" /\ waiting' \subseteq waiting
      /\ time' = [time EXCEPT ![poll] = at]
      /\ UNCHANGED <<hist, poll, phase, since, finals, again, users, torn,
                     fatal>>
  BY DEF GoodEntry, pidVars
<1>2. /\ poll \in Polls /\ Now \in 0 .. MaxClock /\ Now \in Nat
      /\ since # 0 /\ since \in Nat
      /\ at \in 0 .. MaxClock /\ at \in Nat /\ since <= at /\ at <= Now
  BY <1>0, <1>1, UnderWay DEF TypeOK
<1>3. PICK r1 \in [Groups -> 0 .. MaxPolls] :
           /\ ref' = [ref EXCEPT ![poll] = r1]
           /\ \A g \in Groups : /\ r1[g] \in {0, poll}
                                /\ r1[g] = ref[poll][g] \/ ref[poll][g] = 0
           /\ obj' \in [Polls -> [Backends -> StatBackends]]
           /\ \A q \in Polls, b \in Backends :
                 /\ obj'[q][b].ids = obj[q][b].ids
                 /\ obj'[q][b].sum = obj[q][b].sum
                 /\ obj'[q][b].rate = obj[q][b].rate
                 /\ obj'[q][b].locked = obj[q][b].locked
                 /\ q # poll => obj'[q][b] = obj[q][b]
                 /\ \/ /\ obj'[q][b].at = obj[q][b].at
                       /\ obj'[q][b].count = obj[q][b].count
                    \/ /\ obj'[q][b].at = at
                       /\ obj'[q][b].count = hist[at][b]
  BY <1>0, EntryEffect
<1>4. /\ \A q \in Polls : q # poll => ref'[q] = ref[q] /\ time'[q] = time[q]
      /\ ref'[poll] = r1
  BY <1>0, <1>1, <1>2, <1>3 DEF TypeOK
<1>5. TypeOK'
  <2>1. time' \in [Polls -> 0 .. MaxClock]
    BY <1>0, <1>1, <1>2 DEF TypeOK
  <2>2. ref' \in [Polls -> [Groups -> 0 .. MaxPolls]]
    BY <1>0, <1>2, <1>3 DEF TypeOK
  <2>3. \A q \in Polls, g \in Groups : ref'[q][g] <= q
    <3>1. \A g \in Groups : r1[g] <= poll
      BY <1>2, <1>3 DEF Polls
    <3> QED
      BY <3>1, <1>0, <1>4 DEF TypeOK
  <2> QED
    BY <1>0, <1>1, <1>3, <2>1, <2>2, <2>3 DEF TypeOK, Now
<1>6. PIDExclusive'
  BY <1>0, <1>1, <1>3, LocksKept
<1>7. \A q \in Polls, b \in Backends :
         /\ obj[q][b].at \in 0 .. MaxClock
         /\ obj[q][b].at # 0 => obj[q][b].at <= Now /\ q <= poll
  <2>1. \A q \in Polls, b \in Backends : obj[q][b].at \in 0 .. MaxClock
    BY <1>0 DEF TypeOK, StatBackends
  <2> QED
    BY <2>1, <1>0 DEF Recorded, Dated
<1>8. ASSUME NEW q \in Polls, NEW b \in Backends PROVE Dated(q, b)' /\ Rated(q, b)'
  <2>1. Dated(q, b) /\ Rated(q, b)
    BY <1>0 DEF Recorded
  <2>2. Dated(q, b)'
    <3>1. CASE q # poll
      BY <1>1, <1>3, <2>1, <3>1 DEF Dated, Now
    <3>2. CASE q = poll
      <4>1. q <= poll /\ at <= Now /\ ~(q < poll)
        BY <1>2, <3>2 DEF Polls
      <4>2. \/ /\ obj'[q][b].at = obj[q][b].at
               /\ obj'[q][b].count = obj[q][b].count
            \/ /\ obj'[q][b].at = at
               /\ obj'[q][b].count = hist[at][b]
        BY <1>3
      <4> QED
        BY <1>1, <2>1, <4>1, <4>2 DEF Dated, Now
    <3> QED
      BY <3>1, <3>2
  <2>3. q < poll => q # poll
    BY <1>2 DEF Polls
  <2>4. Rated(q, b)'
    BY <1>1, <1>3, <1>4, <2>1, <2>3 DEF Rated
  <2> QED
    BY <2>2, <2>4
<1>9. ASSUME NEW p \in 2 .. MaxPolls, NEW b \in Backends PROVE Aging(p, b)'
  <2>0. p \in Polls /\ p - 1 \in Polls /\ poll \in Nat /\ p - 1 # p
    BY PollPairs, <1>2 DEF Polls
  <2>1. Aging(p, b)
    BY <1>0 DEF Recorded
  <2>2. CASE p = poll
    <3>1. obj'[p - 1][b] = obj[p - 1][b]
      BY <1>3, <2>0, <2>2
    <3>2. obj'[p][b].at = obj[p][b].at \/ obj'[p][b].at = at
      BY <1>3, <2>0
    <3>3. obj[p - 1][b].at # 0 => obj[p - 1][b].at <= at
      <4>1. Dated(p - 1, b) /\ p - 1 < poll
        BY <1>0, <2>0, <2>2 DEF Recorded
      <4>2. obj[p - 1][b].at # 0 => obj[p - 1][b].at <= since
        BY <1>2, <4>1 DEF Dated
      <4>3. obj[p - 1][b].at \in Nat
        BY <1>7, <2>0
      <4> QED
        BY <1>2, <4>2, <4>3
    <3> QED
      BY <2>1, <3>1, <3>2, <3>3 DEF Aging
  <2>3. CASE p - 1 = poll
    <3>1. obj'[p][b] = obj[p][b]
      BY <1>3, <2>0, <2>3
    <3>2. obj[p][b].at = 0
      <4>1. ~(p <= poll)
        BY <2>0, <2>3
      <4> QED
        BY <4>1, <1>7, <2>0
    <3> QED
      BY <3>1, <3>2 DEF Aging
  <2>4. CASE p # poll /\ p - 1 # poll
    BY <1>3, <2>0, <2>1, <2>4 DEF Aging
  <2> QED
    BY <2>2, <2>3, <2>4
<1>10. Recorded'
  <2>1. OwnGroups' /\ FinalsCounted'
    <3>1. OwnGroups'
      BY <1>0, <1>1, <1>3, <1>4 DEF OwnGroups
    <3> QED
      BY <3>1, <1>0, <1>1 DEF Recorded, FinalsCounted
  <2>2. ASSUME NEW q \in Polls, NEW g \in Groups PROVE Finalized(q, g)'
    <3>1. Finalized(q, g)
      BY <1>0 DEF Recorded
    <3> QED
      BY <1>1, <1>3, <3>1, FinalizedKept
  <2>3. Climbs'
    BY <1>0, <1>1 DEF Recorded, Climbs, NoRestart, Now
  <2> QED
    BY <1>8, <1>9, <2>1, <2>2, <2>3 DEF Recorded
<1>11. RateIsTrue'
  <2> SUFFICES ASSUME NEW i \in 2 .. MaxPolls, NEW b \in Backends
               PROVE  TrueRate(i, b)'
    BY DEF RateIsTrue
  <2>0. i \in Polls /\ i - 1 \in Polls /\ poll \in Nat
    BY PollPairs, <1>2 DEF Polls
  <2>1. TrueRate(i, b) /\ Rated(i, b)
    BY <1>0, <2>0 DEF RateIsTrue, Recorded
  <2>2. obj'[i][b].rate.set => i # poll /\ i - 1 # poll
    <3>1. obj'[i][b].rate.set => i < poll
      BY <1>1, <1>3, <2>0, <2>1 DEF Rated
    <3> QED
      BY <3>1, <2>0
  <2>3. obj'[i][b].rate.set => /\ obj'[i][b] = obj[i][b]
                               /\ obj'[i - 1][b] = obj[i - 1][b]
    BY <1>3, <2>0, <2>2
  <2>4. obj'[i][b].rate.set => /\ Sampled(i, b)' => Sampled(i, b)
                               /\ Sampled(i - 1, b)' => Sampled(i - 1, b)
    BY <1>4, <2>0, <2>2, <2>3 DEF Sampled
  <2> QED
    BY <1>1, <2>1, <2>3, <2>4, RateKept
<1> QED
  BY <1>5, <1>6, <1>10, <1>11 DEF MInv

(* The difference of counters that did not pass zero. *)
LEMMA Difference ==
    ASSUME NEW u \in 0 .. MaxId, NEW v \in 0 .. MaxId, v <= u
    PROVE  (u + Word - v) % Word = u - v
<1>1. Word \in Nat /\ Word = MaxId + 1 /\ MaxId \in Nat
  BY WordFacts
<1>2. u - v \in 0 .. MaxId
  BY <1>1
<1>3. u + Word - v = (u - v) + Word
  BY <1>1
<1>4. ((u - v) + Word) % Word = (u - v) % Word
  BY <1>1, <1>2
<1> QED
  BY <1>2, <1>3, <1>4, WordFacts

(* The difference of counters that fell: what is missing to the word. *)
LEMMA DifferenceFallen ==
    ASSUME NEW u \in 0 .. MaxId, NEW v \in 0 .. MaxId, u < v
    PROVE  (u + Word - v) % Word = Word - (v - u)
<1>1. Word \in Nat /\ Word = MaxId + 1 /\ MaxId \in Nat
  BY WordFacts
<1>2. u + Word - v \in 0 .. MaxId
  BY <1>1
<1>3. u + Word - v = Word - (v - u)
  BY <1>1
<1> QED
  BY <1>2, <1>3, WordFacts

(* Diff of the first poll: there is nothing to compare with. *)
LEMMA FirstDiffStep ==
    ASSUME MInv, Diff, poll = 1
    PROVE  MInv'
<1>0. /\ TypeOK /\ PIDExclusive /\ Recorded /\ RateIsTrue
  BY DEF MInv
<1>1. /\ phase' = "idle"
      /\ phase = "polled"
      /\ UNCHANGED <<hist, poll, since, waiting, time, ref, obj, finals, again,
                     users, torn, fatal>>
  BY DEF Diff
<1>2. TypeOK'
  BY <1>0, <1>1 DEF TypeOK, Now
<1>3. PIDExclusive'
  BY <1>0, <1>1, LocksKept
<1>4. Recorded'
  <2>1. OwnGroups' /\ FinalsCounted'
    BY <1>0, <1>1 DEF Recorded, OwnGroups, FinalsCounted
  <2>2. \A q \in Polls, g \in Groups : Finalized(q, g)'
    BY <1>0, <1>1, FinalizedKept DEF Recorded
  <2>3. \A q \in Polls, b \in Backends : Dated(q, b)' /\ Rated(q, b)'
    BY <1>0, <1>1 DEF Recorded, Dated, Rated, Now
  <2>4. \A p \in 2 .. MaxPolls, b \in Backends : Aging(p, b)'
    BY <1>0, <1>1 DEF Recorded, Aging
  <2>5. Climbs'
    BY <1>0, <1>1 DEF Recorded, Climbs, NoRestart, Now
  <2> QED
    BY <2>1, <2>2, <2>3, <2>4, <2>5 DEF Recorded
<1>5. RateIsTrue'
  BY <1>0, <1>1 DEF RateIsTrue, TrueRate, Sampled, NoRestart
<1> QED
  BY <1>2, <1>3, <1>4, <1>5 DEF MInv

(* Diff with the poll before. *)
LEMMA DiffStep ==
    ASSUME MInv, Diff, poll # 1
    PROVE  MInv'
<1>0. /\ TypeOK /\ PIDExclusive /\ Recorded /\ RateIsTrue /\ OwnGroups
      /\ MaxPolls \in Nat /\ GroupOf \in [Backends -> Groups]
  BY TopologyAssumption DEF MInv, Recorded
<1>1. /\ phase' = "idle"
      /\ UNCHANGED <<hist, poll, since, waiting, time, finals, again, users,
                     fatal>>
      /\ ~fatal
  BY DEF Diff
<1>2. /\ poll \in Polls /\ poll - 1 \in Polls /\ phase = "polled"
      /\ ref' = [ref EXCEPT ![poll] = GroupsAfterDiff(poll)]
      /\ obj' \in [Polls -> [Backends -> StatBackends]]
      /\ torn' \in [Polls -> [Backends -> {"no", "stuck", "open"}]]
      /\ \A q \in Polls, b \in Backends :
            /\ obj'[q][b].ids = obj[q][b].ids
            /\ obj'[q][b].sum = obj[q][b].sum
            /\ obj'[q][b].at = obj[q][b].at
            /\ obj'[q][b].count = obj[q][b].count
            /\ \/ obj'[q][b] = obj[q][b] /\ torn'[q][b] = torn[q][b]
               \/ /\ q = poll /\ ref[poll][GroupOf[b]] = poll
                  /\ ref[poll - 1][GroupOf[b]] # 0
                  /\ obj'[q][b].rate = Rate(obj[q][b], Old(b),
                                            time[poll] - time[poll - 1])
                  /\ torn'[q][b] = Tear(obj'[q][b].locked, users[q][b],
                                        torn[q][b])
  BY <1>0, DiffEffect
<1>3. poll \in Nat /\ poll # 0 /\ poll \in 2 .. MaxPolls /\ poll - 1 # poll
  BY <1>2, <1>0 DEF Polls
<1>4. /\ \A q \in Polls : q # poll => ref'[q] = ref[q]
      /\ ref'[poll] = GroupsAfterDiff(poll)
  BY <1>0, <1>2 DEF TypeOK
<1>5. \A b \in Backends : ref[poll][GroupOf[b]] # 0 =>
                             ref'[poll][GroupOf[b]] = ref[poll][GroupOf[b]]
  BY <1>0, <1>4 DEF GroupsAfterDiff
<1>6. TypeOK'
  <2>1. \A q \in Polls : ref[q] \in [Groups -> 0 .. MaxPolls]
    BY <1>0 DEF TypeOK
  <2>2. GroupsAfterDiff(poll) \in [Groups -> 0 .. MaxPolls]
    BY <2>1, <1>2 DEF GroupsAfterDiff
  <2>3. \A g \in Groups : GroupsAfterDiff(poll)[g] <= poll
    <3>1. \A q \in Polls, g \in Groups : ref[q][g] <= q /\ ref[q][g] \in Nat
      BY <1>0, <2>1 DEF TypeOK
    <3>2. \A g \in Groups : ref[poll][g] <= poll /\ ref[poll - 1][g] <= poll - 1
                              /\ ref[poll - 1][g] \in Nat
      BY <3>1, <1>2
    <3>3. \A g \in Groups : ref[poll - 1][g] <= poll
      BY <3>2, <1>3
    <3> QED
      BY <3>2, <3>3 DEF GroupsAfterDiff
  <2>4. /\ ref' \in [Polls -> [Groups -> 0 .. MaxPolls]]
        /\ \A q \in Polls, g \in Groups : ref'[q][g] <= q
    <3>1. ref' \in [Polls -> [Groups -> 0 .. MaxPolls]]
      BY <1>0, <1>2, <2>2 DEF TypeOK
    <3>2. \A q \in Polls, g \in Groups : ref[q][g] <= q
      BY <1>0 DEF TypeOK
    <3> QED
      BY <3>1, <3>2, <1>4, <2>3
  <2> QED
    BY <1>0, <1>1, <1>2, <2>4 DEF TypeOK, Now
<1>7. PIDExclusive'
  <2> SUFFICES ASSUME NEW q \in Polls, NEW b \in Backends
               PROVE  LockState(q, b)'
    BY <1>1 DEF PIDExclusive
  <2>1. LockState(q, b)
    BY <1>0 DEF PIDExclusive
  <2>2. CASE obj'[q][b] = obj[q][b] /\ torn'[q][b] = torn[q][b]
    BY <1>1, <2>1, <2>2 DEF LockState
  <2>3. CASE /\ q = poll
             /\ obj'[q][b].rate = Rate(obj[q][b], Old(b),
                                       time[poll] - time[poll - 1])
             /\ torn'[q][b] = Tear(obj'[q][b].locked, users[q][b], torn[q][b])
    <3>1. ~obj[q][b].rate.set
      <4>1. Rated(poll, b)
        BY <1>0, <1>2 DEF Recorded
      <4> QED
        BY <4>1, <1>2, <1>3, <2>3 DEF Rated
    <3>2. torn[q][b] = "no" /\ obj'[q][b].rate.set
      BY <1>0, <2>1, <2>3, <3>1 DEF LockState, TypeOK, Rate
    <3>3. users[q][b] = (IF obj[q][b].locked THEN 1 ELSE 0)
      BY <2>1, <3>2 DEF LockState
    <3>4. users[q][b] \in {0, 1} /\ users'[q][b] = users[q][b]
      BY <1>1, <3>3
    <3>5. obj'[q][b].locked \in BOOLEAN
      BY <1>2 DEF StatBackends
    <3>6. CASE obj'[q][b].locked
      <4>1. CASE users[q][b] = 1
        BY <2>3, <3>2, <3>4, <3>6, <4>1 DEF LockState, Tear
      <4>2. CASE users[q][b] = 0
        BY <2>3, <3>2, <3>4, <3>6, <4>2 DEF LockState, Tear
      <4> QED
        BY <3>4, <4>1, <4>2
    <3>7. CASE ~obj'[q][b].locked
      <4>1. CASE users[q][b] = 1
        BY <2>3, <3>2, <3>4, <3>7, <4>1 DEF LockState, Tear
      <4>2. CASE users[q][b] = 0
        BY <2>3, <3>2, <3>4, <3>7, <4>2 DEF LockState, Tear
      <4> QED
        BY <3>4, <4>1, <4>2
    <3> QED
      BY <3>6, <3>7
  <2> QED
    BY <1>2, <2>2, <2>3
<1>8. ASSUME NEW q \in Polls, NEW b \in Backends PROVE Dated(q, b)' /\ Rated(q, b)'
  <2>1. Dated(q, b) /\ Rated(q, b)
    BY <1>0 DEF Recorded
  <2>2. Dated(q, b)'
    BY <1>1, <1>2, <2>1 DEF Dated, Now
  <2>3. Rated(q, b)'
    <3>1. CASE obj'[q][b] = obj[q][b]
      <4>1. q < poll => q # poll
        BY <1>3 DEF Polls
      <4> QED
        BY <1>1, <1>2, <1>4, <2>1, <3>1, <4>1 DEF Rated
    <3>2. CASE q = poll /\ ref[poll][GroupOf[b]] = poll
      BY <1>1, <1>3, <1>5, <3>2 DEF Rated
    <3> QED
      BY <1>2, <3>1, <3>2
  <2> QED
    BY <2>2, <2>3
<1>9. Recorded'
  <2>1. OwnGroups' /\ FinalsCounted'
    BY <1>0, <1>1 DEF Recorded, OwnGroups, FinalsCounted
  <2>2. ASSUME NEW q \in Polls, NEW g \in Groups PROVE Finalized(q, g)'
    <3>1. Finalized(q, g)
      BY <1>0 DEF Recorded
    <3> QED
      BY <1>1, <1>2, <3>1, FinalizedKept
  <2>3. \A p \in 2 .. MaxPolls, b \in Backends : Aging(p, b)'
    BY <1>0, <1>2, PollPairs, SMTT(30) DEF Recorded, Aging
  <2>4. Climbs'
    BY <1>0, <1>1 DEF Recorded, Climbs, NoRestart, Now
  <2> QED
    BY <1>8, <2>1, <2>2, <2>3, <2>4 DEF Recorded
<1>10. ASSUME NEW i \in 2 .. MaxPolls, NEW b \in Backends, i # poll
       PROVE  TrueRate(i, b)'
  <2>0. i \in Polls /\ i - 1 \in Polls
    BY PollPairs
  <2>1. TrueRate(i, b) /\ Rated(i, b)
    BY <1>0, <2>0 DEF RateIsTrue, Recorded
  <2>2. obj'[i][b] = obj[i][b]
    BY <1>2, <1>10, <2>0
  <2>3. obj'[i][b].rate.set => i - 1 # poll
    <3>1. obj'[i][b].rate.set => i < poll
      BY <1>10, <2>1, <2>2 DEF Rated
    <3> QED
      BY <3>1, <1>3
  <2>4. obj'[i][b].rate.set => /\ Sampled(i, b)' => Sampled(i, b)
                               /\ Sampled(i - 1, b)' => Sampled(i - 1, b)
    BY <1>1, <1>2, <1>4, <1>10, <2>0, <2>3 DEF Sampled
  <2> QED
    BY <1>1, <1>2, <2>0, <2>1, <2>2, <2>4, RateKept
<1>11. ASSUME NEW b \in Backends PROVE TrueRate(poll, b)'
  <2> DEFINE from == obj[poll - 1][b].at
             to == obj[poll][b].at
  <2>0. from \in 0 .. MaxClock /\ to \in 0 .. MaxClock
    BY <1>0, <1>2 DEF TypeOK, StatBackends
  <2>1. obj'[poll - 1][b].at = from /\ obj'[poll][b].at = to
    BY <1>2
  <2>2. SUFFICES ASSUME obj'[poll][b].rate.set, Sampled(poll, b)',
                        Sampled(poll - 1, b)'
                 PROVE  /\ obj'[poll][b].rate.dur = to - from
                        /\ NoRestart(b, from, to) =>
                              obj'[poll][b].rate.num
                                = hist[to][b] - hist[from][b]
                        /\ hist[to][b] < hist[from][b] =>
                              obj'[poll][b].rate.num
                                = Word - (hist[from][b] - hist[to][b])
    BY <1>1, <2>1 DEF TrueRate, NoRestart
  <2>3. ~obj[poll][b].rate.set
    <3>1. Rated(poll, b)
      BY <1>0, <1>2 DEF Recorded
    <3> QED
      BY <3>1, <1>2, <1>3 DEF Rated
  <2>4. obj'[poll][b].rate = Rate(obj[poll][b], Old(b), time[poll] - time[poll - 1])
    BY <1>2, <2>2, <2>3
  <2>5. /\ ref[poll - 1][GroupOf[b]] = poll - 1
        /\ from # 0 /\ to # 0 /\ from = time[poll - 1] /\ to = time[poll]
    BY <1>1, <1>2, <1>3, <1>4, <2>1, <2>2 DEF Sampled
  <2>6. Old(b) = obj[poll - 1][b]
    BY <2>5 DEF Old
  <2>7. /\ from <= to /\ from \in 1 .. Now /\ to \in 1 .. Now
        /\ obj[poll][b].count = hist[to][b]
        /\ obj[poll - 1][b].count = hist[from][b]
    <3>1. Dated(poll, b) /\ Dated(poll - 1, b) /\ Aging(poll, b)
      BY <1>0, <1>2, <1>3 DEF Recorded
    <3>2. /\ from <= Now /\ to <= Now /\ from <= to
          /\ obj[poll][b].count = hist[to][b]
          /\ obj[poll - 1][b].count = hist[from][b]
      BY <3>1, <2>5 DEF Dated, Aging
    <3>3. Now \in Nat
      BY <1>0 DEF TypeOK
    <3> HIDE DEF from, to
    <3> QED
      BY <2>0, <2>5, <3>2, <3>3
  <2> HIDE DEF from, to
  <2>8. NoRestart(b, from, to) => hist[from][b] <= hist[to][b]
    BY <1>0, <2>7 DEF Recorded, Climbs
  <2>9. hist[from][b] \in 0 .. MaxId /\ hist[to][b] \in 0 .. MaxId
    <3>1. hist \in Seq([Backends -> 0 .. MaxId])
      BY <1>0 DEF TypeOK
    <3>2. from \in 1 .. Len(hist) /\ to \in 1 .. Len(hist)
      BY <2>7 DEF Now
    <3>3. hist[from] \in [Backends -> 0 .. MaxId] /\ hist[to] \in [Backends -> 0 .. MaxId]
      BY <3>1, <3>2
    <3> QED
      BY <3>3
  <2>10. NoRestart(b, from, to) =>
            (hist[to][b] + Word - hist[from][b]) % Word
               = hist[to][b] - hist[from][b]
    BY <2>8, <2>9, Difference
  <2>11. hist[to][b] < hist[from][b] =>
            (hist[to][b] + Word - hist[from][b]) % Word
               = Word - (hist[from][b] - hist[to][b])
    BY <2>9, DifferenceFallen
  <2>12. /\ obj'[poll][b].rate.num = (hist[to][b] + Word - hist[from][b]) % Word
         /\ obj'[poll][b].rate.dur = to - from
    BY <2>4, <2>5, <2>6, <2>7 DEF Rate
  <2> QED
    BY <2>10, <2>11, <2>12
<1>12. RateIsTrue'
  BY <1>1, <1>3, <1>10, <1>11 DEF RateIsTrue
<1> QED
  BY <1>6, <1>7, <1>9, <1>12 DEF MInv

(* Lock and Unlock change no number. *)
LEMMA LockingStep ==
    ASSUME MInv, NEW q \in Polls, NEW b \in Backends, NEW l \in BOOLEAN,
           SetsLock(q, b, l), ~fatal,
           UNCHANGED <<hist, poll, phase, since, waiting, time, ref, finals,
                       again, torn, fatal>>,
           \/ /\ l /\ ~obj[q][b].locked
              /\ users' = [users EXCEPT ![q][b] = @ + 1]
           \/ /\ ~l /\ obj[q][b].locked /\ users[q][b] > 0
              /\ users' = [users EXCEPT ![q][b] = @ - 1]
    PROVE  MInv'
<1>0. /\ TypeOK /\ PIDExclusive /\ Recorded /\ RateIsTrue
  BY DEF MInv
<1>00. OnlyLock(q, b, l)
  BY <1>0, LockEffect
<1>1. /\ obj' \in [Polls -> [Backends -> StatBackends]]
      /\ obj'[q][b].locked = l
      /\ \A p \in Polls, d \in Backends :
            /\ obj'[p][d].ids = obj[p][d].ids
            /\ obj'[p][d].sum = obj[p][d].sum
            /\ obj'[p][d].at = obj[p][d].at
            /\ obj'[p][d].count = obj[p][d].count
            /\ obj'[p][d].rate = obj[p][d].rate
            /\ <<p, d>> # <<q, b>> => obj'[p][d] = obj[p][d]
  BY <1>00, ZenonT(60) DEF OnlyLock
<1>10. /\ users \in [Polls -> [Backends -> 0 .. 2]]
       /\ torn[q][b] \in {"no", "stuck", "open"} /\ obj[q][b].locked \in BOOLEAN
       /\ LockState(q, b)
  BY <1>0 DEF TypeOK, StatBackends, PIDExclusive
<1>11. \A p \in Polls, d \in Backends :
          <<p, d>> # <<q, b>> => users'[p][d] = users[p][d]
  BY <1>10
<1>12. /\ LockState(q, b)' /\ users'[q][b] \in 0 .. 2
  <2>1. CASE l
    <3>1. users'[q][b] = users[q][b] + 1 /\ ~obj[q][b].locked
      BY <1>10, <2>1
    <3> QED
      BY <1>1, <1>10, <2>1, <3>1 DEF LockState
  <2>2. CASE ~l
    <3>1. users'[q][b] = users[q][b] - 1 /\ obj[q][b].locked /\ users[q][b] > 0
      BY <1>10, <2>2
    <3> QED
      BY <1>1, <1>10, <2>2, <3>1 DEF LockState
  <2> QED
    BY <2>1, <2>2
<1>13. users' \in [Polls -> [Backends -> 0 .. 2]]
  <2>1. users' = [p \in Polls |-> [d \in Backends |-> users'[p][d]]]
    BY <1>10
  <2>2. \A p \in Polls, d \in Backends : users'[p][d] \in 0 .. 2
    BY <1>10, <1>11, <1>12
  <2> QED
    BY <2>1, <2>2
<1>2. TypeOK'
  BY <1>0, <1>1, <1>13 DEF TypeOK, Now
<1>3. PIDExclusive'
  <2> SUFFICES ASSUME NEW p \in Polls, NEW d \in Backends
               PROVE  LockState(p, d)'
    BY DEF PIDExclusive
  <2>1. CASE p = q /\ d = b
    BY <1>12, <2>1
  <2>2. CASE <<p, d>> # <<q, b>>
    <3>1. LockState(p, d)
      BY <1>0 DEF PIDExclusive
    <3> QED
      BY <1>1, <1>11, <2>2, <3>1 DEF LockState
  <2> QED
    BY <2>1, <2>2
<1>4. Recorded'
  <2>1. OwnGroups' /\ FinalsCounted'
    BY <1>0 DEF Recorded, OwnGroups, FinalsCounted
  <2>2. ASSUME NEW p \in Polls, NEW g \in Groups PROVE Finalized(p, g)'
    <3>1. Finalized(p, g)
      BY <1>0 DEF Recorded
    <3> QED
      BY <1>1, <3>1, FinalizedKept
  <2>3. ASSUME NEW p \in Polls, NEW d \in Backends
        PROVE  Dated(p, d)' /\ Rated(p, d)'
    <3>1. Dated(p, d) /\ Rated(p, d)
      BY <1>0 DEF Recorded
    <3>2. /\ obj'[p][d].at = obj[p][d].at /\ obj'[p][d].count = obj[p][d].count
          /\ obj'[p][d].rate = obj[p][d].rate
      BY <1>1
    <3>3. Dated(p, d)'
      BY <3>1, <3>2 DEF Dated, Now
    <3>4. Rated(p, d)'
      BY <3>1, <3>2 DEF Rated
    <3> QED
      BY <3>3, <3>4
  <2>4. \A p \in 2 .. MaxPolls, d \in Backends : Aging(p, d)'
    BY <1>0, <1>1, PollPairs DEF Recorded, Aging
  <2>5. Climbs'
    BY <1>0 DEF Recorded, Climbs, NoRestart, Now
  <2> QED
    BY <2>1, <2>2, <2>3, <2>4, <2>5 DEF Recorded
<1>5. RateIsTrue'
  <2> SUFFICES ASSUME NEW i \in 2 .. MaxPolls, NEW d \in Backends
               PROVE  TrueRate(i, d)'
    BY DEF RateIsTrue
  <2>0. i \in Polls /\ i - 1 \in Polls
    BY PollPairs
  <2>1. TrueRate(i, d)
    BY <1>0 DEF RateIsTrue
  <2>2. (Sampled(i, d)' => Sampled(i, d)) /\ (Sampled(i - 1, d)' => Sampled(i - 1, d))
    BY <1>1, <2>0 DEF Sampled
  <2> QED
    BY <1>1, <2>0, <2>1, <2>2, RateKept
<1> QED
  BY <1>2, <1>3, <1>4, <1>5 DEF MInv

(* Nothing of the monitor changes but that the program may stop. *)
LEMMA StillStep ==
    ASSUME MInv, UNCHANGED <<hist, poll, phase, since, waiting, statVars, again,
                             users, torn>>,
           fatal' \in BOOLEAN,
           fatal' => \E q \in Polls, b \in Backends :
                        torn[q][b] = "open" /\ ~obj[q][b].locked
    PROVE  MInv'
<1>0. /\ TypeOK /\ PIDExclusive /\ Recorded /\ RateIsTrue
  BY DEF MInv
<1>1. UNCHANGED <<hist, poll, phase, since, waiting, time, ref, obj, finals,
                  again, users, torn>>
  BY DEF statVars
<1>2. TypeOK' /\ PIDExclusive'
  BY <1>0, <1>1 DEF TypeOK, Now, PIDExclusive, LockState
<1>3. Recorded'
  <2>1. OwnGroups' /\ FinalsCounted'
    BY <1>0, <1>1 DEF Recorded, OwnGroups, FinalsCounted
  <2>2. \A q \in Polls, g \in Groups : Finalized(q, g)'
    BY <1>0, <1>1, FinalizedKept DEF Recorded
  <2>3. \A q \in Polls, b \in Backends : Dated(q, b)' /\ Rated(q, b)'
    BY <1>0, <1>1 DEF Recorded, Dated, Rated, Now
  <2>4. \A p \in 2 .. MaxPolls, b \in Backends : Aging(p, b)'
    BY <1>0, <1>1 DEF Recorded, Aging
  <2>5. Climbs'
    BY <1>0, <1>1 DEF Recorded, Climbs, NoRestart, Now
  <2> QED
    BY <2>1, <2>2, <2>3, <2>4, <2>5 DEF Recorded
<1>4. RateIsTrue'
  BY <1>0, <1>1 DEF RateIsTrue, TrueRate, Sampled, NoRestart
<1> QED
  BY <1>2, <1>3, <1>4 DEF MInv

(* LockPID and UnlockPID. *)
LEMMA PIDStep ==
    ASSUME MInv, NEW q \in Polls, NEW b \in Controlled,
           LockPID(q, b) \/ UnlockPID(q, b)
    PROVE  MInv'
<1>0. b \in Backends
  BY TopologyAssumption
<1>1. CASE LockPID(q, b)
  <2>1. /\ SetsLock(q, b, TRUE) /\ ~fatal /\ ~obj[q][b].locked
        /\ users' = [users EXCEPT ![q][b] = @ + 1]
        /\ UNCHANGED <<hist, poll, phase, since, waiting, time, ref, finals,
                       again, torn, fatal>>
    BY <1>1 DEF LockPID, SetsLock
  <2> QED
    BY <1>0, <2>1, LockingStep
<1>2. CASE UnlockPID(q, b) /\ obj[q][b].locked
  <2>1. /\ SetsLock(q, b, FALSE) /\ ~fatal /\ users[q][b] > 0
        /\ users' = [users EXCEPT ![q][b] = @ - 1]
        /\ UNCHANGED <<hist, poll, phase, since, waiting, time, ref, finals,
                       again, torn, fatal>>
    BY <1>2 DEF UnlockPID, SetsLock
  <2> QED
    BY <1>0, <1>2, <2>1, LockingStep
<1>3. CASE UnlockPID(q, b) /\ ~obj[q][b].locked
  <2>1. /\ UNCHANGED <<hist, poll, phase, since, waiting, statVars, again,
                       users, torn>>
        /\ fatal' = TRUE /\ users[q][b] > 0
    BY <1>3 DEF UnlockPID, statVars
  <2>2. torn[q][b] = "open"
    <3>1. LockState(q, b) /\ torn[q][b] \in {"no", "stuck", "open"}
      BY <1>0 DEF MInv, PIDExclusive, TypeOK
    <3> QED
      BY <1>3, <2>1, <3>1 DEF LockState
  <2> QED
    BY <1>0, <1>3, <2>1, <2>2, StillStep
<1> QED
  BY <1>1, <1>2, <1>3

(* The servers' clock: their work and their restarts. *)
LEMMA ServerStep ==
    ASSUME MInv, \/ \E busy \in Loads : Work(busy)
                 \/ \E s \in Servers : Restart(s)
    PROVE  MInv'
<1>0. TypeOK
  BY DEF MInv
<1>1. hist[Now] \in [Backends -> 0 .. MaxId]
  <2>1. hist \in Seq([Backends -> 0 .. MaxId]) /\ Now \in 1 .. Len(hist)
    BY <1>0 DEF TypeOK, Now
  <2> QED
    BY <2>1
<1>2. \A b \in Backends : /\ hist[Now][b] \in 0 .. MaxId
                          /\ (hist[Now][b] + 1) % Word \in 0 .. MaxId
  <2>1. \A n \in 0 .. MaxId : (n + 1) % Word \in 0 .. MaxId
    BY WordFacts
  <2> QED
    BY <1>1, <2>1
<1>3. ASSUME NEW busy \in Loads, Work(busy) PROVE MInv'
  <2> DEFINE c == [b \in Backends |->
                     IF b \in busy THEN (hist[Now][b] + 1) % Word
                     ELSE hist[Now][b]]
  <2>1. c \in [Backends -> 0 .. MaxId] /\ Tick(c)
    BY <1>2, <1>3 DEF Work
  <2> HIDE DEF c
  <2> QED
    BY <2>1, TickStep
<1>4. ASSUME NEW s \in Servers, Restart(s) PROVE MInv'
  <2> DEFINE c == [b \in Backends |-> IF ServerOf[b] = s THEN 0 ELSE hist[Now][b]]
  <2>1. c \in [Backends -> 0 .. MaxId] /\ Tick(c)
    BY <1>2, <1>4, WordFacts DEF Restart
  <2> HIDE DEF c
  <2> QED
    BY <2>1, TickStep
<1> QED
  BY <1>3, <1>4

(* Replies without statistics and the end of a poll are steps of time. *)
LEMMA TimeOnly ==
    ASSUME MInv, \/ \E s \in Servers : \/ \E at \in since .. Now : DisabledEntry(s, at)
                                    \/ BadEntry(s)
                 \/ \E err \in BOOLEAN : EndPoll(err)
    PROVE  Timed
<1>1. 0 \in 0 .. MaxClock /\ \A at \in since .. Now : at \in 0 .. MaxClock
  BY TopologyAssumption DEF MInv, TypeOK
<1>2. ASSUME NEW s \in Servers, NEW at \in since .. Now,
             DisabledEntry(s, at)
      PROVE  Timed
  BY <1>1, <1>2 DEF DisabledEntry, Timed, pidVars
<1>3. ASSUME NEW s \in Servers, BadEntry(s) PROVE Timed
  BY <1>1, <1>3 DEF BadEntry, Timed, pidVars
<1>4. ASSUME NEW err \in BOOLEAN, EndPoll(err) PROVE Timed
  BY <1>1, <1>4 DEF EndPoll, Timed, pidVars
<1> QED
  BY <1>2, <1>3, <1>4

(* The invariant holds across every step. *)
LEMMA NextMInv == MInv /\ [Next]_vars => MInv'
<1> SUFFICES ASSUME MInv, [Next]_vars PROVE MInv'
  OBVIOUS
<1>1. CASE \E busy \in Loads : Work(busy)
  BY <1>1, ServerStep
<1>2. CASE \E s \in Servers : Restart(s)
  BY <1>2, ServerStep
<1>3. ASSUME NEW s \in Servers, NEW at \in since .. Now,
             \/ \E status \in Replies(s) : GoodEntry(s, at, status)
             \/ DisabledEntry(s, at)
      PROVE  MInv'
  BY <1>3, EntryStep, TimeOnly, TimedStep
<1>4. CASE \E s \in Servers : BadEntry(s)
  BY <1>4, TimeOnly, TimedStep
<1>5. CASE \E t \in Tables, rank \in Orders : StartPoll(t, rank)
  BY <1>5, StartStep
<1>6. CASE \E t \in Tables, rank \in Orders : RouteAgain(t, rank)
  BY <1>6, AgainStep
<1>7. CASE \E err \in BOOLEAN : EndPoll(err)
  BY <1>7, TimeOnly, TimedStep
<1>8. CASE Diff
  BY <1>8, FirstDiffStep, DiffStep
<1>9. CASE \E q \in Polls, b \in Controlled : LockPID(q, b) \/ UnlockPID(q, b)
  BY <1>9, PIDStep
<1>10. ASSUME UNCHANGED vars PROVE MInv'
  <2>1. fatal' \in BOOLEAN /\ fatal' = fatal
    BY <1>10 DEF vars, pidVars, MInv, TypeOK
  <2> QED
    BY <1>10, <2>1, StillStep DEF vars, pidVars, MInv, PIDExclusive
<1>11. CASE Done
  BY <1>10, <1>11 DEF Done
<1> QED
  BY <1>1, <1>2, <1>3, <1>4, <1>5, <1>6, <1>7, <1>8, <1>9, <1>10, <1>11
     DEF Next

---------------------------------------------------------------------------
(* The sums of a group *)

(* The total of the sums of the backends M is the fold over M. *)
LEMMA TotalIs ==
    ASSUME NEW o, NEW M, IsFiniteSet(M),
           NEW h, h = [b \in M |-> o[b].sum],
           NEW f, SumsOf(f, h, M)
    PROVE  Total(o, M) = f[M]
<1> DEFINE It(k) == k = [s \in SUBSET M |->
                      IF s = {} THEN 0
                      ELSE o[CHOOSE x \in s : TRUE].sum
                           + k[s \ {CHOOSE x \in s : TRUE}]]
<1>1. ASSUME NEW k PROVE It(k) <=> SumsOf(k, h, M)
  <2>1. ASSUME NEW s \in SUBSET M, s # {} PROVE h[First(s)] = o[First(s)].sum
    <3>1. First(s) \in M
      BY <2>1 DEF First
    <3> QED
      BY <3>1
  <2>2. \A s \in SUBSET M : Step(k, h, s) =
                      IF s = {} THEN 0
                      ELSE o[CHOOSE x \in s : TRUE].sum
                           + k[s \ {CHOOSE x \in s : TRUE}]
    BY <2>1 DEF Step, First
  <2> QED
    BY <2>2 DEF SumsOf
<1>2. Total(o, M) = (CHOOSE k : It(k))[M]
  BY DEF Total, MapThenSumSet, MapThenFoldSet
<1> HIDE DEF It
<1>3. It(f)
  BY <1>1
<1>4. It(CHOOSE k : It(k))
  BY <1>3
<1>5. SumsOf(CHOOSE k : It(k), h, M)
  BY <1>1, <1>4
<1>6. (CHOOSE k : It(k)) = f
  BY <1>5, SumsUnique
<1> QED
  BY <1>2, <1>6

(* The ids of a group are points of the ring. *)
LEMMA GroupIds ==
    ASSUME TypeOK, NEW q \in Polls, NEW g \in Groups
    PROVE  /\ OnRing(IdsOf(q, g)) /\ DOMAIN IdsOf(q, g) = Members(g)
           /\ IsFiniteSet(Members(g))
           /\ \A b \in Members(g) : IdsOf(q, g)[b] = obj[q][b].ids
<1>1. \A b \in Members(g) : obj[q][b].ids \subseteq 0 .. MaxId
  BY DEF TypeOK, StatBackends, Members
<1>2. IsFiniteSet(Members(g))
  <2>1. Members(g) \subseteq Backends
    BY DEF Members
  <2> QED
    BY <2>1, TopologyAssumption, FS_Subset
<1> QED
  BY <1>1, <1>2 DEF OnRing, IdsOf

(* The order in which Finalize goes through a map is one of ranks. *)
LEMMA RanksNatural ==
    ASSUME NEW rank \in Orders, NEW g
    PROVE  \A b \in Members(g) : rank[b] \in Nat
<1>1. Cardinality(Backends) \in Nat
  BY TopologyAssumption, FS_CardinalityType
<1> QED
  BY <1>1 DEF Orders, Members

(* Natural numbers have natural sums. *)
LEMMA NaturalSums ==
    ASSUME NEW M, IsFiniteSet(M), NEW h \in [M -> Nat], h \in [M -> Int]
    PROVE  \E f \in [SUBSET M -> Nat] : SumsOf(f, h, M) /\ Additive(f, h, M)
<1>1. PICK f \in [SUBSET M -> Int] : SumsOf(f, h, M)
  BY SumsExist
<1>2. Additive(f, h, M)
  BY <1>1, SumsAdditive
<1>3. f \in [SUBSET M -> Nat]
  BY <1>2, SumOfNaturals
<1> QED
  BY <1>1, <1>2, <1>3

(* One run of Finalize gives each backend what its ids start. *)
LEMMA GroupShares ==
    ASSUME TypeOK, NEW q \in Polls, NEW g \in Groups, Finalized(q, g),
           finals[q][g] = 1
    PROVE  \E rank \in Orders : \A b \in Members(g) :
              obj[q][b].sum = Cardinality(Arc(IdsOf(q, g), rank, b))
<1> DEFINE M == Members(g)
           ids == IdsOf(q, g)
<1>1. OnRing(ids) /\ DOMAIN ids = M /\ IsFiniteSet(M)
  BY GroupIds
<1>2. PICK rank \in Orders : \A b \in M : obj[q][b].sum = Gain(ids, rank, b) % Word
  BY DEF Finalized
<1>3. \A b \in M : rank[b] \in Nat
  BY RanksNatural
<1>4. Starts(ids) # {}
  BY DEF Finalized
<1> HIDE DEF ids
<1>5. \A b \in M : Gain(ids, rank, b) \in 0 .. MaxId
  BY <1>1, <1>3, <1>4, NoMoreThanRing
<1>6. \A b \in M : obj[q][b].sum = Gain(ids, rank, b)
  BY <1>2, <1>5, WordFacts
<1>7. \A b \in M : obj[q][b].sum = Cardinality(Arc(ids, rank, b))
  BY <1>1, <1>3, <1>4, <1>6, ShareIsArc
<1> QED
  BY <1>7 DEF ids

(* Sums that are the same have the same total. *)
LEMMA TotalKept ==
    ASSUME NEW M, IsFiniteSet(M), NEW o, NEW n,
           \A b \in M : o[b].sum \in Int /\ n[b].sum = o[b].sum
    PROVE  Total(n, M) = Total(o, M)
<1> DEFINE h == [b \in M |-> o[b].sum]
<1>1. h \in [M -> Int] /\ h = [b \in M |-> n[b].sum] /\ h = [b \in M |-> o[b].sum]
  OBVIOUS
<1> HIDE DEF h
<1>2. PICK f \in [SUBSET M -> Int] : SumsOf(f, h, M)
  BY <1>1, SumsExist
<1>3. Total(o, M) = f[M] /\ Total(n, M) = f[M]
  BY <1>1, <1>2, TotalIs
<1> QED
  BY <1>3

(* The natural number a is what is left of c after some wraps. *)
Wrapped(a, c) == \E k \in Nat : a + k * Word = c

(* A number is what the word keeps of it and a multiple of the word. *)
LEMMA Wraps == \A x \in Nat : Wrapped(x % Word, x)
<1>1. Word \in Nat \ {0}
  BY MaxIdAssumption DEF Word
<1>2. ASSUME NEW x \in Nat, NEW w \in Nat \ {0}
      PROVE  x \div w \in Nat /\ (x % w) + (x \div w) * w = x
  BY <1>2
<1> QED
  BY <1>1, <1>2 DEF Wrapped

(* Sums kept in words: what is lost over a set is a multiple of the word. *)
LEMMA WrappedSums ==
    ASSUME NEW M, IsFiniteSet(M),
           NEW u \in [M -> Nat], NEW v \in [M -> Nat], NEW w \in [M -> Nat],
           \A b \in M : w[b] = (u[b] + v[b]) % Word,
           NEW U \in [SUBSET M -> Nat], Additive(U, u, M),
           NEW V \in [SUBSET M -> Nat], Additive(V, v, M),
           NEW W \in [SUBSET M -> Nat], Additive(W, w, M)
    PROVE  Wrapped(W[M], U[M] + V[M])
<1> DEFINE Fine(T) == Wrapped(W[T], U[T] + V[T])
           Good == {n \in Nat : \A T \in SUBSET M : Cardinality(T) = n => Fine(T)}
<1>0. Word \in Nat
  BY WordFacts
<1>1. 0 \in Good
  <2>1. ASSUME NEW T \in SUBSET M, Cardinality(T) = 0 PROVE Fine(T)
    <3>1. T = {}
      BY <2>1, FS_Subset, FS_EmptySet
    <3>2. W[{}] = 0 /\ U[{}] = 0 /\ V[{}] = 0
      BY DEF Additive
    <3>3. 0 + 0 * Word = 0 + 0
      BY <1>0
    <3> QED
      BY <3>1, <3>2, <3>3 DEF Wrapped
  <2> QED
    BY <2>1
<1>2. ASSUME NEW n \in Nat, n \in Good PROVE n + 1 \in Good
  <2>0. \A T \in SUBSET M : Cardinality(T) = n => Fine(T)
    <3> HIDE DEF Fine
    <3> QED
      BY <1>2
  <2>1. ASSUME NEW T \in SUBSET M, Cardinality(T) = n + 1 PROVE Fine(T)
    <3>1. IsFiniteSet(T) /\ T # {}
      BY <2>1, FS_Subset, FS_EmptySet
    <3>2. PICK x : x \in T
      BY <3>1
    <3>3. T \ {x} \in SUBSET M /\ Cardinality(T \ {x}) = n
      <4>1. T \ {x} \in SUBSET M
        OBVIOUS
      <4>2. Cardinality(T \ {x}) = Cardinality(T) - 1
        BY <3>1, <3>2, FS_RemoveElement, Zenon
      <4>3. (n + 1) - 1 = n
        OBVIOUS
      <4> QED
        BY <2>1, <4>1, <4>2, <4>3, Zenon
    <3>4. PICK k \in Nat : W[T \ {x}] + k * Word = U[T \ {x}] + V[T \ {x}]
      <4>1. Fine(T \ {x})
        BY <2>0, <3>3
      <4> QED
        BY <4>1 DEF Wrapped
    <3>5. PICK j \in Nat : w[x] + j * Word = u[x] + v[x]
      <4>1. x \in M /\ u[x] + v[x] \in Nat /\ w[x] = (u[x] + v[x]) % Word
        BY <3>2
      <4> QED
        BY <4>1, Wraps DEF Wrapped
    <3>6. /\ W[T] = w[x] + W[T \ {x}]
          /\ U[T] = u[x] + U[T \ {x}]
          /\ V[T] = v[x] + V[T \ {x}]
      BY <3>2 DEF Additive
    <3>7. /\ w[x] \in Nat /\ u[x] \in Nat /\ v[x] \in Nat
          /\ W[T \ {x}] \in Nat /\ U[T \ {x}] \in Nat /\ V[T \ {x}] \in Nat
      BY <3>2, <3>3
    <3>8. k + j \in Nat /\ (k + j) * Word = k * Word + j * Word
      BY <1>0
    <3>9. k * Word \in Nat /\ j * Word \in Nat
      BY <1>0
    <3>10. W[T] + (k + j) * Word = U[T] + V[T]
      BY <3>4, <3>5, <3>6, <3>7, <3>8, <3>9
    <3> QED
      BY <3>8, <3>10 DEF Wrapped
  <2> QED
    BY <2>1
<1>3. \A n \in Nat : n \in Good
  <2> HIDE DEF Good
  <2> QED
    BY <1>1, <1>2, SetInduction
<1>4. Cardinality(M) \in Good
  BY <1>3, FS_CardinalityType
<1> QED
  BY <1>4

(* Every run of Finalize adds the ring, up to wraps. *)
Rings(q, g) == Wrapped(Total(obj[q], Members(g)), finals[q][g] * MaxId)

RInv == MInv /\ \A q \in Polls, g \in Groups : Rings(q, g)

(* The sums of the StatBackends are natural numbers. *)
LEMMA SumsNatural ==
    ASSUME TypeOK, NEW q \in Polls, NEW g \in Groups
    PROVE  \A b \in Members(g) : obj[q][b].sum \in Nat
BY WordFacts DEF TypeOK, StatBackends, Members

(* GetRoutes adds one ring to the groups it finds ids in. *)
LEMMA RingsAfter ==
    ASSUME TypeOK, NEW p \in Polls, NEW r \in [Groups -> 0 .. MaxPolls],
           NEW t \in Tables, NEW rank \in Orders, GetRoutes(p, r, t, rank),
           TypeOK', NEW q \in Polls, NEW g \in Groups, Rings(q, g)
    PROVE  Rings(q, g)'
<1> DEFINE r1 == RefAfter(p, r, Known(t))
           M == Members(g)
           ids == IdsWith(obj[q], t, g)
<1>1. /\ \A b \in Backends :
                 /\ r1[GroupOf[b]] # q => obj'[q][b] = obj[q][b]
                 /\ r1[GroupOf[b]] = q =>
                      obj'[q][b].sum =
                        (obj[q][b].sum + Gain(IdsWith(obj[q], t, GroupOf[b]),
                                              rank, b)) % Word
      /\ finals'[q][g] = finals[q][g] + Run(r1, q, obj[q], t, g)
  BY RoutesEffect
<1>2. \A b \in M : b \in Backends /\ GroupOf[b] = g
  BY DEF Members
<1>3. /\ finals[q][g] \in Nat /\ IsFiniteSet(M)
      /\ MaxId \in Nat /\ Word \in Nat
  <2>1. IsFiniteSet(M)
    BY GroupIds
  <2>2. finals[q][g] \in Nat
    BY DEF TypeOK
  <2> QED
    BY <2>1, <2>2, WordFacts
<1>4. \A b \in M : obj[q][b].sum \in Nat /\ obj'[q][b].sum \in Nat
  <2>1. \A d \in Backends : obj[q][d].sum \in Nat
    BY WordFacts DEF TypeOK, StatBackends
  <2>2. \A d \in Backends : obj'[q][d].sum \in Nat
    BY WordFacts DEF TypeOK, StatBackends
  <2> QED
    BY <1>2, <2>1, <2>2
<1> HIDE DEF r1
<1>5. CASE r1[g] # q
  <2>1. \A b \in M : obj[q][b].sum \in Int /\ obj'[q][b].sum = obj[q][b].sum
    BY <1>1, <1>2, <1>4, <1>5
  <2>2. Total(obj'[q], M) = Total(obj[q], M)
    BY <1>3, <2>1, TotalKept
  <2>3. finals'[q][g] = finals[q][g]
    BY <1>1, <1>3, <1>5 DEF Run
  <2> QED
    BY <2>2, <2>3 DEF Rings
<1>6. CASE r1[g] = q
  <2> DEFINE u == [b \in M |-> obj[q][b].sum]
             v == Gains(ids, rank)
             w == [b \in M |-> obj'[q][b].sum]
  <2>0. OnRing(ids) /\ DOMAIN ids = M
    <3>1. \A d \in Backends : obj[q][d].ids \subseteq 0 .. MaxId
      BY DEF TypeOK, StatBackends
    <3>2. \A d \in Backends : t[d] \subseteq 0 .. MaxId
      BY TopologyAssumption
    <3> QED
      BY <1>2, <3>1, <3>2 DEF OnRing, IdsWith
  <2>1. \A b \in M : Gain(ids, rank, b) \in Nat
    BY GainOfRoutes
  <2>2. \A b \in M : obj'[q][b].sum = (obj[q][b].sum + Gain(ids, rank, b)) % Word
    BY <1>1, <1>2, <1>6
  <2> HIDE DEF ids
  <2>3. /\ u \in [M -> Nat] /\ v \in [M -> Nat] /\ w \in [M -> Nat]
        /\ \A b \in M : w[b] = (u[b] + v[b]) % Word
    BY <1>4, <2>0, <2>1, <2>2 DEF Gains
  <2>4. u \in [M -> Int] /\ w \in [M -> Int]
    BY <2>3
  <2>5. u = [b \in M |-> obj[q][b].sum] /\ w = [b \in M |-> obj'[q][b].sum]
    OBVIOUS
  <2> HIDE DEF u, v, w
  <2>6. PICK U \in [SUBSET M -> Nat] : SumsOf(U, u, M) /\ Additive(U, u, M)
    BY <1>3, <2>3, <2>4, NaturalSums
  <2>7. PICK W \in [SUBSET M -> Nat] : SumsOf(W, w, M) /\ Additive(W, w, M)
    BY <1>3, <2>3, <2>4, NaturalSums
  <2>8. Total(obj[q], M) = U[M] /\ Total(obj'[q], M) = W[M]
    BY <1>3, <2>5, <2>6, <2>7, TotalIs
  <2>9. PICK V \in [SUBSET M -> Nat] :
           Additive(V, v, M) /\ V[M] = Run(r1, q, obj[q], t, g) * MaxId
    <3>1. CASE Starts(ids) # {}
      <4>1. \A b \in DOMAIN ids : rank[b] \in Nat
        BY <2>0, RanksNatural
      <4>2. PICK V \in [SUBSET DOMAIN ids -> Nat] :
                /\ Additive(V, Gains(ids, rank), DOMAIN ids)
                /\ V[DOMAIN ids] = MaxId
        BY <1>3, <2>0, <3>1, <4>1, RingGivenOut
      <4>3. Run(r1, q, obj[q], t, g) = 1 /\ 1 * MaxId = MaxId
        BY <1>3, <1>6, <3>1 DEF Run, ids
      <4> QED
        BY <2>0, <4>2, <4>3 DEF v
    <3>2. CASE Starts(ids) = {}
      <4>1. v = [b \in M |-> 0]
        BY <2>0, <3>2, NothingToGive DEF v, Gains
      <4>2. Additive([s \in SUBSET M |-> 0], v, M)
        BY <4>1 DEF Additive
      <4>3. Run(r1, q, obj[q], t, g) = 0 /\ 0 * MaxId = 0
        BY <1>3, <3>2 DEF Run, ids
      <4>4. [s \in SUBSET M |-> 0] \in [SUBSET M -> Nat]
        OBVIOUS
      <4> QED
        BY <4>2, <4>3, <4>4
    <3> QED
      BY <3>1, <3>2
  <2>10. PICK k \in Nat : W[M] + k * Word = U[M] + V[M]
    <3>1. Wrapped(W[M], U[M] + V[M])
      BY <1>3, <2>3, <2>6, <2>7, <2>9, WrappedSums
    <3> QED
      BY <3>1 DEF Wrapped
  <2>11. PICK j \in Nat : U[M] + j * Word = finals[q][g] * MaxId
    BY <2>8 DEF Rings, Wrapped
  <2>12. Run(r1, q, obj[q], t, g) \in Nat
    BY DEF Run
  <2>13. finals'[q][g] * MaxId = finals[q][g] * MaxId + V[M]
    <3>1. \A i, m, n \in Nat : (i + m) * n = i * n + m * n
      OBVIOUS
    <3> QED
      BY <1>1, <1>3, <2>9, <2>12, <3>1
  <2>14. W[M] + (k + j) * Word = finals'[q][g] * MaxId
    <3>1. (k + j) * Word = k * Word + j * Word
      BY <1>3
    <3>2. /\ k * Word \in Nat /\ j * Word \in Nat /\ finals[q][g] * MaxId \in Nat
          /\ W[M] \in Nat /\ U[M] \in Nat /\ V[M] \in Nat
      BY <1>3
    <3> QED
      BY <2>10, <2>11, <2>13, <3>1, <3>2
  <2>15. k + j \in Nat
    OBVIOUS
  <2> QED
    BY <2>8, <2>14, <2>15 DEF Rings, Wrapped
<1> QED
  BY <1>5, <1>6

(* PIDUpdate changes one lock, or nothing when it is the end. *)
LEMMA PIDSets ==
    ASSUME TypeOK, NEW q \in Polls, NEW b \in Controlled,
           LockPID(q, b) \/ UnlockPID(q, b)
    PROVE  obj' = obj \/ \E l \in BOOLEAN : OnlyLock(q, b, l)
<1>1. b \in Backends
  BY TopologyAssumption
<1>2. obj' = obj \/ \E l \in BOOLEAN : SetsLock(q, b, l)
  BY DEF LockPID, UnlockPID, SetsLock
<1> QED
  BY <1>1, <1>2, LockEffect

(* The total of a group is a natural number. *)
LEMMA TotalNatural ==
    ASSUME TypeOK, NEW q \in Polls, NEW g \in Groups
    PROVE  Total(obj[q], Members(g)) \in Nat
<1> DEFINE M == Members(g)
           h == [b \in M |-> obj[q][b].sum]
<1>1. IsFiniteSet(M)
  BY GroupIds
<1>2. h \in [M -> Nat] /\ h \in [M -> Int] /\ h = [b \in M |-> obj[q][b].sum]
  BY SumsNatural
<1> HIDE DEF h
<1>3. PICK f \in [SUBSET M -> Nat] : SumsOf(f, h, M)
  BY <1>1, <1>2, NaturalSums
<1>4. Total(obj[q], M) = f[M]
  BY <1>1, <1>2, <1>3, TotalIs
<1> QED
  BY <1>3, <1>4

(* No ids, no sums. *)
LEMMA InitRInv == Init => RInv
<1> SUFFICES ASSUME Init PROVE RInv
  OBVIOUS
<1>1. MInv
  BY InitMInv
<1>2. ASSUME NEW q \in Polls, NEW g \in Groups PROVE Rings(q, g)
  <2> DEFINE M == Members(g)
             h == [b \in M |-> obj[q][b].sum]
             f == [s \in SUBSET M |-> 0]
  <2>1. IsFiniteSet(M)
    BY <1>1, GroupIds DEF MInv
  <2>2. \A b \in M : h[b] = 0
    BY DEF Init, NewStatBackend, Members
  <2>3. SumsOf(f, h, M)
    <3>1. \A s \in SUBSET M : s # {} => First(s) \in M
      BY DEF First
    <3>2. \A s \in SUBSET M : Step(f, h, s) = 0
      BY <2>2, <3>1 DEF Step
    <3> QED
      BY <3>2 DEF SumsOf
  <2>4. Total(obj[q], M) = f[M] /\ f[M] = 0
    BY <2>1, <2>3, TotalIs
  <2>5. finals[q][g] = 0
    BY DEF Init
  <2>6. 0 + 0 * Word = 0 * MaxId
    BY WordFacts
  <2> QED
    BY <2>4, <2>5, <2>6 DEF Rings, Wrapped
<1> QED
  BY <1>1, <1>2 DEF RInv

(* Sums change in GetRoutes only. *)
LEMMA NextRInv == RInv /\ [Next]_vars => RInv'
<1> SUFFICES ASSUME RInv, [Next]_vars PROVE RInv'
  OBVIOUS
<1>0. MInv /\ MInv' /\ TypeOK /\ TypeOK' /\ OwnGroups /\ MaxPolls \in Nat
  BY NextMInv, TopologyAssumption DEF RInv, MInv, Recorded
<1>1. ASSUME \A q \in Polls, b \in Backends : obj'[q][b].sum = obj[q][b].sum,
             finals' = finals
      PROVE  RInv'
  <2>1. ASSUME NEW q \in Polls, NEW g \in Groups PROVE Rings(q, g)'
    <3>1. IsFiniteSet(Members(g)) /\ \A b \in Members(g) : b \in Backends
      BY <1>0, GroupIds DEF Members
    <3>2. \A b \in Members(g) : /\ obj[q][b].sum \in Int
                                /\ obj'[q][b].sum = obj[q][b].sum
      BY <1>0, <1>1, <3>1, SumsNatural
    <3>3. Total(obj'[q], Members(g)) = Total(obj[q], Members(g))
      BY <3>1, <3>2, TotalKept
    <3> QED
      BY <1>1, <3>3 DEF Rings, RInv
  <2> QED
    BY <1>0, <2>1 DEF RInv
<1>2. ASSUME NEW t \in Tables, NEW rank \in Orders, NEW p \in Polls,
             NEW r \in [Groups -> 0 .. MaxPolls], GetRoutes(p, r, t, rank)
      PROVE  RInv'
  BY <1>0, <1>2, RingsAfter DEF RInv
<1>3. ASSUME NEW t \in Tables, NEW rank \in Orders,
             StartPoll(t, rank) \/ RouteAgain(t, rank)
      PROVE  RInv'
  <2>1. CASE StartPoll(t, rank)
    <3>1. /\ poll + 1 \in Polls
          /\ FirstGroups(poll + 1) \in [Groups -> 0 .. MaxPolls]
          /\ GetRoutes(poll + 1, FirstGroups(poll + 1), t, rank)
      BY <1>0, <2>1 DEF StartPoll, TypeOK, Polls, FirstGroups
    <3> QED
      BY <1>2, <3>1
  <2>2. CASE RouteAgain(t, rank)
    <3>1. poll \in Polls /\ GetRoutes(poll, ref[poll], t, rank)
      BY <1>0, <2>2 DEF RouteAgain, TypeOK, Polls
    <3>2. ref[poll] \in [Groups -> 0 .. MaxPolls]
      BY <1>0, <3>1 DEF TypeOK
    <3> QED
      BY <1>2, <3>1, <3>2
  <2> QED
    BY <1>3, <2>1, <2>2
<1>4. ASSUME obj' = obj, finals' = finals PROVE RInv'
  BY <1>1, <1>4
<1>5. ASSUME NEW s \in Servers, NEW at \in since .. Now,
             \/ \E status \in Replies(s) : GoodEntry(s, at, status)
             \/ DisabledEntry(s, at)
      PROVE  RInv'
  <2>1. CASE DisabledEntry(s, at)
    BY <1>4, <2>1 DEF DisabledEntry
  <2>2. ASSUME NEW status \in Replies(s), GoodEntry(s, at, status) PROVE RInv'
    <3>1. \A q \in Polls, b \in Backends : obj'[q][b].sum = obj[q][b].sum
      BY <1>0, <2>2, EntryEffect
    <3> QED
      BY <1>1, <2>2, <3>1 DEF GoodEntry
  <2> QED
    BY <1>5, <2>1, <2>2
<1>6. CASE Diff
  <2>1. CASE poll = 1
    BY <1>4, <1>6, <2>1 DEF Diff
  <2>2. CASE poll # 1
    <3>1. \A q \in Polls, b \in Backends : obj'[q][b].sum = obj[q][b].sum
      BY <1>0, <1>6, <2>2, DiffEffect
    <3> QED
      BY <1>1, <1>6, <3>1 DEF Diff
  <2> QED
    BY <2>1, <2>2
<1>7. ASSUME NEW q \in Polls, NEW b \in Controlled,
             LockPID(q, b) \/ UnlockPID(q, b)
      PROVE  RInv'
  <2>1. finals' = finals
    BY <1>7 DEF LockPID, UnlockPID
  <2>2. obj' = obj \/ \E l \in BOOLEAN : OnlyLock(q, b, l)
    BY <1>0, <1>7, PIDSets
  <2> QED
    BY <1>1, <1>4, <2>1, <2>2, Zenon DEF OnlyLock
<1>8. CASE \/ \E busy \in Loads : Work(busy)
           \/ \E s \in Servers : Restart(s) \/ BadEntry(s)
           \/ \E err \in BOOLEAN : EndPoll(err)
           \/ Done \/ UNCHANGED vars
  BY <1>4, <1>8 DEF Work, Restart, Tick, BadEntry, EndPoll, Done, vars, statVars
<1> QED
  BY <1>3, <1>5, <1>6, <1>7, <1>8 DEF Next

---------------------------------------------------------------------------
(* Older statistics *)

(* The numbers of all polls before the current one are what they were,     *)
(* unless GetRoutes runs on a group taken over from them.                  *)
OlderSame ==
    \A q \in 1 .. poll' - 1, b \in Backends :
        Numbers(q)[b]' = Numbers(q)[b] \/ Shared(q, b)

(* Where the StatBackends of the older polls do not change, neither do     *)
(* their numbers.                                                          *)
LEMMA SameNumbers ==
    ASSUME poll' \in 0 .. MaxPolls,
           \A q \in Polls, b \in Backends : q < poll' =>
               \/ [obj'[q][b] EXCEPT !.locked = FALSE]
                      = [obj[q][b] EXCEPT !.locked = FALSE]
               \/ Shared(q, b)
    PROVE  OlderSame
<1>1. \A q \in 1 .. poll' - 1 : q \in Polls /\ q < poll'
  BY TopologyAssumption DEF Polls
<1> QED
  BY <1>1 DEF OlderSame, Numbers

(* GetRoutes fills in groups of its own, or ones that it shares. *)
LEMMA RoutesOlder ==
    ASSUME MInv, NEW t \in Tables, NEW rank \in Orders,
           StartPoll(t, rank) \/ RouteAgain(t, rank)
    PROVE  OlderSame
<1>0. /\ TypeOK /\ MaxPolls \in Nat /\ GroupOf \in [Backends -> Groups]
      /\ again \in Nat
  BY TopologyAssumption DEF MInv, TypeOK
<1>1. PICK p \in Polls, r \in [Groups -> 0 .. MaxPolls] :
         /\ poll' = p /\ GetRoutes(p, r, t, rank)
         /\ \/ \A g \in Groups : r[g] = 0
            \/ again' # again /\ r = ref[poll]
  <2>1. CASE StartPoll(t, rank)
    <3>1. /\ poll + 1 \in Polls /\ poll' = poll + 1
          /\ FirstGroups(poll + 1) \in [Groups -> 0 .. MaxPolls]
          /\ \A g \in Groups : FirstGroups(poll + 1)[g] = 0
          /\ GetRoutes(poll + 1, FirstGroups(poll + 1), t, rank)
      BY <1>0, <2>1 DEF StartPoll, TypeOK, Polls, FirstGroups
    <3> QED
      BY <3>1
  <2>2. CASE RouteAgain(t, rank)
    <3>1. /\ poll \in Polls /\ GetRoutes(poll, ref[poll], t, rank)
          /\ poll' = poll /\ again' # again
      BY <1>0, <2>2 DEF RouteAgain, TypeOK, Polls
    <3>2. ref[poll] \in [Groups -> 0 .. MaxPolls]
      BY <1>0, <3>1 DEF TypeOK
    <3> QED
      BY <3>1, <3>2
  <2> QED
    BY <2>1, <2>2
<1> DEFINE r1 == RefAfter(p, r, Known(t))
<1>2. \A g \in Groups : r1[g] = r[g] \/ r1[g] = p
  BY RefsAfter
<1>3. \A q \in Polls, b \in Backends : r1[GroupOf[b]] # q => obj'[q][b] = obj[q][b]
  BY <1>0, <1>1, RoutesEffect
<1> HIDE DEF r1
<1>4. ASSUME NEW q \in Polls, NEW b \in Backends, q < poll'
      PROVE  obj'[q][b] = obj[q][b] \/ Shared(q, b)
  <2>1. CASE r1[GroupOf[b]] # q
    BY <1>3, <2>1
  <2>2. CASE r1[GroupOf[b]] = q
    <3>1. GroupOf[b] \in Groups /\ q # 0 /\ q # p
      BY <1>0, <1>1, <1>4 DEF Polls
    <3>2. r[GroupOf[b]] = q /\ q # 0
      BY <1>2, <2>2, <3>1
    <3> QED
      BY <1>1, <3>1, <3>2 DEF Shared
  <2> QED
    BY <2>1, <2>2
<1>5. poll' \in 0 .. MaxPolls
  BY <1>0, <1>1 DEF Polls
<1> QED
  BY <1>4, <1>5, SameNumbers

(* AddStatEntry fills in the current poll. *)
LEMMA EntryOlder ==
    ASSUME MInv, NEW s \in Servers,
           NEW at \in since .. Now, NEW status \in Replies(s),
           GoodEntry(s, at, status)
    PROVE  OlderSame
<1>0. TypeOK /\ OwnGroups /\ poll' = poll /\ poll \in 0 .. MaxPolls
  BY DEF MInv, Recorded, GoodEntry, TypeOK
<1>1. \A q \in Polls, b \in Backends : q # poll => obj'[q][b] = obj[q][b]
  BY <1>0, EntryEffect
<1>2. \A q \in Polls : q < poll' => q # poll
  BY <1>0 DEF Polls
<1> QED
  BY <1>0, <1>1, <1>2, SameNumbers

(* Diff fills in the current poll, whatever it takes over. *)
LEMMA DiffOlder ==
    ASSUME MInv, Diff
    PROVE  OlderSame
<1>0. TypeOK /\ OwnGroups /\ poll' = poll /\ poll \in 0 .. MaxPolls
  BY DEF MInv, Recorded, Diff, TypeOK
<1>1. \A q \in Polls, b \in Backends : q # poll => obj'[q][b] = obj[q][b]
  <2>1. CASE poll = 1
    BY <2>1 DEF Diff
  <2>2. CASE poll # 1
    BY <1>0, <2>2, DiffEffect
  <2> QED
    BY <2>1, <2>2
<1>2. \A q \in Polls : q < poll' => q # poll
  BY <1>0 DEF Polls
<1> QED
  BY <1>0, <1>1, <1>2, SameNumbers

(* PIDUpdate changes a lock. *)
LEMMA PIDOlder ==
    ASSUME MInv, NEW q \in Polls, NEW b \in Controlled,
           LockPID(q, b) \/ UnlockPID(q, b)
    PROVE  OlderSame
<1>0. TypeOK /\ poll' = poll /\ poll \in 0 .. MaxPolls
  BY DEF MInv, TypeOK, UnlockPID, LockPID
<1>1. obj' = obj \/ \E l \in BOOLEAN : OnlyLock(q, b, l)
  BY <1>0, PIDSets
<1>2. \A i \in Polls, d \in Backends : [obj'[i][d] EXCEPT !.locked = FALSE]
                                         = [obj[i][d] EXCEPT !.locked = FALSE]
  BY <1>1, Zenon DEF OnlyLock
<1> QED
  BY <1>0, <1>2, SameNumbers

(* No step touches the older numbers but those that are shared. *)
LEMMA NextOlder == MInv /\ [Next]_vars => OlderSame
<1> SUFFICES ASSUME MInv, [Next]_vars PROVE OlderSame
  OBVIOUS
<1>0. ASSUME obj' = obj PROVE OlderSame
  BY <1>0 DEF OlderSame, Numbers
<1>1. ASSUME NEW s \in Servers, NEW at \in since .. Now,
             \/ \E status \in Replies(s) : GoodEntry(s, at, status)
             \/ DisabledEntry(s, at)
      PROVE  OlderSame
  BY <1>0, <1>1, EntryOlder DEF DisabledEntry
<1>2. CASE \E t \in Tables, rank \in Orders :
              StartPoll(t, rank) \/ RouteAgain(t, rank)
  BY <1>2, RoutesOlder
<1>3. CASE Diff
  BY <1>3, DiffOlder
<1>4. CASE \E q \in Polls, b \in Controlled : LockPID(q, b) \/ UnlockPID(q, b)
  BY <1>4, PIDOlder
<1>5. CASE \/ \E busy \in Loads : Work(busy)
           \/ \E s \in Servers : Restart(s) \/ BadEntry(s)
           \/ \E err \in BOOLEAN : EndPoll(err)
           \/ Done \/ UNCHANGED vars
  BY <1>0, <1>5 DEF Work, Restart, Tick, BadEntry, EndPoll, Done, vars, statVars
<1> QED
  BY <1>1, <1>2, <1>3, <1>4, <1>5 DEF Next

---------------------------------------------------------------------------
(* The theorems *)

(* What the statistics are about holds of every run of the monitor: for    *)
(* any ring, topology, number of polls and length of time (stat.go).       *)
THEOREM MonitorInvariant == Spec => []MInv
BY InitMInv, NextMInv, PTL DEF Spec

(* Types, and no DnetStat has a StatGroup from the future (stat.go:553). *)
THEOREM MonitorTypeCorrect == Spec => []TypeOK
<1>1. MInv => TypeOK
  BY DEF MInv
<1> QED
  BY <1>1, MonitorInvariant, PTL

(* One PIDUpdate at a time and a lock taken only while it runs, wherever   *)
(* Diff did not copy a lock in between; what the copy does to each of the  *)
(* two, and that nothing else ends the program (stat.go:212-244, 534).     *)
THEOREM PIDsExclusive == Spec => []PIDExclusive
<1>1. MInv => PIDExclusive
  BY DEF MInv
<1> QED
  BY <1>1, MonitorInvariant, PTL

(* Rates are the server's own work over the time it took, whatever the     *)
(* word length and in whatever order replies came: the subtraction of the  *)
(* unsigned counters wraps only where a counter fell (stat.go:515-551).    *)
THEOREM RatesAreTrue == Spec => []RateIsTrue
<1>1. MInv => RateIsTrue
  BY DEF MInv
<1> QED
  BY <1>1, MonitorInvariant, PTL

(* On any ring and for any group, every run of Finalize that finds ids     *)
(* gives out the whole ring, and the first one gives each backend its own  *)
(* part (stat.go:354-405).                                                 *)
THEOREM SharesMakeTheRing == Spec => []RingShares
<1>1. RInv => RingShares
  <2> SUFFICES ASSUME RInv, NEW q \in Polls, NEW g \in Groups
               PROVE  /\ \E wraps \in 0 .. finals[q][g] :
                            Total(obj[q], Members(g)) + wraps * Word
                              = finals[q][g] * MaxId
                      /\ finals[q][g] = 1 =>
                            \E rank \in Orders : \A b \in Members(g) :
                                obj[q][b].sum
                                  = Cardinality(Arc(IdsOf(q, g), rank, b))
    BY DEF RingShares
  <2>1. TypeOK /\ Finalized(q, g) /\ Rings(q, g)
    BY DEF RInv, MInv, Recorded
  <2>2. PICK k \in Nat :
           Total(obj[q], Members(g)) + k * Word = finals[q][g] * MaxId
    BY <2>1 DEF Rings, Wrapped
  <2>3. Total(obj[q], Members(g)) \in Nat
    BY <2>1, TotalNatural
  <2>4. k <= finals[q][g]
    <3>1. finals[q][g] \in Nat /\ MaxId \in Nat /\ Word = MaxId + 1
      BY <2>1, WordFacts DEF TypeOK
    <3>2. ASSUME NEW t \in Nat, NEW n \in Nat, NEW m \in Nat,
                 t + k * (m + 1) = n * m
          PROVE  k <= n
      <4>1. k * (m + 1) = k * m + k /\ k * m \in Nat /\ n * m \in Nat
        OBVIOUS
      <4>2. SUFFICES ASSUME k > n PROVE FALSE
        OBVIOUS
      <4>3. PICK d \in Nat : k = n + d
        <5>1. k - n \in Nat /\ k = n + (k - n)
          BY <4>2
        <5> QED
          BY <5>1
      <4>4. k * m = n * m + d * m /\ d * m \in Nat
        BY <4>3
      <4> QED
        BY <3>2, <4>1, <4>2, <4>4
    <3> QED
      BY <2>2, <2>3, <3>1, <3>2
  <2>5. k \in 0 .. finals[q][g]
    BY <2>4
  <2> QED
    BY <2>1, <2>2, <2>5, GroupShares
<1> QED
  BY <1>1, InitRInv, NextRInv, PTL DEF Spec

(* Whatever a later DnetStat goes through, an older one keeps its numbers, *)
(* but for the groups it shares with it (stat.go:499-508, 556-561).        *)
THEOREM OlderStatsKept == Spec => OlderStatsStay
<1>1. MInv /\ [Next]_vars =>
         [\A q \in 1 .. poll' - 1, b \in Backends :
             Numbers(q)[b]' = Numbers(q)[b] \/ Shared(q, b)]_vars
  BY NextOlder DEF OlderSame
<1> QED
  BY <1>1, MonitorInvariant, PTL DEF Spec, OlderStatsStay

=============================================================================
