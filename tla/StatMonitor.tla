---------------------------- MODULE StatMonitor -----------------------------
(***************************************************************************)
(* Statistics: a monitor that calls Session.DnetStat again and again and   *)
(* lets each DnetStat take the difference to the one before, while others  *)
(* use the PID controllers of the backends.                                *)
(*                                                                         *)
(* DnetStat objects are numbered by the poll that made them.  A DnetStat   *)
(* refers to one StatGroup for each group it knows; after Diff this may be *)
(* the StatGroup of an earlier poll, so groups are named by the poll that  *)
(* made them and ref says which one a DnetStat has.                        *)
(*                                                                         *)
(* Of a backend's statistics two values are kept: its place on the ring    *)
(* and one counter, standing for the sectors, ticks and command counters   *)
(* that Diff turns into rates.  Time is counted in ticks of the servers'   *)
(* clock, 0 being the epoch and Go's zero time.                            *)
(***************************************************************************)
EXTENDS RouteRing, Sequences, FiniteSets

CONSTANTS
    Backends, Groups, Servers,
    GroupOf, ServerOf,  \* group and server (address) of each backend
    Tables,     \* routing tables: the range starts of each backend
    Loads,      \* sets of backends that may be at work during a tick
    Controlled, \* backends whose PID controller is in use
    MaxPolls,   \* bound: calls of DnetStat
    MaxClock,   \* bound: ticks
    MaxAgain    \* bound: further calls of GetRoutes

Word == MaxId + 1
Polls == 1 .. MaxPolls
Orders == {r \in [Backends -> 1 .. Cardinality(Backends)] :
              \A b, d \in Backends : r[b] = r[d] => b = d}

ASSUME TopologyAssumption ==
    /\ IsFiniteSet(Backends)
    /\ GroupOf \in [Backends -> Groups]
    /\ ServerOf \in [Backends -> Servers]
    /\ Tables \subseteq [Backends -> SUBSET (0 .. MaxId)]
    /\ Loads \subseteq SUBSET Backends /\ Controlled \subseteq Backends
    /\ MaxPolls \in Nat \ {0} /\ MaxClock \in Nat \ {0} /\ MaxAgain \in Nat
    /\ MaxClock < Word

VARIABLES
    hist,       \* the counters of all backends, at every tick so far
    poll,       \* the last call of DnetStat
    phase,      \* "idle", "entries" (it is reading), "polled" (it returned)
    since,      \* the tick its request went out at, 0 if it has returned
    waiting,    \* servers that have not answered it
    time,       \* DnetStat.Time
    ref,        \* DnetStat.Group: whose StatGroup, 0 if none
    obj,        \* the StatBackends, by the poll whose StatGroup they are in
    finals,     \* how often Finalize has found ids in a StatGroup
    again,      \* further calls of GetRoutes so far
    users,      \* calls of PIDUpdate between Lock and Unlock, by StatBackend
    torn,       \* history: what Diff did to the lock under them
    fatal       \* the Go runtime has stopped the program

statVars == <<time, ref, obj, finals>>
pidVars == <<users, torn, fatal>>
vars == <<hist, poll, phase, since, waiting, statVars, again, pidVars>>

Now == Len(hist)
Members(g) == {b \in Backends : GroupOf[b] = g}

NoRate == [num |-> 0, dur |-> 0, set |-> FALSE]

(* made: the StatBackend exists; at: the tick its counter is from, 0 if no *)
(* reply ever filled it in; locked: the lock inside its PID.               *)
NewStatBackend ==
    [made |-> FALSE, ids |-> {}, sum |-> 0, count |-> 0, at |-> 0,
     rate |-> NoRate, locked |-> FALSE]

Init ==
    /\ hist = <<[b \in Backends |-> 0]>>
    /\ poll = 0
    /\ phase = "idle"
    /\ since = 0
    /\ waiting = {}
    /\ time = [p \in Polls |-> 0]
    /\ ref = [p \in Polls |-> [g \in Groups |-> 0]]
    /\ obj = [p \in Polls |-> [b \in Backends |-> NewStatBackend]]
    /\ finals = [p \in Polls |-> [g \in Groups |-> 0]]
    /\ again = 0
    /\ users = [p \in Polls |-> [b \in Backends |-> 0]]
    /\ torn = [p \in Polls |-> [b \in Backends |-> "no"]]
    /\ fatal = FALSE

---------------------------------------------------------------------------
(* The servers (external) *)

Tick(counters) ==
    /\ ~fatal
    /\ Now < MaxClock
    /\ hist' = Append(hist, counters)
    /\ UNCHANGED <<poll, phase, since, waiting, statVars, again, pidVars>>

Work(busy) ==
    Tick([b \in Backends |->
            IF b \in busy THEN (hist[Now][b] + 1) % Word ELSE hist[Now][b]])

(* A restart shows only if there was something to lose. *)
Restart(s) ==
    /\ \E b \in Backends : ServerOf[b] = s /\ hist[Now][b] # 0
    /\ Tick([b \in Backends |->
               IF ServerOf[b] = s THEN 0 ELSE hist[Now][b]])

---------------------------------------------------------------------------
(* GetRoutes: an AddRouteEntry for every line of the routing table t, then *)
(* Finalize of every group of the DnetStat, new and old.  r is what Group  *)
(* refers to before.                                                       *)

(* FindBackend makes the group if need be. *)
RefAfter(p, r, known) ==
    [g \in Groups |->
        IF r[g] = 0 /\ \E b \in Members(g) : b \in known THEN p ELSE r[g]]

GetRoutes(p, r, t, rank) ==
    LET r1 == RefAfter(p, r, {b \in Backends : t[b] # {}})
        ids(q, g) == [b \in Members(g) |-> obj[q][b].ids \cup t[b]]
    IN
    /\ ref' = [ref EXCEPT ![p] = r1]
    /\ obj' = [q \in Polls |-> [b \in Backends |->
                 IF r1[GroupOf[b]] # q THEN obj[q][b]
                 ELSE [obj[q][b] EXCEPT
                         !.made = @ \/ t[b] # {},
                         !.ids = @ \cup t[b],
                         !.sum = (@ + Gain(ids(q, GroupOf[b]), rank, b))
                                    % Word]]]
    /\ finals' = [q \in Polls |-> [g \in Groups |->
                    finals[q][g] + (IF r1[g] = q /\ Starts(ids(q, g)) # {}
                                      THEN 1 ELSE 0)]]

(* Slip: the new DnetStat starts from the groups of the last one. *)
FirstGroups_Last(p) ==
    IF p = 1 THEN [g \in Groups |-> 0] ELSE ref[p - 1]

(* DnetStat makes its own, empty map. *)
FirstGroups(p) == [g \in Groups |-> 0]

(* DnetStat up to its loop: the request for statistics is out and the      *)
(* routes are in.                                                          *)
StartPoll(t, rank) ==
    /\ ~fatal
    /\ phase = "idle"
    /\ poll < MaxPolls
    /\ poll' = poll + 1
    /\ GetRoutes(poll + 1, FirstGroups(poll + 1), t, rank)
    /\ since' = Now
    /\ waiting' = Servers
    /\ phase' = "entries"
    /\ UNCHANGED <<hist, time, again, pidVars>>

(* GetRoutes on a DnetStat that has been through it already, as the test   *)
(* of the session does.                                                    *)
RouteAgain(t, rank) ==
    /\ ~fatal
    /\ phase # "entries"
    /\ poll > 0
    /\ again < MaxAgain
    /\ again' = again + 1
    /\ GetRoutes(poll, ref[poll], t, rank)
    /\ UNCHANGED <<hist, poll, phase, since, waiting, time, pidVars>>

---------------------------------------------------------------------------
(* AddStatEntry *)

(* A reply that is parsed, made by server s at the tick `at': replies need *)
(* not come in the order they were made.  status says for each backend of  *)
(* s whether it is enabled ("ok"), enabled with an error code ("error") or *)
(* not ("off").                                                            *)
GoodEntry(s, at, status) ==
    LET p == poll
        known == {b \in DOMAIN status : status[b] # "off"}
        fresh == {b \in DOMAIN status : status[b] = "ok"}
        r1 == RefAfter(p, ref[p], known)
    IN
    /\ ~fatal
    /\ phase = "entries"
    /\ s \in waiting
    /\ waiting' = waiting \ {s}
    /\ time' = [time EXCEPT ![p] = at]
    /\ ref' = [ref EXCEPT ![p] = r1]
    /\ obj' = [q \in Polls |-> [b \in Backends |->
                 IF r1[GroupOf[b]] # q \/ b \notin known THEN obj[q][b]
                 ELSE IF b \in fresh
                   THEN [obj[q][b] EXCEPT !.made = TRUE, !.at = at,
                                          !.count = hist[at][b]]
                 ELSE [obj[q][b] EXCEPT !.made = TRUE]]]
    /\ UNCHANGED <<hist, poll, phase, since, finals, again, pidVars>>

(* A reply whose monitor is switched off: only its time is taken. *)
DisabledEntry(s, at) ==
    /\ ~fatal
    /\ phase = "entries"
    /\ s \in waiting
    /\ waiting' = waiting \ {s}
    /\ time' = [time EXCEPT ![poll] = at]
    /\ UNCHANGED <<hist, poll, phase, since, ref, obj, finals, again, pidVars>>

(* A reply that is no JSON (on_stat_one sends the text of an exception):   *)
(* the time it did not give is taken all the same.                         *)
BadEntry(s) ==
    /\ ~fatal
    /\ phase = "entries"
    /\ s \in waiting
    /\ waiting' = waiting \ {s}
    /\ time' = [time EXCEPT ![poll] = 0]
    /\ UNCHANGED <<hist, poll, phase, since, ref, obj, finals, again, pidVars>>

(* The channel is closed, after an entry with nothing but an error if some *)
(* server did not answer and the request as a whole failed.                *)
EndPoll(err) ==
    /\ ~fatal
    /\ phase = "entries"
    /\ err => waiting # {}
    /\ time' = IF err THEN [time EXCEPT ![poll] = 0] ELSE time
    /\ since' = 0
    /\ waiting' = {}
    /\ phase' = "polled"
    /\ UNCHANGED <<hist, poll, ref, obj, finals, again, pidVars>>

---------------------------------------------------------------------------
(* Diff with the DnetStat before; the first is given nil. *)

(* Slips: signed counters; the operands are exchanged. *)
Rate_Signed(new, old, duration) ==
    [num |-> new.count - old.count, dur |-> duration, set |-> TRUE]
Rate_Backwards(new, old, duration) ==
    [num |-> (old.count + Word - new.count) % Word, dur |-> duration,
     set |-> TRUE]

Rate(new, old, duration) ==
    [num |-> (new.count + Word - old.count) % Word, dur |-> duration,
     set |-> TRUE]

(* A group the new statistics do not have is taken over from the old. *)
GroupsAfterDiff(p) ==
    [g \in Groups |-> IF ref[p][g] = 0 THEN ref[p - 1][g] ELSE ref[p][g]]

(* What copying a PID, whose lock is taken or not, does to the n updates   *)
(* of the PID it is copied over: a taken lock nobody there will release, a *)
(* free lock under somebody who holds it.                                  *)
Tear(locked, n, before) ==
    IF locked <=> n > 0 THEN before ELSE IF locked THEN "stuck" ELSE "open"

Diff ==
    LET p == poll
        duration == time[p] - time[p - 1]
        common(b) ==
            LET q == ref[p][GroupOf[b]]
                o == ref[p - 1][GroupOf[b]]
            IN  q # 0 /\ o # 0 /\ obj[q][b].made /\ obj[o][b].made
        old(b) == obj[ref[p - 1][GroupOf[b]]][b]
        copied(q, b) == ref[p][GroupOf[b]] = q /\ common(b)
    IN
    /\ ~fatal
    /\ phase = "polled"
    /\ phase' = "idle"
    /\ IF p = 1 THEN UNCHANGED <<ref, obj, torn>>
       ELSE /\ obj' = [q \in Polls |-> [b \in Backends |->
                  IF ~copied(q, b) THEN obj[q][b]
                  ELSE [obj[q][b] EXCEPT
                          !.locked = old(b).locked,
                          !.rate = Rate(obj[q][b], old(b), duration)]]]
            /\ torn' = [q \in Polls |-> [b \in Backends |->
                  IF ~copied(q, b) THEN torn[q][b]
                  ELSE Tear(old(b).locked, users[q][b], torn[q][b])]]
            /\ ref' = [ref EXCEPT ![p] = GroupsAfterDiff(p)]
    /\ UNCHANGED <<hist, poll, since, waiting, time, finals, again, users,
                   fatal>>

---------------------------------------------------------------------------
(* PIDUpdate on a backend some DnetStat has: Lock ... Unlock. *)

(* Slip: PIDUpdate takes the lock as PIDPain does, for reading. *)
LockPID_Shared(q, b) ==
    /\ ~fatal
    /\ obj[q][b].made
    /\ users' = [users EXCEPT ![q][b] = @ + 1]
    /\ obj' = [obj EXCEPT ![q][b].locked = TRUE]
    /\ UNCHANGED <<hist, poll, phase, since, waiting, time, ref, finals, again,
                   torn, fatal>>

LockPID(q, b) ==
    /\ ~fatal
    /\ obj[q][b].made
    /\ ~obj[q][b].locked
    /\ users' = [users EXCEPT ![q][b] = @ + 1]
    /\ obj' = [obj EXCEPT ![q][b].locked = TRUE]
    /\ UNCHANGED <<hist, poll, phase, since, waiting, time, ref, finals, again,
                   torn, fatal>>

(* Unlocking a lock that is not taken ends the program. *)
UnlockPID(q, b) ==
    /\ ~fatal
    /\ users[q][b] > 0
    /\ IF obj[q][b].locked
         THEN /\ users' = [users EXCEPT ![q][b] = @ - 1]
              /\ obj' = [obj EXCEPT ![q][b].locked = FALSE]
              /\ UNCHANGED fatal
         ELSE /\ fatal' = TRUE
              /\ UNCHANGED <<users, obj>>
    /\ UNCHANGED <<hist, poll, phase, since, waiting, time, ref, finals, again,
                   torn>>

---------------------------------------------------------------------------

(* The monitor has made its last poll, or there is no program any more. *)
Done ==
    /\ fatal \/ (poll = MaxPolls /\ phase = "idle")
    /\ UNCHANGED vars

Replies(s) == [{b \in Backends : ServerOf[b] = s} -> {"ok", "error", "off"}]

Next ==
    \/ \E busy \in Loads : Work(busy)
    \/ \E s \in Servers :
          \/ Restart(s)
          \/ \E at \in since .. Now :
                \/ \E status \in Replies(s) : GoodEntry(s, at, status)
                \/ DisabledEntry(s, at)
          \/ BadEntry(s)
    \/ \E t \in Tables, rank \in Orders : StartPoll(t, rank) \/ RouteAgain(t, rank)
    \/ \E err \in BOOLEAN : EndPoll(err)
    \/ Diff
    \/ \E q \in Polls, b \in Controlled : LockPID(q, b) \/ UnlockPID(q, b)
    \/ Done

Spec == Init /\ [][Next]_vars

---------------------------------------------------------------------------
(* Properties *)

StatBackends ==
    [made : BOOLEAN, ids : SUBSET (0 .. MaxId), sum : 0 .. MaxId,
     count : 0 .. MaxId, at : 0 .. MaxClock,
     rate : [num : 0 .. MaxId, dur : -MaxClock .. MaxClock, set : BOOLEAN],
     locked : BOOLEAN]

(* Types; a DnetStat has no StatGroup from the future. *)
TypeOK ==
    /\ hist \in Seq([Backends -> 0 .. MaxId]) /\ Now \in 1 .. MaxClock
    /\ poll \in 0 .. MaxPolls
    /\ phase \in {"idle", "entries", "polled"}
    /\ since \in 0 .. Now /\ (phase = "entries" <=> since # 0)
    /\ waiting \subseteq Servers
    /\ time \in [Polls -> 0 .. MaxClock]
    /\ ref \in [Polls -> [Groups -> 0 .. MaxPolls]]
    /\ \A p \in Polls, g \in Groups : ref[p][g] <= p
    /\ obj \in [Polls -> [Backends -> StatBackends]]
    /\ finals \in [Polls -> [Groups -> 0 .. MaxPolls + MaxAgain]]
    /\ again \in 0 .. MaxAgain
    /\ users \in [Polls -> [Backends -> 0 .. 2]]
    /\ torn \in [Polls -> [Backends -> {"no", "stuck", "open"}]]
    /\ fatal \in BOOLEAN

Total(o, M) == MapThenSumSet(LAMBDA b : o[b].sum, M)

IdsOf(q, g) == [b \in Members(g) |-> obj[q][b].ids]

(* The sums of a group make up the whole ring, once for every run of       *)
(* Finalize that found ids and up to wraps of the uint64: Finalize adds to *)
(* what is there, so a second GetRoutes counts the ring again.  After the  *)
(* first run each backend has exactly the points of the ring that its ids  *)
(* start, an id of several backends being one's alone                      *)
(* (stat.go:171-173, 354-405).                                             *)
RingShares ==
    \A q \in Polls, g \in Groups :
        LET runs == finals[q][g] IN
        /\ \E wraps \in 0 .. runs :
              Total(obj[q], Members(g)) + wraps * Word = runs * MaxId
        /\ runs = 1 => \E rank \in Orders : \A b \in Members(g) :
              obj[q][b].sum = Cardinality(Arc(IdsOf(q, g), rank, b))

(* The reply that filled in b for poll p was also the one, or as old as    *)
(* the one, that gave p its time.                                          *)
Sampled(p, b) ==
    ref[p][GroupOf[b]] = p /\ obj[p][b].at # 0 /\ obj[p][b].at = time[p]

NoRestart(b, from, to) ==
    \A t \in from .. to - 1 : hist[t][b] <= hist[t + 1][b]

TrueRate(p, b) ==
    LET from == obj[p - 1][b].at
        to == obj[p][b].at
        rate == obj[p][b].rate
    IN
    rate.set /\ Sampled(p, b) /\ Sampled(p - 1, b) =>
        /\ rate.dur = to - from
        /\ NoRestart(b, from, to) => rate.num = hist[to][b] - hist[from][b]
        /\ hist[to][b] < hist[from][b] =>
              rate.num = Word - (hist[from][b] - hist[to][b])

(* A rate is what the server did between the two samples, over the time    *)
(* between them ("difference between the two divided by the time           *)
(* difference", stat.go:197-199), provided both DnetStats got a reply for  *)
(* the backend and no reply with another time or none came after it.  A    *)
(* server restarted in between makes it nearly the whole word instead      *)
(* (stat.go:515-551).                                                      *)
RateIsTrue == \A p \in 2 .. MaxPolls, b \in Backends : TrueRate(p, b)

(* Users and lock of one PID, as it is and as Diff may leave it. *)
LockState(q, b) ==
    LET taken == IF obj[q][b].locked THEN 1 ELSE 0 IN
    /\ torn[q][b] = "no" => users[q][b] = taken
    /\ torn[q][b] = "stuck" => users[q][b] = 0 /\ obj[q][b].locked
    /\ torn[q][b] = "open" => users[q][b] = taken + 1
    /\ torn[q][b] # "no" => obj[q][b].rate.set

(* PIDUpdate has its PID for itself, and the lock is taken exactly while   *)
(* it runs, also over the Diffs that copy the lock with the PID; but where *)
(* Diff copied a PID in the middle of an update, the copy stays locked and *)
(* no update gets in any more, and where it copied one over a PID in the   *)
(* middle of an update, that update and one other run at once.  Only these *)
(* can unlock a free lock, which ends the program (stat.go:212-244, 534).  *)
PIDExclusive ==
    /\ \A q \in Polls, b \in Backends : LockState(q, b)
    /\ fatal => \E q \in Polls, b \in Backends :
                   torn[q][b] = "open" /\ ~obj[q][b].locked

(* What a DnetStat holds is history: whatever a later one goes through,    *)
(* nothing of the older one changes but the locks, unless GetRoutes is     *)
(* called again on a DnetStat that has taken over the older one's group:   *)
(* the two share it (stat.go:499-508, 556-561).                            *)
Numbers(q) == [b \in Backends |-> [obj[q][b] EXCEPT !.locked = FALSE]]

Shared(q, b) == again' # again /\ ref[poll][GroupOf[b]] = q

OlderStatsStay ==
    [][\A q \in 1 .. poll' - 1, b \in Backends :
          Numbers(q)[b]' = Numbers(q)[b] \/ Shared(q, b)]_vars

(* What the comment at stat.go:553-555 says: if no reply told anything     *)
(* about a group, as when the request to its server times out, the old     *)
(* statistics are used for it.                                             *)
OldStatsUsed ==
    \A g \in Groups :
        /\ poll > 1 /\ phase = "idle"
        /\ ref[poll - 1][g] # 0
        /\ \E b \in Members(g) : obj[ref[poll - 1][g]][b].at # 0
        /\ \A b \in Members(g) : obj[poll][b].at = 0
        => ref[poll][g] = ref[poll - 1][g]

---------------------------------------------------------------------------
(* The inductive invariant behind these properties. *)

(* A DnetStat that is still to be compared has groups of its own only, and *)
(* Finalize runs once in a call of GetRoutes.                              *)
OwnGroups ==
    phase # "idle" => /\ poll # 0
                      /\ \A g \in Groups : ref[poll][g] \in {0, poll}

FinalsCounted == \A q \in Polls, g \in Groups : finals[q][g] <= poll + again

(* A sum is what the first run of Finalize that finds ids makes of them,   *)
(* and every run adds the ring.                                            *)
Finalized(q, g) ==
    /\ finals[q][g] = 0 =>
          \A b \in Members(g) : obj[q][b].ids = {} /\ obj[q][b].sum = 0
    /\ finals[q][g] # 0 => Starts(IdsOf(q, g)) # {}
    /\ finals[q][g] = 1 =>
          \E rank \in Orders : \A b \in Members(g) :
              obj[q][b].sum = Gain(IdsOf(q, g), rank, b) % Word

(* A counter is what the server had at the tick it is from; later polls    *)
(* have later counters.                                                    *)
Dated(q, b) ==
    obj[q][b].at # 0 =>
        /\ q <= poll
        /\ obj[q][b].at <= Now
        /\ q < poll /\ since # 0 => obj[q][b].at <= since
        /\ obj[q][b].count = hist[obj[q][b].at][b]

Aging(p, b) ==
    obj[p - 1][b].at # 0 /\ obj[p][b].at # 0 => obj[p - 1][b].at <= obj[p][b].at

(* Where there was no restart, counters grow. *)
Climbs ==
    \A b \in Backends : \A from, to \in 1 .. Now :
        from <= to /\ NoRestart(b, from, to) => hist[from][b] <= hist[to][b]

(* Rates are made by the one Diff of a poll, in groups of its own. *)
Rated(q, b) ==
    obj[q][b].rate.set =>
        /\ q < poll \/ (q = poll /\ phase = "idle")
        /\ ref[q][GroupOf[b]] = q

Recorded ==
    /\ OwnGroups
    /\ FinalsCounted
    /\ \A q \in Polls, g \in Groups : Finalized(q, g)
    /\ \A q \in Polls, b \in Backends : Dated(q, b) /\ Rated(q, b)
    /\ \A p \in 2 .. MaxPolls, b \in Backends : Aging(p, b)
    /\ Climbs

=============================================================================
