--------------------------- MODULE RetentionKeep ---------------------------
(***************************************************************************)
(* What a retention policy keeps (retentionKeep and                        *)
(* ListRetentionCandidates, internal/protection/retention.go), applied     *)
(* again and again while recovery points are committed.                    *)
(*                                                                         *)
(* A recovery point is the time it was created.  Hours, days, ISO weeks,   *)
(* months and years differ only in the period a time falls into: a kind of *)
(* period is its length in ticks, and kinds need not nest (weeks and       *)
(* months do not).                                                         *)
(***************************************************************************)
EXTENDS Integers, FiniteSets, SequencesExt

CONSTANTS
    MaxTime,  \* bound: ticks of the clock
    Lengths,  \* length of each kind of period, a sequence
    MaxKeep   \* bound: the counts of a policy

ASSUME LengthsAssumption == \A k \in DOMAIN Lengths : Lengths[k] \in Nat \ {0}
ASSUME KeepBoundsAssumption == MaxTime \in Nat /\ MaxKeep \in Nat

Kinds == DOMAIN Lengths
Policies == [last : 0..MaxKeep, every : [Kinds -> 0..MaxKeep]]

VARIABLES
    now,     \* the time
    policy,  \* the application's policy
    rps,     \* its committed recovery points
    listed,  \* the candidates a retention run still has to delete
    all      \* history: all that were ever committed

keepVars == <<now, policy, rps, listed, all>>

Period(k, t) == t \div Lengths[k]

NewestFirst(S) ==
    [i \in 1..Cardinality(S) |-> CHOOSE t \in S : Cardinality({u \in S : u > t}) = i - 1]

\* bucket: walk the list, keep the first of every period seen, stop at a new
\* period after n of them.
Bucket_CountsAll(list, k, n) ==
    LET walk(st, t) ==
            IF Period(k, t) \in st.seen \/ st.count >= n THEN [st EXCEPT !.count = @ + 1]
            ELSE [seen |-> st.seen \cup {Period(k, t)}, keep |-> st.keep \cup {t},
                  count |-> st.count + 1]
    IN FoldLeft(walk, [seen |-> {}, keep |-> {}, count |-> 0], list).keep

Bucket_OneMore(list, k, n) ==
    LET walk(st, t) ==
            IF Period(k, t) \in st.seen \/ Cardinality(st.seen) > n THEN st
            ELSE [seen |-> st.seen \cup {Period(k, t)}, keep |-> st.keep \cup {t}]
    IN IF n <= 0 THEN {} ELSE FoldLeft(walk, [seen |-> {}, keep |-> {}], list).keep

Bucket(list, k, n) ==
    LET walk(st, t) ==
            IF Period(k, t) \in st.seen \/ Cardinality(st.seen) >= n THEN st
            ELSE [seen |-> st.seen \cup {Period(k, t)}, keep |-> st.keep \cup {t}]
    IN IF n <= 0 THEN {} ELSE FoldLeft(walk, [seen |-> {}, keep |-> {}], list).keep

retentionKeep(S, p) ==
    LET list == NewestFirst(S)
    IN {list[i] : i \in {j \in DOMAIN list : j <= p.last \/ j = 1}}
       \cup UNION {Bucket(list, k, p.every[k]) : k \in Kinds}

KeepInit == now = 1 /\ policy \in Policies /\ rps = {} /\ listed = {} /\ all = {}

\* Time passes, with or without a backup.
Tick == now < MaxTime /\ now' = now + 1 /\ UNCHANGED <<policy, rps, listed, all>>

\* A backup is recorded under the time it was made.
PointCommitted ==
    /\ now \notin all
    /\ rps' = rps \cup {now} /\ all' = all \cup {now}
    /\ UNCHANGED <<now, policy, listed>>

\* A retention run lists what the policy does not keep, less what a restore uses
\* or a manual deletion awaits (any of them may be).
ListRetentionCandidates ==
    /\ listed = {}
    /\ listed' \in SUBSET (rps \ retentionKeep(rps, policy))
    /\ UNCHANGED <<now, policy, rps, all>>

\* It then deletes them one by one, while backups are committed; one whose
\* deletion fails is no longer committed either.
DeleteRecoveryPoint ==
    /\ \E t \in listed : listed' = listed \ {t} /\ rps' = rps \ {t}
    /\ UNCHANGED <<now, policy, all>>

KeepNext == Tick \/ PointCommitted \/ ListRetentionCandidates \/ DeleteRecoveryPoint
KeepSpec == KeepInit /\ [][KeepNext]_keepVars

(***************************************************************************)
(* Properties.                                                             *)
(***************************************************************************)

\* The state has its type; what is listed and what is left was once committed.
KeepTypeOK ==
    /\ now \in 1..MaxTime /\ policy \in Policies
    /\ listed \subseteq rps /\ rps \subseteq all /\ all \subseteq 1..MaxTime

\* What "keep_last newest, plus the newest per hour/day/ISO week/month/year for
\* the latest N such periods" means: the periods that hold a recovery point count.
Newer(S, t) == {u \in S : u > t}
NewestOf(S, k, t) == \A u \in Newer(S, t) : Period(k, u) # Period(k, t)
LaterPeriods(S, k, t) == {Period(k, u) : u \in Newer(S, t)} \ {Period(k, t)}

Promised(S, p) ==
    {t \in S : \/ Newer(S, t) = {} \/ Cardinality(Newer(S, t)) < p.last
               \/ \E k \in Kinds : /\ NewestOf(S, k, t)
                                   /\ Cardinality(LaterPeriods(S, k, t)) < p.every[k]}

\* The walk over the list with its early return keeps exactly what the policy
\* promises (retention.go:26).
KeepsWhatIsPromised == retentionKeep(rps, policy) = Promised(rps, policy)

\* Deleting early loses nothing: what the policy would keep of the whole history
\* is still there, and is what it keeps of what is left, however often and
\* however incompletely retention has run.
HistoryDoesNotMatter == retentionKeep(rps, policy) = retentionKeep(all, policy)
=============================================================================
