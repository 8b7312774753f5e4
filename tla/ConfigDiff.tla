----------------------------- MODULE ConfigDiff -----------------------------
(***************************************************************************)
(* The snapshot diff of the polling monitor (adapter/config/memory/       *)
(* monitor.go): normalize() sorts a listing by key, compareToCache()       *)
(* walks the cached and the new snapshot with two cursors and emits one   *)
(* Add, Update or Delete per changed key.  A config is abstracted to its  *)
(* key and to a content value that stands for everything reflect.DeepEqual *)
(* compares besides the key (type, revision, payload).                     *)
(***************************************************************************)
EXTENDS Integers, Sequences, SequencesExt, FiniteSets

CONSTANTS
    Keys,       \* config keys; Go compares them as strings with <, here as numbers
    Contents    \* distinguishable config bodies (model values)

ASSUME Keys \subseteq Nat /\ Keys # {} /\ Contents # {}

Config == [key : Keys, content : Contents]

EventAdd    == "EventAdd"
EventUpdate == "EventUpdate"
EventDelete == "EventDelete"

Event == [event : {EventAdd, EventUpdate, EventDelete}, config : Config]

Ev(cfg, e) == [event |-> e, config |-> cfg]

\* Every event of e tagged on the configs of seq, in order.
Tagged(seq, e) == [i \in DOMAIN seq |-> Ev(seq[i], e)]

\* A listing returned by ConfigStore.List: configs with pairwise distinct
\* keys, in no particular order (a set).
Listings ==
    UNION { { {[key |-> k, content |-> f[k]] : k \in D} : f \in [D -> Contents] }
            : D \in SUBSET Keys }

\* Fault variant of Normalize: the sort comparator is reversed (>).
Normalize_Descending(listing) == SetToSortSeq(listing, LAMBDA a, b : a.key > b.key)

(***************************************************************************)
(* normalize(): sort.Slice by Key.  Keys of a listing are distinct, so    *)
(* the unstable sort has a single possible result.                        *)
(***************************************************************************)
Normalize(listing) == SetToSortSeq(listing, LAMBDA a, b : a.key < b.key)

\* Ascending, hence distinct, keys.
SortedByKey(rec) == IsSorted(rec, LAMBDA a, b : a.key < b.key)

\* Every snapshot a cycle can cache: a listing in ascending key order.
Snapshots == { SetToSortSeq(l, LAMBDA a, b : a.key < b.key) : l \in Listings }

(***************************************************************************)
(* Fault variant of MergeWalk: the delete branch forgets the "in--" that  *)
(* holds the new cursor in place, so the new record it skips is lost.     *)
(***************************************************************************)
RECURSIVE MergeWalk_NoBacktrack(_, _, _, _)
MergeWalk_NoBacktrack(oldRec, newRec, io, in) ==
    IF io <= Len(oldRec) /\ in <= Len(newRec)
    THEN LET o == oldRec[io]
             n == newRec[in]
         IN  IF o = n THEN MergeWalk_NoBacktrack(oldRec, newRec, io + 1, in + 1)
             ELSE IF o.key = n.key
                  THEN <<Ev(n, EventUpdate)>> \o MergeWalk_NoBacktrack(oldRec, newRec, io + 1, in + 1)
             ELSE IF o.key < n.key
                  THEN <<Ev(o, EventDelete)>> \o MergeWalk_NoBacktrack(oldRec, newRec, io + 1, in + 1)
             ELSE <<Ev(n, EventAdd)>> \o MergeWalk_NoBacktrack(oldRec, newRec, io - 1 + 1, in + 1)
    ELSE Tagged(SubSeq(oldRec, io, Len(oldRec)), EventDelete)
           \o Tagged(SubSeq(newRec, in, Len(newRec)), EventAdd)

(***************************************************************************)
(* The loop of compareToCache from cursors io, in (1-based here).  Each   *)
(* branch ends with the loop's io++, in++; the delete and add branches    *)
(* first undo one of them (in--, io--), which the cursor arguments show.  *)
(* When one snapshot is exhausted the two trailing loops emit the rest of *)
(* the old records as deletes, then the rest of the new ones as adds.     *)
(***************************************************************************)
RECURSIVE MergeWalk(_, _, _, _)
MergeWalk(oldRec, newRec, io, in) ==
    IF io <= Len(oldRec) /\ in <= Len(newRec)
    THEN LET o == oldRec[io]
             n == newRec[in]
         IN  IF o = n THEN MergeWalk(oldRec, newRec, io + 1, in + 1)
             ELSE IF o.key = n.key
                  THEN <<Ev(n, EventUpdate)>> \o MergeWalk(oldRec, newRec, io + 1, in + 1)
             ELSE IF o.key < n.key
                  THEN <<Ev(o, EventDelete)>> \o MergeWalk(oldRec, newRec, io + 1, in - 1 + 1)
             ELSE <<Ev(n, EventAdd)>> \o MergeWalk(oldRec, newRec, io - 1 + 1, in + 1)
    ELSE Tagged(SubSeq(oldRec, io, Len(oldRec)), EventDelete)
           \o Tagged(SubSeq(newRec, in, Len(newRec)), EventAdd)

\* compareToCache(typ, oldRec, newRec): the events it hands to applyHandlers.
CompareToCache(oldRec, newRec) == MergeWalk(oldRec, newRec, 1, 1)

(***************************************************************************)
(* Reference definition (spec section 8, "Diff correctness"): the unique  *)
(* minimal per-key edit script from old to new, in ascending key order.   *)
(***************************************************************************)
KeysOf(rec) == { rec[i].key : i \in DOMAIN rec }

EditScript(oldRec, newRec) ==
    LET olds == ToSet(oldRec)
        news == ToSet(newRec)
    IN     { Ev(o, EventDelete) : o \in { o \in olds : o.key \notin KeysOf(newRec) } }
       \cup { Ev(n, EventAdd)    : n \in { n \in news : n.key \notin KeysOf(oldRec) } }
       \cup { Ev(n, EventUpdate) : n \in { n \in news : \E o \in olds : o.key = n.key /\ o # n } }

ReferenceDiff(oldRec, newRec) ==
    SetToSortSeq(EditScript(oldRec, newRec), LAMBDA a, b : a.config.key < b.config.key)

(***************************************************************************)
(* What a handler that replays the events builds: a map from key to       *)
(* content, NoContent for an absent key.                                  *)
(***************************************************************************)
AsMap(rec, NoContent) ==
    [k \in Keys |-> IF k \in KeysOf(rec)
                    THEN rec[CHOOSE i \in DOMAIN rec : rec[i].key = k].content
                    ELSE NoContent]
=============================================================================
