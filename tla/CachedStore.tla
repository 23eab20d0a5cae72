----------------------------- MODULE CachedStore -----------------------------
(***************************************************************************)
(* The write-buffered overlay Cached<S> of the cw_store crate (spec 4.1). *)
(* Its source is not part of this repository, so these operators follow   *)
(* the spec.  A store is a total function from keys to values, the model   *)
(* value standing for "no value" included.  A pending map of an overlay is *)
(* a function from the keys it touched to their new value: a value for     *)
(* set(key, value), and the absent value for delete(key).                  *)
(***************************************************************************)
EXTENDS Sequences, SequencesExt

\* A fresh overlay: Cached::new(store) buffers nothing yet.
EmptyPending == [k \in {} |-> k]

\* set(key, value) and delete(key): record the op, the latest op per key wins.
Record(pending, k, v) == (k :> v) @@ pending

\* flush(): every pending op is applied to the store beneath; get() through
\* an overlay is the same function, read at one key.
Flush(under, pending) == pending @@ under

\* What a reader at the top of a stack of overlays over `base` observes.
View(base, layers) == FoldLeft(Flush, base, layers)

\* The entries of f whose key lies in [start, end), as <<key, value>> pairs
\* in the order of the iteration, "ascending" or "descending".
Slice(f, start, end, order) ==
    LET ks == SetToSortSeq({k \in DOMAIN f : start <= k /\ k < end},
                           LAMBDA a, b : IF order = "ascending" THEN a < b ELSE b < a)
    IN [i \in DOMAIN ks |-> <<ks[i], f[ks[i]]>>]

\* The entries a store holds: the keys with a value.
Stored(s, none) == RestrictValues(s, LAMBDA v : v # none)

\* key a comes before key b in the iteration order.
Before(a, b, order) == IF order = "ascending" THEN a < b ELSE b < a

\* Mutant: for equal keys the value beneath is yielded and the pending op
\* is skipped.
RECURSIVE MergeRangeBeneathWins(_, _, _, _)
MergeRangeBeneathWins(u, p, order, none) ==
    CASE p = <<>> -> u
      [] u # <<>> /\ Before(Head(u)[1], Head(p)[1], order) ->
             <<Head(u)>> \o MergeRangeBeneathWins(Tail(u), p, order, none)
      [] u # <<>> /\ Head(u)[1] = Head(p)[1] ->
             <<Head(u)>> \o MergeRangeBeneathWins(Tail(u), Tail(p), order, none)
      [] OTHER ->
             (IF Head(p)[2] = none THEN <<>> ELSE <<Head(p)>>)
             \o MergeRangeBeneathWins(u, Tail(p), order, none)

\* range(): the merge iterator over u, the range of the store beneath, and
\* p, the sorted pending slice.  For equal keys the pending op wins, and a
\* pending delete suppresses the value beneath.
RECURSIVE MergeRange(_, _, _, _)
MergeRange(u, p, order, none) ==
    CASE p = <<>> -> u
      [] u # <<>> /\ Before(Head(u)[1], Head(p)[1], order) ->
             <<Head(u)>> \o MergeRange(Tail(u), p, order, none)
      [] OTHER ->
             LET rest == IF u # <<>> /\ Head(u)[1] = Head(p)[1] THEN Tail(u) ELSE u
             IN (IF Head(p)[2] = none THEN <<>> ELSE <<Head(p)>>)
                \o MergeRange(rest, Tail(p), order, none)

\* range() at the top of a stack of overlays: each overlay merges its
\* pending slice into the range of the storage it wraps.
RECURSIVE RangeOf(_, _, _, _, _, _)
RangeOf(base, layers, start, end, order, none) ==
    IF layers = <<>> THEN Slice(Stored(base, none), start, end, order)
    ELSE MergeRange(RangeOf(base, Front(layers), start, end, order, none),
                    Slice(Last(layers), start, end, order), order, none)

=============================================================================
