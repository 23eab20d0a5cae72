--------------------------- MODULE CachedStoreSpec ---------------------------
(***************************************************************************)
(* The overlay Cached<S> as a state machine (spec 4.1): a store beneath a *)
(* stack of overlays, each wrapping the one below, as instantiate, the    *)
(* bank's sudo and the caller's per-message overlay nest them in          *)
(* execute.rs.  Only the top overlay is written; flush() applies it to    *)
(* the storage it wraps and recycle() hands that storage back; discard()  *)
(* drops it.  Keys are 1..NumKeys in their byte order.                    *)
(***************************************************************************)
EXTENDS Naturals, Sequences, SequencesExt, CachedStore

CONSTANTS
    NumKeys,   \* keys are 1..NumKeys
    Vals,      \* values
    Absent,    \* no value under a key; a pending delete
    MaxDepth   \* bound on the overlays alive at once

Keys == 1..NumKeys

VARIABLES
    base,      \* the store beneath every overlay
    layers     \* the pending maps of the overlays, the top one last

vars == <<base, layers>>

\* Cached::new(storage): a fresh overlay on top (MaxDepth is a model bound;
\* Cached itself nests without limit).
New ==
    /\ Len(layers) < MaxDepth
    /\ layers' = Append(layers, EmptyPending)
    /\ UNCHANGED base

\* set(key, value) on the top overlay.
Set(k, v) ==
    /\ layers # <<>>
    /\ layers' = [layers EXCEPT ![Len(layers)] = Record(@, k, v)]
    /\ UNCHANGED base

\* delete(key) on the top overlay.
Delete(k) ==
    /\ layers # <<>>
    /\ layers' = [layers EXCEPT ![Len(layers)] = Record(@, k, Absent)]
    /\ UNCHANGED base

\* flush(); recycle(): the top overlay's ops go to the storage it wraps.
FlushTop ==
    /\ layers # <<>>
    /\ IF Len(layers) = 1
       THEN base' = Flush(base, layers[1]) /\ layers' = <<>>
       ELSE /\ layers' = Append(SubSeq(layers, 1, Len(layers) - 2),
                                Flush(layers[Len(layers) - 1], Last(layers)))
            /\ UNCHANGED base

\* discard(), or dropping the overlay: its ops are lost.
DiscardTop ==
    /\ layers # <<>>
    /\ layers' = Front(layers)
    /\ UNCHANGED base

\* Any store content can be beneath the first overlay.
Init ==
    /\ base \in [Keys -> Vals \cup {Absent}]
    /\ layers = <<>>

Next ==
    \/ New
    \/ \E k \in Keys, v \in Vals : Set(k, v)
    \/ \E k \in Keys : Delete(k)
    \/ FlushTop
    \/ DiscardTop

Spec == Init /\ [][Next]_vars

-----------------------------------------------------------------------------
(* Properties.                                                            *)

\* Range bounds: start inclusive, end exclusive, NumKeys + 1 for no end.
Bounds == 1..(NumKeys + 1)

\* Spec 4.1: range(start, end, order) through the stack of overlays, the
\* merge of each overlay's sorted pending slice into the range beneath it,
\* yields exactly the entries get() observes in [start, end), in order:
\* pending ops win over the values beneath, deletes hide them, and a key
\* written in several overlays appears once.
RangeAgreesWithGet ==
    \A start, end \in Bounds, order \in {"ascending", "descending"} :
        RangeOf(base, layers, start, end, order, Absent)
            = Slice(Stored(View(base, layers), Absent), start, end, order)

=============================================================================
