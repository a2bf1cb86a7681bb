----------------------------- MODULE RawCoverage -----------------------------
(***************************************************************************)
(* How the raw coverage of a pane grows: the operators on sequences of      *)
(* windows of bar-data-runtime/raw-coverage-store.js, and the checks that   *)
(* leases and projections make of them.  A batch is its window: bars of one *)
(* window never differ within a source scope.                              *)
(***************************************************************************)
EXTENDS Integers, Sequences, SequencesExt

\* A source scope is provider, instrument, resolution and dataset revision.
SameSource(v, w) == v.source = w.source

CoversAnyOrder(batches, w) ==
    \E i \in 1..Len(batches) : SameSource(batches[i], w) /\ batches[i].to >= w.to

\* covers(): one walk over the windows in their order, until a gap.
Covers(batches, w) ==
    LET walk(at, b) ==
          IF at.gap \/ ~SameSource(b, w) \/ b.to <= at.through THEN at
          ELSE IF b.from > at.through THEN [at EXCEPT !.gap = TRUE]
          ELSE [at EXCEPT !.through = b.to]
    IN  FoldLeft(walk, [through |-> w.from, gap |-> FALSE], batches).through >= w.to

\* contiguousPrefix(): from the end backwards; windows beyond the acquired one
\* are passed over, and the first that does not adjoin ends the prefix.
ContiguousPrefix(accepted, w) ==
    LET walk(b, at) ==
          IF ~at.going \/ (SameSource(b, w) /\ b.to > at.from) THEN at
          ELSE IF SameSource(b, w) /\ b.to = at.from
               THEN [prefix |-> <<b>> \o at.prefix, from |-> b.from, going |-> TRUE]
               ELSE [at EXCEPT !.going = FALSE]
    IN  FoldRight(walk, accepted, [prefix |-> <<>>, from |-> w.from, going |-> TRUE]).prefix

\* stage(): the windows the consumer would hold after the operation.
StagedBatches(accepted, w, operation) ==
    IF accepted # <<>> /\ ~SameSource(accepted[1], w) THEN <<w>>
    ELSE IF operation = "history-extension" THEN <<w>> \o accepted
    ELSE IF operation = "source-replacement" THEN <<w>>
    ELSE IF Covers(accepted, w) THEN accepted
    ELSE ContiguousPrefix(accepted, w) \o <<w>>

\* The scope of a lease: one source, ordered, without overlaps.
Leasable(batches) ==
    \A i \in 1..(Len(batches) - 1) :
        SameSource(batches[i], batches[i + 1]) /\ batches[i].to <= batches[i + 1].from

\* collectProjectionSourceBars(): and without gaps.
Contiguous(batches) ==
    \A i \in 1..(Len(batches) - 1) :
        SameSource(batches[i], batches[i + 1]) /\ batches[i].to = batches[i + 1].from

\* A history extension projects the new window and the one it adjoins.
ProjectableUnchecked(batches, operation) == operation = "history-extension" \/ Contiguous(batches)
Projectable(batches, operation) ==
    IF operation = "history-extension" /\ Len(batches) > 2
    THEN Contiguous(SubSeq(batches, 1, 2)) ELSE Contiguous(batches)
=============================================================================
