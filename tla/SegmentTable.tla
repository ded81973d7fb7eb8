---------------------------- MODULE SegmentTable ----------------------------
(***************************************************************************)
(* The algorithms of module Segments against what they promise, over every *)
(* table of a few segments, in every order in which they were written.     *)
(***************************************************************************)
EXTENDS Segments, TLC

CONSTANTS
  Labels,        \* what tells two blocks of one height apart
  Genesis,       \* the label of block 0, common to all forks
  MaxHeight,     \* bound: blocks of a chain
  MaxSegments    \* bound: segments of a table

ASSUME SegmentConstants ==
  /\ Genesis \in Labels
  /\ {MaxHeight, MaxSegments} \subseteq Nat

VARIABLE segs    \* the registered segments, in the order the database lists them

AllHashes == {h \in UNION {[1 .. n -> Labels] : n \in 1 .. MaxHeight} : h[1] = Genesis}

Init == segs = <<>>

\* A file with one range is registered, modified after those before it.
Register(hash, start) ==
  /\ Len(segs) < MaxSegments
  /\ segs' = Append(segs, Segment(Len(segs) + 1, start, hash, Len(segs) + 1))

\* Labels only tell blocks apart: those of the first segment are all Genesis.
Next ==
  \E hash \in AllHashes :
    /\ segs = <<>> => Range(hash) = {Genesis}
    /\ \E start \in 0 .. Len(hash) - 1 : Register(hash, start)

Spec == Init /\ [][Next]_segs

-----------------------------------------------------------------------------
canonical == canonical_chain(segs)
fork == fork_chain(segs)

Linked(c) == \A i \in 1 .. Len(c) - 1 : c[i].hash = SubSeq(c[i + 1].hash, 1, c[i + 1].start)


Without(gone) == SelectSeq(segs, LAMBDA s : s \notin gone)

\* Deleting the reclaimable segments loses no block: the canonical chain still
\* has every block it had, and the fork that a reorg needs is still there
\* unless the canonical chain became as high.
ReclaimIsLossless ==
  segs # <<>> =>
    LET rest == Without(reclaimable_segments(segs))
    IN  /\ rest # <<>>
        /\ IsPrefix(Last(canonical).hash, Last(canonical_chain(rest)).hash)
        /\ ChainStart(canonical_chain(rest)) = ChainStart(canonical)
        /\ fork # <<>> => fork = fork_chain(rest) \/ ChainEnd(canonical_chain(rest)) >= ChainEnd(fork)

Indexed == UNION {s.start .. EndOf(s) : s \in Range(segs)}

\* The missing ranges are sorted, apart from each other, and hold exactly the
\* desired blocks that no segment has and those to be extracted again for a
\* fork: the canonical segment that holds the fork's parent, up to the parent.
MissingIsExact ==
  \A first, last \in 0 .. MaxHeight :
    first <= last =>
      LET missing == missing_ranges(segs, <<first, last>>)
          parent == ChainStart(fork) - 1
          again == IF fork = <<>> THEN {}
                   ELSE UNION {s.start .. parent : s \in {s \in Range(canonical) : parent \in s.start .. EndOf(s)}}
      IN  /\ UNION {Covers(r) : r \in Range(missing)} = (first .. last \ Indexed) \cup (again \cap first .. last)
          /\ \A i \in 1 .. Len(missing) - 1 : missing[i][2] + 1 < missing[i + 1][1]

\* The table after the missing ranges were extracted from the fork's network.
Extracted ==
  LET top == Last(fork).hash
      missing == missing_ranges(segs, <<ChainStart(canonical), ChainEnd(fork)>>)
  IN  segs \o [i \in DOMAIN missing |->
                 Segment(Len(segs) + i, missing[i][1], SubSeq(top, 1, missing[i][2] + 1), MaxSegments + i)]

\* Every round of the dump loop brings a reorg closer to its resolution: when
\* the missing ranges are extracted the canonical chain reaches the top of the
\* fork, or the fork reaches further down.
ReorgsAreResolved ==
  fork # <<>> =>
    \E table \in {Extracted} :
      \/ ChainEnd(canonical_chain(table)) >= ChainEnd(fork)
      \/ ChainStart(fork_chain(table)) < ChainStart(fork)

=============================================================================
