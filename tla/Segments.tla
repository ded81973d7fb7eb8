----------------------------- MODULE Segments -------------------------------
(***************************************************************************)
(* The algorithms of core/common/src/metadata/segments.rs: which of the    *)
(* segments of a table are canonical, which ranges have to be extracted,   *)
(* and which segments may be collected.                                    *)
(*                                                                         *)
(* A segment has an id, its first block, the hash of its last block and    *)
(* the time at which its object was written.  The hash of a block is the   *)
(* sequence of the labels of its ancestry (module Network).                *)
(***************************************************************************)
EXTENDS Integers, Sequences, FiniteSetsExt, SequencesExt

Segment(id, start, hash, modified) ==
  [id |-> id, start |-> start, hash |-> hash, modified |-> modified]

EndOf(s) == Len(s.hash) - 1


\* `a` comes immediately before `b`: its hash is the parent hash of `b`.
adjacent(a, b) == a.hash = SubSeq(b.hash, 1, b.start)

ChainStart(c) == Head(c).start
ChainEnd(c) == EndOf(Last(c))

-----------------------------------------------------------------------------
(* Chains *)


\* The candidate last modified; of two modified at one time the later input.
Newest(segs) ==
  LET times == {segs[i].modified : i \in DOMAIN segs}
  IN  segs[Max({i \in DOMAIN segs : segs[i].modified = Max(times)})]


\* From the segment with the greatest end down, without going back.
pick_chain(segs) ==
  LET top == Max({EndOf(s) : s \in Range(segs)})
      walk[k \in 0 .. Len(segs)] ==
        IF k = 0 THEN <<Newest(SelectSeq(segs, LAMBDA s : EndOf(s) = top))>>
        ELSE LET above == walk[k - 1]
                 below == SelectSeq(segs, LAMBDA s : adjacent(s, Head(above)))
             IN  IF below = <<>> THEN above ELSE <<Newest(below)>> \o above
  IN  walk[Len(segs)]

\* Chains are picked, each of the segments that are left, until one starts
\* where the table starts.
picked(segs) ==
  LET min_start == Min({s.start : s \in Range(segs)})
      pick[k \in 0 .. Len(segs)] ==
        IF k = 0 THEN <<>>
        ELSE LET chains == pick[k - 1]
                 used == UNION {Range(c) : c \in Range(chains)}
             IN  IF chains # <<>> /\ ChainStart(Last(chains)) = min_start THEN chains
                 ELSE Append(chains, pick_chain(SelectSeq(segs, LAMBDA s : s \notin used)))
  IN  pick[Len(segs)]

canonical_chain(segs) == IF segs = <<>> THEN <<>> ELSE Last(picked(segs))

\* The first chain that is higher than the canonical one, without a gap to it.
fork_chain(segs) ==
  LET chains == picked(segs)
      end == ChainEnd(Last(chains))
      forks == {i \in 1 .. Len(chains) - 1 :
                  ChainEnd(chains[i]) > end /\ ChainStart(chains[i]) <= end + 1}
  IN  IF segs = <<>> \/ forks = {} THEN <<>> ELSE chains[Min(forks)]

\* Variant: the canonical chain is not retained.
reclaimable_canonical(segs) ==
  LET canonical == canonical_chain(segs)
  IN  {s \in Range(segs) : s.start >= ChainStart(canonical) /\ EndOf(s) <= ChainEnd(canonical)}

\* Segments neither canonical nor of the fork, inside the canonical range.
reclaimable_segments(segs) ==
  LET canonical == canonical_chain(segs)
      retained == Range(canonical) \cup Range(fork_chain(segs))
  IN  {s \in Range(segs) : /\ s \notin retained
                           /\ s.start >= ChainStart(canonical)
                           /\ EndOf(s) <= ChainEnd(canonical)}

-----------------------------------------------------------------------------
(* Ranges of block numbers, <<first, last>> *)

Intersects(r, q) == r[1] <= q[2] /\ q[1] <= r[2]

Covers(r) == r[1] .. r[2]

\* Variant: the block at the border is left out.
missing_block_ranges_short(synced, desired) ==
  (IF desired[1] < synced[1] THEN <<<<desired[1], synced[1] - 1>>>> ELSE <<>>)
  \o (IF desired[2] > synced[2] + 1 THEN <<<<synced[2] + 2, desired[2]>>>> ELSE <<>>)

\* What is left of a desired range that meets a synced one.
missing_block_ranges(synced, desired) ==
  (IF desired[1] < synced[1] THEN <<<<desired[1], synced[1] - 1>>>> ELSE <<>>)
  \o (IF desired[2] > synced[2] THEN <<<<synced[2] + 1, desired[2]>>>> ELSE <<>>)

\* Overlapping and touching ranges become one.
merge_ranges(ranges) ==
  LET merge(acc, r) ==
        IF acc # <<>> /\ r[1] <= Last(acc)[2] + 1
        THEN Append(Front(acc), <<Last(acc)[1], Max({Last(acc)[2], r[2]})>>)
        ELSE Append(acc, r)
  IN  FoldLeft(merge, <<>>, SortSeq(ranges, LAMBDA r, q : r[1] < q[1]))

\* Variant: the fork is left alone.
NoReorgRange(segs, desired) == <<>>

\* The canonical segment below the fork, up to the block before the fork.
ReorgRange(segs, desired) ==
  LET fork == fork_chain(segs)
      reorg_block == ChainStart(fork) - 1
      below == SelectSeq(canonical_chain(segs),
                         LAMBDA s : s.start <= reorg_block /\ reorg_block <= EndOf(s))
      again == [i \in DOMAIN below |->
                  <<Max({below[i].start, desired[1]}), Min({reorg_block, desired[2]})>>]
  IN  IF fork = <<>> THEN <<>> ELSE SelectSeq(again, LAMBDA r : r[1] <= r[2])

missing_ranges(segs, desired) ==
  LET remove(missing, s) ==
        FlattenSeq([i \in DOMAIN missing |->
          IF Intersects(missing[i], <<s.start, EndOf(s)>>)
          THEN missing_block_ranges(<<s.start, EndOf(s)>>, missing[i])
          ELSE <<missing[i]>>])
  IN  merge_ranges(FoldLeft(remove, <<desired>>, segs) \o ReorgRange(segs, desired))
=============================================================================
