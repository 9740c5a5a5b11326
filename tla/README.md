# hdrhistogram-go in TLA+

A verification development for hdrhistogram-go: TLA+ models of its histogram
types, TLC runs that check them on small instances, and TLAPS proofs for every
value of the constants.

## The system

A histogram counts int64 values in buckets whose width grows with the value, so
that a fixed number of significant digits is kept. The library has two storage
types, a window over one of them, a wire format and a log format. It starts no
goroutine and takes no lock: callers synchronize, so calls on one histogram do
not overlap. What is hard is arithmetic at the edges (powers of two, MaxInt64,
bucket boundaries), several data representations that must agree, loops that
change what they iterate over, and long sequences of legal calls that leave
cached or derived state behind.

| Part | State | Operations | Hard part | Correct when |
|---|---|---|---|---|
| Geometry (`hdr.go`) | magnitudes, lengths | `New`/`wireGeometry`, value to index, index to value, iterator cursor | wrap-around, boundaries, two constructors | indices and values are inverse, ranges are covered, precision holds |
| Dense `Histogram` (`hdr.go`) | `counts[]`, `totalCount`, metadata | record, corrected record, merge, reset, clone, export, import | overflow of the total, self merge, partial failure | total = sum of counts; merge accounts for everything |
| Dense queries (`hdr.go`) | none | `Max`, `Min`, percentiles one at a time or together, mean | float ranks, block scans, a list overwritten while it is read | same answer as a plain scan |
| Distributions (`hdr.go`) | the percentile iterator's level and flags | `CumulativeDistribution`, `Distribution` | float levels that must pass the position's share | ordered brackets, each at the first position that reaches it, ending with all values; it returns |
| `PackedHistogram` (`packed*.go`) | sorted `idx`, `cnt` of one width, total, last-hit cache | record, merge in three directions, compact, clone, queries, decode | in-place merge, widening, stale cache, saturated totals | behaves as an array of counts |
| `WindowedHistogram` (`window.go`) | ring of histograms, cursor, merge result | rotate, merge | stale pointers, reused result | merge returns the last n epochs |
| ZigZag (`zigzag.go`) | none | a word to bytes and back | the last byte has no continuation bit | a reader stays in step with the writer |
| V2 codec (`hdr_encoding.go`, `packed_encoding.go`) | none | encode, decode | zero runs, the order of the header checks, corrupt input, sums past MaxInt64 | decode undoes encode, the two decoders agree, no error leaves an unsound result |
| Interval logs (`log_*.go`, `packed_log.go`) | time bases, range, observed extremes, position | write headers and intervals, read next | state across lines and across calls, writes and reads that stop inside a line | what is written is read back, with its time and tag |

The packed type uses a `Histogram` without counts as its geometry. Merging calls
`RecordValues` or `setCountAtIndex` of the receiver. The window calls `Reset` and
`Merge` of its histograms. The log calls the codec, the codec ZigZag and the
constructors. All queries over ranks go through `percentileRank`.

## Modules

| Module | Models |
|---|---|
| `Geometry` | The geometry as pure operators. `W` is the number of value bits (63 in the code). |
| `GeometryWalk` | A behavior picks a geometry, raises a value through the whole int64 range, then runs the iterator's cursor through the positions. |
| `CountSums` | int64 arithmetic on counts (`Wrap64`), `addDropped`, prefix sums. `MaxCount` stands for MaxInt64 of counts. |
| `Iteration` | What the iterators visit; `Max` and `Min`. |
| `Histogram` | The dense type and snapshots. |
| `FloatRank` | `percentileRank` in a binary floating-point format. |
| `QueriedCounts` | The geometry and the counts of the dense histograms that are queried. |
| `ScanTargets` | The block-skipping scan that several ranks share, one action per iteration. |
| `Percentiles` | The three percentile queries of the dense type, built on `ScanTargets` and `FloatRank`. |
| `Distribution` | `CumulativeDistribution(WithTicks)` with the percentile iterator, and `Distribution`. |
| `BucketStore` | What any histogram promises: counts per position, record, merge as re-recording in value order. |
| `PackedHistogram` | The sparse type, with dense partners for `MergeInto`/`MergeFrom`; implements `BucketStore`. |
| `WindowedHistogram` | The rolling window. |
| `ZigZag` | The number format. |
| `Codec` | Encode, `Decode` and `DecodePacked`, number by number. |
| `IntervalLog` | Log writer and reader over one growing log. |
| `ArithmeticProofs` | Lemmas about sums, loops, powers of two, the index arithmetic and what the iterators visit. |
| `GeometryWalkProofs`, `HistogramProofs`, `PercentilesProofs`, `PackedHistogramProofs`, `WindowedHistogramProofs`, `CodecProofs`, `IntervalLogProofs` | Theorems about the modules they are named after; `PercentilesProofs` also has those about `Distribution`, which rest on the same facts about rounding. |
| `MC*` | Values of the constants for TLC. |

How state and actions correspond to the code:

* `Histogram`: `geom`, `counts`, `totalCount`, `label` (tag and times, treated
  alike by every operation) and `ratio` are the struct's fields, one entry per
  histogram variable of the program. Calls without a loop are one action. `Merge`
  and `RecordCorrectedValue` take one action per iteration, with their locals in
  `merge` and `fix`, because a self merge reads what it is changing and because
  both can stop in the middle. `entry`, `ret` and `sound` only observe. A
  histogram is `sound` unless it was imported from a snapshot that
  `Snapshot.Validate` rejects; the doc comment of `Import` says that such a total
  may wrap, and the model lets it. `Export` changes nothing and copies, as `Import`
  does, so a snapshot is a value: an import takes one of the caller's or the present
  export of a histogram.
* `ScanTargets`: `targets`, `pos`, `total` and `i` are the locals of
  `scanTargets`; `i` is also `i + j` inside a block. Entering a block, adding a
  count, resolving a rank and moving on are actions of their own. `asked` keeps
  the ranks that the code overwrites.
* `Percentiles`: one call, in stages: ranks, order, the scan's own actions, and
  the way back to the caller's order. Floats are numbers of `Unit`. `DirectScan` is
  a call of `scanTargets` on its own, which reaches the ranks beyond the sum that
  the queries never ask for.
* `FloatRank`: a float has `Precision` significant bits (53 in the code), each
  operation rounds to nearest, ties to even. The totals are larger than the format
  can hold, as int64 totals are for float64. `MaxExponent` is above the exponents of
  the numbers that occur, as float64's range is here.
* `Distribution`: the fields of `pIterator`; the caller's loop and the search loop
  inside `next` are states of `at`, and `place` is the iterator's position. Only the last two brackets are kept. The logarithm
  of the half distance is exact: `math.Log2` rounds to the next whole number only for
  the floats just below a power of two from 8 on, which no level of 1 to 1499 ticks
  meets in float64.
* `PackedHistogram`: one record per histogram with the struct's fields. Byte
  widths are levels with limits (`Limit`); `Slot` is what survives a write at a
  level, so a missing widening loses counts in the model as in the code. Loops are
  recursive functions over their iterations and work on the arrays earlier
  iterations have written: pass 2 of `Merge` fills the array it reads, and the
  part of the array gained by growing starts out as garbage.
* `WindowedHistogram`: positions of the ring for pointers. `held` is an earlier
  `Current` the program still records through.
* `ZigZag`: the nine unrolled branches of the code are one definition over the
  number of the byte.
* `Codec`: the payload is the byte string of `ZigZag`. The frame is a record of
  what the decoders test, in their order; zlib and base64 are external and reduce
  to "inflates" and "is base64". A decoder takes one action per number, so what it
  has built when an error occurs is a state.
* `IntervalLog`: the log is a sequence of lines and one call of the reader takes
  one action per line, so the writer may append in the middle of a call. A line is
  what `ReadString` returns, which is not always what a writer printed. A write may
  stop inside a line (`CutOutput`; `partial` is the whole line) and a restarted
  program may go on with a new writer. The reader gets the head with end of file, and
  the rest, when it comes, as another line (`ResumeOutput`, `Tails`); or the next line
  printed joins the head (`Write`, `Joins`). A read that fails inside a line drops
  what it has read of it, and the next call starts behind that (`ReadFails`, `Rests`).
  What a part of a line, or two joined ones, can be to the reader's patterns is a set:
  another interval, without its tag, with a part of its time or shifted columns, a
  header with another number, or nothing. `torn` are the numbers of such lines. Times
  keep what the text does to them: whole seconds in headers, no sign, and a product
  with 1000.0 that is truncated and may lose a millisecond. `torn`, `got` and the
  fields `src` and `base` of a line only observe.

Deliberately abstracted: capacities, error texts, the tag/time metadata of the
packed type, and the text of log lines (a line is a record of its fields).

## Runs

| Run | Checks | Bounds |
|---|---|---|
| `geometry` | values and positions are inverse, buckets adjoin, both types' ends agree (`IndexRoundTrip`); precision, range, cursor, export | `W` = 9: all 512 values, 9 lowest values (around powers of two, clamped ones, and one whose logarithm rounds up), 10 highest values, -1 to 2 digits |
| `histogram` | types, total = sum, merge accounting and pointwise result, corrected record; exported snapshots import (`ExportImports`); Max and Min; the looping calls return | 2 histograms, geometries of 2 and 3 positions, totals up to 3, intervals -1, 0 and 1, 2 labels, valid and invalid snapshots |
| `percentiles` | each of the three queries gives the values of a linear scan in the caller's order (`ResultsExact`); values rise with percentiles from Min to Max and no rank is out of reach (`ValuesMonotone`); the result of `scanTargets` (`ScanExact`); the queries keep to `ScanTargets`' specification (`ScansAsSpecified`), so the ranks they hand over are ascending | every array of 5 counts to 2, and totals of 65 and 127, which 5-bit floats round down and up; 2 blocks and a tail; all pairs of 7 percentiles and triples of 3, with duplicates, NaN, below 0 and above 100; all ascending pairs of ranks to 11 directly |
| `distribution` | brackets ordered, exact, ending with Max (`BracketsExact`); the bars tile the range; the call returns | every array of 4 counts to 3; 1, 2 and 5 ticks; 8-bit floats |
| `cumulative_distribution_large` | `DistributionReturns`, violated | counts 63 and 1 in 5-bit floats, as 2^53 and 1 in float64 |
| `packed` | shape of the arrays, totals, queries one rank at a time and several in one walk | 4 positions, 3 widths with limits 1, 2 and 8, blocks of 2, corrupt and overflowing payloads |
| `packed_merge` | both paths of `Merge` implement `BucketStore`; each call on its own is exact (`CallsExact`), which the refinement alone does not say, as a wrong step could be the right step of another abstract call | 2 histograms, geometries that index alike, alike over other lengths, and differently |
| `packed_dense` | `MergeInto`, `MergeFrom` and recording with a stale cache implement `BucketStore`, and each call is exact | 1 packed, 1 dense, 2 geometries |
| `window` | slots hold their epoch, merge is the window | 3 histograms, 4 rotations |
| `codec` | round trip, the numbers inside a payload (`NumbersExact`: the reader finds their borders, notices a cut, and never needs more bytes than it read), agreement of the decoders, soundness of what they return, and that the dense and the packed encoder write the same stream | 4-bit words in up to 3 bytes, counts to 7, 3 and 4 positions, every payload of up to 3 bytes, up to 3 numbers, one defect of the frame at a time |
| `log` | every legible interval of a line that was not torn apart is returned or reported once, in order (`NothingLost`), with its tag (`TagsReturn`) and, for base times in whole seconds, its times (`TimesReturn`); a reader with one range gets exactly the intervals in it (`RangeComplete`); the observed extremes are those of what was returned; every call returns | 3 lines, 2 of them in a log with a torn line, 2 calls, 5 intervals (tagged, untagged, of negative length, with a separator inside and at an end of the tag), headers in every place, foreign lines, the whole log or a narrow absolute range; the write of the first line may stop if it is a header, a comment or the tagged interval (`MaxCut`, `CutHistograms`), any read may fail, and a piece of a number reads as 10 (`Fragments`) |
| `log_decimals` | `DecimalsReturn`, violated | 2 lines, 1 call, a base time of 205 with ten milliseconds to a second |

The structural invariant of each run (`CursorIsFlat`, `ResultsExact`,
`BracketsExact`, `SlotsWellFormed`, `SlotsHoldTheirEpoch`, `DecodedSound`,
`NothingLost`) has its module's type invariant as a conjunct.

Why the bounds are enough: nothing in the code depends on a particular word size
except that MaxInt64 is one less than a power of two, and `W` = 9 gives several
buckets above and below the linear range for each geometry. The limits of totals
and widths are reached within a few calls in every run, so overflow, widening and
dropping occur in all combinations with the other calls. Geometries of few
positions with zero significant digits are those a decoded histogram can have;
`New` rejects them at this word size. Four rotations of three histograms reuse
the first slot and the one after it. Two blocks and a tail have every way two
ranks can share or not share a block. A float format of a few bits meets the ties,
the rounding of the total and the loss of a unit that float64 meets past 2^53.
State of the log reader passes from one line to the next, so three lines (a header
and two intervals, or two headers and an interval) have every transfer. A torn line and
the one after it show what the first does to the second. Two cases
are left to the theorems: a merge that drops values for their range (the run's
geometries cover each other's values, so that it drops for the limit only), and a
codec geometry whose top bucket wraps in the dense type and saturates in the packed
one (`IndexRoundTrip` has it). A range
relative to the start of the log, a ratio other than one and times given as options
are in the model and not in the run. (With a relative range `log_reader.go:179` compares the
absolute time plus the start time; no document says what it should be.)

Deadlock is checked in the runs of the histograms, the window and the codec. The
sweep of the geometries, the single queries, the distributions and the bounded log
end, and their runs do not check it.

Fairness: `Histogram`'s `LiveSpec` assumes weak fairness of the steps inside a
running call, `IntervalLog`'s of the reader's steps, `Distribution` of its only
call, and none of them of anything else. Each is a loop in one goroutine that waits
for nothing: the log reader gets end of file, never a wait for more.

### Two disagreements, and behaviours the properties except

* `cumulative_distribution_large` shows a violation: with counts of 2^53 and then 1
  the share of the first position rounds to 100. The iterator's level reaches 100,
  where its step is zero, and stays at most that share; the end test needs the
  count to have reached the total. `CumulativeDistribution` (`hdr.go:1121`) does not
  return. The run `distribution` uses a format that tells the shares of its totals
  apart, and there it does.
* `log_decimals` shows a violation: `log_writer.go:122` and `:136` say that start and
  base time are "represented as seconds since epoch with up to 3 decimal places", but
  `OutputStartTime` and `OutputBaseTime` print whole seconds, while the intervals are
  relative to the full base time. With ten milliseconds to a second, a base time of 205
  becomes a header of 20 seconds, and an interval written at 228 comes back as 222 or
  223. `TimesReturn` and `RangeComplete` are therefore about base times in whole
  seconds, for which the times do come back.

The models keep the following as the code has it, and the named property, which
passes, says how far the code still keeps its promise:

* `geometryMagnitudes` (`hdr.go:209`) floors a float64 logarithm. For lowest values
  just below a power of two from 2^49 - 1 on it rounds up, and the unit is one
  larger than the lowest discernible value; `packed_window.go:63-64` describes the
  magnitude as `floor(log2(lowestDiscernibleValue))`. The set `RoundsUp` holds such
  values, and `Precision` allows them that one.
* The tag of a line that the reader passes over in a call (`log_reader.go:139`),
  for instance one before the requested range, is given to the next interval
  without one. `TagsReturn` allows such a tag and no other.
* The pattern of `log_writer.go:88` needs a character on both sides of a separator,
  so a tag may begin or end with one, although the error text of line 93 rules out
  every separator. `NothingLost` says that such an interval is reported as an error
  and the ones around it are not lost.
* A read that fails inside a line (`log_reader.go:107`) drops what `ReadString` has
  returned of it, and the next call reads the rest as a line; a reader that meets the
  end of the file inside a line (`log_reader.go:98`) takes what is written there later
  for another line; and a line printed behind a cut one joins it. Such an interval may be
  lost, or come with another time or tag, or be reported as an error. `NothingLost`
  leaves out these torn lines, and says that there are none unless a read has failed or
  a write has stopped inside a line, and that the lines around them are returned as
  ever. `TimesReturn` and `RangeComplete` are about logs without torn lines up to where
  the reader is, since a torn header changes the times after it.
* `log_reader.go:211` and `:212` truncate float64 products, so that a time may come
  back a millisecond early. `TimesReturn` allows that one.
* An interval after the requested range (`log_reader.go:195`) is consumed, and lost for
  a later call with a wider range. `RangeComplete` is about programs that keep to one.
* The share of all values, `100 * total / total` in float64, may round to less than
  100 for totals past 2^48. The last position then does not reach the level 100, and
  `next` (`hdr.go:1128`) reports the quantile before it a second time there.
  `BracketsExact` allows this (`RepeatedAtEnd`) and no other bracket before its place.
  The attempt to prove the property without the exception brought it up; the totals
  of the run `distribution` are too small for it.

## Proofs

Every theorem holds for all values of the constants that satisfy the named
assumptions. A theorem about a property of a run is its invariance; where the
property is not inductive, the invariant that carries it is named below. Each of
those invariants was checked by TLC on the run's instance before it was proved.

| Module | Theorems | Invariant |
|---|---|---|
| `GeometryWalkProofs` | `IndexRoundTrips`, `PrecisionKept`, `RangeIsCovered`, `CursorFollowsArray`, `GeometryReturns` | `CursorInv` |
| `HistogramProofs` | `TypeCorrect`, `TotalAlwaysSum`, `ExportsImport`, `ExtremesAreExact`, `MergeAccounts`, `MergeIsPointwise`, `CorrectionsCount` | `TypeOK`, `TotalIsSum`, `MergeInv`, `GainsInv`, `FixInv` |
| `PercentilesProofs` | `ScanResolves`, `ScansAreSpecified`, `ResultsAreExact`, `ValuesAreMonotone` | `ScanInv`, `CallInv` |
| `PercentilesProofs` | `BracketsAreExact`, `BarsDoTile` | `ListInv` |
| `PackedHistogramProofs` | `PackedWellFormed`, `PackedTotals`, `PackedCallsExact`, `PackedImplementsStore`, `PackedQueriesExact` | `Sound` (of that module) |
| `WindowedHistogramProofs` | `WindowSlotsCorrect`, `WindowMergeCorrect` | `WindowInv` |
| `CodecProofs` | `DecodedIsSound`, `NumbersAreExact`, `DecodersDoAgree`, `RoundTrips`, `BytesAreIdentical` | `Sound` (of that module), `Agreeing`, `Written` |
| `IntervalLogProofs` | `NothingIsLost`, `TagsAreKept`, `ExtremesAreObserved`, `TimesAreKept`, `RangeIsComplete` | `LogInv` |

Geometry, for every word size of at least two value bits and all int64 arguments:
the provers know nothing of powers of two, so `ArithmeticProofs` derives what is
needed of them (a power doubles, grows, and splits a number in only one way) from
the number of subsets of a finite set, and from that what `BitLen` computes.
`Built` says of a geometry what both constructors make of their arguments; the
mapping of positions and values, its monotony and the width of buckets follow from
it. `CursorInv` is the position of the iterator: bucket times half the sub-buckets
plus sub-bucket is the number of positions passed, and only the first bucket has a
lower half.

Dense histograms, for every set of histograms, geometry arguments, inputs and
snapshots and every count limit:

* `TotalAlwaysSum` is inductive relative to `TypeOK`. Recording keeps it since the
  check against what the total leaves of the limit keeps both sums from wrapping;
  `Import` since `Validate` admits the counts one after the other (`AdmittedSum`).
* `ExtremesAreExact` rests on the prefix sum: the iterator that stops at the total
  has passed every populated position (`PopulatedVisited`).
* `MergeAccounts` and `MergeIsPointwise` speak of a merge that has returned.
  `MergeInv` describes one in progress: what the iterator has passed is the prefix
  sum of the argument's counts on entry, the counts in front of it are still those
  on entry (a self merge only changes the position just read), and what was passed
  was added or dropped. `GainsInv` says the same position by position. When the
  iterator stops, either nothing is left or what it passed is all there was
  (`PrefixSumFlat`: then it was all there was for each position too).
* `CorrectionsCount`: in `FixInv` the next missing value is the recorded one less an
  interval for every value recorded, which makes the number of steps a quotient.

Percentile queries, for every block size, decoded geometry, set of arrays of natural
counts, lists of percentiles and float format:

* Scans: `ScanInv` adds to the types that the total is the sum of what was passed
  (`RunningSum`), that the ranks before `pos` are resolved rightly and those after it
  untouched and not reached yet (`RanksAndPositions`), and that what is left at the end
  is beyond the sum (`LeftOver`). A block may be skipped because the next rank is the
  least of those left (`NextRankLeast`) and sums only grow.
* Ranks: rounding is monotone (`RoundedMonotone`) and keeps what is a float already
  (`RoundedExact`). No float lies between a total and its rounded value, so a rank below
  the latter is at most the total (`BelowTotal`), and 100% reaches it: ranks are in 1 to
  the total and rise with the percentile (`RankFactsOf`).
* Order: `StableOrder` and `SortedFloats` are chosen lists; that such a list exists is
  shown by inserting one position after the other (`Insertion`, `SortExists`), and that
  it is a permutation by comparing it with the positions it came from (`SortedList`).
* Calls: in `CallInv` a scanning call has the rank of the `order[k]`-th percentile at
  `k`, `order` is onto, and the ranks are a list that `ScanTargets` allows, which is also
  the refinement (`ScansAreSpecified`). All ranks are resolved (`AllResolved`), each
  comes back to its percentile, and its position is the one a linear scan finds. For the
  single query the block that reaches the rank, or else the tail, holds that position
  (`CrossingHolds`). Equal or rising positions have equal or rising values, within one
  bucket too (`CellFacts`).

Distributions, for every decoded geometry, set of arrays of natural counts, number of
ticks and precision of at least five bits:

* Levels: raising a level leaves it a float between its old value and 100
  (`TickFacts`). The half distance is a power of two above `100 / (100 - p)`
  (`HalfFacts`), so a step is at most what is left to 100, and what is left is exact
  from 50 on, since floats within a factor of two have a float as their difference
  (`FloatDifference`).
* Shares: the share of a running count rises with the count through three roundings
  (`ShareFacts`).
* `ListInv`: the iterator's running count is the prefix sum at its position, which it
  leaves only while there are values ahead (`Placed`); the level is not below what was
  reported and above the share of the values before the position (`Levelled`); the
  list is ordered and not past the iterator (`Listed`). `BracketsExact` speaks of the
  moments between two calls of `next`, where `Paused` says what the last one left.
* Bars: the cells of two positions that follow each other adjoin (`CellsAdjoin`), the
  positions that the iterator leaves out are empty, and the last it visits is Max's.

Packed histograms, for every set of histograms, geometry, table of widths, payload
and block size:

* `Sound` is the inductive invariant: a packed histogram's positions are strictly
  ascending and inside its geometry, its counts positive and no wider than its slots,
  and its total is their sum or, past the limit, the limit (`Good`); a dense one's
  total is its sum (`Plain`). The last-hit cache is in it as any two numbers: every
  call is right whatever the cache holds.
* One lemma per operation says what it makes of a `Good` histogram, position by
  position (`Spread` is the array of counts it stands for). Loops are recursive
  functions in the model; for each there is a history of the loop's states up to its
  end, and an invariant of that history: for the binary search that the position is
  not outside the bounds, for pass 2 of the fast `Merge` that what it has filled from
  the back is the merged tail and what it has yet to read is still untouched, so that
  the destination never overtakes the source.
* A narrow width cannot hold a sum past MaxInt64 (`NarrowAssumption`: fewer than 2^31
  positions of less than 2^32 each), which is why the code may add without a check there.
* `PackedImplementsStore`: each action with the views of counts and totals as refinement
  mapping is the `BucketStore` action of the same name, or a stutter. `PackedCallsExact`
  says the same of each call on its own, from any `Sound` state.
* `PackedQueriesExact`: the blocked and the plain walk over the buckets keep the running
  count equal to the saturated prefix sum (`Walking`) and get closer to their end with
  each step (`Measure`); the single walk for several ranks stops where a walk for each
  does.

Windows, for every number of histograms, buckets and rotations: a slot holds its
epoch, and a pointer the program has kept is to a slot that has had one (`SlotsInv`);
`WindowInv` adds that the slots' sum is that of the last n epochs (`SumsAgree`). The merge loop is a recursive
function; `LoopHistory` gives it a history that can be reasoned about.

The codec, for every number of bits of a byte's group and of bytes of a word, every
set of sources, every stream of bytes, and every geometry:

* Numbers: a number is the sum of its groups of bits, the last byte's taken whole, and
  what is written for it has exactly those groups (`EncodeDecode`); any bytes that are
  accepted are at least as many as would be written for their value (`WrittenAgain`).
  `NumbersAreExact` follows for every place a decoder can be at.
* `Sound`: the program's histogram has a sum in range as its total; a decoder at work has
  a place in the payload and one in the array, no count beyond the latter, and holds
  for the dense one exactly, for the packed one saturated, the sum of its counts.
  The lemma `ReadKeeps` is the loop body of either decoder.
* `Agreeing`: `DecodePacked` is compared with the history of the states that `Decode`
  went through on the same payload: both read the same number at the same place, and
  only the check of the total tells them apart, after which the sum can only grow.
* `Written`: while the encoder runs, its buffer consists of marked pieces, one for each
  count or run up to its source index; on the finished stream each decoder stands at a
  mark and has the counts up to there (`Retraces`). The next number is the piece written
  there, it fits the array, and after the last mark only zeros are left since the limit
  is behind the last populated position (`LimitFacts`). `RoundTrips` is its end.
* `BytesAreIdentical`: the sparse encoder is a recursion over positions. It has a
  solution because a run only leads on (`UnrolledExists`), it cuts the zeros into the
  same runs (`OneRunEnd`) up to the same limit (`SparseLimit`), and from mark to mark
  it yields the bytes of the buffer (`UnrolledIs`).

Interval logs, for every set of lines, ranges and times and every bound:

* `OrderInv`, `KindInv`, `CompleteInv`: results come in the order of the log, a line
  earns the result it gets, and a passed line that is due has its result. For
  `NextIntervalHistogram` the last needs that no computed time is outside its range
  (`StartBounds`).
* `TagInv`: the tag that the reader holds is that of a line it passed since its last
  answer.
* `TornInv`: a line is torn only after a failed read or a write that stopped, and every
  other line has the time it was written with. What the writers and a failed read do to
  the log comes down to one fact, that a line which the reader has not consumed is
  replaced or one is added (`WriterShape`, `ReaderKeeps`): everything said of consumed
  lines stays true.
* `KnowsInv`: what the reader knows of start and base time under each of the three
  conventions, if the lines it has consumed keep to it. Lines that do have done so from
  the first (`ConventionsBack`), except that a log begun with a StartTime line was empty.
  With this the time that the reader computes is the start of the interval, if base
  times are whole seconds (`KnownTime`), from which `TimesReturn` and, with `RangeInv`,
  `RangeComplete` follow.

The assumptions are `ASSUME`s that TLC evaluates in the runs: `WAssumption` (two or
more value bits), `ArgsAssumption` and `InputAssumption` (geometry arguments, values
and amounts are int64), `MaxCountAssumption`, `HistAssumption` (some histogram),
`SnapshotAssumption`, `WindowAssumption`; for the packed type
`LimitAssumption` (the widths' limits ascend to MaxInt64), `NarrowAssumption` and
`NamesAssumption`; for the codec `ZigZagAssumption` (a byte has a group of bits, a word
two or more bytes) and `CodecAssumption` (header words are int32 and int64, a counts
array's length is an int32, the histograms to encode were built by recording, and the
two cookies differ); and for the log
`LogAssumption` (a second has more than one millisecond, the kinds of tags differ),
`WriterAssumption` (times in milliseconds since the epoch are not negative; other
writers leave only lines that are no interval and no header with a number; a piece of a
number is one that a time could have) and `ReaderAssumption`.
The percentile queries add `CountsAssumption` (counts are natural numbers),
`ScanAssumption` (a block has a count), `FloatAssumption` (a unit is a power of two),
`LengthAssumption` (a geometry that the wire constructor accepts, and its array),
`RequestAssumption` (NaN is no number, and lists given to `scanTargets` directly are
ascending; for those of the queries this is proved) and `TotalAssumption` (the exponents
suffice for the ranks of every total); the distributions `TicksAssumption` (one or more
ticks) and `PercentageAssumption` (100 is a float, and the exponents suffice for the
percentages of every total).

`ArithmeticProofs` has the facts about prefix sums, quotients and loops that the
others share. `PrefixSum` is a recursive function; the lemmas derive its equations
from the existence and uniqueness of its finite parts, by taking least elements.

Only model-checked:

* liveness (`CallsReturn` of `Histogram` and `IntervalLog`, `DistributionReturns`),
  which is outside the prover's reach.

## Not modelled

* `Mean` and `StdDev`, dense and packed: sums of float64 products whose only
  promise is a rounding error that a small format does not share.
* `PercentilesPrint` and the layout of log lines: text.
* zlib, base64 and the regular expression engine: library code; the model keeps
  what the patterns of this repository match.
* Capacities of slices and the reuse of buffers, which change no result.
* `ticksPerHalfDistance` of zero or less, for which the code's step is undefined
  by its documentation.
* NaN as a key of the map that `ValueAtPercentiles` returns: it is stored and
  cannot be looked up.
* The metadata setters of the packed type, which delegate to the dense ones.

## Plan

Every safety property that a run checks is proved. What is left is outside the
provers' reach (liveness) or the list above.
