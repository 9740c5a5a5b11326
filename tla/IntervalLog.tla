---------------------------- MODULE IntervalLog -----------------------------
(***************************************************************************)
(* Interval logs: the HistogramLogWriter of log_writer.go appends lines,   *)
(* the HistogramLogReader of log_reader.go returns their histograms.       *)
(*                                                                         *)
(* The log is a sequence of lines, the reader has a position in it, and    *)
(* one call of NextIntervalHistogramWithRange takes one action per line,   *)
(* so that the writer may append while a call is in progress.              *)
(*                                                                         *)
(* A line is what the reader gets from ReadString, which is not always     *)
(* what a writer printed.  A write may stop inside a line (CutOutput): the *)
(* reader takes the line's head at io.EOF, and its rest, when it comes,    *)
(* for another line (ResumeOutput); or the next line is printed behind the *)
(* head, which no newline ends (Joins).  And a read that fails inside a    *)
(* line drops what it has read of it (ReadFails).  Lines are replaced in   *)
(* the log by what there is left to read of them; those the reader has     *)
(* consumed stay.  Text is kept to what the reader's patterns tell apart.  *)
(*                                                                         *)
(* Times are integers in milliseconds, K of them to a second; the reader's *)
(* float64 seconds are the same numbers.  What the text form does to them  *)
(* is kept: headers hold whole seconds, the reader's pattern has no sign,  *)
(* and a product with 1000.0 is truncated (Truncated).  A histogram is     *)
(* the record of what the log needs of it: tag, start, end, max and min.   *)
(*                                                                         *)
(* A tag is a name; NoTag is the empty one.  InnerTag stands for tags with *)
(* a separator (comma, space, line break) between two characters, which    *)
(* the writer refuses, EdgeTag for tags with a comma or a line break at    *)
(* an end, which its pattern does not match; for the reader EdgeTag is any *)
(* text with a comma in front of the columns.  PartTag is a tag put        *)
(* together from the ends of two lines.                                    *)
(*                                                                         *)
(* got, the results returned so far, and torn, the lines that are not as   *)
(* a writer printed them, are not in the code; nor are the fields src and  *)
(* base of a line, which keep what was written.                            *)
(***************************************************************************)
EXTENDS Integers, Sequences

CONSTANTS
  K,                        \* milliseconds in a second: 1000
  Year,                     \* a year: 365 * 24 * 3600 seconds
  MaxInt64,
  NoTag, InnerTag, EdgeTag, PartTag,
  Histograms,               \* [tag, start, end, max, min] offered to the writer
  CutHistograms,            \* those of them whose output may stop inside the line
  Options,                  \* [start, end, ratio] of HistogramLogOptions
  BaseTimes, StartTimes,    \* msec arguments
  ForeignLines,             \* lines of other writers
  Fragments,                \* what a piece of a number, or of two, may read as
  Ranges,                   \* [lo, hi, absolute] arguments of the reader
  MaxCut,                   \* a writer may stop inside the first MaxCut lines
  MaxLines, MaxTornLines,   \* bounds on the log, whole and with torn lines
  MaxCalls                  \* bound on the reader's calls

\* The values of an int64.
Int64 == -(MaxInt64 + 1)..MaxInt64

ASSUME LogAssumption ==
  /\ K \in Nat \ {0, 1} /\ Year \in Nat /\ MaxInt64 \in Nat \ {0}
  /\ MaxLines \in Nat /\ MaxTornLines \in 0..MaxLines /\ MaxCut \in Nat /\ MaxCalls \in Nat
  /\ NoTag # InnerTag /\ NoTag # EdgeTag /\ InnerTag # EdgeTag
  /\ PartTag \notin {NoTag, InnerTag, EdgeTag}
ASSUME WriterAssumption ==
  /\ BaseTimes \union StartTimes \subseteq 0..MaxInt64
  /\ Histograms \subseteq [tag : {h.tag : h \in Histograms}, start : Int64, end : Int64,
                           max : Int64, min : Int64]
  /\ CutHistograms \subseteq Histograms
  /\ Options \subseteq [start : Int64, end : Int64, ratio : Int]
  /\ ForeignLines \subseteq [kind : {"other", "badStart", "badBase"}]
  /\ Fragments \subseteq {f \in Nat : f * K <= MaxInt64}
ASSUME ReaderAssumption == Ranges \subseteq [lo : Int, hi : Int, absolute : BOOLEAN]

VARIABLES
  baseTime,   \* the writer's base time
  partial,    \* the line of which only the head is written yet, or NoLine
  log,
  torn,       \* the numbers of the lines that are not as they were printed
  reader,     \* the HistogramLogReader
  call,       \* the reader's call in progress, with its local variable tag
  got

vars == <<baseTime, partial, log, torn, reader, call, got>>

NoLine == [kind |-> "none"]

NoCall == [active |-> FALSE, range |-> [lo |-> 0, hi |-> 0, absolute |-> TRUE], tag |-> NoTag]

\* NewHistogramLogWriter and NewHistogramLogReader.
Init ==
  /\ baseTime = 0 /\ partial = NoLine /\ log = <<>> /\ torn = {}
  /\ reader = [startTime |-> 0, observedStart |-> FALSE, baseTime |-> 0, observedBase |-> FALSE,
               max |-> -(MaxInt64 + 1), min |-> MaxInt64, pos |-> 0]
  /\ call = NoCall /\ got = <<>>

-----------------------------------------------------------------------------
(* Parts of lines.                                                          *)

\* Mutant of IsInterval: a last line without a newline is dropped.
IsInterval_Terminated(line) ==
  line.len >= 0 /\ line.cut = "none" /\ (line.shown \/ line.tag = EdgeTag)

\* The pattern for intervals matches the line.  With EdgeTag its columns are shifted
\* by one, and the first is empty.
IsInterval(line) ==
  line.len >= 0 /\ line.cut # "head" /\ (line.shown \/ line.tag = EdgeTag)

Other == [kind |-> "other"]

\* Headers with a number, and those where it is missing or does not parse.
Header(kind, sec) == [kind |-> IF kind \in {"start", "badStart"} THEN "start" ELSE "base", sec |-> sec]
BadHeader(kind) == [kind |-> IF kind \in {"start", "badStart"} THEN "badStart" ELSE "badBase"]

\* A line whose end is missing.  Of an interval it is the newline, or part of the
\* payload, or so much that the pattern does not match.
Heads(l) ==
  CASE l.kind = "interval" -> {[l EXCEPT !.cut = c] : c \in {"newline", "payload", "head"}}
    [] l.kind \in {"start", "base"} ->
         {l, BadHeader(l.kind), Other}
           \union {Header(l.kind, f) : f \in {g \in Fragments : g < l.sec}}
    [] OTHER -> {l, Other}

\* A line whose beginning is missing.  Without '#' it is no header; without "Tag="
\* the tag goes, or what is left of it shifts the columns; and of the first column
\* a part may be left, or nothing, or of the columns so few that the pattern does not
\* match.
Rests(l) ==
  IF l.kind = "interval" /\ l.cut # "head"
  THEN {Other}
         \union {[l EXCEPT !.tag = NoTag, !.at = t] : t \in {l.at} \union Fragments}
         \union {[l EXCEPT !.tag = t] :
                   t \in {u \in {EdgeTag} : l.len >= 0 /\ (l.shown \/ (l.tag # NoTag /\ l.at >= 0))}}
  ELSE {Other}

\* The rest of line l, when the reader has had its head c.
Tails(c, l) == IF c.kind = "interval" /\ c.cut # "head" THEN {Other} ELSE Rests(l)

\* The head c and line l behind it in one line: what that is if c decides, by a '#' or
\* a tag at the beginning or by its columns, and what it is if l does.
JoinedHead(c) ==
  CASE c.kind = "interval" ->
         {Other, [c EXCEPT !.cut = "payload"]}
           \union {[c EXCEPT !.cut = "head", !.tag = t] :
                     t \in IF c.tag = NoTag THEN {NoTag} ELSE {c.tag, PartTag}}
    [] c.kind = "other" -> {Other}
    [] OTHER -> {c, BadHeader(c.kind), Other} \union {Header(c.kind, f) : f \in Fragments}

\* Line l behind other text: its tag shifts the columns.
Shifted(l) == [l EXCEPT !.tag = IF l.tag # NoTag /\ l.at >= 0 /\ l.len >= 0 THEN EdgeTag ELSE NoTag]

JoinedLine(c, l) ==
  CASE l.kind # "interval" -> IF c.kind = "interval" THEN {} ELSE {l}
    [] l.kind = "interval" /\ c.kind = "interval" ->
         IF l.tag = NoTag
         THEN UNION {{[l EXCEPT !.tag = t, !.at = a] : a \in {l.at} \union Fragments} :
                       t \in {NoTag, c.tag}}
         ELSE {Shifted(l)} \union {[l EXCEPT !.tag = t] : t \in IF c.tag = NoTag THEN {} ELSE {PartTag}}
    [] l.kind = "interval" /\ c.kind = "other" ->
         {Shifted(l)} \union {[l EXCEPT !.at = a] : a \in {f \in Fragments : l.tag = NoTag}}
    [] OTHER -> {}

\* Text behind a payload is part of it, and not base64.
Joins(c, l) ==
  IF c.kind = "interval" /\ IsInterval(c) THEN {[c EXCEPT !.cut = "payload"]}
  ELSE JoinedHead(c) \union JoinedLine(c, l)

-----------------------------------------------------------------------------
(* The writer.                                                              *)

\* The bounds leave room for a line.
Room == Len(log) < IF torn = {} THEN MaxLines ELSE MaxTornLines

\* A line is printed.  It continues one that no newline ends, unless the reader has
\* consumed that.
Write(line) ==
  /\ IF partial # NoLine /\ reader.pos < Len(log)
     THEN /\ \E l \in Joins(log[Len(log)], line) : log' = [log EXCEPT ![Len(log)] = l]
          /\ torn' = torn \union {Len(log)}
     ELSE /\ Room /\ log' = Append(log, line)
          /\ UNCHANGED torn
  /\ partial' = NoLine
  /\ UNCHANGED <<reader, call, got>>

SetBaseTime(msec) == baseTime' = msec /\ UNCHANGED <<partial, log, torn, reader, call, got>>

\* OutputStartTime and OutputBaseTime print msec / 1000.
WholeSeconds(msec) == msec \div K

OutputStartTime(msec) ==
  /\ Write([kind |-> "start", sec |-> WholeSeconds(msec)])
  /\ UNCHANGED baseTime

OutputBaseTime(msec) ==
  /\ Write([kind |-> "base", sec |-> WholeSeconds(msec)])
  /\ UNCHANGED baseTime

\* OutputComment, OutputLegend, OutputLogFormatVersion: lines a reader passes over.
\* Other writers may also leave a header whose number does not parse, or "Tag="
\* without a comma.
OutputOther(line) == Write(line) /\ UNCHANGED baseTime

\* The pattern ".[, \r\n]." that a tag must not match.
Refused(tag) == tag = InnerTag

\* The interval line that outputIntervalHistogram prints.  A ratio of zero makes
\* the maximum Inf or NaN, which is not a number to the reader's pattern.
IntervalLine(h, o) ==
  LET start == IF o.start # 0 THEN o.start ELSE h.start
      end   == IF o.end # 0 THEN o.end ELSE h.end
  IN  [kind |-> "interval", tag |-> h.tag, at |-> start - baseTime,
       len |-> end - start, shown |-> o.ratio # 0, cut |-> "none",
       src |-> [h EXCEPT !.start = start, !.end = end], base |-> baseTime]

\* OutputIntervalHistogram and its variants; a refused tag writes nothing.  EdgeTag
\* with a negative time is not modelled.
OutputInterval(h, o) ==
  /\ ~Refused(h.tag)
  /\ h.tag = EdgeTag => IntervalLine(h, o).at >= 0
  /\ Write(IntervalLine(h, o))
  /\ UNCHANGED baseTime

\* The lines that a writer may be printing when it stops.
Printed ==
  {[kind |-> "start", sec |-> WholeSeconds(t)] : t \in StartTimes}
    \union {[kind |-> "base", sec |-> WholeSeconds(t)] : t \in BaseTimes} \union ForeignLines
    \union {IntervalLine(h, o) :
              h \in {g \in CutHistograms : ~Refused(g.tag) /\ g.tag # EdgeTag}, o \in Options}

\* The write of a line stops after its head, or has come that far: one line at a time.
\* If the program has died a restarted one, with a new writer, may go on.
CutOutput(line, head) ==
  /\ partial = NoLine /\ Len(log) < MaxCut /\ Room
  /\ log' = Append(log, head) /\ partial' = line
  /\ baseTime' \in {baseTime, 0}
  /\ UNCHANGED <<torn, reader, call, got>>

\* The write goes on.  A reader that has not had the head gets the line, or what a
\* failed read has left of it; one that has gets the rest as a line.
ResumeOutput ==
  /\ partial # NoLine
  /\ IF reader.pos < Len(log)
     THEN /\ \E l \in IF Len(log) \in torn THEN Rests(partial) ELSE {partial} :
               log' = [log EXCEPT ![Len(log)] = l]
          /\ UNCHANGED torn
     ELSE /\ Room
          /\ \E l \in Tails(log[Len(log)], partial) : log' = Append(log, l)
          /\ torn' = torn \union {Len(log) + 1}
  /\ partial' = NoLine
  /\ UNCHANGED <<baseTime, reader, call, got>>

-----------------------------------------------------------------------------
(* The reader.                                                              *)

\* Mutant of FreshTag: the tag survives from one call to the next.
FreshTag_Kept == IF got = <<>> THEN NoTag ELSE got[Len(got)].tag

\* decodeNextIntervalHistogram begins with no tag.
FreshTag == NoTag

\* NextIntervalHistogramWithRange.
NextInterval(range) ==
  /\ ~call.active /\ Len(got) < MaxCalls
  /\ call' = [active |-> TRUE, range |-> range, tag |-> FreshTag]
  /\ UNCHANGED <<baseTime, partial, log, torn, reader, got>>

\* The call returns: a histogram, an error, or neither.
Returns(kind, line, tag, start, end) ==
  /\ got' = Append(got, [kind |-> kind, line |-> line, tag |-> tag, start |-> start, end |-> end,
                         range |-> call.range])
  /\ call' = NoCall

ReturnsNothing(kind, line, tag) == Returns(kind, line, tag, 0, 0)

\* The line under the reader.
Line == log[reader.pos + 1]
Reading(kinds) == call.active /\ reader.pos < Len(log) /\ Line.kind \in kinds

\* ReadString has consumed the line.
Past(r) == [r EXCEPT !.pos = @ + 1]

\* Mutant of AtEnd: the end of the file is noticed only after a newline.
AtEnd_AfterNewline ==
  /\ reader.pos = Len(log)
  /\ log # <<>> => (log[Len(log)].kind = "interval" => log[Len(log)].cut = "none")

\* ReadString returns an empty line and io.EOF.
AtEnd == reader.pos = Len(log)

ReadEnd ==
  /\ call.active /\ AtEnd
  /\ ReturnsNothing("end", 0, call.tag)
  /\ UNCHANGED <<baseTime, partial, log, torn, reader>>

\* The underlying reader fails, between two lines or inside one: what ReadString
\* returns with the error is dropped, and the next call reads on behind it.
ReadFails ==
  /\ call.active
  /\ \/ UNCHANGED <<log, torn>>
     \/ /\ reader.pos < Len(log)
        /\ \E l \in Rests(Line) : log' = [log EXCEPT ![reader.pos + 1] = l]
        /\ torn' = torn \union {reader.pos + 1}
  /\ ReturnsNothing("failed", 0, call.tag)
  /\ UNCHANGED <<baseTime, partial, reader>>

ReadStartTime ==
  /\ ~AtEnd /\ Reading({"start"})
  /\ reader' = Past([reader EXCEPT !.startTime = Line.sec * K, !.observedStart = TRUE])
  /\ UNCHANGED <<baseTime, partial, log, torn, call, got>>

ReadBaseTime ==
  /\ ~AtEnd /\ Reading({"base"})
  /\ reader' = Past([reader EXCEPT !.baseTime = Line.sec * K, !.observedBase = TRUE])
  /\ UNCHANGED <<baseTime, partial, log, torn, call, got>>

\* A header without a number: ParseFloat has put zero into the field.
ReadBadHeader ==
  /\ ~AtEnd /\ Reading({"badStart", "badBase"})
  /\ reader' = Past(IF Line.kind = "badStart" THEN [reader EXCEPT !.startTime = 0]
                                               ELSE [reader EXCEPT !.baseTime = 0])
  /\ ReturnsNothing("error", reader.pos + 1, call.tag)
  /\ UNCHANGED <<baseTime, partial, log, torn>>

\* The tag after an interval line's own tag was read.
LineTag == IF Line.tag = NoTag THEN call.tag ELSE Line.tag

\* Comments, legends, "Tag=" without a comma, and intervals the pattern does not match:
\* if the head of one has no comma yet, there is no tag.
ReadIgnored ==
  /\ ~AtEnd
  /\ \/ Reading({"other"}) /\ UNCHANGED call
     \/ Reading({"interval"}) /\ ~IsInterval(Line) /\ call' = [call EXCEPT !.tag = LineTag]
     \/ Reading({"interval"}) /\ Line.cut = "head" /\ UNCHANGED call
  /\ reader' = Past(reader)
  /\ UNCHANGED <<baseTime, partial, log, torn, got>>

\* The timestamp column does not parse.
ReadBadInterval ==
  /\ ~AtEnd /\ Reading({"interval"}) /\ IsInterval(Line) /\ Line.tag = EdgeTag
  /\ reader' = Past(reader)
  /\ ReturnsNothing("error", reader.pos + 1, LineTag)
  /\ UNCHANGED <<baseTime, partial, log, torn>>

\* The timestamp as the pattern finds it: a minus sign is left outside.
Timestamp == IF Line.at >= 0 THEN Line.at ELSE -Line.at

\* Mutant of DeducedBase: the base is deduced for every line anew.
DeducedBase_EveryLine(r) ==
  IF Timestamp < r.startTime - Year THEN r.startTime ELSE IF r.observedBase THEN r.baseTime ELSE 0

\* The base time that a reader r that knows the start time uses.
DeducedBase(r) ==
  IF r.observedBase THEN r.baseTime
  ELSE IF Timestamp < r.startTime - Year THEN r.startTime ELSE 0

\* The reader with its start and base time settled, no later than at this line.
Settled ==
  LET r == IF reader.observedStart THEN reader
           ELSE [reader EXCEPT !.startTime = Timestamp, !.observedStart = TRUE]
  IN  Past([r EXCEPT !.baseTime = DeducedBase(r), !.observedBase = TRUE])

AbsoluteStart == Timestamp + Settled.baseTime

\* The time that is compared with the range.
RangeTime == IF call.range.absolute THEN AbsoluteStart ELSE AbsoluteStart + Settled.startTime

AtInterval == ~AtEnd /\ Reading({"interval"}) /\ IsInterval(Line) /\ Line.tag # EdgeTag

\* Mutant of Before: the start of the range is exclusive.
Before_Inclusive == RangeTime <= call.range.lo

\* The interval begins before the range.
Before == RangeTime < call.range.lo

ReadBefore ==
  /\ AtInterval /\ Before
  /\ reader' = Settled
  /\ call' = [call EXCEPT !.tag = LineTag]
  /\ UNCHANGED <<baseTime, partial, log, torn, got>>

\* An interval after the range ends the call, without histogram or error.
ReadAfter ==
  /\ AtInterval /\ ~Before /\ RangeTime > call.range.hi
  /\ reader' = Settled
  /\ ReturnsNothing("after", reader.pos + 1, LineTag)
  /\ UNCHANGED <<baseTime, partial, log, torn>>

InRange == AtInterval /\ ~Before /\ RangeTime <= call.range.hi

\* Decode rejects a payload that was cut.
ReadCutPayload ==
  /\ InRange /\ Line.cut = "payload"
  /\ reader' = Settled
  /\ ReturnsNothing("error", reader.pos + 1, LineTag)
  /\ UNCHANGED <<baseTime, partial, log, torn>>

\* int64(seconds * 1000.0): the product may fall short of a whole number of
\* milliseconds.  The start is exact if it is a whole number of seconds, being the
\* sum of two; the end is a sum with a length that need not be.
Truncated(t) == IF t % K = 0 THEN {t} ELSE {t - 1, t}
TruncatedSum(t) == {t - 1, t}

\* Mutant of Observed: one extreme at a time.
Observed_EitherOne(r, h) ==
  IF h.max > r.max THEN [r EXCEPT !.max = h.max]
  ELSE IF h.min < r.min THEN [r EXCEPT !.min = h.min] ELSE r

\* rangeObservedMax and rangeObservedMin.
Observed(r, h) ==
  [r EXCEPT !.max = IF h.max > @ THEN h.max ELSE @, !.min = IF h.min < @ THEN h.min ELSE @]

ReadInterval ==
  /\ InRange /\ Line.cut # "payload"
  /\ reader' = Observed(Settled, Line.src)
  /\ \E s \in Truncated(AbsoluteStart), e \in TruncatedSum(AbsoluteStart + Line.len) :
       Returns("histogram", reader.pos + 1, LineTag, s, e)
  /\ UNCHANGED <<baseTime, partial, log, torn>>

ReaderStep ==
  \/ ReadEnd \/ ReadStartTime \/ ReadBaseTime \/ ReadBadHeader \/ ReadIgnored \/ ReadBadInterval
  \/ ReadBefore \/ ReadAfter \/ ReadCutPayload \/ ReadInterval

-----------------------------------------------------------------------------
WriterStep ==
  \/ \E t \in BaseTimes : SetBaseTime(t) \/ OutputBaseTime(t)
  \/ \E t \in StartTimes : OutputStartTime(t)
  \/ \E l \in ForeignLines : OutputOther(l)
  \/ \E h \in Histograms, o \in Options : OutputInterval(h, o)
  \/ \E l \in Printed : \E head \in Heads(l) : CutOutput(l, head)
  \/ ResumeOutput

Next == WriterStep \/ ReaderStep \/ ReadFails \/ \E r \in Ranges : NextInterval(r)

Spec == Init /\ [][Next]_vars

\* A call in progress is never blocked: at the end of the log ReadString returns.
LiveSpec == Spec /\ WF_vars(ReaderStep)

-----------------------------------------------------------------------------
(* Properties.                                                              *)

TypeOK ==
  /\ baseTime \in Nat /\ partial.kind \in {"none", "other", "badStart", "badBase", "start", "base", "interval"}
  /\ Len(log) <= MaxLines /\ reader.pos \in 0..Len(log) /\ torn \subseteq 1..Len(log)
  /\ reader.startTime \in Nat /\ reader.baseTime \in Nat
  /\ reader.observedStart \in BOOLEAN /\ reader.observedBase \in BOOLEAN
  /\ reader.max \in Int64 /\ reader.min \in Int64
  /\ call.active \in BOOLEAN
  /\ \A i \in 1..Len(got) :
       got[i].kind \in {"end", "failed", "error", "after", "histogram"} /\ got[i].line \in 0..reader.pos

\* The lines that results of these kinds are of, and that they come in the log's order.
LinesOf(kinds) == {got[i].line : i \in {k \in 1..Len(got) : got[k].kind \in kinds}}
InOrder(kinds) ==
  \A i \in 1..Len(got) : \A k \in 1..(i - 1) :
    {got[k].kind, got[i].kind} \subseteq kinds => got[k].line < got[i].line

\* Every call so far was made with range r.
OnlyRange(r) == (\A i \in 1..Len(got) : got[i].range = r) /\ (call.active => call.range = r)

\* The range of NextIntervalHistogram; math.MaxFloat64 is later than any sum of times.
WholeLog == [lo |-> 0, hi |-> 8 * MaxInt64, absolute |-> TRUE]

\* A program that reads a log from its start with NextIntervalHistogram gets every
\* interval exactly once and in the order written, whatever lies between them,
\* however the calls interleave with the writers, and when it goes on after an error:
\* the lines it got a histogram or an error for are those it has consumed.  A last
\* interval without its newline is returned, one with a cut payload is reported
\* (log_reader.go:100: "so the last interval is not silently dropped").  That leaves
\* out the torn lines, of which a failed read has dropped the beginning, or which a
\* writer has printed in two parts or behind a cut line: an interval there may be
\* lost.  There are none if no read fails and no write stops inside a line.
NothingLost ==
  LET Legible(l) == l.len >= 0 /\ l.cut # "head" /\ (l.shown \/ l.tag = EdgeTag)
      Due(l)     == l.kind \in {"badStart", "badBase"} \/ (l.kind = "interval" /\ Legible(l))
      Whole(l)   == Due(l) /\ l.kind = "interval" /\ l.tag # EdgeTag /\ l.cut # "payload"
  IN  /\ TypeOK
      /\ torn # {} => MaxCut > 0 \/ \E i \in 1..Len(got) : got[i].kind = "failed"
      /\ OnlyRange(WholeLog) =>
           /\ InOrder({"histogram", "error"})
           /\ LinesOf({"histogram", "error"}) \ torn = {n \in (1..reader.pos) \ torn : Due(log[n])}
           /\ LinesOf({"histogram"}) \ torn = {n \in (1..reader.pos) \ torn : Whole(log[n])}

\* Every histogram is returned with the tag it was logged with, and without one if
\* it had none (log_writer.go:46: "the [optional] tag associated with the
\* histogram").  Of a torn line it is the tag that is left.  The exception is the tag
\* of a line that the same call has passed over: the reader's variable keeps it for
\* an interval without a tag.
TagsReturn ==
  \A i \in 1..Len(got) : got[i].kind = "histogram" =>
    LET own == log[got[i].line].tag
        passed == {j \in 1..(got[i].line - 1) : \A k \in 1..(i - 1) : got[k].line < j}
    IN  \/ got[i].tag = own
        \/ own = NoTag /\ \E j \in passed : log[j].kind = "interval" /\ log[j].tag = got[i].tag

\* RangeObservedMax and RangeObservedMin are the extremes of the histograms
\* returned so far.
ExtremesObserved ==
  LET lines == LinesOf({"histogram"})
  IN  IF lines = {} THEN reader.max = -(MaxInt64 + 1) /\ reader.min = MaxInt64
      ELSE /\ \E i \in lines : log[i].src.max = reader.max
           /\ \E i \in lines : log[i].src.min = reader.min
           /\ \A i \in lines : reader.min <= log[i].src.min /\ log[i].src.max <= reader.max

\* Among the first m lines, those of these kinds.
Numbers(m, kinds) == {i \in 1..m : log[i].kind \in kinds}

\* The three ways to keep times in the first m lines of a log.  Absolute: the base
\* time is zero, and no StartTime is more than a year after an interval.  Relative to
\* the last BaseTime line.  Relative to a StartTime line at the top, with the
\* intervals more than a year before it if taken as absolute.
AbsoluteLog(m) ==
  /\ Numbers(m, {"base"}) = {}
  /\ \A i \in Numbers(m, {"interval"}) :
       log[i].base = 0 /\ \A j \in Numbers(m, {"start"}) : log[j].sec * K - Year <= log[i].at
BasedLog(m) ==
  \A i \in Numbers(m, {"interval"}) : \E j \in Numbers(m, {"base"}) :
    j < i /\ log[j].sec = log[i].base \div K /\ \A k \in Numbers(m, {"base"}) : k > i \/ k <= j
StartedLog(m) ==
  /\ Numbers(m, {"base"}) = {} /\ Numbers(m, {"start"}) = {1}
  /\ \A i \in Numbers(m, {"interval"}) :
       log[i].base \div K = log[1].sec /\ log[i].at < log[1].sec * K - Year

Clean(m) ==
  /\ torn \intersect (1..m) = {} /\ Numbers(m, {"badStart", "badBase"}) = {}
  /\ \A i \in Numbers(m, {"interval"}) : log[i].at >= 0

Conventional(m) == Clean(m) /\ (AbsoluteLog(m) \/ BasedLog(m) \/ StartedLog(m))

\* The base times are whole seconds, which is what headers keep of them.
WholeSecondBases(m) == \A i \in Numbers(m, {"interval"}) : log[i].base % K = 0

\* A histogram comes back with its times if they are those it was written with, to
\* the millisecond, of which the conversion from seconds may lose one.
TimesKept(result) ==
  LET src == log[result.line].src
  IN  result.start \in {src.start - 1, src.start} /\ result.end \in {src.end - 1, src.end}

\* If the lines that the reader has consumed keep to one of the conventions, with base
\* times in whole seconds, every histogram comes back with the start and end times it
\* was written with, however StartTime and BaseTime lines are mixed with the
\* intervals and whatever follows.
TimesReturn ==
  Conventional(reader.pos) /\ WholeSecondBases(reader.pos) =>
    \A i \in 1..Len(got) : got[i].kind = "histogram" => TimesKept(got[i])

\* The same for every base time: log_writer.go:136 has it in the log "as seconds since
\* epoch with up to 3 decimal places" (log_writer.go:122 says so of the start time).
DecimalsReturn ==
  Conventional(reader.pos) =>
    \A i \in 1..Len(got) : got[i].kind = "histogram" => TimesKept(got[i])

\* A program that keeps to one absolute range gets exactly the intervals that begin
\* in it, also when intervals before and after the range are mixed, of a log with the
\* times as in TimesReturn.
RangeComplete ==
  \A r \in Ranges :
    r.absolute /\ OnlyRange(r) /\ Conventional(reader.pos) /\ WholeSecondBases(reader.pos) =>
      /\ InOrder({"histogram"})
      /\ LinesOf({"histogram"}) =
           {n \in 1..reader.pos :
              LET l == log[n]
              IN  /\ l.kind = "interval" /\ l.len >= 0 /\ l.shown
                  /\ l.tag # EdgeTag /\ l.cut \in {"none", "newline"}
                  /\ l.src.start \in r.lo..r.hi}

\* Every call of the reader returns, whatever the lines before it and however the
\* last one was cut, once the writer pauses (MaxLines).
CallsReturn == call.active ~> ~call.active
=============================================================================
