------------------------- MODULE IntervalLogProofs --------------------------
(***************************************************************************)
(* What a reader of an interval log gets, for every log, every reader and  *)
(* every interleaving of the two: the lines it gets a result for           *)
(* (NothingLost, RangeComplete), the tags and times of the histograms      *)
(* (TagsReturn, TimesReturn) and the extremes it has observed              *)
(* (ExtremesObserved).                                                     *)
(*                                                                         *)
(* The inductive invariant has one part per property, besides the types.   *)
(* OrderInv: results come in the order of the log.  KindInv: a line earns  *)
(* its result.  CompleteInv and RangeInv: a line that the reader has       *)
(* passed and that deserves a result has one.  TagInv: where the reader's  *)
(* tag comes from.  TornInv: what has torn a line, and that the others     *)
(* have the time they were written with.  KnowsInv: what a reader of lines *)
(* that keep to one of the conventions knows of the start and base time,   *)
(* which makes the time it computes the start of the interval.             *)
(***************************************************************************)
EXTENDS IntervalLog, TLAPS

-----------------------------------------------------------------------------
(* Types.                                                                   *)

Tags == {NoTag, EdgeTag, PartTag} \union {h.tag : h \in Histograms}
AnyRange == [lo : Int, hi : Int, absolute : BOOLEAN]
Time == 0..(2 * MaxInt64 + 1)

Others == [kind : {"other", "badStart", "badBase"}]
Headers == {l \in [kind : {"start", "base"}, sec : Nat] : l.sec * K <= MaxInt64}
IntervalLines ==
  {l \in [kind : {"interval"}, tag : Tags, at : -(2 * MaxInt64 + 1)..(2 * MaxInt64 + 1), len : Int,
          shown : BOOLEAN, cut : {"none", "newline", "payload", "head"},
          src : [tag : Tags, start : Int64, end : Int64, max : Int64, min : Int64],
          base : 0..MaxInt64] :
     l.len = l.src.end - l.src.start}
Lines == Others \union Headers \union IntervalLines

Readers == [startTime : Time, observedStart : BOOLEAN, baseTime : Time, observedBase : BOOLEAN,
            max : Int64, min : Int64, pos : Nat]
ResultKinds == {"end", "failed", "error", "after", "histogram"}
Result == [kind : ResultKinds, line : Nat, tag : Tags, start : Int, end : Int, range : AnyRange]

TypeInv ==
  /\ baseTime \in 0..MaxInt64 /\ partial \in Lines \union {NoLine}
  /\ log \in Seq(Lines) /\ Len(log) <= MaxLines /\ torn \subseteq 1..Len(log)
  /\ partial # NoLine => Len(log) >= 1
  /\ reader \in Readers
  /\ reader.pos <= Len(log)
  /\ call \in [active : BOOLEAN, range : AnyRange, tag : Tags]
  /\ got \in Seq(Result)

-----------------------------------------------------------------------------
(* The parts of the invariant.                                              *)

OrderInv ==
  \A i \in 1..Len(got) :
    /\ got[i].line <= reader.pos
    /\ got[i].kind \in {"error", "after", "histogram"} <=> got[i].line >= 1
    /\ \A k \in 1..(i - 1) : got[i].line = 0 \/ got[k].line < got[i].line

\* The lines that deserve a result, and those that deserve a histogram.
DueLine(l)   == l.kind \in {"badStart", "badBase"} \/ (l.kind = "interval" /\ IsInterval(l))
WholeLine(l) == l.kind = "interval" /\ IsInterval(l) /\ l.tag # EdgeTag /\ l.cut # "payload"

KindInv ==
  \A i \in 1..Len(got) :
    /\ got[i].kind = "histogram" => WholeLine(log[got[i].line])
    /\ got[i].kind = "error" => DueLine(log[got[i].line]) /\ ~WholeLine(log[got[i].line])

\* The results g have one of this kind for line n.
Answered(g, n, kind) == \E i \in 1..Len(g) : g[i].line = n /\ g[i].kind = kind

CompleteInv ==
  OnlyRange(WholeLog) =>
    \A n \in 1..reader.pos :
      DueLine(log[n]) => Answered(got, n, IF WholeLine(log[n]) THEN "histogram" ELSE "error")

\* The tag the reader holds is that of a line it passed after its last answer.
TagHeld ==
  \/ call.tag = NoTag
  \/ \E j \in 1..reader.pos : /\ \A k \in 1..Len(got) : got[k].line < j
                              /\ log[j].kind = "interval" /\ log[j].tag = call.tag
TagInv == TagHeld /\ TagsReturn

\* What has torn the lines that are, and that the others keep the time written.
AsWritten(l) == l.kind = "interval" => l.at = l.src.start - l.base
TornInv ==
  /\ partial # NoLine => MaxCut > 0 /\ AsWritten(partial)
  /\ torn # {} => MaxCut > 0 \/ \E i \in 1..Len(got) : got[i].kind = "failed"
  /\ \A n \in 1..Len(log) : n \notin torn => AsWritten(log[n])

\* What the reader knows of the times, by convention.
KnowsAbsolute ==
  /\ reader.observedBase => reader.baseTime = 0
  /\ ~reader.observedBase /\ reader.observedStart =>
       \E j \in Numbers(reader.pos, {"start"}) : reader.startTime = log[j].sec * K
KnowsBase ==
  \A j \in Numbers(reader.pos, {"base"}) :
    (\A k \in Numbers(reader.pos, {"base"}) : k <= j) =>
      reader.observedBase /\ reader.baseTime = log[j].sec * K
KnowsStart ==
  reader.pos >= 1 =>
    /\ reader.observedStart /\ reader.startTime = log[1].sec * K
    /\ reader.observedBase => reader.baseTime = reader.startTime
KnowsInv ==
  /\ reader.pos = 0 => ~reader.observedBase
  /\ Clean(reader.pos) /\ AbsoluteLog(reader.pos) => KnowsAbsolute
  /\ Clean(reader.pos) /\ BasedLog(reader.pos) => KnowsBase
  /\ Clean(reader.pos) /\ StartedLog(reader.pos) => KnowsStart

\* The lines that the reader has consumed keep the times.
Kept(m) == Conventional(m) /\ WholeSecondBases(m)

\* The interval begins in the range.
Begins(r, l) == l.src.start \in r.lo..r.hi

RangeInv ==
  \A r \in Ranges :
    r.absolute /\ Kept(reader.pos) /\ OnlyRange(r) =>
      /\ \A n \in 1..reader.pos :
           WholeLine(log[n]) /\ Begins(r, log[n]) => Answered(got, n, "histogram")
      /\ \A i \in 1..Len(got) : got[i].kind = "histogram" => Begins(r, log[got[i].line])

-----------------------------------------------------------------------------
(* Lines and results.                                                       *)

\* What Append does to a sequence.
LEMMA AppendFacts ==
  ASSUME NEW S, NEW s \in Seq(S), NEW e \in S
  PROVE  /\ Append(s, e) \in Seq(S) /\ Len(Append(s, e)) = Len(s) + 1
         /\ \A i \in 1..Len(s) : Append(s, e)[i] = s[i]
         /\ Append(s, e)[Len(s) + 1] = e
OBVIOUS

\* The kind of a line says what fields it has.
LEMMA LineKinds ==
  ASSUME NEW l \in Lines
  PROVE  /\ l.kind \in {"other", "badStart", "badBase", "start", "base", "interval"}
         /\ l.kind \in {"start", "base"} => l \in Headers
         /\ l.kind = "interval" => l \in IntervalLines
BY DEF Lines, Others, Headers, IntervalLines

\* The fields of a header are bounded by an int64, those of an interval by two.
LEMMA LineTypes ==
  ASSUME NEW l \in Lines
  PROVE  /\ l.kind \in {"start", "base"} => l.sec \in Nat /\ l.sec * K \in Time /\ l.sec * K \in Int
         /\ l.kind = "interval" =>
              /\ l.tag \in Tags /\ l.at \in Int /\ l.len \in Int /\ l.shown \in BOOLEAN
              /\ l.cut \in {"none", "newline", "payload", "head"}
              /\ l.src.start \in Int64 /\ l.src.max \in Int64 /\ l.src.min \in Int64
              /\ l.src.end \in Int64 /\ l.len = l.src.end - l.src.start
              /\ l.base \in 0..MaxInt64
              /\ l.at <= 2 * MaxInt64 + 1 /\ -l.at <= 2 * MaxInt64 + 1
<1>1. CASE l.kind \in {"start", "base"}
  <2>1. l \in Headers BY <1>1, LineKinds
  <2>2. l.sec \in Nat /\ l.sec * K <= MaxInt64 BY <2>1 DEF Headers
  <2>3. l.sec * K \in Nat BY <2>2, LogAssumption
  <2> QED BY <1>1, <2>2, <2>3, LogAssumption DEF Time
<1>2. CASE l.kind = "interval"
  <2>1. l \in IntervalLines BY <1>2, LineKinds
  <2> QED BY <1>2, <2>1, LogAssumption DEF IntervalLines, Int64
<1> QED BY <1>1, <1>2

\* What a division by K leaves.
LEMMA Seconds ==
  ASSUME NEW t \in Nat
  PROVE  /\ t \div K \in Nat /\ t % K \in 0..(K - 1)
         /\ (t \div K) * K = t - (t % K) /\ (t \div K) * K <= t
<1>1. \A m \in Nat \ {0} :
        /\ t % m \in 0..(m - 1) /\ t \div m \in Int
        /\ t = m * (t \div m) + (t % m)
  OBVIOUS
<1> DEFINE q == t \div K
<1> DEFINE r == t % K
<1>2. K \in Nat \ {0} BY LogAssumption
<1>3. r \in 0..(K - 1) /\ q \in Int /\ t = K * q + r BY <1>1, <1>2
<1> HIDE DEF q, r
<1>4. K * q = q * K BY <1>2, <1>3
<1>5. q >= 0
  <2> SUFFICES ASSUME q <= -1 PROVE FALSE BY <1>3
  <2>1. K * q <= K * (-1) BY <1>2, <1>3
  <2> QED BY <1>2, <1>3, <2>1
<1>6. q * K \in Int BY <1>2, <1>3
<1>7. q \in Nat /\ q * K = t - r /\ q * K <= t BY <1>2, <1>3, <1>4, <1>5, <1>6
<1> QED BY <1>3, <1>7 DEF q, r

\* The line under the reader is a line.
LEMMA LineIn ==
  ASSUME TypeInv, reader.pos < Len(log)
  PROVE  Line \in Lines /\ reader.pos + 1 \in 1..Len(log)
BY DEF TypeInv, Line, Readers

\* The writer's lines are lines, as written.
LEMMA WrittenLines ==
  ASSUME TypeInv
  PROVE  /\ \A t \in BaseTimes \union StartTimes, k \in {"start", "base"} :
              [kind |-> k, sec |-> WholeSeconds(t)] \in Lines
         /\ \A h \in Histograms, o \in Options :
              IntervalLine(h, o) \in Lines /\ AsWritten(IntervalLine(h, o))
         /\ ForeignLines \subseteq Lines
         /\ \A l \in Headers \union Others : AsWritten(l)
<1>1. ASSUME NEW t \in BaseTimes \union StartTimes, NEW k \in {"start", "base"}
      PROVE  [kind |-> k, sec |-> WholeSeconds(t)] \in Lines
  <2>1. t \in 0..MaxInt64 /\ t \in Nat BY WriterAssumption, LogAssumption
  <2>2. t \div K \in Nat /\ (t \div K) * K <= t BY <2>1, Seconds
  <2>3. (t \div K) * K \in Int BY <2>2, LogAssumption
  <2>4. (t \div K) * K <= MaxInt64 BY <2>1, <2>2, <2>3, LogAssumption
  <2> QED BY <2>2, <2>4 DEF Lines, Headers, WholeSeconds
<1>2. ASSUME NEW h \in Histograms, NEW o \in Options
      PROVE  IntervalLine(h, o) \in IntervalLines /\ AsWritten(IntervalLine(h, o))
  <2> DEFINE start == IF o.start # 0 THEN o.start ELSE h.start
  <2> DEFINE end   == IF o.end # 0 THEN o.end ELSE h.end
  <2>1. /\ h \in [tag : Tags, start : Int64, end : Int64, max : Int64, min : Int64]
        /\ o.start \in Int64 /\ o.end \in Int64 /\ o.ratio \in Int
    BY WriterAssumption DEF Tags
  <2>2. start \in Int64 /\ end \in Int64 BY <2>1
  <2>3. Int64 \subseteq Int BY LogAssumption DEF Int64
  <2>4. baseTime \in 0..MaxInt64 /\ baseTime \in Int BY LogAssumption DEF TypeInv
  <2> DEFINE src == [h EXCEPT !.start = start, !.end = end]
  <2> DEFINE shown == o.ratio # 0
  <2> DEFINE at == start - baseTime
  <2> DEFINE len == end - start
  <2>5. IntervalLine(h, o) =
          [kind |-> "interval", tag |-> h.tag, at |-> at, len |-> len, shown |-> shown,
           cut |-> "none", src |-> src, base |-> baseTime]
    BY DEF IntervalLine
  <2> HIDE DEF start, end
  <2>7. /\ src \in [tag : Tags, start : Int64, end : Int64, max : Int64, min : Int64]
        /\ src.start = start /\ src.end = end
    BY <2>1, <2>2
  <2>8. /\ at \in -(2 * MaxInt64 + 1)..(2 * MaxInt64 + 1) /\ len \in Int /\ shown \in BOOLEAN
        /\ at = start - baseTime /\ len = end - start /\ h.tag \in Tags
    BY <2>1, <2>2, <2>3, <2>4, LogAssumption DEF Int64
  <2> HIDE DEF src, shown, at, len
  <2>6. IntervalLine(h, o) \in IntervalLines BY <2>4, <2>5, <2>7, <2>8 DEF IntervalLines
  <2>9. AsWritten(IntervalLine(h, o)) BY <2>5, <2>7, <2>8 DEF AsWritten
  <2> QED BY <2>6, <2>9
<1>3. ForeignLines \subseteq Lines BY WriterAssumption DEF Lines, Others
<1>4. \A l \in Headers \union Others : AsWritten(l) BY DEF AsWritten, Headers, Others
<1> QED BY <1>1, <1>2, <1>3, <1>4 DEF Lines

\* An interval line with another tag, timestamp or cut is one, and as written if the
\* timestamp stays.
LEMMA ChangedLine ==
  ASSUME NEW l \in IntervalLines, NEW t \in Tags,
         NEW a \in Int, a \in 0..MaxInt64 \/ a = l.at,
         NEW c \in {"none", "newline", "payload", "head"}
  PROVE  /\ [l EXCEPT !.cut = c] \in IntervalLines
         /\ [l EXCEPT !.tag = t] \in IntervalLines
         /\ [l EXCEPT !.at = a] \in IntervalLines
         /\ [l EXCEPT !.cut = c, !.tag = t] \in IntervalLines
         /\ [l EXCEPT !.tag = t, !.at = a] \in IntervalLines
         /\ AsWritten(l) => AsWritten([l EXCEPT !.cut = c])
<1> DEFINE ats == -(2 * MaxInt64 + 1)..(2 * MaxInt64 + 1)
<1>1. /\ l \in [kind : {"interval"}, tag : Tags, at : ats, len : Int,
                shown : BOOLEAN, cut : {"none", "newline", "payload", "head"},
                src : [tag : Tags, start : Int64, end : Int64, max : Int64, min : Int64],
                base : 0..MaxInt64]
      /\ l.len = l.src.end - l.src.start
  BY DEF IntervalLines
<1>2. a \in ats BY <1>1, LogAssumption
<1>3. \A m \in ats, u \in Tags, d \in {"none", "newline", "payload", "head"} :
        [l EXCEPT !.cut = d, !.tag = u, !.at = m] \in IntervalLines
  <2> HIDE DEF ats
  <2> QED BY <1>1 DEF IntervalLines, ats
<1>4. /\ [l EXCEPT !.cut = c] = [l EXCEPT !.cut = c, !.tag = l.tag, !.at = l.at]
      /\ [l EXCEPT !.tag = t] = [l EXCEPT !.cut = l.cut, !.tag = t, !.at = l.at]
      /\ [l EXCEPT !.at = a] = [l EXCEPT !.cut = l.cut, !.tag = l.tag, !.at = a]
      /\ [l EXCEPT !.cut = c, !.tag = t] = [l EXCEPT !.cut = c, !.tag = t, !.at = l.at]
      /\ [l EXCEPT !.tag = t, !.at = a] = [l EXCEPT !.cut = l.cut, !.tag = t, !.at = a]
  <2> HIDE DEF ats
  <2> QED BY <1>1
<1>5. l.tag \in Tags /\ l.at \in ats /\ l.cut \in {"none", "newline", "payload", "head"} BY <1>1
<1>6. AsWritten(l) => AsWritten([l EXCEPT !.cut = c]) BY <1>1 DEF AsWritten
<1> HIDE DEF ats
<1>7. /\ [l EXCEPT !.cut = c, !.tag = l.tag, !.at = l.at] \in IntervalLines
      /\ [l EXCEPT !.cut = l.cut, !.tag = t, !.at = l.at] \in IntervalLines
      /\ [l EXCEPT !.cut = l.cut, !.tag = l.tag, !.at = a] \in IntervalLines
      /\ [l EXCEPT !.cut = c, !.tag = t, !.at = l.at] \in IntervalLines
      /\ [l EXCEPT !.cut = l.cut, !.tag = t, !.at = a] \in IntervalLines
  BY <1>2, <1>3, <1>5, Zenon
<1> QED BY <1>4, <1>6, <1>7, Zenon

\* A piece of a number is a timestamp and makes a header.
LEMMA FragmentFacts ==
  ASSUME NEW f \in Fragments
  PROVE  f \in Int /\ f \in 0..MaxInt64 /\ \A kind : Header(kind, f) \in Headers
<1>1. f \in Nat /\ f * K <= MaxInt64 BY WriterAssumption
<1>2. \A k \in Nat \ {0, 1} : f * k \in Nat /\ f <= f * k
  <2> SUFFICES ASSUME NEW k \in Nat \ {0, 1} PROVE f * k \in Nat /\ f <= f * k OBVIOUS
  <2>1. f * (k - 1) \in Nat /\ f * k = f * (k - 1) + f BY <1>1
  <2> QED BY <1>1, <2>1
<1>3. f <= MaxInt64 BY <1>1, <1>2, LogAssumption
<1> QED BY <1>1, <1>3, LogAssumption DEF Header, Headers

\* What a line begins with and what it ends with are lines.
LEMMA PartsOfLines ==
  ASSUME NEW l \in Lines
  PROVE  /\ \A h \in Heads(l) : h \in Lines /\ (AsWritten(l) => AsWritten(h))
         /\ Rests(l) \subseteq Lines
<1>1. Other \in Others /\ \A kind : BadHeader(kind) \in Others BY DEF Other, BadHeader, Others
<1>2. \A f \in Fragments : f \in Int /\ f \in 0..MaxInt64 /\ \A kind : Header(kind, f) \in Headers
  BY FragmentFacts
<1>3. \A h \in Headers \union Others : h \in Lines /\ AsWritten(h)
  BY DEF Lines, AsWritten, Headers, Others
<1>4. CASE l.kind = "interval"
  <2>1. l \in IntervalLines BY <1>4, LineKinds
  <2>2. l.at \in Int /\ NoTag \in Tags /\ EdgeTag \in Tags /\ 0 \in Int /\ 0 \in 0..MaxInt64
    BY <2>1, LogAssumption DEF IntervalLines, Tags
  <2>3. ASSUME NEW h \in Heads(l) PROVE h \in Lines /\ (AsWritten(l) => AsWritten(h))
    <3>1. PICK c \in {"newline", "payload", "head"} : h = [l EXCEPT !.cut = c]
      BY <1>4, <2>3 DEF Heads
    <3> QED BY <2>1, <2>2, <3>1, ChangedLine DEF Lines
  <2>4. ASSUME NEW r \in Rests(l) PROVE r \in Lines
    <3>1. \/ r = Other \/ r = [l EXCEPT !.tag = EdgeTag]
          \/ \E t \in {l.at} \union Fragments : r = [l EXCEPT !.tag = NoTag, !.at = t]
      BY <2>4 DEF Rests
    <3>2. [l EXCEPT !.tag = EdgeTag] \in IntervalLines BY <2>1, <2>2, ChangedLine
    <3>3. ASSUME NEW t \in {l.at} \union Fragments
          PROVE  [l EXCEPT !.tag = NoTag, !.at = t] \in IntervalLines
      <4>1. t \in Int /\ (t \in 0..MaxInt64 \/ t = l.at) BY <1>2, <2>2
      <4> QED BY <2>1, <2>2, <4>1, ChangedLine
    <3> QED BY <1>1, <1>3, <3>1, <3>2, <3>3, Zenon DEF Lines
  <2> QED BY <2>3, <2>4
<1>5. CASE l.kind # "interval"
  <2>1. Rests(l) = {Other} BY <1>5 DEF Rests
  <2>2. l \in Headers \union Others BY <1>5 DEF Lines, IntervalLines
  <2>3. ASSUME NEW h \in Heads(l) PROVE h \in Headers \union Others
    <3>1. h = l \/ h = Other \/ h = BadHeader(l.kind) \/ \E f \in Fragments : h = Header(l.kind, f)
      BY <1>5, <2>3 DEF Heads
    <3> QED BY <1>1, <1>2, <2>2, <3>1
  <2> QED BY <1>1, <1>3, <2>1, <2>3
<1> QED BY <1>4, <1>5

\* What two lines make together is a line.
LEMMA JoinedLines ==
  ASSUME NEW c \in Lines, NEW l \in Lines
  PROVE  Tails(c, l) \subseteq Lines /\ Joins(c, l) \subseteq Lines
<1>1. Other \in Others /\ \A kind : BadHeader(kind) \in Others BY DEF Other, BadHeader, Others
<1>2. \A f \in Fragments : f \in Int /\ f \in 0..MaxInt64 /\ \A kind : Header(kind, f) \in Headers
  BY FragmentFacts
<1>3. Headers \subseteq Lines /\ Others \subseteq Lines /\ IntervalLines \subseteq Lines BY DEF Lines
<1>4. NoTag \in Tags /\ EdgeTag \in Tags /\ PartTag \in Tags BY DEF Tags
<1>5. Tails(c, l) \subseteq Lines BY <1>1, <1>3, PartsOfLines DEF Tails
<1>6. ASSUME NEW h \in IntervalLines
      PROVE  /\ [h EXCEPT !.cut = "payload"] \in Lines
             /\ \A t \in Tags : [h EXCEPT !.cut = "head", !.tag = t] \in Lines
             /\ \A t \in Tags : [h EXCEPT !.tag = t] \in Lines
             /\ \A a \in {h.at} \union Fragments : [h EXCEPT !.at = a] \in Lines
             /\ \A t \in Tags, a \in {h.at} \union Fragments : [h EXCEPT !.tag = t, !.at = a] \in Lines
             /\ Shifted(h) \in Lines
  <2>1. h.at \in Int BY LogAssumption DEF IntervalLines
  <2>2. \A a \in {h.at} \union Fragments : a \in Int /\ (a \in 0..MaxInt64 \/ a = h.at) BY <1>2, <2>1
  <2> QED BY <1>3, <1>4, <2>1, <2>2, ChangedLine DEF Shifted
<1>7. ASSUME NEW j \in JoinedHead(c) PROVE j \in Lines
  <2>1. CASE c.kind = "interval"
    <3>1. c \in IntervalLines /\ c.tag \in Tags BY <2>1, LineKinds, LineTypes
    <3>2. \/ j = Other \/ j = [c EXCEPT !.cut = "payload"]
          \/ \E t \in {NoTag, c.tag, PartTag} : j = [c EXCEPT !.cut = "head", !.tag = t]
      BY <1>7, <2>1 DEF JoinedHead
    <3>3. \A t \in {NoTag, c.tag, PartTag} : t \in Tags BY <1>4, <3>1
    <3> QED BY <1>1, <1>3, <1>6, <3>1, <3>2, <3>3, Zenon
  <2>2. CASE c.kind # "interval"
    <3>1. j = c \/ j = Other \/ j = BadHeader(c.kind) \/ \E f \in Fragments : j = Header(c.kind, f)
      BY <1>7, <2>2 DEF JoinedHead
    <3> QED BY <1>1, <1>2, <1>3, <3>1
  <2> QED BY <2>1, <2>2
<1>8. ASSUME NEW j \in JoinedLine(c, l) PROVE j \in Lines
  <2>1. CASE l.kind = "interval"
    <3>1. l \in IntervalLines BY <2>1, LineKinds
    <3>2. c.kind = "interval" => c.tag \in Tags BY LineTypes
    <3>3. /\ Shifted(l) \in Lines /\ [l EXCEPT !.tag = PartTag] \in Lines
          /\ \A a \in {l.at} \union Fragments : [l EXCEPT !.at = a] \in Lines
          /\ \A t \in Tags, a \in {l.at} \union Fragments : [l EXCEPT !.tag = t, !.at = a] \in Lines
      BY <1>4, <1>6, <3>1, Zenon
    <3>4. CASE c.kind = "interval" /\ l.tag = NoTag
      <4>1. j \in UNION {{[l EXCEPT !.tag = t, !.at = a] : a \in {l.at} \union Fragments} :
                           t \in {NoTag, c.tag}}
        BY <1>8, <2>1, <3>4 DEF JoinedLine
      <4>2. PICK t \in {NoTag, c.tag}, a \in {l.at} \union Fragments : j = [l EXCEPT !.tag = t, !.at = a]
        BY <4>1, Zenon
      <4>3. t \in Tags BY <1>4, <3>2, <3>4
      <4> QED BY <3>3, <4>2, <4>3, Zenon
    <3>5. CASE c.kind = "interval" /\ l.tag # NoTag
      <4>1. j = Shifted(l) \/ j \in {[l EXCEPT !.tag = t] : t \in IF c.tag = NoTag THEN {} ELSE {PartTag}}
        BY <1>8, <2>1, <3>5 DEF JoinedLine
      <4>2. j = Shifted(l) \/ j = [l EXCEPT !.tag = PartTag] BY <4>1
      <4> QED BY <3>3, <4>2, Zenon
    <3>6. CASE c.kind = "other"
      <4>1. j = Shifted(l) \/ j \in {[l EXCEPT !.at = a] : a \in {f \in Fragments : l.tag = NoTag}}
        BY <1>8, <2>1, <3>6 DEF JoinedLine
      <4>2. j = Shifted(l) \/ \E a \in Fragments : j = [l EXCEPT !.at = a] BY <4>1, Zenon
      <4>3. \A a \in Fragments : a \in {l.at} \union Fragments OBVIOUS
      <4> QED BY <3>3, <4>2, <4>3, Zenon
    <3>7. CASE c.kind \notin {"interval", "other"} BY <1>8, <2>1, <3>7 DEF JoinedLine
    <3> QED BY <3>4, <3>5, <3>6, <3>7
  <2>2. CASE l.kind # "interval" BY <1>8, <2>2 DEF JoinedLine
  <2> QED BY <2>1, <2>2
<1>9. Joins(c, l) \subseteq Lines
  <2>1. CASE c.kind = "interval" /\ IsInterval(c)
    <3>1. c \in IntervalLines BY <2>1, LineKinds
    <3> QED BY <1>6, <2>1, <3>1 DEF Joins
  <2>2. CASE ~(c.kind = "interval" /\ IsInterval(c)) BY <1>7, <1>8, <2>2 DEF Joins
  <2> QED BY <2>1, <2>2
<1> QED BY <1>5, <1>9

-----------------------------------------------------------------------------
(* The times that the reader computes.                                      *)

\* At an interval: the timestamp, and the reader once start and base time are
\* settled.
LEMMA SettledFacts ==
  ASSUME TypeInv, reader.pos < Len(log), Line.kind = "interval"
  PROVE  /\ Timestamp \in Time
         /\ Settled \in Readers
         /\ Settled.pos = reader.pos + 1
         /\ Settled.max = reader.max /\ Settled.min = reader.min
         /\ Settled.observedStart /\ Settled.observedBase
         /\ Settled.startTime = IF reader.observedStart THEN reader.startTime ELSE Timestamp
         /\ Settled.baseTime = IF reader.observedBase THEN reader.baseTime
                               ELSE IF Timestamp < Settled.startTime - Year
                                      THEN Settled.startTime ELSE 0
<1>1. Timestamp \in Time BY LineIn, LineTypes, LogAssumption DEF Timestamp, Time
<1>2. reader \in Readers /\ reader.pos + 1 \in Nat BY DEF TypeInv, Readers
<1>3. 0 \in Time BY LogAssumption DEF Time
<1> QED BY <1>1, <1>2, <1>3 DEF Settled, Past, DeducedBase, Readers

\* The start of an interval lies in the range of NextIntervalHistogram.
LEMMA StartBounds ==
  ASSUME TypeInv, reader.pos < Len(log), Line.kind = "interval"
  PROVE  /\ AbsoluteStart \in 0..(8 * MaxInt64)
         /\ RangeTime \in Int
         /\ call.range.absolute => RangeTime = AbsoluteStart
<1>1. Timestamp \in Time /\ Settled.baseTime \in Time /\ Settled.startTime \in Time
  BY SettledFacts DEF Readers
<1> QED BY <1>1, LogAssumption DEF AbsoluteStart, RangeTime, Time

-----------------------------------------------------------------------------
(* The shapes of a step.                                                    *)

\* The reader stays, and so do the lines that it has consumed.
Stays ==
  /\ reader' = reader
  /\ log' \in Seq(Lines) /\ Len(log') \in Nat /\ Len(log') <= MaxLines /\ reader.pos <= Len(log')
  /\ torn' \subseteq 1..Len(log')
  /\ \A n \in 1..reader.pos : log'[n] = log[n] /\ (n \in torn' <=> n \in torn)
Writes == Stays /\ UNCHANGED <<call, got>>

Consumes ==
  /\ call.active /\ reader.pos < Len(log) /\ UNCHANGED <<log, torn>>
  /\ reader' \in Readers /\ reader'.pos = reader.pos + 1

KeepsExtremes == reader'.max = reader.max /\ reader'.min = reader.min

\* The call goes on to the next line, with tag t.
Passes(t) == Consumes /\ KeepsExtremes /\ got' = got /\ call' = [call EXCEPT !.tag = t]

Answers(kind, t) ==
  Consumes /\ \E s \in Int, e \in Int : Returns(kind, reader.pos + 1, t, s, e)

Quits ==
  /\ call.active /\ Stays
  /\ \E kind \in {"end", "failed"} : ReturnsNothing(kind, 0, call.tag)

\* The ways a line is passed over, and the ways it is answered.
PassesOver ==
  \/ Passes(call.tag) /\ ~DueLine(Line)
  \/ Passes(LineTag) /\ Line.kind = "interval" /\ ~DueLine(Line)
  \/ Passes(LineTag) /\ AtInterval /\ Before
AnswersError ==
  /\ KeepsExtremes /\ DueLine(Line) /\ ~WholeLine(Line)
  /\ \E t \in Tags : Answers("error", t)
AnswersAfter ==
  KeepsExtremes /\ AtInterval /\ RangeTime > call.range.hi /\ Answers("after", LineTag)
AnswersHistogram ==
  /\ InRange /\ WholeLine(Line) /\ reader' = Observed(Settled, Line.src) /\ Consumes
  /\ \E s \in Truncated(AbsoluteStart), e \in TruncatedSum(AbsoluteStart + Line.len) :
       s \in Int /\ e \in Int /\ Returns("histogram", reader.pos + 1, LineTag, s, e)

\* The lines that are not torn are as written.
UntornWritten == \A n \in 1..Len(log) : n \notin torn => AsWritten(log[n])

\* A line that the reader has not consumed is replaced, or one is added.
LEMMA ChangesLine ==
  ASSUME TypeInv, reader' = reader, NEW l \in Lines, NEW n \in 1..(Len(log) + 1), n > reader.pos,
         \/ n \in 1..Len(log) /\ log' = [log EXCEPT ![n] = l]
         \/ n = Len(log) + 1 /\ Len(log) < MaxLines /\ log' = Append(log, l),
         torn' = torn \/ torn' = torn \union {n}
  PROVE  /\ Stays /\ Len(log') \in {Len(log), Len(log) + 1} /\ n <= Len(log')
         /\ UntornWritten /\ (AsWritten(l) \/ n \in torn') => UntornWritten'
<1>1. /\ log \in Seq(Lines) /\ Len(log) \in Nat /\ Len(log) <= MaxLines /\ torn \subseteq 1..Len(log)
      /\ reader.pos \in Nat /\ reader.pos <= Len(log) /\ MaxLines \in Nat
  BY LogAssumption DEF TypeInv, Readers
<1>2. /\ log' \in Seq(Lines) /\ Len(log') \in {Len(log), Len(log) + 1} /\ n <= Len(log')
      /\ Len(log') <= MaxLines /\ log'[n] = l
      /\ \A k \in 1..Len(log') : k # n => k \in 1..Len(log) /\ log'[k] = log[k]
  <2>1. CASE n \in 1..Len(log) /\ log' = [log EXCEPT ![n] = l] BY <1>1, <2>1
  <2>2. CASE n = Len(log) + 1 /\ Len(log) < MaxLines /\ log' = Append(log, l)
    <3>1. /\ log' \in Seq(Lines) /\ Len(log') = Len(log) + 1
          /\ \A i \in 1..Len(log) : log'[i] = log[i]
          /\ log'[Len(log) + 1] = l
      BY <1>1, <2>2, AppendFacts
    <3>2. \A k \in 1..(Len(log) + 1) : k # Len(log) + 1 => k \in 1..Len(log) BY <1>1
    <3> QED BY <1>1, <2>2, <3>1, <3>2
  <2> QED BY <2>1, <2>2
<1>3. Len(log') \in Nat /\ Len(log) <= Len(log') /\ reader.pos <= Len(log') BY <1>1, <1>2
<1>4. torn' \subseteq 1..Len(log')
  <2>1. 1..Len(log) \subseteq 1..Len(log') /\ n \in 1..Len(log') BY <1>1, <1>2, <1>3
  <2> QED BY <1>1, <2>1
<1>5. \A k \in 1..reader.pos : k # n /\ k \in 1..Len(log') BY <1>1, <1>3
<1>6. Stays BY <1>2, <1>3, <1>4, <1>5 DEF Stays
<1>7. ASSUME UntornWritten, AsWritten(l) \/ n \in torn', NEW k \in 1..Len(log'), k \notin torn'
      PROVE  AsWritten(log'[k])
  <2>1. CASE k = n BY <1>2, <1>7, <2>1
  <2>2. CASE k # n BY <1>2, <1>7, <2>2 DEF UntornWritten
  <2> QED BY <2>1, <2>2
<1>8. UntornWritten /\ (AsWritten(l) \/ n \in torn') => UntornWritten'
  BY <1>7 DEF UntornWritten, AsWritten
<1> QED BY <1>2, <1>6, <1>8

\* The types of what a writer may change, and what TornInv says of it.
Printing ==
  /\ partial \in Lines \union {NoLine} /\ (partial # NoLine => Len(log) >= 1)
  /\ baseTime \in 0..MaxInt64

\* A line that is printed.
LEMMA WriteShape ==
  ASSUME TypeInv, NEW l \in Lines, Write(l), baseTime' = baseTime
  PROVE  Writes /\ Printing' /\ (AsWritten(l) /\ TornInv => TornInv')
<1>1. /\ reader' = reader /\ partial' = NoLine /\ UNCHANGED <<call, got>>
      /\ log \in Seq(Lines) /\ Len(log) \in Nat /\ reader.pos \in Nat /\ reader.pos <= Len(log)
  BY DEF Write, TypeInv, Readers
<1>2. Printing' BY <1>1 DEF TypeInv, Printing
<1>3. CASE partial # NoLine /\ reader.pos < Len(log)
  <2>1. Len(log) \in 1..Len(log) /\ Len(log) \in 1..(Len(log) + 1) BY <1>1, <1>3
  <2>2. log[Len(log)] \in Lines BY <1>1, <2>1
  <2>3. PICK j \in Joins(log[Len(log)], l) : log' = [log EXCEPT ![Len(log)] = j] BY <1>3 DEF Write
  <2>4. j \in Lines /\ torn' = torn \union {Len(log)} BY <1>3, <2>2, JoinedLines DEF Write
  <2>5. Stays /\ (UntornWritten => UntornWritten') BY <1>1, <1>3, <2>1, <2>3, <2>4, ChangesLine
  <2>6. TornInv => TornInv' BY <1>1, <1>3, <2>5 DEF TornInv, UntornWritten
  <2> QED BY <1>1, <1>2, <2>5, <2>6 DEF Writes
<1>4. CASE ~(partial # NoLine /\ reader.pos < Len(log))
  <2>1. Room /\ log' = Append(log, l) /\ torn' = torn BY <1>4 DEF Write
  <2>2. Len(log) < MaxLines BY <1>1, <2>1, LogAssumption DEF Room
  <2>3. Len(log) + 1 \in 1..(Len(log) + 1) /\ Len(log) + 1 > reader.pos BY <1>1
  <2>4. Stays /\ (UntornWritten /\ AsWritten(l) => UntornWritten')
    BY <1>1, <2>1, <2>2, <2>3, ChangesLine
  <2>5. AsWritten(l) /\ TornInv => TornInv' BY <1>1, <2>1, <2>4 DEF TornInv, UntornWritten
  <2> QED BY <1>1, <1>2, <2>4, <2>5 DEF Writes
<1> QED BY <1>3, <1>4

\* A line that is cut.
LEMMA CutShape ==
  ASSUME TypeInv, NEW l \in Lines, NEW h \in Heads(l), CutOutput(l, h)
  PROVE  Writes /\ Printing' /\ (AsWritten(l) /\ TornInv => TornInv')
<1>1. /\ reader' = reader /\ UNCHANGED <<torn, call, got>> /\ partial' = l /\ log' = Append(log, h)
      /\ log \in Seq(Lines) /\ Len(log) \in Nat /\ reader.pos \in Nat /\ reader.pos <= Len(log)
  BY DEF CutOutput, TypeInv, Readers
<1>2. Len(log) < MaxLines /\ MaxCut > 0
  BY <1>1, LogAssumption DEF CutOutput, Room
<1>3. h \in Lines /\ (AsWritten(l) => AsWritten(h)) BY PartsOfLines
<1>4. Len(log) + 1 \in 1..(Len(log) + 1) /\ Len(log) + 1 > reader.pos BY <1>1
<1>5. /\ Stays /\ (UntornWritten /\ AsWritten(h) => UntornWritten')
      /\ Len(log) + 1 <= Len(log')
  BY <1>1, <1>2, <1>3, <1>4, ChangesLine
<1>6. Len(log') \in Nat BY <1>5 DEF Stays
<1>7. Len(log') >= 1 BY <1>1, <1>5, <1>6
<1>8. baseTime' \in 0..MaxInt64 BY LogAssumption DEF CutOutput, TypeInv
<1>9. Printing' BY <1>1, <1>7, <1>8 DEF Printing
<1>10. ASSUME AsWritten(l), TornInv PROVE TornInv'
  <2>1. AsWritten(partial)' BY <1>1, <1>10 DEF AsWritten
  <2>2. UntornWritten' BY <1>3, <1>5, <1>10 DEF TornInv, UntornWritten
  <2> QED BY <1>1, <1>2, <2>1, <2>2 DEF TornInv, UntornWritten
<1> QED BY <1>1, <1>5, <1>9, <1>10 DEF Writes

\* A line that goes on.
LEMMA ResumeShape ==
  ASSUME TypeInv, ResumeOutput
  PROVE  Writes /\ Printing' /\ (TornInv => TornInv')
<1>1. /\ reader' = reader /\ UNCHANGED <<baseTime, call, got>> /\ partial' = NoLine
      /\ log \in Seq(Lines) /\ Len(log) \in Nat /\ reader.pos \in Nat /\ reader.pos <= Len(log)
      /\ partial \in Lines /\ Len(log) >= 1
  BY DEF ResumeOutput, TypeInv, Readers
<1>2. Printing' BY <1>1 DEF TypeInv, Printing
<1>3. Len(log) \in 1..Len(log) /\ Len(log) \in 1..(Len(log) + 1) /\ log[Len(log)] \in Lines BY <1>1
<1>4. CASE reader.pos < Len(log)
  <2>1. PICK l \in IF Len(log) \in torn THEN Rests(partial) ELSE {partial} :
          log' = [log EXCEPT ![Len(log)] = l]
    BY <1>4 DEF ResumeOutput
  <2>2. l \in Lines /\ torn' = torn /\ (Len(log) \in torn \/ l = partial)
    BY <1>1, <1>4, PartsOfLines DEF ResumeOutput
  <2>3. Stays /\ (UntornWritten /\ (AsWritten(l) \/ Len(log) \in torn') => UntornWritten')
    BY <1>1, <1>3, <1>4, <2>1, <2>2, ChangesLine
  <2>4. TornInv => TornInv' BY <1>1, <2>2, <2>3 DEF TornInv, UntornWritten, ResumeOutput
  <2> QED BY <1>1, <1>2, <2>3, <2>4 DEF Writes
<1>5. CASE ~(reader.pos < Len(log))
  <2>1. PICK l \in Tails(log[Len(log)], partial) : log' = Append(log, l) BY <1>5 DEF ResumeOutput
  <2>2. l \in Lines /\ torn' = torn \union {Len(log) + 1}
    BY <1>1, <1>3, <1>5, JoinedLines DEF ResumeOutput
  <2>3. Len(log) < MaxLines BY <1>1, <1>5, LogAssumption DEF ResumeOutput, Room
  <2>4. Len(log) + 1 \in 1..(Len(log) + 1) /\ Len(log) + 1 > reader.pos BY <1>1
  <2>5. Stays /\ (UntornWritten => UntornWritten')
    BY <1>1, <2>1, <2>2, <2>3, <2>4, ChangesLine
  <2>6. TornInv => TornInv' BY <1>1, <2>5 DEF TornInv, UntornWritten, ResumeOutput
  <2> QED BY <1>1, <1>2, <2>5, <2>6 DEF Writes
<1> QED BY <1>4, <1>5

\* A step of the writer leaves the lines alone that the reader has consumed.
LEMMA WriterShape ==
  ASSUME TypeInv, WriterStep
  PROVE  Writes /\ Printing' /\ (TornInv => TornInv')
<1>1. /\ \A t \in BaseTimes \union StartTimes, k \in {"start", "base"} :
           [kind |-> k, sec |-> WholeSeconds(t)] \in Lines
      /\ \A h \in Histograms, o \in Options :
           IntervalLine(h, o) \in Lines /\ AsWritten(IntervalLine(h, o))
      /\ \A l \in ForeignLines : l \in Lines /\ AsWritten(l)
  <2>1. \A l \in ForeignLines : l \in Others BY WriterAssumption DEF Others
  <2> QED BY <2>1, WrittenLines
<1>2. \A t, k : k \in {"start", "base"} => AsWritten([kind |-> k, sec |-> t]) BY DEF AsWritten
<1>3. ASSUME NEW t \in BaseTimes, SetBaseTime(t) PROVE Writes /\ Printing' /\ (TornInv => TornInv')
  <2>1. UNCHANGED <<partial, log, torn, reader, call, got>> BY <1>3 DEF SetBaseTime
  <2>2. Writes BY <2>1 DEF Writes, Stays, TypeInv
  <2>3. Printing' BY <1>3, <2>1, WriterAssumption DEF SetBaseTime, Printing, TypeInv
  <2>4. TornInv => TornInv' BY <2>1 DEF TornInv, AsWritten
  <2> QED BY <2>2, <2>3, <2>4
<1>4. ASSUME NEW t \in BaseTimes, OutputBaseTime(t) PROVE Writes /\ Printing' /\ (TornInv => TornInv')
  BY <1>1, <1>2, <1>4, WriteShape DEF OutputBaseTime
<1>5. ASSUME NEW t \in StartTimes, OutputStartTime(t) PROVE Writes /\ Printing' /\ (TornInv => TornInv')
  BY <1>1, <1>2, <1>5, WriteShape DEF OutputStartTime
<1>6. ASSUME NEW l \in ForeignLines, OutputOther(l) PROVE Writes /\ Printing' /\ (TornInv => TornInv')
  BY <1>1, <1>6, WriteShape DEF OutputOther
<1>7. ASSUME NEW h \in Histograms, NEW o \in Options, OutputInterval(h, o)
      PROVE  Writes /\ Printing' /\ (TornInv => TornInv')
  BY <1>1, <1>7, WriteShape DEF OutputInterval
<1>8. ASSUME NEW l \in Printed, NEW h \in Heads(l), CutOutput(l, h)
      PROVE  Writes /\ Printing' /\ (TornInv => TornInv')
  <2>1. \/ \E t \in StartTimes : l = [kind |-> "start", sec |-> WholeSeconds(t)]
        \/ \E t \in BaseTimes : l = [kind |-> "base", sec |-> WholeSeconds(t)]
        \/ l \in ForeignLines \/ \E g \in Histograms, o \in Options : l = IntervalLine(g, o)
    BY WriterAssumption DEF Printed
  <2>2. l \in Lines /\ AsWritten(l) BY <1>1, <1>2, <2>1, Zenon
  <2> QED BY <1>8, <2>2, CutShape
<1> QED BY <1>3, <1>4, <1>5, <1>6, <1>7, <1>8, ResumeShape DEF WriterStep

\* The tag of an interval line, or the one held, is a tag.
LEMMA TagIn ==
  ASSUME TypeInv, reader.pos < Len(log), Line.kind = "interval"
  PROVE  LineTag \in Tags
BY LineIn, LineTypes DEF LineTag, TypeInv

\* Consuming a line changes nothing else.
LEMMA PastFacts ==
  ASSUME NEW r \in Readers
  PROVE  /\ Past(r) \in Readers /\ Past(r).pos = r.pos + 1
         /\ Past(r).max = r.max /\ Past(r).min = r.min
         /\ Past(r).startTime = r.startTime /\ Past(r).observedStart = r.observedStart
         /\ Past(r).baseTime = r.baseTime /\ Past(r).observedBase = r.observedBase
BY DEF Past, Readers

\* A line that is consumed by a call that returns nothing is answered.
LEMMA NothingAnswers ==
  ASSUME NEW kind, NEW t, Consumes, ReturnsNothing(kind, reader.pos + 1, t)
  PROVE  Answers(kind, t)
<1>1. Returns(kind, reader.pos + 1, t, 0, 0) /\ 0 \in Int BY DEF ReturnsNothing
<1> QED BY <1>1 DEF Answers

\* Only a read that fails changes the log, and what it has left is torn.
LEMMA ReaderKeeps ==
  ASSUME TypeInv, ReaderStep \/ ReadFails
  PROVE  /\ UNCHANGED <<baseTime, partial>> /\ Len(log') >= Len(log)
         /\ ReadEnd \/ ReadFails => Stays
         /\ UntornWritten => UntornWritten'
<1>1. log \in Seq(Lines) /\ Len(log) \in Nat /\ reader.pos \in Nat BY DEF TypeInv, Readers
<1>2. CASE ReaderStep
  <2>1. UNCHANGED <<baseTime, partial, log, torn>>
    BY <1>2 DEF ReaderStep, ReadEnd, ReadStartTime, ReadBaseTime, ReadBadHeader, ReadIgnored,
         ReadBadInterval, ReadBefore, ReadAfter, ReadCutPayload, ReadInterval
  <2>2. UntornWritten => UntornWritten' BY <2>1 DEF UntornWritten, AsWritten
  <2>3. ReadEnd \/ ReadFails => Stays BY <2>1 DEF ReadEnd, ReadFails, Stays, TypeInv
  <2> QED BY <1>1, <2>1, <2>2, <2>3
<1>3. CASE ReadFails
  <2>1. reader' = reader /\ UNCHANGED <<baseTime, partial>> BY <1>3 DEF ReadFails
  <2>2. CASE UNCHANGED <<log, torn>>
    <3>1. Stays BY <2>1, <2>2 DEF Stays, TypeInv
    <3>2. UntornWritten => UntornWritten' BY <2>2 DEF UntornWritten, AsWritten
    <3> QED BY <1>1, <2>1, <2>2, <3>1, <3>2
  <2>3. CASE /\ reader.pos < Len(log) /\ torn' = torn \union {reader.pos + 1}
             /\ \E l \in Rests(Line) : log' = [log EXCEPT ![reader.pos + 1] = l]
    <3>1. Line \in Lines /\ reader.pos + 1 \in 1..Len(log) BY <2>3, LineIn
    <3>2. PICK l \in Rests(Line) : log' = [log EXCEPT ![reader.pos + 1] = l] BY <2>3
    <3>3. l \in Lines BY <3>1, PartsOfLines
    <3>4. reader.pos + 1 \in 1..(Len(log) + 1) /\ reader.pos + 1 > reader.pos BY <1>1, <3>1
    <3>5. Stays /\ Len(log') \in {Len(log), Len(log) + 1} /\ (UntornWritten => UntornWritten')
      BY <2>1, <2>3, <3>1, <3>2, <3>3, <3>4, ChangesLine
    <3> QED BY <1>1, <2>1, <3>5
  <2> QED BY <1>3, <2>2, <2>3 DEF ReadFails
<1> QED BY <1>2, <1>3

\* A step of the reader has one of five shapes.
LEMMA ReaderShape ==
  ASSUME TypeInv, ReaderStep \/ ReadFails
  PROVE  Quits \/ PassesOver \/ AnswersError \/ AnswersAfter \/ AnswersHistogram
<1>1. /\ reader \in Readers /\ reader.pos \in Nat /\ call.tag \in Tags /\ 0 \in Time
      /\ call = [call EXCEPT !.tag = call.tag]
  BY LogAssumption DEF TypeInv, Readers, Time
<1>2. CASE ReadEnd BY <1>2, ReaderKeeps DEF ReadEnd, Quits
<1>3. CASE ReadFails BY <1>3, ReaderKeeps DEF ReadFails, Quits
<1>4. CASE ReadStartTime
  <2>1. reader.pos < Len(log) /\ call.active /\ Line.kind = "start" BY <1>4 DEF ReadStartTime, Reading
  <2>2. Line.sec * K \in Time BY <2>1, LineIn, LineTypes
  <2> DEFINE r == [reader EXCEPT !.startTime = Line.sec * K, !.observedStart = TRUE]
  <2>5. r \in Readers /\ r.pos = reader.pos /\ r.max = reader.max /\ r.min = reader.min
    BY <1>1, <2>2 DEF Readers
  <2>6. reader' = Past(r) BY <1>4 DEF ReadStartTime
  <2> HIDE DEF r
  <2>3. /\ reader' \in Readers /\ reader'.pos = reader.pos + 1
        /\ reader'.max = reader.max /\ reader'.min = reader.min
    BY <2>5, <2>6, PastFacts
  <2>4. ~DueLine(Line) BY <2>1 DEF DueLine
  <2> QED BY <1>1, <1>4, <2>1, <2>3, <2>4
        DEF ReadStartTime, PassesOver, Passes, Consumes, KeepsExtremes
<1>5. CASE ReadBaseTime
  <2>1. reader.pos < Len(log) /\ call.active /\ Line.kind = "base" BY <1>5 DEF ReadBaseTime, Reading
  <2>2. Line.sec * K \in Time BY <2>1, LineIn, LineTypes
  <2> DEFINE r == [reader EXCEPT !.baseTime = Line.sec * K, !.observedBase = TRUE]
  <2>5. r \in Readers /\ r.pos = reader.pos /\ r.max = reader.max /\ r.min = reader.min
    BY <1>1, <2>2 DEF Readers
  <2>6. reader' = Past(r) BY <1>5 DEF ReadBaseTime
  <2> HIDE DEF r
  <2>3. /\ reader' \in Readers /\ reader'.pos = reader.pos + 1
        /\ reader'.max = reader.max /\ reader'.min = reader.min
    BY <2>5, <2>6, PastFacts
  <2>4. ~DueLine(Line) BY <2>1 DEF DueLine
  <2> QED BY <1>1, <1>5, <2>1, <2>3, <2>4
        DEF ReadBaseTime, PassesOver, Passes, Consumes, KeepsExtremes
<1>6. CASE ReadBadHeader
  <2>1. reader.pos < Len(log) /\ call.active /\ Line.kind \in {"badStart", "badBase"}
    BY <1>6 DEF ReadBadHeader, Reading
  <2>2. /\ reader' \in Readers /\ reader'.pos = reader.pos + 1
        /\ reader'.max = reader.max /\ reader'.min = reader.min
    BY <1>6, <1>1 DEF ReadBadHeader, Past, Readers
  <2>3. DueLine(Line) /\ ~WholeLine(Line) BY <2>1 DEF DueLine, WholeLine
  <2>5. ReturnsNothing("error", reader.pos + 1, call.tag) /\ UNCHANGED <<log, torn>>
    BY <1>6 DEF ReadBadHeader
  <2>6. Consumes BY <2>1, <2>2, <2>5 DEF Consumes
  <2>4. Answers("error", call.tag) BY <2>5, <2>6, NothingAnswers
  <2> QED BY <1>1, <1>6, <2>2, <2>3, <2>4 DEF ReadBadHeader, AnswersError, KeepsExtremes
<1>7. CASE ReadIgnored
  <2>1. reader.pos < Len(log) /\ call.active BY <1>7 DEF ReadIgnored, Reading
  <2>2. /\ reader' \in Readers /\ reader'.pos = reader.pos + 1
        /\ reader'.max = reader.max /\ reader'.min = reader.min
    BY <1>7, <1>1 DEF ReadIgnored, Past, Readers
  <2>3. ~DueLine(Line) BY <1>7 DEF ReadIgnored, Reading, DueLine, IsInterval
  <2>4. \/ Line.kind = "interval" /\ call' = [call EXCEPT !.tag = LineTag]
        \/ call' = [call EXCEPT !.tag = call.tag]
    BY <1>1, <1>7 DEF ReadIgnored, Reading
  <2> QED BY <1>7, <2>1, <2>2, <2>3, <2>4
        DEF ReadIgnored, PassesOver, Passes, Consumes, KeepsExtremes
<1>8. CASE ReadBadInterval
  <2>1. reader.pos < Len(log) /\ call.active /\ Line.kind = "interval"
    BY <1>8 DEF ReadBadInterval, Reading
  <2>2. /\ reader' \in Readers /\ reader'.pos = reader.pos + 1
        /\ reader'.max = reader.max /\ reader'.min = reader.min
    BY <1>8, <1>1 DEF ReadBadInterval, Past, Readers
  <2>3. DueLine(Line) /\ ~WholeLine(Line) BY <1>8, <2>1 DEF ReadBadInterval, DueLine, WholeLine
  <2>5. Consumes BY <1>8, <2>1, <2>2 DEF ReadBadInterval, Consumes
  <2>4. Answers("error", LineTag) BY <1>8, <2>5, NothingAnswers DEF ReadBadInterval
  <2> QED BY <1>8, <2>1, <2>2, <2>3, <2>4, TagIn DEF ReadBadInterval, AnswersError, KeepsExtremes
<1>9. ASSUME AtInterval
      PROVE  /\ reader.pos < Len(log) /\ call.active /\ Line.kind = "interval" /\ IsInterval(Line)
             /\ Line.tag # EdgeTag /\ DueLine(Line) /\ LineTag \in Tags
             /\ Settled \in Readers /\ Settled.pos = reader.pos + 1
             /\ Settled.max = reader.max /\ Settled.min = reader.min
  <2>1. /\ reader.pos < Len(log) /\ call.active /\ Line.kind = "interval" /\ IsInterval(Line)
        /\ Line.tag # EdgeTag
    BY <1>9 DEF AtInterval, Reading
  <2> QED BY <2>1, TagIn, SettledFacts DEF DueLine
<1>10. CASE ReadBefore
  BY <1>10, <1>9 DEF ReadBefore, PassesOver, Passes, Consumes, KeepsExtremes
<1>11. CASE ReadAfter
  <2>1. Consumes /\ KeepsExtremes BY <1>11, <1>9 DEF ReadAfter, Consumes, KeepsExtremes
  <2>2. Answers("after", LineTag) BY <1>11, <2>1, NothingAnswers DEF ReadAfter
  <2> QED BY <1>11, <2>1, <2>2 DEF ReadAfter, AnswersAfter
<1>12. CASE ReadCutPayload
  <2>1. AtInterval /\ ~WholeLine(Line) BY <1>12 DEF ReadCutPayload, InRange, WholeLine
  <2>3. Consumes BY <1>12, <2>1, <1>9 DEF ReadCutPayload, Consumes
  <2>2. Answers("error", LineTag) BY <1>12, <2>3, NothingAnswers DEF ReadCutPayload
  <2> QED BY <1>12, <2>1, <2>2, <1>9 DEF ReadCutPayload, AnswersError, KeepsExtremes
<1>13. CASE ReadInterval
  <2>1. AtInterval BY <1>13 DEF ReadInterval, InRange
  <2>2. WholeLine(Line) BY <1>13, <2>1, <1>9 DEF ReadInterval, WholeLine
  <2>3. Line.src.max \in Int64 /\ Line.src.min \in Int64 BY <2>1, <1>9, LineIn, LineTypes
  <2>4. /\ Observed(Settled, Line.src) \in Readers
        /\ Observed(Settled, Line.src).pos = reader.pos + 1
    BY <2>1, <2>3, <1>9 DEF Observed, Readers
  <2>5. AbsoluteStart \in Int /\ Line.len \in Int
    BY <2>1, <1>9, StartBounds, LineIn, LineTypes, LogAssumption
  <2>6. \A s \in Truncated(AbsoluteStart) : s \in Int BY <2>5 DEF Truncated
  <2>7. \A e \in TruncatedSum(AbsoluteStart + Line.len) : e \in Int BY <2>5 DEF TruncatedSum
  <2>8. Consumes BY <1>13, <2>1, <2>4, <1>9 DEF ReadInterval, Consumes
  <2> QED BY <1>13, <2>2, <2>6, <2>7, <2>8 DEF ReadInterval, AnswersHistogram
<1> QED BY <1>2, <1>3, <1>4, <1>5, <1>6, <1>7, <1>8, <1>10, <1>11, <1>12, <1>13 DEF ReaderStep

-----------------------------------------------------------------------------
(* What the shapes do to the log and to the results.                        *)

\* The call returns and adds a result.
Adds(kind, line, t) ==
  /\ call' = NoCall /\ got' \in Seq(Result) /\ Len(got') = Len(got) + 1
  /\ \A i \in 1..Len(got) : got'[i] = got[i]
  /\ got'[Len(got) + 1].kind = kind /\ got'[Len(got) + 1].line = line
  /\ got'[Len(got) + 1].tag = t /\ got'[Len(got) + 1].range = call.range



\* Returns adds its result.
LEMMA ReturnsAdds ==
  ASSUME TypeInv, NEW kind \in ResultKinds, NEW line \in Nat, NEW t \in Tags,
         NEW b \in Int, NEW e \in Int, Returns(kind, line, t, b, e)
  PROVE  /\ Adds(kind, line, t)
         /\ got'[Len(got) + 1].start = b /\ got'[Len(got) + 1].end = e
<1> DEFINE res == [kind |-> kind, line |-> line, tag |-> t, start |-> b, end |-> e,
                   range |-> call.range]
<1>1. res \in Result /\ got \in Seq(Result) BY DEF Result, TypeInv
<1>2. got' = Append(got, res) /\ call' = NoCall BY DEF Returns
<1>3. /\ res.kind = kind /\ res.line = line /\ res.tag = t /\ res.range = call.range
      /\ res.start = b /\ res.end = e
  OBVIOUS
<1> HIDE DEF res
<1>4. /\ got' \in Seq(Result) /\ Len(got') = Len(got) + 1
      /\ \A i \in 1..Len(got) : got'[i] = got[i]
      /\ got'[Len(got) + 1] = res
  BY <1>1, <1>2, AppendFacts
<1> QED BY <1>2, <1>3, <1>4 DEF Adds

\* A line that is answered is consumed and gets a result.
LEMMA AnswersAdds ==
  ASSUME TypeInv, NEW kind \in ResultKinds, NEW t \in Tags, Answers(kind, t)
  PROVE  Consumes /\ Adds(kind, reader.pos + 1, t)
<1>1. reader.pos + 1 \in Nat BY DEF TypeInv, Readers
<1> QED BY <1>1, ReturnsAdds DEF Answers

\* A call that ends without a line adds a result of no line.
LEMMA QuitsAdds ==
  ASSUME TypeInv, Quits
  PROVE  /\ Stays /\ call.active
         /\ \E kind \in {"end", "failed"} : Adds(kind, 0, call.tag)
<1>1. call.tag \in Tags BY DEF TypeInv
<1>2. PICK kind \in {"end", "failed"} : Returns(kind, 0, call.tag, 0, 0) BY DEF Quits, ReturnsNothing
<1>3. kind \in ResultKinds BY DEF ResultKinds
<1>4. Adds(kind, 0, call.tag) BY <1>1, <1>2, <1>3, ReturnsAdds
<1> QED BY <1>4 DEF Quits

\* The shapes of a step of Next, as what it does to the results.
Idle == UNCHANGED <<log, torn, reader, got>>
Begun == Idle /\ ~call.active /\ call' \in [active : {TRUE}, range : Ranges, tag : {NoTag}]
GivesUp == /\ Stays /\ call.active
           /\ \E kind \in {"end", "failed"} : Adds(kind, 0, call.tag)
GivesError ==
  /\ KeepsExtremes /\ DueLine(Line) /\ ~WholeLine(Line) /\ Consumes
  /\ \E t \in Tags : Adds("error", reader.pos + 1, t)
GivesAfter ==
  /\ KeepsExtremes /\ AtInterval /\ RangeTime > call.range.hi /\ Consumes
  /\ Adds("after", reader.pos + 1, LineTag)
GivesHistogram ==
  /\ InRange /\ WholeLine(Line) /\ reader' = Observed(Settled, Line.src) /\ Consumes
  /\ Adds("histogram", reader.pos + 1, LineTag)
  /\ got'[Len(got) + 1].start \in Truncated(AbsoluteStart)
  /\ got'[Len(got) + 1].end \in TruncatedSum(AbsoluteStart + Line.len)

\* A step of the reader is one of these.
LEMMA ReaderGives ==
  ASSUME TypeInv, ReaderStep \/ ReadFails
  PROVE  GivesUp \/ PassesOver \/ GivesError \/ GivesAfter \/ GivesHistogram
<1>1. {"error", "after", "histogram"} \subseteq ResultKinds BY DEF ResultKinds
<1>2. CASE Quits BY <1>2, QuitsAdds DEF GivesUp
<1>3. CASE AnswersError BY <1>1, <1>3, AnswersAdds DEF AnswersError, GivesError
<1>4. ASSUME AtInterval PROVE LineTag \in Tags BY <1>4, TagIn DEF AtInterval, Reading
<1>5. CASE AnswersAfter BY <1>1, <1>4, <1>5, AnswersAdds DEF AnswersAfter, GivesAfter
<1>6. CASE AnswersHistogram
  <2>1. PICK s \in Truncated(AbsoluteStart), e \in TruncatedSum(AbsoluteStart + Line.len) :
          s \in Int /\ e \in Int /\ Returns("histogram", reader.pos + 1, LineTag, s, e)
    BY <1>6 DEF AnswersHistogram
  <2>2. LineTag \in Tags /\ "histogram" \in ResultKinds /\ reader.pos + 1 \in Nat
    BY <1>1, <1>4, <1>6 DEF AnswersHistogram, InRange, TypeInv, Readers
  <2>3. /\ Adds("histogram", reader.pos + 1, LineTag)
        /\ got'[Len(got) + 1].start = s /\ got'[Len(got) + 1].end = e
    BY <2>1, <2>2, ReturnsAdds
  <2> QED BY <1>6, <2>1, <2>3 DEF AnswersHistogram, GivesHistogram
<1> QED BY <1>2, <1>3, <1>5, <1>6, ReaderShape

\* Steps of the reader's calls, and others.
LEMMA NextShape ==
  ASSUME TypeInv, [Next]_vars
  PROVE  Writes \/ Begun \/ ReaderStep \/ ReadFails
<1>1. CASE WriterStep BY <1>1, WriterShape
<1>3. ASSUME NEW r \in Ranges, NextInterval(r) PROVE Begun
  BY <1>3 DEF NextInterval, FreshTag, Begun, Idle
<1>4. CASE UNCHANGED vars BY <1>4 DEF vars, Writes, Stays, TypeInv
<1> QED BY <1>1, <1>3, <1>4 DEF Next

\* Every step is one of these.
LEMMA StepShapes ==
  ASSUME TypeInv, [Next]_vars
  PROVE  \/ Writes \/ Begun \/ GivesUp \/ PassesOver
         \/ GivesError \/ GivesAfter \/ GivesHistogram
BY NextShape, ReaderGives

-----------------------------------------------------------------------------
(* Types and order.                                                         *)

\* The types hold at first, and every step keeps them.
LEMMA TypeInit == Init => TypeInv
<1> SUFFICES ASSUME Init PROVE TypeInv OBVIOUS
<1>1. NoTag \in Tags BY DEF Tags
<1>2. 0 \in Time /\ MaxInt64 \in Int64 /\ -(MaxInt64 + 1) \in Int64 BY LogAssumption DEF Time, Int64
<1>3. baseTime \in 0..MaxInt64 /\ partial = NoLine /\ torn = {} BY LogAssumption DEF Init
<1>4. log \in Seq(Lines) /\ Len(log) = 0 /\ got \in Seq(Result) BY DEF Init
<1>5. reader \in Readers /\ reader.pos = 0 BY <1>2 DEF Init, Readers
<1>6. call \in [active : BOOLEAN, range : AnyRange, tag : Tags] BY <1>1 DEF Init, NoCall, AnyRange
<1> QED BY <1>3, <1>4, <1>5, <1>6, LogAssumption DEF TypeInv

\* Every step keeps the types.
LEMMA TypeStep == TypeInv /\ [Next]_vars => TypeInv'
<1> SUFFICES ASSUME TypeInv, [Next]_vars PROVE TypeInv' OBVIOUS
<1>1. /\ Printing /\ log \in Seq(Lines) /\ Len(log) <= MaxLines /\ torn \subseteq 1..Len(log)
      /\ reader \in Readers /\ reader.pos <= Len(log) /\ got \in Seq(Result)
      /\ call \in [active : BOOLEAN, range : AnyRange, tag : Tags]
      /\ reader.pos \in Nat /\ Len(log) \in Nat
  BY DEF TypeInv, Readers, Printing
<1>2. NoCall \in [active : BOOLEAN, range : AnyRange, tag : Tags] BY DEF NoCall, AnyRange, Tags
<1>3. CASE WriterStep
  <2>1. Writes /\ Printing' BY <1>3, WriterShape
  <2> QED BY <1>1, <2>1 DEF Writes, Stays, Printing, TypeInv
<1>4. CASE UNCHANGED vars BY <1>1, <1>4 DEF vars, TypeInv
<1>5. CASE ReaderStep \/ ReadFails
  <2>1. UNCHANGED <<baseTime, partial>> /\ Len(log') >= Len(log) BY <1>5, ReaderKeeps
  <2>7. Stays \/ Consumes => Len(log') \in Nat BY <1>1 DEF Stays, Consumes
  <2>8. Stays \/ Consumes => Printing' BY <1>1, <2>1, <2>7 DEF Printing
  <2>2. ASSUME Stays \/ Consumes
        PROVE  /\ log' \in Seq(Lines) /\ Len(log') <= MaxLines /\ torn' \subseteq 1..Len(log')
               /\ reader' \in Readers /\ reader'.pos <= Len(log')
    <3>1. CASE Stays BY <1>1, <3>1 DEF Stays
    <3>2. CASE Consumes BY <1>1, <3>2 DEF Consumes
    <3> QED BY <2>2, <3>1, <3>2
  <2>3. ASSUME NEW kind, NEW line, NEW t, Adds(kind, line, t)
        PROVE  got' \in Seq(Result) /\ call' \in [active : BOOLEAN, range : AnyRange, tag : Tags]
    BY <2>3, <1>2 DEF Adds
  <2>4. ASSUME NEW t \in Tags, Passes(t)
        PROVE  Consumes /\ got' = got /\ call' \in [active : BOOLEAN, range : AnyRange, tag : Tags]
    BY <2>4, <1>1 DEF Passes
  <2>5. PassesOver => \E t \in Tags : Passes(t)
    <3>1. call.tag \in Tags BY <1>1
    <3>2. ASSUME NEW t, Passes(t) PROVE reader.pos < Len(log) BY <3>2 DEF Passes, Consumes
    <3>3. AtInterval => Line.kind = "interval" BY DEF AtInterval, Reading
    <3> QED BY <3>1, <3>2, <3>3, TagIn DEF PassesOver
  <2>6. \/ GivesUp \/ PassesOver \/ GivesError \/ GivesAfter \/ GivesHistogram
    BY <1>5, ReaderGives
  <2>9. /\ Stays \/ Consumes
        /\ got' \in Seq(Result) /\ call' \in [active : BOOLEAN, range : AnyRange, tag : Tags]
    BY <1>1, <2>3, <2>4, <2>5, <2>6 DEF GivesUp, GivesError, GivesAfter, GivesHistogram
  <2> QED BY <2>2, <2>8, <2>9 DEF TypeInv, Printing
<1>6. ASSUME NEW r \in Ranges, NextInterval(r) PROVE TypeInv'
  BY <1>1, <1>6, ReaderAssumption DEF NextInterval, FreshTag, Tags, AnyRange, TypeInv, Printing
<1> QED BY <1>3, <1>4, <1>5, <1>6 DEF Next

\* What the shapes of a reader's step have in common.
LEMMA ShapeFacts ==
  ASSUME TypeInv
  PROVE  /\ reader.pos \in Nat /\ Len(log) \in Nat /\ Len(got) \in Nat
         /\ PassesOver => Consumes /\ KeepsExtremes /\ got' = got
         /\ Consumes => /\ UNCHANGED <<log, torn>> /\ call.active /\ reader'.pos = reader.pos + 1
                        /\ reader.pos + 1 \in 1..Len(log) /\ Line = log[reader.pos + 1]
         /\ AtInterval => /\ reader.pos < Len(log) /\ Line.kind = "interval" /\ IsInterval(Line)
                          /\ Line.tag # EdgeTag
BY DEF TypeInv, Readers, PassesOver, Passes, Consumes, Line, AtInterval, Reading

\* The fields of a result.
LEMMA ResultTypes ==
  ASSUME TypeInv, NEW i \in 1..Len(got)
  PROVE  got[i].line \in Nat /\ got[i].kind \in ResultKinds /\ got[i].tag \in Tags
<1>1. got[i] \in Result BY DEF TypeInv
<1> QED BY <1>1 DEF Result

\* Results are of lines that the reader has passed, each later than the one before.
LEMMA OrderStep == TypeInv /\ OrderInv /\ [Next]_vars => OrderInv'
<1> SUFFICES ASSUME TypeInv, OrderInv, [Next]_vars PROVE OrderInv' OBVIOUS
<1>1. /\ reader.pos \in Nat /\ Len(got) \in Nat
      /\ \A i \in 1..Len(got) : got[i].line \in Nat
  BY ShapeFacts, ResultTypes
<1>2. CASE Writes \/ Begun BY <1>2 DEF Writes, Stays, Begun, Idle, OrderInv
<1>3. CASE PassesOver
  <2>1. got' = got /\ reader'.pos = reader.pos + 1 BY <1>3, ShapeFacts
  <2> QED BY <1>1, <2>1 DEF OrderInv
<1>4. ASSUME NEW kind \in ResultKinds, NEW line \in Nat, NEW t, Adds(kind, line, t),
             reader'.pos \in Nat, reader'.pos >= reader.pos,
             kind \in {"error", "after", "histogram"} <=> line >= 1,
             line = 0 \/ line = reader.pos + 1, line <= reader'.pos
      PROVE  OrderInv'
  <2> SUFFICES ASSUME NEW i \in 1..Len(got')
               PROVE  /\ got'[i].line <= reader'.pos
                      /\ got'[i].kind \in {"error", "after", "histogram"} <=> got'[i].line >= 1
                      /\ \A k \in 1..(i - 1) : got'[i].line = 0 \/ got'[k].line < got'[i].line
    BY DEF OrderInv
  <2>1. /\ Len(got') = Len(got) + 1 /\ \A k \in 1..Len(got) : got'[k] = got[k]
        /\ got'[Len(got) + 1].kind = kind /\ got'[Len(got) + 1].line = line
    BY <1>4 DEF Adds
  <2>2. CASE i \in 1..Len(got)
    <3>1. \A k \in 1..(i - 1) : k \in 1..Len(got) BY <1>1, <2>2
    <3> QED BY <1>1, <1>4, <2>1, <2>2, <3>1 DEF OrderInv
  <2>3. CASE i = Len(got) + 1
    <3>1. \A k \in 1..(i - 1) : k \in 1..Len(got) BY <1>1, <2>3
    <3> QED BY <1>1, <1>4, <2>1, <2>3, <3>1 DEF OrderInv
  <2> QED BY <1>1, <2>1, <2>2, <2>3
<1>5. CASE GivesUp
  <2>1. PICK kind \in {"end", "failed"} : Adds(kind, 0, call.tag) BY <1>5 DEF GivesUp
  <2>2. kind \in ResultKinds /\ reader' = reader BY <1>5 DEF GivesUp, Stays, ResultKinds
  <2> QED BY <1>1, <1>4, <2>1, <2>2
<1>6. CASE GivesError \/ GivesAfter \/ GivesHistogram
  <2>1. PICK kind \in {"error", "after", "histogram"} : \E t : Adds(kind, reader.pos + 1, t)
    BY <1>6 DEF GivesError, GivesAfter, GivesHistogram
  <2>2. reader'.pos = reader.pos + 1 BY <1>6, ShapeFacts DEF GivesError, GivesAfter, GivesHistogram
  <2>3. kind \in ResultKinds BY DEF ResultKinds
  <2> QED BY <1>1, <1>4, <2>1, <2>2, <2>3
<1> QED BY <1>2, <1>3, <1>5, <1>6, StepShapes

\* The line of a result is a line of the log.
LEMMA ResultLines ==
  ASSUME TypeInv, OrderInv, NEW i \in 1..Len(got), got[i].kind \in {"error", "after", "histogram"}
  PROVE  got[i].line \in 1..reader.pos /\ got[i].line \in 1..Len(log)
<1>1. got[i].line \in Nat /\ got[i].line >= 1 /\ got[i].line <= reader.pos BY ResultTypes DEF OrderInv
<1>2. reader.pos \in Nat /\ reader.pos <= Len(log) /\ Len(log) \in Nat BY ShapeFacts DEF TypeInv
<1> QED BY <1>1, <1>2

\* A histogram is of a whole line, an error of one that is due and not whole.
LEMMA KindStep == TypeInv /\ OrderInv /\ KindInv /\ [Next]_vars => KindInv'
<1> SUFFICES ASSUME TypeInv, OrderInv, KindInv, [Next]_vars, NEW i \in 1..Len(got')
             PROVE  /\ got'[i].kind = "histogram" => WholeLine(log'[got'[i].line])
                    /\ got'[i].kind = "error" =>
                         DueLine(log'[got'[i].line]) /\ ~WholeLine(log'[got'[i].line])
  BY DEF KindInv, WholeLine, DueLine, IsInterval
<1>1. Len(got) \in Nat BY ShapeFacts
<1>2. ASSUME i \in 1..Len(got), got'[i] = got[i], \A n \in 1..reader.pos : log'[n] = log[n]
      PROVE  /\ got'[i].kind = "histogram" => WholeLine(log'[got'[i].line])
             /\ got'[i].kind = "error" =>
                  DueLine(log'[got'[i].line]) /\ ~WholeLine(log'[got'[i].line])
  BY <1>2, ResultLines DEF KindInv
<1>3. CASE Writes BY <1>2, <1>3 DEF Writes, Stays
<1>4. CASE Begun \/ PassesOver
  <2>1. got' = got /\ log' = log BY <1>4, ShapeFacts DEF Begun, Idle
  <2> QED BY <1>2, <2>1
<1>5. CASE GivesUp BY <1>1, <1>2, <1>5 DEF GivesUp, Stays, Adds
<1>6. CASE GivesError \/ GivesAfter \/ GivesHistogram
  <2>1. log' = log /\ Line = log[reader.pos + 1]
    BY <1>6, ShapeFacts DEF GivesError, GivesAfter, GivesHistogram
  <2> QED BY <1>1, <1>2, <1>6, <2>1 DEF GivesError, GivesAfter, GivesHistogram, Adds
<1> QED BY <1>3, <1>4, <1>5, <1>6, StepShapes

\* Only a write that stops and a read that fails tear lines.
LEMMA TornStep == TypeInv /\ TornInv /\ [Next]_vars => TornInv'
<1> SUFFICES ASSUME TypeInv, TornInv, [Next]_vars PROVE TornInv' OBVIOUS
<1>1. CASE WriterStep BY <1>1, WriterShape
<1>2. UntornWritten BY DEF TornInv, UntornWritten
<1>3. ASSUME UNCHANGED <<partial, log, torn>>,
             \A i \in 1..Len(got) : i \in 1..Len(got') /\ got'[i] = got[i]
      PROVE  TornInv'
  BY <1>3 DEF TornInv, AsWritten
<1>4. CASE ReaderStep
  <2>1. UNCHANGED <<partial, log, torn>>
    BY <1>4 DEF ReaderStep, ReadEnd, ReadStartTime, ReadBaseTime, ReadBadHeader, ReadIgnored,
         ReadBadInterval, ReadBefore, ReadAfter, ReadCutPayload, ReadInterval
  <2>2. GivesUp \/ PassesOver \/ GivesError \/ GivesAfter \/ GivesHistogram BY <1>4, ReaderGives
  <2>3. ASSUME NEW kind, NEW line, NEW t, Adds(kind, line, t)
        PROVE  \A i \in 1..Len(got) : i \in 1..Len(got') /\ got'[i] = got[i]
    BY <2>3, ShapeFacts DEF Adds
  <2>4. PassesOver => got' = got BY ShapeFacts
  <2> QED BY <1>3, <2>1, <2>2, <2>3, <2>4 DEF GivesUp, GivesError, GivesAfter, GivesHistogram
<1>5. CASE ReadFails
  <2>1. UNCHANGED partial /\ UntornWritten' BY <1>2, <1>5, ReaderKeeps
  <2>2. Returns("failed", 0, call.tag, 0, 0) BY <1>5 DEF ReadFails, ReturnsNothing
  <2>3. "failed" \in ResultKinds /\ call.tag \in Tags /\ 0 \in Nat /\ 0 \in Int BY DEF ResultKinds, TypeInv
  <2>4. Adds("failed", 0, call.tag) BY <2>2, <2>3, ReturnsAdds
  <2>5. Len(got) + 1 \in 1..Len(got') /\ got'[Len(got) + 1].kind = "failed"
    BY <2>4, ShapeFacts DEF Adds
  <2>6. partial' # NoLine => MaxCut > 0 /\ AsWritten(partial)' BY <2>1 DEF TornInv, AsWritten
  <2> QED BY <2>1, <2>5, <2>6 DEF TornInv, UntornWritten
<1>6. ASSUME NEW r \in Ranges, NextInterval(r) PROVE TornInv'
  BY <1>3, <1>6 DEF NextInterval
<1>7. CASE UNCHANGED vars BY <1>3, <1>7 DEF vars
<1> QED BY <1>1, <1>4, <1>5, <1>6, <1>7 DEF Next

-----------------------------------------------------------------------------
(* Completeness: NothingLost.                                               *)

\* A program that has kept to a range did so before, and the call in progress too.
LEMMA OnlyRangeBack ==
  ASSUME TypeInv, [Next]_vars, NEW r, OnlyRange(r)'
  PROVE  OnlyRange(r) /\ (~Writes /\ ~Begun => call.range = r)
<1>1. Len(got) \in Nat /\ 1..Len(got) \subseteq 1..(Len(got) + 1) /\ Len(got) + 1 \in 1..(Len(got) + 1)
  BY ShapeFacts
<1>2. CASE Writes BY <1>2 DEF Writes, OnlyRange
<1>3. CASE Begun BY <1>3 DEF Begun, Idle, OnlyRange
<1>4. CASE PassesOver
  <2>1. got' = got /\ call.active BY <1>4, ShapeFacts
  <2>2. PICK t : call' = [call EXCEPT !.tag = t] BY <1>4 DEF PassesOver, Passes
  <2>3. call'.active = call.active /\ call'.range = call.range BY <2>2 DEF TypeInv
  <2> QED BY <2>1, <2>3 DEF OnlyRange
<1>5. ASSUME NEW kind, NEW line, NEW t, Adds(kind, line, t) PROVE OnlyRange(r) /\ call.range = r
  BY <1>1, <1>5 DEF Adds, OnlyRange
<1> QED BY <1>2, <1>3, <1>4, <1>5, StepShapes DEF GivesUp, GivesError, GivesAfter, GivesHistogram

\* Answers stay.
LEMMA AnsweredStays ==
  ASSUME TypeInv, [Next]_vars, NEW n, NEW kind, Answered(got, n, kind)
  PROVE  Answered(got', n, kind)
<1>1. Len(got) \in Nat BY ShapeFacts
<1>2. CASE Writes \/ Begun \/ PassesOver
  <2>1. got' = got BY <1>2, ShapeFacts DEF Writes, Begun, Idle
  <2> QED BY <2>1 DEF Answered
<1>3. ASSUME NEW k, NEW line, NEW t, Adds(k, line, t) PROVE Answered(got', n, kind)
  BY <1>1, <1>3 DEF Adds, Answered
<1> QED BY <1>2, <1>3, StepShapes DEF GivesUp, GivesError, GivesAfter, GivesHistogram

\* The line that a result is added for is answered.
LEMMA AddsAnswers ==
  ASSUME TypeInv, NEW line, NEW kind, NEW t, Adds(kind, line, t)
  PROVE  Answered(got', line, kind)
<1>1. Len(got) + 1 \in 1..(Len(got) + 1) BY ShapeFacts
<1> QED BY <1>1 DEF Adds, Answered

\* A due line that NextIntervalHistogram passes is answered.
LEMMA CompleteStep == TypeInv /\ CompleteInv /\ [Next]_vars => CompleteInv'
<1> DEFINE Fit(l) == IF WholeLine(l) THEN "histogram" ELSE "error"
<1> SUFFICES ASSUME TypeInv, CompleteInv, [Next]_vars, OnlyRange(WholeLog)',
                    NEW n \in 1..reader'.pos, DueLine(log'[n])
             PROVE  Answered(got', n, Fit(log'[n]))
  BY DEF CompleteInv, WholeLine, DueLine, IsInterval
<1>1. OnlyRange(WholeLog) BY OnlyRangeBack DEF OnlyRange, WholeLog
<1>2. reader.pos \in Nat /\ Len(log) \in Nat /\ reader.pos <= Len(log) BY ShapeFacts DEF TypeInv
<1>3. ASSUME n \in 1..reader.pos, log'[n] = log[n] PROVE Answered(got', n, Fit(log'[n]))
  BY <1>1, <1>3, AnsweredStays DEF CompleteInv
<1>4. CASE Writes BY <1>3, <1>4 DEF Writes, Stays
<1>5. CASE Begun \/ GivesUp BY <1>3, <1>5 DEF Begun, Idle, GivesUp, Stays
<1>6. ASSUME Consumes, n = reader.pos + 1 => Answered(got', n, Fit(Line)) PROVE Answered(got', n, Fit(log'[n]))
  <2>1. log' = log /\ reader'.pos = reader.pos + 1 /\ Line = log[reader.pos + 1] BY <1>6, ShapeFacts
  <2> QED BY <1>2, <1>3, <1>6, <2>1
<1>7. CASE GivesError
  <2>1. Answered(got', reader.pos + 1, "error") BY <1>7, AddsAnswers DEF GivesError
  <2>2. Fit(Line) = "error" /\ Consumes BY <1>7 DEF GivesError
  <2> QED BY <1>6, <2>1, <2>2
<1>8. CASE GivesHistogram
  <2>1. Answered(got', reader.pos + 1, "histogram") BY <1>8, AddsAnswers DEF GivesHistogram
  <2>2. Fit(Line) = "histogram" /\ Consumes BY <1>8 DEF GivesHistogram
  <2> QED BY <1>6, <2>1, <2>2
<1>9. ASSUME ~Writes, ~Begun, AtInterval
      PROVE  ~Before /\ ~(RangeTime > call.range.hi)
  <2>1. call.range = WholeLog BY <1>9, OnlyRangeBack
  <2>2. RangeTime = AbsoluteStart /\ AbsoluteStart \in 0..(8 * MaxInt64)
    BY <1>9, <2>1, ShapeFacts, StartBounds DEF WholeLog
  <2> QED BY <2>1, <2>2, LogAssumption DEF Before, WholeLog
<1>10. CASE GivesAfter
  <2>1. CASE Writes \/ Begun BY <2>1, <1>4, <1>5
  <2>2. CASE ~Writes /\ ~Begun BY <1>9, <1>10, <2>2 DEF GivesAfter
  <2> QED BY <2>1, <2>2
<1>11. CASE PassesOver
  <2>1. CASE Writes \/ Begun BY <2>1, <1>4, <1>5
  <2>2. CASE ~Writes /\ ~Begun
    <3>1. ~DueLine(Line) BY <1>9, <1>11, <2>2 DEF PassesOver
    <3>2. Consumes BY <1>11, ShapeFacts
    <3>3. log' = log /\ Line = log[reader.pos + 1] BY <3>2, ShapeFacts
    <3>4. n # reader.pos + 1 BY <3>1, <3>3
    <3> QED BY <1>6, <3>2, <3>4
  <2> QED BY <2>1, <2>2
<1> QED BY <1>4, <1>5, <1>7, <1>8, <1>10, <1>11, StepShapes

-----------------------------------------------------------------------------
(* Tags: TagsReturn.                                                        *)

\* The tag that the reader holds, and those it has returned.
LEMMA TagStep == TypeInv /\ OrderInv /\ TagInv /\ [Next]_vars => TagInv'
<1> SUFFICES ASSUME TypeInv, OrderInv, TagInv, [Next]_vars PROVE TagHeld' /\ TagsReturn'
  BY DEF TagInv
<1> USE DEF TagInv
<1>1. /\ reader.pos \in Nat /\ Len(log) \in Nat /\ reader.pos <= Len(log) /\ Len(got) \in Nat
      /\ \A i \in 1..Len(got) : got[i].line \in Nat /\ got[i].line <= reader.pos
  BY ShapeFacts, ResultTypes DEF TypeInv, OrderInv
<1>2. NoCall.tag = NoTag BY DEF NoCall
<1>3. ASSUME NEW i \in 1..Len(got), got[i].kind = "histogram",
             \A n \in 1..reader.pos : log'[n] = log[n]
      PROVE  LET own == log'[got[i].line].tag
                 passed == {j \in 1..(got[i].line - 1) : \A k \in 1..(i - 1) : got[k].line < j}
             IN  \/ got[i].tag = own
                 \/ own = NoTag /\ \E j \in passed : log'[j].kind = "interval" /\ log'[j].tag = got[i].tag
  <2>1. got[i].line \in 1..reader.pos BY <1>3, ResultLines
  <2>2. \A j \in 1..(got[i].line - 1) : log'[j] = log[j] BY <1>1, <1>3, <2>1
  <2>3. log'[got[i].line] = log[got[i].line] BY <1>3, <2>1
  <2> QED BY <1>3, <2>2, <2>3 DEF TagsReturn
<1>4. ASSUME got' = got, \A n \in 1..reader.pos : log'[n] = log[n] PROVE TagsReturn'
  BY <1>3, <1>4 DEF TagsReturn
<1>5. CASE Writes
  <2>1. TagHeld' BY <1>1, <1>5 DEF TagHeld, Writes, Stays
  <2>2. TagsReturn' BY <1>4, <1>5 DEF Writes, Stays
  <2> QED BY <2>1, <2>2
<1>6. CASE Begun
  <2>1. got' = got /\ log' = log /\ call'.tag = NoTag BY <1>6 DEF Begun, Idle
  <2> QED BY <1>4, <2>1 DEF TagHeld
<1>7. CASE PassesOver
  <2>1. got' = got /\ log' = log /\ reader'.pos = reader.pos + 1 /\ Line = log[reader.pos + 1]
    BY <1>7, ShapeFacts
  <2>2. PICK t : Passes(t) /\ (t = call.tag \/ (t = LineTag /\ Line.kind = "interval"))
    BY <1>7 DEF PassesOver, AtInterval, Reading
  <2>3. call'.tag = t BY <2>2 DEF Passes, TypeInv
  <2>6. TagsReturn' BY <1>4, <2>1
  <2>4. CASE t = call.tag BY <1>1, <2>1, <2>3, <2>4, <2>6 DEF TagHeld
  <2>5. CASE t = Line.tag /\ Line.kind = "interval"
    <3>1. reader.pos + 1 \in 1..reader'.pos BY <1>1, <2>1
    <3>2. \A k \in 1..Len(got) : got[k].line < reader.pos + 1 BY <1>1
    <3> QED BY <2>1, <2>3, <2>5, <2>6, <3>1, <3>2 DEF TagHeld
  <2> QED BY <2>2, <2>4, <2>5 DEF LineTag
<1>8. ASSUME NEW kind, NEW line, NEW t, Adds(kind, line, t),
             \A n \in 1..reader.pos : log'[n] = log[n], kind # "histogram"
      PROVE  TagHeld' /\ TagsReturn'
  <2>1. TagHeld' BY <1>2, <1>8 DEF Adds, TagHeld
  <2> SUFFICES ASSUME NEW i \in 1..Len(got'), got'[i].kind = "histogram"
               PROVE  LET own == log'[got'[i].line].tag
                          passed == {j \in 1..(got'[i].line - 1) : \A k \in 1..(i - 1) : got'[k].line < j}
                      IN  \/ got'[i].tag = own
                          \/ own = NoTag /\ \E j \in passed : log'[j].kind = "interval" /\ log'[j].tag = got'[i].tag
    BY <2>1 DEF TagsReturn
  <2>2. i \in 1..Len(got) BY <1>1, <1>8 DEF Adds
  <2>3. got'[i] = got[i] /\ \A k \in 1..(i - 1) : got'[k] = got[k] BY <1>1, <1>8, <2>2 DEF Adds
  <2> QED BY <1>3, <1>8, <2>2, <2>3
<1>9. CASE GivesUp
  <2>1. \A n \in 1..reader.pos : log'[n] = log[n] BY <1>9 DEF GivesUp, Stays
  <2> QED BY <1>8, <1>9, <2>1 DEF GivesUp
<1>10. CASE GivesError BY <1>8, <1>10, ShapeFacts DEF GivesError
<1>11. CASE GivesAfter BY <1>8, <1>11, ShapeFacts DEF GivesAfter
<1>12. CASE GivesHistogram
  <2>1. /\ log' = log /\ Line = log[reader.pos + 1] /\ Line.kind = "interval"
    BY <1>12, ShapeFacts DEF GivesHistogram, InRange
  <2>2. Adds("histogram", reader.pos + 1, LineTag) BY <1>12 DEF GivesHistogram
  <2>3. TagHeld' BY <1>2, <2>2 DEF Adds, TagHeld
  <2> SUFFICES ASSUME NEW i \in 1..Len(got'), got'[i].kind = "histogram"
               PROVE  LET own == log'[got'[i].line].tag
                          passed == {j \in 1..(got'[i].line - 1) : \A k \in 1..(i - 1) : got'[k].line < j}
                      IN  \/ got'[i].tag = own
                          \/ own = NoTag /\ \E j \in passed : log'[j].kind = "interval" /\ log'[j].tag = got'[i].tag
    BY <2>3 DEF TagsReturn
  <2>4. CASE i \in 1..Len(got)
    <3>1. got'[i] = got[i] /\ \A k \in 1..(i - 1) : got'[k] = got[k] BY <1>1, <2>2, <2>4 DEF Adds
    <3> QED BY <1>3, <2>1, <2>4, <3>1
  <2>5. CASE i = Len(got) + 1
    <3>1. got'[i].line = reader.pos + 1 /\ got'[i].tag = LineTag BY <2>2, <2>5 DEF Adds
    <3>2. CASE Line.tag # NoTag \/ call.tag = NoTag BY <2>1, <3>1, <3>2 DEF LineTag
    <3>3. CASE Line.tag = NoTag /\ call.tag # NoTag
      <4>1. PICK j \in 1..reader.pos : /\ \A k \in 1..Len(got) : got[k].line < j
                                       /\ log[j].kind = "interval" /\ log[j].tag = call.tag
        BY <3>3 DEF TagHeld
      <4>2. LineTag = call.tag BY <3>3 DEF LineTag
      <4>3. j \in 1..(got'[i].line - 1) BY <1>1, <3>1
      <4>4. \A k \in 1..(i - 1) : got'[k].line < j BY <1>1, <2>2, <2>5, <4>1 DEF Adds
      <4> QED BY <2>1, <3>1, <3>3, <4>1, <4>2, <4>3, <4>4
    <3> QED BY <3>2, <3>3
  <2> QED BY <1>1, <2>2, <2>4, <2>5 DEF Adds
<1> QED BY <1>5, <1>6, <1>7, <1>9, <1>10, <1>11, <1>12, StepShapes

-----------------------------------------------------------------------------
(* Extremes: ExtremesObserved.                                              *)

\* The histograms' lines after a result was added.
LEMMA AddsLines ==
  ASSUME TypeInv, NEW kind, NEW line, NEW t, Adds(kind, line, t)
  PROVE  /\ kind # "histogram" => LinesOf({"histogram"})' = LinesOf({"histogram"})
         /\ kind = "histogram" => LinesOf({"histogram"})' = LinesOf({"histogram"}) \union {line}
<1>1. /\ Len(got) \in Nat /\ Len(got') = Len(got) + 1 /\ \A i \in 1..Len(got) : got'[i] = got[i]
      /\ got'[Len(got) + 1].kind = kind /\ got'[Len(got) + 1].line = line
  BY ShapeFacts DEF Adds
<1>2. \A i \in 1..(Len(got) + 1) : i \in 1..Len(got) \/ i = Len(got) + 1 BY <1>1
<1>3. 1..Len(got) \subseteq 1..(Len(got) + 1) /\ Len(got) + 1 \in 1..(Len(got) + 1) BY <1>1
<1>4. \A n : n \in LinesOf({"histogram"})' <=>
              \E i \in 1..(Len(got) + 1) : got'[i].kind = "histogram" /\ got'[i].line = n
  BY <1>1 DEF LinesOf
<1>5. \A n : n \in LinesOf({"histogram"}) <=>
              \E i \in 1..Len(got) : got[i].kind = "histogram" /\ got[i].line = n
  BY DEF LinesOf
<1>6. \A n : n \in LinesOf({"histogram"})' <=>
              n \in LinesOf({"histogram"}) \/ (kind = "histogram" /\ n = line)
  BY <1>1, <1>2, <1>3, <1>4, <1>5
<1> QED BY <1>6

\* The extremes follow the histograms returned.
LEMMA ExtremesStep ==
  TypeInv /\ OrderInv /\ KindInv /\ ExtremesObserved /\ [Next]_vars => ExtremesObserved'
<1> SUFFICES ASSUME TypeInv, OrderInv, KindInv, ExtremesObserved, [Next]_vars PROVE ExtremesObserved' OBVIOUS
<1> DEFINE lines == LinesOf({"histogram"})
<1>1. \A n \in lines : n \in 1..Len(log) /\ n \in 1..reader.pos BY ResultLines DEF LinesOf
<1>2. ASSUME lines' = lines, KeepsExtremes, \A n \in 1..reader.pos : log'[n] = log[n]
      PROVE  ExtremesObserved'
  BY <1>1, <1>2 DEF ExtremesObserved, KeepsExtremes
<1>3. ASSUME got' = got PROVE lines' = lines BY <1>3 DEF LinesOf
<1> HIDE DEF lines
<1>4. CASE Writes BY <1>2, <1>3, <1>4 DEF Writes, Stays, KeepsExtremes
<1>5. CASE Begun BY <1>2, <1>3, <1>5 DEF Begun, Idle, KeepsExtremes
<1>6. CASE PassesOver BY <1>2, <1>3, <1>6, ShapeFacts
<1>7. CASE GivesUp BY <1>2, <1>7, AddsLines DEF GivesUp, Stays, KeepsExtremes, lines
<1>8. CASE GivesError BY <1>2, <1>8, AddsLines, ShapeFacts DEF GivesError, lines
<1>9. CASE GivesAfter BY <1>2, <1>9, AddsLines, ShapeFacts DEF GivesAfter, lines
<1>10. CASE GivesHistogram
  <2> DEFINE n == reader.pos + 1
  <2>1. log' = log /\ Line = log[n] /\ Line.kind = "interval" /\ reader.pos < Len(log)
    BY <1>10, ShapeFacts DEF GivesHistogram, InRange
  <2>2. lines' = lines \union {n} BY <1>10, AddsLines DEF GivesHistogram, lines
  <2>3. Line.src.max \in Int64 /\ Line.src.min \in Int64 BY <2>1, LineIn, LineTypes
  <2>4. /\ Settled.max = reader.max /\ Settled.min = reader.min /\ Settled \in Readers
        /\ reader' = Observed(Settled, Line.src)
    BY <1>10, <2>1, SettledFacts DEF GivesHistogram
  <2>5. /\ reader'.max = IF Line.src.max > reader.max THEN Line.src.max ELSE reader.max
        /\ reader'.min = IF Line.src.min < reader.min THEN Line.src.min ELSE reader.min
    BY <2>4 DEF Observed, Readers
  <2>6. reader.max \in Int64 /\ reader.min \in Int64 BY DEF TypeInv, Readers
  <2>7. \A i \in lines : log[i].src.max \in Int64 /\ log[i].src.min \in Int64
    <3> SUFFICES ASSUME NEW i \in lines PROVE log[i].src.max \in Int64 /\ log[i].src.min \in Int64
      OBVIOUS
    <3>1. PICK j \in 1..Len(got) : got[j].kind = "histogram" /\ got[j].line = i
      BY DEF lines, LinesOf
    <3>2. i \in 1..Len(log) BY <1>1
    <3>3. log[i] \in Lines BY <3>2 DEF TypeInv
    <3>4. log[i].kind = "interval" BY <3>1 DEF KindInv, WholeLine
    <3> QED BY <3>3, <3>4, LineTypes
  <2>8. \A x \in Int64 : x \in Int /\ -(MaxInt64 + 1) <= x /\ x <= MaxInt64
    BY LogAssumption DEF Int64
  <2>11. /\ reader.max \in Int /\ reader.min \in Int /\ Line.src.max \in Int /\ Line.src.min \in Int
         /\ -(MaxInt64 + 1) <= Line.src.max /\ Line.src.min <= MaxInt64
         /\ \A i \in lines : log[i].src.max \in Int /\ log[i].src.min \in Int
    BY <2>3, <2>6, <2>7, <2>8
  <2> HIDE DEF n
  <2>9. CASE lines = {}
    <3>1. reader.max = -(MaxInt64 + 1) /\ reader.min = MaxInt64 BY <2>9 DEF ExtremesObserved, lines
    <3>2. reader'.max = Line.src.max /\ reader'.min = Line.src.min
      BY <2>5, <2>11, <3>1, LogAssumption
    <3>3. lines' = {n} BY <2>2, <2>9
    <3>4. reader'.min <= Line.src.min /\ Line.src.max <= reader'.max BY <2>11, <3>2
    <3> QED BY <2>1, <3>2, <3>3, <3>4 DEF ExtremesObserved, lines
  <2>10. CASE lines # {}
    <3>1. /\ \E i \in lines : log[i].src.max = reader.max
          /\ \E i \in lines : log[i].src.min = reader.min
          /\ \A i \in lines : reader.min <= log[i].src.min /\ log[i].src.max <= reader.max
      BY <2>10 DEF ExtremesObserved, lines
    <3>2. \E i \in lines' : log'[i].src.max = reader'.max BY <2>1, <2>2, <2>5, <3>1
    <3>3. \E i \in lines' : log'[i].src.min = reader'.min BY <2>1, <2>2, <2>5, <3>1
    <3>4. ASSUME NEW i \in lines' PROVE reader'.min <= log'[i].src.min /\ log'[i].src.max <= reader'.max
      <4>1. CASE i \in lines
        <5>1. /\ reader.min <= log[i].src.min /\ log[i].src.max <= reader.max
              /\ log[i].src.max \in Int /\ log[i].src.min \in Int
          BY <2>11, <3>1, <4>1
        <5> QED BY <2>1, <2>5, <2>11, <5>1
      <4>2. CASE i = n
        <5>1. reader'.min <= Line.src.min /\ Line.src.max <= reader'.max BY <2>5, <2>11
        <5> QED BY <2>1, <4>2, <5>1
      <4> QED BY <2>2, <4>1, <4>2
    <3> QED BY <2>2, <3>2, <3>3, <3>4 DEF ExtremesObserved, lines
  <2> QED BY <2>9, <2>10
<1> QED BY <1>4, <1>5, <1>6, <1>7, <1>8, <1>9, <1>10, StepShapes

-----------------------------------------------------------------------------
(* Times: TimesReturn.                                                      *)

\* Fewer lines have the same numbers.
LEMMA NumbersBack ==
  ASSUME NEW m \in Nat, NEW kinds
  PROVE  /\ Numbers(m, kinds) \subseteq Numbers(m + 1, kinds)
         /\ \A i \in Numbers(m + 1, kinds) : i \in 1..m => i \in Numbers(m, kinds)
         /\ \A i \in Numbers(m, kinds) : i \in 1..m /\ log[i].kind \in kinds
         /\ \A i \in Numbers(m + 1, kinds) : i \in 1..m \/ i = m + 1
         /\ log[m + 1].kind \in kinds <=> m + 1 \in Numbers(m + 1, kinds)
<1>1. 1..m \subseteq 1..(m + 1) /\ m + 1 \in 1..(m + 1) OBVIOUS
<1>2. \A i \in 1..(m + 1) : i \in 1..m \/ i = m + 1 OBVIOUS
<1> QED BY <1>1, <1>2 DEF Numbers

\* Lines that keep to a convention have done so from the first.
LEMMA ConventionsBack ==
  ASSUME NEW m \in Nat
  PROVE  /\ Clean(m + 1) => Clean(m)
         /\ AbsoluteLog(m + 1) => AbsoluteLog(m)
         /\ BasedLog(m + 1) => BasedLog(m)
         /\ StartedLog(m + 1) => StartedLog(m) \/ m = 0
         /\ WholeSecondBases(m + 1) => WholeSecondBases(m)
<1>1. ASSUME NEW kinds
      PROVE  /\ Numbers(m, kinds) \subseteq Numbers(m + 1, kinds)
             /\ \A i \in Numbers(m, kinds) : i \in 1..m
             /\ \A i \in Numbers(m + 1, kinds) : i \in 1..m => i \in Numbers(m, kinds)
  BY NumbersBack
<1>2. 1..m \subseteq 1..(m + 1) OBVIOUS
<1>3. Clean(m + 1) => Clean(m) BY <1>1, <1>2 DEF Clean
<1>4. AbsoluteLog(m + 1) => AbsoluteLog(m) BY <1>1 DEF AbsoluteLog
<1>5. ASSUME BasedLog(m + 1) PROVE BasedLog(m)
  <2> SUFFICES ASSUME NEW i \in Numbers(m, {"interval"})
               PROVE  \E j \in Numbers(m, {"base"}) :
                        /\ j < i /\ log[j].sec = log[i].base \div K
                        /\ \A k \in Numbers(m, {"base"}) : k > i \/ k <= j
    BY DEF BasedLog
  <2>1. PICK j \in Numbers(m + 1, {"base"}) :
          /\ j < i /\ log[j].sec = log[i].base \div K
          /\ \A k \in Numbers(m + 1, {"base"}) : k > i \/ k <= j
    BY <1>1, <1>5 DEF BasedLog
  <2>2. i \in 1..m /\ j \in 1..(m + 1) BY <1>1 DEF Numbers
  <2>3. j \in 1..m BY <2>1, <2>2
  <2> QED BY <1>1, <2>1, <2>3
<1>6. ASSUME StartedLog(m + 1), m # 0 PROVE StartedLog(m)
  <2>1. 1 \in 1..m BY <1>6
  <2>2. Numbers(m, {"start"}) = {1} BY <1>1, <1>6, <2>1 DEF StartedLog
  <2> QED BY <1>1, <1>6, <2>2 DEF StartedLog
<1>7. WholeSecondBases(m + 1) => WholeSecondBases(m) BY <1>1 DEF WholeSecondBases
<1> QED BY <1>3, <1>4, <1>5, <1>6, <1>7

\* What a step leaves of the lines, seen from where the reader is after it.
LEMMA ConventionsStay ==
  ASSUME \A n \in 1..reader'.pos : log'[n] = log[n] /\ (n \in torn' <=> n \in torn)
  PROVE  /\ \A kinds : Numbers(reader.pos, kinds)' = Numbers(reader'.pos, kinds)
         /\ Clean(reader.pos)' => Clean(reader'.pos)
         /\ AbsoluteLog(reader.pos)' => AbsoluteLog(reader'.pos)
         /\ BasedLog(reader.pos)' => BasedLog(reader'.pos)
         /\ StartedLog(reader.pos)' => StartedLog(reader'.pos)
         /\ WholeSecondBases(reader.pos)' => WholeSecondBases(reader'.pos)
<1> DEFINE m == reader'.pos
<1>1. \A kinds : Numbers(reader.pos, kinds)' = Numbers(m, kinds) BY DEF Numbers
<1>2. \A kinds : \A i \in Numbers(m, kinds) : i \in 1..m /\ log'[i] = log[i] BY DEF Numbers
<1> HIDE DEF m
<1>3. Clean(reader.pos)' => Clean(m) BY <1>1, <1>2 DEF Clean, m
<1>4. AbsoluteLog(reader.pos)' => AbsoluteLog(m) BY <1>1, <1>2 DEF AbsoluteLog
<1>5. BasedLog(reader.pos)' => BasedLog(m) BY <1>1, <1>2 DEF BasedLog
<1>6. ASSUME StartedLog(reader.pos)' PROVE StartedLog(m)
  <2>1. Numbers(m, {"base"}) = {} /\ Numbers(m, {"start"}) = {1} BY <1>1, <1>6 DEF StartedLog
  <2>2. log'[1] = log[1] BY <1>2, <2>1
  <2>3. \A i \in Numbers(m, {"interval"}) :
          log'[i].base \div K = log'[1].sec /\ log'[i].at < log'[1].sec * K - Year
    BY <1>1, <1>6 DEF StartedLog
  <2> QED BY <1>2, <2>1, <2>2, <2>3 DEF StartedLog
<1>7. WholeSecondBases(reader.pos)' => WholeSecondBases(m) BY <1>1, <1>2 DEF WholeSecondBases
<1> QED BY <1>1, <1>3, <1>4, <1>5, <1>6, <1>7 DEF m

\* How a step of the reader changes what it knows of the times.
KnowsNothingNew ==
  /\ reader'.startTime = reader.startTime /\ reader'.observedStart = reader.observedStart
  /\ reader'.baseTime = reader.baseTime /\ reader'.observedBase = reader.observedBase
LearnsStart ==
  /\ Line.kind = "start" /\ reader'.startTime = Line.sec * K /\ reader'.observedStart
  /\ reader'.baseTime = reader.baseTime /\ reader'.observedBase = reader.observedBase
LearnsBase ==
  /\ Line.kind = "base" /\ reader'.baseTime = Line.sec * K /\ reader'.observedBase
  /\ reader'.startTime = reader.startTime /\ reader'.observedStart = reader.observedStart
Settles ==
  /\ AtInterval /\ reader'.observedStart /\ reader'.observedBase
  /\ reader'.startTime = Settled.startTime /\ reader'.baseTime = Settled.baseTime

\* Every step of the reader is one of these.
LEMMA ReaderLearns ==
  ASSUME TypeInv, ReaderStep \/ ReadFails
  PROVE  \/ Stays
         \/ Consumes /\ Line.kind \in {"badStart", "badBase"}
         \/ Consumes /\ Line.kind \in {"other", "interval"} /\ KnowsNothingNew
         \/ Consumes /\ (LearnsStart \/ LearnsBase \/ Settles)
<1>1. reader \in Readers BY DEF TypeInv
<1>2. Consumes => ~ReadEnd /\ ~ReadFails
  <2>1. reader.pos + 1 # reader.pos BY ShapeFacts
  <2> QED BY <2>1 DEF Consumes, ReadEnd, ReadFails
<1>3. Quits \/ Consumes
  <2>1. \A kind, t : Answers(kind, t) => Consumes BY DEF Answers
  <2> QED BY <2>1, ReaderShape
        DEF PassesOver, Passes, AnswersError, AnswersAfter, AnswersHistogram
<1>4. CASE Quits BY <1>4 DEF Quits
<1>5. CASE Consumes
  <2>1. CASE ReadStartTime
    <3> DEFINE r == [reader EXCEPT !.startTime = Line.sec * K, !.observedStart = TRUE]
    <3>1. Line.kind = "start" /\ reader.pos < Len(log) /\ reader' = Past(r)
      BY <2>1 DEF ReadStartTime, Reading
    <3>2. Line.sec * K \in Time BY <3>1, LineIn, LineTypes
    <3>3. /\ r \in Readers /\ r.startTime = Line.sec * K /\ r.observedStart
          /\ r.baseTime = reader.baseTime /\ r.observedBase = reader.observedBase
      BY <1>1, <3>2 DEF Readers
    <3> HIDE DEF r
    <3> QED BY <1>5, <3>1, <3>3, PastFacts DEF LearnsStart
  <2>2. CASE ReadBaseTime
    <3> DEFINE r == [reader EXCEPT !.baseTime = Line.sec * K, !.observedBase = TRUE]
    <3>1. Line.kind = "base" /\ reader.pos < Len(log) /\ reader' = Past(r)
      BY <2>2 DEF ReadBaseTime, Reading
    <3>2. Line.sec * K \in Time BY <3>1, LineIn, LineTypes
    <3>3. /\ r \in Readers /\ r.baseTime = Line.sec * K /\ r.observedBase
          /\ r.startTime = reader.startTime /\ r.observedStart = reader.observedStart
      BY <1>1, <3>2 DEF Readers
    <3> HIDE DEF r
    <3> QED BY <1>5, <3>1, <3>3, PastFacts DEF LearnsBase
  <2>3. CASE ReadBadHeader BY <1>5, <2>3 DEF ReadBadHeader, Reading
  <2>4. CASE ReadIgnored \/ ReadBadInterval
    <3>1. reader' = Past(reader) /\ Line.kind \in {"other", "interval"}
      BY <2>4 DEF ReadIgnored, ReadBadInterval, Reading
    <3> QED BY <1>1, <1>5, <3>1, PastFacts DEF KnowsNothingNew
  <2>5. CASE ReadBefore \/ ReadAfter \/ ReadCutPayload \/ ReadInterval
    <3>1. AtInterval /\ (reader' = Settled \/ reader' = Observed(Settled, Line.src))
      BY <2>5 DEF ReadBefore, ReadAfter, ReadCutPayload, ReadInterval, InRange
    <3>2. Settled \in Readers /\ Settled.observedStart /\ Settled.observedBase
      BY <3>1, ShapeFacts, SettledFacts
    <3>3. /\ Observed(Settled, Line.src).startTime = Settled.startTime
          /\ Observed(Settled, Line.src).baseTime = Settled.baseTime
          /\ Observed(Settled, Line.src).observedStart = Settled.observedStart
          /\ Observed(Settled, Line.src).observedBase = Settled.observedBase
      BY <3>2 DEF Observed, Readers
    <3> QED BY <1>5, <3>1, <3>2, <3>3 DEF Settles
  <2> QED BY <1>2, <1>5, <2>1, <2>2, <2>3, <2>4, <2>5 DEF ReaderStep
<1> QED BY <1>3, <1>4, <1>5

\* The base time that is settled at an interval of lines that keep to a convention.
LEMMA SettledBase ==
  ASSUME TypeInv, KnowsInv, Clean(reader.pos + 1), AtInterval
  PROVE  /\ Timestamp = Line.at
         /\ AbsoluteLog(reader.pos + 1) => Settled.baseTime = 0 /\ Line.base = 0
         /\ BasedLog(reader.pos + 1) =>
              reader.observedBase /\ Settled.baseTime = (Line.base \div K) * K
         /\ StartedLog(reader.pos + 1) =>
              /\ reader.pos >= 1 /\ Settled.startTime = log[1].sec * K
              /\ Settled.baseTime = log[1].sec * K /\ Line.base \div K = log[1].sec
<1> DEFINE n == reader.pos + 1
<1>1. /\ reader.pos \in Nat /\ Line.kind = "interval" /\ reader.pos < Len(log)
      /\ n \in 1..Len(log) /\ Line = log[n] /\ Len(log) \in Nat /\ reader.pos <= Len(log)
  BY ShapeFacts, LineIn DEF Line
<1>2. n \in Numbers(n, {"interval"}) BY <1>1, NumbersBack
<1>3. Line.at \in Int BY <1>1, LineIn, LineTypes
<1>4. Timestamp = Line.at BY <1>1, <1>2 DEF Clean, Timestamp
<1>5. /\ Settled.startTime = IF reader.observedStart THEN reader.startTime ELSE Timestamp
      /\ Settled.baseTime = IF reader.observedBase THEN reader.baseTime
                            ELSE IF Timestamp < Settled.startTime - Year THEN Settled.startTime ELSE 0
  BY <1>1, SettledFacts
<1>9. /\ Clean(reader.pos)
      /\ AbsoluteLog(n) => AbsoluteLog(reader.pos)
      /\ BasedLog(n) => BasedLog(reader.pos)
      /\ StartedLog(n) => StartedLog(reader.pos) \/ reader.pos = 0
  BY <1>1, ConventionsBack
<1>10. \A kinds : Numbers(reader.pos, kinds) \subseteq Numbers(n, kinds) BY <1>1, NumbersBack
<1> HIDE DEF n
<1>6. ASSUME AbsoluteLog(n) PROVE Settled.baseTime = 0 /\ Line.base = 0
  <2>1. KnowsAbsolute BY <1>6, <1>9 DEF KnowsInv
  <2>2. /\ Line.base = 0
        /\ \A j \in Numbers(n, {"start"}) : log[j].sec * K - Year <= Line.at
    BY <1>1, <1>2, <1>6 DEF AbsoluteLog
  <2>3. CASE reader.observedBase BY <1>5, <2>1, <2>2, <2>3 DEF KnowsAbsolute
  <2>4. CASE ~reader.observedBase /\ reader.observedStart
    <3>1. PICK j \in Numbers(reader.pos, {"start"}) : reader.startTime = log[j].sec * K
      BY <2>1, <2>4 DEF KnowsAbsolute
    <3>2. j \in 1..reader.pos /\ log[j].kind = "start" BY DEF Numbers
    <3>6. j \in 1..Len(log) BY <1>1, <3>2
    <3>3. log[j].sec * K \in Int
      <4>1. log[j] \in Lines BY <3>6 DEF TypeInv
      <4> QED BY <3>2, <4>1, LineTypes
    <3>4. log[j].sec * K - Year <= Line.at BY <1>10, <2>2
    <3>5. ~(Timestamp < reader.startTime - Year) BY <1>3, <1>4, <3>1, <3>3, <3>4, LogAssumption
    <3> QED BY <1>5, <2>2, <2>4, <3>5
  <2>5. CASE ~reader.observedBase /\ ~reader.observedStart
    <3>1. ~(Timestamp < Timestamp - Year) BY <1>3, <1>4, LogAssumption
    <3> QED BY <1>5, <2>2, <2>5, <3>1
  <2> QED BY <2>3, <2>4, <2>5
<1>7. ASSUME BasedLog(n) PROVE reader.observedBase /\ Settled.baseTime = (Line.base \div K) * K
  <2>1. PICK j \in Numbers(n, {"base"}) :
          j < n /\ log[j].sec = Line.base \div K /\ \A k \in Numbers(n, {"base"}) : k > n \/ k <= j
    BY <1>1, <1>2, <1>7 DEF BasedLog
  <2>2. j \in 1..n /\ log[j].kind = "base" BY DEF Numbers
  <2>3. j \in 1..reader.pos BY <1>1, <2>1, <2>2 DEF n
  <2>6. j \in Numbers(reader.pos, {"base"}) BY <2>2, <2>3 DEF Numbers
  <2>4. ASSUME NEW k \in Numbers(reader.pos, {"base"}) PROVE k <= j
    <3>1. k \in 1..reader.pos BY DEF Numbers
    <3>2. k > n \/ k <= j BY <1>10, <2>1
    <3>3. ~(k > n) BY <1>1, <3>1 DEF n
    <3> QED BY <3>2, <3>3
  <2>5. reader.observedBase /\ reader.baseTime = log[j].sec * K
    BY <1>7, <1>9, <2>4, <2>6 DEF KnowsInv, KnowsBase
  <2> QED BY <1>5, <2>1, <2>5
<1>8. ASSUME StartedLog(n)
      PROVE  /\ reader.pos >= 1 /\ Settled.startTime = log[1].sec * K
             /\ Settled.baseTime = log[1].sec * K /\ Line.base \div K = log[1].sec
  <2>1. 1 \in Numbers(n, {"start"}) BY <1>8 DEF StartedLog
  <2>2. log[1].kind = "start" BY <2>1 DEF Numbers
  <2>3. n # 1 BY <1>1, <2>2
  <2>4. reader.pos >= 1 BY <1>1, <2>3 DEF n
  <2>7. reader.pos # 0 BY <1>1, <2>4
  <2>5. /\ reader.observedStart /\ reader.startTime = log[1].sec * K
        /\ reader.observedBase => reader.baseTime = reader.startTime
    BY <1>8, <1>9, <2>4, <2>7 DEF KnowsInv, KnowsStart
  <2>6. Line.base \div K = log[1].sec /\ Line.at < log[1].sec * K - Year
    BY <1>1, <1>2, <1>8 DEF StartedLog
  <2> QED BY <1>4, <1>5, <2>4, <2>5, <2>6
<1> QED BY <1>4, <1>6, <1>7, <1>8 DEF n

\* The reader computes the start and the end that were written.
LEMMA KnownTime ==
  ASSUME TypeInv, TornInv, KnowsInv, Kept(reader.pos + 1), AtInterval
  PROVE  /\ AbsoluteStart = Line.src.start /\ AbsoluteStart \in Int
         /\ AbsoluteStart + Line.len = Line.src.end /\ Line.src.end \in Int
<1> DEFINE n == reader.pos + 1
<1>1. /\ Clean(n) /\ WholeSecondBases(n) /\ (AbsoluteLog(n) \/ BasedLog(n) \/ StartedLog(n))
  BY DEF Kept, Conventional
<1>2. /\ Line.kind = "interval" /\ reader.pos < Len(log) /\ Line \in Lines /\ Line = log[n]
      /\ reader.pos \in Nat /\ n \in 1..Len(log) /\ n \in 1..n
  BY ShapeFacts, LineIn DEF Line
<1>7. n \notin torn BY <1>1, <1>2 DEF Clean
<1>8. n \in Numbers(n, {"interval"}) BY <1>2, NumbersBack
<1>3. /\ Line.at = Line.src.start - Line.base /\ Line.base \in Nat /\ Line.src.start \in Int
      /\ Line.at \in Int /\ Line.len = Line.src.end - Line.src.start /\ Line.src.end \in Int
  <2>1. AsWritten(Line) BY <1>2, <1>7 DEF TornInv
  <2> QED BY <1>2, <2>1, LineTypes, LogAssumption DEF Int64, AsWritten
<1>4. (Line.base \div K) * K = Line.base
  <2>1. Line.base % K = 0 BY <1>1, <1>2, <1>8 DEF WholeSecondBases
  <2>2. (Line.base \div K) * K = Line.base - (Line.base % K) BY <1>3, Seconds
  <2> QED BY <1>3, <2>1, <2>2
<1>5. Timestamp = Line.at BY <1>1, SettledBase
<1>6. Settled.baseTime = Line.base
  <2>1. CASE AbsoluteLog(n) BY <1>1, <2>1, SettledBase
  <2>2. CASE BasedLog(n) BY <1>1, <1>4, <2>2, SettledBase
  <2>3. CASE StartedLog(n)
    <3>1. Settled.baseTime = (Line.base \div K) * K BY <1>1, <2>3, SettledBase
    <3> QED BY <1>4, <3>1
  <2> QED BY <1>1, <2>1, <2>2, <2>3
<1> QED BY <1>3, <1>5, <1>6 DEF AbsoluteStart

\* What the reader knows of lines that keep to a convention.
LEMMA KnowsStep == TypeInv /\ KnowsInv /\ [Next]_vars => KnowsInv'
<1> SUFFICES ASSUME TypeInv, KnowsInv, [Next]_vars PROVE KnowsInv' OBVIOUS
<1>1. reader.pos \in Nat /\ Len(log) \in Nat /\ reader.pos <= Len(log) BY ShapeFacts DEF TypeInv
<1>2. ASSUME Stays PROVE KnowsInv'
  <2>1. /\ reader' = reader
        /\ \A i \in 1..reader'.pos : log'[i] = log[i] /\ (i \in torn' <=> i \in torn)
    BY <1>2 DEF Stays
  <2>2. /\ \A kinds : Numbers(reader.pos, kinds)' = Numbers(reader.pos, kinds)
        /\ Clean(reader.pos)' => Clean(reader.pos)
        /\ AbsoluteLog(reader.pos)' => AbsoluteLog(reader.pos)
        /\ BasedLog(reader.pos)' => BasedLog(reader.pos)
        /\ StartedLog(reader.pos)' => StartedLog(reader.pos)
    BY <2>1, ConventionsStay
  <2>3. \A kinds : \A i \in Numbers(reader.pos, kinds) : log'[i] = log[i] BY <2>1 DEF Numbers
  <2>4. KnowsAbsolute => KnowsAbsolute' BY <2>1, <2>2, <2>3 DEF KnowsAbsolute
  <2>5. KnowsBase => KnowsBase' BY <2>1, <2>2, <2>3 DEF KnowsBase
  <2>6. KnowsStart => KnowsStart'
    <3>1. reader.pos >= 1 => log'[1] = log[1] BY <1>1, <2>1
    <3> QED BY <2>1, <3>1 DEF KnowsStart
  <2> QED BY <2>1, <2>2, <2>4, <2>5, <2>6 DEF KnowsInv
<1>4. ASSUME ReaderStep \/ ReadFails, Consumes PROVE KnowsInv'
  <2> DEFINE n == reader.pos + 1
  <2>1. /\ log' = log /\ torn' = torn /\ reader'.pos = n /\ n \in 1..Len(log) /\ Line = log[n]
        /\ n >= 1 /\ reader.pos < Len(log)
    BY <1>1, <1>4, ShapeFacts DEF Consumes
  <2>2. /\ \A kinds : Numbers(reader.pos, kinds)' = Numbers(n, kinds)
        /\ Clean(reader.pos)' => Clean(n)
        /\ AbsoluteLog(reader.pos)' => AbsoluteLog(n)
        /\ BasedLog(reader.pos)' => BasedLog(n)
        /\ StartedLog(reader.pos)' => StartedLog(n)
    BY <2>1, ConventionsStay
  <2>3. /\ Clean(n) => Clean(reader.pos)
        /\ AbsoluteLog(n) => AbsoluteLog(reader.pos)
        /\ BasedLog(n) => BasedLog(reader.pos)
        /\ StartedLog(n) => StartedLog(reader.pos) \/ reader.pos = 0
    BY <1>1, ConventionsBack
  <2>4. ASSUME NEW kinds
        PROVE  /\ Numbers(reader.pos, kinds) \subseteq Numbers(n, kinds)
               /\ \A i \in Numbers(n, kinds) : i = n \/ i \in Numbers(reader.pos, kinds)
               /\ n \in Numbers(n, kinds) <=> Line.kind \in kinds
    BY <1>1, <2>1, NumbersBack
  <2>5. \A kinds : \A i \in Numbers(reader.pos, kinds) : i \in Int /\ i < n
    <3>1. \A i \in 1..reader.pos : i \in Int /\ i < n BY <1>1
    <3> QED BY <3>1 DEF Numbers
  <2>6. reader'.pos # 0 BY <2>1
  <2>7. \/ Line.kind \in {"badStart", "badBase"}
        \/ Line.kind \in {"other", "interval"} /\ KnowsNothingNew
        \/ LearnsStart \/ LearnsBase \/ Settles
    <3>1. ~Stays BY <1>1, <2>1 DEF Stays
    <3> QED BY <1>4, <3>1, ReaderLearns
  <2>8. n = 1 => reader.pos = 0 BY <1>1
  <2>9. n # 1 => reader.pos >= 1 /\ reader.pos # 0 BY <1>1
  <2>13. n \in Int BY <1>1
  <2>14. ASSUME Clean(n) PROVE Line.kind \notin {"badStart", "badBase"}
    BY <2>4, <2>14 DEF Clean
  <2>15. ASSUME Clean(n), Settles
         PROVE  /\ Line.kind = "interval"
                /\ AbsoluteLog(n) => Settled.baseTime = 0
                /\ StartedLog(n) => Settled.startTime = log[1].sec * K /\ Settled.baseTime = log[1].sec * K
                /\ reader.observedBase => Settled.baseTime = reader.baseTime
    <3>1. AtInterval /\ Line.kind = "interval" BY <2>15, ShapeFacts DEF Settles
    <3> QED BY <2>1, <2>15, <3>1, SettledBase, SettledFacts
  <2> HIDE DEF n
  <2>10. ASSUME Clean(n), AbsoluteLog(n) PROVE KnowsAbsolute'
    <3>1. KnowsAbsolute BY <2>3, <2>10 DEF KnowsInv
    <3>2. Line.kind # "base" BY <2>4, <2>10 DEF AbsoluteLog
    <3>3. CASE KnowsNothingNew BY <2>1, <2>2, <2>4, <3>1, <3>3 DEF KnowsAbsolute, KnowsNothingNew
    <3>4. CASE LearnsStart
      <4>1. n \in Numbers(n, {"start"}) BY <2>4, <3>4 DEF LearnsStart
      <4> QED BY <2>1, <2>2, <3>1, <3>4, <4>1 DEF KnowsAbsolute, LearnsStart
    <3>5. CASE Settles BY <2>10, <2>15, <3>5 DEF KnowsAbsolute, Settles
    <3> QED BY <2>7, <2>10, <2>14, <3>2, <3>3, <3>4, <3>5 DEF LearnsBase
  <2>11. ASSUME Clean(n), BasedLog(n) PROVE KnowsBase'
    <3>1. KnowsBase BY <2>3, <2>11 DEF KnowsInv
    <3>3. ASSUME Line.kind # "base", NEW j \in Numbers(n, {"base"}),
                 \A k \in Numbers(n, {"base"}) : k <= j
          PROVE  reader.observedBase /\ reader.baseTime = log[j].sec * K
      <4>1. j \in Numbers(reader.pos, {"base"}) BY <2>4, <3>3
      <4> QED BY <2>4, <3>1, <3>3, <4>1 DEF KnowsBase
    <3>4. CASE LearnsBase
      <4>1. n \in Numbers(n, {"base"}) BY <2>4, <3>4 DEF LearnsBase
      <4>2. ASSUME NEW j \in Numbers(n, {"base"}), \A k \in Numbers(n, {"base"}) : k <= j PROVE j = n
        <5>1. n <= j /\ (j = n \/ (j \in Int /\ j < n)) BY <2>4, <2>5, <4>1, <4>2
        <5> QED BY <2>13, <5>1
      <4> QED BY <2>1, <2>2, <3>4, <4>2 DEF KnowsBase, LearnsBase
    <3>5. CASE KnowsNothingNew /\ Line.kind \in {"other", "interval"}
      BY <2>1, <2>2, <3>3, <3>5 DEF KnowsBase, KnowsNothingNew
    <3>6. CASE LearnsStart BY <2>1, <2>2, <3>3, <3>6 DEF KnowsBase, LearnsStart
    <3>7. CASE Settles BY <2>1, <2>2, <2>11, <2>15, <3>3, <3>7 DEF KnowsBase, Settles
    <3> QED BY <2>7, <2>11, <2>14, <3>4, <3>5, <3>6, <3>7
  <2>12. ASSUME Clean(n), StartedLog(n) PROVE KnowsStart'
    <3>2. Line.kind # "base" BY <2>4, <2>12 DEF StartedLog
    <3>3. 1 \in Numbers(n, {"start"}) BY <2>12 DEF StartedLog
    <3>4. log[1].kind = "start" BY <3>3 DEF Numbers
    <3>5. CASE KnowsNothingNew /\ Line.kind \in {"other", "interval"}
      <4>1. n # 1 BY <2>1, <3>4, <3>5
      <4>2. KnowsStart BY <2>3, <2>9, <2>12, <4>1 DEF KnowsInv
      <4> QED BY <2>1, <2>9, <3>5, <4>1, <4>2 DEF KnowsStart, KnowsNothingNew
    <3>6. CASE LearnsStart
      <4>1. n \in Numbers(n, {"start"}) BY <2>4, <3>6 DEF LearnsStart
      <4>2. n = 1 BY <2>12, <4>1 DEF StartedLog
      <4>3. ~reader.observedBase BY <2>8, <4>2 DEF KnowsInv
      <4> QED BY <2>1, <3>6, <4>2, <4>3 DEF KnowsStart, LearnsStart
    <3>7. CASE Settles BY <2>1, <2>12, <2>15, <3>7 DEF KnowsStart, Settles
    <3> QED BY <2>7, <2>12, <2>14, <3>2, <3>5, <3>6, <3>7 DEF LearnsBase
  <2> QED BY <2>2, <2>6, <2>10, <2>11, <2>12 DEF KnowsInv
<1>5. CASE ReaderStep \/ ReadFails BY <1>2, <1>4, <1>5, ReaderLearns
<1>6. CASE Writes \/ Begun
  <2>1. UNCHANGED <<log, torn, reader>> => Stays BY <1>1 DEF Stays, TypeInv
  <2> QED BY <1>2, <1>6, <2>1 DEF Writes, Begun, Idle
<1> QED BY <1>5, <1>6, NextShape

\* Lines that keep the times after a step do so where the reader is then, and did before.
LEMMA KeptBack ==
  ASSUME TypeInv, [Next]_vars, Kept(reader.pos)'
  PROVE  Kept(reader'.pos) /\ Kept(reader.pos)
<1>1. reader.pos \in Nat BY ShapeFacts
<1>2. /\ \A n \in 1..reader'.pos : log'[n] = log[n] /\ (n \in torn' <=> n \in torn)
      /\ reader'.pos \in {reader.pos, reader.pos + 1}
  <2>1. Stays => /\ \A n \in 1..reader'.pos : log'[n] = log[n] /\ (n \in torn' <=> n \in torn)
                 /\ reader'.pos = reader.pos
    BY DEF Stays
  <2>2. Consumes => UNCHANGED <<log, torn>> /\ reader'.pos = reader.pos + 1 BY DEF Consumes
  <2>3. Begun => UNCHANGED <<log, torn, reader>> BY DEF Begun, Idle
  <2>4. PassesOver => Consumes BY ShapeFacts
  <2> QED BY <2>1, <2>2, <2>3, <2>4, StepShapes DEF Writes, GivesUp, GivesError, GivesAfter, GivesHistogram
<1>3. /\ Clean(reader.pos)' /\ WholeSecondBases(reader.pos)'
      /\ AbsoluteLog(reader.pos)' \/ BasedLog(reader.pos)' \/ StartedLog(reader.pos)'
  BY DEF Kept, Conventional
<1>4. Kept(reader'.pos) BY <1>2, <1>3, ConventionsStay DEF Kept, Conventional
<1>5. ASSUME Kept(reader.pos + 1) PROVE Kept(reader.pos)
  <2>1. reader.pos = 0 => AbsoluteLog(reader.pos)
    <3>1. \A kinds : Numbers(0, kinds) = {} BY DEF Numbers
    <3> QED BY <3>1 DEF AbsoluteLog
  <2> QED BY <1>1, <1>5, <2>1, ConventionsBack DEF Kept, Conventional
<1> QED BY <1>2, <1>4, <1>5

\* A product with 1000.0 loses at most a millisecond.
LEMMA TruncatedFacts ==
  ASSUME NEW t \in Int, NEW s \in Truncated(t)
  PROVE  s \in {t - 1, t}
BY DEF Truncated

\* Histograms of lines that keep the times come with theirs.
LEMMA TimesStep ==
  TypeInv /\ TornInv /\ OrderInv /\ KnowsInv /\ TimesReturn /\ [Next]_vars => TimesReturn'
<1> DEFINE Returned(g, l) == /\ g.start \in {l.src.start - 1, l.src.start}
                             /\ g.end \in {l.src.end - 1, l.src.end}
<1> SUFFICES ASSUME TypeInv, TornInv, OrderInv, KnowsInv, TimesReturn, [Next]_vars,
                    Kept(reader.pos)',
                    NEW i \in 1..Len(got'), got'[i].kind = "histogram"
             PROVE  Returned(got'[i], log'[got'[i].line])
  BY DEF TimesReturn, TimesKept, Kept
<1>1. Kept(reader.pos) /\ Kept(reader'.pos) BY KeptBack
<1>2. Len(got) \in Nat BY ShapeFacts
<1>3. ASSUME i \in 1..Len(got), got'[i] = got[i], \A n \in 1..reader.pos : log'[n] = log[n]
      PROVE  Returned(got'[i], log'[got'[i].line])
  <2>1. got[i].line \in 1..reader.pos BY <1>3, ResultLines
  <2>2. Returned(got[i], log[got[i].line]) BY <1>1, <1>3 DEF TimesReturn, TimesKept, Kept
  <2> HIDE DEF Returned
  <2> QED BY <1>3, <2>1, <2>2
<1> HIDE DEF Returned
<1>4. CASE Writes BY <1>3, <1>4 DEF Writes, Stays
<1>5. CASE Begun \/ PassesOver BY <1>3, <1>5, ShapeFacts DEF Begun, Idle
<1>6. CASE GivesUp BY <1>2, <1>3, <1>6 DEF GivesUp, Stays, Adds
<1>7. CASE GivesError BY <1>2, <1>3, <1>7, ShapeFacts DEF GivesError, Adds
<1>8. CASE GivesAfter BY <1>2, <1>3, <1>8, ShapeFacts DEF GivesAfter, Adds
<1>9. CASE GivesHistogram
  <2>1. log' = log /\ Line = log[reader.pos + 1] /\ AtInterval /\ reader'.pos = reader.pos + 1
    BY <1>9, ShapeFacts DEF GivesHistogram, InRange
  <2>2. CASE i \in 1..Len(got) BY <1>3, <1>9, <2>1, <2>2 DEF GivesHistogram, Adds
  <2>3. CASE i = Len(got) + 1
    <3>1. /\ AbsoluteStart = Line.src.start /\ AbsoluteStart \in Int
          /\ AbsoluteStart + Line.len = Line.src.end /\ Line.src.end \in Int
      BY <1>1, <2>1, KnownTime
    <3>2. /\ got'[i].start \in Truncated(AbsoluteStart)
          /\ got'[i].end \in TruncatedSum(AbsoluteStart + Line.len)
          /\ got'[i].line = reader.pos + 1
      BY <1>9, <2>3 DEF GivesHistogram, Adds
    <3>4. /\ got'[i].start \in {Line.src.start - 1, Line.src.start}
          /\ got'[i].end \in {Line.src.end - 1, Line.src.end}
      BY <3>1, <3>2, TruncatedFacts DEF TruncatedSum
    <3> QED BY <2>1, <3>2, <3>4 DEF Returned
  <2> QED BY <1>2, <1>9, <2>2, <2>3 DEF GivesHistogram, Adds
<1> QED BY <1>4, <1>5, <1>6, <1>7, <1>8, <1>9, StepShapes

-----------------------------------------------------------------------------
(* Ranges: RangeComplete.                                                   *)

\* A reader that keeps to an absolute range gets the intervals that begin in it.
LEMMA RangeStep ==
  TypeInv /\ TornInv /\ OrderInv /\ KnowsInv /\ RangeInv /\ [Next]_vars => RangeInv'
<1> SUFFICES ASSUME TypeInv, TornInv, OrderInv, KnowsInv, RangeInv, [Next]_vars,
                    NEW r \in Ranges, r.absolute, Kept(reader.pos)', OnlyRange(r)'
             PROVE  /\ \A n \in 1..reader'.pos :
                         WholeLine(log'[n]) /\ Begins(r, log'[n]) => Answered(got', n, "histogram")
                    /\ \A i \in 1..Len(got') :
                         got'[i].kind = "histogram" => Begins(r, log'[got'[i].line])
  BY DEF RangeInv, WholeLine, IsInterval, Begins
<1>1. Kept(reader.pos) /\ Kept(reader'.pos) /\ OnlyRange(r) BY KeptBack, OnlyRangeBack
<1>2. /\ reader.pos \in Nat /\ Len(log) \in Nat /\ reader.pos <= Len(log) /\ Len(got) \in Nat
  BY ShapeFacts DEF TypeInv
<1>3. /\ \A n \in 1..reader.pos :
           WholeLine(log[n]) /\ Begins(r, log[n]) => Answered(got', n, "histogram")
      /\ \A i \in 1..Len(got) : got[i].kind = "histogram" => Begins(r, log[got[i].line])
  BY <1>1, AnsweredStays DEF RangeInv
<1>4. CASE Writes
  <2>1. UNCHANGED <<reader, got>> /\ \A n \in 1..reader.pos : log'[n] = log[n]
    BY <1>4 DEF Writes, Stays
  <2> QED BY <1>3, <2>1, ResultLines
<1>5. CASE Begun BY <1>3, <1>5 DEF Begun, Idle
<1>6. CASE GivesUp
  <2>1. reader' = reader /\ \A n \in 1..reader.pos : log'[n] = log[n] BY <1>6 DEF GivesUp, Stays
  <2>2. PICK kind \in {"end", "failed"} : Adds(kind, 0, call.tag) BY <1>6 DEF GivesUp
  <2>3. ASSUME NEW i \in 1..Len(got'), got'[i].kind = "histogram" PROVE Begins(r, log'[got'[i].line])
    <3>1. i \in 1..Len(got) /\ got'[i] = got[i] BY <1>2, <2>2, <2>3 DEF Adds
    <3> QED BY <1>3, <2>1, <2>3, <3>1, ResultLines
  <2> QED BY <1>3, <2>1, <2>3
<1>7. ASSUME Consumes, WholeLine(Line) /\ Begins(r, Line) => Answered(got', reader.pos + 1, "histogram")
      PROVE  \A n \in 1..reader'.pos :
               WholeLine(log'[n]) /\ Begins(r, log'[n]) => Answered(got', n, "histogram")
  <2>1. log' = log /\ reader'.pos = reader.pos + 1 /\ Line = log[reader.pos + 1] BY <1>7, ShapeFacts
  <2>2. \A n \in 1..(reader.pos + 1) : n \in 1..reader.pos \/ n = reader.pos + 1 BY <1>2
  <2> QED BY <1>3, <1>7, <2>1, <2>2
<1>8. ASSUME ~Writes, ~Begun, AtInterval, Consumes
      PROVE  /\ Begins(r, Line) <=> ~Before /\ ~(RangeTime > call.range.hi)
             /\ RangeTime \in Int /\ call.range.hi \in Int
  <2>1. call.range = r BY <1>8, OnlyRangeBack
  <2>2. RangeTime = Line.src.start /\ RangeTime \in Int
    <3>1. Kept(reader.pos + 1) BY <1>1, <1>8 DEF Consumes
    <3> QED BY <1>8, <2>1, <3>1, KnownTime, ShapeFacts, StartBounds
  <2>3. r.lo \in Int /\ r.hi \in Int BY ReaderAssumption
  <2>4. Begins(r, Line) <=> RangeTime >= r.lo /\ RangeTime <= r.hi BY <2>2, <2>3 DEF Begins
  <2> QED BY <2>1, <2>2, <2>3, <2>4 DEF Before
<1>9. CASE ~Writes /\ ~Begun /\ PassesOver
  <2>1. Consumes /\ log' = log /\ got' = got BY <1>9, ShapeFacts
  <2>2. ~(WholeLine(Line) /\ Begins(r, Line)) BY <1>8, <1>9, <2>1 DEF PassesOver, WholeLine, DueLine
  <2> QED BY <1>3, <1>7, <2>1, <2>2
<1>10. ASSUME NEW kind, NEW t, Adds(kind, reader.pos + 1, t), Consumes,
              kind = "histogram" => Begins(r, Line)
       PROVE  \A i \in 1..Len(got') : got'[i].kind = "histogram" => Begins(r, log'[got'[i].line])
  <2>1. log' = log /\ Line = log[reader.pos + 1] BY <1>10, ShapeFacts
  <2>2. \A i \in 1..Len(got') : i \in 1..Len(got) \/ i = Len(got) + 1 BY <1>2, <1>10 DEF Adds
  <2> QED BY <1>3, <1>10, <2>1, <2>2 DEF Adds
<1>11. CASE GivesError BY <1>7, <1>10, <1>11 DEF GivesError
<1>12. CASE ~Writes /\ ~Begun /\ GivesAfter BY <1>7, <1>8, <1>10, <1>12 DEF GivesAfter
<1>13. CASE ~Writes /\ ~Begun /\ GivesHistogram
  <2>1. AtInterval /\ Consumes /\ Adds("histogram", reader.pos + 1, LineTag)
    BY <1>13 DEF GivesHistogram, InRange
  <2>2. Answered(got', reader.pos + 1, "histogram") BY <2>1, AddsAnswers
  <2>3. ~Before /\ RangeTime <= call.range.hi BY <1>13 DEF GivesHistogram, InRange
  <2>4. Begins(r, Line) BY <1>8, <1>13, <2>1, <2>3
  <2> QED BY <1>7, <1>10, <2>1, <2>2, <2>4
<1> QED BY <1>4, <1>5, <1>6, <1>9, <1>11, <1>12, <1>13, StepShapes

-----------------------------------------------------------------------------
(* The theorems.                                                            *)

LogInv ==
  /\ TypeInv /\ TornInv /\ OrderInv /\ KindInv /\ CompleteInv /\ TagInv /\ ExtremesObserved
  /\ KnowsInv /\ TimesReturn /\ RangeInv

\* A new log, writer and reader satisfy every part.
LEMMA LogInit == Init => LogInv
<1> SUFFICES ASSUME Init PROVE LogInv OBVIOUS
<1>1. TypeInv BY TypeInit
<1>2. Len(got) = 0 /\ reader.pos = 0 /\ call.tag = NoTag /\ ~reader.observedBase /\ ~reader.observedStart
  BY DEF Init, NoCall
<1>3. 1..Len(got) = {} /\ 1..reader.pos = {} BY <1>2
<1>4. OrderInv /\ KindInv /\ CompleteInv /\ TimesReturn /\ RangeInv
  BY <1>3 DEF OrderInv, KindInv, CompleteInv, TimesReturn, RangeInv
<1>5. TagInv BY <1>2, <1>3 DEF TagInv, TagHeld, TagsReturn
<1>6. ExtremesObserved
  <2>1. LinesOf({"histogram"}) = {} BY <1>3 DEF LinesOf
  <2>2. reader.max = -(MaxInt64 + 1) /\ reader.min = MaxInt64 BY DEF Init
  <2> QED BY <2>1, <2>2 DEF ExtremesObserved
<1>7. KnowsInv
  <2>1. Numbers(reader.pos, {"base"}) = {} BY <1>3 DEF Numbers
  <2> QED BY <1>2, <2>1 DEF KnowsInv, KnowsAbsolute, KnowsBase, KnowsStart
<1>8. TornInv
  <2>1. partial = NoLine /\ torn = {} /\ 1..Len(log) = {} BY DEF Init
  <2> QED BY <2>1 DEF TornInv
<1> QED BY <1>1, <1>4, <1>5, <1>6, <1>7, <1>8 DEF LogInv

\* Every step of the writer and of the reader keeps every part.
LEMMA LogStep == LogInv /\ [Next]_vars => LogInv'
BY TypeStep, TornStep, OrderStep, KindStep, CompleteStep, TagStep, ExtremesStep, KnowsStep, TimesStep, RangeStep
   DEF LogInv

\* The invariant of the interval log.
LEMMA LogInvariant == Spec => []LogInv
<1>1. Init => LogInv BY LogInit
<1>2. LogInv /\ [Next]_vars => LogInv' BY LogStep
<1> QED BY <1>1, <1>2, PTL DEF Spec

\* Results with a line come in the order of the log.
LEMMA LinesInOrder ==
  ASSUME TypeInv, OrderInv, NEW kinds, kinds \subseteq {"error", "histogram"}
  PROVE  InOrder(kinds)
<1> SUFFICES ASSUME NEW i \in 1..Len(got), NEW k \in 1..(i - 1), {got[k].kind, got[i].kind} \subseteq kinds
             PROVE  got[k].line < got[i].line
  BY DEF InOrder
<1>1. got[i].line \in 1..reader.pos BY ResultLines
<1>2. got[i].line # 0 BY <1>1, ShapeFacts
<1> QED BY <1>2 DEF OrderInv

\* The lines of the results of some kinds.
LEMMA LinesOfAnswered ==
  ASSUME NEW kinds, NEW n
  PROVE  n \in LinesOf(kinds) <=> \E kind \in kinds : Answered(got, n, kind)
BY DEF LinesOf, Answered

\* The property's types follow from the invariant's.
LEMMA TypesHold == LogInv => TypeOK
<1> SUFFICES ASSUME LogInv PROVE TypeOK OBVIOUS
<1> USE DEF LogInv
<1>1. /\ baseTime \in Nat /\ Len(log) <= MaxLines /\ call.active \in BOOLEAN
      /\ reader.pos \in 0..Len(log) /\ torn \subseteq 1..Len(log)
  BY ShapeFacts, LogAssumption DEF TypeInv
<1>4. partial.kind \in {"none", "other", "badStart", "badBase", "start", "base", "interval"}
  BY LineKinds DEF TypeInv, NoLine
<1>2. /\ reader.startTime \in Nat /\ reader.baseTime \in Nat
      /\ reader.observedStart \in BOOLEAN /\ reader.observedBase \in BOOLEAN
      /\ reader.max \in Int64 /\ reader.min \in Int64
  BY LogAssumption DEF TypeInv, Readers, Time
<1>3. ASSUME NEW i \in 1..Len(got)
      PROVE  /\ got[i].kind \in {"end", "failed", "error", "after", "histogram"}
             /\ got[i].line \in 0..reader.pos
  <2>1. got[i].line \in Nat /\ got[i].kind \in ResultKinds BY ResultTypes
  <2>2. got[i].line <= reader.pos /\ reader.pos \in Nat BY ShapeFacts DEF OrderInv
  <2> QED BY <2>1, <2>2 DEF ResultKinds
<1> QED BY <1>1, <1>2, <1>3, <1>4 DEF TypeOK

\* A program that reads with NextIntervalHistogram gets every interval once and in
\* order, whatever lies between them and however its calls interleave with the writers;
\* what may be missing is on a line that a failed read or a stopped write has torn.
THEOREM NothingIsLost == Spec => []NothingLost
<1>1. LogInv => NothingLost
  <2> SUFFICES ASSUME LogInv PROVE NothingLost OBVIOUS
  <2> USE DEF LogInv
  <2>1. TypeOK BY TypesHold
  <2>2. InOrder({"histogram", "error"}) BY LinesInOrder
  <2>3. ASSUME OnlyRange(WholeLog)
        PROVE  LinesOf({"histogram", "error"}) = {n \in 1..reader.pos : DueLine(log[n])}
    <3>1. ASSUME NEW n \in LinesOf({"histogram", "error"}) PROVE n \in 1..reader.pos /\ DueLine(log[n])
      <4>1. PICK i \in 1..Len(got) : got[i].kind \in {"histogram", "error"} /\ got[i].line = n
        BY DEF LinesOf
      <4>2. n \in 1..reader.pos BY <4>1, ResultLines
      <4>3. DueLine(log[n]) BY <4>1 DEF KindInv, WholeLine, DueLine
      <4> QED BY <4>2, <4>3
    <3>2. ASSUME NEW n \in 1..reader.pos, DueLine(log[n]) PROVE n \in LinesOf({"histogram", "error"})
      <4>1. Answered(got, n, IF WholeLine(log[n]) THEN "histogram" ELSE "error")
        BY <2>3, <3>2 DEF CompleteInv
      <4> QED BY <4>1, LinesOfAnswered
    <3> QED BY <3>1, <3>2
  <2>4. ASSUME OnlyRange(WholeLog)
        PROVE  LinesOf({"histogram"}) = {n \in 1..reader.pos : WholeLine(log[n])}
    <3>1. ASSUME NEW n \in LinesOf({"histogram"}) PROVE n \in 1..reader.pos /\ WholeLine(log[n])
      <4>1. PICK i \in 1..Len(got) : got[i].kind = "histogram" /\ got[i].line = n
        BY DEF LinesOf
      <4>2. n \in 1..reader.pos BY <4>1, ResultLines
      <4>3. WholeLine(log[n]) BY <4>1 DEF KindInv
      <4> QED BY <4>2, <4>3
    <3>2. ASSUME NEW n \in 1..reader.pos, WholeLine(log[n]) PROVE n \in LinesOf({"histogram"})
      <4>1. DueLine(log[n]) BY <3>2 DEF WholeLine, DueLine
      <4>2. Answered(got, n, "histogram") BY <2>4, <3>2, <4>1 DEF CompleteInv
      <4> QED BY <4>2, LinesOfAnswered
    <3> QED BY <3>1, <3>2
  <2>5. torn # {} => MaxCut > 0 \/ \E i \in 1..Len(got) : got[i].kind = "failed" BY DEF TornInv
  <2>6. ASSUME OnlyRange(WholeLog)
        PROVE  /\ LinesOf({"histogram", "error"}) \ torn = {n \in (1..reader.pos) \ torn : DueLine(log[n])}
               /\ LinesOf({"histogram"}) \ torn = {n \in (1..reader.pos) \ torn : WholeLine(log[n])}
    BY <2>3, <2>4, <2>6
  <2> QED BY <2>1, <2>2, <2>5, <2>6 DEF NothingLost, DueLine, WholeLine, IsInterval
<1> QED BY <1>1, LogInvariant, PTL

\* Every histogram comes with the tag it was logged with, or, having none, with that
\* of a line its call has passed over.
THEOREM TagsAreKept == Spec => []TagsReturn
<1>1. LogInv => TagsReturn BY DEF LogInv, TagInv
<1> QED BY <1>1, LogInvariant, PTL

\* RangeObservedMax and RangeObservedMin are the extremes of the histograms returned.
THEOREM ExtremesAreObserved == Spec => []ExtremesObserved
<1>1. LogInv => ExtremesObserved BY DEF LogInv
<1> QED BY <1>1, LogInvariant, PTL

\* In a log that keeps to one of the three conventions, with base times in whole
\* seconds, every histogram comes with the start and end time it was written with, to
\* the millisecond.
THEOREM TimesAreKept == Spec => []TimesReturn
<1>1. LogInv => TimesReturn BY DEF LogInv
<1> QED BY <1>1, LogInvariant, PTL

\* A program that keeps to one absolute range gets exactly the intervals of a
\* conventional log, with base times in whole seconds, that begin in it.
THEOREM RangeIsComplete == Spec => []RangeComplete
<1>1. LogInv => RangeComplete
  <2> DEFINE Due(r, l) == /\ l.kind = "interval" /\ l.len >= 0 /\ l.shown
                          /\ l.tag # EdgeTag /\ l.cut \in {"none", "newline"}
                          /\ l.src.start \in r.lo..r.hi
  <2> SUFFICES ASSUME LogInv, NEW r \in Ranges, r.absolute, Kept(reader.pos), OnlyRange(r)
               PROVE  /\ InOrder({"histogram"})
                      /\ LinesOf({"histogram"}) = {n \in 1..reader.pos : Due(r, log[n])}
    BY DEF RangeComplete, Kept
  <2> USE DEF LogInv
  <2>1. InOrder({"histogram"}) BY LinesInOrder
  <2>2. ASSUME NEW n \in 1..reader.pos
        PROVE  Due(r, log[n]) <=> WholeLine(log[n]) /\ Begins(r, log[n])
    <3>1. n \in 1..Len(log) BY ShapeFacts DEF TypeInv
    <3>2. log[n] \in Lines BY <3>1 DEF TypeInv
    <3>3. log[n].kind = "interval" => log[n].cut \in {"none", "newline", "payload", "head"}
      BY <3>2, LineTypes
    <3> QED BY <3>3 DEF WholeLine, IsInterval, Begins
  <2> HIDE DEF Due
  <2>3. ASSUME NEW n \in LinesOf({"histogram"}) PROVE n \in 1..reader.pos /\ Due(r, log[n])
    <3>1. PICK i \in 1..Len(got) : got[i].kind = "histogram" /\ got[i].line = n BY DEF LinesOf
    <3>2. n \in 1..reader.pos BY <3>1, ResultLines
    <3>3. WholeLine(log[n]) /\ Begins(r, log[n]) BY <3>1 DEF KindInv, RangeInv
    <3> QED BY <2>2, <3>2, <3>3
  <2>4. ASSUME NEW n \in 1..reader.pos, Due(r, log[n]) PROVE n \in LinesOf({"histogram"})
    <3>1. Answered(got, n, "histogram") BY <2>2, <2>4 DEF RangeInv
    <3> QED BY <3>1, LinesOfAnswered
  <2> QED BY <2>1, <2>3, <2>4
<1> QED BY <1>1, LogInvariant, PTL
=============================================================================
