------------------------------- MODULE Codec --------------------------------
(***************************************************************************)
(* The V2 codec: a dense histogram is encoded (hdr_encoding.go) and the    *)
(* stream is decoded by Decode and by DecodePacked (packed_encoding.go);   *)
(* a program may go on with what Decode returned and encode that again.    *)
(* Streams of other writers may take the place of an own one.              *)
(*                                                                         *)
(* The loops over the payload take one action per number, so that what a   *)
(* decoder has built when it meets an error is a state.  The payload is    *)
(* the byte string of ZigZag; the frame around it is a record:             *)
(*   base64, size   it is base64, of so many bytes                         *)
(*   cookie, clen   its outer header, clen the compressed length           *)
(*   intact         the zlib data inflates and its checksum agrees, given  *)
(*                  all of its ZlibSize bytes (zlib is external)           *)
(*   header         40 bytes of inner header are there                     *)
(*   inner, payloadLen, offset, low, high, sig, ratio, payload             *)
(* A cookie is a pair of its base and the nibble that & ^0xf0 removes.     *)
(***************************************************************************)
EXTENDS Iteration, ZigZag

CONSTANTS
  Sources,                  \* [geom, counts, ratio] of histograms to encode
  Streams,                  \* streams of other writers
  V2, V2Compressed,         \* cookie bases
  ZlibSize                  \* bytes of compressed data

\* The words of the outer and the inner header, the latter's three arguments of a
\* geometry among them, are int32 and int64; countsLen is an int32.
Words(s) ==
  /\ s.size \in Nat /\ s.clen \in Int /\ s.payloadLen \in Int
  /\ {s.low, s.high} \subseteq -(MaxInt + 1)..MaxInt /\ s.sig \in Int
  /\ WireAccepts(s) => WireGeometry(s).countsLen <= MaxCount

\* A histogram to encode has a geometry that wireGeometry rebuilds, as all have, and
\* was built by recording.
ASSUME CodecAssumption ==
  /\ MaxCount = SignedMax /\ V2 # V2Compressed /\ ZlibSize \in Nat
  /\ \A x \in Sources :
       /\ x.geom.low \in 1..MaxInt /\ x.geom.high \in -(MaxInt + 1)..MaxInt
       /\ WireAccepts(x.geom) /\ x.geom = WireGeometry(x.geom)
       /\ x.counts \in [0..(x.geom.countsLen - 1) -> 0..MaxCount]
       /\ PrefixSum(x.counts)[x.geom.countsLen] <= MaxCount /\ x.geom.countsLen <= MaxCount
  /\ \A s \in Streams : Words(s) /\ s.payload \in Seq(Byte)

VARIABLES
  h,          \* the histogram of the program
  pc,         \* what it is doing
  src, out,   \* fillBufferFromCountsArray's srcIndex and buffer
  stream,
  own,        \* the stream is an encoding of h
  dec         \* the two decoders

vars == <<h, pc, src, out, stream, own, dec>>

Histogram(x) == [geom |-> x.geom, counts |-> x.counts, ratio |-> x.ratio,
                 total |-> PrefixSum(x.counts)[x.geom.countsLen]]

NotStarted == [status |-> "none"]
Failed == [status |-> "error"]
Decoders == {"dense", "packed"}

Init ==
  /\ \E x \in Sources : h = Histogram(x)
  /\ pc = "idle" /\ src = 0 /\ out = <<>>
  /\ stream = <<>> /\ own = FALSE
  /\ dec = [d \in Decoders |-> NotStarted]

-----------------------------------------------------------------------------
(* Encoding.                                                                *)

\* Encode and dumpV2CompressedEncoding up to the loop.
Encode ==
  /\ pc = "idle" /\ pc' = "fill"
  /\ src' = 0 /\ out' = <<>>
  /\ UNCHANGED <<h, stream, own, dec>>

\* countsLimit.
CountsLimit(x) == CountsIndexFor(x.geom, MaxOf(x)) + 1

\* The run of zeros that begins at position i and ends before the limit.
RunEnd(c, i, limit) ==
  CHOOSE e \in (i + 1)..limit :
    /\ \A k \in (i + 1)..(e - 1) : c[k] = 0
    /\ e = limit \/ c[e] # 0

\* Mutant of Run: one zero is a run, too.
Run_OneZero(zeros) == -zeros

\* A run of two or more zeros is its negated length.
Run(zeros) == IF zeros > 1 THEN -zeros ELSE 0

\* One iteration of fillBufferFromCountsArray.
FillStep ==
  LET limit == CountsLimit(h)
      end == IF h.counts[src] = 0 THEN RunEnd(h.counts, src, limit) ELSE src + 1
      token == IF h.counts[src] = 0 THEN Run(end - src) ELSE h.counts[src]
  IN  /\ pc = "fill" /\ src < limit
      /\ src' = end
      /\ out' = out \o EncodeI64(token)
      /\ UNCHANGED <<h, pc, stream, own, dec>>

\* getIntegerToDoubleValueConversionRatio.
Ratio(x) == IF x.ratio = 0 THEN 1 ELSE x.ratio

\* encodeIntoByteBuffer and the rest of dumpV2CompressedEncoding.
Framed(x, payload) ==
  [base64 |-> TRUE, size |-> 8 + ZlibSize, cookie |-> <<V2Compressed, 1>>, clen |-> ZlibSize,
   intact |-> TRUE, header |-> TRUE, inner |-> <<V2, 1>>, payloadLen |-> Len(payload), offset |-> 0,
   sig |-> x.geom.sig, low |-> x.geom.low, high |-> x.geom.high, ratio |-> Ratio(x),
   payload |-> payload]

FillEnd ==
  /\ pc = "fill" /\ src >= CountsLimit(h)
  /\ stream' = Framed(h, out) /\ own' = TRUE
  /\ pc' = "decode" /\ dec' = [d \in Decoders |-> NotStarted]
  /\ src' = 0 /\ out' = <<>> /\ UNCHANGED h

\* A stream from elsewhere.
Receive(s) ==
  /\ pc = "idle" /\ pc' = "decode"
  /\ stream' = s /\ own' = FALSE
  /\ dec' = [d \in Decoders |-> NotStarted]
  /\ UNCHANGED <<h, src, out>>

-----------------------------------------------------------------------------
(* The frame.                                                               *)

Masked(cookie) == cookie[1]

\* zlib's reader delivers all of its data and finds the checksum.
Inflates(s) == s.intact /\ s.clen >= ZlibSize

\* Decode.
FrameAccepted(s) ==
  /\ s.base64
  /\ s.size >= 8
  /\ Masked(s.cookie) = V2Compressed
  /\ s.clen >= 0
  /\ s.clen <= s.size - 8

\* decodeCompressedFormat and decodeDeCompressedHeaderFormat, which leaves the
\* normalizing index offset unused.
HeaderAccepted(s) ==
  /\ Inflates(s)
  /\ s.header
  /\ Masked(s.inner) = V2
  /\ s.payloadLen >= 0
  /\ WireAccepts(s)
  /\ s.payloadLen <= WireGeometry(s).countsLen * MaxBytes
  /\ Len(s.payload) = s.payloadLen

\* DecodePacked.
PackedFrameAccepted(s) ==
  /\ s.base64
  /\ s.size >= 8
  /\ Masked(s.cookie) = V2Compressed
  /\ s.clen \in 0..(s.size - 8)

\* decodePackedCompressed.
PackedHeaderAccepted(s) ==
  /\ Inflates(s) /\ s.header
  /\ Masked(s.inner) = V2
  /\ s.payloadLen >= 0
  /\ WireAccepts(s)
  /\ s.payloadLen <= WireGeometry(s).countsLen * MaxBytes
  /\ Len(s.payload) = s.payloadLen

Accepted(d) ==
  IF d = "dense" THEN FrameAccepted(stream) /\ HeaderAccepted(stream)
                 ELSE PackedFrameAccepted(stream) /\ PackedHeaderAccepted(stream)

\* An empty histogram with the stream's geometry; a sparse one holds the counts of
\* its populated positions only.
Blank(d) ==
  LET g == WireGeometry(stream)
  IN  [status |-> "filling", pos |-> 0, dst |-> 0, geom |-> g, total |-> 0, ratio |-> stream.ratio,
       counts |-> [i \in IF d = "dense" THEN 0..(g.countsLen - 1) ELSE {} |-> 0]]

DecodeFrame(d) ==
  /\ pc = "decode" /\ dec[d].status = "none"
  /\ dec' = [dec EXCEPT ![d] = IF Accepted(d) THEN Blank(d) ELSE Failed]
  /\ UNCHANGED <<h, pc, src, out, stream, own>>

-----------------------------------------------------------------------------
(* The payload.  x is a decoder at work, t the number just read.            *)

\* A run of zeros past the end, or one without a length.
RunRefused(x, t) == Wrap64(-t) <= 0 \/ Wrap64(-t) > x.geom.countsLen - x.dst

\* Mutant of DenseRefused: the total may pass the limit.
DenseRefused_AnyTotal(x, t) == IF t < 0 THEN RunRefused(x, t) ELSE x.dst >= x.geom.countsLen

\* fillCountsArrayFromSourceBuffer returns an error.
DenseRefused(x, t) ==
  IF t < 0 THEN RunRefused(x, t)
  ELSE x.dst >= x.geom.countsLen \/ t > Wrap64(MaxCount - x.total)

\* Its destination after the number, and setCountAtIndex.
DenseTaken(x, t) ==
  IF t < 0 THEN [x EXCEPT !.dst = @ + Wrap64(-t)]
  ELSE [x EXCEPT !.counts[x.dst] = Wrap64(@ + t), !.total = Wrap64(@ + t), !.dst = @ + 1]

\* Mutant of PackedRefused: a run may not reach the end.
PackedRefused_RunToEnd(x, t) ==
  IF t < 0 THEN Wrap64(-t) <= 0 \/ Wrap64(-t) >= x.geom.countsLen - x.dst
  ELSE x.dst >= x.geom.countsLen

\* fillSparseFromPayload returns an error.
PackedRefused(x, t) ==
  IF t < 0 THEN Wrap64(-t) <= 0 \/ Wrap64(-t) > x.geom.countsLen - x.dst
  ELSE x.dst >= x.geom.countsLen

\* Only positive counts are stored, and the total saturates.
PackedTaken(x, t) ==
  IF t < 0 THEN [x EXCEPT !.dst = @ + Wrap64(-t)]
  ELSE IF t = 0 THEN [x EXCEPT !.dst = @ + 1]
  ELSE [x EXCEPT !.counts = [i \in DOMAIN @ \union {x.dst} |-> IF i = x.dst THEN t ELSE @[i]],
                 !.total = AddDropped(@, t), !.dst = @ + 1]

\* Mutant of Unfinished: the end of the payload is read, too.
Unfinished_AtEnd(x) == x.pos <= Len(stream.payload)

Unfinished(x) == x.pos < Len(stream.payload)

\* One iteration of a decoder's loop.  An error leaves nothing of the histogram.
DecodeNumber(d) ==
  LET x == dec[d]
      number == DecodeI64(SubSeq(stream.payload, x.pos + 1, Len(stream.payload)))
      t == number.value
      refused == number.err \/ IF d = "dense" THEN DenseRefused(x, t) ELSE PackedRefused(x, t)
      taken == IF d = "dense" THEN DenseTaken(x, t) ELSE PackedTaken(x, t)
  IN  /\ x.status = "filling" /\ Unfinished(x)
      /\ dec' = [dec EXCEPT ![d] = IF refused THEN Failed ELSE [taken EXCEPT !.pos = @ + number.n]]
      /\ UNCHANGED <<h, pc, src, out, stream, own>>

DecodeEnd(d) ==
  /\ dec[d].status = "filling" /\ ~Unfinished(dec[d])
  /\ dec' = [dec EXCEPT ![d].status = "ok"]
  /\ UNCHANGED <<h, pc, src, out, stream, own>>

Finished(d) == dec[d].status \in {"ok", "error"}

\* The program takes over the histogram that Decode returned.
Adopt ==
  /\ pc = "decode" /\ \A d \in Decoders : Finished(d)
  /\ pc' = "idle"
  /\ h' = IF dec["dense"].status = "ok"
          THEN [geom |-> dec["dense"].geom, counts |-> dec["dense"].counts,
                ratio |-> dec["dense"].ratio, total |-> dec["dense"].total]
          ELSE h
  /\ own' = FALSE /\ stream' = <<>> /\ dec' = [d \in Decoders |-> NotStarted]
  /\ UNCHANGED <<src, out>>

Next ==
  \/ Encode \/ FillStep \/ FillEnd
  \/ \E s \in Streams : Receive(s)
  \/ \E d \in Decoders : /\ d = "packed" => Finished("dense")
                         /\ DecodeFrame(d) \/ DecodeNumber(d) \/ DecodeEnd(d)
  \/ Adopt

Spec == Init /\ [][Next]_vars

-----------------------------------------------------------------------------
(* The packed histogram's own encoder, and comparison.                      *)

CountAt(x, i) == IF i \in DOMAIN x.counts THEN x.counts[i] ELSE 0

\* PackedHistogram.Max.
HighestStored(x) ==
  PackedHighestEquivalent(x.geom,
    IF DOMAIN x.counts = {} THEN 0
    ELSE ValueFromFlatIndex(x.geom, CHOOSE i \in DOMAIN x.counts : \A j \in DOMAIN x.counts : j <= i))

\* fillBufferFromSparse.
SparsePayload(x) ==
  LET limit == CountsIndexFor(x.geom, HighestStored(x)) + 1
      RunStop(i) == CHOOSE e \in (i + 1)..limit : /\ \A k \in (i + 1)..(e - 1) : CountAt(x, k) = 0
                                                  /\ e = limit \/ CountAt(x, e) # 0
      from[i \in 0..limit] ==
        IF i = limit THEN <<>>
        ELSE IF CountAt(x, i) # 0 THEN EncodeI64(CountAt(x, i)) \o from[i + 1]
        ELSE EncodeI64(IF RunStop(i) - i > 1 THEN i - RunStop(i) ELSE 0) \o from[RunStop(i)]
  IN  from[0]

\* PackedHistogram.Encode.
PackedEncode(x) ==
  LET payload == SparsePayload(x)
  IN  [base64 |-> TRUE, size |-> 8 + ZlibSize, cookie |-> <<V2Compressed, 1>>, clen |-> ZlibSize,
       intact |-> TRUE, header |-> TRUE, inner |-> <<V2, 1>>, payloadLen |-> Len(payload), offset |-> 0,
       sig |-> x.geom.sig, low |-> x.geom.low, high |-> x.geom.high, ratio |-> Ratio(x),
       payload |-> payload]

\* Equals; the fields it compares that are not here are functions of the geometry's.
Equals(x, y) == x.geom = y.geom /\ x.total = y.total /\ x.counts = y.counts

-----------------------------------------------------------------------------
(* Properties.                                                              *)

TypeOK ==
  /\ pc \in {"idle", "fill", "decode"} /\ own \in BOOLEAN
  /\ src \in 0..h.geom.countsLen /\ out \in Seq(Byte)
  /\ h.counts \in [0..(h.geom.countsLen - 1) -> 0..MaxCount]
  /\ \A d \in Decoders :
       /\ dec[d].status \in {"none", "filling", "ok", "error"}
       /\ dec[d].status \in {"filling", "ok"} => /\ dec[d].pos \in 0..Len(stream.payload)
                                                 /\ dec[d].dst \in 0..dec[d].geom.countsLen
                                                 /\ dec[d].total \in 0..MaxCount

\* The counts of a decoder over all positions.
Expanded(x) == [i \in 0..(x.geom.countsLen - 1) |-> CountAt(x, i)]

\* What Encode writes, Decode and DecodePacked read: an equal histogram, with the
\* ratio that was written, from histograms built by recording and from those that
\* were decoded themselves.
RoundTrip ==
  own => \A d \in Decoders : Finished(d) =>
    /\ dec[d].status = "ok"
    /\ Equals([dec[d] EXCEPT !.counts = Expanded(dec[d])], h)
    /\ dec[d].ratio = (IF h.ratio = 0 THEN 1 ELSE h.ratio)

\* The two decoders accept the same streams and read the same counts from them,
\* except that a sum past MaxInt64 is refused by Decode and saturates the total of
\* DecodePacked (hdr_encoding.go:64: "A payload whose bucket counts sum past MaxInt64
\* is rejected [...] DecodePacked keeps such buckets and saturates its total").
DecodersAgree ==
  Finished("dense") /\ Finished("packed") =>
    LET p == dec["packed"]
        x == dec["dense"]
        sum == PrefixSum(Expanded(p))[p.geom.countsLen]
    IN  IF p.status = "error" THEN x.status = "error"
        ELSE IF sum > MaxCount THEN x.status = "error" /\ p.total = MaxCount
        ELSE x.status = "ok" /\ x.counts = Expanded(p) /\ x.total = p.total /\ x.ratio = p.ratio

\* Whatever the stream, a histogram that Decode is building or has returned, and
\* so the program's, is one that recording could have built: its total is the sum
\* of its counts, and no count lies past the destination.
DecodedSound ==
  /\ TypeOK
  /\ h.total = PrefixSum(h.counts)[h.geom.countsLen]
  /\ dec["dense"].status \in {"filling", "ok"} =>
       LET x == dec["dense"]
       IN  /\ x.total = PrefixSum(x.counts)[x.geom.countsLen]
           /\ \A i \in DOMAIN x.counts : x.counts[i] >= 0 /\ (i >= x.dst => x.counts[i] = 0)

\* A decoder finds the numbers of any payload where an encoder would put them: what
\* it reads can be written again, in no more bytes than were accepted for it and in
\* at most the nine that bound PayloadLength, and is read back from them whatever
\* follows; it reports an error only where the payload ends inside a number.
NumbersExact ==
  \A d \in Decoders : dec[d].status = "filling" /\ dec[d].pos < Len(stream.payload) =>
    LET rest == SubSeq(stream.payload, dec[d].pos + 1, Len(stream.payload))
        number == DecodeI64(rest)
        again == EncodeI64(number.value)
    IN  IF number.err THEN Len(rest) < MaxBytes /\ \A i \in 1..Len(rest) : rest[i] >= More
        ELSE /\ number.value \in Signed
             /\ Len(again) <= number.n /\ number.n <= MaxBytes
             /\ DecodeI64(again \o rest) = [value |-> number.value, n |-> Len(again), err |-> FALSE]

\* packed_encoding.go:3: "The output is byte-identical to Histogram.Encode(...) on an
\* equivalent dense histogram": headers and payload alike, also after the sparse
\* histogram was itself read from that encoding.
BytesIdentical ==
  own /\ dec["packed"].status = "ok" => PackedEncode(dec["packed"]) = stream
=============================================================================
