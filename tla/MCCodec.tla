------------------------------ MODULE MCCodec -------------------------------
(* Instance of Codec: words of four bits in up to three bytes of one bit and  *)
(* a continuation bit, counts up to seven over three or four positions, and   *)
(* streams with every payload of up to MaxPayload bytes, with up to three     *)
(* numbers, or with one defect in the frame.                                  *)
EXTENDS Codec

CONSTANT MaxPayload

Arg(l, hi, s) == [low |-> l, high |-> hi, sig |-> s]
Small == WireGeometry(Arg(1, 3, 0))
Wide == WireGeometry(Arg(2, 15, 0))

CountsOf(g) == {c \in [0..(g.countsLen - 1) -> 0..MaxCount] : PrefixSum(c)[g.countsLen] <= MaxCount}
Few(g) == {c \in CountsOf(g) : \A i \in DOMAIN c : c[i] \in {0, 1, 3, MaxCount}}

MCSources ==
  {[geom |-> Small, counts |-> c, ratio |-> 0] : c \in Few(Small)} \union
  {[geom |-> Wide, counts |-> c, ratio |-> r] : c \in Few(Wide), r \in {0, 3}}

\* Offset 1 and the other nibble are those of older writers; a lowest value of 0,
\* too.
Plain(payload) ==
  [base64 |-> TRUE, size |-> 8 + ZlibSize, cookie |-> <<V2Compressed, 0>>, clen |-> ZlibSize,
   intact |-> TRUE, header |-> TRUE, inner |-> <<V2, 1>>, payloadLen |-> Len(payload), offset |-> 1,
   sig |-> 0, low |-> 0, high |-> 3, ratio |-> 2, payload |-> payload]

Bytes == UNION {[1..n -> Byte] : n \in 0..MaxPayload}

\* Two or three numbers: counts that sum past the limit, runs that end at, before
\* and after the end, the least integer.
Tokens == {-(MaxCount + 1), -2, 0, 1, 4, MaxCount}
Payloads == Bytes \union {EncodeI64(a) \o EncodeI64(b) : a \in Tokens, b \in Tokens}
                  \union {EncodeI64(a) \o EncodeI64(b) \o EncodeI64(c) :
                            a \in Tokens, b \in Tokens, c \in Tokens}

Ok == Plain(<<0>>)
Defective ==
  {[Ok EXCEPT !.base64 = FALSE], [Ok EXCEPT !.size = 7], [Ok EXCEPT !.cookie = <<V2, 1>>],
   [Ok EXCEPT !.clen = -1], [Ok EXCEPT !.clen = ZlibSize + 1], [Ok EXCEPT !.clen = ZlibSize - 1],
   [Ok EXCEPT !.intact = FALSE], [Ok EXCEPT !.header = FALSE], [Ok EXCEPT !.inner = <<V2Compressed, 1>>],
   [Ok EXCEPT !.payloadLen = -1], [Ok EXCEPT !.payloadLen = 0], [Ok EXCEPT !.payloadLen = 2],
   [Ok EXCEPT !.sig = 6], [Ok EXCEPT !.sig = -1],
   [Ok EXCEPT !.size = 9 + ZlibSize, !.clen = ZlibSize + 1]}

MCStreams == {Plain(p) : p \in Payloads} \union Defective
=============================================================================
