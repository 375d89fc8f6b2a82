------------------------------ MODULE Formats ------------------------------
(***************************************************************************)
(* What messages are written in: base64 for bytes, JSON inside the         *)
(* program, CBOR on the connection (base64.cpp, cbor_json.cpp).            *)
(*                                                                         *)
(* A JSON value and a CBOR item are records [is, v]; text and bytes of an   *)
(* item are sequences of chunks, one if the length is definite.  Widths    *)
(* are scaled: a character of base64 stands for Group bits of a byte's     *)
(* Byte (6 and 8 in the code), integers have the Widths (8, 16, 32, 64).   *)
(***************************************************************************)
EXTENDS Integers, Sequences, SequencesExt

CONSTANTS Group, Byte, Widths

ASSUME FormatsAssumption ==
  /\ Group \in Nat \ {0} /\ 4 * Group = 3 * Byte
  /\ Widths \in Seq(Nat \ {0}) /\ Len(Widths) = 4 /\ \A k \in 1..3 : Widths[k] < Widths[k + 1]

(***************************************************************************)
(* base64                                                                  *)
(***************************************************************************)
\* characters: the alphabet, '=', one that is none of base64's, and NUL
Alphabet == 0..2^Group - 1
Pad == 2^Group
Other == Pad + 1
Nul == Pad + 2

BitsOf(x, w) == [i \in 1..w |-> ((x \div (2^(w - i))) % 2)]
Bits(s, w) == FlattenSeq([i \in 1..Len(s) |-> BitsOf(s[i], w)])
Number(bits) == FoldLeft(LAMBDA n, bit : 2 * n + bit, 0, bits)
Pack(bits, w) == [k \in 1..Len(bits) \div w |-> Number(SubSeq(bits, (k - 1) * w + 1, k * w))]
Copies(x, n) == [k \in 1..n |-> x]

\* slip: a last group that is full is padded as well
Missing_Three(bytes) == 3 - (Len(bytes) % 3)

Missing(bytes) == (3 - (Len(bytes) % 3)) % 3

Encode(bytes) ==
  Pack(Bits(bytes, Byte) \o Copies(0, Missing(bytes) * (Byte - Group)), Group)
  \o Copies(Pad, Missing(bytes))

IsBase64(text) == \A k \in 1..Len(text) : text[k] \in Alphabet \cup {Pad}

\* '=' counts as a zero; what stands behind the first one is then cut off, unless
\* that were more than there is (substr with a length below zero)
Decode(text) ==
  LET all  == Pack(Bits([k \in 1..Len(text) |-> (text[k] % Pad)], Group), Byte)
      pads == {k \in 1..Len(text) : text[k] = Pad}
      cut  == IF pads = {} THEN 0 ELSE Len(text) + 1 - (CHOOSE k \in pads : \A j \in pads : k <= j)
  IN  IF cut > Len(all) THEN all ELSE SubSeq(all, 1, Len(all) - cut)

(***************************************************************************)
(* CBOR                                                                    *)
(***************************************************************************)
Is(kind, v) == [is |-> kind, v |-> v]

\* get<int64_t>, which is taken for numbers that are stored as unsigned, too
Signed(i) == IF i >= 2^(Widths[4] - 1) THEN i - 2^Widths[4] ELSE i

\* slip: the bound of a width is taken to be inside it
Width_Inclusive(i) == CHOOSE k \in 1..4 : i <= 2^Widths[k] /\ \A j \in 1..k - 1 : i > 2^Widths[j]

Width(i) == CHOOSE k \in 1..4 : i < 2^Widths[k] /\ \A j \in 1..k - 1 : i >= 2^Widths[j]

\* cbor_build_uint8 .. cbor_build_negint64, with the casts
Stored(n) == n % (2^Widths[Width(n)])
Integer(i) == IF i >= 0 THEN Is("uint", Stored(i)) ELSE Is("negint", Stored(-1 - i))

\* cbor_build_string takes a C string
CString(text) ==
  LET nuls == {k \in 1..Len(text) : text[k] = Nul}
  IN  IF nuls = {} THEN text ELSE SubSeq(text, 1, (CHOOSE k \in nuls : \A j \in nuls : k <= j) - 1)

IsBinary(name, value) == name \in {"b", "codecData"} /\ value.is = "text"
Binary(text) == IF IsBase64(text) THEN Is("bytes", <<Decode(text)>>) ELSE Is("abort", "bad data")

RECURSIVE ToCbor(_)
ToCbor(d) ==
  CASE d.is = "text"   -> Is("text", <<CString(d.v)>>)
    [] d.is = "int"    -> Integer(Signed(d.v))
    [] d.is = "array"  -> Is("array", [k \in 1..Len(d.v) |-> ToCbor(d.v[k])])
    [] d.is = "object" ->
         Is("object", [name \in DOMAIN d.v |->
                         IF IsBinary(name, d.v[name]) THEN Binary(d.v[name].v) ELSE ToCbor(d.v[name])])
    [] OTHER -> d

\* slip: a definite length is taken for granted
Joined_First(chunks) == chunks[1]

Joined(chunks) == FlattenSeq(chunks)

\* slip: the complement is forgotten
Negative_Plain(n) == -n

Negative(n) == -1 - n

RECURSIVE ToJson(_)
ToJson(i) ==
  CASE i.is = "uint"   -> Is("int", i.v)
    [] i.is = "negint" ->
         IF i.v < 2^(Widths[4] - 1) THEN Is("int", Negative(i.v)) ELSE Is("abort", "out of range")
    [] i.is = "bytes"  -> Is("text", Encode(Joined(i.v)))
    [] i.is = "text"   -> Is("text", Joined(i.v))
    [] i.is = "array"  -> Is("array", [k \in 1..Len(i.v) |-> ToJson(i.v[k])])
    [] i.is = "object" -> Is("object", [name \in DOMAIN i.v |-> ToJson(i.v[name])])
    [] i.is \in {"float", "bool", "null"} -> i
    [] OTHER -> Is("abort", "not supported")

\* a CHECK or an ABORT() was met somewhere inside
RECURSIVE Aborts(_)
Aborts(x) ==
  \/ x.is = "abort"
  \/ x.is \in {"array", "object"} /\ \E k \in DOMAIN x.v : Aborts(x.v[k])
=============================================================================
