------------------------------- MODULE MCWire -------------------------------
(* Values of Wire's constants for TLC. *)
EXTENDS Wire

Scaled == <<2, 4, 6, 8>>

\* up to four bytes, so that each padding occurs
Contents == UNION {[1..n -> {0, 9, 15}] : n \in 0..4}

\* on both sides of each width's bound, for either sign
Ids == {0, 3, 4, 15, 16, 63, 64, 127, -1, -4, -5, -16, -17, -64, -65, -128}

Frame(data, id, chunk, key, bare) ==
  [kind |-> "frame", data |-> data, id |-> id, chunk |-> chunk, chunks |-> 2 * chunk - 1,
   key |-> key, bare |-> bare]

Fields == [
  texts   |-> {<<>>, <<0, Other>>, <<0, Nul, 1>>, <<Nul>>, <<0, 0, Pad, Pad>>, <<0, 4, 1, Pad>>,
               <<0, 1>>, <<1, 2, 3>>, <<5, 4, Pad, Pad>>, <<Pad, 1, 1, 1>>, <<1, 2, 3, 4>>},
  numbers |-> (-128..-126) \cup {-65, -64, -17, -16, -5, -4, -3} \cup (-1..5)
              \cup {15, 16, 17, 63, 64, 65, 126, 127, 128, 129, 255}]

\* a field of each kind, by itself, in an array, and a level deeper
Messages ==
  LET leaves == {Text(s) : s \in Fields.texts} \cup {Whole(i) : i \in Fields.numbers}
                \cup {Is("float", 1), Is("bool", FALSE), Is("null", 0), Is("array", <<>>)}
  IN  {Object([m |-> x]) : x \in leaves} \cup {Object([b |-> x]) : x \in leaves}
      \cup {Object([m |-> Is("array", <<Whole(1), x>>)]) : x \in leaves}
      \cup {Object([m |-> Object([codecData |-> x])]) : x \in leaves}

SomePackets ==
  {Frame(data, <<1, 1>>, 2, TRUE, FALSE) : data \in Contents}
  \cup {Frame(<<9>>, <<0, i>>, 2, FALSE, FALSE) : i \in Ids}
  \cup {Frame(<<9>>, <<i, 0>>, 1, FALSE, TRUE) : i \in Ids}
  \cup {[kind |-> "metadata", name |-> <<0, 1>>, data |-> data, rotated |-> r] :
          data \in Contents, r \in BOOLEAN}
  \cup {[kind |-> "message", document |-> d] : d \in Messages}
=============================================================================
