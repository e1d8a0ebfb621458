----------------------------- MODULE WireFormat -----------------------------
(*****************************************************************************)
(* The encoding of protobuf, as the generated code uses it (the library is   *)
(* not in this repository).  Bytes are a sequence of tokens: the fields of a *)
(* message (varint, delimited, endgroup) or the chunks of a string (digits:  *)
(* a decimal number; text; badtext: bytes that are not UTF-8).  A delimited  *)
(* token carries the length of its body, as it does on the wire.             *)
(*****************************************************************************)
EXTENDS Integers, Sequences, SequencesExt

Varint(num, n) == [num |-> num, wt |-> "varint", n |-> n, body |-> <<>>]
EndGroup(num) == [num |-> num, wt |-> "endgroup", n |-> 0, body |-> <<>>]
Chunk(kind, n) == [num |-> 0, wt |-> kind, n |-> n, body |-> <<>>]

IsField(t) == t.wt \in {"varint", "delimited", "endgroup"}

Wires == {"varint", "delimited", "endgroup", "digits", "text", "badtext"}

(* Tokens by what they may hold: chunks and numbers hold nothing, strings    *)
(* and the fields of a group hold those, messages hold such fields.          *)
TokensOf(held) == [num : Nat, wt : Wires, n : Nat, body : Seq(held)]
Chunks == TokensOf({})
Parts == TokensOf(Chunks)
Tokens == TokensOf(Parts)

(* The tag in front of a field. *)
WireType == [varint |-> 0, delimited |-> 2, endgroup |-> 4]
Tag(t) == 8 * t.num + WireType[t.wt]

(* How many digits n has in a base, 20 at most: bytes of a varint, length of *)
(* a number.                                                                 *)
Digits(base, n) ==
  IF n < base THEN 1
  ELSE CHOOSE k \in 2..20 :
         /\ k = 20 \/ n < base^k
         /\ \A j \in 2..k-1 : ~(n < base^j)
VarintSize(n) == Digits(128, n)

TokenSize(t) ==
  CASE t.wt = "varint"    -> VarintSize(Tag(t)) + VarintSize(t.n)
    [] t.wt = "delimited" -> VarintSize(Tag(t)) + VarintSize(t.n) + t.n
    [] t.wt = "endgroup"  -> VarintSize(Tag(t))
    [] t.wt = "digits"    -> Digits(10, t.n)
    [] OTHER              -> t.n

ByteLength(bytes) == FoldLeft(LAMBDA n, t : n + TokenSize(t), 0, bytes)

Delimited(num, bytes) ==
  [num |-> num, wt |-> "delimited", n |-> ByteLength(bytes), body |-> bytes]

(* WireFormatLite::VerifyUtf8String. *)
Utf8(bytes) == \A i \in DOMAIN bytes : bytes[i].wt \in {"digits", "text"}
=============================================================================
