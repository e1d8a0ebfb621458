------------------------------ MODULE Message -------------------------------
(*****************************************************************************)
(* What the generated classes do, driven by the tables of PushGateWay: a     *)
(* message is a function from its fields, and "unknown", to their values.    *)
(* The widths of the integers are constants, so that TLC can use small ones. *)
(*****************************************************************************)
EXTENDS PushGateWay, PushGateWayParse, PushGateWayWrite, WireFormat, TLC

CONSTANTS
  Word,      \* 2^32: the values of a uint32
  EnumWord,  \* 2^32: the values of an enum, whose upper half is negative
  Long       \* 2^64: the values of a uint64, and of any varint

ASSUME WidthsAssumption ==
  /\ Word \in Nat \ {0} /\ EnumWord \in Nat \ {0} /\ Long \in Nat
  /\ Word <= Long /\ EnumWord <= Long /\ Long % EnumWord = 0

Enums == {"StreamURI", "UserTerminalType"}
Numbers == {"uint32", "uint64"} \cup Enums
Strings == {"string", "bytes"}

Default(t) == CASE t \in Numbers -> 0 [] t = "bool" -> FALSE [] OTHER -> <<>>
FieldType(type, f) == Class[type][f][2]
IsDefault(type, m, f) == m[f] = Default(FieldType(type, f))

Fields(type) == DOMAIN Class[type] \cup {"unknown"}
New(type) ==
  [f \in Fields(type) |-> IF f = "unknown" THEN <<>>
                          ELSE Default(FieldType(type, f))]

(* A new message with some fields set. *)
With(type, fields) ==
  [f \in Fields(type) |-> IF f \in DOMAIN fields THEN fields[f]
                          ELSE New(type)[f]]

Clear(type, m) ==
  [f \in DOMAIN m |-> IF f \in Clears[type] THEN Default(FieldType(type, f))
                      ELSE IF f = "unknown" THEN <<>> ELSE m[f]]

(* The keys of from replace those of into. *)
MergeMap(into, from) ==
  [k \in DOMAIN into \cup DOMAIN from |-> IF k \in DOMAIN from THEN from[k]
                                         ELSE into[k]]

(* Mutant: a repeated field taken over as a whole. *)
MergeValueReplaces(t, into, from) ==
  IF t = "map" THEN MergeMap(into, from) ELSE from

MergeValue(t, into, from) ==
  IF t = "map" THEN MergeMap(into, from) ELSE into \o from

MergeFrom(type, into, from) ==
  [f \in DOMAIN into |->
     IF f = "unknown" THEN into[f] \o from[f]
     ELSE IF Merges[type][f] = "merge"
       THEN MergeValue(FieldType(type, f), into[f], from[f])
     ELSE IF IsDefault(type, from, f) THEN into[f] ELSE from[f]]

(* The conversion of a varint to the type it is stored in. *)
Store(t, n) ==
  CASE t = "uint32" -> n % Word
    [] t = "uint64" -> n % Long
    [] t = "bool"   -> n # 0
    [] OTHER        -> n % EnumWord

(* A negative enum is written as the 64 bits of its sign extension. *)
SignExtend(n) == IF 2 * n >= EnumWord THEN n + (Long - EnumWord) ELSE n

(* An entry of map<uint32, string>: the key and the value are always       *)
(* written, in this order; a key or a value that is missing is the default. *)
EntryBytes(k, v) == <<Varint(1, k), Delimited(2, v)>>
EntryField(bytes, tag, default) ==
  LET at == {i \in DOMAIN bytes : IsField(bytes[i]) /\ Tag(bytes[i]) = tag}
  IN IF at = {} THEN default
     ELSE LET t == bytes[CHOOSE i \in at : \A j \in at : j <= i]
          IN IF t.wt = "varint" THEN Store("uint32", t.n) ELSE t.body
ReadEntry(bytes) ==
  LET value == EntryField(bytes, 18, <<>>)
      whole == \A i \in DOMAIN bytes : bytes[i].wt \in {"varint", "delimited"}
  IN [ok |-> whole /\ Utf8(value),
      msg |-> [k \in {EntryField(bytes, 8, 0)} |-> value]]

(* What a parser makes of bytes: a message, or what it had when it gave up. *)
Read(m) == [ok |-> TRUE, msg |-> m]
Refused(m) == [ok |-> FALSE, msg |-> m]

(* What a token holds for a field, and the message with it taken over. *)
ReadValue(type, f, kind, nested, t) ==
  CASE kind = "message" -> nested[t.body]
    [] kind = "entry"   -> ReadEntry(t.body)
    [] kind = "utf8"    -> [ok |-> Utf8(t.body), msg |-> t.body]
    [] kind = "bytes"   -> [ok |-> TRUE, msg |-> t.body]
    [] kind = "varint"  ->
         [ok |-> TRUE, msg |-> Store(FieldType(type, f), t.n)]
    [] OTHER            -> [ok |-> TRUE, msg |-> Store(kind, t.n)]
TakeValue(kind, v, in) ==
  CASE kind = "message" -> Append(v, in.msg)
    [] kind = "entry"   -> MergeMap(v, in.msg)
    [] OTHER            -> in.msg
TakeField(m, f, kind, in) ==
  IF in.ok THEN Read([m EXCEPT ![f] = TakeValue(kind, m[f], in)])
  ELSE Refused(m)
ReadField(type, f, kind, nested, m, t) ==
  TakeField(m, f, kind, ReadValue(type, f, kind, nested, t))

(* What ParseFromString makes of bytes: each token is read by the field      *)
(* whose tag it has, or kept as an unknown field; the end of a group, bytes  *)
(* that are no field, and a string that is not UTF-8 fail.  The bodies of    *)
(* the messages within are parsed by the function nested.                    *)
ReadToken(type, table, nested, r, t) ==
  LET fields == IF IsField(t) THEN {f \in DOMAIN table : table[f][1] = Tag(t)}
                ELSE {}
      field == CHOOSE f \in fields : TRUE
  IN IF ~r.ok THEN r
     ELSE IF fields # {}
       THEN ReadField(type, field, table[field][2], nested, r.msg, t)
     ELSE IF ~IsField(t) \/ t.wt = "endgroup" THEN Refused(r.msg)
     ELSE Read([r.msg EXCEPT !.unknown = Append(@, t)])

ReadTokens(type, table, nested, bytes) ==
  FoldLeft(LAMBDA r, t : ReadToken(type, table, nested, r, t),
           Read(New(type)), bytes)

ParseLeaf(tables, type, bytes) == ReadTokens(type, tables[type], <<>>, bytes)
ParseWith(tables, type, bytes) ==
  LET nested == [b \in {bytes[i].body : i \in DOMAIN bytes} |->
                   ParseLeaf(tables, "UserGroup", b)]
  IN ReadTokens(type, tables[type], nested, bytes)

(* The parser of the build: the #else branch is ParseWith the other table. *)
Parse(type, bytes) == ParseWith(InternalParse, type, bytes)

(* The groups of a message, the only messages within one. *)
Groups(type, m) ==
  UNION {ToSet(m[f]) :
           f \in {f \in DOMAIN Class[type] : FieldType(type, f) = "UserGroup*"}}

(* What a serializer writes: every field that is not the default, in the     *)
(* order of its table, then the unknown fields.  A string that is not UTF-8  *)
(* is logged and written all the same.                                       *)
WriteValue(kind, num, v) ==
  CASE kind \in {"String", "Bytes"} -> Delimited(num, v)
    [] kind = "Bool"                -> Varint(num, 1)
    [] kind = "Enum"                -> Varint(num, SignExtend(v))
    [] OTHER                        -> Varint(num, v)
WriteEntries(num, v) ==
  LET keys == SetToSeq(DOMAIN v)
  IN [i \in DOMAIN keys |-> Delimited(num, EntryBytes(keys[i], v[keys[i]]))]
WriteField(type, m, kind, f, num, nested) ==
  IF kind = "Message"
    THEN [i \in DOMAIN m[f] |-> Delimited(num, nested[m[f][i]])]
  ELSE IF kind = "Entry" THEN WriteEntries(num, m[f])
  ELSE IF IsDefault(type, m, f) THEN <<>>
  ELSE <<WriteValue(kind, num, m[f])>>

WriteFields(table, type, m, nested) ==
  FoldLeft(LAMBDA out, w :
             out \o WriteField(type, m, w[2], w[1], w[3], nested),
           <<>>, table)
    \o m.unknown

WriteGroups(tables, type, m) ==
  [g \in Groups(type, m) |->
     WriteFields(tables["UserGroup"], "UserGroup", g, <<>>)]

(* Mutant: the unknown fields are dropped. *)
SerializeKnown(tables, type, m) ==
  WriteFields(tables[type], type, [m EXCEPT !.unknown = <<>>],
              WriteGroups(tables, type, m))

Serialize(tables, type, m) ==
  WriteFields(tables[type], type, m, WriteGroups(tables, type, m))

(* ByteSizeLong, from which a message's length prefix is written. *)
Prefixed(n) == VarintSize(n) + n
ValueSize(kind, v) ==
  CASE kind \in {"String", "Bytes"} -> Prefixed(ByteLength(v))
    [] kind = "Bool"                -> 1
    [] kind = "Enum"                -> VarintSize(SignExtend(v))
    [] OTHER                        -> VarintSize(v)
FieldSize(type, m, kind, f, overhead, nested) ==
  IF kind = "Message"
    THEN SumFunction([i \in DOMAIN m[f] |->
                        overhead + Prefixed(nested[m[f][i]])])
  ELSE IF kind = "Entry"
    THEN SumFunction([k \in DOMAIN m[f] |->
                        overhead + Prefixed(ByteLength(EntryBytes(k, m[f][k])))])
  ELSE IF IsDefault(type, m, f) THEN 0
  ELSE overhead + ValueSize(kind, m[f])

SizeOfFields(type, m, nested) ==
  LET table == ByteSizeLong[type]
  IN ByteLength(m.unknown)
       + SumFunction([f \in DOMAIN table |->
                        FieldSize(type, m, table[f][2], f, table[f][1], nested)])
Size(type, m) ==
  SizeOfFields(type, m,
    [g \in Groups(type, m) |-> SizeOfFields("UserGroup", g, <<>>)])
=============================================================================
