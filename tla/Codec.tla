------------------------------- MODULE Codec --------------------------------
(*****************************************************************************)
(* What travels on the stream: the bytes of a message of some type, written  *)
(* by one or more serialised messages (protobuf merges what is concatenated) *)
(* and by the fields of a peer that has another version of the protocol; and *)
(* one exchange of the SDK with the gateway, as packets.                     *)
(*****************************************************************************)
EXTENDS Packet

CONSTANTS
  Messages(_),       \* the messages of a type that peers write
  ForeignFields(_),  \* the fields another version writes into a type
  Calls,             \* the calls the SDK makes
  Answers,           \* the [code, errMsg] the gateway answers with
  MaxWrites          \* how many messages and foreign fields are concatenated

(* A token is of the field whose number it has, if it is written as that     *)
(* field's type is.                                                          *)
DeclaredFor(ty, f, t) ==
  /\ IsField(t) /\ t.num = Class[ty][f][1]
  /\ t.wt = IF FieldType(ty, f) \in Numbers \cup {"bool"} THEN "varint"
            ELSE "delimited"
Declared(ty, t) == \E f \in DOMAIN Class[ty] : DeclaredFor(ty, f, t)

Plain(b) == \A i \in DOMAIN b : b[i].wt \in {"varint", "delimited"}
AreUnknown(ty, b) == Plain(b) /\ \A i \in DOMAIN b : ~Declared(ty, b[i])

(* The messages a program can make or have read; strings within them are of  *)
(* chunks of B one level down, such as the texts of a map or of a group.     *)
GroupMessages(B) ==
  {g \in [userGroupType : 0..Long - 1, userGroupId : 0..Long - 1,
          unknown : Seq(TokensOf(B))] : AreUnknown("UserGroup", g.unknown)}
IsMap(v, B) ==
  /\ IsFiniteSet(DOMAIN v) /\ v = [k \in DOMAIN v |-> v[k]]
  /\ \A k \in DOMAIN v : k \in 0..Word - 1 /\ v[k] \in Seq(B)
IsValue(t, v, B) ==
  CASE t = "uint32"     -> v \in 0..Word - 1
    [] t = "uint64"     -> v \in 0..Long - 1
    [] t = "bool"       -> v \in BOOLEAN
    [] t \in Enums      -> v \in 0..EnumWord - 1
    [] t \in Strings    -> v \in Seq(TokensOf(B))
    [] t = "map"        -> IsMap(v, B)
    [] t = "UserGroup*" -> v \in Seq(GroupMessages(B))
IsMessageOver(ty, m, B) ==
  /\ m = [f \in Fields(ty) |-> m[f]]
  /\ \A f \in DOMAIN Class[ty] : IsValue(FieldType(ty, f), m[f], B)
  /\ m.unknown \in Seq(TokensOf(TokensOf(B))) /\ AreUnknown(ty, m.unknown)
IsMessage(ty, m) == IsMessageOver(ty, m, Chunks)

(* The calls of the SDK. *)
IsCall(c) ==
  /\ c.kind \in {"login", "logout", "join", "leave"}
  /\ c.uid \in 0..Word - 1 /\ c.appid \in Nat /\ c.appkey \in 0..Long - 1
  /\ c.user \in [account : Seq(Chunks), passwd : Seq(Chunks),
                 token : Seq(Chunks)]
  /\ c.groups \in Seq([gtype : 0..Long - 1, gid : 0..Long - 1])
  /\ c.now \in Nat /\ c.terminal \in DOMAIN UserTerminal

ASSUME MessagesAssumption ==
  \A ty \in Types : \A m \in Messages(ty) : IsMessage(ty, m)
ASSUME ForeignAssumption ==
  \A ty \in Types : ForeignFields(ty) \subseteq Tokens
ASSUME CallsAssumption == \A c \in Calls : IsCall(c)
ASSUME AnswersAssumption ==
  \A a \in Answers : a.code \in 0..Word - 1 /\ a.errMsg \in Seq(Chunks)

VARIABLES
  type,    \* the type of the message in transit
  bytes,   \* its encoding
  sent,    \* the messages written into bytes
  foreign, \* how many fields of another version bytes has
  call,    \* the call whose request bytes is, <<>> without
  answer   \* what the gateway answered it, <<>> without

vars == <<type, bytes, sent, foreign, call, answer>>

Init ==
  /\ type \in Types
  /\ bytes = <<>> /\ sent = <<>> /\ foreign = 0
  /\ call = <<>> /\ answer = <<>>

(* gRPC serialises into one slice, or into a stream of them. *)
WriteMessage(m) ==
  /\ call = <<>> /\ Len(sent) + foreign < MaxWrites
  /\ \E tables \in {SerializeWithCachedSizes, SerializeToArray} :
       bytes' = bytes \o Serialize(tables, type, m)
  /\ sent' = Append(sent, m)
  /\ UNCHANGED <<type, foreign, call, answer>>

WriteForeign(t) ==
  /\ call = <<>> /\ Len(sent) + foreign < MaxWrites
  /\ bytes' = Append(bytes, t)
  /\ foreign' = foreign + 1
  /\ UNCHANGED <<type, sent, call, answer>>

MakeCall(c) ==
  /\ type = "PushRegReq" /\ bytes = <<>> /\ call = <<>>
  /\ call' = <<c>>
  /\ bytes' = Serialize(SerializeToArray, type, MakePacket(c))
  /\ UNCHANGED <<type, sent, foreign, answer>>

GatewayAnswerTo(request, a) ==
  /\ request.ok
  /\ type' = "PushData"
  /\ bytes' = Serialize(SerializeToArray, "PushData",
                        GatewayAnswers(request, a.code, a.errMsg))
  /\ answer' = <<a>>
  /\ UNCHANGED <<sent, foreign, call>>

GatewayAnswer(a) ==
  /\ call # <<>> /\ answer = <<>>
  /\ GatewayAnswerTo(GatewayReads(bytes), a)

Next ==
  \/ \E m \in Messages(type) : WriteMessage(m)
  \/ \E t \in ForeignFields(type) : WriteForeign(t)
  \/ \E c \in Calls : MakeCall(c)
  \/ \E a \in Answers : GatewayAnswer(a)

Spec == Init /\ [][Next]_vars

-----------------------------------------------------------------------------
(* What bytes mean by the declaration of a type: for a field that occurs     *)
(* more than once the last occurrence counts, for a repeated one all, for a  *)
(* map the last of each key; what is declared otherwise or not at all is     *)
(* unknown, and kept in order.                                               *)
IsOf(ty, f, t) ==
  IF f = "unknown" THEN ~Declared(ty, t) ELSE DeclaredFor(ty, f, t)
Occurrences(ty, f, b) ==
  FoldLeft(LAMBDA ts, t : IF IsOf(ty, f, t) THEN Append(ts, t) ELSE ts, <<>>, b)

LastEntry(es, k) ==
  LET has == {i \in DOMAIN es : k \in DOMAIN es[i]}
  IN es[CHOOSE i \in has : \A j \in has : j <= i][k]
EntriesMean(es) ==
  [k \in UNION {DOMAIN es[i] : i \in DOMAIN es} |-> LastEntry(es, k)]

(* The value of a field of type t that occurs as the tokens ts; group is     *)
(* what the bodies within mean as groups.                                    *)
ValueOf(t, ts, group) ==
  IF t = "UserGroup*" THEN [i \in DOMAIN ts |-> group[ts[i].body]]
  ELSE IF t = "map"
    THEN EntriesMean([i \in DOMAIN ts |-> ReadEntry(ts[i].body).msg])
  ELSE IF ts = <<>> THEN Default(t)
  ELSE IF t \in Strings THEN Last(ts).body
  ELSE Store(t, Last(ts).n)

MeaningOf(ty, b, group) ==
  [f \in Fields(ty) |->
     IF f = "unknown" THEN Occurrences(ty, f, b)
     ELSE ValueOf(FieldType(ty, f), Occurrences(ty, f, b), group)]

Meaning(ty, b) ==
  MeaningOf(ty, b, [body \in {b[i].body : i \in DOMAIN b} |->
                      MeaningOf("UserGroup", body, <<>>)])

(* Bytes that no reader may refuse. *)
Readable(ty, b) ==
  /\ Plain(b)
  /\ \A i \in DOMAIN b, f \in DOMAIN Class[ty] :
       DeclaredFor(ty, f, b[i]) =>
         CASE FieldType(ty, f) = "string"     -> Utf8(b[i].body)
           [] FieldType(ty, f) = "map"        -> ReadEntry(b[i].body).ok
           [] FieldType(ty, f) = "UserGroup*" -> Plain(b[i].body)
           [] OTHER                           -> TRUE

Serializers == {SerializeWithCachedSizes, SerializeToArray}
Parsers == {InternalParse, MergePartialFromCodedStream}

(* Either parser reads every byte sequence as the declaration has it, other  *)
(* versions' fields included, and refuses only what it may: so both parsers, *)
(* of which the build picks one, agree.                                      *)
IsReadAs(r, readable, meaning) ==
  /\ r.ok <=> readable
  /\ r.ok => r.msg = meaning
ReadsAsDeclared ==
  \A p \in Parsers : IsReadAs(ParseWith(p, type, bytes),
                              Readable(type, bytes), Meaning(type, bytes))

(* Reading what several serialisations wrote is merging the messages, which  *)
(* is what gRPC relies on when a message arrives in pieces.                  *)
MergeAll(ty, ms) ==
  FoldLeft(LAMBDA into, from : MergeFrom(ty, into, from), New(ty), ms)
Merged == MergeAll(type, sent)
IsMerged(r) == r.ok => r.msg = Merged
ConcatenationMerges ==
  foreign = 0 /\ call = <<>> => IsMerged(Parse(type, bytes))

(* ByteSizeLong, computed before and separately from the writing, is the     *)
(* number of bytes written: it sizes the buffer and every length prefix.     *)
SizeOfAny(r) ==
  r.ok => \A w \in Serializers :
            Size(type, r.msg) = ByteLength(Serialize(w, type, r.msg))
SizeIsLength == SizeOfAny(Parse(type, bytes))

(* Reading and writing again loses nothing, unknown fields included; and a   *)
(* message that is cleared is as good as new.                                *)
LosesNothing(r) ==
  r.ok => /\ \A w \in Serializers :
               Parse(type, Serialize(w, type, r.msg)) = r
          /\ Clear(type, r.msg) = New(type)
RewritingLosesNothing == LosesNothing(Parse(type, bytes))

(* The gateway finds in a request the call it was made from, and the         *)
(* terminal type and the uid can be taken back out of the suid; but a user   *)
(* whose account or password is not UTF-8 cannot be read at all.             *)
LegibleCall(c) ==
  c.kind = "login" => Utf8(c.user.account) /\ Utf8(c.user.passwd)
GroupsRead(groups) ==
  [i \in DOMAIN groups |-> [gtype |-> groups[i].userGroupType,
                            gid |-> groups[i].userGroupId]]
IsReadFrom(r, c) ==
  IF ~LegibleCall(c) THEN ~r.ok
  ELSE /\ r.ok /\ r.uri = MakePacket(c).uri
       /\ r.msg.uid = c.uid
       /\ r.msg.suid % SuidShift = c.uid
       /\ r.msg.suid \div SuidShift = UserTerminal[c.terminal]
       /\ IsNumber(r.msg.context) /\ Stoll(r.msg.context) = c.now
       /\ c.kind = "login" => r.msg.cookie = c.user.token
       /\ c.kind \in {"join", "leave"} =>
            GroupsRead(r.msg.userGroupSet) = c.groups
RequestIsRead ==
  call # <<>> /\ answer = <<>> => IsReadFrom(GatewayReads(bytes), call[1])

(* The answer to a call finds its way back to it by the timestamp, with the  *)
(* verdict of the gateway, and never lets stoll throw; the timestamp 0 of a  *)
(* retraction makes the SDK ignore the answer, and an error message that is  *)
(* not UTF-8 makes it unreadable, and leaves the call to its timeout.        *)
IsMatched(got, c, a) ==
  CASE ~Utf8(a.errMsg) -> got = Outcome("decode failed", 0, FALSE)
    [] Utf8(a.errMsg) /\ c.now = 0 -> got = Outcome("ignored", 0, FALSE)
    [] OTHER -> got = Outcome("answer", c.now, a.code = RES_SUCCESS)
AnswerIsMatched ==
  answer # <<>> =>
    IsMatched(OnMessage(Parse("PushData", bytes).msg), call[1], answer[1])
=============================================================================
