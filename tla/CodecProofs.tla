----------------------------- MODULE CodecProofs ----------------------------
(*****************************************************************************)
(* The properties of Codec for all messages, calls and answers: what travels *)
(* is made of messages and foreign fields, or is a call's request, or its    *)
(* answer. Of a request the invariant has its bytes, of which the lemmas of  *)
(* the first part say what the gateway finds in them; of an answer that it   *)
(* will be matched.                                                          *)
(*****************************************************************************)
EXTENDS CodecLemmas

(* Quotient and remainder are what the number is made from. *)
LEMMA DivisionFacts ==
  ASSUME NEW d \in Nat, d > 0, NEW q \in Nat, NEW r \in 0..d - 1
  PROVE  (q * d + r) % d = r /\ (q * d + r) \div d = q
OBVIOUS

(* An enum holds the numbers of the protocol. *)
LEMMA EnumWordFacts == EnumWord \in Nat /\ 65536 <= EnumWord
BY WidthsAssumption, SuidAssumption

(* The suid holds the uid and the terminal type. *)
LEMMA SuidIs ==
  ASSUME NEW uid \in 0..Word - 1, NEW terminal \in DOMAIN UserTerminal
  PROVE  LET t == UserTerminal[terminal]
             s == GetSUID(uid, t)
         IN /\ t \in 0..EnumWord - 1 /\ s \in 0..Long - 1
            /\ s % SuidShift = uid /\ s \div SuidShift = t
<1> DEFINE t == UserTerminal[terminal]
           x == t * SuidShift + uid
<1>1. /\ Word \in Nat /\ Word > 0 /\ Long \in Nat /\ SuidShift \in Nat
      /\ Word <= SuidShift /\ 65536 * SuidShift <= Long
  BY WidthsAssumption, SuidAssumption
<1>2. t \in {0, 1, 7, 8, 65535}
  BY DEF UserTerminal, UserTerminalType
<1> HIDE DEF t
<1>3. t \in 0..EnumWord - 1 /\ t \in Nat
  <2>1. t \in Nat /\ t <= 65535
    BY ONLY <1>2
  <2> QED BY ONLY <2>1, EnumWordFacts
<1>4. uid % Word = uid /\ uid \in 0..SuidShift - 1 /\ SuidShift > 0
  BY <1>1
<1>5. x \in 0..Long - 1
  <2>1. CASE t = 0 BY <1>1, <2>1
  <2>2. CASE t = 1 BY <1>1, <2>2
  <2>3. CASE t = 7 BY <1>1, <2>3
  <2>4. CASE t = 8 BY <1>1, <2>4
  <2>5. CASE t = 65535 BY <1>1, <2>5
  <2> QED BY <1>2, <2>1, <2>2, <2>3, <2>4, <2>5
<1>6. x % SuidShift = uid /\ x \div SuidShift = t
  BY ONLY <1>1, <1>3, <1>4, DivisionFacts DEF x
<1> HIDE DEF x
<1>7. x % Long = x
  BY <1>1, <1>5
<1>8. GetSUID(uid, t) = x
  BY <1>4, <1>7 DEF GetSUID, x
<1> QED BY <1>3, <1>5, <1>6, <1>8 DEF t

(* Fields that may be set in a new message. *)
Given(ty, fields, B) ==
  /\ DOMAIN fields \subseteq DOMAIN Class[ty]
  /\ \A f \in DOMAIN fields : IsValue(FieldType(ty, f), fields[f], B)

(* A message that is made by setting some fields. *)
LEMMA MadeMessage ==
  ASSUME NEW ty \in Types, NEW B, NEW fields, Given(ty, fields, B)
  PROVE  /\ IsMessageOver(ty, With(ty, fields), B)
         /\ Legible(ty, With(ty, fields)) <=>
              \A f \in DOMAIN fields :
                LegibleValue(FieldType(ty, f), fields[f])
         /\ \A f \in DOMAIN fields : With(ty, fields)[f] = fields[f]
<1> DEFINE m == With(ty, fields)
           F == DOMAIN Class[ty]
<1>1. /\ m = [f \in Fields(ty) |-> m[f]]
      /\ \A f \in Fields(ty) :
           m[f] = IF f \in DOMAIN fields THEN fields[f] ELSE New(ty)[f]
  BY DEF With
<1>2. \A f \in F : f \in Fields(ty)
                   /\ New(ty)[f] = Default(FieldType(ty, f))
  BY TypesOfFields DEF Fields, New
<1>3. m.unknown = <<>>
  BY <1>1, TypesOfFields DEF Fields, New, Given
<1> HIDE DEF m
<1>4. \A f \in DOMAIN fields : m[f] = fields[f]
  BY <1>1, <1>2 DEF Given
<1>5. \A f \in F : IsValue(FieldType(ty, f), m[f], B)
  BY <1>1, <1>2, TypesOfFields, DefaultIsValue DEF Given
<1>6. AreUnknown(ty, <<>>) /\ <<>> \in Seq(TokensOf(TokensOf(B)))
  BY DEF AreUnknown, Plain
<1>7. IsMessageOver(ty, m, B)
  BY <1>1, <1>3, <1>5, <1>6 DEF IsMessageOver
<1>8. Legible(ty, m) <=>
        \A f \in DOMAIN fields : LegibleValue(FieldType(ty, f), fields[f])
  BY <1>1, <1>2, <1>4, TypesOfFields, DefaultIsValue DEF Legible, Given
<1> QED BY <1>4, <1>7, <1>8 DEF m

(* What a value of each type is, and when it is legible. *)
ValuesAre(v, B) ==
  /\ IsValue("uint32", v, B) <=> v \in 0..Word - 1
  /\ IsValue("uint64", v, B) <=> v \in 0..Long - 1
  /\ \A T \in Enums : IsValue(T, v, B) <=> v \in 0..EnumWord - 1
  /\ \A T \in Strings : IsValue(T, v, B) <=> v \in Seq(TokensOf(B))
  /\ IsValue("UserGroup*", v, B) <=> v \in Seq(GroupMessages(B))
  /\ \A T : LegibleValue(T, v) <=>
            /\ T = "string" => Utf8(v)
            /\ T = "map" => \A k \in DOMAIN v : Utf8(v[k])

(* What IsValue and Legible ask for, by the type of the field. *)
LEMMA ValuesByType == \A v, B : ValuesAre(v, B)
<1> SUFFICES ASSUME NEW v, NEW B PROVE ValuesAre(v, B)
  OBVIOUS
<1>1. IsValue("uint32", v, B) <=> v \in 0..Word - 1
  BY DEF IsValue, Enums, Strings
<1>2. IsValue("uint64", v, B) <=> v \in 0..Long - 1
  BY DEF IsValue, Enums, Strings
<1>3. \A T \in Enums : IsValue(T, v, B) <=> v \in 0..EnumWord - 1
  BY DEF IsValue, Enums, Strings
<1>4. \A T \in Strings : IsValue(T, v, B) <=> v \in Seq(TokensOf(B))
  BY DEF IsValue, Enums, Strings
<1>5. IsValue("UserGroup*", v, B) <=> v \in Seq(GroupMessages(B))
  BY DEF IsValue, Enums, Strings
<1> QED BY <1>1, <1>2, <1>3, <1>4, <1>5 DEF ValuesAre, LegibleValue

(* A decimal number is a text, and stoll reads it back. *)
LEMMA DecimalFacts ==
  ASSUME NEW n \in Nat
  PROVE  /\ Decimal(n) \in Seq(TokensOf({})) /\ Utf8(Decimal(n))
         /\ IsNumber(Decimal(n)) /\ Stoll(Decimal(n)) = n
<1> DEFINE t == Chunk("digits", n)
<1>1. t.wt = "digits" /\ t.n = n /\ t \in TokensOf({})
  BY EmptySeq DEF Chunk, TokensOf, Wires
<1> HIDE DEF t
<1>2. Decimal(n) = <<t>>
  BY DEF Decimal, t
<1>3. <<t>> \in Seq(TokensOf({})) /\ DOMAIN <<t>> = {1} /\ <<t>>[1] = t
      /\ <<t>> # <<>>
  BY <1>1
<1> QED BY <1>1, <1>2, <1>3 DEF Utf8, IsNumber, Stoll

-----------------------------------------------------------------------------
(* A request within its packet. *)
LEMMA RequestTypes ==
  ASSUME NEW uri \in DOMAIN RequestType
  PROVE  /\ uri \in 0..EnumWord - 1 /\ RequestType[uri] \in Types
         /\ uri + 1 \in DOMAIN ResponseType
         /\ uri + 1 \in 0..EnumWord - 1 /\ ResponseType[uri + 1] \in Types
<1>1. uri = 1001 \/ uri = 1003 \/ uri = 1005 \/ uri = 1007
  BY DEF RequestType, StreamURI
<1>2. uri \in 0..EnumWord - 1 /\ uri + 1 \in 0..EnumWord - 1
  BY <1>1, EnumWordFacts
<1>3. DOMAIN ResponseType = {1002, 1004, 1006, 1008}
  BY DEF ResponseType, StreamURI
<1>4. CASE uri = 1001
  BY <1>2, <1>3, <1>4 DEF RequestType, ResponseType, StreamURI, Types, Class
<1>5. CASE uri = 1003
  BY <1>2, <1>3, <1>5 DEF RequestType, ResponseType, StreamURI, Types, Class
<1>6. CASE uri = 1005
  BY <1>2, <1>3, <1>6 DEF RequestType, ResponseType, StreamURI, Types, Class
<1>7. CASE uri = 1007
  BY <1>2, <1>3, <1>7 DEF RequestType, ResponseType, StreamURI, Types, Class
<1> QED BY <1>1, <1>4, <1>5, <1>6, <1>7

(* A serialiser's message, read by the parser of the build. *)
LEMMA SerializedIsParsed ==
  ASSUME NEW ty \in Types, NEW B, NEW m, IsMessageOver(ty, m, B),
         B \in {{}, Chunks}
  PROVE  /\ Serialize(SerializeToArray, ty, m) \in Seq(TokensOf(TokensOf(B)))
         /\ IF Legible(ty, m)
             THEN Parse(ty, Serialize(SerializeToArray, ty, m)) = Read(m)
             ELSE ~Parse(ty, Serialize(SerializeToArray, ty, m)).ok
<1>1. SerializeToArray \in Serializers /\ InternalParse \in Parsers
  BY DEF Serializers, Parsers
<1>2. TokensOf(B) \subseteq Parts
  BY TokenTypes DEF Chunks, Parts
<1>3. \A t \in B : t.n \in Nat
  BY NumbersWithin DEF Chunks
<1>4. Serialize(SerializeToArray, ty, m) \in Seq(TokensOf(TokensOf(B)))
  BY <1>1, <1>3, SerializedMeans
<1>5. LET r == ParseWith(InternalParse, ty, Serialize(SerializeToArray, ty, m))
      IN IF Legible(ty, m) THEN r = Read(m) ELSE ~r.ok
  BY <1>1, <1>2, <1>3, SerializedIsRead
<1> QED BY <1>4, <1>5 DEF Parse

(* What a message within a packet is written as. *)
LEMMA InnerIsParsed ==
  ASSUME NEW ty \in Types, NEW m, IsMessageOver(ty, m, {})
  PROVE  LET s == Serialize(SerializeToArray, ty, m)
         IN /\ s \in Seq(Parts)
            /\ Legible(ty, m) => Parse(ty, s) = Read(m)
            /\ ~Legible(ty, m) => ~Parse(ty, s).ok
<1>1. PICK B : B = {}
  OBVIOUS
<1>2. TokensOf(TokensOf(B)) = Parts
  BY <1>1 DEF Chunks, Parts
<1>3. IsMessageOver(ty, m, B) /\ B \in {{}, Chunks}
  BY <1>1
<1>4. Serialize(SerializeToArray, ty, m) \in Seq(TokensOf(TokensOf(B)))
      /\ IF Legible(ty, m)
         THEN Parse(ty, Serialize(SerializeToArray, ty, m)) = Read(m)
         ELSE ~Parse(ty, Serialize(SerializeToArray, ty, m)).ok
  BY <1>3, SerializedIsParsed
<1> QED BY <1>2, <1>4

(* The packets: no text in them that a reader may refuse. *)
LEMMA OuterIsParsed ==
  ASSUME NEW ty \in Types, NEW m, IsMessage(ty, m), Legible(ty, m)
  PROVE  LET s == Serialize(SerializeToArray, ty, m)
         IN s \in Seq(Tokens) /\ Parse(ty, s) = Read(m)
<1>1. PICK B : B = Chunks
  OBVIOUS
<1>2. TokensOf(TokensOf(B)) = Tokens
  BY <1>1 DEF Tokens, Parts
<1>3. IsMessageOver(ty, m, B) /\ B \in {{}, Chunks}
  BY <1>1 DEF IsMessage
<1>4. Serialize(SerializeToArray, ty, m) \in Seq(TokensOf(TokensOf(B)))
      /\ IF Legible(ty, m)
         THEN Parse(ty, Serialize(SerializeToArray, ty, m)) = Read(m)
         ELSE ~Parse(ty, Serialize(SerializeToArray, ty, m)).ok
  BY <1>3, SerializedIsParsed
<1> QED BY <1>2, <1>4

Enveloped(uri, s) == With("PushRegReq", [uri |-> uri, msgData |-> s])

(* The packet that carries a request. *)
LEMMA EnvelopeIsRead ==
  ASSUME NEW uri \in 0..EnumWord - 1, NEW s, s \in Seq(Parts)
  PROVE  LET P == Enveloped(uri, s)
         IN /\ IsMessage("PushRegReq", P) /\ Legible("PushRegReq", P)
            /\ P.uri = uri /\ P.msgData = s
<1> DEFINE fields == [uri |-> uri, msgData |-> s]
           ty == "PushRegReq"
<1>1. /\ DOMAIN fields = {"uri", "msgData"} /\ ty \in Types
      /\ DOMAIN Class[ty] = {"uri", "msgData"}
      /\ FieldType(ty, "uri") = "StreamURI"
      /\ FieldType(ty, "msgData") = "bytes"
  BY DEF Types, Class, PushRegReq_Class, FieldType
<1>2. uri \in 0..EnumWord - 1
  OBVIOUS
<1>3. fields.uri = uri /\ fields.msgData = s
  OBVIOUS
<1> HIDE DEF fields, ty
<1>4. IsValue("StreamURI", fields.uri, Chunks)
      /\ IsValue("bytes", fields.msgData, Chunks)
  BY <1>2, <1>3, ValuesByType DEF Enums, Strings, Parts, ValuesAre
<1>5. Given(ty, fields, Chunks)
  BY <1>1, <1>4 DEF Given
<1>6. \A f \in DOMAIN fields : LegibleValue(FieldType(ty, f), fields[f])
  BY <1>1, ValuesByType DEF ValuesAre
<1>7. /\ IsMessageOver(ty, With(ty, fields), Chunks)
      /\ Legible(ty, With(ty, fields))
      /\ \A f \in DOMAIN fields : With(ty, fields)[f] = fields[f]
  BY <1>1, <1>5, <1>6, MadeMessage
<1> QED BY <1>1, <1>3, <1>7 DEF Enveloped, IsMessage, fields, ty

(* A request, in its packet, as the gateway reads it. *)
LEMMA PacketIsRead ==
  ASSUME NEW uri \in DOMAIN RequestType, NEW m,
         IsMessageOver(RequestType[uri], m, {})
  PROVE  LET P == Enveloped(uri, Serialize(SerializeToArray,
                                           RequestType[uri], m))
             r == GatewayReads(Serialize(SerializeToArray, "PushRegReq", P))
         IN /\ IsMessage("PushRegReq", P)
            /\ Legible(RequestType[uri], m) =>
                 r = [uri |-> uri, ok |-> TRUE, msg |-> m]
            /\ ~Legible(RequestType[uri], m) => ~r.ok
<1> DEFINE ty == RequestType[uri]
           s == Serialize(SerializeToArray, ty, m)
           P == Enveloped(uri, s)
           b == Serialize(SerializeToArray, "PushRegReq", P)
<1>1. ty \in Types /\ uri \in 0..EnumWord - 1
      /\ "PushRegReq" \in Types
  BY RequestTypes DEF Types, Class
<1> HIDE DEF ty
<1>2. /\ s \in Seq(Parts)
      /\ Legible(ty, m) => Parse(ty, s) = Read(m)
      /\ ~Legible(ty, m) => ~Parse(ty, s).ok
  BY <1>1, InnerIsParsed DEF ty
<1> HIDE DEF s
<1>3. /\ IsMessage("PushRegReq", P) /\ Legible("PushRegReq", P)
      /\ P.uri = uri /\ P.msgData = s
  BY <1>1, <1>2, EnvelopeIsRead
<1> HIDE DEF P
<1>4. Parse("PushRegReq", b) = Read(P)
  BY <1>1, <1>3, OuterIsParsed
<1> HIDE DEF b
<1>5. GatewayReads(b) = GatewayReadsRequest(uri, Parse(ty, s))
  <2>1. Read(P).ok /\ Read(P).msg = P
    BY DEF Read
  <2> QED BY <1>3, <1>4, <2>1 DEF GatewayReads, GatewayReadsPacket, ty
<1>6. Legible(ty, m) => GatewayReads(b) = [uri |-> uri, ok |-> TRUE, msg |-> m]
  <2>1. GatewayReadsRequest(uri, Read(m))
          = [uri |-> uri, ok |-> TRUE, msg |-> m]
    BY DEF GatewayReadsRequest, Read
  <2> QED BY <1>2, <1>5, <2>1
<1>7. ~Legible(ty, m) => ~GatewayReads(b).ok
  <2>1. \A r : GatewayReadsRequest(uri, r).ok = r.ok
    BY DEF GatewayReadsRequest
  <2> QED BY <1>2, <1>5, <2>1
<1> QED BY <1>3, <1>6, <1>7 DEF b, P, s, ty

-----------------------------------------------------------------------------
(* What the gateway has of a request that it could read. *)
RequestIsKnown(r, c) ==
  /\ r.uri \in DOMAIN RequestType
  /\ r.msg.uid \in 0..Word - 1 /\ r.msg.suid \in 0..Long - 1
  /\ r.msg.context = Decimal(c.now)

PacketIsSound(c) ==
  LET r == GatewayReads(Serialize(SerializeToArray, "PushRegReq",
                                  MakePacket(c)))
  IN /\ IsMessage("PushRegReq", MakePacket(c))
     /\ IsReadFrom(r, c)
     /\ r.ok => RequestIsKnown(r, c)

(* The fields of a request hold what its call has. *)
FieldsHold(c, fields) ==
  /\ {"uid", "suid", "context"} \subseteq DOMAIN fields
  /\ fields.uid = c.uid
  /\ fields.suid = GetSUID(c.uid, UserTerminal[c.terminal])
  /\ fields.context = Decimal(c.now)
  /\ c.kind = "login" =>
       "cookie" \in DOMAIN fields /\ fields.cookie = c.user.token
  /\ c.kind \in {"join", "leave"} =>
       "userGroupSet" \in DOMAIN fields
       /\ GroupsRead(fields.userGroupSet) = c.groups
FieldsLegible(ty, fields) ==
  \A f \in DOMAIN fields : LegibleValue(FieldType(ty, f), fields[f])

(* A call whose packet carries the fields it should is read by the gateway   *)
(* as it was made.                                                           *)
LEMMA CallIsRead ==
  ASSUME NEW c, IsCall(c), NEW uri \in DOMAIN RequestType, NEW fields,
         Given(RequestType[uri], fields, {}), FieldsHold(c, fields),
         FieldsLegible(RequestType[uri], fields) <=> LegibleCall(c),
         MakePacket(c) = Request(uri, RequestType[uri], fields)
  PROVE  PacketIsSound(c)
<1> DEFINE ty == RequestType[uri]
           m == With(ty, fields)
           r == GatewayReads(Serialize(SerializeToArray, "PushRegReq",
                                       MakePacket(c)))
           suid == GetSUID(c.uid, UserTerminal[c.terminal])
<1>1. ty \in Types /\ uri \in 0..EnumWord - 1
  BY RequestTypes
<1>2. /\ IsMessageOver(ty, m, {})
      /\ Legible(ty, m) <=> LegibleCall(c)
      /\ \A f \in DOMAIN fields : m[f] = fields[f]
  <2> HIDE DEF ty
  <2> QED BY <1>1, MadeMessage DEF FieldsLegible, ty
<1>3. MakePacket(c) = Enveloped(uri, Serialize(SerializeToArray, ty, m))
  BY DEF Request, Enveloped
<1>4. MakePacket(c).uri = uri
  <2> DEFINE s == Serialize(SerializeToArray, ty, m)
  <2>1. s \in Seq(Parts)
    <3> HIDE DEF m, ty
    <3> QED BY <1>1, <1>2, InnerIsParsed
  <2> HIDE DEF s
  <2> QED BY <1>1, <1>3, <2>1, EnvelopeIsRead DEF s
<1>5. /\ IsMessage("PushRegReq", MakePacket(c))
      /\ Legible(ty, m) => r = [uri |-> uri, ok |-> TRUE, msg |-> m]
      /\ ~Legible(ty, m) => ~r.ok
  <2> HIDE DEF m
  <2> QED BY <1>2, <1>3, PacketIsRead
<1>6. /\ c.uid \in 0..Word - 1 /\ c.now \in Nat
      /\ c.terminal \in DOMAIN UserTerminal
  BY DEF IsCall
<1>7. suid \in 0..Long - 1 /\ suid % SuidShift = c.uid
      /\ suid \div SuidShift = UserTerminal[c.terminal]
  BY <1>6, SuidIs
<1>8. IsNumber(Decimal(c.now)) /\ Stoll(Decimal(c.now)) = c.now
  BY <1>6, DecimalFacts
<1> HIDE DEF suid, m, ty, r
<1>9. /\ m.uid = c.uid /\ m.suid = suid /\ m.context = Decimal(c.now)
      /\ c.kind = "login" => m.cookie = c.user.token
      /\ c.kind \in {"join", "leave"} =>
           GroupsRead(m.userGroupSet) = c.groups
  BY <1>2 DEF FieldsHold, suid
<1>10. CASE LegibleCall(c)
  <2>1. r.ok /\ r.uri = uri /\ r.msg = m
    BY <1>2, <1>5, <1>10
  <2>2. IsReadFrom(r, c)
    BY <1>4, <1>7, <1>8, <1>9, <1>10, <2>1 DEF IsReadFrom
  <2>3. RequestIsKnown(r, c)
    BY <1>6, <1>7, <1>9, <2>1 DEF RequestIsKnown
  <2> QED BY <1>5, <2>2, <2>3 DEF PacketIsSound, r
<1>11. CASE ~LegibleCall(c)
  <2>1. ~r.ok
    BY <1>2, <1>5, <1>11
  <2>2. IsReadFrom(r, c)
    BY <1>11, <2>1 DEF IsReadFrom
  <2> QED BY <1>5, <2>1, <2>2 DEF PacketIsSound, r
<1> QED BY <1>10, <1>11

-----------------------------------------------------------------------------
(* The values that calls put into fields. *)
LEMMA CallValues ==
  ASSUME NEW c, IsCall(c)
  PROVE  /\ IsValue("uint32", c.uid, {}) /\ IsValue("uint64", c.appkey, {})
         /\ IsValue("uint64", GetSUID(c.uid, UserTerminal[c.terminal]), {})
         /\ IsValue("UserTerminalType", UserTerminal[c.terminal], {})
         /\ \A T \in Strings :
              /\ IsValue(T, Decimal(c.appid), {})
              /\ IsValue(T, Decimal(c.now), {})
              /\ IsValue(T, c.user.account, {})
              /\ IsValue(T, c.user.passwd, {})
              /\ IsValue(T, c.user.token, {})
         /\ Utf8(Decimal(c.appid))
<1>1. /\ c.uid \in 0..Word - 1 /\ c.appid \in Nat /\ c.appkey \in 0..Long - 1
      /\ c.now \in Nat /\ c.terminal \in DOMAIN UserTerminal
  BY DEF IsCall
<1>2. /\ c.user.account \in Seq(TokensOf({}))
      /\ c.user.passwd \in Seq(TokensOf({}))
      /\ c.user.token \in Seq(TokensOf({}))
  BY DEF IsCall, Chunks
<1>3. GetSUID(c.uid, UserTerminal[c.terminal]) \in 0..Long - 1
      /\ UserTerminal[c.terminal] \in 0..EnumWord - 1
  BY <1>1, SuidIs
<1>4. /\ Decimal(c.appid) \in Seq(TokensOf({})) /\ Utf8(Decimal(c.appid))
      /\ Decimal(c.now) \in Seq(TokensOf({}))
  BY <1>1, DecimalFacts
<1> QED BY <1>1, <1>2, <1>3, <1>4, ValuesByType DEF Enums, ValuesAre

(* So is a login: what it cannot be read for is its account or password. *)
LEMMA LoginIsSound ==
  ASSUME NEW c, IsCall(c), c.kind = "login"
  PROVE  PacketIsSound(c)
<1> DEFINE ty == "LoginRequest"
           uri == StreamURI.Login
           fields ==
             [uid |-> c.uid, suid |-> GetSUID(c.uid, UserTerminal[c.terminal]),
              appid |-> Decimal(c.appid), appKey |-> c.appkey,
              termnialType |-> UserTerminal[c.terminal],
              account |-> c.user.account, password |-> c.user.passwd,
              cookie |-> c.user.token, context |-> Decimal(c.now)]
<1>1. MakePacket(c) = Request(uri, ty, fields)
  BY DEF MakePacket, make_login_packet
<1>2. uri \in DOMAIN RequestType /\ RequestType[uri] = ty
  BY DEF RequestType, StreamURI
<1>3. /\ FieldType(ty, "uid") = "uint32" /\ FieldType(ty, "suid") = "uint64"
      /\ FieldType(ty, "appid") = "string"
      /\ FieldType(ty, "appKey") = "uint64"
      /\ FieldType(ty, "termnialType") = "UserTerminalType"
      /\ FieldType(ty, "account") = "string"
      /\ FieldType(ty, "password") = "string"
      /\ FieldType(ty, "cookie") = "bytes"
      /\ FieldType(ty, "context") = "bytes"
  BY DEF FieldType, Class, LoginRequest_Class
<1>4. DOMAIN fields = {"uid", "suid", "appid", "appKey", "termnialType",
                       "account", "password", "cookie", "context"}
      /\ DOMAIN fields \subseteq DOMAIN Class[ty]
  BY DEF Class, LoginRequest_Class
<1>5. /\ fields.uid = c.uid
      /\ fields.suid = GetSUID(c.uid, UserTerminal[c.terminal])
      /\ fields.appid = Decimal(c.appid) /\ fields.appKey = c.appkey
      /\ fields.termnialType = UserTerminal[c.terminal]
      /\ fields.account = c.user.account /\ fields.password = c.user.passwd
      /\ fields.cookie = c.user.token /\ fields.context = Decimal(c.now)
  OBVIOUS
<1> HIDE DEF fields, ty, uri
<1>6. Given(ty, fields, {})
  BY <1>3, <1>4, <1>5, CallValues DEF Given, Strings
<1>7. FieldsHold(c, fields)
  BY <1>4, <1>5 DEF FieldsHold
<1>8. FieldsLegible(ty, fields) <=> LegibleCall(c)
  <2>1. Utf8(Decimal(c.appid))
    BY CallValues
  <2>2. FieldsLegible(ty, fields) <=>
          Utf8(c.user.account) /\ Utf8(c.user.passwd)
    BY <1>3, <1>4, <1>5, <2>1, ValuesByType DEF FieldsLegible, ValuesAre
  <2> QED BY <2>2 DEF LegibleCall
<1> QED BY <1>1, <1>2, <1>6, <1>7, <1>8, CallIsRead

(* So is a logout. *)
LEMMA LogoutIsSound ==
  ASSUME NEW c, IsCall(c), c.kind = "logout"
  PROVE  PacketIsSound(c)
<1> DEFINE ty == "LogoutRequest"
           uri == StreamURI.Logout
           fields ==
             [appid |-> Decimal(c.appid), uid |-> c.uid,
              suid |-> GetSUID(c.uid, UserTerminal[c.terminal]),
              context |-> Decimal(c.now), appKey |-> c.appkey,
              termnialType |-> UserTerminal[c.terminal]]
<1>1. MakePacket(c) = Request(uri, ty, fields)
  BY DEF MakePacket, make_logout_packet
<1>2. uri \in DOMAIN RequestType /\ RequestType[uri] = ty
  BY DEF RequestType, StreamURI
<1>3. /\ FieldType(ty, "uid") = "uint32" /\ FieldType(ty, "suid") = "uint64"
      /\ FieldType(ty, "appid") = "string"
      /\ FieldType(ty, "appKey") = "uint64"
      /\ FieldType(ty, "termnialType") = "UserTerminalType"
      /\ FieldType(ty, "context") = "bytes"
  BY DEF FieldType, Class, LogoutRequest_Class
<1>4. DOMAIN fields = {"uid", "suid", "appid", "appKey", "termnialType",
                       "context"}
      /\ DOMAIN fields \subseteq DOMAIN Class[ty]
  BY DEF Class, LogoutRequest_Class
<1>5. /\ fields.uid = c.uid
      /\ fields.suid = GetSUID(c.uid, UserTerminal[c.terminal])
      /\ fields.appid = Decimal(c.appid) /\ fields.appKey = c.appkey
      /\ fields.termnialType = UserTerminal[c.terminal]
      /\ fields.context = Decimal(c.now)
  OBVIOUS
<1> HIDE DEF fields, ty, uri
<1>6. Given(ty, fields, {})
  BY <1>3, <1>4, <1>5, CallValues DEF Given, Strings
<1>7. FieldsHold(c, fields)
  BY <1>4, <1>5 DEF FieldsHold
<1>8. FieldsLegible(ty, fields) /\ LegibleCall(c)
  <2>1. Utf8(Decimal(c.appid))
    BY CallValues
  <2>2. FieldsLegible(ty, fields)
    BY <1>3, <1>4, <1>5, <2>1, ValuesByType DEF FieldsLegible, ValuesAre
  <2> QED BY <2>2 DEF LegibleCall
<1> QED BY <1>1, <1>2, <1>6, <1>7, <1>8, CallIsRead

(* The groups of a call, as messages. *)
LEMMA CallGroups ==
  ASSUME NEW c, IsCall(c)
  PROVE  /\ UserGroups(c.groups) \in Seq(GroupMessages({}))
         /\ GroupsRead(UserGroups(c.groups)) = c.groups
<1> DEFINE gs == c.groups
           us == UserGroups(gs)
           G == [gtype : 0..Long - 1, gid : 0..Long - 1]
<1>1. gs \in Seq(G)
  BY DEF IsCall
<1> HIDE DEF gs
<1>2. ASSUME NEW g \in G
      PROVE  LET u == With("UserGroup", [userGroupType |-> g.gtype,
                                         userGroupId |-> g.gid])
             IN /\ u \in GroupMessages({})
                /\ [gtype |-> u.userGroupType, gid |-> u.userGroupId] = g
  <2> DEFINE fields == [userGroupType |-> g.gtype, userGroupId |-> g.gid]
             u == With("UserGroup", fields)
  <2>1. DOMAIN fields = {"userGroupType", "userGroupId"}
        /\ fields.userGroupType = g.gtype /\ fields.userGroupId = g.gid
    OBVIOUS
  <2>2. /\ Fields("UserGroup") = {"userGroupType", "userGroupId", "unknown"}
        /\ New("UserGroup").unknown = <<>>
    BY UserGroupClass DEF Fields, New
  <2> HIDE DEF fields
  <2>3. u = [f \in Fields("UserGroup") |->
               IF f \in DOMAIN fields THEN fields[f] ELSE New("UserGroup")[f]]
    BY DEF With
  <2> HIDE DEF u
  <2>4. u = [userGroupType |-> g.gtype, userGroupId |-> g.gid,
             unknown |-> <<>>]
    BY <2>1, <2>2, <2>3
  <2>5. AreUnknown("UserGroup", <<>>) /\ <<>> \in Seq(TokensOf({}))
    BY DEF AreUnknown, Plain
  <2>6. u \in GroupMessages({})
    BY <2>4, <2>5 DEF GroupMessages
  <2>7. [gtype |-> u.userGroupType, gid |-> u.userGroupId] = g
    BY <2>4
  <2> QED BY <2>6, <2>7 DEF u, fields
<1>3. us = [i \in DOMAIN gs |->
              With("UserGroup", [userGroupType |-> gs[i].gtype,
                                 userGroupId |-> gs[i].gid])]
  BY DEF UserGroups
<1> HIDE DEF us
<1>4. /\ DOMAIN gs = 1..Len(gs) /\ Len(gs) \in Nat
      /\ \A i \in DOMAIN gs : gs[i] \in G
  <2> HIDE DEF G
  <2> QED BY <1>1
<1>5. \A i \in DOMAIN gs : us[i] \in GroupMessages({})
        /\ [gtype |-> us[i].userGroupType, gid |-> us[i].userGroupId] = gs[i]
  <2> HIDE DEF G
  <2> QED BY <1>2, <1>3, <1>4
<1>6. us \in Seq(GroupMessages({}))
  BY <1>3, <1>4, <1>5
<1>7. GroupsRead(us) = gs
  <2>1. gs = [i \in DOMAIN gs |-> gs[i]]
    BY <1>1
  <2>2. DOMAIN us = DOMAIN gs
    BY <1>3
  <2>3. GroupsRead(us) = [i \in DOMAIN us |->
          [gtype |-> us[i].userGroupType, gid |-> us[i].userGroupId]]
    BY DEF GroupsRead
  <2> QED BY <1>5, <2>1, <2>2, <2>3
<1> QED BY <1>6, <1>7 DEF us, gs

(* So are joining groups and leaving them. *)
LEMMA GroupCallsAreSound ==
  ASSUME NEW c, IsCall(c), c.kind \in {"join", "leave"}
  PROVE  PacketIsSound(c)
<1> DEFINE ty == IF c.kind = "join" THEN "JoinGroupRequest"
                 ELSE "LeaveGroupRequest"
           uri == IF c.kind = "join" THEN StreamURI.JoinGroup
                  ELSE StreamURI.LeaveGroup
           fields ==
             [uid |-> c.uid, suid |-> GetSUID(c.uid, UserTerminal[c.terminal]),
              context |-> Decimal(c.now),
              userGroupSet |-> UserGroups(c.groups)]
<1>1. MakePacket(c) = Request(uri, ty, fields)
  <2>1. CASE c.kind = "join"
    BY <2>1 DEF MakePacket, make_join_group_packet
  <2>2. CASE c.kind = "leave"
    BY <2>2 DEF MakePacket, make_leave_group_packet
  <2> QED BY <2>1, <2>2
<1>2. uri \in DOMAIN RequestType /\ RequestType[uri] = ty
  BY DEF RequestType, StreamURI
<1>3. /\ FieldType(ty, "uid") = "uint32" /\ FieldType(ty, "suid") = "uint64"
      /\ FieldType(ty, "userGroupSet") = "UserGroup*"
      /\ FieldType(ty, "context") = "bytes"
  BY DEF FieldType, Class, JoinGroupRequest_Class, LeaveGroupRequest_Class
<1>4. DOMAIN fields = {"uid", "suid", "context", "userGroupSet"}
      /\ DOMAIN fields \subseteq DOMAIN Class[ty]
  BY DEF Class, JoinGroupRequest_Class, LeaveGroupRequest_Class
<1>5. /\ fields.uid = c.uid
      /\ fields.suid = GetSUID(c.uid, UserTerminal[c.terminal])
      /\ fields.userGroupSet = UserGroups(c.groups)
      /\ fields.context = Decimal(c.now)
  OBVIOUS
<1> HIDE DEF fields, ty, uri
<1>6. Given(ty, fields, {})
  <2>1. IsValue("UserGroup*", UserGroups(c.groups), {})
    BY CallGroups, ValuesByType DEF ValuesAre
  <2> QED BY <1>3, <1>4, <1>5, <2>1, CallValues DEF Given, Strings
<1>7. FieldsHold(c, fields)
  BY <1>4, <1>5, CallGroups DEF FieldsHold
<1>8. FieldsLegible(ty, fields) /\ LegibleCall(c)
  <2>2. FieldsLegible(ty, fields)
    BY <1>3, <1>4, <1>5, ValuesByType DEF FieldsLegible, ValuesAre
  <2> QED BY <2>2 DEF LegibleCall
<1> QED BY <1>1, <1>2, <1>6, <1>7, <1>8, CallIsRead

(* So is every call of the SDK. *)
LEMMA CallsAreSound ==
  ASSUME NEW c, IsCall(c) PROVE PacketIsSound(c)
<1>1. c.kind \in {"login", "logout", "join", "leave"}
  BY DEF IsCall
<1> QED BY <1>1, LoginIsSound, LogoutIsSound, GroupCallsAreSound

-----------------------------------------------------------------------------
(* The bytes of a request's packet are bytes that a reader may be given: no  *)
(* field of PushRegReq is one a reader may refuse.                           *)
LEMMA RequestsAreWritten ==
  ASSUME NEW m, IsMessage("PushRegReq", m)
  PROVE  Serialize(SerializeToArray, "PushRegReq", m) \in Seq(Tokens)
<1>1. "PushRegReq" \in Types /\ DOMAIN Class["PushRegReq"] = {"uri", "msgData"}
      /\ FieldType("PushRegReq", "uri") = "StreamURI"
      /\ FieldType("PushRegReq", "msgData") = "bytes"
  BY DEF Types, Class, PushRegReq_Class, FieldType
<1>2. Legible("PushRegReq", m)
  BY <1>1 DEF Legible, LegibleValue
<1> QED BY <1>1, <1>2, OuterIsParsed

(* What a response class declares of the fields of an answer. *)
LEMMA ResponseFields ==
  ASSUME NEW ty \in {ResponseType[uri] : uri \in DOMAIN ResponseType}
  PROVE  /\ {"resCode", "uid", "suid", "context", "errMsg"}
              \subseteq DOMAIN Class[ty]
         /\ FieldType(ty, "resCode") = "uint32"
         /\ FieldType(ty, "uid") = "uint32"
         /\ FieldType(ty, "suid") = "uint64"
         /\ FieldType(ty, "context") = "bytes"
         /\ FieldType(ty, "errMsg") = "string"
<1>1. ty \in {"LoginResponse", "LogoutResponse", "JoinGroupResponse",
              "LeaveGroupResponse"}
  BY DEF ResponseType, StreamURI
<1>2. CASE ty = "LoginResponse"
  BY <1>2 DEF FieldType, Class, LoginResponse_Class
<1>3. CASE ty = "LogoutResponse"
  BY <1>3 DEF FieldType, Class, LogoutResponse_Class
<1>4. CASE ty = "JoinGroupResponse"
  BY <1>4 DEF FieldType, Class, JoinGroupResponse_Class
<1>5. CASE ty = "LeaveGroupResponse"
  BY <1>5 DEF FieldType, Class, LeaveGroupResponse_Class
<1> QED BY <1>1, <1>2, <1>3, <1>4, <1>5

IsAnswer(a) == a.code \in 0..Word - 1 /\ a.errMsg \in Seq(Chunks)

(* The message of an answer, which is legible as its error message is. *)
LEMMA AnswerIsMade ==
  ASSUME NEW r, NEW c, IsCall(c), RequestIsKnown(r, c),
         NEW a, IsAnswer(a)
  PROVE  LET ty == ResponseType[r.uri + 1]
             m == With(ty, AnswerFields(r.msg, a.code, a.errMsg))
         IN /\ ty \in Types /\ IsMessageOver(ty, m, {})
            /\ Legible(ty, m) <=> Utf8(a.errMsg)
            /\ m.context = Decimal(c.now) /\ m.resCode = a.code
<1> DEFINE ty == ResponseType[r.uri + 1]
           fields == AnswerFields(r.msg, a.code, a.errMsg)
<1>1. ty \in Types
      /\ ty \in {ResponseType[uri] : uri \in DOMAIN ResponseType}
  BY RequestTypes DEF RequestIsKnown
<1>2. DOMAIN fields = {"resCode", "uid", "suid", "context", "errMsg"}
      /\ fields.resCode = a.code /\ fields.uid = r.msg.uid
      /\ fields.suid = r.msg.suid /\ fields.context = r.msg.context
      /\ fields.errMsg = a.errMsg
  BY DEF AnswerFields
<1> HIDE DEF ty, fields
<1>3. /\ fields.resCode \in 0..Word - 1 /\ fields.uid \in 0..Word - 1
      /\ fields.suid \in 0..Long - 1 /\ fields.context = Decimal(c.now)
      /\ fields.context \in Seq(TokensOf({}))
      /\ fields.errMsg \in Seq(TokensOf({}))
  BY <1>2, DecimalFacts DEF RequestIsKnown, IsAnswer, IsCall, Chunks
<1>4. Given(ty, fields, {})
  BY <1>1, <1>2, <1>3, ResponseFields, ValuesByType
  DEF Given, Strings, ValuesAre
<1>5. (\A f \in DOMAIN fields : LegibleValue(FieldType(ty, f), fields[f]))
      <=> Utf8(a.errMsg)
  BY <1>1, <1>2, ResponseFields, ValuesByType DEF ValuesAre
<1>6. /\ IsMessageOver(ty, With(ty, fields), {})
      /\ Legible(ty, With(ty, fields)) <=>
           \A f \in DOMAIN fields : LegibleValue(FieldType(ty, f), fields[f])
      /\ \A f \in DOMAIN fields : With(ty, fields)[f] = fields[f]
  BY <1>1, <1>4, MadeMessage
<1> QED BY <1>1, <1>2, <1>3, <1>5, <1>6 DEF ty, fields

(* The message that carries an answer. *)
LEMMA PushDataIsRead ==
  ASSUME NEW uri \in 0..EnumWord - 1, NEW uid \in 0..Word - 1,
         NEW suid \in 0..Long - 1, NEW s, s \in Seq(Parts)
  PROVE  LET P == With("PushData", [uri |-> uri, uid |-> uid, suid |-> suid,
                                    msgData |-> s])
             b == Serialize(SerializeToArray, "PushData", P)
         IN /\ IsMessage("PushData", P) /\ b \in Seq(Tokens)
            /\ Parse("PushData", b) = Read(P)
            /\ P.uri = uri /\ P.msgData = s
<1> DEFINE fields == [uri |-> uri, uid |-> uid, suid |-> suid, msgData |-> s]
           ty == "PushData"
<1>1. /\ DOMAIN fields = {"uri", "uid", "suid", "msgData"} /\ ty \in Types
      /\ DOMAIN fields \subseteq DOMAIN Class[ty]
      /\ FieldType(ty, "uri") = "StreamURI"
      /\ FieldType(ty, "uid") = "uint32"
      /\ FieldType(ty, "suid") = "uint64"
      /\ FieldType(ty, "msgData") = "bytes"
  BY DEF Types, Class, PushData_Class, FieldType
<1>2. fields.uri = uri /\ fields.uid = uid /\ fields.suid = suid
      /\ fields.msgData = s
  OBVIOUS
<1>3. s \in Seq(TokensOf(Chunks))
  BY DEF Parts
<1> HIDE DEF fields, ty
<1>4. /\ IsValue("StreamURI", fields.uri, Chunks)
      /\ IsValue("uint32", fields.uid, Chunks)
      /\ IsValue("uint64", fields.suid, Chunks)
      /\ IsValue("bytes", fields.msgData, Chunks)
  BY <1>2, <1>3, ValuesByType DEF Enums, Strings, ValuesAre
<1>5. Given(ty, fields, Chunks)
  BY <1>1, <1>4 DEF Given
<1>6. \A f \in DOMAIN fields : LegibleValue(FieldType(ty, f), fields[f])
  BY <1>1, ValuesByType DEF ValuesAre
<1>7. /\ IsMessageOver(ty, With(ty, fields), Chunks)
      /\ Legible(ty, With(ty, fields))
      /\ \A f \in DOMAIN fields : With(ty, fields)[f] = fields[f]
  BY <1>1, <1>5, <1>6, MadeMessage
<1>8. IsMessage(ty, With(ty, fields))
  BY <1>7 DEF IsMessage
<1> QED BY <1>1, <1>2, <1>7, <1>8, OuterIsParsed DEF fields, ty

(* What handle_response makes of a response that it reads, or cannot. *)
LEMMA ResponseIsMatched ==
  ASSUME NEW c, IsCall(c), NEW a, NEW res,
         Utf8(a.errMsg) => /\ res.ok /\ res.msg.context = Decimal(c.now)
                           /\ res.msg.resCode = a.code,
         ~Utf8(a.errMsg) => ~res.ok
  PROVE  IsMatched(ResponseOutcome(res, {RES_SUCCESS}), c, a)
<1>1. IsNumber(Decimal(c.now)) /\ Stoll(Decimal(c.now)) = c.now
  BY DecimalFacts DEF IsCall
<1>2. CASE ~Utf8(a.errMsg)
  BY <1>2 DEF ResponseOutcome, IsMatched
<1>3. CASE Utf8(a.errMsg) /\ c.now = 0
  BY <1>1, <1>3 DEF ResponseOutcome, IsMatched
<1>4. CASE Utf8(a.errMsg) /\ c.now # 0
  <2>1. (a.code \in {RES_SUCCESS}) = (a.code = RES_SUCCESS)
    OBVIOUS
  <2> QED BY <1>1, <1>4, <2>1 DEF ResponseOutcome, IsMatched
<1> QED BY <1>2, <1>3, <1>4

(* The answer to a call is written, read back, and matched with the call. *)
LEMMA AnswersAreSound ==
  ASSUME NEW r, NEW c, IsCall(c), RequestIsKnown(r, c),
         NEW a, IsAnswer(a)
  PROVE  LET b == Serialize(SerializeToArray, "PushData",
                            GatewayAnswers(r, a.code, a.errMsg))
         IN /\ b \in Seq(Tokens)
            /\ IsMatched(OnMessage(Parse("PushData", b).msg), c, a)
<1> DEFINE ty == ResponseType[r.uri + 1]
           m == With(ty, AnswerFields(r.msg, a.code, a.errMsg))
           s == Serialize(SerializeToArray, ty, m)
           P == With("PushData", [uri |-> r.uri + 1, uid |-> r.msg.uid,
                                  suid |-> r.msg.suid, msgData |-> s])
           b == Serialize(SerializeToArray, "PushData", P)
<1>1. GatewayAnswers(r, a.code, a.errMsg) = P
  BY DEF GatewayAnswers, AnswerBytes
<1>2. /\ ty \in Types /\ IsMessageOver(ty, m, {})
      /\ Legible(ty, m) <=> Utf8(a.errMsg)
      /\ m.context = Decimal(c.now) /\ m.resCode = a.code
  BY AnswerIsMade
<1>3. /\ r.uri + 1 \in 0..EnumWord - 1 /\ r.uri + 1 \in DOMAIN ResponseType
      /\ r.msg.uid \in 0..Word - 1 /\ r.msg.suid \in 0..Long - 1
  BY RequestTypes DEF RequestIsKnown
<1> HIDE DEF m
<1>4. /\ s \in Seq(Parts)
      /\ Legible(ty, m) => Parse(ty, s) = Read(m)
      /\ ~Legible(ty, m) => ~Parse(ty, s).ok
  <2> HIDE DEF ty
  <2> QED BY <1>2, InnerIsParsed
<1> HIDE DEF s
<1>5. /\ b \in Seq(Tokens) /\ Parse("PushData", b) = Read(P)
      /\ P.uri = r.uri + 1 /\ P.msgData = s
  BY <1>3, <1>4, PushDataIsRead
<1> HIDE DEF P, b
<1>6. OnMessage(Parse("PushData", b).msg)
        = ResponseOutcome(Parse(ty, s), {RES_SUCCESS})
  <2>1. Read(P).msg = P
    BY DEF Read
  <2>2. OnMessage(P) = handle_response(ty, P)
    <3>1. \A uri \in DOMAIN ResponseType :
            uri \notin {StreamURI.NotifyToClose, StreamURI.PushDataByGroup,
                       StreamURI.PushDataByUid}
      BY DEF ResponseType, StreamURI
    <3> QED BY <1>3, <1>5, <3>1 DEF OnMessage
  <2> QED BY <1>5, <2>1, <2>2 DEF handle_response
<1>7. IsMatched(ResponseOutcome(Parse(ty, s), {RES_SUCCESS}), c, a)
  <2>1. Read(m).ok /\ Read(m).msg = m
    BY DEF Read
  <2> DEFINE res == Parse(ty, s)
  <2>2. /\ Utf8(a.errMsg) => /\ res.ok /\ res.msg.context = Decimal(c.now)
                             /\ res.msg.resCode = a.code
        /\ ~Utf8(a.errMsg) => ~res.ok
    BY <1>2, <1>4, <2>1
  <2> HIDE DEF res
  <2>3. IsMatched(ResponseOutcome(res, {RES_SUCCESS}), c, a)
    BY <2>2, ResponseIsMatched
  <2> QED BY <2>3 DEF res
<1> QED BY <1>1, <1>5, <1>6, <1>7 DEF b

-----------------------------------------------------------------------------
MergeIn(e, m, s) == MergeFrom(e, m, s)
Merging == INSTANCE SequenceFolds WITH Op <- MergeIn

(* A cleared message is as good as new. *)
LEMMA ClearedIsNew ==
  ASSUME NEW ty \in Types, NEW m, IsMessage(ty, m)
  PROVE  Clear(ty, m) = New(ty)
<1>1. m = [f \in Fields(ty) |-> m[f]]
  BY DEF IsMessage, IsMessageOver
<1>2. Clears[ty] = DOMAIN Class[ty]
  BY ClearsFit DEF ClearFits
<1>3. Fields(ty) = DOMAIN Class[ty] \cup {"unknown"}
      /\ "unknown" \notin DOMAIN Class[ty]
  BY TypesOfFields DEF Fields
<1>4. DOMAIN m = Fields(ty)
  BY <1>1
<1>5. Clear(ty, m) = [f \in Fields(ty) |-> New(ty)[f]]
  BY <1>2, <1>3, <1>4 DEF Clear, New
<1>6. New(ty) = [f \in Fields(ty) |-> New(ty)[f]]
  BY DEF New
<1> QED BY <1>5, <1>6

(* One more message merged. *)
LEMMA MergeAllAppend ==
  ASSUME NEW ty, NEW A, NEW s \in Seq(A), NEW m \in A
  PROVE  /\ MergeAll(ty, <<>>) = New(ty)
         /\ MergeAll(ty, Append(s, m)) = MergeFrom(ty, MergeAll(ty, s), m)
<1>1. \A t : MergeAll(ty, t) = Merging!Fold(ty, New(ty), t)
  BY DEF MergeAll, Merging!Fold, MergeIn, FoldLeft, MapThenFoldSet, Max,
    Merging!FoldLeft, Merging!MapThenFoldSet, Merging!Max
<1>2. \A x, y : MergeIn(ty, x, y) = MergeFrom(ty, x, y)
  BY DEF MergeIn
<1>3. PICK base : base = New(ty)
  OBVIOUS
<1>4. Merging!Fold(ty, base, <<>>) = base
  BY Merging!FoldEmpty
<1>5. Merging!Fold(ty, base, Append(s, m))
        = MergeIn(ty, Merging!Fold(ty, base, s), m)
  BY Merging!FoldAppend
<1> QED BY <1>1, <1>2, <1>3, <1>4, <1>5

-----------------------------------------------------------------------------
(* What is in transit: messages and foreign fields, whose meaning is the     *)
(* merge of the messages while no foreign field is among them; or a call's   *)
(* request; or its answer, which the SDK will match with the call.           *)
MessagesTravel ==
  /\ answer = <<>> /\ foreign \in Nat /\ sent \in Seq(Messages(type))
  /\ foreign = 0 => Meaning(type, bytes) = Merged
RequestTravels(c) ==
  /\ answer = <<>> /\ type = "PushRegReq"
  /\ bytes = Serialize(SerializeToArray, "PushRegReq", MakePacket(c))
AnswerTravels(c) ==
  /\ type = "PushData"
  /\ \E a \in Answers :
       /\ answer = <<a>>
       /\ IsMatched(OnMessage(Parse("PushData", bytes).msg), c, a)
IInv ==
  /\ type \in Types /\ bytes \in Seq(Tokens)
  /\ call = <<>> => MessagesTravel
  /\ call # <<>> => \E c \in Calls : /\ call = <<c>>
                                     /\ RequestTravels(c) \/ AnswerTravels(c)

(* Nothing travels, and that means a new message: nothing merged. *)
LEMMA InitInv == Init => IInv
<1> SUFFICES ASSUME Init PROVE IInv
  OBVIOUS
<1>1. type \in Types /\ bytes = <<>> /\ sent = <<>> /\ foreign = 0
      /\ call = <<>> /\ answer = <<>>
  BY DEF Init
<1>2. bytes \in Seq(Tokens) /\ sent \in Seq(Messages(type))
  BY <1>1, EmptySeq
<1>3. Merged = New(type)
  <2>1. <<>> \in Seq({1}) /\ 1 \in {1}
    OBVIOUS
  <2> QED BY <1>1, <2>1, MergeAllAppend DEF Merged
<1>4. Meaning(type, bytes) = New(type)
  BY <1>1, MeaningOfNothing
<1> QED BY <1>1, <1>2, <1>3, <1>4 DEF IInv, MessagesTravel

(* What another message adds to the bytes merges it into their meaning. *)
LEMMA WriteMessageKeepsInv ==
  ASSUME IInv, NEW m \in Messages(type), WriteMessage(m)
  PROVE  IInv'
<1>1. type \in Types /\ bytes \in Seq(Tokens) /\ call = <<>> /\ MessagesTravel
  BY DEF IInv, WriteMessage
<1>2. PICK w \in Serializers : bytes' = bytes \o Serialize(w, type, m)
  BY DEF WriteMessage, Serializers
<1>3. sent' = Append(sent, m) /\ type' = type /\ foreign' = foreign
      /\ call' = call /\ answer' = answer
  BY DEF WriteMessage
<1>4. PICK B : B = Chunks
  OBVIOUS
<1>5. IsMessageOver(type, m, B) /\ \A t \in B : t.n \in Nat
  BY <1>1, <1>4, MessagesAssumption, NumbersWithin DEF IsMessage, Chunks
<1>6. /\ Serialize(w, type, m) \in Seq(TokensOf(TokensOf(B)))
      /\ Meaning(type, bytes \o Serialize(w, type, m))
           = MergeFrom(type, Meaning(type, bytes), m)
  BY <1>1, <1>5, MessageIsMerged
<1>7. bytes' \in Seq(Tokens)
  <2>1. TokensOf(TokensOf(B)) = Tokens
    BY <1>4 DEF Tokens, Parts
  <2> QED BY <1>1, <1>2, <1>6, <2>1
<1>8. sent \in Seq(Messages(type)) /\ sent' \in Seq(Messages(type))
  BY <1>1, <1>3 DEF MessagesTravel
<1>9. foreign = 0 => Meaning(type', bytes') = Merged'
  <2>1. Merged' = MergeFrom(type, Merged, m)
    BY <1>1, <1>3, MergeAllAppend DEF Merged, MessagesTravel
  <2> QED BY <1>1, <1>2, <1>3, <1>6, <2>1 DEF MessagesTravel
<1>10. MessagesTravel'
  BY <1>1, <1>3, <1>8, <1>9 DEF MessagesTravel
<1> QED BY <1>1, <1>3, <1>7, <1>10 DEF IInv

(* A foreign field is a token as well. *)
LEMMA WriteForeignKeepsInv ==
  ASSUME IInv, NEW t \in ForeignFields(type), WriteForeign(t)
  PROVE  IInv'
<1>1. type \in Types /\ bytes \in Seq(Tokens) /\ call = <<>> /\ MessagesTravel
  BY DEF IInv, WriteForeign
<1>2. bytes' = Append(bytes, t) /\ foreign' = foreign + 1 /\ sent' = sent
      /\ type' = type /\ call' = call /\ answer' = answer
  BY DEF WriteForeign
<1>3. t \in Tokens
  BY <1>1, ForeignAssumption
<1>4. bytes' \in Seq(Tokens)
  BY <1>1, <1>2, <1>3
<1>5. foreign' \in Nat /\ foreign' # 0
  BY <1>1, <1>2 DEF MessagesTravel
<1> QED BY <1>1, <1>2, <1>4, <1>5 DEF IInv, MessagesTravel

(* A call's request is bytes of a packet. *)
LEMMA MakeCallKeepsInv ==
  ASSUME IInv, NEW c \in Calls, MakeCall(c)
  PROVE  IInv'
<1>1. type = "PushRegReq" /\ type \in Types /\ answer = <<>>
  BY DEF IInv, MakeCall, MessagesTravel
<1>2. call' = <<c>> /\ type' = type /\ answer' = answer
      /\ bytes' = Serialize(SerializeToArray, "PushRegReq", MakePacket(c))
  BY <1>1 DEF MakeCall
<1>3. IsMessage("PushRegReq", MakePacket(c))
  BY CallsAssumption, CallsAreSound DEF PacketIsSound
<1>4. bytes' \in Seq(Tokens)
  BY <1>2, <1>3, RequestsAreWritten
<1>5. call' # <<>>
  BY <1>2
<1> QED BY <1>1, <1>2, <1>4, <1>5 DEF IInv, RequestTravels

(* The gateway answers only a request that it read, hence one whose          *)
(* context is the call's timestamp: the answer will be matched with the      *)
(* call.                                                                     *)
LEMMA GatewayAnswerKeepsInv ==
  ASSUME IInv, NEW a \in Answers, GatewayAnswer(a)
  PROVE  IInv'
<1>1. call # <<>> /\ answer = <<>> /\ GatewayAnswerTo(GatewayReads(bytes), a)
  BY DEF GatewayAnswer
<1>2. PICK c \in Calls : call = <<c>> /\ RequestTravels(c)
  <2>1. ~\E x \in Answers : answer = <<x>>
    BY <1>1
  <2> QED BY <1>1, <2>1 DEF IInv, AnswerTravels
<1> DEFINE r == GatewayReads(bytes)
<1>3. bytes = Serialize(SerializeToArray, "PushRegReq", MakePacket(c))
  BY <1>2 DEF RequestTravels
<1>4. IsCall(c) /\ PacketIsSound(c)
  BY CallsAssumption, CallsAreSound
<1>5. r.ok => RequestIsKnown(r, c)
  BY <1>3, <1>4 DEF PacketIsSound
<1> HIDE DEF r
<1>6. /\ r.ok /\ type' = "PushData" /\ answer' = <<a>> /\ call' = call
      /\ bytes' = Serialize(SerializeToArray, "PushData",
                            GatewayAnswers(r, a.code, a.errMsg))
  BY <1>1 DEF GatewayAnswerTo, r
<1>7. IsAnswer(a)
  BY AnswersAssumption DEF IsAnswer
<1>8. /\ bytes' \in Seq(Tokens)
      /\ IsMatched(OnMessage(Parse("PushData", bytes').msg), c, a)
  BY <1>4, <1>5, <1>6, <1>7, AnswersAreSound
<1>9. type' \in Types
  BY <1>6 DEF Types, Class
<1>10. AnswerTravels(c)'
  BY <1>6, <1>8 DEF AnswerTravels
<1>11. call' = <<c>> /\ call' # <<>>
  BY <1>2, <1>6
<1> QED BY <1>8, <1>9, <1>10, <1>11 DEF IInv

(* Every step keeps the invariant. *)
LEMMA StepInv == IInv /\ [Next]_vars => IInv'
<1> SUFFICES ASSUME IInv, [Next]_vars PROVE IInv'
  OBVIOUS
<1>1. CASE Next
  BY <1>1, WriteMessageKeepsInv, WriteForeignKeepsInv, MakeCallKeepsInv,
     GatewayAnswerKeepsInv DEF Next
<1>2. CASE UNCHANGED vars
  BY <1>2 DEF vars, IInv, MessagesTravel, RequestTravels, AnswerTravels, Merged
<1> QED BY <1>1, <1>2

(* The bytes in transit are always of messages, a request or an answer. *)
THEOREM TravelCorrect == Spec => []IInv
BY InitInv, StepInv, PTL DEF Spec

(* Both parsers read everything that can be in transit as it is declared,    *)
(* foreign fields included, and refuse only what they may: for all widths    *)
(* of the integers, all messages and any number of them.                     *)
THEOREM BytesAreReadAsDeclared == Spec => []ReadsAsDeclared
<1>1. IInv => ReadsAsDeclared
  <2> SUFFICES ASSUME IInv, NEW p \in Parsers
               PROVE  IsReadAs(ParseWith(p, type, bytes),
                               Readable(type, bytes), Meaning(type, bytes))
    BY DEF ReadsAsDeclared
  <2>1. type \in Types /\ bytes \in Seq(Tokens)
    BY DEF IInv
  <2>2. \/ /\ Readable(type, bytes)
           /\ ParseWith(p, type, bytes) = Read(Meaning(type, bytes))
        \/ /\ ~Readable(type, bytes)
           /\ \E m : ParseWith(p, type, bytes) = Refused(m)
    BY <2>1, BytesAreRead
  <2> QED BY <2>2 DEF IsReadAs, Read, Refused
<1> QED BY <1>1, TravelCorrect, PTL

(* What several serialisations wrote is read as the merge of the messages. *)
THEOREM PiecesAreMerged == Spec => []ConcatenationMerges
<1>1. IInv => ConcatenationMerges
  <2> SUFFICES ASSUME IInv, foreign = 0, call = <<>>
               PROVE  IsMerged(Parse(type, bytes))
    BY DEF ConcatenationMerges
  <2>1. type \in Types /\ bytes \in Seq(Tokens)
        /\ Meaning(type, bytes) = Merged
    BY DEF IInv, MessagesTravel
  <2>2. InternalParse \in Parsers
    BY DEF Parsers
  <2>3. Parse(type, bytes).ok => Parse(type, bytes) = Read(Merged)
    <3>1. \A m : ~Refused(m).ok
      BY DEF Refused
    <3> QED BY <2>1, <2>2, <3>1, BytesAreRead DEF Parse
  <2> QED BY <2>3 DEF IsMerged, Read
<1> QED BY <1>1, TravelCorrect, PTL

(* The size of what has been read is the number of bytes that either         *)
(* serialiser writes for it, the messages, the entries of maps and the       *)
(* unknown fields within included: the buffer and every length prefix, for   *)
(* all messages and all widths of the integers.                              *)
THEOREM SizesAreLengths == Spec => []SizeIsLength
<1>1. IInv => SizeIsLength
  <2> SUFFICES ASSUME IInv PROVE SizeOfAny(Parse(type, bytes))
    BY DEF SizeIsLength
  <2> DEFINE r == Parse(type, bytes)
  <2> SUFFICES ASSUME r.ok, NEW w \in Serializers
               PROVE  Size(type, r.msg) = ByteLength(Serialize(w, type, r.msg))
    BY DEF SizeOfAny
  <2>1. type \in Types /\ bytes \in Seq(Tokens) /\ InternalParse \in Parsers
    BY DEF IInv, Parsers
  <2>2. IsMessage(type, r.msg)
    BY <2>1, RewrittenIsRead DEF Parse
  <2>3. TokensOf(Chunks) = Parts /\ \A t \in Chunks : t.n \in Nat
    BY NumbersWithin DEF Parts, Chunks
  <2> HIDE DEF r
  <2> QED BY <2>1, <2>2, <2>3, SerializedLength DEF IsMessage
<1> QED BY <1>1, TravelCorrect, PTL

(* What has been read can be written by either serialiser and read again     *)
(* without loss, and cleared to what is new.                                 *)
THEOREM NothingIsLost == Spec => []RewritingLosesNothing
<1>1. IInv => RewritingLosesNothing
  <2> SUFFICES ASSUME IInv PROVE LosesNothing(Parse(type, bytes))
    BY DEF RewritingLosesNothing
  <2> DEFINE r == Parse(type, bytes)
  <2> SUFFICES ASSUME r.ok
               PROVE  /\ \A w \in Serializers :
                           Parse(type, Serialize(w, type, r.msg)) = r
                      /\ Clear(type, r.msg) = New(type)
    BY DEF LosesNothing
  <2>1. type \in Types /\ bytes \in Seq(Tokens) /\ InternalParse \in Parsers
    BY DEF IInv, Parsers
  <2>2. ASSUME NEW w \in Serializers
        PROVE  /\ Parse(type, Serialize(w, type, r.msg)) = r
               /\ IsMessage(type, r.msg)
    BY <2>1, RewrittenIsRead DEF Parse
  <2>3. SerializeToArray \in Serializers
    BY DEF Serializers
  <2> HIDE DEF r
  <2> QED BY <2>1, <2>2, <2>3, ClearedIsNew
<1> QED BY <1>1, TravelCorrect, PTL

(* The gateway finds in a request the call it was made from, or cannot       *)
(* read it if the account or the password is not UTF-8: for every call,      *)
(* uid, terminal type and timestamp.                                         *)
THEOREM RequestsAreRead == Spec => []RequestIsRead
<1>1. IInv => RequestIsRead
  <2> SUFFICES ASSUME IInv, call # <<>>, answer = <<>>
               PROVE  IsReadFrom(GatewayReads(bytes), call[1])
    BY DEF RequestIsRead
  <2>1. PICK c \in Calls : call = <<c>> /\ RequestTravels(c)
    <3>1. ~\E x \in Answers : answer = <<x>>
      OBVIOUS
    <3> QED BY <3>1 DEF IInv, AnswerTravels
  <2>2. PacketIsSound(c)
    BY CallsAssumption, CallsAreSound
  <2>3. call[1] = c
    BY <2>1
  <2> QED BY <2>1, <2>2, <2>3 DEF RequestTravels, PacketIsSound
<1> QED BY <1>1, TravelCorrect, PTL

(* An answer finds its way back to its call, with the verdict of the         *)
(* gateway, and never lets stoll throw.                                      *)
THEOREM AnswersAreMatched == Spec => []AnswerIsMatched
<1>1. IInv => AnswerIsMatched
  <2> SUFFICES ASSUME IInv, answer # <<>>
               PROVE  IsMatched(OnMessage(Parse("PushData", bytes).msg),
                                call[1], answer[1])
    BY DEF AnswerIsMatched
  <2>1. PICK c \in Calls : call = <<c>> /\ AnswerTravels(c)
    BY DEF IInv, MessagesTravel, RequestTravels
  <2>2. PICK a \in Answers :
          /\ answer = <<a>>
          /\ IsMatched(OnMessage(Parse("PushData", bytes).msg), c, a)
    BY <2>1 DEF AnswerTravels
  <2>3. call[1] = c /\ answer[1] = a
    BY <2>1, <2>2
  <2> QED BY <2>2, <2>3
<1> QED BY <1>1, TravelCorrect, PTL
=============================================================================
