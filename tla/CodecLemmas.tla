----------------------------- MODULE CodecLemmas ----------------------------
(*****************************************************************************)
(* What the generated parsers and serialisers do to any bytes and to any     *)
(* message, whatever the widths of the integers: the tables taken from the   *)
(* generated code fit the declarations (each table is looked at field by     *)
(* field); bytes are read as they mean by the declaration, or refused; what  *)
(* is written of a message, after other bytes, merges the message into their *)
(* meaning; what was read is a message again; and what is written of a       *)
(* message is as long as ByteSizeLong says. All of it by induction over the  *)
(* bytes, the rows of a table, the entries of a map or the size of a set,    *)
(* along the folds of SequenceFolds.                                         *)
(*****************************************************************************)
EXTENDS Codec, FiniteSetTheorems, TLAPS

Scalars == {"uint32", "uint64", "bool"}
FieldTypes == Scalars \cup Enums \cup Strings \cup {"map", "UserGroup*"}
WireOf(t) == IF t \in Numbers \cup {"bool"} THEN 0 ELSE 2

(* A class: its fields have numbers of their own, and known types. *)
ClassFits(class) ==
  /\ "unknown" \notin DOMAIN class
  /\ \A f \in DOMAIN class : class[f][1] \in Nat /\ class[f][2] \in FieldTypes
  /\ \A f, g \in DOMAIN class : class[f][1] = class[g][1] => f = g

(* A parser: the tag is that of the field's number and type, and what it is  *)
(* read with is for that type.                                               *)
ReadsType(kind, t) ==
  \/ kind = "message" /\ t = "UserGroup*"
  \/ kind = "entry" /\ t = "map"
  \/ kind = "utf8" /\ t = "string"
  \/ kind = "bytes" /\ t = "bytes"
  \/ kind \in {"varint", t} /\ t \in Scalars
  \/ kind \in {"varint", "enum"} /\ t \in Enums
ReaderFits(class, table) ==
  /\ DOMAIN table = DOMAIN class
  /\ \A f \in DOMAIN class :
       /\ table[f][1] = 8 * class[f][1] + WireOf(class[f][2])
       /\ ReadsType(table[f][2], class[f][2])

(* A serialiser: each field once, with its number, by the function that      *)
(* writes its type.                                                          *)
WritesType(kind, t) ==
  \/ kind = "Message" /\ t = "UserGroup*"
  \/ kind = "Entry" /\ t = "map"
  \/ kind = "String" /\ t = "string"
  \/ kind = "Bytes" /\ t = "bytes"
  \/ kind = "Bool" /\ t = "bool"
  \/ kind = "Enum" /\ t \in Enums
  \/ kind = "UInt32" /\ t = "uint32"
  \/ kind = "UInt64" /\ t = "uint64"
WriterFits(class, table) ==
  /\ table \in Seq({table[i] : i \in DOMAIN table})
  /\ \A i \in DOMAIN table :
       /\ table[i][1] \in DOMAIN class
       /\ table[i][3] = class[table[i][1]][1]
       /\ WritesType(table[i][2], class[table[i][1]][2])
  /\ \A f \in DOMAIN class : \E i \in DOMAIN table : table[i][1] = f
  /\ \A i, j \in DOMAIN table : table[i][1] = table[j][1] => i = j

(* Clear and MergeFrom: every field, and repeated ones are merged. *)
ClearFits(class, clear) == clear = DOMAIN class
MergeFits(class, merge) ==
  /\ DOMAIN merge = DOMAIN class
  /\ \A f \in DOMAIN class :
       merge[f] = IF class[f][2] \in {"map", "UserGroup*"} THEN "merge"
                  ELSE "assign"

(* Every class of the protocol is one: its fields have numbers of their own. *)
LEMMA ClassesFit ==
  \A ty \in Types : ClassFits(Class[ty])
<1>1. ClassFits(UserGroup_Class)
  BY DEF ClassFits, FieldTypes, Scalars, Enums, Strings, UserGroup_Class
<1>2. ClassFits(LoginRequest_Class)
  BY DEF ClassFits, FieldTypes, Scalars, Enums, Strings, LoginRequest_Class
<1>3. ClassFits(LoginResponse_Class)
  BY DEF ClassFits, FieldTypes, Scalars, Enums, Strings, LoginResponse_Class
<1>4. ClassFits(LogoutRequest_Class)
  BY DEF ClassFits, FieldTypes, Scalars, Enums, Strings, LogoutRequest_Class
<1>5. ClassFits(LogoutResponse_Class)
  BY DEF ClassFits, FieldTypes, Scalars, Enums, Strings, LogoutResponse_Class
<1>6. ClassFits(JoinGroupRequest_Class)
  BY DEF ClassFits, FieldTypes, Scalars, Enums, Strings,
    JoinGroupRequest_Class
<1>7. ClassFits(JoinGroupResponse_Class)
  BY DEF ClassFits, FieldTypes, Scalars, Enums, Strings,
    JoinGroupResponse_Class
<1>8. ClassFits(LeaveGroupRequest_Class)
  BY DEF ClassFits, FieldTypes, Scalars, Enums, Strings,
    LeaveGroupRequest_Class
<1>9. ClassFits(LeaveGroupResponse_Class)
  BY DEF ClassFits, FieldTypes, Scalars, Enums, Strings,
    LeaveGroupResponse_Class
<1>10. ClassFits(PingRequest_Class)
  BY DEF ClassFits, FieldTypes, Scalars, Enums, Strings, PingRequest_Class
<1>11. ClassFits(PongResponse_Class)
  BY DEF ClassFits, FieldTypes, Scalars, Enums, Strings, PongResponse_Class
<1>12. ClassFits(PushRegReq_Class)
  BY DEF ClassFits, FieldTypes, Scalars, Enums, Strings, PushRegReq_Class
<1>13. ClassFits(PushData_Class)
  BY DEF ClassFits, FieldTypes, Scalars, Enums, Strings, PushData_Class
<1>14. ClassFits(PushToClientReq_Class)
  BY DEF ClassFits, FieldTypes, Scalars, Enums, Strings, PushToClientReq_Class
<1>15. ClassFits(PushToClientResp_Class)
  BY DEF ClassFits, FieldTypes, Scalars, Enums, Strings,
    PushToClientResp_Class
<1>16. ClassFits(PushToGroupReq_Class)
  BY DEF ClassFits, FieldTypes, Scalars, Enums, Strings, PushToGroupReq_Class
<1>17. ClassFits(PushToGroupResp_Class)
  BY DEF ClassFits, FieldTypes, Scalars, Enums, Strings, PushToGroupResp_Class
<1> QED
  BY <1>1, <1>2, <1>3, <1>4, <1>5, <1>6, <1>7, <1>8, <1>9, <1>10, <1>11,
     <1>12, <1>13, <1>14, <1>15, <1>16, <1>17
  DEF Types, Class, Class

(* _InternalParse reads every field by its tag, as what it is declared.       *)
LEMMA InternalParseFits ==
  \A ty \in Types : ReaderFits(Class[ty], InternalParse[ty])
<1>1. ReaderFits(UserGroup_Class, UserGroup_InternalParse)
  BY DEF ReaderFits, ReadsType, WireOf, Scalars, Enums, Numbers,
    UserGroup_Class, UserGroup_InternalParse
<1>2. ReaderFits(LoginRequest_Class, LoginRequest_InternalParse)
  BY DEF ReaderFits, ReadsType, WireOf, Scalars, Enums, Numbers,
    LoginRequest_Class, LoginRequest_InternalParse
<1>3. ReaderFits(LoginResponse_Class, LoginResponse_InternalParse)
  BY DEF ReaderFits, ReadsType, WireOf, Scalars, Enums, Numbers,
    LoginResponse_Class, LoginResponse_InternalParse
<1>4. ReaderFits(LogoutRequest_Class, LogoutRequest_InternalParse)
  BY DEF ReaderFits, ReadsType, WireOf, Scalars, Enums, Numbers,
    LogoutRequest_Class, LogoutRequest_InternalParse
<1>5. ReaderFits(LogoutResponse_Class, LogoutResponse_InternalParse)
  BY DEF ReaderFits, ReadsType, WireOf, Scalars, Enums, Numbers,
    LogoutResponse_Class, LogoutResponse_InternalParse
<1>6. ReaderFits(JoinGroupRequest_Class, JoinGroupRequest_InternalParse)
  BY DEF ReaderFits, ReadsType, WireOf, Scalars, Enums, Numbers,
    JoinGroupRequest_Class, JoinGroupRequest_InternalParse
<1>7. ReaderFits(JoinGroupResponse_Class, JoinGroupResponse_InternalParse)
  BY DEF ReaderFits, ReadsType, WireOf, Scalars, Enums, Numbers,
    JoinGroupResponse_Class, JoinGroupResponse_InternalParse
<1>8. ReaderFits(LeaveGroupRequest_Class, LeaveGroupRequest_InternalParse)
  BY DEF ReaderFits, ReadsType, WireOf, Scalars, Enums, Numbers,
    LeaveGroupRequest_Class, LeaveGroupRequest_InternalParse
<1>9. ReaderFits(LeaveGroupResponse_Class, LeaveGroupResponse_InternalParse)
  BY DEF ReaderFits, ReadsType, WireOf, Scalars, Enums, Numbers,
    LeaveGroupResponse_Class, LeaveGroupResponse_InternalParse
<1>10. ReaderFits(PingRequest_Class, PingRequest_InternalParse)
  BY DEF ReaderFits, ReadsType, WireOf, Scalars, Enums, Numbers,
    PingRequest_Class, PingRequest_InternalParse
<1>11. ReaderFits(PongResponse_Class, PongResponse_InternalParse)
  BY DEF ReaderFits, ReadsType, WireOf, Scalars, Enums, Numbers,
    PongResponse_Class, PongResponse_InternalParse
<1>12. ReaderFits(PushRegReq_Class, PushRegReq_InternalParse)
  BY DEF ReaderFits, ReadsType, WireOf, Scalars, Enums, Numbers,
    PushRegReq_Class, PushRegReq_InternalParse
<1>13. ReaderFits(PushData_Class, PushData_InternalParse)
  BY DEF ReaderFits, ReadsType, WireOf, Scalars, Enums, Numbers,
    PushData_Class, PushData_InternalParse
<1>14. ReaderFits(PushToClientReq_Class, PushToClientReq_InternalParse)
  BY DEF ReaderFits, ReadsType, WireOf, Scalars, Enums, Numbers,
    PushToClientReq_Class, PushToClientReq_InternalParse
<1>15. ReaderFits(PushToClientResp_Class, PushToClientResp_InternalParse)
  BY DEF ReaderFits, ReadsType, WireOf, Scalars, Enums, Numbers,
    PushToClientResp_Class, PushToClientResp_InternalParse
<1>16. ReaderFits(PushToGroupReq_Class, PushToGroupReq_InternalParse)
  BY DEF ReaderFits, ReadsType, WireOf, Scalars, Enums, Numbers,
    PushToGroupReq_Class, PushToGroupReq_InternalParse
<1>17. ReaderFits(PushToGroupResp_Class, PushToGroupResp_InternalParse)
  BY DEF ReaderFits, ReadsType, WireOf, Scalars, Enums, Numbers,
    PushToGroupResp_Class, PushToGroupResp_InternalParse
<1> QED
  BY <1>1, <1>2, <1>3, <1>4, <1>5, <1>6, <1>7, <1>8, <1>9, <1>10, <1>11,
     <1>12, <1>13, <1>14, <1>15, <1>16, <1>17
  DEF Types, Class, InternalParse

(* So does MergePartialFromCodedStream, the parser of the other build.       *)
LEMMA MergePartialFromCodedStreamFits ==
  \A ty \in Types : ReaderFits(Class[ty], MergePartialFromCodedStream[ty])
<1>1. ReaderFits(UserGroup_Class, UserGroup_MergePartialFromCodedStream)
  BY DEF ReaderFits, ReadsType, WireOf, Scalars, Enums, Numbers,
    UserGroup_Class, UserGroup_MergePartialFromCodedStream
<1>2. ReaderFits(LoginRequest_Class, LoginRequest_MergePartialFromCodedStream)
  BY DEF ReaderFits, ReadsType, WireOf, Scalars, Enums, Numbers,
    LoginRequest_Class, LoginRequest_MergePartialFromCodedStream
<1>3. ReaderFits(LoginResponse_Class,
                 LoginResponse_MergePartialFromCodedStream)
  BY DEF ReaderFits, ReadsType, WireOf, Scalars, Enums, Numbers,
    LoginResponse_Class, LoginResponse_MergePartialFromCodedStream
<1>4. ReaderFits(LogoutRequest_Class,
                 LogoutRequest_MergePartialFromCodedStream)
  BY DEF ReaderFits, ReadsType, WireOf, Scalars, Enums, Numbers,
    LogoutRequest_Class, LogoutRequest_MergePartialFromCodedStream
<1>5. ReaderFits(LogoutResponse_Class,
                 LogoutResponse_MergePartialFromCodedStream)
  BY DEF ReaderFits, ReadsType, WireOf, Scalars, Enums, Numbers,
    LogoutResponse_Class, LogoutResponse_MergePartialFromCodedStream
<1>6. ReaderFits(JoinGroupRequest_Class,
                 JoinGroupRequest_MergePartialFromCodedStream)
  BY DEF ReaderFits, ReadsType, WireOf, Scalars, Enums, Numbers,
    JoinGroupRequest_Class, JoinGroupRequest_MergePartialFromCodedStream
<1>7. ReaderFits(JoinGroupResponse_Class,
                 JoinGroupResponse_MergePartialFromCodedStream)
  BY DEF ReaderFits, ReadsType, WireOf, Scalars, Enums, Numbers,
    JoinGroupResponse_Class, JoinGroupResponse_MergePartialFromCodedStream
<1>8. ReaderFits(LeaveGroupRequest_Class,
                 LeaveGroupRequest_MergePartialFromCodedStream)
  BY DEF ReaderFits, ReadsType, WireOf, Scalars, Enums, Numbers,
    LeaveGroupRequest_Class, LeaveGroupRequest_MergePartialFromCodedStream
<1>9. ReaderFits(LeaveGroupResponse_Class,
                 LeaveGroupResponse_MergePartialFromCodedStream)
  BY DEF ReaderFits, ReadsType, WireOf, Scalars, Enums, Numbers,
    LeaveGroupResponse_Class, LeaveGroupResponse_MergePartialFromCodedStream
<1>10. ReaderFits(PingRequest_Class, PingRequest_MergePartialFromCodedStream)
  BY DEF ReaderFits, ReadsType, WireOf, Scalars, Enums, Numbers,
    PingRequest_Class, PingRequest_MergePartialFromCodedStream
<1>11. ReaderFits(PongResponse_Class, PongResponse_MergePartialFromCodedStream)
  BY DEF ReaderFits, ReadsType, WireOf, Scalars, Enums, Numbers,
    PongResponse_Class, PongResponse_MergePartialFromCodedStream
<1>12. ReaderFits(PushRegReq_Class, PushRegReq_MergePartialFromCodedStream)
  BY DEF ReaderFits, ReadsType, WireOf, Scalars, Enums, Numbers,
    PushRegReq_Class, PushRegReq_MergePartialFromCodedStream
<1>13. ReaderFits(PushData_Class, PushData_MergePartialFromCodedStream)
  BY DEF ReaderFits, ReadsType, WireOf, Scalars, Enums, Numbers,
    PushData_Class, PushData_MergePartialFromCodedStream
<1>14. ReaderFits(PushToClientReq_Class,
                  PushToClientReq_MergePartialFromCodedStream)
  BY DEF ReaderFits, ReadsType, WireOf, Scalars, Enums, Numbers,
    PushToClientReq_Class, PushToClientReq_MergePartialFromCodedStream
<1>15. ReaderFits(PushToClientResp_Class,
                  PushToClientResp_MergePartialFromCodedStream)
  BY DEF ReaderFits, ReadsType, WireOf, Scalars, Enums, Numbers,
    PushToClientResp_Class, PushToClientResp_MergePartialFromCodedStream
<1>16. ReaderFits(PushToGroupReq_Class,
                  PushToGroupReq_MergePartialFromCodedStream)
  BY DEF ReaderFits, ReadsType, WireOf, Scalars, Enums, Numbers,
    PushToGroupReq_Class, PushToGroupReq_MergePartialFromCodedStream
<1>17. ReaderFits(PushToGroupResp_Class,
                  PushToGroupResp_MergePartialFromCodedStream)
  BY DEF ReaderFits, ReadsType, WireOf, Scalars, Enums, Numbers,
    PushToGroupResp_Class, PushToGroupResp_MergePartialFromCodedStream
<1> QED
  BY <1>1, <1>2, <1>3, <1>4, <1>5, <1>6, <1>7, <1>8, <1>9, <1>10, <1>11,
     <1>12, <1>13, <1>14, <1>15, <1>16, <1>17
  DEF Types, Class, MergePartialFromCodedStream

(* SerializeWithCachedSizes writes every field once, under its number.        *)
LEMMA SerializeWithCachedSizesFits ==
  \A ty \in Types : WriterFits(Class[ty], SerializeWithCachedSizes[ty])
<1>1. WriterFits(UserGroup_Class, UserGroup_SerializeWithCachedSizes)
  BY DEF WriterFits, WritesType, Enums, UserGroup_Class,
    UserGroup_SerializeWithCachedSizes
<1>2. WriterFits(LoginRequest_Class, LoginRequest_SerializeWithCachedSizes)
  BY DEF WriterFits, WritesType, Enums, LoginRequest_Class,
    LoginRequest_SerializeWithCachedSizes
<1>3. WriterFits(LoginResponse_Class, LoginResponse_SerializeWithCachedSizes)
  BY DEF WriterFits, WritesType, Enums, LoginResponse_Class,
    LoginResponse_SerializeWithCachedSizes
<1>4. WriterFits(LogoutRequest_Class, LogoutRequest_SerializeWithCachedSizes)
  BY DEF WriterFits, WritesType, Enums, LogoutRequest_Class,
    LogoutRequest_SerializeWithCachedSizes
<1>5. WriterFits(LogoutResponse_Class, LogoutResponse_SerializeWithCachedSizes)
  BY DEF WriterFits, WritesType, Enums, LogoutResponse_Class,
    LogoutResponse_SerializeWithCachedSizes
<1>6. WriterFits(JoinGroupRequest_Class,
                 JoinGroupRequest_SerializeWithCachedSizes)
  BY DEF WriterFits, WritesType, Enums, JoinGroupRequest_Class,
    JoinGroupRequest_SerializeWithCachedSizes
<1>7. WriterFits(JoinGroupResponse_Class,
                 JoinGroupResponse_SerializeWithCachedSizes)
  BY DEF WriterFits, WritesType, Enums, JoinGroupResponse_Class,
    JoinGroupResponse_SerializeWithCachedSizes
<1>8. WriterFits(LeaveGroupRequest_Class,
                 LeaveGroupRequest_SerializeWithCachedSizes)
  BY DEF WriterFits, WritesType, Enums, LeaveGroupRequest_Class,
    LeaveGroupRequest_SerializeWithCachedSizes
<1>9. WriterFits(LeaveGroupResponse_Class,
                 LeaveGroupResponse_SerializeWithCachedSizes)
  BY DEF WriterFits, WritesType, Enums, LeaveGroupResponse_Class,
    LeaveGroupResponse_SerializeWithCachedSizes
<1>10. WriterFits(PingRequest_Class, PingRequest_SerializeWithCachedSizes)
  BY DEF WriterFits, WritesType, Enums, PingRequest_Class,
    PingRequest_SerializeWithCachedSizes
<1>11. WriterFits(PongResponse_Class, PongResponse_SerializeWithCachedSizes)
  BY DEF WriterFits, WritesType, Enums, PongResponse_Class,
    PongResponse_SerializeWithCachedSizes
<1>12. WriterFits(PushRegReq_Class, PushRegReq_SerializeWithCachedSizes)
  BY DEF WriterFits, WritesType, Enums, PushRegReq_Class,
    PushRegReq_SerializeWithCachedSizes
<1>13. WriterFits(PushData_Class, PushData_SerializeWithCachedSizes)
  BY DEF WriterFits, WritesType, Enums, PushData_Class,
    PushData_SerializeWithCachedSizes
<1>14. WriterFits(PushToClientReq_Class,
                  PushToClientReq_SerializeWithCachedSizes)
  BY DEF WriterFits, WritesType, Enums, PushToClientReq_Class,
    PushToClientReq_SerializeWithCachedSizes
<1>15. WriterFits(PushToClientResp_Class,
                  PushToClientResp_SerializeWithCachedSizes)
  BY DEF WriterFits, WritesType, Enums, PushToClientResp_Class,
    PushToClientResp_SerializeWithCachedSizes
<1>16. WriterFits(PushToGroupReq_Class,
                  PushToGroupReq_SerializeWithCachedSizes)
  BY DEF WriterFits, WritesType, Enums, PushToGroupReq_Class,
    PushToGroupReq_SerializeWithCachedSizes
<1>17. WriterFits(PushToGroupResp_Class,
                  PushToGroupResp_SerializeWithCachedSizes)
  BY DEF WriterFits, WritesType, Enums, PushToGroupResp_Class,
    PushToGroupResp_SerializeWithCachedSizes
<1> QED
  BY <1>1, <1>2, <1>3, <1>4, <1>5, <1>6, <1>7, <1>8, <1>9, <1>10, <1>11,
     <1>12, <1>13, <1>14, <1>15, <1>16, <1>17
  DEF Types, Class, SerializeWithCachedSizes

(* So does InternalSerializeWithCachedSizesToArray.                           *)
LEMMA SerializeToArrayFits ==
  \A ty \in Types : WriterFits(Class[ty], SerializeToArray[ty])
<1>1. WriterFits(UserGroup_Class, UserGroup_SerializeToArray)
  BY DEF WriterFits, WritesType, Enums, UserGroup_Class,
    UserGroup_SerializeToArray
<1>2. WriterFits(LoginRequest_Class, LoginRequest_SerializeToArray)
  BY DEF WriterFits, WritesType, Enums, LoginRequest_Class,
    LoginRequest_SerializeToArray
<1>3. WriterFits(LoginResponse_Class, LoginResponse_SerializeToArray)
  BY DEF WriterFits, WritesType, Enums, LoginResponse_Class,
    LoginResponse_SerializeToArray
<1>4. WriterFits(LogoutRequest_Class, LogoutRequest_SerializeToArray)
  BY DEF WriterFits, WritesType, Enums, LogoutRequest_Class,
    LogoutRequest_SerializeToArray
<1>5. WriterFits(LogoutResponse_Class, LogoutResponse_SerializeToArray)
  BY DEF WriterFits, WritesType, Enums, LogoutResponse_Class,
    LogoutResponse_SerializeToArray
<1>6. WriterFits(JoinGroupRequest_Class, JoinGroupRequest_SerializeToArray)
  BY DEF WriterFits, WritesType, Enums, JoinGroupRequest_Class,
    JoinGroupRequest_SerializeToArray
<1>7. WriterFits(JoinGroupResponse_Class, JoinGroupResponse_SerializeToArray)
  BY DEF WriterFits, WritesType, Enums, JoinGroupResponse_Class,
    JoinGroupResponse_SerializeToArray
<1>8. WriterFits(LeaveGroupRequest_Class, LeaveGroupRequest_SerializeToArray)
  BY DEF WriterFits, WritesType, Enums, LeaveGroupRequest_Class,
    LeaveGroupRequest_SerializeToArray
<1>9. WriterFits(LeaveGroupResponse_Class, LeaveGroupResponse_SerializeToArray)
  BY DEF WriterFits, WritesType, Enums, LeaveGroupResponse_Class,
    LeaveGroupResponse_SerializeToArray
<1>10. WriterFits(PingRequest_Class, PingRequest_SerializeToArray)
  BY DEF WriterFits, WritesType, Enums, PingRequest_Class,
    PingRequest_SerializeToArray
<1>11. WriterFits(PongResponse_Class, PongResponse_SerializeToArray)
  BY DEF WriterFits, WritesType, Enums, PongResponse_Class,
    PongResponse_SerializeToArray
<1>12. WriterFits(PushRegReq_Class, PushRegReq_SerializeToArray)
  BY DEF WriterFits, WritesType, Enums, PushRegReq_Class,
    PushRegReq_SerializeToArray
<1>13. WriterFits(PushData_Class, PushData_SerializeToArray)
  BY DEF WriterFits, WritesType, Enums, PushData_Class,
    PushData_SerializeToArray
<1>14. WriterFits(PushToClientReq_Class, PushToClientReq_SerializeToArray)
  BY DEF WriterFits, WritesType, Enums, PushToClientReq_Class,
    PushToClientReq_SerializeToArray
<1>15. WriterFits(PushToClientResp_Class, PushToClientResp_SerializeToArray)
  BY DEF WriterFits, WritesType, Enums, PushToClientResp_Class,
    PushToClientResp_SerializeToArray
<1>16. WriterFits(PushToGroupReq_Class, PushToGroupReq_SerializeToArray)
  BY DEF WriterFits, WritesType, Enums, PushToGroupReq_Class,
    PushToGroupReq_SerializeToArray
<1>17. WriterFits(PushToGroupResp_Class, PushToGroupResp_SerializeToArray)
  BY DEF WriterFits, WritesType, Enums, PushToGroupResp_Class,
    PushToGroupResp_SerializeToArray
<1> QED
  BY <1>1, <1>2, <1>3, <1>4, <1>5, <1>6, <1>7, <1>8, <1>9, <1>10, <1>11,
     <1>12, <1>13, <1>14, <1>15, <1>16, <1>17
  DEF Types, Class, SerializeToArray

(* Clear resets every field.                                                  *)
LEMMA ClearsFit ==
  \A ty \in Types : ClearFits(Class[ty], Clears[ty])
<1>1. ClearFits(UserGroup_Class, UserGroup_Clear)
  BY DEF ClearFits, UserGroup_Class, UserGroup_Clear
<1>2. ClearFits(LoginRequest_Class, LoginRequest_Clear)
  BY DEF ClearFits, LoginRequest_Class, LoginRequest_Clear
<1>3. ClearFits(LoginResponse_Class, LoginResponse_Clear)
  BY DEF ClearFits, LoginResponse_Class, LoginResponse_Clear
<1>4. ClearFits(LogoutRequest_Class, LogoutRequest_Clear)
  BY DEF ClearFits, LogoutRequest_Class, LogoutRequest_Clear
<1>5. ClearFits(LogoutResponse_Class, LogoutResponse_Clear)
  BY DEF ClearFits, LogoutResponse_Class, LogoutResponse_Clear
<1>6. ClearFits(JoinGroupRequest_Class, JoinGroupRequest_Clear)
  BY DEF ClearFits, JoinGroupRequest_Class, JoinGroupRequest_Clear
<1>7. ClearFits(JoinGroupResponse_Class, JoinGroupResponse_Clear)
  BY DEF ClearFits, JoinGroupResponse_Class, JoinGroupResponse_Clear
<1>8. ClearFits(LeaveGroupRequest_Class, LeaveGroupRequest_Clear)
  BY DEF ClearFits, LeaveGroupRequest_Class, LeaveGroupRequest_Clear
<1>9. ClearFits(LeaveGroupResponse_Class, LeaveGroupResponse_Clear)
  BY DEF ClearFits, LeaveGroupResponse_Class, LeaveGroupResponse_Clear
<1>10. ClearFits(PingRequest_Class, PingRequest_Clear)
  BY DEF ClearFits, PingRequest_Class, PingRequest_Clear
<1>11. ClearFits(PongResponse_Class, PongResponse_Clear)
  BY DEF ClearFits, PongResponse_Class, PongResponse_Clear
<1>12. ClearFits(PushRegReq_Class, PushRegReq_Clear)
  BY DEF ClearFits, PushRegReq_Class, PushRegReq_Clear
<1>13. ClearFits(PushData_Class, PushData_Clear)
  BY DEF ClearFits, PushData_Class, PushData_Clear
<1>14. ClearFits(PushToClientReq_Class, PushToClientReq_Clear)
  BY DEF ClearFits, PushToClientReq_Class, PushToClientReq_Clear
<1>15. ClearFits(PushToClientResp_Class, PushToClientResp_Clear)
  BY DEF ClearFits, PushToClientResp_Class, PushToClientResp_Clear
<1>16. ClearFits(PushToGroupReq_Class, PushToGroupReq_Clear)
  BY DEF ClearFits, PushToGroupReq_Class, PushToGroupReq_Clear
<1>17. ClearFits(PushToGroupResp_Class, PushToGroupResp_Clear)
  BY DEF ClearFits, PushToGroupResp_Class, PushToGroupResp_Clear
<1> QED
  BY <1>1, <1>2, <1>3, <1>4, <1>5, <1>6, <1>7, <1>8, <1>9, <1>10, <1>11,
     <1>12, <1>13, <1>14, <1>15, <1>16, <1>17
  DEF Types, Class, Clears

(* MergeFrom merges the repeated fields and takes over the others.            *)
LEMMA MergesFit ==
  \A ty \in Types : MergeFits(Class[ty], Merges[ty])
<1>1. MergeFits(UserGroup_Class, UserGroup_MergeFrom)
  BY DEF MergeFits, UserGroup_Class, UserGroup_MergeFrom
<1>2. MergeFits(LoginRequest_Class, LoginRequest_MergeFrom)
  BY DEF MergeFits, LoginRequest_Class, LoginRequest_MergeFrom
<1>3. MergeFits(LoginResponse_Class, LoginResponse_MergeFrom)
  BY DEF MergeFits, LoginResponse_Class, LoginResponse_MergeFrom
<1>4. MergeFits(LogoutRequest_Class, LogoutRequest_MergeFrom)
  BY DEF MergeFits, LogoutRequest_Class, LogoutRequest_MergeFrom
<1>5. MergeFits(LogoutResponse_Class, LogoutResponse_MergeFrom)
  BY DEF MergeFits, LogoutResponse_Class, LogoutResponse_MergeFrom
<1>6. MergeFits(JoinGroupRequest_Class, JoinGroupRequest_MergeFrom)
  BY DEF MergeFits, JoinGroupRequest_Class, JoinGroupRequest_MergeFrom
<1>7. MergeFits(JoinGroupResponse_Class, JoinGroupResponse_MergeFrom)
  BY DEF MergeFits, JoinGroupResponse_Class, JoinGroupResponse_MergeFrom
<1>8. MergeFits(LeaveGroupRequest_Class, LeaveGroupRequest_MergeFrom)
  BY DEF MergeFits, LeaveGroupRequest_Class, LeaveGroupRequest_MergeFrom
<1>9. MergeFits(LeaveGroupResponse_Class, LeaveGroupResponse_MergeFrom)
  BY DEF MergeFits, LeaveGroupResponse_Class, LeaveGroupResponse_MergeFrom
<1>10. MergeFits(PingRequest_Class, PingRequest_MergeFrom)
  BY DEF MergeFits, PingRequest_Class, PingRequest_MergeFrom
<1>11. MergeFits(PongResponse_Class, PongResponse_MergeFrom)
  BY DEF MergeFits, PongResponse_Class, PongResponse_MergeFrom
<1>12. MergeFits(PushRegReq_Class, PushRegReq_MergeFrom)
  BY DEF MergeFits, PushRegReq_Class, PushRegReq_MergeFrom
<1>13. MergeFits(PushData_Class, PushData_MergeFrom)
  BY DEF MergeFits, PushData_Class, PushData_MergeFrom
<1>14. MergeFits(PushToClientReq_Class, PushToClientReq_MergeFrom)
  BY DEF MergeFits, PushToClientReq_Class, PushToClientReq_MergeFrom
<1>15. MergeFits(PushToClientResp_Class, PushToClientResp_MergeFrom)
  BY DEF MergeFits, PushToClientResp_Class, PushToClientResp_MergeFrom
<1>16. MergeFits(PushToGroupReq_Class, PushToGroupReq_MergeFrom)
  BY DEF MergeFits, PushToGroupReq_Class, PushToGroupReq_MergeFrom
<1>17. MergeFits(PushToGroupResp_Class, PushToGroupResp_MergeFrom)
  BY DEF MergeFits, PushToGroupResp_Class, PushToGroupResp_MergeFrom
<1> QED
  BY <1>1, <1>2, <1>3, <1>4, <1>5, <1>6, <1>7, <1>8, <1>9, <1>10, <1>11,
     <1>12, <1>13, <1>14, <1>15, <1>16, <1>17
  DEF Types, Class, Merges

-----------------------------------------------------------------------------
(* Reading, and keeping the tokens of a field, as folds. *)
ReadIn(e, r, t) == ReadToken(e.type, e.table, e.nested, r, t)
KeepIf(e, ts, t) == IF IsOf(e.type, e.field, t) THEN Append(ts, t) ELSE ts
Reading == INSTANCE SequenceFolds WITH Op <- ReadIn
Keeping == INSTANCE SequenceFolds WITH Op <- KeepIf

(* No bytes are bytes, of whatever tokens. *)
LEMMA EmptySeq == \A S : <<>> \in Seq(S)
OBVIOUS

(* A parser starts from a new message, and takes one token after the other   *)
(* (FoldLeft, by which the model says so, is a fold over sets of indices).   *)
LEMMA ReadTokensFold ==
  ASSUME NEW ty, NEW table, NEW nested, NEW A, NEW b \in Seq(A)
  PROVE  /\ ReadTokens(ty, table, nested, <<>>)
              = Read(New(ty))
         /\ \A t \in A : ReadTokens(ty, table, nested, Append(b, t)) =
              ReadToken(ty, table, nested, ReadTokens(ty, table, nested, b), t)
<1> DEFINE e == [type |-> ty, table |-> table, nested |-> nested]
           new == Read(New(ty))
<1>1. \A s : ReadTokens(ty, table, nested, s) = Reading!Fold(e, new, s)
  BY DEF ReadTokens, Reading!Fold, ReadIn, FoldLeft, MapThenFoldSet, Max,
    Reading!FoldLeft, Reading!MapThenFoldSet, Reading!Max
<1>2. \A r, t : ReadIn(e, r, t) = ReadToken(ty, table, nested, r, t)
  BY DEF ReadIn
<1> HIDE DEF e, new
<1>3. Reading!Fold(e, new, <<>>) = new
  BY Reading!FoldEmpty
<1>4. ASSUME NEW t \in A
      PROVE  Reading!Fold(e, new, Append(b, t))
               = ReadIn(e, Reading!Fold(e, new, b), t)
  BY Reading!FoldAppend
<1> QED BY <1>1, <1>2, <1>3, <1>4 DEF new

(* The tokens of a field are kept one after the other. *)
LEMMA OccurrencesFold ==
  ASSUME NEW ty, NEW f, NEW A, NEW b \in Seq(A)
  PROVE  /\ Occurrences(ty, f, <<>>) = <<>>
         /\ \A t \in A : Occurrences(ty, f, Append(b, t)) =
              IF IsOf(ty, f, t) THEN Append(Occurrences(ty, f, b), t)
              ELSE Occurrences(ty, f, b)
<1> DEFINE e == [type |-> ty, field |-> f]
<1>1. \A s : Occurrences(ty, f, s) = Keeping!Fold(e, <<>>, s)
  BY DEF Occurrences, Keeping!Fold, KeepIf, FoldLeft, MapThenFoldSet, Max,
    Keeping!FoldLeft, Keeping!MapThenFoldSet, Keeping!Max
<1>2. \A ts, t : KeepIf(e, ts, t) =
                   IF IsOf(ty, f, t) THEN Append(ts, t) ELSE ts
  BY DEF KeepIf
<1> HIDE DEF e
<1>3. Keeping!Fold(e, <<>>, <<>>) = <<>>
  BY Keeping!FoldEmpty
<1>4. ASSUME NEW t \in A
      PROVE  Keeping!Fold(e, <<>>, Append(b, t))
               = KeepIf(e, Keeping!Fold(e, <<>>, b), t)
  BY Keeping!FoldAppend
<1> QED BY <1>1, <1>2, <1>3, <1>4

(* What is kept of a sequence of tokens is a sequence of such tokens. *)
LEMMA OccurrencesType ==
  ASSUME NEW ty, NEW f, NEW A, NEW b \in Seq(A)
  PROVE  Occurrences(ty, f, b) \in Seq(A)
<1> DEFINE T == {s \in Seq(A) : Occurrences(ty, f, s) \in Seq(A)}
<1>1. <<>> \in T
  <2>1. <<>> \in Seq(A)
    BY EmptySeq
  <2> QED BY <2>1, OccurrencesFold
<1>2. ASSUME NEW s \in Seq(A), NEW t \in A, s \in T
      PROVE  Append(s, t) \in T
  <2>1. Occurrences(ty, f, Append(s, t)) =
          IF IsOf(ty, f, t) THEN Append(Occurrences(ty, f, s), t)
          ELSE Occurrences(ty, f, s)
    BY OccurrencesFold
  <2> QED BY <1>2, <2>1
<1>3. Seq(A) \subseteq T
  <2> HIDE DEF T
  <2> QED BY <1>1, <1>2, Keeping!SeqSetInduction
<1> QED BY <1>3

-----------------------------------------------------------------------------
(* A token, as any reader sees it. *)
IsToken(t) == t.num \in Nat /\ t.wt \in Wires /\ t.n \in Nat

FieldTypeIs(ty, f) == FieldType(ty, f) = Class[ty][f][2]

(* A tag is a number and a wire type, which fits below the number. *)
LEMMA TagsTell ==
  ASSUME NEW n \in Nat, NEW m \in Nat, NEW w \in {0, 2}, NEW x \in {0, 2, 4}
  PROVE  8 * n + w = 8 * m + x <=> n = m /\ w = x
<1>1. CASE w = 0 /\ x = 0 BY <1>1
<1>2. CASE w = 0 /\ x = 2 BY <1>2
<1>3. CASE w = 0 /\ x = 4 BY <1>3
<1>4. CASE w = 2 /\ x = 0 BY <1>4
<1>5. CASE w = 2 /\ x = 2 BY <1>5
<1>6. CASE w = 2 /\ x = 4 BY <1>6
<1> QED BY <1>1, <1>2, <1>3, <1>4, <1>5, <1>6

(* A tag tells the field's number and how it is written: a parser whose      *)
(* table fits knows a token of a field by its tag.                           *)
LEMMA DeclaredByTag ==
  ASSUME NEW ty \in Types, NEW table, ReaderFits(Class[ty], table),
         NEW t, IsToken(t), NEW f \in DOMAIN Class[ty]
  PROVE  DeclaredFor(ty, f, t) <=> IsField(t) /\ table[f][1] = Tag(t)
<1>1. Class[ty][f][1] \in Nat /\ FieldType(ty, f) \in FieldTypes
  BY ClassesFit DEF ClassFits, FieldType
<1>2. table[f][1] = 8 * Class[ty][f][1] + WireOf(FieldType(ty, f))
  BY DEF ReaderFits, FieldType
<1> DEFINE n == Class[ty][f][1]
           w == WireOf(FieldType(ty, f))
<1>3. w = IF FieldType(ty, f) \in Numbers \cup {"bool"} THEN 0 ELSE 2
  BY DEF WireOf
<1>4. ASSUME IsField(t)
      PROVE  /\ WireType[t.wt] = IF t.wt = "varint" THEN 0
                                 ELSE IF t.wt = "delimited" THEN 2 ELSE 4
             /\ t.wt \in {"varint", "delimited", "endgroup"}
  BY <1>4 DEF IsField, WireType
<1> HIDE DEF n, w
<1>5. ASSUME IsField(t)
      PROVE  8 * n + w = 8 * t.num + WireType[t.wt]
               <=> n = t.num /\ w = WireType[t.wt]
  <2>1. n \in Nat /\ t.num \in Nat /\ w \in {0, 2}
    BY <1>1, <1>3 DEF IsToken, n
  <2>2. WireType[t.wt] \in {0, 2, 4}
    BY <1>4, <1>5
  <2>3. \A a, b \in Nat, v \in {0, 2}, x \in {0, 2, 4} :
          8 * a + v = 8 * b + x <=> a = b /\ v = x
    BY ONLY TagsTell
  <2> DEFINE x == WireType[t.wt]
             m == t.num
  <2> HIDE DEF x, m
  <2>4. x \in {0, 2, 4} /\ m \in Nat
    BY <2>1, <2>2 DEF x, m
  <2>5. 8 * n + w = 8 * m + x <=> n = m /\ w = x
    BY ONLY <2>1, <2>3, <2>4
  <2> QED BY <2>5 DEF x, m
<1> QED BY <1>2, <1>3, <1>4, <1>5 DEF DeclaredFor, Tag, n, w

(* A token is of at most one field, as the fields have numbers of their      *)
(* own.                                                                      *)
LEMMA DeclaredOnce ==
  ASSUME NEW ty \in Types, NEW t, NEW f \in DOMAIN Class[ty],
         NEW g \in DOMAIN Class[ty],
         DeclaredFor(ty, f, t), DeclaredFor(ty, g, t)
  PROVE  f = g
BY ClassesFit DEF ClassFits, DeclaredFor

(* Whether a reader accepts a token of field f, and what f is then. *)
Accepted(ty, f, nested, t) ==
  CASE FieldType(ty, f) = "string"     -> Utf8(t.body)
    [] FieldType(ty, f) = "map"        -> ReadEntry(t.body).ok
    [] FieldType(ty, f) = "UserGroup*" -> nested[t.body].ok
    [] OTHER                           -> TRUE
Taken(ty, f, nested, v, t) ==
  IF FieldType(ty, f) = "UserGroup*" THEN Append(v, nested[t.body].msg)
  ELSE IF FieldType(ty, f) = "map" THEN MergeMap(v, ReadEntry(t.body).msg)
  ELSE IF FieldType(ty, f) \in Strings THEN t.body
  ELSE Store(FieldType(ty, f), t.n)

(* Whatever the kind a parser's table has for a field, it reads the type     *)
(* the field is declared with.                                               *)
LEMMA ReadFieldIs ==
  ASSUME NEW ty \in Types, NEW table, ReaderFits(Class[ty], table),
         NEW nested, NEW m, NEW t, NEW f \in DOMAIN Class[ty]
  PROVE  ReadField(ty, f, table[f][2], nested, m, t) =
           IF Accepted(ty, f, nested, t)
           THEN Read([m EXCEPT ![f] = Taken(ty, f, nested, m[f], t)])
           ELSE Refused(m)
<1> DEFINE kind == table[f][2]
           T == FieldType(ty, f)
           in == ReadValue(ty, f, kind, nested, t)
<1>1. ReadsType(kind, T) /\ T \in FieldTypes
  BY ClassesFit DEF ReaderFits, FieldType, ClassFits
<1>2. /\ T = "UserGroup*" => kind = "message"
      /\ T = "map" => kind = "entry"
      /\ T = "string" => kind = "utf8"
      /\ T = "bytes" => kind = "bytes"
      /\ T \in Scalars => kind \in {"varint", T}
      /\ T \in Enums => kind \in {"varint", "enum"}
  <2> HIDE DEF kind, T
  <2> QED BY <1>1 DEF ReadsType, Scalars, Enums
<1> HIDE DEF kind
<1>3. /\ T = "UserGroup*" => in = nested[t.body]
      /\ T = "map" => in = ReadEntry(t.body)
      /\ T = "string" => in = [ok |-> Utf8(t.body), msg |-> t.body]
      /\ T = "bytes" => in = [ok |-> TRUE, msg |-> t.body]
      /\ T \in Scalars \cup Enums => in = [ok |-> TRUE, msg |-> Store(T, t.n)]
  BY <1>2 DEF ReadValue, Scalars, Enums, Store
<1>4. T \in Scalars \cup Enums \cup Strings \cup {"map", "UserGroup*"}
  BY <1>1 DEF FieldTypes
<1> HIDE DEF T
<1>5. in.ok <=> Accepted(ty, f, nested, t)
  BY <1>3, <1>4 DEF Accepted, T, Scalars, Enums, Strings
<1>6. TakeValue(kind, m[f], in) = Taken(ty, f, nested, m[f], t)
  BY <1>2, <1>3, <1>4 DEF TakeValue, Taken, T, Scalars, Enums, Strings
<1> QED BY <1>5, <1>6 DEF ReadField, TakeField, kind

(* One step of a parser: the token of a field is taken over if it is         *)
(* acceptable, and refused otherwise; any other token is kept as unknown.    *)
LEMMA ReadStep ==
  ASSUME NEW ty \in Types, NEW table, ReaderFits(Class[ty], table),
         NEW nested, NEW m, NEW t, IsToken(t)
  PROVE  LET r == ReadToken(ty, table, nested, Read(m), t)
         IN /\ \A f \in DOMAIN Class[ty] : DeclaredFor(ty, f, t) =>
                 r = IF Accepted(ty, f, nested, t)
                     THEN Read([m EXCEPT ![f] = Taken(ty, f, nested, m[f], t)])
                     ELSE Refused(m)
            /\ ~Declared(ty, t) =>
                 r = IF t.wt \in {"varint", "delimited"}
                     THEN Read([m EXCEPT !.unknown = Append(m.unknown, t)])
                     ELSE Refused(m)
<1> DEFINE fields == IF IsField(t)
                     THEN {f \in DOMAIN table : table[f][1] = Tag(t)} ELSE {}
<1>1. fields = {f \in DOMAIN Class[ty] : DeclaredFor(ty, f, t)}
  <2>1. DOMAIN table = DOMAIN Class[ty]
    BY DEF ReaderFits
  <2>2. \A f \in DOMAIN Class[ty] :
          DeclaredFor(ty, f, t) <=> IsField(t) /\ table[f][1] = Tag(t)
    BY DeclaredByTag
  <2> QED BY <2>1, <2>2
<1> HIDE DEF fields
<1>2. ReadToken(ty, table, nested, Read(m), t) =
        LET field == CHOOSE f \in fields : TRUE
        IN IF fields # {}
             THEN ReadField(ty, field, table[field][2], nested, m, t)
           ELSE IF ~IsField(t) \/ t.wt = "endgroup" THEN Refused(m)
           ELSE Read([m EXCEPT !.unknown = Append(m.unknown, t)])
  BY DEF ReadToken, Read, Refused, fields
<1>3. ASSUME NEW f \in DOMAIN Class[ty], DeclaredFor(ty, f, t)
      PROVE  ReadToken(ty, table, nested, Read(m), t) =
               IF Accepted(ty, f, nested, t)
               THEN Read([m EXCEPT ![f] = Taken(ty, f, nested, m[f], t)])
               ELSE Refused(m)
  <2>1. fields = {f}
    BY <1>1, <1>3, DeclaredOnce
  <2>2. ReadToken(ty, table, nested, Read(m), t)
          = ReadField(ty, f, table[f][2], nested, m, t)
    BY <1>2, <2>1
  <2> QED BY <2>2, ReadFieldIs
<1>4. ASSUME ~Declared(ty, t)
      PROVE  ReadToken(ty, table, nested, Read(m), t) =
               IF t.wt \in {"varint", "delimited"}
               THEN Read([m EXCEPT !.unknown = Append(m.unknown, t)])
               ELSE Refused(m)
  <2>1. fields = {}
    BY <1>1, <1>4 DEF Declared
  <2>2. ~IsField(t) \/ t.wt = "endgroup"
        <=> t.wt \notin {"varint", "delimited"}
    BY DEF IsField, IsToken, Wires
  <2> QED BY <1>2, <2>1, <2>2
<1> QED BY <1>3, <1>4

(* Once a parser has refused, it has. *)
LEMMA RefusedStays ==
  ASSUME NEW ty, NEW table, NEW nested, NEW m, NEW t
  PROVE  ReadToken(ty, table, nested, Refused(m), t) = Refused(m)
BY DEF ReadToken, Refused
-----------------------------------------------------------------------------
(* What a longer sequence of tokens means. *)
LEMMA LastAppended ==
  ASSUME NEW A, NEW s \in Seq(A), NEW x \in A
  PROVE  /\ Append(s, x) # <<>> /\ Last(Append(s, x)) = x
         /\ Len(s) \in Nat /\ DOMAIN s = 1..Len(s)
         /\ Append(s, x) \in Seq(A)
         /\ DOMAIN Append(s, x) = 1..(Len(s) + 1)
         /\ Append(s, x)[Len(s) + 1] = x
         /\ \A i \in 1..Len(s) : Append(s, x)[i] = s[i]
BY DEF Last

(* One more entry of a map replaces what the map had for its key. *)
LEMMA EntriesMeanAppend ==
  ASSUME NEW A, NEW es \in Seq(A), NEW e \in A
  PROVE  EntriesMean(Append(es, e)) = MergeMap(EntriesMean(es), e)
<1> DEFINE l == Append(es, e)
           n == Len(es)
           Has(s, k) == {i \in DOMAIN s : k \in DOMAIN s[i]}
           K == UNION {DOMAIN es[i] : i \in DOMAIN es}
<1>1. /\ n \in Nat /\ DOMAIN es = 1..n /\ DOMAIN l = 1..(n + 1)
      /\ l[n + 1] = e /\ \A i \in 1..n : l[i] = es[i]
  BY LastAppended
<1> HIDE DEF l, n
<1>2. UNION {DOMAIN l[i] : i \in DOMAIN l}
        = K \cup DOMAIN e
  <2>1. \A k : (\E i \in DOMAIN l : k \in DOMAIN l[i])
                 <=> (\E i \in DOMAIN es : k \in DOMAIN es[i]) \/ k \in DOMAIN e
    <3>1. \A i \in DOMAIN l : i = n + 1 \/ i \in DOMAIN es
      BY <1>1
    <3>2. n + 1 \in DOMAIN l /\ \A i \in DOMAIN es : i \in DOMAIN l
      BY <1>1
    <3> QED BY <1>1, <3>1, <3>2
  <2> QED BY <2>1
<1>3. ASSUME NEW k \in DOMAIN e PROVE LastEntry(l, k) = e[k]
  <2> DEFINE last == CHOOSE i \in Has(l, k) : \A j \in Has(l, k) : j <= i
  <2>1. n + 1 \in Has(l, k) /\ \A j \in Has(l, k) : j \in 1..(n + 1)
    BY <1>1, <1>3
  <2>2. last \in Has(l, k) /\ \A j \in Has(l, k) : j <= last
    <3>1. \A j \in Has(l, k) : j <= n + 1
      BY <1>1, <2>1
    <3> QED BY <2>1, <3>1
  <2>3. last = n + 1
    BY <1>1, <2>1, <2>2
  <2> QED BY <1>1, <2>3 DEF LastEntry
<1>4. ASSUME NEW k, k \notin DOMAIN e, \E i \in DOMAIN es : k \in DOMAIN es[i]
      PROVE  LastEntry(l, k) = LastEntry(es, k)
  <2> DEFINE last == CHOOSE i \in Has(es, k) : \A j \in Has(es, k) : j <= i
  <2>1. Has(l, k) = Has(es, k)
    BY <1>1, <1>4
  <2>2. Has(es, k) \in SUBSET (1..n) /\ Has(es, k) # {}
    BY <1>1, <1>4
  <2>3. \E i \in Has(es, k) : \A j \in Has(es, k) : j <= i
    <3> DEFINE S == Has(es, k)
    <3>1. S \in SUBSET (1..n) /\ S # {}
      BY <2>2
    <3> HIDE DEF S
    <3>2. \E i \in S : \A j \in S : j <= i
      BY <1>1, <3>1, Keeping!MaxExists
    <3> QED BY <3>2 DEF S
  <2>4. last \in Has(es, k)
    BY <2>3
  <2>5. l[last] = es[last]
    BY <1>1, <2>2, <2>4
  <2> QED BY <2>1, <2>5 DEF LastEntry
<1>5. EntriesMean(l) = [k \in K \cup DOMAIN e |-> LastEntry(l, k)]
  BY <1>2 DEF EntriesMean
<1>6. EntriesMean(es) = [k \in K |-> LastEntry(es, k)]
  BY DEF EntriesMean
<1>7. \A k \in K : \E i \in DOMAIN es : k \in DOMAIN es[i]
  OBVIOUS
<1> HIDE DEF K
<1>8. \A k \in K \cup DOMAIN e :
        LastEntry(l, k) = IF k \in DOMAIN e THEN e[k] ELSE EntriesMean(es)[k]
  BY <1>3, <1>4, <1>6, <1>7
<1>9. DOMAIN EntriesMean(es) = K
  BY <1>6
<1> QED BY <1>5, <1>8, <1>9 DEF MergeMap, l

(* What one more token of a field makes of the field's value. *)
LEMMA ValueAppend ==
  ASSUME NEW T, NEW A, NEW ts \in Seq(A), NEW t \in A, NEW group
  PROVE  ValueOf(T, Append(ts, t), group) =
           IF T = "UserGroup*"
             THEN Append(ValueOf(T, ts, group), group[t.body])
           ELSE IF T = "map"
             THEN MergeMap(ValueOf(T, ts, group), ReadEntry(t.body).msg)
           ELSE IF T \in Strings THEN t.body
           ELSE Store(T, t.n)
<1> DEFINE l == Append(ts, t)
           n == Len(ts)
<1>1. /\ l # <<>> /\ Last(l) = t
      /\ n \in Nat /\ DOMAIN ts = 1..n /\ DOMAIN l = 1..(n + 1)
      /\ l[n + 1] = t /\ \A i \in 1..n : l[i] = ts[i]
  BY LastAppended
<1> HIDE DEF l
<1>2. CASE T = "UserGroup*"
  <2> DEFINE s == [i \in DOMAIN ts |-> group[ts[i].body]]
             B == {group[a.body] : a \in A}
  <2>1. s \in Seq(B) /\ Len(s) = n /\ group[t.body] \in B
    BY <1>1
  <2>2. [i \in DOMAIN l |-> group[l[i].body]] = Append(s, group[t.body])
    BY <1>1, <2>1
  <2> HIDE DEF B, s
  <2>3. ValueOf(T, ts, group) = s
    BY <1>2 DEF ValueOf, s
  <2>4. ValueOf(T, l, group) = Append(s, group[t.body])
    BY <1>2, <2>2 DEF ValueOf
  <2> QED BY <1>2, <2>3, <2>4 DEF l
<1>3. CASE T = "map"
  <2> DEFINE s == [i \in DOMAIN ts |-> ReadEntry(ts[i].body).msg]
             B == {ReadEntry(a.body).msg : a \in A}
             e == ReadEntry(t.body).msg
  <2>1. s \in Seq(B) /\ Len(s) = n /\ e \in B
    BY <1>1
  <2>2. [i \in DOMAIN l |-> ReadEntry(l[i].body).msg] = Append(s, e)
    BY <1>1, <2>1
  <2> HIDE DEF B, s, e
  <2>3. EntriesMean(Append(s, e)) = MergeMap(EntriesMean(s), e)
    BY <2>1, EntriesMeanAppend
  <2>4. ValueOf(T, ts, group) = EntriesMean(s)
    BY <1>3 DEF ValueOf, s
  <2>5. ValueOf(T, l, group) = MergeMap(EntriesMean(s), e)
    BY <1>3, <2>2, <2>3 DEF ValueOf
  <2> QED BY <1>3, <2>4, <2>5 DEF l, e
<1>4. CASE T \notin {"UserGroup*", "map"}
  BY <1>1, <1>4 DEF ValueOf, l
<1> QED BY <1>2, <1>3, <1>4

(* A field that does not occur has the default value. *)
LEMMA ValueEmpty ==
  ASSUME NEW T, NEW group
  PROVE  ValueOf(T, <<>>, group) = Default(T)
<1>1. ASSUME NEW s, DOMAIN s = {}, s = [i \in DOMAIN s |-> s[i]]
      PROVE  s = <<>>
  BY <1>1
<1>2. DOMAIN <<>> = {}
  OBVIOUS
<1>3. CASE T = "UserGroup*"
  BY <1>2, <1>3 DEF ValueOf, Default, Numbers, Enums
<1>4. CASE T = "map"
  <2> DEFINE es == [i \in DOMAIN <<>> |-> ReadEntry(<<>>[i].body).msg]
  <2>1. DOMAIN EntriesMean(es) = {}
    BY <1>2 DEF EntriesMean
  <2>2. EntriesMean(es) = [k \in DOMAIN EntriesMean(es) |-> EntriesMean(es)[k]]
    BY DEF EntriesMean
  <2>3. EntriesMean(es) = <<>>
    BY <2>1, <2>2, <1>1
  <2>4. ValueOf(T, <<>>, group) = EntriesMean(es)
    BY <1>4 DEF ValueOf
  <2> QED BY <1>4, <2>3, <2>4 DEF Default, Numbers, Enums
<1>5. CASE T \notin {"UserGroup*", "map"}
  BY <1>5 DEF ValueOf
<1> QED BY <1>3, <1>4, <1>5

(* No bytes mean a new message. *)
LEMMA MeaningEmpty ==
  ASSUME NEW ty, NEW group
  PROVE  MeaningOf(ty, <<>>, group) = New(ty)
<1>1. \A f : Occurrences(ty, f, <<>>) = <<>>
  BY OccurrencesFold, EmptySeq
<1>2. \A T : ValueOf(T, <<>>, group) = Default(T)
  BY ValueEmpty
<1> QED BY <1>1, <1>2 DEF MeaningOf, New

(* The groups within are read as they mean. *)
GroupsReadAs(ty, nested, group, t) ==
  \A f \in DOMAIN Class[ty] :
    FieldType(ty, f) = "UserGroup*" =>
      /\ nested[t.body].ok <=> Plain(t.body)
      /\ nested[t.body].ok => nested[t.body].msg = group[t.body]

(* The message m with what the token t holds taken over. *)
Takes(ty, nested, m, n, t) ==
  /\ \A f \in DOMAIN Class[ty] :
       DeclaredFor(ty, f, t) /\ Accepted(ty, f, nested, t) =>
         n = [m EXCEPT ![f] = Taken(ty, f, nested, m[f], t)]
  /\ ~Declared(ty, t) => n = [m EXCEPT !.unknown = Append(m.unknown, t)]

(* One more token changes the meaning of bytes as a parser's step changes    *)
(* the message it reads.                                                     *)
LEMMA MeaningAppend ==
  ASSUME NEW ty \in Types, NEW nested, NEW group, NEW A, NEW b \in Seq(A),
         NEW t \in A, GroupsReadAs(ty, nested, group, t)
  PROVE  Takes(ty, nested, MeaningOf(ty, b, group),
               MeaningOf(ty, Append(b, t), group), t)
<1> DEFINE m == MeaningOf(ty, b, group)
           n == MeaningOf(ty, Append(b, t), group)
           F == DOMAIN Class[ty]
           V(f, s) == ValueOf(FieldType(ty, f), Occurrences(ty, f, s), group)
           l == Append(b, t)
<1>1. "unknown" \notin F /\ Fields(ty) = F \cup {"unknown"}
  BY ClassesFit DEF ClassFits, Fields
<1>2. /\ m = [f \in Fields(ty) |-> IF f = "unknown"
                                   THEN Occurrences(ty, f, b) ELSE V(f, b)]
      /\ n = [f \in Fields(ty) |-> IF f = "unknown"
                                   THEN Occurrences(ty, f, l) ELSE V(f, l)]
  BY DEF MeaningOf
<1>3. ASSUME NEW f
      PROVE  Occurrences(ty, f, l) =
               IF IsOf(ty, f, t) THEN Append(Occurrences(ty, f, b), t)
               ELSE Occurrences(ty, f, b)
  BY OccurrencesFold
<1>4. ASSUME NEW f \in F, ~DeclaredFor(ty, f, t)
      PROVE  V(f, l) = V(f, b)
  BY <1>1, <1>3, <1>4 DEF IsOf
<1>5. ASSUME NEW f \in F, DeclaredFor(ty, f, t), Accepted(ty, f, nested, t)
      PROVE  n = [m EXCEPT ![f] = Taken(ty, f, nested, m[f], t)]
  <2> DEFINE T == FieldType(ty, f)
             ts == Occurrences(ty, f, b)
  <2>1. Occurrences(ty, f, l) = Append(ts, t)
    BY <1>1, <1>3, <1>5 DEF IsOf
  <2>2. ts \in Seq(A)
    BY OccurrencesType
  <2>3. T = "UserGroup*" => group[t.body] = nested[t.body].msg
    BY <1>5 DEF Accepted, GroupsReadAs
  <2>4. ValueOf(T, Append(ts, t), group) =
          IF T = "UserGroup*"
            THEN Append(ValueOf(T, ts, group), group[t.body])
          ELSE IF T = "map"
            THEN MergeMap(ValueOf(T, ts, group), ReadEntry(t.body).msg)
          ELSE IF T \in Strings THEN t.body
          ELSE Store(T, t.n)
    <3> HIDE DEF T, ts
    <3> QED BY <2>2, ValueAppend
  <2>5. V(f, l) = Taken(ty, f, nested, V(f, b), t)
    BY <2>1, <2>3, <2>4 DEF Taken
  <2>6. \A g \in F : g # f => ~DeclaredFor(ty, g, t)
    BY <1>5, DeclaredOnce
  <2>7. Occurrences(ty, "unknown", l) = Occurrences(ty, "unknown", b)
    BY <1>3, <1>5 DEF IsOf, Declared
  <2> HIDE DEF V, T, ts, m, n, l
  <2>8. m[f] = V(f, b) /\ f \in Fields(ty) /\ DOMAIN m = Fields(ty)
    BY <1>1, <1>2
  <2>9. n = [g \in Fields(ty) |-> IF g = f THEN Taken(ty, f, nested, m[f], t)
                                  ELSE m[g]]
    BY <1>1, <1>2, <1>4, <2>5, <2>6, <2>7, <2>8
  <2> QED BY <2>8, <2>9
<1>6. ASSUME ~Declared(ty, t)
      PROVE  n = [m EXCEPT !.unknown = Append(m.unknown, t)]
  <2>1. Occurrences(ty, "unknown", l) = Append(Occurrences(ty, "unknown", b), t)
    BY <1>3, <1>6 DEF IsOf
  <2>2. \A f \in F : V(f, l) = V(f, b)
    BY <1>4, <1>6 DEF Declared
  <2> HIDE DEF V, m, n, l
  <2>3. m.unknown = Occurrences(ty, "unknown", b) /\ "unknown" \in Fields(ty)
        /\ DOMAIN m = Fields(ty)
    BY <1>1, <1>2
  <2>4. n = [g \in Fields(ty) |-> IF g = "unknown" THEN Append(m.unknown, t)
                                  ELSE m[g]]
    BY <1>1, <1>2, <2>1, <2>2, <2>3
  <2> QED BY <2>3, <2>4
<1> QED BY <1>5, <1>6 DEF Takes

(* Bytes stay readable with a token that a parser accepts. *)
LEMMA ReadableAppend ==
  ASSUME NEW ty \in Types, NEW nested, NEW group, NEW A, NEW b \in Seq(A),
         NEW t \in A, GroupsReadAs(ty, nested, group, t)
  PROVE  Readable(ty, Append(b, t)) <=>
           /\ Readable(ty, b)
           /\ t.wt \in {"varint", "delimited"}
           /\ \A f \in DOMAIN Class[ty] :
                DeclaredFor(ty, f, t) => Accepted(ty, f, nested, t)
<1> DEFINE Ok(x) ==
      \A f \in DOMAIN Class[ty] :
        DeclaredFor(ty, f, x) =>
          CASE FieldType(ty, f) = "string"     -> Utf8(x.body)
            [] FieldType(ty, f) = "map"        -> ReadEntry(x.body).ok
            [] FieldType(ty, f) = "UserGroup*" -> Plain(x.body)
            [] OTHER                           -> TRUE
           l == Append(b, t)
           n == Len(b)
<1>1. /\ n \in Nat /\ DOMAIN b = 1..n /\ DOMAIN l = 1..(n + 1)
      /\ l[n + 1] = t /\ \A i \in 1..n : l[i] = b[i]
  BY LastAppended
<1>2. \A s : Readable(ty, s) <=>
        \A i \in DOMAIN s : s[i].wt \in {"varint", "delimited"} /\ Ok(s[i])
  BY DEF Readable, Plain
<1>3. Ok(t) <=> \A f \in DOMAIN Class[ty] :
                  DeclaredFor(ty, f, t) => Accepted(ty, f, nested, t)
  BY DEF Accepted, GroupsReadAs
<1> HIDE DEF Ok, l, n
<1>4. (\A i \in DOMAIN l : l[i].wt \in {"varint", "delimited"} /\ Ok(l[i]))
        <=> /\ \A i \in DOMAIN b :
                 b[i].wt \in {"varint", "delimited"} /\ Ok(b[i])
            /\ t.wt \in {"varint", "delimited"} /\ Ok(t)
  <2>1. \A i \in DOMAIN l : i = n + 1 \/ i \in DOMAIN b
    BY <1>1
  <2>2. n + 1 \in DOMAIN l /\ \A i \in DOMAIN b : i \in DOMAIN l
    BY <1>1
  <2> QED BY <1>1, <2>1, <2>2
<1> QED BY <1>2, <1>3, <1>4 DEF l

(* What a parser whose table fits the class makes of bytes is what they      *)
(* mean, and it refuses those that are not readable. The groups within are   *)
(* read as they mean.                                                        *)
LEMMA TokensAreRead ==
  ASSUME NEW ty \in Types, NEW table, ReaderFits(Class[ty], table),
         NEW nested, NEW group, NEW A,
         \A t \in A : IsToken(t) /\ GroupsReadAs(ty, nested, group, t)
  PROVE  \A b \in Seq(A) :
           LET r == ReadTokens(ty, table, nested, b)
           IN \/ Readable(ty, b) /\ r = Read(MeaningOf(ty, b, group))
              \/ ~Readable(ty, b) /\ \E m : r = Refused(m)
<1> DEFINE Result(b) == ReadTokens(ty, table, nested, b)
           Means(b) ==
             \/ Readable(ty, b) /\ Result(b) = Read(MeaningOf(ty, b, group))
             \/ ~Readable(ty, b) /\ \E m : Result(b) = Refused(m)
           T == {b \in Seq(A) : Means(b)}
<1>1. <<>> \in T
  <2>1. Result(<<>>) = Read(New(ty))
    BY ReadTokensFold, EmptySeq
  <2>2. Readable(ty, <<>>)
    BY DEF Readable, Plain
  <2> QED BY <2>1, <2>2, MeaningEmpty
<1>2. ASSUME NEW b \in Seq(A), NEW t \in A, b \in T
      PROVE  Append(b, t) \in T
  <2> DEFINE l == Append(b, t)
             m == MeaningOf(ty, b, group)
  <2>1. Result(l) = ReadToken(ty, table, nested, Result(b), t)
    BY ReadTokensFold
  <2>2. IsToken(t) /\ GroupsReadAs(ty, nested, group, t)
    OBVIOUS
  <2>3. Readable(ty, l) <=>
           /\ Readable(ty, b)
           /\ t.wt \in {"varint", "delimited"}
           /\ \A f \in DOMAIN Class[ty] :
                DeclaredFor(ty, f, t) => Accepted(ty, f, nested, t)
    BY <2>2, ReadableAppend
  <2>4. /\ \A f \in DOMAIN Class[ty] :
             DeclaredFor(ty, f, t) /\ Accepted(ty, f, nested, t) =>
               MeaningOf(ty, Append(b, t), group)
                 = [m EXCEPT ![f] = Taken(ty, f, nested, m[f], t)]
        /\ ~Declared(ty, t) =>
             MeaningOf(ty, Append(b, t), group)
               = [m EXCEPT !.unknown = Append(m.unknown, t)]
    <3>1. Takes(ty, nested, MeaningOf(ty, b, group),
                MeaningOf(ty, Append(b, t), group), t)
      BY <2>2, MeaningAppend
    <3> QED BY <3>1 DEF Takes
  <2>5. LET r == ReadToken(ty, table, nested, Read(m), t)
        IN /\ \A f \in DOMAIN Class[ty] : DeclaredFor(ty, f, t) =>
                r = IF Accepted(ty, f, nested, t)
                    THEN Read([m EXCEPT ![f] = Taken(ty, f, nested, m[f], t)])
                    ELSE Refused(m)
           /\ ~Declared(ty, t) =>
                r = IF t.wt \in {"varint", "delimited"}
                    THEN Read([m EXCEPT !.unknown = Append(m.unknown, t)])
                    ELSE Refused(m)
    <3> HIDE DEF m
    <3> QED BY <2>2, ReadStep
  <2>6. Means(b)
    BY <1>2
  <2> SUFFICES Means(l)
    BY LastAppended
  <2>7. CASE ~Readable(ty, b)
    <3>1. PICK k : Result(b) = Refused(k)
      BY <2>6, <2>7
    <3>2. Result(l) = Refused(k)
      BY <2>1, <3>1, RefusedStays
    <3> QED BY <2>3, <2>7, <3>2
  <2>8. CASE Readable(ty, b)
    <3>1. Result(b) = Read(m)
      BY <2>6, <2>8
    <3> HIDE DEF m
    <3>2. CASE \E f \in DOMAIN Class[ty] : DeclaredFor(ty, f, t)
      <4>1. PICK f \in DOMAIN Class[ty] : DeclaredFor(ty, f, t)
        BY <3>2
      <4>2. \A g \in DOMAIN Class[ty] : DeclaredFor(ty, g, t) => g = f
        BY <4>1, DeclaredOnce
      <4>3. t.wt \in {"varint", "delimited"}
        BY <4>1 DEF DeclaredFor
      <4>4. CASE Accepted(ty, f, nested, t)
        <5>1. Readable(ty, l)
          BY <2>3, <2>8, <4>2, <4>3, <4>4
        <5>2. Result(l)
                = Read([m EXCEPT ![f] = Taken(ty, f, nested, m[f], t)])
          BY <2>1, <2>5, <3>1, <4>1, <4>4
        <5> QED BY <2>4, <4>1, <4>4, <5>1, <5>2
      <4>5. CASE ~Accepted(ty, f, nested, t)
        <5>1. ~Readable(ty, l)
          BY <2>3, <4>1, <4>5
        <5>2. Result(l) = Refused(m)
          BY <2>1, <2>5, <3>1, <4>1, <4>5
        <5> QED BY <5>1, <5>2
      <4> QED BY <4>4, <4>5
    <3>3. CASE ~Declared(ty, t)
      <4>1. \A f \in DOMAIN Class[ty] : ~DeclaredFor(ty, f, t)
        BY <3>3 DEF Declared
      <4>2. CASE t.wt \in {"varint", "delimited"}
        <5>1. Readable(ty, l)
          BY <2>3, <2>8, <4>1, <4>2
        <5>2. Result(l) = Read([m EXCEPT !.unknown = Append(m.unknown, t)])
          BY <2>1, <2>5, <3>1, <3>3, <4>2
        <5> QED BY <2>4, <3>3, <5>1, <5>2
      <4>3. CASE t.wt \notin {"varint", "delimited"}
        <5>1. ~Readable(ty, l)
          BY <2>3, <4>3
        <5>2. Result(l) = Refused(m)
          BY <2>1, <2>5, <3>1, <3>3, <4>3
        <5> QED BY <5>1, <5>2
      <4> QED BY <4>2, <4>3
    <3> QED BY <3>2, <3>3 DEF Declared
  <2> QED BY <2>7, <2>8
<1>3. Seq(A) \subseteq T
  <2> HIDE DEF T
  <2> QED BY <1>1, <1>2, Reading!SeqSetInduction
<1> QED BY <1>3

(* What the tokens of messages, of groups and of texts hold. *)
LEMMA TokenTypes ==
  /\ Chunks \subseteq Parts /\ Parts \subseteq Tokens
  /\ \A t \in Tokens : IsToken(t) /\ t.body \in Seq(Parts)
  /\ \A t \in Parts : t.body \in Seq(Chunks)
<1>1. ASSUME NEW A, NEW B, A \subseteq B
      PROVE  TokensOf(A) \subseteq TokensOf(B)
  <2>1. Seq(A) \subseteq Seq(B)
    BY <1>1
  <2> QED BY <2>1 DEF TokensOf
<1>2. Chunks \subseteq Parts
  <2>1. {} \subseteq Chunks
    OBVIOUS
  <2> QED BY <1>1, <2>1 DEF Chunks, Parts
<1>3. Parts \subseteq Tokens
  BY <1>1, <1>2 DEF Parts, Tokens
<1>4. \A t \in Tokens : IsToken(t) /\ t.body \in Seq(Parts)
  BY DEF Tokens, TokensOf, IsToken
<1>5. \A t \in Parts : t.body \in Seq(Chunks)
  BY DEF Parts, TokensOf
<1> QED BY <1>2, <1>3, <1>4, <1>5

(* The tables of both parsers fit the classes. *)
LEMMA ReadersFit ==
  \A p \in Parsers, ty \in Types : ReaderFits(Class[ty], p[ty])
BY InternalParseFits, MergePartialFromCodedStreamFits DEF Parsers

(* The one class whose messages occur within others. *)
LEMMA UserGroupClass ==
  /\ "UserGroup" \in Types
  /\ DOMAIN Class["UserGroup"] = {"userGroupType", "userGroupId"}
  /\ \A f \in DOMAIN Class["UserGroup"] : FieldType("UserGroup", f) = "uint64"
<1>1. "UserGroup" \in Types /\ Class["UserGroup"] = UserGroup_Class
  BY DEF Types, Class
<1> QED BY <1>1 DEF UserGroup_Class, FieldType

(* A group is read as it means. *)
LEMMA LeafIsRead ==
  ASSUME NEW p \in Parsers, NEW b \in Seq(Tokens)
  PROVE  LET r == ParseLeaf(p, "UserGroup", b)
         IN \/ Plain(b) /\ r = Read(MeaningOf("UserGroup", b, <<>>))
            \/ ~Plain(b) /\ \E m : r = Refused(m)
<1>1. \A t \in Tokens : IsToken(t) /\ GroupsReadAs("UserGroup", <<>>, <<>>, t)
  BY TokenTypes, UserGroupClass DEF GroupsReadAs
<1>2. Readable("UserGroup", b) <=> Plain(b)
  BY UserGroupClass DEF Readable
<1>3. "UserGroup" \in Types /\ ReaderFits(Class["UserGroup"], p["UserGroup"])
  BY UserGroupClass, ReadersFit
<1>4. LET r == ReadTokens("UserGroup", p["UserGroup"], <<>>, b)
      IN \/ /\ Readable("UserGroup", b)
            /\ r = Read(MeaningOf("UserGroup", b, <<>>))
         \/ ~Readable("UserGroup", b) /\ \E m : r = Refused(m)
  BY <1>1, <1>3, TokensAreRead
<1> QED BY <1>2, <1>4 DEF ParseLeaf

(* Both parsers of the generated code read any bytes, for any type, as the   *)
(* type's declaration has it, or refuse them if they are not readable.       *)
LEMMA BytesAreRead ==
  ASSUME NEW p \in Parsers, NEW ty \in Types, NEW b \in Seq(Tokens)
  PROVE  LET r == ParseWith(p, ty, b)
         IN \/ Readable(ty, b) /\ r = Read(Meaning(ty, b))
            \/ ~Readable(ty, b) /\ \E m : r = Refused(m)
<1> DEFINE bodies == {b[i].body : i \in DOMAIN b}
           nested == [x \in bodies |-> ParseLeaf(p, "UserGroup", x)]
           group == [x \in bodies |-> MeaningOf("UserGroup", x, <<>>)]
           A == {t \in Tokens : t.body \in bodies}
<1>1. b \in Seq(A)
  <2>1. \A i \in DOMAIN b : b[i] \in A
    OBVIOUS
  <2> QED BY <2>1
<1>2. \A x \in bodies : x \in Seq(Tokens)
  BY TokenTypes
<1>3. ASSUME NEW t \in A
      PROVE  IsToken(t) /\ GroupsReadAs(ty, nested, group, t)
  <2>1. t.body \in bodies /\ t.body \in Seq(Tokens)
    BY <1>2
  <2>2. LET r == ParseLeaf(p, "UserGroup", t.body)
        IN \/ Plain(t.body) /\ r = Read(MeaningOf("UserGroup", t.body, <<>>))
           \/ ~Plain(t.body) /\ \E m : r = Refused(m)
    BY <2>1, LeafIsRead
  <2>3. /\ nested[t.body].ok <=> Plain(t.body)
        /\ nested[t.body].ok => nested[t.body].msg = group[t.body]
    <3>1. nested[t.body] = ParseLeaf(p, "UserGroup", t.body)
      BY <2>1
    <3>2. group[t.body] = MeaningOf("UserGroup", t.body, <<>>)
      BY <2>1
    <3> HIDE DEF nested, group
    <3>3. CASE Plain(t.body)
      <4>1. nested[t.body] = Read(group[t.body])
        BY <2>2, <3>1, <3>2, <3>3
      <4> QED BY <3>3, <4>1 DEF Read
    <3>4. CASE ~Plain(t.body)
      <4>1. PICK m : nested[t.body] = Refused(m)
        BY <2>2, <3>1, <3>4
      <4> QED BY <3>4, <4>1 DEF Refused
    <3> QED BY <3>3, <3>4
  <2> QED BY <2>3, TokenTypes DEF GroupsReadAs
<1>4. /\ ParseWith(p, ty, b) = ReadTokens(ty, p[ty], nested, b)
      /\ Meaning(ty, b) = MeaningOf(ty, b, group)
  BY DEF ParseWith, Meaning
<1>5. ReaderFits(Class[ty], p[ty])
  BY ReadersFit
<1> HIDE DEF nested, group, A
<1> QED BY <1>1, <1>3, <1>4, <1>5, TokensAreRead

-----------------------------------------------------------------------------
(* Lengths as folds. *)
AddSize(e, n, t) == n + TokenSize(t)
Sizing == INSTANCE SequenceFolds WITH Op <- AddSize

(* Lengths are numbers, those the model counts no further included. *)
LEMMA DigitsType ==
  \A base, n : Digits(base, n) \in Nat
<1> SUFFICES ASSUME NEW base, NEW n PROVE Digits(base, n) \in Nat
  OBVIOUS
<1>1. CASE n < base
  BY <1>1 DEF Digits
<1>2. CASE ~(n < base)
  <2> DEFINE P(k) == k = 20 \/ n < base^k
             S == {k \in 2..20 : P(k)}
  <2>1. S \in SUBSET Nat /\ S # {}
    OBVIOUS
  <2>2. PICK k \in S : \A j \in S : k <= j
    <3> HIDE DEF S
    <3> QED BY <2>1, Sizing!MinExists
  <2>3. k \in 2..20 /\ P(k)
    OBVIOUS
  <2>4. \A j \in 2..k-1 : ~P(j)
    <3>1. \A j \in 2..k-1 : j \in 2..20 /\ ~(k <= j)
      BY <2>3
    <3> QED BY <2>2, <3>1
  <2>5. \E l \in 2..20 : P(l) /\ \A j \in 2..l-1 : ~(n < base^j)
    BY <2>3, <2>4
  <2> QED BY <1>2, <2>5 DEF Digits
<1> QED BY <1>1, <1>2

(* So is the length of a sequence of tokens. *)
LEMMA ByteLengthType ==
  ASSUME NEW A, \A t \in A : t.n \in Nat
  PROVE  \A b \in Seq(A) : ByteLength(b) \in Nat
<1> DEFINE T == {b \in Seq(A) : ByteLength(b) \in Nat}
<1>1. \A b : ByteLength(b) = Sizing!Fold(<<>>, 0, b)
  BY DEF ByteLength, Sizing!Fold, AddSize, FoldLeft, MapThenFoldSet, Max,
    Sizing!FoldLeft, Sizing!MapThenFoldSet, Sizing!Max
<1>2. <<>> \in T
  BY <1>1, Sizing!FoldEmpty, EmptySeq
<1>3. ASSUME NEW b \in Seq(A), NEW t \in A, b \in T
      PROVE  Append(b, t) \in T
  <2>1. ByteLength(Append(b, t)) = ByteLength(b) + TokenSize(t)
    <3>1. Sizing!Fold(<<>>, 0, Append(b, t))
            = AddSize(<<>>, Sizing!Fold(<<>>, 0, b), t)
      BY Sizing!FoldAppend
    <3> QED BY <1>1, <3>1 DEF AddSize
  <2>2. TokenSize(t) \in Nat
    <3>1. t.n \in Nat
      OBVIOUS
    <3> QED BY <3>1, DigitsType DEF TokenSize, VarintSize
  <2> QED BY <1>3, <2>1, <2>2, LastAppended
<1>4. Seq(A) \subseteq T
  <2> HIDE DEF T
  <2> QED BY <1>2, <1>3, Sizing!SeqSetInduction
<1> QED BY <1>4

(* A delimited field is a token that holds its body. *)
LEMMA DelimitedType ==
  ASSUME NEW A, \A t \in A : t.n \in Nat, NEW num \in Nat, NEW b \in Seq(A)
  PROVE  Delimited(num, b) \in TokensOf(A)
<1>1. ByteLength(b) \in Nat
  BY ByteLengthType
<1> QED BY <1>1 DEF Delimited, TokensOf, Wires

(* A number's token holds nothing. *)
LEMMA VarintType ==
  ASSUME NEW A, NEW num \in Nat, NEW n \in Nat
  PROVE  Varint(num, n) \in TokensOf(A)
BY EmptySeq DEF Varint, TokensOf, Wires

(* The keys of a map, in the order they are written: each of them, once. *)
LEMMA SetToSeqFacts ==
  ASSUME NEW S, IsFiniteSet(S)
  PROVE  /\ SetToSeq(S) \in Seq(S)
         /\ \A i, j \in DOMAIN SetToSeq(S) :
              SetToSeq(S)[i] = SetToSeq(S)[j] => i = j
         /\ \A x \in S : \E i \in DOMAIN SetToSeq(S) : SetToSeq(S)[i] = x
<1> DEFINE n == Cardinality(S)
           s == SetToSeq(S)
<1>1. n \in Nat /\ ExistsBijection(1..n, S)
  BY FS_CardinalityType
<1>2. PICK f \in Bijection(1..n, S) : TRUE
  BY <1>1 DEF ExistsBijection
<1>3. f \in [1..n -> S] /\ IsInjective(f)
  BY <1>2 DEF Bijection, Injection
<1>4. s \in [1..n -> S] /\ IsInjective(s)
  BY <1>3 DEF SetToSeq
<1>5. s \in Injection(1..n, S)
  BY <1>4 DEF Injection
<1>6. IsFiniteSet(1..n) /\ Cardinality(1..n) = n
  <2>1. 1 - 1 <= n /\ 1 \in Int /\ n \in Int
    BY <1>1
  <2> QED BY <1>1, FS_Interval
<1>7. s \in Surjection(1..n, S)
  <2> HIDE DEF s, n
  <2> QED BY <1>5, <1>6, FS_Injection DEF n
<1>8. s \in Seq(S) /\ DOMAIN s = 1..n
  <2> HIDE DEF s, n
  <2> QED BY <1>1, <1>4
<1>9. \A x \in S : \E i \in 1..n : s[i] = x
  BY <1>7 DEF Surjection
<1> QED BY <1>4, <1>8, <1>9 DEF IsInjective

-----------------------------------------------------------------------------
(* The occurrences of a field in bytes. *)
LEMMA ConcatAppended ==
  ASSUME NEW A
  PROVE  \A u, v \in Seq(A), x \in A :
           /\ u \o v \in Seq(A)
           /\ u \o Append(v, x) = Append(u \o v, x)
<1> SUFFICES ASSUME NEW u \in Seq(A), NEW v \in Seq(A), NEW x \in A
             PROVE  /\ u \o v \in Seq(A)
                    /\ u \o Append(v, x) = Append(u \o v, x)
  OBVIOUS
<1> QED OBVIOUS

(* What occurs in concatenated bytes occurs in the one or the other. *)
LEMMA OccurrencesConcat ==
  ASSUME NEW ty, NEW f, NEW A, NEW b \in Seq(A), NEW c \in Seq(A)
  PROVE  Occurrences(ty, f, b \o c)
           = Occurrences(ty, f, b) \o Occurrences(ty, f, c)
<1> DEFINE T == {s \in Seq(A) : Occurrences(ty, f, b \o s)
                   = Occurrences(ty, f, b) \o Occurrences(ty, f, s)}
           O(s) == Occurrences(ty, f, s)
<1>1. \A s \in Seq(A) : O(s) \in Seq(A)
  BY OccurrencesType
<1>2. \A s \in Seq(A), t \in A :
        O(Append(s, t)) = IF IsOf(ty, f, t) THEN Append(O(s), t) ELSE O(s)
  BY OccurrencesFold
<1>3. O(<<>>) = <<>>
  BY OccurrencesFold, EmptySeq
<1> HIDE DEF O
<1>4. <<>> \in T
  <2>1. b \o <<>> = b /\ <<>> \in Seq(A) /\ O(b) \o <<>> = O(b)
    BY <1>1
  <2> QED BY <1>3, <2>1 DEF O
<1>5. ASSUME NEW s \in Seq(A), NEW t \in A, s \in T
      PROVE  Append(s, t) \in T
  <2>1. b \o s \in Seq(A) /\ b \o Append(s, t) = Append(b \o s, t)
        /\ Append(s, t) \in Seq(A)
    OBVIOUS
  <2>2. O(Append(b \o s, t)) =
          IF IsOf(ty, f, t) THEN Append(O(b \o s), t) ELSE O(b \o s)
    BY <1>2, <2>1
  <2>3. O(b \o s) = O(b) \o O(s)
    BY <1>5 DEF O
  <2>4. Append(O(b) \o O(s), t) = O(b) \o Append(O(s), t)
    <3>1. O(b) \in Seq(A) /\ O(s) \in Seq(A)
      BY <1>1
    <3> DEFINE u == O(b)
               v == O(s)
    <3> HIDE DEF u, v
    <3>2. u \in Seq(A) /\ v \in Seq(A) /\ t \in A
      BY <3>1 DEF u, v
    <3>3. u \o Append(v, t) = Append(u \o v, t)
      BY ONLY <3>2, ConcatAppended
    <3> QED BY <3>3 DEF u, v
  <2>5. O(b \o Append(s, t)) = O(b) \o O(Append(s, t))
    BY <1>2, <2>1, <2>2, <2>3, <2>4
  <2> QED BY <2>1, <2>5 DEF O
<1>6. Seq(A) \subseteq T
  <2> HIDE DEF T
  <2> QED BY <1>4, <1>5, Keeping!SeqSetInduction
<1> QED BY <1>6

(* Everything, or nothing, is of the field. *)
AllOf(ty, f, b) == \A i \in DOMAIN b : IsOf(ty, f, b[i])
NoneOf(ty, f, b) == \A i \in DOMAIN b : ~IsOf(ty, f, b[i])

(* Of bytes that are all of a field all are kept, of others none. *)
LEMMA OccurrencesAll ==
  ASSUME NEW ty, NEW f, NEW A, NEW b \in Seq(A)
  PROVE  /\ AllOf(ty, f, b) => Occurrences(ty, f, b) = b
         /\ NoneOf(ty, f, b) => Occurrences(ty, f, b) = <<>>
<1> DEFINE T == {s \in Seq(A) :
                   /\ AllOf(ty, f, s) => Occurrences(ty, f, s) = s
                   /\ NoneOf(ty, f, s) => Occurrences(ty, f, s) = <<>>}
<1>1. <<>> \in T
  BY OccurrencesFold, EmptySeq
<1>2. ASSUME NEW s \in Seq(A), NEW t \in A, s \in T
      PROVE  Append(s, t) \in T
  <2> DEFINE l == Append(s, t)
  <2>1. l \in Seq(A) /\ Len(s) \in Nat /\ DOMAIN s = 1..Len(s)
        /\ DOMAIN l = 1..(Len(s) + 1) /\ l[Len(s) + 1] = t
        /\ \A i \in 1..Len(s) : l[i] = s[i]
    BY LastAppended
  <2>2. Occurrences(ty, f, l) =
          IF IsOf(ty, f, t) THEN Append(Occurrences(ty, f, s), t)
          ELSE Occurrences(ty, f, s)
    BY OccurrencesFold
  <2>3. Len(s) + 1 \in DOMAIN l /\ \A i \in DOMAIN s : i \in DOMAIN l
    BY <2>1
  <2>4. ASSUME AllOf(ty, f, l) PROVE Occurrences(ty, f, l) = l
    <3>1. AllOf(ty, f, s) /\ IsOf(ty, f, t)
      BY <2>1, <2>3, <2>4 DEF AllOf
    <3> QED BY <1>2, <2>2, <3>1
  <2>5. ASSUME NoneOf(ty, f, l) PROVE Occurrences(ty, f, l) = <<>>
    <3>1. NoneOf(ty, f, s) /\ ~IsOf(ty, f, t)
      BY <2>1, <2>3, <2>5 DEF NoneOf
    <3> QED BY <1>2, <2>2, <3>1
  <2> QED BY <2>1, <2>4, <2>5
<1>3. Seq(A) \subseteq T
  <2> HIDE DEF T
  <2> QED BY <1>1, <1>2, Keeping!SeqSetInduction
<1> QED BY <1>3

(* A token occurs for a field if it is of the field and among the bytes. *)
LEMMA OccurrencesElements ==
  ASSUME NEW ty, NEW f, NEW A, NEW b \in Seq(A)
  PROVE  \A x : (\E i \in DOMAIN Occurrences(ty, f, b) :
                   Occurrences(ty, f, b)[i] = x)
                <=> IsOf(ty, f, x) /\ \E i \in DOMAIN b : b[i] = x
<1> DEFINE In(s, x) == \E i \in DOMAIN s : s[i] = x
           O(s) == Occurrences(ty, f, s)
           T == {s \in Seq(A) : \A x : In(O(s), x) <=>
                                       IsOf(ty, f, x) /\ In(s, x)}
<1>1. <<>> \in T
  <2>1. O(<<>>) = <<>> /\ <<>> \in Seq(A)
    BY OccurrencesFold, EmptySeq
  <2>2. \A x : ~In(<<>>, x)
    OBVIOUS
  <2> HIDE DEF In, O
  <2> QED BY <2>1, <2>2
<1>2. ASSUME NEW s \in Seq(A), NEW t \in A, s \in T
      PROVE  Append(s, t) \in T
  <2>1. ASSUME NEW u \in Seq(A), NEW x
        PROVE  In(Append(u, t), x) <=> In(u, x) \/ x = t
    <3> DEFINE l == Append(u, t)
    <3>1. Len(u) \in Nat /\ DOMAIN u = 1..Len(u)
          /\ DOMAIN l = 1..(Len(u) + 1) /\ l[Len(u) + 1] = t
          /\ \A i \in 1..Len(u) : l[i] = u[i]
      BY LastAppended
    <3> HIDE DEF l
    <3>2. \A i \in DOMAIN l : i = Len(u) + 1 \/ i \in DOMAIN u
      BY <3>1
    <3>3. Len(u) + 1 \in DOMAIN l /\ \A i \in DOMAIN u : i \in DOMAIN l
      BY <3>1
    <3> QED BY <3>1, <3>2, <3>3 DEF l
  <2>2. O(Append(s, t)) = IF IsOf(ty, f, t) THEN Append(O(s), t) ELSE O(s)
    BY OccurrencesFold
  <2>3. O(s) \in Seq(A) /\ Append(s, t) \in Seq(A)
    BY OccurrencesType, LastAppended
  <2>4. \A x : In(O(s), x) <=> IsOf(ty, f, x) /\ In(s, x)
    BY <1>2
  <2> HIDE DEF In, O
  <2>5. \A x : In(O(Append(s, t)), x) <=>
               IsOf(ty, f, x) /\ In(Append(s, t), x)
    BY <2>1, <2>2, <2>3, <2>4
  <2> QED BY <2>3, <2>5
<1>3. Seq(A) \subseteq T
  <2> HIDE DEF T
  <2> QED BY <1>1, <1>2, Keeping!SeqSetInduction
<1> QED BY <1>3

-----------------------------------------------------------------------------
(* What a serialiser writes for a field, by its type. *)
NumberToken(T, num, v) ==
  Varint(num, IF T = "bool" THEN 1
              ELSE IF T \in Enums THEN SignExtend(v) ELSE v)
FieldBytes(ty, m, nested, f) ==
  LET T == FieldType(ty, f)
      num == Class[ty][f][1]
  IN IF T = "UserGroup*"
       THEN [i \in DOMAIN m[f] |-> Delimited(num, nested[m[f][i]])]
     ELSE IF T = "map" THEN WriteEntries(num, m[f])
     ELSE IF m[f] = Default(T) THEN <<>>
     ELSE IF T \in Strings THEN <<Delimited(num, m[f])>>
     ELSE <<NumberToken(T, num, m[f])>>

(* Whatever function a serialiser's table has for a field, it writes the     *)
(* type the field is declared with.                                          *)
LEMMA WriteFieldIs ==
  ASSUME NEW ty \in Types, NEW table, WriterFits(Class[ty], table),
         NEW m, NEW nested, NEW i \in DOMAIN table
  PROVE  WriteField(ty, m, table[i][2], table[i][1], table[i][3], nested)
           = FieldBytes(ty, m, nested, table[i][1])
<1> DEFINE f == table[i][1]
           kind == table[i][2]
           num == table[i][3]
           T == FieldType(ty, f)
<1>1. f \in DOMAIN Class[ty] /\ num = Class[ty][f][1]
      /\ WritesType(kind, Class[ty][f][2])
  BY DEF WriterFits
<1>2. WritesType(kind, T)
  BY <1>1 DEF FieldType
<1> HIDE DEF f, kind, num
<1>3. WriteField(ty, m, kind, f, num, nested) = FieldBytes(ty, m, nested, f)
  <2> HIDE DEF T
  <2>1. CASE T = "UserGroup*" /\ kind = "Message"
    BY <1>1, <2>1 DEF WriteField, FieldBytes, T
  <2>2. CASE T = "map" /\ kind = "Entry"
    BY <1>1, <2>2 DEF WriteField, FieldBytes, T
  <2>3. CASE T \in Strings /\ kind \in {"String", "Bytes"}
    BY <1>1, <2>3
    DEF WriteField, WriteValue, FieldBytes, IsDefault, Strings, T
  <2>4. CASE T = "bool" /\ kind = "Bool"
    BY <1>1, <2>4
    DEF WriteField, WriteValue, FieldBytes, NumberToken, IsDefault, Strings, T
  <2>5. CASE T \in Enums /\ kind = "Enum"
    BY <1>1, <2>5
    DEF WriteField, WriteValue, FieldBytes, NumberToken, IsDefault, Strings,
        Enums, T
  <2>6. CASE T \in {"uint32", "uint64"} /\ kind \in {"UInt32", "UInt64"}
    BY <1>1, <2>6
    DEF WriteField, WriteValue, FieldBytes, NumberToken, IsDefault, Strings,
        Enums, T
  <2> QED BY <1>2, <2>1, <2>2, <2>3, <2>4, <2>5, <2>6 DEF WritesType, Strings
<1> QED BY <1>3 DEF f, kind, num

(* The values of a message whose tokens hold strings of chunks of A. *)
Writable(ty, m, nested, A) ==
  /\ \A t \in A : t.n \in Nat
  /\ \A f \in DOMAIN Class[ty] :
       LET T == FieldType(ty, f)
       IN /\ T = "UserGroup*" =>
               /\ m[f] \in Seq(DOMAIN nested)
               /\ \A i \in DOMAIN m[f] : nested[m[f][i]] \in Seq(A)
          /\ T = "map" =>
               /\ IsFiniteSet(DOMAIN m[f])
               /\ \A k \in DOMAIN m[f] : EntryBytes(k, m[f][k]) \in Seq(A)
          /\ T \in Strings => m[f] \in Seq(A)
          /\ T \in Numbers => m[f] \in Nat
  /\ m.unknown \in Seq(TokensOf(A)) /\ AreUnknown(ty, m.unknown)

(* What is written for a field are tokens of that field. *)
LEMMA FieldBytesType ==
  ASSUME NEW ty \in Types, NEW m, NEW nested, NEW A,
         Writable(ty, m, nested, A), NEW f \in DOMAIN Class[ty]
  PROVE  /\ FieldBytes(ty, m, nested, f) \in Seq(TokensOf(A))
         /\ \A i \in DOMAIN FieldBytes(ty, m, nested, f) :
              DeclaredFor(ty, f, FieldBytes(ty, m, nested, f)[i])
<1> DEFINE T == FieldType(ty, f)
           num == Class[ty][f][1]
           bytes_ == FieldBytes(ty, m, nested, f)
           D == {t \in TokensOf(A) : DeclaredFor(ty, f, t)}
<1>1. num \in Nat /\ T \in FieldTypes
  BY ClassesFit DEF ClassFits, FieldType
<1>2. \A t \in A : t.n \in Nat
  BY DEF Writable
<1>3. ASSUME NEW b \in Seq(A), T \notin Numbers \cup {"bool"}
      PROVE  Delimited(num, b) \in D
  <2>1. Delimited(num, b) \in TokensOf(A)
    <3> HIDE DEF num
    <3> QED BY <1>1, <1>2, DelimitedType
  <2>2. DeclaredFor(ty, f, Delimited(num, b))
    BY <1>3 DEF DeclaredFor, Delimited, IsField
  <2> QED BY <2>1, <2>2
<1>4. ASSUME NEW n \in Nat, T \in Numbers \cup {"bool"}
      PROVE  Varint(num, n) \in D
  <2>1. Varint(num, n) \in TokensOf(A)
    <3> HIDE DEF num
    <3> QED BY <1>1, VarintType
  <2>2. DeclaredFor(ty, f, Varint(num, n))
    BY <1>4 DEF DeclaredFor, Varint, IsField
  <2> QED BY <2>1, <2>2
<1>5. SUFFICES bytes_ \in Seq(D)
  <2>1. Seq(D) \subseteq Seq(TokensOf(A))
    OBVIOUS
  <2>2. ASSUME bytes_ \in Seq(D), NEW i \in DOMAIN bytes_
        PROVE  bytes_[i] \in D
    BY <2>2
  <2> QED BY <2>1, <2>2
<1> HIDE DEF D, num
<1>6. CASE T = "UserGroup*"
  <2>1. /\ m[f] \in Seq(DOMAIN nested)
        /\ \A i \in DOMAIN m[f] : nested[m[f][i]] \in Seq(A)
    BY <1>6 DEF Writable
  <2>2. bytes_ = [i \in DOMAIN m[f] |-> Delimited(num, nested[m[f][i]])]
    BY <1>6 DEF FieldBytes, num
  <2>3. \A i \in DOMAIN m[f] : Delimited(num, nested[m[f][i]]) \in D
    BY <1>3, <1>6, <2>1 DEF Numbers, Enums
  <2>4. DOMAIN m[f] = 1..Len(m[f]) /\ Len(m[f]) \in Nat
    BY <2>1
  <2> HIDE DEF bytes_
  <2> QED BY <2>2, <2>3, <2>4
<1>7. CASE T = "map"
  <2> DEFINE keys == SetToSeq(DOMAIN m[f])
  <2>1. IsFiniteSet(DOMAIN m[f])
        /\ \A k \in DOMAIN m[f] : EntryBytes(k, m[f][k]) \in Seq(A)
    BY <1>7 DEF Writable
  <2>2. keys \in Seq(DOMAIN m[f])
    BY <2>1, SetToSeqFacts
  <2>3. bytes_ = [i \in DOMAIN keys |->
                    Delimited(num, EntryBytes(keys[i], m[f][keys[i]]))]
    BY <1>7 DEF FieldBytes, WriteEntries, num
  <2> HIDE DEF keys
  <2>4. DOMAIN keys = 1..Len(keys) /\ Len(keys) \in Nat
        /\ \A i \in DOMAIN keys : keys[i] \in DOMAIN m[f]
    BY <2>2
  <2>5. \A i \in DOMAIN keys :
          Delimited(num, EntryBytes(keys[i], m[f][keys[i]])) \in D
    BY <1>3, <1>7, <2>1, <2>4 DEF Numbers, Enums
  <2> HIDE DEF bytes_
  <2> QED BY <2>3, <2>4, <2>5
<1>8. CASE T \in Strings
  <2>1. m[f] \in Seq(A)
    BY <1>8 DEF Writable
  <2>2. Delimited(num, m[f]) \in D
    BY <1>3, <1>8, <2>1 DEF Strings, Numbers, Enums
  <2>3. bytes_ = <<>> \/ bytes_ = <<Delimited(num, m[f])>>
    BY <1>8 DEF FieldBytes, Strings, num
  <2> DEFINE x == Delimited(num, m[f])
  <2> HIDE DEF x, bytes_
  <2>4. <<>> \in Seq(D) /\ <<x>> \in Seq(D)
    BY <2>2 DEF x
  <2> QED BY <2>3, <2>4 DEF x
<1>9. CASE T \in Numbers \cup {"bool"}
  <2> DEFINE n == IF T = "bool" THEN 1
                  ELSE IF T \in Enums THEN SignExtend(m[f]) ELSE m[f]
  <2>1. n \in Nat
    <3>1. T \in Numbers => m[f] \in Nat
      BY DEF Writable
    <3>2. Long - EnumWord \in Nat
      BY WidthsAssumption
    <3>3. m[f] \in Nat => SignExtend(m[f]) \in Nat
      BY <3>2 DEF SignExtend
    <3> QED BY <1>9, <3>1, <3>3 DEF Numbers
  <2>2. bytes_ = <<>> \/ bytes_ = <<Varint(num, n)>>
    BY <1>9 DEF FieldBytes, Strings, NumberToken, Numbers, Enums, num
  <2> HIDE DEF n
  <2>3. Varint(num, n) \in D
    BY <1>4, <1>9, <2>1
  <2> DEFINE x == Varint(num, n)
  <2> HIDE DEF x, bytes_
  <2>4. <<>> \in Seq(D) /\ <<x>> \in Seq(D)
    BY <2>3 DEF x
  <2> QED BY <2>2, <2>4 DEF x
<1> QED BY <1>1, <1>6, <1>7, <1>8, <1>9 DEF FieldTypes, Numbers, Scalars

(* Writing as a fold over the table of a serialiser. *)
WriteIn(e, out, w) ==
  out \o WriteField(e.type, e.msg, w[2], w[1], w[3], e.nested)
Writing == INSTANCE SequenceFolds WITH Op <- WriteIn

Fields_(table, ty, m, nested) ==
  FoldLeft(LAMBDA out, w :
             out \o WriteField(ty, m, w[2], w[1], w[3], nested), <<>>, table)

(* A serialiser writes the fields of its table one after the other. *)
LEMMA WriteFieldsFold ==
  ASSUME NEW ty, NEW m, NEW nested, NEW A, NEW s \in Seq(A)
  PROVE  /\ Fields_(<<>>, ty, m, nested) = <<>>
         /\ \A w \in A : Fields_(Append(s, w), ty, m, nested) =
              Fields_(s, ty, m, nested)
                \o WriteField(ty, m, w[2], w[1], w[3], nested)
<1> DEFINE e == [type |-> ty, msg |-> m, nested |-> nested]
<1>1. \A t : Fields_(t, ty, m, nested) = Writing!Fold(e, <<>>, t)
  BY DEF Fields_, Writing!Fold, WriteIn, FoldLeft, MapThenFoldSet, Max,
    Writing!FoldLeft, Writing!MapThenFoldSet, Writing!Max
<1>2. \A out, w : WriteIn(e, out, w) =
        out \o WriteField(ty, m, w[2], w[1], w[3], nested)
  BY DEF WriteIn
<1> HIDE DEF e
<1>3. Writing!Fold(e, <<>>, <<>>) = <<>>
  BY Writing!FoldEmpty
<1>4. ASSUME NEW w \in A
      PROVE  Writing!Fold(e, <<>>, Append(s, w))
               = WriteIn(e, Writing!Fold(e, <<>>, s), w)
  BY Writing!FoldAppend
<1> QED BY <1>1, <1>2, <1>3, <1>4

(* A part of a serialiser's table: some of its fields, each once. *)
Once(s) == \A i, j \in DOMAIN s : s[i][1] = s[j][1] => i = j
Among(s, f) == \E i \in DOMAIN s : s[i][1] = f

(* What the first rows of a serialiser's table have written: the bytes of    *)
(* their fields, and of no other.                                            *)
LEMMA PartIsWritten ==
  ASSUME NEW ty \in Types, NEW table, WriterFits(Class[ty], table),
         NEW m, NEW nested, NEW A, Writable(ty, m, nested, A)
  PROVE  \A s \in Seq({table[i] : i \in DOMAIN table}) :
           Once(s) =>
             LET b == Fields_(s, ty, m, nested)
             IN /\ b \in Seq(TokensOf(A))
                /\ \A f \in DOMAIN Class[ty] :
                     Occurrences(ty, f, b) =
                       IF Among(s, f) THEN FieldBytes(ty, m, nested, f)
                       ELSE <<>>
                /\ Occurrences(ty, "unknown", b) = <<>>
<1> DEFINE W == {table[i] : i \in DOMAIN table}
           F == DOMAIN Class[ty]
           B(s) == Fields_(s, ty, m, nested)
           G(f) == FieldBytes(ty, m, nested, f)
           K == TokensOf(A)
           Goal(s) == /\ B(s) \in Seq(K)
                      /\ \A f \in F : Occurrences(ty, f, B(s)) =
                           IF Among(s, f) THEN G(f) ELSE <<>>
                      /\ Occurrences(ty, "unknown", B(s)) = <<>>
           T == {s \in Seq(W) : Once(s) => Goal(s)}
<1>1. <<>> \in T
  <2>1. B(<<>>) = <<>>
    BY WriteFieldsFold, EmptySeq
  <2>2. \A f : Occurrences(ty, f, <<>>) = <<>>
    BY OccurrencesFold, EmptySeq
  <2>4. \A f : ~Among(<<>>, f)
    BY DEF Among
  <2>3. <<>> \in Seq(K) /\ <<>> \in Seq(W)
    OBVIOUS
  <2> HIDE DEF B, G, K, W, F
  <2> QED BY <2>1, <2>2, <2>3, <2>4
<1>2. ASSUME NEW s \in Seq(W), NEW w \in W, s \in T
      PROVE  Append(s, w) \in T
  <2> DEFINE l == Append(s, w)
             g == w[1]
  <2>1. l \in Seq(W) /\ Len(s) \in Nat /\ DOMAIN s = 1..Len(s)
        /\ DOMAIN l = 1..(Len(s) + 1) /\ l[Len(s) + 1] = w
        /\ \A i \in 1..Len(s) : l[i] = s[i]
    BY LastAppended
  <2>2. SUFFICES ASSUME Once(l) PROVE Goal(l)
    BY <2>1
  <2> HIDE DEF l
  <2>3. \A i \in DOMAIN l : i = Len(s) + 1 \/ i \in DOMAIN s
    BY <2>1
  <2>4. Len(s) + 1 \in DOMAIN l /\ \A i \in DOMAIN s : i \in DOMAIN l
    BY <2>1
  <2>5. Once(s) /\ ~Among(s, g)
    <3>1. Once(s)
      BY <2>1, <2>2, <2>4 DEF Once
    <3>2. ASSUME NEW i \in DOMAIN s, s[i][1] = g PROVE FALSE
      <4>1. i = Len(s) + 1
        BY <2>1, <2>2, <2>4, <3>2 DEF Once
      <4> QED BY <2>1, <4>1
    <3> QED BY <3>1, <3>2 DEF Among
  <2>6. \A f : Among(l, f) <=> Among(s, f) \/ f = g
    BY <2>1, <2>3, <2>4 DEF Among
  <2>7. Goal(s)
    BY <1>2, <2>5
  <2>8. g \in F /\ B(l) = B(s) \o G(g)
    <3>1. PICK i \in DOMAIN table : w = table[i]
      OBVIOUS
    <3>2. g \in F
      BY <3>1 DEF WriterFits
    <3>3. WriteField(ty, m, w[2], w[1], w[3], nested) = G(g)
      BY <3>1, WriteFieldIs
    <3>4. B(Append(s, w)) =
            B(s) \o WriteField(ty, m, w[2], w[1], w[3], nested)
      <4> HIDE DEF W
      <4> QED BY WriteFieldsFold
    <3> QED BY <3>2, <3>3, <3>4 DEF l
  <2>9. G(g) \in Seq(K) /\ \A i \in DOMAIN G(g) : DeclaredFor(ty, g, G(g)[i])
    <3> HIDE DEF g
    <3> QED BY <2>8, FieldBytesType
  <2> HIDE DEF g, B, G, K
  <2>10. B(l) \in Seq(K)
    BY <2>7, <2>8, <2>9
  <2>11. ASSUME NEW f
         PROVE  Occurrences(ty, f, B(l))
                  = Occurrences(ty, f, B(s)) \o Occurrences(ty, f, G(g))
    BY <2>7, <2>8, <2>9, OccurrencesConcat
  <2>12. Occurrences(ty, g, G(g)) = G(g)
    <3>1. g # "unknown"
      BY <2>8, ClassesFit DEF ClassFits
    <3>2. AllOf(ty, g, G(g))
      BY <2>9, <3>1 DEF AllOf, IsOf
    <3> QED BY <2>9, <3>2, OccurrencesAll
  <2>13. ASSUME NEW f \in F, f # g PROVE Occurrences(ty, f, G(g)) = <<>>
    <3>1. f # "unknown"
      BY ClassesFit DEF ClassFits
    <3>2. \A i \in DOMAIN G(g) : ~DeclaredFor(ty, f, G(g)[i])
      BY <2>8, <2>9, <2>13, DeclaredOnce
    <3>3. NoneOf(ty, f, G(g))
      BY <3>1, <3>2 DEF NoneOf, IsOf
    <3> QED BY <2>9, <3>3, OccurrencesAll
  <2>14. Occurrences(ty, "unknown", G(g)) = <<>>
    <3>1. NoneOf(ty, "unknown", G(g))
      BY <2>8, <2>9 DEF NoneOf, IsOf, Declared
    <3> QED BY <2>9, <3>1, OccurrencesAll
  <2>15. \A f \in F : Occurrences(ty, f, B(l)) =
                        IF Among(l, f) THEN G(f) ELSE <<>>
    <3> SUFFICES ASSUME NEW f \in F
                 PROVE  Occurrences(ty, f, B(l)) =
                          IF Among(l, f) THEN G(f) ELSE <<>>
      OBVIOUS
    <3>1. CASE f = g
      <4>1. Occurrences(ty, f, B(s)) = <<>>
        BY <2>5, <2>7, <3>1
      <4>2. <<>> \o G(g) = G(g)
        BY <2>9
      <4> QED BY <2>6, <2>11, <2>12, <3>1, <4>1, <4>2
    <3>2. CASE f # g
      <4>1. Occurrences(ty, f, B(s)) \in Seq(K)
        BY <2>7, OccurrencesType
      <4>2. Occurrences(ty, f, B(s)) \o <<>> = Occurrences(ty, f, B(s))
        BY <4>1
      <4>3. Occurrences(ty, f, B(l)) = Occurrences(ty, f, B(s))
        BY <2>11, <2>13, <3>2, <4>2
      <4> QED BY <2>6, <2>7, <3>2, <4>3
    <3> QED BY <3>1, <3>2
  <2>16. Occurrences(ty, "unknown", B(l)) = <<>>
    BY <2>7, <2>11, <2>14
  <2> QED BY <2>10, <2>15, <2>16
<1>3. Seq(W) \subseteq T
  <2> HIDE DEF T, W
  <2> QED BY <1>1, <1>2, Writing!SeqSetInduction
<1> QED BY <1>3

(* The bytes of a message: each field's occurrences are what is written for  *)
(* it, and the unknown fields are kept.                                      *)
LEMMA MessageIsWritten ==
  ASSUME NEW ty \in Types, NEW table, WriterFits(Class[ty], table),
         NEW m, NEW nested, NEW A, Writable(ty, m, nested, A)
  PROVE  LET b == WriteFields(table, ty, m, nested)
         IN /\ b \in Seq(TokensOf(A))
            /\ \A f \in DOMAIN Class[ty] :
                 Occurrences(ty, f, b) = FieldBytes(ty, m, nested, f)
            /\ Occurrences(ty, "unknown", b) = m.unknown
<1> DEFINE b == Fields_(table, ty, m, nested)
           u == m.unknown
           K == TokensOf(A)
<1>1. WriteFields(table, ty, m, nested) = b \o u
  BY DEF WriteFields, Fields_
<1>2. /\ table \in Seq({table[i] : i \in DOMAIN table}) /\ Once(table)
      /\ \A f \in DOMAIN Class[ty] : Among(table, f)
  BY DEF WriterFits, Once, Among
<1>3. /\ b \in Seq(K)
      /\ \A f \in DOMAIN Class[ty] :
           Occurrences(ty, f, b) = FieldBytes(ty, m, nested, f)
      /\ Occurrences(ty, "unknown", b) = <<>>
  BY <1>2, PartIsWritten
<1>4. u \in Seq(K) /\ AreUnknown(ty, u)
  BY DEF Writable
<1>5. Occurrences(ty, "unknown", u) = u
  <2>1. AllOf(ty, "unknown", u)
    BY <1>4 DEF AllOf, IsOf, AreUnknown
  <2> QED BY <1>4, <2>1, OccurrencesAll
<1>6. ASSUME NEW f \in DOMAIN Class[ty]
      PROVE  Occurrences(ty, f, u) = <<>>
  <2>1. NoneOf(ty, f, u)
    BY <1>4, ClassesFit DEF NoneOf, IsOf, AreUnknown, Declared, ClassFits
  <2> QED BY <1>4, <2>1, OccurrencesAll
<1>7. \A f \in DOMAIN Class[ty] : FieldBytes(ty, m, nested, f) \in Seq(K)
  BY FieldBytesType
<1> HIDE DEF b, u, K
<1>8. \A f : Occurrences(ty, f, b \o u)
               = Occurrences(ty, f, b) \o Occurrences(ty, f, u)
  BY <1>3, <1>4, OccurrencesConcat
<1>9. b \o u \in Seq(K)
  BY <1>3, <1>4
<1>10. \A f \in DOMAIN Class[ty] :
         Occurrences(ty, f, b \o u) = FieldBytes(ty, m, nested, f)
  <2> SUFFICES ASSUME NEW f \in DOMAIN Class[ty]
               PROVE  Occurrences(ty, f, b \o u) = FieldBytes(ty, m, nested, f)
    OBVIOUS
  <2>1. ASSUME NEW x \in Seq(K) PROVE x \o <<>> = x
    OBVIOUS
  <2>2. Occurrences(ty, f, b \o u) = FieldBytes(ty, m, nested, f) \o <<>>
    BY <1>3, <1>6, <1>8
  <2> QED BY <1>7, <2>1, <2>2
<1>11. Occurrences(ty, "unknown", b \o u) = u
  <2>1. <<>> \o u = u
    BY <1>4
  <2> QED BY <1>3, <1>5, <1>8, <2>1
<1> QED BY <1>1, <1>9, <1>10, <1>11 DEF u, K

-----------------------------------------------------------------------------
(* The entry of a map is read as the key and the value it was written        *)
(* from.                                                                     *)
LEMMA EntryIsRead ==
  ASSUME NEW k \in 0..Word - 1, NEW v
  PROVE  ReadEntry(EntryBytes(k, v)) =
           [ok |-> Utf8(v), msg |-> [x \in {k} |-> v]]
<1> DEFINE b == EntryBytes(k, v)
           At(tag) == {i \in DOMAIN b : IsField(b[i]) /\ Tag(b[i]) = tag}
<1>1. /\ DOMAIN b = {1, 2} /\ b[1] = Varint(1, k) /\ b[2] = Delimited(2, v)
  BY DEF EntryBytes
<1>2. /\ b[1].wt = "varint" /\ b[1].num = 1 /\ b[1].n = k
      /\ b[2].wt = "delimited" /\ b[2].num = 2 /\ b[2].body = v
  BY <1>1 DEF Varint, Delimited
<1> HIDE DEF b
<1>3. Tag(b[1]) = 8 /\ Tag(b[2]) = 18 /\ IsField(b[1]) /\ IsField(b[2])
  BY <1>2 DEF Tag, WireType, IsField
<1>4. At(8) = {1} /\ At(18) = {2}
  BY <1>1, <1>3
<1>5. k \in Nat /\ Store("uint32", k) = k
  BY WidthsAssumption DEF Store
<1>6. EntryField(b, 8, 0) = k
  <2>1. (CHOOSE i \in At(8) : \A j \in At(8) : j <= i) = 1
    BY <1>4
  <2> QED BY <1>2, <1>4, <1>5, <2>1 DEF EntryField
<1>7. EntryField(b, 18, <<>>) = v
  <2>1. (CHOOSE i \in At(18) : \A j \in At(18) : j <= i) = 2
    BY <1>4
  <2> QED BY <1>2, <1>4, <2>1 DEF EntryField
<1>8. \A i \in DOMAIN b : b[i].wt \in {"varint", "delimited"}
  BY <1>1, <1>2
<1>9. ReadEntry(b) = [ok |-> Utf8(v), msg |-> [x \in {k} |-> v]]
  <2> DEFINE value == EntryField(b, 18, <<>>)
             whole == \A i \in DOMAIN b : b[i].wt \in {"varint", "delimited"}
  <2>1. ReadEntry(b) = [ok |-> whole /\ Utf8(value),
                        msg |-> [x \in {EntryField(b, 8, 0)} |-> value]]
    BY DEF ReadEntry
  <2>2. value = v /\ whole
    BY <1>7, <1>8
  <2> HIDE DEF value, whole
  <2>3. (whole /\ Utf8(value)) = Utf8(v)
    BY <2>2 DEF Utf8
  <2> QED BY <1>6, <2>1, <2>2, <2>3
<1> QED BY <1>9 DEF b

(* Merging maps is associative. *)
LEMMA MergeMapAssociates ==
  ASSUME NEW a, NEW b, NEW c
  PROVE  MergeMap(MergeMap(a, b), c) = MergeMap(a, MergeMap(b, c))
BY DEF MergeMap

(* No entries make the empty map. *)
LEMMA EntriesMeanEmpty == EntriesMean(<<>>) = <<>>
<1>1. DOMAIN <<>> = {}
  OBVIOUS
<1>2. DOMAIN EntriesMean(<<>>) = {}
  BY <1>1 DEF EntriesMean
<1>3. EntriesMean(<<>>)
        = [k \in DOMAIN EntriesMean(<<>>) |-> EntriesMean(<<>>)[k]]
  BY DEF EntriesMean
<1>4. ASSUME NEW s, DOMAIN s = {}, s = [i \in DOMAIN s |-> s[i]]
      PROVE  s = <<>>
  BY <1>4
<1> QED BY <1>2, <1>3, <1>4

(* More entries are merged into the map of those before. *)
LEMMA EntriesMeanConcat ==
  ASSUME NEW A, NEW es \in Seq(A), NEW ds \in Seq(A)
  PROVE  EntriesMean(es \o ds) = MergeMap(EntriesMean(es), EntriesMean(ds))
<1> DEFINE M(s) == EntriesMean(s)
           T == {s \in Seq(A) : M(es \o s) = MergeMap(M(es), M(s))}
<1>1. <<>> \in T
  <2>1. es \o <<>> = es /\ <<>> \in Seq(A)
    OBVIOUS
  <2>2. MergeMap(M(es), <<>>) = M(es)
    BY DEF MergeMap, EntriesMean
  <2> QED BY <2>1, <2>2, EntriesMeanEmpty
<1>2. ASSUME NEW s \in Seq(A), NEW x \in A, s \in T
      PROVE  Append(s, x) \in T
  <2>1. M(es \o s) = MergeMap(M(es), M(s))
    BY <1>2
  <2> HIDE DEF T, M
  <2>2. es \o s \in Seq(A) /\ es \o Append(s, x) = Append(es \o s, x)
    BY ConcatAppended
  <2>3. \A u \in Seq(A) : M(Append(u, x)) = MergeMap(M(u), x)
    BY EntriesMeanAppend DEF M
  <2>4. M(es \o Append(s, x)) = MergeMap(M(es), M(Append(s, x)))
    <3>1. M(Append(es \o s, x)) = MergeMap(MergeMap(M(es), M(s)), x)
      BY <2>1, <2>2, <2>3
    <3>2. M(Append(s, x)) = MergeMap(M(s), x)
      BY <2>3
    <3> QED BY <2>2, <3>1, <3>2, MergeMapAssociates
  <2> QED BY <2>4, LastAppended DEF T
<1>3. Seq(A) \subseteq T
  <2> HIDE DEF T
  <2> QED BY <1>1, <1>2, Keeping!SeqSetInduction
<1> QED BY <1>3

(* The entries that are written for a map mean the map. *)
LEMMA EntriesMeanMap ==
  ASSUME NEW v, v = [k \in DOMAIN v |-> v[k]], IsFiniteSet(DOMAIN v)
  PROVE  LET keys == SetToSeq(DOMAIN v)
         IN EntriesMean([i \in DOMAIN keys |->
                           [x \in {keys[i]} |-> v[keys[i]]]]) = v
<1> DEFINE keys == SetToSeq(DOMAIN v)
           es == [i \in DOMAIN keys |-> [x \in {keys[i]} |-> v[keys[i]]]]
<1>1. /\ keys \in Seq(DOMAIN v)
      /\ \A x \in DOMAIN v : \E i \in DOMAIN keys : keys[i] = x
  BY SetToSeqFacts
<1>2. \A i \in DOMAIN keys : keys[i] \in DOMAIN v
  BY <1>1
<1> HIDE DEF keys
<1>3. /\ DOMAIN es = DOMAIN keys
      /\ \A i \in DOMAIN es : DOMAIN es[i] = {keys[i]}
      /\ \A i \in DOMAIN es : es[i][keys[i]] = v[keys[i]]
  OBVIOUS
<1> HIDE DEF es
<1>4. UNION {DOMAIN es[i] : i \in DOMAIN es} = DOMAIN v
  <2>1. \A x : (\E i \in DOMAIN es : x \in DOMAIN es[i]) <=> x \in DOMAIN v
    BY <1>1, <1>2, <1>3
  <2> QED BY <2>1
<1>5. ASSUME NEW k \in DOMAIN v PROVE LastEntry(es, k) = v[k]
  <2> DEFINE has == {i \in DOMAIN es : k \in DOMAIN es[i]}
             last == CHOOSE i \in has : \A j \in has : j <= i
  <2>1. DOMAIN keys = 1..Len(keys) /\ Len(keys) \in Nat
    BY <1>1
  <2>2. has \in SUBSET (1..Len(keys)) /\ has # {}
    BY <1>1, <1>3, <2>1
  <2>3. \E i \in has : \A j \in has : j <= i
    <3> HIDE DEF has
    <3> QED BY <2>1, <2>2, Keeping!MaxExists
  <2>4. last \in has
    <3> HIDE DEF has
    <3> QED BY <2>3
  <2>5. last \in DOMAIN es /\ keys[last] = k
    <3> HIDE DEF last
    <3> QED BY <1>3, <2>4
  <2> QED BY <1>3, <2>5 DEF LastEntry
<1> QED BY <1>4, <1>5 DEF EntriesMean, es, keys

-----------------------------------------------------------------------------
(* What is written for a field is read as it is merged. *)
MergedField(T, into, v) ==
  IF T = "map" THEN MergeMap(into, v)
  ELSE IF T = "UserGroup*" THEN into \o v
  ELSE IF v = Default(T) THEN into ELSE v

(* A number comes back from its varint, a negative enum from its sign        *)
(* extension too.                                                            *)
LEMMA NumberIsStored ==
  ASSUME NEW T \in Numbers \cup {"bool"}, NEW v, NEW B, IsValue(T, v, B),
         v # Default(T), NEW num
  PROVE  Store(T, NumberToken(T, num, v).n) = v
<1>1. Word \in Nat /\ EnumWord \in Nat /\ Long \in Nat
      /\ EnumWord <= Long /\ Long % EnumWord = 0
      /\ Word # 0 /\ EnumWord # 0
  BY WidthsAssumption
<1>2. CASE T = "uint32"
  <2>1. v \in 0..Word - 1
    BY <1>2 DEF IsValue, Enums, Strings
  <2>2. v % Word = v
    BY <1>1, <2>1
  <2> QED BY <1>2, <2>2 DEF NumberToken, Varint, Store, Enums
<1>3. CASE T = "uint64"
  <2>1. v \in 0..Long - 1
    BY <1>3 DEF IsValue, Enums, Strings
  <2>2. v % Long = v
    BY <1>1, <2>1
  <2> QED BY <1>3, <2>2 DEF NumberToken, Varint, Store, Enums
<1>4. CASE T = "bool"
  <2>1. v = TRUE
    BY <1>4 DEF IsValue, Default, Numbers, Enums, Strings
  <2>2. NumberToken(T, num, v).n = 1
    BY <1>4 DEF NumberToken, Varint
  <2>3. Store("bool", 1) = (1 # 0)
    BY DEF Store
  <2>4. (1 # 0) = TRUE
    OBVIOUS
  <2>5. Store(T, NumberToken(T, num, v).n) = (1 # 0)
    BY <1>4, <2>2, <2>3
  <2> QED BY <2>1, <2>4, <2>5
<1>5. CASE T \in Enums
  <2>1. v \in 0..EnumWord - 1
    BY <1>5 DEF IsValue, Enums, Strings
  <2>2. SignExtend(v) % EnumWord = v
    <3>1. v % EnumWord = v
      BY <1>1, <2>1
    <3> DEFINE q == Long \div EnumWord
    <3>2. q \in Int /\ Long = EnumWord * q
      BY <1>1
    <3>3. (v + (Long - EnumWord)) = EnumWord * (q - 1) + v
      BY <1>1, <2>1, <3>2
    <3>4. (EnumWord * (q - 1) + v) % EnumWord = v
      <4> DEFINE p == q - 1
      <4>1. p \in Int
        BY <3>2
      <4> HIDE DEF p
      <4>2. (EnumWord * p + v) % EnumWord = v
        BY <1>1, <2>1, <4>1
      <4> QED BY <4>2 DEF p
    <3> QED BY <3>1, <3>3, <3>4 DEF SignExtend
  <2> QED BY <1>5, <2>2 DEF NumberToken, Varint, Store, Enums
<1> QED BY <1>2, <1>3, <1>4, <1>5 DEF Numbers

(* A sequence that begins as one and goes on as another concatenates them. *)
LEMMA ConcatIs ==
  ASSUME NEW A, NEW s \in Seq(A), NEW t \in Seq(A), NEW w,
         DOMAIN w = 1..(Len(s) + Len(t)), w = [i \in DOMAIN w |-> w[i]],
         \A i \in 1..Len(s) : w[i] = s[i],
         \A i \in 1..Len(t) : w[Len(s) + i] = t[i]
  PROVE  w = s \o t
<1>1. Len(s) \in Nat /\ Len(t) \in Nat
  OBVIOUS
<1>2. s \o t \in Seq(A) /\ DOMAIN (s \o t) = 1..(Len(s) + Len(t))
      /\ \A i \in 1..(Len(s) + Len(t)) :
           (s \o t)[i] = IF i <= Len(s) THEN s[i] ELSE t[i - Len(s)]
  OBVIOUS
<1>3. ASSUME NEW i \in 1..(Len(s) + Len(t)) PROVE w[i] = (s \o t)[i]
  <2>1. CASE i <= Len(s)
    BY <1>1, <1>2, <2>1
  <2>2. CASE ~(i <= Len(s))
    <3>1. i - Len(s) \in 1..Len(t) /\ Len(s) + (i - Len(s)) = i
      BY <1>1, <2>2
    <3>2. w[Len(s) + (i - Len(s))] = t[i - Len(s)]
      BY <3>1
    <3> QED BY <1>2, <2>2, <3>1, <3>2
  <2> QED BY <2>1, <2>2
<1>4. s \o t = [i \in 1..(Len(s) + Len(t)) |-> (s \o t)[i]]
  <2> DEFINE u == s \o t
  <2>1. u \in Seq(A) /\ DOMAIN u = 1..(Len(s) + Len(t))
    BY <1>2
  <2> HIDE DEF u
  <2>2. u = [i \in DOMAIN u |-> u[i]]
    BY <2>1
  <2> QED BY <2>1, <2>2 DEF u
<1> QED BY <1>3, <1>4

(* The groups that are written for a field are what their bodies mean. *)
GroupsAreGiven(ty, m, nested, f, group) ==
  FieldType(ty, f) = "UserGroup*" =>
    \A i \in DOMAIN m[f] : group[nested[m[f][i]]] = m[f][i]

(* What a serialiser writes for a field, read after other bytes, merges      *)
(* the field's value into what those meant.                                  *)
LEMMA ValueMerges ==
  ASSUME NEW ty \in Types, NEW m, NEW nested, NEW A,
         Writable(ty, m, nested, A), NEW f \in DOMAIN Class[ty],
         NEW C, IsValue(FieldType(ty, f), m[f], C),
         NEW group, GroupsAreGiven(ty, m, nested, f, group),
         NEW B, NEW ts, ts \in Seq(B)
  PROVE  ValueOf(FieldType(ty, f), ts \o FieldBytes(ty, m, nested, f), group)
           = MergedField(FieldType(ty, f),
                         ValueOf(FieldType(ty, f), ts, group), m[f])
<1> DEFINE T == FieldType(ty, f)
           num == Class[ty][f][1]
           v == m[f]
           bs == FieldBytes(ty, m, nested, f)
           ws == ts \o bs
           K == TokensOf(A)
<1>1. T \in FieldTypes
  BY ClassesFit DEF ClassFits, FieldType
<1>2. bs \in Seq(K)
  BY FieldBytesType
<1>3. /\ Len(ts) \in Nat /\ DOMAIN ts = 1..Len(ts)
      /\ Len(bs) \in Nat /\ DOMAIN bs = 1..Len(bs)
      /\ DOMAIN ws = 1..(Len(ts) + Len(bs))
      /\ \A i \in 1..Len(ts) : ws[i] = ts[i]
      /\ \A i \in 1..Len(bs) : ws[Len(ts) + i] = bs[i]
  <2> HIDE DEF bs, K
  <2> QED BY <1>2
<1> HIDE DEF ws
<1>4. CASE T = "UserGroup*"
  <2>1. bs = [i \in DOMAIN v |-> Delimited(num, nested[v[i]])]
    BY <1>4 DEF FieldBytes
  <2>2. v \in Seq(DOMAIN nested)
    BY <1>4 DEF Writable
  <2>3. DOMAIN v = 1..Len(v) /\ Len(v) \in Nat /\ Len(bs) = Len(v)
    BY <1>3, <2>1, <2>2
  <2>4. \A i \in DOMAIN bs : group[bs[i].body] = v[i]
    BY <1>4, <2>1 DEF Delimited, GroupsAreGiven
  <2> HIDE DEF bs, v
  <2> DEFINE s == [i \in DOMAIN ts |-> group[ts[i].body]]
             w == [i \in DOMAIN ws |-> group[ws[i].body]]
  <2>5. w = s \o v
    <3> DEFINE D == {s[i] : i \in DOMAIN ts} \cup {v[i] : i \in DOMAIN v}
    <3>1. s \in Seq(D) /\ Len(s) = Len(ts)
      BY <1>3
    <3>2. v \in Seq(D)
      BY <2>2, <2>3
    <3>3. DOMAIN w = 1..(Len(ts) + Len(v))
          /\ \A i \in 1..Len(ts) : w[i] = s[i]
      BY <1>3, <2>3
    <3>4. ASSUME NEW i \in 1..Len(v) PROVE w[Len(ts) + i] = v[i]
      <4>1. Len(ts) + i \in DOMAIN ws /\ ws[Len(ts) + i] = bs[i]
        BY <1>3, <2>3
      <4> QED BY <4>1, <2>3, <2>4
    <3>5. w = [i \in DOMAIN w |-> w[i]]
      OBVIOUS
    <3> HIDE DEF w, s, D
    <3>7. DOMAIN w = 1..(Len(s) + Len(v))
          /\ (\A i \in 1..Len(s) : w[i] = s[i])
          /\ (\A i \in 1..Len(v) : w[Len(s) + i] = v[i])
      BY <3>1, <3>3, <3>4
    <3> QED BY ONLY <3>1, <3>2, <3>5, <3>7, ConcatIs
  <2>6. ValueOf(T, ws, group) = w /\ ValueOf(T, ts, group) = s
    BY <1>4 DEF ValueOf
  <2> QED BY <1>4, <2>5, <2>6 DEF MergedField, ws, bs, v
<1>5. CASE T = "map"
  <2> DEFINE keys == SetToSeq(DOMAIN v)
             s == [i \in DOMAIN ts |-> ReadEntry(ts[i].body).msg]
             w == [i \in DOMAIN ws |-> ReadEntry(ws[i].body).msg]
             d == [i \in DOMAIN keys |-> [x \in {keys[i]} |-> v[keys[i]]]]
             E == {s[i] : i \in DOMAIN ts} \cup {d[i] : i \in DOMAIN keys}
  <2>1. IsMap(v, C)
    BY <1>5 DEF IsValue, Numbers, Enums, Strings
  <2>2. keys \in Seq(DOMAIN v) /\ IsFiniteSet(DOMAIN v)
        /\ v = [k \in DOMAIN v |-> v[k]]
        /\ \A k \in DOMAIN v : k \in 0..Word - 1
    <3>1. IsFiniteSet(DOMAIN v)
      BY <2>1 DEF IsMap
    <3> HIDE DEF v
    <3> QED BY <2>1, <3>1, SetToSeqFacts DEF IsMap
  <2>3. bs = [i \in DOMAIN keys |->
                Delimited(num, EntryBytes(keys[i], v[keys[i]]))]
    BY <1>5 DEF FieldBytes, WriteEntries
  <2> HIDE DEF keys, v, bs
  <2>4. DOMAIN keys = 1..Len(keys) /\ Len(keys) \in Nat
        /\ Len(bs) = Len(keys) /\ \A i \in DOMAIN keys : keys[i] \in DOMAIN v
    BY <1>3, <2>2, <2>3
  <2>5. \A i \in DOMAIN keys : ReadEntry(bs[i].body).msg = d[i]
    <3> SUFFICES ASSUME NEW i \in DOMAIN keys
                 PROVE  ReadEntry(bs[i].body).msg = d[i]
      OBVIOUS
    <3>1. bs[i].body = EntryBytes(keys[i], v[keys[i]])
      BY <2>3 DEF Delimited
    <3>2. keys[i] \in 0..Word - 1
      BY <2>2, <2>4
    <3>3. ReadEntry(EntryBytes(keys[i], v[keys[i]])) =
            [ok |-> Utf8(v[keys[i]]), msg |-> [x \in {keys[i]} |-> v[keys[i]]]]
      BY <3>2, EntryIsRead
    <3> QED BY <3>1, <3>3
  <2>6. w = s \o d
    <3>1. s \in Seq(E) /\ Len(s) = Len(ts)
      BY <1>3
    <3>2. d \in Seq(E) /\ Len(d) = Len(keys)
      BY <2>4
    <3>3. DOMAIN w = 1..(Len(ts) + Len(keys))
          /\ \A i \in 1..Len(ts) : w[i] = s[i]
      BY <1>3, <2>4
    <3>4. ASSUME NEW i \in 1..Len(keys) PROVE w[Len(ts) + i] = d[i]
      <4>1. Len(ts) + i \in DOMAIN ws /\ ws[Len(ts) + i] = bs[i]
        BY <1>3, <2>4
      <4> HIDE DEF d
      <4> QED BY <4>1, <2>4, <2>5
    <3>5. w = [i \in DOMAIN w |-> w[i]]
      OBVIOUS
    <3> HIDE DEF w, s, E, d
    <3>6. Len(d) = Len(keys)
      BY <3>2
    <3>7. DOMAIN w = 1..(Len(s) + Len(d))
          /\ (\A i \in 1..Len(s) : w[i] = s[i])
          /\ (\A i \in 1..Len(d) : w[Len(s) + i] = d[i])
      BY <3>1, <3>3, <3>4, <3>6
    <3> QED BY ONLY <3>1, <3>2, <3>5, <3>7, ConcatIs
  <2>7. EntriesMean(s \o d) = MergeMap(EntriesMean(s), EntriesMean(d))
    <3>1. s \in Seq(E)
      BY <1>3
    <3>2. d \in Seq(E)
      BY <2>4
    <3> HIDE DEF s, d, E
    <3> QED BY <3>1, <3>2, EntriesMeanConcat
  <2>8. EntriesMean(d) = v
    BY <2>2, EntriesMeanMap DEF keys
  <2>9. ValueOf(T, ws, group) = EntriesMean(w)
        /\ ValueOf(T, ts, group) = EntriesMean(s)
    BY <1>5 DEF ValueOf
  <2> QED BY <1>5, <2>6, <2>7, <2>8, <2>9 DEF MergedField, ws, bs, v
<1>6. CASE T \notin {"UserGroup*", "map"} /\ v = Default(T)
  <2>1. bs = <<>>
    BY <1>6 DEF FieldBytes
  <2>2. ws = ts
    BY <2>1 DEF ws
  <2> QED BY <1>6, <2>2 DEF MergedField, ws
<1>7. ASSUME NEW t, bs = <<t>>, T \notin {"UserGroup*", "map"}
      PROVE  ValueOf(T, ws, group) =
               IF T \in Strings THEN t.body ELSE Store(T, t.n)
  <2>1. Len(bs) = 1 /\ bs[1] = t
    BY <1>7
  <2> HIDE DEF bs
  <2>2. DOMAIN ws = 1..(Len(ts) + 1) /\ ws[Len(ts) + 1] = t
    BY <1>3, <2>1
  <2>3. ws \in Seq(B \cup K) /\ Len(ws) = Len(ts) + 1
    BY <1>2, <1>3, <2>1 DEF ws
  <2>4. ws # <<>> /\ Last(ws) = t
    BY <1>3, <2>2, <2>3 DEF Last
  <2> QED BY <1>7, <2>4 DEF ValueOf
<1>8. CASE T \in Strings /\ v # Default(T)
  <2>1. bs = <<Delimited(num, v)>>
    BY <1>8 DEF FieldBytes, Strings
  <2>2. Delimited(num, v).body = v
    BY DEF Delimited
  <2> HIDE DEF bs
  <2> QED BY <1>7, <1>8, <2>1, <2>2 DEF MergedField, ws, bs, Strings
<1>9. CASE T \in Numbers \cup {"bool"} /\ v # Default(T)
  <2>1. bs = <<NumberToken(T, num, v)>>
    BY <1>9 DEF FieldBytes, Strings, Numbers, Enums
  <2>2. Store(T, NumberToken(T, num, v).n) = v
    <3> HIDE DEF T, v, num
    <3> QED BY <1>9, NumberIsStored DEF T, v
  <2> HIDE DEF bs
  <2> QED BY <1>7, <1>9, <2>1, <2>2
    DEF MergedField, ws, bs, Strings, Numbers, Enums
<1> QED BY <1>1, <1>4, <1>5, <1>6, <1>8, <1>9
  DEF FieldTypes, Scalars, Numbers, ws

-----------------------------------------------------------------------------
(* The meaning of bytes depends on the groups for the bodies in them only. *)
LEMMA GroupsAgree ==
  ASSUME NEW ty, NEW A, NEW b \in Seq(A), NEW g, NEW h,
         \A i \in DOMAIN b : g[b[i].body] = h[b[i].body]
  PROVE  MeaningOf(ty, b, g) = MeaningOf(ty, b, h)
<1>1. ASSUME NEW f \in Fields(ty)
      PROVE  ValueOf(FieldType(ty, f), Occurrences(ty, f, b), g)
               = ValueOf(FieldType(ty, f), Occurrences(ty, f, b), h)
  <2> DEFINE ts == Occurrences(ty, f, b)
             T == FieldType(ty, f)
  <2>1. ASSUME NEW i \in DOMAIN ts PROVE g[ts[i].body] = h[ts[i].body]
    <3>1. \A x : (\E j \in DOMAIN ts : ts[j] = x)
                    <=> IsOf(ty, f, x) /\ \E j \in DOMAIN b : b[j] = x
      BY OccurrencesElements
    <3> HIDE DEF ts
    <3>2. \E j \in DOMAIN b : b[j] = ts[i]
      BY <3>1
    <3> QED BY <3>2
  <2> HIDE DEF ts, T
  <2>2. ValueOf(T, ts, g) = ValueOf(T, ts, h)
    BY <2>1 DEF ValueOf
  <2> QED BY <2>2 DEF ts, T
<1> QED BY <1>1 DEF MeaningOf

(* Tokens that are written have numbers. *)
LEMMA NumbersWithin ==
  ASSUME NEW A PROVE \A t \in TokensOf(A) : t.n \in Nat
BY DEF TokensOf

(* Tokens that hold less are among those that hold more. *)
LEMMA TokensOfEach ==
  ASSUME NEW A, NEW B, A \subseteq B
  PROVE  TokensOf(A) \subseteq TokensOf(B)
<1>1. Seq(A) \subseteq Seq(B)
  OBVIOUS
<1> QED BY <1>1 DEF TokensOf

(* The tables of both serialisers fit the classes. *)
LEMMA WritersFit ==
  \A w \in Serializers, ty \in Types : WriterFits(Class[ty], w[ty])
BY SerializeWithCachedSizesFits, SerializeToArrayFits DEF Serializers

(* The fields of a message, and the one that is not declared. *)
LEMMA TypesOfFields ==
  \A ty \in Types :
    /\ "unknown" \notin DOMAIN Class[ty]
    /\ \A f \in DOMAIN Class[ty] : FieldType(ty, f) \in FieldTypes
BY ClassesFit DEF ClassFits, FieldType

(* A value merged into the default is the value. *)
LEMMA MergedEmpty ==
  ASSUME NEW T \in FieldTypes, NEW v, NEW B, IsValue(T, v, B)
  PROVE  MergedField(T, Default(T), v) = v
<1>1. CASE T = "map"
  <2>1. v = [k \in DOMAIN v |-> v[k]]
    BY <1>1 DEF IsValue, IsMap, Numbers, Enums, Strings
  <2>2. Default(T) = <<>>
    BY <1>1 DEF Default, Numbers, Enums
  <2>3. MergeMap(<<>>, v) = [k \in DOMAIN v |-> v[k]]
    <3>1. DOMAIN <<>> = {}
      OBVIOUS
    <3>2. DOMAIN <<>> \cup DOMAIN v = DOMAIN v
      BY <3>1
    <3> QED BY <3>2 DEF MergeMap
  <2> QED BY <1>1, <2>1, <2>2, <2>3 DEF MergedField
<1>2. CASE T = "UserGroup*"
  <2>1. v \in Seq(GroupMessages(B))
    BY <1>2 DEF IsValue, Numbers, Enums, Strings
  <2>2. Default(T) = <<>>
    BY <1>2 DEF Default, Numbers, Enums
  <2>3. <<>> \o v = v
    BY <2>1
  <2> QED BY <1>2, <2>2, <2>3 DEF MergedField
<1>3. CASE T \notin {"map", "UserGroup*"}
  BY <1>3 DEF MergedField
<1> QED BY <1>1, <1>2, <1>3

-----------------------------------------------------------------------------
(* A group can be written. *)
LEMMA GroupIsWritable ==
  ASSUME NEW B, \A t \in B : t.n \in Nat, NEW g \in GroupMessages(B)
  PROVE  Writable("UserGroup", g, <<>>, B)
<1> DEFINE ty == "UserGroup"
<1>1. /\ DOMAIN Class[ty] = {"userGroupType", "userGroupId"}
      /\ \A f \in DOMAIN Class[ty] : FieldType(ty, f) = "uint64"
  BY UserGroupClass
<1>2. /\ g.userGroupType \in 0..Long - 1 /\ g.userGroupId \in 0..Long - 1
      /\ g.unknown \in Seq(TokensOf(B)) /\ AreUnknown(ty, g.unknown)
  BY DEF GroupMessages
<1> HIDE DEF ty
<1>3. Long \in Nat
  BY WidthsAssumption
<1>4. \A f \in DOMAIN Class[ty] : g[f] \in Nat
  BY <1>1, <1>2, <1>3
<1>5. Writable(ty, g, <<>>, B)
  BY <1>1, <1>2, <1>4 DEF Writable, Strings
<1> QED BY <1>5 DEF ty

(* A group is written so that it is read back. *)
LEMMA GroupIsWritten ==
  ASSUME NEW w \in Serializers, NEW B, \A t \in B : t.n \in Nat,
         NEW g \in GroupMessages(B)
  PROVE  LET b == WriteFields(w["UserGroup"], "UserGroup", g, <<>>)
         IN /\ b \in Seq(TokensOf(B))
            /\ Plain(b)
            /\ MeaningOf("UserGroup", b, <<>>) = g
<1> DEFINE ty == "UserGroup"
           b == WriteFields(w[ty], ty, g, <<>>)
<1>1. /\ ty \in Types /\ DOMAIN Class[ty] = {"userGroupType", "userGroupId"}
      /\ \A f \in DOMAIN Class[ty] : FieldType(ty, f) = "uint64"
      /\ WriterFits(Class[ty], w[ty])
  BY UserGroupClass, WritersFit
<1>2. /\ g = [userGroupType |-> g.userGroupType,
              userGroupId |-> g.userGroupId, unknown |-> g.unknown]
      /\ g.userGroupType \in 0..Long - 1 /\ g.userGroupId \in 0..Long - 1
      /\ g.unknown \in Seq(TokensOf(B)) /\ AreUnknown(ty, g.unknown)
  BY DEF GroupMessages
<1> HIDE DEF ty
<1>3. \A f \in DOMAIN Class[ty] : IsValue("uint64", g[f], B)
  BY <1>1, <1>2 DEF IsValue, Enums, Strings
<1>4. Writable(ty, g, <<>>, B)
  BY GroupIsWritable DEF ty
<1>5. /\ b \in Seq(TokensOf(B))
      /\ \A f \in DOMAIN Class[ty] :
           Occurrences(ty, f, b) = FieldBytes(ty, g, <<>>, f)
      /\ Occurrences(ty, "unknown", b) = g.unknown
  BY <1>1, <1>4, MessageIsWritten
<1> HIDE DEF b
<1>6. Plain(b)
  <2> SUFFICES ASSUME NEW i \in DOMAIN b
               PROVE  b[i].wt \in {"varint", "delimited"}
    BY DEF Plain
  <2>1. CASE Declared(ty, b[i])
    BY <2>1 DEF Declared, DeclaredFor
  <2>2. CASE ~Declared(ty, b[i])
    <3>1. IsOf(ty, "unknown", b[i])
      BY <2>2 DEF IsOf
    <3>2. PICK j \in DOMAIN g.unknown : g.unknown[j] = b[i]
      BY <1>5, <3>1, OccurrencesElements
    <3> QED BY <1>2, <3>2 DEF AreUnknown, Plain
  <2> QED BY <2>1, <2>2
<1>7. ASSUME NEW f \in DOMAIN Class[ty]
      PROVE  ValueOf("uint64", Occurrences(ty, f, b), <<>>) = g[f]
  <2>1. /\ FieldType(ty, f) = "uint64"
        /\ IsValue(FieldType(ty, f), g[f], B)
        /\ <<>> \in Seq(B)
    BY <1>1, <1>3
  <2>2. ValueOf("uint64", <<>> \o FieldBytes(ty, g, <<>>, f), <<>>)
          = MergedField("uint64", ValueOf("uint64", <<>>, <<>>), g[f])
    <3>1. PICK e : e = <<>>
      OBVIOUS
    <3>2. e \in Seq(B) /\ Writable(ty, g, e, B)
      BY <1>4, <2>1, <3>1
    <3>3. GroupsAreGiven(ty, g, e, f, e)
      BY <2>1 DEF GroupsAreGiven
    <3>4. ValueOf(FieldType(ty, f), e \o FieldBytes(ty, g, e, f), e)
            = MergedField(FieldType(ty, f), ValueOf(FieldType(ty, f), e, e),
                          g[f])
      BY ONLY <1>1, <2>1, <3>2, <3>3, ValueMerges
    <3> QED BY <2>1, <3>1, <3>4
  <2>3. <<>> \o FieldBytes(ty, g, <<>>, f) = FieldBytes(ty, g, <<>>, f)
    BY <1>1, <1>4, FieldBytesType
  <2>4. MergedField("uint64", Default("uint64"), g[f]) = g[f]
    BY <1>3, MergedEmpty DEF FieldTypes, Scalars
  <2> QED BY <1>5, <2>2, <2>3, <2>4, ValueEmpty
<1>8. MeaningOf(ty, b, <<>>) = g
  <2>1. Fields(ty) = {"userGroupType", "userGroupId", "unknown"}
    BY <1>1 DEF Fields
  <2>2. MeaningOf(ty, b, <<>>) =
          [f \in Fields(ty) |->
             IF f = "unknown" THEN Occurrences(ty, f, b)
             ELSE ValueOf(FieldType(ty, f), Occurrences(ty, f, b), <<>>)]
    BY DEF MeaningOf
  <2>3. \A f \in Fields(ty) : MeaningOf(ty, b, <<>>)[f] = g[f]
    BY <1>1, <1>5, <1>7, <2>1, <2>2
  <2>4. DOMAIN MeaningOf(ty, b, <<>>) = Fields(ty)
        /\ MeaningOf(ty, b, <<>>)
             = [f \in Fields(ty) |-> MeaningOf(ty, b, <<>>)[f]]
    BY <2>2
  <2>5. g = [f \in Fields(ty) |-> g[f]]
    BY <1>2, <2>1
  <2> QED BY <2>3, <2>4, <2>5
<1> QED BY <1>5, <1>6, <1>8 DEF b, ty

(* A message can be written by any serialiser. *)
LEMMA GroupsOfMessage ==
  ASSUME NEW ty \in Types, NEW B, NEW m, IsMessageOver(ty, m, B),
         NEW f \in DOMAIN Class[ty], FieldType(ty, f) = "UserGroup*"
  PROVE  /\ m[f] \in Seq(GroupMessages(B))
         /\ m[f] \in Seq(Groups(ty, m))
<1>1. m[f] \in Seq(GroupMessages(B))
  BY DEF IsMessageOver, IsValue, Numbers, Enums, Strings
<1>2. \A i \in DOMAIN m[f] : m[f][i] \in Groups(ty, m)
  BY DEF Groups, ToSet
<1>3. Len(m[f]) \in Nat /\ m[f] \in [1..Len(m[f]) -> GroupMessages(B)]
  BY <1>1
<1> QED BY <1>1, <1>2, <1>3

(* The groups within a message are messages of their own. *)
LEMMA GroupsAreGroups ==
  ASSUME NEW ty \in Types, NEW B, NEW m, IsMessageOver(ty, m, B)
  PROVE  Groups(ty, m) \subseteq GroupMessages(B)
<1> SUFFICES ASSUME NEW g \in Groups(ty, m) PROVE g \in GroupMessages(B)
  OBVIOUS
<1>1. PICK f \in DOMAIN Class[ty] :
        FieldType(ty, f) = "UserGroup*" /\ g \in ToSet(m[f])
  BY DEF Groups
<1>2. m[f] \in Seq(GroupMessages(B))
  BY <1>1, GroupsOfMessage
<1> QED BY <1>1, <1>2 DEF ToSet

(* Every message can be written. *)
LEMMA MessagesAreWritable ==
  ASSUME NEW w \in Serializers, NEW ty \in Types, NEW B,
         \A t \in B : t.n \in Nat, NEW m, IsMessageOver(ty, m, B)
  PROVE  Writable(ty, m, WriteGroups(w, ty, m), TokensOf(B))
<1> DEFINE nested == WriteGroups(w, ty, m)
           A == TokensOf(B)
<1>1. \A t \in A : t.n \in Nat
  BY NumbersWithin
<1>2. m.unknown \in Seq(TokensOf(A)) /\ AreUnknown(ty, m.unknown)
  BY DEF IsMessageOver
<1>3. DOMAIN nested = Groups(ty, m)
      /\ \A g \in Groups(ty, m) : nested[g] \in Seq(A)
  <2>1. nested = [g \in Groups(ty, m) |->
                    WriteFields(w["UserGroup"], "UserGroup", g, <<>>)]
    BY DEF WriteGroups
  <2>2. \A g \in Groups(ty, m) :
          WriteFields(w["UserGroup"], "UserGroup", g, <<>>) \in Seq(A)
    BY GroupsAreGroups, GroupIsWritten
  <2> HIDE DEF nested, A
  <2> QED BY <2>1, <2>2
<1> HIDE DEF nested, A
<1>4. ASSUME NEW f \in DOMAIN Class[ty]
      PROVE  LET T == FieldType(ty, f)
             IN /\ T = "UserGroup*" =>
                     /\ m[f] \in Seq(DOMAIN nested)
                     /\ \A i \in DOMAIN m[f] : nested[m[f][i]] \in Seq(A)
                /\ T = "map" =>
                     /\ IsFiniteSet(DOMAIN m[f])
                     /\ \A k \in DOMAIN m[f] :
                          EntryBytes(k, m[f][k]) \in Seq(A)
                /\ T \in Strings => m[f] \in Seq(A)
                /\ T \in Numbers => m[f] \in Nat
  <2> DEFINE T == FieldType(ty, f)
  <2>1. IsValue(T, m[f], B)
    BY DEF IsMessageOver
  <2>2. ASSUME T = "UserGroup*"
        PROVE  /\ m[f] \in Seq(DOMAIN nested)
               /\ \A i \in DOMAIN m[f] : nested[m[f][i]] \in Seq(A)
    <3>1. m[f] \in Seq(Groups(ty, m))
      BY <2>2, GroupsOfMessage
    <3>2. \A i \in DOMAIN m[f] : m[f][i] \in Groups(ty, m)
      BY <3>1
    <3> QED BY <1>3, <3>1, <3>2
  <2>3. ASSUME T = "map"
        PROVE  /\ IsFiniteSet(DOMAIN m[f])
               /\ \A k \in DOMAIN m[f] : EntryBytes(k, m[f][k]) \in Seq(A)
    <3>1. IsMap(m[f], B)
      BY <2>1, <2>3 DEF IsValue, Numbers, Enums, Strings
    <3>2. ASSUME NEW k \in DOMAIN m[f]
          PROVE  EntryBytes(k, m[f][k]) \in Seq(A)
      <4>1. k \in 0..Word - 1 /\ m[f][k] \in Seq(B)
        BY <3>1 DEF IsMap
      <4>2. k \in Nat
        BY <4>1, WidthsAssumption
      <4> DEFINE x == Varint(1, k)
                 y == Delimited(2, m[f][k])
      <4>3. x \in A
        BY <4>2, VarintType DEF A
      <4>4. y \in A
        BY <4>1, DelimitedType DEF A
      <4> HIDE DEF x, y
      <4>5. <<x, y>> \in Seq(A)
        BY <4>3, <4>4
      <4> QED BY <4>5 DEF EntryBytes, x, y
    <3> QED BY <3>1, <3>2 DEF IsMap
  <2>4. ASSUME T \in Strings PROVE m[f] \in Seq(A)
    BY <2>1, <2>4 DEF IsValue, Numbers, Enums, Strings, A
  <2>5. ASSUME T \in Numbers PROVE m[f] \in Nat
    <3>1. Word \in Nat /\ EnumWord \in Nat /\ Long \in Nat
      BY WidthsAssumption
    <3>2. \/ m[f] \in 0..Word - 1 \/ m[f] \in 0..Long - 1
          \/ m[f] \in 0..EnumWord - 1
      BY <2>1, <2>5 DEF IsValue, Numbers, Enums, Strings
    <3> QED BY <3>1, <3>2
  <2> QED BY <2>2, <2>3, <2>4, <2>5
<1> QED BY <1>1, <1>2, <1>4 DEF Writable, nested, A

-----------------------------------------------------------------------------
(* Merging, field by field. *)
LEMMA MergeFromIs ==
  ASSUME NEW ty \in Types, NEW into, DOMAIN into = Fields(ty), NEW from
  PROVE  /\ DOMAIN MergeFrom(ty, into, from) = Fields(ty)
         /\ MergeFrom(ty, into, from)
              = [f \in Fields(ty) |-> MergeFrom(ty, into, from)[f]]
         /\ \A f \in Fields(ty) : MergeFrom(ty, into, from)[f] =
              IF f = "unknown" THEN into[f] \o from[f]
              ELSE MergedField(FieldType(ty, f), into[f], from[f])
<1>1. ASSUME NEW f \in Fields(ty), f # "unknown"
      PROVE  (IF Merges[ty][f] = "merge"
                THEN MergeValue(FieldType(ty, f), into[f], from[f])
              ELSE IF IsDefault(ty, from, f) THEN into[f] ELSE from[f])
               = MergedField(FieldType(ty, f), into[f], from[f])
  <2>1. f \in DOMAIN Class[ty]
    BY <1>1 DEF Fields
  <2>2. Merges[ty][f] =
          IF FieldType(ty, f) \in {"map", "UserGroup*"} THEN "merge"
          ELSE "assign"
    BY <2>1, MergesFit DEF MergeFits, FieldType
  <2> DEFINE T == FieldType(ty, f)
  <2>3. IsDefault(ty, from, f) <=> from[f] = Default(T)
    BY DEF IsDefault
  <2> HIDE DEF T
  <2>4. CASE T \in {"map", "UserGroup*"}
    BY <2>2, <2>4 DEF MergeValue, MergedField, T
  <2>5. CASE T \notin {"map", "UserGroup*"}
    BY <2>2, <2>3, <2>5 DEF MergedField, T
  <2> QED BY <2>4, <2>5
<1> QED BY <1>1 DEF MergeFrom

(* A message merged into a new one is the message. *)
LEMMA MergeNew ==
  ASSUME NEW ty \in Types, NEW B, NEW m, IsMessageOver(ty, m, B)
  PROVE  MergeFrom(ty, New(ty), m) = m
<1>1. DOMAIN New(ty) = Fields(ty) /\ New(ty).unknown = <<>>
      /\ \A f \in DOMAIN Class[ty] : New(ty)[f] = Default(FieldType(ty, f))
  BY TypesOfFields DEF New, Fields
<1>2. ASSUME NEW f \in Fields(ty)
      PROVE  MergeFrom(ty, New(ty), m)[f] = m[f]
  <2>1. MergeFrom(ty, New(ty), m)[f] =
          IF f = "unknown" THEN New(ty)[f] \o m[f]
          ELSE MergedField(FieldType(ty, f), New(ty)[f], m[f])
    BY <1>1, MergeFromIs
  <2>2. CASE f = "unknown"
    <3>1. m.unknown \in Seq(TokensOf(TokensOf(B)))
      BY DEF IsMessageOver
    <3>2. <<>> \o m.unknown = m.unknown
      BY <3>1
    <3> QED BY <1>1, <2>1, <2>2, <3>2
  <2>3. CASE f # "unknown"
    <3>1. f \in DOMAIN Class[ty] /\ FieldType(ty, f) \in FieldTypes
      BY <2>3, TypesOfFields DEF Fields
    <3>2. IsValue(FieldType(ty, f), m[f], B)
      BY <3>1 DEF IsMessageOver
    <3>3. MergedField(FieldType(ty, f), Default(FieldType(ty, f)), m[f]) = m[f]
      BY <3>1, <3>2, MergedEmpty
    <3> QED BY <1>1, <2>1, <2>3, <3>1, <3>3
  <2> QED BY <2>2, <2>3
<1>3. DOMAIN MergeFrom(ty, New(ty), m) = Fields(ty)
      /\ MergeFrom(ty, New(ty), m)
           = [f \in Fields(ty) |-> MergeFrom(ty, New(ty), m)[f]]
  BY <1>1, MergeFromIs
<1>4. m = [f \in Fields(ty) |-> m[f]]
  BY DEF IsMessageOver
<1> QED BY <1>2, <1>3, <1>4

(* What bytes mean as groups. *)
GroupOf(b) ==
  [body \in {b[i].body : i \in DOMAIN b} |-> MeaningOf("UserGroup", body, <<>>)]

Holds(s, x) == \E i \in DOMAIN s : s[i] = x

(* The tokens of concatenated bytes are those of either. *)
LEMMA ConcatFacts ==
  ASSUME NEW A, NEW C, NEW b, NEW c, b \in Seq(A), c \in Seq(C)
  PROVE  /\ b \o c \in Seq(A \cup C)
         /\ \A x : Holds(b, x) \/ Holds(c, x) => Holds(b \o c, x)
<1> DEFINE d == b \o c
<1>1. /\ Len(b) \in Nat /\ DOMAIN b = 1..Len(b)
      /\ Len(c) \in Nat /\ DOMAIN c = 1..Len(c)
      /\ DOMAIN d = 1..(Len(b) + Len(c))
      /\ \A i \in 1..Len(b) : d[i] = b[i]
      /\ \A i \in 1..Len(c) : d[Len(b) + i] = c[i]
  OBVIOUS
<1>2. b \in Seq(A \cup C) /\ c \in Seq(A \cup C)
  OBVIOUS
<1>3. d \in Seq(A \cup C)
  BY <1>2
<1> HIDE DEF d
<1>4. \A i \in DOMAIN b : i \in DOMAIN d /\ d[i] = b[i]
  BY <1>1
<1>5. \A i \in DOMAIN c : Len(b) + i \in DOMAIN d /\ d[Len(b) + i] = c[i]
  BY <1>1
<1>6. \A x : Holds(b, x) => Holds(d, x)
  BY <1>4 DEF Holds
<1>7. \A x : Holds(c, x) => Holds(d, x)
  BY <1>5 DEF Holds
<1> QED BY <1>3, <1>6, <1>7 DEF d

(* A serialised message, at the end of bytes, is merged into their meaning. *)
LEMMA MessageIsMerged ==
  ASSUME NEW w \in Serializers, NEW ty \in Types,
         NEW B, \A t \in B : t.n \in Nat, NEW m, IsMessageOver(ty, m, B),
         NEW A, NEW b \in Seq(A)
  PROVE  /\ Serialize(w, ty, m) \in Seq(TokensOf(TokensOf(B)))
         /\ Meaning(ty, b \o Serialize(w, ty, m))
              = MergeFrom(ty, Meaning(ty, b), m)
<1> DEFINE s == Serialize(w, ty, m)
           bs == b \o s
           C == TokensOf(TokensOf(B))
           nested == WriteGroups(w, ty, m)
           group == GroupOf(bs)
           F == DOMAIN Class[ty]
           O(f, x) == Occurrences(ty, f, x)
           V(f, x) == ValueOf(FieldType(ty, f), O(f, x), group)
           W(f) == FieldBytes(ty, m, nested, f)
<1>1. Writable(ty, m, nested, TokensOf(B))
  BY MessagesAreWritable
<1>2. s = WriteFields(w[ty], ty, m, nested)
  BY DEF Serialize
<1>3. /\ s \in Seq(C)
      /\ \A f \in F : O(f, s) = W(f)
      /\ O("unknown", s) = m.unknown
  <2>1. WriterFits(Class[ty], w[ty])
    BY WritersFit
  <2>2. PICK table : table = w[ty]
    OBVIOUS
  <2>3. ty \in Types /\ WriterFits(Class[ty], table)
    BY <2>1, <2>2
  <2> HIDE DEF s, nested
  <2>4. LET t == WriteFields(table, ty, m, nested)
        IN /\ t \in Seq(C)
           /\ \A f \in F : O(f, t) = W(f)
           /\ O("unknown", t) = m.unknown
    BY ONLY <1>1, <2>3, MessageIsWritten
  <2> QED BY <1>2, <2>2, <2>4
<1> HIDE DEF s, nested
<1>4. /\ bs \in Seq(A \cup C)
      /\ \A x : Holds(b, x) \/ Holds(s, x) => Holds(bs, x)
  <2>1. s \in Seq(C)
    BY <1>3
  <2> HIDE DEF C
  <2>2. b \in Seq(A)
    OBVIOUS
  <2> QED BY ONLY <2>1, <2>2, ConcatFacts
<1>5. \A f : O(f, bs) = O(f, b) \o O(f, s)
  <2>1. b \in Seq(A \cup C) /\ s \in Seq(A \cup C)
    BY <1>3
  <2> HIDE DEF C
  <2> QED BY <2>1, OccurrencesConcat
<1> HIDE DEF bs
<1>6. \A x : Holds(bs, x) =>
               group[x.body] = MeaningOf("UserGroup", x.body, <<>>)
  BY DEF GroupOf, Holds
<1>7. Meaning(ty, b) = MeaningOf(ty, b, group)
  <2> DEFINE h == GroupOf(b)
  <2>1. ASSUME NEW i \in DOMAIN b PROVE h[b[i].body] = group[b[i].body]
    <3>1. h[b[i].body] = MeaningOf("UserGroup", b[i].body, <<>>)
      BY DEF GroupOf
    <3>2. Holds(bs, b[i])
      BY <1>4 DEF Holds
    <3> HIDE DEF group, h
    <3> QED BY <1>6, <3>1, <3>2
  <2>2. Meaning(ty, b) = MeaningOf(ty, b, h)
    BY DEF Meaning, GroupOf
  <2> HIDE DEF group, h
  <2> QED BY <2>1, <2>2, GroupsAgree
<1>8. Meaning(ty, bs) = MeaningOf(ty, bs, group)
  BY DEF Meaning, GroupOf
<1> HIDE DEF group
<1>9. ASSUME NEW f \in F, FieldType(ty, f) = "UserGroup*",
             NEW i \in DOMAIN m[f]
      PROVE  group[nested[m[f][i]]] = m[f][i]
  <2> DEFINE g == m[f][i]
             t == Delimited(Class[ty][f][1], nested[g])
  <2>1. g \in Groups(ty, m) /\ g \in GroupMessages(B)
    <3>1. m[f] \in Seq(GroupMessages(B)) /\ m[f] \in Seq(Groups(ty, m))
      BY <1>9, GroupsOfMessage
    <3> QED BY <3>1
  <2>2. nested[g] = WriteFields(w["UserGroup"], "UserGroup", g, <<>>)
    BY <2>1 DEF nested, WriteGroups
  <2>3. MeaningOf("UserGroup", nested[g], <<>>) = g
    BY <2>1, <2>2, GroupIsWritten
  <2>4. i \in DOMAIN W(f) /\ W(f)[i] = t
    BY <1>9 DEF FieldBytes
  <2>5. t.body = nested[g]
    BY DEF Delimited
  <2> HIDE DEF W, t, O
  <2>6. \E j \in DOMAIN O(f, s) : O(f, s)[j] = t
    BY <1>3, <2>4
  <2>7. Holds(s, t)
    BY <1>3, <2>6, OccurrencesElements DEF O, Holds
  <2>8. Holds(bs, t)
    BY <1>4, <2>7
  <2> QED BY <1>6, <2>3, <2>5, <2>8
<1>10. ASSUME NEW f \in F
       PROVE  V(f, bs) = MergedField(FieldType(ty, f), V(f, b), m[f])
  <2>1. IsValue(FieldType(ty, f), m[f], B)
    BY DEF IsMessageOver
  <2>2. O(f, b) \in Seq(A)
    BY OccurrencesType
  <2>3. O(f, bs) = O(f, b) \o W(f)
    BY <1>3, <1>5
  <2> DEFINE ts == O(f, b)
  <2> HIDE DEF ts
  <2>4. GroupsAreGiven(ty, m, nested, f, group)
    BY <1>9 DEF GroupsAreGiven
  <2>5. ts \in Seq(A)
    BY <2>2 DEF ts
  <2>6. ValueOf(FieldType(ty, f), ts \o FieldBytes(ty, m, nested, f), group)
          = MergedField(FieldType(ty, f),
                        ValueOf(FieldType(ty, f), ts, group), m[f])
    <3>1. ty \in Types /\ f \in DOMAIN Class[ty]
      OBVIOUS
    <3> QED BY ONLY <1>1, <2>1, <2>4, <2>5, <3>1, ValueMerges
  <2> QED BY <2>3, <2>6 DEF ts
<1>11. Meaning(ty, bs) = MergeFrom(ty, Meaning(ty, b), m)
  <2> DEFINE M(x) == MeaningOf(ty, x, group)
  <2>1. \A x : M(x) = [f \in Fields(ty) |-> IF f = "unknown" THEN O(f, x)
                                            ELSE V(f, x)]
    BY DEF MeaningOf
  <2> HIDE DEF M, V
  <2>2. DOMAIN M(b) = Fields(ty)
    BY <2>1
  <2>3. ASSUME NEW f \in Fields(ty)
        PROVE  M(bs)[f] = MergeFrom(ty, M(b), m)[f]
    <3>1. MergeFrom(ty, M(b), m)[f] =
            IF f = "unknown" THEN M(b)[f] \o m[f]
            ELSE MergedField(FieldType(ty, f), M(b)[f], m[f])
      BY <2>2, MergeFromIs
    <3>2. CASE f = "unknown"
      <4>1. M(b)[f] = O(f, b) /\ M(bs)[f] = O(f, bs)
        BY <2>1, <3>2
      <4>2. O(f, bs) = O(f, b) \o m.unknown
        BY <1>3, <1>5, <3>2
      <4> QED BY <3>1, <3>2, <4>1, <4>2
    <3>3. CASE f # "unknown"
      <4>1. M(b)[f] = V(f, b) /\ M(bs)[f] = V(f, bs) /\ f \in F
        BY <2>1, <3>3 DEF Fields
      <4> QED BY <1>10, <3>1, <3>3, <4>1
    <3> QED BY <3>2, <3>3
  <2>4. M(bs) = [f \in Fields(ty) |-> M(bs)[f]]
    BY <2>1
  <2>5. M(bs) = MergeFrom(ty, M(b), m)
    <3>1. MergeFrom(ty, M(b), m)
            = [f \in Fields(ty) |-> MergeFrom(ty, M(b), m)[f]]
      BY <2>2, MergeFromIs
    <3> QED BY <2>3, <2>4, <3>1
  <2> QED BY <1>7, <1>8, <2>5 DEF M
<1> QED BY <1>3, <1>11 DEF bs, s

(* No bytes mean a new message, of whatever type. *)
LEMMA MeaningOfNothing ==
  \A ty : Meaning(ty, <<>>) = New(ty)
BY MeaningEmpty DEF Meaning

(* What a serialiser writes of a message means the message. *)
LEMMA SerializedMeans ==
  ASSUME NEW w \in Serializers, NEW ty \in Types,
         NEW B, \A t \in B : t.n \in Nat, NEW m, IsMessageOver(ty, m, B)
  PROVE  /\ Serialize(w, ty, m) \in Seq(TokensOf(TokensOf(B)))
         /\ Meaning(ty, Serialize(w, ty, m)) = m
<1> DEFINE s == Serialize(w, ty, m)
<1>1. PICK e : e = <<>>
  OBVIOUS
<1>2. e \in Seq(B)
  BY <1>1
<1>3. s \in Seq(TokensOf(TokensOf(B)))
      /\ Meaning(ty, e \o s) = MergeFrom(ty, Meaning(ty, e), m)
  BY <1>2, MessageIsMerged
<1>4. e \o s = s
  <2> HIDE DEF s
  <2> QED BY <1>1, <1>3
<1>5. Meaning(ty, e) = New(ty)
  BY <1>1, MeaningOfNothing
<1> QED BY <1>3, <1>4, <1>5, MergeNew

-----------------------------------------------------------------------------
(* What a reader may refuse in a token of a field. *)
OkFor(ty, f, t) ==
  CASE FieldType(ty, f) = "string"     -> Utf8(t.body)
    [] FieldType(ty, f) = "map"        -> ReadEntry(t.body).ok
    [] FieldType(ty, f) = "UserGroup*" -> Plain(t.body)
    [] OTHER                           -> TRUE
AllOk(ty, f, ts) == \A i \in DOMAIN ts : OkFor(ty, f, ts[i])

(* Bytes are readable if each field's occurrences are, and the unknown       *)
(* ones.                                                                     *)
LEMMA ReadableByField ==
  ASSUME NEW ty \in Types, NEW A, NEW b \in Seq(A)
  PROVE  Readable(ty, b) <=>
           /\ Plain(Occurrences(ty, "unknown", b))
           /\ \A f \in DOMAIN Class[ty] : AllOk(ty, f, Occurrences(ty, f, b))
<1> DEFINE O(f) == Occurrences(ty, f, b)
           F == DOMAIN Class[ty]
<1>1. Readable(ty, b) <=>
        /\ Plain(b)
        /\ \A i \in DOMAIN b, f \in F :
             DeclaredFor(ty, f, b[i]) => OkFor(ty, f, b[i])
  BY DEF Readable, OkFor
<1>2. \A f, x : Holds(O(f), x) <=> IsOf(ty, f, x) /\ Holds(b, x)
  BY OccurrencesElements DEF Holds
<1> HIDE DEF O
<1>3. \A f \in F : \A x : IsOf(ty, f, x) <=> DeclaredFor(ty, f, x)
  BY TypesOfFields DEF IsOf
<1>4. \A x : IsOf(ty, "unknown", x) <=> ~Declared(ty, x)
  BY DEF IsOf
<1>5. Plain(b) <=> Plain(O("unknown"))
  <2>1. ASSUME Plain(b), NEW i \in DOMAIN O("unknown")
        PROVE  O("unknown")[i].wt \in {"varint", "delimited"}
    <3>1. Holds(b, O("unknown")[i])
      BY <1>2 DEF Holds
    <3> QED BY <2>1, <3>1 DEF Holds, Plain
  <2>2. ASSUME Plain(O("unknown")), NEW i \in DOMAIN b
        PROVE  b[i].wt \in {"varint", "delimited"}
    <3>1. CASE Declared(ty, b[i])
      BY <3>1 DEF Declared, DeclaredFor
    <3>2. CASE ~Declared(ty, b[i])
      <4>1. Holds(O("unknown"), b[i])
        BY <1>2, <1>4, <3>2 DEF Holds
      <4> QED BY <2>2, <4>1 DEF Holds, Plain
    <3> QED BY <3>1, <3>2
  <2> QED BY <2>1, <2>2 DEF Plain
<1>6. ASSUME NEW f \in F
      PROVE  AllOk(ty, f, O(f)) <=>
               \A i \in DOMAIN b :
                 DeclaredFor(ty, f, b[i]) => OkFor(ty, f, b[i])
  <2>1. ASSUME AllOk(ty, f, O(f)), NEW i \in DOMAIN b,
               DeclaredFor(ty, f, b[i])
        PROVE  OkFor(ty, f, b[i])
    <3>1. Holds(O(f), b[i])
      BY <1>2, <1>3, <2>1 DEF Holds
    <3> QED BY <2>1, <3>1 DEF Holds, AllOk
  <2>2. ASSUME NEW i \in DOMAIN O(f),
               \A j \in DOMAIN b :
                 DeclaredFor(ty, f, b[j]) => OkFor(ty, f, b[j])
        PROVE  OkFor(ty, f, O(f)[i])
    <3>1. Holds(b, O(f)[i]) /\ IsOf(ty, f, O(f)[i])
      BY <1>2 DEF Holds
    <3>2. PICK j \in DOMAIN b : b[j] = O(f)[i]
      BY <3>1 DEF Holds
    <3> QED BY <1>3, <2>2, <3>1, <3>2
  <2> QED BY <2>1, <2>2 DEF AllOk
<1> QED BY <1>1, <1>5, <1>6 DEF O

(* The texts of a message that have to be UTF-8. *)
LegibleValue(T, v) ==
  /\ T = "string" => Utf8(v)
  /\ T = "map" => \A k \in DOMAIN v : Utf8(v[k])
Legible(ty, m) ==
  \A f \in DOMAIN Class[ty] : LegibleValue(FieldType(ty, f), m[f])

(* The empty text is UTF-8. *)
LEMMA EmptyIsUtf8 == Utf8(<<>>)
BY DEF Utf8

(* What is written for a field can be read back if its value is legible. *)
LEMMA FieldIsLegible ==
  ASSUME NEW ty \in Types, NEW m, NEW nested, NEW A,
         Writable(ty, m, nested, A), NEW f \in DOMAIN Class[ty],
         NEW B, IsValue(FieldType(ty, f), m[f], B),
         FieldType(ty, f) = "UserGroup*" =>
           \A i \in DOMAIN m[f] : Plain(nested[m[f][i]])
  PROVE  AllOk(ty, f, FieldBytes(ty, m, nested, f))
           <=> LegibleValue(FieldType(ty, f), m[f])
<1> DEFINE T == FieldType(ty, f)
           num == Class[ty][f][1]
           v == m[f]
           bs == FieldBytes(ty, m, nested, f)
<1>1. T \in FieldTypes
  BY TypesOfFields
<1>2. CASE T = "UserGroup*"
  <2>1. bs = [i \in DOMAIN v |-> Delimited(num, nested[v[i]])]
    BY <1>2 DEF FieldBytes
  <2>2. \A i \in DOMAIN bs : OkFor(ty, f, bs[i])
    BY <1>2, <2>1 DEF OkFor, Delimited
  <2> QED BY <1>2, <2>2 DEF AllOk, LegibleValue
<1>3. CASE T = "map"
  <2> DEFINE keys == SetToSeq(DOMAIN v)
  <2>1. IsMap(v, B)
    BY <1>3 DEF IsValue, Numbers, Enums, Strings
  <2>2. /\ keys \in Seq(DOMAIN v)
        /\ \A k \in DOMAIN v : \E i \in DOMAIN keys : keys[i] = k
        /\ \A k \in DOMAIN v : k \in 0..Word - 1
    BY <2>1, SetToSeqFacts DEF IsMap
  <2>3. bs = [i \in DOMAIN keys |->
                Delimited(num, EntryBytes(keys[i], v[keys[i]]))]
    BY <1>3 DEF FieldBytes, WriteEntries
  <2> HIDE DEF keys, v, bs
  <2>4. \A i \in DOMAIN keys : keys[i] \in DOMAIN v
    BY <2>2
  <2>5. ASSUME NEW i \in DOMAIN keys
        PROVE  OkFor(ty, f, bs[i]) <=> Utf8(v[keys[i]])
    <3>1. bs[i].body = EntryBytes(keys[i], v[keys[i]])
      BY <2>3 DEF Delimited
    <3>2. keys[i] \in 0..Word - 1
      BY <2>2, <2>4
    <3>3. ReadEntry(EntryBytes(keys[i], v[keys[i]])) =
            [ok |-> Utf8(v[keys[i]]), msg |-> [x \in {keys[i]} |-> v[keys[i]]]]
      BY <3>2, EntryIsRead
    <3>4. ReadEntry(bs[i].body).ok = Utf8(v[keys[i]])
      BY <3>1, <3>3
    <3>5. OkFor(ty, f, bs[i]) = ReadEntry(bs[i].body).ok
      BY <1>3 DEF OkFor
    <3> QED BY <3>4, <3>5
  <2>6. DOMAIN bs = DOMAIN keys
    BY <2>3
  <2>7. AllOk(ty, f, bs) <=> \A k \in DOMAIN v : Utf8(v[k])
    BY <2>2, <2>4, <2>5, <2>6 DEF AllOk
  <2> QED BY <1>3, <2>7 DEF LegibleValue, bs, v
<1>4. CASE T = "string"
  <2>1. Default(T) = <<>>
    BY <1>4 DEF Default, Numbers, Enums
  <2>2. CASE v = <<>>
    <3>1. bs = <<>>
      BY <1>4, <2>1, <2>2 DEF FieldBytes
    <3> QED BY <1>4, <2>2, <3>1, EmptyIsUtf8 DEF AllOk, LegibleValue
  <2>3. CASE v # <<>>
    <3>1. bs = <<Delimited(num, v)>>
      BY <1>4, <2>1, <2>3 DEF FieldBytes, Strings
    <3>2. DOMAIN bs = {1} /\ bs[1].body = v
      BY <3>1 DEF Delimited
    <3> HIDE DEF bs
    <3>3. OkFor(ty, f, bs[1]) = Utf8(v)
      BY <1>4, <3>2 DEF OkFor
    <3> QED BY <1>4, <3>2, <3>3 DEF AllOk, LegibleValue, bs
  <2> QED BY <2>2, <2>3
<1>5. CASE T \notin {"UserGroup*", "map", "string"}
  BY <1>5 DEF AllOk, OkFor, LegibleValue
<1> QED BY <1>2, <1>3, <1>4, <1>5

(* What a serialiser writes is readable if every text of the message that    *)
(* has to be UTF-8 is.                                                       *)
LEMMA SerializedReadable ==
  ASSUME NEW w \in Serializers, NEW ty \in Types,
         NEW B, \A t \in B : t.n \in Nat, NEW m, IsMessageOver(ty, m, B)
  PROVE  Readable(ty, Serialize(w, ty, m)) <=> Legible(ty, m)
<1> DEFINE s == Serialize(w, ty, m)
           nested == WriteGroups(w, ty, m)
           F == DOMAIN Class[ty]
<1>1. Writable(ty, m, nested, TokensOf(B))
  BY MessagesAreWritable
<1>2. s = WriteFields(w[ty], ty, m, nested)
  BY DEF Serialize
<1>3. WriterFits(Class[ty], w[ty])
  BY WritersFit
<1> HIDE DEF s, nested
<1>4. /\ s \in Seq(TokensOf(TokensOf(B)))
      /\ \A f \in F : Occurrences(ty, f, s) = FieldBytes(ty, m, nested, f)
      /\ Occurrences(ty, "unknown", s) = m.unknown
  <2>1. PICK table : table = w[ty]
    OBVIOUS
  <2>2. ty \in Types /\ WriterFits(Class[ty], table)
    BY <1>3, <2>1
  <2>3. LET t == WriteFields(table, ty, m, nested)
        IN /\ t \in Seq(TokensOf(TokensOf(B)))
           /\ \A f \in F : Occurrences(ty, f, t) = FieldBytes(ty, m, nested, f)
           /\ Occurrences(ty, "unknown", t) = m.unknown
    BY ONLY <1>1, <2>2, MessageIsWritten
  <2> QED BY <1>2, <2>1, <2>3
<1>5. Plain(m.unknown)
  BY DEF IsMessageOver, AreUnknown
<1>6. ASSUME NEW f \in F
      PROVE  AllOk(ty, f, FieldBytes(ty, m, nested, f))
               <=> LegibleValue(FieldType(ty, f), m[f])
  <2>1. IsValue(FieldType(ty, f), m[f], B)
    BY DEF IsMessageOver
  <2>2. ASSUME FieldType(ty, f) = "UserGroup*", NEW i \in DOMAIN m[f]
        PROVE  Plain(nested[m[f][i]])
    <3> DEFINE g == m[f][i]
    <3>1. g \in Groups(ty, m) /\ g \in GroupMessages(B)
      <4>1. m[f] \in Seq(GroupMessages(B)) /\ m[f] \in Seq(Groups(ty, m))
        BY <2>2, GroupsOfMessage
      <4> QED BY <4>1
    <3>2. nested[g] = WriteFields(w["UserGroup"], "UserGroup", g, <<>>)
      BY <3>1 DEF nested, WriteGroups
    <3> HIDE DEF g
    <3>3. Plain(nested[g])
      BY <3>1, <3>2, GroupIsWritten
    <3> QED BY <3>3 DEF g
  <2> QED BY <1>1, <2>1, <2>2, FieldIsLegible
<1>7. Readable(ty, s) <=>
        /\ Plain(Occurrences(ty, "unknown", s))
        /\ \A f \in F : AllOk(ty, f, Occurrences(ty, f, s))
  BY <1>4, ReadableByField
<1>8. Readable(ty, s) <=> Legible(ty, m)
  BY <1>4, <1>5, <1>6, <1>7 DEF Legible
<1> QED BY <1>8 DEF s

(* Any parser reads a serialised message back, if it is legible. *)
LEMMA SerializedIsRead ==
  ASSUME NEW p \in Parsers, NEW w \in Serializers, NEW ty \in Types,
         NEW B, TokensOf(B) \subseteq Parts, \A t \in B : t.n \in Nat,
         NEW m, IsMessageOver(ty, m, B)
  PROVE  LET r == ParseWith(p, ty, Serialize(w, ty, m))
         IN IF Legible(ty, m) THEN r = Read(m) ELSE ~r.ok
<1> DEFINE s == Serialize(w, ty, m)
           r == ParseWith(p, ty, s)
<1>1. s \in Seq(TokensOf(TokensOf(B))) /\ Meaning(ty, s) = m
      /\ (Readable(ty, s) <=> Legible(ty, m))
  BY SerializedMeans, SerializedReadable
<1>2. s \in Seq(Tokens)
  <2>1. TokensOf(TokensOf(B)) \subseteq Tokens
    BY TokensOfEach DEF Tokens
  <2>2. Seq(TokensOf(TokensOf(B))) \subseteq Seq(Tokens)
    BY <2>1
  <2> QED BY <1>1, <2>2
<1> HIDE DEF s
<1>3. \/ Readable(ty, s) /\ r = Read(Meaning(ty, s))
      \/ ~Readable(ty, s) /\ \E n : r = Refused(n)
  BY <1>2, BytesAreRead
<1>4. \A n : ~Refused(n).ok
  BY DEF Refused
<1> HIDE DEF r
<1>5. IF Legible(ty, m) THEN r = Read(m) ELSE ~r.ok
  BY <1>1, <1>3, <1>4
<1> QED BY <1>5 DEF r, s

-----------------------------------------------------------------------------
(* What a varint is stored as is a value of the field's type. *)
LEMMA NumberIsValue ==
  ASSUME NEW T \in Numbers \cup {"bool"}, NEW n \in Nat, NEW B
  PROVE  IsValue(T, Store(T, n), B)
<1>1. Word \in Nat /\ EnumWord \in Nat /\ Long \in Nat
      /\ Word > 0 /\ EnumWord > 0 /\ Long > 0
  BY WidthsAssumption
<1>2. \A k \in Nat : k > 0 => n % k \in 0..k - 1
  OBVIOUS
<1>3. CASE T = "uint32"
  <2>1. Store(T, n) = n % Word
    BY <1>3 DEF Store
  <2>2. n % Word \in 0..Word - 1
    BY <1>1, <1>2
  <2> QED BY <1>3, <2>1, <2>2 DEF IsValue, Enums, Strings
<1>4. CASE T = "uint64"
  <2>1. Store(T, n) = n % Long
    BY <1>4 DEF Store
  <2>2. n % Long \in 0..Long - 1
    BY <1>1, <1>2
  <2> QED BY <1>4, <2>1, <2>2 DEF IsValue, Enums, Strings
<1>5. CASE T = "bool"
  <2>1. Store(T, n) = (n # 0)
    BY <1>5 DEF Store
  <2>2. Store(T, n) \in BOOLEAN
    BY <2>1
  <2> QED BY <1>5, <2>2 DEF IsValue, Enums, Strings
<1>6. CASE T \in Enums
  <2>1. Store(T, n) = n % EnumWord
    BY <1>6 DEF Store, Enums
  <2>2. n % EnumWord \in 0..EnumWord - 1
    BY <1>1, <1>2
  <2> QED BY <1>6, <2>1, <2>2 DEF IsValue, Enums, Strings
<1> QED BY <1>3, <1>4, <1>5, <1>6 DEF Numbers

(* The empty map is one, whatever texts maps have. *)
LEMMA EmptyMap ==
  \A B : IsMap(<<>>, B) /\ DOMAIN <<>> = {}
<1>1. DOMAIN <<>> = {}
  OBVIOUS
<1>2. IsFiniteSet({})
  BY FS_EmptySet
<1>3. <<>> = [k \in DOMAIN <<>> |-> <<>>[k]]
  OBVIOUS
<1> QED BY <1>1, <1>2, <1>3 DEF IsMap

(* The default of a type is a value of it, and legible. *)
LEMMA DefaultIsValue ==
  ASSUME NEW T \in FieldTypes, NEW B
  PROVE  IsValue(T, Default(T), B) /\ LegibleValue(T, Default(T))
<1>1. Word \in Nat /\ EnumWord \in Nat /\ Long \in Nat
      /\ Word > 0 /\ EnumWord > 0 /\ Long > 0
  BY WidthsAssumption
<1>2. CASE T \in Numbers
  <2>1. Default(T) = 0
    BY <1>2 DEF Default, Numbers, Enums
  <2>2. 0 \in 0..Word - 1 /\ 0 \in 0..EnumWord - 1 /\ 0 \in 0..Long - 1
    BY <1>1
  <2> QED BY <1>2, <2>1, <2>2
    DEF IsValue, LegibleValue, Numbers, Enums, Strings
<1>3. CASE T = "bool"
  BY <1>3 DEF IsValue, LegibleValue, Default, Numbers, Enums, Strings
<1>4. CASE T \in Strings \cup {"UserGroup*"}
  <2>1. Default(T) = <<>>
    BY <1>4 DEF Default, Numbers, Enums, Strings
  <2>2. \A A : <<>> \in Seq(A)
    OBVIOUS
  <2> QED BY <1>4, <2>1, <2>2, EmptyIsUtf8
    DEF IsValue, LegibleValue, Numbers, Enums, Strings
<1>5. CASE T = "map"
  <2>1. Default(T) = <<>>
    BY <1>5 DEF Default, Numbers, Enums, Strings
  <2> QED BY <1>5, <2>1, EmptyMap
    DEF IsValue, LegibleValue, Numbers, Enums, Strings
<1> QED BY <1>2, <1>3, <1>4, <1>5 DEF FieldTypes, Scalars, Numbers

(* The unknown fields that are kept. *)
LEMMA UnknownIsKept ==
  ASSUME NEW ty, NEW A, NEW b, b \in Seq(A),
         Plain(Occurrences(ty, "unknown", b))
  PROVE  /\ Occurrences(ty, "unknown", b) \in Seq(A)
         /\ AreUnknown(ty, Occurrences(ty, "unknown", b))
<1> DEFINE u == Occurrences(ty, "unknown", b)
<1>1. u \in Seq(A)
  BY OccurrencesType
<1>2. \A x : Holds(u, x) => IsOf(ty, "unknown", x)
  BY OccurrencesElements DEF Holds
<1> HIDE DEF u
<1>3. \A i \in DOMAIN u : ~Declared(ty, u[i])
  BY <1>2 DEF Holds, IsOf
<1> QED BY <1>1, <1>3 DEF AreUnknown, u

(* A group that is read. *)
LEMMA GroupIsRead ==
  ASSUME NEW A, NEW b, b \in Seq(TokensOf(A)), Plain(b)
  PROVE  MeaningOf("UserGroup", b, <<>>) \in GroupMessages(A)
<1> DEFINE ty == "UserGroup"
           M == MeaningOf(ty, b, <<>>)
           O(f) == Occurrences(ty, f, b)
<1>1. /\ ty \in Types /\ DOMAIN Class[ty] = {"userGroupType", "userGroupId"}
      /\ \A f \in DOMAIN Class[ty] : FieldType(ty, f) = "uint64"
  BY UserGroupClass
<1> HIDE DEF ty
<1>2. Readable(ty, b)
  BY <1>1 DEF Readable
<1>3. O("unknown") \in Seq(TokensOf(A)) /\ AreUnknown(ty, O("unknown"))
  <2>1. Plain(Occurrences(ty, "unknown", b))
    BY <1>1, <1>2, ReadableByField
  <2> QED BY <2>1, UnknownIsKept
<1>4. ASSUME NEW f \in DOMAIN Class[ty]
      PROVE  ValueOf("uint64", O(f), <<>>) \in 0..Long - 1
  <2> DEFINE ts == O(f)
  <2>1. ts \in Seq(TokensOf(A))
    BY OccurrencesType
  <2> HIDE DEF ts
  <2>2. CASE ts = <<>>
    <3>1. ValueOf("uint64", ts, <<>>) = 0
      BY <2>2 DEF ValueOf, Strings, Default, Numbers
    <3> QED BY <3>1, WidthsAssumption DEF ts
  <2>3. CASE ts # <<>>
    <3>1. Last(ts) \in TokensOf(A)
      BY <2>1, <2>3 DEF Last
    <3>2. Last(ts).n \in Nat
      BY <3>1, NumbersWithin
    <3>3. ValueOf("uint64", ts, <<>>) = Store("uint64", Last(ts).n)
      BY <2>3 DEF ValueOf, Strings
    <3>4. IsValue("uint64", Store("uint64", Last(ts).n), A)
      BY <3>2, NumberIsValue DEF Numbers
    <3>5. Store("uint64", Last(ts).n) \in 0..Long - 1
      BY <3>4 DEF IsValue, Enums, Strings
    <3> QED BY <3>3, <3>5 DEF ts
  <2> QED BY <2>2, <2>3
<1>5. Fields(ty) = {"userGroupType", "userGroupId", "unknown"}
  BY <1>1 DEF Fields
<1>6. M = [f \in Fields(ty) |->
             IF f = "unknown" THEN O(f)
             ELSE ValueOf(FieldType(ty, f), O(f), <<>>)]
  BY DEF MeaningOf
<1> HIDE DEF M, O
<1>7. /\ M = [userGroupType |-> M.userGroupType,
              userGroupId |-> M.userGroupId, unknown |-> M.unknown]
      /\ M.unknown = O("unknown")
      /\ M.userGroupType = ValueOf("uint64", O("userGroupType"), <<>>)
      /\ M.userGroupId = ValueOf("uint64", O("userGroupId"), <<>>)
  BY <1>1, <1>5, <1>6
<1>8. M \in GroupMessages(A)
  BY <1>1, <1>3, <1>4, <1>7 DEF GroupMessages, ty
<1> QED BY <1>8 DEF M, ty

(* A map entry that is read. *)
LEMMA EntryType ==
  ASSUME NEW b, b \in Seq(Parts)
  PROVE  \E k \in 0..Word - 1, v \in Seq(Chunks) :
           /\ ReadEntry(b).msg = [x \in {k} |-> v]
           /\ ReadEntry(b).ok => Utf8(v)
<1> DEFINE At(tag) == {i \in DOMAIN b : IsField(b[i]) /\ Tag(b[i]) = tag}
           last(tag) == CHOOSE i \in At(tag) : \A j \in At(tag) : j <= i
           k == EntryField(b, 8, 0)
           v == EntryField(b, 18, <<>>)
<1>1. ASSUME NEW tag, At(tag) # {} PROVE last(tag) \in At(tag)
  <2>1. At(tag) \in SUBSET (1..Len(b)) /\ Len(b) \in Nat
    OBVIOUS
  <2> HIDE DEF At
  <2>2. \E i \in At(tag) : \A j \in At(tag) : j <= i
    BY <1>1, <2>1, Keeping!MaxExists
  <2> QED BY <2>2
<1>2. \A tag, default : EntryField(b, tag, default) =
        IF At(tag) = {} THEN default
        ELSE IF b[last(tag)].wt = "varint"
               THEN Store("uint32", b[last(tag)].n) ELSE b[last(tag)].body
  BY DEF EntryField
<1>3. \A i \in DOMAIN b :
        b[i].num \in Nat /\ b[i].n \in Nat /\ b[i].body \in Seq(Chunks)
  <2>1. \A i \in DOMAIN b : b[i] \in Parts
    OBVIOUS
  <2>2. \A t \in Parts : t.num \in Nat /\ t.n \in Nat /\ t.body \in Seq(Chunks)
    BY DEF Parts, TokensOf
  <2> QED BY <2>1, <2>2
<1>4. \A i \in At(8) : b[i].wt = "varint"
  <2>1. ASSUME NEW i \in At(8) PROVE b[i].wt = "varint"
    <3>1. 8 * b[i].num + WireType[b[i].wt] = 8 /\ IsField(b[i])
      BY DEF Tag
    <3>2. b[i].num \in Nat
      BY <1>3
    <3> QED BY <3>1, <3>2 DEF IsField, WireType
  <2> QED BY <2>1
<1>5. \A i \in At(18) : b[i].wt # "varint"
  <2>1. ASSUME NEW i \in At(18), b[i].wt = "varint" PROVE FALSE
    <3>1. 8 * b[i].num + 0 = 18
      BY <2>1 DEF Tag, WireType
    <3>2. b[i].num \in Nat
      BY <1>3
    <3> QED BY <3>1, <3>2
  <2> QED BY <2>1
<1>6. \A i, tag : i \in At(tag) => i \in DOMAIN b
  OBVIOUS
<1> HIDE DEF At, last
<1>7. k \in 0..Word - 1
  <2>1. CASE At(8) = {}
    <3>1. k = 0
      BY <1>2, <2>1
    <3> QED BY <3>1, WidthsAssumption
  <2>2. CASE At(8) # {}
    <3>1. last(8) \in At(8) /\ b[last(8)].n \in Nat
      BY <1>1, <1>3, <1>6, <2>2
    <3>2. k = Store("uint32", b[last(8)].n)
      BY <1>2, <1>4, <2>2, <3>1
    <3>3. IsValue("uint32", Store("uint32", b[last(8)].n), {})
      BY <3>1, NumberIsValue DEF Numbers
    <3>4. Store("uint32", b[last(8)].n) \in 0..Word - 1
      BY <3>3 DEF IsValue, Enums, Strings
    <3> QED BY <3>2, <3>4
  <2> QED BY <2>1, <2>2
<1>8. v \in Seq(Chunks)
  <2>1. CASE At(18) = {}
    <3>1. v = <<>>
      BY <1>2, <2>1
    <3> HIDE DEF v
    <3> QED BY <3>1
  <2>2. CASE At(18) # {}
    <3>1. last(18) \in At(18) /\ b[last(18)].body \in Seq(Chunks)
      BY <1>1, <1>3, <1>6, <2>2
    <3>2. v = b[last(18)].body
      BY <1>2, <1>5, <2>2, <3>1
    <3> QED BY <3>1, <3>2
  <2> QED BY <2>1, <2>2
<1>9. ReadEntry(b).msg = [x \in {k} |-> v] /\ (ReadEntry(b).ok => Utf8(v))
  BY DEF ReadEntry
<1> HIDE DEF k, v
<1> QED BY <1>7, <1>8, <1>9

-----------------------------------------------------------------------------
(* The groups within occurrences are groups that were read. *)
GroupsAreRead(T, ts, group) ==
  T = "UserGroup*" =>
    \A i \in DOMAIN ts : group[ts[i].body] \in GroupMessages(Chunks)
TextsAreLegible(T, ts) ==
  /\ T = "string" => \A i \in DOMAIN ts : Utf8(ts[i].body)
  /\ T = "map" => \A i \in DOMAIN ts : ReadEntry(ts[i].body).ok

(* What tokens that could be read mean is a legible value of the field's     *)
(* type.                                                                     *)
LEMMA ValueIsRead ==
  ASSUME NEW T \in FieldTypes, NEW ts, ts \in Seq(Tokens), NEW group,
         GroupsAreRead(T, ts, group), TextsAreLegible(T, ts)
  PROVE  /\ IsValue(T, ValueOf(T, ts, group), Chunks)
         /\ LegibleValue(T, ValueOf(T, ts, group))
<1>1. \A i \in DOMAIN ts : ts[i].n \in Nat /\ ts[i].body \in Seq(Parts)
  BY TokenTypes DEF IsToken
<1>2. CASE T = "UserGroup*"
  <2> DEFINE v == [i \in DOMAIN ts |-> group[ts[i].body]]
  <2>1. \A i \in DOMAIN ts : group[ts[i].body] \in GroupMessages(Chunks)
    BY <1>2 DEF GroupsAreRead
  <2>2. DOMAIN ts = 1..Len(ts) /\ Len(ts) \in Nat
    OBVIOUS
  <2>3. v \in Seq(GroupMessages(Chunks))
    BY <2>1, <2>2
  <2>4. ValueOf(T, ts, group) = v
    BY <1>2 DEF ValueOf
  <2> HIDE DEF v
  <2> QED BY <1>2, <2>3, <2>4
    DEF IsValue, LegibleValue, Numbers, Enums, Strings
<1>3. CASE T = "map"
  <2> DEFINE es == [i \in DOMAIN ts |-> ReadEntry(ts[i].body).msg]
             v == EntriesMean(es)
  <2>1. ASSUME NEW i \in DOMAIN es
        PROVE  \E k \in 0..Word - 1, s \in Seq(Chunks) :
                 es[i] = [x \in {k} |-> s] /\ Utf8(s)
    <3>1. ReadEntry(ts[i].body).ok
      BY <1>3 DEF TextsAreLegible
    <3>2. \E k \in 0..Word - 1, s \in Seq(Chunks) :
            /\ ReadEntry(ts[i].body).msg = [x \in {k} |-> s]
            /\ ReadEntry(ts[i].body).ok => Utf8(s)
      BY <1>1, EntryType
    <3> QED BY <3>1, <3>2
  <2>2. DOMAIN es = 1..Len(ts) /\ Len(ts) \in Nat
    OBVIOUS
  <2> HIDE DEF es
  <2> DEFINE D(i) == DOMAIN es[i]
             ds == {D(i) : i \in DOMAIN es}
  <2>3. \A i \in DOMAIN es : \E k \in 0..Word - 1 : D(i) = {k}
    BY <2>1
  <2>4. IsFiniteSet(UNION ds)
    <3>1. IsFiniteSet(1..Len(ts))
      <4>1. 1 \in Int /\ Len(ts) \in Int
        BY <2>2
      <4> QED BY <4>1, FS_Interval
    <3>2. IsFiniteSet(DOMAIN es)
      BY <2>2, <3>1
    <3>3. IsFiniteSet(ds)
      <4> DEFINE g == [i \in DOMAIN es |-> D(i)]
      <4>1. g \in Surjection(DOMAIN es, ds)
        <5> HIDE DEF D
        <5> QED BY DEF Surjection
      <4> HIDE DEF g, ds
      <4> QED BY <3>2, <4>1, FS_Surjection
    <3>4. \A d \in ds : IsFiniteSet(d)
      <4> SUFFICES ASSUME NEW i \in DOMAIN es PROVE IsFiniteSet(D(i))
        OBVIOUS
      <4>1. PICK k : D(i) = {k}
        BY <2>3
      <4> QED BY <4>1, FS_Singleton
    <3> HIDE DEF ds
    <3> QED BY <3>3, <3>4, FS_UNION
  <2>5. DOMAIN v = UNION ds
    BY DEF EntriesMean
  <2>6. ASSUME NEW k \in DOMAIN v
        PROVE  k \in 0..Word - 1 /\ v[k] \in Seq(Chunks) /\ Utf8(v[k])
    <3> DEFINE has == {i \in DOMAIN es : k \in DOMAIN es[i]}
               last == CHOOSE i \in has : \A j \in has : j <= i
    <3>1. v[k] = es[last][k]
      BY DEF EntriesMean, LastEntry
    <3>2. has \in SUBSET (1..Len(ts)) /\ has # {}
      BY <2>2, <2>5
    <3>3. \E i \in has : \A j \in has : j <= i
      <4> HIDE DEF has
      <4> QED BY <2>2, <3>2, Keeping!MaxExists
    <3>4. last \in has
      <4> HIDE DEF has
      <4> QED BY <3>3
    <3>5. last \in DOMAIN es /\ k \in DOMAIN es[last]
      <4> HIDE DEF last
      <4> QED BY <3>4
    <3> HIDE DEF last, v
    <3>6. PICK l \in 0..Word - 1, s \in Seq(Chunks) :
            es[last] = [x \in {l} |-> s] /\ Utf8(s)
      BY <2>1, <3>5
    <3>7. l = k /\ es[last][k] = s
      BY <3>5, <3>6
    <3> QED BY <3>1, <3>6, <3>7
  <2>7. v = [k \in DOMAIN v |-> v[k]]
    BY DEF EntriesMean
  <2>8. ValueOf(T, ts, group) = v
    BY <1>3 DEF ValueOf, es
  <2> HIDE DEF v, ds
  <2>9. IsMap(v, Chunks)
    BY <2>4, <2>5, <2>6, <2>7 DEF IsMap
  <2> QED BY <1>3, <2>6, <2>8, <2>9
    DEF IsValue, LegibleValue, Numbers, Enums, Strings
<1>4. CASE T \notin {"UserGroup*", "map"} /\ ts = <<>>
  BY <1>4, ValueEmpty, DefaultIsValue
<1>5. CASE T \notin {"UserGroup*", "map"} /\ ts # <<>>
  <2>1. Last(ts) = ts[Len(ts)] /\ Len(ts) \in DOMAIN ts
    BY <1>5 DEF Last
  <2>2. Last(ts).n \in Nat /\ Last(ts).body \in Seq(Parts)
    BY <1>1, <2>1
  <2>3. CASE T \in Strings
    <3>1. ValueOf(T, ts, group) = Last(ts).body
      BY <1>5, <2>3 DEF ValueOf
    <3>2. T = "string" => Utf8(Last(ts).body)
      BY <2>1 DEF TextsAreLegible
    <3> QED BY <2>2, <2>3, <3>1, <3>2
      DEF IsValue, LegibleValue, Numbers, Enums, Strings, Parts
  <2>4. CASE T \in Numbers \cup {"bool"}
    <3>1. ValueOf(T, ts, group) = Store(T, Last(ts).n)
      BY <1>5, <2>4 DEF ValueOf, Strings, Numbers, Enums
    <3>2. IsValue(T, Store(T, Last(ts).n), Chunks)
      BY <2>2, <2>4, NumberIsValue
    <3> QED BY <2>4, <3>1, <3>2 DEF LegibleValue, Numbers, Enums
  <2> QED BY <1>5, <2>3, <2>4 DEF FieldTypes, Scalars, Numbers
<1> QED BY <1>2, <1>3, <1>4, <1>5

(* Readable bytes mean a message, whose texts are legible. *)
LEMMA MeaningIsMessage ==
  ASSUME NEW ty \in Types, NEW b, b \in Seq(Tokens), Readable(ty, b)
  PROVE  IsMessage(ty, Meaning(ty, b)) /\ Legible(ty, Meaning(ty, b))
<1> DEFINE M == Meaning(ty, b)
           O(f) == Occurrences(ty, f, b)
           group == GroupOf(b)
           F == DOMAIN Class[ty]
<1>1. /\ Plain(O("unknown"))
      /\ \A f \in F : AllOk(ty, f, O(f))
  BY ReadableByField
<1>2. M = [f \in Fields(ty) |-> IF f = "unknown" THEN O(f)
                                ELSE ValueOf(FieldType(ty, f), O(f), group)]
  BY DEF Meaning, MeaningOf, GroupOf
<1>3. \A x : Holds(b, x) =>
               group[x.body] = MeaningOf("UserGroup", x.body, <<>>)
  BY DEF GroupOf, Holds
<1>4. \A f, x : Holds(O(f), x) => Holds(b, x)
  BY OccurrencesElements DEF Holds
<1>5. \A f : O(f) \in Seq(Tokens)
  BY OccurrencesType
<1>6. AreUnknown(ty, O("unknown"))
  BY <1>1, UnknownIsKept
<1> HIDE DEF M, O, group
<1>7. ASSUME NEW f \in F
      PROVE  IsValue(FieldType(ty, f), M[f], Chunks)
             /\ LegibleValue(FieldType(ty, f), M[f])
  <2> DEFINE T == FieldType(ty, f)
             ts == O(f)
  <2>1. T \in FieldTypes /\ f \in Fields(ty) /\ f # "unknown"
    BY TypesOfFields DEF Fields
  <2>2. ts \in Seq(Tokens) /\ AllOk(ty, f, ts)
    BY <1>1, <1>5
  <2>3. \A i \in DOMAIN ts : Holds(b, ts[i])
    BY <1>4 DEF Holds
  <2> HIDE DEF ts
  <2>4. GroupsAreRead(T, ts, group)
    <3> SUFFICES ASSUME T = "UserGroup*", NEW i \in DOMAIN ts
                 PROVE  group[ts[i].body] \in GroupMessages(Chunks)
      BY DEF GroupsAreRead
    <3>1. Plain(ts[i].body)
      BY <2>2 DEF AllOk, OkFor
    <3>2. ts[i].body \in Seq(Parts)
      BY <2>2, TokenTypes
    <3>3. MeaningOf("UserGroup", ts[i].body, <<>>) \in GroupMessages(Chunks)
      BY <3>1, <3>2, GroupIsRead DEF Parts
    <3> QED BY <1>3, <2>3, <3>3
  <2>5. TextsAreLegible(T, ts)
    BY <2>2 DEF TextsAreLegible, AllOk, OkFor
  <2>6. M[f] = ValueOf(T, ts, group)
    BY <1>2, <2>1 DEF ts
  <2> HIDE DEF T
  <2>7. IsValue(T, ValueOf(T, ts, group), Chunks)
        /\ LegibleValue(T, ValueOf(T, ts, group))
    BY <2>1, <2>2, <2>4, <2>5, ValueIsRead
  <2> QED BY <2>6, <2>7 DEF T
<1>8. M.unknown = O("unknown")
  BY <1>2 DEF Fields
<1>9. M.unknown \in Seq(TokensOf(TokensOf(Chunks)))
  BY <1>5, <1>8 DEF Tokens, Parts
<1>10. M = [f \in Fields(ty) |-> M[f]]
  BY <1>2
<1>11. IsMessage(ty, M)
  BY <1>6, <1>7, <1>8, <1>9, <1>10 DEF IsMessage, IsMessageOver
<1> QED BY <1>7, <1>11 DEF Legible, M

(* What is read is a message that any serialiser writes back. *)
LEMMA RewrittenIsRead ==
  ASSUME NEW p \in Parsers, NEW w \in Serializers, NEW ty \in Types,
         NEW b, b \in Seq(Tokens), ParseWith(p, ty, b).ok
  PROVE  LET m == ParseWith(p, ty, b).msg
         IN /\ ParseWith(p, ty, b) = Read(m)
            /\ ParseWith(p, ty, Serialize(w, ty, m)) = Read(m)
            /\ IsMessage(ty, m)
<1> DEFINE r == ParseWith(p, ty, b)
           m == Meaning(ty, b)
<1>1. \/ Readable(ty, b) /\ r = Read(m)
      \/ ~Readable(ty, b) /\ \E n : r = Refused(n)
  BY BytesAreRead
<1> HIDE DEF r
<1>2. Readable(ty, b) /\ r = Read(m)
  BY <1>1 DEF Refused, r
<1>3. IsMessage(ty, m) /\ Legible(ty, m)
  BY <1>2, MeaningIsMessage
<1> HIDE DEF m
<1>4. r.msg = m
  BY <1>2 DEF Read
<1>5. ParseWith(p, ty, Serialize(w, ty, m)) = Read(m)
  <2>1. TokensOf(Chunks) \subseteq Parts /\ \A t \in Chunks : t.n \in Nat
    BY NumbersWithin DEF Parts, Chunks
  <2> QED BY <1>3, <2>1, SerializedIsRead DEF IsMessage
<1> QED BY <1>2, <1>3, <1>4, <1>5 DEF r

-----------------------------------------------------------------------------
(* g sums what h holds for the elements of each subset of S, as SumFunction  *)
(* does: one chosen element after the other.                                 *)
Chosen(s) == CHOOSE x \in s : TRUE
Summed(h, g, s) == IF s = {} THEN 0 ELSE h[Chosen(s)] + g[s \ {Chosen(s)}]
Sums(h, g, S) == g = [s \in SUBSET S |-> Summed(h, g, s)]

(* Sets that are one smaller. *)
LEMMA OneLess ==
  ASSUME NEW S, IsFiniteSet(S), NEW s \in SUBSET S, NEW x \in s
  PROVE  /\ IsFiniteSet(s) /\ IsFiniteSet(s \ {x})
         /\ Cardinality(s) \in Nat /\ Cardinality(s \ {x}) \in Nat
         /\ Cardinality(s \ {x}) = Cardinality(s) - 1
         /\ s \ {x} \in SUBSET S
<1>1. IsFiniteSet(s)
  BY FS_Subset
<1>2. IsFiniteSet(s \ {x}) /\ Cardinality(s \ {x}) = Cardinality(s) - 1
  BY <1>1, FS_RemoveElement
<1> QED BY <1>1, <1>2, FS_CardinalityType

(* There are such sums. *)
LEMMA SumsExists ==
  ASSUME NEW S, IsFiniteSet(S), NEW h
  PROVE  \E g : Sums(h, g, S)
<1> DEFINE T == {n \in Nat : \E g :
                   /\ g = [s \in SUBSET S |-> g[s]]
                   /\ \A s \in SUBSET S :
                        Cardinality(s) <= n => g[s] = Summed(h, g, s)}
<1>1. \A s \in SUBSET S : IsFiniteSet(s) /\ Cardinality(s) \in Nat
  BY FS_Subset, FS_CardinalityType
<1>2. \A s \in SUBSET S : Cardinality(s) = 0 => s = {}
  BY <1>1, FS_EmptySet
<1>3. 0 \in T
  <2> DEFINE g == [s \in SUBSET S |-> 0]
  <2>1. \A s \in SUBSET S : Cardinality(s) <= 0 => s = {}
    BY <1>1, <1>2
  <2>2. \A s \in SUBSET S : Cardinality(s) <= 0 => g[s] = Summed(h, g, s)
    BY <2>1 DEF Summed
  <2>3. g = [s \in SUBSET S |-> g[s]]
    OBVIOUS
  <2> QED BY <2>2, <2>3
<1>4. ASSUME NEW n \in Nat, n \in T PROVE n + 1 \in T
  <2>1. PICK g : /\ g = [s \in SUBSET S |-> g[s]]
                 /\ \A s \in SUBSET S :
                      Cardinality(s) <= n => g[s] = Summed(h, g, s)
    BY <1>4
  <2> DEFINE G == [s \in SUBSET S |-> IF Cardinality(s) <= n THEN g[s]
                                     ELSE Summed(h, g, s)]
  <2>2. \A s \in SUBSET S : Cardinality(s) <= n => G[s] = g[s]
    OBVIOUS
  <2>3. \A s \in SUBSET S : ~(Cardinality(s) <= n) => G[s] = Summed(h, g, s)
    OBVIOUS
  <2>4. G = [s \in SUBSET S |-> G[s]]
    OBVIOUS
  <2> HIDE DEF G
  <2>5. ASSUME NEW s \in SUBSET S, Cardinality(s) <= n + 1
        PROVE  G[s] = Summed(h, G, s)
    <3>1. G[s] = Summed(h, g, s)
      BY <2>1, <2>2, <2>3
    <3>2. CASE s = {}
      BY <3>1, <3>2 DEF Summed
    <3>3. CASE s # {}
      <4>1. Chosen(s) \in s
        BY <3>3 DEF Chosen
      <4>2. /\ s \ {Chosen(s)} \in SUBSET S
            /\ Cardinality(s \ {Chosen(s)}) = Cardinality(s) - 1
        BY <4>1, OneLess
      <4>3. Cardinality(s \ {Chosen(s)}) <= n
        BY <1>1, <2>5, <4>2
      <4>4. G[s \ {Chosen(s)}] = g[s \ {Chosen(s)}]
        BY <2>2, <4>2, <4>3
      <4> QED BY <3>1, <4>4 DEF Summed
    <3> QED BY <3>2, <3>3
  <2>6. \E f : /\ f = [s \in SUBSET S |-> f[s]]
              /\ \A s \in SUBSET S :
                   Cardinality(s) <= n + 1 => f[s] = Summed(h, f, s)
    BY <2>4, <2>5
  <2>7. n + 1 \in Nat
    OBVIOUS
  <2> QED BY <2>6, <2>7, Zenon
<1>5. Nat \subseteq T
  <2> HIDE DEF T
  <2> QED BY <1>3, <1>4, Sizing!NatSetInduction
<1>6. Cardinality(S) \in T
  BY <1>1, <1>5
<1>7. PICK g : /\ g = [s \in SUBSET S |-> g[s]]
               /\ \A s \in SUBSET S :
                    Cardinality(s) <= Cardinality(S) => g[s] = Summed(h, g, s)
  BY <1>6
<1>8. \A s \in SUBSET S : g[s] = Summed(h, g, s)
  <2>1. \A s \in SUBSET S : Cardinality(s) <= Cardinality(S)
    BY FS_Subset
  <2> QED BY <1>7, <2>1
<1>9. g = [s \in SUBSET S |-> Summed(h, g, s)]
  BY <1>7, <1>8
<1> QED BY <1>9 DEF Sums

(* SumFunction is such a sum, of the whole domain. *)
LEMMA SumIs ==
  ASSUME NEW S, IsFiniteSet(S), NEW h, DOMAIN h = S
  PROVE  \E g : Sums(h, g, S) /\ SumFunction(h) = g[S]
<1> DEFINE f == CHOOSE f : Sums(h, f, S)
<1>1. SumFunction(h) = f[S]
  BY DEF SumFunction, SumFunctionOnSet, FoldFunctionOnSet, MapThenFoldSet,
         Sums, Summed, Chosen
<1>2. Sums(h, f, S)
  BY SumsExists
<1> QED BY <1>1, <1>2

(* What a sum over a set is: numbers, whichever element comes first. *)
TakesOut(h, g, S) ==
  /\ \A s \in SUBSET S : g[s] \in Nat
  /\ g[{}] = 0
  /\ \A s \in SUBSET S : \A x \in s : g[s] = h[x] + g[s \ {x}]
Counts(h, S) == \A x \in S : h[x] \in Nat

(* Any element can be taken out of a sum first. *)
LEMMA SumsTakeOut ==
  ASSUME NEW S, IsFiniteSet(S), NEW h, Counts(h, S),
         NEW g, Sums(h, g, S)
  PROVE  TakesOut(h, g, S)
<1>1. \A s \in SUBSET S : g[s] = Summed(h, g, s)
  BY DEF Sums
<1>2. \A s \in SUBSET S : IsFiniteSet(s) /\ Cardinality(s) \in Nat
  BY FS_Subset, FS_CardinalityType
<1>3. \A s \in SUBSET S : Cardinality(s) = 0 => s = {}
  BY <1>2, FS_EmptySet
<1>4. g[{}] = 0
  BY <1>1 DEF Summed
<1>0. \A x \in S : h[x] \in Nat
  BY DEF Counts
<1> DEFINE Sound(s) == /\ g[s] \in Nat
                       /\ \A x \in s : g[s] = h[x] + g[s \ {x}]
           T == {n \in Nat : \A s \in SUBSET S : Cardinality(s) <= n => Sound(s)}
<1>5. 0 \in T
  <2>1. \A s \in SUBSET S : Cardinality(s) <= 0 => s = {}
    BY <1>2, <1>3
  <2>2. Sound({})
    BY <1>4
  <2> HIDE DEF Sound
  <2> QED BY <2>1, <2>2
<1>6. ASSUME NEW n \in Nat, n \in T PROVE n + 1 \in T
  <2>1. ASSUME NEW s \in SUBSET S, Cardinality(s) <= n + 1, s # {}
        PROVE  Sound(s)
    <3> DEFINE c == Chosen(s)
    <3>2. c \in s /\ g[s] = h[c] + g[s \ {c}]
      BY <1>1, <2>1 DEF Summed, Chosen
    <3> HIDE DEF c
    <3>3. ASSUME NEW u \in SUBSET s, NEW x \in u
          PROVE  /\ u \ {x} \in SUBSET S /\ h[x] \in Nat
                 /\ Cardinality(u \ {x}) <= n
      <4>1. u \in SUBSET S
        OBVIOUS
      <4>2. /\ Cardinality(u \ {x}) = Cardinality(u) - 1
            /\ u \ {x} \in SUBSET S
        BY <4>1, OneLess
      <4>3. Cardinality(u) <= Cardinality(s)
        BY <1>2, FS_Subset
      <4> QED BY <1>0, <1>2, <2>1, <4>1, <4>2, <4>3
    <3>4. ASSUME NEW u \in SUBSET s, NEW x \in u PROVE Sound(u \ {x})
      BY <1>6, <3>3
    <3>5. ASSUME NEW x \in s
          PROVE  /\ h[x] \in Nat /\ g[s \ {x}] \in Nat
                 /\ \A y \in s \ {x} :
                      g[s \ {x}] = h[y] + g[(s \ {x}) \ {y}]
      <4>1. s \in SUBSET s
        OBVIOUS
      <4>2. h[x] \in Nat
        BY <1>0
      <4> QED BY <3>4, <4>1, <4>2
    <3>6. ASSUME NEW x \in s, x # c PROVE g[s] = h[x] + g[s \ {x}]
      <4>1. /\ x \in s \ {c} /\ c \in s \ {x}
            /\ (s \ {c}) \ {x} = (s \ {x}) \ {c}
            /\ s \ {x} \in SUBSET s
        BY <3>2, <3>6
      <4>2. g[s \ {c}] = h[x] + g[(s \ {c}) \ {x}]
        BY <3>2, <3>5, <4>1
      <4>3. g[s \ {x}] = h[c] + g[(s \ {x}) \ {c}]
        BY <3>5, <4>1
      <4>4. g[(s \ {x}) \ {c}] \in Nat
        BY <3>4, <4>1
      <4>5. h[x] \in Nat /\ h[c] \in Nat
        BY <1>0, <3>2
      <4>6. g[s] = h[c] + (h[x] + g[(s \ {x}) \ {c}])
        BY <3>2, <4>1, <4>2, Zenon
      <4>7. \A a, b, d \in Nat : a + (b + d) = b + (a + d)
        OBVIOUS
      <4>8. g[s] = h[x] + (h[c] + g[(s \ {x}) \ {c}])
        BY <4>4, <4>5, <4>6, <4>7, Zenon
      <4> QED BY <4>3, <4>8, Zenon
    <3>7. g[s] \in Nat
      <4>1. h[c] \in Nat /\ g[s \ {c}] \in Nat
        BY <3>2, <3>5
      <4>2. \A a, b \in Nat : a + b \in Nat
        OBVIOUS
      <4> QED BY <3>2, <4>1, <4>2, Zenon
    <3> QED BY <3>2, <3>6, <3>7
  <2>2. Sound({})
    BY <1>4
  <2> HIDE DEF Sound
  <2> QED BY <2>1, <2>2
<1>7. Nat \subseteq T
  <2> HIDE DEF T
  <2> QED BY <1>5, <1>6, Sizing!NatSetInduction
<1>8. \A s \in SUBSET S : Sound(s)
  <2> SUFFICES ASSUME NEW s \in SUBSET S PROVE Sound(s)
    OBVIOUS
  <2>1. Cardinality(s) \in T /\ Cardinality(s) <= Cardinality(s)
    BY <1>2, <1>7
  <2> HIDE DEF Sound
  <2> QED BY <2>1
<1> QED BY <1>4, <1>8 DEF TakesOut

(* ByteSizeLong: for every field the bytes of its tag, and the function that *)
(* sizes its type.                                                           *)
SizerFits(class, table) ==
  /\ DOMAIN table = DOMAIN class
  /\ \A f \in DOMAIN class :
       /\ table[f][1] = VarintSize(8 * class[f][1] + WireOf(class[f][2]))
       /\ WritesType(table[f][2], class[f][2])

(* Every class sizes each of its fields as it is written. *)
LEMMA SizersFit ==
  \A ty \in Types : SizerFits(Class[ty], ByteSizeLong[ty])
<1>1. SizerFits(UserGroup_Class, UserGroup_ByteSizeLong)
  BY DEF SizerFits, WritesType, WireOf, Numbers, Enums, VarintSize, Digits,
    UserGroup_Class, UserGroup_ByteSizeLong
<1>2. SizerFits(LoginRequest_Class, LoginRequest_ByteSizeLong)
  BY DEF SizerFits, WritesType, WireOf, Numbers, Enums, VarintSize, Digits,
    LoginRequest_Class, LoginRequest_ByteSizeLong
<1>3. SizerFits(LoginResponse_Class, LoginResponse_ByteSizeLong)
  BY DEF SizerFits, WritesType, WireOf, Numbers, Enums, VarintSize, Digits,
    LoginResponse_Class, LoginResponse_ByteSizeLong
<1>4. SizerFits(LogoutRequest_Class, LogoutRequest_ByteSizeLong)
  BY DEF SizerFits, WritesType, WireOf, Numbers, Enums, VarintSize, Digits,
    LogoutRequest_Class, LogoutRequest_ByteSizeLong
<1>5. SizerFits(LogoutResponse_Class, LogoutResponse_ByteSizeLong)
  BY DEF SizerFits, WritesType, WireOf, Numbers, Enums, VarintSize, Digits,
    LogoutResponse_Class, LogoutResponse_ByteSizeLong
<1>6. SizerFits(JoinGroupRequest_Class, JoinGroupRequest_ByteSizeLong)
  BY DEF SizerFits, WritesType, WireOf, Numbers, Enums, VarintSize, Digits,
    JoinGroupRequest_Class, JoinGroupRequest_ByteSizeLong
<1>7. SizerFits(JoinGroupResponse_Class, JoinGroupResponse_ByteSizeLong)
  BY DEF SizerFits, WritesType, WireOf, Numbers, Enums, VarintSize, Digits,
    JoinGroupResponse_Class, JoinGroupResponse_ByteSizeLong
<1>8. SizerFits(LeaveGroupRequest_Class, LeaveGroupRequest_ByteSizeLong)
  BY DEF SizerFits, WritesType, WireOf, Numbers, Enums, VarintSize, Digits,
    LeaveGroupRequest_Class, LeaveGroupRequest_ByteSizeLong
<1>9. SizerFits(LeaveGroupResponse_Class, LeaveGroupResponse_ByteSizeLong)
  BY DEF SizerFits, WritesType, WireOf, Numbers, Enums, VarintSize, Digits,
    LeaveGroupResponse_Class, LeaveGroupResponse_ByteSizeLong
<1>10. SizerFits(PingRequest_Class, PingRequest_ByteSizeLong)
  BY DEF SizerFits, WritesType, WireOf, Numbers, Enums, VarintSize, Digits,
    PingRequest_Class, PingRequest_ByteSizeLong
<1>11. SizerFits(PongResponse_Class, PongResponse_ByteSizeLong)
  BY DEF SizerFits, WritesType, WireOf, Numbers, Enums, VarintSize, Digits,
    PongResponse_Class, PongResponse_ByteSizeLong
<1>12. SizerFits(PushRegReq_Class, PushRegReq_ByteSizeLong)
  BY DEF SizerFits, WritesType, WireOf, Numbers, Enums, VarintSize, Digits,
    PushRegReq_Class, PushRegReq_ByteSizeLong
<1>13. SizerFits(PushData_Class, PushData_ByteSizeLong)
  BY DEF SizerFits, WritesType, WireOf, Numbers, Enums, VarintSize, Digits,
    PushData_Class, PushData_ByteSizeLong
<1>14. SizerFits(PushToClientReq_Class, PushToClientReq_ByteSizeLong)
  BY DEF SizerFits, WritesType, WireOf, Numbers, Enums, VarintSize, Digits,
    PushToClientReq_Class, PushToClientReq_ByteSizeLong
<1>15. SizerFits(PushToClientResp_Class, PushToClientResp_ByteSizeLong)
  BY DEF SizerFits, WritesType, WireOf, Numbers, Enums, VarintSize, Digits,
    PushToClientResp_Class, PushToClientResp_ByteSizeLong
<1>16. SizerFits(PushToGroupReq_Class, PushToGroupReq_ByteSizeLong)
  BY DEF SizerFits, WritesType, WireOf, Numbers, Enums, VarintSize, Digits,
    PushToGroupReq_Class, PushToGroupReq_ByteSizeLong
<1>17. SizerFits(PushToGroupResp_Class, PushToGroupResp_ByteSizeLong)
  BY DEF SizerFits, WritesType, WireOf, Numbers, Enums, VarintSize, Digits,
    PushToGroupResp_Class, PushToGroupResp_ByteSizeLong
<1> QED
  BY <1>1, <1>2, <1>3, <1>4, <1>5, <1>6, <1>7, <1>8, <1>9, <1>10, <1>11,
     <1>12, <1>13, <1>14, <1>15, <1>16, <1>17
  DEF Types, Class, ByteSizeLong

(* The length of bytes, token by token. *)
LEMMA ByteLengthFacts ==
  ASSUME NEW A, \A t \in A : t.n \in Nat
  PROVE  /\ ByteLength(<<>>) = 0
         /\ \A t \in A : TokenSize(t) \in Nat
         /\ \A b \in Seq(A) : ByteLength(b) \in Nat
         /\ \A b \in Seq(A), t \in A :
              ByteLength(Append(b, t)) = ByteLength(b) + TokenSize(t)
<1>1. \A b : ByteLength(b) = Sizing!Fold(<<>>, 0, b)
  BY DEF ByteLength, Sizing!Fold, AddSize, FoldLeft, MapThenFoldSet, Max,
    Sizing!FoldLeft, Sizing!MapThenFoldSet, Sizing!Max
<1>2. ByteLength(<<>>) = 0
  BY <1>1, Sizing!FoldEmpty
<1>3. ASSUME NEW t \in A PROVE TokenSize(t) \in Nat
  <2>1. t.n \in Nat
    OBVIOUS
  <2> QED BY <2>1, DigitsType DEF TokenSize, VarintSize
<1>4. ASSUME NEW b \in Seq(A), NEW t \in A
      PROVE  ByteLength(Append(b, t)) = ByteLength(b) + TokenSize(t)
  <2>1. Sizing!Fold(<<>>, 0, Append(b, t))
          = AddSize(<<>>, Sizing!Fold(<<>>, 0, b), t)
    BY Sizing!FoldAppend
  <2> QED BY <1>1, <2>1 DEF AddSize
<1> QED BY <1>2, <1>3, <1>4, ByteLengthType

(* Concatenated bytes are as long as both. *)
LEMMA ByteLengthConcat ==
  ASSUME NEW A, \A t \in A : t.n \in Nat, NEW b \in Seq(A)
  PROVE  \A c \in Seq(A) : ByteLength(b \o c) = ByteLength(b) + ByteLength(c)
<1> DEFINE T == {c \in Seq(A) :
                   ByteLength(b \o c) = ByteLength(b) + ByteLength(c)}
<1>1. <<>> \in T
  <2>1. b \o <<>> = b /\ <<>> \in Seq(A)
    OBVIOUS
  <2>2. ByteLength(b) \in Nat /\ ByteLength(<<>>) = 0
    BY ByteLengthFacts
  <2> QED BY <2>1, <2>2
<1>2. ASSUME NEW c \in Seq(A), NEW t \in A, c \in T
      PROVE  Append(c, t) \in T
  <2>1. /\ b \o c \in Seq(A) /\ b \o Append(c, t) = Append(b \o c, t)
        /\ Append(c, t) \in Seq(A)
    BY ConcatAppended, LastAppended
  <2>2. /\ ByteLength(Append(c, t)) = ByteLength(c) + TokenSize(t)
        /\ ByteLength(c) \in Nat /\ ByteLength(b) \in Nat
        /\ TokenSize(t) \in Nat
    BY ByteLengthFacts
  <2>3. ByteLength(Append(b \o c, t)) = ByteLength(b \o c) + TokenSize(t)
    <3> DEFINE u == b \o c
    <3> HIDE DEF u
    <3>1. u \in Seq(A)
      BY <2>1 DEF u
    <3>2. ByteLength(Append(u, t)) = ByteLength(u) + TokenSize(t)
      BY <3>1, ByteLengthFacts
    <3> QED BY <3>2 DEF u
  <2>4. ByteLength(b \o c) = ByteLength(b) + ByteLength(c)
    BY <1>2
  <2>5. ByteLength(b \o Append(c, t)) = ByteLength(b) + ByteLength(Append(c, t))
    <3>1. \A i, j, k \in Nat : (i + j) + k = i + (j + k)
      OBVIOUS
    <3>2. ByteLength(b \o Append(c, t))
            = (ByteLength(b) + ByteLength(c)) + TokenSize(t)
      BY <2>1, <2>3, <2>4, Zenon
    <3>3. ByteLength(b) + ByteLength(Append(c, t))
            = ByteLength(b) + (ByteLength(c) + TokenSize(t))
      BY <2>2, Zenon
    <3> QED BY <2>2, <3>1, <3>2, <3>3, Zenon
  <2> QED BY <2>1, <2>5, Zenon
<1>3. Seq(A) \subseteq T
  <2> HIDE DEF T
  <2> QED BY <1>1, <1>2, Sizing!SeqSetInduction
<1> QED BY <1>3

(* p names different elements, for which h has the sizes of the tokens b. *)
Different(p) == \A i, j \in DOMAIN p : p[i] = p[j] => i = j
Sized(b, p, h) ==
  /\ Len(p) = Len(b) /\ Different(p)
  /\ \A i \in DOMAIN b : h[p[i]] = TokenSize(b[i])
Covers(p, S) == \A x \in S : \E i \in DOMAIN p : p[i] = x
Named(p) == {p[i] : i \in DOMAIN p}

(* The length of tokens is the sum of their sizes, whatever names them. *)
LEMMA LengthIsSum ==
  ASSUME NEW A, \A t \in A : t.n \in Nat, NEW S, IsFiniteSet(S),
         NEW h, DOMAIN h = S, NEW b, b \in Seq(A), NEW p, p \in Seq(S),
         Sized(b, p, h), Covers(p, S), Counts(h, S)
  PROVE  ByteLength(b) = SumFunction(h)
<1>1. PICK g : Sums(h, g, S) /\ SumFunction(h) = g[S]
  BY SumIs
<1>2. /\ \A s \in SUBSET S : g[s] \in Nat
      /\ g[{}] = 0
      /\ \A s \in SUBSET S : \A x \in s : g[s] = h[x] + g[s \ {x}]
  <2>1. TakesOut(h, g, S)
    BY <1>1, SumsTakeOut
  <2> QED BY <2>1 DEF TakesOut
<1> DEFINE Is(c, q) == ByteLength(c) = g[Named(q)]
           T == {c \in Seq(A) : \A q \in Seq(S) : Sized(c, q, h) => Is(c, q)}
<1>3. <<>> \in T
  <2> SUFFICES ASSUME NEW q \in Seq(S), Sized(<<>>, q, h) PROVE Is(<<>>, q)
    BY EmptySeq
  <2>1. Len(q) = 0 /\ DOMAIN q = 1..Len(q)
    BY DEF Sized
  <2>2. Named(q) = {}
    BY <2>1 DEF Named
  <2> QED BY <1>2, <2>2, ByteLengthFacts
<1>4. ASSUME NEW c \in Seq(A), NEW t \in A, c \in T
      PROVE  Append(c, t) \in T
  <2> DEFINE l == Append(c, t)
             n == Len(c)
  <2>1. /\ l \in Seq(A) /\ n \in Nat /\ DOMAIN c = 1..n
        /\ DOMAIN l = 1..(n + 1) /\ l[n + 1] = t
        /\ \A i \in 1..n : l[i] = c[i]
    BY LastAppended
  <2>2. Len(l) = n + 1
    BY <2>1
  <2> HIDE DEF l
  <2> SUFFICES ASSUME NEW q \in Seq(S), Sized(l, q, h) PROVE Is(l, q)
    BY <2>1 DEF l
  <2>3. Len(q) = n + 1 /\ Len(q) # 0
    BY <2>1, <2>2 DEF Sized
  <2>4. PICK r \in Seq(S), x \in S : q = Append(r, x) /\ Len(r) = n
    <3>1. PICK r \in Seq(S), x \in S : q = Append(r, x) /\ Len(r) = Len(q) - 1
      BY <2>3, Sizing!FrontFacts
    <3>2. Len(q) - 1 = n
      BY <2>1, <2>3
    <3> HIDE DEF n
    <3> QED BY <3>1, <3>2, Zenon
  <2> HIDE DEF n
  <2>5. /\ DOMAIN r = 1..n /\ DOMAIN q = 1..(n + 1) /\ q[n + 1] = x
        /\ \A i \in 1..n : q[i] = r[i]
    BY <2>4, LastAppended
  <2>6. /\ n + 1 \in 1..(n + 1) /\ \A i \in 1..n : i \in 1..(n + 1) /\ i # n + 1
        /\ \A i \in 1..(n + 1) : i \in 1..n \/ i = n + 1
    BY <2>1
  <2>7. Different(r) /\ x \notin Named(r)
    BY <2>5, <2>6 DEF Sized, Different, Named
  <2>8. /\ Named(q) \in SUBSET S /\ x \in Named(q)
        /\ Named(q) \ {x} = Named(r)
    <3>1. ASSUME NEW y PROVE y \in Named(q) <=> y \in Named(r) \cup {x}
      <4>1. ASSUME NEW i \in 1..(n + 1) PROVE q[i] \in Named(r) \cup {x}
        <5>1. CASE i = n + 1
          BY <2>5, <5>1
        <5>2. CASE i \in 1..n
          BY <2>5, <5>2 DEF Named
        <5> QED BY <2>6, <5>1, <5>2
      <4>2. ASSUME NEW i \in 1..n PROVE r[i] \in Named(q)
        <5>1. i \in 1..(n + 1) /\ r[i] = q[i]
          BY <2>5, <2>6
        <5> QED BY <2>5, <5>1 DEF Named
      <4>3. x \in Named(q)
        BY <2>5, <2>6 DEF Named
      <4> QED BY <2>5, <4>1, <4>2, <4>3 DEF Named
    <3>2. Named(q) = Named(r) \cup {x}
      BY <3>1
    <3>3. \A i \in DOMAIN r : r[i] \in S
      OBVIOUS
    <3>4. Named(r) \in SUBSET S
      BY <3>3 DEF Named
    <3> QED BY <2>7, <3>2, <3>4
  <2>9. Sized(c, r, h)
    BY <2>1, <2>4, <2>5, <2>6, <2>7 DEF Sized, n
  <2>10. ByteLength(c) = g[Named(r)]
    BY <1>4, <2>9
  <2>11. h[x] = TokenSize(t)
    BY <2>1, <2>5, <2>6 DEF Sized
  <2>12. g[Named(q)] = h[x] + g[Named(r)]
    BY <1>2, <2>8, Zenon
  <2>13. /\ ByteLength(l) = ByteLength(c) + TokenSize(t)
         /\ ByteLength(c) \in Nat /\ TokenSize(t) \in Nat
    BY ByteLengthFacts DEF l
  <2>14. \A i, j \in Nat : i + j = j + i
    OBVIOUS
  <2> QED BY <2>10, <2>11, <2>12, <2>13, <2>14, Zenon
<1>5. Seq(A) \subseteq T
  <2> HIDE DEF T
  <2> QED BY <1>3, <1>4, Sizing!SeqSetInduction
<1>6. ByteLength(b) = g[Named(p)]
  <2>1. b \in T
    BY <1>5
  <2> QED BY <2>1
<1>7. Named(p) = S
  <2>1. \A i \in DOMAIN p : p[i] \in S
    OBVIOUS
  <2> QED BY <2>1 DEF Named, Covers
<1> QED BY <1>1, <1>6, <1>7

-----------------------------------------------------------------------------
(* The bytes of a single field. *)
LEMMA SingleLength ==
  ASSUME NEW t, t.n \in Nat
  PROVE  ByteLength(<<t>>) = TokenSize(t)
<1> DEFINE A == {t}
<1>1. /\ \A x \in A : x.n \in Nat
      /\ t \in A
      /\ <<>> \in Seq(A) /\ Append(<<>>, t) = <<t>>
  OBVIOUS
<1> HIDE DEF A
<1>2. /\ ByteLength(<<>>) = 0 /\ TokenSize(t) \in Nat
      /\ \A b \in Seq(A), x \in A :
           ByteLength(Append(b, x)) = ByteLength(b) + TokenSize(x)
  BY <1>1, ByteLengthFacts
<1>3. ByteLength(Append(<<>>, t)) = ByteLength(<<>>) + TokenSize(t)
  BY <1>1, <1>2, Zenon
<1>4. \A n \in Nat : 0 + n = n
  OBVIOUS
<1>5. ByteLength(<<t>>) = 0 + TokenSize(t)
  BY <1>1, <1>2, <1>3, Zenon
<1> QED BY <1>2, <1>4, <1>5, Zenon

(* Nothing has no length. *)
LEMMA EmptyLength == ByteLength(<<>>) = 0
<1>1. PICK A : A = {}
  OBVIOUS
<1> QED BY <1>1, ByteLengthFacts

(* The sizes of the fields, with their tags. *)
LEMMA TokenSizes ==
  ASSUME NEW num \in Nat
  PROVE  /\ \A n \in Nat : TokenSize(Varint(num, n))
                             = VarintSize(8 * num) + VarintSize(n)
         /\ \A b : ByteLength(b) \in Nat =>
              TokenSize(Delimited(num, b))
                = VarintSize(8 * num + 2) + Prefixed(ByteLength(b))
<1>1. \A n : VarintSize(n) \in Nat
  BY DigitsType DEF VarintSize
<1>2. ASSUME NEW n \in Nat
      PROVE  TokenSize(Varint(num, n)) = VarintSize(8 * num) + VarintSize(n)
  <2> DEFINE t == Varint(num, n)
  <2>1. t.wt = "varint" /\ t.n = n /\ t.num = num
    BY DEF Varint
  <2> HIDE DEF t
  <2>2. Tag(t) = 8 * num
    BY <2>1 DEF Tag, WireType
  <2> QED BY <2>1, <2>2 DEF TokenSize, t
<1>3. ASSUME NEW b, ByteLength(b) \in Nat
      PROVE  TokenSize(Delimited(num, b))
               = VarintSize(8 * num + 2) + Prefixed(ByteLength(b))
  <2> DEFINE t == Delimited(num, b)
             l == ByteLength(b)
             v == VarintSize(8 * num + 2)
  <2>1. t.wt = "delimited" /\ t.n = l /\ t.num = num
    BY DEF Delimited
  <2>2. l \in Nat /\ VarintSize(l) \in Nat /\ v \in Nat
    BY <1>1, <1>3
  <2> HIDE DEF t, l
  <2>3. Tag(t) = 8 * num + 2
    BY <2>1 DEF Tag, WireType
  <2>4. TokenSize(t) = v + VarintSize(l) + l
    BY <2>1, <2>3 DEF TokenSize
  <2> HIDE DEF v
  <2>5. TokenSize(t) = v + Prefixed(l)
    BY <2>2, <2>4 DEF Prefixed
  <2> QED BY <2>5 DEF t, l, v
<1> QED BY <1>2, <1>3

(* Delimited fields, one for each body that p names, and their sizes. *)
Bodies(num, body, p) == [i \in DOMAIN p |-> Delimited(num, body[p[i]])]
BodySizes(num, body) ==
  [x \in DOMAIN body |->
     VarintSize(8 * num + 2) + Prefixed(ByteLength(body[x]))]

(* Together they are as long as the sum of those. *)
LEMMA BodiesLength ==
  ASSUME NEW A, \A t \in A : t.n \in Nat, NEW num \in Nat,
         NEW body, IsFiniteSet(DOMAIN body),
         \A x \in DOMAIN body : body[x] \in Seq(A),
         NEW p, p \in Seq(DOMAIN body), Different(p), Covers(p, DOMAIN body)
  PROVE  ByteLength(Bodies(num, body, p)) = SumFunction(BodySizes(num, body))
<1> DEFINE S == DOMAIN body
           K == TokensOf(A)
           b == Bodies(num, body, p)
           h == BodySizes(num, body)
<1>1. \A t \in K : t.n \in Nat
  BY NumbersWithin
<1>2. \A x \in S : ByteLength(body[x]) \in Nat
  BY ByteLengthType
<1>3. \A x \in S : Delimited(num, body[x]) \in K
  BY DelimitedType
<1>4. DOMAIN h = S
      /\ \A x \in S : h[x] = VarintSize(8 * num + 2)
                               + Prefixed(ByteLength(body[x]))
  BY DEF BodySizes
<1>5. \A x \in S : h[x] = TokenSize(Delimited(num, body[x]))
  BY <1>2, <1>4, TokenSizes
<1>6. \A x \in S : h[x] \in Nat
  <2>1. \A n : VarintSize(n) \in Nat
    BY DigitsType DEF VarintSize
  <2> HIDE DEF h
  <2> QED BY <1>2, <1>4, <2>1 DEF Prefixed
<1>7. /\ Len(p) \in Nat /\ DOMAIN p = 1..Len(p) /\ DOMAIN b = DOMAIN p
      /\ \A i \in DOMAIN p : p[i] \in S /\ b[i] = Delimited(num, body[p[i]])
  BY DEF Bodies
<1>8. b \in Seq(K) /\ Len(b) = Len(p)
  <2>1. \A i \in 1..Len(p) : b[i] \in K
    BY <1>3, <1>7
  <2>2. b = [i \in 1..Len(p) |-> b[i]]
    BY <1>7 DEF Bodies
  <2> HIDE DEF b, K
  <2> QED BY <1>7, <2>1, <2>2
<1> HIDE DEF h, b, K
<1>9. Sized(b, p, h)
  BY <1>5, <1>7, <1>8 DEF Sized
<1>10. Counts(h, S)
  BY <1>6 DEF Counts
<1>11. ByteLength(b) = SumFunction(h)
  <2> DEFINE R == DOMAIN body
  <2>1. IsFiniteSet(R) /\ p \in Seq(R) /\ Covers(p, R) /\ DOMAIN h = R
        /\ Counts(h, R)
    BY <1>4, <1>10
  <2> HIDE DEF R
  <2> QED BY <1>1, <1>8, <1>9, <2>1, LengthIsSum
<1> QED BY <1>11 DEF b, h

(* The sizes of the messages within, as they are written. *)
SizesMatch(nested, sizes) ==
  \A x \in DOMAIN nested : sizes[x] = ByteLength(nested[x])

(* What is written for a number is a number. *)
LEMMA SignedIsNat == \A v \in Nat : SignExtend(v) \in Nat
<1>1. Long - EnumWord \in Nat
  BY WidthsAssumption
<1> QED BY <1>1 DEF SignExtend

(* A field that is no message is as long as its size. *)
LEMMA ScalarLength ==
  ASSUME NEW ty \in Types, NEW m, NEW nested, NEW sizes, NEW A,
         Writable(ty, m, nested, A), NEW f \in DOMAIN Class[ty],
         FieldType(ty, f) \notin {"UserGroup*", "map"}
  PROVE  LET row == ByteSizeLong[ty][f]
         IN ByteLength(FieldBytes(ty, m, nested, f))
              = FieldSize(ty, m, row[2], f, row[1], sizes)
<1> DEFINE T == FieldType(ty, f)
           num == Class[ty][f][1]
           o == ByteSizeLong[ty][f][1]
           kind == ByteSizeLong[ty][f][2]
           v == m[f]
<1>1. /\ num \in Nat /\ T \in FieldTypes /\ T \notin {"UserGroup*", "map"}
      /\ o = VarintSize(8 * num + WireOf(T)) /\ WritesType(kind, T)
  BY ClassesFit, SizersFit DEF ClassFits, SizerFits, FieldType
<1>2. /\ \A t \in A : t.n \in Nat
      /\ T \in Strings => v \in Seq(A)
      /\ T \in Numbers => v \in Nat
  BY DEF Writable
<1>3. FieldBytes(ty, m, nested, f) =
        IF v = Default(T) THEN <<>>
        ELSE IF T \in Strings THEN <<Delimited(num, v)>>
        ELSE <<NumberToken(T, num, v)>>
  BY <1>1 DEF FieldBytes
<1>4. FieldSize(ty, m, kind, f, o, sizes) =
        IF v = Default(T) THEN 0 ELSE o + ValueSize(kind, v)
  <2>1. kind \notin {"Message", "Entry"}
    BY <1>1 DEF WritesType, Enums
  <2> HIDE DEF kind, o
  <2> QED BY <2>1 DEF FieldSize, IsDefault
<1> HIDE DEF T, num, o, kind, v
<1>5. CASE v = Default(T)
  BY <1>3, <1>4, <1>5, EmptyLength DEF o, kind
<1>6. ASSUME v # Default(T), T \in Strings
      PROVE  ByteLength(FieldBytes(ty, m, nested, f))
               = FieldSize(ty, m, kind, f, o, sizes)
  <2>1. kind \in {"String", "Bytes"} /\ o = VarintSize(8 * num + 2)
    BY <1>1, <1>6 DEF WritesType, WireOf, Numbers, Enums, Strings
  <2>2. ByteLength(v) \in Nat
    BY <1>2, <1>6, ByteLengthType
  <2>3. ByteLength(<<Delimited(num, v)>>) = TokenSize(Delimited(num, v))
    <3>1. Delimited(num, v).n \in Nat
      BY <2>2 DEF Delimited
    <3> QED BY <3>1, SingleLength
  <2>4. TokenSize(Delimited(num, v)) = o + Prefixed(ByteLength(v))
    BY <1>1, <2>1, <2>2, TokenSizes
  <2>5. ValueSize(kind, v) = Prefixed(ByteLength(v))
    BY <2>1 DEF ValueSize
  <2> QED BY <1>3, <1>4, <1>6, <2>3, <2>4, <2>5
<1>7. ASSUME v # Default(T), T \notin Strings
      PROVE  ByteLength(FieldBytes(ty, m, nested, f))
               = FieldSize(ty, m, kind, f, o, sizes)
  <2> DEFINE n == IF T = "bool" THEN 1
                  ELSE IF T \in Enums THEN SignExtend(v) ELSE v
  <2>1. T \in Numbers \cup {"bool"} /\ o = VarintSize(8 * num)
    BY <1>1, <1>7 DEF FieldTypes, Scalars, WireOf, Numbers
  <2>2. n \in Nat
    BY <1>2, <2>1, SignedIsNat
  <2>3. ValueSize(kind, v) = VarintSize(n)
    <3>1. VarintSize(1) = 1
      BY DEF VarintSize, Digits
    <3>2. CASE T = "bool"
      BY <1>1, <3>1, <3>2 DEF WritesType, ValueSize, Enums
    <3>3. CASE T \in Enums
      BY <1>1, <3>3 DEF WritesType, ValueSize, Enums
    <3>4. CASE T \in {"uint32", "uint64"}
      BY <1>1, <3>4 DEF WritesType, ValueSize, Enums
    <3> QED BY <2>1, <3>2, <3>3, <3>4 DEF Numbers
  <2>4. NumberToken(T, num, v) = Varint(num, n)
    BY DEF NumberToken
  <2> HIDE DEF n
  <2>5. ByteLength(<<Varint(num, n)>>) = TokenSize(Varint(num, n))
    <3>1. Varint(num, n).n \in Nat
      BY <2>2 DEF Varint
    <3> QED BY <3>1, SingleLength
  <2>6. TokenSize(Varint(num, n)) = o + VarintSize(n)
    BY <1>1, <2>1, <2>2, TokenSizes
  <2> QED BY <1>3, <1>4, <1>7, <2>3, <2>4, <2>5, <2>6
<1> QED BY <1>5, <1>6, <1>7 DEF o, kind
(* A field of messages is as long as its size, one body for each. *)
LEMMA GroupsLength ==
  ASSUME NEW ty \in Types, NEW m, NEW nested, NEW sizes, NEW A,
         Writable(ty, m, nested, A), SizesMatch(nested, sizes),
         NEW f \in DOMAIN Class[ty], FieldType(ty, f) = "UserGroup*"
  PROVE  LET row == ByteSizeLong[ty][f]
         IN ByteLength(FieldBytes(ty, m, nested, f))
              = FieldSize(ty, m, row[2], f, row[1], sizes)
<1> DEFINE num == Class[ty][f][1]
           o == ByteSizeLong[ty][f][1]
           v == m[f]
           S == DOMAIN v
           body == [i \in S |-> nested[v[i]]]
           p == [i \in S |-> i]
<1>1. /\ num \in Nat /\ o = VarintSize(8 * num + 2)
      /\ ByteSizeLong[ty][f][2] = "Message"
  BY ClassesFit, SizersFit
  DEF ClassFits, SizerFits, FieldType, WireOf, WritesType, Numbers, Enums
<1>2. /\ \A t \in A : t.n \in Nat
      /\ v \in Seq(DOMAIN nested)
      /\ \A i \in S : nested[v[i]] \in Seq(A)
  BY DEF Writable
<1>3. /\ S = 1..Len(v) /\ Len(v) \in Nat
      /\ \A i \in S : v[i] \in DOMAIN nested
  BY <1>2
<1>4. IsFiniteSet(S)
  <2>1. 1 \in Int /\ Len(v) \in Int
    BY <1>3
  <2> HIDE DEF S
  <2> QED BY <1>3, <2>1, FS_Interval
<1>5. FieldBytes(ty, m, nested, f) = Bodies(num, body, p)
  BY DEF FieldBytes, Bodies
<1>6. FieldSize(ty, m, ByteSizeLong[ty][f][2], f, o, sizes)
        = SumFunction(BodySizes(num, body))
  <2>1. \A i \in S : sizes[v[i]] = ByteLength(body[i])
    BY <1>3 DEF SizesMatch
  <2>2. [i \in S |-> o + Prefixed(sizes[v[i]])] = BodySizes(num, body)
    <3> HIDE DEF o
    <3>1. DOMAIN body = S
      OBVIOUS
    <3> HIDE DEF body, num
    <3> QED BY <1>1, <2>1, <3>1 DEF BodySizes
  <2> QED BY <1>1, <2>2 DEF FieldSize
<1>7. /\ DOMAIN body = S /\ \A i \in S : body[i] \in Seq(A)
  BY <1>2
<1>8. p \in Seq(S) /\ Different(p) /\ Covers(p, S)
  <2>1. DOMAIN p = S /\ \A i \in S : p[i] = i
    OBVIOUS
  <2>2. Different(p) /\ Covers(p, S)
    <3> HIDE DEF p
    <3> QED BY <2>1 DEF Different, Covers
  <2>3. p \in Seq(S)
    <3> HIDE DEF S
    <3> QED BY <1>3
  <2> QED BY <2>2, <2>3
<1> HIDE DEF body, p, num, S, v, o
<1>9. ByteLength(Bodies(num, body, p)) = SumFunction(BodySizes(num, body))
  <2>1. PICK q : q = p
    OBVIOUS
  <2>2. q \in Seq(DOMAIN body) /\ Different(q) /\ Covers(q, DOMAIN body)
    BY <1>7, <1>8, <2>1
  <2>3. IsFiniteSet(DOMAIN body) /\ \A x \in DOMAIN body : body[x] \in Seq(A)
    BY <1>4, <1>7
  <2> QED BY <1>1, <1>2, <2>1, <2>2, <2>3, BodiesLength
<1> QED BY <1>5, <1>6, <1>9 DEF o

(* So is a map, one body for each key, in whatever order they are written. *)
LEMMA EntriesLength ==
  ASSUME NEW ty \in Types, NEW m, NEW nested, NEW sizes, NEW A,
         Writable(ty, m, nested, A),
         NEW f \in DOMAIN Class[ty], FieldType(ty, f) = "map"
  PROVE  LET row == ByteSizeLong[ty][f]
         IN ByteLength(FieldBytes(ty, m, nested, f))
              = FieldSize(ty, m, row[2], f, row[1], sizes)
<1> DEFINE num == Class[ty][f][1]
           o == ByteSizeLong[ty][f][1]
           v == m[f]
           S == DOMAIN v
           body == [k \in S |-> EntryBytes(k, v[k])]
           p == SetToSeq(S)
<1>1. /\ num \in Nat /\ o = VarintSize(8 * num + 2)
      /\ ByteSizeLong[ty][f][2] = "Entry"
  BY ClassesFit, SizersFit
  DEF ClassFits, SizerFits, FieldType, WireOf, WritesType, Numbers, Enums
<1>2. /\ \A t \in A : t.n \in Nat
      /\ IsFiniteSet(S)
      /\ \A k \in S : EntryBytes(k, v[k]) \in Seq(A)
  BY DEF Writable
<1>3. p \in Seq(S) /\ Different(p) /\ Covers(p, S)
  BY <1>2, SetToSeqFacts DEF Different, Covers
<1>4. \A i \in DOMAIN p : p[i] \in S
  <2> HIDE DEF p, S
  <2> QED BY <1>3
<1>5. FieldBytes(ty, m, nested, f) = Bodies(num, body, p)
  <2>1. FieldBytes(ty, m, nested, f)
          = [i \in DOMAIN p |-> Delimited(num, EntryBytes(p[i], v[p[i]]))]
    BY DEF FieldBytes, WriteEntries
  <2>2. \A i \in DOMAIN p : body[p[i]] = EntryBytes(p[i], v[p[i]])
    BY <1>4
  <2> HIDE DEF p, body, num
  <2> QED BY <2>1, <2>2 DEF Bodies
<1>6. FieldSize(ty, m, ByteSizeLong[ty][f][2], f, o, sizes)
        = SumFunction(BodySizes(num, body))
  <2>1. [k \in S |-> o + Prefixed(ByteLength(EntryBytes(k, v[k])))]
          = BodySizes(num, body)
    <3> HIDE DEF o
    <3>1. DOMAIN body = S /\ \A k \in S : body[k] = EntryBytes(k, v[k])
      OBVIOUS
    <3> HIDE DEF body, num
    <3> QED BY <1>1, <3>1 DEF BodySizes
  <2> QED BY <1>1, <2>1 DEF FieldSize
<1>7. /\ DOMAIN body = S /\ \A k \in S : body[k] \in Seq(A)
  BY <1>2
<1> HIDE DEF body, p, num, S, v, o
<1>9. ByteLength(Bodies(num, body, p)) = SumFunction(BodySizes(num, body))
  <2>1. PICK q : q = p
    OBVIOUS
  <2>2. q \in Seq(DOMAIN body) /\ Different(q) /\ Covers(q, DOMAIN body)
    BY <1>3, <1>7, <2>1
  <2>3. IsFiniteSet(DOMAIN body) /\ \A x \in DOMAIN body : body[x] \in Seq(A)
    BY <1>2, <1>7
  <2> QED BY <1>1, <1>2, <2>1, <2>2, <2>3, BodiesLength
<1> QED BY <1>5, <1>6, <1>9 DEF o

(* The size of every field is the length of its bytes. *)
FieldsMatch(ty, m, nested, sizes) ==
  \A f \in DOMAIN Class[ty] :
    ByteLength(FieldBytes(ty, m, nested, f))
      = FieldSize(ty, m, ByteSizeLong[ty][f][2], f, ByteSizeLong[ty][f][1],
                  sizes)

(* It is, of everything that can be written. *)
LEMMA FieldLength ==
  ASSUME NEW ty \in Types, NEW m, NEW nested, NEW sizes, NEW A,
         Writable(ty, m, nested, A), SizesMatch(nested, sizes)
  PROVE  FieldsMatch(ty, m, nested, sizes)
<1> SUFFICES ASSUME NEW f \in DOMAIN Class[ty]
             PROVE  ByteLength(FieldBytes(ty, m, nested, f))
                      = FieldSize(ty, m, ByteSizeLong[ty][f][2], f,
                                  ByteSizeLong[ty][f][1], sizes)
  BY DEF FieldsMatch
<1>1. CASE FieldType(ty, f) = "UserGroup*"
  BY <1>1, GroupsLength
<1>2. CASE FieldType(ty, f) = "map"
  BY <1>2, EntriesLength
<1>3. CASE FieldType(ty, f) \notin {"UserGroup*", "map"}
  BY <1>3, ScalarLength
<1> QED BY <1>1, <1>2, <1>3

(* The declared fields of a message are finitely many. *)
LEMMA FieldsFinite == \A ty \in Types : IsFiniteSet(DOMAIN Class[ty])
<1> SUFFICES ASSUME NEW ty \in Types PROVE IsFiniteSet(DOMAIN Class[ty])
  OBVIOUS
<1>1. SerializeToArray \in Serializers
  BY DEF Serializers
<1> DEFINE t == SerializeToArray[ty]
           F == DOMAIN Class[ty]
           h == [i \in DOMAIN t |-> t[i][1]]
<1>2. WriterFits(Class[ty], t)
  BY <1>1, WritersFit
<1> HIDE DEF t, F
<1>3. /\ t \in Seq({t[i] : i \in DOMAIN t})
      /\ \A i \in DOMAIN t : t[i][1] \in F
      /\ \A f \in F : \E i \in DOMAIN t : t[i][1] = f
  BY <1>2 DEF WriterFits, F
<1>4. DOMAIN t = 1..Len(t) /\ Len(t) \in Nat
  BY <1>3
<1>5. IsFiniteSet(1..Len(t))
  <2>1. 1 \in Int /\ Len(t) \in Int
    BY <1>4
  <2> QED BY <2>1, FS_Interval
<1>6. h \in Surjection(DOMAIN t, F)
  BY <1>3 DEF Surjection
<1> HIDE DEF h
<1>7. IsFiniteSet(F)
  BY <1>4, <1>5, <1>6, FS_Surjection
<1> QED BY <1>7 DEF F

(* The sizes of the fields, as ByteSizeLong adds them up. *)
FieldSizes(ty, m, sizes) ==
  LET table == ByteSizeLong[ty]
  IN [f \in DOMAIN table |->
        FieldSize(ty, m, table[f][2], f, table[f][1], sizes)]

(* The sizes are numbers, one for each field. *)
LEMMA FieldSizesFacts ==
  ASSUME NEW ty \in Types, NEW m, NEW nested, NEW sizes, NEW A,
         Writable(ty, m, nested, A), SizesMatch(nested, sizes)
  PROVE  /\ DOMAIN FieldSizes(ty, m, sizes) = DOMAIN Class[ty]
         /\ \A f \in DOMAIN Class[ty] :
              FieldSizes(ty, m, sizes)[f]
                = ByteLength(FieldBytes(ty, m, nested, f))
         /\ Counts(FieldSizes(ty, m, sizes), DOMAIN Class[ty])
<1>1. DOMAIN ByteSizeLong[ty] = DOMAIN Class[ty]
  BY SizersFit DEF SizerFits
<1>2. ASSUME NEW f \in DOMAIN Class[ty]
      PROVE  /\ FieldSizes(ty, m, sizes)[f]
                  = ByteLength(FieldBytes(ty, m, nested, f))
             /\ ByteLength(FieldBytes(ty, m, nested, f)) \in Nat
  <2>1. FieldSizes(ty, m, sizes)[f]
          = FieldSize(ty, m, ByteSizeLong[ty][f][2], f, ByteSizeLong[ty][f][1],
                      sizes)
    BY <1>1 DEF FieldSizes
  <2>2. FieldsMatch(ty, m, nested, sizes)
    BY FieldLength
  <2>3. FieldBytes(ty, m, nested, f) \in Seq(TokensOf(A))
    BY FieldBytesType
  <2>4. \A b \in Seq(TokensOf(A)) : ByteLength(b) \in Nat
    <3>1. PICK K : K = TokensOf(A)
      OBVIOUS
    <3>2. \A t \in K : t.n \in Nat
      BY <3>1, NumbersWithin
    <3> QED BY <3>1, <3>2, ByteLengthType
  <2>5. ByteLength(FieldBytes(ty, m, nested, f)) \in Nat
    BY <2>3, <2>4, Zenon
  <2> QED BY <2>1, <2>2, <2>5, Zenon DEF FieldsMatch
<1>3. DOMAIN FieldSizes(ty, m, sizes) = DOMAIN Class[ty]
  BY <1>1 DEF FieldSizes
<1> QED BY <1>2, <1>3 DEF Counts

(* The fields that a part of a serialiser's table writes. *)
Rows(s) == {s[i][1] : i \in DOMAIN s}

(* What the first rows of a serialiser's table have written is as long as    *)
(* the sum of the sizes of their fields.                                     *)
LEMMA PartLength ==
  ASSUME NEW ty \in Types, NEW table, WriterFits(Class[ty], table),
         NEW m, NEW nested, NEW sizes, NEW A, Writable(ty, m, nested, A),
         SizesMatch(nested, sizes),
         NEW g, TakesOut(FieldSizes(ty, m, sizes), g, DOMAIN Class[ty])
  PROVE  \A s \in Seq({table[i] : i \in DOMAIN table}) :
           Once(s) => ByteLength(Fields_(s, ty, m, nested)) = g[Rows(s)]
<1> DEFINE W == {table[i] : i \in DOMAIN table}
           F == DOMAIN Class[ty]
           B(s) == Fields_(s, ty, m, nested)
           G(f) == FieldBytes(ty, m, nested, f)
           K == TokensOf(A)
           h == FieldSizes(ty, m, sizes)
           T == {s \in Seq(W) : Once(s) => ByteLength(B(s)) = g[Rows(s)]}
<1>0. /\ \A s \in SUBSET F : g[s] \in Nat
      /\ g[{}] = 0
      /\ \A s \in SUBSET F : \A x \in s : g[s] = h[x] + g[s \ {x}]
      /\ \A f \in F : h[f] = ByteLength(G(f)) /\ G(f) \in Seq(K)
      /\ \A t \in K : t.n \in Nat
  BY FieldSizesFacts, FieldBytesType, NumbersWithin DEF TakesOut
<1>1. <<>> \in T
  <2>1. B(<<>>) = <<>>
    BY WriteFieldsFold, EmptySeq
  <2>2. Rows(<<>>) = {}
    BY DEF Rows
  <2>3. <<>> \in Seq(W)
    OBVIOUS
  <2> HIDE DEF B, W
  <2> QED BY <1>0, <2>1, <2>2, <2>3, EmptyLength
<1>2. ASSUME NEW s \in Seq(W), NEW w \in W, s \in T
      PROVE  Append(s, w) \in T
  <2> DEFINE l == Append(s, w)
             f == w[1]
  <2>1. l \in Seq(W) /\ Len(s) \in Nat /\ DOMAIN s = 1..Len(s)
        /\ DOMAIN l = 1..(Len(s) + 1) /\ l[Len(s) + 1] = w
        /\ \A i \in 1..Len(s) : l[i] = s[i]
    BY LastAppended
  <2>2. SUFFICES ASSUME Once(l) PROVE ByteLength(B(l)) = g[Rows(l)]
    BY <2>1
  <2> HIDE DEF l
  <2>3. \A i \in DOMAIN l : i = Len(s) + 1 \/ i \in DOMAIN s
    BY <2>1
  <2>4. Len(s) + 1 \in DOMAIN l
        /\ \A i \in DOMAIN s : i \in DOMAIN l /\ i # Len(s) + 1
    BY <2>1
  <2>5. Once(s) /\ f \notin Rows(s)
    <3>1. Once(s)
      BY <2>1, <2>2, <2>4 DEF Once
    <3>2. ASSUME NEW i \in DOMAIN s, s[i][1] = f PROVE FALSE
      <4>1. i = Len(s) + 1
        BY <2>1, <2>2, <2>4, <3>2 DEF Once
      <4> QED BY <2>4, <4>1
    <3> QED BY <3>1, <3>2 DEF Rows
  <2>6. Rows(l) = Rows(s) \cup {f}
    <3>1. \A i \in DOMAIN l : l[i][1] \in Rows(s) \cup {f}
      BY <2>1, <2>3 DEF Rows
    <3>2. \A i \in DOMAIN s : s[i][1] \in Rows(l)
      <4> SUFFICES ASSUME NEW i \in DOMAIN s PROVE s[i][1] \in Rows(l)
        OBVIOUS
      <4>1. i \in DOMAIN l /\ l[i] = s[i]
        BY <2>1, <2>4
      <4> QED BY <4>1 DEF Rows
    <3>3. f \in Rows(l)
      BY <2>1, <2>4 DEF Rows
    <3> HIDE DEF f
    <3>4. Rows(l) \subseteq Rows(s) \cup {f}
      BY <3>1 DEF Rows
    <3>5. Rows(s) \subseteq Rows(l)
      BY <3>2 DEF Rows
    <3> QED BY <3>3, <3>4, <3>5
  <2>7. Rows(l) \in SUBSET F /\ f \in Rows(l) /\ Rows(l) \ {f} = Rows(s)
    <3>1. ASSUME NEW x \in W PROVE x[1] \in F
      <4>1. PICK i \in DOMAIN table : x = table[i]
        OBVIOUS
      <4> QED BY <4>1 DEF WriterFits
    <3>2. \A i \in DOMAIN l : l[i] \in W
      <4> HIDE DEF W
      <4> QED BY <2>1
    <3>3. Rows(l) \in SUBSET F
      BY <3>1, <3>2 DEF Rows
    <3> QED BY <2>5, <2>6, <3>3
  <2>8. f \in F /\ B(l) = B(s) \o G(f)
    <3>1. PICK i \in DOMAIN table : w = table[i]
      OBVIOUS
    <3>2. f \in F
      BY <3>1 DEF WriterFits
    <3>3. WriteField(ty, m, w[2], w[1], w[3], nested) = G(f)
      BY <3>1, WriteFieldIs
    <3>4. B(Append(s, w)) =
            B(s) \o WriteField(ty, m, w[2], w[1], w[3], nested)
      <4> HIDE DEF W
      <4> QED BY WriteFieldsFold
    <3> QED BY <3>2, <3>3, <3>4 DEF l
  <2>9. B(s) \in Seq(K)
    BY <2>5, PartIsWritten
  <2> HIDE DEF f, B, G, K, h
  <2>10. ByteLength(B(s)) = g[Rows(s)]
    BY <1>2, <2>5
  <2>11. ByteLength(B(l)) = ByteLength(B(s)) + ByteLength(G(f))
    BY <1>0, <2>8, <2>9, ByteLengthConcat
  <2>12. g[Rows(l)] = ByteLength(G(f)) + g[Rows(s)]
    BY <1>0, <2>7, <2>8
  <2>13. ByteLength(B(s)) \in Nat /\ ByteLength(G(f)) \in Nat
    BY <1>0, <2>8, <2>9, ByteLengthType
  <2>14. \A i, j \in Nat : i + j = j + i
    OBVIOUS
  <2> QED BY <2>10, <2>11, <2>12, <2>13, <2>14, Zenon
<1>3. Seq(W) \subseteq T
  <2> HIDE DEF T, W
  <2> QED BY <1>1, <1>2, Writing!SeqSetInduction
<1> QED BY <1>3

(* A message is as long as ByteSizeLong says, if the messages within are. *)
LEMMA MessageLength ==
  ASSUME NEW ty \in Types, NEW table, WriterFits(Class[ty], table),
         NEW m, NEW nested, NEW sizes, NEW A, Writable(ty, m, nested, A),
         SizesMatch(nested, sizes)
  PROVE  ByteLength(WriteFields(table, ty, m, nested))
           = SizeOfFields(ty, m, sizes)
<1> DEFINE h == FieldSizes(ty, m, sizes)
           F == DOMAIN Class[ty]
           K == TokensOf(A)
           b == Fields_(table, ty, m, nested)
           u == m.unknown
<1>1. IsFiniteSet(F) /\ DOMAIN h = F /\ Counts(h, F)
  BY FieldsFinite, FieldSizesFacts
<1>2. SizeOfFields(ty, m, sizes) = ByteLength(u) + SumFunction(h)
  BY DEF SizeOfFields, FieldSizes
<1>3. WriteFields(table, ty, m, nested) = b \o u
  BY DEF WriteFields, Fields_
<1>4. /\ table \in Seq({table[i] : i \in DOMAIN table}) /\ Once(table)
      /\ Rows(table) = F
  BY DEF WriterFits, Once, Rows
<1>5. b \in Seq(K) /\ u \in Seq(K) /\ \A t \in K : t.n \in Nat
  BY <1>4, PartIsWritten, NumbersWithin DEF Writable
<1> HIDE DEF h, b, u, K
<1>6. PICK g : Sums(h, g, F) /\ SumFunction(h) = g[F]
  BY <1>1, SumIs
<1>7. TakesOut(h, g, F)
  BY <1>1, <1>6, SumsTakeOut
<1>8. ByteLength(b) = g[Rows(table)]
  BY <1>4, <1>7, PartLength DEF b, h
<1>9. ByteLength(b \o u) = ByteLength(b) + ByteLength(u)
  BY <1>5, ByteLengthConcat
<1>10. ByteLength(b) \in Nat /\ ByteLength(u) \in Nat
  BY <1>5, ByteLengthType
<1>11. \A i, j \in Nat : i + j = j + i
  OBVIOUS
<1>12. ByteLength(b) = SumFunction(h)
  BY <1>4, <1>6, <1>8
<1> QED BY <1>2, <1>3, <1>9, <1>10, <1>11, <1>12, Zenon

(* A group is written, and as long as ByteSizeLong says. *)
LEMMA GroupLength ==
  ASSUME NEW w \in Serializers, NEW B, \A t \in B : t.n \in Nat,
         NEW g \in GroupMessages(B)
  PROVE  ByteLength(WriteFields(w["UserGroup"], "UserGroup", g, <<>>))
           = SizeOfFields("UserGroup", g, <<>>)
<1>1. "UserGroup" \in Types /\ WriterFits(Class["UserGroup"], w["UserGroup"])
  BY UserGroupClass, WritersFit
<1>2. PICK e : e = <<>>
  OBVIOUS
<1>3. Writable("UserGroup", g, e, B) /\ SizesMatch(e, e)
  BY <1>2, GroupIsWritable DEF SizesMatch
<1>4. PICK ty : ty = "UserGroup"
  OBVIOUS
<1>5. PICK table : table = w["UserGroup"]
  OBVIOUS
<1>6. ByteLength(WriteFields(table, ty, g, e)) = SizeOfFields(ty, g, e)
  <2>1. ty \in Types /\ WriterFits(Class[ty], table)
        /\ Writable(ty, g, e, B)
    BY <1>1, <1>3, <1>4, <1>5
  <2> QED BY <1>3, <2>1, MessageLength
<1> QED BY <1>2, <1>4, <1>5, <1>6

(* What any serialiser writes of a message is as long as ByteSizeLong says.  *)
LEMMA SerializedLength ==
  ASSUME NEW w \in Serializers, NEW ty \in Types, NEW B,
         \A t \in B : t.n \in Nat, NEW m, IsMessageOver(ty, m, B)
  PROVE  Size(ty, m) = ByteLength(Serialize(w, ty, m))
<1> DEFINE nested == WriteGroups(w, ty, m)
           sizes == [g \in Groups(ty, m) |-> SizeOfFields("UserGroup", g, <<>>)]
           A == TokensOf(B)
<1>1. Size(ty, m) = SizeOfFields(ty, m, sizes)
  BY DEF Size
<1>2. Serialize(w, ty, m) = WriteFields(w[ty], ty, m, nested)
  BY DEF Serialize
<1>3. Writable(ty, m, nested, A)
  BY MessagesAreWritable
<1>4. SizesMatch(nested, sizes)
  <2>1. \A g \in Groups(ty, m) :
          ByteLength(WriteFields(w["UserGroup"], "UserGroup", g, <<>>))
            = SizeOfFields("UserGroup", g, <<>>)
    BY GroupsAreGroups, GroupLength
  <2> QED BY <2>1 DEF SizesMatch, WriteGroups
<1>5. WriterFits(Class[ty], w[ty])
  BY WritersFit
<1> HIDE DEF nested, sizes, A
<1>6. PICK table : table = w[ty]
  OBVIOUS
<1>7. ByteLength(WriteFields(table, ty, m, nested))
        = SizeOfFields(ty, m, sizes)
  BY <1>3, <1>4, <1>5, <1>6, MessageLength
<1> QED BY <1>1, <1>2, <1>6, <1>7

=============================================================================
