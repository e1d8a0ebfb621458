-------------------------- MODULE PushGateWayWrite --------------------------
(*****************************************************************************)
(* The two serializers and the size that protoc generates for every class:   *)
(* the fields in the order they are written, each with the function that     *)
(* writes it and its number, and for the size the bytes of a field's tag and *)
(* the function that adds the rest.                                          *)
(*****************************************************************************)

UserGroup_SerializeWithCachedSizes ==
  <<<<"userGroupType", "UInt64", 1>>, <<"userGroupId", "UInt64", 2>>>>
UserGroup_SerializeToArray ==
  <<<<"userGroupType", "UInt64", 1>>, <<"userGroupId", "UInt64", 2>>>>
UserGroup_ByteSizeLong ==
  [userGroupType |-> <<1, "UInt64">>, userGroupId |-> <<1, "UInt64">>]

LoginRequest_SerializeWithCachedSizes ==
  <<<<"appid", "String", 1>>, <<"uid", "UInt32", 2>>, <<"suid", "UInt64", 3>>,
    <<"reLogin", "Bool", 4>>, <<"ticket", "Bytes", 5>>,
    <<"cookie", "Bytes", 6>>, <<"context", "Bytes", 7>>,
    <<"account", "String", 8>>, <<"password", "String", 9>>,
    <<"appKey", "UInt64", 10>>, <<"termnialType", "Enum", 11>>>>
LoginRequest_SerializeToArray ==
  <<<<"appid", "String", 1>>, <<"uid", "UInt32", 2>>, <<"suid", "UInt64", 3>>,
    <<"reLogin", "Bool", 4>>, <<"ticket", "Bytes", 5>>,
    <<"cookie", "Bytes", 6>>, <<"context", "Bytes", 7>>,
    <<"account", "String", 8>>, <<"password", "String", 9>>,
    <<"appKey", "UInt64", 10>>, <<"termnialType", "Enum", 11>>>>
LoginRequest_ByteSizeLong ==
  [appid |-> <<1, "String">>, ticket |-> <<1, "Bytes">>,
   cookie |-> <<1, "Bytes">>, context |-> <<1, "Bytes">>,
   account |-> <<1, "String">>, password |-> <<1, "String">>,
   suid |-> <<1, "UInt64">>, uid |-> <<1, "UInt32">>,
   reLogin |-> <<1, "Bool">>, appKey |-> <<1, "UInt64">>,
   termnialType |-> <<1, "Enum">>]

LoginResponse_SerializeWithCachedSizes ==
  <<<<"resCode", "UInt32", 1>>, <<"uid", "UInt32", 2>>,
    <<"suid", "UInt64", 3>>, <<"context", "Bytes", 4>>,
    <<"pushgwIp", "UInt64", 5>>, <<"pushgwPort", "UInt32", 6>>,
    <<"errMsg", "String", 12>>>>
LoginResponse_SerializeToArray ==
  <<<<"resCode", "UInt32", 1>>, <<"uid", "UInt32", 2>>,
    <<"suid", "UInt64", 3>>, <<"context", "Bytes", 4>>,
    <<"pushgwIp", "UInt64", 5>>, <<"pushgwPort", "UInt32", 6>>,
    <<"errMsg", "String", 12>>>>
LoginResponse_ByteSizeLong ==
  [context |-> <<1, "Bytes">>, errMsg |-> <<1, "String">>,
   resCode |-> <<1, "UInt32">>, uid |-> <<1, "UInt32">>,
   suid |-> <<1, "UInt64">>, pushgwIp |-> <<1, "UInt64">>,
   pushgwPort |-> <<1, "UInt32">>]

LogoutRequest_SerializeWithCachedSizes ==
  <<<<"appid", "String", 1>>, <<"suid", "UInt64", 2>>, <<"uid", "UInt32", 3>>,
    <<"context", "Bytes", 4>>, <<"appKey", "UInt64", 5>>,
    <<"termnialType", "Enum", 6>>>>
LogoutRequest_SerializeToArray ==
  <<<<"appid", "String", 1>>, <<"suid", "UInt64", 2>>, <<"uid", "UInt32", 3>>,
    <<"context", "Bytes", 4>>, <<"appKey", "UInt64", 5>>,
    <<"termnialType", "Enum", 6>>>>
LogoutRequest_ByteSizeLong ==
  [appid |-> <<1, "String">>, context |-> <<1, "Bytes">>,
   suid |-> <<1, "UInt64">>, uid |-> <<1, "UInt32">>,
   termnialType |-> <<1, "Enum">>, appKey |-> <<1, "UInt64">>]

LogoutResponse_SerializeWithCachedSizes ==
  <<<<"resCode", "UInt32", 1>>, <<"uid", "UInt32", 2>>,
    <<"suid", "UInt64", 3>>, <<"context", "Bytes", 4>>,
    <<"pushgwIp", "UInt64", 5>>, <<"pushgwPort", "UInt32", 6>>,
    <<"errMsg", "String", 12>>>>
LogoutResponse_SerializeToArray ==
  <<<<"resCode", "UInt32", 1>>, <<"uid", "UInt32", 2>>,
    <<"suid", "UInt64", 3>>, <<"context", "Bytes", 4>>,
    <<"pushgwIp", "UInt64", 5>>, <<"pushgwPort", "UInt32", 6>>,
    <<"errMsg", "String", 12>>>>
LogoutResponse_ByteSizeLong ==
  [context |-> <<1, "Bytes">>, errMsg |-> <<1, "String">>,
   resCode |-> <<1, "UInt32">>, uid |-> <<1, "UInt32">>,
   suid |-> <<1, "UInt64">>, pushgwIp |-> <<1, "UInt64">>,
   pushgwPort |-> <<1, "UInt32">>]

JoinGroupRequest_SerializeWithCachedSizes ==
  <<<<"uid", "UInt32", 1>>, <<"suid", "UInt64", 2>>, <<"context", "Bytes", 3>>,
    <<"userGroupSet", "Message", 4>>>>
JoinGroupRequest_SerializeToArray ==
  <<<<"uid", "UInt32", 1>>, <<"suid", "UInt64", 2>>, <<"context", "Bytes", 3>>,
    <<"userGroupSet", "Message", 4>>>>
JoinGroupRequest_ByteSizeLong ==
  [userGroupSet |-> <<1, "Message">>, context |-> <<1, "Bytes">>,
   suid |-> <<1, "UInt64">>, uid |-> <<1, "UInt32">>]

JoinGroupResponse_SerializeWithCachedSizes ==
  <<<<"uid", "UInt32", 1>>, <<"suid", "UInt64", 2>>,
    <<"resCode", "UInt32", 3>>, <<"context", "Bytes", 4>>,
    <<"pushgwIp", "UInt64", 5>>, <<"pushgwPort", "UInt32", 6>>,
    <<"userGroupSet", "Message", 7>>, <<"errMsg", "String", 12>>>>
JoinGroupResponse_SerializeToArray ==
  <<<<"uid", "UInt32", 1>>, <<"suid", "UInt64", 2>>,
    <<"resCode", "UInt32", 3>>, <<"context", "Bytes", 4>>,
    <<"pushgwIp", "UInt64", 5>>, <<"pushgwPort", "UInt32", 6>>,
    <<"userGroupSet", "Message", 7>>, <<"errMsg", "String", 12>>>>
JoinGroupResponse_ByteSizeLong ==
  [userGroupSet |-> <<1, "Message">>, context |-> <<1, "Bytes">>,
   errMsg |-> <<1, "String">>, suid |-> <<1, "UInt64">>,
   uid |-> <<1, "UInt32">>, resCode |-> <<1, "UInt32">>,
   pushgwIp |-> <<1, "UInt64">>, pushgwPort |-> <<1, "UInt32">>]

LeaveGroupRequest_SerializeWithCachedSizes ==
  <<<<"uid", "UInt32", 1>>, <<"suid", "UInt64", 2>>, <<"context", "Bytes", 3>>,
    <<"userGroupSet", "Message", 4>>>>
LeaveGroupRequest_SerializeToArray ==
  <<<<"uid", "UInt32", 1>>, <<"suid", "UInt64", 2>>, <<"context", "Bytes", 3>>,
    <<"userGroupSet", "Message", 4>>>>
LeaveGroupRequest_ByteSizeLong ==
  [userGroupSet |-> <<1, "Message">>, context |-> <<1, "Bytes">>,
   suid |-> <<1, "UInt64">>, uid |-> <<1, "UInt32">>]

LeaveGroupResponse_SerializeWithCachedSizes ==
  <<<<"uid", "UInt32", 1>>, <<"suid", "UInt64", 2>>,
    <<"resCode", "UInt32", 3>>, <<"context", "Bytes", 4>>,
    <<"pushgwIp", "UInt64", 5>>, <<"pushgwPort", "UInt32", 6>>,
    <<"userGroupSet", "Message", 7>>, <<"errMsg", "String", 12>>>>
LeaveGroupResponse_SerializeToArray ==
  <<<<"uid", "UInt32", 1>>, <<"suid", "UInt64", 2>>,
    <<"resCode", "UInt32", 3>>, <<"context", "Bytes", 4>>,
    <<"pushgwIp", "UInt64", 5>>, <<"pushgwPort", "UInt32", 6>>,
    <<"userGroupSet", "Message", 7>>, <<"errMsg", "String", 12>>>>
LeaveGroupResponse_ByteSizeLong ==
  [userGroupSet |-> <<1, "Message">>, context |-> <<1, "Bytes">>,
   errMsg |-> <<1, "String">>, suid |-> <<1, "UInt64">>,
   uid |-> <<1, "UInt32">>, resCode |-> <<1, "UInt32">>,
   pushgwIp |-> <<1, "UInt64">>, pushgwPort |-> <<1, "UInt32">>]

PingRequest_SerializeWithCachedSizes ==
  <<<<"uid", "UInt32", 1>>, <<"suid", "UInt64", 2>>,
    <<"context", "Bytes", 3>>>>
PingRequest_SerializeToArray ==
  <<<<"uid", "UInt32", 1>>, <<"suid", "UInt64", 2>>,
    <<"context", "Bytes", 3>>>>
PingRequest_ByteSizeLong ==
  [context |-> <<1, "Bytes">>, suid |-> <<1, "UInt64">>,
   uid |-> <<1, "UInt32">>]

PongResponse_SerializeWithCachedSizes ==
  <<<<"uid", "UInt32", 1>>, <<"suid", "UInt64", 2>>, <<"context", "Bytes", 3>>,
    <<"pushgwIp", "UInt64", 5>>, <<"pushgwPort", "UInt32", 6>>>>
PongResponse_SerializeToArray ==
  <<<<"uid", "UInt32", 1>>, <<"suid", "UInt64", 2>>, <<"context", "Bytes", 3>>,
    <<"pushgwIp", "UInt64", 5>>, <<"pushgwPort", "UInt32", 6>>>>
PongResponse_ByteSizeLong ==
  [context |-> <<1, "Bytes">>, suid |-> <<1, "UInt64">>,
   uid |-> <<1, "UInt32">>, pushgwPort |-> <<1, "UInt32">>,
   pushgwIp |-> <<1, "UInt64">>]

PushRegReq_SerializeWithCachedSizes ==
  <<<<"uri", "Enum", 1>>, <<"msgData", "Bytes", 2>>>>
PushRegReq_SerializeToArray ==
  <<<<"uri", "Enum", 1>>, <<"msgData", "Bytes", 2>>>>
(* Mutant: an enum sized as an unsigned number. *)
PushRegReq_SizeUnsigned ==
  [msgData |-> <<1, "Bytes">>, uri |-> <<1, "UInt32">>]
PushRegReq_ByteSizeLong ==
  [msgData |-> <<1, "Bytes">>, uri |-> <<1, "Enum">>]

PushData_SerializeWithCachedSizes ==
  <<<<"suid", "UInt64", 1>>, <<"uid", "UInt32", 2>>,
    <<"GroupType", "UInt64", 3>>, <<"GroupId", "UInt64", 4>>,
    <<"serviceName", "String", 5>>, <<"uri", "Enum", 6>>,
    <<"msgData", "Bytes", 7>>, <<"seqNum", "UInt64", 8>>,
    <<"serverId", "String", 9>>, <<"key2Exstr", "Entry", 10>>,
    <<"originalURI", "UInt32", 11>>>>
PushData_SerializeToArray ==
  <<<<"suid", "UInt64", 1>>, <<"uid", "UInt32", 2>>,
    <<"GroupType", "UInt64", 3>>, <<"GroupId", "UInt64", 4>>,
    <<"serviceName", "String", 5>>, <<"uri", "Enum", 6>>,
    <<"msgData", "Bytes", 7>>, <<"seqNum", "UInt64", 8>>,
    <<"serverId", "String", 9>>, <<"key2Exstr", "Entry", 10>>,
    <<"originalURI", "UInt32", 11>>>>
PushData_ByteSizeLong ==
  [key2Exstr |-> <<1, "Entry">>, serviceName |-> <<1, "String">>,
   msgData |-> <<1, "Bytes">>, serverId |-> <<1, "String">>,
   suid |-> <<1, "UInt64">>, GroupType |-> <<1, "UInt64">>,
   GroupId |-> <<1, "UInt64">>, uid |-> <<1, "UInt32">>, uri |-> <<1, "Enum">>,
   seqNum |-> <<1, "UInt64">>, originalURI |-> <<1, "UInt32">>]

PushToClientReq_SerializeWithCachedSizes ==
  <<<<"context", "Bytes", 1>>, <<"fromSrvId", "String", 2>>,
    <<"serviceName", "String", 3>>, <<"suid", "UInt64", 4>>,
    <<"uid", "UInt32", 5>>, <<"fromUid", "UInt32", 6>>, <<"data", "Bytes", 9>>,
    <<"key2Exstr", "Entry", 10>>, <<"seqid", "UInt64", 11>>,
    <<"originalURI", "UInt32", 12>>>>
PushToClientReq_SerializeToArray ==
  <<<<"context", "Bytes", 1>>, <<"fromSrvId", "String", 2>>,
    <<"serviceName", "String", 3>>, <<"suid", "UInt64", 4>>,
    <<"uid", "UInt32", 5>>, <<"fromUid", "UInt32", 6>>, <<"data", "Bytes", 9>>,
    <<"key2Exstr", "Entry", 10>>, <<"seqid", "UInt64", 11>>,
    <<"originalURI", "UInt32", 12>>>>
PushToClientReq_ByteSizeLong ==
  [key2Exstr |-> <<1, "Entry">>, context |-> <<1, "Bytes">>,
   fromSrvId |-> <<1, "String">>, serviceName |-> <<1, "String">>,
   data |-> <<1, "Bytes">>, suid |-> <<1, "UInt64">>, uid |-> <<1, "UInt32">>,
   fromUid |-> <<1, "UInt32">>, seqid |-> <<1, "UInt64">>,
   originalURI |-> <<1, "UInt32">>]

PushToClientResp_SerializeWithCachedSizes ==
  <<<<"resCode", "UInt32", 1>>, <<"context", "Bytes", 2>>,
    <<"seqid", "UInt64", 3>>>>
PushToClientResp_SerializeToArray ==
  <<<<"resCode", "UInt32", 1>>, <<"context", "Bytes", 2>>,
    <<"seqid", "UInt64", 3>>>>
PushToClientResp_ByteSizeLong ==
  [context |-> <<1, "Bytes">>, seqid |-> <<1, "UInt64">>,
   resCode |-> <<1, "UInt32">>]

PushToGroupReq_SerializeWithCachedSizes ==
  <<<<"context", "Bytes", 1>>, <<"fromSrvId", "String", 2>>,
    <<"serviceName", "String", 3>>, <<"fromUid", "UInt32", 6>>,
    <<"GroupType", "UInt64", 7>>, <<"GroupId", "UInt64", 8>>,
    <<"data", "Bytes", 9>>, <<"key2Exstr", "Entry", 10>>,
    <<"seqid", "UInt64", 11>>, <<"originalURI", "UInt32", 12>>>>
PushToGroupReq_SerializeToArray ==
  <<<<"context", "Bytes", 1>>, <<"fromSrvId", "String", 2>>,
    <<"serviceName", "String", 3>>, <<"fromUid", "UInt32", 6>>,
    <<"GroupType", "UInt64", 7>>, <<"GroupId", "UInt64", 8>>,
    <<"data", "Bytes", 9>>, <<"key2Exstr", "Entry", 10>>,
    <<"seqid", "UInt64", 11>>, <<"originalURI", "UInt32", 12>>>>
PushToGroupReq_ByteSizeLong ==
  [key2Exstr |-> <<1, "Entry">>, context |-> <<1, "Bytes">>,
   fromSrvId |-> <<1, "String">>, serviceName |-> <<1, "String">>,
   data |-> <<1, "Bytes">>, GroupType |-> <<1, "UInt64">>,
   GroupId |-> <<1, "UInt64">>, fromUid |-> <<1, "UInt32">>,
   originalURI |-> <<1, "UInt32">>, seqid |-> <<1, "UInt64">>]

PushToGroupResp_SerializeWithCachedSizes ==
  <<<<"resCode", "UInt32", 1>>, <<"context", "Bytes", 2>>,
    <<"seqid", "UInt64", 3>>>>
PushToGroupResp_SerializeToArray ==
  <<<<"resCode", "UInt32", 1>>, <<"context", "Bytes", 2>>,
    <<"seqid", "UInt64", 3>>>>
PushToGroupResp_ByteSizeLong ==
  [context |-> <<1, "Bytes">>, seqid |-> <<1, "UInt64">>,
   resCode |-> <<1, "UInt32">>]

(* The virtual functions of the classes, by the name of the class. *)
SerializeWithCachedSizes ==
  [UserGroup |-> UserGroup_SerializeWithCachedSizes,
   LoginRequest |-> LoginRequest_SerializeWithCachedSizes,
   LoginResponse |-> LoginResponse_SerializeWithCachedSizes,
   LogoutRequest |-> LogoutRequest_SerializeWithCachedSizes,
   LogoutResponse |-> LogoutResponse_SerializeWithCachedSizes,
   JoinGroupRequest |-> JoinGroupRequest_SerializeWithCachedSizes,
   JoinGroupResponse |-> JoinGroupResponse_SerializeWithCachedSizes,
   LeaveGroupRequest |-> LeaveGroupRequest_SerializeWithCachedSizes,
   LeaveGroupResponse |-> LeaveGroupResponse_SerializeWithCachedSizes,
   PingRequest |-> PingRequest_SerializeWithCachedSizes,
   PongResponse |-> PongResponse_SerializeWithCachedSizes,
   PushRegReq |-> PushRegReq_SerializeWithCachedSizes,
   PushData |-> PushData_SerializeWithCachedSizes,
   PushToClientReq |-> PushToClientReq_SerializeWithCachedSizes,
   PushToClientResp |-> PushToClientResp_SerializeWithCachedSizes,
   PushToGroupReq |-> PushToGroupReq_SerializeWithCachedSizes,
   PushToGroupResp |-> PushToGroupResp_SerializeWithCachedSizes]
SerializeToArray ==
  [UserGroup |-> UserGroup_SerializeToArray,
   LoginRequest |-> LoginRequest_SerializeToArray,
   LoginResponse |-> LoginResponse_SerializeToArray,
   LogoutRequest |-> LogoutRequest_SerializeToArray,
   LogoutResponse |-> LogoutResponse_SerializeToArray,
   JoinGroupRequest |-> JoinGroupRequest_SerializeToArray,
   JoinGroupResponse |-> JoinGroupResponse_SerializeToArray,
   LeaveGroupRequest |-> LeaveGroupRequest_SerializeToArray,
   LeaveGroupResponse |-> LeaveGroupResponse_SerializeToArray,
   PingRequest |-> PingRequest_SerializeToArray,
   PongResponse |-> PongResponse_SerializeToArray,
   PushRegReq |-> PushRegReq_SerializeToArray,
   PushData |-> PushData_SerializeToArray,
   PushToClientReq |-> PushToClientReq_SerializeToArray,
   PushToClientResp |-> PushToClientResp_SerializeToArray,
   PushToGroupReq |-> PushToGroupReq_SerializeToArray,
   PushToGroupResp |-> PushToGroupResp_SerializeToArray]
ByteSizeLong ==
  [UserGroup |-> UserGroup_ByteSizeLong,
   LoginRequest |-> LoginRequest_ByteSizeLong,
   LoginResponse |-> LoginResponse_ByteSizeLong,
   LogoutRequest |-> LogoutRequest_ByteSizeLong,
   LogoutResponse |-> LogoutResponse_ByteSizeLong,
   JoinGroupRequest |-> JoinGroupRequest_ByteSizeLong,
   JoinGroupResponse |-> JoinGroupResponse_ByteSizeLong,
   LeaveGroupRequest |-> LeaveGroupRequest_ByteSizeLong,
   LeaveGroupResponse |-> LeaveGroupResponse_ByteSizeLong,
   PingRequest |-> PingRequest_ByteSizeLong,
   PongResponse |-> PongResponse_ByteSizeLong,
   PushRegReq |-> PushRegReq_ByteSizeLong, PushData |-> PushData_ByteSizeLong,
   PushToClientReq |-> PushToClientReq_ByteSizeLong,
   PushToClientResp |-> PushToClientResp_ByteSizeLong,
   PushToGroupReq |-> PushToGroupReq_ByteSizeLong,
   PushToGroupResp |-> PushToGroupResp_ByteSizeLong]
=============================================================================
