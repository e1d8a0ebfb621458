---------------------------- MODULE PushGateWay -----------------------------
(*****************************************************************************)
(* The messages of pushGateWay.proto as their generated classes hold them.   *)
(* X_Class gives for every field of class X its number and its C++ type,     *)
(* X_Clear the fields that Clear resets, and X_MergeFrom how MergeFrom takes *)
(* each field from another message: "assign" when it is not the default      *)
(* there, "merge" always.  What the entries mean is in Message.              *)
(*****************************************************************************)

UserGroup_Class ==
  [userGroupType |-> <<1, "uint64">>, userGroupId |-> <<2, "uint64">>]
UserGroup_Clear ==
  {"userGroupType", "userGroupId"}
UserGroup_MergeFrom ==
  [userGroupType |-> "assign", userGroupId |-> "assign"]

LoginRequest_Class ==
  [appid |-> <<1, "string">>, uid |-> <<2, "uint32">>,
   suid |-> <<3, "uint64">>, reLogin |-> <<4, "bool">>,
   ticket |-> <<5, "bytes">>, cookie |-> <<6, "bytes">>,
   context |-> <<7, "bytes">>, account |-> <<8, "string">>,
   password |-> <<9, "string">>, appKey |-> <<10, "uint64">>,
   termnialType |-> <<11, "UserTerminalType">>]
LoginRequest_Clear ==
  {"appid", "ticket", "cookie", "context", "account", "password", "suid",
   "uid", "reLogin", "appKey", "termnialType"}
LoginRequest_MergeFrom ==
  [appid |-> "assign", ticket |-> "assign", cookie |-> "assign",
   context |-> "assign", account |-> "assign", password |-> "assign",
   suid |-> "assign", uid |-> "assign", reLogin |-> "assign",
   appKey |-> "assign", termnialType |-> "assign"]

LoginResponse_Class ==
  [resCode |-> <<1, "uint32">>, uid |-> <<2, "uint32">>,
   suid |-> <<3, "uint64">>, context |-> <<4, "bytes">>,
   pushgwIp |-> <<5, "uint64">>, pushgwPort |-> <<6, "uint32">>,
   errMsg |-> <<12, "string">>]
LoginResponse_Clear ==
  {"context", "errMsg", "resCode", "uid", "suid", "pushgwIp", "pushgwPort"}
LoginResponse_MergeFrom ==
  [context |-> "assign", errMsg |-> "assign", resCode |-> "assign",
   uid |-> "assign", suid |-> "assign", pushgwIp |-> "assign",
   pushgwPort |-> "assign"]

LogoutRequest_Class ==
  [appid |-> <<1, "string">>, suid |-> <<2, "uint64">>,
   uid |-> <<3, "uint32">>, context |-> <<4, "bytes">>,
   appKey |-> <<5, "uint64">>, termnialType |-> <<6, "UserTerminalType">>]
LogoutRequest_Clear ==
  {"appid", "context", "suid", "uid", "termnialType", "appKey"}
LogoutRequest_MergeFrom ==
  [appid |-> "assign", context |-> "assign", suid |-> "assign",
   uid |-> "assign", termnialType |-> "assign", appKey |-> "assign"]

LogoutResponse_Class ==
  [resCode |-> <<1, "uint32">>, uid |-> <<2, "uint32">>,
   suid |-> <<3, "uint64">>, context |-> <<4, "bytes">>,
   pushgwIp |-> <<5, "uint64">>, pushgwPort |-> <<6, "uint32">>,
   errMsg |-> <<12, "string">>]
LogoutResponse_Clear ==
  {"context", "errMsg", "resCode", "uid", "suid", "pushgwIp", "pushgwPort"}
LogoutResponse_MergeFrom ==
  [context |-> "assign", errMsg |-> "assign", resCode |-> "assign",
   uid |-> "assign", suid |-> "assign", pushgwIp |-> "assign",
   pushgwPort |-> "assign"]

JoinGroupRequest_Class ==
  [uid |-> <<1, "uint32">>, suid |-> <<2, "uint64">>,
   context |-> <<3, "bytes">>, userGroupSet |-> <<4, "UserGroup*">>]
JoinGroupRequest_Clear ==
  {"userGroupSet", "context", "suid", "uid"}
JoinGroupRequest_MergeFrom ==
  [userGroupSet |-> "merge", context |-> "assign", suid |-> "assign",
   uid |-> "assign"]

JoinGroupResponse_Class ==
  [uid |-> <<1, "uint32">>, suid |-> <<2, "uint64">>,
   resCode |-> <<3, "uint32">>, context |-> <<4, "bytes">>,
   pushgwIp |-> <<5, "uint64">>, pushgwPort |-> <<6, "uint32">>,
   userGroupSet |-> <<7, "UserGroup*">>, errMsg |-> <<12, "string">>]
JoinGroupResponse_Clear ==
  {"userGroupSet", "context", "errMsg", "suid", "uid", "resCode", "pushgwIp",
   "pushgwPort"}
JoinGroupResponse_MergeFrom ==
  [userGroupSet |-> "merge", context |-> "assign", errMsg |-> "assign",
   suid |-> "assign", uid |-> "assign", resCode |-> "assign",
   pushgwIp |-> "assign", pushgwPort |-> "assign"]

LeaveGroupRequest_Class ==
  [uid |-> <<1, "uint32">>, suid |-> <<2, "uint64">>,
   context |-> <<3, "bytes">>, userGroupSet |-> <<4, "UserGroup*">>]
LeaveGroupRequest_Clear ==
  {"userGroupSet", "context", "suid", "uid"}
LeaveGroupRequest_MergeFrom ==
  [userGroupSet |-> "merge", context |-> "assign", suid |-> "assign",
   uid |-> "assign"]

LeaveGroupResponse_Class ==
  [uid |-> <<1, "uint32">>, suid |-> <<2, "uint64">>,
   resCode |-> <<3, "uint32">>, context |-> <<4, "bytes">>,
   pushgwIp |-> <<5, "uint64">>, pushgwPort |-> <<6, "uint32">>,
   userGroupSet |-> <<7, "UserGroup*">>, errMsg |-> <<12, "string">>]
LeaveGroupResponse_Clear ==
  {"userGroupSet", "context", "errMsg", "suid", "uid", "resCode", "pushgwIp",
   "pushgwPort"}
LeaveGroupResponse_MergeFrom ==
  [userGroupSet |-> "merge", context |-> "assign", errMsg |-> "assign",
   suid |-> "assign", uid |-> "assign", resCode |-> "assign",
   pushgwIp |-> "assign", pushgwPort |-> "assign"]

PingRequest_Class ==
  [uid |-> <<1, "uint32">>, suid |-> <<2, "uint64">>,
   context |-> <<3, "bytes">>]
PingRequest_Clear ==
  {"context", "suid", "uid"}
PingRequest_MergeFrom ==
  [context |-> "assign", suid |-> "assign", uid |-> "assign"]

PongResponse_Class ==
  [uid |-> <<1, "uint32">>, suid |-> <<2, "uint64">>,
   context |-> <<3, "bytes">>, pushgwIp |-> <<5, "uint64">>,
   pushgwPort |-> <<6, "uint32">>]
PongResponse_Clear ==
  {"context", "suid", "uid", "pushgwPort", "pushgwIp"}
PongResponse_MergeFrom ==
  [context |-> "assign", suid |-> "assign", uid |-> "assign",
   pushgwPort |-> "assign", pushgwIp |-> "assign"]

PushRegReq_Class ==
  [uri |-> <<1, "StreamURI">>, msgData |-> <<2, "bytes">>]
PushRegReq_Clear ==
  {"msgData", "uri"}
PushRegReq_MergeFrom ==
  [msgData |-> "assign", uri |-> "assign"]

PushData_Class ==
  [suid |-> <<1, "uint64">>, uid |-> <<2, "uint32">>,
   GroupType |-> <<3, "uint64">>, GroupId |-> <<4, "uint64">>,
   serviceName |-> <<5, "string">>, uri |-> <<6, "StreamURI">>,
   msgData |-> <<7, "bytes">>, seqNum |-> <<8, "uint64">>,
   serverId |-> <<9, "string">>, key2Exstr |-> <<10, "map">>,
   originalURI |-> <<11, "uint32">>]
PushData_Clear ==
  {"key2Exstr", "serviceName", "msgData", "serverId", "suid", "GroupType",
   "GroupId", "uid", "uri", "seqNum", "originalURI"}
PushData_MergeFrom ==
  [key2Exstr |-> "merge", serviceName |-> "assign", msgData |-> "assign",
   serverId |-> "assign", suid |-> "assign", GroupType |-> "assign",
   GroupId |-> "assign", uid |-> "assign", uri |-> "assign",
   seqNum |-> "assign", originalURI |-> "assign"]

PushToClientReq_Class ==
  [context |-> <<1, "bytes">>, fromSrvId |-> <<2, "string">>,
   serviceName |-> <<3, "string">>, suid |-> <<4, "uint64">>,
   uid |-> <<5, "uint32">>, fromUid |-> <<6, "uint32">>,
   data |-> <<9, "bytes">>, key2Exstr |-> <<10, "map">>,
   seqid |-> <<11, "uint64">>, originalURI |-> <<12, "uint32">>]
PushToClientReq_Clear ==
  {"key2Exstr", "context", "fromSrvId", "serviceName", "data", "suid", "uid",
   "fromUid", "seqid", "originalURI"}
PushToClientReq_MergeFrom ==
  [key2Exstr |-> "merge", context |-> "assign", fromSrvId |-> "assign",
   serviceName |-> "assign", data |-> "assign", suid |-> "assign",
   uid |-> "assign", fromUid |-> "assign", seqid |-> "assign",
   originalURI |-> "assign"]

PushToClientResp_Class ==
  [resCode |-> <<1, "uint32">>, context |-> <<2, "bytes">>,
   seqid |-> <<3, "uint64">>]
PushToClientResp_Clear ==
  {"context", "seqid", "resCode"}
PushToClientResp_MergeFrom ==
  [context |-> "assign", seqid |-> "assign", resCode |-> "assign"]

PushToGroupReq_Class ==
  [context |-> <<1, "bytes">>, fromSrvId |-> <<2, "string">>,
   serviceName |-> <<3, "string">>, fromUid |-> <<6, "uint32">>,
   GroupType |-> <<7, "uint64">>, GroupId |-> <<8, "uint64">>,
   data |-> <<9, "bytes">>, key2Exstr |-> <<10, "map">>,
   seqid |-> <<11, "uint64">>, originalURI |-> <<12, "uint32">>]
PushToGroupReq_Clear ==
  {"key2Exstr", "context", "fromSrvId", "serviceName", "data", "GroupType",
   "GroupId", "fromUid", "originalURI", "seqid"}
PushToGroupReq_MergeFrom ==
  [key2Exstr |-> "merge", context |-> "assign", fromSrvId |-> "assign",
   serviceName |-> "assign", data |-> "assign", GroupType |-> "assign",
   GroupId |-> "assign", fromUid |-> "assign", originalURI |-> "assign",
   seqid |-> "assign"]

PushToGroupResp_Class ==
  [resCode |-> <<1, "uint32">>, context |-> <<2, "bytes">>,
   seqid |-> <<3, "uint64">>]
PushToGroupResp_Clear ==
  {"context", "seqid", "resCode"}
PushToGroupResp_MergeFrom ==
  [context |-> "assign", seqid |-> "assign", resCode |-> "assign"]

(* The virtual functions of the classes, by the name of the class. *)
Class ==
  [UserGroup |-> UserGroup_Class, LoginRequest |-> LoginRequest_Class,
   LoginResponse |-> LoginResponse_Class,
   LogoutRequest |-> LogoutRequest_Class,
   LogoutResponse |-> LogoutResponse_Class,
   JoinGroupRequest |-> JoinGroupRequest_Class,
   JoinGroupResponse |-> JoinGroupResponse_Class,
   LeaveGroupRequest |-> LeaveGroupRequest_Class,
   LeaveGroupResponse |-> LeaveGroupResponse_Class,
   PingRequest |-> PingRequest_Class, PongResponse |-> PongResponse_Class,
   PushRegReq |-> PushRegReq_Class, PushData |-> PushData_Class,
   PushToClientReq |-> PushToClientReq_Class,
   PushToClientResp |-> PushToClientResp_Class,
   PushToGroupReq |-> PushToGroupReq_Class,
   PushToGroupResp |-> PushToGroupResp_Class]
Clears ==
  [UserGroup |-> UserGroup_Clear, LoginRequest |-> LoginRequest_Clear,
   LoginResponse |-> LoginResponse_Clear,
   LogoutRequest |-> LogoutRequest_Clear,
   LogoutResponse |-> LogoutResponse_Clear,
   JoinGroupRequest |-> JoinGroupRequest_Clear,
   JoinGroupResponse |-> JoinGroupResponse_Clear,
   LeaveGroupRequest |-> LeaveGroupRequest_Clear,
   LeaveGroupResponse |-> LeaveGroupResponse_Clear,
   PingRequest |-> PingRequest_Clear, PongResponse |-> PongResponse_Clear,
   PushRegReq |-> PushRegReq_Clear, PushData |-> PushData_Clear,
   PushToClientReq |-> PushToClientReq_Clear,
   PushToClientResp |-> PushToClientResp_Clear,
   PushToGroupReq |-> PushToGroupReq_Clear,
   PushToGroupResp |-> PushToGroupResp_Clear]
Merges ==
  [UserGroup |-> UserGroup_MergeFrom, LoginRequest |-> LoginRequest_MergeFrom,
   LoginResponse |-> LoginResponse_MergeFrom,
   LogoutRequest |-> LogoutRequest_MergeFrom,
   LogoutResponse |-> LogoutResponse_MergeFrom,
   JoinGroupRequest |-> JoinGroupRequest_MergeFrom,
   JoinGroupResponse |-> JoinGroupResponse_MergeFrom,
   LeaveGroupRequest |-> LeaveGroupRequest_MergeFrom,
   LeaveGroupResponse |-> LeaveGroupResponse_MergeFrom,
   PingRequest |-> PingRequest_MergeFrom,
   PongResponse |-> PongResponse_MergeFrom,
   PushRegReq |-> PushRegReq_MergeFrom, PushData |-> PushData_MergeFrom,
   PushToClientReq |-> PushToClientReq_MergeFrom,
   PushToClientResp |-> PushToClientResp_MergeFrom,
   PushToGroupReq |-> PushToGroupReq_MergeFrom,
   PushToGroupResp |-> PushToGroupResp_MergeFrom]

Types == DOMAIN Class

(* The enumerations, by the names of their values that the SDK uses. *)
StreamURI ==
  [UNKNOWN |-> 0, Login |-> 1001, LoginRes |-> 1002, Logout |-> 1003,
   LogoutRes |-> 1004, JoinGroup |-> 1005, JoinGroupRes |-> 1006,
   LeaveGroup |-> 1007, LeaveGroupRes |-> 1008, Ping |-> 1009, Pong |-> 1010,
   NotifyToClose |-> 1011, PushDataByUid |-> 1012, PushDataByGroup |-> 1013]
UserTerminalType ==
  [UNKNOWN |-> 0, DESKTOP |-> 1, WEB |-> 2, EDU |-> 3, IPAD |-> 4, APAD |-> 5,
   WEBYYH5 |-> 6, IPHONE |-> 7, ANDROID |-> 8, SERVER |-> 65535]
=============================================================================
