-------------------------- MODULE PushGateWayParse --------------------------
(*****************************************************************************)
(* The two parsers that protoc generates for every class, of which a build   *)
(* compiles one: for each field the tag byte its case accepts and what it    *)
(* reads with.  A field with any other tag is skipped into the unknown       *)
(* fields.                                                                   *)
(*****************************************************************************)

UserGroup_InternalParse ==
  [userGroupType |-> <<8, "varint">>, userGroupId |-> <<16, "varint">>]
UserGroup_MergePartialFromCodedStream ==
  [userGroupType |-> <<8, "uint64">>, userGroupId |-> <<16, "uint64">>]

LoginRequest_InternalParse ==
  [appid |-> <<10, "utf8">>, uid |-> <<16, "varint">>,
   suid |-> <<24, "varint">>, reLogin |-> <<32, "varint">>,
   ticket |-> <<42, "bytes">>, cookie |-> <<50, "bytes">>,
   context |-> <<58, "bytes">>, account |-> <<66, "utf8">>,
   password |-> <<74, "utf8">>, appKey |-> <<80, "varint">>,
   termnialType |-> <<88, "enum">>]
LoginRequest_MergePartialFromCodedStream ==
  [appid |-> <<10, "utf8">>, uid |-> <<16, "uint32">>,
   suid |-> <<24, "uint64">>, reLogin |-> <<32, "bool">>,
   ticket |-> <<42, "bytes">>, cookie |-> <<50, "bytes">>,
   context |-> <<58, "bytes">>, account |-> <<66, "utf8">>,
   password |-> <<74, "utf8">>, appKey |-> <<80, "uint64">>,
   termnialType |-> <<88, "enum">>]

LoginResponse_InternalParse ==
  [resCode |-> <<8, "varint">>, uid |-> <<16, "varint">>,
   suid |-> <<24, "varint">>, context |-> <<34, "bytes">>,
   pushgwIp |-> <<40, "varint">>, pushgwPort |-> <<48, "varint">>,
   errMsg |-> <<98, "utf8">>]
LoginResponse_MergePartialFromCodedStream ==
  [resCode |-> <<8, "uint32">>, uid |-> <<16, "uint32">>,
   suid |-> <<24, "uint64">>, context |-> <<34, "bytes">>,
   pushgwIp |-> <<40, "uint64">>, pushgwPort |-> <<48, "uint32">>,
   errMsg |-> <<98, "utf8">>]

LogoutRequest_InternalParse ==
  [appid |-> <<10, "utf8">>, suid |-> <<16, "varint">>,
   uid |-> <<24, "varint">>, context |-> <<34, "bytes">>,
   appKey |-> <<40, "varint">>, termnialType |-> <<48, "enum">>]
LogoutRequest_MergePartialFromCodedStream ==
  [appid |-> <<10, "utf8">>, suid |-> <<16, "uint64">>,
   uid |-> <<24, "uint32">>, context |-> <<34, "bytes">>,
   appKey |-> <<40, "uint64">>, termnialType |-> <<48, "enum">>]

LogoutResponse_InternalParse ==
  [resCode |-> <<8, "varint">>, uid |-> <<16, "varint">>,
   suid |-> <<24, "varint">>, context |-> <<34, "bytes">>,
   pushgwIp |-> <<40, "varint">>, pushgwPort |-> <<48, "varint">>,
   errMsg |-> <<98, "utf8">>]
LogoutResponse_MergePartialFromCodedStream ==
  [resCode |-> <<8, "uint32">>, uid |-> <<16, "uint32">>,
   suid |-> <<24, "uint64">>, context |-> <<34, "bytes">>,
   pushgwIp |-> <<40, "uint64">>, pushgwPort |-> <<48, "uint32">>,
   errMsg |-> <<98, "utf8">>]

JoinGroupRequest_InternalParse ==
  [uid |-> <<8, "varint">>, suid |-> <<16, "varint">>,
   context |-> <<26, "bytes">>, userGroupSet |-> <<34, "message">>]
JoinGroupRequest_MergePartialFromCodedStream ==
  [uid |-> <<8, "uint32">>, suid |-> <<16, "uint64">>,
   context |-> <<26, "bytes">>, userGroupSet |-> <<34, "message">>]

JoinGroupResponse_InternalParse ==
  [uid |-> <<8, "varint">>, suid |-> <<16, "varint">>,
   resCode |-> <<24, "varint">>, context |-> <<34, "bytes">>,
   pushgwIp |-> <<40, "varint">>, pushgwPort |-> <<48, "varint">>,
   userGroupSet |-> <<58, "message">>, errMsg |-> <<98, "utf8">>]
JoinGroupResponse_MergePartialFromCodedStream ==
  [uid |-> <<8, "uint32">>, suid |-> <<16, "uint64">>,
   resCode |-> <<24, "uint32">>, context |-> <<34, "bytes">>,
   pushgwIp |-> <<40, "uint64">>, pushgwPort |-> <<48, "uint32">>,
   userGroupSet |-> <<58, "message">>, errMsg |-> <<98, "utf8">>]

LeaveGroupRequest_InternalParse ==
  [uid |-> <<8, "varint">>, suid |-> <<16, "varint">>,
   context |-> <<26, "bytes">>, userGroupSet |-> <<34, "message">>]
LeaveGroupRequest_MergePartialFromCodedStream ==
  [uid |-> <<8, "uint32">>, suid |-> <<16, "uint64">>,
   context |-> <<26, "bytes">>, userGroupSet |-> <<34, "message">>]

LeaveGroupResponse_InternalParse ==
  [uid |-> <<8, "varint">>, suid |-> <<16, "varint">>,
   resCode |-> <<24, "varint">>, context |-> <<34, "bytes">>,
   pushgwIp |-> <<40, "varint">>, pushgwPort |-> <<48, "varint">>,
   userGroupSet |-> <<58, "message">>, errMsg |-> <<98, "utf8">>]
LeaveGroupResponse_MergePartialFromCodedStream ==
  [uid |-> <<8, "uint32">>, suid |-> <<16, "uint64">>,
   resCode |-> <<24, "uint32">>, context |-> <<34, "bytes">>,
   pushgwIp |-> <<40, "uint64">>, pushgwPort |-> <<48, "uint32">>,
   userGroupSet |-> <<58, "message">>, errMsg |-> <<98, "utf8">>]

PingRequest_InternalParse ==
  [uid |-> <<8, "varint">>, suid |-> <<16, "varint">>,
   context |-> <<26, "bytes">>]
PingRequest_MergePartialFromCodedStream ==
  [uid |-> <<8, "uint32">>, suid |-> <<16, "uint64">>,
   context |-> <<26, "bytes">>]

PongResponse_InternalParse ==
  [uid |-> <<8, "varint">>, suid |-> <<16, "varint">>,
   context |-> <<26, "bytes">>, pushgwIp |-> <<40, "varint">>,
   pushgwPort |-> <<48, "varint">>]
PongResponse_MergePartialFromCodedStream ==
  [uid |-> <<8, "uint32">>, suid |-> <<16, "uint64">>,
   context |-> <<26, "bytes">>, pushgwIp |-> <<40, "uint64">>,
   pushgwPort |-> <<48, "uint32">>]

PushRegReq_InternalParse ==
  [uri |-> <<8, "enum">>, msgData |-> <<18, "bytes">>]
PushRegReq_MergePartialFromCodedStream ==
  [uri |-> <<8, "enum">>, msgData |-> <<18, "bytes">>]

PushData_InternalParse ==
  [suid |-> <<8, "varint">>, uid |-> <<16, "varint">>,
   GroupType |-> <<24, "varint">>, GroupId |-> <<32, "varint">>,
   serviceName |-> <<42, "utf8">>, uri |-> <<48, "enum">>,
   msgData |-> <<58, "bytes">>, seqNum |-> <<64, "varint">>,
   serverId |-> <<74, "utf8">>, key2Exstr |-> <<82, "entry">>,
   originalURI |-> <<88, "varint">>]
PushData_MergePartialFromCodedStream ==
  [suid |-> <<8, "uint64">>, uid |-> <<16, "uint32">>,
   GroupType |-> <<24, "uint64">>, GroupId |-> <<32, "uint64">>,
   serviceName |-> <<42, "utf8">>, uri |-> <<48, "enum">>,
   msgData |-> <<58, "bytes">>, seqNum |-> <<64, "uint64">>,
   serverId |-> <<74, "utf8">>, key2Exstr |-> <<82, "entry">>,
   originalURI |-> <<88, "uint32">>]

PushToClientReq_InternalParse ==
  [context |-> <<10, "bytes">>, fromSrvId |-> <<18, "utf8">>,
   serviceName |-> <<26, "utf8">>, suid |-> <<32, "varint">>,
   uid |-> <<40, "varint">>, fromUid |-> <<48, "varint">>,
   data |-> <<74, "bytes">>, key2Exstr |-> <<82, "entry">>,
   seqid |-> <<88, "varint">>, originalURI |-> <<96, "varint">>]
PushToClientReq_MergePartialFromCodedStream ==
  [context |-> <<10, "bytes">>, fromSrvId |-> <<18, "utf8">>,
   serviceName |-> <<26, "utf8">>, suid |-> <<32, "uint64">>,
   uid |-> <<40, "uint32">>, fromUid |-> <<48, "uint32">>,
   data |-> <<74, "bytes">>, key2Exstr |-> <<82, "entry">>,
   seqid |-> <<88, "uint64">>, originalURI |-> <<96, "uint32">>]

PushToClientResp_InternalParse ==
  [resCode |-> <<8, "varint">>, context |-> <<18, "bytes">>,
   seqid |-> <<24, "varint">>]
(* Mutant: a 32-bit field read as if it had 64 bits. *)
PushToClientResp_ParseWide ==
  [resCode |-> <<8, "uint64">>, context |-> <<18, "bytes">>,
   seqid |-> <<24, "uint64">>]
PushToClientResp_MergePartialFromCodedStream ==
  [resCode |-> <<8, "uint32">>, context |-> <<18, "bytes">>,
   seqid |-> <<24, "uint64">>]

PushToGroupReq_InternalParse ==
  [context |-> <<10, "bytes">>, fromSrvId |-> <<18, "utf8">>,
   serviceName |-> <<26, "utf8">>, fromUid |-> <<48, "varint">>,
   GroupType |-> <<56, "varint">>, GroupId |-> <<64, "varint">>,
   data |-> <<74, "bytes">>, key2Exstr |-> <<82, "entry">>,
   seqid |-> <<88, "varint">>, originalURI |-> <<96, "varint">>]
PushToGroupReq_MergePartialFromCodedStream ==
  [context |-> <<10, "bytes">>, fromSrvId |-> <<18, "utf8">>,
   serviceName |-> <<26, "utf8">>, fromUid |-> <<48, "uint32">>,
   GroupType |-> <<56, "uint64">>, GroupId |-> <<64, "uint64">>,
   data |-> <<74, "bytes">>, key2Exstr |-> <<82, "entry">>,
   seqid |-> <<88, "uint64">>, originalURI |-> <<96, "uint32">>]

PushToGroupResp_InternalParse ==
  [resCode |-> <<8, "varint">>, context |-> <<18, "bytes">>,
   seqid |-> <<24, "varint">>]
PushToGroupResp_MergePartialFromCodedStream ==
  [resCode |-> <<8, "uint32">>, context |-> <<18, "bytes">>,
   seqid |-> <<24, "uint64">>]

(* The virtual functions of the classes, by the name of the class. *)
InternalParse ==
  [UserGroup |-> UserGroup_InternalParse,
   LoginRequest |-> LoginRequest_InternalParse,
   LoginResponse |-> LoginResponse_InternalParse,
   LogoutRequest |-> LogoutRequest_InternalParse,
   LogoutResponse |-> LogoutResponse_InternalParse,
   JoinGroupRequest |-> JoinGroupRequest_InternalParse,
   JoinGroupResponse |-> JoinGroupResponse_InternalParse,
   LeaveGroupRequest |-> LeaveGroupRequest_InternalParse,
   LeaveGroupResponse |-> LeaveGroupResponse_InternalParse,
   PingRequest |-> PingRequest_InternalParse,
   PongResponse |-> PongResponse_InternalParse,
   PushRegReq |-> PushRegReq_InternalParse,
   PushData |-> PushData_InternalParse,
   PushToClientReq |-> PushToClientReq_InternalParse,
   PushToClientResp |-> PushToClientResp_InternalParse,
   PushToGroupReq |-> PushToGroupReq_InternalParse,
   PushToGroupResp |-> PushToGroupResp_InternalParse]
MergePartialFromCodedStream ==
  [UserGroup |-> UserGroup_MergePartialFromCodedStream,
   LoginRequest |-> LoginRequest_MergePartialFromCodedStream,
   LoginResponse |-> LoginResponse_MergePartialFromCodedStream,
   LogoutRequest |-> LogoutRequest_MergePartialFromCodedStream,
   LogoutResponse |-> LogoutResponse_MergePartialFromCodedStream,
   JoinGroupRequest |-> JoinGroupRequest_MergePartialFromCodedStream,
   JoinGroupResponse |-> JoinGroupResponse_MergePartialFromCodedStream,
   LeaveGroupRequest |-> LeaveGroupRequest_MergePartialFromCodedStream,
   LeaveGroupResponse |-> LeaveGroupResponse_MergePartialFromCodedStream,
   PingRequest |-> PingRequest_MergePartialFromCodedStream,
   PongResponse |-> PongResponse_MergePartialFromCodedStream,
   PushRegReq |-> PushRegReq_MergePartialFromCodedStream,
   PushData |-> PushData_MergePartialFromCodedStream,
   PushToClientReq |-> PushToClientReq_MergePartialFromCodedStream,
   PushToClientResp |-> PushToClientResp_MergePartialFromCodedStream,
   PushToGroupReq |-> PushToGroupReq_MergePartialFromCodedStream,
   PushToGroupResp |-> PushToGroupResp_MergePartialFromCodedStream]
=============================================================================
