------------------------------- MODULE Packet -------------------------------
(*****************************************************************************)
(* The packets of the SDK: what make_*_packet puts into a request, what the  *)
(* gateway finds in it, and what OnMessage and handle_response make of the   *)
(* answer.  A call is a record of its kind, its arguments and its timestamp. *)
(*****************************************************************************)
EXTENDS Message

CONSTANT SuidShift  \* 2^40: where the terminal type stands in a suid

(* A suid holds a uid below the shift, and any terminal type above it. *)
ASSUME SuidAssumption ==
  /\ SuidShift \in Nat /\ Word <= SuidShift
  /\ 65536 * SuidShift <= Long /\ 65536 <= EnumWord

(* The build's platform, and the terminal type it logs in with. *)
UserTerminal ==
  [UNKNOWN       |-> UserTerminalType.UNKNOWN,
   WINDOWS_32    |-> UserTerminalType.DESKTOP,
   WINDOWS_64    |-> UserTerminalType.DESKTOP,
   IOS           |-> UserTerminalType.IPHONE,
   ANDROID       |-> UserTerminalType.ANDROID,
   IOS_SIMULATOR |-> UserTerminalType.IPHONE,
   LINUX         |-> UserTerminalType.SERVER,
   UNIX          |-> UserTerminalType.SERVER,
   MAC           |-> UserTerminalType.SERVER,
   APPLE_UNKNOWN |-> UserTerminalType.UNKNOWN,
   POSIX_UNKNOWN |-> UserTerminalType.UNKNOWN]

(* Mutant: the terminal type is not shifted. *)
GetSUIDUnshifted(uid, type) == (type + (uid % Word)) % Long

(* The shifted type and the uid share no bit: | is +. *)
GetSUID(uid, type) == (type * SuidShift + (uid % Word)) % Long

Decimal(n) == <<Chunk("digits", n)>>

(* std::stoll throws when the text does not start with a number. *)
IsNumber(bytes) == bytes # <<>> /\ bytes[1].wt = "digits"
Stoll(bytes) == bytes[1].n

(* A request, serialised into the packet that carries it. *)
Request(uri, type, fields) ==
  With("PushRegReq",
       [uri |-> uri,
        msgData |-> Serialize(SerializeToArray, type, With(type, fields))])

UserGroups(groups) ==
  [i \in DOMAIN groups |->
     With("UserGroup", [userGroupType |-> groups[i].gtype,
                        userGroupId |-> groups[i].gid])]

make_login_packet(c) ==
  Request(StreamURI.Login, "LoginRequest",
    [uid |-> c.uid, suid |-> GetSUID(c.uid, UserTerminal[c.terminal]),
     appid |-> Decimal(c.appid), appKey |-> c.appkey,
     termnialType |-> UserTerminal[c.terminal], account |-> c.user.account,
     password |-> c.user.passwd, cookie |-> c.user.token,
     context |-> Decimal(c.now)])

make_logout_packet(c) ==
  Request(StreamURI.Logout, "LogoutRequest",
    [appid |-> Decimal(c.appid), uid |-> c.uid,
     suid |-> GetSUID(c.uid, UserTerminal[c.terminal]),
     context |-> Decimal(c.now), appKey |-> c.appkey,
     termnialType |-> UserTerminal[c.terminal]])

(* One group for JoinGroup, all of groups_ for a rejoin. *)
make_join_group_packet(c) ==
  Request(StreamURI.JoinGroup, "JoinGroupRequest",
    [uid |-> c.uid, suid |-> GetSUID(c.uid, UserTerminal[c.terminal]),
     context |-> Decimal(c.now), userGroupSet |-> UserGroups(c.groups)])

make_leave_group_packet(c) ==
  Request(StreamURI.LeaveGroup, "LeaveGroupRequest",
    [context |-> Decimal(c.now),
     suid |-> GetSUID(c.uid, UserTerminal[c.terminal]),
     uid |-> c.uid, userGroupSet |-> UserGroups(c.groups)])

MakePacket(c) ==
  CASE c.kind = "login"  -> make_login_packet(c)
    [] c.kind = "logout" -> make_logout_packet(c)
    [] c.kind = "join"   -> make_join_group_packet(c)
    [] c.kind = "leave"  -> make_leave_group_packet(c)

-----------------------------------------------------------------------------
(* The gateway reads a request and answers with the next URI. *)
RequestType ==
  [uri \in {StreamURI.Login, StreamURI.Logout, StreamURI.JoinGroup,
            StreamURI.LeaveGroup} |->
     CASE uri = StreamURI.Login      -> "LoginRequest"
       [] uri = StreamURI.Logout     -> "LogoutRequest"
       [] uri = StreamURI.JoinGroup  -> "JoinGroupRequest"
       [] uri = StreamURI.LeaveGroup -> "LeaveGroupRequest"]

GatewayReadsRequest(uri, request) ==
  [uri |-> uri, ok |-> request.ok, msg |-> request.msg]
GatewayReadsPacket(packet) ==
  IF packet.ok /\ packet.msg.uri \in DOMAIN RequestType
    THEN GatewayReadsRequest(packet.msg.uri,
           Parse(RequestType[packet.msg.uri], packet.msg.msgData))
    ELSE [uri |-> 0, ok |-> FALSE, msg |-> <<>>]
GatewayReads(bytes) == GatewayReadsPacket(Parse("PushRegReq", bytes))

(* The response of each URI, which OnMessage hands to handle_response. *)
ResponseType ==
  [uri \in {StreamURI.LoginRes, StreamURI.LogoutRes, StreamURI.JoinGroupRes,
            StreamURI.LeaveGroupRes} |->
     CASE uri = StreamURI.LoginRes      -> "LoginResponse"
       [] uri = StreamURI.LogoutRes     -> "LogoutResponse"
       [] uri = StreamURI.JoinGroupRes  -> "JoinGroupResponse"
       [] uri = StreamURI.LeaveGroupRes -> "LeaveGroupResponse"]

RES_SUCCESS == 200

AnswerFields(m, code, errMsg) ==
  [resCode |-> code, uid |-> m.uid, suid |-> m.suid, context |-> m.context,
   errMsg |-> errMsg]
AnswerBytes(type, fields) ==
  Serialize(SerializeToArray, type, With(type, fields))
GatewayAnswers(request, code, errMsg) ==
  With("PushData",
       [uri |-> request.uri + 1, uid |-> request.msg.uid,
        suid |-> request.msg.suid,
        msgData |-> AnswerBytes(ResponseType[request.uri + 1],
                                AnswerFields(request.msg, code, errMsg))])

-----------------------------------------------------------------------------
(* What the SDK does with a message: which answer it takes it for, if any. *)
Outcome(what, ts, ok) == [what |-> what, ts |-> ts, ok |-> ok]

ResponseOutcome(res, success) ==
  IF ~res.ok THEN Outcome("decode failed", 0, FALSE)
  ELSE IF ~IsNumber(res.msg.context) THEN Outcome("stoll throws", 0, FALSE)
  ELSE IF Stoll(res.msg.context) = 0 THEN Outcome("ignored", 0, FALSE)
  ELSE Outcome("answer", Stoll(res.msg.context), res.msg.resCode \in success)

(* Mutant: an answer is a success whatever its code. *)
handle_response_any_code(type, data) ==
  ResponseOutcome(Parse(type, data.msgData), 0..RES_SUCCESS)

handle_response(type, data) ==
  ResponseOutcome(Parse(type, data.msgData), {RES_SUCCESS})

OnMessage(data) ==
  CASE data.uri \in DOMAIN ResponseType ->
         handle_response(ResponseType[data.uri], data)
    [] data.uri = StreamURI.NotifyToClose   -> Outcome("close", 0, FALSE)
    [] data.uri = StreamURI.PushDataByGroup -> Outcome("group", 0, FALSE)
    [] data.uri = StreamURI.PushDataByUid   -> Outcome("user", 0, FALSE)
    [] OTHER                                -> Outcome("none", 0, FALSE)
=============================================================================
