------------------------------ MODULE MCCodec -------------------------------
(*****************************************************************************)
(* Codec for TLC: every type, messages with at most one or two fields set,   *)
(* to values at the ends of their range, and every field written by a peer   *)
(* that declares it wider or as a string.                                    *)
(*****************************************************************************)
EXTENDS Codec

Text == <<Chunk("text", 3)>>
BadText == <<Chunk("badtext", 2)>>
AGroup(t, i) == [userGroupType |-> t, userGroupId |-> i, unknown |-> <<>>]

SampleValues(t) ==
  CASE t = "uint32" -> {1, Word - 1}
    [] t = "uint64" -> {Word, Long - 1}
    [] t = "bool"   -> {TRUE}
    [] t = "string" -> {Text, BadText}
    [] t = "bytes"  -> {BadText}
    [] t = "map"    -> {1 :> Text, 0 :> <<>>}
    [] t = "UserGroup*" -> {<<AGroup(0, 0)>>, <<AGroup(1, 0), AGroup(0, 300)>>}
    [] OTHER        -> {65535, EnumWord - 1}

OneField(ty) ==
  UNION {{[New(ty) EXCEPT ![f] = v] : v \in SampleValues(FieldType(ty, f))} :
           f \in DOMAIN Class[ty]}
SampleMessages(ty) == {New(ty)} \cup OneField(ty)

FieldNumbers(ty) == {Class[ty][f][1] : f \in DOMAIN Class[ty]}
SampleForeign(ty) ==
  {EndGroup(1), Varint(20, 5)}
    \cup {Varint(k, Long - 1) : k \in FieldNumbers(ty)}
    \cup {Delimited(k, b) : k \in FieldNumbers(ty),
                            b \in {Text, <<Varint(1, Word)>>}}

SampleUsers ==
  {[account |-> a, passwd |-> p, token |-> BadText] :
     a \in {<<>>, Text}, p \in {Text, BadText}}
SampleGroups ==
  {<<[gtype |-> 0, gid |-> 0]>>,
   <<[gtype |-> 1, gid |-> 2], [gtype |-> 1, gid |-> 3]>>}
SampleCalls ==
  [kind : {"login", "logout", "join", "leave"}, uid : {0, Word - 1},
   appid : {7}, appkey : {Long - 1}, user : SampleUsers,
   groups : SampleGroups, now : {0, 1234}, terminal : {"LINUX", "IOS"}]
SampleAnswers ==
  [code : {RES_SUCCESS, 0}, errMsg : {<<>>, Text, BadText}]
=============================================================================
