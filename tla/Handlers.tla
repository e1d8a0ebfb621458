------------------------------ MODULE Handlers ------------------------------
(*****************************************************************************)
(* The handlers of PushSDK: records of user callbacks that any thread        *)
(* creates, fills and destroys under hdls_mux_, and the client loop's walks  *)
(* over them.  A walk for a message holds hdls_mux_ to its end; the walk     *)
(* for a change of the channel's state (NotifyChannelState) holds nothing.   *)
(* The actions are to be conjoined with what the composing module changes.   *)
(*****************************************************************************)
EXTENDS Integers, SequencesExt

CONSTANTS Handler, NoHandler

ASSUME HandlerAssumption == NoHandler \notin Handler

VARIABLES
  hdls,  \* hdls_
  cbs,   \* the callbacks set in each handler: of kind "conn" or "msg"
  walk   \* the loop's walk: its kind, its place, the handler being called

hdlVars == <<hdls, cbs, walk>>

NoWalk == [kind |-> "none", at |-> 1, calling |-> NoHandler]

HandlersInit ==
  hdls = <<>> /\ cbs = [h \in Handler |-> {}] /\ walk = NoWalk

HdlsLocked == walk.kind = "msg"

CreateHandler(h) ==
  /\ ~HdlsLocked /\ h \notin ToSet(hdls)
  /\ hdls' = Append(hdls, h)
  /\ UNCHANGED <<cbs, walk>>

(* delete hdl, its callbacks with it, and erase it from the vector. *)
DestroyHandlerUnlocked(h) ==
  /\ \E i \in DOMAIN hdls : hdls[i] = h /\ hdls' = RemoveAt(hdls, i)
  /\ cbs' = [cbs EXCEPT ![h] = {}]
  /\ UNCHANGED walk
DestroyHandler(h) ==
  /\ ~HdlsLocked
  /\ \E i \in DOMAIN hdls : hdls[i] = h /\ hdls' = RemoveAt(hdls, i)
  /\ cbs' = [cbs EXCEPT ![h] = {}]
  /\ UNCHANGED walk

AddCBToHandler(h, kind) ==
  /\ ~HdlsLocked /\ h \in ToSet(hdls)
  /\ cbs' = [cbs EXCEPT ![h] = @ \cup {kind}]
  /\ UNCHANGED <<hdls, walk>>

Registry ==
  \E h \in Handler :
    \/ CreateHandler(h) \/ DestroyHandler(h)
    \/ \E kind \in {"conn", "msg"} : AddCBToHandler(h, kind)

-----------------------------------------------------------------------------
BeginWalk(kind) ==
  /\ walk.kind = "none"
  /\ walk' = [NoWalk EXCEPT !.kind = kind]
  /\ UNCHANGED <<hdls, cbs>>

(* The next handler is called if it has a callback of the walk's kind.  A    *)
(* walk without the mutex whose vector has shrunk under it stops: one of     *)
(* the outcomes of what is undefined behaviour.                              *)
WalkCall ==
  /\ walk.kind # "none" /\ walk.calling = NoHandler
  /\ walk.at <= Len(hdls)
  /\ walk' = IF walk.kind \in cbs[hdls[walk.at]]
             THEN [walk EXCEPT !.calling = hdls[walk.at]]
             ELSE [walk EXCEPT !.at = @ + 1]
  /\ UNCHANGED <<hdls, cbs>>
WalkReturn ==
  /\ walk.calling # NoHandler
  /\ walk' = [walk EXCEPT !.calling = NoHandler, !.at = @ + 1]
  /\ UNCHANGED <<hdls, cbs>>
EndWalk ==
  /\ walk.kind # "none" /\ walk.calling = NoHandler
  /\ walk.at > Len(hdls)
  /\ walk' = NoWalk
  /\ UNCHANGED <<hdls, cbs>>

-----------------------------------------------------------------------------
HandlersTypeOK ==
  /\ hdls \in Seq(Handler)
  /\ cbs \in [Handler -> SUBSET {"conn", "msg"}]
  /\ walk \in [kind : {"none", "conn", "msg"}, at : Nat,
               calling : Handler \cup {NoHandler}]

(* While a message callback runs its handler is not destroyed, so that a     *)
(* thread that has destroyed a handler may free what its callbacks use.      *)
(* Callbacks of the channel's state are called without hdls_mux_ and have    *)
(* no such promise.                                                          *)
DestroyedHandlerIsQuiet ==
  walk.kind = "msg" /\ walk.calling # NoHandler =>
    walk.calling \in ToSet(hdls)
=============================================================================
