--------------------------------- MODULE Wire ---------------------------------
(***************************************************************************)
(* The messages of the protocol, as the two programs write and read them:   *)
(* Message.cs with System.Text.Json on the server, MessageHandlers.hpp with *)
(* nlohmann's json on the client.  An object maps its keys to the sort of   *)
(* their values, which is all that decides whether the other side can read  *)
(* it.  An object carried as text, which parses because it was serialized,  *)
(* stands for its text: the body of a message in the envelope's "data", and *)
(* what a response carries in "message", here as a field of its own, data.  *)
(***************************************************************************)
CONSTANT DebugBuild     \* TRUE iff ServerCore is compiled with DEBUG

-------------------------------------------------------------------------------
(* The envelope: MsgHeader of both programs.                                *)

\* What each side writes: an id and the body under it.
ClientHeader(id, body) == [id |-> id, data |-> body]

\* Mutant: the server's property has another name than the client's key.
ServerHeader_OtherKey(id, body) == [id |-> id, message |-> body]

ServerHeader(id, body) == [id |-> id, data |-> body]

\* What each side needs: the server's deserializer throws for a key that is
\* missing; the client's operator[] asserts it and is undefined without assertions,
\* for which an unreadable message stands.
ServerReadsHeader(message) == {"id", "data"} \subseteq DOMAIN message
ClientReadsHeader(message) == {"id", "data"} \subseteq DOMAIN message

-------------------------------------------------------------------------------
(* Requests.                                                                *)

\* Mutant: the client sends an empty string where the hardware info belongs.
MsgLogin_NoInfo == [user_token |-> "text", hwid |-> "text", hw_info |-> "empty"]

\* ToJsonString of the two requests.  OnOK sends no empty token, a hardware id
\* is a digest, and the hardware info is "{}".
MsgVersion == [hash |-> "text"]
MsgLogin == [user_token |-> "text", hwid |-> "text", hw_info |-> "text"]

\* The server needs every required key, and for a login values that are not empty.
ReadsVersion(data) == "hash" \in DOMAIN data

ReadsLogin(data) ==
    \A key \in {"user_token", "hwid", "hw_info"} :
        key \in DOMAIN data /\ data[key] \notin {"null", "empty"}

\* What the server makes of a message: envelope, id and body have to be known,
\* or the message is dropped as "other".
HandleMessage(message) ==
    IF /\ ServerReadsHeader(message)
       /\ \/ message.id = "version" /\ ReadsVersion(message.data)
          \/ message.id = "login" /\ ReadsLogin(message.data)
    THEN message.id ELSE "other"

\* The kind of the request that the client sends with this id.
RequestKind(id) ==
    HandleMessage(ClientHeader(id, IF id = "version" THEN MsgVersion ELSE MsgLogin))

-------------------------------------------------------------------------------
(* Responses.                                                               *)

MsgVersionResponse(result) ==
    IF DebugBuild
    THEN [update |-> "false", file |-> "null", hash |-> "null"]
    ELSE [update |-> IF result = "update" THEN "true" ELSE "false",
          file |-> "text", hash |-> "text"]

MsgLoginResponse == [expire_at |-> "text", game |-> "text"]

\* Mutant: the API's message is passed on as it is.
FailureText_Null(apiMessage) == apiMessage

\* message ?? "Internal server error"
FailureText(apiMessage) == IF apiMessage = "null" THEN "text" ELSE apiMessage

\* The responses that HandleVersionRequest and HandleLoginRequest may send; a
\* failure passes on the API's message, if there is one.
MsgResponses(kind, result) ==
    IF result = "failure"
    THEN {[success |-> "false", message |-> FailureText(m), data |-> <<>>] : m \in {"text", "null"}}
    ELSE {[success |-> "true", message |-> "text",
           data |-> IF kind = "version" THEN MsgVersionResponse(result) ELSE MsgLoginResponse]}

\* The client's conversions throw for a value of another sort, except that file
\* and hash may be null or absent.
ReadsResponse(msg) == msg.success \in {"true", "false"} /\ msg.message = "text"

\* Mutant: no test for null.
ReadsVersionResponse_NullThrows(data) ==
    /\ data.update \in {"true", "false"}
    /\ \A key \in {"file", "hash"} : key \in DOMAIN data => data[key] = "text"

ReadsVersionResponse(data) ==
    /\ data.update \in {"true", "false"}
    /\ \A key \in {"file", "hash"} : key \in DOMAIN data => data[key] \in {"text", "null"}

ReadsLoginResponse(data) ==
    \A key \in {"expire_at", "game"} : key \in DOMAIN data /\ data[key] = "text"

\* The event with which the client's handler reports the response.
VersionEvent(msg) ==
    CASE ReadsResponse(msg) /\ msg.success = "false" -> "VersionFailed"
      [] ReadsResponse(msg) /\ msg.success = "true" /\ ReadsVersionResponse(msg.data) ->
            IF msg.data.update = "true" THEN "VersionUpdate" ELSE "VersionSuccess"
      [] OTHER -> "ParseMessageError"

LoginEvent(msg) ==
    CASE ReadsResponse(msg) /\ msg.success = "false" -> "LoginFailed"
      [] ReadsResponse(msg) /\ msg.success = "true" /\ ReadsLoginResponse(msg.data) -> "LoginSuccess"
      [] OTHER -> "ParseMessageError"

NoEvent == "no event"

\* OnMessage: what cannot be read is reported, an id without a handler is not.
OnMessage(message) ==
    IF ~ClientReadsHeader(message) THEN "ParseMessageError"
    ELSE CASE message.id = "version" -> VersionEvent(message.data)
           [] message.id = "login" -> LoginEvent(message.data)
           [] OTHER -> NoEvent

\* Both handlers of the server send their response under the request's id.
ReplyEvents(reply) ==
    {OnMessage(ServerHeader(reply.kind, msg)) : msg \in MsgResponses(reply.kind, reply.result)}
===============================================================================
