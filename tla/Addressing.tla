------------------------------ MODULE Addressing ------------------------------
(***************************************************************************)
(* The addresses of a message on its way: from the UUris of the sender to  *)
(* the service, method and version of a SOME/IP message and back to UUris  *)
(* at the receiver, and for a request the same again with its response.    *)
(*                                                                         *)
(* Three places have to agree that were written apart: the conversion of   *)
(* what is sent, the conversion of what arrives, and the address under     *)
(* which register_listener_internal installs the handler of a filter.      *)
(* SOME/IP carries no authority and the transport no instance; versions    *)
(* have 8 bits and are not sent with events.                               *)
(***************************************************************************)
EXTENDS Filters

CONSTANTS
    Messages,    \* what may be sent: type, source and sink
    Listeners,   \* listener configurations of the receiving transport
    Here,        \* authority of the receiving transport
    There,       \* the authority it gives to everything from SOME/IP
    OwnVersion,  \* ue_version_major of the receiving transport
    ClientId     \* the sender's SOME/IP client id

\* UUris as up_rust builds them: 16 bits for each half of an entity id and for a
\* resource id, 8 for a version.
Uris == [authority : STRING, instance : 0 .. Any16, service : 0 .. Any16,
         version : 0 .. Any8, resource : 0 .. Any16]

ASSUME AddressAssumption ==
    /\ NoSink \notin Uris
    /\ \A m \in Messages :
          \/ m \in [type : {"PUBLISH"}, source : Uris, sink : {NoSink}]
          \/ m \in [type : {"REQUEST", "RESPONSE"}, source : Uris, sink : Uris]
    /\ \A l \in Listeners : l.source \in Uris /\ l.sink \in Uris \cup {NoSink}
    /\ Here \in STRING /\ There \in STRING
    /\ OwnVersion \in 0 .. Any8 /\ ClientId \in 0 .. Any16

VARIABLES
    stage,     \* how far the message and its response have got
    sent,      \* the message
    listener,  \* a listener that may be meant for it
    wire,      \* the SOME/IP message, then that of the response
    received   \* what the receiver makes of it, then the sender of the response

vars == <<stage, sent, listener, wire, received>>

FirstTopic == 32768      \* 0x8000: methods have resource ids below it

IsMethod(resource) == resource # 0 /\ resource < FirstTopic

\* The uProtocol message types and the resource ids their validators allow.
Valid(m) ==
    /\ m.type = "PUBLISH"  => m.source.resource >= FirstTopic /\ m.sink = NoSink
    /\ m.type = "REQUEST"  => m.source.resource = 0 /\ IsMethod(m.sink.resource)
    /\ m.type = "RESPONSE" => IsMethod(m.source.resource) /\ m.sink.resource = 0

\* The byte split_u32_to_u8 takes for the interface version.
LowByte(value) == value % (Any8 + 1)

-----------------------------------------------------------------------------
(* Conversion.                                                             *)

\* Mutant: the instance is taken from the entity id instead of being 1.
WireAddressWithInstance(kind, u) ==
    [kind |-> kind, service |-> u.service, instance |-> u.instance,
     method |-> LowerHalf(u.resource), version |-> LowByte(u.version)]

WireAddress(kind, u) ==
    [kind |-> kind, service |-> u.service, instance |-> 1,
     method |-> LowerHalf(u.resource), version |-> LowByte(u.version)]

\* Mutant: a response is addressed by its sink, as a request is.
ToWireBySink(m) ==
    IF m.type = "PUBLISH" THEN WireAddress("MT_NOTIFICATION", m.source)
    ELSE WireAddress(IF m.type = "REQUEST" THEN "MT_REQUEST" ELSE "MT_RESPONSE", m.sink)

\* umsg_publish_to_vsomeip_notification, umsg_request_to_vsomeip_message and
\* umsg_response_to_vsomeip_message address a message by its topic or method.
ToWire(m) ==
    CASE m.type = "PUBLISH"  -> WireAddress("MT_NOTIFICATION", m.source)
      [] m.type = "REQUEST"  -> WireAddress("MT_REQUEST", m.sink)
      [] m.type = "RESPONSE" -> WireAddress("MT_RESPONSE", m.source)

\* Mutant: every message is given the version that is made up for events.
UriOfVersionOne(authority, w, version) ==
    [authority |-> authority, instance |-> 0, service |-> w.service,
     version |-> 1, resource |-> w.method]

\* The service and method of a SOME/IP message as a UUri, without an instance.
UriOf(authority, w, version) ==
    [authority |-> authority, instance |-> 0, service |-> w.service,
     version |-> version, resource |-> w.method]

\* The source of a request: the client that sent it, with the receiver's version.
ClientUri ==
    [authority |-> There, instance |-> 0, service |-> ClientId,
     version |-> OwnVersion, resource |-> 0]

\* convert_vsomeip_msg_to_umsg.  A response finds its sink by correlation.
FromWire(w, requester) ==
    CASE w.kind = "MT_NOTIFICATION" ->
           [type |-> "PUBLISH", source |-> UriOf(There, w, 1), sink |-> NoSink]
      [] w.kind = "MT_REQUEST" ->
           [type |-> "REQUEST", source |-> ClientUri, sink |-> UriOf(Here, w, w.version)]
      [] w.kind = "MT_RESPONSE" ->
           [type |-> "RESPONSE", source |-> UriOf(There, w, w.version), sink |-> requester]

-----------------------------------------------------------------------------
(* Matching.                                                               *)

\* External: UUri::matches of up_rust.
MatchesUri(filter, u) ==
    /\ filter.authority \in {AnyAuthority, u.authority}
    /\ filter.service \in {Any16, u.service}
    /\ filter.instance \in {Any16, u.instance}
    /\ filter.version \in {Any8, u.version}
    /\ filter.resource \in {Any16, u.resource}

\* External: vsomeip calls the handler installed for an address or a wildcard.
Reaches(key, w) ==
    /\ key[1] \in {Any16, w.service}
    /\ key[2] \in {Any16, w.instance}
    /\ key[3] \in {Any16, w.method}

-----------------------------------------------------------------------------
(* The way of one message, and of the response to a request.               *)

Init ==
    /\ sent \in {m \in Messages : Valid(m)}
    /\ listener \in Listeners
    /\ stage = "new"
    /\ wire = NoSink /\ received = NoSink

SendMessage ==
    /\ stage = "new" /\ stage' = "sent"
    /\ wire' = ToWire(sent)
    /\ UNCHANGED <<sent, listener, received>>

Arrive ==
    /\ stage = "sent" /\ stage' = "arrived"
    /\ received' = FromWire(wire, sent.sink)
    /\ UNCHANGED <<sent, listener, wire>>

\* The service answers the request it received.
Respond ==
    /\ stage = "arrived" /\ received.type = "REQUEST" /\ stage' = "responded"
    /\ wire' = ToWire([type |-> "RESPONSE", source |-> received.sink, sink |-> received.source])
    /\ UNCHANGED <<sent, listener, received>>

ResponseArrives ==
    /\ stage = "responded" /\ stage' = "answered"
    /\ received' = FromWire(wire, sent.source)
    /\ UNCHANGED <<sent, listener, wire>>

Next == SendMessage \/ Arrive \/ Respond \/ ResponseArrives

Spec == Init /\ [][Next]_vars

-----------------------------------------------------------------------------
(* Properties.                                                             *)

\* What is sent to a listener's address from any instance and version calls the
\* handler installed for the listener's filters, wildcards included.
ListenerReached ==
    stage = "arrived" /\ TypeOf(listener) = TypeOf(sent)
      /\ (CASE sent.type = "REQUEST" ->
                 MatchesUri(listener.sink, [sent.sink EXCEPT !.authority = Here])
            [] OTHER -> MatchesUri(listener.source, [sent.source EXCEPT !.authority = There]))
        => Reaches(RegisterKey(listener), wire)

\* SOME/IP can express the address: no instance, and version 1 for an event.
Expressible(u, m) == u.instance = 0 /\ (m.type = "PUBLISH" => u.version = 1)

\* A handler is only called with a message that matches the service and the
\* resource of the filters it was installed for, so a listener never sees a
\* method or topic it did not ask for.
OnlyAskedFor ==
    stage = "arrived" /\ TypeOf(listener) = TypeOf(received)
      /\ Reaches(RegisterKey(listener), wire) =>
        LET asked == IF received.type = "REQUEST" THEN listener.sink ELSE listener.source
            got == IF received.type = "REQUEST" THEN received.sink ELSE received.source
        IN asked.service \in {Any16, got.service} /\ asked.resource \in {Any16, got.resource}

RegistrationType == [PUBLISH |-> "Publish", REQUEST |-> "Request", RESPONSE |-> "Response"]

\* A message arrives as the type it was sent as and, if SOME/IP can express its
\* address, with that address, so the filters that match it before match it
\* after, apart from the authority; the type that send and the listeners derive
\* from the addresses is that of the message on both sides.
MessageSurvives ==
    stage = "arrived" =>
        /\ received.type = sent.type
        /\ TypeOf(sent) = RegistrationType[sent.type] /\ TypeOf(received) = TypeOf(sent)
        /\ LET before == IF sent.type = "REQUEST" THEN sent.sink ELSE sent.source
               after == IF received.type = "REQUEST" THEN received.sink ELSE received.source
           IN Expressible(before, sent) => after = [before EXCEPT !.authority = after.authority]

\* The response to a request calls the handler of a listener for the request's
\* swapped addresses, goes to its sender and comes from the method it was sent to.
ResponseReturns ==
    stage = "answered" =>
        /\ Reaches(RegisterKey([source |-> sent.sink, sink |-> sent.source]), wire)
        /\ received.sink = sent.source
        /\ received.source = [sent.sink EXCEPT !.authority = There, !.instance = 0]

=============================================================================
