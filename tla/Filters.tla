-------------------------------- MODULE Filters --------------------------------
(***************************************************************************)
(* Source and sink filters, the registration type they stand for, and the  *)
(* vsomeip addresses the engine derives from them.                         *)
(*                                                                         *)
(* A UUri is a record whose ue_id is already split the way                 *)
(* split_u32_to_u16 splits it: instance is the upper and service the lower *)
(* half; resource is the whole resource_id.  A wildcard is the largest     *)
(* value of the field's width.                                             *)
(***************************************************************************)
EXTENDS Naturals

CONSTANT NoSink      \* a sink filter of None

AnyAuthority == "*"
Any8 == 255          \* 0xFF: wildcard ue_version_major
Any16 == 65535       \* 0xFFFF: wildcard entity type, instance, resource;
                     \* also vsomeip::ANY_INSTANCE and ANY_METHOD

\* The filter of a uStreamer: one authority, everything on it.
OneAuthorityAnyEntity(u) ==
    /\ u.authority # AnyAuthority
    /\ u.service = Any16 /\ u.instance = Any16
    /\ u.version = Any8
    /\ u.resource = Any16

determine_type(source, sink) ==
    IF sink = NoSink THEN "Publish"
    ELSE IF OneAuthorityAnyEntity(source) /\ OneAuthorityAnyEntity(sink) THEN "AllPointToPoint"
    ELSE IF sink.resource = 0 THEN "Response" ELSE "Request"

\* split_u32_to_u16 keeps the lower half of a field wider than 16 bits.
LowerHalf(value) == value % (Any16 + 1)

TypeOf(c) == determine_type(c.source, c.sink)

\* Mutant: a request listener is installed for its source filter.
RegisterKeyBySource(c) == <<c.source.service, 1, LowerHalf(c.source.resource)>>

\* The (service, instance, method) under which register_listener_internal
\* installs a handler.
RegisterKey(c) ==
    CASE TypeOf(c) = "Publish"  -> <<c.source.service, 1, LowerHalf(c.source.resource)>>
      [] TypeOf(c) = "Request"  -> <<c.sink.service, Any16, LowerHalf(c.sink.resource)>>
      [] TypeOf(c) = "Response" -> <<c.source.service, Any16, LowerHalf(c.source.resource)>>

\* Mutant: the address is always taken from the source filter.
UnregisterKeyBySource(c) == <<c.source.service, Any16, LowerHalf(c.source.resource)>>

\* The (service, instance, method) unregister_listener_internal removes.
UnregisterKey(c) ==
    CASE TypeOf(c) = "Publish"  -> <<c.source.service, Any16, LowerHalf(c.source.resource)>>
      [] TypeOf(c) = "Request"  -> <<c.sink.service, Any16, LowerHalf(c.sink.resource)>>
      [] TypeOf(c) = "Response" -> <<c.sink.service, Any16, LowerHalf(c.sink.resource)>>

\* What the engine announces to vsomeip, once, before it installs the handler:
\* a requested event, an offered service or a requested service.
Announcement(c) ==
    CASE TypeOf(c) = "Publish"  -> <<"event_requested", RegisterKey(c)>>
      [] TypeOf(c) = "Request"  -> <<"service_offered", <<c.sink.service, 1, LowerHalf(c.sink.resource)>> >>
      [] TypeOf(c) = "Response" -> <<"service_requested", RegisterKey(c)>>

=============================================================================
