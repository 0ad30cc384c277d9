--------------------------- MODULE AddressingProofs ---------------------------
(***************************************************************************)
(* Conversion and matching agree for all addresses of the fields' widths,  *)
(* not only for the samples the run enumerates.                            *)
(***************************************************************************)
EXTENDS Addressing, TLAPS

\* How far each stage has brought the message.
Arrived(m) == FromWire(ToWire(m), m.sink)
Response(m) == [type |-> "RESPONSE", source |-> Arrived(m).sink, sink |-> Arrived(m).source]

\* The inductive invariant: what is on the wire and what was received follow from
\* what was sent, and only a request is responded to.
PathInv ==
    /\ sent \in Messages /\ Valid(sent) /\ listener \in Listeners
    /\ stage \in {"new", "sent", "arrived", "responded", "answered"}
    /\ stage \in {"sent", "arrived"} => wire = ToWire(sent)
    /\ stage = "arrived" => received = Arrived(sent)
    /\ stage \in {"responded", "answered"} =>
          Arrived(sent).type = "REQUEST" /\ wire = ToWire(Response(sent))
    /\ stage = "answered" => received = FromWire(wire, sent.source)

\* A UUri under another authority, without its instance.
At(authority, u) ==
    [authority |-> authority, instance |-> 0, service |-> u.service, version |-> u.version,
     resource |-> u.resource]

-----------------------------------------------------------------------------
(* Fields.                                                                 *)

\* Splitting a value that has the width of its field changes nothing.
LEMMA FieldsFit ==
  /\ \A v \in 0 .. Any16 : LowerHalf(v) = v
  /\ \A v \in 0 .. Any8 : LowByte(v) = v
  BY DEF LowerHalf, LowByte, Any16, Any8

\* The address on the wire is that of the UUri, in the fields SOME/IP has.
LEMMA WireFields ==
  ASSUME NEW u \in Uris, NEW kind
  PROVE  /\ WireAddress(kind, u).kind = kind
         /\ WireAddress(kind, u).service = u.service
         /\ WireAddress(kind, u).instance = 1
         /\ WireAddress(kind, u).method = u.resource
         /\ WireAddress(kind, u).version = u.version
         /\ u.service \in 0 .. Any16 /\ u.resource \in 0 .. Any16 /\ u.version \in 0 .. Any8
<1>1. u.service \in 0 .. Any16 /\ u.resource \in 0 .. Any16 /\ u.version \in 0 .. Any8
  BY DEF Uris
<1>2. LowerHalf(u.resource) = u.resource /\ LowByte(u.version) = u.version
  BY <1>1, FieldsFit
<1>3. QED
  BY <1>1, <1>2 DEF WireAddress

\* And back: the UUri without its instance, under the authority it is given.
LEMMA UriOfWire ==
  ASSUME NEW u \in Uris, NEW kind, NEW authority \in STRING
  PROVE  /\ UriOf(authority, WireAddress(kind, u), u.version) = At(authority, u)
         /\ At(authority, u) \in Uris
         /\ At(authority, u).service = u.service /\ At(authority, u).resource = u.resource
         /\ At(authority, u).version = u.version /\ At(authority, u).authority = authority
<1>1. u.service \in 0 .. Any16 /\ u.resource \in 0 .. Any16 /\ u.version \in 0 .. Any8
  BY WireFields
<1>2. UriOf(authority, WireAddress(kind, u), u.version) = At(authority, u)
  BY WireFields DEF UriOf, At
<1>3. 0 \in 0 .. Any16
  BY DEF Any16
<1>4. QED
  BY <1>1, <1>2, <1>3 DEF Uris, At

\* What the properties write as a changed UUri.
LEMMA ChangedUri ==
  ASSUME NEW u \in Uris, NEW authority \in STRING
  PROVE  /\ [u EXCEPT !.authority = authority, !.instance = 0] = At(authority, u)
         /\ u.instance = 0 => [u EXCEPT !.authority = authority] = At(authority, u)
         /\ [u EXCEPT !.authority = authority].service = u.service
         /\ [u EXCEPT !.authority = authority].resource = u.resource
<1> DEFINE v == [u EXCEPT !.authority = authority, !.instance = 0]
           w == [u EXCEPT !.authority = authority]
<1>1. 0 \in 0 .. Any16
  BY DEF Any16
<1>2. /\ v \in Uris /\ v.authority = authority /\ v.instance = 0 /\ v.service = u.service
      /\ v.version = u.version /\ v.resource = u.resource
  BY <1>1 DEF Uris
<1>3. /\ w \in Uris /\ w.authority = authority /\ w.instance = u.instance /\ w.service = u.service
      /\ w.version = u.version /\ w.resource = u.resource
  BY DEF Uris
<1> HIDE DEF v, w
<1>4. v = At(authority, u)
  BY <1>2 DEF At, Uris
<1>5. u.instance = 0 => w = At(authority, u)
  BY <1>3 DEF At, Uris
<1>6. QED
  BY <1>3, <1>4, <1>5 DEF v, w

\* A UUri that had no instance differs in its authority only.
LEMMA SurvivingUri ==
  ASSUME NEW u \in Uris, u.instance = 0, NEW authority \in STRING, NEW v, v = At(authority, u)
  PROVE  v = [u EXCEPT !.authority = v.authority]
<1>1. v.authority = authority
  BY DEF At
<1>2. [u EXCEPT !.authority = authority] = v
  BY ChangedUri
<1>3. QED
  BY <1>1, <1>2

-----------------------------------------------------------------------------
(* Messages by type.                                                       *)

\* An event.
LEMMA PublishPath ==
  ASSUME NEW m \in Messages, Valid(m), m.type = "PUBLISH"
  PROVE  /\ m.source \in Uris /\ m.sink = NoSink
         /\ TypeOf(m) = "Publish"
         /\ ToWire(m) = WireAddress("MT_NOTIFICATION", m.source)
         /\ Arrived(m) = [type |-> "PUBLISH", source |-> UriOf(There, ToWire(m), 1), sink |-> NoSink]
         /\ TypeOf(Arrived(m)) = "Publish"
<1>1. m.source \in Uris /\ m.sink = NoSink
  BY AddressAssumption
<1>2. ToWire(m) = WireAddress("MT_NOTIFICATION", m.source)
  BY DEF ToWire
<1>3. ToWire(m).kind = "MT_NOTIFICATION"
  BY <1>1, <1>2, WireFields
<1>4. Arrived(m) = [type |-> "PUBLISH", source |-> UriOf(There, ToWire(m), 1), sink |-> NoSink]
  BY <1>3 DEF Arrived, FromWire
<1>5. QED
  BY <1>1, <1>2, <1>4 DEF TypeOf, determine_type

\* A request.
LEMMA RequestPath ==
  ASSUME NEW m \in Messages, Valid(m), m.type = "REQUEST"
  PROVE  /\ m.source \in Uris /\ m.sink \in Uris /\ m.source.resource = 0
         /\ IsMethod(m.sink.resource)
         /\ TypeOf(m) = "Request"
         /\ ToWire(m) = WireAddress("MT_REQUEST", m.sink)
         /\ Arrived(m) = [type |-> "REQUEST", source |-> ClientUri,
                          sink |-> At(Here, m.sink)]
         /\ At(Here, m.sink) \in Uris
         /\ TypeOf(Arrived(m)) = "Request"
<1> DEFINE u == At(Here, m.sink)
<1>1. m.source \in Uris /\ m.sink \in Uris
  BY AddressAssumption
<1>2. m.source.resource = 0 /\ IsMethod(m.sink.resource)
  BY DEF Valid
<1>3. ToWire(m) = WireAddress("MT_REQUEST", m.sink)
  BY DEF ToWire
<1>4. ToWire(m).kind = "MT_REQUEST" /\ ToWire(m).version = m.sink.version
  BY <1>1, <1>3, WireFields
<1>5. u \in Uris /\ UriOf(Here, ToWire(m), m.sink.version) = u
  BY <1>1, <1>3, UriOfWire, AddressAssumption
<1>6. Arrived(m) = [type |-> "REQUEST", source |-> ClientUri, sink |-> u]
  BY <1>4, <1>5 DEF Arrived, FromWire
<1>7. u.resource = m.sink.resource /\ ClientUri.resource = 0
  BY DEF At, ClientUri
<1>8. TypeOf(m) = "Request"
  <2>1. m.sink.resource # 0 /\ m.sink # NoSink
    BY <1>1, <1>2, AddressAssumption DEF IsMethod
  <2>2. QED
    BY <1>2, <2>1 DEF TypeOf, determine_type, OneAuthorityAnyEntity, Any16
<1> HIDE DEF u
<1>9. TypeOf(Arrived(m)) = "Request"
  <2>1. Arrived(m).source = ClientUri /\ Arrived(m).sink = u
    BY <1>6
  <2>2. u # NoSink /\ u.resource # 0
    BY <1>2, <1>5, <1>7, AddressAssumption DEF IsMethod
  <2>3. ~OneAuthorityAnyEntity(ClientUri)
    BY <1>7 DEF OneAuthorityAnyEntity, Any16
  <2>4. QED
    BY <2>1, <2>2, <2>3 DEF TypeOf, determine_type
<1>10. QED
  BY <1>1, <1>2, <1>3, <1>5, <1>6, <1>8, <1>9 DEF u

\* Two UUris of which the sink's resource is 0 are the addresses of a response.
LEMMA ToResourceZero ==
  ASSUME NEW c, c.source \in Uris, c.sink \in Uris, c.sink.resource = 0
  PROVE  TypeOf(c) = "Response"
<1>1. c.sink # NoSink
  BY AddressAssumption
<1>2. ~OneAuthorityAnyEntity(c.sink)
  BY DEF OneAuthorityAnyEntity, Any16
<1>3. QED
  BY <1>1, <1>2 DEF TypeOf, determine_type

\* A response.
LEMMA ResponsePath ==
  ASSUME NEW m \in Messages, Valid(m), m.type = "RESPONSE"
  PROVE  /\ m.source \in Uris /\ m.sink \in Uris
         /\ TypeOf(m) = "Response"
         /\ ToWire(m) = WireAddress("MT_RESPONSE", m.source)
         /\ Arrived(m) = [type |-> "RESPONSE", sink |-> m.sink,
                          source |-> At(There, m.source)]
         /\ TypeOf(Arrived(m)) = "Response"
<1> DEFINE u == At(There, m.source)
<1>1. m.source \in Uris /\ m.sink \in Uris
  BY AddressAssumption
<1>2. m.sink.resource = 0
  BY DEF Valid
<1>3. ToWire(m) = WireAddress("MT_RESPONSE", m.source)
  BY DEF ToWire
<1>4. ToWire(m).kind = "MT_RESPONSE" /\ ToWire(m).version = m.source.version
  BY <1>1, <1>3, WireFields
<1>5. UriOf(There, ToWire(m), m.source.version) = u
  BY <1>1, <1>3, UriOfWire, AddressAssumption
<1>6. Arrived(m) = [type |-> "RESPONSE", source |-> u, sink |-> m.sink]
  BY <1>4, <1>5 DEF Arrived, FromWire
<1>7. TypeOf(m) = "Response"
  BY <1>1, <1>2, ToResourceZero
<1> HIDE DEF u
<1>8. TypeOf(Arrived(m)) = "Response"
  <2>1. u \in Uris
    BY <1>1, UriOfWire, AddressAssumption DEF u
  <2>2. Arrived(m).sink = m.sink /\ Arrived(m).source = u
    BY <1>6
  <2>3. QED
    BY <1>1, <1>2, <2>1, <2>2, ToResourceZero
<1>9. QED
  BY <1>1, <1>3, <1>6, <1>7, <1>8 DEF u

\* There are no other messages.
LEMMA ThreeTypes ==
  ASSUME NEW m \in Messages
  PROVE  m.type \in {"PUBLISH", "REQUEST", "RESPONSE"}
  BY AddressAssumption

-----------------------------------------------------------------------------
(* The invariant is inductive.                                             *)

\* What a step does to the message, the wire and the received message is what the
\* invariant says of the stage it leads to.
LEMMA StepsStayOnPath ==
  ASSUME PathInv, [Next]_vars
  PROVE  PathInv'
<1> USE DEF PathInv
<1>1. ASSUME UNCHANGED vars PROVE PathInv'
  BY <1>1 DEF vars
<1>2. ASSUME SendMessage \/ Respond PROVE PathInv'
  BY <1>2 DEF SendMessage, Respond, Response
<1>3. ASSUME Arrive \/ ResponseArrives PROVE PathInv'
  BY <1>3 DEF Arrive, Arrived, ResponseArrives
<1>4. QED
  BY <1>1, <1>2, <1>3 DEF Next

\* A message is always on its path.
LEMMA PathInductive == Spec => []PathInv
<1>1. Init => PathInv
  BY DEF Init, PathInv
<1>2. QED
  BY <1>1, StepsStayOnPath, PTL DEF Spec

-----------------------------------------------------------------------------
(* Sending, installing and receiving agree.                                *)

\* The address of a filter, with or without wildcards, covers the address of
\* every UUri the filter matches, and no other.
LEMMA KeyCovers ==
  ASSUME NEW f \in Uris, NEW u \in Uris, NEW kind, NEW instance \in {1, Any16}
  PROVE  Reaches(<<f.service, instance, LowerHalf(f.resource)>>, WireAddress(kind, u))
            <=> f.service \in {Any16, u.service} /\ f.resource \in {Any16, u.resource}
<1>1. LowerHalf(f.resource) = f.resource
  BY FieldsFit DEF Uris
<1>2. QED
  BY <1>1, WireFields DEF Reaches

\* Which filter a handler is installed for.
LEMMA KeyOfListener ==
  ASSUME NEW l, TypeOf(l) \in {"Publish", "Request", "Response"}
  PROVE  \E instance \in {1, Any16} :
            RegisterKey(l) = IF TypeOf(l) = "Request"
                             THEN <<l.sink.service, instance, LowerHalf(l.sink.resource)>>
                             ELSE <<l.source.service, instance, LowerHalf(l.source.resource)>>
  BY DEF RegisterKey

\* A listener of a type with a sink has one.
LEMMA RequestListenerHasSink ==
  ASSUME NEW l \in Listeners, TypeOf(l) = "Request"
  PROVE  l.sink \in Uris
  BY AddressAssumption DEF TypeOf, determine_type

\* Whatever address in range a message is sent to, the handlers installed for the
\* filters that match it are called.
THEOREM ListenersAreReached == Spec => []ListenerReached
<1>1. ASSUME PathInv PROVE ListenerReached
  <2> SUFFICES ASSUME stage = "arrived", TypeOf(listener) = TypeOf(sent),
                      sent.type = "REQUEST" =>
                         MatchesUri(listener.sink, [sent.sink EXCEPT !.authority = Here]),
                      sent.type # "REQUEST" =>
                         MatchesUri(listener.source, [sent.source EXCEPT !.authority = There])
               PROVE  Reaches(RegisterKey(listener), wire)
    BY DEF ListenerReached
  <2>1. sent \in Messages /\ Valid(sent) /\ listener \in Listeners /\ wire = ToWire(sent)
    BY <1>1 DEF PathInv
  <2>2. listener.source \in Uris
    BY <2>1, AddressAssumption
  <2>3. CASE sent.type = "REQUEST"
    <3>1. sent.sink \in Uris /\ TypeOf(sent) = "Request" /\ wire = WireAddress("MT_REQUEST", sent.sink)
      BY <2>1, <2>3, RequestPath
    <3>2. listener.sink \in Uris
      BY <2>1, <3>1, RequestListenerHasSink
    <3>3. /\ listener.sink.service \in {Any16, sent.sink.service}
          /\ listener.sink.resource \in {Any16, sent.sink.resource}
      <4> DEFINE u == [sent.sink EXCEPT !.authority = Here]
      <4>1. u.service = sent.sink.service /\ u.resource = sent.sink.resource
        BY <3>1, ChangedUri, AddressAssumption
      <4>2. MatchesUri(listener.sink, u)
        BY <2>3
      <4> HIDE DEF u
      <4>3. QED
        BY <4>1, <4>2 DEF MatchesUri
    <3>4. PICK i \in {1, Any16} :
             RegisterKey(listener) = <<listener.sink.service, i, LowerHalf(listener.sink.resource)>>
      BY <3>1, KeyOfListener
    <3>5. Reaches(<<listener.sink.service, i, LowerHalf(listener.sink.resource)>>,
                  WireAddress("MT_REQUEST", sent.sink))
      BY <3>1, <3>2, <3>3, KeyCovers
    <3>6. QED
      BY <3>1, <3>4, <3>5
  <2>4. CASE sent.type # "REQUEST"
    <3>1. /\ sent.source \in Uris /\ TypeOf(sent) \in {"Publish", "Response"}
          /\ \E kind : wire = WireAddress(kind, sent.source)
      BY <2>1, <2>4, ThreeTypes, PublishPath, ResponsePath
    <3>2. /\ listener.source.service \in {Any16, sent.source.service}
          /\ listener.source.resource \in {Any16, sent.source.resource}
      <4> DEFINE u == [sent.source EXCEPT !.authority = There]
      <4>1. u.service = sent.source.service /\ u.resource = sent.source.resource
        BY <3>1, ChangedUri, AddressAssumption
      <4>2. MatchesUri(listener.source, u)
        BY <2>4
      <4> HIDE DEF u
      <4>3. QED
        BY <4>1, <4>2 DEF MatchesUri
    <3>3. PICK i \in {1, Any16} :
             RegisterKey(listener) = <<listener.source.service, i, LowerHalf(listener.source.resource)>>
      BY <3>1, KeyOfListener
    <3>4. PICK kind : wire = WireAddress(kind, sent.source)
      BY <3>1
    <3>5. Reaches(<<listener.source.service, i, LowerHalf(listener.source.resource)>>,
                  WireAddress(kind, sent.source))
      BY <2>2, <3>1, <3>2, KeyCovers
    <3>6. QED
      BY <3>3, <3>4, <3>5
  <2>5. QED
    BY <2>3, <2>4
<1>2. QED
  BY <1>1, PathInductive, PTL

\* A handler is called for nothing else: what its listener receives matches the
\* service and the resource of its filters.
THEOREM OthersAreNotReached == Spec => []OnlyAskedFor
<1>1. ASSUME PathInv PROVE OnlyAskedFor
  <2> DEFINE asked == IF received.type = "REQUEST" THEN listener.sink ELSE listener.source
             got == IF received.type = "REQUEST" THEN received.sink ELSE received.source
  <2> SUFFICES ASSUME stage = "arrived", TypeOf(listener) = TypeOf(received),
                      Reaches(RegisterKey(listener), wire)
               PROVE  asked.service \in {Any16, got.service} /\ asked.resource \in {Any16, got.resource}
    BY DEF OnlyAskedFor
  <2>1. /\ sent \in Messages /\ Valid(sent) /\ listener \in Listeners /\ wire = ToWire(sent)
        /\ received = Arrived(sent)
    BY <1>1 DEF PathInv
  <2>2. listener.source \in Uris
    BY <2>1, AddressAssumption
  <2>3. CASE sent.type = "REQUEST"
    <3>1. /\ sent.sink \in Uris /\ TypeOf(listener) = "Request"
          /\ wire = WireAddress("MT_REQUEST", sent.sink)
          /\ received.type = "REQUEST"
          /\ received.sink = At(Here, sent.sink)
      BY <2>1, <2>3, RequestPath
    <3>2. received.sink.service = sent.sink.service /\ received.sink.resource = sent.sink.resource
      BY <3>1 DEF At
    <3>3. listener.sink \in Uris
      BY <2>1, <3>1, RequestListenerHasSink
    <3>4. PICK i \in {1, Any16} :
             RegisterKey(listener) = <<listener.sink.service, i, LowerHalf(listener.sink.resource)>>
      BY <3>1, KeyOfListener
    <3>5. /\ listener.sink.service \in {Any16, sent.sink.service}
          /\ listener.sink.resource \in {Any16, sent.sink.resource}
      <4>1. Reaches(<<listener.sink.service, i, LowerHalf(listener.sink.resource)>>,
                    WireAddress("MT_REQUEST", sent.sink))
        BY <3>1, <3>4
      <4>2. QED
        BY <3>1, <3>3, <4>1, KeyCovers
    <3>6. QED
      BY <3>1, <3>2, <3>5
  <2>4. CASE sent.type # "REQUEST"
    <3>1. /\ sent.source \in Uris /\ TypeOf(listener) \in {"Publish", "Response"}
          /\ \E kind : wire = WireAddress(kind, sent.source)
          /\ received.type # "REQUEST"
      BY <2>1, <2>4, ThreeTypes, PublishPath, ResponsePath
    <3>2. /\ received.source.service = sent.source.service
          /\ received.source.resource = sent.source.resource
      <4>1. CASE sent.type = "PUBLISH"
        BY <2>1, <3>1, <4>1, PublishPath, WireFields DEF UriOf
      <4>2. CASE sent.type = "RESPONSE"
        BY <2>1, <4>2, ResponsePath DEF At
      <4>3. QED
        BY <2>1, <2>4, <4>1, <4>2, ThreeTypes
    <3>3. PICK i \in {1, Any16} :
             RegisterKey(listener) = <<listener.source.service, i, LowerHalf(listener.source.resource)>>
      BY <3>1, KeyOfListener
    <3>4. /\ listener.source.service \in {Any16, sent.source.service}
          /\ listener.source.resource \in {Any16, sent.source.resource}
      <4>1. PICK kind : wire = WireAddress(kind, sent.source)
        BY <3>1
      <4>2. Reaches(<<listener.source.service, i, LowerHalf(listener.source.resource)>>,
                    WireAddress(kind, sent.source))
        BY <3>3, <4>1
      <4>3. QED
        BY <2>2, <3>1, <4>2, KeyCovers
    <3>5. QED
      BY <3>1, <3>2, <3>4
  <2>5. QED
    BY <2>3, <2>4
<1>2. QED
  BY <1>1, PathInductive, PTL

\* A message keeps its type and, as far as SOME/IP can express it, its address.
THEOREM MessagesSurvive == Spec => []MessageSurvives
<1>1. ASSUME PathInv PROVE MessageSurvives
  <2> SUFFICES ASSUME stage = "arrived" PROVE MessageSurvives
    BY DEF MessageSurvives
  <2>1. /\ sent \in Messages /\ Valid(sent) /\ received = Arrived(sent)
    BY <1>1 DEF PathInv
  <2>2. CASE sent.type = "PUBLISH"
    <3>1. /\ sent.source \in Uris /\ TypeOf(sent) = "Publish" /\ TypeOf(received) = "Publish"
          /\ received.type = "PUBLISH"
          /\ received.source = UriOf(There, WireAddress("MT_NOTIFICATION", sent.source), 1)
      BY <2>1, <2>2, PublishPath
    <3>2. ASSUME Expressible(sent.source, sent)
          PROVE  received.source = [sent.source EXCEPT !.authority = received.source.authority]
      <4>1. sent.source.instance = 0 /\ sent.source.version = 1
        BY <2>2, <3>2 DEF Expressible
      <4>2. received.source = At(There, sent.source)
        BY <3>1, <4>1, UriOfWire, AddressAssumption
      <4>3. QED
        BY <3>1, <4>1, <4>2, SurvivingUri, AddressAssumption
    <3>3. QED
      BY <2>2, <3>1, <3>2 DEF MessageSurvives, RegistrationType
  <2>3. CASE sent.type = "REQUEST"
    <3>1. /\ sent.sink \in Uris /\ TypeOf(sent) = "Request" /\ TypeOf(received) = "Request"
          /\ received.type = "REQUEST"
          /\ received.sink = At(Here, sent.sink)
      BY <2>1, <2>3, RequestPath
    <3>2. ASSUME Expressible(sent.sink, sent)
          PROVE  received.sink = [sent.sink EXCEPT !.authority = received.sink.authority]
      BY <3>1, <3>2, SurvivingUri, AddressAssumption DEF Expressible
    <3>3. QED
      BY <2>3, <3>1, <3>2 DEF MessageSurvives, RegistrationType
  <2>4. CASE sent.type = "RESPONSE"
    <3>1. /\ sent.source \in Uris /\ TypeOf(sent) = "Response" /\ TypeOf(received) = "Response"
          /\ received.type = "RESPONSE"
          /\ received.source = At(There, sent.source)
      BY <2>1, <2>4, ResponsePath
    <3>2. ASSUME Expressible(sent.source, sent)
          PROVE  received.source = [sent.source EXCEPT !.authority = received.source.authority]
      BY <3>1, <3>2, SurvivingUri, AddressAssumption DEF Expressible
    <3>3. QED
      BY <2>4, <3>1, <3>2 DEF MessageSurvives, RegistrationType
  <2>5. QED
    BY <2>1, <2>2, <2>3, <2>4, ThreeTypes
<1>2. QED
  BY <1>1, PathInductive, PTL

\* The response to a request finds the handler for the request's swapped
\* addresses and comes back to its sender, from the method it was sent to.
THEOREM ResponsesReturn == Spec => []ResponseReturns
<1>1. ASSUME PathInv PROVE ResponseReturns
  <2> SUFFICES ASSUME stage = "answered" PROVE ResponseReturns
    BY DEF ResponseReturns
  <2> DEFINE u == At(Here, sent.sink)
             l == [source |-> sent.sink, sink |-> sent.source]
  <2>1. /\ sent \in Messages /\ Valid(sent) /\ Arrived(sent).type = "REQUEST"
        /\ wire = ToWire(Response(sent)) /\ received = FromWire(wire, sent.source)
    BY <1>1 DEF PathInv
  <2>2. sent.type = "REQUEST"
    BY <2>1, ThreeTypes, PublishPath, ResponsePath
  <2>3. /\ sent.sink \in Uris /\ sent.source \in Uris /\ sent.source.resource = 0
        /\ Arrived(sent).sink = u /\ u \in Uris
    BY <2>1, <2>2, RequestPath
  <2>4. wire = WireAddress("MT_RESPONSE", u)
    BY <2>1, <2>3 DEF Response, ToWire
  <2>5. /\ u.service = sent.sink.service /\ u.resource = sent.sink.resource
        /\ u.version = sent.sink.version
        /\ At(There, u) = At(There, sent.sink)
    BY DEF At
  <2> HIDE DEF u
  <2>6. wire.kind = "MT_RESPONSE" /\ wire.version = u.version
    BY <2>3, <2>4, WireFields
  <2>7. received = [type |-> "RESPONSE", source |-> UriOf(There, wire, u.version), sink |-> sent.source]
    BY <2>1, <2>6 DEF FromWire
  <2>8. UriOf(There, wire, u.version) = [sent.sink EXCEPT !.authority = There, !.instance = 0]
    <3>1. UriOf(There, wire, u.version) = At(There, u)
      <4>1. There \in STRING /\ u \in Uris
        BY <2>3, AddressAssumption
      <4>2. UriOf(There, WireAddress("MT_RESPONSE", u), u.version) = At(There, u)
        BY <4>1, UriOfWire
      <4>3. QED
        BY <2>4, <4>2
    <3>2. At(There, sent.sink) = [sent.sink EXCEPT !.authority = There, !.instance = 0]
      BY <2>3, ChangedUri, AddressAssumption
    <3>3. QED
      BY <2>5, <3>1, <3>2
  <2>9. TypeOf(l) = "Response"
    <3>1. l.source = sent.sink /\ l.sink = sent.source
      OBVIOUS
    <3> HIDE DEF l
    <3>2. QED
      BY <2>3, <3>1, ToResourceZero
  <2>10. PICK i \in {1, Any16} :
            RegisterKey(l) = <<sent.sink.service, i, LowerHalf(sent.sink.resource)>>
    BY <2>9, KeyOfListener
  <2>11. Reaches(RegisterKey(l), wire)
    <3>1. u \in Uris /\ sent.sink \in Uris
      BY <2>3
    <3>2. Reaches(<<sent.sink.service, i, LowerHalf(sent.sink.resource)>>,
                  WireAddress("MT_RESPONSE", u))
      BY <2>5, <3>1, KeyCovers
    <3>3. QED
      BY <2>4, <2>10, <3>2
  <2>12. QED
    BY <2>7, <2>8, <2>11 DEF ResponseReturns
<1>2. QED
  BY <1>1, PathInductive, PTL

=============================================================================
