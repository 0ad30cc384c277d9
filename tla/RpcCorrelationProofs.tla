-------------------------- MODULE RpcCorrelationProofs --------------------------
(***************************************************************************)
(* RpcCorrelation for any number of clients, requests and messages and any *)
(* width of the session counter.                                           *)
(***************************************************************************)
EXTENDS RpcCorrelation, TLAPS

\* A correlation belongs to one request, which has been sent and has not been
\* answered; a request that has been answered was answered once.
OneCorrelation ==
    /\ \A r1, r2 \in RequestIds :
          ueRequest[r1] # None /\ ueRequest[r1] = ueRequest[r2] => r1 = r2
    /\ \A r \in RequestIds :
          ueRequest[r] # None => ueRequest[r] \notin unsent /\ answers[ueRequest[r]] = <<>>
    /\ \A q \in unsent : answers[q] = <<>>

AnswerShape ==
    /\ DOMAIN answers = UReqs
    /\ \A q \in UReqs : answers[q] = <<>> \/ answers[q] = <<answers[q][1]>>

\* A message that can still be responded to has not been.
ServedInv ==
    \A u \in Uuids :
        /\ meRequest[u] # None => asked[u] # None /\ served[u] = 0
        /\ asked[u] = None => served[u] = 0
        /\ served[u] <= 1

\* The inductive invariant, whatever the build does on overflow.
IInv == TypeOK /\ OneCorrelation /\ AnswerShape /\ ServedInv

\* With overflow checks: the transport's counter is one ahead of vsomeip's,
\* two while a request is being sent, and nothing is stored under a session id
\* that has not been given out.
CountersAgree ==
    \A c \in Clients :
        /\ engine[c] = None => sessionId[c] = wireSession[c] + 1
        /\ engine[c] # None =>
              /\ sessionId[c] = wireSession[c] + 2
              /\ ueRequest[create_request_id(c, wireSession[c] + 1)] = engine[c]
        /\ \A s \in U16 : s >= sessionId[c] => ueRequest[create_request_id(c, s)] = None

\* A request id that is under way was used on the wire, and is stored for the
\* request it was used for or not at all.
Belongs(r, q) ==
    /\ \A c \in Clients, s \in U16 : r = create_request_id(c, s) => s <= wireSession[c]
    /\ ueRequest[r] \in {None, q}

WireIdsBelong ==
    /\ \A m \in network : Belongs(m.request, m.asked)
    /\ \A u \in Uuids : meRequest[u] # None => Belongs(meRequest[u], asked[u])

\* The inductive invariant of a build with overflow checks.
CheckedInv == IInv /\ CountersAgree /\ WireIdsBelong /\ ResponseAnswersRequest

-----------------------------------------------------------------------------
(* Request ids.                                                            *)

\* The multiples of a positive n are at least n apart.
LEMMA MultipleGrows ==
  ASSUME NEW h \in Nat, NEW a \in Int, NEW b \in Int, a < b
  PROVE  a * h + h <= b * h
<1>1. b - a - 1 \in Nat
  OBVIOUS
<1>2. (b - a - 1) * h >= 0
  BY <1>1
<1>3. QED
  BY <1>2

\* Quotient and remainder are unique.
LEMMA DivModUnique ==
  ASSUME NEW h \in Nat \ {0}, NEW q \in Int, NEW r \in 0 .. (h - 1)
  PROVE  (q * h + r) \div h = q /\ (q * h + r) % h = r
<1> DEFINE n == q * h + r
<1>1. n \in Int /\ n \div h \in Int /\ n % h \in 0 .. (h - 1)
  OBVIOUS
<1>2. n = h * (n \div h) + (n % h)
  OBVIOUS
<1> HIDE DEF n
<1>3. ASSUME n \div h < q PROVE FALSE
  BY <1>1, <1>2, <1>3, MultipleGrows DEF n
<1>4. ASSUME q < n \div h PROVE FALSE
  BY <1>1, <1>2, <1>4, MultipleGrows DEF n
<1>5. n \div h = q
  <2>1. ~ (n \div h < q)
    BY <1>3
  <2>2. ~ (q < n \div h)
    BY <1>4
  <2>3. QED
    BY <1>1, <2>1, <2>2
<1>6. QED
  BY <1>1, <1>2, <1>5 DEF n

\* split_u32_to_u16 undoes create_request_id on ids of their width.
LEMMA RequestIdRoundTrip ==
  ASSUME NEW c \in U16, NEW s \in U16
  PROVE  split_u32_to_u16(create_request_id(c, s)) = <<c, s>>
<1>1. HalfWord \in Nat \ {0}
  BY HalfWordAssumption
<1>2. c \in Int /\ s \in 0 .. (HalfWord - 1)
  BY <1>1 DEF U16
<1>3. QED
  BY <1>1, <1>2, DivModUnique DEF create_request_id, split_u32_to_u16

\* Distinct clients or sessions have distinct request ids.
LEMMA RequestIdInjective ==
  ASSUME NEW c1 \in U16, NEW s1 \in U16, NEW c2 \in U16, NEW s2 \in U16,
         create_request_id(c1, s1) = create_request_id(c2, s2)
  PROVE  c1 = c2 /\ s1 = s2
<1>1. <<c1, s1>> = <<c2, s2>>
  BY RequestIdRoundTrip
<1>2. QED
  BY <1>1

\* The id umsg_response_to_vsomeip_message puts together again is the one the
\* request came with.
LEMMA RejoinedRequestId ==
  ASSUME NEW r \in RequestIds
  PROVE  create_request_id(split_u32_to_u16(r)[1], split_u32_to_u16(r)[2]) = r
<1>1. PICK c \in Clients, s \in U16 : r = create_request_id(c, s)
  BY DEF RequestIds
<1>2. c \in U16
  BY RpcAssumption
<1>3. QED
  BY <1>1, <1>2, RequestIdRoundTrip

\* What the session counters of the transport and of vsomeip hold after a
\* request, with and without a wrap.
LEMMA SessionArithmetic ==
  /\ 0 \in U16 /\ 1 \in U16
  /\ \A s \in U16 : NextSession(s) \in U16 /\ NextWireSession(s) \in U16
  /\ \A s \in U16 : s # HalfWord - 1 => NextSession(s) = s + 1 /\ NextWireSession(s) = s + 1
<1>1. 0 \in U16 /\ 1 \in U16
  BY HalfWordAssumption DEF U16
<1>2. ASSUME NEW s \in U16
      PROVE  NextSession(s) \in U16 /\ NextWireSession(s) \in U16
  BY HalfWordAssumption DEF U16, NextSession, NextWireSession
<1>3. ASSUME NEW s \in U16, s # HalfWord - 1
      PROVE  NextSession(s) = s + 1 /\ NextWireSession(s) = s + 1
  <2>1. HalfWord \in Nat \ {0} /\ s + 1 \in 0 .. (HalfWord - 1)
    BY <1>3, HalfWordAssumption DEF U16
  <2>2. (0 * HalfWord + (s + 1)) % HalfWord = s + 1
    BY <2>1, DivModUnique
  <2>3. (s + 1) % HalfWord = s + 1
    BY <2>1, <2>2
  <2>4. QED
    BY <1>3, <2>3 DEF NextSession, NextWireSession
<1>4. QED
  BY <1>1, <1>2, <1>3

-----------------------------------------------------------------------------
(* The invariant that holds whatever the build does on overflow.           *)

\* Initially nothing is stored, sent or served.
LEMMA InitEstablishesIInv == Init => IInv
<1> SUFFICES ASSUME Init PROVE IInv
  OBVIOUS
<1>1. TypeOK
  BY SessionArithmetic, RpcAssumption DEF Init, TypeOK
<1>2. OneCorrelation /\ AnswerShape /\ ServedInv
  BY DEF Init, OneCorrelation, AnswerShape, ServedInv
<1>3. QED
  BY <1>1, <1>2 DEF IInv

\* The client's engine.
LEMMA ConvertRequestKeepsIInv ==
  ASSUME IInv, NEW c \in Clients, NEW q \in UReqs, umsg_request_to_vsomeip_message(c, q)
  PROVE  IInv'
<1> DEFINE r == create_request_id(c, sessionId[c])
<1>1. r \in RequestIds /\ q # None /\ q \in unsent
  BY RpcAssumption DEF IInv, TypeOK, RequestIds, umsg_request_to_vsomeip_message
<1>2. \/ ueRequest[r] = None /\ ueRequest' = [ueRequest EXCEPT ![r] = q]
         /\ engine' = [engine EXCEPT ![c] = q]
      \/ UNCHANGED <<ueRequest, engine>>
  BY DEF umsg_request_to_vsomeip_message, insert_ue_request_correlation
<1>3. /\ unsent' = unsent \ {q}
      /\ sessionId' = [sessionId EXCEPT ![c] = NextSession(@)]
      /\ UNCHANGED <<panicked, wireSession, meRequest, inbox, asked, served, network, copies, answers>>
  BY DEF umsg_request_to_vsomeip_message, serviceVars
<1> HIDE DEF r
<1>4. TypeOK'
  BY <1>1, <1>2, <1>3, SessionArithmetic DEF IInv, TypeOK
<1>5. OneCorrelation'
  <2>1. CASE UNCHANGED <<ueRequest, engine>>
    BY <1>3, <2>1 DEF IInv, OneCorrelation
  <2>2. CASE ueRequest[r] = None /\ ueRequest' = [ueRequest EXCEPT ![r] = q]
    <3>1. \A x \in RequestIds : ueRequest'[x] = IF x = r THEN q ELSE ueRequest[x]
      BY <2>2 DEF IInv, TypeOK
    <3>2. \A x \in RequestIds : ueRequest[x] # q
      BY <1>1 DEF IInv, OneCorrelation
    <3>3. answers[q] = <<>>
      BY <1>1 DEF IInv, OneCorrelation
    <3>4. QED
      BY <1>1, <1>3, <3>1, <3>2, <3>3 DEF IInv, OneCorrelation
  <2>3. QED
    BY <1>2, <2>1, <2>2
<1>6. AnswerShape' /\ ServedInv'
  BY <1>3 DEF IInv, AnswerShape, ServedInv
<1>7. QED
  BY <1>4, <1>5, <1>6 DEF IInv

\* The request leaves under the session id vsomeip gives it.
LEMMA SendRequestKeepsIInv ==
  ASSUME IInv, NEW c \in Clients, SendRequest(c)
  PROVE  IInv'
<1> DEFINE w == NextWireSession(wireSession[c])
           m == Message(RequestWire, create_request_id(c, w), engine[c], NoStatus)
<1>1. w \in U16 /\ engine[c] \in UReqs
  BY SessionArithmetic DEF IInv, TypeOK, SendRequest
<1>2. m.request \in RequestIds /\ m.asked \in UReqs
  BY <1>1 DEF Message, RequestIds
<1>3. wireSession' = [wireSession EXCEPT ![c] = w] /\ wireSession'[c] = w
  BY DEF SendRequest, IInv, TypeOK
<1>4. /\ network' = network \cup {m}
      /\ engine' = [engine EXCEPT ![c] = None]
      /\ UNCHANGED <<sessionId, ueRequest, panicked, unsent, meRequest, inbox, asked, served, copies, answers>>
  BY <1>3 DEF SendRequest, serviceVars
<1> HIDE DEF w, m
<1>5. TypeOK'
  BY <1>1, <1>2, <1>3, <1>4 DEF IInv, TypeOK
<1>6. QED
  BY <1>4, <1>5 DEF IInv, OneCorrelation, AnswerShape, ServedInv

\* What a message's delivery leaves of the network.
LEMMA ReceiveKeepsMessages ==
  ASSUME IInv, NEW m \in network, Receive(m)
  PROVE  /\ network' \subseteq network
         /\ copies' \in 0 .. MaxCopies
         /\ m.request \in RequestIds /\ m.asked \in UReqs
  BY RpcAssumption DEF IInv, TypeOK, Receive

\* A request reaches the service once more, or for the first time.
LEMMA ServiceReceivesKeepsIInv ==
  ASSUME IInv, NEW m \in network, NEW u \in Uuids, convert_vsomeip_mt_request_to_umsg(m, u)
  PROVE  IInv'
<1>1. /\ network' \subseteq network /\ copies' \in 0 .. MaxCopies
      /\ m.request \in RequestIds /\ m.asked \in UReqs
  BY ReceiveKeepsMessages DEF convert_vsomeip_mt_request_to_umsg
<1>2. /\ asked[u] = None /\ asked' = [asked EXCEPT ![u] = m.asked]
      /\ meRequest' = [meRequest EXCEPT ![u] = m.request]
      /\ inbox' \in {inbox, inbox \cup {u}}
      /\ UNCHANGED <<sessionId, ueRequest, engine, panicked, wireSession, unsent, served, answers>>
  BY DEF convert_vsomeip_mt_request_to_umsg, insert_me_request_correlation, clientVars
<1>3. TypeOK'
  BY <1>1, <1>2 DEF IInv, TypeOK
<1>4. ServedInv'
  BY <1>1, <1>2, RpcAssumption DEF IInv, TypeOK, ServedInv
<1>5. QED
  BY <1>2, <1>3, <1>4 DEF IInv, OneCorrelation, AnswerShape

\* The service's transport responds, and forgets the request.
LEMMA ServiceAnswersKeepsIInv ==
  ASSUME IInv, NEW u \in Uuids, NEW status \in Statuses,
         umsg_response_to_vsomeip_message(u, status)
  PROVE  IInv'
<1> DEFINE m == Message(ResponseWire(status), meRequest[u], asked[u], status)
<1>1. meRequest[u] \in RequestIds /\ meRequest[u] # None /\ asked[u] \in UReqs
  BY DEF IInv, TypeOK, ServedInv, umsg_response_to_vsomeip_message, remove_me_request_correlation
<1>2. m.request \in RequestIds /\ m.asked \in UReqs
  BY <1>1 DEF Message
<1>3. network' = network \cup {m}
  BY <1>1, RejoinedRequestId DEF umsg_response_to_vsomeip_message
<1>4. /\ meRequest' = [meRequest EXCEPT ![u] = None]
      /\ served' = [served EXCEPT ![u] = @ + 1]
      /\ UNCHANGED <<sessionId, ueRequest, engine, panicked, wireSession, unsent, inbox, asked, copies, answers>>
  BY DEF umsg_response_to_vsomeip_message, remove_me_request_correlation, clientVars
<1> HIDE DEF m
<1>5. TypeOK'
  BY <1>1, <1>2, <1>3, <1>4 DEF IInv, TypeOK
<1>6. ServedInv'
  BY <1>1, <1>4 DEF IInv, TypeOK, ServedInv
<1>7. QED
  BY <1>4, <1>5, <1>6 DEF IInv, OneCorrelation, AnswerShape

\* What a response does to the request it is correlated with.
LEMMA ClientReceivesKeepsIInv ==
  ASSUME IInv, NEW m \in network, convert_vsomeip_mt_response_to_umsg(m)
  PROVE  IInv'
<1> DEFINE q == ueRequest[m.request]
           a == [asked |-> m.asked, sent |-> m.status, status |-> ResponseStatus(m)]
<1>1. /\ network' \subseteq network /\ copies' \in 0 .. MaxCopies
      /\ m.request \in RequestIds
  BY ReceiveKeepsMessages DEF convert_vsomeip_mt_response_to_umsg
<1>2. /\ ueRequest' = [ueRequest EXCEPT ![m.request] = None]
      /\ UNCHANGED <<sessionId, engine, panicked, wireSession, unsent, meRequest, inbox, asked, served>>
  BY DEF convert_vsomeip_mt_response_to_umsg, remove_ue_request_correlation, serviceVars
<1>3. \/ q # None /\ answers' = [answers EXCEPT ![q] = Append(@, a)]
      \/ UNCHANGED answers
  BY DEF convert_vsomeip_mt_response_to_umsg
<1>4. q # None => q \in UReqs /\ q \notin unsent /\ answers[q] = <<>>
  BY <1>1 DEF IInv, TypeOK, OneCorrelation
<1>5. Append(<<>>, a) = <<a>>
  <2> HIDE DEF a
  <2> QED OBVIOUS
<1> HIDE DEF q, a
<1>6. TypeOK'
  BY <1>1, <1>2 DEF IInv, TypeOK
<1>7. \/ q # None /\ answers' = [answers EXCEPT ![q] = <<a>>]
      \/ UNCHANGED answers
  BY <1>3, <1>4, <1>5
<1>8. OneCorrelation'
  BY <1>1, <1>2, <1>4, <1>7 DEF IInv, TypeOK, OneCorrelation, AnswerShape, q
<1>9. AnswerShape'
  BY <1>4, <1>7 DEF IInv, AnswerShape
<1>10. QED
  BY <1>2, <1>6, <1>8, <1>9 DEF IInv, ServedInv

\* The invariant is inductive.
LEMMA NextKeepsIInv == IInv /\ [Next]_vars => IInv'
<1> SUFFICES ASSUME IInv, [Next]_vars PROVE IInv'
  OBVIOUS
<1>1. CASE ClientSends
  <2>1. ASSUME NEW c \in Clients, NEW q \in UReqs, SessionOverflow(c, q) PROVE IInv'
    BY <2>1 DEF SessionOverflow, serviceVars, IInv, TypeOK, OneCorrelation, AnswerShape, ServedInv
  <2>2. QED
    BY <1>1, <2>1, ConvertRequestKeepsIInv, SendRequestKeepsIInv DEF ClientSends
<1>2. CASE ServiceReceives
  BY <1>2, ServiceReceivesKeepsIInv DEF ServiceReceives
<1>3. CASE ServiceAnswers
  BY <1>3, ServiceAnswersKeepsIInv DEF ServiceAnswers
<1>4. CASE ClientReceives
  BY <1>4, ClientReceivesKeepsIInv DEF ClientReceives
<1>5. ASSUME NEW m \in network, Lose(m) PROVE IInv'
  BY <1>5 DEF Lose, clientVars, serviceVars, IInv, TypeOK, OneCorrelation, AnswerShape, ServedInv
<1>6. CASE UNCHANGED vars
  BY <1>6 DEF vars, clientVars, serviceVars, IInv, TypeOK, OneCorrelation, AnswerShape, ServedInv
<1>7. QED
  BY <1>1, <1>2, <1>3, <1>4, <1>5, <1>6 DEF Next

\* The inductive invariant of the correlation registries holds in every state.
THEOREM CorrelationInductive == Spec => []IInv
  BY InitEstablishesIInv, NextKeepsIInv, PTL DEF Spec

\* The registries and counters keep their types.
THEOREM CorrelationTypeCorrect == Spec => []TypeOK
<1>1. IInv => TypeOK
  BY DEF IInv
<1>2. QED
  BY <1>1, CorrelationInductive, PTL

\* A client's request is answered at most once, and a service's transport
\* responds to a message at most once, whatever the network repeats.
THEOREM AtMostOnce == Spec => []AnsweredAtMostOnce
<1>1. IInv => \A q \in UReqs : Len(answers[q]) <= 1
  <2> SUFFICES ASSUME IInv, NEW q \in UReqs PROVE Len(answers[q]) <= 1
    OBVIOUS
  <2>1. CASE answers[q] = <<>>
    BY <2>1
  <2>2. CASE answers[q] = <<answers[q][1]>>
    <3> DEFINE a == answers[q][1]
    <3>1. answers[q] = <<a>>
      BY <2>2
    <3> HIDE DEF a
    <3>2. QED
      BY <3>1
  <2>3. QED
    BY <2>1, <2>2 DEF IInv, AnswerShape
<1>2. IInv => \A u \in Uuids : served[u] <= 1
  BY DEF IInv, ServedInv
<1>3. IInv => AnsweredAtMostOnce
  BY <1>1, <1>2 DEF AnsweredAtMostOnce
<1>4. QED
  BY <1>3, CorrelationInductive, PTL

\* No request takes the place of one that is still waiting for its response,
\* also when session ids come round again.
THEOREM NeverOverwritten == Spec => CorrelationNotOverwritten
<1> DEFINE Kept == \A r \in RequestIds :
             ueRequest[r] # None /\ ueRequest'[r] # None => ueRequest'[r] = ueRequest[r]
<1>1. ASSUME IInv, Next PROVE Kept
  <2>1. ASSUME NEW c \in Clients, NEW q \in UReqs, umsg_request_to_vsomeip_message(c, q)
        PROVE  Kept
    BY <1>1, <2>1 DEF umsg_request_to_vsomeip_message, insert_ue_request_correlation, IInv, TypeOK
  <2>2. ASSUME NEW m \in network, convert_vsomeip_mt_response_to_umsg(m)
        PROVE  Kept
    BY <1>1, <2>2 DEF convert_vsomeip_mt_response_to_umsg, remove_ue_request_correlation, IInv, TypeOK
  <2>3. CASE UNCHANGED ueRequest
    BY <2>3
  <2>4. QED
    BY <1>1, <2>1, <2>2, <2>3 DEF Next, ClientSends, SessionOverflow, SendRequest, ServiceReceives,
       convert_vsomeip_mt_request_to_umsg, ServiceAnswers, umsg_response_to_vsomeip_message,
       ClientReceives, Lose, clientVars
<1>2. IInv /\ [Next]_vars => [Kept]_vars
  BY <1>1
<1>3. QED
  BY <1>2, CorrelationInductive, PTL DEF Spec, CorrelationNotOverwritten

-----------------------------------------------------------------------------
(* Builds with overflow checks: the two session counters agree.            *)

\* Initially both session counters stand at their first value.
LEMMA InitEstablishesCheckedInv == Init => CheckedInv
<1> SUFFICES ASSUME Init PROVE CheckedInv
  OBVIOUS
<1>1. ASSUME NEW c \in Clients, NEW s \in U16 PROVE create_request_id(c, s) \in RequestIds
  BY DEF RequestIds
<1>2. CountersAgree
  BY <1>1 DEF Init, CountersAgree
<1>3. WireIdsBelong
  BY DEF Init, WireIdsBelong
<1>4. ResponseAnswersRequest
  BY DEF Init, ResponseAnswersRequest
<1>5. QED
  BY <1>2, <1>3, <1>4, InitEstablishesIInv DEF CheckedInv

\* A stored request id is new to the network and to the service.
LEMMA ConvertRequestKeepsCheckedInv ==
  ASSUME OverflowChecks, CheckedInv, NEW c \in Clients, NEW q \in UReqs,
         umsg_request_to_vsomeip_message(c, q)
  PROVE  CheckedInv'
<1> DEFINE s == sessionId[c]
           r == create_request_id(c, s)
<1>1. IInv /\ IInv'
  BY ConvertRequestKeepsIInv DEF CheckedInv
<1>2. /\ s \in U16 /\ s # HalfWord - 1 /\ engine[c] = None
      /\ q # None /\ r \in RequestIds
  BY <1>1, RpcAssumption
  DEF umsg_request_to_vsomeip_message, Overflows, IInv, TypeOK, RequestIds
<1>3. s = wireSession[c] + 1 /\ ueRequest[r] = None
  BY <1>2, SessionArithmetic DEF CheckedInv, CountersAgree, U16
<1>4. /\ ueRequest' = [ueRequest EXCEPT ![r] = q]
      /\ engine' = [engine EXCEPT ![c] = q]
      /\ sessionId' = [sessionId EXCEPT ![c] = s + 1]
      /\ UNCHANGED <<wireSession, meRequest, asked, network, answers>>
  BY <1>2, <1>3, SessionArithmetic
  DEF umsg_request_to_vsomeip_message, insert_ue_request_correlation, serviceVars
<1>5. ASSUME NEW d \in Clients, NEW z \in U16, create_request_id(d, z) = r
      PROVE  d = c /\ z = s
  <2>1. c \in U16 /\ d \in U16
    BY RpcAssumption
  <2>2. QED
    BY <1>2, <1>5, <2>1, RequestIdInjective
<1>6. ASSUME NEW d \in Clients, NEW z \in U16 PROVE create_request_id(d, z) \in RequestIds
  BY DEF RequestIds
<1> HIDE DEF r
<1>7. CountersAgree'
  <2> SUFFICES ASSUME NEW d \in Clients
               PROVE  /\ engine'[d] = None => sessionId'[d] = wireSession'[d] + 1
                      /\ engine'[d] # None =>
                           /\ sessionId'[d] = wireSession'[d] + 2
                           /\ ueRequest'[create_request_id(d, wireSession'[d] + 1)] = engine'[d]
                      /\ \A z \in U16 : z >= sessionId'[d] => ueRequest'[create_request_id(d, z)] = None
    BY DEF CountersAgree
  <2>1. sessionId[d] \in U16 /\ wireSession[d] \in U16 /\ engine[d] \in UReqs \cup {None}
    BY <1>1 DEF IInv, TypeOK
  <2>2. CASE d = c
    <3>1. engine'[d] = q /\ sessionId'[d] = s + 1 /\ wireSession'[d] = wireSession[c]
      BY <1>1, <1>4, <2>2 DEF IInv, TypeOK
    <3>2. ueRequest'[r] = q
      BY <1>1, <1>2, <1>4 DEF IInv, TypeOK
    <3>3. ASSUME NEW z \in U16, z >= s + 1 PROVE ueRequest'[create_request_id(d, z)] = None
      <4>1. create_request_id(d, z) # r
        BY <1>2, <1>5, <3>3 DEF U16
      <4>2. ueRequest[create_request_id(d, z)] = None
        BY <1>2, <2>2, <3>3 DEF CheckedInv, CountersAgree, U16
      <4>3. QED
        BY <1>1, <1>4, <1>6, <4>1, <4>2 DEF IInv, TypeOK
    <3>4. QED
      BY <1>2, <1>3, <2>1, <2>2, <3>1, <3>2, <3>3 DEF r, U16
  <2>3. CASE d # c
    <3>1. engine'[d] = engine[d] /\ sessionId'[d] = sessionId[d] /\ wireSession'[d] = wireSession[d]
      BY <1>1, <1>4, <2>3 DEF IInv, TypeOK
    <3>2. ASSUME NEW z \in U16
          PROVE  ueRequest'[create_request_id(d, z)] = ueRequest[create_request_id(d, z)]
      BY <1>1, <1>4, <1>5, <1>6, <2>3 DEF IInv, TypeOK
    <3>3. engine[d] # None => wireSession[d] + 1 \in U16
      BY <2>1, HalfWordAssumption DEF CheckedInv, CountersAgree, U16
    <3>4. QED
      BY <3>1, <3>2, <3>3 DEF CheckedInv, CountersAgree
  <2>4. QED
    BY <2>2, <2>3
<1>8. ASSUME NEW x \in RequestIds, NEW p, Belongs(x, p) PROVE Belongs(x, p)'
  <2>1. x # r
    BY <1>1, <1>2, <1>3, <1>8 DEF Belongs, r, IInv, TypeOK, U16
  <2>2. QED
    BY <1>1, <1>4, <1>8, <2>1 DEF Belongs, IInv, TypeOK
<1>9. WireIdsBelong'
  BY <1>1, <1>4, <1>8 DEF CheckedInv, WireIdsBelong, IInv, TypeOK
<1>10. ResponseAnswersRequest'
  BY <1>4 DEF CheckedInv, ResponseAnswersRequest
<1>11. QED
  BY <1>1, <1>7, <1>9, <1>10 DEF CheckedInv

\* vsomeip's next session id is the one the request was stored under.
LEMMA SendRequestKeepsCheckedInv ==
  ASSUME CheckedInv, NEW c \in Clients, SendRequest(c)
  PROVE  CheckedInv'
<1> DEFINE w == wireSession[c] + 1
           r == create_request_id(c, w)
           m == Message(RequestWire, r, engine[c], NoStatus)
<1>1. IInv /\ IInv'
  BY SendRequestKeepsIInv DEF CheckedInv
<1>2. sessionId[c] \in U16 /\ wireSession[c] \in U16 /\ engine[c] # None
  BY <1>1 DEF IInv, TypeOK, SendRequest
<1>3. sessionId[c] = wireSession[c] + 2 /\ ueRequest[r] = engine[c]
  BY <1>2 DEF CheckedInv, CountersAgree
<1>4. w \in U16 /\ wireSession[c] # HalfWord - 1
  BY <1>2, <1>3, HalfWordAssumption DEF U16
<1>5. NextWireSession(wireSession[c]) = w
  BY <1>2, <1>4, SessionArithmetic
<1>6. wireSession' = [wireSession EXCEPT ![c] = w] /\ wireSession'[c] = w
  BY <1>1, <1>5 DEF SendRequest, IInv, TypeOK
<1>7. /\ network' = network \cup {m}
      /\ engine' = [engine EXCEPT ![c] = None]
      /\ UNCHANGED <<sessionId, ueRequest, meRequest, asked, answers>>
  BY <1>6 DEF SendRequest, serviceVars
<1>8. m.request = r /\ m.asked = engine[c]
  BY DEF Message
<1>9. ASSUME NEW d \in Clients, NEW z \in U16, r = create_request_id(d, z)
      PROVE  z <= wireSession'[d]
  <2>1. c \in U16 /\ d \in U16
    BY RpcAssumption
  <2>2. d = c /\ z = w
    BY <1>4, <1>9, <2>1, RequestIdInjective
  <2>3. QED
    BY <1>4, <1>6, <2>2 DEF U16
<1> HIDE DEF m, r
<1>10. CountersAgree'
  <2>1. \A d \in Clients : d # c => engine'[d] = engine[d] /\ wireSession'[d] = wireSession[d]
    BY <1>1, <1>6, <1>7 DEF IInv, TypeOK
  <2>2. engine'[c] = None /\ sessionId[c] = wireSession'[c] + 1
    BY <1>1, <1>2, <1>3, <1>6, <1>7 DEF IInv, TypeOK, U16
  <2>3. QED
    BY <1>7, <2>1, <2>2 DEF CheckedInv, CountersAgree
<1>11. ASSUME NEW x, NEW p, Belongs(x, p) PROVE Belongs(x, p)'
  <2>1. \A d \in Clients : wireSession[d] \in Int /\ wireSession'[d] \in Int
                             /\ wireSession[d] <= wireSession'[d]
    BY <1>1, <1>4, <1>6 DEF IInv, TypeOK, U16
  <2>2. \A z \in U16 : z \in Int
    BY DEF U16
  <2>3. QED
    BY <1>7, <1>11, <2>1, <2>2 DEF Belongs
<1>13. /\ \A d \in Clients, z \in U16 : r = create_request_id(d, z) => z <= wireSession'[d]
       /\ ueRequest'[r] = engine[c]
  BY <1>3, <1>7, <1>9
<1>14. WireIdsBelong'
  <2>1. ASSUME NEW x \in network' PROVE Belongs(x.request, x.asked)'
    <3>1. CASE x \in network
      BY <1>11, <3>1 DEF CheckedInv, WireIdsBelong
    <3>2. CASE x = m
      BY <1>8, <1>13, <3>2 DEF Belongs
    <3>3. QED
      BY <1>7, <2>1, <3>1, <3>2
  <2>2. ASSUME NEW u \in Uuids, meRequest'[u] # None PROVE Belongs(meRequest[u], asked[u])'
    BY <1>7, <1>11, <2>2 DEF CheckedInv, WireIdsBelong
  <2>3. QED
    BY <2>1, <2>2 DEF WireIdsBelong
<1>15. ResponseAnswersRequest'
  BY <1>7 DEF CheckedInv, ResponseAnswersRequest
<1>16. QED
  BY <1>1, <1>10, <1>14, <1>15 DEF CheckedInv

\* What the service records of a request came off the wire.
LEMMA ServiceReceivesKeepsCheckedInv ==
  ASSUME CheckedInv, NEW m \in network, NEW u \in Uuids, convert_vsomeip_mt_request_to_umsg(m, u)
  PROVE  CheckedInv'
<1>1. IInv /\ IInv'
  BY ServiceReceivesKeepsIInv DEF CheckedInv
<1>2. network' \subseteq network
  BY <1>1, ReceiveKeepsMessages DEF convert_vsomeip_mt_request_to_umsg
<1>3. /\ asked' = [asked EXCEPT ![u] = m.asked]
      /\ meRequest' = [meRequest EXCEPT ![u] = m.request]
      /\ UNCHANGED <<sessionId, ueRequest, engine, wireSession, answers>>
  BY DEF convert_vsomeip_mt_request_to_umsg, insert_me_request_correlation, clientVars
<1>4. WireIdsBelong'
  BY <1>1, <1>2, <1>3 DEF CheckedInv, WireIdsBelong, Belongs, IInv, TypeOK
<1>5. CountersAgree' /\ ResponseAnswersRequest'
  BY <1>3 DEF CheckedInv, CountersAgree, ResponseAnswersRequest
<1>6. QED
  BY <1>1, <1>4, <1>5 DEF CheckedInv

\* A response carries the request id of the request it answers.
LEMMA ServiceAnswersKeepsCheckedInv ==
  ASSUME CheckedInv, NEW u \in Uuids, NEW status \in Statuses,
         umsg_response_to_vsomeip_message(u, status)
  PROVE  CheckedInv'
<1> DEFINE m == Message(ResponseWire(status), meRequest[u], asked[u], status)
<1>1. IInv /\ IInv'
  BY ServiceAnswersKeepsIInv DEF CheckedInv
<1>2. meRequest[u] \in RequestIds /\ meRequest[u] # None
  BY <1>1 DEF IInv, TypeOK, umsg_response_to_vsomeip_message, remove_me_request_correlation
<1>3. /\ network' = network \cup {m}
      /\ meRequest' = [meRequest EXCEPT ![u] = None]
      /\ UNCHANGED <<sessionId, ueRequest, engine, wireSession, asked, answers>>
  BY <1>2, RejoinedRequestId
  DEF umsg_response_to_vsomeip_message, remove_me_request_correlation, clientVars
<1>4. m.request = meRequest[u] /\ m.asked = asked[u]
  BY DEF Message
<1> HIDE DEF m
<1>5. WireIdsBelong'
  BY <1>1, <1>2, <1>3, <1>4 DEF CheckedInv, WireIdsBelong, Belongs, IInv, TypeOK
<1>6. CountersAgree' /\ ResponseAnswersRequest'
  BY <1>3 DEF CheckedInv, CountersAgree, ResponseAnswersRequest
<1>7. QED
  BY <1>1, <1>5, <1>6 DEF CheckedInv

\* A response carries a request id that was used on the wire, so it cannot take
\* away the correlation of a request that is still to be sent.
LEMMA ClientReceivesKeepsCheckedInv ==
  ASSUME CheckedInv, NEW m \in network, convert_vsomeip_mt_response_to_umsg(m)
  PROVE  CheckedInv'
<1> DEFINE q == ueRequest[m.request]
           a == [asked |-> m.asked, sent |-> m.status, status |-> ResponseStatus(m)]
<1>1. IInv /\ IInv'
  BY ClientReceivesKeepsIInv DEF CheckedInv
<1>2. network' \subseteq network /\ m.request \in RequestIds /\ m.asked \in UReqs
  BY <1>1, ReceiveKeepsMessages DEF convert_vsomeip_mt_response_to_umsg
<1>3. /\ ueRequest' = [ueRequest EXCEPT ![m.request] = None]
      /\ UNCHANGED <<sessionId, engine, wireSession, meRequest, asked>>
  BY DEF convert_vsomeip_mt_response_to_umsg, remove_ue_request_correlation, serviceVars
<1>4. \A x \in RequestIds : ueRequest'[x] = IF x = m.request THEN None ELSE ueRequest[x]
  BY <1>1, <1>3 DEF IInv, TypeOK
<1>5. Belongs(m.request, m.asked)
  BY DEF CheckedInv, WireIdsBelong
<1>6. CountersAgree'
  <2>1. ASSUME NEW d \in Clients, engine[d] # None
        PROVE  ueRequest'[create_request_id(d, wireSession[d] + 1)]
                 = ueRequest[create_request_id(d, wireSession[d] + 1)]
    <3>1. sessionId[d] \in U16 /\ wireSession[d] \in U16
      BY <1>1 DEF IInv, TypeOK
    <3>2. wireSession[d] + 1 \in U16
      BY <2>1, <3>1, HalfWordAssumption DEF CheckedInv, CountersAgree, U16
    <3>3. create_request_id(d, wireSession[d] + 1) # m.request
      BY <1>5, <3>1, <3>2 DEF Belongs, U16
    <3>4. create_request_id(d, wireSession[d] + 1) \in RequestIds
      BY <3>2 DEF RequestIds
    <3>5. QED
      BY <1>4, <3>3, <3>4
  <2>2. ASSUME NEW d \in Clients, NEW z \in U16, ueRequest[create_request_id(d, z)] = None
        PROVE  ueRequest'[create_request_id(d, z)] = None
    BY <1>4, <2>2 DEF RequestIds
  <2>3. QED
    BY <1>3, <2>1, <2>2 DEF CheckedInv, CountersAgree
<1>7. WireIdsBelong'
  <2>1. ASSUME NEW x \in RequestIds, NEW p, Belongs(x, p) PROVE Belongs(x, p)'
    BY <1>3, <1>4, <2>1 DEF Belongs
  <2>2. \A x \in network : x.request \in RequestIds
    BY <1>1 DEF IInv, TypeOK
  <2>3. \A u \in Uuids : meRequest[u] # None => meRequest[u] \in RequestIds
    BY <1>1 DEF IInv, TypeOK
  <2>4. QED
    BY <1>2, <1>3, <2>1, <2>2, <2>3 DEF CheckedInv, WireIdsBelong
<1>8. ResponseAnswersRequest'
  <2>1. \/ q # None /\ answers' = [answers EXCEPT ![q] = Append(@, a)]
        \/ UNCHANGED answers
    BY DEF convert_vsomeip_mt_response_to_umsg
  <2>2. q # None => q = m.asked /\ answers[q] = <<>>
    BY <1>2, <1>5 DEF Belongs, CheckedInv, IInv, OneCorrelation
  <2>3. a.asked = m.asked
    OBVIOUS
  <2>4. Append(<<>>, a) = <<a>> /\ DOMAIN <<a>> = {1} /\ <<a>>[1] = a
    <3> HIDE DEF a
    <3> QED OBVIOUS
  <2> HIDE DEF q, a
  <2>5. CASE UNCHANGED answers
    BY <2>5 DEF CheckedInv, ResponseAnswersRequest
  <2>6. CASE q # None /\ answers' = [answers EXCEPT ![q] = <<a>>]
    <3>1. \A p \in UReqs : answers'[p] = IF p = q THEN <<a>> ELSE answers[p]
      BY <1>1, <2>6 DEF IInv, AnswerShape
    <3>2. ASSUME NEW p \in UReqs, NEW i \in DOMAIN answers'[p] PROVE answers'[p][i].asked = p
      <4>1. CASE p = q
        BY <2>2, <2>3, <2>4, <2>6, <3>1, <3>2, <4>1
      <4>2. CASE p # q
        BY <3>1, <3>2, <4>2 DEF CheckedInv, ResponseAnswersRequest
      <4>3. QED
        BY <4>1, <4>2
    <3>3. QED
      BY <3>2 DEF ResponseAnswersRequest
  <2>7. QED
    BY <2>1, <2>2, <2>4, <2>5, <2>6
<1>9. QED
  BY <1>1, <1>6, <1>7, <1>8 DEF CheckedInv

\* With overflow checks the stronger invariant is inductive too.
LEMMA NextKeepsCheckedInv ==
  ASSUME OverflowChecks
  PROVE  CheckedInv /\ [Next]_vars => CheckedInv'
<1> SUFFICES ASSUME CheckedInv, [Next]_vars PROVE CheckedInv'
  OBVIOUS
<1>1. IInv'
  BY NextKeepsIInv DEF CheckedInv
<1>2. CASE ClientSends
  <2>1. ASSUME NEW c \in Clients, NEW q \in UReqs, SessionOverflow(c, q) PROVE CheckedInv'
    BY <1>1, <2>1
    DEF SessionOverflow, serviceVars, CheckedInv, CountersAgree, WireIdsBelong, Belongs,
        ResponseAnswersRequest
  <2>2. QED
    BY <1>2, <2>1, ConvertRequestKeepsCheckedInv, SendRequestKeepsCheckedInv DEF ClientSends
<1>3. CASE ServiceReceives
  BY <1>3, ServiceReceivesKeepsCheckedInv DEF ServiceReceives
<1>4. CASE ServiceAnswers
  BY <1>4, ServiceAnswersKeepsCheckedInv DEF ServiceAnswers
<1>5. CASE ClientReceives
  BY <1>5, ClientReceivesKeepsCheckedInv DEF ClientReceives
<1>6. ASSUME NEW m \in network, Lose(m) PROVE CheckedInv'
  BY <1>1, <1>6
  DEF Lose, clientVars, serviceVars, CheckedInv, CountersAgree, WireIdsBelong, Belongs,
      ResponseAnswersRequest
<1>7. CASE UNCHANGED vars
  BY <1>1, <1>7
  DEF vars, clientVars, serviceVars, CheckedInv, CountersAgree, WireIdsBelong, Belongs,
      ResponseAnswersRequest
<1>8. QED
  BY <1>2, <1>3, <1>4, <1>5, <1>6, <1>7 DEF Next

\* In a build with overflow checks every request is stored under the request id
\* vsomeip gives it.
THEOREM CheckedCountersAgree ==
  ASSUME OverflowChecks
  PROVE  Spec => []StoredUnderWireId
<1>1. CheckedInv => StoredUnderWireId
  <2> SUFFICES ASSUME CheckedInv, NEW c \in Clients, engine[c] # None
               PROVE  ueRequest[create_request_id(c, NextWireSession(wireSession[c]))] = engine[c]
    BY DEF StoredUnderWireId
  <2>1. /\ sessionId[c] = wireSession[c] + 2
        /\ ueRequest[create_request_id(c, wireSession[c] + 1)] = engine[c]
    BY DEF CheckedInv, CountersAgree
  <2>2. sessionId[c] \in U16 /\ wireSession[c] \in U16
    BY DEF CheckedInv, IInv, TypeOK
  <2>3. NextWireSession(wireSession[c]) = wireSession[c] + 1
    BY <2>1, <2>2, SessionArithmetic, HalfWordAssumption DEF U16
  <2>4. QED
    BY <2>1, <2>3
<1>2. QED
  BY <1>1, InitEstablishesCheckedInv, NextKeepsCheckedInv, PTL DEF Spec

\* In a build with overflow checks a response only ever answers the request it
\* was given to, whatever the network loses, reorders or repeats.
THEOREM CheckedResponsesAnswer ==
  ASSUME OverflowChecks
  PROVE  Spec => []ResponseAnswersRequest
<1>1. CheckedInv => ResponseAnswersRequest
  BY DEF CheckedInv
<1>2. QED
  BY <1>1, InitEstablishesCheckedInv, NextKeepsCheckedInv, PTL DEF Spec

-----------------------------------------------------------------------------
(* Status codes.                                                           *)

\* A response on the network carries its status across, as far as success and
\* failure go.
Truthful(m) == ResponseStatus(m) = "OK" <=> m.status \in {NoStatus, "OK"}

TruthfulResponses == \A m \in network : m.type \in {"MT_RESPONSE", "MT_ERROR"} => Truthful(m)

\* The two tables of status codes map failures to failures, although neither is
\* the inverse of the other: several codes share E_NOT_OK and E_UNKNOWN_SERVICE.
LEMMA FailureSurvivesTables ==
  ASSUME NEW ucode \in UCodes, ucode # "OK"
  PROVE  vsomeip_err_code_to_ucode(ucode_to_vsomeip_err_code(ucode)) # "OK"
<1>1. ucode_to_vsomeip_err_code(ucode)
        \in {"E_NOT_OK", "E_WRONG_MESSAGE_TYPE", "E_TIMEOUT", "E_UNKNOWN_SERVICE",
             "E_MALFORMED_MESSAGE", "E_NOT_REACHABLE", "E_WRONG_PROTOCOL_VERSION"}
  BY DEF UCodes, ucode_to_vsomeip_err_code, ErrCodeOf
<1>2. QED
  BY <1>1 DEF vsomeip_err_code_to_ucode, UCodeOf

\* The message a response is sent as carries its status.
LEMMA ResponseWireTruthful ==
  ASSUME NEW status \in UCodes \cup {NoStatus}, NEW r, NEW q
  PROVE  Truthful(Message(ResponseWire(status), r, q, status))
<1>1. CASE status \in {NoStatus, "OK"}
  BY <1>1 DEF Truthful, Message, ResponseWire, ResponseStatus
<1>2. CASE status \notin {NoStatus, "OK"}
  <2>1. ResponseWire(status) = [type |-> "MT_ERROR", code |-> ucode_to_vsomeip_err_code(status)]
    BY <1>2 DEF ResponseWire
  <2>2. vsomeip_err_code_to_ucode(ucode_to_vsomeip_err_code(status)) # "OK"
    BY <1>2, FailureSurvivesTables
  <2>3. QED
    BY <1>2, <2>1, <2>2 DEF Truthful, Message, ResponseStatus
<1>3. QED
  BY <1>1, <1>2

\* A response that is received is recorded with the status it carries.
LEMMA ClientReceivesStatus ==
  ASSUME IInv, TruthfulResponses, StatusSurvives,
         NEW m \in network, convert_vsomeip_mt_response_to_umsg(m)
  PROVE  StatusSurvives'
<1> DEFINE q == ueRequest[m.request]
           a == [asked |-> m.asked, sent |-> m.status, status |-> ResponseStatus(m)]
<1>1. \/ q # None /\ answers' = [answers EXCEPT ![q] = Append(@, a)]
      \/ UNCHANGED answers
  BY DEF convert_vsomeip_mt_response_to_umsg
<1>2. q # None => q \in UReqs /\ answers[q] = <<>>
  BY DEF IInv, TypeOK, OneCorrelation
<1>3. Truthful(m)
  BY DEF TruthfulResponses, convert_vsomeip_mt_response_to_umsg
<1>4. a.status = "OK" <=> a.sent \in {NoStatus, "OK"}
  BY <1>3 DEF Truthful
<1> HIDE DEF q, a
<1>5. CASE UNCHANGED answers
  BY <1>5 DEF StatusSurvives
<1>6. CASE q # None /\ answers' = [answers EXCEPT ![q] = Append(@, a)]
  <2>1. answers'[q] = <<a>>
    BY <1>2, <1>6 DEF IInv, AnswerShape
  <2>2. \A p \in UReqs : p # q => answers'[p] = answers[p]
    BY <1>6 DEF IInv, AnswerShape
  <2>3. QED
    BY <1>4, <2>1, <2>2 DEF StatusSurvives
<1>7. QED
  BY <1>1, <1>5, <1>6

\* What every step does to the responses under way and received.
LEMMA NextKeepsStatus ==
  IInv /\ TruthfulResponses /\ StatusSurvives /\ [Next]_vars
    => TruthfulResponses' /\ StatusSurvives'
<1> SUFFICES ASSUME IInv, TruthfulResponses, StatusSurvives, [Next]_vars
             PROVE  TruthfulResponses' /\ StatusSurvives'
  OBVIOUS
<1>1. ASSUME network' \subseteq network PROVE TruthfulResponses'
  BY <1>1 DEF TruthfulResponses, Truthful
<1>2. ASSUME UNCHANGED answers PROVE StatusSurvives'
  BY <1>2 DEF StatusSurvives
<1>3. ASSUME NEW c \in Clients, SendRequest(c) PROVE TruthfulResponses' /\ StatusSurvives'
  <2>1. \A m \in network' : m \in network \/ m.type = "MT_REQUEST"
    BY <1>3 DEF SendRequest, Message, RequestWire
  <2>2. QED
    BY <1>2, <1>3, <2>1 DEF SendRequest, TruthfulResponses, Truthful
<1>4. ASSUME NEW c \in Clients, NEW q \in UReqs,
             umsg_request_to_vsomeip_message(c, q) \/ SessionOverflow(c, q)
      PROVE  TruthfulResponses' /\ StatusSurvives'
  BY <1>1, <1>2, <1>4 DEF umsg_request_to_vsomeip_message, SessionOverflow
<1>5. CASE ServiceReceives
  BY <1>1, <1>2, <1>5 DEF ServiceReceives, convert_vsomeip_mt_request_to_umsg, Receive
<1>6. ASSUME NEW u \in Uuids, NEW status \in Statuses, umsg_response_to_vsomeip_message(u, status)
      PROVE  TruthfulResponses' /\ StatusSurvives'
  <2> DEFINE ids == split_u32_to_u16(meRequest[u])
             m == Message(ResponseWire(status), create_request_id(ids[1], ids[2]), asked[u], status)
  <2>1. network' = network \cup {m} /\ UNCHANGED answers
    BY <1>6 DEF umsg_response_to_vsomeip_message
  <2>2. Truthful(m)
    BY ResponseWireTruthful, RpcAssumption
  <2> HIDE DEF m
  <2>3. QED
    BY <1>2, <2>1, <2>2 DEF TruthfulResponses, Truthful
<1>7. CASE ClientReceives
  <2>1. network' \subseteq network
    BY <1>7 DEF ClientReceives, convert_vsomeip_mt_response_to_umsg, Receive
  <2>2. QED
    BY <1>1, <1>7, <2>1, ClientReceivesStatus DEF ClientReceives
<1>8. ASSUME NEW m \in network, Lose(m) PROVE TruthfulResponses' /\ StatusSurvives'
  BY <1>1, <1>2, <1>8 DEF Lose
<1>9. CASE UNCHANGED vars
  BY <1>1, <1>2, <1>9 DEF vars
<1>10. QED
  BY <1>3, <1>4, <1>5, <1>6, <1>7, <1>8, <1>9 DEF Next, ClientSends, ServiceAnswers

\* A failure the service reports reaches the client as a failure and a success as
\* a success, in every build and on every network.
THEOREM StatusAcrossTheWire == Spec => []StatusSurvives
<1>1. Init => TruthfulResponses /\ StatusSurvives
  BY DEF Init, TruthfulResponses, StatusSurvives
<1>2. QED
  BY <1>1, CorrelationInductive, NextKeepsStatus, PTL DEF Spec

=============================================================================
