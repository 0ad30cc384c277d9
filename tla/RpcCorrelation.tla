----------------------------- MODULE RpcCorrelation -----------------------------
(***************************************************************************)
(* Requests and responses across SOME/IP: the RpcCorrelationRegistry of    *)
(* the transports of some client uEntities and of one service uEntity, the *)
(* engine threads that send, the callbacks that receive, and the network.  *)
(*                                                                         *)
(* A client's transport counts session ids itself and stores the request   *)
(* it is about to send under (client, session).  It does not put the       *)
(* session into the SOME/IP message: vsomeip numbers the requests of an    *)
(* application on its own.  A response finds its request only as long as   *)
(* the two counters agree.                                                 *)
(***************************************************************************)
EXTENDS Conversions, Sequences

CONSTANTS
    Clients,         \* vsomeip client ids of the requesting applications
    UReqs,           \* uProtocol request ids (UAttributes.id), each used once
    ClientOf,        \* the client that sends each request
    Uuids,           \* message ids the service's transport can generate
    Statuses,        \* commstatus values the service answers with
    OverflowChecks,  \* whether the build panics on integer overflow
    Lossy,           \* whether messages may get lost, on the network or
                     \* because their listener has gone meanwhile
    MaxCopies,       \* bound: messages the network delivers a second time
    None

ASSUME RpcAssumption ==
    /\ Clients \subseteq U16
    /\ ClientOf \in [UReqs -> Clients]
    /\ Statuses \subseteq UCodes \cup {NoStatus}
    /\ OverflowChecks \in BOOLEAN /\ Lossy \in BOOLEAN
    /\ MaxCopies \in Nat
    /\ None \notin UReqs \cup Uuids

RequestIds == {create_request_id(c, s) : c \in Clients, s \in U16}

VARIABLES
    sessionId,   \* client_id_session_id_tracking: next session id, per client
    ueRequest,   \* ue_request_correlation: request id -> uProtocol request
    engine,      \* per client: the request its engine has converted, not sent
    panicked,    \* clients whose engine thread has panicked
    wireSession, \* external: the last session id vsomeip used, per client
    network,     \* SOME/IP messages under way
    copies,      \* messages delivered a second time so far
    meRequest,   \* me_request_correlation: message id -> SOME/IP request id
    inbox,       \* messages the service's listener has received
    unsent,      \* requests no client has tried to send yet
    asked,       \* history: the request each message of the service came from
    served,      \* history: responses sent for each message of the service
    answers      \* history: the responses each request's client has received

clientVars == <<sessionId, ueRequest, engine, panicked, wireSession, unsent>>
serviceVars == <<meRequest, inbox, asked, served>>
vars == <<clientVars, serviceVars, network, copies, answers>>

Init ==
    /\ sessionId = [c \in Clients |-> 1]
    /\ ueRequest = [r \in RequestIds |-> None]
    /\ engine = [c \in Clients |-> None]
    /\ panicked = {}
    /\ wireSession = [c \in Clients |-> 0]
    /\ network = {}
    /\ copies = 0
    /\ meRequest = [u \in Uuids |-> None]
    /\ inbox = {}
    /\ unsent = UReqs
    /\ asked = [u \in Uuids |-> None]
    /\ served = [u \in Uuids |-> 0]
    /\ answers = [q \in UReqs |-> <<>>]

\* A SOME/IP message; asked and status say, for the properties, which request
\* it stems from and what the service answered.
Message(wire, request, q, status) ==
    [type |-> wire.type, code |-> wire.code, request |-> request, asked |-> q, status |-> status]

RequestWire == [type |-> "MT_REQUEST", code |-> "E_OK"]

-----------------------------------------------------------------------------
(* The registry's maps, each behind a lock of its own.                     *)

\* Mutant: an older correlation is replaced.
insert_ue_request_correlation_overwrites(r, q) == ueRequest' = [ueRequest EXCEPT ![r] = q]

insert_ue_request_correlation(r, q) ==
    /\ ueRequest[r] = None
    /\ ueRequest' = [ueRequest EXCEPT ![r] = q]

\* Mutant: the correlation is read and stays.
remove_ue_request_correlation_keeps(r) == UNCHANGED ueRequest

remove_ue_request_correlation(r) == ueRequest' = [ueRequest EXCEPT ![r] = None]

insert_me_request_correlation(u, r) ==
    /\ meRequest[u] = None
    /\ meRequest' = [meRequest EXCEPT ![u] = r]

remove_me_request_correlation(u) ==
    /\ meRequest[u] # None
    /\ meRequest' = [meRequest EXCEPT ![u] = None]

-----------------------------------------------------------------------------
(* The client: its engine thread sends a request in two steps.             *)

\* Mutant: the incremented session id is not stored.
NextSessionForgotten(s) == s

\* retrieve_session_id: the counter is a u16.
NextSession(s) == (s + 1) % HalfWord
Overflows(c) == OverflowChecks /\ sessionId[c] = HalfWord - 1

\* umsg_request_to_vsomeip_message: a session id is taken whether or not the
\* correlation can be stored; without it the request is refused.
umsg_request_to_vsomeip_message(c, q) ==
    /\ c \notin panicked /\ engine[c] = None
    /\ q \in unsent /\ ClientOf[q] = c
    /\ ~ Overflows(c)
    /\ unsent' = unsent \ {q}
    /\ sessionId' = [sessionId EXCEPT ![c] = NextSession(@)]
    /\ LET r == create_request_id(c, sessionId[c]) IN
       \/ /\ insert_ue_request_correlation(r, q)
          /\ engine' = [engine EXCEPT ![c] = q]
       \/ /\ ueRequest[r] # None
          /\ UNCHANGED <<ueRequest, engine>>
    /\ UNCHANGED <<panicked, wireSession, serviceVars, network, copies, answers>>

\* The increment panics with the tracking lock held, which ends the engine.
SessionOverflow(c, q) ==
    /\ c \notin panicked /\ engine[c] = None
    /\ q \in unsent /\ ClientOf[q] = c
    /\ Overflows(c)
    /\ panicked' = panicked \cup {c}
    /\ unsent' = unsent \ {q}
    /\ UNCHANGED <<sessionId, ueRequest, engine, wireSession, serviceVars, network, copies, answers>>

\* vsomeip's own numbering: 0 is not a session id.
NextWireSession(s) == IF s = HalfWord - 1 THEN 1 ELSE s + 1

\* application::send gives the request its client and session id.
SendRequest(c) ==
    /\ engine[c] # None
    /\ wireSession' = [wireSession EXCEPT ![c] = NextWireSession(@)]
    /\ network' = network \cup
          {Message(RequestWire, create_request_id(c, wireSession'[c]), engine[c], NoStatus)}
    /\ engine' = [engine EXCEPT ![c] = None]
    /\ UNCHANGED <<sessionId, ueRequest, panicked, unsent, serviceVars, copies, answers>>

-----------------------------------------------------------------------------
(* The network loses, reorders and repeats.                                *)

Receive(m) ==
    /\ m \in network
    /\ \/ network' = network \ {m} /\ UNCHANGED copies
       \/ copies < MaxCopies /\ copies' = copies + 1 /\ UNCHANGED network

Lose(m) ==
    /\ Lossy
    /\ m \in network
    /\ network' = network \ {m}
    /\ UNCHANGED <<clientVars, serviceVars, copies, answers>>

-----------------------------------------------------------------------------
(* The service: a callback receives a request, its engine sends responses. *)

\* The new message has an id of its own, under which the SOME/IP request id is
\* stored before the callback looks for the listener.
convert_vsomeip_mt_request_to_umsg(m, u) ==
    /\ m.type = "MT_REQUEST" /\ Receive(m)
    /\ asked[u] = None
    /\ asked' = [asked EXCEPT ![u] = m.asked]
    /\ insert_me_request_correlation(u, m.request)
    /\ \/ inbox' = inbox \cup {u}
       \/ Lossy /\ UNCHANGED inbox
    /\ UNCHANGED <<clientVars, served, answers>>

\* The service may answer a message again and again, but once its correlation
\* has been used send returns NOT_FOUND.
umsg_response_to_vsomeip_message(u, status) ==
    /\ u \in inbox
    /\ remove_me_request_correlation(u)
    /\ served' = [served EXCEPT ![u] = @ + 1]
    /\ LET ids == split_u32_to_u16(meRequest[u]) IN
       network' = network \cup
          {Message(ResponseWire(status), create_request_id(ids[1], ids[2]), asked[u], status)}
    /\ UNCHANGED <<clientVars, inbox, asked, copies, answers>>

-----------------------------------------------------------------------------
(* The client: a callback receives a response or an error.                 *)

\* Without a correlation the response is dropped; with one, the correlation is
\* removed before the callback looks for the listener.
convert_vsomeip_mt_response_to_umsg(m) ==
    /\ m.type \in {"MT_RESPONSE", "MT_ERROR"} /\ Receive(m)
    /\ LET q == ueRequest[m.request] IN
       /\ remove_ue_request_correlation(m.request)
       /\ \/ /\ q # None
             /\ answers' = [answers EXCEPT ![q] = Append(@,
                   [asked |-> m.asked, sent |-> m.status, status |-> ResponseStatus(m)])]
          \/ (q = None \/ Lossy) /\ UNCHANGED answers
    /\ UNCHANGED <<sessionId, engine, panicked, wireSession, unsent, serviceVars>>

-----------------------------------------------------------------------------

ClientSends ==
    \E c \in Clients :
        \/ SendRequest(c)
        \/ \E q \in UReqs : umsg_request_to_vsomeip_message(c, q) \/ SessionOverflow(c, q)

ServiceReceives == \E m \in network, u \in Uuids : convert_vsomeip_mt_request_to_umsg(m, u)
ServiceAnswers == \E u \in Uuids, status \in Statuses : umsg_response_to_vsomeip_message(u, status)
ClientReceives == \E m \in network : convert_vsomeip_mt_response_to_umsg(m)

Next == ClientSends \/ ServiceReceives \/ ServiceAnswers \/ ClientReceives \/ \E m \in network : Lose(m)

Spec == Init /\ [][Next]_vars

\* The engine sends what it has converted, messages arrive, and the service
\* answers what it receives.
FairSpec ==
    /\ Spec
    /\ \A c \in Clients : WF_vars(SendRequest(c))
    /\ WF_vars(ServiceReceives) /\ WF_vars(ServiceAnswers) /\ WF_vars(ClientReceives)

-----------------------------------------------------------------------------
(* Properties.                                                             *)

\* Every variable has the type its declaration names.
TypeOK ==
    /\ sessionId \in [Clients -> U16]
    /\ ueRequest \in [RequestIds -> UReqs \cup {None}]
    /\ engine \in [Clients -> UReqs \cup {None}]
    /\ panicked \in SUBSET Clients
    /\ wireSession \in [Clients -> U16]
    /\ \A m \in network : m.request \in RequestIds /\ m.asked \in UReqs
    /\ copies \in 0 .. MaxCopies
    /\ meRequest \in [Uuids -> RequestIds \cup {None}]
    /\ inbox \in SUBSET Uuids
    /\ unsent \in SUBSET UReqs
    /\ asked \in [Uuids -> UReqs \cup {None}]
    /\ served \in [Uuids -> Nat]

\* The request an engine is about to hand to vsomeip is stored under the very
\* request id vsomeip will give it: the transport's session counter and
\* vsomeip's agree.
StoredUnderWireId ==
    \A c \in Clients : engine[c] # None =>
        ueRequest[create_request_id(c, NextWireSession(wireSession[c]))] = engine[c]

\* A response a client receives as the answer to its request was given to that
\* request, though messages are lost, reordered and repeated and the clients
\* use the same session ids.
ResponseAnswersRequest ==
    \A q \in UReqs : \A i \in DOMAIN answers[q] : answers[q][i].asked = q

\* A request is answered at most once, and a message of the service's transport
\* gets at most one SOME/IP response however often the service answers: repeated
\* requests, responses and answers find the correlation used up.
AnsweredAtMostOnce ==
    /\ \A q \in UReqs : Len(answers[q]) <= 1
    /\ \A u \in Uuids : served[u] <= 1

\* A failure never arrives as a success, nor a success as a failure, on the way
\* through SOME/IP message types and return codes.
StatusSurvives ==
    \A q \in UReqs : \A i \in DOMAIN answers[q] :
        answers[q][i].status = "OK" <=> answers[q][i].sent \in {NoStatus, "OK"}

\* A request waiting for its response never loses its correlation to a later
\* request, also when session ids come round again.
CorrelationNotOverwritten ==
    [][\A r \in RequestIds :
          ueRequest[r] # None /\ ueRequest'[r] # None => ueRequest'[r] = ueRequest[r]]_vars

\* If nothing gets lost, every request an engine has stored to send is answered
\* and its correlation is gone, whatever is repeated or arrives out of order.
RequestsAnswered ==
    \A q \in UReqs :
        (\E c \in Clients : engine[c] = q) ~>
            answers[q] # <<>> /\ \A r \in RequestIds : ueRequest[r] # q

=============================================================================
