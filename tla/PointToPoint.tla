----------------------------- MODULE PointToPoint -----------------------------
(***************************************************************************)
(* The point-to-point listener of a uStreamer, and send.                   *)
(*                                                                         *)
(* A listener for everything between two authorities is not given to the   *)
(* engine as it is.  The transport stores it and registers it for requests *)
(* to every service of its vsomeip configuration, one command after the    *)
(* other, and send registers it for the response of every request that     *)
(* leaves.  Each of these is a sequence of registry steps and engine       *)
(* commands that may fail in the middle.  The constructor, ordinary        *)
(* register_listener and unregister_listener calls, and Drop run next to   *)
(* them.  The messages vsomeip delivers are left to TransportEngine: a     *)
(* callback only reads the registry.                                       *)
(***************************************************************************)
EXTENDS TransportEngine

CONSTANTS
    Authority,    \* the local authority of the transports
    Services,     \* the services of each transport's configuration file, None
                  \* for a transport constructed without one
    MessagesFor   \* the messages each caller sends

VARIABLES
    p2p,        \* point_to_point_listener: whether one is stored
    job,        \* the point-to-point call or send each caller is executing
    status,     \* history: the outcome of the point-to-point registration
    takenBack   \* history: the services that unregistrations have taken back

history == <<status, takenBack>>
pvars == <<evars, p2p, job, history>>

AnyUri == [authority |-> AnyAuthority, instance |-> Any16, service |-> Any16,
           version |-> Any8, resource |-> Any16]

\* any_uuri_fixed_authority_id: every method of a service, for any sender.
ServiceConfig(s) ==
    [source |-> AnyUri,
     sink |-> [AnyUri EXCEPT !.authority = Authority,
                             !.instance = s.instance, !.service = s.service],
     listener |-> "streamer"]

\* The filters for the response to a request: its source and sink, swapped.
ResponseConfig(m) == [source |-> m.sink, sink |-> m.source, listener |-> "streamer"]

\* The calls that are jobs, and the further errors with which a Send is answered.
JobKinds == {"register", "unregister", "send"}
SendErrors == {"NOT_FOUND", "INVALID_ARGUMENT"}

\* What the streamer listens to and expects answers to are configurations.
ASSUME PointAssumption ==
    /\ \A t \in Transports : Services[t] # None =>
          \A s \in Services[t] : ServiceConfig(s) \in Configs /\ ServiceConfig(s).sink # NoSink
    /\ \A k \in Callers : \A m \in MessagesFor[k] :
          TypeOf(m) = "Request" => ResponseConfig(m) \in Configs
    /\ None \notin JobKinds \cup {"Send"} \cup SendErrors

\* A job's todo are the services it has still to go over; owed, a history, those
\* an unregistration has to have taken back when it ends.
NoJob == [op |-> None, todo |-> {}, owed |-> {}, msg |-> None, p2p |-> FALSE]

PointInit ==
    /\ EngineInit
    /\ p2p = [t \in Transports |-> FALSE]
    /\ job = [k \in Callers |-> NoJob]
    /\ status = [t \in Transports |-> "none"]
    /\ takenBack = [t \in Transports |-> {}]

\* A call between two commands of its job.
Busy(t) == [Returned EXCEPT !.pc = "job", !.t = t]

JobOf(op, todo) == [NoJob EXCEPT !.op = op, !.todo = todo]

Return(k) ==
    /\ call' = [call EXCEPT ![k] = Returned]
    /\ job' = [job EXCEPT ![k] = NoJob]

\* The registration of t ends, and tells so unless it has been unregistered.
RegistrationEnds(t, outcome) ==
    status' = [status EXCEPT ![t] = IF @ = "registering" THEN outcome ELSE @]

Granted(t) == {id \in Ids : listenerConfigs'[t][id] # listenerConfigs[t][id]}

queueAndVsomeip == <<queue, apps, handlers, announced, dispatched>>

-----------------------------------------------------------------------------
(* register_point_to_point_listener.                                       *)

\* The early returns change nothing: no configuration file, one that cannot be
\* read, or a listener that is stored already.
RegisterP2P(k, t) ==
    /\ call[k].pc = "idle" /\ Usable(t)
    /\ Services[t] # None /\ ~p2p[t]
    /\ p2p' = [p2p EXCEPT ![t] = TRUE]
    /\ job' = [job EXCEPT ![k] = JobOf("register", Services[t])]
    /\ call' = [call EXCEPT ![k] = Busy(t)]
    /\ status' = [status EXCEPT ![t] = "registering"]
    /\ UNCHANGED <<vars, queueAndVsomeip, takenBack>>

\* The next service; without a handler the call returns, and what it has
\* registered and stored so far stays.
RegisterNextService(k) ==
    /\ call[k].pc = "job" /\ job[k].op = "register"
    /\ LET t == call[k].t IN \E s \in job[k].todo :
       /\ Register(t, ServiceConfig(s))
       /\ \/ \E id \in Granted(t) :
                /\ call' = [call EXCEPT ![k] = Sending("RegisterListener", t, ServiceConfig(s), id)]
                /\ job' = [job EXCEPT ![k].todo = @ \ {s}]
                /\ UNCHANGED status
          \/ /\ Granted(t) = {}
             /\ Return(k)
             /\ RegistrationEnds(t, "failed")
    /\ UNCHANGED <<p2p, queueAndVsomeip, takenBack>>

RegisterP2PEnds(k) ==
    /\ call[k].pc = "job" /\ job[k].op = "register" /\ job[k].todo = {}
    /\ Return(k)
    /\ RegistrationEnds(call[k].t, "registered")
    /\ UNCHANGED <<vars, queueAndVsomeip, p2p, takenBack>>

-----------------------------------------------------------------------------
(* unregister_point_to_point_listener: nothing clears what is stored.      *)

\* The registration of k has still to send a command for this address; a
\* registration of t that is under way has.
YetToSend(k, key) ==
    \/ \E s \in job[k].todo : RegisterKey(ServiceConfig(s)) = key
    \/ call[k].pc = "send" /\ RegisterKey(call[k].config) = key

StillComes(t, key) ==
    \E k \in Callers : job[k].op = "register" /\ call[k].t = t /\ YetToSend(k, key)

\* It owes the services whose commands are all sent: what a registration under
\* way sends later it cannot take back.
UnregisterP2P(k, t) ==
    /\ call[k].pc = "idle" /\ Usable(t)
    /\ p2p[t] /\ Services[t] # None
    /\ job' = [job EXCEPT ![k] = [JobOf("unregister", Services[t]) EXCEPT
                  !.owed = {s \in Services[t] : ~StillComes(t, RegisterKey(ServiceConfig(s)))}]]
    /\ call' = [call EXCEPT ![k] = Busy(t)]
    /\ status' = [status EXCEPT ![t] = "unregistered"]
    /\ UNCHANGED <<vars, queueAndVsomeip, p2p, takenBack>>

UnregisterNextService(k) ==
    /\ call[k].pc = "job" /\ job[k].op = "unregister"
    /\ LET t == call[k].t IN \E s \in job[k].todo :
       /\ call' = [call EXCEPT ![k] = Sending("UnregisterListener", t, ServiceConfig(s), None)]
       /\ job' = [job EXCEPT ![k].todo = @ \ {s}]
    /\ UNCHANGED <<vars, queueAndVsomeip, p2p, history>>

UnregisterP2PEnds(k) ==
    /\ call[k].pc = "job" /\ job[k].op = "unregister" /\ job[k].todo = {}
    /\ Return(k)
    /\ takenBack' = [takenBack EXCEPT ![call[k].t] = @ \cup job[k].owed]
    /\ UNCHANGED <<vars, queueAndVsomeip, p2p, status>>

\* Mutant: the registry is not told that the service is no longer listened to.
ReleaseServiceForgotten(k) ==
    /\ call[k].pc = "release" /\ job[k].op = "unregister"
    /\ call' = [call EXCEPT ![k] = Busy(call[k].t)]
    /\ UNCHANGED <<vars, queueAndVsomeip, p2p, job, history>>

\* The end of one iteration.
ReleaseService(k) ==
    /\ call[k].pc = "release" /\ job[k].op = "unregister"
    /\ Unregister(call[k].t, call[k].config)
    /\ call' = [call EXCEPT ![k] = Busy(call[k].t)]
    /\ UNCHANGED <<queueAndVsomeip, p2p, job, history>>

-----------------------------------------------------------------------------
(* send.  A message is a record of its source, its sink and its type.      *)

SendCommand(k, t, m) ==
    /\ call' = [call EXCEPT ![k] = Sending("Send", t, m, None)]
    /\ job' = [job EXCEPT ![k] = [JobOf("send", {}) EXCEPT !.msg = m, !.p2p = p2p[t]]]

\* Mutant: the listener for the response is left to be registered later.
SendWithoutListener(k, t, m) ==
    /\ call[k].pc = "idle" /\ Usable(t) /\ m \in MessagesFor[k]
    /\ SendCommand(k, t, m)
    /\ UNCHANGED <<vars, queueAndVsomeip, p2p, history>>

\* register_for_returning_response_if_point_to_point_listener_and_sending_request:
\* a configuration that exists already is taken to be installed; an empty pool
\* fails the call, also when nothing had to be registered.
Send(k, t, m) ==
    /\ call[k].pc = "idle" /\ Usable(t) /\ m \in MessagesFor[k]
    /\ \/ /\ ~p2p[t] \/ TypeOf(m) # "Request"
          /\ SendCommand(k, t, m)
          /\ UNCHANGED vars
       \/ /\ p2p[t] /\ TypeOf(m) = "Request"
          /\ Register(t, ResponseConfig(m))
          /\ \/ \E id \in Granted(t) :
                   /\ call' = [call EXCEPT ![k] =
                         Sending("RegisterListener", t, ResponseConfig(m), id)]
                   /\ job' = [job EXCEPT ![k] =
                         [JobOf("send", {}) EXCEPT !.msg = m, !.p2p = TRUE]]
             \/ Granted(t) = {} /\ freeIds # {} /\ SendCommand(k, t, m)
             \/ Granted(t) = {} /\ freeIds = {} /\ UNCHANGED <<call, job>>
    /\ UNCHANGED <<queueAndVsomeip, p2p, history>>

\* The response listener is registered: the message follows.
SendNext(k) ==
    /\ call[k].pc = "job" /\ job[k].op = "send"
    /\ call' = [call EXCEPT ![k] = Sending("Send", call[k].t, job[k].msg, None)]
    /\ UNCHANGED <<vars, queueAndVsomeip, p2p, job, history>>

\* umsg_publish_to_vsomeip_notification offers the event first, once.
OfferEvent(t, m) ==
    announced' = [announced EXCEPT ![t] =
        @ \cup {<<"event_offered", <<m.source.service, 1, LowerHalf(m.source.resource)>> >>}]

\* A response needs the correlation of its request, and a request's may be
\* refused; RpcCorrelation says when.
send_internal(t) ==
    /\ AppName[t] \in apps /\ queue[t] # <<>>
    /\ LET m == Head(queue[t]).config IN
       \/ /\ TakeAndReply(t, {"Send"}, "Ok")
          /\ m.type = "PUBLISH"
          /\ OfferEvent(t, m)
       \/ /\ \E reply \in {"Ok", "NOT_FOUND", "ALREADY_EXISTS"} : TakeAndReply(t, {"Send"}, reply)
          /\ m.type \in {"REQUEST", "RESPONSE"}
          /\ UNCHANGED announced
       \/ /\ TakeAndReply(t, {"Send"}, "INVALID_ARGUMENT")
          /\ m.type = "NOTIFICATION"
          /\ UNCHANGED announced
    /\ UNCHANGED <<apps, handlers>>

SendWithoutApp(t) ==
    /\ AppName[t] \notin apps
    /\ TakeAndReply(t, {"Send"}, "INTERNAL")
    /\ UNCHANGED <<apps, handlers, announced>>

-----------------------------------------------------------------------------
(* What a job does with the result of one of its commands.                 *)

\* Mutant: the next service is registered whatever the engine said.
JobResultIgnored(k, reply) ==
    LET t == call[k].t IN
    \/ /\ \/ call[k].op = "RegisterListener"
          \/ call[k].op = "UnregisterListener" /\ reply # "Ok"
       /\ call' = [call EXCEPT ![k] = Busy(t)]
       /\ UNCHANGED <<job, status>>
    \/ /\ call[k].op = "UnregisterListener" /\ reply = "Ok"
       /\ call' = [call EXCEPT ![k].pc = "release", ![k].reply = None]
       /\ UNCHANGED <<job, status>>
    \/ /\ call[k].op = "Send"
       /\ Return(k)
       /\ UNCHANGED status

\* A registration that failed ends the loop over the services, or panics in
\* send; an unregistration that failed skips the release of that service.
JobResult(k, reply) ==
    LET t == call[k].t IN
    \/ /\ call[k].op = "RegisterListener" /\ reply = "Ok"
       /\ call' = [call EXCEPT ![k] = Busy(t)]
       /\ UNCHANGED <<job, status>>
    \/ /\ call[k].op = "UnregisterListener" /\ reply # "Ok"
       /\ call' = [call EXCEPT ![k] = Busy(t)]
       /\ job' = [job EXCEPT ![k].owed = {s \in @ : ServiceConfig(s) # call[k].config}]
       /\ UNCHANGED status
    \/ /\ call[k].op = "UnregisterListener" /\ reply = "Ok"
       /\ call' = [call EXCEPT ![k].pc = "release", ![k].reply = None]
       /\ UNCHANGED <<job, status>>
    \/ /\ call[k].op = "RegisterListener" /\ reply # "Ok"
       /\ Return(k)
       /\ IF job[k].op = "register" THEN RegistrationEnds(t, "failed") ELSE UNCHANGED status
    \/ /\ call[k].op = "Send"
       /\ Return(k)
       /\ UNCHANGED status

JobReply(k) ==
    /\ call[k].pc = "await" /\ call[k].reply # None /\ job[k].op # None
    /\ JobResult(k, call[k].reply)
    /\ UNCHANGED <<vars, queueAndVsomeip, p2p, takenBack>>

JobTimeout(k) ==
    /\ MayTimeout
    /\ call[k].pc = "await" /\ call[k].reply = None /\ job[k].op # None
    /\ JobResult(k, "DEADLINE_EXCEEDED")
    /\ LET t == call[k].t IN
       queue' = [queue EXCEPT ![t] = [i \in DOMAIN @ |->
                    IF @[i].caller = k THEN [@[i] EXCEPT !.caller = None] ELSE @[i]]]
    /\ UNCHANGED <<vars, apps, handlers, announced, dispatched, p2p, takenBack>>

JobStep(k) ==
    \/ RegisterNextService(k) \/ RegisterP2PEnds(k)
    \/ UnregisterNextService(k) \/ UnregisterP2PEnds(k) \/ ReleaseService(k)
    \/ SendNext(k) \/ JobReply(k)
    \/ job[k].op = None /\ CallStep(k) /\ UNCHANGED <<p2p, job, history>>

Timeout(k) ==
    \/ JobTimeout(k)
    \/ job[k].op = None /\ AwaitTimeout(k) /\ UNCHANGED <<p2p, job, history>>

PointEngineStep(t) ==
    EngineStep(t) \/ send_internal(t) \/ SendWithoutApp(t)

PlainCall(k, t) ==
    \/ NewCall(k, t) \/ DropCall(k, t)
    \/ \E c \in ConfigsFor[k] : RegisterCall(k, t, c) \/ UnregisterCall(k, t, c)

PointNext ==
    \/ \E k \in Callers :
          \/ \E t \in Transports :
                \/ PlainCall(k, t) /\ UNCHANGED <<p2p, job, history>>
                \/ RegisterP2P(k, t) \/ UnregisterP2P(k, t)
                \/ \E m \in MessagesFor[k] : Send(k, t, m)
          \/ Enqueue(k) /\ UNCHANGED <<p2p, job, history>>
          \/ JobStep(k) \/ Timeout(k)
    \/ \E t \in Transports : PointEngineStep(t) /\ UNCHANGED <<p2p, job, history>>

PointSpec == PointInit /\ [][PointNext]_pvars

-----------------------------------------------------------------------------
(* Properties.                                                             *)

\* vsomeip calls a handler of this listener for the address of a configuration.
Installed(t, c) ==
    LET id == handlers[AppName[t]][RegisterKey(c)] IN
    id # None /\ listenerConfigs[t][id] = c

\* Once registering the point-to-point listener has succeeded, requests to every
\* configured service reach it until it is unregistered or the transport is
\* dropped, whatever else is sent or times out meanwhile.
EveryServiceForwarded ==
    \A t \in Transports : status[t] = "registered" /\ Usable(t) =>
        \A s \in Services[t] : Installed(t, ServiceConfig(s))

\* An unregistration that has ended leaves a service neither a function nor a
\* handler in vsomeip, then and ever after, if its command for that service did
\* not fail and no registration had still to send one when it began: whatever
\* registering had left half done or in the channel, and also when it overlaps a
\* registration or another unregistration.  The services a registration under
\* way sends later stay installed, and so does what it says nothing about.
UnregisteringTakesBack ==
    \A t \in Transports : \A s \in takenBack[t] :
        /\ ServiceConfig(s) \notin ConfigsOf(t)
        /\ handlers[AppName[t]][RegisterKey(ServiceConfig(s))] = None

\* A request sent through a transport with a point-to-point listener leaves only
\* when vsomeip has a handler of that listener for its response.
ResponseHandlerFirst ==
    [][\A t \in Transports :
          LET cmd == Head(queue[t]) IN
          queue[t] # <<>> /\ queue'[t] = Tail(queue[t]) /\ cmd.op = "Send" /\ cmd.caller # None
            /\ AppName[t] \in apps =>
              (job[cmd.caller].p2p /\ TypeOf(cmd.config) = "Request" =>
                  LET id == handlers[AppName[t]][RegisterKey(ResponseConfig(cmd.config))] IN
                  /\ id # None
                  /\ listenerConfigs[t][id] # None
                  /\ listenerConfigs[t][id].listener = "streamer")]_pvars

=============================================================================
