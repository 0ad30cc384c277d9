--------------------------- MODULE PointToPointProofs ---------------------------
(***************************************************************************)
(* The point-to-point listener and send use the registry as the other      *)
(* calls do, for any services, messages, callers and timeouts; what        *)
(* registering gives to vsomeip stays until it is unregistered,            *)
(* unregistering takes all of it back, and a request leaves only when      *)
(* vsomeip can deliver its response.                                       *)
(***************************************************************************)
EXTENDS PointToPoint, TransportEngineProofs

USE DEF history

\* The messages that are sent, and the services of the configuration files.
Outgoing == UNION {MessagesFor[k] : k \in Callers}
AllServices == UNION {Services[t] : t \in {u \in Transports : Services[u] # None}}

\* What a caller can be doing: as in the engine, or a command of a job.
PointCalls == [pc : {"idle", "send", "await", "release", "drop", "job"},
               op : Ops \cup {"Send", None}, t : Transports \cup {None},
               config : Configs \cup Outgoing \cup {None}, id : Ids \cup {None},
               reply : Results \cup SendErrors \cup {None}]

Jobs == [op : JobKinds \cup {None}, todo : SUBSET AllServices,
         owed : SUBSET AllServices, msg : Outgoing \cup {None}, p2p : BOOLEAN]

PointCallInv ==
    /\ call \in [Callers -> PointCalls]
    /\ \A k \in Callers : Purposeful(call[k])

\* A job only has services of a configuration file left, and a send its message.
JobInv ==
    /\ p2p \in [Transports -> BOOLEAN]
    /\ job \in [Callers -> Jobs]
    /\ \A k \in Callers : job[k].op = "send" => job[k].msg \in Outgoing

\* The inductive invariant: the registry's, and that calls and jobs are purposeful.
PointInv == IInv /\ PointCallInv /\ JobInv

-----------------------------------------------------------------------------

\* The calls the API, Drop and the jobs make are purposeful.
LEMMA PointCallsPurposeful ==
  /\ Returned \in PointCalls /\ Purposeful(Returned)
  /\ \A t \in Transports : Dropping(t) \in PointCalls /\ Purposeful(Dropping(t))
  /\ \A t \in Transports : Busy(t) \in PointCalls /\ Purposeful(Busy(t))
  /\ \A t \in Transports : \A op \in {"StartVsomeipApp", "StopVsomeipApp"} :
        Sending(op, t, None, None) \in PointCalls /\ Purposeful(Sending(op, t, None, None))
  /\ \A t \in Transports, c \in Configs, id \in Ids :
        Sending("RegisterListener", t, c, id) \in PointCalls
          /\ Purposeful(Sending("RegisterListener", t, c, id))
  /\ \A t \in Transports, c \in Configs :
        Sending("UnregisterListener", t, c, None) \in PointCalls
          /\ Purposeful(Sending("UnregisterListener", t, c, None))
  /\ \A t \in Transports, m \in Outgoing :
        Sending("Send", t, m, None) \in PointCalls /\ Purposeful(Sending("Send", t, m, None))
<1>1. Returned \in PointCalls /\ Purposeful(Returned)
  BY DEF Returned, PointCalls, Purposeful
<1>2. ASSUME NEW t \in Transports
      PROVE  Dropping(t) \in PointCalls /\ Purposeful(Dropping(t))
  BY DEF Returned, Dropping, PointCalls, Purposeful
<1>3. ASSUME NEW t \in Transports
      PROVE  Busy(t) \in PointCalls /\ Purposeful(Busy(t))
  BY DEF Returned, Busy, PointCalls, Purposeful
<1>4. ASSUME NEW t \in Transports, NEW op \in {"StartVsomeipApp", "StopVsomeipApp"}
      PROVE  Sending(op, t, None, None) \in PointCalls /\ Purposeful(Sending(op, t, None, None))
  BY DEF Sending, PointCalls, Purposeful, Ops
<1>5. ASSUME NEW t \in Transports, NEW c \in Configs, NEW id \in Ids
      PROVE  /\ Sending("RegisterListener", t, c, id) \in PointCalls
             /\ Purposeful(Sending("RegisterListener", t, c, id))
  BY DEF Sending, PointCalls, Purposeful, Ops
<1>6. ASSUME NEW t \in Transports, NEW c \in Configs
      PROVE  /\ Sending("UnregisterListener", t, c, None) \in PointCalls
             /\ Purposeful(Sending("UnregisterListener", t, c, None))
  BY DEF Sending, PointCalls, Purposeful, Ops
<1>7. ASSUME NEW t \in Transports, NEW m \in Outgoing
      PROVE  Sending("Send", t, m, None) \in PointCalls /\ Purposeful(Sending("Send", t, m, None))
  BY DEF Sending, PointCalls, Purposeful, Ops
<1>8. QED
  BY <1>1, <1>2, <1>3, <1>4, <1>5, <1>6, <1>7

\* Replacing one call by a purposeful one keeps the invariant.
LEMMA ReplacedPointCall ==
  ASSUME PointCallInv, NEW k \in Callers, NEW r \in PointCalls, Purposeful(r),
         call' = [call EXCEPT ![k] = r]
  PROVE  PointCallInv'
<1>1. call' \in [Callers -> PointCalls]
  BY DEF PointCallInv
<1>2. ASSUME NEW j \in Callers PROVE Purposeful(call'[j])
  <2>1. CASE j = k
    <3>1. call'[j] = r
      BY <2>1 DEF PointCallInv
    <3>2. QED
      BY <3>1
  <2>2. CASE j # k
    <3>1. call'[j] = call[j]
      BY <2>2 DEF PointCallInv
    <3>2. QED
      BY <3>1 DEF PointCallInv
  <2>3. QED
    BY <2>1, <2>2
<1>3. QED
  BY <1>1, <1>2 DEF PointCallInv, Purposeful

\* A job that is replaced by one with services and a message of its own.
LEMMA ReplacedJob ==
  ASSUME JobInv, NEW k \in Callers, NEW r \in Jobs, r.op = "send" => r.msg \in Outgoing,
         job' = [job EXCEPT ![k] = r], UNCHANGED p2p
  PROVE  JobInv'
<1>1. job' \in [Callers -> Jobs] /\ p2p' \in [Transports -> BOOLEAN]
  BY DEF JobInv
<1>2. ASSUME NEW j \in Callers, job'[j].op = "send" PROVE job'[j].msg \in Outgoing
  <2>1. CASE j = k
    BY <1>2, <2>1 DEF JobInv
  <2>2. CASE j # k
    <3>1. job'[j] = job[j]
      BY <2>2 DEF JobInv
    <3>2. QED
      BY <1>2, <3>1 DEF JobInv
  <2>3. QED
    BY <2>1, <2>2
<1>3. QED
  BY <1>1, <1>2 DEF JobInv

\* What is left alone stays as it is.
LEMMA SameCalls ==
  /\ PointCallInv /\ UNCHANGED call => PointCallInv'
  /\ JobInv /\ UNCHANGED <<p2p, job>> => JobInv'
  BY DEF PointCallInv, JobInv, Purposeful

\* New jobs are jobs.
LEMMA NewJobs ==
  /\ NoJob \in Jobs /\ NoJob.op # "send"
  /\ \A m \in Outgoing, b \in BOOLEAN :
        LET r == [JobOf("send", {}) EXCEPT !.msg = m, !.p2p = b] IN
        r \in Jobs /\ r.msg = m
<1>1. NoJob \in Jobs /\ NoJob.op = None
  BY DEF NoJob, Jobs
<1>2. ASSUME NEW m \in Outgoing, NEW b \in BOOLEAN
      PROVE  LET r == [JobOf("send", {}) EXCEPT !.msg = m, !.p2p = b] IN
             r \in Jobs /\ r.msg = m
  BY DEF JobOf, NoJob, Jobs, JobKinds
<1>3. None # "send"
  BY PointAssumption DEF JobKinds
<1>4. QED
  BY <1>1, <1>2, <1>3

\* The services and responses of a job are configurations.
LEMMA JobConfigs ==
  /\ \A s \in AllServices : ServiceConfig(s) \in Configs
  /\ \A k \in Callers : \A m \in MessagesFor[k] :
        m \in Outgoing /\ (TypeOf(m) = "Request" => ResponseConfig(m) \in Configs)
  BY PointAssumption DEF AllServices, Outgoing

\* What one step of a caller or an engine must preserve.
PointStep == [Next]_vars /\ PointCallInv' /\ JobInv'

\* Returning ends the call and its job.
LEMMA ReturnKeeps ==
  ASSUME PointInv, NEW k \in Callers, Return(k), UNCHANGED p2p
  PROVE  PointCallInv' /\ JobInv'
  BY PointCallsPurposeful, ReplacedPointCall, NewJobs, ReplacedJob DEF Return, PointInv

\* Constructing and dropping a transport are calls, not jobs.
LEMMA LifeCallsAreRegistrySteps ==
  ASSUME PointInv, NEW k \in Callers, NEW t \in Transports,
         NewCall(k, t) \/ DropCall(k, t), UNCHANGED <<p2p, job>>
  PROVE  PointStep
  BY PointCallsPurposeful, ReplacedPointCall, SameCalls, ApiStepsAreRegistrySteps
  DEF NewCall, DropCall, PointInv, PointStep

\* What an unregistration owes.
Owed(t) == {s \in Services[t] : ~StillComes(t, RegisterKey(ServiceConfig(s)))}

\* The two jobs with services at their beginning.
LEMMA JobBegins ==
  ASSUME NEW k \in Callers, NEW t \in Transports, RegisterP2P(k, t) \/ UnregisterP2P(k, t)
  PROVE  /\ Services[t] # None
         /\ \E r \in Jobs :
               /\ job' = [job EXCEPT ![k] = r]
               /\ r.todo = Services[t]
               /\ \/ RegisterP2P(k, t) /\ r.op = "register" /\ r.owed = {}
                  \/ UnregisterP2P(k, t) /\ r.op = "unregister" /\ r.owed = Owed(t)
<1>1. CASE RegisterP2P(k, t)
  <2> DEFINE r == JobOf("register", Services[t])
  <2>1. Services[t] # None /\ job' = [job EXCEPT ![k] = r]
    BY <1>1 DEF RegisterP2P
  <2>2. Services[t] \subseteq AllServices
    BY <2>1 DEF AllServices
  <2>3. r \in Jobs /\ r.todo = Services[t] /\ r.op = "register" /\ r.owed = {}
    BY <2>2 DEF JobOf, NoJob, Jobs, JobKinds
  <2> HIDE DEF r
  <2>4. QED
    BY <1>1, <2>1, <2>3
<1>2. CASE UnregisterP2P(k, t)
  <2> DEFINE owed == Owed(t)
             r == [JobOf("unregister", Services[t]) EXCEPT !.owed = owed]
  <2>1. Services[t] # None /\ job' = [job EXCEPT ![k] = r]
    BY <1>2 DEF UnregisterP2P, Owed
  <2>2. Services[t] \subseteq AllServices
    BY <2>1 DEF AllServices
  <2>3. owed \subseteq Services[t]
    BY DEF Owed
  <2>4. r \in Jobs /\ r.todo = Services[t] /\ r.op = "unregister" /\ r.owed = owed
    <3> HIDE DEF owed
    <3> QED BY <2>2, <2>3 DEF JobOf, NoJob, Jobs, JobKinds
  <2> HIDE DEF r
  <2>5. QED
    BY <1>2, <2>1, <2>4
<1>3. QED
  BY <1>1, <1>2

\* They begin by storing what they have to do.
LEMMA JobBeginIsRegistryStep ==
  ASSUME PointInv, NEW k \in Callers, NEW t \in Transports,
         RegisterP2P(k, t) \/ UnregisterP2P(k, t)
  PROVE  PointStep
<1>1. UNCHANGED vars /\ call' = [call EXCEPT ![k] = Busy(t)]
  BY DEF RegisterP2P, UnregisterP2P
<1>2. PointCallInv'
  BY <1>1, PointCallsPurposeful, ReplacedPointCall DEF PointInv
<1>3. PICK r \in Jobs : job' = [job EXCEPT ![k] = r] /\ r.op # "send"
  BY JobBegins
<1>4. p2p' \in [Transports -> BOOLEAN]
  BY DEF RegisterP2P, UnregisterP2P, PointInv, JobInv
<1>5. job' \in [Callers -> Jobs]
  BY <1>3 DEF PointInv, JobInv
<1>6. ASSUME NEW j \in Callers, job'[j].op = "send" PROVE job'[j].msg \in Outgoing
  <2>1. j # k
    BY <1>3, <1>6 DEF PointInv, JobInv
  <2>2. job'[j] = job[j]
    BY <1>3, <2>1 DEF PointInv, JobInv
  <2>3. QED
    BY <1>6, <2>2 DEF PointInv, JobInv
<1>7. JobInv'
  BY <1>4, <1>5, <1>6 DEF JobInv
<1>8. QED
  BY <1>1, <1>2, <1>7 DEF PointStep

\* A job that has one service less to do is still a job.
LEMMA ServiceDone ==
  ASSUME PointInv, NEW k \in Callers, NEW s, job[k].op # "send",
         job' = [job EXCEPT ![k].todo = @ \ {s}], UNCHANGED p2p
  PROVE  JobInv'
<1> DEFINE r == [job[k] EXCEPT !.todo = job[k].todo \ {s}]
<1>1. r \in Jobs /\ r.op = job[k].op
  BY DEF PointInv, JobInv, Jobs
<1>2. job' = [job EXCEPT ![k] = r]
  OBVIOUS
<1> HIDE DEF r
<1>3. QED
  BY <1>1, <1>2, ReplacedJob DEF PointInv

\* A job knows its transport, and its services are configurations.
LEMMA JobKnows ==
  ASSUME PointInv, NEW k \in Callers, call[k].pc = "job"
  PROVE  /\ call[k].t \in Transports
         /\ \A s \in job[k].todo : ServiceConfig(s) \in Configs
<1>1. call[k].t \in Transports
  BY DEF PointInv, PointCallInv, Purposeful
<1>2. job[k].todo \subseteq AllServices
  BY DEF PointInv, JobInv, Jobs
<1>3. QED
  BY <1>1, <1>2, JobConfigs

\* The next service of a registration takes a handler, or ends it.
LEMMA RegisterNextServiceIsRegistryStep ==
  ASSUME PointInv, NEW k \in Callers, RegisterNextService(k)
  PROVE  PointStep
<1> DEFINE t == call[k].t
<1>1. t \in Transports /\ \A s \in job[k].todo : ServiceConfig(s) \in Configs
  BY JobKnows DEF RegisterNextService
<1>2. PICK s \in job[k].todo :
        /\ Register(t, ServiceConfig(s))
        /\ \/ \E id \in Granted(t) :
                 /\ call' = [call EXCEPT ![k] = Sending("RegisterListener", t, ServiceConfig(s), id)]
                 /\ job' = [job EXCEPT ![k].todo = @ \ {s}]
           \/ Return(k)
  BY DEF RegisterNextService
<1>3. UNCHANGED p2p /\ job[k].op = "register"
  BY DEF RegisterNextService
<1>4. [Next]_vars
  BY <1>1, <1>2, ApiStepsAreRegistrySteps
<1>5. CASE Return(k)
  BY <1>3, <1>4, <1>5, ReturnKeeps DEF PointStep
<1>6. ASSUME NEW id \in Granted(t),
             call' = [call EXCEPT ![k] = Sending("RegisterListener", t, ServiceConfig(s), id)],
             job' = [job EXCEPT ![k].todo = @ \ {s}]
      PROVE  PointStep
  <2>1. JobInv'
    BY <1>3, <1>6, ServiceDone
  <2>2. id \in Ids
    BY <1>6 DEF Granted
  <2>3. PointCallInv'
    <3> HIDE DEF t
    <3> QED BY <1>1, <1>6, <2>2, PointCallsPurposeful, ReplacedPointCall DEF PointInv
  <2>4. QED
    BY <1>4, <2>1, <2>3 DEF PointStep
<1>7. QED
  BY <1>2, <1>5, <1>6

\* The other steps between two commands of a job.
LEMMA JobBetweenCommands ==
  ASSUME PointInv, NEW k \in Callers,
         \/ RegisterP2PEnds(k) \/ UnregisterP2PEnds(k)
         \/ UnregisterNextService(k) \/ SendNext(k)
  PROVE  PointStep
<1>1. UNCHANGED vars /\ UNCHANGED p2p /\ call[k].pc = "job"
  BY DEF RegisterP2PEnds, UnregisterP2PEnds, UnregisterNextService, SendNext
<1>2. CASE RegisterP2PEnds(k) \/ UnregisterP2PEnds(k)
  BY <1>1, <1>2, ReturnKeeps DEF RegisterP2PEnds, UnregisterP2PEnds, PointStep
<1>3. CASE UnregisterNextService(k)
  <2> DEFINE t == call[k].t
  <2>1. PICK s \in job[k].todo :
          /\ call' = [call EXCEPT ![k] = Sending("UnregisterListener", t, ServiceConfig(s), None)]
          /\ job' = [job EXCEPT ![k].todo = @ \ {s}]
    BY <1>3 DEF UnregisterNextService
  <2>2. t \in Transports /\ ServiceConfig(s) \in Configs
    BY <1>1, JobKnows
  <2>3. JobInv'
    BY <1>1, <1>3, <2>1, ServiceDone DEF UnregisterNextService
  <2> HIDE DEF t
  <2>4. PointCallInv'
    BY <2>1, <2>2, PointCallsPurposeful, ReplacedPointCall DEF PointInv
  <2>5. QED
    BY <1>1, <2>3, <2>4 DEF PointStep
<1>4. CASE SendNext(k)
  <2> DEFINE t == call[k].t
             m == job[k].msg
  <2>1. t \in Transports /\ m \in Outgoing
    BY <1>1, <1>4, JobKnows DEF SendNext, PointInv, JobInv
  <2>2. call' = [call EXCEPT ![k] = Sending("Send", t, m, None)] /\ UNCHANGED <<p2p, job>>
    BY <1>4 DEF SendNext
  <2> HIDE DEF t, m
  <2>3. PointCallInv' /\ JobInv'
    BY <2>1, <2>2, PointCallsPurposeful, ReplacedPointCall, SameCalls DEF PointInv
  <2>4. QED
    BY <1>1, <2>3 DEF PointStep
<1>5. QED
  BY <1>2, <1>3, <1>4

\* The end of one iteration of an unregistration releases a handler.
LEMMA ReleaseServiceIsRegistryStep ==
  ASSUME PointInv, NEW k \in Callers, ReleaseService(k)
  PROVE  PointStep
<1>1. call[k].t \in Transports /\ call[k].config \in Configs
  BY DEF PointInv, PointCallInv, Purposeful, ReleaseService
<1>2. QED
  BY <1>1, PointCallsPurposeful, ReplacedPointCall, SameCalls, ApiStepsAreRegistrySteps
  DEF ReleaseService, PointInv, PointStep

\* An ordinary register_listener or unregister_listener.
LEMMA OrdinaryCall ==
  ASSUME NEW k \in Callers, NEW t \in Transports, NEW c \in ConfigsFor[k],
         RegisterCall(k, t, c) \/ UnregisterCall(k, t, c)
  PROVE  /\ call[k].pc = "idle" /\ Usable(t) /\ c \in Configs
         /\ UNCHANGED <<queue, apps, handlers>>
         /\ \/ /\ Register(t, c)
               /\ \/ UNCHANGED call
                  \/ \E id \in Granted(t) :
                        call' = [call EXCEPT ![k] = Sending("RegisterListener", t, c, id)]
            \/ /\ UNCHANGED vars
               /\ call' = [call EXCEPT ![k] = Sending("UnregisterListener", t, c, None)]
<1>1. c \in Configs
  BY EngineAssumption
<1>2. CASE RegisterCall(k, t, c)
  <2> DEFINE granted == {id \in Ids : listenerConfigs'[t][id] # listenerConfigs[t][id]}
  <2>1. granted = Granted(t)
    BY DEF Granted
  <2>2. CASE granted = {}
    BY <1>1, <1>2, <2>2 DEF RegisterCall
  <2>3. CASE granted # {}
    <3>1. (CHOOSE id \in granted : TRUE) \in granted
      BY <2>3
    <3>2. call' = [call EXCEPT ![k] =
                     Sending("RegisterListener", t, c, CHOOSE id \in granted : TRUE)]
      BY <1>2, <2>3 DEF RegisterCall
    <3>3. PICK id \in granted :
            call' = [call EXCEPT ![k] = Sending("RegisterListener", t, c, id)]
      BY <3>1, <3>2
    <3>4. QED
      BY <1>1, <1>2, <2>1, <3>3 DEF RegisterCall
  <2>4. QED
    BY <2>2, <2>3
<1>3. CASE UnregisterCall(k, t, c)
  BY <1>1, <1>3 DEF UnregisterCall
<1>4. QED
  BY <1>2, <1>3

\* It takes a handler at most.
LEMMA OrdinaryCallIsRegistryStep ==
  ASSUME PointInv, NEW k \in Callers, NEW t \in Transports, NEW c \in ConfigsFor[k],
         RegisterCall(k, t, c) \/ UnregisterCall(k, t, c), UNCHANGED <<p2p, job>>
  PROVE  PointStep
<1>1. c \in Configs /\ JobInv'
  BY OrdinaryCall, SameCalls DEF PointInv
<1>2. [Next]_vars
  BY <1>1, OrdinaryCall, ApiStepsAreRegistrySteps
<1>3. \A id \in Granted(t) : id \in Ids
  BY DEF Granted
<1>4. PointCallInv'
  BY <1>1, <1>3, OrdinaryCall, PointCallsPurposeful, ReplacedPointCall, SameCalls DEF PointInv
<1>5. QED
  BY <1>1, <1>2, <1>4 DEF PointStep

\* The job that begins with the Send command itself.
LEMMA SendCommandKeeps ==
  ASSUME PointInv, NEW k \in Callers, NEW t \in Transports, NEW m \in Outgoing,
         SendCommand(k, t, m), UNCHANGED p2p
  PROVE  PointCallInv' /\ JobInv'
<1>1. PointCallInv'
  BY PointCallsPurposeful, ReplacedPointCall DEF SendCommand, PointInv
<1> DEFINE r == [JobOf("send", {}) EXCEPT !.msg = m, !.p2p = p2p[t]]
<1>2. r \in Jobs /\ r.msg = m
  BY NewJobs DEF PointInv, JobInv
<1>3. job' = [job EXCEPT ![k] = r]
  BY DEF SendCommand
<1> HIDE DEF r
<1>4. JobInv'
  BY <1>2, <1>3, ReplacedJob DEF PointInv
<1>5. QED
  BY <1>1, <1>4

\* send takes a handler for the response at most.
LEMMA SendIsRegistryStep ==
  ASSUME PointInv, NEW k \in Callers, NEW t \in Transports, NEW m \in MessagesFor[k],
         Send(k, t, m)
  PROVE  PointStep
<1>1. m \in Outgoing /\ (TypeOf(m) = "Request" => ResponseConfig(m) \in Configs)
  BY JobConfigs
<1>2. UNCHANGED p2p
  BY DEF Send
<1>3. [Next]_vars
  BY <1>1, ApiStepsAreRegistrySteps DEF Send
<1>4. CASE SendCommand(k, t, m)
  BY <1>1, <1>2, <1>3, <1>4, SendCommandKeeps DEF PointStep
<1>5. CASE UNCHANGED <<call, job>>
  BY <1>2, <1>3, <1>5, SameCalls DEF PointStep, PointInv
<1>6. ASSUME NEW id \in Granted(t), TypeOf(m) = "Request",
             call' = [call EXCEPT ![k] = Sending("RegisterListener", t, ResponseConfig(m), id)],
             job' = [job EXCEPT ![k] = [JobOf("send", {}) EXCEPT !.msg = m, !.p2p = TRUE]]
      PROVE  PointStep
  <2>1. id \in Ids
    BY <1>6 DEF Granted
  <2>2. PointCallInv'
    BY <1>1, <1>6, <2>1, PointCallsPurposeful, ReplacedPointCall DEF PointInv
  <2> DEFINE r == [JobOf("send", {}) EXCEPT !.msg = m, !.p2p = TRUE]
  <2>3. r \in Jobs /\ r.msg = m
    BY <1>1, NewJobs
  <2>4. job' = [job EXCEPT ![k] = r]
    BY <1>6
  <2> HIDE DEF r
  <2>5. JobInv'
    BY <1>1, <1>2, <2>3, <2>4, ReplacedJob DEF PointInv
  <2>6. QED
    BY <1>3, <2>2, <2>5 DEF PointStep
<1>7. QED
  BY <1>4, <1>5, <1>6 DEF Send

\* What a job does with a result leaves it a job.
LEMMA JobResultKeeps ==
  ASSUME PointInv, NEW k \in Callers, NEW reply, call[k].pc = "await", JobResult(k, reply),
         job[k].op # None, UNCHANGED p2p
  PROVE  PointCallInv' /\ JobInv'
<1> DEFINE t == call[k].t
<1>1. call[k] \in PointCalls /\ Purposeful(call[k]) /\ t \in Transports
  BY DEF PointInv, PointCallInv, Purposeful
<1>2. CASE Return(k)
  BY <1>2, ReturnKeeps
<1>3. CASE /\ call' = [call EXCEPT ![k] = Busy(t)]
           /\ \/ UNCHANGED job
              \/ job' = [job EXCEPT ![k].owed = {s \in @ : ServiceConfig(s) # call[k].config}]
  <2>1. PointCallInv'
    <3> HIDE DEF t
    <3> QED BY <1>1, <1>3, PointCallsPurposeful, ReplacedPointCall DEF PointInv
  <2>2. CASE UNCHANGED job
    BY <2>1, <2>2, SameCalls DEF PointInv
  <2>3. CASE job' = [job EXCEPT ![k].owed = {s \in @ : ServiceConfig(s) # call[k].config}]
    <3> DEFINE r == [job[k] EXCEPT !.owed = {s \in job[k].owed : ServiceConfig(s) # call[k].config}]
    <3>1. r \in Jobs /\ (r.op = "send" => r.msg \in Outgoing)
      BY DEF PointInv, JobInv, Jobs
    <3>2. job' = [job EXCEPT ![k] = r]
      BY <2>3
    <3> HIDE DEF r
    <3>3. QED
      BY <2>1, <3>1, <3>2, ReplacedJob DEF PointInv
  <2>4. QED
    BY <1>3, <2>2, <2>3
<1>4. CASE /\ call[k].op = "UnregisterListener"
           /\ call' = [call EXCEPT ![k].pc = "release", ![k].reply = None]
           /\ UNCHANGED job
  <2> DEFINE r == [call[k] EXCEPT !.pc = "release", !.reply = None]
  <2>1. r \in PointCalls /\ Purposeful(r)
    BY <1>1, <1>4 DEF PointCalls, Purposeful
  <2>2. call' = [call EXCEPT ![k] = r]
    BY <1>1, <1>4 DEF PointInv, PointCallInv, PointCalls
  <2> HIDE DEF r
  <2>3. QED
    BY <1>4, <2>1, <2>2, ReplacedPointCall, SameCalls DEF PointInv
<1>5. QED
  BY <1>2, <1>3, <1>4 DEF JobResult

\* The result, or the timeout, of a command of a job.
LEMMA JobReplyIsRegistryStep ==
  ASSUME PointInv, NEW k \in Callers, JobReply(k) \/ JobTimeout(k)
  PROVE  PointStep
  BY JobResultKeeps DEF JobReply, JobTimeout, PointStep

\* The steps of a call that is not a job are those of the engine's calls.
LEMMA PlainCallIsRegistryStep ==
  ASSUME PointInv, NEW k \in Callers, CallStep(k) \/ AwaitTimeout(k), UNCHANGED <<p2p, job>>
  PROVE  PointStep
<1> DEFINE t == call[k].t
<1>1. call[k] \in PointCalls /\ Purposeful(call[k])
  BY DEF PointInv, PointCallInv
<1>2. t \in Transports
  BY <1>1 DEF CallStep, DropNext, AwaitReply, ReleaseHandler, AwaitTimeout, Purposeful
<1>3. JobInv'
  BY SameCalls DEF PointInv
<1>4. CASE DropNext(k)
  <2>1. pending[t] \subseteq Configs
    BY <1>2 DEF PointInv, IInv, TypeOK
  <2>2. [Next]_vars
    BY <1>4 DEF DropNext
  <2>3. PICK r \in PointCalls : Purposeful(r) /\ call' = [call EXCEPT ![k] = r]
    BY <1>2, <1>4, <2>1, PointCallsPurposeful DEF DropNext
  <2>4. QED
    BY <1>3, <2>2, <2>3, ReplacedPointCall DEF PointInv, PointStep
<1>5. CASE ReleaseHandler(k)
  <2>1. call[k].config \in Configs
    BY <1>1, <1>5 DEF ReleaseHandler, Purposeful
  <2>2. [Next]_vars
    BY <1>2, <1>5, <2>1, ApiStepsAreRegistrySteps DEF ReleaseHandler
  <2>3. PICK r \in PointCalls : Purposeful(r) /\ call' = [call EXCEPT ![k] = r]
    BY <1>2, <1>5, PointCallsPurposeful DEF ReleaseHandler
  <2>4. QED
    BY <1>3, <2>2, <2>3, ReplacedPointCall DEF PointInv, PointStep
<1>6. ASSUME NEW reply, call[k].pc = "await", Finish(k, reply) PROVE PointStep
  <2>1. [Next]_vars
    BY <1>2, <1>6, ApiStepsAreRegistrySteps DEF Finish
  <2>2. CASE call' = [call EXCEPT ![k] = Returned]
    BY <1>3, <2>1, <2>2, PointCallsPurposeful, ReplacedPointCall DEF PointInv, PointStep
  <2>3. CASE call' = [call EXCEPT ![k] = Dropping(t)]
    <3> HIDE DEF t
    <3> QED BY <1>2, <1>3, <2>1, <2>3, PointCallsPurposeful, ReplacedPointCall
        DEF PointInv, PointStep
  <2>4. CASE /\ call[k].op = "UnregisterListener"
             /\ call' = [call EXCEPT ![k].pc = "release", ![k].reply = None]
    <3> DEFINE r == [call[k] EXCEPT !.pc = "release", !.reply = None]
    <3>1. r \in PointCalls /\ Purposeful(r)
      BY <1>1, <1>6, <2>4 DEF PointCalls, Purposeful
    <3>2. call' = [call EXCEPT ![k] = r]
      BY <1>1, <2>4 DEF PointInv, PointCallInv, PointCalls
    <3> HIDE DEF r
    <3>3. QED
      BY <1>3, <2>1, <3>1, <3>2, ReplacedPointCall DEF PointInv, PointStep
  <2>5. QED
    BY <1>6, <2>2, <2>3, <2>4 DEF Finish
<1>7. QED
  BY <1>4, <1>5, <1>6 DEF CallStep, AwaitReply, AwaitTimeout

\* Sending a command to the engine leaves the registry alone.
LEMMA PointEnqueueIsRegistryStep ==
  ASSUME PointInv, NEW k \in Callers, Enqueue(k), UNCHANGED <<p2p, job>>
  PROVE  PointStep
<1> DEFINE r == [call[k] EXCEPT !.pc = "await"]
<1>1. call[k] \in PointCalls /\ Purposeful(call[k]) /\ call[k].pc = "send"
  BY DEF PointInv, PointCallInv, Enqueue
<1>2. r \in PointCalls /\ Purposeful(r)
  BY <1>1 DEF PointCalls, Purposeful
<1>3. call' = [call EXCEPT ![k] = r] /\ UNCHANGED vars
  BY DEF Enqueue
<1> HIDE DEF r
<1>4. QED
  BY <1>2, <1>3, ReplacedPointCall, SameCalls DEF PointInv, PointStep

\* A reply changes nothing else of the call it is given to.
LEMMA PointReplyIsRegistryStep ==
  ASSUME PointInv, NEW t \in Transports, NEW ops,
         NEW reply \in Results \cup SendErrors, TakeAndReply(t, ops, reply),
         UNCHANGED <<p2p, job>>
  PROVE  PointStep
<1> DEFINE k == Head(queue[t]).caller
           r == [call[k] EXCEPT !.reply = reply]
<1>1. UNCHANGED vars /\ JobInv'
  BY SameCalls DEF TakeAndReply, PointInv
<1>2. CASE call' = call
  BY <1>1, <1>2, SameCalls DEF PointInv, PointStep
<1>3. CASE call' = [call EXCEPT ![k] = r]
  <2> HIDE DEF k
  <2>1. CASE k \in Callers
    <3>1. call[k] \in PointCalls /\ Purposeful(call[k])
      BY <2>1 DEF PointInv, PointCallInv
    <3>2. r \in PointCalls /\ Purposeful(r)
      BY <3>1 DEF PointCalls, Purposeful
    <3> HIDE DEF r
    <3>3. QED
      BY <1>1, <1>3, <2>1, <3>2, ReplacedPointCall DEF PointInv, PointStep
  <2>2. CASE k \notin Callers
    <3> HIDE DEF r
    <3>1. call' = call
      BY <1>3, <2>2 DEF PointInv, PointCallInv
    <3>2. QED
      BY <1>2, <3>1
  <2>3. QED
    BY <2>1, <2>2
<1>4. QED
  BY <1>2, <1>3 DEF TakeAndReply

\* The engine never touches the registry, whatever the command.
LEMMA PointEngineStepIsRegistryStep ==
  ASSUME PointInv, NEW t \in Transports, PointEngineStep(t), UNCHANGED <<p2p, job>>
  PROVE  PointStep
<1>1. CASE register_listener_internal(t)
  BY <1>1, PointReplyIsRegistryStep DEF register_listener_internal, Results
<1>2. CASE unregister_listener_internal(t)
  BY <1>2, PointReplyIsRegistryStep DEF unregister_listener_internal, Results
<1>3. CASE start_vsomeip_app_internal(t)
  BY <1>3, PointReplyIsRegistryStep DEF start_vsomeip_app_internal, Results
<1>4. CASE stop_vsomeip_app_internal(t)
  BY <1>4, PointReplyIsRegistryStep DEF stop_vsomeip_app_internal, Results
<1>5. CASE EngineWithoutApp(t)
  BY <1>5, PointReplyIsRegistryStep DEF EngineWithoutApp, Results
<1>6. CASE send_internal(t)
  <2>1. PICK reply \in {"Ok", "NOT_FOUND", "ALREADY_EXISTS", "INVALID_ARGUMENT"} :
          TakeAndReply(t, {"Send"}, reply)
    BY <1>6 DEF send_internal
  <2>2. QED
    BY <2>1, PointReplyIsRegistryStep DEF Results, SendErrors
<1>7. CASE SendWithoutApp(t)
  BY <1>7, PointReplyIsRegistryStep DEF SendWithoutApp, Results
<1>8. QED
  BY <1>1, <1>2, <1>3, <1>4, <1>5, <1>6, <1>7 DEF PointEngineStep, EngineStep

\* Every step is a step of the registry or leaves it alone.
LEMMA PointNextIsRegistryStep == PointInv /\ [PointNext]_pvars => PointStep
<1> SUFFICES ASSUME PointInv, [PointNext]_pvars PROVE PointStep
  OBVIOUS
<1>1. ASSUME NEW k \in Callers, JobStep(k) PROVE PointStep
  BY <1>1, RegisterNextServiceIsRegistryStep, JobBetweenCommands, ReleaseServiceIsRegistryStep,
     JobReplyIsRegistryStep, PlainCallIsRegistryStep DEF JobStep
<1>2. ASSUME NEW k \in Callers, Timeout(k) PROVE PointStep
  BY <1>2, JobReplyIsRegistryStep, PlainCallIsRegistryStep DEF Timeout
<1>3. CASE UNCHANGED pvars
  BY <1>3, SameCalls DEF pvars, evars, engineVars, PointInv, PointStep
<1>4. QED
  BY <1>1, <1>2, <1>3, LifeCallsAreRegistrySteps, JobBeginIsRegistryStep, SendIsRegistryStep,
     OrdinaryCallIsRegistryStep, PointEnqueueIsRegistryStep, PointEngineStepIsRegistryStep
  DEF PointNext, PlainCall

\* Initially the registry is as its Init says and there are no jobs.
LEMMA PointInitEstablishesInv == PointInit => Init /\ PointInv
<1> SUFFICES ASSUME PointInit PROVE Init /\ PointInv
  OBVIOUS
<1>1. Init /\ IInv
  BY InitEstablishesIInv DEF PointInit, EngineInit
<1>2. PointCallInv
  BY PointCallsPurposeful DEF PointInit, EngineInit, PointCallInv
<1>3. JobInv
  BY NewJobs DEF PointInit, JobInv
<1>4. QED
  BY <1>1, <1>2, <1>3 DEF PointInv

\* The loops of register_point_to_point_listener and its counterpart, and send,
\* stop wherever they fail or time out, and still every step of theirs is one of
\* the registry.
LEMMA JobsImplementRegistry == PointSpec => Spec
<1>1. PointInv /\ [PointNext]_pvars => PointInv'
  BY PointNextIsRegistryStep, NextKeepsIInv DEF PointInv, PointStep
<1>2. PointInv /\ [PointNext]_pvars => [Next]_vars
  BY PointNextIsRegistryStep DEF PointStep
<1>3. QED
  BY <1>1, <1>2, PointInitEstablishesInv, PTL DEF PointSpec, Spec

\* Hence nothing a job leaves behind outlives the transport, and no id is lost or
\* held twice, although a failed job takes nothing back.
THEOREM JobsKeepRegistry ==
  PointSpec => [](PoolPartition /\ RoutedToOwner /\ NothingHeldAfterDrop)
<1>1. IInv => PoolPartition /\ RoutedToOwner /\ NothingHeldAfterDrop
  BY DEF IInv, RegistryInv
<1>2. QED
  BY <1>1, JobsImplementRegistry, RegistryInductive, PTL

-----------------------------------------------------------------------------
(* The commands of jobs.                                                   *)

PointCommands == [op : Ops \cup {"Send", None}, config : Configs \cup Outgoing \cup {None},
                  id : Ids \cup {None}, caller : Callers \cup {None}]

\* The call r waits for the result of the command in t's channel.
Awaits(r, t, cmd) ==
    /\ r.pc = "await" /\ r.reply = None
    /\ r.t = t /\ r.op = cmd.op /\ r.config = cmd.config /\ r.id = cmd.id

\* A command whose caller has not given up is the one it waits for, and its only
\* one.
PointAwaited ==
    \A t \in Transports : \A i \in DOMAIN queue[t] :
        queue[t][i].caller # None =>
            /\ Awaits(call[queue[t][i].caller], t, queue[t][i])
            /\ \A j \in DOMAIN queue[t] : queue[t][j].caller = queue[t][i].caller => j = i

ChannelInv ==
    /\ queue \in [Transports -> Seq(PointCommands)]
    /\ handlers \in [AppNames -> [Keys -> Ids \cup {None}]]
    /\ PointAwaited

\* The channel after a command was sent, and after one was taken.
LEMMA ChannelFacts ==
  ASSUME NEW s \in Seq(PointCommands)
  PROVE  /\ Len(s) \in Nat /\ DOMAIN s = 1 .. Len(s)
         /\ \A i \in DOMAIN s : s[i] \in PointCommands
         /\ \A e \in PointCommands :
               /\ Append(s, e) \in Seq(PointCommands)
               /\ DOMAIN Append(s, e) = 1 .. (Len(s) + 1)
               /\ \A i \in 1 .. Len(s) : Append(s, e)[i] = s[i]
               /\ Append(s, e)[Len(s) + 1] = e
         /\ s # <<>> =>
               /\ Len(s) >= 1 /\ Head(s) = s[1]
               /\ Tail(s) \in Seq(PointCommands)
               /\ DOMAIN Tail(s) = 1 .. (Len(s) - 1)
               /\ \A i \in 1 .. (Len(s) - 1) : Tail(s)[i] = s[i + 1]
<1> HIDE DEF PointCommands
<1>1. /\ Len(s) \in Nat /\ DOMAIN s = 1 .. Len(s)
      /\ \A i \in DOMAIN s : s[i] \in PointCommands
  OBVIOUS
<1>2. ASSUME NEW e \in PointCommands
      PROVE  /\ Append(s, e) \in Seq(PointCommands)
             /\ DOMAIN Append(s, e) = 1 .. (Len(s) + 1)
             /\ \A i \in 1 .. Len(s) : Append(s, e)[i] = s[i]
             /\ Append(s, e)[Len(s) + 1] = e
  OBVIOUS
<1>3. ASSUME s # <<>>
      PROVE  /\ Len(s) >= 1 /\ Head(s) = s[1]
             /\ Tail(s) \in Seq(PointCommands)
             /\ DOMAIN Tail(s) = 1 .. (Len(s) - 1)
             /\ \A i \in 1 .. (Len(s) - 1) : Tail(s)[i] = s[i + 1]
  BY <1>3
<1>4. QED
  BY <1>1, <1>2, <1>3

\* The callers of the commands in the channels.
LEMMA PointCommandHasCaller ==
  ASSUME ChannelInv, NEW t \in Transports, NEW i \in DOMAIN queue[t]
  PROVE  /\ queue[t][i] \in PointCommands
         /\ queue[t][i].caller \in Callers \cup {None}
<1>1. queue[t][i] \in PointCommands
  BY ChannelFacts DEF ChannelInv
<1>2. QED
  BY <1>1 DEF PointCommands

\* The commands stay where they are; k waits for none any more.
SameCommands(k) ==
    \A u \in Transports :
        /\ DOMAIN queue'[u] = DOMAIN queue[u]
        /\ \A i \in DOMAIN queue[u] :
              /\ queue'[u][i].op = queue[u][i].op /\ queue'[u][i].config = queue[u][i].config
              /\ queue'[u][i].id = queue[u][i].id
              /\ queue'[u][i].caller = IF queue[u][i].caller = k THEN None
                                       ELSE queue[u][i].caller

\* Caller k goes on, and nothing else happens to channels, vsomeip and callers.
Moves(k) ==
    /\ UNCHANGED handlers
    /\ queue' \in [Transports -> Seq(PointCommands)]
    /\ SameCommands(k)
    /\ \A j \in Callers : j # k => call'[j] = call[j] /\ job'[j] = job[j]

\* A caller that waits for no command leaves the channels alone.
LEMMA QuietMoves ==
  ASSUME PointInv, ChannelInv, NEW k \in Callers,
         call[k].pc # "await" \/ call[k].reply # None,
         UNCHANGED <<queue, handlers>>,
         \A j \in Callers : j # k => call'[j] = call[j] /\ job'[j] = job[j]
  PROVE  Moves(k)
<1>1. ASSUME NEW u \in Transports, NEW i \in DOMAIN queue[u] PROVE queue[u][i].caller # k
  BY <1>1, EngineAssumption DEF ChannelInv, PointAwaited, Awaits
<1>2. SameCommands(k)
  BY <1>1 DEF SameCommands
<1>3. queue' \in [Transports -> Seq(PointCommands)]
  BY DEF ChannelInv
<1>4. QED
  BY <1>2, <1>3 DEF Moves

\* What a timeout does to the channel.
GivesUp(k) ==
    LET t == call[k].t IN
    queue' = [queue EXCEPT ![t] = [i \in DOMAIN @ |->
                 IF @[i].caller = k THEN [@[i] EXCEPT !.caller = None] ELSE @[i]]]

\* A caller that gives up leaves its command behind.
LEMMA TimeoutMoves ==
  ASSUME PointInv, ChannelInv, NEW k \in Callers, call[k].pc = "await",
         GivesUp(k), UNCHANGED handlers,
         \A j \in Callers : j # k => call'[j] = call[j] /\ job'[j] = job[j]
  PROVE  Moves(k)
<1> DEFINE t == call[k].t
           s == queue[t]
           f == [i \in DOMAIN s |-> IF s[i].caller = k THEN [s[i] EXCEPT !.caller = None] ELSE s[i]]
<1>1. t \in Transports /\ queue' = [queue EXCEPT ![t] = f]
  BY DEF PointInv, PointCallInv, Purposeful, GivesUp
<1>2. s \in Seq(PointCommands) /\ \A i \in DOMAIN s : s[i] \in PointCommands
  BY <1>1, ChannelFacts DEF ChannelInv
<1>3. ASSUME NEW cmd \in PointCommands
      PROVE  /\ [cmd EXCEPT !.caller = None] \in PointCommands
             /\ [cmd EXCEPT !.caller = None].op = cmd.op
             /\ [cmd EXCEPT !.caller = None].config = cmd.config
             /\ [cmd EXCEPT !.caller = None].id = cmd.id
             /\ [cmd EXCEPT !.caller = None].caller = None
  BY DEF PointCommands
<1>4. f \in Seq(PointCommands) /\ DOMAIN f = DOMAIN s
  <2>1. DOMAIN s = 1 .. Len(s) /\ Len(s) \in Nat
    BY <1>2, ChannelFacts
  <2>2. f \in [1 .. Len(s) -> PointCommands]
    BY <1>2, <1>3, <2>1
  <2> HIDE DEF f, PointCommands
  <2>3. QED
    BY <2>1, <2>2
<1>5. \A i \in DOMAIN s : f[i] = IF s[i].caller = k THEN [s[i] EXCEPT !.caller = None] ELSE s[i]
  BY DEF f
<1> HIDE DEF f
<1>6. /\ queue' \in [Transports -> Seq(PointCommands)]
      /\ queue'[t] = f /\ \A u \in Transports : u # t => queue'[u] = queue[u]
  BY <1>1, <1>4 DEF ChannelInv
<1>7. ASSUME NEW u \in Transports, NEW i \in DOMAIN queue[u]
      PROVE  /\ queue'[u][i].op = queue[u][i].op /\ queue'[u][i].config = queue[u][i].config
             /\ queue'[u][i].id = queue[u][i].id
             /\ queue'[u][i].caller = IF queue[u][i].caller = k THEN None
                                      ELSE queue[u][i].caller
  <2>1. CASE u = t
    <3> HIDE DEF s, t
    <3>1. queue'[u][i] = IF s[i].caller = k THEN [s[i] EXCEPT !.caller = None] ELSE s[i]
      BY <1>5, <1>6, <1>7, <2>1 DEF s
    <3>2. s[i] \in PointCommands /\ queue[u][i] = s[i]
      BY <1>2, <1>7, <2>1 DEF s
    <3> HIDE DEF PointCommands
    <3>3. QED
      BY <1>3, <3>1, <3>2
  <2>2. CASE u # t
    <3>1. queue'[u] = queue[u]
      BY <1>6, <2>2
    <3>2. ASSUME queue[u][i].caller = k PROVE FALSE
      <4>1. Awaits(call[k], u, queue[u][i])
        BY <1>7, <3>2, EngineAssumption DEF ChannelInv, PointAwaited
      <4>2. QED
        BY <2>2, <4>1 DEF Awaits
    <3>3. QED
      BY <3>1, <3>2
  <2>3. QED
    BY <2>1, <2>2
<1>8. \A u \in Transports : DOMAIN queue'[u] = DOMAIN queue[u]
  BY <1>4, <1>6
<1>9. SameCommands(k)
  BY <1>7, <1>8 DEF SameCommands
<1>10. QED
  BY <1>6, <1>9 DEF Moves

\* When a caller goes on, the others' commands are still what they wait for.
LEMMA MovesKeepChannelInv ==
  ASSUME PointInv, ChannelInv, NEW k \in Callers, Moves(k)
  PROVE  ChannelInv'
<1>1. ASSUME NEW t \in Transports, NEW i \in DOMAIN queue'[t], queue'[t][i].caller # None
      PROVE  /\ Awaits(call'[queue'[t][i].caller], t, queue'[t][i])
             /\ \A j \in DOMAIN queue'[t] : queue'[t][j].caller = queue'[t][i].caller => j = i
  <2>1. /\ i \in DOMAIN queue[t] /\ DOMAIN queue'[t] = DOMAIN queue[t]
        /\ queue[t][i].caller # k /\ queue'[t][i].caller = queue[t][i].caller
        /\ queue'[t][i].op = queue[t][i].op /\ queue'[t][i].config = queue[t][i].config
        /\ queue'[t][i].id = queue[t][i].id
    BY <1>1 DEF Moves, SameCommands
  <2>2. /\ Awaits(call[queue[t][i].caller], t, queue[t][i])
        /\ \A j \in DOMAIN queue[t] : queue[t][j].caller = queue[t][i].caller => j = i
    BY <1>1, <2>1 DEF ChannelInv, PointAwaited
  <2>3. queue[t][i].caller \in Callers
    BY <1>1, <2>1, PointCommandHasCaller
  <2>4. call'[queue[t][i].caller] = call[queue[t][i].caller]
    BY <2>1, <2>3 DEF Moves
  <2>5. Awaits(call'[queue'[t][i].caller], t, queue'[t][i])
    BY <2>1, <2>2, <2>4 DEF Awaits
  <2>6. \A j \in DOMAIN queue[t] : queue'[t][j].caller = queue'[t][i].caller => j = i
    BY <1>1, <2>1, <2>2 DEF Moves, SameCommands
  <2>7. QED
    BY <2>1, <2>5, <2>6
<1>2. PointAwaited'
  BY <1>1 DEF PointAwaited
<1>3. QED
  BY <1>2 DEF ChannelInv, Moves, Keys, AppNames

\* The command of k goes to the end of t's channel.
SentAt(k, t) ==
    \E n \in Nat :
        /\ n \notin DOMAIN queue[t]
        /\ DOMAIN queue'[t] = DOMAIN queue[t] \cup {n}
        /\ \A i \in DOMAIN queue[t] : i \in Nat /\ i < n /\ queue'[t][i] = queue[t][i]
        /\ queue'[t][n] =
              [op |-> call[k].op, config |-> call[k].config, id |-> call[k].id, caller |-> k]

\* A caller with a command to send sends it to its transport's engine.
LEMMA SentCommand ==
  ASSUME PointInv, ChannelInv, NEW k \in Callers, Enqueue(k)
  PROVE  /\ call[k].t \in Transports /\ call[k].pc = "send"
         /\ queue' \in [Transports -> Seq(PointCommands)] /\ UNCHANGED handlers
         /\ \A u \in Transports : u # call[k].t => queue'[u] = queue[u]
         /\ SentAt(k, call[k].t)
<1> DEFINE t == call[k].t
           s == queue[t]
           n == Len(s) + 1
           cmd == [op |-> call[k].op, config |-> call[k].config, id |-> call[k].id, caller |-> k]
<1>1. /\ t \in Transports /\ queue' = [queue EXCEPT ![t] = Append(s, cmd)]
      /\ call[k].pc = "send" /\ UNCHANGED handlers
  BY DEF Enqueue, PointInv, PointCallInv, Purposeful
<1>2. s \in Seq(PointCommands) /\ call[k] \in PointCalls
  BY <1>1 DEF ChannelInv, PointInv, PointCallInv
<1>3. cmd \in PointCommands
  BY <1>2 DEF PointCommands, PointCalls
<1> HIDE DEF cmd
<1>5. /\ DOMAIN Append(s, cmd) = 1 .. (Len(s) + 1) /\ DOMAIN s = 1 .. Len(s) /\ Len(s) \in Nat
      /\ \A i \in 1 .. Len(s) : Append(s, cmd)[i] = s[i]
      /\ Append(s, cmd)[Len(s) + 1] = cmd /\ Append(s, cmd) \in Seq(PointCommands)
  BY <1>2, <1>3, ChannelFacts
<1>4. /\ queue'[t] = Append(s, cmd) /\ \A u \in Transports : u # t => queue'[u] = queue[u]
      /\ queue' \in [Transports -> Seq(PointCommands)]
  BY <1>1, <1>5 DEF ChannelInv
<1> HIDE DEF s, t
<1>6. n \in Nat /\ n \notin DOMAIN s /\ DOMAIN queue'[t] = DOMAIN s \cup {n}
  BY <1>4, <1>5
<1>7. \A i \in DOMAIN s : i \in Nat /\ i < n /\ queue'[t][i] = s[i]
  BY <1>4, <1>5
<1>8. queue'[t][n] = cmd
  BY <1>4, <1>5
<1> HIDE DEF n
<1>9. QED
  <2>1. SentAt(k, t)
    BY <1>6, <1>7, <1>8 DEF SentAt, s, cmd
  <2>2. QED
    BY <1>1, <1>4, <2>1 DEF t

\* The call of a command that was sent waits for its result.
LEMMA SentCall ==
  ASSUME PointInv, NEW k \in Callers, Enqueue(k)
  PROVE  /\ \A j \in Callers : j # k => call'[j] = call[j]
         /\ call'[k].pc = "await" /\ call'[k].op = call[k].op /\ call'[k].t = call[k].t
         /\ call'[k].config = call[k].config /\ call'[k].id = call[k].id
         /\ call'[k].reply = call[k].reply
<1> DEFINE r == [call[k] EXCEPT !.pc = "await"]
<1>1. call[k] \in PointCalls
  BY DEF PointInv, PointCallInv
<1>2. /\ r.pc = "await" /\ r.op = call[k].op /\ r.t = call[k].t
      /\ r.config = call[k].config /\ r.id = call[k].id /\ r.reply = call[k].reply
  BY <1>1 DEF PointCalls
<1>3. call' = [call EXCEPT ![k] = r]
  BY DEF Enqueue
<1> HIDE DEF r
<1>4. call'[k] = r /\ \A j \in Callers : j # k => call'[j] = call[j]
  BY <1>3 DEF PointInv, PointCallInv
<1>5. QED
  BY <1>2, <1>4

\* Only a call that waits has a result.
RepliesAwaited == \A k \in Callers : call[k].reply # None => call[k].pc = "await"

\* A command is sent: its caller had none.
LEMMA SentKeepsChannelInv ==
  ASSUME PointInv, ChannelInv, RepliesAwaited, NEW k \in Callers, Enqueue(k)
  PROVE  ChannelInv'
<1> DEFINE t == call[k].t
<1>0. SentAt(k, t)
  BY SentCommand
<1>1. PICK n \in Nat :
        /\ n \notin DOMAIN queue[t]
        /\ DOMAIN queue'[t] = DOMAIN queue[t] \cup {n}
        /\ \A i \in DOMAIN queue[t] : i \in Nat /\ i < n /\ queue'[t][i] = queue[t][i]
        /\ queue'[t][n] =
              [op |-> call[k].op, config |-> call[k].config, id |-> call[k].id, caller |-> k]
  BY <1>0 DEF SentAt
<1>2. /\ t \in Transports /\ call[k].pc = "send"
      /\ queue' \in [Transports -> Seq(PointCommands)] /\ UNCHANGED handlers
      /\ \A u \in Transports : u # t => queue'[u] = queue[u]
  BY SentCommand
<1>3. ASSUME NEW u \in Transports, NEW i \in DOMAIN queue[u] PROVE queue[u][i].caller # k
  <2>1. ASSUME queue[u][i].caller = k PROVE FALSE
    <3>1. Awaits(call[k], u, queue[u][i])
      BY <1>3, <2>1, EngineAssumption DEF ChannelInv, PointAwaited
    <3>2. QED
      BY <1>2, <3>1 DEF Awaits
  <2>2. QED
    BY <2>1
<1>4. Awaits(call'[k], t, queue'[t][n]) /\ queue'[t][n].caller = k
  <2>1. call'[k].reply = None
    BY <1>2, SentCall DEF RepliesAwaited
  <2>2. QED
    BY <1>1, <2>1, SentCall DEF Awaits
<1> HIDE DEF t
<1>5. ASSUME NEW u \in Transports, NEW i \in DOMAIN queue'[u], queue'[u][i].caller # None
      PROVE  /\ Awaits(call'[queue'[u][i].caller], u, queue'[u][i])
             /\ \A j \in DOMAIN queue'[u] : queue'[u][j].caller = queue'[u][i].caller => j = i
  <2>1. CASE u = t /\ i = n
    BY <1>1, <1>3, <1>4, <2>1
  <2>2. CASE ~(u = t /\ i = n)
    <3>1. i \in DOMAIN queue[u] /\ queue'[u][i] = queue[u][i]
      BY <1>1, <1>2, <1>5, <2>2
    <3>2. /\ Awaits(call[queue[u][i].caller], u, queue[u][i])
          /\ \A j \in DOMAIN queue[u] : queue[u][j].caller = queue[u][i].caller => j = i
      BY <1>5, <3>1 DEF ChannelInv, PointAwaited
    <3>3. queue[u][i].caller # k /\ queue[u][i].caller \in Callers
      BY <1>3, <1>5, <3>1, PointCommandHasCaller
    <3>4. call'[queue[u][i].caller] = call[queue[u][i].caller]
      BY <3>3, SentCall
    <3>5. \A j \in DOMAIN queue'[u] : queue'[u][j].caller = queue'[u][i].caller => j = i
      <4>1. ASSUME NEW j \in DOMAIN queue'[u], queue'[u][j].caller = queue'[u][i].caller
            PROVE  j = i
        <5>1. ~(u = t /\ j = n)
          BY <1>4, <3>1, <3>3, <4>1
        <5>2. j \in DOMAIN queue[u] /\ queue'[u][j] = queue[u][j]
          BY <1>1, <1>2, <4>1, <5>1
        <5>3. QED
          BY <3>1, <3>2, <4>1, <5>2
      <4>2. QED
        BY <4>1
    <3>6. QED
      BY <3>1, <3>2, <3>4, <3>5
  <2>3. QED
    BY <2>1, <2>2
<1>6. PointAwaited'
  BY <1>5 DEF PointAwaited
<1>7. QED
  BY <1>2, <1>6 DEF ChannelInv, Keys, AppNames

\* The engine takes the first command of t's channel and answers it.
Takes(t, reply) ==
    /\ 1 \in DOMAIN queue[t] /\ reply \in Results \cup SendErrors
    /\ queue' \in [Transports -> Seq(PointCommands)]
    /\ \A u \in Transports : u # t => queue'[u] = queue[u]
    /\ \A i \in DOMAIN queue[t] : i \in Nat /\ i >= 1
    /\ \A i \in DOMAIN queue'[t] :
          i \in Nat /\ i >= 1 /\ i + 1 \in DOMAIN queue[t] /\ queue'[t][i] = queue[t][i + 1]
    /\ \A j \in Callers : j # queue[t][1].caller => call'[j] = call[j]
    /\ \A j \in Callers : j = queue[t][1].caller =>
          /\ call'[j].pc = call[j].pc /\ call'[j].op = call[j].op /\ call'[j].t = call[j].t
          /\ call'[j].config = call[j].config /\ call'[j].id = call[j].id
          /\ call'[j].reply = reply

\* Whatever the command and the answer.
LEMMA TakeAndReplyTakes ==
  ASSUME PointInv, ChannelInv, NEW t \in Transports, NEW ops,
         NEW reply \in Results \cup SendErrors, TakeAndReply(t, ops, reply)
  PROVE  Takes(t, reply) /\ queue[t][1].op \in ops
<1> DEFINE s == queue[t]
           k == s[1].caller
<1>1. /\ s \in Seq(PointCommands) /\ s # <<>> /\ queue' = [queue EXCEPT ![t] = Tail(s)]
      /\ Head(s).op \in ops
      /\ call' = IF Head(s).caller = None THEN call
                 ELSE [call EXCEPT ![Head(s).caller].reply = reply]
  BY DEF TakeAndReply, ChannelInv
<1>2. /\ DOMAIN Tail(s) = 1 .. (Len(s) - 1) /\ DOMAIN s = 1 .. Len(s) /\ Len(s) \in Nat
      /\ Len(s) >= 1 /\ Head(s) = s[1] /\ Tail(s) \in Seq(PointCommands)
      /\ \A i \in 1 .. (Len(s) - 1) : Tail(s)[i] = s[i + 1]
  BY <1>1, ChannelFacts
<1>3. /\ queue'[t] = Tail(s) /\ \A u \in Transports : u # t => queue'[u] = queue[u]
      /\ queue' \in [Transports -> Seq(PointCommands)]
  BY <1>1, <1>2 DEF ChannelInv
<1> HIDE DEF s
<1>4. 1 \in DOMAIN s /\ \A i \in DOMAIN s : i \in Nat /\ i >= 1
  BY <1>2
<1>5. \A i \in DOMAIN Tail(s) : i \in Nat /\ i >= 1 /\ i + 1 \in DOMAIN s /\ Tail(s)[i] = s[i + 1]
  BY <1>2
<1>6. \A j \in Callers : j # k => call'[j] = call[j]
  BY <1>1, <1>2 DEF PointInv, PointCallInv
<1>7. ASSUME NEW j \in Callers, j = k
      PROVE  /\ call'[j].pc = call[j].pc /\ call'[j].op = call[j].op /\ call'[j].t = call[j].t
             /\ call'[j].config = call[j].config /\ call'[j].id = call[j].id
             /\ call'[j].reply = reply
  <2>1. k # None /\ Head(s).caller = j
    BY <1>2, <1>7, EngineAssumption
  <2>2. call'[j] = [call[j] EXCEPT !.reply = reply]
    BY <1>1, <2>1, EngineAssumption DEF PointInv, PointCallInv
  <2>3. call[j] \in PointCalls
    BY DEF PointInv, PointCallInv
  <2>4. QED
    BY <2>2, <2>3 DEF PointCalls
<1>8. QED
  BY <1>1, <1>2, <1>3, <1>4, <1>5, <1>6, <1>7 DEF Takes, s

\* The other callers' commands are still what they wait for.
LEMMA TakesKeepChannelInv ==
  ASSUME PointInv, ChannelInv, NEW t \in Transports, NEW reply, Takes(t, reply),
         handlers' \in [AppNames -> [Keys -> Ids \cup {None}]]
  PROVE  ChannelInv'
<1> DEFINE k == queue[t][1].caller
<1>1. ASSUME NEW u \in Transports, NEW i \in DOMAIN queue[u], queue[u][i].caller = k, k # None
      PROVE  u = t /\ i = 1
  <2>1. /\ Awaits(call[k], u, queue[u][i])
        /\ \A j \in DOMAIN queue[u] : queue[u][j].caller = k => j = i
    BY <1>1 DEF ChannelInv, PointAwaited
  <2>2. Awaits(call[k], t, queue[t][1]) /\ 1 \in DOMAIN queue[t]
    BY <1>1 DEF ChannelInv, PointAwaited, Takes
  <2>3. u = t
    BY <2>1, <2>2 DEF Awaits
  <2>4. QED
    BY <2>1, <2>2, <2>3
<1>2. ASSUME NEW u \in Transports, NEW i \in DOMAIN queue'[u], queue'[u][i].caller # None
      PROVE  /\ Awaits(call'[queue'[u][i].caller], u, queue'[u][i])
             /\ \A j \in DOMAIN queue'[u] : queue'[u][j].caller = queue'[u][i].caller => j = i
  <2>1. PICK n \in DOMAIN queue[u] : /\ queue'[u][i] = queue[u][n]
                                     /\ u = t => n = i + 1 /\ i \in Nat /\ i >= 1
                                     /\ u # t => n = i
    BY <1>2 DEF Takes
  <2>2. ~(u = t /\ n = 1)
    BY <2>1
  <2>3. queue[u][n].caller \in Callers /\ queue[u][n].caller # k
    BY <1>1, <1>2, <2>1, <2>2, PointCommandHasCaller
  <2>4. /\ Awaits(call[queue[u][n].caller], u, queue[u][n])
        /\ \A j \in DOMAIN queue[u] : queue[u][j].caller = queue[u][n].caller => j = n
    BY <1>2, <2>1 DEF ChannelInv, PointAwaited
  <2>5. call'[queue[u][n].caller] = call[queue[u][n].caller]
    BY <2>3 DEF Takes
  <2>6. ASSUME NEW j \in DOMAIN queue'[u], queue'[u][j].caller = queue'[u][i].caller
        PROVE  j = i
    <3>1. CASE u = t
      <4>1. j + 1 \in DOMAIN queue[u] /\ queue'[u][j] = queue[u][j + 1] /\ j \in Nat
        BY <2>6, <3>1 DEF Takes
      <4>2. j + 1 = i + 1
        BY <2>1, <2>4, <2>6, <3>1, <4>1
      <4>3. QED
        BY <2>1, <3>1, <4>1, <4>2
    <3>2. CASE u # t
      BY <2>1, <2>4, <2>6, <3>2 DEF Takes
    <3>3. QED
      BY <3>1, <3>2
  <2>7. QED
    BY <2>1, <2>4, <2>5, <2>6
<1>3. PointAwaited'
  BY <1>2 DEF PointAwaited
<1>4. QED
  BY <1>3 DEF ChannelInv, Takes, Keys, AppNames

\* A command that installs a handler for an address.
Installs(cmd, key) == cmd.op = "RegisterListener" /\ RegisterKey(cmd.config) = key

\* What executing the first command of t's channel does to the handlers.
Handles(t, reply) ==
    LET a == AppName[t]
        cmd == queue[t][1]
    IN /\ handlers' \in [AppNames -> [Keys -> Ids \cup {None}]]
       /\ \A u \in Transports : AppName[u] # a => handlers'[AppName[u]] = handlers[AppName[u]]
       /\ \A key \in Keys :
             \/ handlers'[a][key] = handlers[a][key]
             \/ handlers'[a][key] = None /\ cmd.op = "StopVsomeipApp"
             \/ /\ handlers'[a][key] = None /\ cmd.op = "UnregisterListener"
                /\ key = UnregisterKey(cmd.config)
             \/ handlers'[a][key] = cmd.id /\ Installs(cmd, key)
       /\ reply = "Ok" /\ cmd.op = "UnregisterListener" =>
             \A key \in Keys : key = UnregisterKey(cmd.config) => handlers'[a][key] = None
       /\ reply = "Ok" /\ cmd.op = "RegisterListener" =>
             \A key \in Keys : key = RegisterKey(cmd.config) => handlers'[a][key] = cmd.id

\* And to the applications: only a stop ends one, a start that succeeds began one,
\* and with the application a registration succeeds.
Runs(t, reply) ==
    LET a == AppName[t]
        cmd == queue[t][1]
    IN /\ \A u \in Transports : AppName[u] # a => (AppName[u] \in apps' <=> AppName[u] \in apps)
       /\ a \in apps /\ cmd.op # "StopVsomeipApp" => a \in apps'
       /\ cmd.op = "StartVsomeipApp" /\ reply = "Ok" => a \in apps'
       /\ cmd.op = "RegisterListener" /\ a \in apps => reply = "Ok"

\* Setting one address of one application.
LEMMA OneHandlerSet ==
  ASSUME handlers \in [AppNames -> [Keys -> Ids \cup {None}]], NEW a \in AppNames, NEW address,
         NEW v \in Ids \cup {None}, handlers' = [handlers EXCEPT ![a][address] = v]
  PROVE  /\ handlers' \in [AppNames -> [Keys -> Ids \cup {None}]]
         /\ \A b \in AppNames : b # a => handlers'[b] = handlers[b]
         /\ \A key \in Keys : handlers'[a][key] = IF key = address THEN v ELSE handlers[a][key]
<1> DEFINE g == [handlers[a] EXCEPT ![address] = v]
<1>1. handlers[a] \in [Keys -> Ids \cup {None}]
  OBVIOUS
<1>2. g \in [Keys -> Ids \cup {None}]
  BY <1>1
<1>3. \A key \in Keys : g[key] = IF key = address THEN v ELSE handlers[a][key]
  BY <1>1
<1>4. handlers' = [handlers EXCEPT ![a] = g]
  OBVIOUS
<1> HIDE DEF g
<1>5. QED
  BY <1>2, <1>3, <1>4

\* Every command is taken, answered and handled so.
LEMMA EngineTakesAndHandles ==
  ASSUME PointInv, ChannelInv, NEW t \in Transports, PointEngineStep(t)
  PROVE  \E reply : Takes(t, reply) /\ Handles(t, reply) /\ Runs(t, reply)
<1> DEFINE a == AppName[t]
           cmd == queue[t][1]
<1>0. a \in AppNames /\ handlers \in [AppNames -> [Keys -> Ids \cup {None}]]
  BY DEF AppNames, ChannelInv
<1>0a. \A u \in Transports : AppName[u] \in AppNames
  BY DEF AppNames
<1>1. ASSUME NEW ops, NEW reply \in Results \cup SendErrors, TakeAndReply(t, ops, reply),
             UNCHANGED handlers,
             ops \cap {"RegisterListener", "UnregisterListener"} # {} => reply # "Ok"
      PROVE  Takes(t, reply) /\ Handles(t, reply) /\ cmd.op \in ops
  <2>1. Takes(t, reply) /\ cmd.op \in ops
    BY <1>1, TakeAndReplyTakes
  <2>2. Handles(t, reply)
    BY <1>0, <1>1, <2>1 DEF Handles, Keys, AppNames
  <2>3. QED
    BY <2>1, <2>2
<1>2. CASE register_listener_internal(t)
  <2>1. /\ TakeAndReply(t, {"RegisterListener"}, "Ok") /\ queue[t] # <<>>
        /\ handlers' = [handlers EXCEPT ![a][RegisterKey(Head(queue[t]).config)] = Head(queue[t]).id]
    BY <1>2 DEF register_listener_internal, TakeAndReply
  <2>2. Takes(t, "Ok") /\ cmd.op = "RegisterListener"
    BY <2>1, TakeAndReplyTakes DEF Results
  <2>3. Head(queue[t]) = cmd /\ cmd \in PointCommands
    BY <2>1, <2>2, ChannelFacts DEF ChannelInv, Takes
  <2>4. cmd.id \in Ids \cup {None}
    BY <2>3 DEF PointCommands
  <2>5. handlers' = [handlers EXCEPT ![a][RegisterKey(cmd.config)] = cmd.id]
    BY <2>1, <2>3
  <2> HIDE DEF a, cmd
  <2>6. /\ handlers' \in [AppNames -> [Keys -> Ids \cup {None}]]
        /\ \A b \in AppNames : b # a => handlers'[b] = handlers[b]
        /\ \A key \in Keys :
              handlers'[a][key] = IF key = RegisterKey(cmd.config) THEN cmd.id ELSE handlers[a][key]
    BY <1>0, <2>4, <2>5, OneHandlerSet
  <2>7. Handles(t, "Ok")
    BY <1>0a, <2>2, <2>6 DEF Handles, Installs, a, cmd
  <2>8. Runs(t, "Ok")
    BY <1>2, <2>2 DEF register_listener_internal, Runs, cmd
  <2>9. QED
    BY <2>2, <2>7, <2>8
<1>3. CASE unregister_listener_internal(t)
  <2>1. /\ TakeAndReply(t, {"UnregisterListener"}, "Ok") /\ queue[t] # <<>>
        /\ handlers' = [handlers EXCEPT ![a][UnregisterKey(Head(queue[t]).config)] = None]
    BY <1>3 DEF unregister_listener_internal, TakeAndReply
  <2>2. Takes(t, "Ok") /\ cmd.op = "UnregisterListener"
    BY <2>1, TakeAndReplyTakes DEF Results
  <2>3. Head(queue[t]) = cmd
    BY <2>1, <2>2, ChannelFacts DEF ChannelInv, Takes
  <2>4. handlers' = [handlers EXCEPT ![a][UnregisterKey(cmd.config)] = None]
    BY <2>1, <2>3
  <2> HIDE DEF a, cmd
  <2>5. /\ handlers' \in [AppNames -> [Keys -> Ids \cup {None}]]
        /\ \A b \in AppNames : b # a => handlers'[b] = handlers[b]
        /\ \A key \in Keys :
              handlers'[a][key] = IF key = UnregisterKey(cmd.config) THEN None ELSE handlers[a][key]
    BY <1>0, <2>4, OneHandlerSet
  <2>6. Handles(t, "Ok")
    BY <1>0a, <2>2, <2>5 DEF Handles, a, cmd
  <2>7. Runs(t, "Ok")
    BY <1>3, <2>2 DEF unregister_listener_internal, Runs, cmd
  <2>8. QED
    BY <2>2, <2>6, <2>7
<1>4. CASE stop_vsomeip_app_internal(t)
  <2>1. /\ TakeAndReply(t, {"StopVsomeipApp"}, "Ok")
        /\ handlers' = [handlers EXCEPT ![a] = NoHandlers]
    BY <1>4 DEF stop_vsomeip_app_internal
  <2>2. Takes(t, "Ok") /\ cmd.op = "StopVsomeipApp"
    BY <2>1, TakeAndReplyTakes DEF Results
  <2>3. NoHandlers \in [Keys -> Ids \cup {None}] /\ \A key \in Keys : NoHandlers[key] = None
    BY DEF NoHandlers
  <2> HIDE DEF a, cmd
  <2>4. /\ handlers' \in [AppNames -> [Keys -> Ids \cup {None}]]
        /\ \A b \in AppNames : b # a => handlers'[b] = handlers[b]
        /\ \A key \in Keys : handlers'[a][key] = None
    BY <1>0, <2>1, <2>3
  <2>5. Handles(t, "Ok")
    BY <1>0a, <2>2, <2>4 DEF Handles, a, cmd
  <2>6. Runs(t, "Ok")
    BY <1>4, <2>2 DEF stop_vsomeip_app_internal, Runs, cmd
  <2>7. QED
    BY <2>2, <2>5, <2>6
<1>5. CASE start_vsomeip_app_internal(t)
  <2>1. PICK reply \in Results :
          /\ TakeAndReply(t, {"StartVsomeipApp"}, reply) /\ UNCHANGED handlers
          /\ \/ apps' = apps /\ reply # "Ok"
             \/ apps' = apps \cup {a}
    BY <1>5 DEF start_vsomeip_app_internal, Results
  <2>2. Takes(t, reply) /\ Handles(t, reply) /\ cmd.op = "StartVsomeipApp"
    BY <1>1, <2>1
  <2>3. Runs(t, reply)
    BY <2>1, <2>2 DEF Runs
  <2>4. QED
    BY <2>2, <2>3
<1>6. CASE EngineWithoutApp(t)
  <2>1. Takes(t, "INTERNAL") /\ Handles(t, "INTERNAL") /\ cmd.op # "StartVsomeipApp"
    BY <1>1, <1>6 DEF EngineWithoutApp, Results
  <2>2. Runs(t, "INTERNAL")
    BY <1>6, <2>1 DEF EngineWithoutApp, Runs
  <2>3. QED
    BY <2>1, <2>2
<1>7. CASE send_internal(t)
  <2>1. PICK reply \in {"Ok", "NOT_FOUND", "ALREADY_EXISTS", "INVALID_ARGUMENT"} :
          TakeAndReply(t, {"Send"}, reply) /\ UNCHANGED <<apps, handlers>>
    BY <1>7 DEF send_internal
  <2>2. Takes(t, reply) /\ Handles(t, reply) /\ cmd.op = "Send"
    BY <1>1, <2>1 DEF Results, SendErrors
  <2>3. Runs(t, reply)
    BY <2>1, <2>2 DEF Runs
  <2>4. QED
    BY <2>2, <2>3
<1>8. CASE SendWithoutApp(t)
  <2>1. Takes(t, "INTERNAL") /\ Handles(t, "INTERNAL") /\ cmd.op = "Send"
    BY <1>1, <1>8 DEF SendWithoutApp, Results
  <2>2. Runs(t, "INTERNAL")
    BY <1>8, <2>1 DEF SendWithoutApp, Runs
  <2>3. QED
    BY <2>1, <2>2
<1>9. QED
  BY <1>2, <1>3, <1>4, <1>5, <1>6, <1>7, <1>8 DEF PointEngineStep, EngineStep

-----------------------------------------------------------------------------
(* Unregistering takes back all that registering took.                     *)

\* What the streamer registers for the responses to the requests it sends, the
\* addresses of its services, and what the other callers listen to.
Responses == {ResponseConfig(m) : m \in {n \in Outgoing : TypeOf(n) = "Request"}}
ServiceKeys == {RegisterKey(ServiceConfig(s)) : s \in AllServices}
Ordinary == UNION {ConfigsFor[k] : k \in Callers}

\* What the guarantees below rest on: applications of their own, and no response
\* and no other listener at the address of a configured service.
OwnServices ==
    /\ \A t, u \in Transports : AppName[t] = AppName[u] => t = u
    /\ \A c \in Responses \cup Ordinary : RegisterKey(c) \notin ServiceKeys
    /\ \A c \in Ordinary : UnregisterKey(c) \notin ServiceKeys

Outcomes == {"none", "registering", "failed", "registered", "unregistered"}

ServiceKey(s) == RegisterKey(ServiceConfig(s))

\* vsomeip has no handler for the address of c, and no command will install one;
\* and the registry knows nothing of c.
Removed(t, c) ==
    /\ handlers[AppName[t]][RegisterKey(c)] = None
    /\ \A i \in DOMAIN queue[t] : ~Installs(queue[t][i], RegisterKey(c))

Gone(t, c) == \A id \in Ids : listenerConfigs[t][id] # c

TakenBack(t, c) == Removed(t, c) /\ Gone(t, c)

\* A service that unregistering has taken back for good: nobody registers it.
Finished(t, s) ==
    /\ status[t] = "unregistered" /\ s \in Services[t]
    /\ ~StillComes(t, ServiceKey(s))
    /\ TakenBack(t, ServiceConfig(s))

\* A job that goes over the services of t tells in its status so; only it
\* registers services.
Own(k) ==
    /\ job[k].op # None => call[k].pc \in {"job", "send", "await", "release"}
    /\ call[k].reply # None => call[k].pc = "await"
    /\ job[k].op = "register" => status[call[k].t] \in {"registering", "unregistered"}
    /\ job[k].op = "unregister" =>
          status[call[k].t] = "unregistered" /\ job[k].owed \subseteq Services[call[k].t]
    /\ call[k].op = "RegisterListener" /\ job[k].op # "register" =>
          call[k].config \in Responses \cup Ordinary
    /\ job[k].op = "unregister" /\ call[k].pc # "job" => call[k].op = "UnregisterListener"

\* What an unregistration has done for a service it owes and is not to do any
\* more: all, or it is at work on it.
Undone(k, c) ==
    \/ TakenBack(call[k].t, c)
    \/ call[k].config = c /\ call[k].pc \in {"send", "await"} /\ call[k].reply # "Ok"
    \/ /\ call[k].config = c /\ (call[k].pc = "release" \/ call[k].reply = "Ok")
       /\ Removed(call[k].t, c)

\* What it owes nobody will register any more.
Progress(k) ==
    job[k].op = "unregister" =>
        \A s \in job[k].owed :
            /\ ~StillComes(call[k].t, ServiceKey(s))
            /\ s \notin job[k].todo => Undone(k, ServiceConfig(s))

StatusInv ==
    /\ status \in [Transports -> Outcomes]
    /\ takenBack \in [Transports -> SUBSET AllServices]
    /\ \A t \in Transports : status[t] # "none" => p2p[t] /\ Services[t] # None

OneRegisters ==
    \A j, k \in Callers :
        job[j].op = "register" /\ job[k].op = "register" /\ call[j].t = call[k].t => j = k

\* What an unregistration owes was sent before its commands.
InstalledBefore ==
    \A t \in Transports : \A i, j \in DOMAIN queue[t] :
        i < j /\ queue[t][i].caller # None /\ job[queue[t][i].caller].op = "unregister" =>
            \A s \in job[queue[t][i].caller].owed : ~Installs(queue[t][j], ServiceKey(s))

DoneInv == \A t \in Transports : \A s \in takenBack[t] : Finished(t, s)

TakeBackInv ==
    /\ StatusInv /\ OneRegisters
    /\ \A k \in Callers : Own(k) /\ Progress(k)
    /\ InstalledBefore /\ DoneInv

\* A service is listened to and given up under one address, which no response and
\* no other listener has.
LEMMA ServiceAddress ==
  ASSUME OwnServices, NEW t \in Transports, Services[t] # None, NEW s \in Services[t]
  PROVE  /\ ServiceConfig(s) \in Configs /\ ServiceConfig(s) # None
         /\ RegisterKey(ServiceConfig(s)) = UnregisterKey(ServiceConfig(s))
         /\ RegisterKey(ServiceConfig(s)) \in Keys
         /\ RegisterKey(ServiceConfig(s)) \in ServiceKeys /\ s \in AllServices
         /\ ServiceConfig(s) \notin Responses \cup Ordinary
<1> DEFINE c == ServiceConfig(s)
<1>1. c \in Configs /\ c.sink # NoSink
  BY PointAssumption
<1>2. s \in AllServices
  BY DEF AllServices
<1>3. TypeOf(c) = "Request"
  <2>1. c.source.authority = AnyAuthority
    BY DEF ServiceConfig, AnyUri
  <2>2. c.sink.resource = Any16
    BY DEF ServiceConfig, AnyUri
  <2>3. Any16 # 0
    BY DEF Any16
  <2> HIDE DEF c
  <2>4. ~OneAuthorityAnyEntity(c.source)
    BY <2>1 DEF OneAuthorityAnyEntity
  <2>5. QED
    BY <1>1, <2>2, <2>3, <2>4 DEF TypeOf, determine_type
<1>4. RegisterKey(c) = UnregisterKey(c)
  <2> HIDE DEF c
  <2> QED BY <1>3 DEF RegisterKey, UnregisterKey
<1>5. RegisterKey(c) \in Keys /\ RegisterKey(c) \in ServiceKeys
  BY <1>1, <1>2 DEF Keys, ServiceKeys
<1>6. c \notin Responses \cup Ordinary
  BY <1>5 DEF OwnServices
<1>7. QED
  BY <1>1, <1>2, <1>4, <1>5, <1>6, NoneAssumption

\* What a caller may register: responses, what it listens to otherwise, or the
\* services its registration has still to send.
GrantsOnly(k) ==
    \A u \in Transports, id \in Ids :
        \/ listenerConfigs'[u][id] \in {listenerConfigs[u][id], None} \cup Responses \cup Ordinary
        \/ StillComes(u, RegisterKey(listenerConfigs'[u][id]))

\* A registration only goes on, or begins where no listener was stored.
RegistersOnly(k) ==
    job'[k].op = "register" =>
        \/ /\ job[k].op = "register" /\ call'[k].t = call[k].t
           /\ \A key \in ServiceKeys : YetToSend(k, key)' => YetToSend(k, key)
        \/ call'[k].t \in Transports /\ ~p2p[call'[k].t]

\* How the status of a transport may change.
StatusMoves(k) ==
    \A t \in Transports :
        \/ status'[t] = status[t]
        \/ status[t] = "none" /\ status'[t] = "registering" /\ ~p2p[t]
        \/ /\ status[t] = "registering" /\ status'[t] \in {"registered", "failed"}
           /\ job[k].op = "register" /\ call[k].t = t /\ job'[k].op # "register"
        \/ status'[t] = "unregistered"

\* What is taken back stays so.
LEMMA MovesKeepTakenBack ==
  ASSUME OwnServices, NEW k \in Callers, Moves(k), NEW t \in Transports, Services[t] # None,
         NEW s \in Services[t]
  PROVE  /\ Removed(t, ServiceConfig(s)) => Removed(t, ServiceConfig(s))'
         /\ Gone(t, ServiceConfig(s)) /\ GrantsOnly(k) /\ ~StillComes(t, ServiceKey(s))
               => Gone(t, ServiceConfig(s))'
<1> DEFINE c == ServiceConfig(s)
<1>1. ASSUME Removed(t, c) PROVE Removed(t, c)'
  <2> HIDE DEF c
  <2>1. UNCHANGED handlers /\ DOMAIN queue'[t] = DOMAIN queue[t]
    BY DEF Moves, SameCommands
  <2>2. \A i \in DOMAIN queue[t] :
           queue'[t][i].op = queue[t][i].op /\ queue'[t][i].config = queue[t][i].config
    BY DEF Moves, SameCommands
  <2>3. QED
    BY <1>1, <2>1, <2>2 DEF Removed, Installs
<1>2. ASSUME Gone(t, c), GrantsOnly(k), ~StillComes(t, ServiceKey(s))
      PROVE  Gone(t, c)'
  <2>1. c # None /\ c \notin Responses \cup Ordinary
    BY ServiceAddress
  <2>2. ~StillComes(t, RegisterKey(c))
    BY <1>2 DEF ServiceKey
  <2> HIDE DEF c
  <2>3. QED
    BY <1>2, <2>1, <2>2 DEF Gone, GrantsOnly
<1>3. QED
  BY <1>1, <1>2

\* Where a listener is stored, no step brings back what nobody registers.
LEMMA MovesKeepUnsent ==
  ASSUME NEW k \in Callers, Moves(k), RegistersOnly(k), NEW t \in Transports, p2p[t],
         NEW key \in ServiceKeys, ~StillComes(t, key)
  PROVE  ~StillComes(t, key)'
<1> SUFFICES ASSUME NEW j \in Callers, job'[j].op = "register", call'[j].t = t,
                    YetToSend(j, key)'
             PROVE  FALSE
  BY DEF StillComes
<1>1. CASE j = k
  <2>1. job[k].op = "register" /\ call[k].t = t /\ YetToSend(k, key)
    BY <1>1 DEF RegistersOnly
  <2>2. QED
    BY <2>1 DEF StillComes
<1>2. CASE j # k
  <2>1. call'[j] = call[j] /\ job'[j] = job[j]
    BY <1>2 DEF Moves
  <2>2. YetToSend(j, key)
    BY <2>1 DEF YetToSend
  <2>3. QED
    BY <2>1, <2>2 DEF StillComes
<1>3. QED
  BY <1>1, <1>2

\* A job knows its transport.
LEMMA JobTransport ==
  ASSUME PointInv, NEW k \in Callers, Own(k), job[k].op # None
  PROVE  call[k].t \in Transports
  BY DEF Own, PointInv, PointCallInv, Purposeful

\* A caller that moves and has its own part in order keeps the invariant.
LEMMA MovesKeepTakeBack ==
  ASSUME OwnServices, PointInv, ChannelInv, TakeBackInv, NEW k \in Callers, Moves(k),
         StatusInv', StatusMoves(k), GrantsOnly(k), RegistersOnly(k), Own(k)', Progress(k)',
         \A t \in Transports : \A s \in takenBack'[t] : Finished(t, s)
  PROVE  TakeBackInv'
<1>0. "register" # None /\ "unregister" # None
  BY PointAssumption DEF JobKinds
<1>1. ASSUME NEW j \in Callers, j # k PROVE call'[j] = call[j] /\ job'[j] = job[j]
  BY <1>1 DEF Moves
<1>2. ASSUME NEW j \in Callers, j # k PROVE Own(j)'
  <2>1. Own(j) /\ call'[j] = call[j] /\ job'[j] = job[j]
    BY <1>1, <1>2 DEF TakeBackInv
  <2> DEFINE t == call[j].t
  <2>2. ASSUME job[j].op = "register" PROVE status'[t] \in {"registering", "unregistered"}
    <3>1. t \in Transports /\ status[t] \in {"registering", "unregistered"}
      BY <1>0, <2>1, <2>2, JobTransport DEF Own
    <3>2. ~(job[k].op = "register" /\ call[k].t = t)
      BY <1>2, <2>2 DEF TakeBackInv, OneRegisters
    <3> HIDE DEF t
    <3>3. QED
      BY <3>1, <3>2 DEF StatusMoves
  <2>3. ASSUME job[j].op = "unregister" PROVE status'[t] = "unregistered"
    <3>1. t \in Transports /\ status[t] = "unregistered"
      BY <1>0, <2>1, <2>3, JobTransport DEF Own
    <3> HIDE DEF t
    <3>2. QED
      BY <3>1 DEF StatusMoves
  <2>4. QED
    BY <2>1, <2>2, <2>3 DEF Own
<1>3. OneRegisters'
  <2> SUFFICES ASSUME NEW i \in Callers, NEW j \in Callers, job'[i].op = "register",
                      job'[j].op = "register", call'[i].t = call'[j].t, i # j
               PROVE  FALSE
    BY DEF OneRegisters
  <2>1. ASSUME NEW m \in Callers, m # k, job'[k].op = "register", job'[m].op = "register",
               call'[k].t = call'[m].t
        PROVE  FALSE
    <3>1. job[m].op = "register" /\ call'[k].t = call[m].t
      BY <1>1, <2>1
    <3>2. ~(job[k].op = "register" /\ call'[k].t = call[k].t)
      BY <2>1, <3>1 DEF TakeBackInv, OneRegisters
    <3>3. call[m].t \in Transports /\ ~p2p[call[m].t]
      BY <2>1, <3>1, <3>2 DEF RegistersOnly
    <3>4. status[call[m].t] # "none"
      BY <3>1 DEF TakeBackInv, Own
    <3>5. QED
      BY <3>3, <3>4 DEF TakeBackInv, StatusInv
  <2>2. CASE i # k /\ j # k
    BY <1>1, <2>2 DEF TakeBackInv, OneRegisters
  <2>3. QED
    BY <2>1, <2>2
<1>4. ASSUME NEW t \in Transports, status[t] = "unregistered", NEW s \in Services[t]
      PROVE  /\ Services[t] # None /\ status'[t] = "unregistered"
             /\ ~StillComes(t, ServiceKey(s)) => ~StillComes(t, ServiceKey(s))'
             /\ Removed(t, ServiceConfig(s)) => Removed(t, ServiceConfig(s))'
             /\ TakenBack(t, ServiceConfig(s)) /\ ~StillComes(t, ServiceKey(s))
                   => TakenBack(t, ServiceConfig(s))'
  <2>1. Services[t] # None /\ p2p[t]
    BY <1>4 DEF TakeBackInv, StatusInv
  <2>2. ServiceKey(s) \in ServiceKeys
    BY <2>1, ServiceAddress DEF ServiceKey
  <2>3. ~StillComes(t, ServiceKey(s)) => ~StillComes(t, ServiceKey(s))'
    BY <2>1, <2>2, MovesKeepUnsent
  <2>4. status'[t] = "unregistered"
    BY <1>4 DEF StatusMoves
  <2>5. QED
    BY <2>1, <2>3, <2>4, MovesKeepTakenBack DEF TakenBack
<1>5. ASSUME NEW j \in Callers, j # k PROVE Progress(j)'
  <2> SUFFICES ASSUME job'[j].op = "unregister", NEW s \in job'[j].owed
               PROVE  /\ ~StillComes(call[j].t, ServiceKey(s))'
                      /\ s \notin job'[j].todo => Undone(j, ServiceConfig(s))'
    BY DEF Progress
  <2>1. call'[j] = call[j] /\ job'[j] = job[j] /\ Own(j) /\ Progress(j)
    BY <1>1, <1>5 DEF TakeBackInv
  <2>2. PICK t \in Transports : t = call[j].t
    BY <1>0, <2>1, JobTransport
  <2> DEFINE c == ServiceConfig(s)
  <2>3. status[t] = "unregistered" /\ call'[j].t = t /\ s \in Services[t]
    BY <2>1, <2>2 DEF Own
  <2>4. /\ ~StillComes(t, ServiceKey(s))
        /\ s \notin job[j].todo => Undone(j, c)
    BY <2>1, <2>2 DEF Progress
  <2>5. /\ ~StillComes(t, ServiceKey(s))'
        /\ Removed(t, c) => Removed(t, c)'
        /\ TakenBack(t, c) => TakenBack(t, c)'
    BY <1>4, <2>3, <2>4
  <2>6. ~StillComes(call[j].t, ServiceKey(s))'
    BY <2>3, <2>5 DEF StillComes, ServiceKey
  <2> HIDE DEF c
  <2>7. /\ Removed(call[j].t, c) => Removed(t, c)
        /\ TakenBack(call[j].t, c) => TakenBack(t, c)
    BY <2>2
  <2>8. /\ Removed(t, c)' => Removed(call[j].t, c)'
        /\ TakenBack(t, c)' => TakenBack(call[j].t, c)'
    BY <2>3 DEF TakenBack, Removed, Gone
  <2>9. s \notin job[j].todo => Undone(j, c)'
    BY <2>1, <2>4, <2>5, <2>7, <2>8 DEF Undone
  <2>10. QED
    BY <2>1, <2>6, <2>9 DEF c
<1>6. InstalledBefore'
  <2> SUFFICES ASSUME NEW t \in Transports,
                      NEW i \in DOMAIN queue'[t], NEW j \in DOMAIN queue'[t], i < j,
                      queue'[t][i].caller # None, job'[queue'[t][i].caller].op = "unregister",
                      NEW s \in job'[queue'[t][i].caller].owed
               PROVE  ~Installs(queue'[t][j], ServiceKey(s))
    BY DEF InstalledBefore, ServiceKey
  <2> DEFINE m == queue[t][i].caller
  <2>1. /\ i \in DOMAIN queue[t] /\ j \in DOMAIN queue[t] /\ m # k /\ queue'[t][i].caller = m
        /\ queue'[t][j].op = queue[t][j].op /\ queue'[t][j].config = queue[t][j].config
    BY DEF Moves, SameCommands
  <2>2. m \in Callers /\ m # None
    BY <2>1, PointCommandHasCaller
  <2>3. job[m].op = "unregister" /\ s \in job[m].owed
    BY <1>1, <2>1, <2>2
  <2>4. ~Installs(queue[t][j], ServiceKey(s))
    BY <2>1, <2>2, <2>3 DEF TakeBackInv, InstalledBefore
  <2>5. QED
    BY <2>1, <2>4 DEF Installs
<1>7. DoneInv'
  <2> SUFFICES ASSUME NEW t \in Transports, NEW s \in takenBack'[t]
               PROVE  Finished(t, s)'
    BY DEF DoneInv
  <2>1. Finished(t, s)
    OBVIOUS
  <2>2. QED
    BY <1>4, <2>1 DEF Finished
<1>8. QED
  BY <1>2, <1>3, <1>5, <1>6, <1>7 DEF TakeBackInv

\* Sending a command installs no service that was taken back.
LEMMA SendingKeepsTakeBack ==
  ASSUME OwnServices, PointInv, ChannelInv, TakeBackInv, NEW k \in Callers, Enqueue(k),
         UNCHANGED <<p2p, job, history>>
  PROVE  TakeBackInv'
<1>0. "register" # None /\ "unregister" # None
  BY PointAssumption DEF JobKinds
<1>1. PICK t \in Transports : t = call[k].t
  BY SentCommand
<1>1a. SentAt(k, t)
  BY <1>1, SentCommand
<1>2. PICK n \in Nat :
        /\ n \notin DOMAIN queue[t]
        /\ DOMAIN queue'[t] = DOMAIN queue[t] \cup {n}
        /\ \A i \in DOMAIN queue[t] : i \in Nat /\ i < n /\ queue'[t][i] = queue[t][i]
        /\ queue'[t][n] =
              [op |-> call[k].op, config |-> call[k].config, id |-> call[k].id, caller |-> k]
  BY <1>1a DEF SentAt
<1>3. /\ call[k].pc = "send" /\ UNCHANGED handlers /\ UNCHANGED listenerConfigs
      /\ \A u \in Transports : u # t => queue'[u] = queue[u]
  BY <1>1, SentCommand DEF Enqueue, vars, registry
<1>4. /\ \A j \in Callers : j # k => call'[j] = call[j]
      /\ \A j \in Callers : /\ call'[j].op = call[j].op /\ call'[j].t = call[j].t
                            /\ call'[j].config = call[j].config /\ call'[j].reply = call[j].reply
      /\ call'[k].pc = "await"
  BY SentCall
<1>5. ASSUME NEW key \in ServiceKeys, ~StillComes(t, key)
      PROVE  ~Installs(queue'[t][n], key)
  <2>1. queue'[t][n].op = call[k].op /\ queue'[t][n].config = call[k].config
    BY <1>2
  <2>2. CASE job[k].op = "register"
    BY <1>1, <1>3, <1>5, <2>1, <2>2 DEF StillComes, YetToSend, Installs
  <2>3. CASE job[k].op # "register"
    <3>1. call[k].op = "RegisterListener" => call[k].config \in Responses \cup Ordinary
      BY <2>3 DEF TakeBackInv, Own
    <3>2. QED
      BY <2>1, <3>1 DEF OwnServices, Installs
  <2>4. QED
    BY <2>2, <2>3
<1>5a. ASSUME NEW u \in Transports, NEW key, ~StillComes(u, key) PROVE ~StillComes(u, key)'
  <2> SUFFICES ASSUME NEW j \in Callers, job[j].op = "register", call[j].t = u, YetToSend(j, key)'
               PROVE  FALSE
    BY <1>4 DEF StillComes
  <2>1. YetToSend(j, key)
    BY <1>3, <1>4 DEF YetToSend
  <2>2. QED
    BY <1>5a, <2>1 DEF StillComes
<1>6. ASSUME NEW u \in Transports, Services[u] # None, NEW s \in Services[u],
             ~StillComes(u, ServiceKey(s)), Removed(u, ServiceConfig(s))
      PROVE  Removed(u, ServiceConfig(s))'
  <2> DEFINE c == ServiceConfig(s)
  <2>1. RegisterKey(c) \in ServiceKeys /\ ~StillComes(u, RegisterKey(c))
    BY <1>6, ServiceAddress DEF ServiceKey
  <2> HIDE DEF c
  <2>2. ASSUME NEW i \in DOMAIN queue'[u] PROVE ~Installs(queue'[u][i], RegisterKey(c))
    BY <1>2, <1>3, <1>5, <1>6, <2>1, <2>2 DEF Removed, c
  <2>3. handlers'[AppName[u]][RegisterKey(c)] = None
    BY <1>3, <1>6 DEF Removed, c
  <2>4. QED
    BY <2>2, <2>3 DEF Removed, c
<1>7. ASSUME NEW u \in Transports, NEW c, Gone(u, c) PROVE Gone(u, c)'
  BY <1>3, <1>7 DEF Gone
<1>8. ASSUME NEW j \in Callers PROVE Own(j)'
  <2>1. Own(j)
    BY DEF TakeBackInv
  <2>2. CASE j = k
    BY <1>3, <1>4, <2>1, <2>2 DEF Own
  <2>3. CASE j # k
    BY <1>4, <2>1, <2>3 DEF Own
  <2>4. QED
    BY <2>2, <2>3
<1>9. ASSUME NEW j \in Callers PROVE Progress(j)'
  <2> SUFFICES ASSUME job[j].op = "unregister", NEW s \in job[j].owed
               PROVE  /\ ~StillComes(call[j].t, ServiceKey(s))'
                      /\ s \notin job[j].todo => Undone(j, ServiceConfig(s))'
    BY DEF Progress
  <2> DEFINE c == ServiceConfig(s)
  <2>1. /\ Own(j) /\ ~StillComes(call[j].t, ServiceKey(s))
        /\ s \notin job[j].todo => Undone(j, c)
    BY DEF TakeBackInv, Progress
  <2>2. PICK u \in Transports : u = call[j].t
    BY <1>0, <2>1, JobTransport
  <2>3. /\ status[u] = "unregistered" /\ call'[j].t = u /\ s \in Services[u]
        /\ Services[u] # None
    BY <1>4, <2>1, <2>2 DEF Own, TakeBackInv, StatusInv
  <2>4. ~StillComes(u, ServiceKey(s)) /\ ~StillComes(u, ServiceKey(s))'
    BY <1>5a, <2>1, <2>2
  <2>5. (Removed(u, c) => Removed(u, c)') /\ (Gone(u, c) => Gone(u, c)')
    BY <1>6, <1>7, <2>3, <2>4
  <2>6. ~StillComes(call[j].t, ServiceKey(s))'
    BY <2>3, <2>4 DEF StillComes, ServiceKey
  <2> HIDE DEF c
  <2>7. /\ Removed(call[j].t, c) => Removed(u, c)
        /\ TakenBack(call[j].t, c) => Removed(u, c) /\ Gone(u, c)
    BY <2>2 DEF TakenBack
  <2>8. /\ Removed(u, c)' => Removed(call[j].t, c)'
        /\ Removed(u, c)' /\ Gone(u, c)' => TakenBack(call[j].t, c)'
    BY <2>3 DEF TakenBack, Removed, Gone
  <2>9. /\ call[j].pc = "send" => call'[j].pc \in {"send", "await"}
        /\ call[j].pc # "send" => call'[j].pc = call[j].pc
    BY <1>3, <1>4
  <2>10. s \notin job[j].todo => Undone(j, c)'
    BY <1>4, <2>1, <2>5, <2>7, <2>8, <2>9 DEF Undone
  <2>11. QED
    BY <2>6, <2>10 DEF c
<1>10. InstalledBefore'
  <2> SUFFICES ASSUME NEW u \in Transports,
                      NEW i \in DOMAIN queue'[u], NEW j \in DOMAIN queue'[u], i < j,
                      queue'[u][i].caller # None, job[queue'[u][i].caller].op = "unregister",
                      NEW s \in job[queue'[u][i].caller].owed
               PROVE  ~Installs(queue'[u][j], ServiceKey(s))
    BY DEF InstalledBefore, ServiceKey
  <2>1. i \in DOMAIN queue[u] /\ queue'[u][i] = queue[u][i]
    <3>1. ~(u = t /\ i = n)
      BY <1>2
    <3>2. QED
      BY <1>2, <1>3, <3>1
  <2>2. CASE u = t /\ j = n
    <3>1. PICK m \in Callers : m = queue[u][i].caller
      BY <2>1, PointCommandHasCaller
    <3>2. call[m].t = u /\ job[m].op = "unregister" /\ s \in job[m].owed
      BY <2>1, <3>1 DEF ChannelInv, PointAwaited, Awaits
    <3>3. /\ ~StillComes(u, ServiceKey(s)) /\ s \in Services[u] /\ Services[u] # None
      BY <3>2 DEF TakeBackInv, Progress, Own, StatusInv
    <3>4. ServiceKey(s) \in ServiceKeys
      BY <3>3, ServiceAddress DEF ServiceKey
    <3>5. QED
      BY <1>5, <2>2, <3>3, <3>4
  <2>3. CASE ~(u = t /\ j = n)
    <3>1. j \in DOMAIN queue[u] /\ queue'[u][j] = queue[u][j]
      BY <1>2, <1>3, <2>3
    <3>2. QED
      BY <2>1, <3>1 DEF TakeBackInv, InstalledBefore
  <2>4. QED
    BY <2>2, <2>3
<1>11. DoneInv'
  <2> SUFFICES ASSUME NEW u \in Transports, NEW s \in takenBack[u]
               PROVE  Finished(u, s)'
    BY DEF DoneInv
  <2>1. Finished(u, s)
    BY DEF TakeBackInv, DoneInv
  <2>2. Services[u] # None
    BY <2>1 DEF Finished, TakeBackInv, StatusInv
  <2>3. ~StillComes(u, ServiceKey(s))'
    BY <1>5a, <2>1 DEF Finished
  <2>4. TakenBack(u, ServiceConfig(s))'
    BY <1>6, <1>7, <2>1, <2>2 DEF TakenBack, Finished
  <2>5. QED
    BY <2>1, <2>3, <2>4 DEF Finished
<1>12. OneRegisters' /\ StatusInv'
  BY <1>4 DEF TakeBackInv, OneRegisters, StatusInv
<1>13. QED
  BY <1>8, <1>9, <1>10, <1>11, <1>12 DEF TakeBackInv

\* The engine installs no service that was taken back, and an unregistration that
\* succeeded removes the handler for good.
LEMMA EngineKeepsTakeBack ==
  ASSUME OwnServices, PointInv, ChannelInv, TakeBackInv, NEW t \in Transports,
         PointEngineStep(t), UNCHANGED <<p2p, job, history>>
  PROVE  TakeBackInv'
<1>0. "register" # None /\ "unregister" # None
  BY PointAssumption DEF JobKinds
<1>0a. UNCHANGED listenerConfigs
  BY DEF PointEngineStep, EngineStep, register_listener_internal, unregister_listener_internal,
         start_vsomeip_app_internal, stop_vsomeip_app_internal, EngineWithoutApp, send_internal,
         SendWithoutApp, TakeAndReply, vars, registry
<1>1. PICK reply : Takes(t, reply) /\ Handles(t, reply)
  BY EngineTakesAndHandles
<1>2. ASSUME NEW j \in Callers
      PROVE  /\ call'[j].pc = call[j].pc /\ call'[j].op = call[j].op /\ call'[j].t = call[j].t
             /\ call'[j].config = call[j].config
             /\ \/ call'[j].reply = call[j].reply
                \/ /\ j = queue[t][1].caller /\ call'[j].reply = reply
                   /\ Awaits(call[j], t, queue[t][1])
  <2>1. CASE j # queue[t][1].caller
    BY <1>1, <2>1 DEF Takes
  <2>2. CASE j = queue[t][1].caller
    <3>1. Awaits(call[j], t, queue[t][1])
      BY <1>1, <2>2, EngineAssumption DEF ChannelInv, PointAwaited, Takes
    <3>2. QED
      BY <1>1, <2>2, <3>1 DEF Takes
  <2>3. QED
    BY <2>1, <2>2
<1>3. ASSUME NEW u \in Transports, NEW i \in DOMAIN queue'[u]
      PROVE  \E n \in DOMAIN queue[u] : /\ queue'[u][i] = queue[u][n]
                                        /\ u = t => n = i + 1 /\ i \in Nat /\ i >= 1
                                        /\ u # t => n = i
  BY <1>1, <1>3 DEF Takes
<1>4. ASSUME NEW u \in Transports, NEW c, RegisterKey(c) \in Keys, Removed(u, c)
      PROVE  Removed(u, c)'
  <2>1. \A i \in DOMAIN queue'[u] : ~Installs(queue'[u][i], RegisterKey(c))
    BY <1>3, <1>4 DEF Removed
  <2>2. CASE u # t
    <3>1. handlers'[AppName[u]] = handlers[AppName[u]]
      BY <1>1, <2>2 DEF Handles, OwnServices
    <3>2. QED
      BY <1>4, <2>1, <3>1 DEF Removed
  <2>3. CASE u = t
    <3>1. ~Installs(queue[t][1], RegisterKey(c)) /\ handlers[AppName[t]][RegisterKey(c)] = None
      BY <1>1, <1>4, <2>3 DEF Removed, Takes
    <3>2. handlers'[AppName[t]][RegisterKey(c)] = None
      BY <1>1, <1>4, <3>1 DEF Handles
    <3>3. QED
      BY <2>1, <2>3, <3>2 DEF Removed
  <2>4. QED
    BY <2>2, <2>3
<1>5. ASSUME NEW u \in Transports, NEW c, Gone(u, c) PROVE Gone(u, c)'
  BY <1>0a, <1>5 DEF Gone
<1>6. ASSUME NEW j \in Callers PROVE Own(j)'
  <2>1. Own(j)
    BY DEF TakeBackInv
  <2>2. call'[j].reply = call[j].reply \/ call'[j].pc = "await"
    BY <1>2 DEF Awaits
  <2>3. QED
    BY <1>2, <2>1, <2>2 DEF Own
<1>6a. ASSUME NEW u \in Transports, NEW key, ~StillComes(u, key) PROVE ~StillComes(u, key)'
  BY <1>2, <1>6a DEF StillComes, YetToSend
<1>7. ASSUME NEW j \in Callers PROVE Progress(j)'
  <2> SUFFICES ASSUME job[j].op = "unregister", NEW s \in job[j].owed
               PROVE  /\ ~StillComes(call[j].t, ServiceKey(s))'
                      /\ s \notin job[j].todo => Undone(j, ServiceConfig(s))'
    BY DEF Progress
  <2> DEFINE c == ServiceConfig(s)
  <2>0. Own(j) /\ ~StillComes(call[j].t, ServiceKey(s))
    BY DEF TakeBackInv, Progress
  <2>2. PICK u \in Transports : u = call[j].t
    BY <1>0, <2>0, JobTransport
  <2>3. /\ status[u] = "unregistered" /\ call'[j].t = u /\ s \in Services[u]
        /\ Services[u] # None
    BY <1>2, <2>0, <2>2 DEF Own, TakeBackInv, StatusInv
  <2>3a. ~StillComes(call[j].t, ServiceKey(s))'
    <3>1. ~StillComes(u, ServiceKey(s))'
      BY <1>6a, <2>0, <2>2
    <3>2. QED
      BY <2>3, <3>1 DEF StillComes, ServiceKey
  <2> SUFFICES ASSUME s \notin job[j].todo PROVE Undone(j, c)'
    BY <2>3a
  <2>1. Own(j) /\ Undone(j, c)
    BY DEF TakeBackInv, Progress
  <2>4. RegisterKey(c) \in Keys /\ RegisterKey(c) = UnregisterKey(c) /\ RegisterKey(c) \in ServiceKeys
    BY <2>2, <2>3, ServiceAddress
  <2>5. (Removed(u, c) => Removed(u, c)') /\ (Gone(u, c) => Gone(u, c)')
    BY <1>4, <1>5, <2>4
  <2>5a. c = ServiceConfig(s)
    OBVIOUS
  <2> HIDE DEF c
  <2>6. /\ Removed(call[j].t, c) => Removed(u, c)
        /\ TakenBack(call[j].t, c) => Removed(u, c) /\ Gone(u, c)
    BY <2>2 DEF TakenBack
  <2>7. /\ Removed(u, c)' => Removed(call[j].t, c)'
        /\ Removed(u, c)' /\ Gone(u, c)' => TakenBack(call[j].t, c)'
    BY <2>3 DEF TakenBack, Removed, Gone
  <2>8. CASE call'[j].reply = call[j].reply
    BY <1>2, <2>1, <2>5, <2>6, <2>7, <2>8 DEF Undone
  <2>9. CASE /\ j = queue[t][1].caller /\ call'[j].reply = reply
             /\ Awaits(call[j], t, queue[t][1])
    <3>1. /\ call[j].pc = "await" /\ call[j].reply = None /\ u = t
          /\ queue[t][1].op = "UnregisterListener" /\ queue[t][1].config = call[j].config
      BY <2>1, <2>2, <2>9 DEF Awaits, Own
    <3>2. CASE TakenBack(call[j].t, c)
      BY <2>5, <2>6, <2>7, <3>2 DEF Undone
    <3>3. CASE call[j].config = c
      <4>1. CASE reply # "Ok"
        BY <1>2, <2>9, <3>1, <3>3, <4>1 DEF Undone
      <4>2. CASE reply = "Ok"
        <5>1. handlers'[AppName[t]][RegisterKey(c)] = None
          BY <1>1, <2>4, <3>1, <3>3, <4>2 DEF Handles
        <5>2. ASSUME NEW i \in DOMAIN queue'[t] PROVE ~Installs(queue'[t][i], RegisterKey(c))
          <6>1. /\ i + 1 \in DOMAIN queue[t] /\ queue'[t][i] = queue[t][i + 1] /\ 1 < i + 1
                /\ 1 \in DOMAIN queue[t]
            BY <1>1, <5>2 DEF Takes
          <6>2. queue[t][1].caller # None
            BY <2>9, EngineAssumption
          <6>3. QED
            BY <2>5a, <2>9, <3>1, <6>1, <6>2 DEF TakeBackInv, InstalledBefore, ServiceKey
        <5>3. Removed(u, c)'
          BY <3>1, <5>1, <5>2 DEF Removed
        <5>4. QED
          BY <1>2, <2>7, <2>9, <3>3, <4>2, <5>3 DEF Undone
      <4>3. QED
        BY <4>1, <4>2
    <3>4. QED
      BY <2>1, <3>2, <3>3 DEF Undone
  <2>10. QED
    BY <1>2, <2>8, <2>9
<1>8. InstalledBefore'
  <2> SUFFICES ASSUME NEW u \in Transports,
                      NEW i \in DOMAIN queue'[u], NEW j \in DOMAIN queue'[u], i < j,
                      queue'[u][i].caller # None, job[queue'[u][i].caller].op = "unregister",
                      NEW s \in job[queue'[u][i].caller].owed
               PROVE  ~Installs(queue'[u][j], ServiceKey(s))
    BY DEF InstalledBefore, ServiceKey
  <2>1. PICK m \in DOMAIN queue[u] : /\ queue'[u][i] = queue[u][m]
                                     /\ u = t => m = i + 1 /\ i \in Nat
                                     /\ u # t => m = i
    BY <1>3
  <2>2. PICK n \in DOMAIN queue[u] : /\ queue'[u][j] = queue[u][n]
                                     /\ u = t => n = j + 1 /\ j \in Nat
                                     /\ u # t => n = j
    BY <1>3
  <2>3. m < n
    BY <2>1, <2>2
  <2>4. QED
    BY <2>1, <2>2, <2>3 DEF TakeBackInv, InstalledBefore
<1>9. DoneInv'
  <2> SUFFICES ASSUME NEW u \in Transports, NEW s \in takenBack[u]
               PROVE  Finished(u, s)'
    BY DEF DoneInv
  <2>1. Finished(u, s)
    BY DEF TakeBackInv, DoneInv
  <2>2. RegisterKey(ServiceConfig(s)) \in Keys
    BY <2>1, ServiceAddress DEF TakeBackInv, StatusInv, Finished
  <2>3. TakenBack(u, ServiceConfig(s))'
    BY <1>4, <1>5, <2>1, <2>2 DEF TakenBack, Finished
  <2>4. ~StillComes(u, ServiceKey(s))'
    BY <1>6a, <2>1 DEF Finished
  <2>5. QED
    BY <2>1, <2>3, <2>4 DEF Finished
<1>10. OneRegisters' /\ StatusInv'
  BY <1>2 DEF TakeBackInv, OneRegisters, StatusInv
<1>11. QED
  BY <1>6, <1>7, <1>8, <1>9, <1>10 DEF TakeBackInv

\* Nothing is registered, at most something is released.
Shrinks ==
    \A u \in Transports, id \in Ids : listenerConfigs'[u][id] \in {listenerConfigs[u][id], None}

\* What has been taken back by the end of a step was so at its beginning.
OnlyFinished == \A t \in Transports : \A s \in takenBack'[t] : Finished(t, s)

\* What a step of caller k must do to its own part of the invariant.
OwnPart(k) ==
    /\ Moves(k) /\ StatusInv' /\ StatusMoves(k) /\ GrantsOnly(k) /\ RegistersOnly(k)
    /\ Own(k)' /\ Progress(k)' /\ OnlyFinished

\* Registering takes an id for the configuration at most.
LEMMA RegisterEffect ==
  ASSUME IInv, NEW t \in Transports, NEW c \in Configs, Register(t, c)
  PROVE  /\ \A u \in Transports, id \in Ids :
               \/ listenerConfigs'[u][id] = listenerConfigs[u][id]
               \/ u = t /\ listenerConfigs[u][id] = None /\ listenerConfigs'[u][id] = c
<1>1. CASE UNCHANGED registry
  BY <1>1 DEF registry
<1>2. ASSUME NEW id \in Ids, get_message_handler(t, c, id, "Ok")
      PROVE  \A u \in Transports, i \in Ids :
                \/ listenerConfigs'[u][i] = listenerConfigs[u][i]
                \/ u = t /\ listenerConfigs[u][i] = None /\ listenerConfigs'[u][i] = c
  <2>1. listenerConfigs[t][id] = None
    BY <1>2, FreeIdIsUnused DEF get_message_handler, IInv
  <2>2. QED
    BY <1>2, <2>1 DEF get_message_handler, IInv, TypeOK
<1>3. ASSUME NEW id \in Ids, NEW res \in GetErrors, get_message_handler(t, c, id, res)
      PROVE  UNCHANGED registry
  BY <1>3, RefusalRollsBack DEF IInv
<1>4. QED
  BY <1>1, <1>2, <1>3 DEF Register, get_message_handler_exhausted, GetResults

\* Unregistering leaves nothing of the configuration.
LEMMA UnregisterEffect ==
  ASSUME IInv, NEW t \in Transports, NEW c \in Configs,
         Unregister(t, c) \/ DropRelease(t, c)
  PROVE  /\ Shrinks /\ Gone(t, c)'
         /\ \A u \in Transports, id \in Ids :
               u # t \/ listenerConfigs[u][id] # c =>
                   listenerConfigs'[u][id] = listenerConfigs[u][id]
<1>0. TypeOK /\ OneHandlerPerConfig /\ c # None
  BY NoneAssumption DEF IInv, RegistryInv
<1>1. CASE release_message_handler_not_found(t, c)
  BY <1>0, <1>1 DEF release_message_handler_not_found, registry, Shrinks, Gone, ConfigsOf
<1>2. ASSUME NEW id \in Ids, release_message_handler(t, c, id)
      PROVE  /\ Shrinks /\ Gone(t, c)'
             /\ \A u \in Transports, i \in Ids :
                   u # t \/ listenerConfigs[u][i] # c =>
                       listenerConfigs'[u][i] = listenerConfigs[u][i]
  <2>1. listenerConfigs[t][id] = c /\ listenerConfigs' = [listenerConfigs EXCEPT ![t][id] = None]
    BY <1>2 DEF release_message_handler
  <2>2. \A u \in Transports, i \in Ids :
           listenerConfigs'[u][i] = IF u = t /\ i = id THEN None ELSE listenerConfigs[u][i]
    BY <1>0, <2>1 DEF TypeOK
  <2>3. \A i \in Ids : listenerConfigs[t][i] = c => i = id
    BY <1>0, <2>1 DEF OneHandlerPerConfig
  <2>4. QED
    BY <1>0, <2>1, <2>2, <2>3 DEF Shrinks, Gone
<1>3. QED
  BY <1>1, <1>2 DEF Unregister, DropRelease

\* A step that leaves the history alone.
LEMMA SameStatus ==
  ASSUME TakeBackInv, NEW k \in Callers, UNCHANGED <<p2p, history>>
  PROVE  StatusInv' /\ StatusMoves(k) /\ OnlyFinished
  BY DEF TakeBackInv, DoneInv, StatusInv, StatusMoves, OnlyFinished

\* A job that has no command more to send than it had.
LEMMA RegistersNoMore ==
  ASSUME NEW k \in Callers, call'[k].t = call[k].t, call'[k].pc # "send",
         job'[k].op = job[k].op, job'[k].todo \subseteq job[k].todo
  PROVE  RegistersOnly(k)
<1>1. ASSUME NEW key, YetToSend(k, key)' PROVE YetToSend(k, key)
  BY <1>1 DEF YetToSend
<1>2. QED
  BY <1>1 DEF RegistersOnly

\* One call was replaced.
LEMMA OneCallReplaced ==
  ASSUME PointInv, NEW k \in Callers, NEW r, call' = [call EXCEPT ![k] = r]
  PROVE  call'[k] = r /\ \A j \in Callers : j # k => call'[j] = call[j]
  BY DEF PointInv, PointCallInv

\* A step of a call that is not a job.
LEMMA PlainCallOwnPart ==
  ASSUME PointInv, TakeBackInv, NEW k \in Callers, NEW r, call' = [call EXCEPT ![k] = r],
         r.reply = None, r.op # "RegisterListener", job[k].op = None,
         UNCHANGED <<p2p, job, history>>, Shrinks, Moves(k)
  PROVE  OwnPart(k)
<1>1. "register" # None /\ "unregister" # None
  BY PointAssumption DEF JobKinds
<1>2. StatusInv' /\ StatusMoves(k) /\ OnlyFinished
  BY SameStatus
<1>3. GrantsOnly(k)
  BY DEF GrantsOnly, Shrinks
<1>4. call'[k] = r
  BY OneCallReplaced
<1>5. Own(k)'
  BY <1>1, <1>4 DEF Own
<1>6. Progress(k)'
  BY <1>1 DEF Progress
<1>7. RegistersOnly(k)
  BY <1>1 DEF RegistersOnly
<1>8. QED
  BY <1>2, <1>3, <1>5, <1>6, <1>7 DEF OwnPart

\* What a call that is not a job does with its result registers nothing.
LEMMA FinishPlain ==
  ASSUME PointInv, NEW k \in Callers, NEW reply, call[k].pc = "await", Finish(k, reply)
  PROVE  /\ Shrinks
         /\ \E r : call' = [call EXCEPT ![k] = r] /\ r.reply = None /\ r.op # "RegisterListener"
<1>1. UNCHANGED listenerConfigs
  BY DEF Finish, vars, registry, DropBegin, DropEnd
<1>2. Shrinks
  BY <1>1 DEF Shrinks
<1>3. "RegisterListener" # None
  BY EngineAssumption DEF Ops
<1>4. call[k] \in PointCalls
  BY DEF PointInv, PointCallInv
<1>5. CASE call' = [call EXCEPT ![k] = Returned]
  <2>1. Returned.reply = None /\ Returned.op # "RegisterListener"
    BY <1>3 DEF Returned
  <2>2. QED
    BY <1>2, <1>5, <2>1
<1>6. CASE call' = [call EXCEPT ![k] = Dropping(call[k].t)]
  <2>1. Dropping(call[k].t).reply = None /\ Dropping(call[k].t).op # "RegisterListener"
    BY <1>3 DEF Returned, Dropping
  <2>2. QED
    BY <1>2, <1>6, <2>1
<1>7. CASE /\ call[k].op = "UnregisterListener"
           /\ call' = [call EXCEPT ![k].pc = "release", ![k].reply = None]
  <2> DEFINE r == [call[k] EXCEPT !.pc = "release", !.reply = None]
  <2>1. r.reply = None /\ r.op = "UnregisterListener"
    BY <1>4, <1>7 DEF PointCalls
  <2>2. call' = [call EXCEPT ![k] = r]
    BY <1>4, <1>7 DEF PointInv, PointCallInv, PointCalls
  <2> HIDE DEF r
  <2>3. QED
    BY <1>2, <2>1, <2>2
<1>8. QED
  BY <1>5, <1>6, <1>7 DEF Finish

\* A call that waits for no command goes on: a change of its own call and job.
LEMMA QuietStep ==
  ASSUME PointInv, ChannelInv, NEW k \in Callers, NEW r, call' = [call EXCEPT ![k] = r],
         call[k].pc # "await" \/ call[k].reply # None, UNCHANGED <<queue, handlers>>,
         UNCHANGED job \/ \E b : job' = [job EXCEPT ![k] = b]
  PROVE  Moves(k) /\ call'[k] = r
<1>1. call'[k] = r /\ \A j \in Callers : j # k => call'[j] = call[j]
  BY OneCallReplaced
<1>2. \A j \in Callers : j # k => job'[j] = job[j]
  BY DEF PointInv, JobInv
<1>3. Moves(k)
  BY <1>1, <1>2, QuietMoves
<1>4. QED
  BY <1>1, <1>3

\* Constructing and dropping a transport have no part in the point-to-point
\* listener.
LEMMA LifeCallsOwnPart ==
  ASSUME PointInv, ChannelInv, TakeBackInv, NEW k \in Callers, NEW t \in Transports,
         NewCall(k, t) \/ DropCall(k, t), UNCHANGED <<p2p, job, history>>
  PROVE  OwnPart(k)
<1>1. call[k].pc = "idle" /\ UNCHANGED <<queue, handlers>> /\ UNCHANGED listenerConfigs
  BY DEF NewCall, DropCall, New, DropBegin, registry
<1>2. job[k].op = None /\ Shrinks
  BY <1>1 DEF TakeBackInv, Own, Shrinks
<1>3. "RegisterListener" # None
  BY EngineAssumption DEF Ops
<1>4. PICK r : call' = [call EXCEPT ![k] = r] /\ r.reply = None /\ r.op # "RegisterListener"
  <2>1. Dropping(t).reply = None /\ Dropping(t).op # "RegisterListener"
    BY <1>3 DEF Returned, Dropping
  <2>2. /\ Sending("StartVsomeipApp", t, None, None).reply = None
        /\ Sending("StartVsomeipApp", t, None, None).op # "RegisterListener"
    BY DEF Sending
  <2>3. QED
    BY <2>1, <2>2 DEF NewCall, DropCall
<1>5. Moves(k)
  BY <1>1, <1>4, QuietStep
<1>6. QED
  BY <1>2, <1>4, <1>5, PlainCallOwnPart

\* Neither have the other calls that are not jobs.
LEMMA PlainStepOwnPart ==
  ASSUME PointInv, ChannelInv, TakeBackInv, NEW k \in Callers, job[k].op = None,
         CallStep(k) \/ AwaitTimeout(k), UNCHANGED <<p2p, job, history>>
  PROVE  OwnPart(k)
<1>1. CASE DropNext(k)
  <2>1. call[k].pc = "drop" /\ UNCHANGED <<queue, handlers>> /\ UNCHANGED listenerConfigs
    BY <1>1 DEF DropNext, vars, registry
  <2>2. \A t, c : /\ Sending("UnregisterListener", t, c, None).reply = None
                  /\ Sending("UnregisterListener", t, c, None).op # "RegisterListener"
                  /\ Sending("StopVsomeipApp", t, c, None).reply = None
                  /\ Sending("StopVsomeipApp", t, c, None).op # "RegisterListener"
    BY DEF Sending
  <2>3. PICK r : call' = [call EXCEPT ![k] = r] /\ r.reply = None /\ r.op # "RegisterListener"
    BY <1>1, <2>2 DEF DropNext
  <2>4. Moves(k) /\ Shrinks
    BY <2>1, <2>3, QuietStep DEF Shrinks
  <2>5. QED
    BY <2>3, <2>4, PlainCallOwnPart
<1>2. CASE ReleaseHandler(k)
  <2>1. /\ call[k].pc = "release" /\ UNCHANGED <<queue, handlers>>
        /\ call[k].t \in Transports /\ call[k].config \in Configs
    BY <1>2 DEF ReleaseHandler, PointInv, PointCallInv, Purposeful
  <2>2. Shrinks
    BY <1>2, <2>1, UnregisterEffect DEF ReleaseHandler, PointInv
  <2>3. "RegisterListener" # None
    BY EngineAssumption DEF Ops
  <2>4. /\ Returned.reply = None /\ Returned.op # "RegisterListener"
        /\ \A t : Dropping(t).reply = None /\ Dropping(t).op # "RegisterListener"
    BY <2>3 DEF Returned, Dropping
  <2>5. PICK r : call' = [call EXCEPT ![k] = r] /\ r.reply = None /\ r.op # "RegisterListener"
    BY <1>2, <2>4 DEF ReleaseHandler
  <2>6. Moves(k)
    BY <2>1, <2>5, QuietStep
  <2>7. QED
    BY <2>2, <2>5, <2>6, PlainCallOwnPart
<1>3. CASE AwaitReply(k)
  <2>1. /\ call[k].pc = "await" /\ call[k].reply # None /\ Finish(k, call[k].reply)
        /\ UNCHANGED <<queue, handlers>>
    BY <1>3 DEF AwaitReply
  <2>2. PICK r : call' = [call EXCEPT ![k] = r] /\ r.reply = None /\ r.op # "RegisterListener"
    BY <2>1, FinishPlain
  <2>3. Moves(k) /\ Shrinks
    BY <2>1, <2>2, QuietStep, FinishPlain
  <2>4. QED
    BY <2>2, <2>3, PlainCallOwnPart
<1>4. CASE AwaitTimeout(k)
  <2>1. /\ call[k].pc = "await" /\ Finish(k, "DEADLINE_EXCEEDED") /\ GivesUp(k)
        /\ UNCHANGED handlers
    BY <1>4 DEF AwaitTimeout, GivesUp
  <2>2. PICK r : call' = [call EXCEPT ![k] = r] /\ r.reply = None /\ r.op # "RegisterListener"
    BY <2>1, FinishPlain
  <2>3. Shrinks /\ \A j \in Callers : j # k => call'[j] = call[j] /\ job'[j] = job[j]
    BY <2>1, <2>2, FinishPlain, OneCallReplaced
  <2>4. Moves(k)
    BY <2>1, <2>3, TimeoutMoves
  <2>5. QED
    BY <2>2, <2>3, <2>4, PlainCallOwnPart
<1>5. QED
  BY <1>1, <1>2, <1>3, <1>4 DEF CallStep

\* Calls and jobs at the points where they begin and end.
LEMMA JobFields ==
  /\ Returned.op = None /\ Returned.reply = None /\ Returned.pc = "idle"
  /\ \A t : /\ Busy(t).pc = "job" /\ Busy(t).op = None /\ Busy(t).reply = None
            /\ Busy(t).t = t
  /\ NoJob.op = None
  /\ \A op, todo : /\ JobOf(op, todo).op = op /\ JobOf(op, todo).todo = todo
                   /\ JobOf(op, todo).owed = {}
  /\ \A op, t, c, id :
        /\ Sending(op, t, c, id).pc = "send" /\ Sending(op, t, c, id).op = op
        /\ Sending(op, t, c, id).t = t /\ Sending(op, t, c, id).config = c
        /\ Sending(op, t, c, id).id = id /\ Sending(op, t, c, id).reply = None
  BY DEF Returned, Busy, NoJob, JobOf, Sending

\* The names of the jobs and their commands are not None.
LEMMA NotNone ==
  /\ "register" # None /\ "unregister" # None /\ "send" # None
  /\ "RegisterListener" # None /\ "UnregisterListener" # None /\ "Send" # None /\ "Ok" # None
  BY PointAssumption, EngineAssumption DEF JobKinds, Ops, Results

\* An ordinary call registers or unregisters what is no service of the streamer.
LEMMA OrdinaryCallOwnPart ==
  ASSUME PointInv, ChannelInv, TakeBackInv, NEW k \in Callers, NEW t \in Transports,
         NEW c \in ConfigsFor[k], RegisterCall(k, t, c) \/ UnregisterCall(k, t, c),
         UNCHANGED <<p2p, job, history>>
  PROVE  OwnPart(k)
<1>1. call[k].pc = "idle" /\ UNCHANGED <<queue, handlers>> /\ c \in Configs /\ c \in Ordinary
  BY OrdinaryCall DEF Ordinary
<1>2. Own(k) /\ job[k].op = None
  BY <1>1 DEF TakeBackInv, Own
<1>3. StatusInv' /\ StatusMoves(k) /\ OnlyFinished
  BY SameStatus
<1>4. GrantsOnly(k)
  <2>1. CASE UNCHANGED vars
    BY <2>1 DEF vars, registry, GrantsOnly
  <2>2. CASE Register(t, c)
    BY <1>1, <2>2, RegisterEffect DEF PointInv, GrantsOnly
  <2>3. QED
    BY <2>1, <2>2, OrdinaryCall
<1>5. Moves(k) /\ Own(k)'
  <2>1. CASE UNCHANGED call
    BY <1>1, <1>2, <2>1, QuietMoves DEF Own
  <2>2. ASSUME NEW op \in {"RegisterListener", "UnregisterListener"}, NEW id,
               call' = [call EXCEPT ![k] = Sending(op, t, c, id)]
        PROVE  Moves(k) /\ Own(k)'
    <3>1. PICK r : r = Sending(op, t, c, id)
      OBVIOUS
    <3>2. Moves(k) /\ call'[k] = r
      BY <1>1, <2>2, <3>1, QuietStep
    <3>3. r.pc = "send" /\ r.reply = None /\ r.config = c
      BY <3>1, JobFields
    <3>4. QED
      BY <1>1, <1>2, <3>2, <3>3, NotNone DEF Own
  <2>3. QED
    BY <2>1, <2>2, OrdinaryCall
<1>6. Progress(k)' /\ RegistersOnly(k)
  BY <1>2, NotNone DEF Progress, RegistersOnly
<1>7. QED
  BY <1>3, <1>4, <1>5, <1>6 DEF OwnPart

\* A registration begins where none is stored, an unregistration owes only what
\* nobody registers.
LEMMA JobBeginOwnPart ==
  ASSUME PointInv, ChannelInv, TakeBackInv, NEW k \in Callers, NEW t \in Transports,
         RegisterP2P(k, t) \/ UnregisterP2P(k, t)
  PROVE  OwnPart(k)
<1>1. /\ call[k].pc = "idle" /\ UNCHANGED <<queue, handlers>> /\ UNCHANGED listenerConfigs
      /\ call' = [call EXCEPT ![k] = Busy(t)] /\ Services[t] # None /\ UNCHANGED takenBack
  BY DEF RegisterP2P, UnregisterP2P, queueAndVsomeip, vars, registry
<1>2. PICK b \in Jobs :
        /\ job' = [job EXCEPT ![k] = b]
        /\ b.todo = Services[t]
        /\ \/ RegisterP2P(k, t) /\ b.op = "register" /\ b.owed = {}
           \/ UnregisterP2P(k, t) /\ b.op = "unregister" /\ b.owed = Owed(t)
  BY JobBegins
<1>3. Moves(k) /\ call'[k] = Busy(t)
  BY <1>1, <1>2, QuietStep
<1>4. job'[k] = b
  BY <1>2 DEF PointInv, JobInv
<1>5. /\ call'[k].pc = "job" /\ call'[k].t = t /\ call'[k].reply = None /\ call'[k].op = None
  BY <1>3, JobFields
<1>6. StatusInv /\ p2p \in [Transports -> BOOLEAN] /\ OnlyFinished
  BY <1>1 DEF TakeBackInv, PointInv, JobInv, DoneInv, OnlyFinished
<1>7. GrantsOnly(k)
  BY <1>1 DEF GrantsOnly
<1>8. CASE RegisterP2P(k, t) /\ b.op = "register"
  <2>1. /\ ~p2p[t] /\ p2p' = [p2p EXCEPT ![t] = TRUE]
        /\ status' = [status EXCEPT ![t] = "registering"]
    BY <1>8 DEF RegisterP2P
  <2>2. status[t] = "none"
    BY <1>6, <2>1 DEF StatusInv
  <2>3. StatusInv' /\ status'[t] = "registering"
    BY <1>1, <1>6, <2>1 DEF StatusInv, Outcomes
  <2>4. StatusMoves(k)
    BY <1>6, <2>1, <2>2 DEF StatusMoves, StatusInv
  <2>5. Own(k)' /\ Progress(k)'
    BY <1>4, <1>5, <1>8, <2>3, NotNone DEF Own, Progress
  <2>6. RegistersOnly(k)
    BY <1>5, <2>1 DEF RegistersOnly
  <2>7. QED
    BY <1>3, <1>6, <1>7, <2>3, <2>4, <2>5, <2>6 DEF OwnPart
<1>9. CASE UnregisterP2P(k, t) /\ b.op = "unregister" /\ b.owed = Owed(t)
  <2>1. p2p[t] /\ UNCHANGED p2p /\ status' = [status EXCEPT ![t] = "unregistered"]
    BY <1>9 DEF UnregisterP2P
  <2>2. StatusInv' /\ status'[t] = "unregistered"
    BY <1>1, <1>6, <2>1 DEF StatusInv, Outcomes
  <2>3. StatusMoves(k)
    BY <1>6, <2>1 DEF StatusMoves, StatusInv
  <2>4. Owed(t) \subseteq Services[t]
    BY DEF Owed
  <2>5. Own(k)'
    BY <1>4, <1>5, <1>9, <2>2, <2>4, NotNone DEF Own
  <2>6. RegistersOnly(k)
    BY <1>4, <1>9 DEF RegistersOnly
  <2>7. ASSUME NEW s \in Owed(t) PROVE ~StillComes(t, ServiceKey(s))'
    <3>1. s \in AllServices /\ ~StillComes(t, ServiceKey(s))
      BY <1>1, <2>4 DEF Owed, ServiceKey, AllServices
    <3>2. ServiceKey(s) \in ServiceKeys
      BY <3>1 DEF ServiceKey, ServiceKeys
    <3>3. QED
      BY <1>3, <2>1, <2>6, <3>1, <3>2, MovesKeepUnsent
  <2>8. Progress(k)'
    <3> SUFFICES ASSUME NEW s \in Owed(t)
                 PROVE  /\ ~StillComes(call[k].t, ServiceKey(s))'
                        /\ s \in job'[k].todo
      BY <1>4, <1>9 DEF Progress
    <3>1. ~StillComes(t, ServiceKey(s))' /\ s \in job'[k].todo
      BY <1>2, <1>4, <2>4, <2>7
    <3>2. QED
      BY <1>5, <3>1 DEF StillComes, ServiceKey
  <2>9. QED
    BY <1>3, <1>6, <1>7, <2>2, <2>3, <2>5, <2>6, <2>8 DEF OwnPart
<1>10. QED
  BY <1>2, <1>8, <1>9

\* A job returns: its part is empty.
LEMMA ReturnOwnPart ==
  ASSUME PointInv, NEW k \in Callers, Return(k), Moves(k), StatusInv', StatusMoves(k),
         GrantsOnly(k), OnlyFinished
  PROVE  OwnPart(k)
<1>1. call'[k] = Returned /\ job'[k] = NoJob
  BY DEF Return, PointInv, PointCallInv, JobInv
<1>2. Own(k)' /\ Progress(k)'
  BY <1>1, JobFields, NotNone DEF Own, Progress
<1>3. RegistersOnly(k)
  BY <1>1, JobFields, NotNone DEF RegistersOnly
<1>4. QED
  BY <1>2, <1>3 DEF OwnPart

\* A registration ends, and says so unless it was unregistered.
LEMMA RegistrationEnded ==
  ASSUME PointInv, TakeBackInv, NEW k \in Callers, job[k].op = "register",
         NEW t \in Transports, t = call[k].t, NEW outcome \in {"registered", "failed"},
         RegistrationEnds(t, outcome), Return(k), UNCHANGED <<p2p, takenBack>>
  PROVE  StatusInv' /\ StatusMoves(k) /\ OnlyFinished
<1>1. StatusInv /\ status[t] \in {"registering", "unregistered"} /\ OnlyFinished
  BY DEF TakeBackInv, Own, DoneInv, OnlyFinished
<1>2. job'[k].op # "register"
  BY JobFields, NotNone DEF Return, PointInv, JobInv
<1>3. /\ status' \in [Transports -> Outcomes]
      /\ \A u \in Transports : u # t => status'[u] = status[u]
      /\ status'[t] = IF status[t] = "registering" THEN outcome ELSE status[t]
  BY <1>1 DEF RegistrationEnds, StatusInv, Outcomes
<1>4. StatusInv'
  BY <1>1, <1>3 DEF StatusInv
<1>5. StatusMoves(k)
  BY <1>1, <1>2, <1>3 DEF StatusMoves
<1>6. QED
  BY <1>1, <1>4, <1>5

\* The loops over the services end: registering has succeeded, unregistering has
\* taken back what it owed.
LEMMA JobEndOwnPart ==
  ASSUME PointInv, ChannelInv, TakeBackInv, NEW k \in Callers,
         RegisterP2PEnds(k) \/ UnregisterP2PEnds(k)
  PROVE  OwnPart(k)
<1>1. /\ call[k].pc = "job" /\ UNCHANGED <<queue, handlers>> /\ UNCHANGED listenerConfigs
      /\ Return(k) /\ job[k].todo = {} /\ UNCHANGED p2p
  BY DEF RegisterP2PEnds, UnregisterP2PEnds, queueAndVsomeip, vars, registry
<1>2. call[k].t \in Transports /\ Own(k) /\ Progress(k) /\ StatusInv
  BY <1>1, JobKnows DEF TakeBackInv
<1>3. PICK t \in Transports : t = call[k].t
  BY <1>2
<1>4. Moves(k)
  <2>1. call' = [call EXCEPT ![k] = Returned] /\ job' = [job EXCEPT ![k] = NoJob]
    BY <1>1 DEF Return
  <2>2. QED
    BY <1>1, <2>1, QuietStep
<1>5. GrantsOnly(k)
  BY <1>1 DEF GrantsOnly
<1>6. CASE RegisterP2PEnds(k)
  <2>1. job[k].op = "register" /\ RegistrationEnds(t, "registered") /\ UNCHANGED takenBack
    BY <1>3, <1>6 DEF RegisterP2PEnds
  <2>2. StatusInv' /\ StatusMoves(k) /\ OnlyFinished
    BY <1>1, <1>3, <2>1, RegistrationEnded
  <2>3. QED
    BY <1>1, <1>4, <1>5, <2>2, ReturnOwnPart
<1>7. CASE UnregisterP2PEnds(k)
  <2>1. /\ job[k].op = "unregister" /\ UNCHANGED status
        /\ takenBack' = [takenBack EXCEPT ![t] = @ \cup job[k].owed]
    BY <1>3, <1>7 DEF UnregisterP2PEnds
  <2>2. job[k].owed \subseteq AllServices
    BY DEF PointInv, JobInv, Jobs
  <2>3. StatusInv' /\ StatusMoves(k)
    BY <1>1, <1>2, <2>1, <2>2 DEF StatusInv, StatusMoves
  <2>4. ASSUME NEW s \in job[k].owed PROVE Finished(t, s)
    <3>1. Undone(k, ServiceConfig(s)) /\ ~StillComes(t, ServiceKey(s))
      BY <1>1, <1>2, <1>3, <2>1, <2>4 DEF Progress
    <3>2. call[k].reply # "Ok" /\ status[t] = "unregistered" /\ s \in Services[t]
      BY <1>1, <1>2, <1>3, <2>1, <2>4, NotNone DEF Own
    <3>3. TakenBack(t, ServiceConfig(s))
      BY <1>1, <1>3, <3>1, <3>2 DEF Undone
    <3>4. QED
      BY <3>1, <3>2, <3>3 DEF Finished
  <2>5. OnlyFinished
    <3> SUFFICES ASSUME NEW u \in Transports, NEW s \in takenBack'[u] PROVE Finished(u, s)
      BY DEF OnlyFinished
    <3>1. s \in takenBack[u] \/ (u = t /\ s \in job[k].owed)
      BY <1>2, <2>1 DEF StatusInv
    <3>2. QED
      BY <2>4, <3>1 DEF TakeBackInv, DoneInv
  <2>6. QED
    BY <1>1, <1>4, <1>5, <2>3, <2>5, ReturnOwnPart
<1>8. QED
  BY <1>6, <1>7

\* The next service of a registration takes a handler, or ends it.
LEMMA RegisterNextServiceOwnPart ==
  ASSUME PointInv, ChannelInv, TakeBackInv, NEW k \in Callers, RegisterNextService(k)
  PROVE  OwnPart(k)
<1>1. /\ call[k].pc = "job" /\ job[k].op = "register" /\ UNCHANGED <<queue, handlers>>
      /\ UNCHANGED <<p2p, takenBack>>
  BY DEF RegisterNextService, queueAndVsomeip
<1>2. /\ call[k].t \in Transports /\ Own(k) /\ StatusInv
      /\ \A s \in job[k].todo : ServiceConfig(s) \in Configs
  BY <1>1, JobKnows DEF TakeBackInv
<1>3. PICK t \in Transports : t = call[k].t
  BY <1>2
<1>4. PICK s \in job[k].todo :
        /\ Register(t, ServiceConfig(s))
        /\ \/ \E id \in Granted(t) :
                 /\ call' = [call EXCEPT ![k] = Sending("RegisterListener", t, ServiceConfig(s), id)]
                 /\ job' = [job EXCEPT ![k].todo = @ \ {s}]
                 /\ UNCHANGED status
           \/ Return(k) /\ RegistrationEnds(t, "failed")
  BY <1>3 DEF RegisterNextService, Granted
<1>5. status[t] \in {"registering", "unregistered"}
  BY <1>1, <1>2, <1>3 DEF Own
<1>6. GrantsOnly(k)
  <2>1. ServiceConfig(s) \in Configs
    BY <1>2
  <2>2. \A u \in Transports, id \in Ids :
           \/ listenerConfigs'[u][id] = listenerConfigs[u][id]
           \/ u = t /\ listenerConfigs'[u][id] = ServiceConfig(s)
    BY <1>4, <2>1, RegisterEffect DEF PointInv
  <2>3. StillComes(t, RegisterKey(ServiceConfig(s)))
    BY <1>1, <1>3 DEF StillComes, YetToSend
  <2>4. QED
    BY <2>2, <2>3 DEF GrantsOnly
<1>7. CASE Return(k) /\ RegistrationEnds(t, "failed")
  <2>1. StatusInv' /\ StatusMoves(k) /\ OnlyFinished
    BY <1>1, <1>3, <1>7, RegistrationEnded
  <2>2. call' = [call EXCEPT ![k] = Returned] /\ job' = [job EXCEPT ![k] = NoJob]
    BY <1>7 DEF Return
  <2>3. Moves(k)
    BY <1>1, <2>2, QuietStep
  <2>4. QED
    BY <1>6, <1>7, <2>1, <2>3, ReturnOwnPart
<1>8. ASSUME NEW id \in Granted(t),
             call' = [call EXCEPT ![k] = Sending("RegisterListener", t, ServiceConfig(s), id)],
             job' = [job EXCEPT ![k].todo = @ \ {s}], UNCHANGED status
      PROVE  OwnPart(k)
  <2> DEFINE b == [job[k] EXCEPT !.todo = job[k].todo \ {s}]
  <2>1. job' = [job EXCEPT ![k] = b] /\ b.op = job[k].op /\ b.todo = job[k].todo \ {s}
    BY <1>8 DEF PointInv, JobInv, Jobs
  <2> HIDE DEF b
  <2>2. Moves(k) /\ call'[k] = Sending("RegisterListener", t, ServiceConfig(s), id)
    <3>1. PICK r : r = Sending("RegisterListener", t, ServiceConfig(s), id)
      OBVIOUS
    <3>2. call' = [call EXCEPT ![k] = r] /\ \E e : job' = [job EXCEPT ![k] = e]
      BY <1>8, <2>1, <3>1
    <3>3. QED
      BY <1>1, <3>1, <3>2, QuietStep
  <2>3. job'[k].op = "register" /\ job'[k].todo = job[k].todo \ {s} /\ call'[k].t = t
    BY <1>1, <2>1, <2>2, JobFields DEF PointInv, JobInv
  <2>4. StatusInv' /\ StatusMoves(k) /\ OnlyFinished
    BY <1>1, <1>8, SameStatus
  <2>5. call'[k].pc = "send" /\ call'[k].reply = None /\ call'[k].config = ServiceConfig(s)
    BY <2>2, JobFields
  <2>6. Own(k)'
    BY <1>5, <1>8, <2>3, <2>5 DEF Own
  <2>7. Progress(k)'
    BY <2>3 DEF Progress
  <2>8. RegistersOnly(k)
    <3>1. ASSUME NEW key, YetToSend(k, key)' PROVE YetToSend(k, key)
      BY <2>3, <2>5, <3>1 DEF YetToSend
    <3>2. QED
      BY <1>1, <1>3, <2>3, <3>1 DEF RegistersOnly
  <2>9. QED
    BY <1>6, <2>2, <2>4, <2>6, <2>7, <2>8 DEF OwnPart
<1>9. QED
  BY <1>4, <1>7, <1>8

\* What an unregistration has done for a service it owes stays done.
LEMMA OwedStays ==
  ASSUME OwnServices, TakeBackInv, NEW k \in Callers, Moves(k), GrantsOnly(k), RegistersOnly(k),
         job[k].op = "unregister", NEW t \in Transports, t = call[k].t, NEW s \in job[k].owed
  PROVE  /\ ~StillComes(t, ServiceKey(s))'
         /\ Removed(t, ServiceConfig(s)) => Removed(t, ServiceConfig(s))'
         /\ TakenBack(t, ServiceConfig(s)) => TakenBack(t, ServiceConfig(s))'
<1>1. Services[t] # None /\ s \in Services[t] /\ p2p[t] /\ ~StillComes(t, ServiceKey(s))
  BY DEF TakeBackInv, Own, Progress, StatusInv
<1>2. ServiceKey(s) \in ServiceKeys
  BY <1>1, ServiceAddress DEF ServiceKey
<1>3. ~StillComes(t, ServiceKey(s))'
  BY <1>1, <1>2, MovesKeepUnsent
<1>4. QED
  BY <1>1, <1>3, MovesKeepTakenBack DEF TakenBack

\* The part of an unregistration that goes on.
LEMMA UnregistrationGoesOn ==
  ASSUME OwnServices, TakeBackInv, NEW k \in Callers, Moves(k), GrantsOnly(k), RegistersOnly(k),
         job[k].op = "unregister", NEW t \in Transports, t = call[k].t, call'[k].t = t,
         job'[k].owed \subseteq job[k].owed,
         \A s \in job'[k].owed \ job'[k].todo :
            \/ TakenBack(t, ServiceConfig(s)) \/ TakenBack(t, ServiceConfig(s))'
            \/ Undone(k, ServiceConfig(s))'
  PROVE  Progress(k)'
<1> SUFFICES ASSUME NEW s \in job'[k].owed
             PROVE  /\ ~StillComes(call[k].t, ServiceKey(s))'
                    /\ s \notin job'[k].todo => Undone(k, ServiceConfig(s))'
  BY DEF Progress
<1>1. /\ ~StillComes(t, ServiceKey(s))'
      /\ TakenBack(t, ServiceConfig(s)) => TakenBack(t, ServiceConfig(s))'
  BY OwedStays
<1>2. ~StillComes(call[k].t, ServiceKey(s))'
  BY <1>1 DEF StillComes, ServiceKey
<1>3. TakenBack(t, ServiceConfig(s))' => Undone(k, ServiceConfig(s))'
  BY DEF Undone, TakenBack, Removed, Gone
<1>4. QED
  BY <1>1, <1>2, <1>3

\* The next service of an unregistration.
LEMMA UnregisterNextServiceOwnPart ==
  ASSUME OwnServices, PointInv, ChannelInv, TakeBackInv, NEW k \in Callers,
         UnregisterNextService(k)
  PROVE  OwnPart(k)
<1>1. /\ call[k].pc = "job" /\ job[k].op = "unregister" /\ UNCHANGED <<queue, handlers>>
      /\ UNCHANGED <<p2p, history>> /\ UNCHANGED listenerConfigs
  BY DEF UnregisterNextService, queueAndVsomeip, vars, registry
<1>2. call[k].t \in Transports /\ Own(k) /\ Progress(k) /\ StatusInv
  BY <1>1, JobKnows DEF TakeBackInv
<1>3. PICK t \in Transports : t = call[k].t
  BY <1>2
<1>4. PICK s \in job[k].todo :
        /\ call' = [call EXCEPT ![k] = Sending("UnregisterListener", t, ServiceConfig(s), None)]
        /\ job' = [job EXCEPT ![k].todo = @ \ {s}]
  BY <1>3 DEF UnregisterNextService
<1> DEFINE b == [job[k] EXCEPT !.todo = job[k].todo \ {s}]
<1>5. /\ job' = [job EXCEPT ![k] = b] /\ b.op = job[k].op /\ b.owed = job[k].owed
      /\ b.todo = job[k].todo \ {s}
  BY <1>4 DEF PointInv, JobInv, Jobs
<1> HIDE DEF b
<1>6. /\ Moves(k) /\ call'[k] = Sending("UnregisterListener", t, ServiceConfig(s), None)
      /\ job'[k] = b
  BY <1>1, <1>4, <1>5, QuietStep DEF PointInv, JobInv
<1>7. StatusInv' /\ StatusMoves(k) /\ OnlyFinished /\ GrantsOnly(k)
  BY <1>1, SameStatus DEF GrantsOnly
<1>8. /\ call'[k].pc = "send" /\ call'[k].reply = None /\ call'[k].t = t
      /\ call'[k].op = "UnregisterListener" /\ call'[k].config = ServiceConfig(s)
      /\ job'[k].op = "unregister" /\ job'[k].owed = job[k].owed
      /\ job'[k].todo = job[k].todo \ {s}
  BY <1>1, <1>5, <1>6, JobFields
<1>9. Own(k)' /\ RegistersOnly(k)
  BY <1>1, <1>2, <1>3, <1>8 DEF Own, RegistersOnly
<1>10. Progress(k)'
  <2> SUFFICES ASSUME NEW v \in job[k].owed \ job'[k].todo
               PROVE  TakenBack(t, ServiceConfig(v)) \/ Undone(k, ServiceConfig(v))'
    BY <1>1, <1>3, <1>6, <1>7, <1>8, <1>9, UnregistrationGoesOn
  <2>1. CASE v = s
    BY <1>8, <2>1, NotNone DEF Undone
  <2>2. CASE v # s
    <3>1. v \notin job[k].todo
      BY <1>8, <2>2
    <3>2. Undone(k, ServiceConfig(v))
      BY <1>1, <1>2, <1>3, <3>1 DEF Progress
    <3>3. call[k].reply # "Ok"
      BY <1>1, <1>2, NotNone DEF Own
    <3>4. QED
      BY <1>1, <1>3, <3>2, <3>3 DEF Undone
  <2>3. QED
    BY <2>1, <2>2
<1>11. QED
  BY <1>6, <1>7, <1>9, <1>10 DEF OwnPart

\* The end of an iteration: the registry forgets the service too.
LEMMA ReleaseServiceOwnPart ==
  ASSUME OwnServices, PointInv, ChannelInv, TakeBackInv, NEW k \in Callers, ReleaseService(k)
  PROVE  OwnPart(k)
<1>1. /\ call[k].pc = "release" /\ job[k].op = "unregister" /\ UNCHANGED <<queue, handlers>>
      /\ UNCHANGED <<p2p, job, history>>
  BY DEF ReleaseService, queueAndVsomeip
<1>2. /\ call[k].t \in Transports /\ call[k].config \in Configs
      /\ Own(k) /\ Progress(k) /\ StatusInv
  BY <1>1 DEF TakeBackInv, PointInv, PointCallInv, Purposeful
<1>3. PICK t \in Transports : t = call[k].t
  BY <1>2
<1>4. PICK c \in Configs : c = call[k].config
  BY <1>2
<1>5. Unregister(t, c) /\ call' = [call EXCEPT ![k] = Busy(t)]
  BY <1>3, <1>4 DEF ReleaseService
<1>6. Shrinks /\ Gone(t, c)'
  BY <1>5, UnregisterEffect DEF PointInv
<1>7. Moves(k) /\ call'[k] = Busy(t)
  BY <1>1, <1>5, QuietStep
<1>8. StatusInv' /\ StatusMoves(k) /\ OnlyFinished /\ GrantsOnly(k)
  BY <1>1, <1>6, SameStatus DEF GrantsOnly, Shrinks
<1>9. /\ call'[k].pc = "job" /\ call'[k].reply = None /\ call'[k].t = t /\ call'[k].op = None
      /\ job'[k] = job[k]
  BY <1>1, <1>7, JobFields
<1>10. Own(k)' /\ RegistersOnly(k)
  BY <1>1, <1>2, <1>3, <1>9, NotNone DEF Own, RegistersOnly
<1>11. Progress(k)'
  <2> SUFFICES ASSUME NEW s \in job[k].owed \ job[k].todo
               PROVE  TakenBack(t, ServiceConfig(s)) \/ TakenBack(t, ServiceConfig(s))'
    BY <1>1, <1>3, <1>7, <1>8, <1>9, <1>10, UnregistrationGoesOn
  <2>1. Undone(k, ServiceConfig(s))
    BY <1>1, <1>2, <1>3 DEF Progress
  <2>2. CASE ServiceConfig(s) = c /\ Removed(t, ServiceConfig(s))
    <3>1. Removed(t, ServiceConfig(s))'
      BY <1>1, <1>3, <1>7, <1>8, <1>10, <2>2, OwedStays
    <3>2. Gone(t, ServiceConfig(s))'
      BY <1>6, <2>2
    <3>3. QED
      BY <3>1, <3>2 DEF TakenBack
  <2>3. QED
    BY <1>1, <1>3, <1>4, <2>1, <2>2 DEF Undone
<1>12. QED
  BY <1>7, <1>8, <1>10, <1>11 DEF OwnPart

\* send registers responses only.
LEMMA SendOwnPart ==
  ASSUME PointInv, ChannelInv, TakeBackInv, NEW k \in Callers, NEW t \in Transports,
         NEW m \in MessagesFor[k], Send(k, t, m)
  PROVE  OwnPart(k)
<1>1. call[k].pc = "idle" /\ UNCHANGED <<queue, handlers>> /\ UNCHANGED <<p2p, history>>
  BY DEF Send, queueAndVsomeip
<1>2. Own(k) /\ job[k].op = None
  BY <1>1 DEF TakeBackInv, Own
<1>3. StatusInv' /\ StatusMoves(k) /\ OnlyFinished
  BY <1>1, SameStatus
<1>4. m \in Outgoing /\ (TypeOf(m) = "Request" => ResponseConfig(m) \in Configs)
  BY JobConfigs
<1>5. TypeOf(m) = "Request" => ResponseConfig(m) \in Responses
  BY <1>4 DEF Responses
<1>6. GrantsOnly(k)
  <2>1. CASE UNCHANGED vars
    BY <2>1 DEF vars, registry, GrantsOnly
  <2>2. CASE Register(t, ResponseConfig(m)) /\ TypeOf(m) = "Request"
    BY <1>4, <1>5, <2>2, RegisterEffect DEF PointInv, GrantsOnly
  <2>3. QED
    BY <2>1, <2>2 DEF Send
<1>7. ASSUME NEW r, NEW b, call' = [call EXCEPT ![k] = r], job' = [job EXCEPT ![k] = b],
             b.op = "send", r.pc = "send", r.reply = None,
             r.op = "RegisterListener" => r.config \in Responses
      PROVE  OwnPart(k)
  <2>1. Moves(k) /\ call'[k] = r /\ job'[k] = b
    BY <1>1, <1>7, QuietStep DEF PointInv, JobInv
  <2>2. Own(k)' /\ Progress(k)' /\ RegistersOnly(k)
    BY <1>7, <2>1 DEF Own, Progress, RegistersOnly
  <2>3. QED
    BY <1>3, <1>6, <2>1, <2>2 DEF OwnPart
<1>8. CASE SendCommand(k, t, m)
  <2> DEFINE b == [JobOf("send", {}) EXCEPT !.msg = m, !.p2p = p2p[t]]
  <2>1. b.op = "send"
    BY DEF JobOf, NoJob
  <2>2. job' = [job EXCEPT ![k] = b]
    BY <1>8 DEF SendCommand
  <2> HIDE DEF b
  <2>3. PICK r : r = Sending("Send", t, m, None)
    OBVIOUS
  <2>4. /\ call' = [call EXCEPT ![k] = r] /\ r.pc = "send" /\ r.reply = None
        /\ r.op # "RegisterListener"
    BY <1>8, <2>3, JobFields DEF SendCommand
  <2>5. QED
    BY <1>7, <2>1, <2>2, <2>4
<1>9. ASSUME NEW id \in Granted(t), TypeOf(m) = "Request",
             call' = [call EXCEPT ![k] = Sending("RegisterListener", t, ResponseConfig(m), id)],
             job' = [job EXCEPT ![k] = [JobOf("send", {}) EXCEPT !.msg = m, !.p2p = TRUE]]
      PROVE  OwnPart(k)
  <2> DEFINE b == [JobOf("send", {}) EXCEPT !.msg = m, !.p2p = TRUE]
  <2>1. b.op = "send"
    BY DEF JobOf, NoJob
  <2>2. job' = [job EXCEPT ![k] = b]
    BY <1>9
  <2> HIDE DEF b
  <2>3. PICK r : r = Sending("RegisterListener", t, ResponseConfig(m), id)
    OBVIOUS
  <2>4. /\ call' = [call EXCEPT ![k] = r] /\ r.pc = "send" /\ r.reply = None
        /\ r.config \in Responses
    BY <1>5, <1>9, <2>3, JobFields
  <2>5. QED
    BY <1>7, <2>1, <2>2, <2>4
<1>10. CASE UNCHANGED <<call, job>>
  <2>1. Moves(k)
    BY <1>1, <1>10, QuietMoves
  <2>2. Own(k)' /\ Progress(k)' /\ RegistersOnly(k)
    BY <1>1, <1>2, <1>10, NotNone DEF Own, Progress, RegistersOnly
  <2>3. QED
    BY <1>3, <1>6, <2>1, <2>2 DEF OwnPart
<1>11. QED
  BY <1>8, <1>9, <1>10 DEF Send

\* The message of a send follows.
LEMMA SendNextOwnPart ==
  ASSUME PointInv, ChannelInv, TakeBackInv, NEW k \in Callers, SendNext(k)
  PROVE  OwnPart(k)
<1>1. /\ call[k].pc = "job" /\ job[k].op = "send" /\ UNCHANGED <<queue, handlers>>
      /\ UNCHANGED <<p2p, job, history>> /\ UNCHANGED listenerConfigs
  BY DEF SendNext, queueAndVsomeip, vars, registry
<1>2. PICK r : r = Sending("Send", call[k].t, job[k].msg, None)
  OBVIOUS
<1>3. /\ call' = [call EXCEPT ![k] = r] /\ r.pc = "send" /\ r.reply = None
      /\ r.op # "RegisterListener"
  BY <1>2, JobFields DEF SendNext
<1>4. Moves(k) /\ call'[k] = r
  BY <1>1, <1>3, QuietStep
<1>5. StatusInv' /\ StatusMoves(k) /\ OnlyFinished /\ GrantsOnly(k)
  BY <1>1, SameStatus DEF GrantsOnly
<1>6. Own(k)' /\ Progress(k)' /\ RegistersOnly(k)
  BY <1>1, <1>3, <1>4 DEF Own, Progress, RegistersOnly
<1>7. QED
  BY <1>4, <1>5, <1>6 DEF OwnPart

\* What the result of a command changes is its caller's.
LEMMA JobResultReplaces ==
  ASSUME PointInv, NEW k \in Callers, NEW reply, JobResult(k, reply)
  PROVE  \A j \in Callers : j # k => call'[j] = call[j] /\ job'[j] = job[j]
  BY DEF JobResult, Return, PointInv, PointCallInv, JobInv

\* A command that failed is owed no more, or ends the registration; one that
\* succeeded removed the handler of its service.
LEMMA JobResultOwnPart ==
  ASSUME OwnServices, PointInv, ChannelInv, TakeBackInv, NEW k \in Callers, NEW reply,
         call[k].pc = "await", JobResult(k, reply), job[k].op # None, UNCHANGED <<p2p, takenBack>>,
         UNCHANGED listenerConfigs, Moves(k), reply = "Ok" => call[k].reply = "Ok"
  PROVE  OwnPart(k)
<1>1. Own(k) /\ Progress(k) /\ call[k].t \in Transports /\ GrantsOnly(k)
  BY JobTransport DEF TakeBackInv, GrantsOnly
<1>2. PICK t \in Transports : t = call[k].t
  BY <1>1
<1>3. call[k] \in PointCalls /\ job[k] \in Jobs
  BY DEF PointInv, PointCallInv, JobInv
<1>4. CASE /\ call[k].op = "RegisterListener" /\ call' = [call EXCEPT ![k] = Busy(t)]
           /\ UNCHANGED <<job, status>>
  <2>1. StatusInv' /\ StatusMoves(k) /\ OnlyFinished
    BY <1>4, SameStatus
  <2>2. job[k].op # "unregister"
    BY <1>1, <1>4 DEF Own
  <2>3. call'[k] = Busy(t) /\ job'[k] = job[k]
    BY <1>4, OneCallReplaced
  <2>4. /\ call'[k].pc = "job" /\ call'[k].reply = None /\ call'[k].t = t
        /\ call'[k].op = None
    BY <2>3, JobFields
  <2>5. Own(k)' /\ Progress(k)'
    BY <1>1, <1>2, <1>4, <2>2, <2>3, <2>4, NotNone DEF Own, Progress
  <2>6. RegistersOnly(k)
    BY <1>2, <2>3, <2>4, RegistersNoMore
  <2>7. QED
    BY <1>1, <2>1, <2>5, <2>6 DEF OwnPart
<1>5. CASE /\ call[k].op = "UnregisterListener" /\ call' = [call EXCEPT ![k] = Busy(t)]
           /\ job' = [job EXCEPT ![k].owed = {s \in @ : ServiceConfig(s) # call[k].config}]
           /\ UNCHANGED status
  <2>1. StatusInv' /\ StatusMoves(k) /\ OnlyFinished
    BY <1>5, SameStatus
  <2>2. /\ job'[k].op = job[k].op /\ job'[k].todo = job[k].todo
        /\ job'[k].owed = {s \in job[k].owed : ServiceConfig(s) # call[k].config}
    <3> DEFINE owed == {s \in job[k].owed : ServiceConfig(s) # call[k].config}
    <3>1. job' = [job EXCEPT ![k].owed = owed]
      BY <1>5
    <3> HIDE DEF owed
    <3>2. job'[k].op = job[k].op /\ job'[k].todo = job[k].todo /\ job'[k].owed = owed
      BY <1>3, <3>1 DEF PointInv, JobInv, Jobs
    <3>3. QED
      BY <3>2 DEF owed
  <2>3. call'[k] = Busy(t)
    BY <1>5, OneCallReplaced
  <2>4. /\ call'[k].pc = "job" /\ call'[k].reply = None /\ call'[k].t = t
        /\ call'[k].op = None
    BY <2>3, JobFields
  <2>5. RegistersOnly(k)
    BY <1>2, <2>2, <2>4, RegistersNoMore
  <2>6. Own(k)'
    BY <1>1, <1>2, <1>5, <2>2, <2>4, NotNone DEF Own
  <2>7. Progress(k)'
    <3>1. CASE job[k].op # "unregister"
      BY <2>2, <3>1 DEF Progress
    <3>2. CASE job[k].op = "unregister"
      <4>1. ASSUME NEW s \in job'[k].owed \ job'[k].todo PROVE TakenBack(t, ServiceConfig(s))
        <5>1. /\ s \in job[k].owed /\ s \notin job[k].todo
              /\ ServiceConfig(s) # call[k].config
          BY <2>2, <4>1
        <5>2. QED
          BY <1>1, <1>2, <3>2, <5>1 DEF Progress, Undone
      <4>2. job'[k].owed \subseteq job[k].owed
        BY <2>2
      <4>3. QED
        BY <1>1, <1>2, <2>4, <2>5, <3>2, <4>1, <4>2, UnregistrationGoesOn
    <3>3. QED
      BY <3>1, <3>2
  <2>8. QED
    BY <1>1, <2>1, <2>5, <2>6, <2>7 DEF OwnPart
<1>6. CASE /\ call[k].op = "UnregisterListener" /\ reply = "Ok"
           /\ call' = [call EXCEPT ![k].pc = "release", ![k].reply = None]
           /\ UNCHANGED <<job, status>>
  <2>1. StatusInv' /\ StatusMoves(k) /\ OnlyFinished
    BY <1>6, SameStatus
  <2>2. /\ call'[k].pc = "release" /\ call'[k].reply = None /\ call'[k].t = t
        /\ call'[k].op = "UnregisterListener" /\ call'[k].config = call[k].config
        /\ job'[k] = job[k]
    BY <1>2, <1>3, <1>6 DEF PointInv, PointCallInv, PointCalls
  <2>3. Own(k)'
    BY <1>1, <1>2, <1>6, <2>2 DEF Own
  <2>4. RegistersOnly(k)
    BY <1>2, <2>2, RegistersNoMore
  <2>5. Progress(k)'
    <3>1. CASE job[k].op # "unregister"
      BY <2>2, <3>1 DEF Progress
    <3>2. CASE job[k].op = "unregister"
      <4>1. ASSUME NEW s \in job[k].owed \ job[k].todo
            PROVE  TakenBack(t, ServiceConfig(s)) \/ Undone(k, ServiceConfig(s))'
        <5>1. Undone(k, ServiceConfig(s)) /\ call[k].reply = "Ok"
          BY <1>1, <1>6, <3>2, <4>1 DEF Progress
        <5>2. CASE call[k].config = ServiceConfig(s) /\ Removed(t, ServiceConfig(s))
          <6>1. Removed(t, ServiceConfig(s))'
            BY <1>1, <1>2, <2>4, <3>2, <4>1, <5>2, OwedStays
          <6>2. QED
            BY <2>2, <5>2, <6>1 DEF Undone, Removed
        <5>3. QED
          BY <1>2, <5>1, <5>2 DEF Undone
      <4>2. QED
        BY <1>1, <1>2, <2>2, <2>4, <3>2, <4>1, UnregistrationGoesOn
    <3>3. QED
      BY <3>1, <3>2
  <2>6. QED
    BY <1>1, <2>1, <2>3, <2>4, <2>5 DEF OwnPart
<1>7. CASE Return(k) /\ job[k].op = "register" /\ RegistrationEnds(t, "failed")
  <2>1. StatusInv' /\ StatusMoves(k) /\ OnlyFinished
    BY <1>2, <1>7, RegistrationEnded
  <2>2. QED
    BY <1>1, <1>7, <2>1, ReturnOwnPart
<1>8. CASE Return(k) /\ UNCHANGED status
  BY <1>1, <1>8, SameStatus, ReturnOwnPart
<1>9. QED
  BY <1>2, <1>4, <1>5, <1>6, <1>7, <1>8 DEF JobResult

\* The result of a command of a job, or its timeout.
LEMMA JobReplyOwnPart ==
  ASSUME OwnServices, PointInv, ChannelInv, TakeBackInv, NEW k \in Callers,
         JobReply(k) \/ JobTimeout(k)
  PROVE  OwnPart(k)
<1>1. /\ call[k].pc = "await" /\ job[k].op # None /\ UNCHANGED <<p2p, takenBack>>
      /\ UNCHANGED listenerConfigs /\ UNCHANGED handlers
  BY DEF JobReply, JobTimeout, vars, registry, queueAndVsomeip
<1>2. CASE JobReply(k)
  <2>1. JobResult(k, call[k].reply) /\ call[k].reply # None /\ UNCHANGED queue
    BY <1>2 DEF JobReply, queueAndVsomeip
  <2>2. Moves(k)
    BY <1>1, <2>1, JobResultReplaces, QuietMoves
  <2>3. QED
    BY <1>1, <2>1, <2>2, JobResultOwnPart
<1>3. CASE JobTimeout(k)
  <2>1. JobResult(k, "DEADLINE_EXCEEDED") /\ GivesUp(k)
    BY <1>3 DEF JobTimeout, GivesUp
  <2>2. Moves(k)
    BY <1>1, <2>1, JobResultReplaces, TimeoutMoves
  <2>3. QED
    BY <1>1, <2>1, <2>2, JobResultOwnPart
<1>4. QED
  BY <1>2, <1>3

\* Whatever a caller does.
LEMMA CallerKeepsTakeBack ==
  ASSUME OwnServices, PointInv, ChannelInv, TakeBackInv, NEW k \in Callers,
         \/ \E t \in Transports :
               \/ PlainCall(k, t) /\ UNCHANGED <<p2p, job, history>>
               \/ RegisterP2P(k, t) \/ UnregisterP2P(k, t)
               \/ \E m \in MessagesFor[k] : Send(k, t, m)
         \/ JobStep(k) \/ Timeout(k)
  PROVE  ChannelInv' /\ TakeBackInv'
<1>1. CASE \E t \in Transports :
              \/ PlainCall(k, t) /\ UNCHANGED <<p2p, job, history>>
              \/ RegisterP2P(k, t) \/ UnregisterP2P(k, t)
              \/ \E m \in MessagesFor[k] : Send(k, t, m)
  <2>1. OwnPart(k)
    BY <1>1, LifeCallsOwnPart, OrdinaryCallOwnPart, JobBeginOwnPart, SendOwnPart DEF PlainCall
  <2>2. QED
    BY <2>1, MovesKeepChannelInv, MovesKeepTakeBack DEF OwnPart, OnlyFinished
<1>2. CASE JobStep(k) \/ Timeout(k)
  <2>1. OwnPart(k)
    BY <1>2, RegisterNextServiceOwnPart, JobEndOwnPart, UnregisterNextServiceOwnPart,
       ReleaseServiceOwnPart, SendNextOwnPart, JobReplyOwnPart, PlainStepOwnPart
    DEF JobStep, Timeout
  <2>2. QED
    BY <2>1, MovesKeepChannelInv, MovesKeepTakeBack DEF OwnPart, OnlyFinished
<1>3. QED
  BY <1>1, <1>2

\* Every step keeps the two invariants.
LEMMA TakeBackInductive ==
  ASSUME OwnServices, PointInv, ChannelInv, TakeBackInv, [PointNext]_pvars
  PROVE  ChannelInv' /\ TakeBackInv'
<1>1. ASSUME NEW k \in Callers, Enqueue(k), UNCHANGED <<p2p, job, history>>
      PROVE  ChannelInv' /\ TakeBackInv'
  <2>1. RepliesAwaited
    BY DEF RepliesAwaited, TakeBackInv, Own
  <2>2. QED
    BY <1>1, <2>1, SentKeepsChannelInv, SendingKeepsTakeBack
<1>2. ASSUME NEW t \in Transports, PointEngineStep(t), UNCHANGED <<p2p, job, history>>
      PROVE  ChannelInv' /\ TakeBackInv'
  <2>1. PICK reply : Takes(t, reply) /\ Handles(t, reply)
    BY <1>2, EngineTakesAndHandles
  <2>2. handlers' \in [AppNames -> [Keys -> Ids \cup {None}]]
    BY <2>1 DEF Handles
  <2>3. ChannelInv'
    BY <2>1, <2>2, TakesKeepChannelInv
  <2>4. QED
    BY <1>2, <2>3, EngineKeepsTakeBack
<1>3. CASE UNCHANGED pvars
  <2>1. UNCHANGED <<queue, call, handlers, p2p, job, status, takenBack, listenerConfigs>>
    BY <1>3 DEF pvars, evars, engineVars, vars, registry
  <2>2. ChannelInv'
    <3>1. PointAwaited'
      BY <2>1 DEF ChannelInv, PointAwaited, Awaits
    <3>2. QED
      BY <2>1, <3>1 DEF ChannelInv, Keys, AppNames
  <2>3. StatusInv' /\ OneRegisters' /\ InstalledBefore'
    BY <2>1 DEF TakeBackInv, StatusInv, OneRegisters, InstalledBefore, Installs
  <2>4. DoneInv'
    BY <2>1 DEF TakeBackInv, DoneInv, Finished, StillComes, YetToSend, ServiceKey, TakenBack,
                Removed, Gone, Installs
  <2>5. ASSUME NEW k \in Callers PROVE Own(k)' /\ Progress(k)'
    BY <2>1 DEF TakeBackInv, Own, Progress, StillComes, YetToSend, ServiceKey, Undone, TakenBack,
                Removed, Gone, Installs
  <2>6. QED
    BY <2>2, <2>3, <2>4, <2>5 DEF TakeBackInv
<1>4. QED
  BY <1>1, <1>2, <1>3, CallerKeepsTakeBack DEF PointNext

\* Initially there are no commands and no jobs.
LEMMA InitEstablishesTakeBack == PointInit => ChannelInv /\ TakeBackInv
<1> SUFFICES ASSUME PointInit PROVE ChannelInv /\ TakeBackInv
  OBVIOUS
<1>1. /\ queue = [t \in Transports |-> <<>>] /\ call = [k \in Callers |-> Returned]
      /\ handlers = [a \in AppNames |-> NoHandlers]
      /\ job = [k \in Callers |-> NoJob] /\ status = [t \in Transports |-> "none"]
      /\ takenBack = [t \in Transports |-> {}]
  BY DEF PointInit, EngineInit
<1>2. \A t \in Transports : queue[t] = <<>> /\ DOMAIN queue[t] = {}
  BY <1>1
<1>3. NoHandlers \in [Keys -> Ids \cup {None}]
  BY DEF NoHandlers
<1>4. ChannelInv
  <2>1. queue \in [Transports -> Seq(PointCommands)]
    BY <1>1
  <2>2. handlers \in [AppNames -> [Keys -> Ids \cup {None}]]
    BY <1>1, <1>3
  <2>3. QED
    BY <1>2, <2>1, <2>2 DEF ChannelInv, PointAwaited
<1>5. StatusInv /\ OneRegisters /\ InstalledBefore /\ DoneInv
  <2>1. \A k \in Callers : job[k].op # "register"
    BY <1>1, JobFields, NotNone
  <2>2. QED
    BY <1>1, <1>2, <2>1 DEF StatusInv, Outcomes, OneRegisters, InstalledBefore, DoneInv
<1>6. ASSUME NEW k \in Callers PROVE Own(k) /\ Progress(k)
  BY <1>1, JobFields, NotNone DEF Own, Progress
<1>7. QED
  BY <1>4, <1>5, <1>6 DEF TakeBackInv

\* unregister_point_to_point_listener takes back, for good, every service whose
\* command did not fail and which no registration had still to send when it began:
\* neither a function of the pool nor a handler in vsomeip is left, whatever else
\* is called, sent, fails or times out, also when registering had failed half way,
\* its last command was still in the channel, or other calls overlap.  The
\* transports have applications of their own, and neither a response nor another
\* listener has the address of a configured service.
THEOREM UnregisteringTakesAllBack ==
  ASSUME OwnServices
  PROVE  PointSpec => []UnregisteringTakesBack
<1>1. PointInit => PointInv /\ ChannelInv /\ TakeBackInv
  BY PointInitEstablishesInv, InitEstablishesTakeBack
<1>2. PointInv /\ ChannelInv /\ TakeBackInv /\ [PointNext]_pvars
        => (PointInv /\ ChannelInv /\ TakeBackInv)'
  BY PointNextIsRegistryStep, NextKeepsIInv, TakeBackInductive DEF PointInv, PointStep
<1>3. TakeBackInv => UnregisteringTakesBack
  BY DEF TakeBackInv, DoneInv, Finished, TakenBack, Removed, Gone, ConfigsOf,
         UnregisteringTakesBack
<1>4. QED
  BY <1>1, <1>2, <1>3, PTL DEF PointSpec

-----------------------------------------------------------------------------
(* Requests to every service reach a listener that was registered.         *)

\* What the guarantee below rests on besides OwnServices: the services of one
\* configuration file have addresses of their own.
ServicesApart ==
    \A t \in Transports : Services[t] # None =>
        \A s, v \in Services[t] :
            RegisterKey(ServiceConfig(s)) = RegisterKey(ServiceConfig(v)) =>
                ServiceConfig(s) = ServiceConfig(v)

\* Nobody unregisters the listener of t or drops t, and registering has not failed.
Quiet(t) ==
    /\ phase[t] \notin {"dropping", "gone"}
    /\ status[t] \in {"none", "registering", "registered"}

\* A command that takes a handler of the streamer away, and a call that sends one
\* or releases a function of the streamer.
Taking(r) ==
    r.op = "StopVsomeipApp" \/ (r.op = "UnregisterListener" /\ r.config \notin Ordinary)

Disturbs(r) == Taking(r) \/ r.pc = "drop" \/ (r.pc = "release" /\ r.config \notin Ordinary)

\* The handler for the address of c is the one the registry holds for c.
Standing(t, c) ==
    \E id \in Ids :
        listenerConfigs[t][id] = c /\ handlers[AppName[t]][RegisterKey(c)] = id

\* Only an unregistration of the streamer and Drop take something from it.
Leaves(k) ==
    Disturbs(call[k]) => call[k].t \in Transports /\ ~Quiet(call[k].t)

\* A registration holds the id of the service it is at work on; the services it
\* is not to do any more stand.
Registers(k) ==
    job[k].op = "register" /\ Quiet(call[k].t) =>
        /\ job[k].todo \subseteq Services[call[k].t]
        /\ call[k].op \in {"RegisterListener", None}
        /\ call[k].op = "RegisterListener" =>
              /\ call[k].pc \in {"send", "await"}
              /\ \E s \in Services[call[k].t] : call[k].config = ServiceConfig(s)
              /\ call[k].id \in Ids
              /\ listenerConfigs[call[k].t][call[k].id] = call[k].config
              /\ call[k].reply = "Ok" => Standing(call[k].t, call[k].config)
        /\ \A s \in Services[call[k].t] \ job[k].todo :
              \/ Standing(call[k].t, ServiceConfig(s))
              \/ call[k].op = "RegisterListener" /\ call[k].config = ServiceConfig(s)

\* What is in the channel of t is a registration of a service only while somebody
\* waits for it, and takes nothing back.
QuietChannel(t) ==
    Quiet(t) => \A i \in DOMAIN queue[t] :
        /\ ~Taking(queue[t][i])
        /\ \A key \in ServiceKeys : Installs(queue[t][i], key) =>
              queue[t][i].caller # None /\ job[queue[t][i].caller].op = "register"

Forwarded(t) ==
    Quiet(t) /\ status[t] = "registered" =>
        \A s \in Services[t] : Standing(t, ServiceConfig(s))

ForwardInv ==
    /\ \A k \in Callers : Leaves(k) /\ Registers(k)
    /\ \A t \in Transports : QuietChannel(t) /\ Forwarded(t)

\* A transport that is dropped stays so.
LEMMA DroppedStays ==
  ASSUME TypeOK, [Next]_vars, NEW t \in Transports, phase[t] \in {"dropping", "gone"}
  PROVE  phase'[t] \in {"dropping", "gone"}
<1>1. CASE UNCHANGED phase
  BY <1>1
<1>2. ASSUME NEW u \in Transports, New(u) \/ DropBegin(u) \/ DropEnd(u)
      PROVE  phase'[t] \in {"dropping", "gone"}
  BY <1>2 DEF New, DropBegin, DropEnd, TypeOK
<1>3. QED
  BY <1>1, <1>2
  DEF Next, TransportNext, CallbackNext, Register, Unregister, DropRelease, CallbackLookup,
      CallbackConvert, CallbackFetch, CallbackDeliver, vars, lifecycle

\* What was disturbed stays so.
LEMMA QuietBefore ==
  ASSUME PointInv, [Next]_vars, NEW k \in Callers, StatusMoves(k), NEW t \in Transports, Quiet(t)'
  PROVE  Quiet(t)
<1>1. phase[t] \notin {"dropping", "gone"}
  BY DroppedStays DEF PointInv, IInv, Quiet
<1>2. status[t] \in {"none", "registering", "registered"}
  BY DEF StatusMoves, Quiet
<1>3. QED
  BY <1>1, <1>2 DEF Quiet

\* Nothing of the streamer is taken from transports that are quiet.
Kept ==
    \A t \in Transports, id \in Ids :
        Quiet(t)' /\ listenerConfigs[t][id] \notin {None} \cup Ordinary =>
            listenerConfigs'[t][id] = listenerConfigs[t][id]

\* What a step of caller k must do to its own part of the invariant.
ForwardPart(k) ==
    /\ Kept /\ Leaves(k)' /\ Registers(k)'
    /\ \A t \in Transports :
          call[k].pc = "await" /\ call[k].reply = None /\ job[k].op = "register" /\ call[k].t = t
              => ~Quiet(t)'
    /\ \A t \in Transports : Quiet(t)' /\ status'[t] = "registered" /\ status[t] # "registered" =>
          \A s \in Services[t] : Standing(t, ServiceConfig(s))

\* What stands stays.
LEMMA KeptStands ==
  ASSUME Kept, UNCHANGED handlers, NEW t \in Transports, Quiet(t)', NEW c,
         c \notin {None} \cup Ordinary, Standing(t, c)
  PROVE  Standing(t, c)'
  BY DEF Kept, Standing

\* A registration that nothing disturbed has services.
LEMMA RegistrationFacts ==
  ASSUME OwnServices, PointInv, TakeBackInv, NEW k \in Callers, job[k].op = "register"
  PROVE  /\ call[k].t \in Transports /\ Services[call[k].t] # None
         /\ \A s \in Services[call[k].t] :
               /\ ServiceConfig(s) \in Configs /\ ServiceConfig(s) \notin {None} \cup Ordinary
               /\ RegisterKey(ServiceConfig(s)) \in Keys
               /\ RegisterKey(ServiceConfig(s)) \in ServiceKeys
<1>1. call[k].t \in Transports
  BY JobTransport, NotNone DEF TakeBackInv
<1>2. Services[call[k].t] # None
  BY <1>1 DEF TakeBackInv, StatusInv, Own
<1>3. QED
  BY <1>1, <1>2, ServiceAddress

\* A caller that moves and has its own part in order keeps the invariant.
LEMMA MovesKeepForwarding ==
  ASSUME OwnServices, PointInv, ChannelInv, TakeBackInv, ForwardInv, [Next]_vars,
         NEW k \in Callers, Moves(k), StatusMoves(k), ForwardPart(k)
  PROVE  ForwardInv'
<1>1. /\ \A j \in Callers : j # k => call'[j] = call[j] /\ job'[j] = job[j]
      /\ UNCHANGED handlers /\ Kept
  BY DEF Moves, ForwardPart
<1>2. \A t \in Transports : Quiet(t)' => Quiet(t)
  BY QuietBefore
<1>3. ASSUME NEW j \in Callers, j # k PROVE Leaves(j)'
  <2> SUFFICES ASSUME Disturbs(call[j])
               PROVE  Leaves(j)'
    BY <1>1, <1>3 DEF Leaves
  <2>1. PICK t \in Transports : t = call[j].t
    BY DEF ForwardInv, Leaves
  <2>2. ~Quiet(t)
    BY <2>1 DEF ForwardInv, Leaves
  <2>3. ~Quiet(t)' /\ call'[j].t = t
    BY <1>1, <1>2, <1>3, <2>1, <2>2
  <2>4. QED
    BY <2>3 DEF Leaves, Quiet
<1>4. ASSUME NEW j \in Callers, j # k PROVE Registers(j)'
  <2>0. call'[j] = call[j] /\ job'[j] = job[j]
    BY <1>1, <1>4
  <2>1. CASE job[j].op # "register"
    BY <2>0, <2>1 DEF Registers
  <2>2. CASE job[j].op = "register"
    <3>1. PICK t \in Transports : t = call[j].t
      BY <2>2, RegistrationFacts
    <3>2. CASE ~Quiet(t)'
      BY <2>0, <3>1, <3>2 DEF Registers, Quiet
    <3>3. CASE Quiet(t)'
      <4>1. Quiet(t) /\ Registers(j)
        BY <1>2, <3>3 DEF ForwardInv
      <4>2. ASSUME NEW s \in Services[t], Standing(t, ServiceConfig(s))
            PROVE  Standing(t, ServiceConfig(s))'
        BY <1>1, <2>2, <3>1, <3>3, <4>2, RegistrationFacts, KeptStands
      <4>3. /\ job[j].todo \subseteq Services[t]
            /\ call[j].op \in {"RegisterListener", None}
        BY <2>2, <3>1, <4>1 DEF Registers
      <4>4. ASSUME call[j].op = "RegisterListener"
            PROVE  /\ call[j].pc \in {"send", "await"}
                   /\ \E s \in Services[t] : call[j].config = ServiceConfig(s)
                   /\ call[j].id \in Ids
                   /\ listenerConfigs'[t][call[j].id] = call[j].config
                   /\ call[j].reply = "Ok" => Standing(t, call[j].config)'
        <5>1. /\ call[j].pc \in {"send", "await"}
              /\ call[j].id \in Ids
              /\ listenerConfigs[t][call[j].id] = call[j].config
              /\ call[j].reply = "Ok" => Standing(t, call[j].config)
          BY <2>2, <3>1, <4>1, <4>4 DEF Registers
        <5>2. PICK s \in Services[t] : call[j].config = ServiceConfig(s)
          BY <2>2, <3>1, <4>1, <4>4 DEF Registers
        <5>3. listenerConfigs'[t][call[j].id] = call[j].config
          BY <1>1, <2>2, <3>1, <3>3, <5>1, <5>2, RegistrationFacts DEF Kept
        <5>4. PICK c : c = call[j].config
          OBVIOUS
        <5>5. call[j].reply = "Ok" => Standing(t, c)'
          BY <4>2, <5>1, <5>2, <5>4
        <5>6. Standing(t, c)' => Standing(t, call[j].config)'
          BY <2>0, <5>4 DEF Standing
        <5>7. QED
          BY <5>1, <5>2, <5>3, <5>5, <5>6
      <4>5. ASSUME NEW s \in Services[t] \ job[j].todo
            PROVE  \/ Standing(t, ServiceConfig(s))'
                   \/ call[j].op = "RegisterListener" /\ call[j].config = ServiceConfig(s)
        BY <2>2, <3>1, <4>1, <4>2 DEF Registers
      <4>6. QED
        BY <2>0, <3>1, <4>3, <4>4, <4>5 DEF Registers, Standing
    <3>4. QED
      BY <3>2, <3>3
  <2>3. QED
    BY <2>1, <2>2
<1>5. ASSUME NEW t \in Transports PROVE QuietChannel(t)'
  <2> SUFFICES ASSUME Quiet(t)', NEW i \in DOMAIN queue'[t]
               PROVE  /\ ~Taking(queue'[t][i])
                      /\ \A key \in ServiceKeys : Installs(queue'[t][i], key) =>
                            queue'[t][i].caller # None /\ job'[queue'[t][i].caller].op = "register"
    BY DEF QuietChannel
  <2>1. /\ i \in DOMAIN queue[t] /\ queue'[t][i].op = queue[t][i].op
        /\ queue'[t][i].config = queue[t][i].config
        /\ queue'[t][i].caller = IF queue[t][i].caller = k THEN None ELSE queue[t][i].caller
    BY DEF Moves, SameCommands
  <2>2. Quiet(t) /\ QuietChannel(t)
    BY <1>2 DEF ForwardInv
  <2>3. ~Taking(queue'[t][i])
    BY <2>1, <2>2 DEF QuietChannel, Taking
  <2>4. ASSUME NEW key \in ServiceKeys, Installs(queue'[t][i], key)
        PROVE  queue'[t][i].caller # None /\ job'[queue'[t][i].caller].op = "register"
    <3>1. queue[t][i].caller # None /\ job[queue[t][i].caller].op = "register"
      BY <2>1, <2>2, <2>4 DEF QuietChannel, Installs
    <3>2. queue[t][i].caller \in Callers
      BY <2>1, <3>1, PointCommandHasCaller
    <3>3. Awaits(call[queue[t][i].caller], t, queue[t][i])
      BY <2>1, <3>1 DEF ChannelInv, PointAwaited
    <3>4. queue[t][i].caller # k
      BY <3>1, <3>3 DEF ForwardPart, Awaits
    <3>5. QED
      BY <1>1, <2>1, <3>1, <3>2, <3>4
  <2>5. QED
    BY <2>3, <2>4
<1>6. ASSUME NEW t \in Transports PROVE Forwarded(t)'
  <2> SUFFICES ASSUME Quiet(t)', status'[t] = "registered", NEW s \in Services[t]
               PROVE  Standing(t, ServiceConfig(s))'
    BY DEF Forwarded
  <2>1. Quiet(t) /\ Forwarded(t)
    BY <1>2 DEF ForwardInv
  <2>2. Standing(t, ServiceConfig(s))
    BY <2>1 DEF ForwardPart, Forwarded
  <2>3. status[t] # "none"
    BY DEF StatusMoves
  <2>4. ServiceConfig(s) \notin {None} \cup Ordinary
    BY <2>3, ServiceAddress DEF TakeBackInv, StatusInv
  <2>5. QED
    BY <1>1, <2>2, <2>4, KeptStands
<1>7. QED
  BY <1>3, <1>4, <1>5, <1>6 DEF ForwardInv, ForwardPart

\* A caller's registration, when the handlers and its own call are as before but
\* for what was installed.
LEMMA RegistersStays ==
  ASSUME OwnServices, PointInv, TakeBackInv, NEW k \in Callers, Registers(k),
         job'[k] = job[k], call'[k].op = call[k].op, call'[k].t = call[k].t,
         call'[k].config = call[k].config, call'[k].id = call[k].id,
         call[k].pc \in {"send", "await"} => call'[k].pc \in {"send", "await"},
         UNCHANGED <<phase, status, listenerConfigs>>,
         \A t \in Transports : \A s \in Services[t] :
            call[k].t = t /\ Quiet(t) /\ job[k].op = "register" =>
                /\ Standing(t, ServiceConfig(s)) => Standing(t, ServiceConfig(s))'
                /\ call[k].op = "RegisterListener" /\ call[k].config = ServiceConfig(s)
                      /\ call'[k].reply = "Ok" => Standing(t, ServiceConfig(s))'
  PROVE  Registers(k)'
<1>1. CASE job[k].op # "register"
  BY <1>1 DEF Registers
<1>2. CASE job[k].op = "register"
  <2>1. PICK t \in Transports : t = call[k].t
    BY <1>2, RegistrationFacts
  <2>2. Quiet(t)' = Quiet(t)
    BY DEF Quiet
  <2>3. CASE ~Quiet(t)
    BY <2>1, <2>2, <2>3 DEF Registers, Quiet
  <2>4. CASE Quiet(t)
    <3>1. /\ job[k].todo \subseteq Services[t]
          /\ call[k].op \in {"RegisterListener", None}
      BY <1>2, <2>1, <2>4 DEF Registers
    <3>2. ASSUME NEW s \in Services[t], Standing(t, ServiceConfig(s))
          PROVE  Standing(t, ServiceConfig(s))'
      BY <1>2, <2>1, <2>4, <3>2
    <3>3. ASSUME call[k].op = "RegisterListener"
          PROVE  /\ call'[k].pc \in {"send", "await"}
                 /\ \E s \in Services[t] : call[k].config = ServiceConfig(s)
                 /\ call[k].id \in Ids
                 /\ listenerConfigs'[t][call[k].id] = call[k].config
                 /\ call'[k].reply = "Ok" => Standing(t, call[k].config)'
      <4>1. /\ call[k].pc \in {"send", "await"}
            /\ call[k].id \in Ids
            /\ listenerConfigs[t][call[k].id] = call[k].config
        BY <1>2, <2>1, <2>4, <3>3 DEF Registers
      <4>2. PICK s \in Services[t] : call[k].config = ServiceConfig(s)
        BY <1>2, <2>1, <2>4, <3>3 DEF Registers
      <4>3. call'[k].reply = "Ok" => Standing(t, ServiceConfig(s))'
        BY <1>2, <2>1, <2>4, <3>3, <4>2
      <4>4. Standing(t, ServiceConfig(s))' => Standing(t, call[k].config)'
        BY <4>2 DEF Standing
      <4>5. QED
        BY <4>1, <4>2, <4>3, <4>4
    <3>4. ASSUME NEW s \in Services[t] \ job[k].todo
          PROVE  \/ Standing(t, ServiceConfig(s))'
                 \/ call[k].op = "RegisterListener" /\ call[k].config = ServiceConfig(s)
      BY <1>2, <2>1, <2>4, <3>2 DEF Registers
    <3>5. QED
      BY <2>1, <3>1, <3>3, <3>4 DEF Registers, Standing
  <2>5. QED
    BY <2>3, <2>4
<1>3. QED
  BY <1>1, <1>2

\* Sending a command takes nothing back from a quiet transport, and installs what
\* its caller waits for.
LEMMA SendingKeepsForwarding ==
  ASSUME OwnServices, PointInv, ChannelInv, TakeBackInv, ForwardInv, NEW k \in Callers,
         Enqueue(k), UNCHANGED <<p2p, job, history>>
  PROVE  ForwardInv'
<1>1. PICK t \in Transports : t = call[k].t
  BY SentCommand
<1>1a. SentAt(k, t)
  BY <1>1, SentCommand
<1>2. PICK n \in Nat :
        /\ n \notin DOMAIN queue[t]
        /\ DOMAIN queue'[t] = DOMAIN queue[t] \cup {n}
        /\ \A i \in DOMAIN queue[t] : i \in Nat /\ i < n /\ queue'[t][i] = queue[t][i]
        /\ queue'[t][n] =
              [op |-> call[k].op, config |-> call[k].config, id |-> call[k].id, caller |-> k]
  BY <1>1a DEF SentAt
<1>3. /\ call[k].pc = "send" /\ UNCHANGED <<handlers, listenerConfigs, phase>>
      /\ \A u \in Transports : u # t => queue'[u] = queue[u]
  BY <1>1, SentCommand DEF Enqueue, vars, registry, lifecycle
<1>4. /\ \A j \in Callers : j # k => call'[j] = call[j]
      /\ \A j \in Callers : /\ call'[j].op = call[j].op /\ call'[j].t = call[j].t
                            /\ call'[j].config = call[j].config /\ call'[j].id = call[j].id
                            /\ call'[j].reply = call[j].reply
      /\ call'[k].pc = "await"
  BY SentCall
<1>5. ASSUME NEW u \in Transports PROVE Quiet(u)' = Quiet(u)
  BY <1>3 DEF Quiet
<1>6. ASSUME NEW j \in Callers PROVE Leaves(j)'
  <2>1. call'[j].t = call[j].t /\ (Disturbs(call'[j]) => Disturbs(call[j]))
    BY <1>4 DEF Disturbs, Taking
  <2>2. Leaves(j)
    BY DEF ForwardInv
  <2>3. QED
    BY <1>3, <2>1, <2>2 DEF Leaves, Quiet
<1>7. ASSUME NEW u \in Transports, NEW c PROVE Standing(u, c) <=> Standing(u, c)'
  BY <1>3 DEF Standing
<1>8. ASSUME NEW j \in Callers PROVE Registers(j)'
  <2>1. Registers(j)
    BY DEF ForwardInv
  <2>2. ASSUME NEW u \in Transports, NEW s \in Services[u], call[j].t = u, Quiet(u),
               job[j].op = "register", call[j].op = "RegisterListener",
               call[j].config = ServiceConfig(s), call'[j].reply = "Ok"
        PROVE  Standing(u, ServiceConfig(s))'
    BY <1>4, <1>7, <2>1, <2>2 DEF Registers
  <2>3. call[j].pc \in {"send", "await"} => call'[j].pc \in {"send", "await"}
    BY <1>4
  <2>4. QED
    BY <1>3, <1>4, <1>7, <2>1, <2>2, <2>3, RegistersStays
<1>9. ASSUME NEW u \in Transports PROVE QuietChannel(u)'
  <2> SUFFICES ASSUME Quiet(u), NEW i \in DOMAIN queue'[u]
               PROVE  /\ ~Taking(queue'[u][i])
                      /\ \A key \in ServiceKeys : Installs(queue'[u][i], key) =>
                            queue'[u][i].caller # None /\ job[queue'[u][i].caller].op = "register"
    BY <1>5 DEF QuietChannel
  <2>1. CASE u = t /\ i = n
    <3>1. /\ queue'[u][i].op = call[k].op /\ queue'[u][i].config = call[k].config
          /\ queue'[u][i].caller = k
      BY <1>2, <2>1
    <3>2. ~Taking(call[k])
      BY <1>1, <2>1 DEF ForwardInv, Leaves, Disturbs
    <3>3. call[k].op = "RegisterListener" /\ job[k].op # "register" =>
             call[k].config \in Responses \cup Ordinary
      BY DEF TakeBackInv, Own
    <3>4. QED
      BY <3>1, <3>2, <3>3, EngineAssumption DEF OwnServices, Installs, Taking
  <2>2. CASE ~(u = t /\ i = n)
    <3>1. i \in DOMAIN queue[u] /\ queue'[u][i] = queue[u][i]
      BY <1>2, <1>3, <2>2
    <3>2. QED
      BY <3>1 DEF ForwardInv, QuietChannel
  <2>3. QED
    BY <2>1, <2>2
<1>10. ASSUME NEW u \in Transports PROVE Forwarded(u)'
  BY <1>5, <1>7 DEF ForwardInv, Forwarded
<1>11. QED
  BY <1>6, <1>8, <1>9, <1>10 DEF ForwardInv

\* The engine of a quiet transport installs the handlers of its services.
LEMMA EngineKeepsForwarding ==
  ASSUME OwnServices, ServicesApart, PointInv, ChannelInv, TakeBackInv, ForwardInv,
         NEW t \in Transports, PointEngineStep(t), UNCHANGED <<p2p, job, history>>
  PROVE  ForwardInv'
<1>1. UNCHANGED <<listenerConfigs, phase>>
  BY DEF PointEngineStep, EngineStep, register_listener_internal, unregister_listener_internal,
         start_vsomeip_app_internal, stop_vsomeip_app_internal, EngineWithoutApp, send_internal,
         SendWithoutApp, TakeAndReply, vars, registry, lifecycle
<1>2. PICK reply : Takes(t, reply) /\ Handles(t, reply)
  BY EngineTakesAndHandles
<1>3. ASSUME NEW j \in Callers
      PROVE  /\ call'[j].pc = call[j].pc /\ call'[j].op = call[j].op /\ call'[j].t = call[j].t
             /\ call'[j].config = call[j].config /\ call'[j].id = call[j].id
             /\ \/ call'[j].reply = call[j].reply
                \/ /\ j = queue[t][1].caller /\ call'[j].reply = reply
                   /\ Awaits(call[j], t, queue[t][1])
  <2>1. CASE j # queue[t][1].caller
    BY <1>2, <2>1 DEF Takes
  <2>2. CASE j = queue[t][1].caller
    <3>1. Awaits(call[j], t, queue[t][1])
      BY <1>2, <2>2, EngineAssumption DEF ChannelInv, PointAwaited, Takes
    <3>2. QED
      BY <1>2, <2>2, <3>1 DEF Takes
  <2>3. QED
    BY <2>1, <2>2
<1>4. ASSUME NEW u \in Transports PROVE Quiet(u)' = Quiet(u)
  BY <1>1 DEF Quiet
<1>5. ASSUME NEW j \in Callers PROVE Leaves(j)'
  BY <1>1, <1>3 DEF ForwardInv, Leaves, Disturbs, Taking, Quiet
<1>6. ASSUME NEW u \in Transports, Quiet(u), Services[u] # None, NEW s \in Services[u],
             Standing(u, ServiceConfig(s))
      PROVE  Standing(u, ServiceConfig(s))'
  <2> DEFINE c == ServiceConfig(s)
             cmd == queue[t][1]
  <2>1. RegisterKey(c) \in Keys /\ RegisterKey(c) \in ServiceKeys
    BY <1>6, ServiceAddress
  <2>2. CASE u # t
    <3>1. handlers'[AppName[u]] = handlers[AppName[u]]
      BY <1>2, <2>2 DEF Handles, OwnServices
    <3>2. QED
      BY <1>1, <1>6, <3>1 DEF Standing
  <2>3. CASE u = t
    <3>1. 1 \in DOMAIN queue[t]
      BY <1>2 DEF Takes
    <3>2. ~Taking(cmd)
      BY <1>6, <2>3, <3>1 DEF ForwardInv, QuietChannel
    <3> HIDE DEF c, cmd
    <3>3. \/ handlers'[AppName[t]][RegisterKey(c)] = handlers[AppName[t]][RegisterKey(c)]
          \/ handlers'[AppName[t]][RegisterKey(c)] = cmd.id /\ Installs(cmd, RegisterKey(c))
      BY <1>2, <2>1, <3>2 DEF Handles, Taking, OwnServices, cmd
    <3>4. CASE handlers'[AppName[t]][RegisterKey(c)] = handlers[AppName[t]][RegisterKey(c)]
      BY <1>1, <1>6, <2>3, <3>4 DEF Standing, c
    <3>5. CASE handlers'[AppName[t]][RegisterKey(c)] = cmd.id /\ Installs(cmd, RegisterKey(c))
      <4> DEFINE m == cmd.caller
      <4>1. m # None /\ job[m].op = "register"
        BY <1>6, <2>1, <2>3, <3>1, <3>5 DEF ForwardInv, QuietChannel, cmd
      <4>2. m \in Callers
        BY <3>1, <4>1, PointCommandHasCaller DEF cmd
      <4>3. Awaits(call[m], t, cmd)
        BY <3>1, <4>1 DEF ChannelInv, PointAwaited, cmd
      <4> HIDE DEF m
      <4>4. /\ call[m].op = "RegisterListener" /\ call[m].t = t /\ call[m].config = cmd.config
            /\ call[m].id = cmd.id
        BY <3>5, <4>3 DEF Awaits, Installs
      <4>5. /\ call[m].id \in Ids /\ listenerConfigs[t][call[m].id] = call[m].config
            /\ \E v \in Services[t] : call[m].config = ServiceConfig(v)
        BY <1>6, <2>3, <4>1, <4>2, <4>4 DEF ForwardInv, Registers
      <4>6. PICK v \in Services[t] : cmd.config = ServiceConfig(v)
        BY <4>4, <4>5
      <4>7. RegisterKey(ServiceConfig(v)) = RegisterKey(c)
        BY <3>5, <4>6 DEF Installs
      <4>8. cmd.config = c
        BY <1>6, <2>3, <4>6, <4>7 DEF ServicesApart, c
      <4>9. cmd.id \in Ids /\ listenerConfigs'[t][cmd.id] = c
        BY <1>1, <4>4, <4>5, <4>8
      <4>10. QED
        BY <2>3, <3>5, <4>9 DEF Standing, c
    <3>6. QED
      BY <3>3, <3>4, <3>5
  <2>4. QED
    BY <2>2, <2>3
<1>7. ASSUME NEW j \in Callers PROVE Registers(j)'
  <2>1. Registers(j)
    BY DEF ForwardInv
  <2>2. ASSUME NEW u \in Transports, NEW s \in Services[u], call[j].t = u, Quiet(u),
               job[j].op = "register"
        PROVE  /\ Standing(u, ServiceConfig(s)) => Standing(u, ServiceConfig(s))'
               /\ call[j].op = "RegisterListener" /\ call[j].config = ServiceConfig(s)
                     /\ call'[j].reply = "Ok" => Standing(u, ServiceConfig(s))'
    <3>1. /\ Services[u] # None /\ RegisterKey(ServiceConfig(s)) \in Keys
      BY <2>2, RegistrationFacts
    <3>2. Standing(u, ServiceConfig(s)) => Standing(u, ServiceConfig(s))'
      BY <1>6, <2>2, <3>1
    <3>3. ASSUME call[j].op = "RegisterListener", call[j].config = ServiceConfig(s),
                 call'[j].reply = "Ok"
          PROVE  Standing(u, ServiceConfig(s))'
      <4>1. CASE call'[j].reply = call[j].reply
        <5>1. Standing(u, ServiceConfig(s))
          BY <2>1, <2>2, <3>3, <4>1 DEF Registers
        <5>2. QED
          BY <3>2, <5>1
      <4>2. CASE call'[j].reply = reply /\ Awaits(call[j], t, queue[t][1])
        <5>1. /\ reply = "Ok" /\ u = t /\ queue[t][1].op = "RegisterListener"
              /\ queue[t][1].config = ServiceConfig(s) /\ queue[t][1].id = call[j].id
          BY <2>2, <3>3, <4>2 DEF Awaits
        <5>2. handlers'[AppName[t]][RegisterKey(ServiceConfig(s))] = call[j].id
          BY <1>2, <3>1, <5>1 DEF Handles
        <5>3. call[j].id \in Ids /\ listenerConfigs[t][call[j].id] = ServiceConfig(s)
          BY <2>1, <2>2, <3>3, <5>1 DEF Registers
        <5>4. QED
          BY <1>1, <5>1, <5>2, <5>3 DEF Standing
      <4>3. QED
        BY <1>3, <4>1, <4>2
    <3>4. QED
      BY <3>2, <3>3
  <2>3. QED
    BY <1>1, <1>3, <2>1, <2>2, RegistersStays
<1>8. ASSUME NEW u \in Transports PROVE QuietChannel(u)'
  <2> SUFFICES ASSUME Quiet(u), NEW i \in DOMAIN queue'[u]
               PROVE  /\ ~Taking(queue'[u][i])
                      /\ \A key \in ServiceKeys : Installs(queue'[u][i], key) =>
                            queue'[u][i].caller # None /\ job[queue'[u][i].caller].op = "register"
    BY <1>4 DEF QuietChannel
  <2>1. \E n \in DOMAIN queue[u] : queue'[u][i] = queue[u][n]
    <3>1. CASE u = t
      BY <1>2, <3>1 DEF Takes
    <3>2. CASE u # t
      <4>1. queue'[u] = queue[u]
        BY <1>2, <3>2 DEF Takes
      <4>2. QED
        BY <4>1
    <3>3. QED
      BY <3>1, <3>2
  <2>2. QED
    BY <2>1 DEF ForwardInv, QuietChannel
<1>9. ASSUME NEW u \in Transports PROVE Forwarded(u)'
  <2> SUFFICES ASSUME Quiet(u), status[u] = "registered", NEW s \in Services[u]
               PROVE  Standing(u, ServiceConfig(s))'
    BY <1>4 DEF Forwarded
  <2>1. Standing(u, ServiceConfig(s)) /\ Services[u] # None
    BY DEF ForwardInv, Forwarded, TakeBackInv, StatusInv
  <2>2. QED
    BY <1>6, <2>1
<1>10. QED
  BY <1>5, <1>7, <1>8, <1>9 DEF ForwardInv

\* When nothing is taken from a quiet transport.
LEMMA WhatKeeps ==
  ASSUME PointInv
  PROVE  /\ UNCHANGED listenerConfigs => Kept
         /\ \A t \in Transports, c \in Configs : Register(t, c) => Kept
         /\ \A t \in Transports, c \in Configs :
               (Unregister(t, c) \/ DropRelease(t, c)) /\ ~Quiet(t)' => Kept
         /\ \A t \in Transports, c \in Ordinary : c \in Configs /\ Unregister(t, c) => Kept
<1>1. UNCHANGED listenerConfigs => Kept
  BY DEF Kept
<1>2. ASSUME NEW t \in Transports, NEW c \in Configs, Register(t, c) PROVE Kept
  BY <1>2, RegisterEffect DEF PointInv, Kept
<1>3. ASSUME NEW t \in Transports, NEW c \in Configs,
             Unregister(t, c) \/ DropRelease(t, c), ~Quiet(t)'
      PROVE  Kept
  <2>1. \A u \in Transports, id \in Ids :
           u # t => listenerConfigs'[u][id] = listenerConfigs[u][id]
    BY <1>3, UnregisterEffect DEF PointInv
  <2>2. ASSUME NEW u \in Transports, Quiet(u)' PROVE u # t
    BY <1>3, <2>2 DEF Quiet
  <2>3. QED
    BY <2>1, <2>2 DEF Kept
<1>4. ASSUME NEW t \in Transports, NEW c \in Ordinary, c \in Configs, Unregister(t, c) PROVE Kept
  <2>1. \A u \in Transports, id \in Ids :
           listenerConfigs[u][id] # c => listenerConfigs'[u][id] = listenerConfigs[u][id]
    BY <1>4, UnregisterEffect DEF PointInv
  <2>2. QED
    BY <2>1 DEF Kept
<1>5. QED
  BY <1>1, <1>2, <1>3, <1>4

\* The part of a caller that does not register.
LEMMA OthersForwardPart ==
  ASSUME NEW k \in Callers, Kept, Leaves(k)', job'[k].op # "register",
         ~(call[k].pc = "await" /\ call[k].reply = None /\ job[k].op = "register"),
         \A t \in Transports : status'[t] = "registered" => status[t] = "registered"
  PROVE  ForwardPart(k)
  BY DEF ForwardPart, Registers

\* A call that goes on with nothing to take back, or on a transport that is not
\* quiet any more.
LEMMA LeavesWithout ==
  ASSUME NEW k \in Callers,
         \/ ~Disturbs(call'[k])
         \/ \E t \in Transports : call'[k].t = t /\ ~Quiet(t)'
  PROVE  Leaves(k)'
  BY DEF Leaves, Quiet

\* A call that takes something back.
LEMMA StillDisturbed ==
  ASSUME PointInv, ForwardInv, [Next]_vars, NEW k \in Callers, StatusMoves(k),
         Disturbs(call[k])
  PROVE  call[k].t \in Transports /\ \A t \in Transports : t = call[k].t => ~Quiet(t)'
  BY QuietBefore DEF ForwardInv, Leaves

\* None of these takes something away.
LEMMA NoTaking ==
  \A r : /\ r.op \in {None, "StartVsomeipApp", "RegisterListener", "Send"}
        /\ r.pc \in {"idle", "send", "await", "job"}
      => ~Disturbs(r)
  BY EngineAssumption DEF Disturbs, Taking, Ops

\* Constructing and dropping a transport.
LEMMA LifeCallsForwardPart ==
  ASSUME PointInv, TakeBackInv, NEW k \in Callers, NEW t \in Transports,
         NewCall(k, t) \/ DropCall(k, t), UNCHANGED <<p2p, job, history>>
  PROVE  ForwardPart(k)
<1>1. call[k].pc = "idle" /\ UNCHANGED listenerConfigs
  BY DEF NewCall, DropCall, New, DropBegin, registry
<1>2. job[k].op = None /\ Kept
  BY <1>1, WhatKeeps DEF TakeBackInv, Own
<1>3. CASE NewCall(k, t)
  <2>1. call'[k] = Sending("StartVsomeipApp", t, None, None)
    BY <1>3, OneCallReplaced DEF NewCall
  <2>2. call'[k].op = "StartVsomeipApp" /\ call'[k].pc = "send"
    BY <2>1 DEF Sending
  <2>3. Leaves(k)'
    BY <2>2, NoTaking, LeavesWithout
  <2>4. QED
    BY <1>1, <1>2, <2>3, NotNone, OthersForwardPart
<1>4. CASE DropCall(k, t)
  <2>1. call'[k] = Dropping(t) /\ phase'[t] = "dropping"
    BY <1>4, OneCallReplaced DEF DropCall, DropBegin, PointInv, IInv, TypeOK
  <2>2. call'[k].t = t /\ ~Quiet(t)'
    BY <2>1 DEF Dropping, Returned, Quiet
  <2>3. Leaves(k)'
    BY <2>2, LeavesWithout
  <2>4. QED
    BY <1>1, <1>2, <2>3, NotNone, OthersForwardPart
<1>5. QED
  BY <1>3, <1>4

\* The other calls that are not jobs: only Drop takes something back.
LEMMA PlainStepForwardPart ==
  ASSUME PointInv, TakeBackInv, ForwardInv, [Next]_vars, NEW k \in Callers, StatusMoves(k),
         job[k].op = None, CallStep(k) \/ AwaitTimeout(k), UNCHANGED <<p2p, job, history>>
  PROVE  ForwardPart(k)
<1>0. call[k] \in PointCalls /\ Purposeful(call[k])
  BY DEF PointInv, PointCallInv
<1>1. call[k].t \in Transports
  BY <1>0 DEF CallStep, DropNext, AwaitReply, ReleaseHandler, AwaitTimeout, Purposeful
<1>2. PICK t \in Transports : t = call[k].t
  BY <1>1
<1>3. Disturbs(call[k]) => ~Quiet(t)'
  BY <1>2, StillDisturbed
<1>4. ASSUME Kept, Leaves(k)' PROVE ForwardPart(k)
  BY <1>4, NotNone, OthersForwardPart
<1>5. ASSUME call' = [call EXCEPT ![k] = Returned] PROVE Leaves(k)'
  <2>1. call'[k] = Returned
    BY <1>5, OneCallReplaced
  <2>2. call'[k].op = None /\ call'[k].pc = "idle"
    BY <2>1, JobFields
  <2>3. QED
    BY <2>2, NoTaking, LeavesWithout
<1>6. ASSUME call' = [call EXCEPT ![k] = Dropping(t)], ~Quiet(t)' PROVE Leaves(k)'
  <2>1. call'[k] = Dropping(t)
    BY <1>6, OneCallReplaced
  <2>2. call'[k].t = t
    BY <2>1 DEF Dropping, Returned
  <2>3. QED
    BY <1>6, <2>2, LeavesWithout
<1>7. CASE DropNext(k)
  <2>1. Kept /\ ~Quiet(t)'
    BY <1>3, <1>7, WhatKeeps DEF DropNext, Disturbs, vars, registry
  <2>2. PICK op, c : call' = [call EXCEPT ![k] = Sending(op, t, c, None)]
    BY <1>2, <1>7 DEF DropNext
  <2>3. call'[k] = Sending(op, t, c, None)
    BY <2>2, OneCallReplaced
  <2>4. call'[k].t = t
    BY <2>3, JobFields
  <2>5. QED
    BY <1>4, <2>1, <2>4, LeavesWithout
<1>8. CASE ReleaseHandler(k)
  <2>1. call[k].config \in Configs /\ (call[k].config \notin Ordinary => ~Quiet(t)')
    BY <1>0, <1>3, <1>8 DEF ReleaseHandler, Purposeful, Disturbs
  <2>2. PICK c \in Configs : c = call[k].config
    BY <2>1
  <2>3. CASE DropRelease(t, c) /\ call' = [call EXCEPT ![k] = Dropping(t)]
    <3>1. ~Quiet(t)'
      BY <2>3 DEF DropRelease, Quiet
    <3>2. QED
      BY <1>4, <1>6, <2>3, <3>1, WhatKeeps
  <2>4. CASE Unregister(t, c) /\ call' = [call EXCEPT ![k] = Returned]
    <3>1. Kept
      BY <2>1, <2>2, <2>4, WhatKeeps
    <3>2. QED
      BY <1>4, <1>5, <2>4, <3>1
  <2>5. QED
    BY <1>2, <1>8, <2>2, <2>3, <2>4 DEF ReleaseHandler
<1>9. ASSUME NEW reply, Finish(k, reply) PROVE ForwardPart(k)
  <2>1. Kept
    BY <1>9, WhatKeeps DEF Finish, vars, registry, DropBegin, DropEnd
  <2>2. CASE call' = [call EXCEPT ![k] = Returned]
    BY <1>4, <1>5, <2>1, <2>2
  <2>3. CASE call' = [call EXCEPT ![k] = Dropping(t)] /\ DropBegin(t)
    <3>1. ~Quiet(t)'
      BY <2>3 DEF DropBegin, Quiet, PointInv, IInv, TypeOK
    <3>2. QED
      BY <1>4, <1>6, <2>1, <2>3, <3>1
  <2>4. CASE /\ call[k].op = "UnregisterListener"
             /\ call' = [call EXCEPT ![k].pc = "release", ![k].reply = None]
    <3>1. /\ call'[k].t = t /\ call'[k].op = call[k].op /\ call'[k].config = call[k].config
          /\ call'[k].pc = "release"
      BY <1>0, <1>2, <2>4 DEF PointInv, PointCallInv, PointCalls
    <3>2. Disturbs(call'[k]) => ~Quiet(t)'
      BY <1>3, <2>4, <3>1 DEF Disturbs, Taking
    <3>3. QED
      BY <1>4, <2>1, <3>1, <3>2, LeavesWithout
  <2>5. QED
    BY <1>2, <1>9, <2>2, <2>3, <2>4 DEF Finish
<1>10. QED
  BY <1>7, <1>8, <1>9 DEF CallStep, AwaitReply, AwaitTimeout

\* An ordinary call takes at most a handler that is not the streamer's.
LEMMA OrdinaryCallForwardPart ==
  ASSUME PointInv, TakeBackInv, ForwardInv, [Next]_vars, NEW k \in Callers, StatusMoves(k),
         NEW t \in Transports, NEW c \in ConfigsFor[k],
         RegisterCall(k, t, c) \/ UnregisterCall(k, t, c), UNCHANGED <<p2p, job, history>>
  PROVE  ForwardPart(k)
<1>1. call[k].pc = "idle" /\ c \in Configs /\ c \in Ordinary
  BY OrdinaryCall DEF Ordinary
<1>2. job[k].op = None
  BY <1>1 DEF TakeBackInv, Own
<1>3. Kept
  BY <1>1, OrdinaryCall, WhatKeeps DEF vars, registry
<1>4. Leaves(k)'
  <2>1. CASE UNCHANGED call
    <3>1. CASE Disturbs(call[k])
      BY <2>1, <3>1, StillDisturbed, LeavesWithout
    <3>2. CASE ~Disturbs(call[k])
      BY <2>1, <3>2, LeavesWithout
    <3>3. QED
      BY <3>1, <3>2
  <2>2. ASSUME NEW op \in {"RegisterListener", "UnregisterListener"}, NEW id,
               call' = [call EXCEPT ![k] = Sending(op, t, c, id)]
        PROVE  Leaves(k)'
    <3>1. call'[k] = Sending(op, t, c, id)
      BY <2>2, OneCallReplaced
    <3>2. call'[k].pc = "send" /\ call'[k].op = op /\ call'[k].config = c
      BY <3>1, JobFields
    <3>3. QED
      BY <1>1, <3>2, LeavesWithout DEF Disturbs, Taking
  <2>3. QED
    BY <2>1, <2>2, OrdinaryCall
<1>5. QED
  BY <1>1, <1>2, <1>3, <1>4, NotNone, OthersForwardPart

\* The two jobs with services begin.
LEMMA JobBeginForwardPart ==
  ASSUME PointInv, TakeBackInv, NEW k \in Callers, NEW t \in Transports,
         RegisterP2P(k, t) \/ UnregisterP2P(k, t)
  PROVE  ForwardPart(k)
<1>1. /\ call[k].pc = "idle" /\ UNCHANGED listenerConfigs
      /\ call' = [call EXCEPT ![k] = Busy(t)]
  BY DEF RegisterP2P, UnregisterP2P, vars, registry
<1>2. Kept /\ call'[k] = Busy(t)
  BY <1>1, WhatKeeps, OneCallReplaced
<1>3. call'[k].op = None /\ call'[k].pc = "job" /\ call'[k].t = t
  BY <1>2, JobFields
<1>4. Leaves(k)'
  BY <1>3, NoTaking, LeavesWithout
<1>5. PICK r \in Jobs : job' = [job EXCEPT ![k] = r] /\ r.todo = Services[t]
  BY JobBegins
<1>6. job'[k].todo = Services[t]
  BY <1>5 DEF PointInv, JobInv
<1>7. Registers(k)'
  BY <1>3, <1>6, NotNone DEF Registers
<1>8. \A u \in Transports : status'[u] = "registered" => status[u] = "registered"
  BY DEF RegisterP2P, UnregisterP2P, TakeBackInv, StatusInv
<1>9. QED
  BY <1>1, <1>2, <1>4, <1>7, <1>8 DEF ForwardPart

\* A job returns.
LEMMA ReturnLeaves ==
  ASSUME PointInv, NEW k \in Callers, Return(k)
  PROVE  Leaves(k)' /\ job'[k].op # "register"
<1>1. call'[k] = Returned /\ job'[k] = NoJob
  BY DEF Return, PointInv, PointCallInv, JobInv
<1>2. call'[k].op = None /\ call'[k].pc = "idle" /\ job'[k].op = None
  BY <1>1, JobFields
<1>3. QED
  BY <1>2, NoTaking, NotNone, LeavesWithout

\* When the loop over the services has ended every service stands.
LEMMA JobEndForwardPart ==
  ASSUME PointInv, TakeBackInv, ForwardInv, [Next]_vars, NEW k \in Callers, StatusMoves(k),
         RegisterP2PEnds(k) \/ UnregisterP2PEnds(k)
  PROVE  ForwardPart(k)
<1>1. /\ call[k].pc = "job" /\ UNCHANGED listenerConfigs /\ Return(k) /\ job[k].todo = {}
  BY DEF RegisterP2PEnds, UnregisterP2PEnds, vars, registry
<1>2. Kept /\ Leaves(k)' /\ job'[k].op # "register"
  BY <1>1, WhatKeeps, ReturnLeaves
<1>3. call[k].t \in Transports /\ Own(k) /\ Registers(k) /\ StatusInv
  BY <1>1, JobKnows DEF TakeBackInv, ForwardInv
<1>4. PICK t \in Transports : t = call[k].t
  BY <1>3
<1>5. CASE UnregisterP2PEnds(k)
  <2>1. UNCHANGED status
    BY <1>5 DEF UnregisterP2PEnds
  <2>2. QED
    BY <1>1, <1>2, <2>1, OthersForwardPart
<1>6. CASE RegisterP2PEnds(k)
  <2>1. \A u \in Transports : u # t => status'[u] = status[u]
    BY <1>3, <1>4, <1>6 DEF RegisterP2PEnds, RegistrationEnds, StatusInv
  <2>2. ASSUME Quiet(t)', NEW s \in Services[t] PROVE Standing(t, ServiceConfig(s))
    <3>1. Quiet(t) /\ job[k].op = "register"
      BY <1>6, <2>2, QuietBefore DEF RegisterP2PEnds
    <3>2. call[k].op # "RegisterListener"
      BY <1>1, <1>3, <1>4, <3>1 DEF Registers
    <3>3. QED
      BY <1>1, <1>3, <1>4, <2>2, <3>1, <3>2 DEF Registers
  <2>3. Registers(k)'
    BY <1>2 DEF Registers
  <2>4. QED
    BY <1>1, <1>2, <2>1, <2>2, <2>3 DEF ForwardPart
<1>7. QED
  BY <1>5, <1>6

\* The next service of a registration has its id, and the earlier ones stand.
LEMMA RegisterNextServiceForwardPart ==
  ASSUME OwnServices, PointInv, ChannelInv, TakeBackInv, ForwardInv, [Next]_vars,
         NEW k \in Callers, StatusMoves(k), RegisterNextService(k)
  PROVE  ForwardPart(k)
<1>1. /\ call[k].pc = "job" /\ job[k].op = "register" /\ UNCHANGED handlers
  BY DEF RegisterNextService, queueAndVsomeip
<1>2. /\ call[k].t \in Transports /\ Own(k) /\ StatusInv /\ Registers(k)
      /\ \A s \in job[k].todo : ServiceConfig(s) \in Configs
  BY <1>1, JobKnows DEF TakeBackInv, ForwardInv
<1>3. PICK t \in Transports : t = call[k].t
  BY <1>2
<1>4. PICK s \in job[k].todo :
        /\ Register(t, ServiceConfig(s))
        /\ \/ \E id \in Granted(t) :
                 /\ call' = [call EXCEPT ![k] = Sending("RegisterListener", t, ServiceConfig(s), id)]
                 /\ job' = [job EXCEPT ![k].todo = @ \ {s}]
                 /\ UNCHANGED status
           \/ Return(k) /\ RegistrationEnds(t, "failed")
  BY <1>3 DEF RegisterNextService, Granted
<1>5. Kept /\ ServiceConfig(s) \in Configs
  BY <1>2, <1>4, WhatKeeps
<1>6. CASE Return(k) /\ RegistrationEnds(t, "failed")
  <2>1. \A u \in Transports : status'[u] = "registered" => status[u] = "registered"
    BY <1>2, <1>6 DEF RegistrationEnds, StatusInv
  <2>2. QED
    BY <1>1, <1>5, <1>6, <2>1, ReturnLeaves, OthersForwardPart
<1>7. ASSUME NEW id \in Granted(t),
             call' = [call EXCEPT ![k] = Sending("RegisterListener", t, ServiceConfig(s), id)],
             job' = [job EXCEPT ![k].todo = @ \ {s}], UNCHANGED status
      PROVE  ForwardPart(k)
  <2>1. call'[k] = Sending("RegisterListener", t, ServiceConfig(s), id)
    BY <1>7, OneCallReplaced
  <2>2. /\ call'[k].op = "RegisterListener" /\ call'[k].pc = "send" /\ call'[k].t = t
        /\ call'[k].config = ServiceConfig(s) /\ call'[k].id = id /\ call'[k].reply = None
    BY <2>1, JobFields
  <2>3. Leaves(k)'
    BY <2>2, NoTaking, LeavesWithout
  <2>4. job'[k].todo = job[k].todo \ {s}
    BY <1>7 DEF PointInv, JobInv, Jobs
  <2>5. id \in Ids /\ listenerConfigs'[t][id] = ServiceConfig(s)
    BY <1>4, <1>5, <1>7, RegisterEffect DEF Granted, PointInv
  <2>6. CASE ~Quiet(t)'
    <3>1. Registers(k)'
      BY <2>2, <2>6 DEF Registers, Quiet
    <3>2. QED
      BY <1>1, <1>5, <1>7, <2>3, <3>1 DEF ForwardPart
  <2>7. CASE Quiet(t)'
    <3>1. Quiet(t)
      BY <2>7, QuietBefore
    <3>2. job[k].todo \subseteq Services[t] /\ call[k].op # "RegisterListener"
      BY <1>1, <1>2, <1>3, <3>1 DEF Registers
    <3>3. ASSUME NEW v \in Services[t] \ (job[k].todo \ {s}), v # s
          PROVE  Standing(t, ServiceConfig(v))'
      <4>1. Standing(t, ServiceConfig(v))
        BY <1>1, <1>2, <1>3, <3>1, <3>2, <3>3 DEF Registers
      <4>2. ServiceConfig(v) \notin {None} \cup Ordinary
        BY <1>1, <1>3, <3>3, RegistrationFacts
      <4>3. QED
        BY <1>1, <1>5, <2>7, <4>1, <4>2, KeptStands
    <3>4. s \in Services[t] /\ None # "Ok"
      BY <3>2, NotNone
    <3>5. Registers(k)'
      BY <2>2, <2>4, <2>5, <3>2, <3>3, <3>4 DEF Registers, Standing
    <3>6. QED
      BY <1>1, <1>5, <1>7, <2>3, <3>5 DEF ForwardPart
  <2>8. QED
    BY <2>6, <2>7
<1>8. QED
  BY <1>4, <1>6, <1>7

\* An unregistration disturbs its transport from its beginning on.
LEMMA UnregistrationForwardPart ==
  ASSUME PointInv, ChannelInv, TakeBackInv, ForwardInv, [Next]_vars, NEW k \in Callers,
         StatusMoves(k), UnregisterNextService(k) \/ ReleaseService(k)
  PROVE  ForwardPart(k)
<1>1. /\ call[k].pc \in {"job", "release"} /\ job[k].op = "unregister"
      /\ UNCHANGED status
  BY DEF UnregisterNextService, ReleaseService
<1>2. call[k].t \in Transports /\ Own(k)
  BY <1>1, JobTransport, NotNone DEF TakeBackInv
<1>3. PICK t \in Transports : t = call[k].t
  BY <1>2
<1>4. ~Quiet(t)'
  BY <1>1, <1>2, <1>3 DEF Own, Quiet
<1>5. CASE UnregisterNextService(k)
  <2>1. PICK s : call' = [call EXCEPT ![k] = Sending("UnregisterListener", t, ServiceConfig(s), None)]
    BY <1>3, <1>5 DEF UnregisterNextService
  <2>2. call'[k] = Sending("UnregisterListener", t, ServiceConfig(s), None)
    BY <2>1, OneCallReplaced
  <2>3. call'[k].t = t
    BY <2>2, JobFields
  <2>4. job'[k].op = "unregister"
    BY <1>1, <1>5 DEF UnregisterNextService, PointInv, JobInv, Jobs
  <2>5. Kept
    BY <1>5, WhatKeeps DEF UnregisterNextService, vars, registry
  <2>6. QED
    BY <1>1, <1>4, <2>3, <2>4, <2>5, LeavesWithout, OthersForwardPart
<1>6. CASE ReleaseService(k)
  <2>1. call[k].config \in Configs
    BY <1>6 DEF ReleaseService, PointInv, PointCallInv, Purposeful
  <2>2. PICK c \in Configs : c = call[k].config
    BY <2>1
  <2>3. Unregister(t, c) /\ call' = [call EXCEPT ![k] = Busy(t)] /\ UNCHANGED job
    BY <1>3, <1>6, <2>2 DEF ReleaseService
  <2>4. Kept /\ call'[k] = Busy(t)
    BY <1>4, <2>3, WhatKeeps, OneCallReplaced
  <2>5. call'[k].t = t
    BY <2>4, JobFields
  <2>6. QED
    BY <1>1, <1>4, <2>3, <2>4, <2>5, LeavesWithout, OthersForwardPart
<1>7. QED
  BY <1>5, <1>6

\* send takes nothing back.
LEMMA SendForwardPart ==
  ASSUME PointInv, TakeBackInv, ForwardInv, [Next]_vars, NEW k \in Callers, StatusMoves(k),
         \/ \E t \in Transports : \E m \in MessagesFor[k] : Send(k, t, m)
         \/ SendNext(k)
  PROVE  ForwardPart(k)
<1>1. CASE SendNext(k)
  <2>1. /\ call[k].pc = "job" /\ job[k].op = "send" /\ UNCHANGED <<job, status>>
        /\ UNCHANGED listenerConfigs
        /\ call' = [call EXCEPT ![k] = Sending("Send", call[k].t, job[k].msg, None)]
    BY <1>1 DEF SendNext, vars, registry
  <2>2. call'[k] = Sending("Send", call[k].t, job[k].msg, None)
    BY <2>1, OneCallReplaced
  <2>3. call'[k].op = "Send" /\ call'[k].pc = "send"
    BY <2>2, JobFields
  <2>4. Leaves(k)' /\ Kept
    BY <2>1, <2>3, NoTaking, LeavesWithout, WhatKeeps
  <2>5. QED
    BY <2>1, <2>4, OthersForwardPart
<1>2. ASSUME NEW t \in Transports, NEW m \in MessagesFor[k], Send(k, t, m)
      PROVE  ForwardPart(k)
  <2>1. call[k].pc = "idle" /\ UNCHANGED status
    BY <1>2 DEF Send
  <2>2. job[k].op = None
    BY <2>1 DEF TakeBackInv, Own
  <2>3. Kept
    <3>1. TypeOf(m) = "Request" => ResponseConfig(m) \in Configs
      BY JobConfigs
    <3>2. CASE UNCHANGED vars
      BY <3>2, WhatKeeps DEF vars, registry
    <3>3. CASE Register(t, ResponseConfig(m)) /\ TypeOf(m) = "Request"
      BY <3>1, <3>3, WhatKeeps
    <3>4. QED
      BY <1>2, <3>2, <3>3 DEF Send
  <2>4. CASE UNCHANGED <<call, job>>
    <3>1. CASE Disturbs(call[k])
      <4>1. \E u \in Transports : call'[k].t = u /\ ~Quiet(u)'
        BY <2>4, <3>1, StillDisturbed
      <4>2. QED
        BY <2>1, <2>2, <2>3, <2>4, <4>1, NotNone, LeavesWithout, OthersForwardPart
    <3>2. CASE ~Disturbs(call[k])
      BY <2>1, <2>2, <2>3, <2>4, <3>2, NotNone, LeavesWithout, OthersForwardPart
    <3>3. QED
      BY <3>1, <3>2
  <2>5. ASSUME NEW op \in {"Send", "RegisterListener"}, NEW c, NEW id, NEW b,
               call' = [call EXCEPT ![k] = Sending(op, t, c, id)],
               job' = [job EXCEPT ![k] = b], b.op = "send"
        PROVE  ForwardPart(k)
    <3>1. call'[k] = Sending(op, t, c, id) /\ job'[k] = b
      BY <2>5, OneCallReplaced DEF PointInv, JobInv
    <3>2. call'[k].op = op /\ call'[k].pc = "send"
      BY <3>1, JobFields
    <3>3. Leaves(k)'
      BY <2>5, <3>2, NoTaking, LeavesWithout
    <3>4. QED
      BY <2>1, <2>3, <2>5, <3>1, <3>3, OthersForwardPart
  <2>6. CASE SendCommand(k, t, m)
    <3> DEFINE b == [JobOf("send", {}) EXCEPT !.msg = m, !.p2p = p2p[t]]
    <3>1. b.op = "send"
      BY DEF JobOf, NoJob
    <3>2. job' = [job EXCEPT ![k] = b] /\ call' = [call EXCEPT ![k] = Sending("Send", t, m, None)]
      BY <2>6 DEF SendCommand
    <3> HIDE DEF b
    <3>3. QED
      BY <2>5, <3>1, <3>2
  <2>7. ASSUME NEW id \in Granted(t),
               call' = [call EXCEPT ![k] = Sending("RegisterListener", t, ResponseConfig(m), id)],
               job' = [job EXCEPT ![k] = [JobOf("send", {}) EXCEPT !.msg = m, !.p2p = TRUE]]
        PROVE  ForwardPart(k)
    <3> DEFINE b == [JobOf("send", {}) EXCEPT !.msg = m, !.p2p = TRUE]
    <3>1. b.op = "send"
      BY DEF JobOf, NoJob
    <3>2. job' = [job EXCEPT ![k] = b]
      BY <2>7
    <3> HIDE DEF b
    <3>3. QED
      BY <2>5, <2>7, <3>1, <3>2
  <2>8. QED
    BY <1>2, <2>4, <2>6, <2>7 DEF Send
<1>3. QED
  BY <1>1, <1>2

\* A registration goes on when its service stands; what fails or times out ends it.
LEMMA JobResultForwardPart ==
  ASSUME OwnServices, PointInv, ChannelInv, TakeBackInv, ForwardInv, [Next]_vars,
         NEW k \in Callers, StatusMoves(k), NEW reply, call[k].pc = "await", JobResult(k, reply),
         job[k].op # None, UNCHANGED listenerConfigs, UNCHANGED handlers,
         reply = "Ok" => call[k].reply = "Ok"
  PROVE  ForwardPart(k)
<1>1. Own(k) /\ Registers(k) /\ StatusInv /\ call[k].t \in Transports /\ Kept
  BY JobTransport, WhatKeeps DEF TakeBackInv, ForwardInv
<1>2. PICK t \in Transports : t = call[k].t
  BY <1>1
<1>3. call[k] \in PointCalls /\ job[k] \in Jobs
  BY DEF PointInv, PointCallInv, JobInv
<1>4. Quiet(t)' => Quiet(t)
  BY QuietBefore
<1>5. CASE /\ call[k].op = "RegisterListener" /\ reply = "Ok"
           /\ call' = [call EXCEPT ![k] = Busy(t)] /\ UNCHANGED <<job, status>>
  <2>1. call'[k] = Busy(t) /\ job'[k] = job[k] /\ call[k].reply = "Ok"
    BY <1>5, OneCallReplaced
  <2>2. call'[k].op = None /\ call'[k].pc = "job" /\ call'[k].t = t
    BY <2>1, JobFields
  <2>3. Leaves(k)'
    BY <2>2, NoTaking, LeavesWithout
  <2>4. Registers(k)'
    <3>1. CASE ~(job[k].op = "register" /\ Quiet(t)')
      BY <2>1, <2>2, <3>1 DEF Registers, Quiet
    <3>2. CASE job[k].op = "register" /\ Quiet(t)'
      <4>1. ASSUME NEW s \in Services[t] \ job[k].todo PROVE Standing(t, ServiceConfig(s))'
        <5>1. Standing(t, ServiceConfig(s))
          BY <1>1, <1>2, <1>4, <1>5, <2>1, <3>2, <4>1 DEF Registers
        <5>2. ServiceConfig(s) \notin {None} \cup Ordinary
          BY <1>2, <3>2, <4>1, RegistrationFacts
        <5>3. QED
          BY <1>1, <3>2, <5>1, <5>2, KeptStands
      <4>2. job[k].todo \subseteq Services[t]
        BY <1>1, <1>2, <1>4, <3>2 DEF Registers
      <4>3. QED
        BY <2>1, <2>2, <4>1, <4>2, NotNone DEF Registers, Standing
    <3>3. QED
      BY <3>1, <3>2
  <2>5. QED
    BY <1>1, <1>5, <2>1, <2>3, <2>4, NotNone DEF ForwardPart
<1>6. CASE /\ call[k].op = "UnregisterListener" /\ call'[k].t = t /\ UNCHANGED status
           /\ job'[k].op = job[k].op /\ (Disturbs(call'[k]) => Taking(call[k]))
  <2>1. Leaves(k)'
    BY <1>2, <1>6, StillDisturbed, LeavesWithout DEF Disturbs
  <2>2. job[k].op = "register" => ~Quiet(t)'
    BY <1>1, <1>2, <1>4, <1>6, NotNone DEF Registers
  <2>3. Registers(k)'
    BY <1>6, <2>2 DEF Registers, Quiet
  <2>4. QED
    BY <1>1, <1>2, <1>6, <2>1, <2>2, <2>3 DEF ForwardPart
<1>7. CASE /\ Return(k)
           /\ IF job[k].op = "register" THEN RegistrationEnds(t, "failed") ELSE UNCHANGED status
  <2>1. Leaves(k)' /\ Registers(k)'
    BY <1>7, ReturnLeaves DEF Registers
  <2>2. job[k].op = "register" => ~Quiet(t)'
    BY <1>1, <1>2, <1>7 DEF RegistrationEnds, StatusInv, Own, Quiet
  <2>3. \A u \in Transports : status'[u] = "registered" => status[u] = "registered"
    BY <1>1, <1>7 DEF RegistrationEnds, StatusInv
  <2>4. QED
    BY <1>1, <1>2, <2>1, <2>2, <2>3 DEF ForwardPart
<1>8. CASE call[k].op = "Send" /\ Return(k) /\ UNCHANGED status
  <2>1. Leaves(k)' /\ Registers(k)'
    BY <1>8, ReturnLeaves DEF Registers
  <2>2. job[k].op = "register" => ~Quiet(t)'
    BY <1>1, <1>2, <1>4, <1>8, NotNone DEF Registers
  <2>3. QED
    BY <1>1, <1>2, <1>8, <2>1, <2>2 DEF ForwardPart
<1>9. ASSUME call' = [call EXCEPT ![k] = Busy(t)]
      PROVE  call'[k].t = t /\ ~Disturbs(call'[k])
  <2>1. call'[k] = Busy(t)
    BY <1>9, OneCallReplaced
  <2>2. QED
    BY <2>1, JobFields, NoTaking
<1>10. ASSUME call' = [call EXCEPT ![k].pc = "release", ![k].reply = None]
       PROVE  /\ call'[k].t = t
              /\ Disturbs(call'[k]) /\ call[k].op = "UnregisterListener" => Taking(call[k])
  <2>1. /\ call'[k].t = t /\ call'[k].op = call[k].op /\ call'[k].config = call[k].config
        /\ call'[k].pc = "release"
    BY <1>2, <1>3, <1>10 DEF PointInv, PointCallInv, PointCalls
  <2>2. QED
    BY <2>1 DEF Disturbs, Taking
<1>11. ASSUME NEW owed, job' = [job EXCEPT ![k].owed = owed] PROVE job'[k].op = job[k].op
  BY <1>3, <1>11 DEF PointInv, JobInv, Jobs
<1>12. QED
  BY <1>2, <1>5, <1>6, <1>7, <1>8, <1>9, <1>10, <1>11 DEF JobResult

\* The result of a command of a job, or its timeout.
LEMMA JobReplyForwardPart ==
  ASSUME OwnServices, PointInv, ChannelInv, TakeBackInv, ForwardInv, [Next]_vars,
         NEW k \in Callers, StatusMoves(k), JobReply(k) \/ JobTimeout(k)
  PROVE  ForwardPart(k)
<1>1. /\ call[k].pc = "await" /\ job[k].op # None /\ UNCHANGED listenerConfigs
      /\ UNCHANGED handlers
  BY DEF JobReply, JobTimeout, vars, registry, queueAndVsomeip
<1>2. CASE JobReply(k)
  <2>1. JobResult(k, call[k].reply)
    BY <1>2 DEF JobReply
  <2>2. QED
    BY <1>1, <2>1, JobResultForwardPart
<1>3. CASE JobTimeout(k)
  <2>1. JobResult(k, "DEADLINE_EXCEEDED")
    BY <1>3 DEF JobTimeout
  <2>2. QED
    BY <1>1, <2>1, JobResultForwardPart
<1>4. QED
  BY <1>2, <1>3

\* Whatever a caller does.
LEMMA CallerKeepsForwarding ==
  ASSUME OwnServices, PointInv, ChannelInv, TakeBackInv, ForwardInv, [Next]_vars,
         NEW k \in Callers,
         \/ \E t \in Transports :
               \/ PlainCall(k, t) /\ UNCHANGED <<p2p, job, history>>
               \/ RegisterP2P(k, t) \/ UnregisterP2P(k, t)
               \/ \E m \in MessagesFor[k] : Send(k, t, m)
         \/ JobStep(k) \/ Timeout(k)
  PROVE  ForwardInv'
<1>1. CASE \E t \in Transports :
              \/ PlainCall(k, t) /\ UNCHANGED <<p2p, job, history>>
              \/ RegisterP2P(k, t) \/ UnregisterP2P(k, t)
  <2>1. Moves(k) /\ StatusMoves(k)
    BY <1>1, LifeCallsOwnPart, OrdinaryCallOwnPart, JobBeginOwnPart DEF OwnPart, PlainCall
  <2>2. ForwardPart(k)
    BY <1>1, <2>1, LifeCallsForwardPart, OrdinaryCallForwardPart, JobBeginForwardPart
    DEF PlainCall
  <2>3. QED
    BY <2>1, <2>2, MovesKeepForwarding
<1>2. CASE \/ \E t \in Transports : \E m \in MessagesFor[k] : Send(k, t, m)
           \/ SendNext(k)
  <2>1. Moves(k) /\ StatusMoves(k)
    BY <1>2, SendOwnPart, SendNextOwnPart DEF OwnPart
  <2>2. ForwardPart(k)
    BY <1>2, <2>1, SendForwardPart
  <2>3. QED
    BY <2>1, <2>2, MovesKeepForwarding
<1>3. CASE (JobStep(k) \/ Timeout(k)) /\ ~SendNext(k)
  <2>1. Moves(k) /\ StatusMoves(k)
    BY <1>3, RegisterNextServiceOwnPart, JobEndOwnPart, UnregisterNextServiceOwnPart,
       ReleaseServiceOwnPart, JobReplyOwnPart, PlainStepOwnPart
    DEF JobStep, Timeout, OwnPart
  <2>2. ForwardPart(k)
    BY <1>3, <2>1, RegisterNextServiceForwardPart, JobEndForwardPart, UnregistrationForwardPart,
       JobReplyForwardPart, PlainStepForwardPart
    DEF JobStep, Timeout
  <2>3. QED
    BY <2>1, <2>2, MovesKeepForwarding
<1>4. QED
  BY <1>1, <1>2, <1>3 DEF JobStep

\* Every step keeps the invariant.
LEMMA ForwardingInductive ==
  ASSUME OwnServices, ServicesApart, PointInv, ChannelInv, TakeBackInv, ForwardInv,
         [PointNext]_pvars
  PROVE  ForwardInv'
<1>1. [Next]_vars
  BY PointNextIsRegistryStep DEF PointStep
<1>2. CASE UNCHANGED pvars
  <2>1. UNCHANGED <<queue, call, handlers, job, status, listenerConfigs, phase>>
    BY <1>2 DEF pvars, evars, engineVars, vars, registry, lifecycle
  <2>2. ASSUME NEW k \in Callers PROVE Leaves(k)' /\ Registers(k)'
    <3>1. Leaves(k) /\ Registers(k)
      BY DEF ForwardInv
    <3>2. QED
      BY <2>1, <3>1 DEF Leaves, Disturbs, Taking, Registers, Standing, Quiet
  <2>3. ASSUME NEW t \in Transports PROVE QuietChannel(t)' /\ Forwarded(t)'
    <3>1. QuietChannel(t) /\ Forwarded(t)
      BY DEF ForwardInv
    <3>2. QED
      BY <2>1, <3>1 DEF QuietChannel, Taking, Forwarded, Standing, Quiet, Installs
  <2>4. QED
    BY <2>2, <2>3 DEF ForwardInv
<1>3. QED
  BY <1>1, <1>2, SendingKeepsForwarding, EngineKeepsForwarding, CallerKeepsForwarding
  DEF PointNext

\* Initially there are no commands, no jobs and no listener.
LEMMA InitEstablishesForwarding == PointInit => ForwardInv
<1> SUFFICES ASSUME PointInit PROVE ForwardInv
  OBVIOUS
<1>1. /\ queue = [t \in Transports |-> <<>>] /\ call = [k \in Callers |-> Returned]
      /\ job = [k \in Callers |-> NoJob] /\ status = [t \in Transports |-> "none"]
  BY DEF PointInit, EngineInit
<1>2. ASSUME NEW t \in Transports PROVE QuietChannel(t) /\ Forwarded(t)
  BY <1>1 DEF QuietChannel, Forwarded
<1>3. ASSUME NEW k \in Callers PROVE Leaves(k) /\ Registers(k)
  <2>1. call[k].op = None /\ call[k].pc = "idle" /\ job[k].op = None
    BY <1>1, JobFields
  <2>2. QED
    BY <2>1, NoTaking, NotNone DEF Leaves, Registers
<1>4. QED
  BY <1>2, <1>3 DEF ForwardInv

\* Once register_point_to_point_listener has succeeded, vsomeip has the handler of
\* the listener for every configured service, until it is unregistered or the
\* transport dropped: a failed or late command of another call, a response
\* registered by send and a registration given up never take one away or put
\* another in its place.  The transports have applications of their own, no
\* response and no other listener has the address of a configured service, and the
\* services of one configuration file have addresses of their own.
THEOREM EveryServiceIsForwarded ==
  ASSUME OwnServices, ServicesApart
  PROVE  PointSpec => []EveryServiceForwarded
<1> DEFINE Inv == PointInv /\ ChannelInv /\ TakeBackInv /\ ForwardInv
<1>1. PointInit => Inv
  BY PointInitEstablishesInv, InitEstablishesTakeBack, InitEstablishesForwarding
<1>2. Inv /\ [PointNext]_pvars => Inv'
  BY PointNextIsRegistryStep, NextKeepsIInv, TakeBackInductive, ForwardingInductive
  DEF PointInv, PointStep
<1>3. Inv => EveryServiceForwarded
  <2> SUFFICES ASSUME Inv, NEW t \in Transports, status[t] = "registered", Usable(t),
                      NEW s \in Services[t]
               PROVE  Installed(t, ServiceConfig(s))
    BY DEF EveryServiceForwarded
  <2>1. Quiet(t)
    BY DEF Quiet, Usable
  <2>2. Standing(t, ServiceConfig(s))
    BY <2>1 DEF ForwardInv, Forwarded
  <2>3. QED
    BY <2>2, NoneAssumption DEF Standing, Installed
<1> HIDE DEF Inv
<1>4. QED
  BY <1>1, <1>2, <1>3, PTL DEF PointSpec

-----------------------------------------------------------------------------
(* The applications of transports in use.                                  *)

\* Nobody drops t.
Open(t) == phase[t] \notin {"dropping", "gone"}

ServiceConfigs == {ServiceConfig(s) : s \in AllServices}

\* A call or a command that stops nothing and takes back services, or what other
\* callers listen to.
Spares(r) ==
    /\ r.op # "StopVsomeipApp"
    /\ r.op = "UnregisterListener" => r.config \in ServiceConfigs \cup Ordinary

\* What a caller does with a transport that nobody drops.
Serves(k) ==
    /\ call[k].pc = "idle" => call[k] = Returned
    /\ call[k].op = "Send" => job[k].op = "send"
    /\ job[k].op # None => call[k].op # "StartVsomeipApp"
    /\ \A t \in Transports : call[k].t = t =>
          /\ job[k].op = "send" => phase[t] = "live"
          /\ Open(t) => call[k].pc # "drop" /\ Spares(call[k])

\* A transport that is constructed or dropped has one user.
Users(t) ==
    /\ \A k \in Callers : call[k].t = t => phase[t] # "absent"
    /\ \A j, k \in Callers : call[j].t = t /\ call[k].t = t =>
          j = k \/ (phase[t] = "live" /\ call[k].op # "StartVsomeipApp")

\* Its application runs once its constructor has had its answer.
Started(t) ==
    Open(t) =>
        \/ AppName[t] \in apps
        \/ /\ \A i \in DOMAIN queue[t] : queue[t][i].op = "StartVsomeipApp"
           /\ \A k \in Callers : call[k].t = t =>
                 call[k].op = "StartVsomeipApp" /\ call[k].reply # "Ok"
           /\ phase[t] = "live" => \E k \in Callers : call[k].t = t

Spared(t) == Open(t) => \A i \in DOMAIN queue[t] : Spares(queue[t][i])

LifeInv ==
    /\ \A k \in Callers : Serves(k)
    /\ \A t \in Transports : Users(t) /\ Started(t) /\ Spared(t)

\* Caller k goes on with t, or begins to use it.
Continues(k, t) ==
    /\ phase'[t] = phase[t]
    /\ call'[k].t = t => (call[k].t = t \/ Usable(t)) /\ call'[k].op # "StartVsomeipApp"
    /\ call[k].t = t /\ call[k].op = "StartVsomeipApp" /\ Open(t) => call[k].reply = "Ok"

Constructs(k, t) ==
    /\ phase[t] = "absent" /\ phase'[t] = "live"
    /\ call'[k].t = t /\ call'[k].op = "StartVsomeipApp" /\ call'[k].reply # "Ok"

\* It drops t, which nobody else uses.
Leaving(k, t) ==
    phase'[t] \in {"dropping", "gone"} /\ \A j \in Callers : j # k => call[j].t # t

\* What a step of caller k must do to its own part of the invariant.
LifePart(k) ==
    /\ UNCHANGED apps /\ Serves(k)'
    /\ \A t \in Transports : Continues(k, t) \/ Constructs(k, t) \/ Leaving(k, t)

\* A transport that can be used has its application.
LEMMA UsableStarted ==
  ASSUME LifeInv, NEW t \in Transports, Usable(t)
  PROVE  AppName[t] \in apps
<1>1. phase[t] = "live" /\ \A k \in Callers : ~(call[k].t = t /\ call[k].op = "StartVsomeipApp")
  BY DEF Usable
<1>2. Started(t) /\ Open(t)
  BY <1>1 DEF LifeInv, Open
<1>3. QED
  BY <1>1, <1>2 DEF Started

\* A caller that moves and has its own part in order keeps the invariant.
LEMMA MovesKeepLife ==
  ASSUME PointInv, ChannelInv, LifeInv, [Next]_vars, NEW k \in Callers, Moves(k), LifePart(k)
  PROVE  LifeInv'
<1>1. /\ \A j \in Callers : j # k => call'[j] = call[j] /\ job'[j] = job[j]
      /\ UNCHANGED apps
  BY DEF Moves, LifePart
<1>2. ASSUME NEW t \in Transports, Open(t)' PROVE Open(t)
  BY <1>2, DroppedStays DEF PointInv, IInv, Open
<1>3. ASSUME NEW t \in Transports
      PROVE  /\ Users(t) /\ Started(t) /\ Spared(t)
             /\ Continues(k, t) \/ Constructs(k, t) \/ Leaving(k, t)
  BY DEF LifeInv, LifePart
<1>4. ASSUME NEW j \in Callers, j # k PROVE Serves(j)'
  <2>1. Serves(j) /\ call'[j] = call[j] /\ job'[j] = job[j]
    BY <1>1, <1>4 DEF LifeInv
  <2>2. ASSUME NEW t \in Transports, call[j].t = t, job[j].op = "send" PROVE phase'[t] = "live"
    <3>1. phase[t] = "live"
      BY <2>1, <2>2 DEF Serves
    <3>2. QED
      BY <1>3, <1>4, <2>2, <3>1 DEF Continues, Constructs, Leaving
  <2>3. ASSUME NEW t \in Transports, call[j].t = t, Open(t)'
        PROVE  call[j].pc # "drop" /\ Spares(call[j])
    BY <1>2, <2>1, <2>3 DEF Serves
  <2>4. QED
    BY <2>1, <2>2, <2>3 DEF Serves, Spares
<1>5. ASSUME NEW t \in Transports PROVE Users(t)'
  <2>1. CASE Continues(k, t)
    <3>1. ASSUME NEW j \in Callers, call'[j].t = t PROVE phase'[t] # "absent"
      <4>1. CASE j = k
        BY <1>3, <2>1, <3>1, <4>1 DEF Users, Continues, Usable
      <4>2. CASE j # k
        BY <1>1, <1>3, <2>1, <3>1, <4>2 DEF Users, Continues
      <4>3. QED
        BY <4>1, <4>2
    <3>2. ASSUME NEW i \in Callers, NEW j \in Callers, call'[i].t = t, call'[j].t = t, i # j
          PROVE  phase'[t] = "live" /\ call'[j].op # "StartVsomeipApp"
      <4>1. CASE j = k
        <5>1. call[i].t = t /\ call'[k].op # "StartVsomeipApp"
          BY <1>1, <2>1, <3>2, <4>1 DEF Continues
        <5>2. phase[t] = "live"
          BY <1>3, <2>1, <3>2, <4>1, <5>1 DEF Continues, Users, Usable
        <5>3. QED
          BY <2>1, <4>1, <5>1, <5>2 DEF Continues
      <4>2. CASE j # k
        <5>1. call[j].t = t /\ call'[j] = call[j]
          BY <1>1, <3>2, <4>2
        <5>2. CASE i = k
          BY <1>3, <2>1, <3>2, <5>1, <5>2 DEF Continues, Users, Usable
        <5>3. CASE i # k
          BY <1>1, <1>3, <2>1, <3>2, <5>1, <5>3 DEF Continues, Users
        <5>4. QED
          BY <5>2, <5>3
      <4>3. QED
        BY <4>1, <4>2
    <3>3. QED
      BY <3>1, <3>2 DEF Users
  <2>2. CASE Constructs(k, t)
    <3>1. \A j \in Callers : call[j].t # t
      BY <1>3, <2>2 DEF Users, Constructs
    <3>2. \A j \in Callers : call'[j].t = t => j = k
      BY <1>1, <3>1
    <3>3. QED
      BY <2>2, <3>2 DEF Users, Constructs
  <2>3. CASE Leaving(k, t)
    <3>1. \A j \in Callers : call'[j].t = t => j = k
      BY <1>1, <2>3 DEF Leaving
    <3>2. QED
      BY <2>3, <3>1 DEF Users, Leaving
  <2>4. QED
    BY <1>3, <2>1, <2>2, <2>3
<1>6. ASSUME NEW t \in Transports PROVE Spared(t)'
  <2> SUFFICES ASSUME Open(t)', NEW i \in DOMAIN queue'[t] PROVE Spares(queue'[t][i])
    BY DEF Spared, Spares
  <2>1. /\ i \in DOMAIN queue[t] /\ queue'[t][i].op = queue[t][i].op
        /\ queue'[t][i].config = queue[t][i].config
    BY DEF Moves, SameCommands
  <2>2. Spares(queue[t][i])
    BY <1>2, <1>3, <2>1 DEF Spared
  <2>3. QED
    BY <2>1, <2>2 DEF Spares
<1>7. ASSUME NEW t \in Transports PROVE Started(t)'
  <2> SUFFICES ASSUME Open(t)', AppName[t] \notin apps
               PROVE  /\ \A i \in DOMAIN queue'[t] : queue'[t][i].op = "StartVsomeipApp"
                      /\ \A j \in Callers : call'[j].t = t =>
                            call'[j].op = "StartVsomeipApp" /\ call'[j].reply # "Ok"
                      /\ phase'[t] = "live" => \E j \in Callers : call'[j].t = t
    BY <1>1 DEF Started
  <2>1. /\ \A i \in DOMAIN queue[t] : queue[t][i].op = "StartVsomeipApp"
        /\ \A j \in Callers : call[j].t = t =>
              call[j].op = "StartVsomeipApp" /\ call[j].reply # "Ok"
        /\ phase[t] = "live" => \E j \in Callers : call[j].t = t
    BY <1>2, <1>3 DEF Started
  <2>2. \A i \in DOMAIN queue'[t] : queue'[t][i].op = "StartVsomeipApp"
    BY <2>1 DEF Moves, SameCommands
  <2>3. CASE Constructs(k, t)
    <3>1. ASSUME NEW j \in Callers, call'[j].t = t, j # k PROVE FALSE
      BY <1>1, <1>3, <2>3, <3>1 DEF Constructs, Users
    <3>2. QED
      BY <2>2, <2>3, <3>1 DEF Constructs
  <2>4. CASE Continues(k, t)
    <3>1. call[k].t # t
      BY <1>2, <2>1, <2>4 DEF Continues
    <3>2. ~Usable(t)
      BY UsableStarted
    <3>3. call'[k].t # t
      BY <2>4, <3>1, <3>2 DEF Continues
    <3>4. QED
      BY <1>1, <2>1, <2>2, <2>4, <3>1, <3>3 DEF Continues
  <2>5. ~Leaving(k, t)
    BY DEF Leaving, Open
  <2>6. QED
    BY <1>3, <2>3, <2>4, <2>5
<1>8. Serves(k)'
  BY DEF LifePart
<1>9. QED
  BY <1>4, <1>5, <1>6, <1>7, <1>8 DEF LifeInv

\* A command is sent.
LEMMA SendingKeepsLife ==
  ASSUME PointInv, ChannelInv, LifeInv, NEW k \in Callers, Enqueue(k),
         UNCHANGED <<p2p, job, history>>
  PROVE  LifeInv'
<1>1. PICK t \in Transports : t = call[k].t
  BY SentCommand
<1>1a. SentAt(k, t)
  BY <1>1, SentCommand
<1>2. PICK n \in Nat :
        /\ n \notin DOMAIN queue[t]
        /\ DOMAIN queue'[t] = DOMAIN queue[t] \cup {n}
        /\ \A i \in DOMAIN queue[t] : i \in Nat /\ i < n /\ queue'[t][i] = queue[t][i]
        /\ queue'[t][n] =
              [op |-> call[k].op, config |-> call[k].config, id |-> call[k].id, caller |-> k]
  BY <1>1a DEF SentAt
<1>3. /\ call[k].pc = "send" /\ UNCHANGED <<apps, phase>>
      /\ \A u \in Transports : u # t => queue'[u] = queue[u]
  BY <1>1, SentCommand DEF Enqueue, vars, registry, lifecycle
<1>4. /\ \A j \in Callers : j # k => call'[j] = call[j]
      /\ \A j \in Callers : /\ call'[j].op = call[j].op /\ call'[j].t = call[j].t
                            /\ call'[j].config = call[j].config
                            /\ call'[j].reply = call[j].reply
      /\ call'[k].pc = "await"
  BY SentCall
<1>5. ASSUME NEW u \in Transports PROVE Open(u)' = Open(u)
  BY <1>3 DEF Open
<1>6. ASSUME NEW j \in Callers PROVE Serves(j)'
  <2>1. Serves(j)
    BY DEF LifeInv
  <2>2. /\ call'[j].pc = "idle" => call'[j] = call[j]
        /\ call'[j].pc = "drop" => call[j].pc = "drop"
    BY <1>4
  <2>3. QED
    BY <1>3, <1>4, <1>5, <2>1, <2>2 DEF Serves, Spares
<1>7. ASSUME NEW u \in Transports PROVE Users(u)'
  BY <1>3, <1>4 DEF LifeInv, Users
<1>8. ASSUME NEW u \in Transports, NEW i \in DOMAIN queue'[u]
      PROVE  \/ i \in DOMAIN queue[u] /\ queue'[u][i] = queue[u][i]
             \/ /\ u = t /\ i = n /\ queue'[u][i].op = call[k].op
                /\ queue'[u][i].config = call[k].config
  BY <1>2, <1>3, <1>8
<1>9. ASSUME NEW u \in Transports PROVE Spared(u)'
  <2> SUFFICES ASSUME Open(u), NEW i \in DOMAIN queue'[u] PROVE Spares(queue'[u][i])
    BY <1>5 DEF Spared, Spares
  <2>1. Spares(call[k]) \/ u # t
    BY <1>1 DEF LifeInv, Serves
  <2>2. \A m \in DOMAIN queue[u] : Spares(queue[u][m])
    BY DEF LifeInv, Spared
  <2>3. QED
    BY <1>8, <2>1, <2>2 DEF Spares
<1>10. ASSUME NEW u \in Transports PROVE Started(u)'
  <2>1. Started(u)
    BY DEF LifeInv
  <2>2. QED
    BY <1>1, <1>3, <1>4, <1>5, <1>8, <2>1 DEF Started
<1>11. QED
  BY <1>6, <1>7, <1>9, <1>10 DEF LifeInv

\* What an engine does to the callers, and what it leaves alone.
LEMMA EngineAnswersCallers ==
  ASSUME ChannelInv, NEW t \in Transports, PointEngineStep(t), NEW reply, Takes(t, reply)
  PROVE  /\ UNCHANGED <<listenerConfigs, phase>>
         /\ \A j \in Callers :
               /\ call'[j].pc = call[j].pc /\ call'[j].op = call[j].op /\ call'[j].t = call[j].t
               /\ call'[j].config = call[j].config /\ call'[j].id = call[j].id
               /\ \/ call'[j] = call[j]
                  \/ call'[j].reply = reply /\ Awaits(call[j], t, queue[t][1])
<1>1. UNCHANGED <<listenerConfigs, phase>>
  BY DEF PointEngineStep, EngineStep, register_listener_internal, unregister_listener_internal,
         start_vsomeip_app_internal, stop_vsomeip_app_internal, EngineWithoutApp, send_internal,
         SendWithoutApp, TakeAndReply, vars, registry, lifecycle
<1>2. ASSUME NEW j \in Callers, j = queue[t][1].caller PROVE Awaits(call[j], t, queue[t][1])
  BY <1>2, EngineAssumption DEF ChannelInv, PointAwaited, Takes
<1>3. QED
  BY <1>1, <1>2 DEF Takes

\* The engine stops no application but that of a transport that is dropped, and has
\* one when a constructor succeeds.
LEMMA EngineKeepsLife ==
  ASSUME OwnServices, PointInv, ChannelInv, LifeInv, NEW t \in Transports, PointEngineStep(t),
         UNCHANGED <<p2p, job, history>>
  PROVE  LifeInv'
<1>1. PICK reply : Takes(t, reply) /\ Runs(t, reply)
  BY EngineTakesAndHandles
<1>2. /\ UNCHANGED phase
      /\ \A j \in Callers :
            /\ call'[j].pc = call[j].pc /\ call'[j].op = call[j].op /\ call'[j].t = call[j].t
            /\ call'[j].config = call[j].config
            /\ \/ call'[j] = call[j]
               \/ call'[j].reply = reply /\ Awaits(call[j], t, queue[t][1])
  BY <1>1, EngineAnswersCallers
<1>3. ASSUME NEW u \in Transports PROVE Open(u)' = Open(u)
  BY <1>2 DEF Open
<1>4. ASSUME NEW j \in Callers PROVE Serves(j)'
  <2>1. Serves(j) /\ (call[j].pc = "idle" => call'[j] = call[j])
    BY <1>2 DEF LifeInv, Awaits
  <2>2. QED
    BY <1>2, <1>3, <2>1 DEF Serves, Spares
<1>5. ASSUME NEW u \in Transports PROVE Users(u)'
  BY <1>2 DEF LifeInv, Users
<1>6. ASSUME NEW u \in Transports, NEW i \in DOMAIN queue'[u]
      PROVE  \E n \in DOMAIN queue[u] : queue'[u][i] = queue[u][n]
  BY <1>1, <1>6 DEF Takes
<1>7. ASSUME NEW u \in Transports PROVE Spared(u)'
  <2> SUFFICES ASSUME Open(u), NEW i \in DOMAIN queue'[u] PROVE Spares(queue'[u][i])
    BY <1>3 DEF Spared, Spares
  <2>1. QED
    BY <1>6 DEF LifeInv, Spared
<1>8. ASSUME NEW u \in Transports PROVE Started(u)'
  <2> SUFFICES ASSUME Open(u), AppName[u] \notin apps'
               PROVE  /\ \A i \in DOMAIN queue'[u] : queue'[u][i].op = "StartVsomeipApp"
                      /\ \A j \in Callers : call'[j].t = u =>
                            call'[j].op = "StartVsomeipApp" /\ call'[j].reply # "Ok"
                      /\ phase'[u] = "live" => \E j \in Callers : call'[j].t = u
    BY <1>3 DEF Started
  <2>1. AppName[u] \notin apps
    <3>1. CASE u = t
      <4>1. queue[t][1].op # "StopVsomeipApp"
        BY <1>1, <3>1 DEF LifeInv, Spared, Spares, Takes
      <4>2. QED
        BY <1>1, <3>1, <4>1 DEF Runs
    <3>2. CASE u # t
      BY <1>1, <3>2 DEF OwnServices, Runs
    <3>3. QED
      BY <3>1, <3>2
  <2>2. /\ \A i \in DOMAIN queue[u] : queue[u][i].op = "StartVsomeipApp"
        /\ \A j \in Callers : call[j].t = u =>
              call[j].op = "StartVsomeipApp" /\ call[j].reply # "Ok"
        /\ phase[u] = "live" => \E j \in Callers : call[j].t = u
    BY <2>1 DEF LifeInv, Started
  <2>3. ASSUME NEW j \in Callers, call[j].t = u, Awaits(call[j], t, queue[t][1]), reply = "Ok"
        PROVE  FALSE
    <3>1. u = t /\ queue[t][1].op = "StartVsomeipApp"
      BY <1>1, <2>2, <2>3 DEF Awaits, Takes
    <3>2. QED
      BY <1>1, <2>3, <3>1 DEF Runs
  <2>4. QED
    BY <1>2, <1>6, <2>2, <2>3
<1>9. QED
  BY <1>4, <1>5, <1>7, <1>8 DEF LifeInv

\* A caller goes on with its transport or returns.
LEMMA GoesOn ==
  ASSUME NEW k \in Callers, NEW t \in Transports, UNCHANGED <<apps, phase>>, call[k].t = t,
         call'[k].t \in {t, None}, call'[k].op # "StartVsomeipApp",
         call[k].op = "StartVsomeipApp" /\ Open(t) => call[k].reply = "Ok", Serves(k)'
  PROVE  LifePart(k)
<1>1. ASSUME NEW u \in Transports PROVE Continues(k, u)
  <2>1. u # None
    BY NoneAssumption
  <2>2. QED
    BY <2>1 DEF Continues
<1>2. QED
  BY <1>1 DEF LifePart

\* A caller that is idle begins to use a transport.
LEMMA BeginsUse ==
  ASSUME LifeInv, NEW k \in Callers, NEW t \in Transports, UNCHANGED <<apps, phase>>,
         call[k].pc = "idle", Usable(t), call'[k].t \in {t, None},
         call'[k].op # "StartVsomeipApp", Serves(k)'
  PROVE  LifePart(k)
<1>1. call[k].op = None
  BY DEF LifeInv, Serves, Returned
<1>2. "StartVsomeipApp" # None
  BY EngineAssumption DEF Ops
<1>3. ASSUME NEW u \in Transports PROVE Continues(k, u)
  <2>1. u # None
    BY NoneAssumption
  <2>2. QED
    BY <1>1, <1>2, <2>1 DEF Continues
<1>4. QED
  BY <1>3 DEF LifePart

\* A call with nothing in hand.
LEMMA ServesReturned ==
  ASSUME NEW k \in Callers, call'[k] = Returned
  PROVE  Serves(k)' /\ call'[k].t = None /\ call'[k].op # "StartVsomeipApp"
<1>1. /\ call'[k].op = None /\ call'[k].t = None
      /\ "StartVsomeipApp" # None /\ "Send" # None /\ \A t \in Transports : t # None
  BY NoneAssumption, NotNone, EngineAssumption DEF Returned, Ops
<1>2. QED
  BY <1>1 DEF Serves

\* A call with a command of a job or of an ordinary call, or between two.
LEMMA ServesJob ==
  ASSUME NEW k \in Callers, NEW t \in Transports, call'[k].t = t,
         call'[k].pc \notin {"idle", "drop"},
         call'[k].op \in {"RegisterListener", "UnregisterListener", "Send", None},
         call'[k].op = "UnregisterListener" => call'[k].config \in ServiceConfigs \cup Ordinary,
         call'[k].op = "Send" => job'[k].op = "send",
         job'[k].op = "send" => phase'[t] = "live"
  PROVE  Serves(k)' /\ call'[k].op # "StartVsomeipApp"
<1>1. /\ "StartVsomeipApp" # None /\ "Send" # None /\ "StopVsomeipApp" # None
      /\ "UnregisterListener" # None
  BY NotNone, EngineAssumption DEF Ops
<1>2. QED
  BY <1>1 DEF Serves, Spares

\* Every step of a caller but sending is a move.
LEMMA CallerMoves ==
  ASSUME OwnServices, PointInv, ChannelInv, TakeBackInv, NEW k \in Callers,
         \/ \E t \in Transports :
               \/ PlainCall(k, t) /\ UNCHANGED <<p2p, job, history>>
               \/ RegisterP2P(k, t) \/ UnregisterP2P(k, t)
               \/ \E m \in MessagesFor[k] : Send(k, t, m)
         \/ JobStep(k) \/ Timeout(k)
  PROVE  Moves(k)
<1>1. CASE \E t \in Transports :
              \/ PlainCall(k, t) /\ UNCHANGED <<p2p, job, history>>
              \/ RegisterP2P(k, t) \/ UnregisterP2P(k, t)
              \/ \E m \in MessagesFor[k] : Send(k, t, m)
  BY <1>1, LifeCallsOwnPart, OrdinaryCallOwnPart, JobBeginOwnPart, SendOwnPart
  DEF OwnPart, PlainCall
<1>2. CASE JobStep(k) \/ Timeout(k)
  BY <1>2, RegisterNextServiceOwnPart, JobEndOwnPart, UnregisterNextServiceOwnPart,
     ReleaseServiceOwnPart, SendNextOwnPart, JobReplyOwnPart, PlainStepOwnPart
  DEF JobStep, Timeout, OwnPart
<1>3. QED
  BY <1>1, <1>2

\* Constructing and dropping a transport.
LEMMA LifeCallsLifePart ==
  ASSUME PointInv, TakeBackInv, LifeInv, NEW k \in Callers, NEW t \in Transports,
         NewCall(k, t) \/ DropCall(k, t), UNCHANGED <<p2p, job, history>>
  PROVE  LifePart(k)
<1>1. call[k].pc = "idle" /\ UNCHANGED apps
  BY DEF NewCall, DropCall
<1>2. job[k].op = None /\ call[k].op = None /\ job'[k] = job[k]
  BY <1>1 DEF TakeBackInv, Own, LifeInv, Serves, Returned
<1>3. /\ "StartVsomeipApp" # None /\ "StopVsomeipApp" # None /\ "Ok" # None
      /\ "UnregisterListener" # None /\ "Send" # None /\ "send" # None /\ t # None
  BY NotNone, NoneAssumption, EngineAssumption DEF Ops
<1>4. phase \in [Transports -> {"absent", "live", "dropping", "gone"}]
  BY DEF PointInv, IInv, TypeOK
<1>5. ASSUME NEW u \in Transports, u # t, call'[k].t = t, phase'[u] = phase[u]
      PROVE  Continues(k, u)
  BY <1>2, <1>3, <1>5 DEF Continues
<1>6. CASE NewCall(k, t)
  <2>1. call'[k] = Sending("StartVsomeipApp", t, None, None)
    BY <1>6, OneCallReplaced DEF NewCall
  <2>2. /\ call'[k].pc = "send" /\ call'[k].op = "StartVsomeipApp" /\ call'[k].t = t
        /\ call'[k].reply = None
    BY <2>1, JobFields
  <2>3. /\ phase[t] = "absent" /\ phase'[t] = "live"
        /\ \A u \in Transports : u # t => phase'[u] = phase[u]
    BY <1>4, <1>6 DEF NewCall, New
  <2>4. Constructs(k, t)
    BY <1>3, <2>2, <2>3 DEF Constructs
  <2>5. Serves(k)'
    BY <1>2, <1>3, <2>2 DEF Serves, Spares
  <2>6. QED
    BY <1>1, <1>5, <2>2, <2>3, <2>4, <2>5 DEF LifePart
<1>7. CASE DropCall(k, t)
  <2>1. call'[k] = Dropping(t)
    BY <1>7, OneCallReplaced DEF DropCall
  <2>2. call'[k].pc = "drop" /\ call'[k].op = None /\ call'[k].t = t
    BY <2>1 DEF Dropping, Returned
  <2>3. /\ phase'[t] = "dropping" /\ \A u \in Transports : u # t => phase'[u] = phase[u]
        /\ \A j \in Callers : call[j].t # t
    BY <1>4, <1>7 DEF DropCall, DropBegin, UnusedByOthers
  <2>4. Leaving(k, t)
    BY <2>3 DEF Leaving
  <2>5. Serves(k)'
    BY <1>2, <1>3, <2>2, <2>3 DEF Serves, Spares, Open
  <2>6. QED
    BY <1>1, <1>5, <2>2, <2>3, <2>4, <2>5 DEF LifePart
<1>8. QED
  BY <1>6, <1>7

\* An ordinary call begins.
LEMMA OrdinaryCallLifePart ==
  ASSUME PointInv, TakeBackInv, LifeInv, NEW k \in Callers, NEW t \in Transports,
         NEW c \in ConfigsFor[k], RegisterCall(k, t, c) \/ UnregisterCall(k, t, c),
         UNCHANGED <<p2p, job, history>>
  PROVE  LifePart(k)
<1>1. call[k].pc = "idle" /\ Usable(t) /\ UNCHANGED apps /\ c \in Ordinary
  BY OrdinaryCall DEF Ordinary
<1>2. UNCHANGED phase
  BY OrdinaryCall DEF Register, vars, lifecycle
<1>3. job'[k].op = None
  BY <1>1 DEF TakeBackInv, Own
<1>4. CASE UNCHANGED call
  <2>1. call'[k] = Returned
    BY <1>1, <1>4 DEF LifeInv, Serves
  <2>2. QED
    BY <1>1, <1>2, <2>1, ServesReturned, BeginsUse
<1>5. ASSUME NEW op \in {"RegisterListener", "UnregisterListener"}, NEW id,
             call' = [call EXCEPT ![k] = Sending(op, t, c, id)]
      PROVE  LifePart(k)
  <2>1. call'[k] = Sending(op, t, c, id)
    BY <1>5, OneCallReplaced
  <2>2. call'[k].t = t /\ call'[k].pc = "send" /\ call'[k].op = op /\ call'[k].config = c
    BY <2>1, JobFields
  <2>3. Serves(k)' /\ call'[k].op # "StartVsomeipApp"
    BY <1>1, <1>3, <2>2, NotNone, ServesJob
  <2>4. QED
    BY <1>1, <1>2, <2>2, <2>3, BeginsUse
<1>6. QED
  BY <1>4, <1>5, OrdinaryCall

\* The end of a constructor and of Drop, and the steps of Drop.
LEMMA PlainStepLifePart ==
  ASSUME PointInv, TakeBackInv, LifeInv, NEW k \in Callers, job[k].op = None,
         CallStep(k) \/ AwaitTimeout(k), UNCHANGED <<p2p, job, history>>
  PROVE  LifePart(k)
<1>0. call[k] \in PointCalls /\ Purposeful(call[k]) /\ Serves(k) /\ job'[k] = job[k]
  BY DEF PointInv, PointCallInv, LifeInv
<1>1. call[k].t \in Transports /\ UNCHANGED apps
  BY <1>0 DEF CallStep, DropNext, AwaitReply, ReleaseHandler, AwaitTimeout, Purposeful
<1>2. PICK t \in Transports : t = call[k].t
  BY <1>1
<1>3. /\ "StartVsomeipApp" # None /\ "StopVsomeipApp" # None /\ "Ok" # None
      /\ "UnregisterListener" # None /\ "Send" # None /\ "send" # None /\ t # None
      /\ "DEADLINE_EXCEEDED" # "Ok"
  BY NotNone, NoneAssumption, EngineAssumption DEF Ops
<1>4. phase \in [Transports -> {"absent", "live", "dropping", "gone"}]
  BY DEF PointInv, IInv, TypeOK
<1>5. Users(t)
  BY DEF LifeInv
<1>6. ASSUME call' = [call EXCEPT ![k] = Returned], UNCHANGED phase,
             call[k].op = "StartVsomeipApp" => call[k].reply = "Ok"
      PROVE  LifePart(k)
  <2>1. call'[k] = Returned
    BY <1>6, OneCallReplaced
  <2>2. QED
    BY <1>1, <1>2, <1>6, <2>1, ServesReturned, GoesOn
<1>7. ASSUME call'[k].t = t, phase'[t] \in {"dropping", "gone"}, call'[k].pc # "idle",
             call'[k].op \in {"UnregisterListener", "StopVsomeipApp", None}
      PROVE  Serves(k)' /\ call'[k].op # "StartVsomeipApp"
  BY <1>0, <1>3, <1>7 DEF Serves, Open
<1>8. ASSUME call' = [call EXCEPT ![k] = Dropping(t)]
      PROVE  call'[k].t = t /\ call'[k].pc = "drop" /\ call'[k].op = None
  <2>1. call'[k] = Dropping(t)
    BY <1>8, OneCallReplaced
  <2>2. QED
    BY <2>1 DEF Dropping, Returned
<1>9. CASE DropNext(k)
  <2>1. UNCHANGED phase /\ ~Open(t) /\ call[k].pc = "drop"
    BY <1>0, <1>2, <1>9 DEF DropNext, vars, lifecycle, Serves
  <2>2. PICK op \in {"UnregisterListener", "StopVsomeipApp"} :
          \E c : call' = [call EXCEPT ![k] = Sending(op, t, c, None)]
    BY <1>2, <1>9 DEF DropNext
  <2>2a. PICK c : call' = [call EXCEPT ![k] = Sending(op, t, c, None)]
    BY <2>2
  <2>3. call'[k] = Sending(op, t, c, None)
    BY <2>2a, OneCallReplaced
  <2>4. call'[k].t = t /\ call'[k].op = op /\ call'[k].pc = "send"
    BY <2>3, JobFields
  <2>5. Serves(k)' /\ call'[k].op # "StartVsomeipApp"
    BY <1>7, <2>1, <2>2, <2>4 DEF Open
  <2>6. QED
    BY <1>1, <1>2, <2>1, <2>4, <2>5, GoesOn
<1>10. CASE ReleaseHandler(k)
  <2>1. UNCHANGED phase /\ call[k].op = "UnregisterListener"
    BY <1>0, <1>10 DEF ReleaseHandler, Unregister, DropRelease, lifecycle, Purposeful
  <2>2. CASE call' = [call EXCEPT ![k] = Returned]
    BY <1>6, <2>1, <2>2
  <2>3. CASE call' = [call EXCEPT ![k] = Dropping(t)] /\ phase[t] = "dropping"
    <3>1. Serves(k)' /\ call'[k].op # "StartVsomeipApp" /\ call'[k].t = t
      BY <1>7, <1>8, <2>1, <2>3
    <3>2. QED
      BY <1>1, <1>2, <2>1, <3>1, GoesOn
  <2>4. QED
    BY <1>2, <1>10, <2>2, <2>3 DEF ReleaseHandler, DropRelease
<1>11. ASSUME NEW reply, Finish(k, reply), reply = "Ok" => call[k].reply = "Ok"
       PROVE  LifePart(k)
  <2>1. CASE /\ call[k].op = "RegisterListener" /\ UNCHANGED vars
             /\ call' = [call EXCEPT ![k] = Returned]
    BY <1>6, <2>1 DEF vars, lifecycle
  <2>2. CASE /\ call[k].op = "UnregisterListener" /\ UNCHANGED vars
             /\ call' = [call EXCEPT ![k].pc = "release", ![k].reply = None]
    <3>1. /\ call'[k].t = t /\ call'[k].op = "UnregisterListener" /\ call'[k].pc = "release"
          /\ call'[k].config = call[k].config
      BY <1>0, <1>2, <2>2 DEF PointInv, PointCallInv, PointCalls
    <3>2. UNCHANGED phase
      BY <2>2 DEF vars, lifecycle
    <3>3. Serves(k)'
      BY <1>0, <1>2, <1>3, <2>2, <3>1, <3>2 DEF Serves, Spares, Open
    <3>4. QED
      BY <1>1, <1>2, <2>2, <3>1, <3>2, <3>3, GoesOn
  <2>3. CASE /\ call[k].op = "StartVsomeipApp" /\ reply = "Ok" /\ UNCHANGED vars
             /\ call' = [call EXCEPT ![k] = Returned]
    BY <1>6, <1>11, <2>3 DEF vars, lifecycle
  <2>4. CASE /\ call[k].op = "StartVsomeipApp" /\ DropBegin(t)
             /\ call' = [call EXCEPT ![k] = Dropping(t)]
    <3>1. phase'[t] = "dropping" /\ \A u \in Transports : u # t => phase'[u] = phase[u]
      BY <1>4, <2>4 DEF DropBegin
    <3>2. \A j \in Callers : j # k => call[j].t # t
      BY <1>2, <1>5, <2>4 DEF Users
    <3>3. Leaving(k, t)
      BY <3>1, <3>2 DEF Leaving
    <3>4. Serves(k)' /\ call'[k].t = t
      BY <1>7, <1>8, <2>4, <3>1
    <3>5. \A u \in Transports : u # t => Continues(k, u)
      BY <1>2, <3>1, <3>4 DEF Continues
    <3>6. QED
      BY <1>1, <3>3, <3>4, <3>5 DEF LifePart
  <2>5. CASE /\ call[k].op = "StopVsomeipApp" /\ DropEnd(t)
             /\ call' = [call EXCEPT ![k] = Returned]
    <3>1. /\ phase[t] = "dropping" /\ phase'[t] = "gone"
          /\ \A u \in Transports : u # t => phase'[u] = phase[u]
      BY <1>4, <2>5 DEF DropEnd
    <3>2. \A j \in Callers : j # k => call[j].t # t
      BY <1>2, <1>5, <3>1 DEF Users
    <3>3. Leaving(k, t)
      BY <3>1, <3>2 DEF Leaving
    <3>4. call'[k] = Returned
      BY <2>5, OneCallReplaced
    <3>5. Serves(k)' /\ call'[k].t = None
      BY <3>4, ServesReturned
    <3>6. \A u \in Transports : u # t => Continues(k, u)
      BY <1>2, <3>1, <3>5, NoneAssumption DEF Continues
    <3>7. QED
      BY <1>1, <3>3, <3>5, <3>6 DEF LifePart
  <2>6. QED
    BY <1>2, <1>11, <2>1, <2>2, <2>3, <2>4, <2>5 DEF Finish
<1>12. QED
  BY <1>3, <1>9, <1>10, <1>11 DEF CallStep, AwaitReply, AwaitTimeout

\* The jobs with services begin, go on and end.
LEMMA ServiceJobLifePart ==
  ASSUME PointInv, TakeBackInv, LifeInv, NEW k \in Callers,
         \/ \E t \in Transports : RegisterP2P(k, t) \/ UnregisterP2P(k, t)
         \/ RegisterNextService(k) \/ RegisterP2PEnds(k)
         \/ UnregisterNextService(k) \/ UnregisterP2PEnds(k) \/ ReleaseService(k)
  PROVE  LifePart(k)
<1>0. UNCHANGED <<apps, phase>>
  BY DEF RegisterP2P, UnregisterP2P, RegisterNextService, RegisterP2PEnds, UnregisterNextService,
         UnregisterP2PEnds, ReleaseService, queueAndVsomeip, vars, lifecycle, Register, Unregister
<1>1. ASSUME NEW t \in Transports, RegisterP2P(k, t) \/ UnregisterP2P(k, t) PROVE LifePart(k)
  <2>1. /\ call' = [call EXCEPT ![k] = Busy(t)] /\ call[k].pc = "idle" /\ Usable(t)
    BY <1>1 DEF RegisterP2P, UnregisterP2P
  <2>1a. PICK r \in Jobs : job' = [job EXCEPT ![k] = r] /\ r.op \in {"register", "unregister"}
    BY <1>1, JobBegins
  <2>2. call'[k] = Busy(t) /\ job'[k].op # "send"
    BY <2>1, <2>1a, OneCallReplaced DEF PointInv, JobInv
  <2>3. call'[k].t = t /\ call'[k].pc = "job" /\ call'[k].op = None
    BY <2>2, JobFields
  <2>4. Serves(k)' /\ call'[k].op # "StartVsomeipApp"
    BY <2>2, <2>3, NotNone, ServesJob
  <2>5. QED
    BY <1>0, <2>1, <2>3, <2>4, BeginsUse
<1>2. CASE \/ RegisterNextService(k) \/ RegisterP2PEnds(k)
           \/ UnregisterNextService(k) \/ UnregisterP2PEnds(k) \/ ReleaseService(k)
  <2>1. /\ call[k].pc \in {"job", "release"} /\ job[k].op \in {"register", "unregister"}
        /\ call[k].op # "StartVsomeipApp"
    BY <1>2, NotNone
    DEF RegisterNextService, RegisterP2PEnds, UnregisterNextService, UnregisterP2PEnds,
        ReleaseService, LifeInv, Serves
  <2>2. call[k].t \in Transports /\ job[k] \in Jobs
    BY <2>1, JobTransport, NotNone DEF TakeBackInv, PointInv, JobInv
  <2>3. PICK t \in Transports : t = call[k].t
    BY <2>2
  <2>4. CASE Return(k)
    <3>1. call'[k] = Returned
      BY <2>4, OneCallReplaced DEF Return
    <3>2. QED
      BY <1>0, <2>1, <2>3, <3>1, ServesReturned, GoesOn
  <2>5. ASSUME NEW s \in job[k].todo, NEW op \in {"RegisterListener", "UnregisterListener"},
               NEW id, call' = [call EXCEPT ![k] = Sending(op, t, ServiceConfig(s), id)],
               job' = [job EXCEPT ![k].todo = @ \ {s}]
        PROVE  LifePart(k)
    <3>1. call'[k] = Sending(op, t, ServiceConfig(s), id)
      BY <2>5, OneCallReplaced
    <3>2. /\ call'[k].t = t /\ call'[k].pc = "send" /\ call'[k].op = op
          /\ call'[k].config = ServiceConfig(s)
      BY <3>1, JobFields
    <3>3. job'[k].op = job[k].op /\ s \in AllServices
      BY <2>2, <2>5 DEF PointInv, JobInv, Jobs
    <3>4. ServiceConfig(s) \in ServiceConfigs
      BY <3>3 DEF ServiceConfigs
    <3>5. Serves(k)' /\ call'[k].op # "StartVsomeipApp"
      BY <2>1, <2>5, <3>2, <3>3, <3>4, ServesJob
    <3>6. QED
      BY <1>0, <2>1, <2>3, <3>2, <3>5, GoesOn
  <2>6. CASE call' = [call EXCEPT ![k] = Busy(t)] /\ UNCHANGED job
    <3>1. call'[k] = Busy(t)
      BY <2>6, OneCallReplaced
    <3>2. call'[k].t = t /\ call'[k].pc = "job" /\ call'[k].op = None
      BY <3>1, JobFields
    <3>3. Serves(k)' /\ call'[k].op # "StartVsomeipApp"
      BY <2>1, <2>6, <3>2, NotNone, ServesJob
    <3>4. QED
      BY <1>0, <2>1, <2>3, <3>2, <3>3, GoesOn
  <2>7. CASE RegisterNextService(k)
    BY <2>3, <2>4, <2>5, <2>7 DEF RegisterNextService
  <2>8. CASE UnregisterNextService(k)
    BY <2>3, <2>5, <2>8 DEF UnregisterNextService
  <2>9. CASE ReleaseService(k)
    BY <2>3, <2>6, <2>9 DEF ReleaseService
  <2>10. QED
    BY <1>2, <2>4, <2>7, <2>8, <2>9 DEF RegisterP2PEnds, UnregisterP2PEnds
<1>3. QED
  BY <1>1, <1>2

\* send.
LEMMA SendLifePart ==
  ASSUME PointInv, TakeBackInv, LifeInv, NEW k \in Callers,
         \/ \E t \in Transports : \E m \in MessagesFor[k] : Send(k, t, m)
         \/ SendNext(k)
  PROVE  LifePart(k)
<1>1. UNCHANGED <<apps, phase>>
  BY DEF Send, SendNext, queueAndVsomeip, vars, lifecycle, Register
<1>2. CASE SendNext(k)
  <2>1. /\ call[k].pc = "job" /\ job[k].op = "send" /\ UNCHANGED job
        /\ call' = [call EXCEPT ![k] = Sending("Send", call[k].t, job[k].msg, None)]
    BY <1>2 DEF SendNext
  <2>2. call[k].t \in Transports /\ call[k].op # "StartVsomeipApp" /\ Serves(k)
    BY <2>1, JobKnows, NotNone DEF LifeInv, Serves
  <2>3. PICK t \in Transports : t = call[k].t
    BY <2>2
  <2>4. call'[k] = Sending("Send", t, job[k].msg, None)
    BY <2>1, <2>3, OneCallReplaced
  <2>5. call'[k].t = t /\ call'[k].pc = "send" /\ call'[k].op = "Send"
    BY <2>4, JobFields
  <2>6. phase'[t] = "live"
    BY <1>1, <2>1, <2>2, <2>3 DEF Serves
  <2>7. Serves(k)' /\ call'[k].op # "StartVsomeipApp"
    BY <2>1, <2>5, <2>6, NotNone, ServesJob
  <2>8. QED
    BY <1>1, <2>2, <2>3, <2>5, <2>7, GoesOn
<1>3. ASSUME NEW t \in Transports, NEW m \in MessagesFor[k], Send(k, t, m)
      PROVE  LifePart(k)
  <2>1. call[k].pc = "idle" /\ Usable(t)
    BY <1>3 DEF Send
  <2>2. phase'[t] = "live"
    BY <1>1, <2>1 DEF Usable
  <2>3. CASE UNCHANGED <<call, job>>
    <3>1. call'[k] = Returned
      BY <2>1, <2>3 DEF LifeInv, Serves
    <3>2. QED
      BY <1>1, <2>1, <3>1, ServesReturned, BeginsUse
  <2>4. ASSUME NEW op \in {"Send", "RegisterListener"}, NEW c, NEW id, NEW b,
               call' = [call EXCEPT ![k] = Sending(op, t, c, id)],
               job' = [job EXCEPT ![k] = b], b.op = "send"
        PROVE  LifePart(k)
    <3>1. call'[k] = Sending(op, t, c, id) /\ job'[k] = b
      BY <2>4, OneCallReplaced DEF PointInv, JobInv
    <3>2. call'[k].t = t /\ call'[k].pc = "send" /\ call'[k].op = op
      BY <3>1, JobFields
    <3>3. Serves(k)' /\ call'[k].op # "StartVsomeipApp"
      BY <2>2, <2>4, <3>1, <3>2, ServesJob
    <3>4. QED
      BY <1>1, <2>1, <3>2, <3>3, BeginsUse
  <2>5. CASE SendCommand(k, t, m)
    <3> DEFINE b == [JobOf("send", {}) EXCEPT !.msg = m, !.p2p = p2p[t]]
    <3>1. b.op = "send"
      BY DEF JobOf, NoJob
    <3>2. job' = [job EXCEPT ![k] = b] /\ call' = [call EXCEPT ![k] = Sending("Send", t, m, None)]
      BY <2>5 DEF SendCommand
    <3> HIDE DEF b
    <3>3. QED
      BY <2>4, <3>1, <3>2
  <2>6. ASSUME NEW id \in Granted(t),
               call' = [call EXCEPT ![k] = Sending("RegisterListener", t, ResponseConfig(m), id)],
               job' = [job EXCEPT ![k] = [JobOf("send", {}) EXCEPT !.msg = m, !.p2p = TRUE]]
        PROVE  LifePart(k)
    <3> DEFINE b == [JobOf("send", {}) EXCEPT !.msg = m, !.p2p = TRUE]
    <3>1. b.op = "send"
      BY DEF JobOf, NoJob
    <3>2. job' = [job EXCEPT ![k] = b]
      BY <2>6
    <3> HIDE DEF b
    <3>3. QED
      BY <2>4, <2>6, <3>1, <3>2
  <2>7. QED
    BY <1>3, <2>3, <2>5, <2>6 DEF Send
<1>4. QED
  BY <1>2, <1>3

\* The result of a command of a job, or its timeout.
LEMMA JobReplyLifePart ==
  ASSUME PointInv, TakeBackInv, LifeInv, NEW k \in Callers, JobReply(k) \/ JobTimeout(k)
  PROVE  LifePart(k)
<1>1. /\ call[k].pc = "await" /\ job[k].op # None /\ UNCHANGED <<apps, phase>>
      /\ \E reply : JobResult(k, reply)
  BY DEF JobReply, JobTimeout, vars, lifecycle, queueAndVsomeip
<1>2. call[k].t \in Transports /\ call[k] \in PointCalls /\ job[k] \in Jobs /\ Serves(k)
  BY <1>1, JobTransport DEF TakeBackInv, PointInv, PointCallInv, JobInv, LifeInv
<1>3. PICK t \in Transports : t = call[k].t
  BY <1>2
<1>4. call[k].op # "StartVsomeipApp" /\ (job[k].op = "send" => phase'[t] = "live")
  BY <1>1, <1>2, <1>3 DEF Serves
<1>5. CASE Return(k)
  <2>1. call'[k] = Returned
    BY <1>5, OneCallReplaced DEF Return
  <2>2. QED
    BY <1>1, <1>3, <1>4, <2>1, ServesReturned, GoesOn
<1>6. CASE call' = [call EXCEPT ![k] = Busy(t)] /\ job'[k].op = job[k].op
  <2>1. call'[k] = Busy(t)
    BY <1>6, OneCallReplaced
  <2>2. call'[k].t = t /\ call'[k].pc = "job" /\ call'[k].op = None
    BY <2>1, JobFields
  <2>3. Serves(k)' /\ call'[k].op # "StartVsomeipApp"
    BY <1>4, <1>6, <2>2, NotNone, ServesJob
  <2>4. QED
    BY <1>1, <1>3, <1>4, <2>2, <2>3, GoesOn
<1>7. CASE /\ call' = [call EXCEPT ![k].pc = "release", ![k].reply = None]
           /\ call[k].op = "UnregisterListener" /\ UNCHANGED job
  <2>1. /\ call'[k].t = t /\ call'[k].pc = "release" /\ call'[k].op = "UnregisterListener"
        /\ call'[k].config = call[k].config
    BY <1>2, <1>3, <1>7 DEF PointInv, PointCallInv, PointCalls
  <2>2. "UnregisterListener" # "StartVsomeipApp" /\ "UnregisterListener" # "Send"
    OBVIOUS
  <2>3. Serves(k)'
    BY <1>1, <1>2, <1>3, <1>4, <1>7, <2>1 DEF Serves, Spares, Open
  <2>4. QED
    BY <1>1, <1>3, <1>4, <2>1, <2>2, <2>3, GoesOn
<1>8. ASSUME NEW owed, job' = [job EXCEPT ![k].owed = owed] PROVE job'[k].op = job[k].op
  BY <1>2, <1>8 DEF PointInv, JobInv, Jobs
<1>9. QED
  BY <1>1, <1>3, <1>5, <1>6, <1>7, <1>8 DEF JobResult

\* Every step keeps the invariant.
LEMMA LifeInductive ==
  ASSUME OwnServices, PointInv, ChannelInv, TakeBackInv, LifeInv, [PointNext]_pvars
  PROVE  LifeInv'
<1>1. [Next]_vars
  BY PointNextIsRegistryStep DEF PointStep
<1>2. CASE UNCHANGED pvars
  <2>1. UNCHANGED <<queue, call, apps, job, phase>>
    BY <1>2 DEF pvars, evars, engineVars, vars, lifecycle
  <2>2. ASSUME NEW k \in Callers PROVE Serves(k)'
    BY <2>1 DEF LifeInv, Serves, Spares, Open
  <2>3. ASSUME NEW t \in Transports PROVE Users(t)' /\ Started(t)' /\ Spared(t)'
    BY <2>1 DEF LifeInv, Users, Started, Spared, Spares, Open
  <2>4. QED
    BY <2>2, <2>3 DEF LifeInv
<1>3. ASSUME NEW k \in Callers,
             \/ \E t \in Transports :
                   \/ PlainCall(k, t) /\ UNCHANGED <<p2p, job, history>>
                   \/ RegisterP2P(k, t) \/ UnregisterP2P(k, t)
                   \/ \E m \in MessagesFor[k] : Send(k, t, m)
             \/ JobStep(k) \/ Timeout(k)
      PROVE  LifeInv'
  <2>1. Moves(k)
    BY <1>3, CallerMoves
  <2>2. LifePart(k)
    BY <1>3, LifeCallsLifePart, OrdinaryCallLifePart, ServiceJobLifePart, SendLifePart,
       JobReplyLifePart, PlainStepLifePart
    DEF PlainCall, JobStep, Timeout
  <2>3. QED
    BY <1>1, <2>1, <2>2, MovesKeepLife
<1>4. QED
  BY <1>2, <1>3, SendingKeepsLife, EngineKeepsLife DEF PointNext

\* Initially there are no calls.
LEMMA InitEstablishesLife == PointInit => LifeInv
<1> SUFFICES ASSUME PointInit PROVE LifeInv
  OBVIOUS
<1>1. /\ queue = [t \in Transports |-> <<>>] /\ call = [k \in Callers |-> Returned]
      /\ job = [k \in Callers |-> NoJob] /\ phase = [t \in Transports |-> "absent"]
  BY DEF PointInit, EngineInit, Init
<1>2. ASSUME NEW k \in Callers
      PROVE  /\ call[k] = Returned /\ call[k].op = None /\ call[k].t = None /\ job[k].op = None
  BY <1>1 DEF Returned, NoJob
<1>3. ASSUME NEW k \in Callers PROVE Serves(k)
  <2>1. "Send" # None /\ \A t \in Transports : t # None
    BY NotNone, NoneAssumption
  <2>2. QED
    BY <1>2, <2>1 DEF Serves
<1>4. ASSUME NEW t \in Transports PROVE Users(t) /\ Started(t) /\ Spared(t)
  <2>1. t # None /\ DOMAIN queue[t] = {} /\ phase[t] # "live"
    BY <1>1, NoneAssumption
  <2>2. QED
    BY <1>2, <2>1 DEF Users, Started, Spared
<1>5. QED
  BY <1>3, <1>4 DEF LifeInv

-----------------------------------------------------------------------------
(* No request leaves before its response can come back.                    *)

ResponseKeys == {RegisterKey(c) : c \in Responses}

\* What the guarantee below rests on besides OwnServices: no two callers send
\* requests to be answered under the same configuration, and no other listener has
\* the address of a response.
OwnResponses ==
    /\ \A j, k \in Callers : \A m \in MessagesFor[j], n \in MessagesFor[k] :
          TypeOf(m) = "Request" /\ TypeOf(n) = "Request" /\ ResponseConfig(m) = ResponseConfig(n)
              => j = k
    /\ \A c \in Ordinary :
          RegisterKey(c) \notin ResponseKeys /\ UnregisterKey(c) \notin ResponseKeys

\* The response of the request m, sent by k with a point-to-point listener.
Expects(k, m) == job[k].p2p /\ TypeOf(m) = "Request"

ResponseKey(m) == RegisterKey(ResponseConfig(m))

\* vsomeip has the streamer's handler for the responses from key, or will have when
\* the channel is empty.
Answerable(t, key) ==
    \E id \in Ids : /\ handlers[AppName[t]][key] = id /\ listenerConfigs[t][id] \in Responses
                    /\ RegisterKey(listenerConfigs[t][id]) = key

Brings(cmd, key) == Installs(cmd, key) /\ cmd.config \in Responses

Coming(t, key) ==
    Answerable(t, key) \/ \E i \in DOMAIN queue[t] : Brings(queue[t][i], key)

\* A registration of a service or of another listener, or of a response with the id
\* the registry holds for it.
Installable(t, r) ==
    \/ r.config \in ServiceConfigs \cup Ordinary
    \/ r.config \in Responses /\ r.id \in Ids /\ listenerConfigs[t][r.id] = r.config

\* The command is to register k's listener for a response, and it is to be sent.
Offering(k, t, c) ==
    call[k].pc = "send" /\ call[k].op = "RegisterListener" /\ call[k].t = t /\ call[k].config = c

\* What a caller has done for the response before it sends a request.
Prepares(k) ==
    \A t \in Transports : call[k].t = t /\ Open(t) =>
        /\ job[k].op = "send" => call[k].op # "UnregisterListener"
        /\ call[k].op = "RegisterListener" =>
              /\ Installable(t, call[k])
              /\ call[k].config \in Responses => \E m \in MessagesFor[k] :
                    TypeOf(m) = "Request" /\ call[k].config = ResponseConfig(m)
              /\ job[k].op = "send" =>
                    /\ call[k].config \in Responses /\ call[k].config = ResponseConfig(job[k].msg)
                    /\ call[k].reply = "Ok" => Answerable(t, RegisterKey(call[k].config))
        /\ job[k].op = "send" /\ call[k].pc = "job" => Answerable(t, ResponseKey(job[k].msg))
        /\ call[k].op = "Send" /\ call[k].pc = "send" /\ Expects(k, call[k].config) =>
              Coming(t, ResponseKey(call[k].config))

\* In the channel a request comes after the registration for its response.
InOrder(t) ==
    Open(t) => \A i \in DOMAIN queue[t] :
        /\ queue[t][i].op = "RegisterListener" => Installable(t, queue[t][i])
        /\ queue[t][i].op = "Send" /\ queue[t][i].caller # None
              /\ Expects(queue[t][i].caller, queue[t][i].config) =>
                 \/ Answerable(t, ResponseKey(queue[t][i].config))
                 \/ \E j \in DOMAIN queue[t] :
                       j < i /\ Brings(queue[t][j], ResponseKey(queue[t][i].config))

\* What the registry holds for a response is installed, or is going to be.
Holding(t) ==
    Open(t) => \A id \in Ids : listenerConfigs[t][id] \in Responses =>
        \/ Coming(t, RegisterKey(listenerConfigs[t][id]))
        \/ \E k \in Callers : Offering(k, t, listenerConfigs[t][id])

AnswerInv ==
    /\ \A k \in Callers : Prepares(k)
    /\ \A t \in Transports : InOrder(t) /\ Holding(t)

\* What is registered for responses stays, and k offers what is new.
ResponsesStay ==
    \A t \in Transports, id \in Ids : Open(t)' /\ listenerConfigs[t][id] \in Responses =>
        listenerConfigs'[t][id] = listenerConfigs[t][id]

ResponsesOffered(k) ==
    \A t \in Transports, id \in Ids : Open(t)' /\ listenerConfigs'[t][id] \in Responses =>
        \/ listenerConfigs'[t][id] = listenerConfigs[t][id]
        \/ \E c \in Configs : c = listenerConfigs'[t][id] /\ Offering(k, t, c)'

\* What a step of caller k must do to its own part of the invariant.
AnswerPart(k) ==
    ResponsesStay /\ ResponsesOffered(k) /\ call[k].pc # "send" /\ Prepares(k)'

\* The address of a response is no service's and no other listener's.
LEMMA ResponseAddress ==
  ASSUME OwnServices
  PROVE  /\ \A c \in Responses : c \in Configs /\ RegisterKey(c) \in Keys /\ c.listener = "streamer"
         /\ \A c \in ServiceConfigs :
               /\ RegisterKey(c) = UnregisterKey(c) /\ RegisterKey(c) \in ServiceKeys
               /\ c \in Configs /\ c \notin Responses
<1>1. ASSUME NEW c \in Responses
      PROVE  c \in Configs /\ RegisterKey(c) \in Keys /\ c.listener = "streamer"
  <2>1. PICK m \in Outgoing : TypeOf(m) = "Request" /\ c = ResponseConfig(m)
    BY DEF Responses
  <2>2. c \in Configs
    BY <2>1, PointAssumption DEF Outgoing
  <2>3. c.listener = "streamer"
    BY <2>1 DEF ResponseConfig
  <2>4. QED
    BY <2>2, <2>3 DEF Keys
<1>2. ASSUME NEW c \in ServiceConfigs
      PROVE  /\ RegisterKey(c) = UnregisterKey(c) /\ RegisterKey(c) \in ServiceKeys
             /\ c \in Configs /\ c \notin Responses
  <2>1. PICK s \in AllServices : c = ServiceConfig(s)
    BY DEF ServiceConfigs
  <2>2. PICK t \in Transports : Services[t] # None /\ s \in Services[t]
    BY DEF AllServices
  <2>3. QED
    BY <2>1, <2>2, ServiceAddress
<1>3. QED
  BY <1>1, <1>2

LEMMA NoOtherResponse ==
  ASSUME OwnResponses
  PROVE  \A c \in Ordinary : c \notin Responses
  BY DEF OwnResponses, ResponseKeys

\* A caller that moves and has its own part in order keeps the invariant.
LEMMA MovesKeepAnswers ==
  ASSUME OwnServices, PointInv, ChannelInv, AnswerInv, [Next]_vars,
         NEW k \in Callers, Moves(k), AnswerPart(k)
  PROVE  AnswerInv'
<1>1. /\ \A j \in Callers : j # k => call'[j] = call[j] /\ job'[j] = job[j]
      /\ UNCHANGED handlers
  BY DEF Moves
<1>2. ASSUME NEW t \in Transports, Open(t)' PROVE Open(t)
  BY <1>2, DroppedStays DEF PointInv, IInv, Open
<1>3. ASSUME NEW t \in Transports, Open(t)', NEW key
      PROVE  /\ Answerable(t, key) => Answerable(t, key)'
             /\ Coming(t, key) => Coming(t, key)'
  <2>1. Answerable(t, key) => Answerable(t, key)'
    BY <1>1, <1>3 DEF AnswerPart, ResponsesStay, Answerable
  <2>2. ASSUME NEW i \in DOMAIN queue[t], Brings(queue[t][i], key)
        PROVE  i \in DOMAIN queue'[t] /\ Brings(queue'[t][i], key)
    BY <2>2 DEF Moves, SameCommands, Brings, Installs
  <2>3. Coming(t, key) => Coming(t, key)'
    BY <2>1, <2>2 DEF Coming, Brings, Installs
  <2>4. QED
    BY <2>1, <2>3
<1>4. ASSUME NEW t \in Transports, Open(t)', NEW r, Installable(t, r)
      PROVE  \/ r.config \in ServiceConfigs \cup Ordinary
             \/ r.config \in Responses /\ r.id \in Ids /\ listenerConfigs'[t][r.id] = r.config
  BY <1>4 DEF Installable, AnswerPart, ResponsesStay
<1>5. ASSUME NEW j \in Callers, j # k PROVE Prepares(j)'
  <2> SUFFICES ASSUME NEW t \in Transports, call'[j].t = t, Open(t)'
               PROVE  /\ job'[j].op = "send" => call'[j].op # "UnregisterListener"
                      /\ call'[j].op = "RegisterListener" =>
                            /\ Installable(t, call[j])'
                            /\ call'[j].config \in Responses => \E m \in MessagesFor[j] :
                                  TypeOf(m) = "Request" /\ call'[j].config = ResponseConfig(m)
                            /\ job'[j].op = "send" =>
                                  /\ call'[j].config \in Responses
                                  /\ call'[j].config = ResponseConfig(job'[j].msg)
                                  /\ call'[j].reply = "Ok" =>
                                        Answerable(t, RegisterKey(call[j].config))'
                      /\ job'[j].op = "send" /\ call'[j].pc = "job" =>
                            Answerable(t, ResponseKey(job[j].msg))'
                      /\ call'[j].op = "Send" /\ call'[j].pc = "send"
                            /\ job'[j].p2p /\ TypeOf(call'[j].config) = "Request" =>
                            Coming(t, ResponseKey(call[j].config))'
    BY DEF Prepares, Expects, Open
  <2>1. call'[j] = call[j] /\ job'[j] = job[j] /\ call[j].t = t /\ Open(t) /\ Prepares(j)
    BY <1>1, <1>2, <1>5 DEF AnswerInv
  <2>2. PICK c : c = call[j].config
    OBVIOUS
  <2>3. PICK m : m = job[j].msg
    OBVIOUS
  <2>4. ASSUME NEW key PROVE /\ Answerable(t, key) => Answerable(t, key)'
                             /\ Coming(t, key) => Coming(t, key)'
    BY <1>3
  <2>5. /\ Answerable(t, RegisterKey(c))' => Answerable(t, RegisterKey(call[j].config))'
        /\ Answerable(t, ResponseKey(m))' => Answerable(t, ResponseKey(job[j].msg))'
        /\ Coming(t, ResponseKey(c))' => Coming(t, ResponseKey(call[j].config))'
    BY <2>1, <2>2, <2>3 DEF Answerable, Coming
  <2>6. /\ Answerable(t, RegisterKey(call[j].config)) => Answerable(t, RegisterKey(call[j].config))'
        /\ Answerable(t, ResponseKey(job[j].msg)) => Answerable(t, ResponseKey(job[j].msg))'
        /\ Coming(t, ResponseKey(call[j].config)) => Coming(t, ResponseKey(call[j].config))'
    BY <2>2, <2>3, <2>4, <2>5
  <2>7. Installable(t, call[j]) => Installable(t, call[j])'
    BY <1>4, <2>1 DEF Installable
  <2>8. QED
    BY <2>1, <2>6, <2>7 DEF Prepares, Expects
<1>6. ASSUME NEW t \in Transports PROVE InOrder(t)'
  <2> SUFFICES ASSUME Open(t)', NEW i \in DOMAIN queue'[t]
               PROVE  /\ queue'[t][i].op = "RegisterListener" =>
                            \/ queue'[t][i].config \in ServiceConfigs \cup Ordinary
                            \/ /\ queue'[t][i].config \in Responses /\ queue'[t][i].id \in Ids
                               /\ listenerConfigs'[t][queue'[t][i].id] = queue'[t][i].config
                      /\ queue'[t][i].op = "Send" /\ queue'[t][i].caller # None
                            /\ job'[queue'[t][i].caller].p2p
                            /\ TypeOf(queue'[t][i].config) = "Request" =>
                               \/ Answerable(t, ResponseKey(queue[t][i].config))'
                               \/ \E j \in DOMAIN queue'[t] : j < i
                                     /\ Brings(queue'[t][j], ResponseKey(queue'[t][i].config))
    BY DEF InOrder, Installable, Expects
  <2>1. /\ i \in DOMAIN queue[t] /\ DOMAIN queue'[t] = DOMAIN queue[t]
        /\ \A j \in DOMAIN queue[t] :
              /\ queue'[t][j].op = queue[t][j].op /\ queue'[t][j].config = queue[t][j].config
              /\ queue'[t][j].id = queue[t][j].id
        /\ queue'[t][i].caller = IF queue[t][i].caller = k THEN None ELSE queue[t][i].caller
    BY DEF Moves, SameCommands
  <2>2. /\ queue[t][i].op = "RegisterListener" => Installable(t, queue[t][i])
        /\ queue[t][i].op = "Send" /\ queue[t][i].caller # None
              /\ Expects(queue[t][i].caller, queue[t][i].config) =>
                 \/ Answerable(t, ResponseKey(queue[t][i].config))
                 \/ \E j \in DOMAIN queue[t] :
                       j < i /\ Brings(queue[t][j], ResponseKey(queue[t][i].config))
    BY <1>2, <2>1 DEF AnswerInv, InOrder
  <2>3. ASSUME queue'[t][i].op = "Send", queue'[t][i].caller # None,
               job'[queue'[t][i].caller].p2p, TypeOf(queue'[t][i].config) = "Request"
        PROVE  \/ Answerable(t, ResponseKey(queue[t][i].config))'
               \/ \E j \in DOMAIN queue'[t] : j < i
                     /\ Brings(queue'[t][j], ResponseKey(queue'[t][i].config))
    <3>1. queue[t][i].caller # k /\ queue'[t][i].caller = queue[t][i].caller
      BY <2>1, <2>3
    <3>2. queue[t][i].caller \in Callers
      BY <2>1, <2>3, <3>1, PointCommandHasCaller
    <3>3. Expects(queue[t][i].caller, queue[t][i].config)
      BY <1>1, <2>1, <2>3, <3>1, <3>2 DEF Expects
    <3>4. PICK c : c = queue[t][i].config
      OBVIOUS
    <3>5. CASE Answerable(t, ResponseKey(c))
      <4>1. Answerable(t, ResponseKey(c))'
        BY <1>3, <3>5
      <4>2. QED
        BY <2>1, <3>4, <4>1 DEF Answerable
    <3>6. CASE \E j \in DOMAIN queue[t] : j < i /\ Brings(queue[t][j], ResponseKey(c))
      BY <2>1, <3>4, <3>6 DEF Brings, Installs
    <3>7. QED
      BY <2>1, <2>2, <2>3, <3>1, <3>3, <3>4, <3>5, <3>6
  <2>4. queue[t][i].op = "RegisterListener" =>
           \/ queue[t][i].config \in ServiceConfigs \cup Ordinary
           \/ /\ queue[t][i].config \in Responses /\ queue[t][i].id \in Ids
              /\ listenerConfigs'[t][queue[t][i].id] = queue[t][i].config
    BY <1>4, <2>2
  <2>5. QED
    BY <2>1, <2>3, <2>4
<1>7. ASSUME NEW t \in Transports PROVE Holding(t)'
  <2> SUFFICES ASSUME Open(t)', NEW id \in Ids, NEW c \in Responses, c = listenerConfigs'[t][id]
               PROVE  Coming(t, RegisterKey(c))' \/ \E j \in Callers : Offering(j, t, c)'
    BY DEF Holding, Coming, Answerable, Offering
  <2>1. CASE listenerConfigs[t][id] = c
    <3>1. Coming(t, RegisterKey(c)) \/ \E j \in Callers : Offering(j, t, c)
      BY <1>2, <2>1 DEF AnswerInv, Holding
    <3>2. CASE Coming(t, RegisterKey(c))
      BY <1>3, <3>2
    <3>3. ASSUME NEW j \in Callers, Offering(j, t, c) PROVE Offering(j, t, c)'
      <4>1. j # k
        BY <3>3 DEF Offering, AnswerPart
      <4>2. QED
        BY <1>1, <3>3, <4>1 DEF Offering
    <3>4. QED
      BY <3>1, <3>2, <3>3
  <2>2. CASE listenerConfigs[t][id] # c
    <3>1. PICK d \in Configs : d = listenerConfigs'[t][id] /\ Offering(k, t, d)'
      BY <2>2 DEF AnswerPart, ResponsesOffered
    <3>2. QED
      BY <3>1 DEF Offering
  <2>3. QED
    BY <2>1, <2>2
<1>8. Prepares(k)'
  BY DEF AnswerPart
<1>9. QED
  BY <1>5, <1>6, <1>7, <1>8 DEF AnswerInv

\* Registering is refused, while there are ids, only for what is registered.
LEMMA RegisterRefused ==
  ASSUME IInv, NEW t \in Transports, NEW c \in Configs, Register(t, c), freeIds # {},
         Granted(t) = {}
  PROVE  \E id \in Ids : listenerConfigs[t][id] = c
<1>1. PICK id \in Ids, res \in GetResults : get_message_handler(t, c, id, res)
  BY DEF Register, get_message_handler_exhausted
<1>2. id \in freeIds /\ idToTransport[id] = None /\ listenerConfigs[t][id] = None /\ c # None
  BY <1>1, FreeIdIsUnused, NoneAssumption DEF get_message_handler, IInv, RegistryInv, PoolPartition
<1>3. res # "Ok"
  <2>1. SUFFICES ASSUME res = "Ok" PROVE FALSE
    OBVIOUS
  <2>2. listenerConfigs'[t][id] = c
    BY <1>1, <2>1 DEF get_message_handler, IInv, TypeOK
  <2>3. QED
    BY <1>2, <2>2 DEF Granted
<1>4. c \in ConfigsOf(t)
  BY <1>1, <1>2, <1>3 DEF get_message_handler, GetOutcome
<1>5. QED
  BY <1>4 DEF ConfigsOf

\* Releasing a handler leaves the others.
LEMMA ReleasesOne ==
  ASSUME IInv, NEW t \in Transports, NEW c \in Configs,
         Unregister(t, c) \/ DropRelease(t, c)
  PROVE  \A u \in Transports, id \in Ids :
            \/ listenerConfigs'[u][id] = listenerConfigs[u][id]
            \/ u = t /\ listenerConfigs[u][id] = c /\ listenerConfigs'[u][id] = None
<1>1. CASE release_message_handler_not_found(t, c)
  BY <1>1 DEF release_message_handler_not_found, registry
<1>2. ASSUME NEW id \in Ids, release_message_handler(t, c, id)
      PROVE  \A u \in Transports, i \in Ids :
                \/ listenerConfigs'[u][i] = listenerConfigs[u][i]
                \/ u = t /\ listenerConfigs[u][i] = c /\ listenerConfigs'[u][i] = None
  BY <1>2 DEF release_message_handler, IInv, TypeOK
<1>3. QED
  BY <1>1, <1>2 DEF Unregister, DropRelease

\* What the engine does not take stays in the channel, in its order.
LEMMA EngineLeaves ==
  ASSUME ChannelInv, NEW t \in Transports, PointEngineStep(t)
  PROVE  \A i \in DOMAIN queue[t] :
            \/ i = 1
            \/ i \in Nat /\ i - 1 \in DOMAIN queue'[t] /\ queue'[t][i - 1] = queue[t][i]
<1>1. queue[t] # <<>> /\ queue' = [queue EXCEPT ![t] = Tail(@)]
  BY DEF PointEngineStep, EngineStep, register_listener_internal, unregister_listener_internal,
         start_vsomeip_app_internal, stop_vsomeip_app_internal, EngineWithoutApp, send_internal,
         SendWithoutApp, TakeAndReply
<1>2. PICK s \in Seq(PointCommands) : s = queue[t]
  BY DEF ChannelInv
<1>3. s # <<>> /\ queue'[t] = Tail(s)
  BY <1>1, <1>2 DEF ChannelInv
<1>4. /\ Len(s) \in Nat /\ DOMAIN s = 1 .. Len(s) /\ DOMAIN Tail(s) = 1 .. (Len(s) - 1)
      /\ \A i \in 1 .. (Len(s) - 1) : Tail(s)[i] = s[i + 1]
  BY <1>3, ChannelFacts
<1>5. ASSUME NEW i \in 1 .. Len(s), i # 1
      PROVE  i - 1 \in 1 .. (Len(s) - 1) /\ (i - 1) + 1 = i
  BY <1>4, <1>5
<1>6. ASSUME NEW i \in 1 .. Len(s), i # 1
      PROVE  i - 1 \in DOMAIN Tail(s) /\ Tail(s)[i - 1] = s[i]
  BY <1>4, <1>5, <1>6
<1>7. QED
  BY <1>2, <1>3, <1>4, <1>6

\* A command is sent.
LEMMA SendingKeepsAnswers ==
  ASSUME PointInv, ChannelInv, AnswerInv, NEW k \in Callers, Enqueue(k),
         UNCHANGED <<p2p, job, history>>
  PROVE  AnswerInv'
<1>1. PICK t \in Transports : t = call[k].t
  BY SentCommand
<1>1a. SentAt(k, t)
  BY <1>1, SentCommand
<1>2. PICK n \in Nat :
        /\ n \notin DOMAIN queue[t]
        /\ DOMAIN queue'[t] = DOMAIN queue[t] \cup {n}
        /\ \A i \in DOMAIN queue[t] : i \in Nat /\ i < n /\ queue'[t][i] = queue[t][i]
        /\ queue'[t][n] =
              [op |-> call[k].op, config |-> call[k].config, id |-> call[k].id, caller |-> k]
  BY <1>1a DEF SentAt
<1>3. /\ call[k].pc = "send" /\ UNCHANGED phase /\ UNCHANGED <<handlers, listenerConfigs>>
      /\ \A u \in Transports : u # t => queue'[u] = queue[u]
  BY <1>1, SentCommand DEF Enqueue, vars, registry, lifecycle
<1>4. /\ \A j \in Callers : j # k => call'[j] = call[j]
      /\ \A j \in Callers : /\ call'[j].op = call[j].op /\ call'[j].t = call[j].t
                            /\ call'[j].config = call[j].config /\ call'[j].id = call[j].id
                            /\ call'[j].reply = call[j].reply
      /\ call'[k].pc = "await"
  BY SentCall
<1>5. ASSUME NEW u \in Transports PROVE Open(u)' = Open(u)
  BY <1>3 DEF Open
<1>6. ASSUME NEW u \in Transports, NEW i \in DOMAIN queue[u]
      PROVE  i \in DOMAIN queue'[u] /\ queue'[u][i] = queue[u][i]
  BY <1>2, <1>3, <1>6
<1>7. ASSUME NEW u \in Transports, NEW i \in DOMAIN queue'[u]
      PROVE  \/ i \in DOMAIN queue[u] /\ queue'[u][i] = queue[u][i]
             \/ /\ u = t /\ i = n /\ queue'[u][i].op = call[k].op /\ queue'[u][i].id = call[k].id
                /\ queue'[u][i].config = call[k].config /\ queue'[u][i].caller = k
  BY <1>2, <1>3, <1>7
<1>8. ASSUME NEW u \in Transports, NEW key
      PROVE  /\ Answerable(u, key) => Answerable(u, key)'
             /\ Coming(u, key) => Coming(u, key)'
  <2>1. Answerable(u, key) => Answerable(u, key)'
    BY <1>3 DEF Answerable
  <2>2. QED
    BY <1>6, <2>1 DEF Coming, Brings, Installs
<1>9. ASSUME NEW j \in Callers PROVE Prepares(j)'
  <2> SUFFICES ASSUME NEW u \in Transports, call'[j].t = u, Open(u)'
               PROVE  /\ job'[j].op = "send" => call'[j].op # "UnregisterListener"
                      /\ call'[j].op = "RegisterListener" =>
                            /\ Installable(u, call[j])'
                            /\ call'[j].config \in Responses => \E m \in MessagesFor[j] :
                                  TypeOf(m) = "Request" /\ call'[j].config = ResponseConfig(m)
                            /\ job'[j].op = "send" =>
                                  /\ call'[j].config \in Responses
                                  /\ call'[j].config = ResponseConfig(job'[j].msg)
                                  /\ call'[j].reply = "Ok" =>
                                        Answerable(u, RegisterKey(call[j].config))'
                      /\ job'[j].op = "send" /\ call'[j].pc = "job" =>
                            Answerable(u, ResponseKey(job[j].msg))'
                      /\ call'[j].op = "Send" /\ call'[j].pc = "send"
                            /\ job'[j].p2p /\ TypeOf(call'[j].config) = "Request" =>
                            Coming(u, ResponseKey(call[j].config))'
    BY DEF Prepares, Expects, Open
  <2>1. /\ call[j].t = u /\ Open(u) /\ Prepares(j) /\ job'[j] = job[j]
        /\ call'[j].pc \in {"job", "send"} => call'[j].pc = call[j].pc
    BY <1>4, <1>5 DEF AnswerInv
  <2>2. PICK c : c = call[j].config /\ c = call'[j].config
    BY <1>4
  <2>3. PICK m : m = job[j].msg
    OBVIOUS
  <2>4. ASSUME NEW key PROVE /\ Answerable(u, key) => Answerable(u, key)'
                             /\ Coming(u, key) => Coming(u, key)'
    BY <1>8
  <2>5. /\ Answerable(u, RegisterKey(c))' => Answerable(u, RegisterKey(call[j].config))'
        /\ Answerable(u, ResponseKey(m))' => Answerable(u, ResponseKey(job[j].msg))'
        /\ Coming(u, ResponseKey(c))' => Coming(u, ResponseKey(call[j].config))'
    BY <2>1, <2>2, <2>3 DEF Answerable, Coming
  <2>6. /\ Answerable(u, RegisterKey(call[j].config)) => Answerable(u, RegisterKey(call[j].config))'
        /\ Answerable(u, ResponseKey(job[j].msg)) => Answerable(u, ResponseKey(job[j].msg))'
        /\ Coming(u, ResponseKey(call[j].config)) => Coming(u, ResponseKey(call[j].config))'
    BY <2>2, <2>3, <2>4, <2>5
  <2>7. Installable(u, call[j]) => Installable(u, call[j])'
    BY <1>3, <1>4 DEF Installable
  <2>8. QED
    BY <1>4, <2>1, <2>6, <2>7 DEF Prepares, Expects
<1>10. ASSUME NEW u \in Transports PROVE InOrder(u)'
  <2> SUFFICES ASSUME Open(u)', NEW i \in DOMAIN queue'[u]
               PROVE  /\ queue'[u][i].op = "RegisterListener" =>
                            \/ queue'[u][i].config \in ServiceConfigs \cup Ordinary
                            \/ /\ queue'[u][i].config \in Responses /\ queue'[u][i].id \in Ids
                               /\ listenerConfigs'[u][queue'[u][i].id] = queue'[u][i].config
                      /\ queue'[u][i].op = "Send" /\ queue'[u][i].caller # None
                            /\ job'[queue'[u][i].caller].p2p
                            /\ TypeOf(queue'[u][i].config) = "Request" =>
                               \/ Answerable(u, ResponseKey(queue[u][i].config))'
                               \/ \E j \in DOMAIN queue'[u] : j < i
                                     /\ Brings(queue'[u][j], ResponseKey(queue'[u][i].config))
    BY DEF InOrder, Installable, Expects
  <2>1. Open(u)
    BY <1>5
  <2>2. PICK c : c = queue'[u][i].config
    OBVIOUS
  <2>3. Answerable(u, ResponseKey(c)) => Answerable(u, ResponseKey(queue[u][i].config))'
    <3>1. Answerable(u, ResponseKey(c)) => Answerable(u, ResponseKey(c))'
      BY <1>8
    <3>2. QED
      BY <2>2, <3>1 DEF Answerable
  <2>4. CASE i \in DOMAIN queue[u] /\ queue'[u][i] = queue[u][i]
    <3>1. /\ queue[u][i].op = "RegisterListener" => Installable(u, queue[u][i])
          /\ queue[u][i].op = "Send" /\ queue[u][i].caller # None
                /\ job[queue[u][i].caller].p2p /\ TypeOf(c) = "Request" =>
                   \/ Answerable(u, ResponseKey(c))
                   \/ \E j \in DOMAIN queue[u] : j < i /\ Brings(queue[u][j], ResponseKey(c))
      BY <2>1, <2>2, <2>4 DEF AnswerInv, InOrder, Expects
    <3>2. ASSUME NEW j \in DOMAIN queue[u], j < i, Brings(queue[u][j], ResponseKey(c))
          PROVE  j \in DOMAIN queue'[u] /\ Brings(queue'[u][j], ResponseKey(c))
      BY <1>6, <3>2
    <3>3. QED
      BY <1>3, <2>2, <2>3, <2>4, <3>1, <3>2 DEF Installable
  <2>5. CASE /\ u = t /\ i = n /\ queue'[u][i].op = call[k].op /\ queue'[u][i].id = call[k].id
             /\ c = call[k].config /\ queue'[u][i].caller = k
    <3>1. Prepares(k) /\ call[k].t = u
      BY <1>1, <2>5 DEF AnswerInv
    <3>2. call[k].op = "RegisterListener" => Installable(u, call[k])
      BY <2>1, <3>1 DEF Prepares
    <3>3. ASSUME call[k].op = "Send", job[k].p2p, TypeOf(c) = "Request"
          PROVE  \/ Answerable(u, ResponseKey(c))
                 \/ \E j \in DOMAIN queue'[u] : j < i /\ Brings(queue'[u][j], ResponseKey(c))
      <4>1. Coming(u, ResponseKey(c))
        BY <1>3, <2>1, <2>5, <3>1, <3>3 DEF Prepares, Expects
      <4>2. ASSUME NEW j \in DOMAIN queue[u], Brings(queue[u][j], ResponseKey(c))
            PROVE  j \in DOMAIN queue'[u] /\ j < i /\ Brings(queue'[u][j], ResponseKey(c))
        BY <1>2, <2>5, <4>2
      <4>3. QED
        BY <4>1, <4>2 DEF Coming
    <3>4. QED
      BY <1>3, <2>2, <2>3, <2>5, <3>2, <3>3 DEF Installable
  <2>6. QED
    BY <1>7, <2>2, <2>4, <2>5
<1>11. ASSUME NEW u \in Transports PROVE Holding(u)'
  <2> SUFFICES ASSUME Open(u)', NEW id \in Ids, NEW c \in Responses, c = listenerConfigs[u][id]
               PROVE  Coming(u, RegisterKey(c))' \/ \E j \in Callers : Offering(j, u, c)'
    BY <1>3 DEF Holding, Coming, Answerable, Offering
  <2>1. Coming(u, RegisterKey(c)) \/ \E j \in Callers : Offering(j, u, c)
    BY <1>5 DEF AnswerInv, Holding
  <2>2. CASE Coming(u, RegisterKey(c))
    BY <1>8, <2>2
  <2>3. ASSUME NEW j \in Callers, Offering(j, u, c), j # k PROVE Offering(j, u, c)'
    BY <1>4, <2>3 DEF Offering
  <2>4. CASE Offering(k, u, c)
    <3>1. u = t /\ n \in DOMAIN queue'[t] /\ Brings(queue'[t][n], RegisterKey(c))
      BY <1>1, <1>2, <2>4 DEF Offering, Brings, Installs
    <3>2. QED
      BY <3>1 DEF Coming, Brings, Installs
  <2>5. QED
    BY <2>1, <2>2, <2>3, <2>4
<1>12. QED
  BY <1>9, <1>10, <1>11 DEF AnswerInv

\* The engine installs what is to come, and takes no response's handler away.
LEMMA EngineKeepsAnswers ==
  ASSUME OwnServices, OwnResponses, PointInv, ChannelInv, TakeBackInv, LifeInv, AnswerInv,
         NEW t \in Transports, PointEngineStep(t), UNCHANGED <<p2p, job, history>>
  PROVE  AnswerInv'
<1>1. PICK reply : Takes(t, reply) /\ Handles(t, reply) /\ Runs(t, reply)
  BY EngineTakesAndHandles
<1>2. /\ UNCHANGED <<listenerConfigs, phase>>
      /\ \A j \in Callers :
            /\ call'[j].pc = call[j].pc /\ call'[j].op = call[j].op /\ call'[j].t = call[j].t
            /\ call'[j].config = call[j].config /\ call'[j].id = call[j].id
            /\ \/ call'[j] = call[j]
               \/ call'[j].reply = reply /\ Awaits(call[j], t, queue[t][1])
  BY <1>1, EngineAnswersCallers
<1>3. ASSUME NEW u \in Transports PROVE Open(u)' = Open(u)
  BY <1>2 DEF Open
<1>4. 1 \in DOMAIN queue[t] /\ \A u \in Transports : u # t => queue'[u] = queue[u]
  BY <1>1 DEF Takes
<1>5. ASSUME Open(t), NEW key, Brings(queue[t][1], key) PROVE Answerable(t, key)'
  <2>1. PICK c \in Responses, id \in Ids :
          c = queue[t][1].config /\ id = queue[t][1].id /\ listenerConfigs[t][id] = c
    <3>1. Installable(t, queue[t][1])
      BY <1>4, <1>5 DEF AnswerInv, InOrder, Brings, Installs
    <3>2. /\ queue[t][1].config \in Responses
          /\ queue[t][1].config \notin ServiceConfigs \cup Ordinary
      BY <1>5, ResponseAddress, NoOtherResponse DEF Brings
    <3>3. QED
      BY <3>1, <3>2 DEF Installable
  <2>2. key = RegisterKey(c) /\ key \in Keys /\ queue[t][1].op = "RegisterListener"
    BY <1>5, <2>1, ResponseAddress DEF Brings, Installs
  <2>3. AppName[t] \in apps
    BY <1>4, <1>5, <2>2 DEF LifeInv, Started
  <2>4. handlers'[AppName[t]][key] = id
    BY <1>1, <2>1, <2>2, <2>3 DEF Runs, Handles
  <2>5. QED
    BY <1>2, <2>1, <2>2, <2>4 DEF Answerable
<1>6. ASSUME NEW u \in Transports, Open(u), NEW key, Answerable(u, key) PROVE Answerable(u, key)'
  <2>1. PICK id \in Ids : /\ handlers[AppName[u]][key] = id /\ listenerConfigs[u][id] \in Responses
                          /\ RegisterKey(listenerConfigs[u][id]) = key
    BY <1>6 DEF Answerable
  <2>2. key \in Keys /\ key \notin ServiceKeys /\ key \in ResponseKeys
    BY <2>1, ResponseAddress DEF OwnServices, ResponseKeys
  <2>3. CASE u # t
    <3>1. handlers'[AppName[u]] = handlers[AppName[u]]
      BY <1>1, <2>3 DEF Handles, OwnServices
    <3>2. QED
      BY <1>2, <2>1, <3>1 DEF Answerable
  <2>4. CASE u = t
    <3>1. Spares(queue[t][1])
      BY <1>4, <1>6, <2>4 DEF LifeInv, Spared
    <3>2. CASE handlers'[AppName[t]][key] = handlers[AppName[t]][key]
      BY <1>2, <2>1, <2>4, <3>2 DEF Answerable
    <3>3. CASE queue[t][1].op = "UnregisterListener" /\ key = UnregisterKey(queue[t][1].config)
      BY <2>2, <3>1, <3>3, ResponseAddress DEF Spares, OwnResponses
    <3>4. CASE Installs(queue[t][1], key)
      <4>1. Installable(t, queue[t][1])
        BY <1>4, <1>6, <2>4, <3>4 DEF AnswerInv, InOrder, Installs
      <4>2. queue[t][1].config \in Responses
        BY <2>2, <3>4, <4>1, ResponseAddress DEF Installable, Installs, OwnResponses
      <4>3. QED
        BY <1>5, <1>6, <2>4, <3>4, <4>2 DEF Brings
    <3>5. QED
      BY <1>1, <2>2, <3>1, <3>2, <3>3, <3>4 DEF Handles, Spares
  <2>5. QED
    BY <2>3, <2>4
<1>7. ASSUME NEW u \in Transports, NEW i \in DOMAIN queue[u]
      PROVE  \/ u = t /\ i = 1
             \/ /\ u = t /\ i \in Nat /\ i - 1 \in DOMAIN queue'[u]
                /\ queue'[u][i - 1] = queue[u][i]
             \/ u # t /\ i \in DOMAIN queue'[u] /\ queue'[u][i] = queue[u][i]
  BY <1>4, EngineLeaves
<1>8. ASSUME NEW u \in Transports, Open(u), NEW key
      PROVE  /\ Answerable(u, key) => Answerable(u, key)'
             /\ Coming(u, key) => Coming(u, key)'
  <2>1. Answerable(u, key) => Answerable(u, key)'
    BY <1>6, <1>8
  <2>2. ASSUME NEW i \in DOMAIN queue[u], Brings(queue[u][i], key)
        PROVE  \/ Answerable(u, key)'
               \/ \E j \in DOMAIN queue'[u] : Brings(queue'[u][j], key)
    <3>1. CASE u = t /\ i = 1
      BY <1>5, <1>8, <2>2, <3>1
    <3>2. CASE ~(u = t /\ i = 1)
      BY <1>7, <2>2, <3>2
    <3>3. QED
      BY <3>1, <3>2
  <2>3. QED
    BY <2>1, <2>2 DEF Coming, Brings, Installs
<1>9. ASSUME NEW j \in Callers PROVE Prepares(j)'
  <2> SUFFICES ASSUME NEW u \in Transports, call'[j].t = u, Open(u)'
               PROVE  /\ job'[j].op = "send" => call'[j].op # "UnregisterListener"
                      /\ call'[j].op = "RegisterListener" =>
                            /\ Installable(u, call[j])'
                            /\ call'[j].config \in Responses => \E m \in MessagesFor[j] :
                                  TypeOf(m) = "Request" /\ call'[j].config = ResponseConfig(m)
                            /\ job'[j].op = "send" =>
                                  /\ call'[j].config \in Responses
                                  /\ call'[j].config = ResponseConfig(job'[j].msg)
                                  /\ call'[j].reply = "Ok" =>
                                        Answerable(u, RegisterKey(call[j].config))'
                      /\ job'[j].op = "send" /\ call'[j].pc = "job" =>
                            Answerable(u, ResponseKey(job[j].msg))'
                      /\ call'[j].op = "Send" /\ call'[j].pc = "send"
                            /\ job'[j].p2p /\ TypeOf(call'[j].config) = "Request" =>
                            Coming(u, ResponseKey(call[j].config))'
    BY DEF Prepares, Expects, Open
  <2>1. call[j].t = u /\ Open(u) /\ Prepares(j) /\ job'[j] = job[j]
    BY <1>2, <1>3 DEF AnswerInv
  <2>2. PICK c : c = call[j].config /\ c = call'[j].config
    BY <1>2
  <2>3. PICK m : m = job[j].msg
    OBVIOUS
  <2>4. ASSUME NEW key PROVE /\ Answerable(u, key) => Answerable(u, key)'
                             /\ Coming(u, key) => Coming(u, key)'
    BY <1>8, <2>1
  <2>5. /\ Answerable(u, RegisterKey(c))' => Answerable(u, RegisterKey(call[j].config))'
        /\ Answerable(u, ResponseKey(m))' => Answerable(u, ResponseKey(job[j].msg))'
        /\ Coming(u, ResponseKey(c))' => Coming(u, ResponseKey(call[j].config))'
    BY <2>1, <2>2, <2>3 DEF Answerable, Coming
  <2>6. /\ Answerable(u, RegisterKey(call[j].config)) => Answerable(u, RegisterKey(call[j].config))'
        /\ Answerable(u, ResponseKey(job[j].msg)) => Answerable(u, ResponseKey(job[j].msg))'
        /\ Coming(u, ResponseKey(call[j].config)) => Coming(u, ResponseKey(call[j].config))'
    BY <2>2, <2>3, <2>4, <2>5
  <2>7. Installable(u, call[j]) => Installable(u, call[j])'
    BY <1>2 DEF Installable
  <2>8. ASSUME call[j].op = "RegisterListener", job[j].op = "send", call'[j].reply = "Ok"
        PROVE  Answerable(u, RegisterKey(call[j].config))'
    <3>1. CASE call'[j] = call[j]
      BY <2>1, <2>6, <2>8, <3>1 DEF Prepares
    <3>2. CASE call'[j].reply = reply /\ Awaits(call[j], t, queue[t][1])
      <4>1. u = t /\ queue[t][1].op = "RegisterListener" /\ queue[t][1].config = c
        BY <2>1, <2>2, <2>8, <3>2 DEF Awaits
      <4>2. c \in Responses
        BY <2>1, <2>2, <2>8 DEF Prepares
      <4>3. Answerable(u, RegisterKey(c))'
        BY <1>5, <2>1, <4>1, <4>2 DEF Brings, Installs
      <4>4. QED
        BY <2>5, <4>3
    <3>3. QED
      BY <1>2, <3>1, <3>2
  <2>9. QED
    BY <1>2, <2>1, <2>6, <2>7, <2>8 DEF Prepares, Expects
<1>10. ASSUME NEW u \in Transports PROVE InOrder(u)'
  <2> SUFFICES ASSUME Open(u)', NEW i \in DOMAIN queue'[u]
               PROVE  /\ queue'[u][i].op = "RegisterListener" =>
                            \/ queue'[u][i].config \in ServiceConfigs \cup Ordinary
                            \/ /\ queue'[u][i].config \in Responses /\ queue'[u][i].id \in Ids
                               /\ listenerConfigs'[u][queue'[u][i].id] = queue'[u][i].config
                      /\ queue'[u][i].op = "Send" /\ queue'[u][i].caller # None
                            /\ job'[queue'[u][i].caller].p2p
                            /\ TypeOf(queue'[u][i].config) = "Request" =>
                               \/ Answerable(u, ResponseKey(queue[u][i].config))'
                               \/ \E j \in DOMAIN queue'[u] : j < i
                                     /\ Brings(queue'[u][j], ResponseKey(queue'[u][i].config))
    BY DEF InOrder, Installable, Expects
  <2>1. Open(u)
    BY <1>3
  <2>2. PICK c : c = queue'[u][i].config
    OBVIOUS
  <2>3. Answerable(u, ResponseKey(c))' => Answerable(u, ResponseKey(queue[u][i].config))'
    BY <2>2 DEF Answerable
  <2>4. PICK n \in DOMAIN queue[u] : /\ queue'[u][i] = queue[u][n]
                                     /\ u = t => n = i + 1 /\ i \in Nat /\ i >= 1
                                     /\ u # t => n = i
    <3>1. CASE u = t
      BY <1>1, <3>1 DEF Takes
    <3>2. CASE u # t
      <4>1. queue'[u] = queue[u]
        BY <1>4, <3>2
      <4>2. QED
        BY <3>2, <4>1
    <3>3. QED
      BY <3>1, <3>2
  <2>5. /\ queue[u][n].op = "RegisterListener" => Installable(u, queue[u][n])
        /\ queue[u][n].op = "Send" /\ queue[u][n].caller # None
              /\ job[queue[u][n].caller].p2p /\ TypeOf(c) = "Request" =>
                 \/ Answerable(u, ResponseKey(c))
                 \/ \E j \in DOMAIN queue[u] : j < n /\ Brings(queue[u][j], ResponseKey(c))
    BY <2>1, <2>2, <2>4 DEF AnswerInv, InOrder, Expects
  <2>6. Answerable(u, ResponseKey(c)) => Answerable(u, ResponseKey(c))'
    BY <1>8, <2>1
  <2>7. ASSUME NEW j \in DOMAIN queue[u], j < n, Brings(queue[u][j], ResponseKey(c))
        PROVE  \/ Answerable(u, ResponseKey(c))'
               \/ \E l \in DOMAIN queue'[u] : l < i /\ Brings(queue'[u][l], ResponseKey(c))
    <3>1. CASE u = t /\ j = 1
      BY <1>5, <2>1, <2>7, <3>1
    <3>2. CASE u = t /\ j # 1
      <4>1. j \in Nat /\ j - 1 \in DOMAIN queue'[u] /\ queue'[u][j - 1] = queue[u][j]
        BY <1>7, <3>2
      <4>2. j - 1 < i
        BY <2>4, <2>7, <3>2, <4>1
      <4>3. QED
        BY <2>7, <4>1, <4>2
    <3>3. CASE u # t
      BY <1>7, <2>4, <2>7, <3>3
    <3>4. QED
      BY <3>1, <3>2, <3>3
  <2>8. QED
    BY <1>2, <2>2, <2>3, <2>4, <2>5, <2>6, <2>7 DEF Installable
<1>11. ASSUME NEW u \in Transports PROVE Holding(u)'
  <2> SUFFICES ASSUME Open(u)', NEW id \in Ids, NEW c \in Responses, c = listenerConfigs[u][id]
               PROVE  Coming(u, RegisterKey(c))' \/ \E j \in Callers : Offering(j, u, c)'
    BY <1>2 DEF Holding, Coming, Answerable, Offering
  <2>1. Coming(u, RegisterKey(c)) \/ \E j \in Callers : Offering(j, u, c)
    BY <1>3 DEF AnswerInv, Holding
  <2>2. CASE Coming(u, RegisterKey(c))
    BY <1>3, <1>8, <2>2
  <2>3. ASSUME NEW j \in Callers, Offering(j, u, c) PROVE Offering(j, u, c)'
    BY <1>2, <2>3 DEF Offering
  <2>4. QED
    BY <2>1, <2>2, <2>3
<1>12. QED
  BY <1>9, <1>10, <1>11 DEF AnswerInv

\* A step that registers and releases nothing.
LEMMA SameListeners ==
  ASSUME NEW k \in Callers, UNCHANGED listenerConfigs
  PROVE  ResponsesStay /\ ResponsesOffered(k)
  BY DEF ResponsesStay, ResponsesOffered

\* A caller without a registration, a message or the job of a send.
LEMMA PreparesNothing ==
  ASSUME NEW k \in Callers, call'[k].op \notin {"RegisterListener", "Send"},
         job'[k].op # "send"
  PROVE  Prepares(k)'
  BY DEF Prepares

\* A call that has returned.
LEMMA ReturnPrepares ==
  ASSUME NEW k \in Callers, call'[k] = Returned, job'[k].op # "send"
  PROVE  Prepares(k)'
<1>1. call'[k].op = None
  BY JobFields
<1>2. QED
  BY <1>1, NotNone, PreparesNothing

\* While nobody drops the transport, the registry gives up no response.
LEMMA ReleasesService ==
  ASSUME OwnServices, OwnResponses, PointInv, LifeInv, NEW k \in Callers, call[k].pc = "release",
         \/ Unregister(call[k].t, call[k].config)
         \/ DropRelease(call[k].t, call[k].config)
  PROVE  ResponsesStay /\ ResponsesOffered(k)
<1>1. /\ call[k].t \in Transports /\ call[k].config \in Configs
      /\ call[k].op = "UnregisterListener"
  BY DEF PointInv, PointCallInv, Purposeful
<1>2. PICK t \in Transports, c \in Configs : t = call[k].t /\ c = call[k].config
  BY <1>1
<1>3. \A u \in Transports, id \in Ids :
         \/ listenerConfigs'[u][id] = listenerConfigs[u][id]
         \/ u = t /\ listenerConfigs[u][id] = c /\ listenerConfigs'[u][id] = None
  BY <1>2, ReleasesOne DEF PointInv
<1>4. UNCHANGED phase
  BY DEF Unregister, DropRelease, lifecycle
<1>5. Open(t)' => c \notin Responses
  <2>1. Open(t) => c \in ServiceConfigs \cup Ordinary
    BY <1>1, <1>2 DEF LifeInv, Serves, Spares
  <2>2. QED
    BY <1>4, <2>1, ResponseAddress, NoOtherResponse DEF Open
<1>6. None \notin Responses
  BY ResponseAddress, NoneAssumption
<1>7. QED
  BY <1>3, <1>5, <1>6 DEF ResponsesStay, ResponsesOffered

\* Constructing and dropping a transport.
LEMMA LifeCallsAnswerPart ==
  ASSUME PointInv, TakeBackInv, NEW k \in Callers, NEW t \in Transports,
         NewCall(k, t) \/ DropCall(k, t), UNCHANGED <<p2p, job, history>>
  PROVE  AnswerPart(k)
<1>1. call[k].pc = "idle" /\ UNCHANGED listenerConfigs
  BY DEF NewCall, DropCall, New, DropBegin, registry
<1>2. job'[k].op # "send"
  BY <1>1, NotNone DEF TakeBackInv, Own
<1>3. PICK r : call' = [call EXCEPT ![k] = r] /\ r.op \notin {"RegisterListener", "Send"}
  <2>1. Dropping(t).op = None
    BY DEF Returned, Dropping
  <2>2. Sending("StartVsomeipApp", t, None, None).op = "StartVsomeipApp"
    BY JobFields
  <2>3. QED
    BY <2>1, <2>2, NotNone DEF NewCall, DropCall
<1>4. call'[k] = r
  BY <1>3, OneCallReplaced
<1>5. QED
  BY <1>1, <1>2, <1>3, <1>4, SameListeners, PreparesNothing DEF AnswerPart

\* An ordinary call registers no response.
LEMMA OrdinaryCallAnswerPart ==
  ASSUME OwnResponses, PointInv, TakeBackInv, LifeInv, NEW k \in Callers, NEW t \in Transports,
         NEW c \in ConfigsFor[k], RegisterCall(k, t, c) \/ UnregisterCall(k, t, c),
         UNCHANGED <<p2p, job, history>>
  PROVE  AnswerPart(k)
<1>1. /\ call[k].pc = "idle" /\ c \in Ordinary /\ c \in Configs /\ c \notin Responses
      /\ None \notin Responses
  <2>1. c \in Ordinary /\ None \notin Configs
    BY NoneAssumption DEF Ordinary
  <2>2. Responses \subseteq Configs
    BY PointAssumption DEF Responses, Outgoing
  <2>3. QED
    BY <2>1, <2>2, OrdinaryCall, NoOtherResponse
<1>2. job'[k].op = None /\ call[k] = Returned
  BY <1>1 DEF TakeBackInv, Own, LifeInv, Serves
<1>3. ResponsesStay /\ ResponsesOffered(k)
  <2>1. CASE UNCHANGED vars
    BY <2>1, SameListeners DEF vars, registry
  <2>2. CASE Register(t, c)
    BY <1>1, <2>2, RegisterEffect DEF PointInv, ResponsesStay, ResponsesOffered
  <2>3. QED
    BY <2>1, <2>2, OrdinaryCall
<1>4. Prepares(k)'
  <2>1. CASE UNCHANGED call
    BY <1>2, <2>1, NotNone, ReturnPrepares
  <2>2. ASSUME NEW op \in {"RegisterListener", "UnregisterListener"}, NEW id,
               call' = [call EXCEPT ![k] = Sending(op, t, c, id)]
        PROVE  Prepares(k)'
    <3>1. call'[k] = Sending(op, t, c, id)
      BY <2>2, OneCallReplaced
    <3>2. call'[k].pc = "send" /\ call'[k].op = op /\ call'[k].config = c
      BY <3>1, JobFields
    <3>3. QED
      BY <1>1, <1>2, <3>2, NotNone DEF Prepares, Installable
  <2>3. QED
    BY <2>1, <2>2, OrdinaryCall
<1>5. QED
  BY <1>1, <1>3, <1>4 DEF AnswerPart

\* The end of a constructor and of Drop, and the steps of Drop.
LEMMA PlainStepAnswerPart ==
  ASSUME OwnServices, OwnResponses, PointInv, LifeInv, NEW k \in Callers, job[k].op = None,
         CallStep(k) \/ AwaitTimeout(k), UNCHANGED <<p2p, job, history>>
  PROVE  AnswerPart(k)
<1>1. call[k].pc \in {"drop", "await", "release"} /\ job'[k].op # "send"
  BY NotNone DEF CallStep, DropNext, AwaitReply, ReleaseHandler, AwaitTimeout
<1>2. call[k] \in PointCalls
  BY DEF PointInv, PointCallInv
<1>3. Returned.op = None /\ \A t : Dropping(t).op = None
  BY DEF Returned, Dropping
<1>4. ASSUME NEW reply, Finish(k, reply)
      PROVE  /\ UNCHANGED listenerConfigs
             /\ \E r : call' = [call EXCEPT ![k] = r] /\ r.op \notin {"RegisterListener", "Send"}
  <2>1. UNCHANGED listenerConfigs
    BY <1>4 DEF Finish, vars, registry, DropBegin, DropEnd
  <2>2. CASE \/ call' = [call EXCEPT ![k] = Returned]
             \/ call' = [call EXCEPT ![k] = Dropping(call[k].t)]
    BY <1>3, <2>1, <2>2, NotNone
  <2>3. CASE /\ call[k].op = "UnregisterListener"
             /\ call' = [call EXCEPT ![k].pc = "release", ![k].reply = None]
    <3> DEFINE r == [call[k] EXCEPT !.pc = "release", !.reply = None]
    <3>1. r.op = "UnregisterListener"
      BY <1>2, <2>3 DEF PointCalls
    <3>2. call' = [call EXCEPT ![k] = r]
      BY <1>2, <2>3 DEF PointInv, PointCallInv, PointCalls
    <3> HIDE DEF r
    <3>3. QED
      BY <2>1, <3>1, <3>2
  <2>4. QED
    BY <1>4, <2>2, <2>3 DEF Finish
<1>5. CASE DropNext(k)
  <2>1. UNCHANGED listenerConfigs
    BY <1>5 DEF DropNext, vars, registry
  <2>2. \A t, c : /\ Sending("UnregisterListener", t, c, None).op = "UnregisterListener"
                  /\ Sending("StopVsomeipApp", t, c, None).op = "StopVsomeipApp"
    BY JobFields
  <2>3. PICK r : call' = [call EXCEPT ![k] = r] /\ r.op \notin {"RegisterListener", "Send"}
    BY <1>5, <2>2 DEF DropNext
  <2>4. call'[k] = r
    BY <2>3, OneCallReplaced
  <2>5. QED
    BY <1>1, <2>1, <2>3, <2>4, SameListeners, PreparesNothing DEF AnswerPart
<1>6. CASE AwaitReply(k) \/ AwaitTimeout(k)
  <2>1. PICK reply : Finish(k, reply)
    BY <1>6 DEF AwaitReply, AwaitTimeout
  <2>2. PICK r : call' = [call EXCEPT ![k] = r] /\ r.op \notin {"RegisterListener", "Send"}
    BY <1>4, <2>1
  <2>3. call'[k] = r /\ UNCHANGED listenerConfigs
    BY <1>4, <2>1, <2>2, OneCallReplaced
  <2>4. QED
    BY <1>1, <2>2, <2>3, SameListeners, PreparesNothing DEF AnswerPart
<1>7. CASE ReleaseHandler(k)
  <2>1. PICK r : call' = [call EXCEPT ![k] = r] /\ r.op \notin {"RegisterListener", "Send"}
    BY <1>3, <1>7, NotNone DEF ReleaseHandler
  <2>2. call'[k] = r
    BY <2>1, OneCallReplaced
  <2>3. ResponsesStay /\ ResponsesOffered(k)
    BY <1>7, ReleasesService DEF ReleaseHandler
  <2>4. QED
    BY <1>1, <2>1, <2>2, <2>3, PreparesNothing DEF AnswerPart
<1>8. QED
  BY <1>5, <1>6, <1>7 DEF CallStep

\* The jobs with services leave the responses alone.
LEMMA ServiceJobAnswerPart ==
  ASSUME OwnServices, OwnResponses, PointInv, LifeInv, NEW k \in Callers,
         \/ \E t \in Transports : RegisterP2P(k, t) \/ UnregisterP2P(k, t)
         \/ RegisterNextService(k) \/ RegisterP2PEnds(k)
         \/ UnregisterNextService(k) \/ UnregisterP2PEnds(k) \/ ReleaseService(k)
  PROVE  AnswerPart(k)
<1>1. ASSUME NEW t \in Transports, RegisterP2P(k, t) \/ UnregisterP2P(k, t) PROVE AnswerPart(k)
  <2>1. /\ call' = [call EXCEPT ![k] = Busy(t)] /\ call[k].pc = "idle"
        /\ UNCHANGED listenerConfigs
    BY <1>1 DEF RegisterP2P, UnregisterP2P, vars, registry
  <2>2. PICK r \in Jobs : job' = [job EXCEPT ![k] = r] /\ r.op \in {"register", "unregister"}
    BY <1>1, JobBegins
  <2>3. job'[k].op # "send"
    BY <2>2 DEF PointInv, JobInv
  <2>4. call'[k] = Busy(t)
    BY <2>1, OneCallReplaced
  <2>5. call'[k].op = None
    BY <2>4, JobFields
  <2>6. QED
    BY <2>1, <2>3, <2>5, NotNone, SameListeners, PreparesNothing DEF AnswerPart
<1>2. CASE RegisterP2PEnds(k) \/ UnregisterP2PEnds(k)
  <2>1. call[k].pc = "job" /\ UNCHANGED listenerConfigs /\ Return(k)
    BY <1>2 DEF RegisterP2PEnds, UnregisterP2PEnds, vars, registry
  <2>2. call'[k] = Returned /\ job'[k] = NoJob
    BY <2>1, OneCallReplaced DEF Return, PointInv, JobInv
  <2>3. job'[k].op # "send"
    BY <2>2, JobFields, NotNone
  <2>4. QED
    BY <2>1, <2>2, <2>3, SameListeners, ReturnPrepares DEF AnswerPart
<1>3. CASE RegisterNextService(k)
  <2>1. call[k].pc = "job" /\ job[k].op = "register"
    BY <1>3 DEF RegisterNextService
  <2>2. call[k].t \in Transports /\ job[k] \in Jobs
    BY <2>1, JobKnows, NotNone DEF PointInv, JobInv
  <2>3. PICK t \in Transports : t = call[k].t
    BY <2>2
  <2>4. PICK s \in job[k].todo :
          /\ Register(t, ServiceConfig(s))
          /\ \/ \E id \in Granted(t) :
                   /\ call' = [call EXCEPT ![k] =
                                  Sending("RegisterListener", t, ServiceConfig(s), id)]
                   /\ job' = [job EXCEPT ![k].todo = @ \ {s}]
             \/ Return(k)
    BY <1>3, <2>3 DEF RegisterNextService
  <2>5. s \in AllServices
    BY <2>2, <2>4 DEF Jobs
  <2>6. PICK c \in ServiceConfigs : c = ServiceConfig(s)
    BY <2>5 DEF ServiceConfigs
  <2>7. c \in Configs /\ c \notin Responses /\ None \notin Responses
    BY ResponseAddress, NoneAssumption
  <2>8. \A u \in Transports, id \in Ids :
           \/ listenerConfigs'[u][id] = listenerConfigs[u][id]
           \/ u = t /\ listenerConfigs[u][id] = None /\ listenerConfigs'[u][id] = c
    BY <2>4, <2>6, <2>7, RegisterEffect DEF PointInv
  <2>9. ResponsesStay /\ ResponsesOffered(k)
    BY <2>7, <2>8 DEF ResponsesStay, ResponsesOffered
  <2>10. CASE Return(k)
    <3>1. call'[k] = Returned /\ job'[k] = NoJob
      BY <2>10, OneCallReplaced DEF Return, PointInv, JobInv
    <3>2. job'[k].op # "send"
      BY <3>1, JobFields, NotNone
    <3>3. QED
      BY <2>1, <2>9, <3>1, <3>2, ReturnPrepares DEF AnswerPart
  <2>11. ASSUME NEW id, call' = [call EXCEPT ![k] = Sending("RegisterListener", t, c, id)],
                job' = [job EXCEPT ![k].todo = @ \ {s}]
         PROVE  AnswerPart(k)
    <3>1. call'[k] = Sending("RegisterListener", t, c, id)
      BY <2>11, OneCallReplaced
    <3>2. call'[k].op = "RegisterListener" /\ call'[k].config = c /\ call'[k].pc = "send"
      BY <3>1, JobFields
    <3>3. job'[k].op = "register"
      BY <2>1, <2>2, <2>11 DEF PointInv, JobInv, Jobs
    <3>4. Prepares(k)'
      BY <2>7, <3>2, <3>3 DEF Prepares, Installable
    <3>5. QED
      BY <2>1, <2>9, <3>4 DEF AnswerPart
  <2>12. QED
    BY <2>4, <2>6, <2>10, <2>11
<1>4. CASE UnregisterNextService(k)
  <2>1. /\ call[k].pc = "job" /\ job[k].op = "unregister" /\ UNCHANGED listenerConfigs
    BY <1>4 DEF UnregisterNextService, vars, registry
  <2>2. PICK s \in job[k].todo :
          /\ call' = [call EXCEPT ![k] =
                         Sending("UnregisterListener", call[k].t, ServiceConfig(s), None)]
          /\ job' = [job EXCEPT ![k].todo = @ \ {s}]
    BY <1>4 DEF UnregisterNextService
  <2>3. call'[k] = Sending("UnregisterListener", call[k].t, ServiceConfig(s), None)
    BY <2>2, OneCallReplaced
  <2>4. call'[k].op = "UnregisterListener"
    BY <2>3, JobFields
  <2>5. job'[k].op = "unregister"
    BY <2>1, <2>2 DEF PointInv, JobInv, Jobs
  <2>6. QED
    BY <2>1, <2>4, <2>5, SameListeners, PreparesNothing DEF AnswerPart
<1>5. CASE ReleaseService(k)
  <2>1. /\ call[k].pc = "release" /\ job'[k].op = "unregister"
        /\ Unregister(call[k].t, call[k].config)
        /\ call' = [call EXCEPT ![k] = Busy(call[k].t)]
    BY <1>5 DEF ReleaseService
  <2>2. call'[k] = Busy(call[k].t)
    BY <2>1, OneCallReplaced
  <2>3. call'[k].op = None
    BY <2>2, JobFields
  <2>4. QED
    BY <2>1, <2>3, NotNone, ReleasesService, PreparesNothing DEF AnswerPart
<1>6. QED
  BY <1>1, <1>2, <1>3, <1>4, <1>5

\* send: the response is registered first, or known to be on its way.
LEMMA SendAnswerPart ==
  ASSUME OwnServices, OwnResponses, PointInv, TakeBackInv, LifeInv, AnswerInv,
         NEW k \in Callers, NEW t \in Transports, NEW m \in MessagesFor[k], Send(k, t, m)
  PROVE  AnswerPart(k)
<1>1. /\ call[k].pc = "idle" /\ Open(t) /\ UNCHANGED <<queue, handlers>>
      /\ call[k] = Returned /\ job[k].op # "send"
  <2>1. call[k].pc = "idle" /\ phase[t] = "live" /\ UNCHANGED <<queue, handlers>>
    BY DEF Send, Usable, queueAndVsomeip
  <2>2. QED
    BY <2>1, NotNone DEF Open, LifeInv, Serves, TakeBackInv, Own
<1>2. CASE SendCommand(k, t, m) /\ UNCHANGED vars /\ (~p2p[t] \/ TypeOf(m) # "Request")
  <2>1. UNCHANGED listenerConfigs
    BY <1>2 DEF vars, registry
  <2> DEFINE b == [JobOf("send", {}) EXCEPT !.msg = m, !.p2p = p2p[t]]
  <2>2. b.p2p = p2p[t]
    BY DEF JobOf, NoJob
  <2>3. job' = [job EXCEPT ![k] = b] /\ call' = [call EXCEPT ![k] = Sending("Send", t, m, None)]
    BY <1>2 DEF SendCommand
  <2> HIDE DEF b
  <2>4. job'[k].p2p = p2p[t] /\ call'[k] = Sending("Send", t, m, None)
    BY <2>2, <2>3, OneCallReplaced DEF PointInv, JobInv
  <2>5. call'[k].op = "Send" /\ call'[k].pc = "send" /\ call'[k].config = m
    BY <2>4, JobFields
  <2>6. Prepares(k)'
    BY <1>2, <2>4, <2>5 DEF Prepares, Expects
  <2>7. QED
    BY <1>1, <2>1, <2>6, SameListeners DEF AnswerPart
<1>3. ASSUME p2p[t], TypeOf(m) = "Request", Register(t, ResponseConfig(m)),
             \/ \E id \in Granted(t) :
                   /\ call' = [call EXCEPT ![k] =
                                  Sending("RegisterListener", t, ResponseConfig(m), id)]
                   /\ job' = [job EXCEPT ![k] =
                                 [JobOf("send", {}) EXCEPT !.msg = m, !.p2p = TRUE]]
             \/ Granted(t) = {} /\ freeIds # {} /\ SendCommand(k, t, m)
             \/ Granted(t) = {} /\ freeIds = {} /\ UNCHANGED <<call, job>>
      PROVE  AnswerPart(k)
  <2>1. PICK c \in Responses : c = ResponseConfig(m)
    BY <1>3 DEF Responses, Outgoing
  <2>2. c \in Configs /\ None \notin Responses /\ Register(t, c)
    BY <1>3, <2>1, ResponseAddress, NoneAssumption
  <2>3. \A u \in Transports, id \in Ids :
           \/ listenerConfigs'[u][id] = listenerConfigs[u][id]
           \/ u = t /\ listenerConfigs[u][id] = None /\ listenerConfigs'[u][id] = c
    BY <2>2, RegisterEffect DEF PointInv
  <2>4. ResponsesStay
    BY <2>2, <2>3 DEF ResponsesStay
  <2>5. ASSUME Granted(t) = {}
        PROVE  /\ ResponsesOffered(k)
               /\ \A id \in Ids : listenerConfigs'[t][id] = listenerConfigs[t][id]
    BY <2>3, <2>5 DEF Granted, ResponsesOffered
  <2>6. ASSUME NEW id \in Granted(t),
               call' = [call EXCEPT ![k] = Sending("RegisterListener", t, ResponseConfig(m), id)],
               job' = [job EXCEPT ![k] = [JobOf("send", {}) EXCEPT !.msg = m, !.p2p = TRUE]]
        PROVE  AnswerPart(k)
    <3> DEFINE b == [JobOf("send", {}) EXCEPT !.msg = m, !.p2p = TRUE]
    <3>1. b.msg = m
      BY DEF JobOf, NoJob
    <3>2. job' = [job EXCEPT ![k] = b]
      BY <2>6
    <3> HIDE DEF b
    <3>3. job'[k].msg = m /\ call'[k] = Sending("RegisterListener", t, c, id)
      BY <2>1, <2>6, <3>1, <3>2, OneCallReplaced DEF PointInv, JobInv
    <3>4. /\ call'[k].op = "RegisterListener" /\ call'[k].pc = "send" /\ call'[k].t = t
          /\ call'[k].config = c /\ call'[k].id = id /\ call'[k].reply # "Ok"
      BY <3>3, JobFields, NotNone
    <3>5. id \in Ids /\ listenerConfigs'[t][id] = c
      BY <2>3, <2>6 DEF Granted
    <3>6. Installable(t, call[k])'
      BY <3>4, <3>5 DEF Installable
    <3>7. Prepares(k)'
      BY <1>3, <2>1, <3>3, <3>4, <3>6 DEF Prepares
    <3>8. Offering(k, t, c)'
      BY <3>4 DEF Offering
    <3>9. ResponsesOffered(k)
      BY <2>2, <2>3, <3>8 DEF ResponsesOffered
    <3>10. QED
      BY <1>1, <2>4, <3>7, <3>9 DEF AnswerPart
  <2>7. CASE Granted(t) = {} /\ freeIds # {} /\ SendCommand(k, t, m)
    <3>1. call'[k] = Sending("Send", t, m, None)
      BY <2>7, OneCallReplaced DEF SendCommand
    <3>2. call'[k].op = "Send" /\ call'[k].pc = "send" /\ call'[k].t = t /\ call'[k].config = m
      BY <3>1, JobFields
    <3>3. PICK id \in Ids : listenerConfigs[t][id] = c
      BY <2>2, <2>7, RegisterRefused DEF PointInv
    <3>4. Coming(t, RegisterKey(c)) \/ \E j \in Callers : Offering(j, t, c)
      BY <1>1, <3>3 DEF AnswerInv, Holding
    <3>5. ASSUME NEW j \in Callers, Offering(j, t, c) PROVE FALSE
      <4>1. call[j].pc = "send" /\ call[j].op = "RegisterListener" /\ call[j].t = t
            /\ call[j].config = c
        BY <3>5 DEF Offering
      <4>2. PICK n \in MessagesFor[j] : TypeOf(n) = "Request" /\ c = ResponseConfig(n)
        BY <1>1, <4>1 DEF AnswerInv, Prepares
      <4>3. j = k
        BY <1>3, <2>1, <4>2 DEF OwnResponses
      <4>4. QED
        BY <1>1, <4>1, <4>3
    <3>6. PICK key : key = RegisterKey(c)
      OBVIOUS
    <3>7. Coming(t, key)
      BY <3>4, <3>5, <3>6
    <3>8. Coming(t, key)'
      BY <1>1, <2>5, <2>7, <3>7 DEF Coming, Answerable
    <3>9. Coming(t, ResponseKey(call[k].config))'
      BY <2>1, <3>2, <3>6, <3>8 DEF Coming, Answerable, ResponseKey
    <3>10. Prepares(k)'
      <4>1. ASSUME NEW u \in Transports, call'[k].t = u PROVE u = t
        BY <3>2, <4>1
      <4>2. QED
        BY <3>2, <3>9, <4>1 DEF Prepares
    <3>11. QED
      BY <1>1, <2>4, <2>5, <2>7, <3>10 DEF AnswerPart
  <2>8. CASE Granted(t) = {} /\ UNCHANGED <<call, job>>
    <3>1. call'[k] = Returned /\ job'[k].op # "send"
      BY <1>1, <2>8
    <3>2. QED
      BY <1>1, <2>4, <2>5, <2>8, <3>1, ReturnPrepares DEF AnswerPart
  <2>9. QED
    BY <1>3, <2>6, <2>7, <2>8
<1>4. QED
  BY <1>2, <1>3 DEF Send

\* The message of a send follows.
LEMMA SendNextAnswerPart ==
  ASSUME PointInv, LifeInv, AnswerInv, NEW k \in Callers, SendNext(k)
  PROVE  AnswerPart(k)
<1>1. /\ call[k].pc = "job" /\ job[k].op = "send" /\ UNCHANGED <<queue, handlers>>
      /\ UNCHANGED <<job, phase>> /\ UNCHANGED listenerConfigs
      /\ call' = [call EXCEPT ![k] = Sending("Send", call[k].t, job[k].msg, None)]
  BY DEF SendNext, queueAndVsomeip, vars, registry, lifecycle
<1>2. PICK t \in Transports : t = call[k].t
  BY <1>1, JobKnows
<1>2a. PICK m : m = job[k].msg
  OBVIOUS
<1>3. call'[k] = Sending("Send", t, m, None)
  BY <1>1, <1>2, <1>2a, OneCallReplaced
<1>4. call'[k].op = "Send" /\ call'[k].pc = "send" /\ call'[k].t = t /\ call'[k].config = m
  BY <1>3, JobFields
<1>5. Open(t)
  BY <1>1, <1>2 DEF LifeInv, Serves, Open
<1>6. Answerable(t, ResponseKey(m))
  BY <1>1, <1>2, <1>2a, <1>5 DEF AnswerInv, Prepares
<1>7. Coming(t, ResponseKey(m))'
  BY <1>1, <1>6 DEF Coming, Answerable
<1>8. Coming(t, ResponseKey(call[k].config))'
  BY <1>4, <1>7 DEF Coming, Answerable
<1>9. Prepares(k)'
  <2>1. ASSUME NEW u \in Transports, call'[k].t = u PROVE u = t
    BY <1>4, <2>1
  <2>2. QED
    BY <1>4, <1>8, <2>1 DEF Prepares
<1>10. QED
  BY <1>1, <1>9, SameListeners DEF AnswerPart

\* The result of a command of a job, or its timeout: with a registration that
\* succeeded there is a handler.
LEMMA JobReplyAnswerPart ==
  ASSUME PointInv, TakeBackInv, AnswerInv, NEW k \in Callers, JobReply(k) \/ JobTimeout(k)
  PROVE  AnswerPart(k)
<1>1. /\ call[k].pc = "await" /\ job[k].op # None /\ UNCHANGED phase
      /\ UNCHANGED <<handlers, listenerConfigs>>
  BY DEF JobReply, JobTimeout, vars, lifecycle, registry, queueAndVsomeip
<1>2. PICK reply : JobResult(k, reply) /\ (reply = "Ok" => call[k].reply = "Ok")
  BY DEF JobReply, JobTimeout
<1>3. call[k].t \in Transports /\ call[k] \in PointCalls /\ job[k] \in Jobs /\ Prepares(k)
  BY <1>1, JobTransport DEF TakeBackInv, PointInv, PointCallInv, JobInv, AnswerInv
<1>4. PICK t \in Transports : t = call[k].t
  BY <1>3
<1>4a. PICK m : m = job[k].msg
  OBVIOUS
<1>5. SUFFICES Prepares(k)'
  BY <1>1, SameListeners DEF AnswerPart
<1>6. CASE Return(k)
  <2>1. call'[k] = Returned /\ job'[k] = NoJob
    BY <1>6, OneCallReplaced DEF Return, PointInv, JobInv
  <2>2. job'[k].op # "send"
    BY <2>1, JobFields, NotNone
  <2>3. QED
    BY <2>1, <2>2, ReturnPrepares
<1>7. ASSUME call' = [call EXCEPT ![k] = Busy(t)], job'[k].op = job[k].op, job'[k].msg = m,
             Open(t) /\ job[k].op = "send" => Answerable(t, ResponseKey(m))
      PROVE  Prepares(k)'
  <2>1. call'[k] = Busy(t)
    BY <1>7, OneCallReplaced
  <2>2. call'[k].t = t /\ call'[k].op = None
    BY <2>1, JobFields
  <2>3. Open(t)' /\ job[k].op = "send" => Answerable(t, ResponseKey(job[k].msg))'
    BY <1>1, <1>4a, <1>7 DEF Answerable, Open
  <2>4. ASSUME NEW u \in Transports, call'[k].t = u PROVE u = t
    BY <2>2, <2>4
  <2>5. QED
    BY <1>7, <2>2, <2>3, <2>4, NotNone DEF Prepares
<1>8. CASE /\ call[k].op = "RegisterListener" /\ reply = "Ok"
           /\ call' = [call EXCEPT ![k] = Busy(t)] /\ UNCHANGED job
  <2>1. ASSUME Open(t), job[k].op = "send" PROVE Answerable(t, ResponseKey(m))
    <3>1. call[k].config = ResponseConfig(m) /\ Answerable(t, RegisterKey(call[k].config))
      BY <1>2, <1>3, <1>4, <1>4a, <1>8, <2>1 DEF Prepares
    <3>2. QED
      BY <3>1 DEF ResponseKey
  <2>2. QED
    BY <1>4, <1>4a, <1>7, <1>8, <2>1
<1>9. CASE /\ call[k].op = "UnregisterListener" /\ call' = [call EXCEPT ![k] = Busy(t)]
           /\ \E owed : job' = [job EXCEPT ![k].owed = owed]
  <2>1. job'[k].op = job[k].op /\ job'[k].msg = m
    BY <1>3, <1>4a, <1>9 DEF PointInv, JobInv, Jobs
  <2>2. ~(Open(t) /\ job[k].op = "send")
    BY <1>3, <1>4, <1>9 DEF Prepares
  <2>3. QED
    BY <1>7, <1>9, <2>1, <2>2
<1>10. CASE /\ call[k].op = "UnregisterListener" /\ UNCHANGED job
            /\ call' = [call EXCEPT ![k].pc = "release", ![k].reply = None]
  <2>1. call'[k].t = t /\ call'[k].pc = "release" /\ call'[k].op = "UnregisterListener"
    BY <1>3, <1>4, <1>10 DEF PointInv, PointCallInv, PointCalls
  <2>2. ~(Open(t) /\ job[k].op = "send")
    BY <1>3, <1>4, <1>10 DEF Prepares
  <2>3. ASSUME NEW u \in Transports, call'[k].t = u, Open(u)' PROVE u = t /\ job'[k].op # "send"
    BY <1>1, <1>10, <2>1, <2>2, <2>3 DEF Open
  <2>4. QED
    BY <2>1, <2>3 DEF Prepares
<1>11. QED
  BY <1>2, <1>4, <1>6, <1>8, <1>9, <1>10 DEF JobResult

\* Every step keeps the invariant.
LEMMA AnswersInductive ==
  ASSUME OwnServices, OwnResponses, PointInv, ChannelInv, TakeBackInv, LifeInv, AnswerInv,
         [PointNext]_pvars
  PROVE  AnswerInv'
<1>1. [Next]_vars
  BY PointNextIsRegistryStep DEF PointStep
<1>2. CASE UNCHANGED pvars
  <2>1. /\ UNCHANGED <<queue, call, handlers, job, phase>> /\ UNCHANGED listenerConfigs
    BY <1>2 DEF pvars, evars, engineVars, vars, registry, lifecycle
  <2>2. ASSUME NEW k \in Callers PROVE Prepares(k)'
    BY <2>1 DEF AnswerInv, Prepares, Expects, Installable, Answerable, Coming, Open
  <2>3. ASSUME NEW t \in Transports PROVE InOrder(t)' /\ Holding(t)'
    BY <2>1 DEF AnswerInv, InOrder, Holding, Expects, Installable, Answerable, Coming, Offering,
                Open
  <2>4. QED
    BY <2>2, <2>3 DEF AnswerInv
<1>3. ASSUME NEW k \in Callers,
             \/ \E t \in Transports :
                   \/ PlainCall(k, t) /\ UNCHANGED <<p2p, job, history>>
                   \/ RegisterP2P(k, t) \/ UnregisterP2P(k, t)
                   \/ \E m \in MessagesFor[k] : Send(k, t, m)
             \/ JobStep(k) \/ Timeout(k)
      PROVE  AnswerInv'
  <2>1. Moves(k)
    BY <1>3, CallerMoves
  <2>2. AnswerPart(k)
    BY <1>3, LifeCallsAnswerPart, OrdinaryCallAnswerPart, ServiceJobAnswerPart, SendAnswerPart,
       SendNextAnswerPart, JobReplyAnswerPart, PlainStepAnswerPart
    DEF PlainCall, JobStep, Timeout
  <2>3. QED
    BY <1>1, <2>1, <2>2, MovesKeepAnswers
<1>4. QED
  BY <1>2, <1>3, SendingKeepsAnswers, EngineKeepsAnswers DEF PointNext

\* Initially nothing is registered and nobody sends.
LEMMA InitEstablishesAnswers == OwnServices /\ PointInit => AnswerInv
<1> SUFFICES ASSUME OwnServices, PointInit PROVE AnswerInv
  OBVIOUS
<1>1. /\ queue = [t \in Transports |-> <<>>] /\ call = [k \in Callers |-> Returned]
      /\ listenerConfigs = [t \in Transports |-> [id \in Ids |-> None]]
  BY DEF PointInit, EngineInit, Init
<1>2. ASSUME NEW k \in Callers PROVE Prepares(k)
  <2>1. call[k].t = None /\ \A t \in Transports : t # None
    BY <1>1, NoneAssumption DEF Returned
  <2>2. QED
    BY <2>1 DEF Prepares
<1>3. ASSUME NEW t \in Transports PROVE InOrder(t) /\ Holding(t)
  <2>1. DOMAIN queue[t] = {} /\ \A id \in Ids : listenerConfigs[t][id] = None
    BY <1>1
  <2>2. None \notin Responses
    BY ResponseAddress, NoneAssumption
  <2>3. QED
    BY <2>1, <2>2 DEF InOrder, Holding
<1>4. QED
  BY <1>2, <1>3 DEF AnswerInv

\* A request leaves with a handler for its response (PointToPoint's
\* ResponseHandlerFirst), for any number of callers, transports and commands in the
\* channels and any timeouts, when no two callers share a response and no other
\* listener has its address.
THEOREM ResponsesCanReturn ==
  ASSUME OwnServices, OwnResponses
  PROVE  PointSpec => ResponseHandlerFirst
<1> DEFINE Inv == PointInv /\ ChannelInv /\ TakeBackInv /\ LifeInv /\ AnswerInv
<1>1. PointInit => Inv
  BY PointInitEstablishesInv, InitEstablishesTakeBack, InitEstablishesLife, InitEstablishesAnswers
<1>2. Inv /\ [PointNext]_pvars => Inv'
  BY PointNextIsRegistryStep, NextKeepsIInv, TakeBackInductive, LifeInductive, AnswersInductive
  DEF PointInv, PointStep
<1>3. ASSUME Inv, NEW t \in Transports, queue[t] # <<>>, Head(queue[t]).op = "Send",
             Head(queue[t]).caller # None, job[Head(queue[t]).caller].p2p,
             TypeOf(Head(queue[t]).config) = "Request"
      PROVE  LET id == handlers[AppName[t]][RegisterKey(ResponseConfig(Head(queue[t]).config))]
             IN  /\ id # None /\ listenerConfigs[t][id] # None
                 /\ listenerConfigs[t][id].listener = "streamer"
  <2>1. PICK s \in Seq(PointCommands) : s = queue[t]
    BY <1>3 DEF ChannelInv
  <2>2. 1 \in DOMAIN queue[t] /\ Head(queue[t]) = queue[t][1] /\ \A i \in DOMAIN queue[t] : ~(i < 1)
    BY <1>3, <2>1, ChannelFacts
  <2>3. PICK cmd : cmd = queue[t][1]
    OBVIOUS
  <2>4. PICK k \in Callers : k = cmd.caller /\ Awaits(call[k], t, cmd)
    BY <1>3, <2>2, <2>3, PointCommandHasCaller DEF ChannelInv, PointAwaited
  <2>5. Open(t)
    BY <1>3, <2>2, <2>3, <2>4 DEF LifeInv, Serves, Open, Awaits
  <2>6. Answerable(t, ResponseKey(cmd.config))
    BY <1>3, <2>2, <2>3, <2>5 DEF AnswerInv, InOrder, Expects
  <2>7. PICK id \in Ids : /\ handlers[AppName[t]][RegisterKey(ResponseConfig(cmd.config))] = id
                          /\ listenerConfigs[t][id] \in Responses
    BY <2>6 DEF Answerable, ResponseKey
  <2>8. /\ id # None /\ listenerConfigs[t][id] # None
        /\ listenerConfigs[t][id].listener = "streamer"
    BY <2>7, ResponseAddress, NoneAssumption
  <2>9. QED
    BY <2>2, <2>3, <2>7, <2>8
<1>4. Inv /\ [PointNext]_pvars =>
        [\A t \in Transports :
            LET cmd == Head(queue[t]) IN
            queue[t] # <<>> /\ queue'[t] = Tail(queue[t]) /\ cmd.op = "Send" /\ cmd.caller # None
              /\ AppName[t] \in apps =>
                (job[cmd.caller].p2p /\ TypeOf(cmd.config) = "Request" =>
                    LET id == handlers[AppName[t]][RegisterKey(ResponseConfig(cmd.config))] IN
                    /\ id # None
                    /\ listenerConfigs[t][id] # None
                    /\ listenerConfigs[t][id].listener = "streamer")]_pvars
  BY <1>3
<1>5. QED
  BY <1>1, <1>2, <1>4, PTL DEF PointSpec, ResponseHandlerFirst

=============================================================================
