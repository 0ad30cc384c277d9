----------------------------- MODULE MCPointToPoint -----------------------------
(* Services, messages and an ordinary listener for the run of PointToPoint. *)
EXTENDS PointToPoint, TLC

CONSTANTS t1, k1, k2

Local(service, resource) ==
    [authority |-> "local", instance |-> 0, service |-> service, version |-> 1,
     resource |-> resource]

Service1 == [service |-> 1, instance |-> 1]
Service2 == [service |-> 2, instance |-> 1]

Message(type, source, sink) == [type |-> type, source |-> source, sink |-> sink]

Request == Message("REQUEST", Local(9, 0), Local(5, 7))
Event == Message("PUBLISH", Local(9, 32769), NoSink)
Notification == Message("NOTIFICATION", Local(9, 32769), Local(1, 0))

TwoServices == [t \in Transports |-> {Service1, Service2}]
RequestOrOther == k1 :> {Request} @@ k2 :> {Notification, Event}

\* An application that listens for one method of a service of its own.
OtherListener == [source |-> AnyUri, sink |-> Local(3, 7), listener |-> "app"]

OneListener == k1 :> {} @@ k2 :> {OtherListener}

AllConfigs ==
    UNION {ConfigsFor[k] : k \in Callers} \cup
    {ServiceConfig(s) : s \in UNION {Services[t] : t \in Transports}}
        \cup {ResponseConfig(m) : m \in {n \in UNION {MessagesFor[k] : k \in Callers} :
                                            n.type = "REQUEST"}}

IdsAlike == Permutations(Ids)

\* Nothing depends on what has been announced: states that differ in it alone
\* are explored once.
Unannounced == <<vars, queue, call, apps, handlers, dispatched, p2p, job, history>>

OneApp == [t \in Transports |-> "app1"]

=============================================================================
