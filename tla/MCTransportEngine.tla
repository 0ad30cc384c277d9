--------------------------- MODULE MCTransportEngine ---------------------------
(* Listener configurations and callers for the runs of TransportEngine.    *)
EXTENDS TransportEngine, TLC

CONSTANTS t1, t2, k1, k2

Uri(service, resource) ==
    [authority |-> "local", instance |-> 0, service |-> service, version |-> 1,
     resource |-> resource]

Everyone == [authority |-> AnyAuthority, instance |-> Any16, service |-> Any16,
             version |-> Any8, resource |-> Any16]

Config(source, sink, listener) == [source |-> source, sink |-> sink, listener |-> listener]

\* A listener for requests to a method, for responses of that method, and for
\* the events of a topic.
RequestListener(method) == Config(Everyone, Uri(1, method), "service")
ResponseListener == Config(Uri(1, 7), Uri(2, 0), "client")
PublishListener == Config(Uri(1, 32769), NoSink, "subscriber")

TwoMethods == {RequestListener(7), RequestListener(8)}
TwoKinds == {ResponseListener, PublishListener}

\* Every caller its own method, or everyone everything.
OwnMethod == k1 :> {RequestListener(7)} @@ k2 :> {RequestListener(8)}
Everything == [k \in Callers |-> Configs]

\* Applications of their own, or one name for both transports.
OwnApps == t1 :> "app1" @@ t2 :> "app2"
OneApp == [t \in Transports |-> "app1"]

=============================================================================
