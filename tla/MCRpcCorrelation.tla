---------------------------- MODULE MCRpcCorrelation ----------------------------
(* Clients and requests for the runs of RpcCorrelation.                    *)
EXTENDS RpcCorrelation

CONSTANTS q1, q2, q3, q4

\* One client, or two clients of which the first sends all but one request.
OneClient == [q \in UReqs |-> 1]
TwoClients == [q \in UReqs |-> IF q = q3 THEN 2 ELSE 1]

=============================================================================
