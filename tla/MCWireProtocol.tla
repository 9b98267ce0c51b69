--------------------------- MODULE MCWireProtocol ---------------------------
(* Constants for the runs of WireProtocol. *)
EXTENDS WireProtocol

OneSession == {"s1"}
TwoSessions == {"s1", "s2"}

OneGateway == [s \in Sessions |-> "gw"]     \* what two default configurations share
OwnGateways == [s \in Sessions |-> s]       \* each client with a network of its own

GoodKinds == {"packet", "other"}
NoFaults == {}
ClientFault == {"client_dies"}
ProcessFaults == {"client_dies", "server_dies"}
=============================================================================
