--------------------------- MODULE MCPacketEvents ---------------------------
(* Configurations of PacketEvents for model checking.                      *)
EXTENDS PacketEvents

Local == [is_wire_server |-> FALSE, strict_segments |-> FALSE,
          non_fatal_packet |-> FALSE, tcp_ts_ecr_scaled |-> FALSE, ticks |-> 0,
          passive |-> TRUE, proto |-> "tcp", ip |-> "ipv4", ts |-> FALSE,
          skew |-> 0, sack |-> FALSE, strays |-> FALSE, tos_chk |-> "none",
          nocheck |-> {}, deviations |-> {}, mistakes |-> {},
          events |-> 5]

MCConfigs ==
    {\* a listening socket, a script that errs
     [Local EXCEPT !.mistakes = {"seq", "ack", "len", "psh"}],
     \* a connecting one on a wire server, beside other connections
     [Local EXCEPT !.is_wire_server = TRUE, !.strict_segments = TRUE,
                   !.passive = FALSE, !.strays = TRUE],
     \* a kernel that errs, which need not end the run
     [Local EXCEPT !.is_wire_server = TRUE, !.non_fatal_packet = TRUE,
                   !.tos_chk = "tos", !.deviations = Deviations,
                   !.events = 4],
     \* time stamps, SACK and ICMP
     [Local EXCEPT !.passive = FALSE, !.ts = TRUE, !.skew = 2, !.ticks = 1],
     [Local EXCEPT !.ts = TRUE, !.skew = 2, !.tcp_ts_ecr_scaled = TRUE],
     [Local EXCEPT !.passive = FALSE, !.sack = TRUE, !.strict_segments = TRUE],
     \* flow labels
     [Local EXCEPT !.ip = "ipv6", !.mistakes = {"label"}],
     \* UDP
     [Local EXCEPT !.passive = FALSE, !.proto = "udp", !.strays = TRUE]}
=============================================================================
