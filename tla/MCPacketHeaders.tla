-------------------------- MODULE MCPacketHeaders --------------------------
(* A small instance of PacketHeaders. *)
EXTENDS PacketHeaders

Icmp(type, code, mtu) == [type |-> type, code |-> code, mtu |-> mtu]
Describe(family, type, options, payload, echo) ==
    [family |-> family, type |-> type, options |-> options, payload |-> payload, echo |-> echo, legal |-> TRUE,
     icmp |-> Icmp("no codes", None, None)]
IcmpNames == {Icmp("unknown", None, None), Icmp("number", "named", None), Icmp("with codes", "unknown", None),
              Icmp("with codes", "named", None), Icmp("with codes", "named", "fits"),
              Icmp("with codes", "named", "big"), Icmp("number", "number", "fits")}

\* Transport packets of both families, at the limits of their lengths.
MCDescriptions ==
    {Describe(f, "TCP", o, n, FALSE) : f \in IpTypes, o \in {0, 12}, n \in {0, 10}}
        \cup {Describe("IPV4", "TCP", 2, 0, FALSE), Describe("IPV4", "TCP", 44, 0, FALSE)}
        \cup {Describe("IPV4", "TCP", 0, n, FALSE) : n \in 65494 .. 65497}
        \cup {Describe("IPV6", "TCP", 0, 65476, FALSE)}
        \cup {Describe(f, "UDP", 0, 10, FALSE) : f \in IpTypes}
        \cup {Describe("IPV4", "UDP", 0, n, FALSE) : n \in 65507 .. 65509}
        \cup {Describe(f, "ICMP", 0, n, FALSE) : f \in IpTypes, n \in {7, 12}}
        \cup {Describe(f, "ICMP", 0, 0, TRUE) : f \in IpTypes}
        \cup {[Describe("IPV4", "ICMP", 0, 0, TRUE) EXCEPT !.icmp = n] : n \in IcmpNames}
        \cup {[Describe("IPV4", "TCP", 0, 0, FALSE) EXCEPT !.legal = FALSE]}

\* A packet that the tool itself sent, one of another device.
MCNoise ==
    LET s == <<[type |-> "IPV4", bytes |-> 20], [type |-> "ICMPV4", bytes |-> 8]>>
    IN  {[Intact(s, 0) EXCEPT !.src = "tool"], [Intact(s, 0) EXCEPT !.src = "elsewhere"]}
=============================================================================
