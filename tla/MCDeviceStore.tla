--------------------------- MODULE MCDeviceStore ---------------------------
(* Two hosts reachable over IPv6, one of them at two ports, and an IPv4 one. *)
EXTENDS DeviceStore

MCHostOf == [c \in Channels |-> IF c = "v6b" THEN "v6" ELSE c]
MCReach == [p \in Devices |-> IF p = 1 THEN Channels ELSE {"v4"}]
=============================================================================
