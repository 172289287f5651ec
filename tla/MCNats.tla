------------------------------- MODULE MCNats -------------------------------
EXTENDS Nats, TLC

(* Two connections of one TCP port of a LAN host, on different cores,      *)
(* another port, without a route, and a UDP port.                          *)
Host == 1
Packet(port, proto, dst) == [addr |-> Host, port |-> port, proto |-> proto, dst |-> dst]
MCPackets == {Packet(5, TCP, 8), Packet(5, TCP, 9), Packet(6, TCP, 0), Packet(5, 17, 9)}
MCRss == [p \in MCPackets |-> IF p.dst = 9 THEN 0 ELSE 1]
MCFib == 8 :> "FORWARD" @@ 9 :> "FORWARD" @@ 0 :> "DROP"

(* The endpoints and hosts, the external ones too, on few cells. *)
Ends == ({Host} \X {5, 6} \X {6, 17}) \cup ({20} \X {3, 4} \X {6, 17})
MCHash == [k \in Ends |-> k[2] + k[3]] @@ [k \in {<<Host>>, <<20>>} |-> k[1]]
=============================================================================
