------------------------------ MODULE MCDecoder ------------------------------
(* Packets have at most 3 bytes, a second has 60 ticks of the clock, and   *)
(* the third packet may be one too many for the pcap.                      *)
EXTENDS Decoder

Event(code, t) == [kind |-> "event", code |-> code, ticks |-> t]
Packet(size, pid, t) == [kind |-> "packet", size |-> size, pid |-> pid, ticks |-> t]

\* 225, 210 and 195 are the PIDs OUT, ACK and DATA0; 255 is none.
MCRecord ==
  {Event(1, 7), Event(3, 0), Event(4, 300), Event(5, 0), Event(99, 59),
   Packet(1, 210, 1), Packet(2, 195, 61), Packet(3, 225, 65535),
   Packet(0, 210, 5), Packet(4, 195, 5), Packet(2, 255, 5)}

=============================================================================
