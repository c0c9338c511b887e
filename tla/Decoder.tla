------------------------------- MODULE Decoder -------------------------------
(***************************************************************************)
(* cynthion_bin_to_pcap of decoder.py: the loop that turns the byte stream *)
(* of the analyzer into a pcap.  `sent' is what the analyzer recorded, and *)
(* `src' the bytes of it that are in the capture file: a recording may be  *)
(* cut anywhere, and may hold records that are not valid.  The temporary   *)
(* file, its publication and its removal are in Storage.tla.               *)
(***************************************************************************)
EXTENDS Integers, Sequences, FiniteSets, SequencesExt, Recursions

CONSTANTS
  Record,              \* the records a recording may hold
  MaxRecords,          \* how many of them it holds at most (a bound)
  MaxPacketBytes,      \* MAX_PACKET_BYTES
  MaxConversionBytes,  \* MAX_CONVERSION_BYTES
  MaxPcapBytes,        \* MAX_PCAP_BYTES
  ClockHz,             \* USB_CLOCK_HZ
  Second               \* a second in the pcap's unit, the microsecond

Byte == 0 .. 255
HalfWord == 0 .. 65535
Length == 0 .. 65279  \* of a packet: its first byte is not taken for an event's
GlobalHeaderBytes == 24
PacketHeaderBytes == 16

ASSUME RecordAssumption ==
  \A r \in Record :
    /\ r.ticks \in HalfWord
    /\ \/ r.kind = "event" /\ r.code \in Byte
       \/ r.kind = "packet" /\ r.pid \in Byte /\ r.size \in Length
ASSUME LimitAssumption ==
  /\ MaxRecords \in Nat /\ MaxConversionBytes \in Nat
  /\ MaxPacketBytes \in Length \ {0}
  /\ MaxPcapBytes \in Nat /\ MaxPcapBytes >= GlobalHeaderBytes
ASSUME ClockAssumption == ClockHz \in Nat \ {0} /\ Second \in Nat \ {0}

VARIABLES
  sent,      \* what the analyzer recorded
  src,       \* the bytes of the capture file
  status,    \* "opening", "reading", "done" or why the capture is refused
  off,       \* the position of the stream that is read
  pos,       \* pos, what the loop believes `off' to be
  ticks,     \* cumulative_ticks
  counted,   \* output_bytes
  written,   \* the bytes written to the pcap
  out,       \* the packets written to the pcap
  events,    \* the codes counted in event_counts, which forgets their order
  speed      \* the code of the last CAPTURE_START event, 0 for None

input == <<sent, src>>
result == <<counted, written, out, events, speed>>
vars == <<input, status, off, pos, ticks, result>>

Refusal ==
  {"too_large", "truncated", "abnormal_stop", "bad_length", "bad_pid",
   "output_limit"}

TypeOK ==
  /\ sent \in Seq(Record)
  /\ src \in Seq(Byte)
  /\ status \in {"opening", "reading", "done"} \cup Refusal
  /\ {off, pos, ticks, counted, written} \subseteq Nat
  /\ \A i \in DOMAIN out :
       /\ out[i].sec \in Nat
       /\ out[i].usec \in 0 .. Second - 1
       /\ Len(out[i].payload) \in 1 .. MaxPacketBytes
  /\ events \in Seq(Byte \ {2, 3})
  /\ speed \in {0, 4, 5, 6, 7}

-----------------------------------------------------------------------------
(* The format, as the decoder understands it: a header of four bytes, and  *)
(* for a packet its payload, padded to an even length.                     *)

Word(n) == <<n \div 256, n % 256>>

\* The filler looks like the first byte of an event.
Payload(r) == [i \in 1 .. r.size |-> IF i = 1 THEN r.pid ELSE 255]

Encoded(r) ==
  IF r.kind = "event"
  THEN <<255, r.code>> \o Word(r.ticks)
  ELSE Word(r.size) \o Word(r.ticks) \o Payload(r)
         \o (IF r.size % 2 = 1 THEN <<0>> ELSE <<>>)

Encode(rs) == FlattenSeq([i \in DOMAIN rs |-> Encoded(rs[i])])

\* The two bytes at offset o of the file.
WordAt(o) == 256 * src[o + 1] + src[o + 2]

ValidPid(pid) == (pid % 16) + (pid \div 16) = 15

-----------------------------------------------------------------------------
Init ==
  /\ sent \in SeqOf(Record, MaxRecords)
  /\ \E cut \in 0 .. Len(Encode(sent)) : src = SubSeq(Encode(sent), 1, cut)
  /\ status = "opening"
  /\ off = 0 /\ pos = 0 /\ ticks = 0
  /\ counted = 0 /\ written = 0 /\ out = <<>>
  /\ events = <<>> /\ speed = 0

\* Fault variant: the global header is not counted.
OpenUncounted ==
  /\ status = "opening"
  /\ IF Len(src) > MaxConversionBytes
     THEN status' = "too_large" /\ UNCHANGED <<counted, written>>
     ELSE /\ status' = "reading"
          /\ written' = GlobalHeaderBytes
          /\ UNCHANGED counted
  /\ UNCHANGED <<input, off, pos, ticks, out, events, speed>>

Open ==
  /\ status = "opening"
  /\ IF Len(src) > MaxConversionBytes
     THEN status' = "too_large" /\ UNCHANGED <<counted, written>>
     ELSE /\ status' = "reading"
          /\ counted' = GlobalHeaderBytes
          /\ written' = GlobalHeaderBytes
  /\ UNCHANGED <<input, off, pos, ticks, out, events, speed>>

\* The loop goes on, and _read_exact finds n bytes from where it is.
Reading == status = "reading" /\ pos < Len(src)
Has(n) == off + n <= Len(src)

IsEvent == Has(4) /\ src[off + 1] = 255
IsPacket == Has(4) /\ src[off + 1] # 255
Size == WordAt(off)
Ticks == WordAt(off + 2)
Padded == Size + (Size % 2)

\* Fault variant: the bound is off by one.
LegalSizeOffByOne == Size \in 1 .. MaxPacketBytes + 1
LegalSize == Size \in 1 .. MaxPacketBytes

\* Fault variant: the ticks of an event are dropped.
ReadEventTimeless ==
  LET code == src[off + 2] IN
  /\ Reading /\ IsEvent /\ code \notin {2, 3}
  /\ events' = Append(events, code)
  /\ speed' = IF code \in 4 .. 7 THEN code ELSE speed
  /\ off' = off + 4
  /\ pos' = pos + 4
  /\ UNCHANGED <<input, status, ticks, counted, written, out>>

ReadEvent ==
  LET code == src[off + 2] IN
  /\ Reading /\ IsEvent /\ code \notin {2, 3}
  /\ ticks' = ticks + Ticks
  /\ events' = Append(events, code)
  /\ speed' = IF code \in 4 .. 7 THEN code ELSE speed
  /\ off' = off + 4
  /\ pos' = pos + 4
  /\ UNCHANGED <<input, status, counted, written, out>>

\* Fault variant: the padding is skipped without being read, and so not
\* missed at the end.
ReadPacketUnpadded ==
  /\ Reading /\ IsPacket /\ LegalSize /\ Has(4 + Size)
  /\ ValidPid(src[off + 5])
  /\ counted + PacketHeaderBytes + Size <= MaxPcapBytes
  /\ ticks' = ticks + Ticks
  /\ out' = Append(out, [sec |-> ticks' \div ClockHz,
                         usec |-> ((ticks' % ClockHz) * Second) \div ClockHz,
                         payload |-> SubSeq(src, off + 5, off + 4 + Size)])
  /\ counted' = counted + PacketHeaderBytes + Size
  /\ written' = written + PacketHeaderBytes + Size
  /\ off' = off + 4 + Padded
  /\ pos' = pos + 4 + Padded
  /\ UNCHANGED <<input, status, events, speed>>

ReadPacket ==
  /\ Reading /\ IsPacket /\ LegalSize /\ Has(4 + Padded)
  /\ ValidPid(src[off + 5])
  /\ counted + PacketHeaderBytes + Size <= MaxPcapBytes
  /\ ticks' = ticks + Ticks
  /\ out' = Append(out, [sec |-> ticks' \div ClockHz,
                         usec |-> ((ticks' % ClockHz) * Second) \div ClockHz,
                         payload |-> SubSeq(src, off + 5, off + 4 + Size)])
  /\ counted' = counted + PacketHeaderBytes + Size
  /\ written' = written + PacketHeaderBytes + Size
  /\ off' = off + 4 + Padded
  /\ pos' = pos + 4 + Padded
  /\ UNCHANGED <<input, status, events, speed>>

Refuse(reason) ==
  /\ status' = reason
  /\ UNCHANGED <<input, off, pos, ticks, result>>

Truncated ==
  /\ Reading
  /\ \/ ~Has(4)
     \/ IsPacket /\ LegalSize /\ ~Has(4 + Size)
     \/ /\ IsPacket /\ LegalSize /\ Has(4 + Size) /\ ~Has(4 + Padded)
        /\ ValidPid(src[off + 5])
  /\ Refuse("truncated")

AbnormalStop == Reading /\ IsEvent /\ src[off + 2] \in {2, 3} /\ Refuse("abnormal_stop")

BadLength == Reading /\ IsPacket /\ ~LegalSize /\ Refuse("bad_length")

BadPid ==
  /\ Reading /\ IsPacket /\ LegalSize /\ Has(4 + Size)
  /\ ~ValidPid(src[off + 5])
  /\ Refuse("bad_pid")

OutputLimit ==
  /\ Reading /\ IsPacket /\ LegalSize /\ Has(4 + Padded)
  /\ ValidPid(src[off + 5])
  /\ counted + PacketHeaderBytes + Size > MaxPcapBytes
  /\ Refuse("output_limit")

Finish ==
  /\ status = "reading" /\ pos >= Len(src)
  /\ status' = "done"
  /\ UNCHANGED <<input, off, pos, ticks, result>>

Next ==
  \/ Open \/ ReadEvent \/ ReadPacket \/ Finish
  \/ Truncated \/ AbnormalStop \/ BadLength \/ BadPid \/ OutputLimit

Spec == Init /\ [][Next]_vars

-----------------------------------------------------------------------------
(* Properties.                                                             *)

Prefix(n) == SubSeq(sent, 1, n)

\* The records of a kind among the first n, and how many they are: record i is
\* the Count(kind, i)-th of its kind.
Of(kind, n) == {i \in 1 .. n : sent[i].kind = kind}
Count(kind, n) == Cardinality(Of(kind, n))

\* The ticks from the start of the recording to its n-th record.
TimeOf(n) == SumTo([i \in DOMAIN sent |-> sent[i].ticks], n)

\* What the first n records take up in a pcap.
PcapBytes(n) ==
  GlobalHeaderBytes
    + SumTo([i \in DOMAIN sent |-> IF sent[i].kind = "packet"
                                   THEN PacketHeaderBytes + sent[i].size ELSE 0], n)

\* The events that tell the speed.
Starts(n) == {i \in Of("event", n) : sent[i].code \in 4 .. 7}

\* The whole records that are in the file: nothing, if it ends inside one.
Whole == {n \in 0 .. Len(sent) : Len(Encode(Prefix(n))) = Len(src)}

Sound(r) ==
  IF r.kind = "event" THEN r.code \notin {2, 3}
  ELSE r.size \in 1 .. MaxPacketBytes /\ ValidPid(r.pid)

\* What the decoder makes of a packet.
Converted(i) == [sec |-> TimeOf(i) \div ClockHz,
                 usec |-> ((TimeOf(i) % ClockHz) * Second) \div ClockHz,
                 payload |-> Payload(sent[i])]

\* The packets, the events and the speed are those of the first n records.
Matches(n) ==
  /\ ticks = TimeOf(n)
  /\ Len(out) = Count("packet", n)
  /\ \A i \in Of("packet", n) : out[Count("packet", i)] = Converted(i)
  /\ Len(events) = Count("event", n)
  /\ \A i \in Of("event", n) : events[Count("event", i)] = sent[i].code
  /\ \/ Starts(n) = {} /\ speed = 0
     \/ \E i \in Starts(n) : speed = sent[i].code /\ \A j \in Starts(n) : j <= i

(* A conversion that succeeds has told the records apart as the analyzer   *)
(* had: every packet is in the pcap, in order, with its payload and the    *)
(* time that all the records up to it, events included, add up to, and the *)
(* counts, the speed and the consumed bytes are those of the recording.    *)
(* Odd payloads, their padding and payload bytes that look like an event   *)
(* header do not shift what follows (decoder.py:87-117).                   *)
RoundTrip == status = "done" => pos = Len(src) /\ \E n \in Whole : Matches(n)

\* The recording is flawless and within the limits.
Convertible ==
  /\ Len(src) <= MaxConversionBytes
  /\ \E n \in Whole : (\A i \in 1 .. n : Sound(sent[i])) /\ PcapBytes(n) <= MaxPcapBytes

(* A recording is converted exactly if it is within the limits, ends where *)
(* a record ends, reports no abnormal stop and holds no record that is not *)
(* valid: what is refused has one of these flaws, and no flaw is converted *)
(* around (decoder.py:70, 87-113).                                         *)
Verdict == status \notin {"opening", "reading"} => (status = "done" <=> Convertible)

(* The pcap, finished or not, never outgrows the space that is set aside   *)
(* for it before the conversion starts (tshark.py:81-85, PcapMax of        *)
(* Storage.tla): the limit is tested before the packet is written and      *)
(* counts the headers too.                                                 *)
OutputBound == written <= MaxPcapBytes

=============================================================================
