---------------------------- MODULE DecoderProofs ----------------------------
(***************************************************************************)
(* Whatever bytes the capture file holds, the loop of the decoder knows    *)
(* where it is in them, and keeps to the size set aside for its output.    *)
(*                                                                         *)
(* For every set of records and every recording of them, cut anywhere: the *)
(* decoder has always consumed a number of whole records, all sound, and   *)
(* converted exactly those, so that what succeeds is exact and what is     *)
(* refused has a flaw.                                                     *)
(***************************************************************************)
EXTENDS Decoder, RecursionProofs, FiniteSetTheorems, SequenceTheorems

\* What the loop believes agrees with what it has done.
Accounts ==
  /\ off = pos
  /\ written = counted
  /\ written \in Nat
  /\ written <= MaxPcapBytes

LEMMA PacketAccounts == Accounts /\ ReadPacket => Accounts'
<1> SUFFICES ASSUME Accounts, ReadPacket PROVE Accounts'
  OBVIOUS
<1>1. Size \in Nat
  <2>1. Size \in 1 .. MaxPacketBytes
    BY DEF ReadPacket, LegalSize
  <2>2. MaxPacketBytes \in Nat
    BY LimitAssumption DEF Length
  <2> QED
    BY <2>1, <2>2
<1>2. /\ written' = written + PacketHeaderBytes + Size
      /\ counted' = written'
      /\ written' <= MaxPcapBytes
  BY DEF ReadPacket, Accounts
<1>3. off' = pos'
  BY DEF ReadPacket, Accounts
<1> QED
  BY <1>1, <1>2, <1>3 DEF Accounts, PacketHeaderBytes

LEMMA NextAccounts == Accounts /\ [Next]_vars => Accounts'
<1> SUFFICES ASSUME Accounts, [Next]_vars PROVE Accounts'
  OBVIOUS
<1>1. CASE Open
  BY <1>1, LimitAssumption DEF Open, Accounts, GlobalHeaderBytes
<1>2. CASE ReadEvent
  BY <1>2 DEF ReadEvent, Accounts
<1>3. CASE ReadPacket
  BY <1>3, PacketAccounts
<1>4. CASE Finish
  BY <1>4 DEF Finish, Accounts, result
<1>5. CASE Truncated \/ AbnormalStop \/ BadLength \/ BadPid \/ OutputLimit
  BY <1>5 DEF Truncated, AbnormalStop, BadLength, BadPid, OutputLimit, Refuse,
     Accounts, result
<1>6. CASE UNCHANGED vars
  BY <1>6 DEF vars, Accounts, result
<1> QED
  BY <1>1, <1>2, <1>3, <1>4, <1>5, <1>6 DEF Next

(* The position that the loop tests against the size of the file, and that *)
(* it reports, is where the stream is, and the output it has counted is    *)
(* what it has written (decoder.py:77-117).                                *)
THEOREM LoopKnowsItsPlace == Spec => []Accounts
<1>1. Init => Accounts
  <2>1. MaxPcapBytes \in Nat
    BY LimitAssumption
  <2>2. Init => off = 0 /\ pos = 0 /\ counted = 0 /\ written = 0
    BY DEF Init
  <2> QED
    BY <2>1, <2>2 DEF Accounts
<1> QED
  BY <1>1, NextAccounts, PTL DEF Spec

(* The pcap never outgrows MAX_PCAP_BYTES, for every capture file, valid   *)
(* or not, so that the capacity ensure_pcap asks for is enough             *)
(* (decoder.py:112; tshark.py:81-85).                                      *)
THEOREM OutputIsBounded == Spec => []OutputBound
<1>1. Accounts => OutputBound
  BY DEF Accounts, OutputBound
<1> QED
  BY <1>1, LoopKnowsItsPlace, PTL

-----------------------------------------------------------------------------
(* The stream.                                                             *)

\* FlattenSeq is what its recursive definition says, from the first sequence on.
LEMMA FlattenSteps ==
  ASSUME NEW S, NEW ss \in Seq(Seq(S)), NEW F \in [0 .. Len(ss) -> Seq(S)],
         F[0] = <<>>, \A i \in 1 .. Len(ss) : F[i] = F[i - 1] \o ss[i]
  PROVE  FlattenSeq(ss) = F[Len(ss)]
<1> DEFINE n == Len(ss)
<1>0. n \in Nat
  OBVIOUS
<1>1. CASE n = 0
  BY <1>1, EmptySeq DEF FlattenSeq
<1>2. CASE n # 0
  <2> DEFINE flat == CHOOSE f : f = [i \in 1 .. n |-> IF i = 1 THEN ss[i] ELSE f[i - 1] \o ss[i]]
             H == [i \in 1 .. n |-> F[i]]
             G == [i \in 0 .. n |-> IF i = 0 THEN <<>> ELSE flat[i]]
  <2>1. FlattenSeq(ss) = flat[n]
    BY <1>2 DEF FlattenSeq
  <2>2. H = [i \in 1 .. n |-> IF i = 1 THEN ss[i] ELSE H[i - 1] \o ss[i]]
    <3>1. \A i \in 1 .. n : ss[i] \in Seq(S)
      OBVIOUS
    <3>2. \A i \in 1 .. n : i = 1 => F[i] = ss[i]
      <4>1. \A i \in 1 .. n : <<>> \o ss[i] = ss[i]
        BY <3>1, ConcatEmptySeq
      <4>2. \A i \in 1 .. n : F[i] = F[i - 1] \o ss[i]
        OBVIOUS
      <4>3. 1 \in 1 .. n => F[1] = F[0] \o ss[1]
        <5>1. 1 - 1 = 0
          OBVIOUS
        <5> QED
          BY <4>2, <5>1
      <4> QED
        BY <4>1, <4>3
    <3>3. \A i \in 1 .. n : i # 1 => H[i - 1] = F[i - 1]
      OBVIOUS
    <3> QED
      BY <3>2, <3>3
  <2>3. flat = [i \in 1 .. n |-> IF i = 1 THEN ss[i] ELSE flat[i - 1] \o ss[i]]
    <3> HIDE DEF H
    <3> QED
      BY <2>2
  <2> HIDE DEF flat
  <2>4. G[0] = F[0]
    OBVIOUS
  <2>5. \A i \in 1 .. n : ss[i] \in Seq(S) /\ <<>> \o ss[i] = ss[i]
    BY ConcatEmptySeq
  <2>6. ASSUME NEW i \in 1 .. n, G[i - 1] = F[i - 1] PROVE G[i] = F[i]
    <3>0. i \in 0 .. n /\ i # 0 /\ i - 1 \in 0 .. n
      OBVIOUS
    <3>1. G[i] = flat[i]
      BY <3>0
    <3>2. CASE i = 1
      <4>1. flat[i] = ss[i]
        BY <2>3, <3>2
      <4>2. F[i] = F[0] \o ss[i]
        <5>1. F[i] = F[i - 1] \o ss[i]
          OBVIOUS
        <5>2. i - 1 = 0
          BY <3>2
        <5> QED
          BY <5>1, <5>2
      <4> QED
        BY <2>5, <3>1, <4>1, <4>2
    <3>3. CASE i # 1
      <4>1. G[i - 1] = flat[i - 1]
        BY <3>0, <3>3
      <4>2. flat[i] = flat[i - 1] \o ss[i]
        BY <2>3, <3>3
      <4> QED
        BY <2>6, <3>1, <4>1, <4>2
    <3> QED
      BY <3>2, <3>3
  <2>7. \A i \in 0 .. n : G[i] = F[i]
    <3>1. Alike(G, F, n)
      BY <2>4, <2>6 DEF Alike
    <3> HIDE DEF G
    <3> QED
      BY <1>0, <3>1, Same
  <2> QED
    BY <1>0, <1>2, <2>1, <2>7
<1> QED
  BY <1>1, <1>2

-----------------------------------------------------------------------------
(* Where the records are in the stream.                                    *)

LEMMA Flattened ==
  ASSUME NEW S, NEW ss \in Seq(Seq(S))
  PROVE  \E F \in [0 .. Len(ss) -> Seq(S)] :
           /\ F[0] = <<>>
           /\ \A i \in 1 .. Len(ss) : F[i] = F[i - 1] \o ss[i]
           /\ \A n \in 0 .. Len(ss) : FlattenSeq(SubSeq(ss, 1, n)) = F[n]
<1> DEFINE m == Len(ss)
           g == [i \in 1 .. m |-> [v \in Seq(S) |-> v \o ss[i]]]
<1>1. m \in Nat /\ <<>> \in Seq(S) /\ \A i \in 1 .. m : ss[i] \in Seq(S)
  OBVIOUS
<1>2. \A v \in Seq(S), i \in 1 .. m : v \o ss[i] \in Seq(S)
  BY <1>1
<1>3. g \in [1 .. m -> [Seq(S) -> Seq(S)]]
  BY <1>2
<1>4. PICK F \in [0 .. m -> Seq(S)] : Follows(F, m, <<>>, g)
  <2>1. \A V, b, h : b \in V /\ h \in [1 .. m -> [V -> V]]
          => \E F \in [0 .. m -> V] : Follows(F, m, b, h)
    BY <1>1, Recursion
  <2> HIDE DEF g, m
  <2> QED
    BY <1>1, <1>3, <2>1
<1>5. F[0] = <<>>
  BY <1>4 DEF Follows
<1>6. ASSUME NEW i \in 1 .. m PROVE F[i] = F[i - 1] \o ss[i]
  <2>1. F[i] = g[i][F[i - 1]]
    BY <1>4 DEF Follows
  <2>2. F[i - 1] \in Seq(S)
    <3>1. i - 1 \in 0 .. m
      OBVIOUS
    <3> HIDE DEF g, m
    <3> QED
      BY <1>4, <3>1
  <2> QED
    BY <2>1, <2>2
<1>7. ASSUME NEW n \in 0 .. m PROVE FlattenSeq(SubSeq(ss, 1, n)) = F[n]
  <2> DEFINE tt == SubSeq(ss, 1, n)
             G == [i \in 0 .. n |-> F[i]]
  <2>1. n \in Nat /\ n <= m /\ n \in 0 .. n
    OBVIOUS
  <2>2. Len(tt) = n /\ tt \in Seq(Seq(S)) /\ \A i \in 1 .. n : tt[i] = ss[i]
    BY <2>1, SubSeqProperties
  <2>3. G \in [0 .. Len(tt) -> Seq(S)]
    <3>1. \A i \in 0 .. n : i \in 0 .. m
      BY <2>1
    <3>2. \A i \in 0 .. n : F[i] \in Seq(S)
      <4> HIDE DEF g, m
      <4> QED
        BY <1>4, <3>1
    <3>3. G \in [0 .. n -> Seq(S)]
      BY <3>2
    <3> HIDE DEF G, g, tt
    <3> QED
      BY <2>2, <3>3
  <2>4. G[0] = <<>>
    BY <1>5, <2>1
  <2>5. \A i \in 1 .. Len(tt) : G[i] = G[i - 1] \o tt[i]
    <3> SUFFICES ASSUME NEW i \in 1 .. n PROVE G[i] = G[i - 1] \o tt[i]
      BY <2>2
    <3>1. i \in 1 .. m /\ i \in 0 .. n /\ i - 1 \in 0 .. n
      BY <2>1
    <3> HIDE DEF m, g, tt
    <3> QED
      BY <1>6, <2>2, <3>1
  <2> HIDE DEF g, tt, G
  <2>6. FlattenSeq(tt) = G[Len(tt)]
    BY <2>2, <2>3, <2>4, <2>5, FlattenSteps
  <2> QED
    BY <2>1, <2>2, <2>6 DEF G, tt
<1> HIDE DEF g
<1> QED
  BY <1>5, <1>6, <1>7

LEMMA Numerals ==
  /\ \A n \in HalfWord : n \in Nat /\ n < 65536
  /\ \A n \in Length : n \in Nat /\ n < 65280
  /\ \A n \in Nat : n < 256 => n \in Byte
<1>1. ASSUME NEW n \in HalfWord PROVE n \in Nat /\ n < 65536
  BY <1>1 DEF HalfWord
<1>2. ASSUME NEW n \in Length PROVE n \in Nat /\ n < 65280
  BY <1>2 DEF Length
<1>4. ASSUME NEW n \in Nat, n < 256 PROVE n \in Byte
  BY <1>4 DEF Byte
<1> QED
  BY <1>1, <1>2, <1>4

LEMMA WordFacts ==
  ASSUME NEW n \in Nat, n < 65536
  PROVE  /\ Word(n) \in Seq(Byte) /\ Len(Word(n)) = 2
         /\ 256 * Word(n)[1] + Word(n)[2] = n
         /\ n \in Length => Word(n)[1] # 255
<1> DEFINE q == n \div 256
           r == n % 256
<1>2. q \in Nat /\ r \in Nat /\ q < 256 /\ r < 256 /\ 256 * q + r = n
  OBVIOUS
<1>3. n \in Length => q # 255
  <2>1. n < 65280 => q # 255
    OBVIOUS
  <2> QED
    BY <2>1, Numerals
<1>4. Word(n) = <<q, r>>
  BY DEF Word
<1> HIDE DEF q, r
<1>5. q \in Byte /\ r \in Byte
  BY <1>2, Numerals
<1> QED
  BY <1>2, <1>3, <1>4, <1>5

LEMMA RecordFacts ==
  ASSUME NEW r \in Record
  PROVE  /\ r.ticks \in HalfWord
         /\ r.kind \in {"event", "packet"}
         /\ r.kind = "event" => r.code \in Byte
         /\ r.kind = "packet" => r.pid \in Byte /\ r.size \in Length
<1>1. /\ r.ticks \in HalfWord
      /\ \/ r.kind = "event" /\ r.code \in Byte
         \/ r.kind = "packet" /\ r.pid \in Byte /\ r.size \in Length
  BY RecordAssumption, Zenon
<1>2. "event" # "packet"
  OBVIOUS
<1> QED
  BY <1>1, <1>2, Zenon

\* What the concatenation of two sequences is, element by element.
Joins(e, s, t) ==
  /\ Len(e) = Len(s) + Len(t)
  /\ \A i \in 1 .. Len(s) : e[i] = s[i]
  /\ \A i \in 1 .. Len(t) : e[Len(s) + i] = t[i]

LEMMA Joined ==
  ASSUME NEW S, NEW s \in Seq(S), NEW t \in Seq(S)
  PROVE  s \o t \in Seq(S) /\ Joins(s \o t, s, t)
<1>1. /\ s \o t \in Seq(S) /\ Len(s \o t) = Len(s) + Len(t)
      /\ \A i \in 1 .. Len(s) : (s \o t)[i] = s[i]
      /\ \A i \in 1 .. Len(t) : (s \o t)[Len(s) + i] = t[i]
  OBVIOUS
<1> QED
  BY <1>1 DEF Joins

LEMMA EventBytes ==
  ASSUME NEW r \in Record, r.kind = "event"
  PROVE  /\ Encoded(r) \in Seq(Byte) /\ Len(Encoded(r)) = 4
         /\ Encoded(r)[1] = 255 /\ Encoded(r)[2] = r.code
         /\ 256 * Encoded(r)[3] + Encoded(r)[4] = r.ticks
         /\ r.code \in Byte /\ r.ticks \in Nat
<1>1. r.ticks \in HalfWord /\ r.code \in Byte
  BY RecordFacts, Zenon
<1> DEFINE w == Word(r.ticks)
           h == <<255, r.code>>
           e == Encoded(r)
<1>8. r.ticks \in Nat /\ r.ticks < 65536
  BY <1>1, Numerals
<1>2. w \in Seq(Byte) /\ Len(w) = 2 /\ 256 * w[1] + w[2] = r.ticks
  BY <1>8, WordFacts
<1>3. h \in Seq(Byte) /\ Len(h) = 2 /\ h[1] = 255 /\ h[2] = r.code
  <2>1. 255 \in Byte
    BY Numerals
  <2> QED
    BY <1>1, <2>1
<1>4. e = h \o w
  BY DEF Encoded
<1> HIDE DEF w, h, e
<1>5. e \in Seq(Byte) /\ Joins(e, h, w)
  BY <1>2, <1>3, <1>4, Joined
<1>6. /\ e[1] = h[1] /\ e[2] = h[2]
      /\ e[3] = w[1] /\ e[4] = w[2]
  BY <1>2, <1>3, <1>5 DEF Joins
<1>7. Len(e) = 4
  BY <1>2, <1>3, <1>5 DEF Joins
<1>9. /\ e \in Seq(Byte) /\ e[1] = 255 /\ e[2] = r.code
      /\ 256 * e[3] + e[4] = r.ticks
  BY <1>2, <1>3, <1>5, <1>6
<1> QED
  BY <1>1, <1>7, <1>8, <1>9 DEF e

\* The four parts of a packet.
Parts(e, s, w, p, f) ==
  /\ Len(e) = 4 + (Len(p) + Len(f))
  /\ e[1] = s[1] /\ e[2] = s[2] /\ e[3] = w[1] /\ e[4] = w[2]
  /\ \A i \in 1 .. Len(p) : e[4 + i] = p[i]

LEMMA PartsOfPacket ==
  ASSUME NEW s \in Seq(Byte), NEW w \in Seq(Byte), NEW p \in Seq(Byte), NEW f \in Seq(Byte),
         Len(s) = 2, Len(w) = 2
  PROVE  s \o w \o p \o f \in Seq(Byte) /\ Parts(s \o w \o p \o f, s, w, p, f)
<1> DEFINE h == s \o w
           b == h \o p
           e == b \o f
<1>0. h = s \o w /\ b = h \o p /\ e = b \o f
  OBVIOUS
<1> HIDE DEF h, b, e
<1>1. h \in Seq(Byte) /\ Joins(h, s, w)
  BY <1>0, Joined
<1>2. /\ h \in Seq(Byte) /\ Len(h) = 4
      /\ h[1] = s[1] /\ h[2] = s[2] /\ h[3] = w[1] /\ h[4] = w[2]
  BY <1>1 DEF Joins
<1>3. b \in Seq(Byte) /\ Joins(b, h, p)
  BY <1>0, <1>2, Joined
<1>4. e \in Seq(Byte) /\ Joins(e, b, f)
  BY <1>0, <1>3, Joined
<1>5. Len(p) \in Nat /\ Len(f) \in Nat
  OBVIOUS
<1>6. Len(b) = 4 + Len(p) /\ Len(e) = 4 + (Len(p) + Len(f))
  BY <1>2, <1>3, <1>4, <1>5 DEF Joins
<1>7. \A i \in 1 .. 4 : i \in 1 .. Len(b) /\ i \in 1 .. Len(h)
  BY <1>2, <1>5, <1>6
<1>8. \A i \in 1 .. 4 : e[i] = h[i]
  BY <1>3, <1>4, <1>7 DEF Joins
<1>9. \A i \in 1 .. Len(p) : 4 + i \in 1 .. Len(b)
  BY <1>5, <1>6
<1>10. \A i \in 1 .. Len(p) : e[4 + i] = p[i]
  BY <1>2, <1>3, <1>4, <1>9 DEF Joins
<1>11. e[1] = h[1] /\ e[2] = h[2] /\ e[3] = h[3] /\ e[4] = h[4]
  <2>1. 1 \in 1 .. 4 /\ 2 \in 1 .. 4 /\ 3 \in 1 .. 4 /\ 4 \in 1 .. 4
    OBVIOUS
  <2> QED
    BY <1>8, <2>1, Zenon
<1> QED
  BY <1>2, <1>4, <1>6, <1>10, <1>11 DEF Parts, e, b, h

LEMMA PacketBytes ==
  ASSUME NEW r \in Record, r.kind = "packet"
  PROVE  /\ Encoded(r) \in Seq(Byte)
         /\ Len(Encoded(r)) = 4 + (r.size + (r.size % 2))
         /\ Encoded(r)[1] # 255
         /\ 256 * Encoded(r)[1] + Encoded(r)[2] = r.size
         /\ 256 * Encoded(r)[3] + Encoded(r)[4] = r.ticks
         /\ \A i \in 1 .. r.size : Encoded(r)[4 + i] = Payload(r)[i]
         /\ Payload(r) \in Seq(Byte) /\ Len(Payload(r)) = r.size
         /\ r.size > 0 => Payload(r)[1] = r.pid
         /\ r.size \in Nat /\ r.pid \in Byte /\ r.ticks \in Nat
<1>1. r.ticks \in HalfWord /\ r.size \in Length /\ r.pid \in Byte
  BY RecordFacts, Zenon
<1>7. /\ r.ticks \in Nat /\ r.ticks < 65536
      /\ r.size \in Nat /\ r.size < 65536
  <2>1. r.ticks \in Nat /\ r.ticks < 65536 /\ r.size \in Nat /\ r.size < 65280
    BY <1>1, Numerals
  <2> QED
    BY <2>1
<1> DEFINE s == Word(r.size)
           w == Word(r.ticks)
           p == Payload(r)
           f == IF r.size % 2 = 1 THEN <<0>> ELSE <<>>
           e == Encoded(r)
<1>2. w \in Seq(Byte) /\ Len(w) = 2 /\ 256 * w[1] + w[2] = r.ticks
  BY <1>7, WordFacts
<1>3. s \in Seq(Byte) /\ Len(s) = 2 /\ 256 * s[1] + s[2] = r.size /\ s[1] # 255
  BY <1>1, <1>7, WordFacts
<1>9. 0 \in Byte /\ 255 \in Byte
  BY Numerals
<1>4. /\ p \in Seq(Byte) /\ Len(p) = r.size
      /\ r.size > 0 => p[1] = r.pid
  BY <1>1, <1>7, <1>9 DEF Payload
<1>5. f \in Seq(Byte) /\ Len(f) = r.size % 2
  <2>1. r.size % 2 = 0 \/ r.size % 2 = 1
    BY <1>7
  <2> QED
    BY <1>9, <2>1
<1>6. e = s \o w \o p \o f
  <2>1. "packet" # "event"
    OBVIOUS
  <2> QED
    BY <2>1, Zenon DEF Encoded
<1> HIDE DEF s, w, p, f, e
<1>8. e \in Seq(Byte) /\ Parts(e, s, w, p, f)
  BY <1>2, <1>3, <1>4, <1>5, <1>6, PartsOfPacket
<1>10. /\ e[1] # 255
       /\ 256 * e[1] + e[2] = r.size
       /\ 256 * e[3] + e[4] = r.ticks
  BY <1>2, <1>3, <1>8 DEF Parts
<1>11. Len(e) = 4 + (r.size + (r.size % 2))
  BY <1>4, <1>5, <1>8 DEF Parts
<1>12. \A i \in 1 .. r.size : e[4 + i] = p[i]
  BY <1>4, <1>8 DEF Parts
<1> QED
  BY <1>1, <1>4, <1>7, <1>8, <1>10, <1>11, <1>12 DEF e, p

LEMMA EncodedBytes ==
  ASSUME NEW r \in Record
  PROVE  Encoded(r) \in Seq(Byte) /\ Len(Encoded(r)) \in Nat /\ Len(Encoded(r)) >= 4
<1>1. CASE r.kind = "event"
  BY <1>1, EventBytes
<1>2. CASE r.kind = "packet"
  <2>1. Len(Encoded(r)) = 4 + (r.size + (r.size % 2)) /\ r.size \in Nat
    BY <1>2, PacketBytes
  <2>2. \A n \in Nat : 4 + (n + (n % 2)) >= 4 /\ 4 + (n + (n % 2)) \in Nat
    OBVIOUS
  <2>3. Encoded(r) \in Seq(Byte)
    BY <1>2, PacketBytes
  <2> QED
    BY <2>1, <2>2, <2>3
<1> QED
  BY <1>1, <1>2, RecordFacts

\* A function that never falls at a step never falls.
LEMMA Rising ==
  ASSUME NEW m \in Nat, NEW f, \A n \in 0 .. m : f[n] \in Nat,
         \A n \in 1 .. m : f[n - 1] <= f[n]
  PROVE  \A n \in 0 .. m, k \in 0 .. m : n <= k => f[n] <= f[k]
<1> SUFFICES ASSUME NEW n \in 0 .. m PROVE \A k \in 0 .. m : n <= k => f[n] <= f[k]
  OBVIOUS
<1> DEFINE S == {k \in Nat : k <= m /\ n <= k => f[n] <= f[k]}
<1>1. 0 \in S
  <2>1. n <= 0 => n = 0
    OBVIOUS
  <2>2. f[n] <= f[n]
    OBVIOUS
  <2> QED
    BY <2>1, <2>2
<1>2. ASSUME NEW k \in Nat, k \in S PROVE k + 1 \in S
  <2> SUFFICES ASSUME k + 1 <= m, n <= k + 1 PROVE f[n] <= f[k + 1]
    OBVIOUS
  <2>1. k + 1 \in 1 .. m /\ (k + 1) - 1 = k /\ k \in 0 .. m /\ k + 1 \in 0 .. m
    OBVIOUS
  <2>2. f[k] <= f[k + 1] /\ f[k] \in Nat /\ f[k + 1] \in Nat /\ f[n] \in Nat
    BY <2>1
  <2>3. CASE n <= k
    BY <1>2, <2>1, <2>2, <2>3
  <2>4. CASE n = k + 1
    BY <2>2, <2>4
  <2> QED
    BY <2>3, <2>4
<1> HIDE DEF S
<1>3. Nat \subseteq S
  BY <1>1, <1>2, Induction
<1> QED
  BY <1>3 DEF S

\* Where the record after the first n is in the stream.
Start(rs, n) == Len(Encode(SubSeq(rs, 1, n)))

LEMMA EncodeSteps ==
  ASSUME NEW rs \in Seq(Record)
  PROVE  \E F \in [0 .. Len(rs) -> Seq(Byte)] :
           /\ F[0] = <<>> /\ F[Len(rs)] = Encode(rs)
           /\ \A i \in 1 .. Len(rs) : F[i] = F[i - 1] \o Encoded(rs[i])
           /\ \A n \in 0 .. Len(rs) : Start(rs, n) = Len(F[n])
<1> DEFINE ss == [i \in DOMAIN rs |-> Encoded(rs[i])]
           m == Len(rs)
<1>1. m \in Nat /\ DOMAIN rs = 1 .. m /\ \A i \in 1 .. m : rs[i] \in Record
  OBVIOUS
<1>2. \A i \in 1 .. m : Encoded(rs[i]) \in Seq(Byte)
  BY <1>1, EncodedBytes
<1>3. ss \in Seq(Seq(Byte)) /\ Len(ss) = m /\ \A i \in 1 .. m : ss[i] = Encoded(rs[i])
  <2>1. ss = [i \in 1 .. m |-> Encoded(rs[i])]
    BY <1>1
  <2>2. ss \in [1 .. m -> Seq(Byte)]
    BY <1>2, <2>1
  <2> HIDE DEF ss, m
  <2>3. ss \in Seq(Seq(Byte)) /\ Len(ss) = m
    BY <1>1, <2>2
  <2> QED
    BY <2>1, <2>3
<1>4. ASSUME NEW n \in 0 .. m PROVE Encode(SubSeq(rs, 1, n)) = FlattenSeq(SubSeq(ss, 1, n))
  <2> DEFINE pre == SubSeq(rs, 1, n)
             cut == SubSeq(ss, 1, n)
  <2>1. n \in Nat /\ n <= m
    BY <1>1
  <2>2. Len(pre) = n /\ DOMAIN pre = 1 .. n /\ \A i \in 1 .. n : pre[i] = rs[i]
    BY <1>1, <2>1, SubSeqProperties
  <2>3. cut \in Seq(Seq(Byte)) /\ Len(cut) = n /\ \A i \in 1 .. n : cut[i] = ss[i]
    <3> HIDE DEF ss, m
    <3> QED
      BY <1>3, <2>1, SubSeqProperties
  <2>4. \A i \in 1 .. n : i \in 1 .. m
    BY <2>1
  <2>5. \A i \in 1 .. n : cut[i] = Encoded(pre[i])
    BY <1>3, <2>2, <2>3, <2>4
  <2> HIDE DEF pre, cut, ss, m
  <2>6. cut = [i \in 1 .. n |-> cut[i]]
    BY <2>1, <2>3
  <2>7. cut = [i \in DOMAIN pre |-> Encoded(pre[i])]
    BY <2>2, <2>5, <2>6
  <2> QED
    BY <2>7, Zenon DEF Encode, pre, cut
<1>5. SubSeq(rs, 1, m) = rs
  OBVIOUS
<1> HIDE DEF ss
<1>6. PICK F \in [0 .. m -> Seq(Byte)] :
        /\ F[0] = <<>>
        /\ \A i \in 1 .. m : F[i] = F[i - 1] \o ss[i]
        /\ \A n \in 0 .. m : FlattenSeq(SubSeq(ss, 1, n)) = F[n]
  <2>1. \E F \in [0 .. Len(ss) -> Seq(Byte)] :
          /\ F[0] = <<>>
          /\ \A i \in 1 .. Len(ss) : F[i] = F[i - 1] \o ss[i]
          /\ \A n \in 0 .. Len(ss) : FlattenSeq(SubSeq(ss, 1, n)) = F[n]
    BY <1>3, Flattened
  <2>2. Len(ss) = m
    BY <1>3
  <2> HIDE DEF m
  <2> QED
    BY <2>1, <2>2
<1>7. \A n \in 0 .. m : Encode(SubSeq(rs, 1, n)) = F[n]
  BY <1>4, <1>6
<1>8. F[m] = Encode(rs)
  <2>1. m \in 0 .. m
    BY <1>1
  <2> QED
    BY <1>5, <1>7, <2>1
<1>9. \A i \in 1 .. m : F[i] = F[i - 1] \o Encoded(rs[i])
  BY <1>3, <1>6
<1>10. \A n \in 0 .. m : Start(rs, n) = Len(F[n])
  BY <1>7 DEF Start
<1> QED
  BY <1>6, <1>8, <1>9, <1>10

\* The records follow one another in the stream.
LEMMA Layout ==
  ASSUME NEW rs \in Seq(Record)
  PROVE  /\ Encode(rs) \in Seq(Byte)
         /\ Start(rs, 0) = 0 /\ Start(rs, Len(rs)) = Len(Encode(rs))
         /\ \A n \in 0 .. Len(rs) : Start(rs, n) \in Nat
         /\ \A n \in 1 .. Len(rs) : Start(rs, n) = Start(rs, n - 1) + Len(Encoded(rs[n]))
         /\ \A n \in 0 .. Len(rs), k \in 0 .. Len(rs) :
              n <= k => Start(rs, n) <= Start(rs, k)
         /\ \A n \in 1 .. Len(rs) : \A i \in 1 .. Len(Encoded(rs[n])) :
              Encode(rs)[Start(rs, n - 1) + i] = Encoded(rs[n])[i]
<1> DEFINE m == Len(rs)
<1>1. m \in Nat /\ \A i \in 1 .. m : rs[i] \in Record
  OBVIOUS
<1> HIDE DEF m
<1>2. PICK F \in [0 .. m -> Seq(Byte)] :
        /\ F[0] = <<>> /\ F[m] = Encode(rs)
        /\ \A i \in 1 .. m : F[i] = F[i - 1] \o Encoded(rs[i])
        /\ \A n \in 0 .. m : Start(rs, n) = Len(F[n])
  BY EncodeSteps DEF m
<1>3. \A n \in 0 .. m : F[n] \in Seq(Byte) /\ Len(F[n]) \in Nat
  BY <1>2
<1>4. ASSUME NEW n \in 1 .. m
      PROVE  /\ n - 1 \in 0 .. m /\ n \in 0 .. m
             /\ Joins(F[n], F[n - 1], Encoded(rs[n]))
             /\ Len(Encoded(rs[n])) \in Nat
  <2>1. n - 1 \in 0 .. m /\ n \in 0 .. m
    BY <1>1
  <2>2. Encoded(rs[n]) \in Seq(Byte) /\ Len(Encoded(rs[n])) \in Nat
    BY <1>1, EncodedBytes
  <2>3. F[n - 1] \in Seq(Byte) /\ F[n] = F[n - 1] \o Encoded(rs[n])
    BY <1>2, <1>3, <2>1
  <2> QED
    BY <2>1, <2>2, <2>3, Joined
<1> DEFINE f == [n \in 0 .. m |-> Start(rs, n)]
<1>5. \A n \in 0 .. m : Start(rs, n) \in Nat
  BY <1>2, <1>3
<1>6. \A n \in 1 .. m : Start(rs, n) = Start(rs, n - 1) + Len(Encoded(rs[n]))
  BY <1>2, <1>4 DEF Joins
<1>7. \A n \in 0 .. m, k \in 0 .. m : n <= k => Start(rs, n) <= Start(rs, k)
  <2>1. \A n \in 0 .. m : f[n] = Start(rs, n)
    OBVIOUS
  <2>2. \A n \in 1 .. m : Start(rs, n - 1) <= Start(rs, n)
    BY <1>4, <1>5, <1>6
  <2> HIDE DEF f
  <2>3. \A n \in 1 .. m : f[n - 1] <= f[n]
    BY <1>4, <2>1, <2>2
  <2>4. \A n \in 0 .. m : f[n] \in Nat
    BY <1>5, <2>1
  <2>5. \A n \in 0 .. m, k \in 0 .. m : n <= k => f[n] <= f[k]
    BY <1>1, <2>3, <2>4, Rising
  <2> QED
    BY <2>1, <2>5
<1>8. ASSUME NEW n \in 0 .. m
      PROVE  \A k \in 0 .. m : n <= k => \A i \in 1 .. Len(F[n]) : F[k][i] = F[n][i]
  <2> DEFINE S == {k \in Nat : k <= m /\ n <= k => \A i \in 1 .. Len(F[n]) : F[k][i] = F[n][i]}
  <2>1. 0 \in S
    <3>1. n <= 0 => n = 0
      BY <1>1
    <3> QED
      BY <3>1
  <2>2. ASSUME NEW k \in Nat, k \in S PROVE k + 1 \in S
    <3> SUFFICES ASSUME k + 1 <= m, n <= k + 1, NEW i \in 1 .. Len(F[n]) PROVE F[k + 1][i] = F[n][i]
      OBVIOUS
    <3>1. k + 1 \in 1 .. m /\ (k + 1) - 1 = k /\ k \in 0 .. m /\ k <= m
      BY <1>1
    <3>2. CASE n <= k
      <4>1. Len(F[n]) <= Len(F[k]) /\ Len(F[n]) \in Nat /\ Len(F[k]) \in Nat
        BY <1>2, <1>3, <1>7, <3>1, <3>2
      <4>2. i \in 1 .. Len(F[k])
        BY <4>1
      <4>3. F[k + 1][i] = F[k][i]
        BY <1>4, <3>1, <4>2 DEF Joins
      <4> QED
        BY <2>2, <3>1, <3>2, <4>3
    <3>3. CASE n = k + 1
      BY <3>3
    <3> QED
      BY <1>1, <3>2, <3>3
  <2> HIDE DEF S
  <2>3. Nat \subseteq S
    BY <2>1, <2>2, Induction
  <2> QED
    BY <1>1, <2>3 DEF S
<1>9. ASSUME NEW n \in 1 .. m, NEW i \in 1 .. Len(Encoded(rs[n]))
      PROVE  Encode(rs)[Start(rs, n - 1) + i] = Encoded(rs[n])[i]
  <2>1. F[n][Len(F[n - 1]) + i] = Encoded(rs[n])[i]
    BY <1>4 DEF Joins
  <2>2. Len(F[n - 1]) + i \in 1 .. Len(F[n])
    <3>1. Len(F[n]) = Len(F[n - 1]) + Len(Encoded(rs[n]))
      BY <1>4 DEF Joins
    <3>2. Len(F[n - 1]) \in Nat /\ Len(Encoded(rs[n])) \in Nat
      BY <1>3, <1>4
    <3>3. \A a \in Nat, b \in Nat : i \in 1 .. b => a + i \in 1 .. a + b
      OBVIOUS
    <3> QED
      BY <3>1, <3>2, <3>3
  <2>3. F[m][Len(F[n - 1]) + i] = F[n][Len(F[n - 1]) + i]
    <3>1. n \in 0 .. m /\ m \in 0 .. m /\ n <= m
      BY <1>1
    <3> QED
      BY <1>8, <2>2, <3>1
  <2> QED
    BY <1>2, <1>4, <2>1, <2>3
<1>10. Start(rs, 0) = 0 /\ Start(rs, m) = Len(Encode(rs)) /\ Encode(rs) \in Seq(Byte)
  <2>1. 0 \in 0 .. m /\ m \in 0 .. m
    BY <1>1
  <2> QED
    BY <1>2, <1>3, <2>1
<1> QED
  BY <1>5, <1>6, <1>7, <1>9, <1>10 DEF m

-----------------------------------------------------------------------------
(* What the first n records add up to.                                     *)

LEMMA Times ==
  ASSUME sent \in Seq(Record)
  PROVE  /\ TimeOf(0) = 0
         /\ \A n \in 0 .. Len(sent) : TimeOf(n) \in Nat
         /\ \A n \in 1 .. Len(sent) : TimeOf(n) = TimeOf(n - 1) + sent[n].ticks
<1> DEFINE m == Len(sent)
           f == [i \in DOMAIN sent |-> sent[i].ticks]
<1>1. m \in Nat /\ DOMAIN sent = 1 .. m /\ \A i \in 1 .. m : sent[i] \in Record
  OBVIOUS
<1>2. \A i \in 1 .. m : f[i] = sent[i].ticks
  BY <1>1
<1>3. \A i \in 1 .. m : sent[i].ticks \in Nat
  BY <1>1, RecordFacts, Numerals
<1>4. \A n : TimeOf(n) = SumTo(f, n)
  BY DEF TimeOf
<1> HIDE DEF m, f
<1>5. /\ SumTo(f, 0) = 0
      /\ \A n \in 0 .. m : SumTo(f, n) \in Nat
      /\ \A n \in 1 .. m : SumTo(f, n) = SumTo(f, n - 1) + f[n]
  <2>1. \A i \in 1 .. m : f[i] \in Nat
    BY <1>2, <1>3
  <2> QED
    BY <1>1, <2>1, SumSteps
<1> QED
  BY <1>2, <1>4, <1>5 DEF m

LEMMA Sizes ==
  ASSUME sent \in Seq(Record)
  PROVE  /\ PcapBytes(0) = GlobalHeaderBytes
         /\ \A n \in 0 .. Len(sent) : PcapBytes(n) \in Nat
         /\ \A n \in 1 .. Len(sent) :
              /\ sent[n].kind = "event" => PcapBytes(n) = PcapBytes(n - 1)
              /\ sent[n].kind = "packet" =>
                   PcapBytes(n) = PcapBytes(n - 1) + PacketHeaderBytes + sent[n].size
         /\ \A n \in 0 .. Len(sent), k \in 0 .. Len(sent) :
              n <= k => PcapBytes(n) <= PcapBytes(k)
<1> DEFINE m == Len(sent)
           f == [i \in DOMAIN sent |-> IF sent[i].kind = "packet"
                                       THEN PacketHeaderBytes + sent[i].size ELSE 0]
           s == [n \in 0 .. m |-> SumTo(f, n)]
<1>1. m \in Nat /\ DOMAIN sent = 1 .. m /\ \A i \in 1 .. m : sent[i] \in Record
  OBVIOUS
<1>0. "event" # "packet"
  OBVIOUS
<1>2. \A i \in 1 .. m : /\ sent[i].kind = "packet" => f[i] = PacketHeaderBytes + sent[i].size
                        /\ sent[i].kind = "event" => f[i] = 0
  BY <1>0, <1>1
<1>3. \A i \in 1 .. m : sent[i].kind = "packet" => sent[i].size \in Nat
  BY <1>1, RecordFacts, Numerals
<1>4. \A n : PcapBytes(n) = GlobalHeaderBytes + SumTo(f, n)
  BY DEF PcapBytes
<1>5. \A n \in 0 .. m : s[n] = SumTo(f, n)
  OBVIOUS
<1> HIDE DEF m, f, s
<1>6. \A i \in 1 .. m : f[i] \in Nat
  <2> TAKE i \in 1 .. m
  <2>1. CASE sent[i].kind = "packet"
    BY <1>2, <1>3, <2>1 DEF PacketHeaderBytes
  <2>2. CASE sent[i].kind = "event"
    BY <1>2, <2>2
  <2> QED
    BY <1>1, <2>1, <2>2, RecordFacts
<1>7. /\ SumTo(f, 0) = 0
      /\ \A n \in 0 .. m : SumTo(f, n) \in Nat
      /\ \A n \in 1 .. m : SumTo(f, n) = SumTo(f, n - 1) + f[n]
  BY <1>1, <1>6, SumSteps
<1>8. \A n \in 0 .. m, k \in 0 .. m : n <= k => SumTo(f, n) <= SumTo(f, k)
  <2>1. \A n \in 1 .. m : n \in 0 .. m /\ n - 1 \in 0 .. m
    BY <1>1
  <2>2. \A n \in 1 .. m : SumTo(f, n - 1) <= SumTo(f, n)
    BY <1>6, <1>7, <2>1
  <2>3. \A n \in 1 .. m : s[n - 1] <= s[n]
    BY <1>5, <2>1, <2>2
  <2>4. \A n \in 0 .. m : s[n] \in Nat
    BY <1>5, <1>7
  <2>5. \A n \in 0 .. m, k \in 0 .. m : n <= k => s[n] <= s[k]
    BY <1>1, <2>3, <2>4, Rising
  <2> QED
    BY <1>5, <2>5
<1>9. PcapBytes(0) = GlobalHeaderBytes
  BY <1>4, <1>7 DEF GlobalHeaderBytes
<1>10. \A n \in 0 .. m : PcapBytes(n) \in Nat
  BY <1>4, <1>7 DEF GlobalHeaderBytes
<1>11. ASSUME NEW n \in 1 .. m
       PROVE  /\ sent[n].kind = "event" => PcapBytes(n) = PcapBytes(n - 1)
              /\ sent[n].kind = "packet" =>
                   PcapBytes(n) = PcapBytes(n - 1) + PacketHeaderBytes + sent[n].size
  <2>1. n - 1 \in 0 .. m /\ SumTo(f, n - 1) \in Nat /\ SumTo(f, n) = SumTo(f, n - 1) + f[n]
    BY <1>1, <1>7
  <2>2. CASE sent[n].kind = "event"
    BY <1>0, <1>2, <1>4, <2>1, <2>2 DEF GlobalHeaderBytes
  <2>3. CASE sent[n].kind = "packet"
    <3>1. f[n] = PacketHeaderBytes + sent[n].size /\ sent[n].size \in Nat
      BY <1>2, <1>3, <2>3
    <3> QED
      BY <1>0, <1>4, <2>1, <2>3, <3>1 DEF GlobalHeaderBytes, PacketHeaderBytes
  <2> QED
    BY <2>2, <2>3
<1>12. \A n \in 0 .. m, k \in 0 .. m : n <= k => PcapBytes(n) <= PcapBytes(k)
  BY <1>4, <1>7, <1>8 DEF GlobalHeaderBytes
<1> QED
  BY <1>9, <1>10, <1>11, <1>12 DEF m

LEMMA Counts ==
  ASSUME NEW n \in Nat, NEW kind
  PROVE  /\ Of(kind, n) \subseteq 1 .. n /\ IsFiniteSet(Of(kind, n)) /\ Count(kind, n) \in Nat
         /\ sent[n + 1].kind = kind => /\ Of(kind, n + 1) = Of(kind, n) \cup {n + 1}
                                       /\ Count(kind, n + 1) = Count(kind, n) + 1
         /\ sent[n + 1].kind # kind => /\ Of(kind, n + 1) = Of(kind, n)
                                       /\ Count(kind, n + 1) = Count(kind, n)
<1>1. IsFiniteSet(1 .. n)
  BY FS_Interval
<1>2. Of(kind, n) \subseteq 1 .. n
  BY DEF Of
<1>3. IsFiniteSet(Of(kind, n))
  BY <1>1, <1>2, FS_Subset
<1>4. Count(kind, n) \in Nat
  BY <1>3, FS_CardinalityType DEF Count
<1>5. 1 .. n + 1 = (1 .. n) \cup {n + 1} /\ ~(n + 1 \in 1 .. n)
  OBVIOUS
<1>6. ASSUME sent[n + 1].kind = kind
      PROVE  /\ Of(kind, n + 1) = Of(kind, n) \cup {n + 1}
             /\ Count(kind, n + 1) = Count(kind, n) + 1
  <2>1. Of(kind, n + 1) = Of(kind, n) \cup {n + 1}
    BY <1>5, <1>6 DEF Of
  <2>2. ~(n + 1 \in Of(kind, n))
    BY <1>2, <1>5
  <2>3. Cardinality(Of(kind, n) \cup {n + 1}) = Cardinality(Of(kind, n)) + 1
    BY <1>3, <2>2, FS_AddElement
  <2> QED
    BY <2>1, <2>3 DEF Count
<1>7. ASSUME sent[n + 1].kind # kind
      PROVE  Of(kind, n + 1) = Of(kind, n) /\ Count(kind, n + 1) = Count(kind, n)
  <2>1. Of(kind, n + 1) = Of(kind, n)
    BY <1>5, <1>7 DEF Of
  <2> QED
    BY <2>1 DEF Count
<1> QED
  BY <1>2, <1>3, <1>4, <1>6, <1>7

LEMMA NoneCounted ==
  ASSUME NEW kind
  PROVE  Of(kind, 0) = {} /\ Count(kind, 0) = 0
<1>1. Of(kind, 0) = {}
  BY DEF Of
<1> QED
  BY <1>1, FS_EmptySet DEF Count

\* Each is counted with those before it.
LEMMA CountedBefore ==
  ASSUME NEW n \in Nat, NEW kind, NEW i \in Of(kind, n)
  PROVE  i \in 1 .. n /\ Count(kind, i) \in 1 .. Count(kind, n)
<1>1. i \in 1 .. n /\ i \in Nat
  BY DEF Of
<1>2. /\ IsFiniteSet(Of(kind, n)) /\ Count(kind, n) \in Nat
      /\ IsFiniteSet(Of(kind, i)) /\ Count(kind, i) \in Nat
  BY <1>1, Counts
<1>3. Of(kind, i) \subseteq Of(kind, n) /\ i \in Of(kind, i)
  BY <1>1 DEF Of
<1>4. Count(kind, i) <= Count(kind, n)
  BY <1>2, <1>3, FS_Subset DEF Count
<1>5. Count(kind, i) # 0
  BY <1>2, <1>3, FS_EmptySet DEF Count
<1> QED
  BY <1>1, <1>2, <1>4, <1>5

-----------------------------------------------------------------------------
(* What the decoder finds at the start of a record.                        *)

InputInv ==
  /\ sent \in Seq(Record)
  /\ \E cut \in 0 .. Len(Encode(sent)) : src = SubSeq(Encode(sent), 1, cut)

LEMMA FileBytes ==
  ASSUME InputInv
  PROVE  /\ sent \in Seq(Record) /\ src \in Seq(Byte) /\ Len(src) \in Nat
         /\ Len(src) <= Len(Encode(sent))
         /\ \A i \in 1 .. Len(src) : src[i] = Encode(sent)[i]
<1> DEFINE all == Encode(sent)
<1>1. sent \in Seq(Record) /\ all \in Seq(Byte)
  BY Layout DEF InputInv
<1>2. PICK cut \in 0 .. Len(all) : src = SubSeq(all, 1, cut)
  BY DEF InputInv
<1> HIDE DEF all
<1>3. cut \in Nat /\ cut <= Len(all) /\ Len(all) \in Nat
  BY <1>1, <1>2
<1>4. src \in Seq(Byte) /\ Len(src) = cut /\ \A i \in 1 .. cut : src[i] = all[i]
  BY <1>1, <1>2, <1>3, SubSeqProperties
<1> QED
  BY <1>1, <1>3, <1>4 DEF all

\* The decoder is after the first n records and has not reached the end.
Before(n) ==
  /\ InputInv /\ n \in 0 .. Len(sent)
  /\ off = Start(sent, n) /\ off < Len(src)

LEMMA NextRecord ==
  ASSUME NEW n, Before(n)
  PROVE  /\ n \in Nat /\ n + 1 \in 1 .. Len(sent) /\ (n + 1) - 1 = n
         /\ sent[n + 1] \in Record
         /\ off \in Nat /\ Len(src) \in Nat
         /\ Start(sent, n + 1) = off + Len(Encoded(sent[n + 1]))
         /\ \A i \in 1 .. Len(Encoded(sent[n + 1])) :
              off + i <= Len(src) => src[off + i] = Encoded(sent[n + 1])[i]
<1>1. /\ sent \in Seq(Record) /\ src \in Seq(Byte) /\ Len(src) \in Nat
      /\ Len(src) <= Len(Encode(sent))
      /\ \A i \in 1 .. Len(src) : src[i] = Encode(sent)[i]
  BY FileBytes DEF Before
<1>2. n \in 0 .. Len(sent) /\ off = Start(sent, n) /\ off < Len(src)
  BY DEF Before
<1>3. Len(sent) \in Nat /\ Len(Encode(sent)) \in Nat
  BY <1>1, Layout
<1>4. off \in Nat /\ Start(sent, Len(sent)) = Len(Encode(sent))
  BY <1>1, <1>2, Layout
<1>5. n # Len(sent)
  BY <1>1, <1>2, <1>3, <1>4
<1>6. n \in Nat /\ n + 1 \in 1 .. Len(sent) /\ (n + 1) - 1 = n
  BY <1>2, <1>3, <1>5
<1>7. sent[n + 1] \in Record
  BY <1>1, <1>6
<1>8. Start(sent, n + 1) = off + Len(Encoded(sent[n + 1]))
  BY <1>1, <1>2, <1>6, Layout
<1>9. \A i \in 1 .. Len(Encoded(sent[n + 1])) :
        Encode(sent)[off + i] = Encoded(sent[n + 1])[i]
  BY <1>1, <1>2, <1>6, Layout
<1>10. \A i \in 1 .. Len(Encoded(sent[n + 1])) :
         off + i <= Len(src) => off + i \in 1 .. Len(src)
  <2>1. Len(Encoded(sent[n + 1])) \in Nat
    BY <1>7, EncodedBytes
  <2> QED
    BY <1>1, <1>4, <2>1
<1> QED
  BY <1>1, <1>4, <1>6, <1>7, <1>8, <1>9, <1>10

\* A file that ends with a whole record holds all of the next one.
LEMMA WholeBeyond ==
  ASSUME NEW n, Before(n), NEW k \in Whole
  PROVE  k \in 0 .. Len(sent) /\ n + 1 \in 1 .. k /\ Start(sent, n + 1) <= Len(src)
<1>1. /\ n \in Nat /\ n + 1 \in 1 .. Len(sent) /\ off = Start(sent, n)
      /\ off < Len(src) /\ Len(src) \in Nat /\ off \in Nat /\ n \in 0 .. Len(sent)
  BY NextRecord DEF Before
<1>2. sent \in Seq(Record)
  BY DEF Before, InputInv
<1>3. k \in 0 .. Len(sent) /\ Start(sent, k) = Len(src)
  BY DEF Whole, Start, Prefix
<1>4. n + 1 \in 0 .. Len(sent) /\ Len(sent) \in Nat
  BY <1>1, <1>2
<1>5. ~(k <= n)
  <2>1. k <= n => Start(sent, k) <= Start(sent, n)
    BY <1>1, <1>2, <1>3, Layout
  <2> QED
    BY <1>1, <1>3, <2>1
<1>6. n + 1 \in 1 .. k /\ n + 1 <= k
  BY <1>1, <1>3, <1>4, <1>5
<1>7. Start(sent, n + 1) <= Start(sent, k)
  BY <1>2, <1>3, <1>4, <1>6, Layout
<1> QED
  BY <1>3, <1>6, <1>7

LEMMA HeaderRead ==
  ASSUME NEW n, Before(n), Has(4)
  PROVE  \A i \in 1 .. 4 : src[off + i] = Encoded(sent[n + 1])[i]
<1>1. /\ off \in Nat /\ Len(src) \in Nat /\ sent[n + 1] \in Record
      /\ \A i \in 1 .. Len(Encoded(sent[n + 1])) :
           off + i <= Len(src) => src[off + i] = Encoded(sent[n + 1])[i]
  BY NextRecord
<1>2. Len(Encoded(sent[n + 1])) \in Nat /\ Len(Encoded(sent[n + 1])) >= 4
  BY <1>1, EncodedBytes
<1> SUFFICES ASSUME NEW i \in 1 .. 4 PROVE src[off + i] = Encoded(sent[n + 1])[i]
  OBVIOUS
<1>3. off + i <= Len(src) /\ i \in 1 .. Len(Encoded(sent[n + 1]))
  BY <1>1, <1>2 DEF Has
<1> QED
  BY <1>1, <1>3

LEMMA WordsRead ==
  ASSUME NEW n, Before(n), Has(4)
  PROVE  /\ src[off + 1] = Encoded(sent[n + 1])[1]
         /\ src[off + 2] = Encoded(sent[n + 1])[2]
         /\ Size = 256 * Encoded(sent[n + 1])[1] + Encoded(sent[n + 1])[2]
         /\ Ticks = 256 * Encoded(sent[n + 1])[3] + Encoded(sent[n + 1])[4]
<1>1. \A i \in 1 .. 4 : src[off + i] = Encoded(sent[n + 1])[i]
  BY HeaderRead
<1>2. off \in Nat
  BY NextRecord
<1>3. 1 \in 1 .. 4 /\ 2 \in 1 .. 4 /\ 3 \in 1 .. 4 /\ 4 \in 1 .. 4
  OBVIOUS
<1>4. (off + 2) + 1 = off + 3 /\ (off + 2) + 2 = off + 4
  BY <1>2
<1>5. /\ src[off + 1] = Encoded(sent[n + 1])[1] /\ src[off + 2] = Encoded(sent[n + 1])[2]
      /\ src[off + 3] = Encoded(sent[n + 1])[3] /\ src[off + 4] = Encoded(sent[n + 1])[4]
  BY <1>1, <1>3
<1> QED
  BY <1>4, <1>5 DEF Size, Ticks, WordAt

LEMMA KindRead ==
  ASSUME NEW n, Before(n), Has(4)
  PROVE  /\ IsEvent <=> sent[n + 1].kind = "event"
         /\ IsPacket <=> sent[n + 1].kind = "packet"
<1>1. sent[n + 1] \in Record /\ src[off + 1] = Encoded(sent[n + 1])[1]
  BY NextRecord, WordsRead
<1>2. CASE sent[n + 1].kind = "event"
  <2>1. src[off + 1] = 255
    BY <1>1, <1>2, EventBytes
  <2> QED
    BY <1>2, <2>1 DEF IsEvent, IsPacket
<1>3. CASE sent[n + 1].kind = "packet"
  <2>1. src[off + 1] # 255
    BY <1>1, <1>3, PacketBytes
  <2> QED
    BY <1>3, <2>1 DEF IsEvent, IsPacket
<1> QED
  BY <1>1, <1>2, <1>3, RecordFacts

LEMMA EventRead ==
  ASSUME NEW n, Before(n), IsEvent
  PROVE  /\ sent[n + 1].kind = "event"
         /\ src[off + 2] = sent[n + 1].code /\ sent[n + 1].code \in Byte
         /\ Ticks = sent[n + 1].ticks /\ Ticks \in Nat
         /\ Start(sent, n + 1) = off + 4
<1>1. Has(4)
  BY DEF IsEvent
<1>2. sent[n + 1].kind = "event"
  BY <1>1, KindRead
<1>3. sent[n + 1] \in Record /\ Start(sent, n + 1) = off + Len(Encoded(sent[n + 1]))
  BY NextRecord
<1>4. /\ src[off + 2] = Encoded(sent[n + 1])[2]
      /\ Ticks = 256 * Encoded(sent[n + 1])[3] + Encoded(sent[n + 1])[4]
  BY <1>1, WordsRead
<1>5. /\ Encoded(sent[n + 1])[2] = sent[n + 1].code /\ Len(Encoded(sent[n + 1])) = 4
      /\ 256 * Encoded(sent[n + 1])[3] + Encoded(sent[n + 1])[4] = sent[n + 1].ticks
      /\ sent[n + 1].code \in Byte /\ sent[n + 1].ticks \in Nat
  BY <1>2, <1>3, EventBytes
<1> QED
  BY <1>2, <1>3, <1>4, <1>5

LEMMA PacketRead ==
  ASSUME NEW n, Before(n), IsPacket
  PROVE  /\ sent[n + 1].kind = "packet"
         /\ Size = sent[n + 1].size /\ Size \in Nat
         /\ Ticks = sent[n + 1].ticks /\ Ticks \in Nat
         /\ Start(sent, n + 1) = off + 4 + Padded
<1>1. Has(4)
  BY DEF IsPacket
<1>2. sent[n + 1].kind = "packet"
  BY <1>1, KindRead
<1>3. /\ sent[n + 1] \in Record /\ Start(sent, n + 1) = off + Len(Encoded(sent[n + 1]))
      /\ off \in Nat
  BY NextRecord
<1>4. /\ Size = 256 * Encoded(sent[n + 1])[1] + Encoded(sent[n + 1])[2]
      /\ Ticks = 256 * Encoded(sent[n + 1])[3] + Encoded(sent[n + 1])[4]
  BY <1>1, WordsRead
<1>5. /\ 256 * Encoded(sent[n + 1])[1] + Encoded(sent[n + 1])[2] = sent[n + 1].size
      /\ 256 * Encoded(sent[n + 1])[3] + Encoded(sent[n + 1])[4] = sent[n + 1].ticks
      /\ Len(Encoded(sent[n + 1])) = 4 + (sent[n + 1].size + (sent[n + 1].size % 2))
      /\ sent[n + 1].size \in Nat /\ sent[n + 1].ticks \in Nat
  BY <1>2, <1>3, PacketBytes
<1>6. Size = sent[n + 1].size /\ Ticks = sent[n + 1].ticks
  BY <1>4, <1>5
<1>7. Start(sent, n + 1) = off + (4 + Padded)
  BY <1>3, <1>5, <1>6 DEF Padded
<1>8. off + (4 + Padded) = off + 4 + Padded
  <2>1. Padded \in Nat
    <3>1. Size \in Nat
      BY <1>5, <1>6
    <3>2. \A x \in Nat : x + (x % 2) \in Nat
      OBVIOUS
    <3> QED
      BY <3>1, <3>2, Zenon DEF Padded
  <2> QED
    BY <1>3, <2>1
<1> QED
  BY <1>2, <1>5, <1>6, <1>7, <1>8

LEMMA PayloadRead ==
  ASSUME NEW n, Before(n), IsPacket, LegalSize, Has(4 + Size)
  PROVE  /\ src[off + 5] = sent[n + 1].pid
         /\ SubSeq(src, off + 5, off + 4 + Size) = Payload(sent[n + 1])
         /\ Payload(sent[n + 1]) \in Seq(Byte) /\ Len(Payload(sent[n + 1])) = Size
<1> DEFINE r == sent[n + 1]
           e == Encoded(r)
           p == Payload(r)
           q == SubSeq(src, off + 5, off + 4 + Size)
<1>1. r.kind = "packet" /\ Size = r.size /\ Size \in Nat
  BY PacketRead
<1>2. /\ r \in Record /\ off \in Nat /\ Len(src) \in Nat
      /\ \A i \in 1 .. Len(e) : off + i <= Len(src) => src[off + i] = e[i]
  BY NextRecord
<1>3. /\ Len(e) = 4 + (Size + (Size % 2))
      /\ \A i \in 1 .. Size : e[4 + i] = p[i]
      /\ p \in Seq(Byte) /\ Len(p) = Size
      /\ Size > 0 => p[1] = r.pid
  BY <1>1, <1>2, PacketBytes
<1>4. src \in Seq(Byte)
  BY FileBytes DEF Before
<1>5. off + (4 + Size) <= Len(src)
  BY DEF Has
<1>6. Size > 0
  BY <1>1, LimitAssumption, Numerals DEF LegalSize
<1> HIDE DEF r, e, p
<1>7. ASSUME NEW i \in 1 .. Size PROVE src[off + 4 + i] = p[i]
  <2>1. 4 + i \in 1 .. Len(e)
    <3>1. Size % 2 \in Nat
      BY <1>1
    <3> QED
      BY <1>1, <1>3, <3>1
  <2>2. off + (4 + i) = off + 4 + i /\ off + (4 + i) <= Len(src)
    BY <1>1, <1>2, <1>5
  <2> QED
    BY <1>2, <1>3, <2>1, <2>2
<1>8. src[off + 5] = r.pid
  <2>1. 1 \in 1 .. Size /\ off + 4 + 1 = off + 5
    BY <1>1, <1>2, <1>6
  <2> QED
    BY <1>3, <1>6, <1>7, <2>1
<1>9. q = p
  <2>1. /\ off + 5 \in 1 .. Len(src) + 1 /\ off + 4 + Size \in 0 .. Len(src)
        /\ off + 5 \in Int /\ off + 4 + Size \in Int
        /\ (off + 4 + Size) - (off + 5) + 1 = Size
        /\ off + 5 <= off + 4 + Size
    BY <1>1, <1>2, <1>5, <1>6
  <2>2. \A i \in 1 .. Size : (off + 5) + i - 1 = off + 4 + i
    BY <1>1, <1>2
  <2>6. \A i \in off + 5 .. off + 4 + Size : src[i] \in Byte
    BY <1>1, <1>2, <1>4, <1>5
  <2>7. /\ q \in Seq(Byte)
        /\ Len(q) = (off + 4 + Size) - (off + 5) + 1
        /\ \A i \in 1 .. (off + 4 + Size) - (off + 5) + 1 : q[i] = src[(off + 5) + i - 1]
    BY <2>1, <2>6, SubSeqProperties
  <2>3. q \in Seq(Byte) /\ Len(q) = Size
    BY <2>1, <2>7
  <2>4. \A i \in 1 .. Size : q[i] = src[off + 4 + i]
    BY <2>1, <2>2, <2>7
  <2> HIDE DEF q
  <2>5. \A i \in 1 .. Size : q[i] = p[i]
    BY <1>7, <2>4
  <2> QED
    BY <1>3, <2>3, <2>5, SeqEqual
<1> QED
  BY <1>3, <1>8, <1>9 DEF r, p

-----------------------------------------------------------------------------
(* The invariant.                                                          *)

Output ==
  [sec : Nat, usec : 0 .. Second - 1,
   payload : {p \in Seq(Byte) : Len(p) \in 1 .. MaxPacketBytes}]

ValueInv ==
  /\ status \in {"opening", "reading", "done"} \cup Refusal
  /\ ticks \in Nat
  /\ out \in Seq(Output)
  /\ events \in Seq(Byte \ {2, 3})
  /\ speed \in {0, 4, 5, 6, 7}

Unopened == {"opening", "too_large"}

\* The decoder has consumed the first n records, all of them sound.
Progress(n) ==
  /\ n \in 0 .. Len(sent)
  /\ off = Start(sent, n) /\ off <= Len(src)
  /\ Matches(n)
  /\ \A i \in 1 .. n : Sound(sent[i])
  /\ IF status \in Unopened
     THEN n = 0 /\ counted = 0
     ELSE counted = PcapBytes(n) /\ Len(src) <= MaxConversionBytes

Settled ==
  /\ status = "done" => off = Len(src)
  /\ status \in Refusal => ~Convertible

DecoderInv ==
  /\ Accounts /\ InputInv /\ ValueInv /\ Settled
  /\ \E n \in 0 .. Len(sent) : Progress(n)

LEMMA ReadingIsBefore ==
  ASSUME NEW n, Progress(n), InputInv, Accounts, Reading
  PROVE  Before(n)
<1>1. off < Len(src)
  BY DEF Accounts, Reading
<1> QED
  BY <1>1 DEF Progress, Before

\* What the file holds stays as it is.
LEMMA Frozen ==
  ASSUME UNCHANGED input
  PROVE  /\ sent' = sent /\ src' = src
         /\ \A n : TimeOf(n)' = TimeOf(n) /\ PcapBytes(n)' = PcapBytes(n)
         /\ \A n : Starts(n)' = Starts(n) /\ Start(sent, n)' = Start(sent, n)
         /\ \A kind, n : Of(kind, n)' = Of(kind, n) /\ Count(kind, n)' = Count(kind, n)
         /\ \A i : Converted(i)' = Converted(i)
         /\ Convertible' = Convertible
         /\ InputInv => InputInv'
<1>1. sent' = sent /\ src' = src
  BY DEF input
<1>2. \A n : TimeOf(n)' = TimeOf(n) /\ PcapBytes(n)' = PcapBytes(n)
  BY <1>1 DEF TimeOf, PcapBytes
<1>3. \A kind, n : Of(kind, n)' = Of(kind, n)
  BY <1>1 DEF Of
<1>4. \A kind, n : Count(kind, n)' = Count(kind, n)
  BY <1>3 DEF Count
<1>5. \A n : Starts(n)' = Starts(n)
  BY <1>1, <1>3 DEF Starts
<1>6. \A n : Start(sent, n)' = Start(sent, n)
  BY <1>1 DEF Start
<1>7. \A i : Converted(i)' = Converted(i)
  BY <1>1, <1>2 DEF Converted
<1>8. Whole' = Whole
  BY <1>1 DEF Whole, Prefix
<1>9. Convertible' = Convertible
  BY <1>1, <1>2, <1>8 DEF Convertible
<1>10. InputInv => InputInv'
  BY <1>1 DEF InputInv
<1> QED
  BY <1>1, <1>2, <1>3, <1>4, <1>5, <1>6, <1>7, <1>9, <1>10

-----------------------------------------------------------------------------
(* A record is read.                                                       *)

LEMMA SpeedStep ==
  ASSUME NEW n \in Nat, NEW code, sent[n + 1].kind = "event", sent[n + 1].code = code,
         \/ Starts(n) = {} /\ speed = 0
         \/ \E i \in Starts(n) : speed = sent[i].code /\ \A j \in Starts(n) : j <= i,
         UNCHANGED input, speed' = IF code \in 4 .. 7 THEN code ELSE speed
  PROVE  (\/ Starts(n + 1) = {} /\ speed = 0
          \/ \E i \in Starts(n + 1) : speed = sent[i].code /\ \A j \in Starts(n + 1) : j <= i)'
<1>1. Of("event", n + 1) = Of("event", n) \cup {n + 1} /\ Of("event", n) \subseteq 1 .. n
  BY Counts
<1>2. sent' = sent /\ Starts(n + 1)' = Starts(n + 1)
  BY Frozen
<1>3. CASE code \in 4 .. 7
  <2>1. n + 1 \in Starts(n + 1) /\ \A j \in Starts(n + 1) : j <= n + 1
    BY <1>1, <1>3 DEF Starts
  <2>2. speed' = sent'[n + 1].code
    BY <1>2, <1>3
  <2> QED
    BY <1>2, <2>1, <2>2
<1>4. CASE code \notin 4 .. 7
  <2>1. Starts(n + 1) = Starts(n)
    BY <1>1, <1>4 DEF Starts
  <2>2. speed' = speed
    BY <1>4
  <2> QED
    BY <1>2, <2>1, <2>2
<1> QED
  BY <1>3, <1>4

LEMMA EventMatches ==
  ASSUME NEW n, Before(n), Matches(n), ValueInv, ReadEvent
  PROVE  Matches(n + 1)'
<1> DEFINE code == src[off + 2]
           r == sent[n + 1]
<1>1. /\ IsEvent /\ UNCHANGED input /\ out' = out
      /\ ticks' = ticks + Ticks /\ events' = Append(events, code)
      /\ speed' = IF code \in 4 .. 7 THEN code ELSE speed
  BY DEF ReadEvent
<1>2. r.kind = "event" /\ code = r.code /\ Ticks = r.ticks
  BY <1>1, EventRead
<1>3. n \in Nat /\ n + 1 \in 1 .. Len(sent) /\ (n + 1) - 1 = n
  BY NextRecord
<1>4. sent \in Seq(Record)
  BY DEF Before, InputInv
<1>5. /\ sent' = sent
      /\ TimeOf(n + 1)' = TimeOf(n + 1)
      /\ \A kind, k : Of(kind, k)' = Of(kind, k) /\ Count(kind, k)' = Count(kind, k)
      /\ \A i : Converted(i)' = Converted(i)
  BY <1>1, Frozen
<1>6. ticks' = TimeOf(n + 1)
  <2>1. TimeOf(n + 1) = TimeOf(n) + r.ticks
    BY <1>3, <1>4, Times
  <2>2. ticks = TimeOf(n)
    BY DEF Matches
  <2> QED
    BY <1>1, <1>2, <2>1, <2>2
<1>7. Of("packet", n + 1) = Of("packet", n) /\ Count("packet", n + 1) = Count("packet", n)
  <2>1. r.kind # "packet"
    BY <1>2
  <2> QED
    BY <1>3, <2>1, Counts
<1>8. /\ Of("event", n + 1) = Of("event", n) \cup {n + 1}
      /\ Count("event", n + 1) = Count("event", n) + 1
      /\ Count("event", n) \in Nat
  BY <1>2, <1>3, Counts
<1>9. /\ Len(out') = Count("packet", n + 1)
      /\ \A i \in Of("packet", n + 1) : out'[Count("packet", i)] = Converted(i)
  BY <1>1, <1>7 DEF Matches
<1>10. Len(events) = Count("event", n) /\ events \in Seq(Byte \ {2, 3})
  BY DEF Matches, ValueInv
<1> HIDE DEF code, r
<1>11. /\ Len(events') = Len(events) + 1 /\ events'[Len(events) + 1] = code
       /\ \A i \in 1 .. Len(events) : events'[i] = events[i]
  BY <1>1, <1>10
<1>12. ASSUME NEW i \in Of("event", n + 1)
       PROVE  events'[Count("event", i)] = sent[i].code
  <2>1. CASE i = n + 1
    BY <1>2, <1>8, <1>10, <1>11, <2>1 DEF r
  <2>2. CASE i \in Of("event", n)
    <3>1. Count("event", i) \in 1 .. Len(events)
      BY <1>3, <1>10, <2>2, CountedBefore
    <3>2. events[Count("event", i)] = sent[i].code
      BY <2>2 DEF Matches
    <3> QED
      BY <1>11, <3>1, <3>2
  <2> QED
    BY <1>8, <2>1, <2>2
<1>13. Len(events') = Count("event", n + 1)
  BY <1>8, <1>10, <1>11
<1>14. (\/ Starts(n + 1) = {} /\ speed = 0
        \/ \E i \in Starts(n + 1) : speed = sent[i].code /\ \A j \in Starts(n + 1) : j <= i)'
  BY <1>1, <1>2, <1>3, SpeedStep DEF Matches, r
<1> QED
  BY <1>5, <1>6, <1>9, <1>12, <1>13, <1>14 DEF Matches

LEMMA PacketMatches ==
  ASSUME NEW n, Before(n), Matches(n), ValueInv, ReadPacket
  PROVE  Matches(n + 1)'
<1> DEFINE r == sent[n + 1]
           p == [sec |-> ticks' \div ClockHz,
                 usec |-> ((ticks' % ClockHz) * Second) \div ClockHz,
                 payload |-> SubSeq(src, off + 5, off + 4 + Size)]
<1>1. /\ IsPacket /\ LegalSize /\ Has(4 + Padded)
      /\ UNCHANGED input /\ events' = events /\ speed' = speed
      /\ ticks' = ticks + Ticks /\ out' = Append(out, p)
  BY DEF ReadPacket
<1>2. r.kind = "packet" /\ Ticks = r.ticks /\ Size \in Nat
  BY <1>1, PacketRead
<1>3. n \in Nat /\ n + 1 \in 1 .. Len(sent) /\ (n + 1) - 1 = n /\ off \in Nat /\ Len(src) \in Nat
  BY NextRecord
<1>4. sent \in Seq(Record)
  BY DEF Before, InputInv
<1>5. /\ sent' = sent
      /\ TimeOf(n + 1)' = TimeOf(n + 1) /\ Starts(n + 1)' = Starts(n + 1)
      /\ \A kind, k : Of(kind, k)' = Of(kind, k) /\ Count(kind, k)' = Count(kind, k)
      /\ \A i : Converted(i)' = Converted(i)
  BY <1>1, Frozen
<1>6. ticks' = TimeOf(n + 1)
  <2>1. TimeOf(n + 1) = TimeOf(n) + r.ticks
    BY <1>3, <1>4, Times
  <2>2. ticks = TimeOf(n)
    BY DEF Matches
  <2> QED
    BY <1>1, <1>2, <2>1, <2>2
<1>7. /\ Of("event", n + 1) = Of("event", n) /\ Count("event", n + 1) = Count("event", n)
      /\ Starts(n + 1) = Starts(n)
  <2>1. r.kind # "event"
    BY <1>2
  <2>2. Of("event", n + 1) = Of("event", n) /\ Count("event", n + 1) = Count("event", n)
    BY <1>3, <2>1, Counts
  <2> QED
    BY <2>2 DEF Starts
<1>8. /\ Of("packet", n + 1) = Of("packet", n) \cup {n + 1}
      /\ Count("packet", n + 1) = Count("packet", n) + 1
      /\ Count("packet", n) \in Nat
  BY <1>2, <1>3, Counts
<1>9. /\ Len(events') = Count("event", n + 1)
      /\ \A i \in Of("event", n + 1) : events'[Count("event", i)] = sent[i].code
  BY <1>1, <1>7 DEF Matches
<1>10. Len(out) = Count("packet", n) /\ out \in Seq(Output)
  BY DEF Matches, ValueInv
<1>11. Has(4 + Size)
  <2>1. \A x \in Nat : x + (x % 2) >= x /\ x + (x % 2) \in Nat
    OBVIOUS
  <2>2. Padded >= Size /\ Padded \in Nat
    BY <1>2, <2>1, Zenon DEF Padded
  <2>3. off + (4 + Padded) <= Len(src)
    BY <1>1 DEF Has
  <2>4. off + (4 + Size) <= Len(src)
    BY <1>2, <1>3, <2>2, <2>3
  <2> QED
    BY <2>4 DEF Has
<1>12. p = Converted(n + 1)
  <2>1. SubSeq(src, off + 5, off + 4 + Size) = Payload(r)
    BY <1>1, <1>11, PayloadRead
  <2> QED
    BY <1>6, <2>1 DEF Converted
<1> HIDE DEF p, r
<1>13. /\ Len(out') = Len(out) + 1 /\ out'[Len(out) + 1] = p
       /\ \A i \in 1 .. Len(out) : out'[i] = out[i]
  BY <1>1, <1>10
<1>14. ASSUME NEW i \in Of("packet", n + 1)
       PROVE  out'[Count("packet", i)] = Converted(i)
  <2>1. CASE i = n + 1
    BY <1>8, <1>10, <1>12, <1>13, <2>1
  <2>2. CASE i \in Of("packet", n)
    <3>1. Count("packet", i) \in 1 .. Len(out)
      BY <1>3, <1>10, <2>2, CountedBefore
    <3>2. out[Count("packet", i)] = Converted(i)
      BY <2>2 DEF Matches
    <3> QED
      BY <1>13, <3>1, <3>2
  <2> QED
    BY <1>8, <2>1, <2>2
<1>15. Len(out') = Count("packet", n + 1)
  BY <1>8, <1>10, <1>13
<1>16. (\/ Starts(n + 1) = {} /\ speed = 0
        \/ \E i \in Starts(n + 1) : speed = sent[i].code /\ \A j \in Starts(n + 1) : j <= i)'
  BY <1>1, <1>5, <1>7 DEF Matches
<1> QED
  BY <1>5, <1>6, <1>9, <1>14, <1>15, <1>16 DEF Matches

LEMMA TimeStamps ==
  ASSUME NEW t \in Nat
  PROVE  /\ t \div ClockHz \in Nat
         /\ ((t % ClockHz) * Second) \div ClockHz \in 0 .. Second - 1
<1> DEFINE a == t % ClockHz
           q == (a * Second) \div ClockHz
<1>1. ClockHz \in Nat \ {0} /\ Second \in Nat \ {0}
  BY ClockAssumption
<1>2. a \in Nat /\ a < ClockHz /\ t \div ClockHz \in Nat
  BY <1>1
<1> HIDE DEF a
<1>3. a * Second \in Nat
  BY <1>1, <1>2
<1>4. q \in Nat /\ ClockHz * q <= a * Second
  BY <1>1, <1>3
<1> HIDE DEF q
<1>5. a * Second < ClockHz * Second
  BY <1>1, <1>2
<1>6. q < Second
  <2>1. SUFFICES ASSUME q >= Second PROVE FALSE
    BY <1>1, <1>4
  <2>2. ClockHz * q >= ClockHz * Second
    BY <1>1, <1>4, <2>1
  <2>3. ClockHz * q \in Nat /\ ClockHz * Second \in Nat
    BY <1>1, <1>4
  <2> QED
    BY <1>3, <1>4, <1>5, <2>2, <2>3
<1> QED
  BY <1>1, <1>2, <1>4, <1>6 DEF q, a

LEMMA ProgressOfEvent ==
  ASSUME NEW n, Progress(n), InputInv, Accounts, ValueInv, ReadEvent
  PROVE  Progress(n + 1)' /\ ValueInv' /\ n + 1 \in 0 .. Len(sent)
<1> DEFINE code == src[off + 2]
<1>1. /\ Reading /\ IsEvent /\ code \notin {2, 3} /\ UNCHANGED input
      /\ off' = off + 4 /\ status' = status /\ counted' = counted /\ out' = out
      /\ ticks' = ticks + Ticks /\ events' = Append(events, code)
      /\ speed' = IF code \in 4 .. 7 THEN code ELSE speed
  BY DEF ReadEvent
<1>2. Before(n)
  BY <1>1, ReadingIsBefore
<1>3. /\ sent[n + 1].kind = "event" /\ code = sent[n + 1].code /\ code \in Byte
      /\ Ticks \in Nat /\ Start(sent, n + 1) = off + 4
  BY <1>1, <1>2, EventRead
<1>4. n \in Nat /\ n + 1 \in 1 .. Len(sent) /\ (n + 1) - 1 = n /\ off \in Nat /\ Len(src) \in Nat
  BY <1>2, NextRecord
<1> HIDE DEF code
<1>5. /\ sent' = sent /\ src' = src /\ Start(sent, n + 1)' = Start(sent, n + 1)
      /\ PcapBytes(n + 1)' = PcapBytes(n + 1)
  BY <1>1, Frozen
<1>6. Matches(n + 1)'
  BY <1>2, EventMatches DEF Progress
<1>7. \A i \in 1 .. n + 1 : Sound(sent[i])
  <2>1. Sound(sent[n + 1])
    BY <1>1, <1>3 DEF Sound
  <2>2. \A i \in 1 .. n + 1 : i = n + 1 \/ i \in 1 .. n
    BY <1>4
  <2> QED
    BY <2>1, <2>2 DEF Progress
<1>8. off + 4 <= Len(src)
  BY <1>1 DEF IsEvent, Has
<1>9. counted = PcapBytes(n + 1) /\ Len(src) <= MaxConversionBytes /\ status \notin Unopened
  <2>1. status \notin Unopened
    BY <1>1 DEF Reading, Unopened
  <2>2. counted = PcapBytes(n) /\ Len(src) <= MaxConversionBytes
    BY <2>1 DEF Progress
  <2>3. PcapBytes(n + 1) = PcapBytes(n)
    BY <1>3, <1>4, Sizes DEF InputInv
  <2> QED
    BY <2>1, <2>2, <2>3
<1>10. n + 1 \in 0 .. Len(sent)
  BY <1>4
<1>11. Progress(n + 1)'
  BY <1>1, <1>3, <1>5, <1>6, <1>7, <1>8, <1>9, <1>10 DEF Progress
<1>12. ValueInv'
  <2>1. ticks' \in Nat
    BY <1>1, <1>3 DEF ValueInv
  <2>2. events' \in Seq(Byte \ {2, 3})
    BY <1>1, <1>3 DEF ValueInv
  <2>3. speed' \in {0, 4, 5, 6, 7}
    BY <1>1 DEF ValueInv
  <2> QED
    BY <1>1, <2>1, <2>2, <2>3 DEF ValueInv
<1> QED
  BY <1>10, <1>11, <1>12

LEMMA ProgressOfPacket ==
  ASSUME NEW n, Progress(n), InputInv, Accounts, ValueInv, ReadPacket
  PROVE  Progress(n + 1)' /\ ValueInv' /\ n + 1 \in 0 .. Len(sent)
<1> DEFINE p == [sec |-> ticks' \div ClockHz,
                 usec |-> ((ticks' % ClockHz) * Second) \div ClockHz,
                 payload |-> SubSeq(src, off + 5, off + 4 + Size)]
<1>1. /\ Reading /\ IsPacket /\ LegalSize /\ Has(4 + Padded) /\ ValidPid(src[off + 5])
      /\ UNCHANGED input /\ status' = status /\ events' = events /\ speed' = speed
      /\ off' = off + 4 + Padded /\ counted' = counted + PacketHeaderBytes + Size
      /\ ticks' = ticks + Ticks /\ out' = Append(out, p)
  BY DEF ReadPacket
<1>2. Before(n)
  BY <1>1, ReadingIsBefore
<1>3. /\ sent[n + 1].kind = "packet" /\ Size = sent[n + 1].size /\ Size \in Nat
      /\ Ticks \in Nat /\ Start(sent, n + 1) = off + 4 + Padded
  BY <1>1, <1>2, PacketRead
<1>4. n \in Nat /\ n + 1 \in 1 .. Len(sent) /\ (n + 1) - 1 = n /\ off \in Nat /\ Len(src) \in Nat
  BY <1>2, NextRecord
<1>5. /\ sent' = sent /\ src' = src /\ Start(sent, n + 1)' = Start(sent, n + 1)
      /\ PcapBytes(n + 1)' = PcapBytes(n + 1)
  BY <1>1, Frozen
<1>6. Matches(n + 1)'
  BY <1>2, PacketMatches DEF Progress
<1>7. Padded \in Nat /\ Padded >= Size
  <2>1. \A x \in Nat : x + (x % 2) >= x /\ x + (x % 2) \in Nat
    OBVIOUS
  <2> QED
    BY <1>3, <2>1, Zenon DEF Padded
<1>8. off + 4 + Padded <= Len(src) /\ Has(4 + Size)
  <2>1. off + (4 + Padded) <= Len(src)
    BY <1>1 DEF Has
  <2>2. off + (4 + Size) <= Len(src) /\ off + 4 + Padded <= Len(src)
    BY <1>3, <1>4, <1>7, <2>1
  <2> QED
    BY <2>2 DEF Has
<1>9. /\ src[off + 5] = sent[n + 1].pid
      /\ SubSeq(src, off + 5, off + 4 + Size) \in Seq(Byte)
      /\ Len(SubSeq(src, off + 5, off + 4 + Size)) = Size
  BY <1>1, <1>2, <1>8, PayloadRead
<1>10. \A i \in 1 .. n + 1 : Sound(sent[i])
  <2>1. Sound(sent[n + 1])
    <3>1. "packet" # "event"
      OBVIOUS
    <3> QED
      BY <1>1, <1>3, <1>9, <3>1 DEF Sound, LegalSize
  <2>2. \A i \in 1 .. n + 1 : i = n + 1 \/ i \in 1 .. n
    BY <1>4
  <2> QED
    BY <2>1, <2>2 DEF Progress
<1>11. /\ counted + PacketHeaderBytes + Size = PcapBytes(n + 1)
       /\ Len(src) <= MaxConversionBytes /\ status \notin Unopened
  <2>1. status \notin Unopened
    BY <1>1 DEF Reading, Unopened
  <2>2. counted = PcapBytes(n) /\ Len(src) <= MaxConversionBytes
    BY <2>1 DEF Progress
  <2>3. PcapBytes(n + 1) = PcapBytes(n) + PacketHeaderBytes + sent[n + 1].size
    BY <1>3, <1>4, Sizes DEF InputInv
  <2> QED
    BY <1>3, <2>1, <2>2, <2>3
<1>12. n + 1 \in 0 .. Len(sent)
  BY <1>4
<1>13. ticks' \in Nat
  BY <1>1, <1>3 DEF ValueInv
<1>14. p \in Output
  <2>1. Size \in 1 .. MaxPacketBytes
    BY <1>1 DEF LegalSize
  <2>2. /\ ticks' \div ClockHz \in Nat
        /\ ((ticks' % ClockHz) * Second) \div ClockHz \in 0 .. Second - 1
    BY <1>13, TimeStamps
  <2> QED
    BY <1>9, <2>1, <2>2 DEF Output
<1> HIDE DEF p
<1>15. Progress(n + 1)'
  BY <1>1, <1>3, <1>5, <1>6, <1>8, <1>10, <1>11, <1>12 DEF Progress
<1>16. ValueInv'
  <2>1. out' \in Seq(Output)
    BY <1>1, <1>14 DEF ValueInv
  <2>2. Output' = Output
    BY DEF Output
  <2> QED
    BY <1>1, <1>13, <2>1 DEF ValueInv
<1> QED
  BY <1>12, <1>15, <1>16

-----------------------------------------------------------------------------
(* A recording is refused.                                                 *)

LEMMA RefusalIsDue ==
  ASSUME NEW n, Progress(n), InputInv, Accounts,
         Truncated \/ AbnormalStop \/ BadLength \/ BadPid \/ OutputLimit
  PROVE  ~Convertible
<1>1. Reading
  BY DEF Truncated, AbnormalStop, BadLength, BadPid, OutputLimit
<1>2. Before(n)
  BY <1>1, ReadingIsBefore
<1> SUFFICES ASSUME Convertible PROVE FALSE
  OBVIOUS
<1>3. PICK k \in Whole : (\A i \in 1 .. k : Sound(sent[i])) /\ PcapBytes(k) <= MaxPcapBytes
  BY DEF Convertible
<1>4. k \in 0 .. Len(sent) /\ n + 1 \in 1 .. k /\ Start(sent, n + 1) <= Len(src)
  BY <1>2, <1>3, WholeBeyond
<1>5. Sound(sent[n + 1])
  BY <1>3, <1>4
<1>6. /\ n \in Nat /\ n + 1 \in 1 .. Len(sent) /\ sent[n + 1] \in Record
      /\ (n + 1) - 1 = n /\ off \in Nat /\ Len(src) \in Nat
      /\ Start(sent, n + 1) = off + Len(Encoded(sent[n + 1]))
  BY <1>2, NextRecord
<1>7. Has(4)
  <2>1. Len(Encoded(sent[n + 1])) \in Nat /\ Len(Encoded(sent[n + 1])) >= 4
    BY <1>6, EncodedBytes
  <2>2. off + 4 <= Len(src)
    BY <1>4, <1>6, <2>1
  <2> QED
    BY <2>2 DEF Has
<1>8. IsPacket => /\ sent[n + 1].kind = "packet" /\ Size = sent[n + 1].size
                  /\ Has(4 + Padded) /\ Has(4 + Size) /\ LegalSize
                  /\ ValidPid(sent[n + 1].pid) /\ Size \in Nat
  <2> SUFFICES ASSUME IsPacket
               PROVE  /\ sent[n + 1].kind = "packet" /\ Size = sent[n + 1].size
                      /\ Has(4 + Padded) /\ Has(4 + Size) /\ LegalSize
                      /\ ValidPid(sent[n + 1].pid) /\ Size \in Nat
    OBVIOUS
  <2>1. /\ sent[n + 1].kind = "packet" /\ Size = sent[n + 1].size /\ Size \in Nat
        /\ Start(sent, n + 1) = off + 4 + Padded
    BY <1>2, PacketRead
  <2>2. Padded \in Nat /\ Padded >= Size
    <3>1. \A x \in Nat : x + (x % 2) >= x /\ x + (x % 2) \in Nat
      OBVIOUS
    <3> QED
      BY <2>1, <3>1, Zenon DEF Padded
  <2>3. off + (4 + Padded) <= Len(src) /\ off + (4 + Size) <= Len(src)
    BY <1>4, <1>6, <2>1, <2>2
  <2>4. "packet" # "event"
    OBVIOUS
  <2>5. LegalSize /\ ValidPid(sent[n + 1].pid)
    BY <1>5, <2>1, <2>4 DEF Sound, LegalSize
  <2> QED
    BY <2>1, <2>3, <2>5 DEF Has
<1>9. ~Truncated /\ ~BadLength
  BY <1>7, <1>8 DEF Truncated, BadLength
<1>10. ~AbnormalStop
  <2>1. IsEvent => src[off + 2] \notin {2, 3}
    BY <1>2, <1>5, EventRead DEF Sound
  <2> QED
    BY <2>1 DEF AbnormalStop
<1>11. ~BadPid
  <2>1. IsPacket => src[off + 5] = sent[n + 1].pid
    BY <1>2, <1>8, PayloadRead
  <2> QED
    BY <1>8, <2>1 DEF BadPid
<1>12. ~OutputLimit
  <2> SUFFICES ASSUME IsPacket PROVE ~(counted + PacketHeaderBytes + Size > MaxPcapBytes)
    BY DEF OutputLimit
  <2>1. counted = PcapBytes(n)
    <3>1. status \notin Unopened
      BY <1>1 DEF Reading, Unopened
    <3> QED
      BY <3>1 DEF Progress
  <2>2. sent \in Seq(Record) /\ n + 1 \in 0 .. Len(sent) /\ n + 1 <= k
    BY <1>4, <1>6 DEF InputInv
  <2>3. PcapBytes(n + 1) = counted + PacketHeaderBytes + Size
    BY <1>6, <1>8, <2>1, <2>2, Sizes
  <2>4. PcapBytes(n + 1) <= PcapBytes(k) /\ PcapBytes(n + 1) \in Nat /\ PcapBytes(k) \in Nat
    BY <1>4, <2>2, Sizes
  <2>5. MaxPcapBytes \in Nat
    BY LimitAssumption
  <2> QED
    BY <1>3, <2>3, <2>4, <2>5
<1> QED
  BY <1>9, <1>10, <1>11, <1>12

-----------------------------------------------------------------------------
(* The invariant holds.                                                    *)

LEMMA InitDecoder == Init => DecoderInv
<1> SUFFICES ASSUME Init PROVE DecoderInv
  OBVIOUS
<1>1. /\ sent \in SeqOf(Record, MaxRecords)
      /\ \E cut \in 0 .. Len(Encode(sent)) : src = SubSeq(Encode(sent), 1, cut)
      /\ status = "opening" /\ off = 0 /\ pos = 0 /\ ticks = 0
      /\ counted = 0 /\ written = 0 /\ out = <<>> /\ events = <<>> /\ speed = 0
  BY DEF Init
<1>2. sent \in Seq(Record)
  <2>1. SeqOf(Record, MaxRecords) \subseteq Seq(Record)
    BY DEF SeqOf
  <2> QED
    BY <1>1, <2>1
<1>3. InputInv
  BY <1>1, <1>2 DEF InputInv
<1>4. Accounts
  BY <1>1, LimitAssumption DEF Accounts
<1>5. ValueInv
  BY <1>1 DEF ValueInv
<1>6. Settled
  BY <1>1 DEF Settled, Refusal
<1>7. Matches(0)
  <2>1. TimeOf(0) = 0
    BY <1>2, Times
  <2>2. /\ Of("packet", 0) = {} /\ Count("packet", 0) = 0
        /\ Of("event", 0) = {} /\ Count("event", 0) = 0
    BY NoneCounted
  <2>3. Starts(0) = {}
    BY <2>2 DEF Starts
  <2> QED
    BY <1>1, <2>1, <2>2, <2>3 DEF Matches
<1>8. Progress(0) /\ 0 \in 0 .. Len(sent)
  <2>1. Start(sent, 0) = 0 /\ Len(src) \in Nat /\ Len(sent) \in Nat
    BY <1>2, <1>3, Layout, FileBytes
  <2> QED
    BY <1>1, <1>7, <2>1 DEF Progress, Unopened
<1> QED
  BY <1>3, <1>4, <1>5, <1>6, <1>8 DEF DecoderInv

\* A step that reads nothing keeps what was read.
LEMMA ProgressKept ==
  ASSUME NEW n, Progress(n), UNCHANGED <<input, off, pos, ticks, out, events, speed>>,
         IF status' \in Unopened
         THEN n = 0 /\ counted' = 0
         ELSE counted' = PcapBytes(n) /\ Len(src) <= MaxConversionBytes
  PROVE  Progress(n)'
<1>1. /\ sent' = sent /\ src' = src /\ off' = off /\ ticks' = ticks /\ out' = out
      /\ events' = events /\ speed' = speed
  BY DEF input
<1>2. /\ TimeOf(n)' = TimeOf(n) /\ PcapBytes(n)' = PcapBytes(n)
      /\ Starts(n)' = Starts(n) /\ Start(sent, n)' = Start(sent, n)
      /\ \A kind, k : Of(kind, k)' = Of(kind, k) /\ Count(kind, k)' = Count(kind, k)
      /\ \A i : Converted(i)' = Converted(i)
  BY Frozen
<1>3. Matches(n)'
  <2>1. Matches(n)
    BY DEF Progress
  <2> QED
    BY <1>1, <1>2, <2>1 DEF Matches
<1> QED
  BY <1>1, <1>2, <1>3 DEF Progress

LEMMA NextDecoder == DecoderInv /\ [Next]_vars => DecoderInv'
<1> SUFFICES ASSUME DecoderInv, [Next]_vars PROVE DecoderInv'
  OBVIOUS
<1>1. Accounts /\ InputInv /\ ValueInv /\ Settled
  BY DEF DecoderInv
<1>2. PICK n \in 0 .. Len(sent) : Progress(n)
  BY DEF DecoderInv
<1>3. Accounts'
  BY <1>1, NextAccounts
<1>4. CASE UNCHANGED vars
  <2>1. UNCHANGED <<input, off, pos, ticks, out, events, speed>> /\ status' = status /\ counted' = counted
    BY <1>4 DEF vars, result
  <2>2. sent' = sent /\ Convertible' = Convertible /\ src' = src /\ InputInv'
    BY <1>1, <2>1, Frozen
  <2>3. Progress(n)'
    <3>1. IF status' \in Unopened
          THEN n = 0 /\ counted' = 0
          ELSE counted' = PcapBytes(n) /\ Len(src) <= MaxConversionBytes
      BY <1>2, <2>1 DEF Progress
    <3> QED
      BY <1>2, <2>1, <3>1, ProgressKept
  <2>4. ValueInv' /\ Settled'
    BY <1>1, <2>1, <2>2 DEF ValueInv, Settled
  <2> QED
    BY <1>2, <1>3, <2>2, <2>3, <2>4 DEF DecoderInv
<1>5. CASE ReadEvent
  <2>1. Progress(n + 1)' /\ ValueInv' /\ n + 1 \in 0 .. Len(sent)
    BY <1>1, <1>2, <1>5, ProgressOfEvent
  <2>2. UNCHANGED input /\ status' = "reading"
    BY <1>5 DEF ReadEvent, Reading
  <2>3. sent' = sent /\ InputInv'
    BY <1>1, <2>2, Frozen
  <2>4. Settled'
    BY <2>2 DEF Settled, Refusal
  <2> QED
    BY <1>3, <2>1, <2>3, <2>4 DEF DecoderInv
<1>6. CASE ReadPacket
  <2>1. Progress(n + 1)' /\ ValueInv' /\ n + 1 \in 0 .. Len(sent)
    BY <1>1, <1>2, <1>6, ProgressOfPacket
  <2>2. UNCHANGED input /\ status' = "reading"
    BY <1>6 DEF ReadPacket, Reading
  <2>3. sent' = sent /\ InputInv'
    BY <1>1, <2>2, Frozen
  <2>4. Settled'
    BY <2>2 DEF Settled, Refusal
  <2> QED
    BY <1>3, <2>1, <2>3, <2>4 DEF DecoderInv
<1>7. CASE Open
  <2>1. /\ UNCHANGED <<input, off, pos, ticks, out, events, speed>> /\ status = "opening"
        /\ \/ Len(src) > MaxConversionBytes /\ status' = "too_large" /\ counted' = counted
           \/ /\ ~(Len(src) > MaxConversionBytes)
              /\ status' = "reading" /\ counted' = GlobalHeaderBytes
    BY <1>7 DEF Open
  <2>2. sent' = sent /\ src' = src /\ Convertible' = Convertible /\ InputInv'
    BY <1>1, <2>1, Frozen
  <2>3. n = 0 /\ counted = 0
    BY <1>2, <2>1 DEF Progress, Unopened
  <2>4. PcapBytes(0) = GlobalHeaderBytes
    BY <1>1, Sizes DEF InputInv
  <2>5. Len(src) \in Nat /\ MaxConversionBytes \in Nat
    BY <1>1, FileBytes, LimitAssumption
  <2>6. Progress(n)'
    <3>1. IF status' \in Unopened
          THEN n = 0 /\ counted' = 0
          ELSE counted' = PcapBytes(n) /\ Len(src) <= MaxConversionBytes
      BY <2>1, <2>3, <2>4, <2>5 DEF Unopened
    <3> QED
      BY <1>2, <2>1, <3>1, ProgressKept
  <2>7. ValueInv'
    BY <1>1, <2>1 DEF ValueInv, Refusal
  <2>8. Settled'
    <3>1. CASE Len(src) > MaxConversionBytes /\ status' = "too_large"
      <4>1. ~Convertible
        BY <2>5, <3>1 DEF Convertible
      <4> QED
        BY <2>2, <3>1, <4>1 DEF Settled
    <3>2. CASE status' = "reading"
      BY <3>2 DEF Settled, Refusal
    <3> QED
      BY <2>1, <3>1, <3>2
  <2> QED
    BY <1>2, <1>3, <2>2, <2>6, <2>7, <2>8 DEF DecoderInv
<1>8. CASE Finish
  <2>1. /\ UNCHANGED <<input, off, pos, ticks, out, events, speed>> /\ counted' = counted
        /\ status = "reading" /\ pos >= Len(src) /\ status' = "done"
    BY <1>8 DEF Finish, result
  <2>2. sent' = sent /\ src' = src /\ InputInv'
    BY <1>1, <2>1, Frozen
  <2>3. Progress(n)'
    <3>1. counted' = PcapBytes(n) /\ Len(src) <= MaxConversionBytes /\ status' \notin Unopened
      BY <1>2, <2>1 DEF Progress, Unopened
    <3> QED
      BY <1>2, <2>1, <3>1, ProgressKept
  <2>4. ValueInv'
    BY <1>1, <2>1 DEF ValueInv
  <2>5. Settled'
    <3>1. off \in Nat /\ Len(src) \in Nat /\ off <= Len(src)
      BY <1>1, <1>2, FileBytes, Layout DEF Progress, InputInv
    <3>2. off' = Len(src)
      BY <1>1, <2>1, <3>1 DEF Accounts
    <3> QED
      BY <2>1, <2>2, <3>2 DEF Settled, Refusal
  <2> QED
    BY <1>2, <1>3, <2>2, <2>3, <2>4, <2>5 DEF DecoderInv
<1>9. CASE Truncated \/ AbnormalStop \/ BadLength \/ BadPid \/ OutputLimit
  <2>1. /\ UNCHANGED <<input, off, pos, ticks, out, events, speed>> /\ counted' = counted
        /\ status = "reading" /\ status' \in Refusal \ {"too_large"}
    BY <1>9 DEF Truncated, AbnormalStop, BadLength, BadPid, OutputLimit, Refuse, result,
       Reading, Refusal
  <2>2. sent' = sent /\ src' = src /\ Convertible' = Convertible /\ InputInv'
    BY <1>1, <2>1, Frozen
  <2>3. Progress(n)'
    <3>1. counted' = PcapBytes(n) /\ Len(src) <= MaxConversionBytes /\ status' \notin Unopened
      BY <1>2, <2>1 DEF Progress, Unopened, Refusal
    <3> QED
      BY <1>2, <2>1, <3>1, ProgressKept
  <2>4. ValueInv'
    BY <1>1, <2>1 DEF ValueInv
  <2>5. ~Convertible
    BY <1>1, <1>2, <1>9, RefusalIsDue
  <2>6. Settled'
    BY <2>1, <2>2, <2>5 DEF Settled, Refusal
  <2> QED
    BY <1>2, <1>3, <2>2, <2>3, <2>4, <2>6 DEF DecoderInv
<1> QED
  BY <1>4, <1>5, <1>6, <1>7, <1>8, <1>9 DEF Next

(* After every step the decoder has consumed whole records, all of them    *)
(* sound, and has converted exactly those; it is done only at the end of   *)
(* the file, and has refused only what is not convertible                  *)
(* (decoder.py:69-127).                                                    *)
THEOREM DecoderInvariant == Spec => []DecoderInv
BY InitDecoder, NextDecoder, PTL DEF Spec

(* The counters are numbers, the microseconds of a packet stay below a     *)
(* second, its payload has at most MAX_PACKET_BYTES and is not empty, and  *)
(* no abnormal stop is counted (decoder.py:87-117).                        *)
THEOREM TypeCorrect == Spec => []TypeOK
<1>1. DecoderInv => TypeOK
  <2> SUFFICES ASSUME DecoderInv PROVE TypeOK
    OBVIOUS
  <2>1. sent \in Seq(Record) /\ src \in Seq(Byte)
    BY FileBytes DEF DecoderInv
  <2>2. off \in Nat /\ off = pos /\ counted = written /\ written \in Nat
    BY <2>1, Layout DEF DecoderInv, Progress, Accounts
  <2>3. \A i \in DOMAIN out : out[i] \in Output
    BY DEF DecoderInv, ValueInv
  <2>4. \A i \in DOMAIN out :
          /\ out[i].sec \in Nat
          /\ out[i].usec \in 0 .. Second - 1
          /\ Len(out[i].payload) \in 1 .. MaxPacketBytes
    BY <2>3 DEF Output
  <2> QED
    BY <2>1, <2>2, <2>4 DEF DecoderInv, ValueInv, TypeOK
<1> QED
  BY <1>1, DecoderInvariant, PTL

(* A conversion that succeeds holds every packet of the recording, in      *)
(* order, with its payload and the time that all the records up to it add  *)
(* up to, and the events, the speed and the consumed bytes are those of    *)
(* the recording (decoder.py:87-117).                                      *)
THEOREM ConversionIsExact == Spec => []RoundTrip
<1>1. DecoderInv => RoundTrip
  <2> SUFFICES ASSUME DecoderInv, status = "done"
               PROVE  pos = Len(src) /\ \E n \in Whole : Matches(n)
    BY DEF RoundTrip
  <2>1. PICK n \in 0 .. Len(sent) : Progress(n)
    BY DEF DecoderInv
  <2>2. off = Len(src) /\ off = pos
    BY DEF DecoderInv, Settled, Accounts
  <2>3. n \in Whole /\ Matches(n)
    BY <2>1, <2>2 DEF Progress, Whole, Start, Prefix
  <2> QED
    BY <2>2, <2>3
<1> QED
  BY <1>1, DecoderInvariant, PTL

(* A recording is converted exactly if it is within the limits, ends where *)
(* a record ends and is sound: nothing is refused without a flaw, and no   *)
(* flaw is converted around (decoder.py:70, 87-113).                       *)
THEOREM VerdictIsRight == Spec => []Verdict
<1>1. DecoderInv => Verdict
  <2> SUFFICES ASSUME DecoderInv, status \notin {"opening", "reading"}
               PROVE  status = "done" <=> Convertible
    BY DEF Verdict
  <2>1. PICK n \in 0 .. Len(sent) : Progress(n)
    BY DEF DecoderInv
  <2>2. status = "done" \/ status \in Refusal
    BY DEF DecoderInv, ValueInv
  <2>3. ASSUME status = "done" PROVE Convertible
    <3>1. off = Len(src) /\ counted <= MaxPcapBytes
      BY <2>3 DEF DecoderInv, Settled, Accounts
    <3>2. counted = PcapBytes(n) /\ Len(src) <= MaxConversionBytes
      BY <2>1, <2>3 DEF Progress, Unopened
    <3>3. n \in Whole /\ \A i \in 1 .. n : Sound(sent[i])
      BY <2>1, <3>1 DEF Progress, Whole, Start, Prefix
    <3> QED
      BY <3>1, <3>2, <3>3 DEF Convertible
  <2>4. ASSUME status \in Refusal PROVE ~Convertible
    BY <2>4 DEF DecoderInv, Settled
  <2>5. "done" \notin Refusal
    BY DEF Refusal
  <2> QED
    BY <2>2, <2>3, <2>4, <2>5
<1> QED
  BY <1>1, DecoderInvariant, PTL

=============================================================================
