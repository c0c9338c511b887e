---------------------------- MODULE TsharkProofs -----------------------------
(***************************************************************************)
(* Proofs about Tshark, for every timeout, limit and size of the pipe and  *)
(* every set of JSON values: the types, that no process survives a call    *)
(* that was given up, that an answer is complete, that a call which has    *)
(* returned kept its deadline, and that Validate is right about the JSON.  *)
(*                                                                         *)
(* That a call does return is liveness and stays with the runs.            *)
(***************************************************************************)
EXTENDS Tshark, RecursionProofs, SequenceTheorems

Reader ==
  Tick \/ ReadChunk \/ ReadEof \/ ReadTimesOut \/ WaitEnds \/ WaitTimesOut
    \/ Terminate \/ Kill \/ ValidateRecords

Program == Write \/ \E m \in Member : Exit(m) \/ Close(m)

-----------------------------------------------------------------------------
(* The invariant.                                                          *)

\* The request does not change, and the answer is read from it.
RequestInv ==
  /\ limit \in 1 .. MaxPackets /\ available \in Nat /\ width \in Nat
  /\ written \in Nat
  /\ doc \in Seq(Shape)

\* One deadline for all the reads and the wait; SIGTERM gets a grace period.
ClockInv ==
  /\ at \in {"reading", "waiting"} => wake = Timeout
  /\ at \in {"reading", "waiting", "erring", "validating"} => now <= Timeout
  /\ at = "returned" => InTime

\* A call that has been given up goes through _terminate_group.
ErrorInv ==
  /\ at \in {"reading", "waiting", "validating"} => error = "none"
  /\ at \in {"erring", "terminating"} => error \in {"timeout", "limit"}
  /\ NoSurvivor

\* An exit code 0 vouches for the output, once the pipe was read to its end.
OutputInv ==
  /\ exit = 0 => "leader" \notin alive /\ written = width * Printed
  /\ at \in {"waiting", "validating"} => output = written
  /\ at = "validating" => exit = 0
  /\ at = "returned" /\ error = "none" =>
       output = width * Printed /\ Len(doc) = Printed

IInv == TypeOK /\ RequestInv /\ ClockInv /\ ErrorInv /\ OutputInv

-----------------------------------------------------------------------------
LEMMA PrintedType ==
  ASSUME RequestInv
  PROVE  Printed \in Nat /\ Printed <= MaxPackets
                   /\ Least(limit, Printed) = Least(limit, available)
<1>1. MaxPackets \in Nat /\ limit \in Nat /\ available \in Nat /\ limit <= MaxPackets
  BY BoundAssumption DEF RequestInv
<1> QED
  BY <1>1 DEF Printed, ProbeLimit, Least

(* The program and its child end, close the pipe and write as they like.   *)
LEMMA ProgramStep == IInv /\ Program => IInv'
<1> SUFFICES ASSUME IInv, Program PROVE IInv'
  OBVIOUS
<1> USE BoundAssumption DEF request, IInv, ClockInv, ErrorInv, OutputInv, NoSurvivor,
        InTime, TypeOK, Member, Printed, ProbeLimit
<1>1. CASE Write
  <2>1. RequestInv'
    BY <1>1 DEF Write, RequestInv
  <2>2. TypeOK'
    <3>1. Printed' = Printed
      BY <1>1 DEF Write
    <3>2. PipeSize \in Nat /\ pipe' \in 0 .. PipeSize
      BY <1>1 DEF Write
    <3>3. written' = output' + pipe'
      BY <1>1, <3>2 DEF Write
    <3> QED
      BY <1>1, <3>1, <3>2, <3>3 DEF Write, group
  <2>3. ClockInv' /\ ErrorInv'
    BY <1>1 DEF Write, group
  <2>4. OutputInv'
    BY <1>1 DEF Write, group
  <2> QED
    BY <2>1, <2>2, <2>3, <2>4
<1>2. ASSUME NEW m \in Member, Exit(m) PROVE IInv'
  BY <1>2 DEF Exit, RequestInv
<1>3. ASSUME NEW m \in Member, Close(m) PROVE IInv'
  BY <1>3 DEF Close, RequestInv
<1> QED
  BY <1>1, <1>2, <1>3 DEF Program

(* The caller reads, waits and gives up.                                   *)
LEMMA ReaderStep == IInv /\ Reader => IInv'
<1> SUFFICES ASSUME IInv, Reader PROVE IInv'
  OBVIOUS
<1>0. Timeout \in Nat /\ MaxOutput \in Nat /\ PipeSize \in Nat /\ Printed \in Nat
  BY BoundAssumption, PrintedType DEF IInv
<1> USE <1>0 DEF request, group, IInv, TypeOK, Fail
<1>1. ASSUME UNCHANGED <<written, request, doc>>
      PROVE  RequestInv' /\ Printed' = Printed /\ (width * Printed)' = width * Printed
  BY <1>1 DEF RequestInv, Printed, ProbeLimit
<1> USE DEF ClockInv, ErrorInv, OutputInv, NoSurvivor, InTime
<1>2. CASE Tick
  BY <1>1, <1>2 DEF Tick
<1>3. CASE ReadChunk
  BY <1>1, <1>3 DEF ReadChunk
<1>4. CASE ReadEof
  BY <1>1, <1>4 DEF ReadEof
<1>5. CASE ReadTimesOut \/ WaitTimesOut
  BY <1>1, <1>5 DEF ReadTimesOut, WaitTimesOut
<1>6. CASE WaitEnds
  BY <1>1, <1>6 DEF WaitEnds
<1>7. CASE Terminate
  BY <1>1, <1>7 DEF Terminate
<1>8. CASE Kill
  BY <1>1, <1>8 DEF Kill
<1>9. CASE ValidateRecords
  <2>1. Printed \in Nat /\ Printed' = Printed
    BY <1>9, PrintedType DEF ValidateRecords, Printed, ProbeLimit
  <2>2. doc' \in Seq(Shape) /\ Len(doc') = Printed
    BY <1>9, <2>1 DEF ValidateRecords
  <2>3. RequestInv'
    BY <1>9, <2>2 DEF ValidateRecords, RequestInv
  <2> QED
    BY <1>9, <2>1, <2>2, <2>3 DEF ValidateRecords
<1> QED
  BY <1>2, <1>3, <1>4, <1>5, <1>6, <1>7, <1>8, <1>9 DEF Reader

LEMMA Invariance == Spec => []IInv
<1>1. Init => IInv
  <2> SUFFICES ASSUME Init PROVE IInv
    OBVIOUS
  <2>1. RequestInv
    BY BoundAssumption DEF Init, RequestInv
  <2>2. TypeOK
    BY <2>1, PrintedType, BoundAssumption DEF Init, TypeOK, Member
  <2>3. ClockInv /\ ErrorInv /\ OutputInv
    BY BoundAssumption DEF Init, ClockInv, ErrorInv, NoSurvivor, OutputInv
  <2> QED
    BY <2>1, <2>2, <2>3 DEF IInv
<1>2. IInv /\ [Next]_vars => IInv'
  <2>1. IInv /\ UNCHANGED vars => IInv'
    BY DEF vars, request, group, IInv, TypeOK, RequestInv, ClockInv, ErrorInv,
       OutputInv, NoSurvivor, InTime, Printed, ProbeLimit
  <2> QED
    BY <2>1, ProgramStep, ReaderStep DEF Next, Program, Reader
<1> QED
  BY <1>1, <1>2, PTL DEF Spec

(* The output and the pipe keep within their limits, the clock within the  *)
(* timeout and a grace period, and nobody writes who has ended             *)
(* (tshark.py:142-185).                                                    *)
THEOREM TypeCorrect == Spec => []TypeOK
<1>1. IInv => TypeOK
  BY DEF IInv
<1> QED
  BY Invariance, <1>1, PTL

(* A tshark that took too long or wrote too much leaves no process behind: *)
(* the error is raised after the whole group was killed, whoever of it has *)
(* ended before (tshark.py:122-139, 179-180).                              *)
THEOREM NobodySurvives == Spec => []NoSurvivor
<1>1. IInv => NoSurvivor
  BY DEF IInv, ErrorInv
<1> QED
  BY Invariance, <1>1, PTL

(* A call that has returned kept its deadline: one for all the reads and   *)
(* the wait together, with one grace period on top (tshark.py:144-180).    *)
THEOREM ReturnsInTime == Spec => [](at = "returned" => InTime)
<1>1. IInv => (at = "returned" => InTime)
  BY DEF IInv, ClockInv
<1> QED
  BY Invariance, <1>1, PTL

(* An answer is all that tshark printed, and has every packet of the       *)
(* capture unless it is marked as truncated (tshark.py:270-276).           *)
THEOREM AnswersAreComplete == Spec => []AnswerIsComplete
<1>1. IInv => AnswerIsComplete
  <2> SUFFICES ASSUME IInv, at = "returned", error = "none"
               PROVE  /\ output = width * Printed
                      /\ Len(Returned) = Least(limit, available)
                      /\ ~Truncated => available <= limit
                      /\ Truncated => available > limit
                                       \/ (limit = MaxPackets /\ available = limit)
    BY DEF AnswerIsComplete
  <2>1. output = width * Printed /\ Len(doc) = Printed /\ doc \in Seq(Shape)
    BY DEF IInv, OutputInv, RequestInv
  <2>2. RequestInv /\ Printed \in Nat /\ Least(limit, Printed) = Least(limit, available)
    BY PrintedType DEF IInv
  <2>3. Len(Returned) = Least(limit, available)
    <3>1. Least(limit, Len(doc)) \in 0 .. Len(doc)
      BY <2>1, <2>2 DEF Least, RequestInv
    <3> QED
      BY <2>1, <2>2, <3>1, SubSeqProperties DEF Returned
  <2>4. /\ ~Truncated => available <= limit
        /\ Truncated => available > limit \/ (limit = MaxPackets /\ available = limit)
    BY <2>1, <2>2, BoundAssumption DEF Truncated, Printed, ProbeLimit, Least, RequestInv
  <2> QED
    BY <2>1, <2>3, <2>4
<1> QED
  BY Invariance, <1>1, PTL

-----------------------------------------------------------------------------
(* The JSON: induction over it, and functions defined by recursion over it. *)

\* The values in a value.
Items(v) == {v.items[i] : i \in DOMAIN v.items}

LEMMA JsonType ==
  /\ Shape \subseteq Json
  /\ \A v \in Json : v.ok \in BOOLEAN /\ v.items \in Seq(Shape) /\ Items(v) \subseteq Shape
<1>1. ASSUME NEW records \in SeqOf(Shape, MaxPackets)
      PROVE  records \in Seq(Shape)
  BY BoundAssumption DEF SeqOf
<1>2. ASSUME NEW v \in Json PROVE v.ok \in BOOLEAN /\ v.items \in Seq(Shape)
  <2>1. CASE v \in Shape
    BY <2>1, ShapeAssumption
  <2>2. CASE \E records \in SeqOf(Shape, MaxPackets) : v = Value(TRUE, records)
    BY <1>1, <2>2 DEF Value
  <2> QED
    BY <2>1, <2>2 DEF Json
<1>3. ASSUME NEW v \in Json PROVE Items(v) \subseteq Shape
  BY <1>2 DEF Items
<1> QED
  BY <1>2, <1>3 DEF Json

\* A set that has a value when it has all the values in it has all of them.
LEMMA JsonInduction ==
  ASSUME NEW S, \A v \in Json : Items(v) \subseteq S => v \in S
  PROVE  Json \subseteq S
<1> DEFINE P == {n \in Nat : \A v \in Shape : Nesting[v] < n => v \in S}
<1>1. 0 \in P
  BY ShapeAssumption
<1>2. ASSUME NEW n \in Nat, n \in P PROVE n + 1 \in P
  <2> SUFFICES ASSUME NEW v \in Shape, Nesting[v] < n + 1 PROVE v \in S
    OBVIOUS
  <2>1. ASSUME NEW w \in Items(v) PROVE w \in S
    <3>1. w \in Shape /\ Nesting[w] < Nesting[v]
      BY <2>1, JsonType, ShapeAssumption DEF Items
    <3>2. Nesting[w] \in Nat /\ Nesting[v] \in Nat
      BY <3>1, ShapeAssumption
    <3> QED
      BY <1>2, <3>1, <3>2
  <2> QED
    BY <2>1, JsonType
<1> HIDE DEF P
<1>3. Nat \subseteq P
  BY <1>1, <1>2, Induction
<1>4. Shape \subseteq S
  <2> SUFFICES ASSUME NEW v \in Shape PROVE v \in S
    OBVIOUS
  <2>1. Nesting[v] \in Nat /\ Nesting[v] + 1 \in P /\ Nesting[v] < Nesting[v] + 1
    BY <1>3, ShapeAssumption
  <2> QED
    BY <2>1 DEF P
<1> QED
  BY <1>4, JsonType

\* What F has for the items of v.
Below(F, v) == [i \in DOMAIN v.items |-> F[v.items[i]]]

\* F[v] is what step makes of that.
Made(F, v, step) == F[v] = step[v][Below(F, v)]

\* It depends on the items only.
LEMMA BelowAlike ==
  ASSUME NEW F, NEW G, NEW v \in Json, \A w \in Items(v) : F[w] = G[w]
  PROVE  Below(F, v) = Below(G, v)
BY DEF Below, Items

LEMMA BelowType ==
  ASSUME NEW V, NEW F \in [Json -> V], NEW v \in Json
  PROVE  Below(F, v) \in Seq(V)
<1>1. v.items \in Seq(Shape) /\ DOMAIN v.items = 1 .. Len(v.items) /\ Len(v.items) \in Nat
  BY JsonType
<1>2. \A i \in DOMAIN v.items : F[v.items[i]] \in V
  BY JsonType DEF Items
<1>3. Below(F, v) \in [1 .. Len(v.items) -> V]
  BY <1>1, <1>2 DEF Below
<1> QED
  BY <1>1, <1>3

\* There is a function with given steps.
LEMMA JsonRecursion ==
  ASSUME NEW V, NEW base \in V, NEW step \in [Json -> [Seq(V) -> V]]
  PROVE  \E F \in [Json -> V] : \A v \in Json : Made(F, v, step)
<1> DEFINE Upto(F, n) == \A v \in Shape : Nesting[v] < n => Made(F, v, step)
           P == {n \in Nat : \E F \in [Json -> V] : Upto(F, n)}
<1>0. ASSUME NEW F \in [Json -> V], NEW v \in Json PROVE step[v][Below(F, v)] \in V
  <2>1. Below(F, v) \in Seq(V)
    BY BelowType
  <2> QED
    BY <2>1
<1>1. 0 \in P
  <2>1. [v \in Json |-> base] \in [Json -> V] /\ Upto([v \in Json |-> base], 0)
    BY ShapeAssumption
  <2> QED
    BY <2>1
<1>2. ASSUME NEW n \in Nat, n \in P PROVE n + 1 \in P
  <2>1. PICK F \in [Json -> V] : Upto(F, n)
    BY <1>2
  <2> DEFINE G == [v \in Json |-> IF v \in Shape /\ Nesting[v] = n
                                  THEN step[v][Below(F, v)] ELSE F[v]]
  <2>2. G \in [Json -> V]
    BY <1>0
  <2>3. ASSUME NEW v \in Shape, Nesting[v] < n + 1 PROVE Made(G, v, step)
    <3>1. v \in Json /\ Nesting[v] \in Nat
      BY JsonType, ShapeAssumption
    <3>2. \A w \in Items(v) : w \in Json /\ w \in Shape /\ Nesting[w] \in Nat
                               /\ Nesting[w] < Nesting[v]
      BY <3>1, JsonType, ShapeAssumption DEF Items
    <3>3. \A w \in Items(v) : G[w] = F[w]
      BY <2>3, <3>1, <3>2
    <3>4. Below(G, v) = Below(F, v)
      <4> HIDE DEF G
      <4> QED
        BY <3>1, <3>3, BelowAlike
    <3>5. CASE Nesting[v] = n
      BY <3>1, <3>4, <3>5 DEF Made
    <3>6. CASE Nesting[v] < n
      BY <2>1, <3>1, <3>4, <3>6 DEF Made
    <3> QED
      BY <2>3, <3>1, <3>5, <3>6
  <2> HIDE DEF G
  <2> QED
    BY <2>2, <2>3
<1>3. ASSUME NEW n \in Nat, NEW F, NEW G, Upto(F, n), Upto(G, n)
      PROVE  \A v \in Shape : Nesting[v] < n => F[v] = G[v]
  <2> DEFINE S == {v \in Json : v \in Shape /\ Nesting[v] < n => F[v] = G[v]}
  <2>1. ASSUME NEW v \in Json, Items(v) \subseteq S PROVE v \in S
    <3> SUFFICES ASSUME v \in Shape, Nesting[v] < n PROVE F[v] = G[v]
      OBVIOUS
    <3>1. \A w \in Items(v) : Nesting[w] < n /\ w \in Shape
      <4> SUFFICES ASSUME NEW w \in Items(v) PROVE Nesting[w] < n /\ w \in Shape
        OBVIOUS
      <4>1. w \in Shape /\ Nesting[w] < Nesting[v]
        BY JsonType, ShapeAssumption DEF Items
      <4>2. Nesting[w] \in Nat /\ Nesting[v] \in Nat
        BY <4>1, ShapeAssumption
      <4> QED
        BY <4>1, <4>2
    <3>2. \A w \in Items(v) : F[w] = G[w]
      BY <2>1, <3>1
    <3>3. Below(F, v) = Below(G, v)
      BY <3>2, BelowAlike
    <3>4. Made(F, v, step) /\ Made(G, v, step)
      BY <1>3
    <3> QED
      BY <3>3, <3>4 DEF Made
  <2> HIDE DEF S
  <2>2. Json \subseteq S
    BY <2>1, JsonInduction
  <2> QED
    BY <2>2, JsonType DEF S
<1>4. \A n \in Nat : \E F \in [Json -> V] : Upto(F, n)
  <2> HIDE DEF P
  <2>1. Nat \subseteq P
    BY <1>1, <1>2, Induction
  <2> QED
    BY <2>1 DEF P
<1> DEFINE Best(n) == CHOOSE F \in [Json -> V] : Upto(F, n)
           G == [v \in Json |-> IF v \in Shape THEN Best(Nesting[v] + 1)[v] ELSE base]
           H == [v \in Json |-> IF v \in Shape THEN G[v] ELSE step[v][Below(G, v)]]
<1>5. \A n \in Nat : Best(n) \in [Json -> V] /\ Upto(Best(n), n)
  <2> HIDE DEF Upto
  <2> QED
    BY <1>4
<1> HIDE DEF Best
<1>6. G \in [Json -> V]
  BY <1>5, ShapeAssumption
<1>7. ASSUME NEW v \in Shape PROVE Made(G, v, step)
  <2> DEFINE n == Nesting[v] + 1
             B == Best(n)
  <2>1. v \in Json /\ Nesting[v] \in Nat /\ n \in Nat /\ Nesting[v] < n
    BY JsonType, ShapeAssumption
  <2>2. B \in [Json -> V] /\ Upto(B, n)
    BY <1>5, <2>1
  <2>3. ASSUME NEW w \in Items(v) PROVE G[w] = B[w]
    <3>1. w \in Shape /\ w \in Json /\ Nesting[w] < Nesting[v]
      BY <2>1, JsonType, ShapeAssumption DEF Items
    <3>2. Nesting[w] \in Nat /\ Nesting[w] + 1 \in Nat /\ Nesting[w] < Nesting[w] + 1
          /\ \A i \in Nat : i < Nesting[w] + 1 => i < n
      BY <2>1, <3>1, ShapeAssumption
    <3>3. Upto(B, Nesting[w] + 1)
      BY <2>2, <3>2, ShapeAssumption
    <3>4. Upto(Best(Nesting[w] + 1), Nesting[w] + 1)
      BY <1>5, <3>2
    <3>5. Best(Nesting[w] + 1)[w] = B[w]
      <4> HIDE DEF Upto, B
      <4> QED
        BY <1>3, <3>1, <3>2, <3>3, <3>4
    <3> QED
      BY <3>1, <3>5
  <2>4. Below(G, v) = Below(B, v)
    <3> HIDE DEF G, B
    <3> QED
      BY <2>1, <2>3, BelowAlike
  <2>5. G[v] = B[v]
    BY <2>1
  <2>6. Made(B, v, step)
    BY <2>1, <2>2
  <2> HIDE DEF G, B
  <2> QED
    BY <2>4, <2>5, <2>6 DEF Made
<1>8. H \in [Json -> V]
  BY <1>0, <1>6
<1>9. ASSUME NEW v \in Json PROVE Made(H, v, step)
  <2>1. \A w \in Items(v) : H[w] = G[w]
    <3> HIDE DEF G
    <3> QED
      BY JsonType
  <2>2. Below(H, v) = Below(G, v)
    <3> HIDE DEF G, H
    <3> QED
      BY <2>1, BelowAlike
  <2>3. CASE v \in Shape
    <3>1. H[v] = G[v] /\ Made(G, v, step)
      <4> HIDE DEF G
      <4> QED
        BY <1>7, <2>3
    <3> HIDE DEF G, H
    <3> QED
      BY <2>2, <3>1 DEF Made
  <2>4. CASE v \notin Shape
    <3>1. H[v] = step[v][Below(G, v)]
      <4> HIDE DEF G
      <4> QED
        BY <2>4
    <3> HIDE DEF G, H
    <3> QED
      BY <2>2, <3>1 DEF Made
  <2> QED
    BY <2>3, <2>4
<1> HIDE DEF G, H
<1> QED
  BY <1>8, <1>9

\* What one value has is 1 and what fold makes of those in it.
LEMMA JsonFold ==
  ASSUME NEW fold \in [Seq(Nat) -> Nat]
  PROVE  \E F \in [Json -> Nat] : \A v \in Json : F[v] = 1 + fold[Below(F, v)]
<1> DEFINE step == [v \in Json |-> [s \in Seq(Nat) |-> 1 + fold[s]]]
<1>1. step \in [Json -> [Seq(Nat) -> Nat]]
  OBVIOUS
<1>2. PICK F \in [Json -> Nat] : \A v \in Json : Made(F, v, step)
  <2>1. \A g \in [Json -> [Seq(Nat) -> Nat]] :
          \E F \in [Json -> Nat] : \A v \in Json : Made(F, v, g)
    BY JsonRecursion
  <2> HIDE DEF step
  <2> QED
    BY <1>1, <2>1
<1>3. ASSUME NEW v \in Json PROVE F[v] = 1 + fold[Below(F, v)]
  <2>1. step[v][Below(F, v)] = 1 + fold[Below(F, v)]
    BY BelowType
  <2> HIDE DEF step
  <2> QED
    BY <1>2, <2>1 DEF Made
<1> QED
  BY <1>3

LEMMA BelowLength ==
  ASSUME NEW F, NEW v \in Json
  PROVE  Len(Below(F, v)) = Len(v.items)
<1>1. v.items \in Seq(Shape) /\ DOMAIN v.items = 1 .. Len(v.items) /\ Len(v.items) \in Nat
  BY JsonType
<1> QED
  BY <1>1 DEF Below

\* All that does so is a number.
LEMMA JsonNumbers ==
  ASSUME NEW fold \in [Seq(Nat) -> Nat], NEW F,
         \A v \in Json : Below(F, v) \in Seq(Nat) => F[v] = 1 + fold[Below(F, v)]
  PROVE  \A v \in Json : F[v] \in Nat /\ Below(F, v) \in Seq(Nat)
<1> DEFINE S == {v \in Json : F[v] \in Nat}
<1>1. ASSUME NEW v \in Json, Items(v) \subseteq S
      PROVE  Below(F, v) \in Seq(Nat)
  <2>1. v.items \in Seq(Shape) /\ DOMAIN v.items = 1 .. Len(v.items) /\ Len(v.items) \in Nat
    BY JsonType
  <2>2. \A i \in DOMAIN v.items : F[v.items[i]] \in Nat
    BY <1>1 DEF Items
  <2>3. Below(F, v) \in [1 .. Len(v.items) -> Nat]
    BY <2>1, <2>2 DEF Below
  <2>4. \A n \in Nat : [1 .. n -> Nat] \subseteq Seq(Nat)
    OBVIOUS
  <2> HIDE DEF S
  <2> QED
    BY <2>1, <2>3, <2>4
<1>2. ASSUME NEW v \in Json, Items(v) \subseteq S PROVE v \in S
  <2>1. F[v] = 1 + fold[Below(F, v)] /\ fold[Below(F, v)] \in Nat
    BY <1>1, <1>2
  <2> QED
    BY <2>1
<1> HIDE DEF S
<1>3. Json \subseteq S
  BY <1>2, JsonInduction
<1>4. ASSUME NEW v \in Json PROVE Items(v) \subseteq S
  BY <1>3, JsonType
<1> QED
  BY <1>1, <1>3, <1>4 DEF S

\* Nodes, Levels and WellFormed are what their definitions say.
LEMMA NodesOf ==
  \A v \in Json : /\ Nodes[v] \in Nat /\ Below(Nodes, v) \in Seq(Nat)
                  /\ Nodes[v] = 1 + SumTo(Below(Nodes, v), Len(v.items))
<1> DEFINE sum == [s \in Seq(Nat) |-> SumTo(s, Len(s))]
<1>1. sum \in [Seq(Nat) -> Nat]
  <2> SUFFICES ASSUME NEW s \in Seq(Nat) PROVE SumTo(s, Len(s)) \in Nat
    OBVIOUS
  <2>1. Len(s) \in Nat /\ Len(s) \in 0 .. Len(s) /\ \A i \in 1 .. Len(s) : s[i] \in Nat
    OBVIOUS
  <2> QED
    BY <2>1, SumSteps
<1>2. PICK F \in [Json -> Nat] : \A v \in Json : F[v] = 1 + sum[Below(F, v)]
  <2> HIDE DEF sum
  <2> QED
    BY <1>1, JsonFold
<1>3. ASSUME NEW v \in Json PROVE F[v] = 1 + SumTo(Below(F, v), Len(v.items))
  BY <1>2, BelowType, BelowLength
<1>4. F = [v \in Json |-> 1 + SumTo([i \in DOMAIN v.items |-> F[v.items[i]]], Len(v.items))]
  <2> HIDE DEF sum
  <2> QED
    BY <1>3 DEF Below
<1>5. Nodes = [v \in Json |->
                 1 + SumTo([i \in DOMAIN v.items |-> Nodes[v.items[i]]], Len(v.items))]
  <2> HIDE DEF sum
  <2> QED
    BY <1>4 DEF Nodes
<1>6. ASSUME NEW v \in Json PROVE Nodes[v] = 1 + SumTo(Below(Nodes, v), Len(v.items))
  BY <1>5 DEF Below
<1>7. ASSUME NEW v \in Json, Below(Nodes, v) \in Seq(Nat)
      PROVE  Nodes[v] = 1 + sum[Below(Nodes, v)]
  BY <1>6, <1>7, BelowLength
<1> HIDE DEF sum
<1>8. \A v \in Json : Nodes[v] \in Nat /\ Below(Nodes, v) \in Seq(Nat)
  BY <1>1, <1>7, JsonNumbers
<1> QED
  BY <1>6, <1>8

LEMMA LevelsOf ==
  \A v \in Json : /\ Levels[v] \in Nat /\ Below(Levels, v) \in Seq(Nat)
                  /\ Levels[v] = 1 + MaxTo(Below(Levels, v), Len(v.items))
<1> DEFINE max == [s \in Seq(Nat) |-> MaxTo(s, Len(s))]
<1>1. max \in [Seq(Nat) -> Nat]
  <2> SUFFICES ASSUME NEW s \in Seq(Nat) PROVE MaxTo(s, Len(s)) \in Nat
    OBVIOUS
  <2>1. Len(s) \in Nat /\ Len(s) \in 0 .. Len(s) /\ \A i \in 1 .. Len(s) : s[i] \in Nat
    OBVIOUS
  <2> QED
    BY <2>1, MaxSteps
<1>2. PICK F \in [Json -> Nat] : \A v \in Json : F[v] = 1 + max[Below(F, v)]
  <2> HIDE DEF max
  <2> QED
    BY <1>1, JsonFold
<1>3. ASSUME NEW v \in Json PROVE F[v] = 1 + MaxTo(Below(F, v), Len(v.items))
  BY <1>2, BelowType, BelowLength
<1>4. F = [v \in Json |-> 1 + MaxTo([i \in DOMAIN v.items |-> F[v.items[i]]], Len(v.items))]
  <2> HIDE DEF max
  <2> QED
    BY <1>3 DEF Below
<1>5. Levels = [v \in Json |->
                 1 + MaxTo([i \in DOMAIN v.items |-> Levels[v.items[i]]], Len(v.items))]
  <2> HIDE DEF max
  <2> QED
    BY <1>4 DEF Levels
<1>6. ASSUME NEW v \in Json PROVE Levels[v] = 1 + MaxTo(Below(Levels, v), Len(v.items))
  BY <1>5 DEF Below
<1>7. ASSUME NEW v \in Json, Below(Levels, v) \in Seq(Nat)
      PROVE  Levels[v] = 1 + max[Below(Levels, v)]
  BY <1>6, <1>7, BelowLength
<1> HIDE DEF max
<1>8. \A v \in Json : Levels[v] \in Nat /\ Below(Levels, v) \in Seq(Nat)
  BY <1>1, <1>7, JsonNumbers
<1> QED
  BY <1>6, <1>8

LEMMA WellFormedOf ==
  \A v \in Json : /\ WellFormed[v] \in BOOLEAN
                  /\ WellFormed[v] <=> v.ok /\ \A i \in DOMAIN v.items : WellFormed[v.items[i]]
<1> DEFINE step == [v \in Json |-> [s \in Seq(BOOLEAN) |-> v.ok /\ \A i \in DOMAIN s : s[i]]]
<1>1. step \in [Json -> [Seq(BOOLEAN) -> BOOLEAN]]
  OBVIOUS
<1>2. PICK F \in [Json -> BOOLEAN] : \A v \in Json : Made(F, v, step)
  <2>1. \A g \in [Json -> [Seq(BOOLEAN) -> BOOLEAN]] :
          \E F \in [Json -> BOOLEAN] : \A v \in Json : Made(F, v, g)
    BY JsonRecursion
  <2> HIDE DEF step
  <2> QED
    BY <1>1, <2>1
<1>3. ASSUME NEW v \in Json
      PROVE  F[v] = (v.ok /\ \A i \in DOMAIN v.items : F[v.items[i]])
  <2>1. step[v][Below(F, v)] = (v.ok /\ \A i \in DOMAIN Below(F, v) : Below(F, v)[i])
    BY BelowType
  <2>2. F[v] = step[v][Below(F, v)]
    BY <1>2 DEF Made
  <2> HIDE DEF step
  <2>3. F[v] = (v.ok /\ \A i \in DOMAIN Below(F, v) : Below(F, v)[i])
    BY <2>1, <2>2
  <2> QED
    BY <2>3, Zenon DEF Below
<1>4. F = [v \in Json |-> v.ok /\ \A i \in DOMAIN v.items : F[v.items[i]]]
  <2> HIDE DEF step
  <2> QED
    BY <1>3, Zenon
<1>5. WellFormed = [v \in Json |-> v.ok /\ \A i \in DOMAIN v.items : WellFormed[v.items[i]]]
  <2> HIDE DEF step
  <2> QED
    BY <1>4, Zenon DEF WellFormed
<1> HIDE DEF step
<1> QED
  BY <1>5

-----------------------------------------------------------------------------
(* What Validate leaves of the budget.                                     *)

Left(v, depth, budget) ==
  IF WellFormed[v] /\ Nodes[v] <= budget /\ depth + Levels[v] <= MaxDepth + 1
  THEN budget - Nodes[v]
  ELSE -1

\* f leaves that of each item.
RightBelow(f, v, d) ==
  \A i \in DOMAIN v.items : \A c \in Int :
    f[v.items[i]][d + 1][c] = Left(v.items[i], d + 1, c)

\* What is left when f is called for one item after the other.
ItemsLeft(f, v, d, b) ==
  LET left[n \in 0 .. Len(v.items)] ==
        IF n = 0 THEN b - 1
        ELSE IF left[n - 1] < 0 THEN -1
        ELSE f[v.items[n]][d + 1][left[n - 1]]
  IN  left[Len(v.items)]

LEMMA ItemsLeave ==
  ASSUME NEW v \in Json, NEW d \in Nat, NEW b \in Int, NEW f,
         v.ok, b >= 1, d <= MaxDepth, RightBelow(f, v, d)
  PROVE  ItemsLeft(f, v, d, b) = Left(v, d, b)
<1> DEFINE m == Len(v.items)
           ns == Below(Nodes, v)
           ls == Below(Levels, v)
           W(n) == \A i \in 1 .. n : WellFormed[v.items[i]]
           G(n) == IF W(n) /\ 1 + SumTo(ns, n) <= b /\ d + 1 + MaxTo(ls, n) <= MaxDepth + 1
                   THEN b - 1 - SumTo(ns, n) ELSE -1
           H == [n \in 0 .. m |-> G(n)]
           left == CHOOSE g : g = [n \in 0 .. m |->
                     IF n = 0 THEN b - 1
                     ELSE IF g[n - 1] < 0 THEN -1
                     ELSE f[v.items[n]][d + 1][g[n - 1]]]
<1>0. MaxDepth \in Nat
  BY BoundAssumption
<1>1. /\ m \in Nat /\ DOMAIN v.items = 1 .. m
      /\ \A i \in 1 .. m : v.items[i] \in Json
      /\ \A i \in 1 .. m : ns[i] = Nodes[v.items[i]] /\ ls[i] = Levels[v.items[i]]
      /\ \A i \in 1 .. m : ns[i] \in Nat /\ ls[i] \in Nat
  <2>1. v.items \in Seq(Shape) /\ m \in Nat /\ DOMAIN v.items = 1 .. m
    BY JsonType
  <2>2. \A i \in 1 .. m : v.items[i] \in Json
    BY <2>1, JsonType
  <2>3. \A i \in 1 .. m : ns[i] = Nodes[v.items[i]] /\ ls[i] = Levels[v.items[i]]
    BY <2>1 DEF Below
  <2> QED
    BY <2>1, <2>2, <2>3, NodesOf, LevelsOf
<1>2. /\ SumTo(ns, 0) = 0 /\ MaxTo(ls, 0) = 0
      /\ \A n \in 0 .. m : SumTo(ns, n) \in Nat /\ MaxTo(ls, n) \in Nat
      /\ \A n \in 1 .. m : /\ SumTo(ns, n) = SumTo(ns, n - 1) + ns[n]
                           /\ MaxTo(ls, n) = Larger(MaxTo(ls, n - 1), ls[n])
  <2> HIDE DEF ns, ls, m
  <2> QED
    BY <1>1, SumSteps, MaxSteps
<1> HIDE DEF ns, ls
<1>3. G(0) = b - 1
  BY <1>0, <1>2
<1>4. ASSUME NEW n \in 1 .. m
      PROVE  /\ G(n - 1) \in Int
             /\ G(n) = IF G(n - 1) < 0 THEN -1 ELSE f[v.items[n]][d + 1][G(n - 1)]
  <2> DEFINE w == v.items[n]
             s == SumTo(ns, n - 1)
             l == MaxTo(ls, n - 1)
  <2>1. /\ w \in Json /\ s \in Nat /\ l \in Nat /\ ns[n] = Nodes[w] /\ ls[n] = Levels[w]
        /\ ns[n] \in Nat /\ ls[n] \in Nat
        /\ SumTo(ns, n) = s + ns[n] /\ MaxTo(ls, n) = Larger(l, ls[n])
    <3>1. n - 1 \in 0 .. m
      BY <1>1
    <3> QED
      BY <1>1, <1>2, <3>1
  <2>2. W(n) <=> W(n - 1) /\ WellFormed[w]
    BY <1>1
  <2>3. G(n - 1) \in Int
    BY <2>1
  <2>4. f[w][d + 1][G(n - 1)] = Left(w, d + 1, G(n - 1))
    <3> HIDE DEF G
    <3> QED
      BY <1>1, <2>3 DEF RightBelow
  <2> HIDE DEF s, l, W, m, w
  <2>5. CASE G(n - 1) < 0
    <3>1. ~(W(n - 1) /\ 1 + s <= b /\ d + 1 + l <= MaxDepth + 1)
      BY <2>1, <2>5 DEF s, l
    <3>2. G(n) = -1
      BY <1>0, <2>1, <2>2, <3>1 DEF Larger
    <3> QED
      BY <2>3, <2>5, <3>2
  <2>6. CASE ~(G(n - 1) < 0)
    <3>1. W(n - 1) /\ 1 + s <= b /\ d + 1 + l <= MaxDepth + 1 /\ G(n - 1) = b - 1 - s
      BY <2>1, <2>6 DEF s, l
    <3>2. Left(w, d + 1, b - 1 - s) = G(n)
      BY <1>0, <2>1, <2>2, <3>1 DEF Left, Larger
    <3> HIDE DEF G
    <3> QED
      BY <2>3, <2>4, <2>6, <3>1, <3>2 DEF w
  <2> QED
    BY <2>5, <2>6
<1>5. G(m) = Left(v, d, b)
  <2>1. WellFormed[v] <=> W(m)
    BY <1>1, WellFormedOf
  <2>2. Nodes[v] = 1 + SumTo(ns, m) /\ Levels[v] = 1 + MaxTo(ls, m)
    BY NodesOf, LevelsOf DEF ns, ls
  <2>3. m \in 0 .. m
    BY <1>1
  <2> HIDE DEF W, m
  <2> QED
    BY <1>0, <1>2, <2>1, <2>2, <2>3 DEF Left
<1> HIDE DEF G
<1>6. H = [n \in 0 .. m |->
             IF n = 0 THEN b - 1
             ELSE IF H[n - 1] < 0 THEN -1
             ELSE f[v.items[n]][d + 1][H[n - 1]]]
  <2>1. \A n \in 1 .. m : n - 1 \in 0 .. m
    BY <1>1
  <2> HIDE DEF m
  <2> QED
    BY <1>1, <1>3, <1>4, <2>1
<1>7. left = [n \in 0 .. m |->
                IF n = 0 THEN b - 1
                ELSE IF left[n - 1] < 0 THEN -1
                ELSE f[v.items[n]][d + 1][left[n - 1]]]
  <2> HIDE DEF H, m
  <2> QED
    BY <1>6
<1>8. Alike(left, H, m)
  <2>1. left[0] = b - 1 /\ H[0] = b - 1
    <3> HIDE DEF left
    <3> QED
      BY <1>1, <1>3, <1>7
  <2>2. ASSUME NEW n \in 1 .. m, left[n - 1] = H[n - 1] PROVE left[n] = H[n]
    <3> HIDE DEF left, H, m
    <3>1. n \in 0 .. m /\ n # 0
      BY <1>1
    <3>2. H[n] = IF H[n - 1] < 0 THEN -1 ELSE f[v.items[n]][d + 1][H[n - 1]]
      BY <1>6, <3>1
    <3>3. left[n] = IF left[n - 1] < 0 THEN -1 ELSE f[v.items[n]][d + 1][left[n - 1]]
      BY <1>7, <3>1
    <3> QED
      BY <2>2, <3>2, <3>3
  <2> HIDE DEF left, H, m
  <2> QED
    BY <2>1, <2>2 DEF Alike
<1>9. left[m] = H[m]
  <2>1. m \in 0 .. m
    BY <1>1
  <2> HIDE DEF left, H, m
  <2> QED
    BY <1>1, <1>8, <2>1, Same
<1>10. H[m] = Left(v, d, b)
  <2>1. m \in 0 .. m
    BY <1>1
  <2> HIDE DEF m
  <2> QED
    BY <1>5, <2>1
<1>11. ItemsLeft(f, v, d, b) = left[m]
  BY DEF ItemsLeft
<1> HIDE DEF H, left
<1> QED
  BY <1>9, <1>10, <1>11

\* Validate leaves what the whole value does: the budget less its nodes, if it
\* is well formed and neither the budget nor the depth is exceeded.
LEMMA ValidateLeaves ==
  \A v \in Json, d \in Nat, b \in Int : Validate[v][d][b] = Left(v, d, b)
<1> DEFINE Body(f, v, d, b) ==
             IF b < 1 \/ d > MaxDepth \/ ~v.ok THEN -1 ELSE ItemsLeft(f, v, d, b)
           C == [v \in Json |-> [d \in Nat |-> [b \in Int |-> Left(v, d, b)]]]
<1>0. MaxDepth \in Nat
  BY BoundAssumption
<1>1. ASSUME NEW f, NEW v \in Json, NEW d \in Nat, NEW b \in Int,
             RightBelow(f, v, d)
      PROVE  Body(f, v, d, b) = Left(v, d, b)
  <2>1. CASE b >= 1 /\ d <= MaxDepth /\ v.ok
    <3>1. ItemsLeft(f, v, d, b) = Left(v, d, b)
      BY <1>1, <2>1, ItemsLeave
    <3> QED
      BY <1>0, <2>1, <3>1
  <2>2. CASE ~(b >= 1 /\ d <= MaxDepth /\ v.ok)
    <3>1. v.ok \in BOOLEAN /\ (WellFormed[v] => v.ok)
      BY JsonType, WellFormedOf
    <3>2. Nodes[v] \in Nat /\ Nodes[v] >= 1 /\ Levels[v] \in Nat /\ Levels[v] >= 1
      <4> DEFINE m == Len(v.items)
      <4>1. m \in Nat /\ m \in 0 .. m /\ DOMAIN v.items = 1 .. m
        BY JsonType
      <4>2. /\ Nodes[v] = 1 + SumTo(Below(Nodes, v), m) /\ Below(Nodes, v) \in Seq(Nat)
            /\ Levels[v] = 1 + MaxTo(Below(Levels, v), m) /\ Below(Levels, v) \in Seq(Nat)
        BY NodesOf, LevelsOf
      <4>3. Len(Below(Nodes, v)) = m /\ Len(Below(Levels, v)) = m
        BY BelowLength
      <4> HIDE DEF m
      <4>4. \A i \in 1 .. m : Below(Nodes, v)[i] \in Nat /\ Below(Levels, v)[i] \in Nat
        BY <4>1, <4>2, <4>3
      <4>5. SumTo(Below(Nodes, v), m) \in Nat /\ MaxTo(Below(Levels, v), m) \in Nat
        BY <4>1, <4>4, SumSteps, MaxSteps
      <4> QED
        BY <4>2, <4>5
    <3>3. Body(f, v, d, b) = -1
      BY <1>0, <2>2
    <3>4. Left(v, d, b) = -1
      BY <1>0, <2>2, <3>1, <3>2 DEF Left
    <3> QED
      BY <3>3, <3>4
  <2> QED
    BY <2>1, <2>2
<1> HIDE DEF Body
<1>2. ASSUME NEW v \in Json, NEW d \in Nat PROVE d + 1 \in Nat /\ Items(v) \subseteq Json
  BY JsonType
<1>3. C = [v \in Json |-> [d \in Nat |-> [b \in Int |-> Body(C, v, d, b)]]]
  <2>1. ASSUME NEW v \in Json, NEW d \in Nat, NEW b \in Int
        PROVE  Body(C, v, d, b) = Left(v, d, b)
    <3>1. ASSUME NEW i \in DOMAIN v.items, NEW c \in Int
          PROVE  C[v.items[i]][d + 1][c] = Left(v.items[i], d + 1, c)
      <4>1. v.items[i] \in Json /\ d + 1 \in Nat
        BY <1>2 DEF Items
      <4> QED
        BY <4>1
    <3> HIDE DEF C
    <3>2. RightBelow(C, v, d)
      BY <3>1 DEF RightBelow
    <3> QED
      BY <1>1, <3>2
  <2> DEFINE L(v, d, b) == Left(v, d, b)
             B(v, d, b) == Body(C, v, d, b)
  <2>2. \A v \in Json, d \in Nat, b \in Int : B(v, d, b) = L(v, d, b)
    BY <2>1
  <2>3. C = [v \in Json |-> [d \in Nat |-> [b \in Int |-> L(v, d, b)]]]
    OBVIOUS
  <2> HIDE DEF L, B, C
  <2>4. C = [v \in Json |-> [d \in Nat |-> [b \in Int |-> B(v, d, b)]]]
    BY <2>2, <2>3
  <2> QED
    BY <2>4 DEF B
<1>4. Validate = [v \in Json |-> [d \in Nat |-> [b \in Int |-> Body(Validate, v, d, b)]]]
  <2> DEFINE P(f) == f = [v \in Json |-> [d \in Nat |-> [b \in Int |-> Body(f, v, d, b)]]]
  <2>1. Validate = CHOOSE f : P(f)
    BY DEF Validate, Body, ItemsLeft
  <2>2. \E f : P(f)
    <3> HIDE DEF C
    <3> QED
      BY <1>3
  <2> HIDE DEF P
  <2>3. P(Validate)
    BY <2>1, <2>2
  <2> QED
    BY <2>3 DEF P
<1>5. ASSUME NEW v \in Json, NEW d \in Nat, NEW b \in Int
      PROVE  Validate[v][d][b] = Body(Validate, v, d, b)
  <2> HIDE DEF C
  <2>1. Validate[v] = [e \in Nat |-> [c \in Int |-> Body(Validate, v, e, c)]]
    BY <1>4
  <2>2. Validate[v][d] = [c \in Int |-> Body(Validate, v, d, c)]
    BY <2>1
  <2> QED
    BY <2>2
<1> DEFINE S == {v \in Json : \A d \in Nat, b \in Int : Validate[v][d][b] = Left(v, d, b)}
<1>6. ASSUME NEW v \in Json, Items(v) \subseteq S PROVE v \in S
  <2> SUFFICES ASSUME NEW d \in Nat, NEW b \in Int
               PROVE  Validate[v][d][b] = Left(v, d, b)
    OBVIOUS
  <2>1. ASSUME NEW i \in DOMAIN v.items, NEW c \in Int
        PROVE  Validate[v.items[i]][d + 1][c] = Left(v.items[i], d + 1, c)
    BY <1>2, <1>6 DEF Items
  <2>2. RightBelow(Validate, v, d)
    BY <2>1 DEF RightBelow
  <2> HIDE DEF S
  <2> QED
    BY <1>1, <1>5, <2>2
<1> HIDE DEF S
<1>7. Json \subseteq S
  BY <1>6, JsonInduction
<1> QED
  BY <1>7 DEF S

-----------------------------------------------------------------------------
(* The verdict is that of _validate_json_value on the records.             *)

JudgeInv ==
  at = "returned" /\ error \in {"none", "invalid"} => (error = "none" <=> Accepted(doc))

LEMMA NextJudge == ErrorInv /\ JudgeInv /\ [Next]_vars => JudgeInv'
<1> SUFFICES ASSUME ErrorInv, JudgeInv, [Next]_vars PROVE JudgeInv'
  OBVIOUS
<1> USE DEF JudgeInv, request, Fail
<1>1. CASE Write \/ Tick \/ ReadChunk \/ ReadEof \/ ReadTimesOut \/ WaitTimesOut \/ Terminate
  BY <1>1 DEF Write, Tick, ReadChunk, ReadEof, ReadTimesOut, WaitTimesOut, Terminate
<1>2. ASSUME NEW m \in Member, Exit(m) \/ Close(m) PROVE JudgeInv'
  BY <1>2 DEF Exit, Close
<1>3. CASE WaitEnds
  BY <1>3 DEF WaitEnds
<1>4. CASE Kill
  BY <1>4 DEF Kill, ErrorInv
<1>5. CASE ValidateRecords
  BY <1>5 DEF ValidateRecords
<1>6. CASE UNCHANGED vars
  BY <1>6 DEF vars
<1> QED
  BY <1>1, <1>2, <1>3, <1>4, <1>5, <1>6 DEF Next

(* The JSON is accepted exactly if the whole document, over all its        *)
(* branches, keeps to the limits: the budget is shared by the branches     *)
(* and the depth is not (tshark.py:188-217).                               *)
THEOREM JsonIsJudged == Spec => []JsonVerdict
<1>1. Init => JudgeInv
  BY DEF Init, JudgeInv
<1>2. IInv /\ JudgeInv => JsonVerdict
  <2> SUFFICES ASSUME IInv, JudgeInv, at = "returned", error \in {"none", "invalid"}
               PROVE  error = "none" <=>
                        /\ WellFormed[Value(TRUE, doc)]
                        /\ Nodes[Value(TRUE, doc)] <= MaxNodes
                        /\ Levels[Value(TRUE, doc)] <= MaxDepth + 1
    BY DEF JsonVerdict
  <2> DEFINE v == Value(TRUE, doc)
  <2>1. v \in Json
    <3>1. Len(doc) \in 0 .. MaxPackets
      BY PrintedType, BoundAssumption DEF IInv, TypeOK, RequestInv
    <3>2. doc \in [1 .. Len(doc) -> Shape]
      BY DEF IInv, RequestInv
    <3>3. doc \in SeqOf(Shape, MaxPackets)
      BY <3>1, <3>2 DEF SeqOf
    <3> QED
      BY <3>3 DEF Json
  <2>2. MaxNodes \in Nat /\ MaxDepth \in Nat /\ Nodes[v] \in Nat /\ Levels[v] \in Nat
    BY <2>1, BoundAssumption, NodesOf, LevelsOf
  <2>3. Accepted(doc) <=> Left(v, 0, MaxNodes) >= 0
    <3> HIDE DEF v
    <3>1. 0 \in Nat /\ MaxNodes \in Int
      BY <2>2
    <3>2. Validate[v][0][MaxNodes] = Left(v, 0, MaxNodes)
      BY <2>1, <3>1, ValidateLeaves
    <3> QED
      BY <3>2 DEF Accepted, v
  <2> HIDE DEF v
  <2>4. Left(v, 0, MaxNodes) >= 0 <=>
          WellFormed[v] /\ Nodes[v] <= MaxNodes /\ Levels[v] <= MaxDepth + 1
    BY <2>2 DEF Left
  <2> QED
    BY <2>3, <2>4 DEF JudgeInv, v
<1>3. IInv => ErrorInv
  BY DEF IInv
<1> QED
  BY Invariance, NextJudge, <1>1, <1>2, <1>3, PTL DEF Spec

=============================================================================
