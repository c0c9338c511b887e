---------------------------- MODULE StorageProofs ----------------------------
(***************************************************************************)
(* Proofs about Storage and Readers, for every number of captures,         *)
(* recordings, converters and readers and every quota: the type invariant  *)
(* of Storage, the number of records, the bytes that are stored, whose     *)
(* files get a final name, are replaced or are removed, and which of them  *)
(* a reader opens.                                                         *)
(*                                                                         *)
(* A sum of sizes is a number of bytes, so the account of bytes rests on   *)
(* facts about cardinalities and needs no induction over the files.        *)
(***************************************************************************)
EXTENDS Readers, FiniteSetTheorems, TLAPS

TaskStep(t) ==
  Reserving(t) \/ Recording(t) \/ PublishLocks(t) \/ Publishing(t) \/ CrashTask(t)

ConverterStep(k) == Converting(k) \/ CrashConverter(k) \/ RestartConverter(k)

-----------------------------------------------------------------------------
(* Sums.                                                                   *)

\* f gives the sizes of finitely many files.
Sizes(f) == IsFiniteSet(DOMAIN f) /\ \A x \in DOMAIN f : f[x] \in Nat

LEMMA BytesAre ==
  ASSUME NEW f, NEW b
  PROVE  b \in Bytes(f) <=> \E x \in DOMAIN f : \E i \in 1 .. f[x] : b = <<x, i>>
BY DEF Bytes

LEMMA FileBytes ==
  ASSUME NEW x, NEW n \in Nat
  PROVE  IsFiniteSet({x} \X (1 .. n)) /\ Cardinality({x} \X (1 .. n)) = n
<1>1. IsFiniteSet({x}) /\ Cardinality({x}) = 1
  BY FS_Singleton
<1>2. IsFiniteSet(1 .. n) /\ Cardinality(1 .. n) = n
  BY FS_Interval
<1>3. /\ IsFiniteSet({x} \X (1 .. n))
      /\ Cardinality({x} \X (1 .. n)) = Cardinality({x}) * Cardinality(1 .. n)
  BY <1>1, <1>2, FS_Product
<1>4. Cardinality({x}) * Cardinality(1 .. n) = n
  BY <1>1, <1>2
<1> QED
  BY <1>3, <1>4

LEMMA TotalType ==
  ASSUME NEW f, Sizes(f)
  PROVE  IsFiniteSet(Bytes(f)) /\ Total(f) \in Nat
<1> DEFINE file == [x \in DOMAIN f |-> {x} \X (1 .. f[x])]
           files == {{x} \X (1 .. f[x]) : x \in DOMAIN f}
<1>1. file \in Surjection(DOMAIN f, files)
  BY DEF Surjection
<1>2. IsFiniteSet(files)
  BY <1>1, FS_Surjection DEF Sizes
<1>3. \A F \in files : IsFiniteSet(F)
  BY FileBytes DEF Sizes
<1>4. IsFiniteSet(UNION files)
  BY <1>2, <1>3, FS_UNION
<1> QED
  BY <1>4, FS_CardinalityType DEF Bytes, Total

(* A file more, of at most c bytes, and no other file that is larger.      *)
LEMMA TotalGrows ==
  ASSUME NEW f, NEW g, Sizes(f), Sizes(g), NEW x, NEW c \in Nat,
         \A y \in DOMAIN g \ {x} : y \in DOMAIN f /\ g[y] <= f[y],
         x \in DOMAIN g => g[x] <= c
  PROVE  Total(g) <= Total(f) + c
<1> DEFINE new == {x} \X (1 .. c)
<1>1. IsFiniteSet(Bytes(f)) /\ Total(f) \in Nat /\ Total(g) \in Nat
  BY TotalType
<1>2. IsFiniteSet(new) /\ Cardinality(new) = c
  BY FileBytes
<1>3. IsFiniteSet(Bytes(f) \cup new) /\ Cardinality(Bytes(f) \cup new) <= Total(f) + c
  <2>1. Cardinality(Bytes(f) \cap new) \in Nat
    BY <1>1, FS_Intersection, FS_CardinalityType
  <2>2. /\ IsFiniteSet(Bytes(f) \cup new)
        /\ Cardinality(Bytes(f) \cup new)
             = Cardinality(Bytes(f)) + Cardinality(new)
                 - Cardinality(Bytes(f) \cap new)
    BY <1>1, <1>2, FS_Union
  <2> HIDE DEF new
  <2> QED
    BY <1>1, <1>2, <2>1, <2>2 DEF Total
<1>4. Bytes(g) \subseteq Bytes(f) \cup new
  <2> SUFFICES ASSUME NEW y \in DOMAIN g, NEW i \in 1 .. g[y]
               PROVE  <<y, i>> \in Bytes(f) \cup new
    BY BytesAre
  <2>1. CASE y = x
    BY <2>1 DEF Sizes
  <2>2. CASE y # x
    <3>1. y \in DOMAIN f /\ i \in 1 .. f[y]
      BY <2>2 DEF Sizes
    <3> QED
      BY <3>1, BytesAre
  <2> QED
    BY <2>1, <2>2
<1>5. Cardinality(Bytes(g)) <= Cardinality(Bytes(f) \cup new)
  BY <1>3, <1>4, FS_Subset
<1>6. Cardinality(Bytes(f) \cup new) \in Nat
  BY <1>3, FS_CardinalityType
<1> QED
  BY <1>1, <1>3, <1>5, <1>6 DEF Total

LEMMA TotalSplit ==
  ASSUME NEW f, Sizes(f), NEW x \in DOMAIN f
  PROVE  LET rest == [y \in DOMAIN f \ {x} |-> f[y]]
         IN  Sizes(rest) /\ Total(f) = Total(rest) + f[x]
<1> DEFINE rest == [y \in DOMAIN f \ {x} |-> f[y]]
           own == {x} \X (1 .. f[x])
<1>1. Sizes(rest)
  BY FS_RemoveElement DEF Sizes
<1>2. IsFiniteSet(Bytes(rest)) /\ Total(rest) \in Nat
  BY <1>1, TotalType
<1>3. IsFiniteSet(own) /\ Cardinality(own) = f[x] /\ f[x] \in Nat
  BY FileBytes DEF Sizes
<1>4. Bytes(f) = Bytes(rest) \cup own
  BY DEF Bytes
<1>5. Bytes(rest) \cap own = {}
  BY BytesAre
<1>6. Cardinality(Bytes(rest) \cap own) = 0
  BY <1>5, FS_EmptySet
<1>7. Total(f) = Total(rest) + f[x]
  <2>1. Cardinality(Bytes(rest) \cup own)
          = Cardinality(Bytes(rest)) + Cardinality(own)
              - Cardinality(Bytes(rest) \cap own)
    BY <1>2, <1>3, FS_Union
  <2> HIDE DEF own, rest
  <2> QED
    BY <1>2, <1>3, <1>4, <1>6, <2>1 DEF Total
<1> QED
  BY <1>1, <1>7

(* One file is given another size.                                         *)
LEMMA TotalUpdate ==
  ASSUME NEW f, Sizes(f), NEW x \in DOMAIN f, NEW n \in Nat
  PROVE  LET g == [f EXCEPT ![x] = n]
         IN  Sizes(g) /\ Total(g) = Total(f) - f[x] + n /\ f[x] <= Total(f)
<1> DEFINE g == [f EXCEPT ![x] = n]
<1>1. Sizes(g) /\ DOMAIN g = DOMAIN f /\ g[x] = n
  BY DEF Sizes
<1>2. [y \in DOMAIN g \ {x} |-> g[y]] = [y \in DOMAIN f \ {x} |-> f[y]]
  OBVIOUS
<1>3. PICK rest : Sizes(rest) /\ Total(f) = Total(rest) + f[x]
                  /\ Total(g) = Total(rest) + n
  BY <1>1, <1>2, TotalSplit
<1> QED
  BY <1>1, <1>3, TotalType DEF Sizes

(* Different files of the one are different files of the other, and not    *)
(* larger.                                                                 *)
LEMMA TotalEmbeds ==
  ASSUME NEW f, NEW g, Sizes(f), Sizes(g), NEW p \in [DOMAIN f -> DOMAIN g],
         \A x, y \in DOMAIN f : p[x] = p[y] => x = y,
         \A x \in DOMAIN f : f[x] <= g[p[x]]
  PROVE  Total(f) <= Total(g)
<1> DEFINE q == [b \in Bytes(f) |-> <<p[b[1]], b[2]>>]
<1>1. \A b \in Bytes(f) :
        b = <<b[1], b[2]>> /\ b[1] \in DOMAIN f /\ b[2] \in 1 .. f[b[1]]
  BY BytesAre
<1>2. \A b \in Bytes(f) : q[b] \in Bytes(g)
  <2> SUFFICES ASSUME NEW b \in Bytes(f) PROVE <<p[b[1]], b[2]>> \in Bytes(g)
    OBVIOUS
  <2>1. p[b[1]] \in DOMAIN g /\ b[2] \in 1 .. g[p[b[1]]]
    BY <1>1 DEF Sizes
  <2> QED
    BY <2>1, BytesAre
<1>3. \A b, c \in Bytes(f) : q[b] = q[c] => b = c
  <2> SUFFICES ASSUME NEW b \in Bytes(f), NEW c \in Bytes(f), q[b] = q[c] PROVE b = c
    OBVIOUS
  <2>1. p[b[1]] = p[c[1]] /\ b[2] = c[2]
    OBVIOUS
  <2> QED
    BY <1>1, <2>1
<1>4. q \in Injection(Bytes(f), Bytes(g))
  BY <1>2, <1>3 DEF Injection, IsInjective
<1> QED
  BY <1>4, TotalType, FS_Injection DEF Total

-----------------------------------------------------------------------------
(* Types.                                                                  *)

(* Every step keeps the types.                                              *)
LEMMA NextTypes == TypeOK /\ [Next]_vars => TypeOK'
<1> SUFFICES ASSUME TypeOK, [Next]_vars PROVE TypeOK'
  OBVIOUS
<1> USE SizeAssumption DEF TypeOK, TaskLocation, TaskTo, UnlinkOwnPartial, Dropped,
        fileVars, taskVars, converterVars
<1>1. ASSUME NEW t \in Task, Reserving(t) PROVE TypeOK'
  BY <1>1 DEF Reserving, ReserveLocks, ReserveRefused, CreateFails
<1>2. ASSUME NEW t \in Task, Recording(t) PROVE TypeOK'
  BY <1>2 DEF Recording, Write, StopClean, StopUnclean, DiscardPartial
<1>3. ASSUME NEW t \in Task, PublishLocks(t) \/ CrashTask(t) PROVE TypeOK'
  BY <1>3 DEF PublishLocks, CrashTask
<1>4. ASSUME NEW t \in Task, Publishing(t) PROVE TypeOK'
  BY <1>4 DEF Publishing, Link, Unlink, Sync, PublishFails, Tidy
<1>5. ASSUME NEW t \in Task, NEW id \in Id, Create(t, id) PROVE TypeOK'
  BY <1>5 DEF Create
<1>6. ASSUME NEW k \in Converter, Converting(k) PROVE TypeOK'
  BY <1>6 DEF Converting, ConvertOpens, ConvertWrites, ConvertFails,
     ConvertReplaces, ConvertEnds
<1>7. ASSUME NEW k \in Converter, CrashConverter(k) \/ RestartConverter(k)
      PROVE  TypeOK'
  BY <1>7 DEF CrashConverter, RestartConverter
<1>8. ASSUME NEW k \in Converter, NEW id \in Id, ConvertLocks(k, id)
      PROVE  TypeOK'
  BY <1>8 DEF ConvertLocks
<1>9. ASSUME NEW id \in Id, Archive(id) PROVE TypeOK'
  BY <1>9 DEF Archive
<1>10. CASE UNCHANGED vars
  BY <1>10 DEF vars
<1> QED
  BY <1>1, <1>2, <1>3, <1>4, <1>5, <1>6, <1>7, <1>8, <1>9, <1>10 DEF Next

(* The files have known owners, their sizes keep within the bounds of a     *)
(* capture (capture.py:479) and of a conversion (decoder.py:112), and the   *)
(* storage lock has one holder at most (capture.py:266).                    *)
THEOREM TypeCorrect == Spec => []TypeOK
<1>1. Init => TypeOK
  BY SizeAssumption DEF Init, TypeOK, TaskLocation
<1> QED
  BY <1>1, NextTypes, PTL DEF Spec

-----------------------------------------------------------------------------
(* The invariant.                                                          *)

\* The critical sections of the storage lock.
LockInv ==
  /\ \A t \in Task :
       tpc[t] \in {"creating", "linking", "unlinking", "syncing", "tidying"} =>
         lock = t
  /\ \A k \in Converter :
       /\ kpc[k] \in {"opening", "converting"} => lock = k /\ job[k] \in Id
       /\ kpc[k] \in {"idle", "opening"} => temp[k] = 0
       /\ kpc[k] = "converting" => temp[k] > 0

\* Whose file has which name: a task publishes what was stopped cleanly, its
\* partial file has the name it has reserved until it takes that away, and no
\* file has the names of two ids.
NameInv ==
  /\ \A t \in Task :
       /\ tpc[t] \in {"finalizing", "linking", "unlinking"} => t \in whole
       /\ tpc[t] \in {"recording", "finalizing", "linking", "unlinking"} =>
            tid[t] \in Id
       /\ tpc[t] \in {"recording", "unlinking"} => partial[tid[t]] = t
       /\ tpc[t] \in {"idle", "creating", "recording"} => t \notin whole
       /\ \A id \in Id :
            t \in {partial[id], bin[id]} =>
              tid[t] = id /\ tpc[t] \notin {"idle", "creating"}
  /\ \A id \in Id : bin[id] # NoTask => bin[id] \in whole

\* Between the check of the quota and the creation there is room for one.
QuotaInv ==
  /\ RecordQuota
  /\ \A t \in Task : tpc[t] = "creating" => Cardinality(Records) + 1 <= RecordMax

IInv == TypeOK /\ LockInv /\ NameInv /\ QuotaInv

(* Every step keeps the critical sections.                                  *)
LEMMA NextLock == TypeOK /\ LockInv /\ [Next]_vars => LockInv'
<1> SUFFICES ASSUME TypeOK, LockInv, [Next]_vars PROVE LockInv'
  OBVIOUS
<1> USE LockAssumption DEF TypeOK, LockInv, TaskTo, Dropped, fileVars, taskVars,
        converterVars
<1>1. ASSUME NEW t \in Task, Reserving(t) PROVE LockInv'
  BY <1>1 DEF Reserving, ReserveLocks, ReserveRefused, CreateFails
<1>2. ASSUME NEW t \in Task, Recording(t) PROVE LockInv'
  BY <1>2 DEF Recording, Write, StopClean, StopUnclean, DiscardPartial
<1>3. ASSUME NEW t \in Task, PublishLocks(t) \/ CrashTask(t) PROVE LockInv'
  BY <1>3 DEF PublishLocks, CrashTask
<1>4. ASSUME NEW t \in Task, Publishing(t) PROVE LockInv'
  BY <1>4 DEF Publishing, Link, Unlink, Sync, PublishFails, Tidy
<1>5. ASSUME NEW t \in Task, NEW id \in Id, Create(t, id) PROVE LockInv'
  BY <1>5 DEF Create
<1>6. ASSUME NEW k \in Converter, Converting(k) PROVE LockInv'
  BY <1>6 DEF Converting, ConvertOpens, ConvertWrites, ConvertFails,
     ConvertReplaces, ConvertEnds
<1>7. ASSUME NEW k \in Converter, CrashConverter(k) \/ RestartConverter(k)
      PROVE  LockInv'
  BY <1>7 DEF CrashConverter, RestartConverter
<1>8. ASSUME NEW k \in Converter, NEW id \in Id, ConvertLocks(k, id)
      PROVE  LockInv'
  BY <1>8 DEF ConvertLocks
<1>9. ASSUME NEW id \in Id, Archive(id) PROVE LockInv'
  BY <1>9 DEF Archive
<1>10. CASE UNCHANGED vars
  BY <1>10 DEF vars
<1> QED
  BY <1>1, <1>2, <1>3, <1>4, <1>5, <1>6, <1>7, <1>8, <1>9, <1>10 DEF Next

(* Every step keeps whose file has which name.                              *)
LEMMA NextName == TypeOK /\ NameInv /\ [Next]_vars => NameInv'
<1> SUFFICES ASSUME TypeOK, NameInv, [Next]_vars PROVE NameInv'
  OBVIOUS
<1> USE FileAssumption DEF TypeOK, NameInv, TaskTo, UnlinkOwnPartial, fileVars,
        taskVars, converterVars
<1>1. ASSUME NEW t \in Task, Reserving(t) PROVE NameInv'
  BY <1>1 DEF Reserving, ReserveLocks, ReserveRefused, CreateFails
<1>2. ASSUME NEW t \in Task, Recording(t) PROVE NameInv'
  BY <1>2 DEF Recording, Write, StopClean, StopUnclean, DiscardPartial
<1>3. ASSUME NEW t \in Task, PublishLocks(t) \/ CrashTask(t) PROVE NameInv'
  BY <1>3 DEF PublishLocks, CrashTask
<1>4. ASSUME NEW t \in Task, Publishing(t) PROVE NameInv'
  <2>1. CASE Link(t)
    BY <1>4, <2>1 DEF Link
  <2>2. CASE Unlink(t)
    BY <1>4, <2>2 DEF Unlink
  <2>3. CASE Sync(t) \/ PublishFails(t)
    BY <1>4, <2>3 DEF Sync, PublishFails
  <2>4. CASE Tidy(t)
    BY <1>4, <2>4 DEF Tidy
  <2> QED
    BY <1>4, <2>1, <2>2, <2>3, <2>4 DEF Publishing
<1>5. ASSUME NEW t \in Task, NEW id \in Id, Create(t, id) PROVE NameInv'
  BY <1>5 DEF Create
<1>6. ASSUME NEW k \in Converter, ConverterStep(k) PROVE NameInv'
  BY <1>6 DEF ConverterStep, Converting, ConvertOpens, ConvertWrites, ConvertFails,
     ConvertReplaces, ConvertEnds, CrashConverter, RestartConverter
<1>7. ASSUME NEW k \in Converter, NEW id \in Id, ConvertLocks(k, id)
      PROVE  NameInv'
  BY <1>7 DEF ConvertLocks
<1>8. ASSUME NEW id \in Id, Archive(id) PROVE NameInv'
  BY <1>8 DEF Archive
<1>9. CASE UNCHANGED vars
  BY <1>9 DEF vars
<1> QED
  BY <1>1, <1>2, <1>3, <1>4, <1>5, <1>6, <1>7, <1>8, <1>9 DEF Next, ConverterStep

-----------------------------------------------------------------------------
(* The number of records.                                                  *)

(* There are no more records than ids.                                      *)
LEMMA RecordsFinite == TypeOK => IsFiniteSet(Records)
<1> SUFFICES ASSUME TypeOK PROVE IsFiniteSet(Records)
  OBVIOUS
<1>1. IsFiniteSet(Id \cup {NoId})
  BY FinitenessAssumption, FS_AddElement
<1>2. Records \subseteq Id \cup {NoId}
  BY DEF TypeOK, Records
<1> QED
  BY <1>1, <1>2, FS_Subset

\* A step that adds no record and begins no creation.
LEMMA FewerRecords ==
  ASSUME TypeOK, QuotaInv, Records' \subseteq Records,
         \A t \in Task : tpc'[t] = "creating" => tpc[t] = "creating"
  PROVE  QuotaInv'
<1>1. IsFiniteSet(Records) /\ Cardinality(Records) \in Nat
  BY RecordsFinite, FS_CardinalityType
<1>2. Cardinality(Records') <= Cardinality(Records) /\ Cardinality(Records') \in Nat
  BY <1>1, FS_Subset, FS_CardinalityType
<1>3. RecordMax \in Nat
  BY SizeAssumption
<1> QED
  BY <1>1, <1>2, <1>3 DEF QuotaInv, RecordQuota

(* The steps of a recording task; ReserveLocks makes the check.             *)
LEMMA TaskQuota ==
  ASSUME NEW t \in Task, IInv, TaskStep(t)
  PROVE  QuotaInv'
<1> USE DEF IInv, TaskTo, UnlinkOwnPartial, fileVars, taskVars, converterVars
<1>1. TypeOK /\ QuotaInv
  OBVIOUS
<1>2. CASE ReserveLocks(t)
  <2>1. Records' = Records
    BY <1>2 DEF ReserveLocks, Records
  <2>2. Cardinality(Records) + 1 <= RecordMax
    BY <1>2 DEF ReserveLocks, Capacity
  <2> QED
    BY <1>1, <2>1, <2>2 DEF QuotaInv, RecordQuota
<1>3. CASE ~ReserveLocks(t)
  <2>1. \A u \in Task : tpc'[u] = "creating" => tpc[u] = "creating"
    BY <1>1, <1>3 DEF TypeOK, TaskStep, Reserving, ReserveRefused, CreateFails,
       Recording, Write, StopClean, StopUnclean, DiscardPartial, PublishLocks,
       CrashTask, Publishing, Link, Unlink, Sync, PublishFails, Tidy
  <2>2. UNCHANGED <<pcap, temp, job>>
    BY <1>3 DEF TaskStep, Reserving, ReserveRefused, CreateFails,
       Recording, Write, StopClean, StopUnclean, DiscardPartial, PublishLocks,
       CrashTask, Publishing, Link, Unlink, Sync, PublishFails, Tidy
  <2>3. \A id \in Id : partial'[id] # NoTask \/ bin'[id] # NoTask =>
                         partial[id] # NoTask \/ bin[id] # NoTask
    BY <1>1, <1>3, FileAssumption DEF TypeOK, TaskStep, Reserving, ReserveRefused,
       CreateFails,
       Recording, Write, StopClean, StopUnclean, DiscardPartial, PublishLocks,
       CrashTask, Publishing, Link, Unlink, Sync, PublishFails, Tidy
  <2>4. Records' \subseteq Records
    BY <2>2, <2>3 DEF Records
  <2> QED
    BY <1>1, <2>1, <2>4, FewerRecords
<1> QED
  BY <1>2, <1>3

(* The creation uses the room that was checked; nobody else is creating.    *)
LEMMA CreateQuota ==
  ASSUME NEW t \in Task, NEW id \in Id, IInv, Create(t, id)
  PROVE  QuotaInv'
<1>1. TypeOK /\ IsFiniteSet(Records) /\ Cardinality(Records) \in Nat
  BY RecordsFinite, FS_CardinalityType DEF IInv
<1>2. Cardinality(Records) + 1 <= RecordMax
  BY DEF IInv, QuotaInv, Create
<1>3. Records' \subseteq Records \cup {id}
  BY <1>1 DEF Create, Records, TypeOK, converterVars
<1>4. Cardinality(Records') <= Cardinality(Records) + 1
  <2>1. /\ IsFiniteSet(Records \cup {id})
        /\ Cardinality(Records \cup {id})
             \in {Cardinality(Records), Cardinality(Records) + 1}
    BY <1>1, FS_AddElement
  <2>2. /\ Cardinality(Records') <= Cardinality(Records \cup {id})
        /\ Cardinality(Records') \in Nat
    BY <1>3, <2>1, FS_Subset, FS_CardinalityType
  <2> QED
    BY <1>1, <2>1, <2>2
<1>5. Cardinality(Records') \in Nat
  BY <1>1, <1>3, FS_AddElement, FS_Subset, FS_CardinalityType
<1>6. \A u \in Task : tpc'[u] # "creating"
  BY <1>1, LockAssumption DEF IInv, LockInv, Create, TaskTo, TypeOK
<1> QED
  BY <1>1, <1>2, <1>4, <1>5, <1>6, SizeAssumption DEF QuotaInv, RecordQuota

(* A converter's files belong to the record of the capture it converts.     *)
LEMMA ConverterQuota ==
  ASSUME NEW k \in Converter, IInv,
         ConverterStep(k) \/ (\E id \in Id : ConvertLocks(k, id))
  PROVE  QuotaInv'
<1> USE DEF IInv, fileVars, taskVars, converterVars
<1>1. TypeOK /\ QuotaInv /\ LockInv
  OBVIOUS
<1>2. UNCHANGED <<partial, bin, tpc>>
  BY DEF ConverterStep, Converting, ConvertOpens, ConvertWrites, ConvertFails,
     ConvertReplaces, ConvertEnds, CrashConverter, RestartConverter, ConvertLocks
<1>3. \A j \in Converter : temp'[j] > 0 => job'[j] \in Records
  <2> USE <1>1 DEF TypeOK, LockInv, Records
  <2>1. CASE ConvertOpens(k)
    BY <2>1 DEF ConvertOpens, Available
  <2>2. CASE ConvertWrites(k)
    BY <2>2 DEF ConvertWrites
  <2>3. CASE ConvertFails(k) \/ ConvertReplaces(k)
    BY <2>3 DEF ConvertFails, ConvertReplaces, ConvertEnds
  <2>4. CASE CrashConverter(k) \/ RestartConverter(k)
    BY <2>4 DEF CrashConverter, RestartConverter
  <2>5. CASE \E id \in Id : ConvertLocks(k, id)
    BY <2>5 DEF ConvertLocks
  <2> QED
    BY <2>1, <2>2, <2>3, <2>4, <2>5 DEF ConverterStep, Converting
<1>4. \A id \in Id : pcap'[id] > 0 => id \in Records
  BY <1>1 DEF ConverterStep, Converting, ConvertOpens, ConvertWrites, ConvertFails,
     ConvertReplaces, ConvertEnds, CrashConverter, RestartConverter, ConvertLocks,
     TypeOK, LockInv, Records
<1>5. Records' \subseteq Records
  <2>1. \A id \in Id : partial'[id] # NoTask \/ bin'[id] # NoTask => id \in Records
    BY <1>2 DEF Records
  <2> QED
    BY <1>3, <1>4, <2>1 DEF Records
<1> QED
  BY <1>1, <1>2, <1>5, FewerRecords

(* Every step keeps the number of records.                                  *)
LEMMA NextQuota == IInv /\ [Next]_vars => QuotaInv'
<1> SUFFICES ASSUME IInv, [Next]_vars PROVE QuotaInv'
  OBVIOUS
<1>1. TypeOK /\ QuotaInv
  BY DEF IInv
<1>2. ASSUME NEW id \in Id, Archive(id) PROVE QuotaInv'
  <2>1. Records' \subseteq Records
    BY <1>1, <1>2 DEF Archive, Records, TypeOK, taskVars, converterVars
  <2> QED
    BY <1>1, <1>2, <2>1, FewerRecords DEF Archive, taskVars
<1>3. CASE UNCHANGED vars
  BY <1>1, <1>3, FewerRecords DEF vars, fileVars, taskVars, converterVars, Records
<1> QED
  BY <1>2, <1>3, TaskQuota, CreateQuota, ConverterQuota
     DEF Next, TaskStep, ConverterStep

-----------------------------------------------------------------------------
(* The conjunction of the parts is inductive.                               *)
LEMMA Invariance == Spec => []IInv
<1>1. Init => IInv
  <2> SUFFICES ASSUME Init PROVE IInv
    OBVIOUS
  <2>1. TypeOK
    BY SizeAssumption DEF Init, TypeOK, TaskLocation
  <2>2. LockInv /\ NameInv
    BY FileAssumption DEF Init, LockInv, NameInv
  <2>3. Records = {}
    BY DEF Init, Records
  <2>4. QuotaInv
    BY <2>3, FS_EmptySet, SizeAssumption DEF Init, QuotaInv, RecordQuota
  <2> QED
    BY <2>1, <2>2, <2>4 DEF IInv
<1>2. IInv /\ [Next]_vars => IInv'
  BY NextTypes, NextLock, NextName, NextQuota DEF IInv
<1> QED
  BY <1>1, <1>2, PTL DEF Spec

(* No more records exist than the quota allows, although conversions add    *)
(* files without asking for an entry and ids may be drawn again             *)
(* (capture.py:283): what the check counted is still the case when the file *)
(* is created, because every other step that adds a record needs the lock.  *)
THEOREM RecordsAreBounded == Spec => []RecordQuota
<1>1. IInv => RecordQuota
  BY DEF IInv, QuotaInv
<1> QED
  BY Invariance, <1>1, PTL

(* A task alone removes its partial file: neither a discard, which takes no *)
(* lock, nor the second step of another publication hits it                 *)
(* (capture.py:325).                                                        *)
THEOREM PartialsAreOwn == Spec => OwnPartialOnly
<1>1. ASSUME IInv, [Next]_vars,
             NEW t \in Task, NEW id \in Id, partial[id] = t, partial'[id] # t
      PROVE  DiscardPartial(t) \/ Unlink(t) \/ Tidy(t)
  <2> USE <1>1, FileAssumption DEF TypeOK, TaskTo, UnlinkOwnPartial, fileVars,
          taskVars, converterVars
  <2>0. TypeOK /\ NameInv
    BY DEF IInv
  <2>1. ASSUME NEW u \in Task, TaskStep(u)
        PROVE  DiscardPartial(t) \/ Unlink(t) \/ Tidy(t)
    <3>1. DiscardPartial(u) \/ Unlink(u) \/ Tidy(u)
      BY <2>1 DEF TaskStep, Reserving, ReserveLocks, ReserveRefused, CreateFails,
         Recording, Write, StopClean, StopUnclean, PublishLocks, CrashTask,
         Publishing, Link, Sync, PublishFails
    <3>2. u = t
      BY <2>0, <3>1 DEF NameInv, DiscardPartial, Unlink, Tidy
    <3> QED
      BY <3>1, <3>2
  <2>2. ASSUME NEW u \in Task, NEW i \in Id, Create(u, i) PROVE FALSE
    BY <2>0, <2>2 DEF Create
  <2>3. ASSUME NEW k \in Converter, ConverterStep(k) PROVE FALSE
    BY <2>3 DEF ConverterStep, Converting, ConvertOpens, ConvertWrites,
       ConvertFails, ConvertReplaces, ConvertEnds, CrashConverter, RestartConverter
  <2>4. ASSUME NEW k \in Converter, NEW i \in Id, ConvertLocks(k, i) PROVE FALSE
    BY <2>4 DEF ConvertLocks
  <2>5. ASSUME NEW i \in Id, Archive(i) PROVE FALSE
    BY <2>5 DEF Archive
  <2> QED
    BY <2>1, <2>2, <2>3, <2>4, <2>5 DEF Next, TaskStep, ConverterStep, vars
<1>2. IInv /\ [Next]_vars =>
        [\A t \in Task, id \in Id :
           partial[id] = t /\ partial'[id] # t =>
             DiscardPartial(t) \/ Unlink(t) \/ Tidy(t)]_vars
  BY <1>1
<1> QED
  BY Invariance, <1>2, PTL DEF Spec, OwnPartialOnly

(* What has a final name keeps it until the operator takes it away:        *)
(* neither the publication of a recording whose id was drawn again nor the *)
(* tidying up after its failure takes it away or replaces it               *)
(* (capture.py:393-402; tests/test_adversarial_hardening.py:113).          *)
THEOREM PublishedIsKept == Spec => NeverOverwritten
<1>1. ASSUME TypeOK, [Next]_vars, NEW id \in Id, bin[id] # NoTask, bin'[id] # bin[id]
      PROVE  Archive(id)
  <2> USE <1>1 DEF TypeOK, TaskTo, fileVars, taskVars, converterVars
  <2>1. ASSUME NEW t \in Task, TaskStep(t) PROVE FALSE
    BY <2>1 DEF TaskStep, Reserving, ReserveLocks, ReserveRefused, CreateFails,
       Recording, Write, StopClean, StopUnclean, DiscardPartial, PublishLocks,
       CrashTask, Publishing, Link, Unlink, Sync, PublishFails, Tidy
  <2>2. ASSUME NEW t \in Task, NEW i \in Id, Create(t, i) PROVE FALSE
    BY <2>2 DEF Create
  <2>3. ASSUME NEW k \in Converter, ConverterStep(k) PROVE FALSE
    BY <2>3 DEF ConverterStep, Converting, ConvertOpens, ConvertWrites,
       ConvertFails, ConvertReplaces, ConvertEnds, CrashConverter, RestartConverter
  <2>4. ASSUME NEW k \in Converter, NEW i \in Id, ConvertLocks(k, i)
        PROVE  FALSE
    BY <2>4 DEF ConvertLocks
  <2>5. ASSUME NEW i \in Id, Archive(i) PROVE i = id
    BY <2>5 DEF Archive
  <2> QED
    BY <2>1, <2>2, <2>3, <2>4, <2>5 DEF Next, TaskStep, ConverterStep, vars
<1>2. TypeOK /\ [Next]_vars =>
        [\A id \in Id : bin[id] # NoTask /\ bin'[id] # bin[id] => Archive(id)]_vars
  BY <1>1
<1> QED
  BY TypeCorrect, <1>2, PTL DEF Spec, NeverOverwritten

-----------------------------------------------------------------------------
(* What a reader opens.                                                    *)

\* A complete recording that has no partial name: no step gives it one again.
Published(t) == t \in whole /\ \A id \in Id : partial[id] # t

ReaderInv ==
  /\ expected \in [Reader -> Task \cup {NoTask}]
  /\ opened \in [Reader -> Task \cup {NoTask}]
  /\ \A r \in Reader :
       /\ expected[r] # NoTask => Published(expected[r])
       /\ opened[r] # NoTask => Published(opened[r])

(* The readers change nothing that is stored.                              *)
LEMMA ReadersUseStorage == ReaderSpec => Spec
<1>1. ReaderInit => Init
  BY DEF ReaderInit
<1>2. [ReaderNext]_allVars => [Next]_vars
  BY DEF ReaderNext, ReaderStep, LookUp, Open, OpenFails, OpenEnds, Close, allVars
<1> QED
  BY <1>1, <1>2, PTL DEF ReaderSpec, Spec

(* A task has no file yet when it creates one, and a recording that is     *)
(* complete is not created again.                                          *)
LEMMA StaysPublished ==
  ASSUME TypeOK, NameInv, [Next]_vars, NEW f \in Task, Published(f)
  PROVE  Published(f)'
<1> USE FileAssumption DEF TypeOK, TaskTo, UnlinkOwnPartial, fileVars, taskVars,
        converterVars, Published
<1>1. ASSUME NEW t \in Task, TaskStep(t) PROVE Published(f)'
  BY <1>1 DEF TaskStep, Reserving, ReserveLocks, ReserveRefused, CreateFails,
     Recording, Write, StopClean, StopUnclean, DiscardPartial, PublishLocks,
     CrashTask, Publishing, Link, Unlink, Sync, PublishFails, Tidy
<1>2. ASSUME NEW t \in Task, NEW i \in Id, Create(t, i) PROVE Published(f)'
  <2>1. t # f
    BY <1>2 DEF Create, NameInv
  <2> QED
    BY <1>2, <2>1 DEF Create
<1>3. ASSUME NEW k \in Converter, ConverterStep(k) PROVE Published(f)'
  BY <1>3 DEF ConverterStep, Converting, ConvertOpens, ConvertWrites,
     ConvertFails, ConvertReplaces, ConvertEnds, CrashConverter, RestartConverter
<1>4. ASSUME NEW k \in Converter, NEW i \in Id, ConvertLocks(k, i)
      PROVE  Published(f)'
  BY <1>4 DEF ConvertLocks
<1>5. ASSUME NEW i \in Id, Archive(i) PROVE Published(f)'
  BY <1>5 DEF Archive
<1>6. CASE UNCHANGED vars
  BY <1>6 DEF vars
<1> QED
  BY <1>1, <1>2, <1>3, <1>4, <1>5, <1>6 DEF Next, TaskStep, ConverterStep

(* What a name that is available stands for is published: the name that    *)
(* was checked is the only one that could still be a partial one.          *)
LEMMA AvailableIsPublished ==
  ASSUME TypeOK, NameInv, NEW id \in Id, Available(id)
  PROVE  bin[id] \in Task /\ Published(bin[id])
<1>1. bin[id] \in Task /\ bin[id] \in whole
  BY DEF TypeOK, NameInv, Available
<1>2. ASSUME NEW i \in Id, partial[i] = bin[id] PROVE FALSE
  <2>1. i = id
    BY <1>1, <1>2 DEF NameInv
  <2> QED
    BY <1>2, <2>1 DEF Available
<1> QED
  BY <1>1, <1>2 DEF Published

LEMMA ReaderInvariant == IInv /\ ReaderInv /\ [ReaderNext]_allVars => ReaderInv'
<1> SUFFICES ASSUME IInv, ReaderInv, [ReaderNext]_allVars PROVE ReaderInv'
  OBVIOUS
<1>0. TypeOK /\ NameInv
  BY DEF IInv
<1>1. ASSUME [Next]_vars, UNCHANGED readerVars PROVE ReaderInv'
  BY <1>0, <1>1, StaysPublished DEF ReaderInv, readerVars
<1>2. ASSUME UNCHANGED vars PROVE \A f : Published(f)' = Published(f)
  BY <1>2 DEF vars, fileVars, Published
<1>3. ASSUME NEW r \in Reader, NEW id \in Id, LookUp(r, id) PROVE ReaderInv'
  BY <1>0, <1>2, <1>3, AvailableIsPublished DEF LookUp, ReaderInv
<1>4. ASSUME NEW r \in Reader, Open(r) PROVE ReaderInv'
  BY <1>2, <1>4 DEF Open, OpenEnds, ReaderInv
<1>5. ASSUME NEW r \in Reader, OpenFails(r) \/ Close(r) PROVE ReaderInv'
  BY <1>2, <1>5 DEF OpenFails, OpenEnds, Close, ReaderInv
<1> QED
  BY <1>1, <1>3, <1>4, <1>5 DEF ReaderNext, ReaderStep, allVars

(* A reader that has opened a recording by its name reads a complete one,  *)
(* of which no publication is unfinished, although it holds no lock, and   *)
(* the name may be archived and drawn again between its look at the name   *)
(* and its open (capture.py:190-211).                                      *)
THEOREM OpenedArePublished == ReaderSpec => []OpenedIsPublished
<1>1. ReaderInit => ReaderInv
  BY DEF ReaderInit, ReaderInv
<1>2. ReaderInv => OpenedIsPublished
  BY DEF ReaderInv, Published, OpenedIsPublished
<1>3. ReaderSpec => []IInv
  BY ReadersUseStorage, Invariance, PTL
<1> QED
  BY <1>1, <1>2, <1>3, ReaderInvariant, PTL DEF ReaderSpec

-----------------------------------------------------------------------------
(* The account of bytes.                                                   *)

\* What the files will take up at most, when a recording under a partial name
\* is given all it may come to, and the temporary files are left out.
Partials == {t \in Task : \E id \in Id : partial[id] = t}
Reserved == [t \in Named |-> IF t \in Partials THEN CaptureMax ELSE size[t]]
Kept == Total(Reserved) + Total(pcap)

\* Whoever is past the check of the quota still finds what it has asked for.
ByteInv ==
  /\ Kept <= StoredMax
  /\ Kept + Total(temp) <= StoredMax + PcapMax
  /\ \A t \in Task :
       tpc[t] = "creating" => Kept + Total(temp) + CaptureMax <= StoredMax
  /\ \A k \in Converter :
       kpc[k] \in {"opening", "converting"} =>
         Kept + Total(temp) - temp[k] - pcap[job[k]] + PcapMax <= StoredMax

(* Finitely many files have a name, and all have a size.                    *)
LEMMA SizesAre ==
  ASSUME TypeOK
  PROVE  /\ Sizes(Reserved) /\ Sizes([t \in Named |-> size[t]])
         /\ Sizes(PartialBytes) /\ Sizes(BinBytes) /\ Sizes(TempBytes)
         /\ Sizes(pcap) /\ Sizes(temp)
<1> USE SizeAssumption DEF TypeOK
<1>1. IsFiniteSet(Named)
  <2>1. IsFiniteSet(Partials)
    <3> DEFINE D == {id \in Id : partial[id] # NoTask}
               f == [id \in D |-> partial[id]]
    <3>1. IsFiniteSet(D)
      BY FinitenessAssumption, FS_Subset
    <3>2. f \in Surjection(D, Partials)
      BY FileAssumption DEF Partials, Surjection
    <3> QED
      BY <3>1, <3>2, FS_Surjection
  <2>2. IsFiniteSet({t \in Task : \E id \in Id : bin[id] = t})
    <3> DEFINE D == {id \in Id : bin[id] # NoTask}
               f == [id \in D |-> bin[id]]
               B == {t \in Task : \E id \in Id : bin[id] = t}
    <3>1. IsFiniteSet(D)
      BY FinitenessAssumption, FS_Subset
    <3>2. f \in Surjection(D, B)
      BY FileAssumption DEF Surjection
    <3> QED
      BY <3>1, <3>2, FS_Surjection
  <2>3. Named = Partials \cup {t \in Task : \E id \in Id : bin[id] = t}
    BY DEF Named, Partials
  <2> QED
    BY <2>1, <2>2, <2>3, FS_Union
<1>2. IsFiniteSet(Id) /\ IsFiniteSet(Converter)
  BY FinitenessAssumption
<1>3. Sizes(Reserved) /\ Sizes([t \in Named |-> size[t]])
  BY <1>1 DEF Sizes, Reserved, Named
<1>4. Sizes(PartialBytes) /\ Sizes(BinBytes) /\ Sizes(TempBytes)
  BY <1>2 DEF Sizes, PartialBytes, BinBytes, TempBytes, Larger
<1>5. Sizes(pcap) /\ Sizes(temp)
  BY <1>2 DEF Sizes
<1> QED
  BY <1>3, <1>4, <1>5

(* The sums are numbers.                                                   *)
LEMMA TotalsType ==
  ASSUME TypeOK
  PROVE  /\ Kept \in Nat /\ Total(Reserved) \in Nat
         /\ Total(pcap) \in Nat /\ Total(temp) \in Nat
BY SizesAre, TotalType DEF Kept

(* What is kept is what a stored file may come to.                         *)
LEMMA StoredIsKept ==
  ASSUME TypeOK
  PROVE  StoredBytes <= Kept + Total(temp) /\ StoredBytes \in Nat
<1> DEFINE stored == [t \in Named |-> size[t]]
           p == [t \in Named |-> t]
<1>1. Sizes(stored) /\ Sizes(Reserved)
  BY SizesAre
<1>2. \A t \in Named : stored[t] <= Reserved[t]
  BY SizeAssumption DEF TypeOK, Named, Reserved
<1>3. DOMAIN stored = Named /\ DOMAIN Reserved = Named
  BY DEF Reserved
<1> HIDE DEF stored
<1>4. p \in [DOMAIN stored -> DOMAIN Reserved]
  BY <1>3
<1>5. Total(stored) <= Total(Reserved)
  BY <1>1, <1>2, <1>3, <1>4, TotalEmbeds
<1>6. Total(stored) \in Nat
  BY <1>1, TotalType
<1> QED
  BY <1>5, <1>6, TotalsType DEF StoredBytes, Kept, stored

(* _stored_usage counts all of it: a file that has lost its partial name   *)
(* has its final one.                                                      *)
LEMMA UsedIsKept ==
  ASSUME TypeOK
  PROVE  Kept + Total(temp) <= UsedBytes /\ UsedBytes \in Nat
<1> DEFINE part == [t \in Partials |-> CaptureMax]
           rest == [t \in Named \ Partials |-> size[t]]
           p == [t \in Partials |-> CHOOSE id \in Id : partial[id] = t]
           b == [t \in Named \ Partials |-> CHOOSE id \in Id : bin[id] = t]
           k == [c \in Converter |-> c]
<1>1. /\ Sizes(Reserved) /\ Sizes(PartialBytes) /\ Sizes(BinBytes) /\ Sizes(TempBytes)
      /\ Sizes(temp) /\ Sizes(pcap)
  BY SizesAre
<1>2. Partials \subseteq Named /\ DOMAIN Reserved = Named
  BY DEF Partials, Named, Reserved
<1>3. IsFiniteSet(Named) /\ IsFiniteSet(Partials) /\ IsFiniteSet(Named \ Partials)
  BY <1>1, <1>2, FS_Subset, FS_Difference DEF Sizes
<1>4. Sizes(part)
  BY <1>3, SizeAssumption DEF Sizes
<1>5. Sizes(rest)
  BY <1>3 DEF Sizes, TypeOK, Named
<1>6. Total(part) <= Total(PartialBytes)
  <2>1. \A t \in Partials : p[t] \in Id /\ partial[p[t]] = t
    BY DEF Partials
  <2>2. p \in [DOMAIN part -> DOMAIN PartialBytes]
    BY <2>1 DEF PartialBytes
  <2>3. \A t \in DOMAIN part : part[t] <= PartialBytes[p[t]]
    BY <2>1, FileAssumption, SizeAssumption DEF PartialBytes, Larger, TypeOK, Partials
  <2>4. \A t, u \in DOMAIN part : p[t] = p[u] => t = u
    BY <2>1
  <2> HIDE DEF part, p
  <2> QED
    BY <1>1, <1>4, <2>2, <2>3, <2>4, TotalEmbeds
<1>7. Total(rest) <= Total(BinBytes)
  <2>1. \A t \in Named \ Partials : b[t] \in Id /\ bin[b[t]] = t
    BY DEF Partials, Named
  <2>2. b \in [DOMAIN rest -> DOMAIN BinBytes]
    BY <2>1 DEF BinBytes
  <2>3. \A t \in DOMAIN rest : rest[t] <= BinBytes[b[t]]
    <3> SUFFICES ASSUME NEW t \in Named \ Partials PROVE size[t] <= BinBytes[b[t]]
      OBVIOUS
    <3>1. b[t] \in Id /\ bin[b[t]] = t /\ t \in Task
      BY <2>1 DEF Named
    <3>2. t # NoTask /\ size[t] \in Nat
      BY <3>1, FileAssumption, SizeAssumption DEF TypeOK
    <3> HIDE DEF b
    <3>3. BinBytes[b[t]] = size[t]
      BY <3>1, <3>2 DEF BinBytes
    <3> QED
      BY <3>2, <3>3
  <2>4. \A t, u \in DOMAIN rest : b[t] = b[u] => t = u
    BY <2>1
  <2> HIDE DEF rest, b
  <2> QED
    BY <1>1, <1>5, <2>2, <2>3, <2>4, TotalEmbeds
<1>8. Total(temp) <= Total(TempBytes)
  <2>1. k \in [DOMAIN temp -> DOMAIN TempBytes]
    BY DEF TypeOK, TempBytes
  <2>2. \A c \in DOMAIN temp : temp[c] <= TempBytes[k[c]]
    BY SizeAssumption DEF TypeOK, TempBytes, Larger
  <2>3. \A c, d \in DOMAIN temp : k[c] = k[d] => c = d
    BY DEF TypeOK
  <2> HIDE DEF k
  <2> QED
    BY <1>1, <2>1, <2>2, <2>3, TotalEmbeds
<1>9. Total(Reserved) <= Total(part) + Total(rest)
  <2>1. Bytes(Reserved) \subseteq Bytes(part) \cup Bytes(rest)
    BY <1>2 DEF Bytes, Reserved
  <2>2. /\ IsFiniteSet(Bytes(part)) /\ Total(part) \in Nat
        /\ IsFiniteSet(Bytes(rest)) /\ Total(rest) \in Nat
    BY <1>4, <1>5, TotalType
  <2> HIDE DEF part, rest
  <2>3. /\ IsFiniteSet(Bytes(part) \cup Bytes(rest))
        /\ Cardinality(Bytes(part) \cup Bytes(rest)) <= Total(part) + Total(rest)
    <3>1. Cardinality(Bytes(part) \cap Bytes(rest)) \in Nat
      BY <2>2, FS_Intersection, FS_CardinalityType
    <3>2. /\ IsFiniteSet(Bytes(part) \cup Bytes(rest))
          /\ Cardinality(Bytes(part) \cup Bytes(rest))
               = Cardinality(Bytes(part)) + Cardinality(Bytes(rest))
                   - Cardinality(Bytes(part) \cap Bytes(rest))
      BY <2>2, FS_Union
    <3> QED
      BY <2>2, <3>1, <3>2 DEF Total
  <2>4. Cardinality(Bytes(part) \cup Bytes(rest)) \in Nat
    BY <2>3, FS_CardinalityType
  <2>5. Cardinality(Bytes(Reserved)) <= Cardinality(Bytes(part) \cup Bytes(rest))
    BY <2>1, <2>3, FS_Subset
  <2> QED
    BY <1>1, <2>2, <2>3, <2>4, <2>5, TotalType DEF Total
<1> HIDE DEF part, rest
<1>10. /\ Total(part) \in Nat /\ Total(rest) \in Nat /\ Total(PartialBytes) \in Nat
       /\ Total(BinBytes) \in Nat /\ Total(TempBytes) \in Nat
  BY <1>1, <1>4, <1>5, TotalType
<1> QED
  BY <1>6, <1>7, <1>8, <1>9, <1>10, TotalsType DEF Kept, UsedBytes

\* What the steps need to know about the sums.
SizesInv ==
  /\ Sizes(Reserved) /\ Sizes(pcap) /\ Sizes(temp)
  /\ Kept \in Nat /\ Total(Reserved) \in Nat
  /\ Total(pcap) \in Nat /\ Total(temp) \in Nat

(* So before as after a step.                                              *)
LEMMA SizesThroughout == (TypeOK => SizesInv) /\ (TypeOK' => SizesInv')
<1>1. TypeOK => SizesInv
  BY SizesAre, TotalsType DEF SizesInv
<1> QED
  BY <1>1, PTL

(* A step that gives no file a name and no named file more room.           *)
LEMMA ReservedShrinks ==
  ASSUME TypeOK, TypeOK', Named' \subseteq Named,
         \A t \in Named' : t \in Partials' => t \in Partials,
         \A t \in Named' : size'[t] # size[t] => t \in Partials'
  PROVE  Total(Reserved') <= Total(Reserved)
<1> DEFINE p == [t \in Named' |-> t]
<1>1. Sizes(Reserved) /\ Sizes(Reserved')
  BY SizesThroughout DEF SizesInv
<1>2. DOMAIN Reserved = Named /\ DOMAIN Reserved' = Named'
  BY DEF Reserved
<1>3. \A t \in DOMAIN Reserved' : Reserved'[t] <= Reserved[p[t]]
  BY SizeAssumption DEF Reserved, TypeOK, Named
<1>4. p \in [DOMAIN Reserved' -> DOMAIN Reserved]
  BY <1>2
<1>5. \A t, u \in DOMAIN Reserved' : p[t] = p[u] => t = u
  BY <1>2
<1> HIDE DEF p
<1> QED
  BY <1>1, <1>3, <1>4, <1>5, TotalEmbeds

(* A step after which no more is kept, and that passes no check.           *)
LEMMA QuietStep ==
  ASSUME TypeOK, TypeOK', LockInv, ByteInv, Total(Reserved') <= Total(Reserved),
         UNCHANGED <<pcap, temp, job>>,
         \A t \in Task : tpc'[t] = "creating" => tpc[t] = "creating",
         \A k \in Converter : kpc'[k] \in {"opening", "converting"} =>
                                kpc[k] \in {"opening", "converting"}
  PROVE  ByteInv'
<1>1. SizesInv /\ SizesInv'
  BY SizesThroughout
<1>2. Kept' <= Kept /\ Total(temp') = Total(temp) /\ Kept' \in Nat
  BY <1>1 DEF SizesInv, Kept
<1>3. /\ StoredMax \in Nat /\ PcapMax \in Nat /\ CaptureMax \in Nat
      /\ Kept \in Nat /\ Total(temp) \in Nat
  BY <1>1, SizeAssumption DEF SizesInv
<1>4. /\ Kept' <= StoredMax
      /\ Kept' + Total(temp') <= StoredMax + PcapMax
  BY <1>2, <1>3 DEF ByteInv
<1>5. ASSUME NEW t \in Task, tpc'[t] = "creating"
      PROVE  Kept' + Total(temp') + CaptureMax <= StoredMax
  BY <1>2, <1>3, <1>5 DEF ByteInv
<1>6. ASSUME NEW k \in Converter, kpc'[k] \in {"opening", "converting"}
      PROVE  Kept' + Total(temp') - temp'[k] - pcap'[job'[k]] + PcapMax <= StoredMax
  <2>1. Kept + Total(temp) - temp[k] - pcap[job[k]] + PcapMax <= StoredMax
    BY <1>6 DEF ByteInv
  <2>2. temp'[k] = temp[k] /\ pcap'[job'[k]] = pcap[job[k]]
    OBVIOUS
  <2>3. temp[k] \in Nat /\ pcap[job[k]] \in Nat
    BY <1>6, SizeAssumption DEF TypeOK, LockInv
  <2> QED
    BY <1>2, <1>3, <2>1, <2>2, <2>3
<1> QED
  BY <1>4, <1>5, <1>6 DEF ByteInv

(* The steps of a recording task; ReserveLocks makes the check.            *)
LEMMA TaskBytes ==
  ASSUME NEW t \in Task, IInv, TypeOK', ByteInv, TaskStep(t)
  PROVE  ByteInv'
<1> USE DEF IInv, TaskTo, UnlinkOwnPartial, fileVars, taskVars, converterVars
<1>1. TypeOK /\ LockInv /\ NameInv
  OBVIOUS
<1>2. UNCHANGED <<pcap, temp, kpc, job>>
  BY DEF TaskStep, Reserving, ReserveLocks, ReserveRefused, CreateFails, Recording,
     Write, StopClean, StopUnclean, DiscardPartial, PublishLocks, CrashTask,
     Publishing, Link, Unlink, Sync, PublishFails, Tidy
<1>3. Total(Reserved') <= Total(Reserved)
  <2> USE <1>1, FileAssumption DEF TypeOK, Named, Partials
  <2>1. CASE Write(t)
    BY <2>1, ReservedShrinks DEF Write, NameInv
  <2>2. CASE DiscardPartial(t) \/ Tidy(t)
    BY <2>2, ReservedShrinks DEF DiscardPartial, Tidy
  <2>3. CASE Link(t)
    BY <2>3, ReservedShrinks DEF Link, NameInv
  <2>4. CASE Unlink(t)
    BY <2>4, ReservedShrinks DEF Unlink, NameInv
  <2>5. CASE UNCHANGED <<partial, bin, size>>
    BY <2>5, ReservedShrinks
  <2> QED
    BY <2>1, <2>2, <2>3, <2>4, <2>5 DEF TaskStep, Reserving, ReserveLocks,
       ReserveRefused, CreateFails, Recording, StopClean, StopUnclean,
       PublishLocks, CrashTask, Publishing, Sync, PublishFails
<1>4. CASE ReserveLocks(t)
  <2>1. Total(Reserved') = Total(Reserved)
    BY <1>4 DEF ReserveLocks, Reserved, Named, Partials
  <2>2. Kept' = Kept /\ Kept + Total(temp) + CaptureMax <= StoredMax
    BY <1>1, <1>2, <1>4, <2>1, UsedIsKept, SizesThroughout, SizeAssumption
       DEF ReserveLocks, Capacity, Kept, SizesInv
  <2> QED
    BY <1>2, <2>2 DEF ByteInv
<1>5. CASE ~ReserveLocks(t)
  <2>1. \A u \in Task : tpc'[u] = "creating" => tpc[u] = "creating"
    BY <1>1, <1>5 DEF TypeOK, TaskStep, Reserving, ReserveRefused, CreateFails,
       Recording, Write, StopClean, StopUnclean, DiscardPartial, PublishLocks,
       CrashTask, Publishing, Link, Unlink, Sync, PublishFails, Tidy
  <2> QED
    BY <1>1, <1>2, <1>3, <2>1, QuietStep
<1> QED
  BY <1>4, <1>5

(* A creation takes the room that was asked for.                           *)
LEMMA CreateBytes ==
  ASSUME NEW t \in Task, NEW id \in Id, IInv, TypeOK', ByteInv, Create(t, id)
  PROVE  ByteInv'
<1> USE DEF TaskTo, converterVars
<1>1. TypeOK /\ LockInv /\ SizesInv /\ SizesInv'
  BY SizesThroughout DEF IInv
<1>2. Total(Reserved') <= Total(Reserved) + CaptureMax
  <2>1. Sizes(Reserved) /\ Sizes(Reserved')
    BY SizesThroughout, <1>1 DEF SizesInv
  <2>2. /\ \A u \in Named' \ {t} : u \in Named
        /\ \A u \in Partials' \ {t} : u \in Partials
        /\ t \in Partials'
    BY <1>1, FileAssumption DEF Create, TypeOK, Named, Partials
  <2>3. /\ DOMAIN Reserved = Named /\ DOMAIN Reserved' = Named'
        /\ t \in Named' => Reserved'[t] = CaptureMax
    BY <2>2 DEF Reserved
  <2>4. \A u \in Named' \ {t} : Reserved'[u] <= Reserved[u]
    BY <1>1, <2>2, SizeAssumption DEF Reserved, TypeOK, Create, Named, Partials
  <2>5. CaptureMax \in Nat
    BY SizeAssumption
  <2>6. \A u \in DOMAIN Reserved' \ {t} :
          u \in DOMAIN Reserved /\ Reserved'[u] <= Reserved[u]
    BY <2>2, <2>3, <2>4
  <2>7. t \in DOMAIN Reserved' => Reserved'[t] <= CaptureMax
    BY <2>3, <2>5
  <2> QED
    BY <2>1, <2>5, <2>6, <2>7, TotalGrows
<1>3. Kept' + Total(temp') <= StoredMax
  <2>1. Kept + Total(temp) + CaptureMax <= StoredMax
    BY DEF Create, ByteInv
  <2> QED
    BY <1>1, <1>2, <2>1, SizeAssumption DEF Create, Kept, SizesInv
<1>4. \A u \in Task : tpc'[u] # "creating"
  BY <1>1, LockAssumption DEF LockInv, Create, TypeOK
<1>5. \A k \in Converter : kpc'[k] \notin {"opening", "converting"}
  BY <1>1, LockAssumption DEF LockInv, Create, TypeOK
<1> QED
  BY <1>1, <1>3, <1>4, <1>5, SizeAssumption DEF ByteInv, SizesInv

(* The check of a conversion takes off the file that it will replace.      *)
LEMMA ConvertLocksBytes ==
  ASSUME NEW k \in Converter, NEW id \in Id, IInv, TypeOK', ByteInv, ConvertLocks(k, id)
  PROVE  ByteInv'
<1> USE DEF fileVars, taskVars
<1>1. TypeOK /\ LockInv /\ SizesInv
  BY SizesThroughout DEF IInv
<1>2. UNCHANGED <<Kept, temp, pcap, tpc>>
  BY DEF ConvertLocks, Kept, Reserved, Named, Partials
<1>3. temp[k] = 0 /\ pcap[id] \in Nat
  BY <1>1, SizeAssumption DEF ConvertLocks, LockInv, TypeOK
<1>4. Kept + Total(temp) - temp[k] - pcap[id] + PcapMax <= StoredMax
  BY <1>1, <1>3, UsedIsKept, SizeAssumption DEF ConvertLocks, Capacity, SizesInv
<1>5. \A j \in Converter : kpc'[j] \in {"opening", "converting"} => j = k /\ job'[j] = id
  BY <1>1, LockAssumption DEF ConvertLocks, LockInv, TypeOK
<1> QED
  BY <1>2, <1>4, <1>5 DEF ByteInv

(* The one converter that has the lock writes to its temporary file, and   *)
(* the room it has asked for is enough.                                    *)
LEMMA WritesBytes ==
  ASSUME NEW k \in Converter, IInv, TypeOK', ByteInv,
         ConvertOpens(k) \/ ConvertWrites(k)
  PROVE  ByteInv'
<1>1. TypeOK /\ LockInv /\ SizesInv /\ SizesInv'
  BY SizesThroughout DEF IInv
<1>2. /\ UNCHANGED <<Kept, pcap, tpc, job>>
      /\ kpc[k] \in {"opening", "converting"}
  BY DEF ConvertOpens, ConvertWrites, Kept, Reserved, Named, Partials, taskVars,
     converterVars
<1>3. /\ temp' = [temp EXCEPT ![k] = temp[k] + 1]
      /\ temp[k] \in Nat /\ temp[k] + 1 <= PcapMax /\ pcap[job[k]] \in 0 .. PcapMax
  BY <1>1, SizeAssumption DEF ConvertOpens, ConvertWrites, TypeOK, LockInv
<1>4. Total(temp') = Total(temp) + 1 /\ temp'[k] = temp[k] + 1
  <2>1. k \in DOMAIN temp /\ temp[k] + 1 \in Nat
    BY <1>1, <1>3 DEF TypeOK
  <2>2. Total(temp') = Total(temp) - temp[k] + (temp[k] + 1)
    BY <1>1, <1>3, <2>1, TotalUpdate DEF SizesInv
  <2> QED
    BY <1>1, <1>3, <2>1, <2>2 DEF SizesInv
<1>5. Kept + Total(temp) - temp[k] - pcap[job[k]] + PcapMax <= StoredMax
  BY <1>2 DEF ByteInv
<1>6. /\ \A u \in Task : tpc'[u] # "creating"
      /\ \A j \in Converter : kpc'[j] \in {"opening", "converting"} => j = k
  BY <1>1, <1>2, LockAssumption DEF ConvertOpens, ConvertWrites, LockInv, TypeOK,
     converterVars
<1>7. /\ Kept' <= StoredMax
      /\ Kept' + Total(temp') <= StoredMax + PcapMax
      /\ Kept' + Total(temp') - temp'[k] - pcap'[job'[k]] + PcapMax <= StoredMax
  <2>1. Kept <= StoredMax
    BY DEF ByteInv
  <2>2. pcap'[job'[k]] = pcap[job[k]] /\ Kept' = Kept
    BY <1>2
  <2> QED
    BY <1>1, <1>3, <1>4, <1>5, <2>1, <2>2, SizeAssumption DEF SizesInv
<1> QED
  BY <1>6, <1>7 DEF ByteInv

(* A conversion ends: its temporary file is gone, or is the new pcap.      *)
LEMMA EndsBytes ==
  ASSUME NEW k \in Converter, IInv, TypeOK', ByteInv,
         ConvertFails(k) \/ ConvertReplaces(k)
  PROVE  ByteInv'
<1> USE DEF ConvertEnds
<1>1. TypeOK /\ LockInv /\ SizesInv /\ SizesInv'
  BY SizesThroughout DEF IInv
<1>2. /\ UNCHANGED <<Reserved, tpc>>
      /\ kpc[k] \in {"opening", "converting"}
      /\ temp' = [temp EXCEPT ![k] = 0]
  BY DEF ConvertFails, ConvertReplaces, Reserved, Named, Partials, taskVars
<1>3. /\ k \in DOMAIN temp /\ temp[k] \in 0 .. PcapMax
      /\ job[k] \in DOMAIN pcap /\ pcap[job[k]] \in 0 .. PcapMax
  BY <1>1, <1>2 DEF TypeOK, LockInv
<1>4. Total(temp') = Total(temp) - temp[k] /\ temp[k] <= Total(temp)
  <2>1. Total(temp') = Total(temp) - temp[k] + 0 /\ temp[k] <= Total(temp)
    BY <1>1, <1>2, <1>3, TotalUpdate DEF SizesInv
  <2> QED
    BY <1>1, <1>3, <2>1 DEF SizesInv
<1>5. Total(pcap') \in {Total(pcap), Total(pcap) - pcap[job[k]] + temp[k]}
  <2>1. CASE ConvertFails(k)
    BY <2>1 DEF ConvertFails
  <2>2. CASE ConvertReplaces(k)
    <3>1. pcap' = [pcap EXCEPT ![job[k]] = temp[k]] /\ temp[k] \in Nat
      BY <1>3, <2>2, SizeAssumption DEF ConvertReplaces
    <3> QED
      BY <1>1, <1>3, <3>1, TotalUpdate DEF SizesInv
  <2> QED
    BY <2>1, <2>2
<1>6. /\ Kept + Total(temp) - temp[k] - pcap[job[k]] + PcapMax <= StoredMax
      /\ Kept <= StoredMax
      /\ Kept + Total(temp) <= StoredMax + PcapMax
  BY <1>2 DEF ByteInv
<1>7. /\ \A u \in Task : tpc'[u] # "creating"
      /\ \A j \in Converter : kpc'[j] \notin {"opening", "converting"}
  BY <1>1, <1>2, LockAssumption DEF ConvertFails, ConvertReplaces, LockInv, TypeOK
<1>8. /\ Kept' <= StoredMax
      /\ Kept' + Total(temp') <= StoredMax + PcapMax
  <2>1. Kept' = Total(Reserved) + Total(pcap') /\ Kept = Total(Reserved) + Total(pcap)
    BY <1>2 DEF Kept
  <2>2. /\ temp[k] \in Nat /\ temp[k] <= PcapMax
        /\ pcap[job[k]] \in Nat /\ pcap[job[k]] <= PcapMax
        /\ PcapMax \in Nat /\ StoredMax \in Nat
    BY <1>3, SizeAssumption
  <2>3. CASE Total(pcap') = Total(pcap)
    BY <1>1, <1>4, <1>6, <2>1, <2>2, <2>3 DEF SizesInv
  <2>4. CASE Total(pcap') = Total(pcap) - pcap[job[k]] + temp[k]
    BY <1>1, <1>4, <1>6, <2>1, <2>2, <2>4 DEF SizesInv
  <2> QED
    BY <1>5, <2>3, <2>4
<1> QED
  BY <1>7, <1>8 DEF ByteInv

(* Crashed conversions keep their temporary files until the operator       *)
(* removes them.                                                           *)
LEMMA CrashBytes ==
  ASSUME NEW k \in Converter, IInv, TypeOK', ByteInv,
         CrashConverter(k) \/ RestartConverter(k)
  PROVE  ByteInv'
<1> USE DEF fileVars, taskVars
<1>1. TypeOK /\ LockInv /\ SizesInv /\ SizesInv'
  BY SizesThroughout DEF IInv
<1>2. CASE CrashConverter(k)
  <2>1. /\ UNCHANGED <<Reserved, pcap, temp, job, tpc>>
        /\ \A j \in Converter : kpc'[j] \in {"opening", "converting"} =>
                                  kpc[j] \in {"opening", "converting"}
    BY <1>1, <1>2 DEF CrashConverter, Reserved, Named, Partials, TypeOK
  <2>2. Total(Reserved') <= Total(Reserved)
    BY <1>1, <2>1 DEF SizesInv
  <2> QED
    BY <1>1, <2>1, <2>2, QuietStep
<1>3. CASE RestartConverter(k)
  <2>1. UNCHANGED <<Kept, pcap, tpc>>
    BY <1>3 DEF RestartConverter, Kept, Reserved, Named, Partials
  <2>2. /\ temp' = [temp EXCEPT ![k] = 0] /\ k \in DOMAIN temp /\ temp[k] \in Nat
    BY <1>1, <1>3, SizeAssumption DEF RestartConverter, TypeOK
  <2>3. Total(temp') = Total(temp) - temp[k] /\ Total(temp') <= Total(temp)
    <3>1. Total(temp') = Total(temp) - temp[k] + 0
      BY <1>1, <2>2, 0 \in Nat, TotalUpdate DEF SizesInv
    <3> QED
      BY <1>1, <2>2, <3>1 DEF SizesInv
  <2>4. ASSUME NEW t \in Task, tpc'[t] = "creating"
        PROVE  Kept' + Total(temp') + CaptureMax <= StoredMax
    BY <1>1, <2>1, <2>3, <2>4, SizeAssumption DEF ByteInv, SizesInv
  <2>5. ASSUME NEW j \in Converter, kpc'[j] \in {"opening", "converting"}
        PROVE  Kept' + Total(temp') - temp'[j] - pcap'[job'[j]] + PcapMax <= StoredMax
    <3>1. /\ j # k /\ kpc[j] \in {"opening", "converting"}
          /\ temp'[j] = temp[j] /\ job'[j] = job[j]
      BY <1>1, <1>3, <2>5 DEF RestartConverter, TypeOK
    <3>2. Kept + Total(temp) - temp[j] - pcap[job[j]] + PcapMax <= StoredMax
      BY <3>1 DEF ByteInv
    <3>3. temp[j] \in Nat /\ pcap[job[j]] \in Nat /\ pcap'[job'[j]] = pcap[job[j]]
      BY <1>1, <2>1, <3>1, SizeAssumption DEF TypeOK, LockInv
    <3> QED
      BY <1>1, <2>1, <2>3, <3>1, <3>2, <3>3, SizeAssumption DEF SizesInv
  <2>6. Kept' <= StoredMax /\ Kept' + Total(temp') <= StoredMax + PcapMax
    BY <1>1, <2>1, <2>3, SizeAssumption DEF ByteInv, SizesInv
  <2> QED
    BY <2>4, <2>5, <2>6 DEF ByteInv
<1> QED
  BY <1>2, <1>3

(* The operator makes room, also while the capture is being converted.     *)
LEMMA ArchiveBytes ==
  ASSUME NEW id \in Id, IInv, TypeOK', ByteInv, Archive(id)
  PROVE  ByteInv'
<1> USE DEF taskVars, converterVars
<1>1. TypeOK /\ LockInv /\ SizesInv /\ SizesInv'
  BY SizesThroughout DEF IInv
<1>2. Total(Reserved') <= Total(Reserved)
  BY <1>1, FileAssumption, ReservedShrinks DEF Archive, TypeOK, Named, Partials
<1>3. /\ pcap' = [pcap EXCEPT ![id] = 0] /\ id \in DOMAIN pcap
      /\ UNCHANGED <<temp, tpc, kpc, job>>
      /\ \A i \in Id : pcap[i] \in Nat
  BY <1>1, SizeAssumption DEF Archive, TypeOK
<1>4. Total(pcap') = Total(pcap) - pcap[id]
  <2>1. Total(pcap') = Total(pcap) - pcap[id] + 0
    BY <1>1, <1>3, TotalUpdate DEF SizesInv
  <2> QED
    BY <1>1, <1>3, <2>1 DEF SizesInv
<1>5. Kept' <= Kept - pcap[id] /\ Kept' <= Kept
  BY <1>1, <1>2, <1>3, <1>4 DEF Kept, SizesInv
<1>6. ASSUME NEW t \in Task, tpc'[t] = "creating"
      PROVE  Kept' + Total(temp') + CaptureMax <= StoredMax
  BY <1>1, <1>3, <1>5, <1>6, SizeAssumption DEF ByteInv, SizesInv
<1>7. ASSUME NEW k \in Converter, kpc'[k] \in {"opening", "converting"}
      PROVE  Kept' + Total(temp') - temp'[k] - pcap'[job'[k]] + PcapMax <= StoredMax
  <2>1. job[k] \in Id /\ temp[k] \in Nat
    BY <1>1, <1>3, <1>7, SizeAssumption DEF TypeOK, LockInv
  <2>2. Kept + Total(temp) - temp[k] - pcap[job[k]] + PcapMax <= StoredMax
    BY <1>3, <1>7 DEF ByteInv
  <2>3. Kept' - pcap'[job'[k]] <= Kept - pcap[job[k]]
    BY <1>1, <1>3, <1>5, <2>1 DEF SizesInv, TypeOK
  <2>4. pcap'[job'[k]] \in Nat
    BY <1>3, <2>1 DEF TypeOK
  <2> QED
    BY <1>1, <1>3, <2>1, <2>2, <2>3, <2>4, SizeAssumption DEF SizesInv
<1>8. Kept' <= StoredMax /\ Kept' + Total(temp') <= StoredMax + PcapMax
  BY <1>1, <1>3, <1>5, SizeAssumption DEF ByteInv, SizesInv
<1> QED
  BY <1>6, <1>7, <1>8 DEF ByteInv

(* Every step keeps the account of bytes.                                  *)
LEMMA NextBytes == IInv /\ ByteInv /\ TypeOK' /\ [Next]_vars => ByteInv'
<1> SUFFICES ASSUME IInv, ByteInv, TypeOK', [Next]_vars PROVE ByteInv'
  OBVIOUS
<1>1. CASE UNCHANGED vars
  BY <1>1 DEF vars, fileVars, taskVars, converterVars, ByteInv, Kept, Reserved,
     Named, Partials
<1>2. CASE Next
  BY <1>2, TaskBytes, CreateBytes, ConvertLocksBytes, WritesBytes, EndsBytes,
     CrashBytes, ArchiveBytes DEF Next, TaskStep, Converting
<1> QED
  BY <1>1, <1>2

(* The account of bytes holds throughout.                                  *)
LEMMA BytesThroughout == Spec => [](TypeOK /\ ByteInv)
<1>1. Init => ByteInv
  <2> SUFFICES ASSUME Init PROVE ByteInv
    OBVIOUS
  <2>1. Named = {}
    BY FileAssumption DEF Init, Named
  <2>2. Bytes(Reserved) = {} /\ Bytes(pcap) = {} /\ Bytes(temp) = {}
    BY <2>1 DEF Init, Bytes, Reserved
  <2>3. Total(Reserved) = 0 /\ Total(pcap) = 0 /\ Total(temp) = 0
    BY <2>2, FS_EmptySet DEF Total
  <2> QED
    BY <2>3, SizeAssumption DEF Init, ByteInv, Kept
<1>2. IInv => TypeOK
  BY DEF IInv
<1> QED
  BY <1>1, <1>2, NextBytes, Invariance, PTL DEF Spec

(* The bytes stored keep within the quota whenever no conversion is running *)
(* or was cut short by a crash (capture.py:246): a reservation counts a     *)
(* full capture from the check on, however little of it is written, and the *)
(* steps that take no lock only give room back.                             *)
THEOREM BytesAreBounded == Spec => []ByteQuota
<1>1. TypeOK /\ ByteInv => ByteQuota
  <2> SUFFICES ASSUME TypeOK, ByteInv, \A k \in Converter : temp[k] = 0
               PROVE  StoredBytes <= StoredMax
    BY DEF ByteQuota
  <2>1. Bytes(temp) = {}
    BY DEF Bytes, TypeOK
  <2>2. Total(temp) = 0
    BY <2>1, FS_EmptySet DEF Total
  <2>3. StoredBytes <= Kept + Total(temp) /\ StoredBytes \in Nat
    BY StoredIsKept
  <2> QED
    BY <2>2, <2>3, TotalsType, SizeAssumption DEF ByteInv
<1> QED
  BY <1>1, BytesThroughout, PTL

(* Whatever crashes, what is stored above the quota is at most one pcap: a  *)
(* conversion writes next to the file it will replace, which the account    *)
(* has taken off, and only one converter at a time is past the check        *)
(* (tshark.py:43).                                                          *)
THEOREM ExcessIsBounded == Spec => []BoundedExcess
<1>1. TypeOK /\ ByteInv => BoundedExcess
  BY StoredIsKept, TotalsType, SizeAssumption DEF ByteInv, BoundedExcess
<1> QED
  BY <1>1, BytesThroughout, PTL

=============================================================================
