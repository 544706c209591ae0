--------------------------- MODULE ServicesProofs ---------------------------
(***************************************************************************)
(* The safety properties of the services that keep their state to          *)
(* themselves, for every value of their constants: the circuit breaker,    *)
(* the watchdog, the SIEM exporter, the audit log, the policy reloader and *)
(* the social mesh.                                                        *)
(***************************************************************************)
EXTENDS CircuitBreaker, Watchdog, SIEMExporter, AuditLog, PolicyReloader, SocialMesh,
        SequenceTheorems, FiniteSetTheorems, TLAPS

-----------------------------------------------------------------------------
(* The circuit breaker.                                                    *)

BreakerType ==
  /\ circuit \in {"CLOSED", "OPEN", "HALF_OPEN"}
  /\ success_count \in Nat
  /\ half_open_calls \in Nat

(* TrialLeft is inductive once the counters are known to be numbers.       *)
BreakerInv == BreakerType /\ TrialLeft

LEMMA BreakerStarts == BreakerInit => BreakerInv
  BY BreakerAssumption DEF BreakerInit, BreakerInv, BreakerType, TrialLeft

(* Every use of the breaker's lock keeps the two counters of trial calls   *)
(* together, whichever call it belongs to and whenever that call began.    *)
LEMMA BreakerStep == BreakerInv /\ [BreakerNext]_breakerVars => BreakerInv'
<1> SUFFICES ASSUME BreakerInv, [BreakerNext]_breakerVars PROVE BreakerInv'
  BY Zenon
<1> USE BreakerAssumption DEF BreakerInv, BreakerType, TrialLeft
<1>1. ASSUME NEW c \in Caller, CheckState(c) PROVE BreakerInv'
  BY <1>1 DEF CheckState
<1>2. ASSUME NEW c \in Caller, AskForTrial(c) PROVE BreakerInv'
  BY Zenon, <1>2 DEF AskForTrial
<1>3. ASSUME NEW c \in Caller, record_success(c) PROVE BreakerInv'
  <2>1. CASE circuit = "HALF_OPEN"
    BY <1>3, <2>1 DEF record_success
  <2>2. CASE circuit # "HALF_OPEN"
    BY Zenon, <1>3, <2>2 DEF record_success
  <2>3. QED
    BY Zenon, <2>1, <2>2
<1>4. ASSUME NEW c \in Caller, record_failure(c) PROVE BreakerInv'
  BY <1>4 DEF record_failure
<1>5. CASE RecoveryTimeout
  BY Zenon, <1>5 DEF RecoveryTimeout
<1>6. CASE ServiceChanges
  BY Zenon, <1>6 DEF ServiceChanges
<1>7. CASE UNCHANGED breakerVars
  BY Zenon, <1>7 DEF breakerVars
<1>8. QED
  BY Zenon, <1>1, <1>2, <1>3, <1>4, <1>5, <1>6, <1>7 DEF BreakerNext

(* A half-open circuit always has a trial left, so it can never turn every *)
(* call away for ever.                                                     *)
THEOREM TrialAlwaysLeft == BreakerSpec => []TrialLeft
<1>1. BreakerInv => TrialLeft
  BY Zenon DEF BreakerInv
<1>2. QED
  BY <1>1, BreakerStarts, BreakerStep, PTL DEF BreakerSpec

-----------------------------------------------------------------------------
(* The watchdog.                                                           *)

(* Once it has ended the watchdog does nothing, so FailClosed is inductive *)
(* as it stands: each way to end is its own case.                          *)
LEMMA DogStep == FailClosed /\ [DogNext]_dogVars => FailClosed'
<1> SUFFICES ASSUME FailClosed, [DogNext]_dogVars PROVE FailClosed'
  BY Zenon
<1> USE DEF FailClosed
<1>1. execute_kill => FailClosed'
  BY Zenon DEF execute_kill
<1>2. CASE TargetEnded
  BY Zenon, <1>2 DEF TargetEnded
<1>3. CASE MemoryViolation \/ CpuViolation
  BY Zenon, <1>1, <1>3 DEF MemoryViolation, CpuViolation
<1>4. CASE CpuSpike \/ CpuNormal
  BY Zenon, <1>4 DEF CpuSpike, CpuNormal
<1>5. CASE MonitorError
  BY Zenon, <1>1, <1>5 DEF MonitorError
<1>6. CASE Second \/ TargetChanges
  BY Zenon, <1>6 DEF Second, TargetChanges
<1>7. CASE UNCHANGED dogVars
  BY Zenon, <1>7 DEF dogVars
<1>8. QED
  BY Zenon, <1>2, <1>3, <1>4, <1>5, <1>6, <1>7 DEF DogNext, Iteration

(* The watchdog never ends while its target runs, unless the kill itself   *)
(* failed, for any patience and any number of tolerated errors.            *)
THEOREM EndsWithTarget == DogSpec => []FailClosed
<1>1. DogInit => FailClosed
  BY Zenon DEF DogInit, FailClosed
<1>2. QED
  BY <1>1, DogStep, PTL DEF DogSpec

-----------------------------------------------------------------------------
(* The SIEM exporter.                                                      *)

ExporterType ==
  /\ event_queue \in Seq(Nat) /\ batch \in Seq(Nat) /\ accounted \in Seq(Nat) /\ received \in Seq(Nat)
  /\ exported \in Nat /\ events_sent \in Nat /\ events_failed \in Nat

(* Of the events after the first n the SIEM has none beyond m, and has     *)
(* none before all that come between.                                      *)
FromStart(r, n, m) ==
  \A i \in 1 .. Len(r) : r[i] <= m /\ \A e \in n + 1 .. r[i] : \E k \in 1 .. i : r[k] = e

(* What the SIEM has of the batch in the worker's hands it has from the    *)
(* start of the batch, and it has nothing beyond.                          *)
BatchFromStart == FromStart(received, Len(accounted), Len(accounted) + Len(batch))

(* EventsAccounted is inductive by itself; ReceivedInOrder needs what is   *)
(* known of the batch that may be sent again.                              *)
ExporterInv == ExporterType /\ EventsAccounted /\ BatchFromStart /\ ReceivedInOrder

(* The concatenation of EventsAccounted, event by event.                   *)
Numbered(s, offset) == \A i \in 1 .. Len(s) : s[i] = offset + i

LEMMA InPlaces ==
  ASSUME NEW a \in Seq(Nat), NEW b \in Seq(Nat), NEW q \in Seq(Nat), NEW n \in Nat
  PROVE  a \o b \o q = UpTo(n)
           <=> /\ Len(a) + Len(b) + Len(q) = n
               /\ Numbered(a, 0) /\ Numbered(b, Len(a)) /\ Numbered(q, Len(a) + Len(b))
<1> DEFINE s == a \o b \o q
<1>1. Len(a) \in Nat /\ Len(b) \in Nat /\ Len(q) \in Nat
  BY Zenon, LenProperties
<1>2. /\ a \o b \in Seq(Nat) /\ Len(a \o b) = Len(a) + Len(b)
      /\ \A i \in 1 .. Len(a) + Len(b) : (a \o b)[i] = IF i <= Len(a) THEN a[i] ELSE b[i - Len(a)]
  BY Zenon, ConcatProperties
<1>3. /\ s \in Seq(Nat) /\ Len(s) = Len(a) + Len(b) + Len(q)
      /\ \A i \in 1 .. Len(a) + Len(b) + Len(q) :
           s[i] = IF i <= Len(a) + Len(b) THEN (a \o b)[i] ELSE q[i - (Len(a) + Len(b))]
  BY <1>2, ConcatProperties
<1>4. UpTo(n) \in Seq(Nat) /\ Len(UpTo(n)) = n /\ \A i \in 1 .. n : UpTo(n)[i] = i
  BY DEF UpTo
<1> HIDE DEF s
<1>5. s = UpTo(n) <=> Len(s) = n /\ \A i \in 1 .. n : s[i] = i
  BY Zenon, <1>3, <1>4, SeqEqual
<1>6. (\A i \in 1 .. Len(s) : s[i] = i)
        <=> Numbered(a, 0) /\ Numbered(b, Len(a)) /\ Numbered(q, Len(a) + Len(b))
  <2>1. ASSUME \A i \in 1 .. Len(s) : s[i] = i
        PROVE  Numbered(a, 0) /\ Numbered(b, Len(a)) /\ Numbered(q, Len(a) + Len(b))
    <3>1. ASSUME NEW i \in 1 .. Len(a) PROVE a[i] = 0 + i
      <4>1. i \in 1 .. Len(a) + Len(b) /\ i \in 1 .. Len(a) + Len(b) + Len(q) /\ i <= Len(a) + Len(b)
        BY <1>1
      <4>2. s[i] = (a \o b)[i] /\ (a \o b)[i] = a[i] /\ s[i] = i
        <5>1. s[i] = (a \o b)[i] /\ (a \o b)[i] = IF i <= Len(a) THEN a[i] ELSE b[i - Len(a)]
          BY ONLY Zenon, <1>2, <1>3, <4>1
        <5>2. i <= Len(a)
          BY SMT, <1>1
        <5>3. s[i] = i
          BY Zenon, <1>3, <2>1, <4>1
        <5> QED
          BY ONLY Zenon, <5>1, <5>2, <5>3
      <4>3. QED
        BY <4>2
    <3>2. ASSUME NEW i \in 1 .. Len(b) PROVE b[i] = Len(a) + i
      <4>1. Len(a) + i \in 1 .. Len(a) + Len(b) /\ ~(Len(a) + i <= Len(a)) /\ (Len(a) + i) - Len(a) = i
        BY <1>1
      <4>2. /\ Len(a) + i \in 1 .. Len(a) + Len(b) + Len(q) /\ Len(a) + i <= Len(a) + Len(b)
        BY <1>1
      <4>3. s[Len(a) + i] = (a \o b)[Len(a) + i] /\ (a \o b)[Len(a) + i] = b[i] /\ s[Len(a) + i] = Len(a) + i
        BY Zenon, <1>2, <1>3, <2>1, <4>1, <4>2
      <4>4. QED
        BY Zenon, <4>3
    <3>3. ASSUME NEW i \in 1 .. Len(q) PROVE q[i] = Len(a) + Len(b) + i
      <4>1. /\ Len(a) + Len(b) + i \in 1 .. Len(a) + Len(b) + Len(q)
            /\ ~(Len(a) + Len(b) + i <= Len(a) + Len(b))
            /\ (Len(a) + Len(b) + i) - (Len(a) + Len(b)) = i
        BY <1>1
      <4>2. QED
        BY Zenon, <1>3, <2>1, <4>1
    <3>4. QED
      BY Zenon, <3>1, <3>2, <3>3 DEF Numbered
  <2>2. ASSUME Numbered(a, 0), Numbered(b, Len(a)), Numbered(q, Len(a) + Len(b)), NEW i \in 1 .. Len(s)
        PROVE  s[i] = i
    <3>1. CASE i <= Len(a)
      <4>1. /\ i \in 1 .. Len(a) /\ i \in 1 .. Len(a) + Len(b) /\ i <= Len(a) + Len(b)
            /\ i \in 1 .. Len(a) + Len(b) + Len(q)
        BY <1>1, <1>3, <3>1
      <4>2. s[i] = (a \o b)[i] /\ (a \o b)[i] = a[i] /\ a[i] = 0 + i
        BY Zenon, <1>2, <1>3, <2>2, <3>1, <4>1 DEF Numbered
      <4>3. QED
        BY <4>2
    <3>2. CASE ~(i <= Len(a)) /\ i <= Len(a) + Len(b)
      <4>1. /\ i - Len(a) \in 1 .. Len(b) /\ i \in 1 .. Len(a) + Len(b)
            /\ i \in 1 .. Len(a) + Len(b) + Len(q) /\ Len(a) + (i - Len(a)) = i
        BY <1>1, <3>2
      <4>2. b[i - Len(a)] = Len(a) + (i - Len(a))
        BY Zenon, <2>2, <4>1 DEF Numbered
      <4>3. s[i] = b[i - Len(a)]
        BY ONLY Zenon, <1>2, <1>3, <3>2, <4>1
      <4>4. QED
        BY ONLY Zenon, <4>1, <4>2, <4>3
    <3>3. CASE ~(i <= Len(a) + Len(b))
      <4>1. /\ i - (Len(a) + Len(b)) \in 1 .. Len(q) /\ i \in 1 .. Len(a) + Len(b) + Len(q)
            /\ Len(a) + Len(b) + (i - (Len(a) + Len(b))) = i
        BY <1>1, <1>3, <3>3
      <4>2. q[i - (Len(a) + Len(b))] = Len(a) + Len(b) + (i - (Len(a) + Len(b)))
        BY Zenon, <2>2, <4>1 DEF Numbered
      <4>3. QED
        BY ONLY Zenon, <1>3, <3>3, <4>1, <4>2
    <3>4. QED
      BY Zenon, <1>1, <3>1, <3>2, <3>3
  <2>3. QED
    BY Zenon, <2>1, <2>2
<1>7. QED
  BY Zenon, <1>3, <1>5, <1>6 DEF s

LEMMA Placed ==
  ASSUME NEW a \in Seq(Nat), NEW b \in Seq(Nat), NEW q \in Seq(Nat), NEW n \in Nat,
         Len(a) + Len(b) + Len(q) = n,
         Numbered(a, 0), Numbered(b, Len(a)), Numbered(q, Len(a) + Len(b))
  PROVE  a \o b \o q = UpTo(n)
  BY InPlaces, SMT

InOrder(r) == \A i, j \in 1 .. Len(r) : i < j /\ r[i] > r[j] => \E k \in 1 .. i : r[k] = r[j]

(* Sending a batch, for the first time or again, keeps what was received   *)
(* in order: an event of it that seems late was there before.              *)
LEMMA SentAgain ==
  ASSUME NEW r \in Seq(Nat), NEW b \in Seq(Nat), NEW n \in Nat,
         Numbered(b, n), FromStart(r, n, n + Len(b)), InOrder(r)
  PROVE  FromStart(r \o b, n, n + Len(b)) /\ InOrder(r \o b)
<1> DEFINE s == r \o b
<1>1. Len(r) \in Nat /\ Len(b) \in Nat /\ \A i \in 1 .. Len(r) : r[i] \in Nat
  BY Zenon, LenProperties, ElementOfSeq
<1>2. Len(s) = Len(r) + Len(b)
  BY Zenon, ConcatProperties
<1>3. \A i \in 1 .. Len(r) : s[i] = r[i]
  BY <1>1, ConcatProperties
<1>4. ASSUME NEW i \in 1 .. Len(s), ~(i <= Len(r))
      PROVE  i - Len(r) \in 1 .. Len(b) /\ s[i] = n + (i - Len(r))
  <2>1. i \in 1 .. Len(r) + Len(b) /\ i - Len(r) \in 1 .. Len(b)
    BY <1>1, <1>2, <1>4
  <2>2. s[i] = b[i - Len(r)]
    BY Zenon, <1>4, <2>1, ConcatProperties
  <2>3. QED
    BY Zenon, <2>1, <2>2 DEF Numbered
<1> HIDE DEF s
<1>5. ASSUME NEW i \in 1 .. Len(s) PROVE s[i] \in Nat /\ s[i] <= n + Len(b)
  <2>1. CASE i <= Len(r)
    <3>1. i \in 1 .. Len(r)
      BY SMT, <1>1, <1>2, <2>1
    <3> QED
      BY Zenon, <1>1, <1>3, <3>1 DEF FromStart
  <2>2. CASE ~(i <= Len(r))
    <3>1. i - Len(r) \in 1 .. Len(b) /\ s[i] = n + (i - Len(r))
      BY Zenon, <1>4, <2>2
    <3> QED
      BY ONLY SMT, <1>1, <3>1, n \in Nat
  <2>3. QED
    BY Zenon, <2>1, <2>2
<1>6. ASSUME NEW i \in 1 .. Len(s), NEW e \in n + 1 .. s[i]
      PROVE  \E k \in 1 .. i : s[k] = e
  <2>1. CASE i <= Len(r)
    <3>1. i \in 1 .. Len(r) /\ e \in n + 1 .. r[i]
      BY <1>1, <1>2, <1>3, <2>1
    <3>2. PICK k \in 1 .. i : r[k] = e
      BY Zenon, <3>1 DEF FromStart
    <3>3. k \in 1 .. Len(r)
      BY <1>1, <2>1
    <3>4. QED
      BY Zenon, <1>3, <3>2, <3>3
  <2>2. CASE ~(i <= Len(r))
    <3>1. i - Len(r) \in 1 .. Len(b) /\ s[i] = n + (i - Len(r))
      BY Zenon, <1>4, <2>2
    <3> DEFINE k == Len(r) + (e - n)
    <3>2. k \in 1 .. i /\ k \in 1 .. Len(s) /\ ~(k <= Len(r)) /\ n + (k - Len(r)) = e
      BY <1>1, <1>2, <3>1
    <3> HIDE DEF k
    <3>3. s[k] = n + (k - Len(r))
      BY Zenon, <1>4, <3>2
    <3>4. QED
      BY Zenon, <3>2, <3>3
  <2>3. QED
    BY Zenon, <2>1, <2>2
<1>7. FromStart(s, n, n + Len(b))
  BY Zenon, <1>5, <1>6 DEF FromStart
<1>8. ASSUME NEW i \in 1 .. Len(s), NEW j \in 1 .. Len(s), i < j, s[i] > s[j]
      PROVE  \E k \in 1 .. i : s[k] = s[j]
  <2>1. CASE j <= Len(r)
    <3>1. i \in 1 .. Len(r) /\ j \in 1 .. Len(r)
      BY <1>1, <1>2, <1>8, <2>1
    <3>2. PICK k \in 1 .. i : r[k] = r[j]
      BY Zenon, <1>3, <1>8, <3>1 DEF InOrder
    <3>3. k \in 1 .. Len(r)
      BY <1>1, <3>1
    <3>4. QED
      BY Zenon, <1>3, <3>1, <3>2, <3>3
  <2>2. CASE ~(j <= Len(r))
    <3>1. s[j] = n + (j - Len(r)) /\ j - Len(r) \in 1 .. Len(b)
      BY Zenon, <1>4, <2>2
    <3>2. s[j] \in n + 1 .. s[i]
      BY <1>1, <1>5, <1>8, <3>1
    <3>3. QED
      BY Zenon, <1>6, <3>2
  <2>3. QED
    BY Zenon, <2>1, <2>2
<1>9. QED
  BY Zenon, <1>7, <1>8 DEF InOrder, s

(* The state in the words of the two lemmas.                               *)
LEMMA ExporterState ==
  ASSUME ExporterInv
  PROVE  /\ Len(accounted) \in Nat /\ Len(batch) \in Nat /\ Len(event_queue) \in Nat
         /\ Len(accounted) + Len(batch) + Len(event_queue) = exported
         /\ Numbered(accounted, 0) /\ Numbered(batch, Len(accounted))
         /\ Numbered(event_queue, Len(accounted) + Len(batch))
         /\ InOrder(received)
<1>1. Len(accounted) \in Nat /\ Len(batch) \in Nat /\ Len(event_queue) \in Nat
  BY Zenon, LenProperties DEF ExporterInv, ExporterType
<1>2. InOrder(received)
  BY Zenon DEF ExporterInv, ReceivedInOrder, InOrder
<1>3. /\ accounted \in Seq(Nat) /\ batch \in Seq(Nat) /\ event_queue \in Seq(Nat) /\ exported \in Nat
      /\ accounted \o batch \o event_queue = UpTo(exported)
  BY Zenon DEF ExporterInv, ExporterType, EventsAccounted
<1>4. /\ Len(accounted) + Len(batch) + Len(event_queue) = exported
      /\ Numbered(accounted, 0) /\ Numbered(batch, Len(accounted))
      /\ Numbered(event_queue, Len(accounted) + Len(batch))
  BY <1>3, InPlaces, Zenon
<1>5. QED
  BY Zenon, <1>1, <1>2, <1>4

(* The batch is counted as sent or as failed.                              *)
LEMMA BatchCounted ==
  ASSUME ExporterInv, CountBatch, UNCHANGED <<event_queue, exported>>,
         received' \in Seq(Nat), FromStart(received', Len(accounted), Len(accounted) + Len(batch))
  PROVE  /\ accounted' \in Seq(Nat) /\ batch' \in Seq(Nat)
         /\ Len(accounted') = Len(accounted) + Len(batch)
         /\ accounted' \o batch' \o event_queue' = UpTo(exported')
         /\ BatchFromStart'
<1> USE ExporterState DEF ExporterInv, ExporterType
<1>1. /\ accounted' = accounted \o batch /\ batch' = <<>>
      /\ accounted' \in Seq(Nat) /\ batch' \in Seq(Nat) /\ Len(batch') = 0
  BY Zenon, ConcatProperties, EmptySeq DEF CountBatch
<1>2. /\ Len(accounted') = Len(accounted) + Len(batch)
      /\ \A i \in 1 .. Len(accounted) + Len(batch) :
           accounted'[i] = IF i <= Len(accounted) THEN accounted[i] ELSE batch[i - Len(accounted)]
  BY <1>1, ConcatProperties
<1>3. ASSUME NEW i \in 1 .. Len(accounted') PROVE accounted'[i] = 0 + i
  <2>1. CASE i <= Len(accounted)
    <3>1. i \in 1 .. Len(accounted) /\ i \in 1 .. Len(accounted) + Len(batch)
      BY <1>2, <2>1
    <3>2. accounted[i] = 0 + i
      BY <3>1, Zenon DEF Numbered
    <3>3. QED
      BY Zenon, <1>2, <2>1, <3>1, <3>2
  <2>2. CASE ~(i <= Len(accounted))
    <3>1. i - Len(accounted) \in 1 .. Len(batch)
      BY <1>2, <2>2
    <3>2. batch[i - Len(accounted)] = Len(accounted) + (i - Len(accounted))
      BY Zenon, <3>1 DEF Numbered
    <3>3. QED
      BY <1>2, <2>2, <3>2
  <2>3. QED
    BY Zenon, <2>1, <2>2
<1>4. Numbered(accounted', 0) /\ Numbered(batch', Len(accounted'))
  BY <1>1, <1>3 DEF Numbered
<1>5. Numbered(event_queue', Len(accounted') + Len(batch'))
  BY <1>1, <1>2 DEF Numbered
<1>6. Len(accounted') + Len(batch') + Len(event_queue') = exported'
  BY <1>1, <1>2
<1>7. accounted' \o batch' \o event_queue' = UpTo(exported')
  <2>1. event_queue' \in Seq(Nat) /\ exported' \in Nat
    BY Zenon
  <2>2. QED
    BY <1>1, <1>4, <1>5, <1>6, <2>1, InPlaces
<1>8. FromStart(received', Len(accounted'), Len(accounted') + Len(batch'))
  BY <1>1, <1>2, ElementOfSeq DEF FromStart
<1>9. QED
  BY Zenon, <1>1, <1>2, <1>7, <1>8 DEF BatchFromStart

LEMMA ExporterStep == ExporterInv /\ [ExporterNext]_exporterVars => ExporterInv'
<1> SUFFICES ASSUME ExporterInv, [ExporterNext]_exporterVars PROVE ExporterInv'
  BY Zenon
<1>0. /\ ExporterType /\ EventsAccounted /\ BatchFromStart /\ ReceivedInOrder
      /\ Len(accounted) \in Nat /\ Len(batch) \in Nat /\ Len(event_queue) \in Nat
      /\ Len(accounted) + Len(batch) + Len(event_queue) = exported
      /\ Numbered(accounted, 0) /\ Numbered(batch, Len(accounted))
      /\ Numbered(event_queue, Len(accounted) + Len(batch))
      /\ InOrder(received)
  BY Zenon, ExporterState DEF ExporterInv
<1>a. ASSUME UNCHANGED <<event_queue, batch, exported, accounted, events_sent, events_failed, received>>
      PROVE  ExporterInv'
  BY <1>0, <1>a DEF ExporterInv, ExporterType, EventsAccounted, BatchFromStart, ReceivedInOrder, FromStart
<1>b. received \o batch \in Seq(Nat) /\ FromStart(received \o batch, Len(accounted), Len(accounted) + Len(batch))
      /\ InOrder(received \o batch)
  <2>1. received \o batch \in Seq(Nat)
    BY Zenon, <1>0, ConcatProperties DEF ExporterType
  <2>2. QED
    BY Zenon, <1>0, <2>1, SentAgain DEF ExporterType, BatchFromStart
<1>1. CASE export
  <2> USE <1>0, <1>1 DEF export, ExporterType
  <2>1. /\ exported' = exported + 1 /\ event_queue' = Append(event_queue, exported + 1)
        /\ UNCHANGED <<batch, accounted, events_sent, events_failed, received>>
    BY Zenon
  <2>2. /\ exported' \in Nat /\ event_queue' \in Seq(Nat) /\ Len(event_queue') = Len(event_queue) + 1
        /\ \A i \in 1 .. Len(event_queue) : event_queue'[i] = event_queue[i]
        /\ event_queue'[Len(event_queue) + 1] = exported + 1
    BY <2>1
  <2>3. Numbered(event_queue', Len(accounted) + Len(batch))
    <3>1. ASSUME NEW i \in 1 .. Len(event_queue')
          PROVE  event_queue'[i] = Len(accounted) + Len(batch) + i
      <4>1. CASE i \in 1 .. Len(event_queue)
        <5>1. event_queue[i] = Len(accounted) + Len(batch) + i
          BY <4>1, Zenon DEF Numbered
        <5>2. QED
          BY Zenon, <2>2, <4>1, <5>1
      <4>2. CASE i = Len(event_queue) + 1
        <5>1. /\ Len(accounted) \in Nat /\ Len(batch) \in Nat /\ Len(event_queue) \in Nat
              /\ Len(accounted) + Len(batch) + Len(event_queue) = exported
              /\ event_queue'[i] = exported + 1
          BY Zenon, <2>2, <4>2
        <5>2. QED
          BY ONLY <4>2, <5>1
      <4>3. i \in 1 .. Len(event_queue) \/ i = Len(event_queue) + 1
        <5>1. Len(event_queue) \in Nat /\ Len(event_queue') = Len(event_queue) + 1
          BY Zenon, <2>2
        <5>2. QED
          BY ONLY <5>1, i \in 1 .. Len(event_queue')
      <4>4. QED
        BY Zenon, <4>1, <4>2, <4>3
    <3>2. QED
      BY Zenon, <3>1 DEF Numbered
  <2>4. accounted \o batch \o event_queue' = UpTo(exported')
    <3>1. /\ Len(accounted) \in Nat /\ Len(batch) \in Nat /\ Len(event_queue) \in Nat
          /\ Len(accounted) + Len(batch) + Len(event_queue) = exported
          /\ exported' = exported + 1 /\ Len(event_queue') = Len(event_queue) + 1
      BY Zenon, <2>1, <2>2
    <3>2. Len(accounted) + Len(batch) + Len(event_queue') = exported'
      BY ONLY <3>1
    <3>3. /\ accounted \in Seq(Nat) /\ batch \in Seq(Nat) /\ event_queue' \in Seq(Nat) /\ exported' \in Nat
          /\ Numbered(accounted, 0) /\ Numbered(batch, Len(accounted))
      BY Zenon, <2>2
    <3>4. QED
      BY ONLY <2>3, <3>2, <3>3, Placed, Zenon
  <2>5. EventsAccounted'
    BY Zenon, <2>1, <2>4 DEF EventsAccounted
  <2>6. BatchFromStart' /\ ReceivedInOrder'
    BY <2>1 DEF BatchFromStart, ReceivedInOrder, FromStart
  <2>7. QED
    BY Zenon, <2>1, <2>2, <2>5, <2>6 DEF ExporterInv
<1>2. CASE Collect
  <2>1. CASE event_queue = <<>>
    BY Zenon, <1>2, <1>a, <2>1 DEF Collect
  <2>2. CASE event_queue # <<>>
    <3>1. /\ batch' = Append(batch, Head(event_queue)) /\ event_queue' = Tail(event_queue)
          /\ UNCHANGED <<exported, accounted, events_sent, events_failed, received>>
      BY Zenon, <1>2, <2>2 DEF Collect
    <3>2. /\ Head(event_queue) = event_queue[1] /\ Len(event_queue) > 0 /\ event_queue[1] \in Nat
          /\ event_queue' \in Seq(Nat) /\ Len(event_queue') = Len(event_queue) - 1
          /\ \A i \in 1 .. Len(event_queue') : event_queue'[i] = event_queue[i + 1]
      BY <1>0, <2>2, <3>1, HeadTailProperties, EmptySeq, ElementOfSeq DEF ExporterType
    <3>3. /\ batch' \in Seq(Nat) /\ Len(batch') = Len(batch) + 1
          /\ \A i \in 1 .. Len(batch) : batch'[i] = batch[i]
          /\ batch'[Len(batch) + 1] = event_queue[1]
      BY <1>0, <3>1, <3>2 DEF ExporterType
    <3>4. event_queue[1] = Len(accounted) + Len(batch) + 1
      BY <1>0, <3>2 DEF Numbered
    <3>5. Numbered(batch', Len(accounted))
      <4>1. ASSUME NEW i \in 1 .. Len(batch') PROVE batch'[i] = Len(accounted) + i
        <5>1. CASE i \in 1 .. Len(batch)
          BY Zenon, <1>0, <3>3, <5>1 DEF Numbered
        <5>2. CASE i = Len(batch) + 1
          BY <1>0, <3>3, <3>4, <5>2
        <5>3. QED
          BY <1>0, <3>3, <5>1, <5>2
      <4>2. QED
        BY Zenon, <4>1 DEF Numbered
    <3>6. Numbered(event_queue', Len(accounted) + Len(batch'))
      BY <1>0, <3>2, <3>3 DEF Numbered
    <3>7. accounted \o batch' \o event_queue' = UpTo(exported)
      <4>1. Len(accounted) + Len(batch') + Len(event_queue') = exported
        BY <1>0, <3>2, <3>3
      <4>2. /\ accounted \in Seq(Nat) /\ batch' \in Seq(Nat) /\ event_queue' \in Seq(Nat) /\ exported \in Nat
            /\ Numbered(accounted, 0)
        BY Zenon, <1>0, <3>2, <3>3 DEF ExporterType
      <4>3. QED
        BY ONLY <3>5, <3>6, <4>1, <4>2, Placed, Zenon
    <3>8. FromStart(received, Len(accounted), Len(accounted) + Len(batch'))
      <4>1. \A i \in 1 .. Len(received) : received[i] \in Nat
        BY Zenon, <1>0, ElementOfSeq DEF ExporterType
      <4>2. \A m \in Nat : m <= Len(accounted) + Len(batch) => m <= Len(accounted) + Len(batch')
        BY <1>0, <3>3
      <4>3. QED
        BY <1>0, <4>1, <4>2, Zenon DEF BatchFromStart, FromStart
    <3>9. ExporterType'
      BY Zenon, <1>0, <3>1, <3>2, <3>3 DEF ExporterType
    <3>10. EventsAccounted'
      BY <1>0, <3>1, <3>7, Zenon DEF EventsAccounted
    <3>11. BatchFromStart'
      BY <3>1, <3>8, Zenon DEF BatchFromStart
    <3>12. ReceivedInOrder'
      BY <1>0, <3>1 DEF ReceivedInOrder, InOrder
    <3>13. QED
      BY Zenon, <3>9, <3>10, <3>11, <3>12 DEF ExporterInv
  <2>3. QED
    BY Zenon, <2>1, <2>2
<1>3. CASE Send
  <2>1. /\ CountBatch /\ UNCHANGED <<event_queue, exported, events_failed>>
        /\ received' = received \o batch /\ events_sent' = events_sent + Len(batch)
    BY Zenon, <1>3 DEF Send
  <2>2. /\ accounted' \in Seq(Nat) /\ batch' \in Seq(Nat)
        /\ Len(accounted') = Len(accounted) + Len(batch)
        /\ accounted' \o batch' \o event_queue' = UpTo(exported')
        /\ BatchFromStart'
    BY Zenon, <1>b, <2>1, BatchCounted
  <2>3. InOrder(received')
    BY Zenon, <1>b, <2>1
  <2>4. events_sent' + events_failed' = Len(accounted')
    <3>1. /\ events_sent \in Nat /\ events_failed \in Nat /\ events_sent + events_failed = Len(accounted)
          /\ Len(batch) \in Nat /\ events_failed' = events_failed /\ events_sent' = events_sent + Len(batch)
      BY Zenon, <1>0, <2>1 DEF EventsAccounted, ExporterType
    <3>2. Len(accounted') = Len(accounted) + Len(batch)
      BY Zenon, <2>2
    <3>3. QED
      BY <3>1, <3>2
  <2>5. ExporterType'
    BY <1>0, <1>b, <2>1, <2>2 DEF ExporterType
  <2>6. QED
    BY Zenon, <2>2, <2>3, <2>4, <2>5 DEF ExporterInv, EventsAccounted, ReceivedInOrder, InOrder
<1>4. CASE SendFails
  <2>1. CASE received' = received
    BY Zenon, <1>4, <1>a, <2>1 DEF SendFails
  <2>2. CASE received' = received \o batch
    <3>1. UNCHANGED <<event_queue, batch, exported, accounted, events_sent, events_failed>>
      BY Zenon, <1>4 DEF SendFails
    <3>2. ExporterType'
      BY Zenon, <1>0, <1>b, <2>2, <3>1 DEF ExporterType
    <3>3. EventsAccounted'
      BY <1>0, <3>1, Zenon DEF EventsAccounted
    <3>4. BatchFromStart' /\ InOrder(received')
      BY <1>b, <2>2, <3>1, Zenon DEF BatchFromStart
    <3>5. QED
      BY Zenon, <3>2, <3>3, <3>4 DEF ExporterInv, ReceivedInOrder, InOrder
  <2>3. QED
    BY Zenon, <1>4, <2>1, <2>2 DEF SendFails
<1>5. CASE GiveUp
  <2>1. /\ CountBatch /\ UNCHANGED <<event_queue, exported, events_sent, received>>
        /\ events_failed' = events_failed + Len(batch)
    BY Zenon, <1>5 DEF GiveUp
  <2>2. /\ accounted' \in Seq(Nat) /\ batch' \in Seq(Nat)
        /\ Len(accounted') = Len(accounted) + Len(batch)
        /\ accounted' \o batch' \o event_queue' = UpTo(exported')
        /\ BatchFromStart'
    BY Zenon, <1>0, <2>1, BatchCounted DEF BatchFromStart, ExporterType
  <2>3. events_sent' + events_failed' = Len(accounted')
    <3>1. /\ events_sent \in Nat /\ events_failed \in Nat /\ events_sent + events_failed = Len(accounted)
          /\ Len(batch) \in Nat /\ events_sent' = events_sent /\ events_failed' = events_failed + Len(batch)
      BY Zenon, <1>0, <2>1 DEF EventsAccounted, ExporterType
    <3>2. Len(accounted') = Len(accounted) + Len(batch)
      BY Zenon, <2>2
    <3>3. QED
      BY <3>1, <3>2
  <2>4. ExporterType'
    BY <1>0, <2>1, <2>2 DEF ExporterType
  <2>5. QED
    BY <1>0, <2>1, <2>2, <2>3, <2>4 DEF ExporterInv, EventsAccounted, ReceivedInOrder
<1>6. CASE shutdown \/ Decide \/ Leave \/ UNCHANGED exporterVars
  BY Zenon, <1>6, <1>a DEF shutdown, Decide, Leave, exporterVars
<1>7. QED
  BY Zenon, <1>1, <1>2, <1>3, <1>4, <1>5, <1>6 DEF ExporterNext

LEMMA ExporterStarts == ExporterInit => ExporterInv
<1> SUFFICES ASSUME ExporterInit PROVE ExporterInv
  BY Zenon
<1> USE DEF ExporterInit
<1>1. ExporterType
  BY Zenon, EmptySeq DEF ExporterType
<1>2. EventsAccounted
  <2>1. <<>> \o <<>> \o <<>> = UpTo(0)
    <3>1. <<>> \in Seq(Nat) /\ Len(<<>>) = 0 /\ 0 \in Nat /\ 0 + 0 + 0 = 0
      BY EmptySeq
    <3>2. \A n : Numbered(<<>>, n)
      BY <3>1 DEF Numbered
    <3>3. Len(<<>>) + Len(<<>>) + Len(<<>>) = 0
      BY Zenon, <3>1
    <3>4. QED
      BY ONLY <3>1, <3>2, <3>3, Placed, Zenon
  <2>2. QED
    BY <2>1, EmptySeq DEF EventsAccounted
<1>3. BatchFromStart /\ ReceivedInOrder
  BY EmptySeq DEF BatchFromStart, FromStart, ReceivedInOrder
<1>4. QED
  BY Zenon, <1>1, <1>2, <1>3 DEF ExporterInv

(* However requests fail, no event is lost, counted twice or overtaken     *)
(* between export() and the counters, for any batch size and any number of *)
(* retries and events.                                                     *)
THEOREM NoEventLost == ExporterSpec => []EventsAccounted
<1>1. ExporterInv => EventsAccounted
  BY Zenon DEF ExporterInv
<1>2. QED
  BY <1>1, ExporterStarts, ExporterStep, PTL DEF ExporterSpec

(* The SIEM first sees events in the order of their export, although whole *)
(* batches are sent again after a failure that may have come too late.     *)
THEOREM FirstSeenInOrder == ExporterSpec => []ReceivedInOrder
<1>1. ExporterInv => ReceivedInOrder
  BY Zenon DEF ExporterInv
<1>2. QED
  BY <1>1, ExporterStarts, ExporterStep, PTL DEF ExporterSpec

-----------------------------------------------------------------------------
(* The audit log.                                                          *)

AuditType ==
  /\ lines \in Seq(Event \cup {Garbled})
  /\ cut \in BOOLEAN /\ alive \in BOOLEAN
  /\ written \in Nat /\ torn \in Nat
  /\ previous_hash \in 0 .. written /\ counter \in 0 .. written
  /\ logged \subseteq 1 .. written
  /\ \A i \in Readable : lines[i].event_hash <= written /\ lines[i].id <= written

(* Events are written in the order of their numbers, torn lines or not.    *)
Increasing == \A i, j \in Readable : i < j => lines[i].event_hash < lines[j].event_hash

LastHash == IF lines = <<>> THEN 0 ELSE lines[Len(lines)].event_hash

(* Without a torn write each line carries on from the one before, and the  *)
(* running process carries on from the last.                               *)
Unbroken ==
  torn = 0 =>
    /\ ~cut
    /\ \A i \in 1 .. Len(lines) :
         /\ lines[i] # Garbled
         /\ lines[i].previous_hash = IF i = 1 THEN 0 ELSE lines[i - 1].event_hash
    /\ Recorded = logged
    /\ alive => previous_hash = LastHash

(* A line without its newline was never acknowledged, and the loss of the  *)
(* event that will be written onto it is paid for already.                 *)
Tears ==
  /\ cut => lines # <<>> /\ (lines[Len(lines)] # Garbled => lines[Len(lines)].event_hash \notin logged)
  /\ Cardinality(logged \ Recorded) + (IF cut THEN 1 ELSE 0) <= torn

AuditInv == AuditType /\ Increasing /\ Unbroken /\ Tears

(* A line is appended.                                                     *)
LEMMA LineAdded ==
  ASSUME AuditType, NEW e \in Event \cup {Garbled}, lines' = Append(lines, e)
  PROVE  /\ Len(lines) \in Nat /\ lines' \in Seq(Event \cup {Garbled}) /\ Len(lines') = Len(lines) + 1
         /\ \A i \in 1 .. Len(lines) : lines'[i] = lines[i]
         /\ lines'[Len(lines) + 1] = e
         /\ Readable' = Readable \cup (IF e = Garbled THEN {} ELSE {Len(lines) + 1})
<1>1. lines \in Seq(Event \cup {Garbled})
  BY Zenon DEF AuditType
<1>2. /\ Len(lines) \in Nat /\ lines' \in Seq(Event \cup {Garbled}) /\ Len(lines') = Len(lines) + 1
      /\ \A i \in 1 .. Len(lines) : lines'[i] = lines[i]
      /\ lines'[Len(lines) + 1] = e
  BY <1>1
<1>3. 1 .. Len(lines') = (1 .. Len(lines)) \cup {Len(lines) + 1}
  BY <1>2
<1>4. Readable' = Readable \cup (IF e = Garbled THEN {} ELSE {Len(lines) + 1})
  <2>1. \A i \in 1 .. Len(lines) : i \in Readable' <=> i \in Readable
    BY <1>2, <1>3, Zenon DEF Readable
  <2>2. Len(lines) + 1 \in Readable' <=> e # Garbled
    BY <1>2, <1>3, Zenon DEF Readable
  <2>3. Readable \subseteq 1 .. Len(lines) /\ Readable' \subseteq 1 .. Len(lines')
    BY Zenon DEF Readable
  <2>4. QED
    BY <1>3, <2>1, <2>2, <2>3, Zenon
<1>5. QED
  BY Zenon, <1>2, <1>4

(* The last line, which has no newline, takes the text.                    *)
LEMMA LineLost ==
  ASSUME AuditType, lines # <<>>, lines' = [lines EXCEPT ![Len(lines)] = Garbled]
  PROVE  /\ lines' \in Seq(Event \cup {Garbled}) /\ Len(lines') = Len(lines)
         /\ Len(lines) \in Nat \ {0}
         /\ \A i \in 1 .. Len(lines) : i # Len(lines) => lines'[i] = lines[i]
         /\ lines'[Len(lines)] = Garbled
         /\ Readable' = Readable \ {Len(lines)}
<1>1. lines \in Seq(Event \cup {Garbled}) /\ Len(lines) \in Nat \ {0}
  BY Zenon, EmptySeq DEF AuditType
<1>2. Len(lines) \in 1 .. Len(lines) /\ Garbled \in Event \cup {Garbled}
  BY <1>1
<1>3. /\ lines' \in Seq(Event \cup {Garbled}) /\ Len(lines') = Len(lines)
      /\ \A i \in 1 .. Len(lines) : lines'[i] = IF i = Len(lines) THEN Garbled ELSE lines[i]
  BY <1>1, <1>2, ExceptSeq
<1>4. Readable' = Readable \ {Len(lines)}
  <2>1. \A i \in 1 .. Len(lines) : i \in Readable' <=> i \in Readable /\ i # Len(lines)
    BY <1>3, Zenon DEF Readable
  <2>2. Readable \subseteq 1 .. Len(lines) /\ Readable' \subseteq 1 .. Len(lines)
    BY Zenon, <1>3 DEF Readable
  <2>3. QED
    BY <2>1, <2>2, Zenon
<1>5. QED
  BY Zenon, <1>1, <1>2, <1>3, <1>4

LEMMA ReadableEvent == ASSUME AuditType, NEW i \in Readable
                       PROVE  /\ i \in Nat /\ i \in 1 .. Len(lines) /\ lines[i] \in Event
                              /\ lines[i].event_hash \in Nat /\ lines[i].event_hash <= written
<1>1. i \in 1 .. Len(lines) /\ lines[i] # Garbled
  BY Zenon DEF Readable
<1>2. lines[i] \in Event \cup {Garbled}
  BY Zenon, <1>1, ElementOfSeq DEF AuditType
<1>3. QED
  BY <1>1, <1>2 DEF AuditType, Event

LEMMA NewEventReadable ==
  ASSUME AuditType
  PROVE  /\ NewEvent \in Event /\ NewEvent # Garbled
         /\ NewEvent.event_hash = written + 1 /\ NewEvent.previous_hash = previous_hash
         /\ NewEvent.id = counter + 1
  BY GarbledAssumption DEF AuditType, NewEvent, Event

(* What the two changes of the file do to the hashes that can be read.     *)
LEMMA RecordedAdded ==
  ASSUME AuditType, NEW e \in Event \cup {Garbled}, lines' = Append(lines, e)
  PROVE  Recorded' = Recorded \cup (IF e = Garbled THEN {} ELSE {e.event_hash})
<1>1. /\ \A i \in Readable : lines'[i] = lines[i]
      /\ lines'[Len(lines) + 1] = e
      /\ Readable' = Readable \cup (IF e = Garbled THEN {} ELSE {Len(lines) + 1})
  BY Zenon, LineAdded DEF Readable
<1>2. CASE e = Garbled
  BY Zenon, <1>1, <1>2 DEF Recorded
<1>3. CASE e # Garbled
  BY <1>1, <1>3, Zenon DEF Recorded
<1>4. QED
  BY Zenon, <1>2, <1>3

LEMMA RecordedLost ==
  ASSUME AuditType, Tears, cut, lines' = [lines EXCEPT ![Len(lines)] = Garbled]
  PROVE  Recorded' \subseteq Recorded /\ logged \ Recorded' = logged \ Recorded
<1>1. lines # <<>>
  BY Zenon DEF Tears
<1>2. /\ \A i \in Readable' : lines'[i] = lines[i] /\ i \in Readable
      /\ \A i \in Readable : i \in Readable' \/ i = Len(lines)
  BY Zenon, <1>1, LineLost DEF Readable
<1>3. Recorded' \subseteq Recorded
  BY <1>2, Zenon DEF Recorded
<1>4. ASSUME NEW h \in logged, h \in Recorded PROVE h \in Recorded'
  <2>1. PICK i \in Readable : h = lines[i].event_hash
    BY Zenon, <1>4 DEF Recorded
  <2>2. i # Len(lines)
    BY <2>1, Zenon DEF Tears, Readable
  <2>3. i \in Readable' /\ lines'[i] = lines[i]
    BY Zenon, <1>2, <2>2
  <2>4. QED
    BY <2>1, <2>3, Zenon DEF Recorded
<1>5. QED
  BY Zenon, <1>3, <1>4

(* Each line that can still be read was there before, or is the new event. *)
OldOrNew == \A i \in Readable' : (i \in Readable /\ lines'[i] = lines[i]) \/ (i = Len(lines) + 1 /\ lines'[i] = NewEvent)

LEMMA TextWritten ==
  ASSUME AuditInv, NEW e \in {NewEvent, Garbled}, lines' = Appended(e)
  PROVE  /\ lines' \in Seq(Event \cup {Garbled}) /\ lines' # <<>>
         /\ OldOrNew
         /\ cut => logged \ Recorded' = logged \ Recorded /\ written + 1 \notin Recorded' /\ Garbled = lines'[Len(lines')]
         /\ ~cut => Recorded' = Recorded \cup (IF e = Garbled THEN {} ELSE {written + 1}) /\ e = lines'[Len(lines')]
<1> USE DEF AuditInv
<1>1. NewEvent \in Event /\ NewEvent # Garbled /\ NewEvent.event_hash = written + 1
  BY Zenon, NewEventReadable
<1>2. CASE cut
  <2>1. lines # <<>> /\ lines' = [lines EXCEPT ![Len(lines)] = Garbled]
    BY Zenon, <1>2 DEF Appended, Tears
  <2>2. /\ lines' \in Seq(Event \cup {Garbled}) /\ Len(lines') = Len(lines)
        /\ Len(lines) \in Nat \ {0}
        /\ \A i \in 1 .. Len(lines) : i # Len(lines) => lines'[i] = lines[i]
        /\ lines'[Len(lines)] = Garbled
        /\ Readable' = Readable \ {Len(lines)}
    BY Zenon, <2>1, LineLost
  <2>3. lines' # <<>>
    BY Zenon, <2>2, EmptySeq
  <2>4. OldOrNew
    BY Zenon, <2>2 DEF OldOrNew, Readable
  <2>5. Recorded' \subseteq Recorded /\ logged \ Recorded' = logged \ Recorded
    BY Zenon, <1>2, <2>1, RecordedLost
  <2>6. written + 1 \notin Recorded
    BY ReadableEvent DEF Recorded, AuditType
  <2>7. QED
    BY Zenon, <1>2, <2>2, <2>3, <2>4, <2>5, <2>6
<1>3. CASE ~cut
  <2>1. lines' = Append(lines, e) /\ e \in Event \cup {Garbled}
    BY Zenon, <1>1, <1>3 DEF Appended
  <2>2. /\ Len(lines) \in Nat /\ lines' \in Seq(Event \cup {Garbled}) /\ Len(lines') = Len(lines) + 1
        /\ \A i \in 1 .. Len(lines) : lines'[i] = lines[i]
        /\ lines'[Len(lines) + 1] = e
        /\ Readable' = Readable \cup (IF e = Garbled THEN {} ELSE {Len(lines) + 1})
    BY Zenon, <2>1, LineAdded
  <2>3. lines' # <<>>
    BY <2>2, EmptySeq
  <2>4. OldOrNew
    BY Zenon, <2>2 DEF OldOrNew, Readable
  <2>5. Recorded' = Recorded \cup (IF e = Garbled THEN {} ELSE {e.event_hash})
    BY Zenon, <2>1, RecordedAdded
  <2>6. QED
    BY Zenon, <1>1, <1>3, <2>2, <2>3, <2>4, <2>5
<1>4. QED
  BY Zenon, <1>2, <1>3

LEMMA StillTyped ==
  ASSUME AuditType, OldOrNew, lines' \in Seq(Event \cup {Garbled}), written' = written + 1,
         cut' \in BOOLEAN, alive' \in BOOLEAN, torn' \in Nat,
         previous_hash' \in {previous_hash, written + 1}, counter' = counter + 1,
         logged' \subseteq logged \cup {written + 1}
  PROVE  AuditType'
<1>1. written \in Nat /\ written' \in Nat /\ counter \in 0 .. written /\ previous_hash \in 0 .. written
  BY DEF AuditType
<1>2. previous_hash' \in 0 .. written' /\ counter' \in 0 .. written'
  BY <1>1
<1>3. logged' \subseteq 1 .. written'
  BY <1>1 DEF AuditType
<1>4. ASSUME NEW i \in Readable' PROVE lines'[i].event_hash <= written' /\ lines'[i].id <= written'
  <2>1. CASE i \in Readable /\ lines'[i] = lines[i]
    <3>1. lines[i] \in Event /\ lines[i].event_hash <= written /\ lines[i].id <= written
      BY Zenon, <2>1, ReadableEvent DEF AuditType
    <3>2. lines[i].event_hash \in Nat /\ lines[i].id \in Nat
      BY Zenon, <3>1 DEF Event
    <3>3. QED
      BY <1>1, <2>1, <3>1, <3>2
  <2>2. CASE lines'[i] = NewEvent
    BY <1>1, <2>2, NewEventReadable
  <2>3. QED
    BY Zenon, <2>1, <2>2 DEF OldOrNew
<1>5. QED
  BY Zenon, <1>1, <1>2, <1>3, <1>4 DEF AuditType

LEMMA StillIncreasing ==
  ASSUME AuditType, Increasing, OldOrNew
  PROVE  Increasing'
<1> SUFFICES ASSUME NEW i \in Readable', NEW j \in Readable', i < j
             PROVE  lines'[i].event_hash < lines'[j].event_hash
  BY Zenon DEF Increasing
<1>1. written \in Nat /\ Len(lines) \in Nat
  BY DEF AuditType
<1>2. /\ (i \in Readable /\ lines'[i] = lines[i]) \/ (i = Len(lines) + 1 /\ lines'[i] = NewEvent)
      /\ (j \in Readable /\ lines'[j] = lines[j]) \/ (j = Len(lines) + 1 /\ lines'[j] = NewEvent)
  BY Zenon DEF OldOrNew
<1>3. \A k \in Readable : k \in 1 .. Len(lines) /\ lines[k].event_hash \in Nat /\ lines[k].event_hash <= written
  BY Zenon, ReadableEvent
<1>4. CASE i \in Readable /\ lines'[i] = lines[i] /\ j \in Readable /\ lines'[j] = lines[j]
  BY Zenon, <1>4 DEF Increasing
<1>5. CASE i \in Readable /\ lines'[i] = lines[i] /\ lines'[j] = NewEvent
  BY <1>1, <1>3, <1>5, NewEventReadable
<1>6. CASE i = Len(lines) + 1
  BY <1>1, <1>2, <1>3, <1>6
<1>7. QED
  BY Zenon, <1>2, <1>4, <1>5, <1>6

LEMMA MissingFinite ==
  ASSUME AuditType
  PROVE  \A S \in SUBSET logged : IsFiniteSet(S) /\ Cardinality(S) \in Nat
<1>1. IsFiniteSet(1 .. written)
  BY FS_Interval DEF AuditType
<1>2. QED
  BY Zenon, <1>1, FS_Subset, FS_CardinalityType DEF AuditType

LEMMA LogStep == ASSUME AuditInv, log PROVE AuditInv'
<1> USE DEF AuditInv
<1>1. /\ alive /\ alive' = alive /\ torn' = torn /\ written' = written + 1 /\ counter' = counter + 1
      /\ cut' = FALSE /\ lines' = Appended(NewEvent)
      /\ previous_hash' = written + 1 /\ logged' = logged \cup {written + 1}
  BY Zenon, NewEventReadable DEF log
<1>2. written \in Nat /\ torn \in Nat /\ cut \in BOOLEAN /\ logged \subseteq 1 .. written
  BY Zenon DEF AuditType
<1>3. /\ lines' \in Seq(Event \cup {Garbled}) /\ lines' # <<>>
      /\ OldOrNew
      /\ cut => logged \ Recorded' = logged \ Recorded /\ written + 1 \notin Recorded'
      /\ ~cut => Recorded' = Recorded \cup {written + 1} /\ NewEvent = lines'[Len(lines')]
  BY Zenon, <1>1, TextWritten, NewEventReadable
<1>4. AuditType'
  BY Zenon, <1>1, <1>2, <1>3, StillTyped DEF AuditType
<1>5. Increasing'
  BY Zenon, <1>3, StillIncreasing
<1>6. Unbroken'
  <2> SUFFICES ASSUME torn = 0 PROVE Unbroken'
    BY Zenon, <1>1 DEF Unbroken
  <2>1. ~cut /\ Recorded = logged /\ previous_hash = LastHash
    BY Zenon, <1>1 DEF Unbroken
  <2>2. lines' = Append(lines, NewEvent)
    BY Zenon, <1>1, <2>1 DEF Appended
  <2>3. /\ Len(lines) \in Nat /\ Len(lines') = Len(lines) + 1
        /\ \A i \in 1 .. Len(lines) : lines'[i] = lines[i]
        /\ lines'[Len(lines) + 1] = NewEvent
    BY Zenon, <2>2, LineAdded, NewEventReadable
  <2>4. previous_hash = IF Len(lines) = 0 THEN 0 ELSE lines[Len(lines)].event_hash
    BY Zenon, <2>1, EmptySeq DEF LastHash, AuditType
  <2>5. ASSUME NEW i \in 1 .. Len(lines')
        PROVE  /\ lines'[i] # Garbled
               /\ lines'[i].previous_hash = IF i = 1 THEN 0 ELSE lines'[i - 1].event_hash
    <3>1. CASE i \in 1 .. Len(lines)
      <4>1. lines'[i] = lines[i] /\ (i # 1 => lines'[i - 1] = lines[i - 1])
        BY <2>3, <3>1
      <4>2. QED
        BY Zenon, <3>1, <4>1 DEF Unbroken
    <3>2. CASE i = Len(lines) + 1
      <4>1. lines'[i] = NewEvent /\ (i # 1 => lines'[i - 1] = lines[Len(lines)]) /\ (i = 1 <=> Len(lines) = 0)
        BY <2>3, <3>2
      <4>2. QED
        BY Zenon, <2>4, <4>1, NewEventReadable
    <3>3. QED
      BY <2>3, <3>1, <3>2
  <2>6. previous_hash' = LastHash'
    BY Zenon, <1>1, <1>3, <2>1, NewEventReadable DEF LastHash
  <2>7. Recorded' = logged'
    BY Zenon, <1>1, <1>3, <2>1
  <2>8. QED
    BY Zenon, <1>1, <2>5, <2>6, <2>7 DEF Unbroken
<1>7. Tears'
  <2>1. IsFiniteSet(logged \ Recorded) /\ Cardinality(logged \ Recorded) \in Nat
    BY Zenon, MissingFinite
  <2>2. CASE cut
    <3>1. logged' \ Recorded' = (logged \ Recorded) \cup {written + 1} /\ written + 1 \notin logged \ Recorded
      BY <1>1, <1>2, <1>3, <2>2
    <3>2. Cardinality(logged' \ Recorded') = Cardinality(logged \ Recorded) + 1
      BY Zenon, <2>1, <3>1, FS_AddElement
    <3>3. QED
      BY <1>1, <1>2, <2>1, <2>2, <3>2 DEF Tears
  <2>3. CASE ~cut
    <3>1. logged' \ Recorded' = logged \ Recorded
      BY <1>1, <1>2, <1>3, <2>3
    <3>2. QED
      BY Zenon, <1>1, <2>1, <2>3, <3>1 DEF Tears
  <2>4. QED
    BY Zenon, <1>2, <2>2, <2>3
<1>8. QED
  BY Zenon, <1>4, <1>5, <1>6, <1>7

LEMMA TornStep == ASSUME AuditInv, WriteTorn PROVE AuditInv'
<1> USE DEF AuditInv
<1>1. /\ alive' \in BOOLEAN /\ torn' = torn + 1 /\ written' = written + 1 /\ counter' = counter + 1
      /\ cut' = TRUE /\ previous_hash' = previous_hash /\ logged' = logged
  BY Zenon DEF WriteTorn
<1>2. written \in Nat /\ torn \in Nat /\ cut \in BOOLEAN /\ logged \subseteq 1 .. written
  BY Zenon DEF AuditType
<1>3. PICK e \in {NewEvent, Garbled} : lines' = Appended(e)
  BY Zenon DEF WriteTorn
<1>4. /\ lines' \in Seq(Event \cup {Garbled}) /\ lines' # <<>>
      /\ OldOrNew
      /\ cut => logged \ Recorded' = logged \ Recorded /\ Garbled = lines'[Len(lines')]
      /\ ~cut => Recorded' = Recorded \cup (IF e = Garbled THEN {} ELSE {written + 1}) /\ e = lines'[Len(lines')]
  BY Zenon, <1>3, TextWritten
<1>5. AuditType'
  BY <1>1, <1>2, <1>4, StillTyped DEF AuditType
<1>6. Increasing'
  BY Zenon, <1>4, StillIncreasing
<1>7. Unbroken'
  BY <1>1, <1>2 DEF Unbroken
<1>8. Tears'
  <2>1. Cardinality(logged \ Recorded) \in Nat
    BY Zenon, MissingFinite
  <2>2. written + 1 \notin logged
    BY <1>2
  <2>3. logged' \ Recorded' = logged \ Recorded
    BY Zenon, <1>1, <1>2, <1>4, <2>2
  <2>4. lines'[Len(lines')] # Garbled => lines'[Len(lines')].event_hash \notin logged'
    BY Zenon, <1>1, <1>2, <1>4, <2>2, NewEventReadable
  <2> DEFINE missing == Cardinality(logged \ Recorded)
  <2>5. Cardinality(logged' \ Recorded') + 1 <= torn'
    <3>1. missing + 1 <= torn \/ missing + 0 <= torn
      BY Zenon DEF Tears
    <3>2. missing + 1 <= torn + 1
      BY ONLY <1>2, <2>1, <3>1
    <3>3. QED
      BY Zenon, <1>1, <2>3, <3>2
  <2>6. QED
    BY Zenon, <1>1, <1>4, <2>4, <2>5 DEF Tears
<1>9. QED
  BY Zenon, <1>5, <1>6, <1>7, <1>8

LEMMA AuditStep == AuditInv /\ [AuditNext]_auditVars => AuditInv'
<1> SUFFICES ASSUME AuditInv, [AuditNext]_auditVars PROVE AuditInv'
  BY Zenon
<1> USE DEF AuditInv
<1>1. CASE log
  BY Zenon, <1>1, LogStep
<1>2. CASE WriteTorn
  BY Zenon, <1>2, TornStep
<1> DEFINE FileKept == UNCHANGED <<lines, cut, logged, torn>>
<1>3. ASSUME FileKept
      PROVE  /\ Readable' = Readable /\ Recorded' = Recorded /\ LastHash' = LastHash
             /\ Increasing' /\ Tears'
  BY Zenon, <1>3 DEF Readable, Recorded, LastHash, Increasing, Tears
<1>4. CASE WriteFails
  <2>1. FileKept /\ alive' = alive /\ previous_hash' = previous_hash /\ written' = written + 1 /\ counter' = counter + 1
    BY Zenon, <1>4 DEF WriteFails
  <2>2. OldOrNew
    BY Zenon, <1>3, <2>1 DEF OldOrNew
  <2>3. AuditType'
    BY Zenon, <2>1, <2>2, StillTyped DEF AuditType
  <2>4. Unbroken'
    BY Zenon, <1>3, <2>1 DEF Unbroken
  <2>5. QED
    BY Zenon, <1>3, <2>1, <2>3, <2>4
<1>5. CASE Kill
  <2>1. FileKept /\ alive' = FALSE /\ UNCHANGED <<previous_hash, counter, written>>
    BY Zenon, <1>5 DEF Kill
  <2>2. AuditType'
    BY Zenon, <1>3, <2>1 DEF AuditType
  <2>3. Unbroken'
    BY Zenon, <1>3, <2>1 DEF Unbroken
  <2>4. QED
    BY Zenon, <1>3, <2>1, <2>2, <2>3
<1>6. CASE _load_chain_state
  <2> DEFINE last == lines[Len(lines)]
             unknown == lines = <<>> \/ last = Garbled
  <2>1. /\ FileKept /\ alive' = TRUE /\ written' = written
        /\ previous_hash' = IF unknown THEN 0 ELSE last.event_hash
        /\ counter' = IF unknown THEN 0 ELSE last.id
    BY Zenon, <1>6 DEF _load_chain_state
  <2>2. lines # <<>> => Len(lines) \in 1 .. Len(lines)
    BY EmptySeq DEF AuditType
  <2>3. ASSUME ~unknown
        PROVE  last.event_hash \in 0 .. written /\ last.id \in 0 .. written
    <3>1. Len(lines) \in Readable
      BY Zenon, <2>2, <2>3 DEF Readable
    <3>2. last \in Event /\ last.event_hash <= written /\ last.id <= written
      BY Zenon, <3>1, ReadableEvent DEF AuditType
    <3>3. QED
      BY <3>2 DEF Event, AuditType
  <2>4. previous_hash' \in 0 .. written /\ counter' \in 0 .. written
    BY <2>1, <2>3 DEF AuditType
  <2>5. AuditType'
    BY Zenon, <1>3, <2>1, <2>4 DEF AuditType
  <2>6. Unbroken'
    <3> SUFFICES ASSUME torn = 0 PROVE previous_hash' = LastHash
      BY Zenon, <1>3, <2>1 DEF Unbroken
    <3>1. lines # <<>> => last # Garbled
      BY Zenon, <2>2 DEF Unbroken
    <3>2. QED
      BY Zenon, <2>1, <3>1 DEF LastHash
  <2>7. QED
    BY Zenon, <1>3, <2>1, <2>5, <2>6
<1>7. CASE UNCHANGED auditVars
  <2>1. FileKept /\ UNCHANGED <<alive, previous_hash, counter, written>>
    BY Zenon, <1>7 DEF auditVars
  <2>2. AuditType' /\ Unbroken'
    BY Zenon, <1>3, <2>1 DEF AuditType, Unbroken
  <2>3. QED
    BY Zenon, <1>3, <2>1, <2>2
<1>8. QED
  BY Zenon, <1>1, <1>2, <1>4, <1>5, <1>6, <1>7 DEF AuditNext

LEMMA AuditStarts == AuditInit => AuditInv
<1> SUFFICES ASSUME AuditInit PROVE AuditInv
  BY Zenon
<1>1. /\ lines = <<>> /\ cut = FALSE /\ previous_hash = 0 /\ counter = 0 /\ alive = TRUE
      /\ logged = {} /\ written = 0 /\ torn = 0
  BY Zenon DEF AuditInit
<1>2. Readable = {} /\ Recorded = {} /\ 1 .. Len(lines) = {}
  BY <1>1 DEF Readable, Recorded
<1>3. AuditType
  <2>1. lines \in Seq(Event \cup {Garbled})
    BY Zenon, <1>1, EmptySeq
  <2>2. cut \in BOOLEAN /\ alive \in BOOLEAN
    BY ONLY <1>1, Zenon
  <2>3. written = 0 /\ torn = 0 /\ previous_hash = 0 /\ counter = 0 /\ logged = {}
    BY ONLY <1>1, Zenon
  <2>4. /\ written \in Nat /\ torn \in Nat
        /\ previous_hash \in 0 .. written /\ counter \in 0 .. written /\ logged \subseteq 1 .. written
    BY ONLY <2>3
  <2>5. QED
    BY ONLY Zenon, <1>2, <2>1, <2>2, <2>4 DEF AuditType
<1>4. Increasing /\ Unbroken
  BY Zenon, <1>1, <1>2 DEF Increasing, Unbroken, LastHash
<1>5. logged \ Recorded = {}
  BY Zenon, <1>1
<1>6. Tears
  BY <1>1, <1>5, FS_EmptySet DEF Tears
<1>7. QED
  BY Zenon, <1>3, <1>4, <1>6 DEF AuditInv

LEMMA ChainSound == AuditInv => ChainVerifies
<1> SUFFICES ASSUME AuditInv, torn = 0 PROVE ChainVerifies
  BY Zenon DEF ChainVerifies
<1>1. Readable = 1 .. Len(lines)
  BY Zenon DEF AuditInv, Unbroken, Readable
<1>2. ASSUME NEW i \in Readable PROVE lines[i].previous_hash = expected_prev(i)
  <2> DEFINE before == {j \in Readable : j < i}
  <2>1. Len(lines) \in Nat /\ i \in 1 .. Len(lines)
    BY <1>1, <1>2 DEF AuditInv, AuditType
  <2>2. CASE i = 1
    <3>1. before = {}
      BY <1>1, <2>1, <2>2
    <3>2. QED
      BY Zenon, <2>1, <2>2, <3>1 DEF expected_prev, AuditInv, Unbroken
  <2>3. CASE i # 1
    <3> DEFINE Latest(j) == j \in before /\ \A k \in before : k <= j
    <3>1. before = 1 .. (i - 1) /\ i - 1 \in before
      BY <1>1, <2>1, <2>3
    <3>2. Latest(i - 1) /\ \A j : Latest(j) => j = i - 1
      BY <2>1, <3>1
    <3>3. (CHOOSE j \in before : \A k \in before : k <= j) = i - 1
      BY Zenon, <3>2
    <3>4. expected_prev(i) = lines[i - 1].event_hash
      BY <3>1, <3>3, Zenon DEF expected_prev
    <3>5. QED
      BY Zenon, <2>1, <2>3, <3>4 DEF AuditInv, Unbroken
  <2>4. QED
    BY Zenon, <2>2, <2>3
<1>3. QED
  BY Zenon, <1>1, <1>2 DEF AuditInv, Unbroken, Increasing, ChainVerifies, verify_chain, BrokenChain

(* Through any sequence of restarts and failed writes, and any number of   *)
(* them, verify_chain accepts the file and finds every event for which     *)
(* log() returned, in order, provided no write was cut short.              *)
THEOREM ChainHolds == AuditSpec => []ChainVerifies
<1>1. QED
  BY AuditStarts, AuditStep, ChainSound, PTL DEF AuditSpec

(* However many writes are cut short, each costs at most one acknowledged  *)
(* event.                                                                  *)
THEOREM TearsPaidOnce == AuditSpec => []TearCostsOneEvent
<1>1. AuditInv => TearCostsOneEvent
  BY MissingFinite DEF AuditInv, Tears, TearCostsOneEvent, AuditType
<1>2. QED
  BY <1>1, AuditStarts, AuditStep, PTL DEF AuditSpec

-----------------------------------------------------------------------------
(* The policy reloader.                                                    *)

Policy == Content \cup {Default}

PolicyType ==
  /\ policy_file \in Content \cup {Unparsable, Missing}
  /\ mtime \in Nat /\ last_mtime \in Nat
  /\ policy_history \in Seq(Policy)
  /\ watching \in BOOLEAN /\ rolled_back \in BOOLEAN

(* There is an active policy exactly when a version was made, so that      *)
(* load_initial can make the first one only; and the time noted is never   *)
(* ahead of the file's.                                                    *)
PolicyInv ==
  /\ PolicyType
  /\ last_mtime <= mtime
  /\ current_policy = NoPolicy <=> policy_history = <<>>
  /\ NoEditMissed
  /\ OnlyFirstUnchecked

LEMMA PolicyStarts == PolicyInit => PolicyInv
<1> SUFFICES ASSUME PolicyInit PROVE PolicyInv
  BY Zenon
<1>1. PolicyType /\ last_mtime <= mtime /\ last_mtime # mtime
  <2>1. /\ mtime = 1 /\ last_mtime = 0 /\ watching = FALSE /\ rolled_back = FALSE
        /\ policy_history \in Seq(Policy) /\ policy_file \in Content
    BY Zenon, EmptySeq DEF PolicyInit
  <2>2. 0 \in Nat /\ 1 \in Nat /\ 0 <= 1 /\ 0 # 1
    OBVIOUS
  <2>3. QED
    BY ONLY Zenon, <2>1, <2>2 DEF PolicyType
<1>2. current_policy = NoPolicy /\ policy_history = <<>> /\ Len(<<>>) = 0
  BY Zenon, EmptySeq DEF PolicyInit
<1>3. OnlyFirstUnchecked
  BY ONLY <1>2 DEF OnlyFirstUnchecked
<1>4. QED
  BY ONLY Zenon, <1>1, <1>2, <1>3 DEF PolicyInv, NoEditMissed

(* A new version keeps what is known of the versions before it.            *)
LEMMA SwapKeeps ==
  ASSUME PolicyInv, NEW content \in Policy, Swap(content),
         policy_history = <<>> \/ content \in Valid
  PROVE  /\ policy_history' \in Seq(Policy)
         /\ current_policy' = content /\ current_policy' # NoPolicy
         /\ policy_history' # <<>> /\ OnlyFirstUnchecked'
<1> DEFINE h == policy_history
           n == Len(h)
<1>1. h \in Seq(Policy) /\ n \in Nat
  BY Zenon, LenProperties DEF PolicyInv, PolicyType
<1>2. current_policy' = content /\ h' = Append(h, content)
  BY Zenon DEF Swap
<1>3. /\ h' \in Seq(Policy) /\ Len(h') = n + 1 /\ h'[n + 1] = content
      /\ \A i \in 1 .. n : h'[i] = h[i]
  BY <1>1, <1>2, AppendProperties
<1>4. content # NoPolicy
  BY Zenon, PolicyAssumption DEF Policy, Content
<1>5. \A i \in 2 .. n : h[i] \in Valid
  BY Zenon DEF PolicyInv, OnlyFirstUnchecked
<1>6. h' # <<>>
  BY ONLY <1>1, <1>3, EmptySeq
<1>7. h = <<>> => n = 0
  BY Zenon, EmptySeq
<1>8. h = <<>> \/ content \in Valid
  BY Zenon
<1> HIDE DEF h, n
<1>9. \A i \in 2 .. n + 1 : h'[i] \in Valid
  <2> SUFFICES ASSUME NEW i \in 2 .. n + 1 PROVE h'[i] \in Valid
    BY Zenon
  <2>1. CASE i \in 2 .. n
    BY ONLY <1>1, <1>3, <1>5, <2>1
  <2>2. CASE i = n + 1
    BY ONLY <1>1, <1>3, <1>7, <1>8, <2>2, i \in 2 .. n + 1
  <2>3. QED
    BY ONLY <1>1, <2>1, <2>2, i \in 2 .. n + 1
<1>10. n + 1 \in 1 .. n + 1
  BY ONLY <1>1
<1>11. OnlyFirstUnchecked'
  BY Zenon, <1>2, <1>3, <1>9, <1>10 DEF OnlyFirstUnchecked, h
<1>12. QED
  BY Zenon, <1>2, <1>3, <1>4, <1>6, <1>11 DEF h

(* Every step of the watcher, of a reload by hand, of a rollback or of     *)
(* whoever edits the file keeps the invariant.                             *)
LEMMA PolicyStep == PolicyInv /\ [PolicyNext]_policyVars => PolicyInv'
<1> SUFFICES ASSUME PolicyInv, [PolicyNext]_policyVars PROVE PolicyInv'
  BY Zenon
<1>1. /\ policy_file \in Content \cup {Unparsable, Missing}
      /\ mtime \in Nat /\ last_mtime \in Nat /\ last_mtime <= mtime
      /\ policy_history \in Seq(Policy) /\ watching \in BOOLEAN /\ rolled_back \in BOOLEAN
      /\ current_policy = NoPolicy <=> policy_history = <<>>
      /\ NoEditMissed /\ OnlyFirstUnchecked
  BY Zenon DEF PolicyInv, PolicyType
<1>2. ASSUME UNCHANGED <<current_policy, policy_history>>
      PROVE  OnlyFirstUnchecked' /\ (current_policy = NoPolicy <=> policy_history = <<>>)'
  BY ONLY Zenon, <1>1, <1>2 DEF OnlyFirstUnchecked
<1>3. ASSUME NEW force \in BOOLEAN, Reload(force)
      PROVE  /\ policy_history' \in Seq(Policy)
             /\ OnlyFirstUnchecked' /\ (current_policy = NoPolicy <=> policy_history = <<>>)'
             /\ policy_file \in Valid => current_policy' = policy_file
  <2>1. CASE policy_file \in Valid /\ Swap(policy_file)
    <3>1. policy_file \in Policy
      BY Zenon, <2>1 DEF Policy, Content
    <3>2. QED
      BY Zenon, <2>1, <3>1, SwapKeeps
  <2>2. CASE /\ policy_file \notin Valid \/ policy_file = current_policy
             /\ UNCHANGED <<current_policy, policy_history>>
    BY Zenon, <1>1, <1>2, <2>2
  <2>3. QED
    BY Zenon, <1>3, <2>1, <2>2 DEF Reload
<1>4. CASE EditFile
  <2>1. /\ mtime' = mtime + 1 /\ last_mtime' = last_mtime /\ rolled_back' = FALSE
        /\ watching' = watching /\ UNCHANGED <<current_policy, policy_history>>
        /\ policy_file' \in Content \cup {Unparsable, Missing}
    BY Zenon, <1>4 DEF EditFile
  <2>2. mtime' \in Nat /\ last_mtime' \in Nat /\ last_mtime' <= mtime' /\ last_mtime' # mtime'
    BY ONLY <1>1, <2>1
  <2>3. QED
    BY ONLY Zenon, <1>1, <1>2, <2>1, <2>2 DEF PolicyInv, PolicyType, NoEditMissed
<1>5. CASE get_thresholds
  <2>1. /\ current_policy = NoPolicy /\ UNCHANGED <<policy_file, mtime, last_mtime, watching, rolled_back>>
        /\ Swap(IF policy_file = Missing THEN Default ELSE policy_file)
    BY Zenon, <1>5 DEF get_thresholds
  <2> DEFINE content == IF policy_file = Missing THEN Default ELSE policy_file
  <2>2. content \in Policy /\ policy_file # Unparsable
    BY Zenon, <1>1, <1>5 DEF Policy, get_thresholds
  <2>3. policy_file \in Valid => content = policy_file
    BY Zenon, PolicyAssumption
  <2>4. policy_history = <<>>
    BY Zenon, <1>1, <2>1
  <2>5. Swap(content)
    BY Zenon, <2>1
  <2> HIDE DEF content
  <2>6. /\ policy_history' \in Seq(Policy) /\ OnlyFirstUnchecked'
        /\ current_policy' = content /\ current_policy' # NoPolicy /\ policy_history' # <<>>
    BY Zenon, <2>2, <2>4, <2>5, SwapKeeps
  <2>7. QED
    BY ONLY Zenon, <1>1, <2>1, <2>3, <2>6 DEF PolicyInv, PolicyType, NoEditMissed
<1>6. ASSUME NEW force \in BOOLEAN, reload(force) PROVE PolicyInv'
  <2>1. Reload(force) /\ UNCHANGED <<policy_file, mtime, last_mtime, watching, rolled_back>>
    BY Zenon, <1>6 DEF reload
  <2>2. /\ policy_history' \in Seq(Policy)
        /\ OnlyFirstUnchecked' /\ (current_policy = NoPolicy <=> policy_history = <<>>)'
        /\ policy_file \in Valid => current_policy' = policy_file
    BY Zenon, <1>3, <2>1
  <2>3. QED
    BY ONLY Zenon, <1>1, <2>1, <2>2 DEF PolicyInv, PolicyType, NoEditMissed
<1>7. ASSUME NEW steps \in 1 .. MaxVersions, rollback(steps) PROVE PolicyInv'
  <2> DEFINE i == Len(policy_history) - steps
  <2>1. /\ current_policy' = policy_history[i] /\ rolled_back' = TRUE /\ Len(policy_history) > steps
        /\ UNCHANGED <<policy_file, mtime, last_mtime, watching, policy_history>>
    BY Zenon, <1>7 DEF rollback
  <2>2. i \in 1 .. Len(policy_history) /\ policy_history # <<>>
    BY <1>1, <2>1, LenProperties, EmptySeq
  <2> HIDE DEF i
  <2>3. policy_history[i] \in Policy
    BY Zenon, <1>1, <2>2, ElementOfSeq
  <2>4. current_policy' # NoPolicy
    BY Zenon, <2>1, <2>3, PolicyAssumption DEF Policy, Content
  <2>5. OnlyFirstUnchecked'
    BY ONLY Zenon, <1>1, <2>1, <2>2 DEF OnlyFirstUnchecked
  <2>6. QED
    BY ONLY Zenon, <1>1, <2>1, <2>2, <2>4, <2>5 DEF PolicyInv, PolicyType, NoEditMissed
<1>8. CASE WatchFile
  <2>1. /\ last_mtime' = mtime /\ watching' = TRUE /\ mtime' = mtime
        /\ UNCHANGED <<policy_file, current_policy, policy_history, rolled_back>>
    BY Zenon, <1>8 DEF WatchFile
  <2>2. QED
    BY ONLY <1>1, <1>2, <2>1 DEF PolicyInv, PolicyType, NoEditMissed
<1>9. CASE WatchReload
  <2>1. Reload(FALSE) /\ watching' = FALSE /\ UNCHANGED <<policy_file, mtime, last_mtime, rolled_back>>
    BY Zenon, <1>9 DEF WatchReload
  <2>2. /\ policy_history' \in Seq(Policy)
        /\ OnlyFirstUnchecked' /\ (current_policy = NoPolicy <=> policy_history = <<>>)'
        /\ policy_file \in Valid => current_policy' = policy_file
    BY Zenon, <1>3, <2>1
  <2>3. QED
    BY ONLY Zenon, <1>1, <2>1, <2>2 DEF PolicyInv, PolicyType, NoEditMissed
<1>10. CASE UNCHANGED policyVars
  <2>1. UNCHANGED <<policy_file, mtime, last_mtime, watching, current_policy, policy_history, rolled_back>>
    BY ONLY Zenon, <1>10 DEF policyVars
  <2>2. QED
    BY ONLY Zenon, <1>1, <1>2, <2>1 DEF PolicyInv, PolicyType, NoEditMissed
<1>11. QED
  BY Zenon, <1>4, <1>5, <1>6, <1>7, <1>8, <1>9, <1>10 DEF PolicyNext

(* The safety behind LastEditApplied, for any number of edits, versions    *)
(* and rollbacks: the watch thread notes the time before it reads the      *)
(* file, so an edit that comes between the two is noted once more.         *)
THEOREM WatcherCatchesUp == PolicySpec => []NoEditMissed
<1>1. PolicyInv => NoEditMissed
  BY Zenon DEF PolicyInv
<1>2. QED
  BY PolicyStarts, PolicyStep, <1>1, PTL DEF PolicySpec

(* No reload and no rollback makes a policy active that was not validated, *)
(* except for going back to the one that load_initial took.                *)
THEOREM VersionsAreChecked == PolicySpec => []OnlyFirstUnchecked
<1>1. PolicyInv => OnlyFirstUnchecked
  BY Zenon DEF PolicyInv
<1>2. QED
  BY PolicyStarts, PolicyStep, <1>1, PTL DEF PolicySpec

-----------------------------------------------------------------------------
(* The social mesh.                                                        *)

(* Stores hold texts dumped twice and nothing else.                        *)
MeshInv ==
  /\ up \subseteq Member
  /\ messages = [n \in Member |-> messages[n]]
  /\ metadata = [n \in Member |-> metadata[n]]
  /\ \A n \in Member : \A t \in metadata[n] : t.dumped = 2
  /\ ShownIsStored

LEMMA MeshStarts == MeshInit => MeshInv
  BY Zenon DEF MeshInit, MeshInv, ShownIsStored

(* A message is stored in the step that shows it.                          *)
LEMMA AddedKeeps ==
  ASSUME MeshInv, NEW n \in Member, NEW m, Added(n, m), up' = up
  PROVE  MeshInv'
<1>1. Text(m, 2).dumped = 2
  BY Zenon DEF Text
<1> DEFINE t == Text(m, 2)
<1>2. /\ messages' = [messages EXCEPT ![n] = messages[n] \cup {m}]
      /\ metadata' = [metadata EXCEPT ![n] = metadata[n] \cup {t}]
  BY Zenon DEF Added
<1>a. /\ messages = [k \in Member |-> messages[k]]
      /\ metadata = [k \in Member |-> metadata[k]]
  BY Zenon DEF MeshInv
<1> HIDE DEF t
<1>b. \A k \in Member : messages'[k] = IF k = n THEN messages[n] \cup {m} ELSE messages[k]
  BY ONLY Zenon, <1>a, <1>2, n \in Member
<1>c. \A k \in Member : metadata'[k] = IF k = n THEN metadata[n] \cup {t} ELSE metadata[k]
  BY ONLY Zenon, <1>a, <1>2, n \in Member
<1>3. \A k \in Member : /\ messages'[k] = IF k = n THEN messages[n] \cup {m} ELSE messages[k]
                        /\ metadata'[k] = IF k = n THEN metadata[n] \cup {t} ELSE metadata[k]
  BY ONLY Zenon, <1>b, <1>c
<1>d. messages' = [k \in Member |-> messages'[k]]
  BY ONLY Zenon, <1>a, <1>2, n \in Member
<1>e. metadata' = [k \in Member |-> metadata'[k]]
  BY ONLY Zenon, <1>a, <1>2, n \in Member
<1>4. messages' = [k \in Member |-> messages'[k]] /\ metadata' = [k \in Member |-> metadata'[k]]
  BY ONLY Zenon, <1>d, <1>e
<1>5. \A k \in Member : \A u \in metadata'[k] : u.dumped = 2
  <2>1. \A k \in Member : \A u \in metadata[k] : u.dumped = 2
    BY Zenon DEF MeshInv
  <2>2. t.dumped = 2
    BY Zenon, <1>1 DEF t
  <2> QED
    BY ONLY Zenon, <1>c, <2>1, <2>2, n \in Member
<1>6. ShownIsStored'
  <2> SUFFICES ASSUME NEW k \in up, NEW x \in messages'[k] PROVE Text(x, 2) \in metadata'[k]
    BY Zenon DEF ShownIsStored
  <2>1. k \in Member /\ \A y \in messages[k] : Text(y, 2) \in metadata[k]
    BY Zenon DEF MeshInv, ShownIsStored
  <2>2. CASE x \in messages[k]
    <3>1. Text(x, 2) \in metadata[k]
      BY Zenon, <2>1, <2>2
    <3> QED
      BY ONLY Zenon, <1>c, <2>1, <3>1
  <2>3. CASE k = n /\ x = m
    <3>1. metadata'[k] = metadata[n] \cup {t} /\ t = Text(x, 2)
      BY Zenon, <1>c, <2>1, <2>3 DEF t
    <3> QED
      BY ONLY Zenon, <3>1
  <2> QED
    BY Zenon, <1>b, <2>1, <2>2, <2>3
<1> QED
  BY Zenon, <1>4, <1>5, <1>6 DEF MeshInv

(* Parsing once what was dumped twice gives no message.                    *)
LEMMA RecoversNothing ==
  ASSUME MeshInv, NEW n \in Member, _recover_messages(n)
  PROVE  messages' = [messages EXCEPT ![n] = {}]
<1>1. \A u \in metadata[n] : u.dumped = 2
  BY Zenon DEF MeshInv
<1>2. \A u \in metadata[n] : u.dumped # 1
  BY ONLY SMT, <1>1
<1>3. {u \in metadata[n] : u.dumped = 1} = {}
  BY ONLY Zenon, <1>2
<1>4. {t.message : t \in {u \in metadata[n] : u.dumped = 1}} = {}
  BY ONLY Zenon, <1>3
<1> QED
  BY Zenon, <1>4 DEF _recover_messages

LEMMA MeshStep == MeshInv /\ [MeshNext]_meshVars => MeshInv'
<1> SUFFICES ASSUME MeshInv, [MeshNext]_meshVars PROVE MeshInv'
  BY Zenon
<1>1. ASSUME UNCHANGED <<up, messages, metadata>> PROVE MeshInv'
  BY Zenon, <1>1 DEF MeshInv, ShownIsStored
<1>2. ASSUME NEW n \in Member, NEW m \in Message, post_to_social(n, m) PROVE MeshInv'
  BY Zenon, <1>2, AddedKeeps DEF post_to_social
<1>3. ASSUME NEW n \in Member, _sync_from_peer(n) PROVE MeshInv'
  BY Zenon, <1>1, <1>3, AddedKeeps DEF _sync_from_peer
<1>4. ASSUME NEW n \in Member, Crash(n) PROVE MeshInv'
  <2>1. /\ up' = up \ {n} /\ metadata' = metadata
        /\ messages' = [messages EXCEPT ![n] = {}]
    BY Zenon, <1>4 DEF Crash
  <2>2. messages' = [k \in Member |-> messages'[k]]
    BY Zenon, <2>1 DEF MeshInv
  <2>3. \A k \in up' : messages'[k] = messages[k]
    BY Zenon, <2>1 DEF MeshInv
  <2> QED
    BY Zenon, <2>1, <2>2, <2>3 DEF MeshInv, ShownIsStored
<1>5. ASSUME NEW n \in Member, _recover_messages(n) PROVE MeshInv'
  <2>1. up' = up \cup {n} /\ metadata' = metadata
    BY Zenon, <1>5 DEF _recover_messages
  <2>2. messages' = [messages EXCEPT ![n] = {}]
    BY Zenon, <1>5, RecoversNothing
  <2>3. messages' = [k \in Member |-> messages'[k]] /\ messages'[n] = {}
    BY Zenon, <2>2 DEF MeshInv
  <2>4. \A k \in up : messages'[k] = messages[k] \/ messages'[k] = {}
    BY Zenon, <2>2 DEF MeshInv
  <2> QED
    BY Zenon, <2>1, <2>3, <2>4 DEF MeshInv, ShownIsStored
<1>6. ASSUME NEW n \in Member, NEW m \in Member, register_peer(n, m) \/ Expire(n, m) \/ Fetch(n, m)
      PROVE  MeshInv'
  BY Zenon, <1>1, <1>6 DEF register_peer, Expire, Fetch
<1>7. CASE UNCHANGED meshVars
  BY Zenon, <1>1, <1>7 DEF meshVars
<1> QED
  BY Zenon, <1>2, <1>3, <1>4, <1>5, <1>6, <1>7 DEF MeshNext

(* What a node shows, it has stored; what it stored, no restart shows.     *)
THEOREM StoreIsNotRead == MeshSpec => []ShownIsStored /\ RestartsEmpty
<1>1. MeshInv => ShownIsStored
  BY Zenon DEF MeshInv
<1>2. ASSUME MeshInv, [MeshNext]_meshVars
      PROVE  [\A n \in up' \ up : messages'[n] = {}]_meshVars
  <2> SUFFICES ASSUME MeshNext, NEW n \in up' \ up PROVE messages'[n] = {}
    BY Zenon, <1>2
  <2>1. PICK k \in Member : _recover_messages(k)
    BY Zenon DEF MeshNext, register_peer, Expire, Fetch, post_to_social, _sync_from_peer, Crash
  <2>2. k = n
    BY Zenon, <2>1 DEF _recover_messages
  <2>3. messages' = [messages EXCEPT ![k] = {}]
    BY Zenon, <1>2, <2>1, RecoversNothing
  <2> QED
    BY Zenon, <1>2, <2>2, <2>3 DEF MeshInv
<1> QED
  BY MeshStarts, MeshStep, <1>1, <1>2, PTL DEF MeshSpec, RestartsEmpty
=============================================================================
