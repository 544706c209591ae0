---------------------------- MODULE RaftLogProofs ----------------------------
(***************************************************************************)
(* Logs match, under the assumptions of RaftProofs and with its invariant  *)
(* Elections.                                                              *)
(***************************************************************************)
EXTENDS RaftProofs

Below(x, l) == Len(x) <= Len(l) /\ x = SubSeq(l, 1, Len(x))
InFile(x, w) == \E i \in 1..Len(w) : Below(x, w[i])
InQueue(x, q) == \E i \in 1..Len(q) : ~IsMeta(q[i]) /\ Below(x, q[i].chain)

\* x begins a log, a record on disk or on its way there, or a leader's message.
Somewhere(x) ==
  \/ \E n \in Server : Below(x, log[n]) \/ InFile(x, wal[n]) \/ InQueue(x, queue[n])
  \/ \E m \in rpcs : m.type = "APPEND_ENTRIES" /\ Below(x, m.prev \o m.entries)

\* Sequences of entries whose last one a leader was asked to append.
Led == {x \in Seq(Entry) : x # <<>> /\ x[Len(x)].data # Recovery}

LEMMA BelowPrefix ==
  ASSUME NEW x \in Seq(Entry), NEW l \in Seq(Entry), NEW i \in 0..Len(l), Below(x, SubSeq(l, 1, i))
  PROVE  Below(x, l)
<1>1. /\ SubSeq(l, 1, i) \in Seq(Entry) /\ Len(SubSeq(l, 1, i)) = i
      /\ \A j \in 1..i : SubSeq(l, 1, i)[j] = l[j]
  BY Zenon, Prefix
<1> DEFINE p == SubSeq(l, 1, i)
<1>2. Len(x) \in 0..Len(p) /\ x = SubSeq(p, 1, Len(x)) /\ Len(x) \in 0..Len(l)
  BY <1>1 DEF Below
<1>3. \A j \in 1..Len(x) : x[j] = p[j]
  <2>1. p \in Seq(Entry)
    BY Zenon, <1>1
  <2> HIDE DEF p
  <2> QED BY Zenon, <1>2, <2>1, Prefix
<1>4. \A j \in 1..Len(x) : x[j] = SubSeq(l, 1, Len(x))[j]
  BY <1>1, <1>2, <1>3, Prefix
<1>5. SubSeq(l, 1, Len(x)) \in Seq(Entry) /\ Len(SubSeq(l, 1, Len(x))) = Len(x)
  BY Zenon, <1>2, Prefix
<1>6. x = SubSeq(l, 1, Len(x))
  BY Zenon, <1>4, <1>5, SeqEqual
<1> QED BY <1>2, <1>6 DEF Below

\* Adding an entry adds one sequence.
LEMMA BelowAppend ==
  ASSUME NEW x \in Seq(Entry), NEW l \in Seq(Entry), NEW e \in Entry, Below(x, Append(l, e))
  PROVE  Below(x, l) \/ x = Append(l, e)
<1> DEFINE a == Append(l, e)
<1>1. a \in Seq(Entry) /\ Len(a) = Len(l) + 1 /\ \A j \in 1..Len(l) : a[j] = l[j]
  OBVIOUS
<1> HIDE DEF a
<1>2. Len(x) \in 0..Len(a) /\ x = SubSeq(a, 1, Len(x))
  BY <1>1 DEF Below, a
<1>3. CASE Len(x) = Len(a)
  <2>1. SubSeq(a, 1, Len(a)) = a
    <3>1. /\ SubSeq(a, 1, Len(a)) \in Seq(Entry) /\ Len(SubSeq(a, 1, Len(a))) = Len(a)
          /\ \A j \in 1..Len(a) : SubSeq(a, 1, Len(a))[j] = a[j]
      BY <1>1, Prefix
    <3> QED BY Zenon, <1>1, <3>1, SeqEqual
  <2> QED BY Zenon, <1>2, <1>3, <2>1 DEF a
<1>4. CASE Len(x) # Len(a)
  <2>1. Len(x) \in 0..Len(l) /\ Len(x) <= Len(l)
    <3>1. \A u, v, w \in Nat : u \in 0..v /\ v = w + 1 /\ u # v => u \in 0..w /\ u <= w
      OBVIOUS
    <3>2. Len(x) \in Nat /\ Len(a) \in Nat /\ Len(l) \in Nat
      BY <1>1
    <3> QED BY Zenon, <1>1, <1>2, <1>4, <3>1, <3>2
  <2>2. \A j \in 1..Len(x) : x[j] = a[j]
    BY Zenon, <1>1, <1>2, Prefix
  <2>3. /\ SubSeq(l, 1, Len(x)) \in Seq(Entry) /\ Len(SubSeq(l, 1, Len(x))) = Len(x)
        /\ \A j \in 1..Len(x) : SubSeq(l, 1, Len(x))[j] = l[j]
    BY Zenon, <2>1, Prefix
  <2>4. \A j \in 1..Len(x) : x[j] = SubSeq(l, 1, Len(x))[j]
    BY <1>1, <2>1, <2>2, <2>3
  <2>5. x = SubSeq(l, 1, Len(x))
    BY Zenon, <2>3, <2>4, SeqEqual
  <2> QED BY <2>1, <2>5, Zenon DEF Below
<1> QED BY Zenon, <1>3, <1>4

LEMMA FileCut ==
  ASSUME NEW w \in Seq(Seq(Entry)), NEW k \in 0..Len(w), NEW x, InFile(x, SubSeq(w, 1, k))
  PROVE  InFile(x, w)
<1>1. Len(SubSeq(w, 1, k)) = k /\ \A j \in 1..k : SubSeq(w, 1, k)[j] = w[j]
  BY Zenon, Prefix
<1>2. PICK i \in 1..k : Below(x, w[i])
  BY Zenon, <1>1 DEF InFile
<1> QED BY <1>2 DEF InFile

LEMMA QueuedAfter ==
  ASSUME NEW q \in Seq(StorageCommand), NEW c \in Seq(StorageCommand), NEW x, InQueue(x, q \o c)
  PROVE  InQueue(x, q) \/ InQueue(x, c)
<1>1. PICK i \in 1..Len(q \o c) : ~IsMeta((q \o c)[i]) /\ Below(x, (q \o c)[i].chain)
  BY Zenon DEF InQueue
<1>2. Len(q \o c) = Len(q) + Len(c) /\ Len(q) \in Nat /\ Len(c) \in Nat
  OBVIOUS
<1>3. CASE i <= Len(q)
  <2>1. (q \o c)[i] = q[i] /\ i \in 1..Len(q)
    BY <1>2, <1>3, ConcatProperties
  <2> QED BY Zenon, <1>1, <2>1 DEF InQueue
<1>4. CASE i > Len(q)
  <2>1. (q \o c)[i] = c[i - Len(q)] /\ i - Len(q) \in 1..Len(c)
    BY <1>2, <1>4, ConcatProperties
  <2> QED BY Zenon, <1>1, <2>1 DEF InQueue
<1> QED BY <1>2, <1>3, <1>4

LEMMA AppendsBelow ==
  ASSUME NEW l \in Seq(Entry), NEW from \in 0..Len(l), NEW x \in Seq(Entry), InQueue(x, Appends(l, from))
  PROVE  Below(x, l)
<1>1. PICK i \in 1..Len(Appends(l, from)) : Below(x, Appends(l, from)[i].chain)
  BY Zenon DEF InQueue
<1>2. /\ Len(Appends(l, from)) = Len(l) - from
      /\ \A j \in 1..(Len(l) - from) :
           Appends(l, from)[j] = [kind |-> "Append", chain |-> SubSeq(l, 1, from + j)]
  BY Zenon, AppendsEffect
<1>3. i \in 1..(Len(l) - from) /\ from + i \in 0..Len(l)
  BY <1>2
<1>4. Appends(l, from)[i].chain = SubSeq(l, 1, from + i)
  <2>1. Appends(l, from)[i] = [kind |-> "Append", chain |-> SubSeq(l, 1, from + i)]
    BY <1>2, <1>3, Zenon
  <2>2. \A a, c : a = [kind |-> "Append", chain |-> c] => a.chain = c
    OBVIOUS
  <2> QED BY <2>1, <2>2, Zenon
<1> QED BY Zenon, <1>1, <1>3, <1>4, BelowPrefix

\* Metadata holds no entry.
LEMMA MetaHoldsNothing ==
  /\ \A x : ~InQueue(x, <<>>)
  /\ \A x, t, v : ~InQueue(x, <<Meta(t, v)>>)
  /\ \A x, n, m : ~InQueue(x, PersistTerm(n, m))
<1>1. \A x : ~InQueue(x, <<>>)
  BY DEF InQueue
<1>2. ASSUME NEW x, NEW t, NEW v PROVE ~InQueue(x, <<Meta(t, v)>>)
  <2>1. Len(<<Meta(t, v)>>) = 1 /\ <<Meta(t, v)>>[1] = Meta(t, v)
    BY Zenon
  <2>2. IsMeta(Meta(t, v))
    BY Zenon DEF IsMeta, Meta
  <2> QED BY <2>1, <2>2 DEF InQueue
<1> QED BY Zenon, <1>1, <1>2 DEF PersistTerm

LEMMA SendHolds ==
  ASSUME RaftTypeOK, NEW n \in Server, NEW c \in Seq(StorageCommand), Send(n, c), NEW s \in Server, NEW x,
         InQueue(x, queue'[s])
  PROVE  InQueue(x, queue[s]) \/ (s = n /\ InQueue(x, c))
<1>1. queue[s] \in Seq(StorageCommand)
      /\ queue'[s] = IF s = n /\ n \in Stored THEN queue[s] \o c ELSE queue[s]
  BY Zenon, SendEffect DEF RaftTypeOK
<1> QED BY Zenon, <1>1, QueuedAfter

\* A step that sends no entry to the storage thread or to another server.
LEMMA SilentStep ==
  ASSUME RaftTypeOK, NEW n \in Server, NEW c \in Seq(StorageCommand), Send(n, c),
         log' = log, wal' = wal, \A m \in rpcs' : m.type = "APPEND_ENTRIES" => m \in rpcs,
         NEW x, ~InQueue(x, c), Somewhere(x)'
  PROVE  Somewhere(x)
<1>1. CASE \E s \in Server : Below(x, log'[s]) \/ InFile(x, wal'[s])
  BY Zenon, <1>1 DEF Somewhere
<1>2. CASE \E s \in Server : InQueue(x, queue'[s])
  BY Zenon, <1>2, SendHolds DEF Somewhere
<1>3. CASE \E m \in rpcs' : m.type = "APPEND_ENTRIES" /\ Below(x, m.prev \o m.entries)
  BY Zenon, <1>3 DEF Somewhere
<1> QED BY Zenon, <1>1, <1>2, <1>3 DEF Somewhere

LEMMA NothingNewElection ==
  ASSUME RaftTypeOK, NEW n \in Server, start_election(n), NEW x, Somewhere(x)'
  PROVE  Somewhere(x)
<1> DEFINE c == <<Meta(current_term[n] + 1, n)>>
<1>1. Send(n, c) /\ log' = log /\ wal' = wal
  BY Zenon DEF start_election
<1>2. \A m \in rpcs' : m.type = "APPEND_ENTRIES" => m \in rpcs
  BY Zenon, NoEntriesSent
<1>3. c \in Seq(StorageCommand)
  BY MetaTypes DEF RaftTypeOK
<1>4. ~InQueue(x, c)
  BY Zenon, MetaHoldsNothing
<1> HIDE DEF c
<1> QED BY Zenon, <1>1, <1>2, <1>3, <1>4, SilentStep

LEMMA NothingNewRequest ==
  ASSUME RaftTypeOK, NEW n \in Server, NEW m \in rpcs, handle_request_vote(n, m), NEW x, Somewhere(x)'
  PROVE  Somewhere(x)
<1>1. PICK d : /\ Send(n, PersistTerm(n, m) \o d)
               /\ d = <<>> \/ d = <<Meta(m.term, m.from)>>
  BY Zenon DEF handle_request_vote
<1>2. log' = log /\ wal' = wal
  BY Zenon DEF handle_request_vote
<1>3. \A y \in rpcs' : y.type = "APPEND_ENTRIES" => y \in rpcs
  BY Zenon, NoEntriesSent
<1>4. PersistTerm(n, m) \in Seq(StorageCommand) /\ d \in Seq(StorageCommand)
  <2>1. m.term \in Nat /\ m.from \in Server
    BY Zenon, RPCTypes DEF RaftTypeOK
  <2>2. Meta(m.term, m.from) \in StorageCommand /\ PersistTerm(n, m) \in Seq(StorageCommand)
    BY Zenon, <2>1, MetaTypes
  <2>3. <<>> \in Seq(StorageCommand) /\ <<Meta(m.term, m.from)>> \in Seq(StorageCommand)
    BY <2>2
  <2> QED BY <1>1, <2>2, <2>3, Zenon
<1>5. PersistTerm(n, m) \o d \in Seq(StorageCommand)
  BY <1>4
<1>6. ~InQueue(x, PersistTerm(n, m) \o d)
  BY Zenon, <1>1, <1>4, QueuedAfter, MetaHoldsNothing
<1> QED BY Zenon, <1>1, <1>2, <1>3, <1>5, <1>6, SilentStep

LEMMA NothingNewResponse ==
  ASSUME RaftTypeOK, NEW n \in Server, NEW m \in rpcs,
         handle_vote_response(n, m) \/ handle_append_response(n, m), NEW x, Somewhere(x)'
  PROVE  Somewhere(x)
<1>1. Send(n, PersistTerm(n, m)) /\ log' = log /\ wal' = wal /\ rpcs' = rpcs
  BY Zenon DEF handle_vote_response, handle_append_response
<1>2. PersistTerm(n, m) \in Seq(StorageCommand)
  BY Zenon, RPCTypes, MetaTypes DEF RaftTypeOK
<1> QED BY Zenon, <1>1, <1>2, MetaHoldsNothing, SilentStep

LEMMA NothingNewHeartbeat ==
  ASSUME RaftTypeOK, NEW n \in Server, send_heartbeats(n), NEW x, Somewhere(x)'
  PROVE  Somewhere(x)
<1>1. PICK M : /\ rpcs' = rpcs \cup M
               /\ \A m \in M : /\ m.type = "APPEND_ENTRIES" /\ m.term = current_term[n] /\ m.from = n
                               /\ m.prev \o m.entries = log[n]
  BY Zenon, HeartbeatMessages
<1>2. log' = log /\ wal' = wal /\ queue' = queue
  BY Zenon DEF send_heartbeats, engine, disk
<1>3. CASE \E m \in M : Below(x, m.prev \o m.entries)
  BY Zenon, <1>1, <1>3 DEF Somewhere
<1>4. CASE ~\E m \in M : Below(x, m.prev \o m.entries)
  BY Zenon, <1>1, <1>2, <1>4 DEF Somewhere
<1> QED BY Zenon, <1>3, <1>4

LEMMA NothingNewAppendEntries ==
  ASSUME RaftTypeOK, NEW n \in Server, NEW m \in rpcs, handle_append_entries(n, m),
         NEW x \in Seq(Entry), Somewhere(x)'
  PROVE  Somewhere(x)
<1>1. PICK new \in Seq(Entry), c \in Seq(StorageCommand), ok \in BOOLEAN : Takes(n, m, new, c, ok)
  BY Zenon, AppendEntriesEffect
<1>2. m.type = "APPEND_ENTRIES"
  BY Zenon DEF handle_append_entries
<1>3. Below(x, new) => Somewhere(x)
  BY Zenon, <1>1, <1>2 DEF Takes, Somewhere
<1>4. InQueue(x, PersistTerm(n, m) \o c) => Somewhere(x)
  <2>1. PersistTerm(n, m) \in Seq(StorageCommand)
    BY Zenon, RPCTypes, MetaTypes DEF RaftTypeOK
  <2>2. InQueue(x, c) => Below(x, new)
    BY Zenon, <1>1, MetaHoldsNothing, AppendsBelow DEF Takes
  <2> QED BY Zenon, <1>3, <2>1, <2>2, QueuedAfter, MetaHoldsNothing
<1>5. CASE \E s \in Server : Below(x, log'[s])
  <2>1. PICK s \in Server : Below(x, log'[s])
    BY Zenon, <1>5
  <2>2. CASE s = n
    BY Zenon, <1>1, <1>3, <2>1, <2>2 DEF Takes, RaftTypeOK
  <2>3. CASE s # n
    BY Zenon, <1>1, <2>1, <2>3 DEF Takes, RaftTypeOK, Somewhere
  <2> QED BY Zenon, <2>2, <2>3
<1>6. CASE \E s \in Server : InFile(x, wal'[s])
  <2>1. PICK s \in Server : InFile(x, wal'[s])
    BY Zenon, <1>6
  <2>2. wal'[s] = wal[s] \/ (wal'[s] = SubSeq(wal[s], 1, Len(m.prev)) /\ Len(m.prev) < Len(wal[s]))
    <3>1. wal' = wal \/ truncate_log_suffix(n, Len(m.prev))
      BY Zenon DEF handle_append_entries
    <3>2. ASSUME truncate_log_suffix(n, Len(m.prev)), s = n
          PROVE  wal'[s] = wal[s] \/ (wal'[s] = SubSeq(wal[s], 1, Len(m.prev)) /\ Len(m.prev) < Len(wal[s]))
      BY <3>2, Zenon DEF truncate_log_suffix, RaftTypeOK
    <3>3. ASSUME truncate_log_suffix(n, Len(m.prev)), s # n PROVE wal'[s] = wal[s]
      BY <3>3, Zenon DEF truncate_log_suffix, RaftTypeOK
    <3> QED BY Zenon, <3>1, <3>2, <3>3
  <2>3. wal[s] \in Seq(Seq(Entry)) /\ m.prev \in Seq(Entry)
    BY Zenon, <1>2, RPCTypes DEF RaftTypeOK
  <2>4. InFile(x, wal[s])
    <3>1. CASE wal'[s] = wal[s]
      BY Zenon, <2>1, <3>1
    <3>2. CASE wal'[s] = SubSeq(wal[s], 1, Len(m.prev)) /\ Len(m.prev) < Len(wal[s])
      <4>1. Len(m.prev) \in 0..Len(wal[s])
        BY <2>3, <3>2
      <4>2. InFile(x, SubSeq(wal[s], 1, Len(m.prev)))
        BY <2>1, <3>2, Zenon
      <4> QED BY Zenon, <2>3, <4>1, <4>2, FileCut
    <3> QED BY Zenon, <2>2, <3>1, <3>2
  <2> QED BY Zenon, <2>4 DEF Somewhere
<1>7. CASE \E s \in Server : InQueue(x, queue'[s])
  <2>1. PICK s \in Server : InQueue(x, queue'[s])
    BY Zenon, <1>7
  <2>2. Send(n, PersistTerm(n, m) \o c) /\ PersistTerm(n, m) \o c \in Seq(StorageCommand)
    <3>1. PersistTerm(n, m) \in Seq(StorageCommand)
      BY Zenon, RPCTypes, MetaTypes DEF RaftTypeOK
    <3>2. PersistTerm(n, m) \o c \in Seq(StorageCommand)
      BY ONLY Zenon, <1>1, <3>1, ConcatProperties
    <3> QED
      BY Zenon, <1>1, <3>2 DEF Takes
  <2>3. InQueue(x, queue[s]) \/ InQueue(x, PersistTerm(n, m) \o c)
    BY Zenon, <2>1, <2>2, SendHolds
  <2> QED BY Zenon, <1>4, <2>3 DEF Somewhere
<1>8. CASE \E y \in rpcs' : y.type = "APPEND_ENTRIES" /\ Below(x, y.prev \o y.entries)
  <2>1. \A y \in rpcs' : y.type = "APPEND_ENTRIES" => y \in rpcs
    BY Zenon, NoEntriesSent
  <2> QED BY Zenon, <1>8, <2>1 DEF Somewhere
<1> QED BY Zenon, <1>5, <1>6, <1>7, <1>8 DEF Somewhere

LEMMA OnlyProposed ==
  ASSUME RaftTypeOK, NEW n \in Server, NEW data \in Command, propose(n, data),
         NEW x \in Seq(Entry), Somewhere(x)'
  PROVE  Somewhere(x) \/ x = log'[n]
<1> DEFINE e == [term |-> current_term[n], data |-> data]
           new == Append(log[n], e)
           c == Appends(new, Len(log[n]))
<1>1. e \in Entry /\ log[n] \in Seq(Entry)
  BY Zenon DEF Entry, RaftTypeOK
<1>2. new \in Seq(Entry) /\ Len(log[n]) \in 0..Len(new)
  BY <1>1
<1>3. log'[n] = new /\ (\A s \in Server \ {n} : log'[s] = log[s]) /\ Send(n, c) /\ wal' = wal /\ rpcs' = rpcs
  BY Zenon DEF propose, RaftTypeOK
<1>4. Below(x, new) => Below(x, log[n]) \/ x = new
  BY Zenon, <1>1, BelowAppend
<1> HIDE DEF e, new
<1>5. c \in Seq(StorageCommand)
  BY Zenon, <1>2, AppendsEffect
<1>6. InQueue(x, c) => Below(x, new)
  BY Zenon, <1>2, AppendsBelow
<1> HIDE DEF c
<1>7. CASE \E s \in Server : Below(x, log'[s])
  BY Zenon, <1>3, <1>4, <1>7 DEF Somewhere
<1>8. CASE \E s \in Server : InQueue(x, queue'[s])
  BY Zenon, <1>3, <1>4, <1>5, <1>6, <1>8, SendHolds DEF Somewhere
<1>9. CASE \/ \E s \in Server : InFile(x, wal'[s])
           \/ \E m \in rpcs' : m.type = "APPEND_ENTRIES" /\ Below(x, m.prev \o m.entries)
  BY Zenon, <1>3, <1>9 DEF Somewhere
<1> QED BY Zenon, <1>7, <1>8, <1>9 DEF Somewhere

LEMMA NothingNewWorker ==
  ASSUME RaftTypeOK, NEW n \in Server, Worker(n), NEW x, Somewhere(x)'
  PROVE  Somewhere(x)
<1> DEFINE q == queue[n]
           w == wal[n]
<1>1. q \in Seq(StorageCommand) /\ q # <<>> /\ w \in Seq(Seq(Entry))
  BY Zenon DEF Worker, RaftTypeOK
<1>2. /\ queue'[n] = Tail(q) /\ (\A s \in Server \ {n} : queue'[s] = queue[s])
      /\ log' = log /\ rpcs' = rpcs
      /\ \A s \in Server \ {n} : wal'[s] = wal[s]
      /\ \/ wal'[n] = w
         \/ ~IsMeta(Head(q)) /\ wal'[n] = Append(w, Head(q).chain)
  <2>1. queue'[n] = Tail(q) /\ (\A s \in Server \ {n} : queue'[s] = queue[s])
    BY Zenon DEF Worker, RaftTypeOK
  <2>2. log' = log /\ rpcs' = rpcs
    BY Zenon DEF Worker, engine
  <2>3. /\ \A s \in Server \ {n} : wal'[s] = wal[s]
        /\ \/ wal'[n] = w
           \/ ~IsMeta(Head(q)) /\ wal'[n] = Append(w, Head(q).chain)
    <3>1. CASE Head(q).kind = "Meta"
      BY Zenon, <3>1 DEF Worker
    <3>2. CASE Head(q).kind # "Meta"
      BY Zenon, <3>2 DEF Worker, RaftTypeOK, IsMeta
    <3> QED BY Zenon, <3>1, <3>2
  <2> QED BY Zenon, <2>1, <2>2, <2>3
<1> HIDE DEF q, w
<1>3. InQueue(x, Tail(q)) => InQueue(x, q)
  <2> SUFFICES ASSUME InQueue(x, Tail(q)) PROVE InQueue(x, q)
    BY Zenon
  <2>1. PICK i \in 1..Len(Tail(q)) : ~IsMeta(Tail(q)[i]) /\ Below(x, Tail(q)[i].chain)
    BY Zenon DEF InQueue
  <2>2. Len(Tail(q)) = Len(q) - 1 /\ i + 1 \in 1..Len(q) /\ Tail(q)[i] = q[i + 1]
    BY <1>1
  <2> QED BY Zenon, <2>1, <2>2 DEF InQueue
<1>4. ASSUME ~IsMeta(Head(q)), InFile(x, Append(w, Head(q).chain))
      PROVE  InFile(x, w) \/ InQueue(x, q)
  <2>0. Head(q) \in StorageCommand /\ Head(q) = q[1] /\ 1 \in 1..Len(q)
    BY <1>1
  <2>1. Head(q).chain \in Seq(Entry)
    BY Zenon, <1>4, <2>0 DEF StorageCommand, IsMeta
  <2> DEFINE a == Append(w, Head(q).chain)
  <2>2. Len(a) = Len(w) + 1 /\ a[Len(w) + 1] = Head(q).chain /\ \A i \in 1..Len(w) : a[i] = w[i]
    BY <1>1, <2>1
  <2>3. PICK i \in 1..Len(a) : Below(x, a[i])
    BY Zenon, <1>4 DEF InFile
  <2> HIDE DEF a
  <2>4. CASE i \in 1..Len(w)
    BY Zenon, <2>2, <2>3, <2>4 DEF InFile
  <2>5. CASE i = Len(w) + 1
    <3>1. Below(x, q[1].chain) /\ ~IsMeta(q[1])
      BY Zenon, <1>4, <2>0, <2>2, <2>3, <2>5
    <3> QED BY Zenon, <2>0, <3>1 DEF InQueue
  <2> QED BY <1>1, <2>2, <2>4, <2>5
<1>5. \A s \in Server : InQueue(x, queue'[s]) => InQueue(x, queue[s])
  BY Zenon, <1>2, <1>3 DEF q
<1>6. \A s \in Server : InFile(x, wal'[s]) => InFile(x, wal[s]) \/ InQueue(x, queue[s])
  BY Zenon, <1>2, <1>4 DEF q, w
<1> QED BY Zenon, <1>2, <1>5, <1>6 DEF Somewhere

LEMMA NothingNewRestart ==
  ASSUME RaftTypeOK, NEW n \in Server, Restart(n), NEW x \in Led, Somewhere(x)'
  PROVE  Somewhere(x)
<1>1. PICK k \in 0..Len(wal[n]), kept, loaded \in Seq(Entry), c \in Seq(StorageCommand) :
        Loads(n, k, kept, loaded, c)
  BY Zenon, RestartEffect
<1>2. x \in Seq(Entry) /\ x # <<>> /\ x[Len(x)].data # Recovery /\ Len(x) > 0
  BY DEF Led
<1>3. wal[n] \in Seq(Seq(Entry)) /\ k \in Nat
  BY DEF RaftTypeOK
<1>4. /\ log'[n] = loaded /\ wal'[n] = SubSeq(wal[n], 1, k) /\ queue'[n] = c /\ rpcs' = rpcs
      /\ \A s \in Server \ {n} : log'[s] = log[s] /\ wal'[s] = wal[s] /\ queue'[s] = queue[s]
  BY Zenon, <1>1 DEF Loads, RaftTypeOK, Restart
<1>5. Below(x, kept) => Somewhere(x)
  <2>1. CASE k = 0
    BY <1>1, <1>2, <2>1 DEF Loads, Below
  <2>2. CASE k # 0
    BY <1>1, <1>3, <2>2 DEF Loads, InFile, Somewhere
  <2> QED BY Zenon, <2>1, <2>2
<1>6. Below(x, loaded) => Somewhere(x)
  <2>1. CASE loaded = kept
    BY Zenon, <1>5, <2>1
  <2>2. CASE loaded = Append(kept, [term |-> meta[n].term, data |-> Recovery])
    <3> DEFINE e == [term |-> meta[n].term, data |-> Recovery]
    <3>1. e \in Entry /\ e.data = Recovery
      BY Zenon DEF RaftTypeOK, Metadata, Entry
    <3> HIDE DEF e
    <3>2. x # Append(kept, e)
      BY <1>2, <3>1
    <3>3. Below(x, loaded) => Below(x, kept)
      BY Zenon, <1>2, <2>2, <3>1, <3>2, BelowAppend DEF e
    <3> QED BY Zenon, <1>5, <3>3
  <2> QED BY Zenon, <1>1, <2>1, <2>2 DEF Loads
<1>7. InQueue(x, c) => Somewhere(x)
  <2>1. CASE c = <<>>
    BY Zenon, <2>1, MetaHoldsNothing
  <2>2. CASE Len(loaded) = k + 1 /\ c = Appends(loaded, k)
    <3>1. k \in 0..Len(loaded)
      BY <1>3, <2>2
    <3> QED BY Zenon, <1>2, <1>6, <2>2, <3>1, AppendsBelow
  <2> QED BY Zenon, <1>1, <2>1, <2>2 DEF Loads
<1>8. InFile(x, SubSeq(wal[n], 1, k)) => Somewhere(x)
  BY Zenon, <1>3, FileCut DEF Somewhere
<1> QED BY Zenon, <1>4, <1>6, <1>7, <1>8 DEF Somewhere

\* What one step of server n does to its role and, if it leads, to its log.
RoleStep(n) ==
  /\ \A s \in Server \ {n} : /\ current_term'[s] = current_term[s] /\ state'[s] = state[s]
                            /\ log'[s] = log[s]
  /\ current_term'[n] >= current_term[n]
  /\ state'[n] = "Candidate" => current_term'[n] > current_term[n] \/ state[n] = "Candidate"
  /\ state'[n] = "Leader" =>
       /\ current_term'[n] = current_term[n]
       /\ \/ state[n] = "Leader" /\ log'[n] = log[n]
          \/ state[n] = "Candidate" /\ rpcs' = rpcs

LEMMA RoleStepRPC ==
  ASSUME RaftTypeOK, NEW n \in Server, NEW m \in rpcs, handle_rpc(n, m)
  PROVE  RoleStep(n)
<1>1. m.term \in Nat /\ current_term[n] \in Nat
      /\ state[n] \in {"Follower", "Candidate", "Leader"}
  BY Zenon, RPCTypes DEF RaftTypeOK
<1>2. CASE handle_request_vote(n, m) \/ handle_append_response(n, m)
  <2>1. /\ \A s \in Server \ {n} : current_term'[s] = current_term[s] /\ state'[s] = state[s]
        /\ current_term'[n] = TermAfter(n, m) /\ state'[n] = StateAfter(n, m) /\ log' = log
    BY Zenon, <1>2 DEF handle_request_vote, handle_append_response, RaftTypeOK
  <2> QED BY <1>1, <2>1 DEF RoleStep, TermAfter, StateAfter, Later
<1>3. CASE handle_vote_response(n, m)
  <2>1. /\ \A s \in Server \ {n} : current_term'[s] = current_term[s] /\ state'[s] = state[s]
        /\ current_term'[n] = TermAfter(n, m) /\ log' = log /\ rpcs' = rpcs
        /\ state'[n] = StateAfter(n, m) \/ (Counts(n, m) /\ state'[n] = "Leader")
    BY Zenon, <1>3 DEF handle_vote_response, RaftTypeOK
  <2> QED BY <1>1, <2>1 DEF RoleStep, TermAfter, StateAfter, Later, Counts
<1>4. CASE handle_append_entries(n, m)
  <2>1. /\ \A s \in Server \ {n} : /\ current_term'[s] = current_term[s] /\ state'[s] = state[s]
                                  /\ log'[s] = log[s]
        /\ current_term'[n] = TermAfter(n, m)
    BY Zenon, <1>4 DEF handle_append_entries, RaftTypeOK
  <2>2. CASE m.term >= current_term[n]
    <3>1. state'[n] = "Follower"
      BY Zenon, <1>4, <2>2 DEF handle_append_entries, RaftTypeOK
    <3> QED BY <1>1, <2>1, <3>1 DEF RoleStep, TermAfter, Later
  <2>3. CASE ~(m.term >= current_term[n])
    <3>1. state'[n] = state[n] /\ log'[n] = log[n]
      BY Zenon, <1>4, <2>3 DEF handle_append_entries, RaftTypeOK
    <3> QED BY <1>1, <2>1, <2>3, <3>1 DEF RoleStep, TermAfter, Later
  <2> QED BY Zenon, <2>2, <2>3
<1> QED BY Zenon, <1>2, <1>3, <1>4 DEF handle_rpc

\* Every step but a proposal brings no new sequence of entries.
LEMMA NothingNew ==
  ASSUME RaftTypeOK, MemoryIsSaved, DrainedRestarts, RaftNext,
         ~\E n \in Server, data \in Command : propose(n, data)
  PROVE  /\ \A x \in Led : Somewhere(x)' => Somewhere(x)
         /\ \E n \in Server : RoleStep(n)
<1>1. ASSUME NEW n \in Server, start_election(n)
      PROVE  RoleStep(n) /\ \A x \in Led : Somewhere(x)' => Somewhere(x)
  <2>1. RoleStep(n)
    BY <1>1 DEF RoleStep, start_election, RaftTypeOK
  <2> QED BY Zenon, <1>1, <2>1, NothingNewElection
<1>2. ASSUME NEW n \in Server, send_heartbeats(n)
      PROVE  RoleStep(n) /\ \A x \in Led : Somewhere(x)' => Somewhere(x)
  <2>1. RoleStep(n)
    <3>1. UNCHANGED <<current_term, state, log>> /\ current_term[n] \in Nat
      BY Zenon, <1>2 DEF send_heartbeats, engine, RaftTypeOK
    <3> QED BY <3>1 DEF RoleStep
  <2> QED BY Zenon, <1>2, <2>1, NothingNewHeartbeat
<1>3. ASSUME NEW n \in Server, Worker(n)
      PROVE  RoleStep(n) /\ \A x \in Led : Somewhere(x)' => Somewhere(x)
  <2>1. RoleStep(n)
    <3>1. UNCHANGED <<current_term, state, log>> /\ current_term[n] \in Nat
      BY Zenon, <1>3 DEF Worker, engine, RaftTypeOK
    <3> QED BY <3>1 DEF RoleStep
  <2> QED BY Zenon, <1>3, <2>1, NothingNewWorker
<1>4. ASSUME NEW n \in Server, Restart(n)
      PROVE  RoleStep(n) /\ \A x \in Led : Somewhere(x)' => Somewhere(x)
  <2>1. n \in Stored /\ queue[n] = <<>>
    BY Zenon, <1>4 DEF Restart
  <2>2. meta[n] = InMemory(n)
    BY Zenon, <2>1, DrainedFile
  <2>3. current_term'[n] = current_term[n] /\ state'[n] = "Follower"
    <3>1. /\ current_term' = [current_term EXCEPT ![n] = meta[n].term]
          /\ state' = [state EXCEPT ![n] = "Follower"]
      BY Zenon, <1>4 DEF Restart
    <3>2. n \in DOMAIN current_term /\ n \in DOMAIN state
      BY Zenon DEF RaftTypeOK
    <3>3. meta[n].term = current_term[n]
      <4>1. InMemory(n).term = current_term[n]
        BY Zenon DEF InMemory
      <4> QED
        BY ONLY Zenon, <2>2, <4>1
    <3> QED
      BY ONLY Zenon, <3>1, <3>2, <3>3
  <2>4. \A s \in Server \ {n} : /\ current_term'[s] = current_term[s] /\ state'[s] = state[s]
                               /\ log'[s] = log[s]
    BY Zenon, <1>4 DEF Restart, RaftTypeOK
  <2>5. RoleStep(n)
    <3>1. current_term[n] \in Nat
      BY Zenon DEF RaftTypeOK
    <3> QED BY <2>3, <2>4, <3>1 DEF RoleStep
  <2> QED BY Zenon, <1>4, <2>5, NothingNewRestart
<1>5. ASSUME NEW n \in Server, NEW m \in rpcs, handle_rpc(n, m)
      PROVE  RoleStep(n) /\ \A x \in Led : Somewhere(x)' => Somewhere(x)
  <2>1. \A x \in Led : x \in Seq(Entry)
    BY Zenon DEF Led
  <2>2. \A x \in Led : Somewhere(x)' => Somewhere(x)
    BY Zenon, <1>5, <2>1, NothingNewRequest, NothingNewResponse, NothingNewAppendEntries DEF handle_rpc
  <2> QED BY Zenon, <1>5, <2>2, RoleStepRPC
<1> QED BY Zenon, <1>1, <1>2, <1>3, <1>4, <1>5 DEF RaftNext

\* Two sequences that end in the same term at the same index are equal.
SequencesMatch ==
  \A x, y \in Led :
    Somewhere(x) /\ Somewhere(y) /\ Len(x) = Len(y) /\ last_log_term(x) = last_log_term(y) => x = y

\* A leader's log holds everything anyone holds of its term.
LeadersComplete ==
  \A n \in Server : state[n] = "Leader" =>
    \A x \in Led : Somewhere(x) /\ last_log_term(x) = current_term[n] => Below(x, log[n])

\* l no longer stands for election in term t.
Past(l, t) == current_term[l] > t \/ (current_term[l] = t /\ state[l] # "Candidate")

\* An entry of a term was appended by a server that won its election.
EntriesElected ==
  \A x \in Led : Somewhere(x) =>
    \E l \in Server : Elected(l, last_log_term(x)) /\ Past(l, last_log_term(x))

Logs == Elections /\ SequencesMatch /\ LeadersComplete /\ EntriesElected

LEMMA LogsProposeStep ==
  ASSUME Logs, NEW n \in Server, NEW data \in Command, propose(n, data)
  PROVE  SequencesMatch' /\ LeadersComplete' /\ EntriesElected'
<1> DEFINE e == [term |-> current_term[n], data |-> data]
           y == Append(log[n], e)
<1>1. e \in Entry /\ e.term = current_term[n] /\ log[n] \in Seq(Entry) /\ current_term[n] \in Nat
  BY Zenon DEF Entry, Logs, Elections, RaftTypeOK
<1>2. /\ log'[n] = y /\ (\A s \in Server \ {n} : log'[s] = log[s])
      /\ state' = state /\ current_term' = current_term /\ rpcs' = rpcs /\ state[n] = "Leader"
  BY Zenon DEF propose, Logs, Elections, RaftTypeOK
<1> HIDE DEF e
<1>3. y \in Seq(Entry) /\ Len(y) = Len(log[n]) + 1 /\ y # <<>> /\ y[Len(y)] = e
  BY <1>1
<1> HIDE DEF y
<1>4. last_log_term(y) = current_term[n]
  BY Zenon, <1>1, <1>3 DEF last_log_term
<1>5. \A x \in Led : x \in Seq(Entry) /\ Len(x) \in Nat /\ last_log_term(x) \in Nat
  BY LastTermType DEF Led
<1>6. ASSUME NEW x \in Led, Somewhere(x)' PROVE Somewhere(x) \/ x = y
  BY Zenon, <1>2, <1>5, <1>6, OnlyProposed DEF Logs, Elections
<1>7. Elected(n, current_term[n])
  BY Zenon, <1>2, LeaderElected DEF Logs, Elections
<1>8. \A l, t : Elected(l, t) => Elected(l, t)'
  BY Zenon, <1>2, VotesStay
<1>9. SequencesMatch'
  <2>1. ASSUME NEW x \in Led, Somewhere(x), last_log_term(x) = current_term[n] PROVE Len(x) # Len(y)
    <3>1. Below(x, log[n])
      BY Zenon, <1>2, <2>1 DEF Logs, LeadersComplete
    <3>2. Len(x) <= Len(log[n])
      BY Zenon, <3>1 DEF Below
    <3> QED BY <1>1, <1>3, <1>5, <3>2
  <2>2. ASSUME NEW x \in Led, NEW z \in Led, Somewhere(x)', Somewhere(z)', Len(x) = Len(z),
               last_log_term(x) = last_log_term(z)
        PROVE  x = z
    BY Zenon, <1>4, <1>6, <2>1, <2>2 DEF Logs, SequencesMatch
  <2> QED BY Zenon, <2>2 DEF SequencesMatch
<1>10. LeadersComplete'
  <2> SUFFICES ASSUME NEW p \in Server, state[p] = "Leader", NEW x \in Led, Somewhere(x)',
                      last_log_term(x) = current_term[p]
               PROVE  Below(x, log'[p])
    BY Zenon, <1>2 DEF LeadersComplete
  <2>1. CASE Somewhere(x)
    <3>1. Below(x, log[p])
      BY Zenon, <2>1 DEF Logs, LeadersComplete
    <3>2. CASE p # n
      BY Zenon, <1>2, <3>1, <3>2
    <3>3. CASE p = n
      <4>1. SubSeq(y, 1, Len(log[n])) = log[n]
        <5>1. Len(log[n]) \in 0..Len(y) /\ \A j \in 1..Len(log[n]) : y[j] = log[n][j]
          BY <1>1 DEF y
        <5>2. /\ SubSeq(y, 1, Len(log[n])) \in Seq(Entry) /\ Len(SubSeq(y, 1, Len(log[n]))) = Len(log[n])
              /\ \A j \in 1..Len(log[n]) : SubSeq(y, 1, Len(log[n]))[j] = y[j]
          BY Zenon, <1>3, <5>1, Prefix
        <5>3. \A j \in 1..Len(log[n]) : SubSeq(y, 1, Len(log[n]))[j] = log[n][j]
          BY Zenon, <5>1, <5>2
        <5> QED BY Zenon, <1>1, <5>2, <5>3, SeqEqual
      <4>2. Len(log[n]) \in 0..Len(y) /\ Below(x, SubSeq(y, 1, Len(log[n])))
        <5>1. Below(x, SubSeq(y, 1, Len(log[n])))
          BY <3>1, <3>3, <4>1, Zenon
        <5> QED BY <1>1, <1>3, <5>1
      <4> QED BY Zenon, <1>2, <1>3, <1>5, <3>3, <4>2, BelowPrefix
    <3> QED BY Zenon, <3>2, <3>3
  <2>2. CASE x = y
    <3>1. Elected(p, current_term[n])
      BY Zenon, <1>4, <2>2, LeaderElected DEF Logs, Elections
    <3>2. p = n
      BY Zenon, <1>1, <1>7, <3>1, OneElected DEF Logs, Elections
    <3>3. y = SubSeq(y, 1, Len(y))
      <4>1. Len(y) \in 0..Len(y)
        BY <1>3
      <4>2. /\ SubSeq(y, 1, Len(y)) \in Seq(Entry) /\ Len(SubSeq(y, 1, Len(y))) = Len(y)
            /\ \A j \in 1..Len(y) : SubSeq(y, 1, Len(y))[j] = y[j]
        BY Zenon, <1>3, <4>1, Prefix
      <4> QED BY Zenon, <1>3, <4>2, SeqEqual
    <3>4. Len(y) <= Len(y)
      BY <1>3
    <3> QED BY <1>2, <2>2, <3>2, <3>3, <3>4, Zenon DEF Below
  <2> QED BY Zenon, <1>6, <2>1, <2>2
<1>11. EntriesElected'
  <2> SUFFICES ASSUME NEW x \in Led, Somewhere(x)'
               PROVE  \E l \in Server : Elected(l, last_log_term(x))' /\ Past(l, last_log_term(x))'
    BY Zenon DEF EntriesElected
  <2>1. \E l \in Server : Elected(l, last_log_term(x)) /\ Past(l, last_log_term(x))
    BY Zenon, <1>2, <1>4, <1>6, <1>7 DEF Logs, EntriesElected, Past
  <2>2. \A l, t : Past(l, t) => Past(l, t)'
    BY Zenon, <1>2 DEF Past
  <2> QED BY Zenon, <1>8, <2>1, <2>2
<1> QED BY Zenon, <1>9, <1>10, <1>11

LEMMA LogsOtherStep ==
  ASSUME Logs, Elections', RaftNext, DrainedRestarts,
         ~\E n \in Server, data \in Command : propose(n, data)
  PROVE  SequencesMatch' /\ LeadersComplete' /\ EntriesElected'
<1>1. PICK n \in Server : RoleStep(n)
  BY Zenon, NothingNew DEF Logs, Elections
<1>2. \A x \in Led : Somewhere(x)' => Somewhere(x)
  BY Zenon, NothingNew DEF Logs, Elections
<1>3. SequencesMatch'
  BY Zenon, <1>2 DEF Logs, SequencesMatch
<1>4. \A x \in Led : last_log_term(x) \in Nat
  BY Zenon, LastTermType DEF Led
<1>5. \A s \in Server : current_term[s] \in Nat /\ current_term'[s] \in Nat
  BY Zenon DEF Logs, Elections, RaftTypeOK
<1>6. EntriesElected'
  <2>1. \A l, t : Elected(l, t) => Elected(l, t)'
    BY Zenon, RPCsStay, VotesStay
  <2>2. ASSUME NEW l \in Server, NEW t \in Nat, Past(l, t) PROVE Past(l, t)'
    <3>1. CASE l # n
      BY Zenon, <1>1, <2>2, <3>1 DEF RoleStep, Past
    <3>2. CASE l = n
      BY <1>1, <1>5, <2>2, <3>2 DEF RoleStep, Past
    <3> QED BY Zenon, <3>1, <3>2
  <2> SUFFICES ASSUME NEW x \in Led, Somewhere(x)'
               PROVE  \E l \in Server : Elected(l, last_log_term(x))' /\ Past(l, last_log_term(x))'
    BY Zenon DEF EntriesElected
  <2>3. PICK l \in Server : Elected(l, last_log_term(x)) /\ Past(l, last_log_term(x))
    BY Zenon, <1>2 DEF Logs, EntriesElected
  <2> QED BY Zenon, <1>4, <2>1, <2>2, <2>3
<1>7. LeadersComplete'
  <2> SUFFICES ASSUME NEW p \in Server, state'[p] = "Leader", NEW x \in Led, Somewhere(x),
                      last_log_term(x) = current_term'[p]
               PROVE  Below(x, log'[p])
    BY Zenon, <1>2 DEF LeadersComplete
  <2>1. CASE state[p] = "Leader" /\ current_term'[p] = current_term[p] /\ log'[p] = log[p]
    BY Zenon, <2>1 DEF Logs, LeadersComplete
  <2>2. CASE current_term'[p] = current_term[p] /\ state[p] = "Candidate" /\ rpcs' = rpcs
    <3>1. PICK l \in Server : Elected(l, current_term[p]) /\ Past(l, current_term[p])
      BY Zenon, <2>2 DEF Logs, EntriesElected
    <3>2. Elected(p, current_term[p])
      <4>1. votes_received'[p] \in SUBSET Server /\ has_quorum(p, votes_received'[p])
        BY Zenon DEF Elections, RaftTypeOK, Campaigns, has_quorum
      <4>2. \A v \in votes_received'[p] : VotedFor(v, current_term[p], p)'
        BY Zenon DEF Elections, Campaigns
      <4>3. \A v \in votes_received'[p] : VotedFor(v, current_term[p], p)
        BY <2>2, <4>2 DEF VotedFor
      <4> QED BY Zenon, <4>1, <4>3 DEF Elected
    <3>3. l = p
      BY Zenon, <1>5, <3>1, <3>2, OneElected DEF Logs, Elections
    <3> QED BY <1>5, <2>2, <3>1, <3>3 DEF Past
  <2> QED BY Zenon, <1>1, <2>1, <2>2 DEF RoleStep
<1> QED BY Zenon, <1>3, <1>6, <1>7

LEMMA LogsStep ==
  ASSUME DrainedRestarts
  PROVE  Logs /\ [RaftNext]_raft_vars => Logs'
<1> SUFFICES ASSUME Logs, [RaftNext]_raft_vars PROVE Logs'
  BY Zenon
<1>1. Elections'
  BY Zenon, ElectionsStep DEF Logs
<1>2. CASE \E n \in Server, data \in Command : propose(n, data)
  BY Zenon, <1>1, <1>2, LogsProposeStep DEF Logs
<1>3. CASE RaftNext /\ ~\E n \in Server, data \in Command : propose(n, data)
  BY Zenon, <1>1, <1>3, LogsOtherStep DEF Logs
<1>4. CASE UNCHANGED raft_vars
  <2>1. UNCHANGED <<log, wal, queue, rpcs, state, current_term>>
    BY Zenon, <1>4 DEF raft_vars, engine, disk
  <2>2. \A x : Somewhere(x)' => Somewhere(x)
    BY Zenon, <2>1 DEF Somewhere
  <2>3. (\A l, t : Elected(l, t) => Elected(l, t)') /\ (\A l, t : Past(l, t) => Past(l, t)')
    BY Zenon, <2>1, VotesStay DEF Past
  <2>4. SequencesMatch'
    BY Zenon, <2>2 DEF Logs, SequencesMatch
  <2>5. LeadersComplete'
    BY Zenon, <2>1, <2>2 DEF Logs, LeadersComplete
  <2>6. EntriesElected'
    <3> SUFFICES ASSUME NEW x \in Led, Somewhere(x)'
                 PROVE  \E l \in Server : Elected(l, last_log_term(x))' /\ Past(l, last_log_term(x))'
      BY Zenon DEF EntriesElected
    <3>1. PICK l \in Server : Elected(l, last_log_term(x)) /\ Past(l, last_log_term(x))
      BY Zenon, <2>2 DEF Logs, EntriesElected
    <3> QED BY Zenon, <2>3, <3>1
  <2> QED BY Zenon, <1>1, <2>4, <2>5, <2>6 DEF Logs
<1> QED BY Zenon, <1>2, <1>3, <1>4

LEMMA LogsInit == RaftInit => Logs
<1> SUFFICES ASSUME RaftInit PROVE Logs
  BY Zenon
<1>1. ASSUME NEW x \in Led PROVE ~Somewhere(x)
  <2>1. x \in Seq(Entry) /\ Len(x) > 0
    BY DEF Led
  <2>2. ~Below(x, <<>>)
    BY <2>1 DEF Below
  <2>3. ~InFile(x, <<>>) /\ ~InQueue(x, <<>>)
    BY DEF InFile, InQueue
  <2> QED BY Zenon, <2>2, <2>3 DEF RaftInit, Somewhere
<1> QED BY Zenon, <1>1, ElectionsInit DEF Logs, SequencesMatch, LeadersComplete, EntriesElected

LEMMA LogsSafe ==
  ASSUME Logs
  PROVE  LogsMatch
<1> SUFFICES ASSUME NEW a \in Server, NEW b \in Server, NEW i \in 1..Len(log[a]), i <= Len(log[b]),
                    log[a][i].term = log[b][i].term,
                    Recovery \notin {log[a][i].data, log[b][i].data}
             PROVE  SubSeq(log[a], 1, i) = SubSeq(log[b], 1, i)
  BY Zenon DEF LogsMatch
<1>1. ASSUME NEW s \in {a, b}
      PROVE  /\ SubSeq(log[s], 1, i) \in Led /\ Somewhere(SubSeq(log[s], 1, i))
             /\ Len(SubSeq(log[s], 1, i)) = i
             /\ last_log_term(SubSeq(log[s], 1, i)) = log[s][i].term
  <2> DEFINE x == SubSeq(log[s], 1, i)
  <2>1. log[s] \in Seq(Entry) /\ i \in 0..Len(log[s]) /\ i \in 1..i /\ log[s][i].data # Recovery /\ s \in Server
    <3>1. log[a] \in Seq(Entry) /\ log[b] \in Seq(Entry)
      BY Zenon DEF Logs, Elections, RaftTypeOK
    <3>2. i \in 0..Len(log[a]) /\ i \in 0..Len(log[b]) /\ i \in 1..i
      BY <3>1
    <3>3. CASE s = a
      BY Zenon, <3>1, <3>2, <3>3
    <3>4. CASE s = b
      BY Zenon, <3>1, <3>2, <3>4
    <3> QED BY Zenon, <3>3, <3>4
  <2>2. x \in Seq(Entry) /\ Len(x) = i /\ x[i] = log[s][i]
    BY Zenon, <2>1, Prefix
  <2>3. Below(x, log[s])
    <3>1. Len(x) <= Len(log[s])
      BY <2>1, <2>2
    <3>2. x = SubSeq(log[s], 1, Len(x))
      BY <2>2, Zenon
    <3> QED BY <3>1, <3>2, Zenon DEF Below
  <2> HIDE DEF x
  <2>4. x # <<>>
    BY <2>1, <2>2
  <2>5. x \in Led /\ last_log_term(x) = log[s][i].term
    BY Zenon, <2>1, <2>2, <2>4 DEF Led, last_log_term
  <2>6. Somewhere(x)
    BY Zenon, <2>1, <2>3 DEF Somewhere
  <2> QED BY Zenon, <2>2, <2>5, <2>6 DEF x
<1> QED BY Zenon, <1>1 DEF Logs, SequencesMatch

\* Logs that hold an entry of one term at one index agree up to it, although
\* handle_append_entries truncates whatever followed, messages arrive late and
\* twice, and restarts bring back older logs: if a process ends only with an
\* idle storage thread.
THEOREM LogMatching ==
  ASSUME DrainedRestarts
  PROVE  RaftSpec => []LogsMatch
<1>1. RaftInit => Logs
  BY Zenon, LogsInit
<1>2. Logs /\ [RaftNext]_raft_vars => Logs'
  BY Zenon, LogsStep
<1>3. Logs => LogsMatch
  BY Zenon, LogsSafe
<1> QED BY <1>1, <1>2, <1>3, PTL DEF RaftSpec

=============================================================================
