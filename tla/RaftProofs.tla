----------------------------- MODULE RaftProofs -----------------------------
(***************************************************************************)
(* For any servers, commands and bounds, and with processes that end only  *)
(* when their storage threads are idle: a server votes once per term, a    *)
(* term has one leader, terms only grow, and a leader keeps its log.       *)
(***************************************************************************)
EXTENDS Raft, TLAPS, FiniteSetTheorems, SequenceTheorems, WellFoundedInduction

-----------------------------------------------------------------------------
(* Types.                                                                  *)

LEMMA Greatest ==
  ASSUME NEW N \in Nat, NEW C, C \subseteq 0..N, C # {}
  PROVE  \E i \in C : \A j \in C : j <= i
<1> DEFINE T == {N - i : i \in C}
<1>1. T \subseteq Nat /\ T # {}
  <2>1. \A i \in C : N - i \in Nat
    OBVIOUS
  <2> QED BY Zenon, <2>1
<1>2. PICK x \in T : \A y \in T : ~(<<y, x>> \in OpToRel(<, Nat))
  <2> HIDE DEF T
  <2> QED BY Zenon, <1>1, WFMin, NatLessThanWellFounded
<1>3. \A y \in T : ~(y < x)
  BY Zenon, <1>1, <1>2 DEF OpToRel
<1>4. PICK i \in C : x = N - i
  BY Zenon, <1>2
<1>5. ASSUME NEW j \in C PROVE j <= i
  <2>1. N - j \in T
    BY Zenon
  <2>2. ~(N - j < N - i)
    BY Zenon, <1>3, <1>4, <2>1
  <2>3. i \in Int /\ j \in Int
    OBVIOUS
  <2> QED BY <2>2, <2>3
<1> QED BY Zenon, <1>5

\* There is a last record up to which the records of a file form one chain.
LEMMA ChainedRecords ==
  ASSUME NEW w, Len(w) \in Nat
  PROVE  verify_wal_integrity(w) \in 0..Len(w) /\ Chained(w, verify_wal_integrity(w))
<1> DEFINE K == {k \in 0..Len(w) : Chained(w, k)}
<1>1. 0 \in K
  BY DEF Chained
<1>2. PICK k \in K : \A j \in K : j <= k
  <2>1. K \subseteq 0..Len(w) /\ K # {}
    BY Zenon, <1>1
  <2> HIDE DEF K
  <2> QED BY Zenon, <2>1, Greatest
<1>3. k < Len(w) => ~Chained(w, k + 1)
  BY <1>2
<1>4. \E j \in 0..Len(w) : Chained(w, j) /\ (j < Len(w) => ~Chained(w, j + 1))
  BY Zenon, <1>2, <1>3
<1> HIDE DEF K
<1> QED BY <1>4, Zenon DEF verify_wal_integrity

LEMMA SendEffect ==
  ASSUME NEW n \in Server, NEW c \in Seq(StorageCommand),
         queue \in [Server -> Seq(StorageCommand)], Send(n, c)
  PROVE  /\ queue' \in [Server -> Seq(StorageCommand)]
         /\ \A s \in Server : queue'[s] = IF s = n /\ n \in Stored THEN queue[s] \o c ELSE queue[s]
BY DEF Send

LEMMA AppendsEffect ==
  ASSUME NEW l \in Seq(Entry), NEW from \in 0..Len(l)
  PROVE  /\ Appends(l, from) \in Seq(StorageCommand)
         /\ Len(Appends(l, from)) = Len(l) - from
         /\ \A i \in 1..(Len(l) - from) :
              Appends(l, from)[i] = [kind |-> "Append", chain |-> SubSeq(l, 1, from + i)]
<1>1. \A i \in 1..(Len(l) - from) : SubSeq(l, 1, from + i) \in Seq(Entry)
  OBVIOUS
<1>2. \A i \in 1..(Len(l) - from) : [kind |-> "Append", chain |-> SubSeq(l, 1, from + i)] \in StorageCommand
  BY Zenon, <1>1 DEF StorageCommand
<1>3. Len(l) - from \in Nat
  OBVIOUS
<1> DEFINE f(i) == [kind |-> "Append", chain |-> SubSeq(l, 1, from + i)]
<1>4. Appends(l, from) = [i \in 1..(Len(l) - from) |-> f(i)]
  BY Zenon DEF Appends
<1> HIDE DEF f
<1>5. \A i \in 1..(Len(l) - from) : f(i) \in StorageCommand
  BY Zenon, <1>2 DEF f
<1>6. Appends(l, from) \in Seq(StorageCommand) /\ Len(Appends(l, from)) = Len(l) - from
  BY <1>3, <1>4, <1>5
<1> QED BY Zenon, <1>4, <1>6 DEF f

LEMMA MetaTypes ==
  /\ \A t \in Nat, v \in Server \cup {Nobody} : Meta(t, v) \in StorageCommand
  /\ \A n, m : m.term \in Nat => PersistTerm(n, m) \in Seq(StorageCommand)
<1>1. \A t \in Nat, v \in Server \cup {Nobody} : Meta(t, v) \in StorageCommand
  BY Zenon DEF Meta, StorageCommand
<1>2. ASSUME NEW n, NEW m, m.term \in Nat PROVE PersistTerm(n, m) \in Seq(StorageCommand)
  <2>1. Meta(m.term, Nobody) \in StorageCommand
    BY Zenon, <1>1, <1>2
  <2> QED BY <2>1 DEF PersistTerm
<1> QED BY Zenon, <1>1, <1>2

LEMMA InitTypes == RaftInit => RaftTypeOK
BY DEF RaftInit, RaftTypeOK, Metadata

\* What a message of each kind carries.
LEMMA RPCTypes ==
  ASSUME NEW m \in RaftRPC
  PROVE  /\ m.term \in Nat /\ m.from \in Server
         /\ m.type = "REQUEST_VOTE" => m.last_log_index \in Nat /\ m.last_log_term \in Nat
         /\ m.type = "VOTE_RESPONSE" => m.to \in Server /\ m.vote_granted \in BOOLEAN
         /\ m.type = "APPEND_ENTRIES" =>
              m.prev \in Seq(Entry) /\ m.entries \in Seq(Entry) /\ m.leader_commit \in Nat
         /\ m.type = "APPEND_RESPONSE" =>
              m.to \in Server /\ m.success \in BOOLEAN /\ m.last_log_index \in Nat
BY Zenon DEF RaftRPC

LEMMA LastTermType == \A l \in Seq(Entry) : last_log_term(l) \in Nat
<1> SUFFICES ASSUME NEW l \in Seq(Entry) PROVE last_log_term(l) \in Nat
  BY Zenon
<1>1. CASE l = <<>>
  BY Zenon, <1>1 DEF last_log_term
<1>2. CASE l # <<>>
  <2>1. l[Len(l)] \in Entry
    BY <1>2
  <2> QED BY Zenon, <1>2, <2>1 DEF last_log_term, Entry
<1> QED BY Zenon, <1>1, <1>2

LEMMA Prefix ==
  ASSUME NEW S, NEW l \in Seq(S), NEW i \in 0..Len(l)
  PROVE  /\ SubSeq(l, 1, i) \in Seq(S) /\ Len(SubSeq(l, 1, i)) = i
         /\ \A j \in 1..i : SubSeq(l, 1, i)[j] = l[j]
<1>1. \A j \in 1..i : l[j] \in S
  OBVIOUS
<1> QED BY <1>1, SubSeqProperties

\* Splitting a log.
LEMMA Split ==
  ASSUME NEW l \in Seq(Entry), NEW i \in 0..Len(l)
  PROVE  /\ SubSeq(l, 1, i) \in Seq(Entry) /\ Len(SubSeq(l, 1, i)) = i
         /\ SubSeq(l, i + 1, Len(l)) \in Seq(Entry)
         /\ Len(SubSeq(l, i + 1, Len(l))) = Len(l) - i
         /\ SubSeq(l, 1, i) \o SubSeq(l, i + 1, Len(l)) = l
<1>1. \A j \in 1..i : l[j] \in Entry
  OBVIOUS
<1>2. \A j \in (i + 1)..Len(l) : l[j] \in Entry
  OBVIOUS
<1>3. SubSeq(l, 1, i) \in Seq(Entry) /\ Len(SubSeq(l, 1, i)) = i
  BY <1>1, SubSeqProperties
<1>4. SubSeq(l, i + 1, Len(l)) \in Seq(Entry) /\ Len(SubSeq(l, i + 1, Len(l))) = Len(l) - i
  BY <1>2, SubSeqProperties
<1>5. SubSeq(l, 1, i) \o SubSeq(l, i + 1, Len(l)) = l
  <2> DEFINE a == SubSeq(l, 1, i)
             b == SubSeq(l, i + 1, Len(l))
  <2>1. \A j \in 1..i : a[j] = l[j]
    OBVIOUS
  <2>2. \A j \in (i + 1)..Len(l) : b[j - i] = l[j]
    OBVIOUS
  <2>3. a \in Seq(Entry) /\ b \in Seq(Entry) /\ Len(a) = i /\ Len(b) = Len(l) - i
    BY Zenon, <1>3, <1>4
  <2> HIDE DEF a, b
  <2>4. a \o b \in Seq(Entry) /\ Len(a \o b) = Len(l)
    BY <2>3, ConcatProperties
  <2>5. ASSUME NEW j \in 1..Len(l) PROVE (a \o b)[j] = l[j]
    <3>1. (a \o b)[j] = IF j <= i THEN a[j] ELSE b[j - i]
      BY <2>3, ConcatProperties
    <3>2. CASE j <= i
      BY <2>1, <3>1, <3>2
    <3>3. CASE ~(j <= i)
      <4>1. j \in (i + 1)..Len(l)
        BY <3>3
      <4>2. b[j - i] = l[j]
        BY Zenon, <2>2, <4>1
      <4> QED BY Zenon, <3>1, <3>3, <4>2
    <3> QED BY Zenon, <3>2, <3>3
  <2>6. a \o b = l
    BY Zenon, <2>4, <2>5, SeqEqual
  <2> QED BY Zenon, <2>6 DEF a, b
<1> QED BY Zenon, <1>3, <1>4, <1>5

LEMMA RPCIntro ==
  ASSUME NEW t \in Nat, NEW f \in Server
  PROVE  /\ \A i, lt \in Nat :
              [type |-> "REQUEST_VOTE", term |-> t, from |-> f, last_log_index |-> i,
               last_log_term |-> lt] \in RaftRPC
         /\ \A to \in Server, g \in BOOLEAN :
              [type |-> "VOTE_RESPONSE", term |-> t, from |-> f, to |-> to,
               vote_granted |-> g] \in RaftRPC
         /\ \A p, e \in Seq(Entry), c \in Nat :
              [type |-> "APPEND_ENTRIES", term |-> t, from |-> f, prev |-> p, entries |-> e,
               leader_commit |-> c] \in RaftRPC
         /\ \A to \in Server, g \in BOOLEAN, i \in Nat :
              [type |-> "APPEND_RESPONSE", term |-> t, from |-> f, to |-> to, success |-> g,
               last_log_index |-> i] \in RaftRPC
BY Zenon DEF RaftRPC

\* What handle_rpc adopts from a message.
LEMMA AfterTypes ==
  ASSUME RaftTypeOK, NEW n \in Server, NEW m \in RaftRPC
  PROVE  /\ TermAfter(n, m) \in Nat
         /\ VoteAfter(n, m) \in Server \cup {Nobody}
         /\ StateAfter(n, m) \in {"Follower", "Candidate", "Leader"}
         /\ PersistTerm(n, m) \in Seq(StorageCommand)
BY Zenon, RPCTypes, MetaTypes DEF RaftTypeOK, TermAfter, VoteAfter, StateAfter

LEMMA ElectionTypes ==
  ASSUME RaftTypeOK, NEW n \in Server, start_election(n)
  PROVE  RaftTypeOK'
<1>1. current_term[n] + 1 \in Nat /\ last_log_term(log[n]) \in Nat
  BY LastTermType DEF RaftTypeOK
<1>2. queue' \in [Server -> Seq(StorageCommand)]
  <2>1. <<Meta(current_term[n] + 1, n)>> \in Seq(StorageCommand)
    BY <1>1, MetaTypes
  <2> QED BY Zenon, <2>1, SendEffect DEF start_election, RaftTypeOK
<1>3. rpcs' \subseteq RaftRPC
  <2>1. Len(log[n]) \in Nat /\ rpcs \subseteq RaftRPC
    BY DEF RaftTypeOK
  <2> QED BY Zenon, <1>1, <2>1, RPCIntro DEF start_election
<1> QED BY Zenon, <1>1, <1>2, <1>3 DEF start_election, RaftTypeOK

LEMMA HeartbeatTypes ==
  ASSUME RaftTypeOK, NEW n \in Server, send_heartbeats(n)
  PROVE  RaftTypeOK'
<1>1. ASSUME NEW p \in Server \ {n}
      PROVE  /\ SubSeq(log[n], 1, next_index[n][p]) \in Seq(Entry)
             /\ SubSeq(log[n], next_index[n][p] + 1, Len(log[n])) \in Seq(Entry)
  <2>1. log[n] \in Seq(Entry) /\ next_index[n][p] \in 0..Len(log[n])
    BY DEF RaftTypeOK, send_heartbeats
  <2> QED BY Zenon, <2>1, Split
<1>2. rpcs' \subseteq RaftRPC
  <2>1. current_term[n] \in Nat /\ commit_index[n] \in Nat /\ rpcs \subseteq RaftRPC
    BY Zenon DEF RaftTypeOK
  <2>2. ASSUME NEW p \in Server \ {n}
        PROVE  [type |-> "APPEND_ENTRIES", term |-> current_term[n], from |-> n,
                prev |-> SubSeq(log[n], 1, next_index[n][p]),
                entries |-> SubSeq(log[n], next_index[n][p] + 1, Len(log[n])),
                leader_commit |-> commit_index[n]] \in RaftRPC
    BY Zenon, <1>1, <2>1, RPCIntro
  <2> QED BY Zenon, <2>1, <2>2 DEF send_heartbeats
<1> QED BY Zenon, <1>2 DEF send_heartbeats, RaftTypeOK, engine, disk

LEMMA ProposeTypes ==
  ASSUME RaftTypeOK, NEW n \in Server, NEW data \in Command, propose(n, data)
  PROVE  RaftTypeOK'
<1>1. [term |-> current_term[n], data |-> data] \in Entry
  BY Zenon DEF RaftTypeOK, Entry
<1>2. log' \in [Server -> Seq(Entry)] /\ log'[n] \in Seq(Entry) /\ Len(log[n]) \in 0..Len(log'[n])
  BY <1>1 DEF RaftTypeOK, propose
<1>3. queue' \in [Server -> Seq(StorageCommand)]
  BY Zenon, <1>2, AppendsEffect, SendEffect DEF RaftTypeOK, propose
<1> QED BY Zenon, <1>2, <1>3 DEF propose, RaftTypeOK

LEMMA RequestVoteTypes ==
  ASSUME RaftTypeOK, NEW n \in Server, NEW m \in rpcs, handle_request_vote(n, m)
  PROVE  RaftTypeOK'
<1> DEFINE granted == /\ m.term >= current_term[n]
                      /\ VoteAfter(n, m) \in {Nobody, m.from}
                      /\ UpToDate(n, m)
           meta2 == IF granted THEN <<Meta(m.term, m.from)>> ELSE <<>>
<1>1. m \in RaftRPC /\ m.term \in Nat /\ m.from \in Server
  BY Zenon, RPCTypes DEF RaftTypeOK
<1>2. granted \in BOOLEAN
  BY Zenon
<1>3. queue' \in [Server -> Seq(StorageCommand)]
  <2>1. meta2 \in Seq(StorageCommand)
    BY <1>1, MetaTypes
  <2>2. PersistTerm(n, m) \o meta2 \in Seq(StorageCommand)
    BY Zenon, <1>1, <2>1, AfterTypes, ConcatProperties
  <2>3. Send(n, PersistTerm(n, m) \o meta2)
    BY Zenon DEF handle_request_vote
  <2> HIDE DEF meta2
  <2> QED BY Zenon, <2>2, <2>3, SendEffect DEF RaftTypeOK
<1>4. rpcs' \subseteq RaftRPC
  <2> HIDE DEF granted
  <2>1. rpcs' = rpcs \cup {[type |-> "VOTE_RESPONSE", term |-> TermAfter(n, m), from |-> n,
                            to |-> m.from, vote_granted |-> granted]}
    BY Zenon DEF handle_request_vote, granted
  <2>2. TermAfter(n, m) \in Nat
    BY Zenon, <1>1, AfterTypes
  <2> QED BY <1>1, <1>2, <2>1, <2>2, RPCIntro DEF RaftTypeOK
<1>5. voted_for' \in [Server -> Server \cup {Nobody}]
  BY Zenon, <1>1, AfterTypes DEF handle_request_vote, RaftTypeOK
<1>6. current_term' \in [Server -> Nat] /\ state' \in [Server -> {"Follower", "Candidate", "Leader"}]
  BY Zenon, <1>1, AfterTypes DEF handle_request_vote, RaftTypeOK
<1> QED BY Zenon, <1>3, <1>4, <1>5, <1>6 DEF handle_request_vote, RaftTypeOK

LEMMA VoteResponseTypes ==
  ASSUME RaftTypeOK, NEW n \in Server, NEW m \in rpcs, handle_vote_response(n, m)
  PROVE  RaftTypeOK'
<1>1. m \in RaftRPC /\ m.term \in Nat /\ m.from \in Server
  BY Zenon, RPCTypes DEF RaftTypeOK
<1>2. queue' \in [Server -> Seq(StorageCommand)]
  BY Zenon, <1>1, AfterTypes, SendEffect DEF handle_vote_response, RaftTypeOK
<1>3. current_term' \in [Server -> Nat] /\ voted_for' \in [Server -> Server \cup {Nobody}]
  BY Zenon, <1>1, AfterTypes DEF handle_vote_response, RaftTypeOK
<1>4. state' \in [Server -> {"Follower", "Candidate", "Leader"}]
  BY Zenon, <1>1, AfterTypes DEF handle_vote_response, RaftTypeOK
<1>5. votes_received' \in [Server -> SUBSET Server]
  BY Zenon, <1>1 DEF handle_vote_response, RaftTypeOK
<1>6. next_index' \in [Server -> [Server -> Nat]] /\ match_index' \in [Server -> [Server -> Nat]]
  <2>1. /\ [p \in Server |-> Len(log[n])] \in [Server -> Nat]
        /\ [p \in Server |-> 0] \in [Server -> Nat]
    BY DEF RaftTypeOK
  <2>2. next_index[n] \in [Server -> Nat] /\ match_index[n] \in [Server -> Nat]
    BY Zenon DEF RaftTypeOK
  <2>3. PICK x, y \in [Server -> Nat] : /\ next_index' = [next_index EXCEPT ![n] = x]
                                       /\ match_index' = [match_index EXCEPT ![n] = y]
    BY <2>1, <2>2, Zenon DEF handle_vote_response
  <2> QED BY Zenon, <2>3 DEF RaftTypeOK
<1> QED BY Zenon, <1>2, <1>3, <1>4, <1>5, <1>6 DEF handle_vote_response, RaftTypeOK

\* No server takes more for committed than it applied.
Applied == \A n \in Server : commit_index[n] <= Len(applied[n])

LEMMA AdvancedEffect ==
  ASSUME RaftTypeOK, NEW n \in Server, NEW l \in Seq(Entry), NEW c \in Nat,
         c > Len(applied[n]) => c <= Len(l)
  PROVE  Advanced(n, l, c) \in Seq(Command \cup {Recovery}) /\ c <= Len(Advanced(n, l, c))
<1> DEFINE a == applied[n]
           D == Command \cup {Recovery}
           f(i) == l[Len(a) + i].data
           b == [i \in 1..(c - Len(a)) |-> f(i)]
<1>1. a \in Seq(D) /\ Len(a) \in Nat
  BY DEF RaftTypeOK
<1>2. ASSUME NEW i \in 1..(c - Len(a)) PROVE f(i) \in D
  <2>1. Len(a) + i \in 1..Len(l)
    BY <1>1
  <2>2. l[Len(a) + i] \in Entry
    BY <2>1
  <2> QED BY Zenon, <2>2 DEF Entry
<1>3. Advanced(n, l, c) = a \o b
  BY Zenon DEF Advanced
<1> HIDE DEF a, f, D
<1>4. b \in Seq(D) /\ Len(b) = IF c > Len(a) THEN c - Len(a) ELSE 0
  <2>1. CASE c > Len(a)
    BY <1>1, <1>2, <2>1
  <2>2. CASE ~(c > Len(a))
    <3>1. 1..(c - Len(a)) = {}
      BY <1>1, <2>2
    <3>2. b = <<>>
      BY <3>1
    <3> HIDE DEF b
    <3>3. b \in Seq(D) /\ Len(b) = 0
      BY <3>2
    <3> QED BY Zenon, <3>3, <2>2
  <2> QED BY Zenon, <2>1, <2>2
<1> HIDE DEF b
<1>5. a \o b \in Seq(D) /\ Len(a \o b) = Len(a) + Len(b)
  BY Zenon, <1>1, <1>4, ConcatProperties
<1> QED BY <1>1, <1>3, <1>4, <1>5 DEF D

LEMMA TruncateTypes ==
  ASSUME RaftTypeOK, NEW n \in Server, NEW keep \in Nat, truncate_log_suffix(n, keep)
  PROVE  wal' \in [Server -> Seq(Seq(Entry))] /\ hole' \in [Server -> BOOLEAN]
<1>1. keep < Len(wal[n]) => SubSeq(wal[n], 1, keep) \in Seq(Seq(Entry))
  <2>1. wal[n] \in Seq(Seq(Entry))
    BY Zenon DEF RaftTypeOK
  <2> QED BY <2>1, Prefix
<1> QED BY Zenon, <1>1 DEF RaftTypeOK, truncate_log_suffix

\* An accepted APPEND_ENTRIES makes the log the leader's up to its last entry;
\* any other leaves it alone.
Takes(n, m, new, c, ok) ==
  /\ log' = [log EXCEPT ![n] = new]
  /\ Send(n, PersistTerm(n, m) \o c)
  /\ \/ new = log[n] /\ c = <<>>
     \/ /\ Len(m.prev) \in 0..Len(new) /\ c = Appends(new, Len(m.prev))
        /\ new = m.prev \o m.entries
  /\ commit_index' = [commit_index EXCEPT ![n] =
       IF ok /\ m.leader_commit > commit_index[n]
       THEN IF m.leader_commit <= Len(new) THEN m.leader_commit ELSE Len(new)
       ELSE commit_index[n]]
  /\ applied' = [applied EXCEPT ![n] = IF ok THEN Advanced(n, new, commit_index'[n]) ELSE @]
  /\ rpcs' = rpcs \cup {[type |-> "APPEND_RESPONSE", term |-> TermAfter(n, m), from |-> n,
                         to |-> m.from, success |-> ok, last_log_index |-> Len(new)]}

LEMMA AppendEntriesEffect ==
  ASSUME RaftTypeOK, NEW n \in Server, NEW m \in rpcs, handle_append_entries(n, m)
  PROVE  \E new \in Seq(Entry), c \in Seq(StorageCommand), ok \in BOOLEAN : Takes(n, m, new, c, ok)
<1> DEFINE current == m.term >= current_term[n]
           success == current /\ PrevMatches(n, m) /\ ChainMatches(n, m)
           extended == success /\ m.entries # <<>>
           new == IF extended THEN Extended(n, m) ELSE log[n]
           c == IF extended THEN Appends(new, Len(m.prev)) ELSE <<>>
           commit == IF success /\ m.leader_commit > commit_index[n]
                     THEN IF m.leader_commit <= Len(new) THEN m.leader_commit ELSE Len(new)
                     ELSE commit_index[n]
<1>1. m \in RaftRPC /\ m.type = "APPEND_ENTRIES" /\ m.prev \in Seq(Entry) /\ m.entries \in Seq(Entry)
  BY Zenon, RPCTypes DEF RaftTypeOK, handle_append_entries
<1>2. log[n] \in Seq(Entry)
  BY Zenon DEF RaftTypeOK
<1>3. ASSUME extended
      PROVE  /\ new = m.prev \o m.entries /\ new \in Seq(Entry)
             /\ Len(m.prev) \in 0..Len(new)
  <2>1. new = SubSeq(log[n], 1, Len(m.prev)) \o m.entries /\ SubSeq(log[n], 1, Len(m.prev)) = m.prev
    BY Zenon, <1>3 DEF ChainMatches, Extended
  <2>2. m.prev \o m.entries \in Seq(Entry) /\ Len(m.prev \o m.entries) = Len(m.prev) + Len(m.entries)
    BY Zenon, <1>1, ConcatProperties
  <2>3. Len(m.prev) \in Nat /\ Len(m.entries) \in Nat
    BY <1>1
  <2> HIDE DEF new
  <2>4. new = m.prev \o m.entries
    BY <2>1, Zenon
  <2>5. new \in Seq(Entry)
    BY <2>2, <2>4, Zenon
  <2>6. Len(m.prev) \in 0..Len(m.prev \o m.entries)
    <3>1. \A a, b \in Nat : a \in 0..(a + b)
      OBVIOUS
    <3> QED BY <2>2, <2>3, <3>1, Zenon
  <2> QED BY <2>4, <2>5, <2>6, Zenon
<1>4. new \in Seq(Entry)
  BY Zenon, <1>2, <1>3
<1>5. c \in Seq(StorageCommand)
  <2>1. CASE extended
    <3> HIDE DEF new, extended
    <3>1. c = Appends(new, Len(m.prev))
      BY Zenon, <2>1
    <3> HIDE DEF c
    <3> QED BY Zenon, <1>3, <2>1, <3>1, AppendsEffect
  <2>2. CASE ~extended
    BY <2>2
  <2> QED BY Zenon, <2>1, <2>2
<1>6. success \in BOOLEAN
  BY Zenon
<1>7. /\ log' = [log EXCEPT ![n] = new]
      /\ Send(n, PersistTerm(n, m) \o c)
      /\ commit_index' = [commit_index EXCEPT ![n] = commit]
      /\ applied' = [applied EXCEPT ![n] = IF success THEN Advanced(n, new, commit) ELSE @]
      /\ rpcs' = rpcs \cup {[type |-> "APPEND_RESPONSE", term |-> TermAfter(n, m), from |-> n,
                             to |-> m.from, success |-> success, last_log_index |-> Len(new)]}
  BY Zenon DEF handle_append_entries
<1>8. commit_index'[n] = commit
  BY Zenon, <1>7 DEF RaftTypeOK
<1>9. \/ new = log[n] /\ c = <<>>
      \/ /\ Len(m.prev) \in 0..Len(new) /\ c = Appends(new, Len(m.prev))
         /\ new = m.prev \o m.entries
  <2>1. CASE extended
    <3>1. c = Appends(new, Len(m.prev))
      BY Zenon, <2>1
    <3> HIDE DEF new, c, extended
    <3> QED BY Zenon, <1>3, <2>1, <3>1
  <2>2. CASE ~extended
    BY Zenon, <2>2
  <2> QED BY Zenon, <2>1, <2>2
<1> HIDE DEF new, c, extended, success
<1> WITNESS new \in Seq(Entry), c \in Seq(StorageCommand), success \in BOOLEAN
<1> QED BY Zenon, <1>7, <1>8, <1>9 DEF Takes

LEMMA AppendEntriesTypes ==
  ASSUME RaftTypeOK, Applied, NEW n \in Server, NEW m \in rpcs, handle_append_entries(n, m)
  PROVE  RaftTypeOK' /\ Applied'
<1>1. /\ m \in RaftRPC /\ m.type = "APPEND_ENTRIES" /\ m.term \in Nat /\ m.from \in Server
      /\ m.prev \in Seq(Entry) /\ m.leader_commit \in Nat
  BY Zenon, RPCTypes DEF RaftTypeOK, handle_append_entries
<1>2. PICK new \in Seq(Entry), c \in Seq(StorageCommand), ok \in BOOLEAN : Takes(n, m, new, c, ok)
  BY Zenon, AppendEntriesEffect
<1>3. log' \in [Server -> Seq(Entry)]
  BY Zenon, <1>2 DEF RaftTypeOK, Takes
<1>4. queue' \in [Server -> Seq(StorageCommand)]
  <2>1. PersistTerm(n, m) \o c \in Seq(StorageCommand)
    BY Zenon, <1>1, AfterTypes, ConcatProperties
  <2> QED BY Zenon, <1>2, <2>1, SendEffect DEF RaftTypeOK, Takes
<1>5. /\ commit_index' \in [Server -> Nat]
      /\ \A s \in Server \ {n} : commit_index'[s] = commit_index[s]
      /\ commit_index'[n] = commit_index[n] \/ (ok /\ commit_index'[n] <= Len(new))
  <2>1. Len(new) \in Nat /\ commit_index[n] \in Nat
    BY DEF RaftTypeOK
  <2> QED BY <1>1, <1>2, <2>1 DEF RaftTypeOK, Takes
<1>6. /\ applied' \in [Server -> Seq(Command \cup {Recovery})]
      /\ \A s \in Server \ {n} : applied'[s] = applied[s]
      /\ commit_index'[n] <= Len(applied'[n])
  <2>1. commit_index[n] <= Len(applied[n]) /\ Len(applied[n]) \in Nat /\ commit_index'[n] \in Nat
    BY <1>5 DEF Applied, RaftTypeOK
  <2>2. CASE ok
    <3>1. commit_index'[n] > Len(applied[n]) => commit_index'[n] <= Len(new)
      BY <1>5, <2>1 DEF RaftTypeOK
    <3>2. /\ Advanced(n, new, commit_index'[n]) \in Seq(Command \cup {Recovery})
          /\ commit_index'[n] <= Len(Advanced(n, new, commit_index'[n]))
      BY Zenon, <2>1, <3>1, AdvancedEffect
    <3>3. applied' = [applied EXCEPT ![n] = Advanced(n, new, commit_index'[n])]
      BY Zenon, <1>2, <2>2 DEF Takes
    <3> QED BY Zenon, <3>2, <3>3 DEF RaftTypeOK
  <2>3. CASE ~ok
    <3>1. commit_index'[n] = commit_index[n] /\ applied' = [applied EXCEPT ![n] = applied[n]]
      BY Zenon, <1>2, <1>5, <2>3 DEF Takes
    <3> QED BY Zenon, <2>1, <3>1 DEF RaftTypeOK
  <2> QED BY Zenon, <2>2, <2>3
<1>7. rpcs' \subseteq RaftRPC
  <2>1. TermAfter(n, m) \in Nat /\ Len(new) \in Nat
    BY <1>1, AfterTypes
  <2> QED BY <1>1, <1>2, <2>1, RPCIntro DEF RaftTypeOK, Takes
<1>8. wal' \in [Server -> Seq(Seq(Entry))] /\ hole' \in [Server -> BOOLEAN]
  <2>1. Len(m.prev) \in Nat
    BY <1>1
  <2>2. truncate_log_suffix(n, Len(m.prev)) \/ UNCHANGED <<wal, hole>>
    BY Zenon DEF handle_append_entries
  <2> QED BY Zenon, <2>1, <2>2, TruncateTypes DEF RaftTypeOK
<1>9. /\ current_term' \in [Server -> Nat] /\ voted_for' \in [Server -> Server \cup {Nobody}]
      /\ state' \in [Server -> {"Follower", "Candidate", "Leader"}]
  BY Zenon, <1>1, AfterTypes DEF handle_append_entries, RaftTypeOK
<1>10. RaftTypeOK'
  BY Zenon, <1>3, <1>4, <1>5, <1>6, <1>7, <1>8, <1>9 DEF handle_append_entries, RaftTypeOK
<1>11. Applied'
  BY Zenon, <1>5, <1>6 DEF Applied
<1> QED BY Zenon, <1>10, <1>11

\* The commit index a leader computes lies in its log, or has not moved.
LEMMA CommitType ==
  ASSUME RaftTypeOK, NEW n \in Server, NEW matched
  PROVE  /\ update_commit_index(n, matched) \in Nat
         /\ \/ update_commit_index(n, matched) = commit_index[n]
            \/ update_commit_index(n, matched) <= Len(log[n])
<1> DEFINE C == Committable(n, matched)
<1>1. commit_index[n] \in Nat /\ Len(log[n]) \in Nat
  BY DEF RaftTypeOK
<1>2. C \subseteq (commit_index[n] + 1)..Len(log[n])
  BY Zenon DEF Committable
<1>3. CASE C = {}
  BY Zenon, <1>1, <1>3 DEF update_commit_index
<1>4. CASE C # {}
  <2> DEFINE Top(i) == \A j \in C : j <= i
  <2>1. \E i \in C : Top(i)
    <3>1. C \subseteq 0..Len(log[n])
      BY <1>1, <1>2
    <3> HIDE DEF C
    <3> QED BY Zenon, <1>1, <1>4, <3>1, Greatest
  <2> HIDE DEF C
  <2>2. (CHOOSE i \in C : Top(i)) \in C
    BY Zenon, <2>1
  <2>3. update_commit_index(n, matched) = CHOOSE i \in C : Top(i)
    BY <1>4, Zenon DEF update_commit_index, C
  <2>4. update_commit_index(n, matched) \in (commit_index[n] + 1)..Len(log[n])
    BY <1>2, <2>2, <2>3, Zenon
  <2> QED BY <1>1, <2>4
<1> QED BY Zenon, <1>3, <1>4

LEMMA AppendResponseTypes ==
  ASSUME RaftTypeOK, Applied, NEW n \in Server, NEW m \in rpcs, handle_append_response(n, m)
  PROVE  RaftTypeOK' /\ Applied'
<1> DEFINE counted == state[n] = "Leader" /\ m.term = current_term[n]
           matched == [match_index[n] EXCEPT ![m.from] = m.last_log_index]
           commit == update_commit_index(n, matched)
           lower == IF next_index[n][m.from] > 0 THEN next_index[n][m.from] - 1 ELSE 0
<1>1. /\ m \in RaftRPC /\ m.type = "APPEND_RESPONSE" /\ m.term \in Nat /\ m.from \in Server
      /\ m.last_log_index \in Nat
  BY Zenon, RPCTypes DEF RaftTypeOK, handle_append_response
<1>2. /\ current_term' \in [Server -> Nat] /\ voted_for' \in [Server -> Server \cup {Nobody}]
      /\ state' \in [Server -> {"Follower", "Candidate", "Leader"}]
  BY Zenon, <1>1, AfterTypes DEF handle_append_response, RaftTypeOK
<1>3. queue' \in [Server -> Seq(StorageCommand)]
  BY Zenon, <1>1, AfterTypes, SendEffect DEF handle_append_response, RaftTypeOK
<1>4. matched \in [Server -> Nat] /\ lower \in Nat
  <2>1. match_index[n] \in [Server -> Nat] /\ next_index[n][m.from] \in Nat
    BY Zenon, <1>1 DEF RaftTypeOK
  <2>2. matched \in [Server -> Nat]
    BY Zenon, <1>1, <2>1
  <2>3. lower \in Nat
    BY <2>1
  <2> QED BY Zenon, <2>2, <2>3
<1> HIDE DEF matched
<1>5. commit \in Nat /\ (commit = commit_index[n] \/ commit <= Len(log[n]))
  BY Zenon, CommitType
<1>6. CASE counted /\ m.success
  <2>1. /\ next_index' = [next_index EXCEPT ![n][m.from] = m.last_log_index]
        /\ match_index' = [match_index EXCEPT ![n] = matched]
        /\ commit_index' = [commit_index EXCEPT ![n] = commit]
        /\ applied' = [applied EXCEPT ![n] = Advanced(n, log[n], commit)]
    BY Zenon, <1>6 DEF handle_append_response, matched
  <2> HIDE DEF commit
  <2>2. commit > Len(applied[n]) => commit <= Len(log[n])
    <3>1. commit_index[n] <= Len(applied[n]) /\ commit_index[n] \in Nat /\ Len(applied[n]) \in Nat
      BY DEF RaftTypeOK, Applied
    <3> QED BY <1>5, <3>1
  <2>3. log[n] \in Seq(Entry)
    BY Zenon DEF RaftTypeOK
  <2>4. /\ Advanced(n, log[n], commit) \in Seq(Command \cup {Recovery})
        /\ commit <= Len(Advanced(n, log[n], commit))
    BY Zenon, <1>5, <2>2, <2>3, AdvancedEffect
  <2>5. next_index' \in [Server -> [Server -> Nat]]
    BY Zenon, <1>1, <2>1 DEF RaftTypeOK
  <2>6. /\ match_index' \in [Server -> [Server -> Nat]]
        /\ commit_index' \in [Server -> Nat]
        /\ applied' \in [Server -> Seq(Command \cup {Recovery})]
    BY Zenon, <1>4, <1>5, <2>1, <2>4 DEF RaftTypeOK
  <2>7. Applied'
    BY Zenon, <2>1, <2>4 DEF Applied, RaftTypeOK
  <2> QED BY Zenon, <1>2, <1>3, <2>5, <2>6, <2>7 DEF handle_append_response, RaftTypeOK
<1>7. CASE ~(counted /\ m.success)
  <2>1. /\ next_index' = [next_index EXCEPT ![n][m.from] = lower] \/ next_index' = next_index
        /\ UNCHANGED <<match_index, commit_index, applied>>
    BY Zenon, <1>7 DEF handle_append_response
  <2> HIDE DEF lower
  <2>2. next_index' \in [Server -> [Server -> Nat]]
    <3>1. CASE next_index' = next_index
      BY Zenon, <3>1 DEF RaftTypeOK
    <3>2. CASE next_index' = [next_index EXCEPT ![n][m.from] = lower]
      BY Zenon, <1>1, <1>4, <3>2 DEF RaftTypeOK
    <3> QED BY Zenon, <2>1, <3>1, <3>2
  <2> QED BY Zenon, <1>2, <1>3, <2>1, <2>2 DEF handle_append_response, RaftTypeOK, Applied
<1> QED BY Zenon, <1>6, <1>7

LEMMA WorkerTypes ==
  ASSUME RaftTypeOK, NEW n \in Server, Worker(n)
  PROVE  RaftTypeOK'
<1>1. queue[n] \in Seq(StorageCommand) /\ queue[n] # <<>>
  BY Zenon DEF RaftTypeOK, Worker
<1>2. Head(queue[n]) \in StorageCommand /\ Tail(queue[n]) \in Seq(StorageCommand)
  BY Zenon, <1>1, HeadTailProperties
<1>3. queue' \in [Server -> Seq(StorageCommand)]
  BY Zenon, <1>2 DEF RaftTypeOK, Worker
<1>4. CASE Head(queue[n]).kind = "Meta"
  <2>1. [term |-> Head(queue[n]).term, vote |-> Head(queue[n]).vote] \in Metadata
    BY Zenon, <1>2, <1>4 DEF StorageCommand, Metadata
  <2>2. meta' \in [Server -> Metadata] /\ wal' = wal
    BY Zenon, <1>4, <2>1 DEF RaftTypeOK, Worker
  <2> QED BY Zenon, <1>3, <2>2 DEF RaftTypeOK, Worker, engine
<1>5. CASE Head(queue[n]).kind # "Meta"
  <2>1. Head(queue[n]).chain \in Seq(Entry)
    BY Zenon, <1>2, <1>5 DEF StorageCommand
  <2>2. wal' \in [Server -> Seq(Seq(Entry))] /\ meta' = meta
    <3>1. wal[n] \in Seq(Seq(Entry)) /\ Append(wal[n], Head(queue[n]).chain) \in Seq(Seq(Entry))
      BY <2>1 DEF RaftTypeOK
    <3>2. /\ meta' = meta
          /\ wal' = [wal EXCEPT ![n] = IF hole[n] THEN @ ELSE Append(@, Head(queue[n]).chain)]
      BY Zenon, <1>5 DEF Worker
    <3> QED BY Zenon, <3>1, <3>2 DEF RaftTypeOK
  <2> QED BY Zenon, <1>3, <2>2 DEF RaftTypeOK, Worker, engine
<1> QED BY Zenon, <1>4, <1>5

\* A restart loads a record of the file, with all it is chained to, and may
\* add a recovery entry to it.
Loads(n, k, kept, loaded, c) ==
  /\ log' = [log EXCEPT ![n] = loaded]
  /\ wal' = [wal EXCEPT ![n] = SubSeq(@, 1, k)]
  /\ queue' = [queue EXCEPT ![n] = c]
  /\ kept = IF k = 0 THEN <<>> ELSE wal[n][k]
  /\ \/ loaded = kept /\ c = <<>>
     \/ /\ loaded = Append(kept, [term |-> meta[n].term, data |-> Recovery])
        /\ Len(loaded) = k + 1 /\ c = Appends(loaded, k)

LEMMA RestartEffect ==
  ASSUME RaftTypeOK, NEW n \in Server, Restart(n)
  PROVE  \E k \in 0..Len(wal[n]), kept, loaded \in Seq(Entry), c \in Seq(StorageCommand) :
           Loads(n, k, kept, loaded, c)
<1> DEFINE k == verify_wal_integrity(wal[n])
           kept == IF k = 0 THEN <<>> ELSE wal[n][k]
           broken == k < Len(wal[n])
           longer == Append(kept, [term |-> meta[n].term, data |-> Recovery])
           loaded == IF broken THEN longer ELSE kept
           c == IF broken THEN Appends(loaded, k) ELSE <<>>
<1>1. wal[n] \in Seq(Seq(Entry)) /\ meta[n].term \in Nat
  BY Zenon DEF RaftTypeOK, Metadata
<1>2. k \in 0..Len(wal[n]) /\ Chained(wal[n], k)
  BY <1>1, ChainedRecords
<1>3. /\ log' = [log EXCEPT ![n] = loaded]
      /\ wal' = [wal EXCEPT ![n] = SubSeq(@, 1, k)]
      /\ queue' = [queue EXCEPT ![n] = c]
  BY Zenon DEF Restart
<1> HIDE DEF k
<1>4. kept \in Seq(Entry) /\ Len(kept) = k
  <2>1. CASE k = 0
    BY <2>1
  <2>2. CASE k # 0
    BY <1>1, <1>2, <2>2 DEF Chained
  <2> QED BY Zenon, <2>1, <2>2
<1> HIDE DEF kept
<1>5. [term |-> meta[n].term, data |-> Recovery] \in Entry
  BY Zenon, <1>1 DEF Entry
<1>6. longer \in Seq(Entry) /\ Len(longer) = k + 1
  BY <1>4, <1>5
<1> HIDE DEF longer
<1>7. Appends(longer, k) \in Seq(StorageCommand)
  BY <1>2, <1>6, AppendsEffect
<1>8. kept = IF k = 0 THEN <<>> ELSE wal[n][k]
  BY Zenon DEF kept
<1>9. longer = Append(kept, [term |-> meta[n].term, data |-> Recovery])
  BY Zenon DEF longer
<1>10. CASE broken
  <2>1. loaded = longer /\ c = Appends(longer, k)
    BY Zenon, <1>10
  <2> HIDE DEF loaded, c, broken
  <2>2. Loads(n, k, kept, longer, Appends(longer, k))
    BY <1>3, <1>6, <1>8, <1>9, <2>1, Zenon DEF Loads
  <2> QED BY Zenon, <1>2, <1>4, <1>6, <1>7, <2>2
<1>11. CASE ~broken
  <2>1. loaded = kept /\ c = <<>>
    BY Zenon, <1>11
  <2>2. <<>> \in Seq(StorageCommand)
    OBVIOUS
  <2> HIDE DEF loaded, c, broken
  <2>3. Loads(n, k, kept, kept, <<>>)
    BY <1>3, <1>8, <2>1, Zenon DEF Loads
  <2> QED BY Zenon, <1>2, <1>4, <2>2, <2>3
<1> QED BY Zenon, <1>10, <1>11

LEMMA RestartTypes ==
  ASSUME RaftTypeOK, Applied, NEW n \in Server, Restart(n)
  PROVE  RaftTypeOK' /\ Applied'
<1>1. PICK k \in 0..Len(wal[n]), kept, loaded \in Seq(Entry), c \in Seq(StorageCommand) :
        Loads(n, k, kept, loaded, c)
  BY Zenon, RestartEffect
<1>2. SubSeq(wal[n], 1, k) \in Seq(Seq(Entry))
  <2>1. wal[n] \in Seq(Seq(Entry))
    BY Zenon DEF RaftTypeOK
  <2> QED BY Zenon, <2>1, Prefix
<1>3. /\ log' \in [Server -> Seq(Entry)] /\ wal' \in [Server -> Seq(Seq(Entry))]
      /\ queue' \in [Server -> Seq(StorageCommand)]
  BY Zenon, <1>1, <1>2 DEF RaftTypeOK, Loads
<1>4. /\ current_term' \in [Server -> Nat] /\ voted_for' \in [Server -> Server \cup {Nobody}]
      /\ state' \in [Server -> {"Follower", "Candidate", "Leader"}]
      /\ votes_received' \in [Server -> SUBSET Server]
  BY Zenon DEF RaftTypeOK, Restart, Metadata
<1>5. /\ next_index' \in [Server -> [Server -> Nat]] /\ match_index' \in [Server -> [Server -> Nat]]
      /\ commit_index' \in [Server -> Nat]
      /\ hole' \in [Server -> BOOLEAN] /\ restarts' \in Nat
  <2>1. [p \in Server |-> 0] \in [Server -> Nat]
    BY Zenon
  <2>2. next_index' \in [Server -> [Server -> Nat]] /\ match_index' \in [Server -> [Server -> Nat]]
    BY Zenon, <2>1 DEF RaftTypeOK, Restart
  <2>3. commit_index' \in [Server -> Nat] /\ restarts' \in Nat
    BY DEF RaftTypeOK, Restart
  <2> DEFINE b == verify_wal_integrity(wal[n]) < Len(wal[n])
  <2>4. hole' = [hole EXCEPT ![n] = b] /\ b \in BOOLEAN
    BY DEF Restart
  <2> HIDE DEF b
  <2>5. hole' \in [Server -> BOOLEAN]
    BY Zenon, <2>4 DEF RaftTypeOK
  <2> QED BY Zenon, <2>2, <2>3, <2>5
<1>6. applied' \in [Server -> Seq(Command \cup {Recovery})] /\ Applied'
  <2>1. <<>> \in Seq(Command \cup {Recovery}) /\ 0 <= Len(<<>>)
    OBVIOUS
  <2> QED BY Zenon, <2>1 DEF RaftTypeOK, Restart, Applied
<1> QED BY Zenon, <1>3, <1>4, <1>5, <1>6 DEF RaftTypeOK, Restart

LEMMA TypesStep == RaftTypeOK /\ Applied /\ [RaftNext]_raft_vars => RaftTypeOK' /\ Applied'
<1> SUFFICES ASSUME RaftTypeOK, Applied, [RaftNext]_raft_vars PROVE RaftTypeOK' /\ Applied'
  BY Zenon
<1>1. CASE UNCHANGED raft_vars
  BY Zenon, <1>1 DEF raft_vars, engine, disk, RaftTypeOK, Applied
<1>2. ASSUME NEW n \in Server, start_election(n) PROVE RaftTypeOK' /\ Applied'
  BY Zenon, <1>2, ElectionTypes DEF Applied, start_election
<1>3. ASSUME NEW n \in Server, send_heartbeats(n) PROVE RaftTypeOK' /\ Applied'
  BY Zenon, <1>3, HeartbeatTypes DEF Applied, send_heartbeats, engine
<1>4. ASSUME NEW n \in Server, NEW data \in Command, propose(n, data) PROVE RaftTypeOK' /\ Applied'
  BY Zenon, <1>4, ProposeTypes DEF Applied, propose
<1>5. ASSUME NEW n \in Server, NEW m \in rpcs, handle_rpc(n, m) PROVE RaftTypeOK' /\ Applied'
  <2>1. CASE handle_request_vote(n, m)
    BY Zenon, <2>1, RequestVoteTypes DEF Applied, handle_request_vote
  <2>2. CASE handle_vote_response(n, m)
    BY Zenon, <2>2, VoteResponseTypes DEF Applied, handle_vote_response
  <2> QED BY Zenon, <1>5, <2>1, <2>2, AppendEntriesTypes, AppendResponseTypes DEF handle_rpc
<1>6. ASSUME NEW n \in Server, Worker(n) PROVE RaftTypeOK' /\ Applied'
  BY Zenon, <1>6, WorkerTypes DEF Applied, Worker, engine
<1> QED BY Zenon, <1>1, <1>2, <1>3, <1>4, <1>5, <1>6, RestartTypes DEF RaftNext

\* Every variable keeps its type, and a log is never applied beyond what was
\* committed in it at the time, although a log may be cut below its commit
\* index.
THEOREM TypeCorrect == RaftSpec => [](RaftTypeOK /\ Applied)
<1>1. RaftInit => RaftTypeOK /\ Applied
  BY InitTypes DEF RaftInit, Applied
<1> QED BY <1>1, TypesStep, PTL DEF RaftSpec

-----------------------------------------------------------------------------
(* What the files hold once the storage thread is idle.                    *)

IsMeta(cmd) == cmd.kind = "Meta"

\* A queue q and the metadata d on disk come to metadata x.
LastIs(q, x) ==
  \E i \in 1..Len(q) : q[i] = Meta(x.term, x.vote) /\ \A j \in (i + 1)..Len(q) : ~IsMeta(q[j])
Quiet(q) == \A i \in 1..Len(q) : ~IsMeta(q[i])
Ends(q, d, x) == (d = x /\ Quiet(q)) \/ LastIs(q, x)

InMemory(n) == [term |-> current_term[n], vote |-> voted_for[n]]

\* The storage thread will leave on disk what is in memory.
MemoryIsSaved == \A n \in Stored : Ends(queue[n], meta[n], InMemory(n))

LEMMA QuietAfter ==
  ASSUME NEW q \in Seq(StorageCommand), NEW c \in Seq(StorageCommand), Quiet(c)
  PROVE  /\ \A d, x : Ends(q, d, x) => Ends(q \o c, d, x)
         /\ Quiet(q) => Quiet(q \o c)
         /\ \A x : LastIs(q, x) => LastIs(q \o c, x)
<1>1. /\ Len(q) \in Nat /\ Len(c) \in Nat
      /\ Len(q \o c) = Len(q) + Len(c)
      /\ \A i \in 1..Len(q) : (q \o c)[i] = q[i]
  BY ConcatProperties
<1>2. ASSUME NEW j \in 1..Len(q \o c), j > Len(q) PROVE ~IsMeta((q \o c)[j])
  <2>1. (q \o c)[j] = c[j - Len(q)] /\ j - Len(q) \in 1..Len(c)
    BY <1>1, <1>2, ConcatProperties
  <2> QED BY Zenon, <2>1 DEF Quiet
<1>3. Quiet(q) => Quiet(q \o c)
  <2> SUFFICES ASSUME Quiet(q), NEW j \in 1..Len(q \o c) PROVE ~IsMeta((q \o c)[j])
    BY Zenon DEF Quiet
  <2>1. CASE j > Len(q)
    BY Zenon, <1>2, <2>1
  <2>2. CASE ~(j > Len(q))
    <3>1. j \in 1..Len(q)
      BY <1>1, <2>2
    <3> QED BY Zenon, <1>1, <3>1 DEF Quiet
  <2> QED BY Zenon, <2>1, <2>2
<1>4. ASSUME NEW x, LastIs(q, x) PROVE LastIs(q \o c, x)
  <2>1. PICK i \in 1..Len(q) : q[i] = Meta(x.term, x.vote) /\ \A j \in (i + 1)..Len(q) : ~IsMeta(q[j])
    BY Zenon, <1>4 DEF LastIs
  <2>2. i \in 1..Len(q \o c) /\ (q \o c)[i] = Meta(x.term, x.vote)
    BY <1>1, <2>1
  <2>3. ASSUME NEW j \in (i + 1)..Len(q \o c) PROVE ~IsMeta((q \o c)[j])
    <3>1. CASE j > Len(q)
      BY <1>1, <1>2, <2>2, <3>1
    <3>2. CASE ~(j > Len(q))
      <4>1. j \in (i + 1)..Len(q) /\ j \in 1..Len(q)
        BY <1>1, <3>2
      <4> QED BY Zenon, <1>1, <2>1, <4>1
    <3> QED BY Zenon, <3>1, <3>2
  <2> QED BY Zenon, <2>2, <2>3 DEF LastIs
<1> QED BY Zenon, <1>3, <1>4 DEF Ends

LEMMA LastAfter ==
  ASSUME NEW q \in Seq(StorageCommand), NEW c \in Seq(StorageCommand), NEW x, LastIs(c, x)
  PROVE  LastIs(q \o c, x)
<1>1. /\ Len(q) \in Nat /\ Len(c) \in Nat /\ Len(q \o c) = Len(q) + Len(c)
  BY ConcatProperties
<1>2. ASSUME NEW j \in 1..Len(c)
      PROVE  Len(q) + j \in 1..Len(q \o c) /\ (q \o c)[Len(q) + j] = c[j]
  <2>1. Len(q) + j \in 1..(Len(q) + Len(c)) /\ ~(Len(q) + j <= Len(q)) /\ Len(q) + j - Len(q) = j
    BY <1>1
  <2>2. (q \o c)[Len(q) + j] = IF Len(q) + j <= Len(q) THEN q[Len(q) + j] ELSE c[Len(q) + j - Len(q)]
    BY <2>1, ConcatProperties
  <2> QED BY Zenon, <1>1, <2>1, <2>2
<1>3. PICK i \in 1..Len(c) : c[i] = Meta(x.term, x.vote) /\ \A j \in (i + 1)..Len(c) : ~IsMeta(c[j])
  BY Zenon DEF LastIs
<1>4. ASSUME NEW j \in (Len(q) + i + 1)..Len(q \o c) PROVE ~IsMeta((q \o c)[j])
  <2>1. j - Len(q) \in (i + 1)..Len(c) /\ j - Len(q) \in 1..Len(c) /\ Len(q) + (j - Len(q)) = j
    BY <1>1
  <2>2. (q \o c)[j] = c[j - Len(q)]
    BY Zenon, <1>2, <2>1
  <2> QED BY Zenon, <1>3, <2>1, <2>2
<1> QED BY Zenon, <1>2, <1>3, <1>4 DEF LastIs

LEMMA AppendsQuiet ==
  ASSUME NEW l \in Seq(Entry), NEW from \in 0..Len(l)
  PROVE  Quiet(Appends(l, from))
<1> SUFFICES ASSUME NEW i \in 1..Len(Appends(l, from)) PROVE ~IsMeta(Appends(l, from)[i])
  BY Zenon DEF Quiet
<1>1. Appends(l, from)[i] = [kind |-> "Append", chain |-> SubSeq(l, 1, from + i)]
  BY Zenon, AppendsEffect
<1> QED BY <1>1 DEF IsMeta

\* A handler that adopts the term of a message, and then sends commands that
\* are no metadata, keeps memory saved; so does one that saves its new state last.
LEMMA SavesStep ==
  ASSUME RaftTypeOK, MemoryIsSaved, NEW n \in Server, NEW c \in Seq(StorageCommand), Send(n, c),
         UNCHANGED meta, \A s \in Server \ {n} : InMemory(s)' = InMemory(s),
         LastIs(c, InMemory(n)') \/ (Quiet(c) /\ InMemory(n)' = InMemory(n))
  PROVE  MemoryIsSaved'
<1> SUFFICES ASSUME NEW s \in Stored PROVE Ends(queue'[s], meta'[s], InMemory(s)')
  BY Zenon DEF MemoryIsSaved
<1>1. s \in Server /\ queue[s] \in Seq(StorageCommand) /\ Ends(queue[s], meta[s], InMemory(s))
  BY Zenon, RaftAssumption DEF MemoryIsSaved, RaftTypeOK
<1>2. queue'[s] = IF s = n THEN queue[s] \o c ELSE queue[s]
  BY Zenon, <1>1, SendEffect DEF RaftTypeOK
<1>3. CASE s # n
  BY Zenon, <1>1, <1>2, <1>3
<1>4. CASE s = n /\ LastIs(c, InMemory(n)')
  <2>1. LastIs(queue[s] \o c, InMemory(s)')
    BY Zenon, <1>1, <1>4, LastAfter
  <2> QED BY Zenon, <1>2, <1>4, <2>1 DEF Ends
<1>5. CASE s = n /\ Quiet(c) /\ InMemory(n)' = InMemory(n)
  <2>1. Ends(queue[s] \o c, meta[s], InMemory(s))
    BY Zenon, <1>1, <1>5, QuietAfter
  <2> QED BY Zenon, <1>2, <1>5, <2>1
<1> QED BY Zenon, <1>3, <1>4, <1>5

LEMMA OneMetaIsLast ==
  ASSUME NEW c \in Seq(StorageCommand), NEW t, NEW v, Meta(t, v) \in StorageCommand
  PROVE  LastIs(c \o <<Meta(t, v)>>, [term |-> t, vote |-> v])
<1> DEFINE x == [term |-> t, vote |-> v]
           one == <<Meta(t, v)>>
<1>1. one \in Seq(StorageCommand) /\ Len(one) = 1 /\ one[1] = Meta(t, v)
  OBVIOUS
<1>2. x.term = t /\ x.vote = v
  BY Zenon
<1> HIDE DEF one, x
<1>3. LastIs(one, x)
  <2>1. \A j \in (1 + 1)..Len(one) : ~IsMeta(one[j])
    BY <1>1
  <2>2. one[1] = Meta(x.term, x.vote) /\ 1 \in 1..Len(one)
    BY <1>1, <1>2
  <2> QED BY Zenon, <2>1, <2>2 DEF LastIs
<1>4. LastIs(c \o one, x)
  BY Zenon, <1>1, <1>3, LastAfter
<1> QED BY Zenon, <1>4 DEF one, x

\* What handle_rpc sends for the term alone.
LEMMA PersistTermSaves ==
  ASSUME RaftTypeOK, NEW n \in Server, NEW m \in RaftRPC,
         current_term' = [current_term EXCEPT ![n] = TermAfter(n, m)],
         voted_for' = [voted_for EXCEPT ![n] = VoteAfter(n, m)]
  PROVE  /\ \A s \in Server \ {n} : InMemory(s)' = InMemory(s)
         /\ \/ LastIs(PersistTerm(n, m), InMemory(n)')
            \/ Quiet(PersistTerm(n, m)) /\ InMemory(n)' = InMemory(n)
<1>1. /\ current_term'[n] = TermAfter(n, m) /\ voted_for'[n] = VoteAfter(n, m)
      /\ \A s \in Server \ {n} : current_term'[s] = current_term[s] /\ voted_for'[s] = voted_for[s]
  BY Zenon DEF RaftTypeOK
<1>2. \A s \in Server \ {n} : InMemory(s)' = InMemory(s)
  BY Zenon, <1>1 DEF InMemory
<1>3. CASE Later(n, m)
  <2>1. InMemory(n)' = [term |-> m.term, vote |-> Nobody]
    BY Zenon, <1>1, <1>3 DEF InMemory, TermAfter, VoteAfter
  <2>2. Meta(m.term, Nobody) \in StorageCommand /\ PersistTerm(n, m) = <<Meta(m.term, Nobody)>>
    BY Zenon, <1>3, MetaTypes, RPCTypes DEF PersistTerm
  <2>3. <<>> \o <<Meta(m.term, Nobody)>> = <<Meta(m.term, Nobody)>> /\ <<>> \in Seq(StorageCommand)
    BY <2>2
  <2>4. LastIs(<<>> \o <<Meta(m.term, Nobody)>>, [term |-> m.term, vote |-> Nobody])
    BY Zenon, <2>2, <2>3, OneMetaIsLast
  <2> QED BY Zenon, <1>2, <2>1, <2>2, <2>3, <2>4
<1>4. CASE ~Later(n, m)
  <2>1. InMemory(n)' = InMemory(n)
    BY Zenon, <1>1, <1>4 DEF InMemory, TermAfter, VoteAfter
  <2>2. Quiet(PersistTerm(n, m))
    BY <1>4 DEF Quiet, PersistTerm
  <2> QED BY Zenon, <1>2, <2>1, <2>2
<1> QED BY Zenon, <1>3, <1>4

\* A restart finds in the file what was in memory, if the thread was idle.
LEMMA DrainedFile ==
  ASSUME MemoryIsSaved, NEW n \in Stored, queue[n] = <<>>
  PROVE  meta[n] = InMemory(n)
<1>1. Ends(<<>>, meta[n], InMemory(n))
  BY Zenon DEF MemoryIsSaved
<1>2. ~LastIs(<<>>, InMemory(n))
  BY DEF LastIs
<1> QED BY Zenon, <1>1, <1>2 DEF Ends

LEMMA SavedElection ==
  ASSUME RaftTypeOK, MemoryIsSaved, NEW n \in Server, start_election(n)
  PROVE  MemoryIsSaved'
<1> DEFINE t == current_term[n] + 1
<1>1. Meta(t, n) \in StorageCommand /\ <<Meta(t, n)>> \in Seq(StorageCommand)
  BY MetaTypes DEF RaftTypeOK
<1>2. Send(n, <<Meta(t, n)>>) /\ UNCHANGED meta
  BY Zenon DEF start_election
<1>3. /\ InMemory(n)' = [term |-> t, vote |-> n]
      /\ \A s \in Server \ {n} : InMemory(s)' = InMemory(s)
  BY Zenon DEF start_election, RaftTypeOK, InMemory
<1> HIDE DEF t
<1>4. <<>> \in Seq(StorageCommand) /\ <<>> \o <<Meta(t, n)>> = <<Meta(t, n)>>
  BY <1>1
<1>5. LastIs(<<>> \o <<Meta(t, n)>>, [term |-> t, vote |-> n])
  BY Zenon, <1>1, <1>4, OneMetaIsLast
<1>6. LastIs(<<Meta(t, n)>>, InMemory(n)')
  BY Zenon, <1>3, <1>4, <1>5
<1> QED BY Zenon, <1>1, <1>2, <1>3, <1>6, SavesStep

LEMMA SavedPropose ==
  ASSUME RaftTypeOK, MemoryIsSaved, NEW n \in Server, NEW data \in Command, propose(n, data)
  PROVE  MemoryIsSaved'
<1>1. log'[n] \in Seq(Entry) /\ Len(log[n]) \in 0..Len(log'[n])
  <2>1. [term |-> current_term[n], data |-> data] \in Entry
    BY Zenon DEF RaftTypeOK, Entry
  <2> QED BY <2>1 DEF RaftTypeOK, propose
<1>2. /\ Appends(log'[n], Len(log[n])) \in Seq(StorageCommand)
      /\ Quiet(Appends(log'[n], Len(log[n])))
  BY Zenon, <1>1, AppendsEffect, AppendsQuiet
<1>3. \A s \in Server : InMemory(s)' = InMemory(s)
  BY Zenon DEF propose, InMemory
<1> QED BY Zenon, <1>2, <1>3, SavesStep DEF propose

LEMMA SavedRequestVote ==
  ASSUME RaftTypeOK, MemoryIsSaved, NEW n \in Server, NEW m \in rpcs, handle_request_vote(n, m)
  PROVE  MemoryIsSaved'
<1> DEFINE granted == /\ m.term >= current_term[n]
                      /\ VoteAfter(n, m) \in {Nobody, m.from}
                      /\ UpToDate(n, m)
<1>1. m \in RaftRPC /\ m.term \in Nat /\ m.from \in Server
  BY Zenon, RPCTypes DEF RaftTypeOK
<1>2. PersistTerm(n, m) \in Seq(StorageCommand)
  BY Zenon, <1>1, AfterTypes
<1>3. /\ current_term' = [current_term EXCEPT ![n] = TermAfter(n, m)]
      /\ voted_for' = [voted_for EXCEPT ![n] = IF granted THEN m.from ELSE VoteAfter(n, m)]
      /\ Send(n, PersistTerm(n, m) \o (IF granted THEN <<Meta(m.term, m.from)>> ELSE <<>>))
      /\ UNCHANGED meta
  BY Zenon DEF handle_request_vote
<1>4. CASE granted
  <2> DEFINE c == PersistTerm(n, m) \o <<Meta(m.term, m.from)>>
  <2>1. Meta(m.term, m.from) \in StorageCommand
    BY Zenon, <1>1, MetaTypes
  <2>2. c \in Seq(StorageCommand)
    BY <1>2, <2>1, ConcatProperties
  <2>3. TermAfter(n, m) = m.term
    BY <1>1, <1>4 DEF TermAfter, Later, RaftTypeOK
  <2>4. /\ InMemory(n)' = [term |-> m.term, vote |-> m.from]
        /\ \A s \in Server \ {n} : InMemory(s)' = InMemory(s)
    BY Zenon, <1>3, <1>4, <2>3 DEF InMemory, RaftTypeOK
  <2>5. LastIs(c, InMemory(n)')
    BY Zenon, <1>2, <2>1, <2>4, OneMetaIsLast
  <2>6. Send(n, c)
    BY Zenon, <1>3, <1>4
  <2> HIDE DEF c, granted
  <2> QED BY Zenon, <1>3, <2>2, <2>4, <2>5, <2>6, SavesStep
<1>5. CASE ~granted
  <2>1. PersistTerm(n, m) \o <<>> = PersistTerm(n, m)
    BY Zenon, <1>2, ConcatEmptySeq
  <2>2. Send(n, PersistTerm(n, m)) /\ voted_for' = [voted_for EXCEPT ![n] = VoteAfter(n, m)]
    BY Zenon, <1>3, <1>5, <2>1
  <2> HIDE DEF granted
  <2> QED BY Zenon, <1>1, <1>2, <1>3, <2>2, PersistTermSaves, SavesStep
<1> QED BY Zenon, <1>4, <1>5

LEMMA SavedResponse ==
  ASSUME RaftTypeOK, MemoryIsSaved, NEW n \in Server, NEW m \in rpcs,
         handle_vote_response(n, m) \/ handle_append_response(n, m)
  PROVE  MemoryIsSaved'
<1>1. m \in RaftRPC /\ PersistTerm(n, m) \in Seq(StorageCommand)
  BY Zenon, AfterTypes DEF RaftTypeOK
<1>2. /\ current_term' = [current_term EXCEPT ![n] = TermAfter(n, m)]
      /\ voted_for' = [voted_for EXCEPT ![n] = VoteAfter(n, m)]
      /\ Send(n, PersistTerm(n, m)) /\ UNCHANGED meta
  BY Zenon DEF handle_vote_response, handle_append_response
<1> QED BY Zenon, <1>1, <1>2, PersistTermSaves, SavesStep

LEMMA SavedAppendEntries ==
  ASSUME RaftTypeOK, MemoryIsSaved, NEW n \in Server, NEW m \in rpcs, handle_append_entries(n, m)
  PROVE  MemoryIsSaved'
<1>1. m \in RaftRPC /\ PersistTerm(n, m) \in Seq(StorageCommand)
  BY Zenon, AfterTypes DEF RaftTypeOK
<1>2. /\ current_term' = [current_term EXCEPT ![n] = TermAfter(n, m)]
      /\ voted_for' = [voted_for EXCEPT ![n] = VoteAfter(n, m)]
      /\ UNCHANGED meta
  BY Zenon DEF handle_append_entries
<1>3. PICK new \in Seq(Entry), c \in Seq(StorageCommand), ok \in BOOLEAN : Takes(n, m, new, c, ok)
  BY Zenon, AppendEntriesEffect
<1>4. Quiet(c)
  <2>1. CASE c = <<>>
    BY <2>1 DEF Quiet
  <2>2. CASE Len(m.prev) \in 0..Len(new) /\ c = Appends(new, Len(m.prev))
    BY Zenon, <2>2, AppendsQuiet
  <2> QED BY Zenon, <1>3, <2>1, <2>2 DEF Takes
<1>5. PersistTerm(n, m) \o c \in Seq(StorageCommand) /\ Send(n, PersistTerm(n, m) \o c)
  BY Zenon, <1>1, <1>3, ConcatProperties DEF Takes
<1>6. \/ LastIs(PersistTerm(n, m) \o c, InMemory(n)')
      \/ Quiet(PersistTerm(n, m) \o c) /\ InMemory(n)' = InMemory(n)
  BY Zenon, <1>1, <1>2, <1>4, PersistTermSaves, QuietAfter
<1> QED BY Zenon, <1>1, <1>2, <1>5, <1>6, PersistTermSaves, SavesStep

LEMMA SavedWorker ==
  ASSUME RaftTypeOK, MemoryIsSaved, NEW n \in Server, Worker(n)
  PROVE  MemoryIsSaved'
<1> SUFFICES ASSUME NEW s \in Stored PROVE Ends(queue'[s], meta'[s], InMemory(s))
  BY Zenon DEF MemoryIsSaved, InMemory, Worker, engine
<1>1. s \in Server /\ queue[s] \in Seq(StorageCommand) /\ Ends(queue[s], meta[s], InMemory(s))
  BY Zenon, RaftAssumption DEF MemoryIsSaved, RaftTypeOK
<1>2. CASE s # n
  <2>1. queue'[s] = queue[s] /\ meta'[s] = meta[s]
    BY Zenon, <1>1, <1>2 DEF Worker, RaftTypeOK
  <2> QED BY Zenon, <1>1, <2>1
<1>3. CASE s = n
  <2> DEFINE q == queue[s]
             x == InMemory(s)
  <2>1. q \in Seq(StorageCommand) /\ q # <<>> /\ queue'[s] = Tail(q)
    BY Zenon, <1>1, <1>3 DEF Worker, RaftTypeOK
  <2>2. /\ Len(q) \in Nat /\ Len(q) >= 1 /\ Len(Tail(q)) = Len(q) - 1 /\ Head(q) = q[1]
        /\ \A i \in 1..Len(Tail(q)) : Tail(q)[i] = q[i + 1]
    BY <2>1, HeadTailProperties
  <2>3. meta'[s] = IF IsMeta(Head(q)) THEN [term |-> Head(q).term, vote |-> Head(q).vote] ELSE meta[s]
    BY Zenon, <1>1, <1>3 DEF Worker, RaftTypeOK, IsMeta
  <2>4. Ends(q, meta[s], x)
    BY Zenon, <1>1
  <2>5. x = [term |-> x.term, vote |-> x.vote]
    BY Zenon DEF InMemory
  <2> HIDE DEF q, x
  <2>6. CASE meta[s] = x /\ Quiet(q)
    <3>1. ~IsMeta(Head(q)) /\ Quiet(Tail(q))
      BY <2>2, <2>6 DEF Quiet
    <3> QED BY Zenon, <2>1, <2>3, <2>6, <3>1 DEF Ends, x
  <2>7. CASE LastIs(q, x)
    <3>1. PICK i \in 1..Len(q) : q[i] = Meta(x.term, x.vote) /\ \A j \in (i + 1)..Len(q) : ~IsMeta(q[j])
      BY Zenon, <2>7 DEF LastIs
    <3>2. CASE i = 1
      <4>1. Quiet(Tail(q))
        BY <2>2, <3>1, <3>2 DEF Quiet
      <4>2. Head(q) = Meta(x.term, x.vote)
        BY Zenon, <2>2, <3>1, <3>2
      <4>3. meta'[s] = [term |-> x.term, vote |-> x.vote]
        BY <2>3, <4>2 DEF Meta, IsMeta
      <4> QED BY Zenon, <2>1, <2>5, <4>1, <4>3 DEF Ends, x
    <3>3. CASE i # 1
      <4>1. i - 1 \in 1..Len(Tail(q)) /\ Tail(q)[i - 1] = Meta(x.term, x.vote)
        BY <2>2, <3>1, <3>3
      <4>2. \A j \in ((i - 1) + 1)..Len(Tail(q)) : ~IsMeta(Tail(q)[j])
        BY <2>2, <3>1, <3>3
      <4>3. LastIs(Tail(q), x)
        BY Zenon, <4>1, <4>2 DEF LastIs
      <4> QED BY Zenon, <2>1, <4>3 DEF Ends, x
    <3> QED BY Zenon, <3>2, <3>3
  <2> QED BY Zenon, <2>4, <2>6, <2>7 DEF Ends
<1> QED BY Zenon, <1>2, <1>3

LEMMA SavedRestart ==
  ASSUME RaftTypeOK, MemoryIsSaved, NEW n \in Server, Restart(n)
  PROVE  MemoryIsSaved'
<1> SUFFICES ASSUME NEW s \in Stored PROVE Ends(queue'[s], meta'[s], InMemory(s)')
  BY Zenon DEF MemoryIsSaved
<1>1. s \in Server /\ Ends(queue[s], meta[s], InMemory(s)) /\ meta' = meta
  BY Zenon, RaftAssumption DEF MemoryIsSaved, Restart
<1>2. PICK k \in 0..Len(wal[n]), kept, loaded \in Seq(Entry), c \in Seq(StorageCommand) :
        Loads(n, k, kept, loaded, c)
  BY Zenon, RestartEffect
<1>3. CASE s # n
  <2>1. queue'[s] = queue[s] /\ InMemory(s)' = InMemory(s)
    BY Zenon, <1>1, <1>2, <1>3 DEF Restart, RaftTypeOK, InMemory, Loads
  <2> QED BY Zenon, <1>1, <2>1
<1>4. CASE s = n
  <2>1. Quiet(c)
    <3>1. CASE c = <<>>
      BY <3>1 DEF Quiet
    <3>2. CASE Len(loaded) = k + 1 /\ c = Appends(loaded, k)
      <4>1. k \in 0..Len(loaded)
        BY <3>2, <1>2 DEF RaftTypeOK
      <4> QED BY Zenon, <3>2, <4>1, AppendsQuiet
    <3> QED BY Zenon, <1>2, <3>1, <3>2 DEF Loads
  <2>2. queue'[s] = c
    BY Zenon, <1>1, <1>2, <1>4 DEF Loads, RaftTypeOK
  <2>3. InMemory(s)' = meta[s]
    <3>1. meta[s] \in Metadata
      BY Zenon, <1>1 DEF RaftTypeOK
    <3>2. current_term'[s] = meta[s].term /\ voted_for'[s] = meta[s].vote
      BY Zenon, <1>1, <1>4 DEF Restart, RaftTypeOK
    <3> QED BY Zenon, <3>1, <3>2 DEF InMemory, Metadata
  <2> QED BY Zenon, <1>1, <2>1, <2>2, <2>3 DEF Ends
<1> QED BY Zenon, <1>3, <1>4

LEMMA SavedStep == RaftTypeOK /\ MemoryIsSaved /\ [RaftNext]_raft_vars => MemoryIsSaved'
<1> SUFFICES ASSUME RaftTypeOK, MemoryIsSaved, [RaftNext]_raft_vars PROVE MemoryIsSaved'
  BY Zenon
<1>1. CASE UNCHANGED raft_vars
  BY Zenon, <1>1 DEF raft_vars, engine, disk, MemoryIsSaved, InMemory
<1>2. ASSUME NEW n \in Server, send_heartbeats(n) PROVE MemoryIsSaved'
  BY Zenon, <1>2 DEF send_heartbeats, engine, disk, MemoryIsSaved, InMemory
<1>3. ASSUME NEW n \in Server, NEW m \in rpcs, handle_rpc(n, m) PROVE MemoryIsSaved'
  BY Zenon, <1>3, SavedRequestVote, SavedResponse, SavedAppendEntries DEF handle_rpc
<1> QED BY Zenon, <1>1, <1>2, <1>3, SavedElection, SavedPropose, SavedWorker, SavedRestart DEF RaftNext

-----------------------------------------------------------------------------
(* Votes.                                                                  *)

\* q voted for c in term t: it answered so, or asked for votes itself.
VotedFor(q, t, c) ==
  \E m \in rpcs :
    /\ m.from = q /\ m.term = t
    /\ \/ m.type = "VOTE_RESPONSE" /\ m.vote_granted /\ m.to = c
       \/ m.type = "REQUEST_VOTE" /\ q = c

VotesRemembered ==
  \A q, c \in Server, t \in Nat :
    VotedFor(q, t, c) => t < current_term[q] \/ (t = current_term[q] /\ voted_for[q] = c)

VotesAgree ==
  \A q, c, d \in Server, t \in Nat : VotedFor(q, t, c) /\ VotedFor(q, t, d) => c = d

\* What any step of server n does to terms and votes.
VoteStep(n) ==
  /\ \A s \in Server \ {n} : current_term'[s] = current_term[s] /\ voted_for'[s] = voted_for[s]
  /\ \/ current_term'[n] > current_term[n]
     \/ /\ current_term'[n] = current_term[n]
        /\ voted_for[n] \in {Nobody, voted_for'[n]}
  /\ \A q, c \in Server, t \in Nat :
       VotedFor(q, t, c)' =>
         VotedFor(q, t, c) \/ (q = n /\ t = current_term'[n] /\ c = voted_for'[n])

LEMMA VoteStepKeepsVotes ==
  ASSUME RaftTypeOK, RaftTypeOK', VotesRemembered, VotesAgree, NEW n \in Server, VoteStep(n)
  PROVE  VotesRemembered' /\ VotesAgree'
<1>1. \A s \in Server : current_term[s] \in Nat /\ current_term'[s] \in Nat
  BY Zenon DEF RaftTypeOK
<1>2. ASSUME NEW q \in Server, NEW c \in Server, NEW t \in Nat, VotedFor(q, t, c)
      PROVE  /\ t < current_term'[q] \/ (t = current_term'[q] /\ voted_for'[q] = c)
             /\ q = n /\ t = current_term'[n] => c = voted_for'[n]
  <2>1. t < current_term[q] \/ (t = current_term[q] /\ voted_for[q] = c)
    BY Zenon, <1>2 DEF VotesRemembered
  <2>2. CASE q # n
    BY Zenon, <2>1, <2>2 DEF VoteStep
  <2>3. CASE q = n
    BY <1>1, <2>1, <2>3, RaftAssumption DEF VoteStep
  <2> QED BY Zenon, <2>2, <2>3
<1>3. VotesRemembered'
  <2> SUFFICES ASSUME NEW q \in Server, NEW c \in Server, NEW t \in Nat, VotedFor(q, t, c)'
               PROVE  t < current_term'[q] \/ (t = current_term'[q] /\ voted_for'[q] = c)
    BY Zenon DEF VotesRemembered
  <2>1. CASE VotedFor(q, t, c)
    BY Zenon, <1>2, <2>1
  <2>2. CASE q = n /\ t = current_term'[n] /\ c = voted_for'[n]
    BY Zenon, <2>2
  <2> QED BY Zenon, <2>1, <2>2 DEF VoteStep
<1>4. VotesAgree'
  <2> SUFFICES ASSUME NEW q \in Server, NEW c \in Server, NEW d \in Server, NEW t \in Nat,
                      VotedFor(q, t, c)', VotedFor(q, t, d)'
               PROVE  c = d
    BY Zenon DEF VotesAgree
  <2>1. CASE VotedFor(q, t, c) /\ VotedFor(q, t, d)
    BY Zenon, <2>1 DEF VotesAgree
  <2>2. CASE ~(VotedFor(q, t, c) /\ VotedFor(q, t, d))
    <3>1. q = n /\ t = current_term'[n]
      BY Zenon, <2>2 DEF VoteStep
    <3>2. c = voted_for'[n]
      BY Zenon, <1>2, <3>1 DEF VoteStep
    <3>3. d = voted_for'[n]
      BY Zenon, <1>2, <3>1 DEF VoteStep
    <3> QED BY Zenon, <3>2, <3>3
  <2> QED BY Zenon, <2>1, <2>2
<1> QED BY Zenon, <1>3, <1>4

\* A message that is no vote adds none.
LEMMA NoNewVote ==
  ASSUME NEW M, rpcs' = rpcs \cup M, \A m \in M : m.type \in {"APPEND_ENTRIES", "APPEND_RESPONSE"}
  PROVE  \A q, t, c : VotedFor(q, t, c)' => VotedFor(q, t, c)
BY Zenon DEF VotedFor

\* Adopting the term of a message is such a step.
LEMMA AdoptTerm ==
  ASSUME RaftTypeOK, NEW n \in Server, NEW m \in RaftRPC,
         current_term' = [current_term EXCEPT ![n] = TermAfter(n, m)],
         voted_for' = [voted_for EXCEPT ![n] = VoteAfter(n, m)],
         \A q, t, c : VotedFor(q, t, c)' => VotedFor(q, t, c)
  PROVE  VoteStep(n)
<1>1. /\ current_term'[n] = TermAfter(n, m) /\ voted_for'[n] = VoteAfter(n, m)
      /\ \A s \in Server \ {n} : current_term'[s] = current_term[s] /\ voted_for'[s] = voted_for[s]
  BY Zenon DEF RaftTypeOK
<1>2. m.term \in Nat /\ current_term[n] \in Nat
  BY Zenon, RPCTypes DEF RaftTypeOK
<1> QED BY Zenon, <1>1, <1>2 DEF VoteStep, TermAfter, VoteAfter, Later

LEMMA VoteStepElection ==
  ASSUME RaftTypeOK, NEW n \in Server, start_election(n)
  PROVE  VoteStep(n) /\ VotedFor(n, current_term[n], n)'
<1> DEFINE rv == [type |-> "REQUEST_VOTE", term |-> current_term[n] + 1, from |-> n,
                  last_log_index |-> Len(log[n]), last_log_term |-> last_log_term(log[n])]
<1>1. /\ current_term'[n] = current_term[n] + 1 /\ voted_for'[n] = n
      /\ \A s \in Server \ {n} : current_term'[s] = current_term[s] /\ voted_for'[s] = voted_for[s]
      /\ rpcs' = rpcs \cup {rv}
  BY Zenon DEF start_election, RaftTypeOK
<1>2. rv.type = "REQUEST_VOTE" /\ rv.from = n /\ rv.term = current_term[n] + 1
  BY Zenon
<1> HIDE DEF rv
<1>3. current_term'[n] > current_term[n]
  BY <1>1 DEF RaftTypeOK
<1>4. ASSUME NEW q, NEW t, NEW c, VotedFor(q, t, c)'
      PROVE  VotedFor(q, t, c) \/ (q = n /\ t = current_term'[n] /\ c = voted_for'[n])
  BY Zenon, <1>1, <1>2, <1>4 DEF VotedFor
<1>5. VotedFor(n, current_term[n], n)'
  BY Zenon, <1>1, <1>2 DEF VotedFor
<1> QED BY Zenon, <1>1, <1>3, <1>4, <1>5 DEF VoteStep

LEMMA VoteStepRequest ==
  ASSUME RaftTypeOK, NEW n \in Server, NEW m \in rpcs, handle_request_vote(n, m)
  PROVE  VoteStep(n)
<1> DEFINE granted == /\ m.term >= current_term[n]
                      /\ VoteAfter(n, m) \in {Nobody, m.from}
                      /\ UpToDate(n, m)
           vr == [type |-> "VOTE_RESPONSE", term |-> TermAfter(n, m), from |-> n, to |-> m.from,
                  vote_granted |-> granted]
<1>1. m.term \in Nat /\ current_term[n] \in Nat
  BY Zenon, RPCTypes DEF RaftTypeOK
<1>2. /\ current_term'[n] = TermAfter(n, m)
      /\ voted_for'[n] = IF granted THEN m.from ELSE VoteAfter(n, m)
      /\ \A s \in Server \ {n} : current_term'[s] = current_term[s] /\ voted_for'[s] = voted_for[s]
  BY Zenon DEF handle_request_vote, RaftTypeOK
<1>3. rpcs' = rpcs \cup {vr}
  BY Zenon DEF handle_request_vote
<1>4. vr.type = "VOTE_RESPONSE" /\ vr.from = n /\ vr.term = TermAfter(n, m) /\ vr.to = m.from
      /\ vr.vote_granted = granted
  BY Zenon
<1>5. \/ current_term'[n] > current_term[n]
      \/ current_term'[n] = current_term[n] /\ voted_for[n] \in {Nobody, voted_for'[n]}
  BY Zenon, <1>1, <1>2 DEF TermAfter, VoteAfter, Later
<1> HIDE DEF vr, granted
<1>6. ASSUME NEW q, NEW t, NEW c, VotedFor(q, t, c)'
      PROVE  VotedFor(q, t, c) \/ (q = n /\ t = current_term'[n] /\ c = voted_for'[n])
  BY Zenon, <1>2, <1>3, <1>4, <1>6 DEF VotedFor
<1> QED BY Zenon, <1>2, <1>5, <1>6 DEF VoteStep

LEMMA VoteStepOthers ==
  ASSUME RaftTypeOK, NEW n \in Server, NEW m \in rpcs,
         \/ handle_vote_response(n, m)
         \/ handle_append_response(n, m)
         \/ handle_append_entries(n, m)
  PROVE  VoteStep(n)
<1>1. m \in RaftRPC
  BY Zenon DEF RaftTypeOK
<1>2. /\ current_term' = [current_term EXCEPT ![n] = TermAfter(n, m)]
      /\ voted_for' = [voted_for EXCEPT ![n] = VoteAfter(n, m)]
  BY Zenon DEF handle_vote_response, handle_append_response, handle_append_entries
<1>3. \A q, t, c : VotedFor(q, t, c)' => VotedFor(q, t, c)
  <2>1. CASE handle_vote_response(n, m) \/ handle_append_response(n, m)
    BY Zenon, <2>1 DEF handle_vote_response, handle_append_response, VotedFor
  <2>2. CASE handle_append_entries(n, m)
    <3>1. PICK new \in Seq(Entry), c \in Seq(StorageCommand), ok \in BOOLEAN : Takes(n, m, new, c, ok)
      BY Zenon, <2>2, AppendEntriesEffect
    <3> DEFINE ar == [type |-> "APPEND_RESPONSE", term |-> TermAfter(n, m), from |-> n,
                      to |-> m.from, success |-> ok, last_log_index |-> Len(new)]
    <3>2. rpcs' = rpcs \cup {ar} /\ \A x \in {ar} : x.type \in {"APPEND_ENTRIES", "APPEND_RESPONSE"}
      BY <3>1 DEF Takes
    <3> HIDE DEF ar
    <3> QED BY Zenon, <3>2 DEF VotedFor
  <2> QED BY Zenon, <2>1, <2>2
<1> QED BY Zenon, <1>1, <1>2, <1>3, AdoptTerm

LEMMA HeartbeatMessages ==
  ASSUME RaftTypeOK, NEW n \in Server, send_heartbeats(n)
  PROVE  \E M : /\ rpcs' = rpcs \cup M
                /\ \A m \in M :
                     /\ m.type = "APPEND_ENTRIES" /\ m.term = current_term[n] /\ m.from = n
                     /\ m.prev \o m.entries = log[n]
<1> DEFINE AE(p) == [type |-> "APPEND_ENTRIES", term |-> current_term[n], from |-> n,
                     prev |-> SubSeq(log[n], 1, next_index[n][p]),
                     entries |-> SubSeq(log[n], next_index[n][p] + 1, Len(log[n])),
                     leader_commit |-> commit_index[n]]
           M == {AE(p) : p \in Server \ {n}}
<1>1. rpcs' = rpcs \cup M
  BY Zenon DEF send_heartbeats
<1>2. ASSUME NEW p \in Server \ {n}
      PROVE  SubSeq(log[n], 1, next_index[n][p]) \o SubSeq(log[n], next_index[n][p] + 1, Len(log[n]))
             = log[n]
  <2>1. log[n] \in Seq(Entry) /\ next_index[n][p] \in 0..Len(log[n])
    BY DEF RaftTypeOK, send_heartbeats
  <2> QED BY Zenon, <2>1, Split
<1>3. ASSUME NEW m \in M
      PROVE  /\ m.type = "APPEND_ENTRIES" /\ m.term = current_term[n] /\ m.from = n
             /\ m.prev \o m.entries = log[n]
  <2>1. PICK p \in Server \ {n} : m = AE(p)
    BY Zenon, <1>3
  <2>2. m.prev = SubSeq(log[n], 1, next_index[n][p])
        /\ m.entries = SubSeq(log[n], next_index[n][p] + 1, Len(log[n]))
    BY <2>1, Zenon
  <2>3. m.type = "APPEND_ENTRIES" /\ m.term = current_term[n] /\ m.from = n
    BY <2>1, Zenon
  <2> QED BY <1>2, <2>2, <2>3, Zenon
<1> HIDE DEF M
<1> QED BY Zenon, <1>1, <1>3

\* With an idle storage thread, a restart forgets neither term nor vote.
LEMMA VoteStepRestart ==
  ASSUME RaftTypeOK, MemoryIsSaved, DrainedRestarts, NEW n \in Server, Restart(n)
  PROVE  VoteStep(n)
<1>1. n \in Stored /\ queue[n] = <<>> /\ rpcs' = rpcs
  BY Zenon DEF Restart
<1>2. meta[n].term = current_term[n] /\ meta[n].vote = voted_for[n]
  <2>1. meta[n] = InMemory(n)
    BY Zenon, <1>1, DrainedFile
  <2> QED BY <2>1 DEF InMemory
<1>3. \A s \in Server : current_term'[s] = current_term[s] /\ voted_for'[s] = voted_for[s]
  BY Zenon, <1>2 DEF Restart, RaftTypeOK
<1>4. \A q, t, c : VotedFor(q, t, c)' => VotedFor(q, t, c)
  BY Zenon, <1>1 DEF VotedFor
<1> QED BY Zenon, <1>3, <1>4 DEF VoteStep

LEMMA VoteSteps ==
  ASSUME RaftTypeOK, MemoryIsSaved, DrainedRestarts, RaftNext
  PROVE  \E n \in Server : VoteStep(n)
<1>1. ASSUME NEW n \in Server, send_heartbeats(n) PROVE VoteStep(n)
  <2>1. \A q, t, c : VotedFor(q, t, c)' => VotedFor(q, t, c)
    BY Zenon, <1>1, HeartbeatMessages, NoNewVote
  <2> QED BY Zenon, <1>1, <2>1 DEF VoteStep, send_heartbeats, engine
<1>2. ASSUME NEW n \in Server, NEW data \in Command, propose(n, data) PROVE VoteStep(n)
  BY Zenon, <1>2 DEF VoteStep, propose, VotedFor
<1>3. ASSUME NEW n \in Server, Worker(n) PROVE VoteStep(n)
  BY Zenon, <1>3 DEF VoteStep, Worker, engine, VotedFor
<1>4. ASSUME NEW n \in Server, NEW m \in rpcs, handle_rpc(n, m) PROVE VoteStep(n)
  BY Zenon, <1>4, VoteStepRequest, VoteStepOthers DEF handle_rpc
<1> QED BY Zenon, <1>1, <1>2, <1>3, <1>4, VoteStepElection, VoteStepRestart DEF RaftNext

-----------------------------------------------------------------------------
(* Elections.                                                              *)

\* A candidate or leader counts votes it was given in its term, and a leader
\* has a quorum of them.
Campaigns ==
  \A n \in Server :
    /\ state[n] # "Follower" => \A v \in votes_received[n] : VotedFor(v, current_term[n], n)
    /\ state[n] = "Leader" => has_quorum(n, votes_received[n])

\* A quorum voted for l in term t.
Elected(l, t) == \E Q \in SUBSET Server : has_quorum(l, Q) /\ \A q \in Q : VotedFor(q, t, l)

\* Only the winner of an election sends entries in its term.
SendersElected == \A m \in rpcs : m.type = "APPEND_ENTRIES" => Elected(m.from, m.term)

LEMMA VotesStay ==
  ASSUME rpcs \subseteq rpcs'
  PROVE  /\ \A q, t, c : VotedFor(q, t, c) => VotedFor(q, t, c)'
         /\ \A l, t : Elected(l, t) => Elected(l, t)'
<1>1. \A q, t, c : VotedFor(q, t, c) => VotedFor(q, t, c)'
  BY Zenon DEF VotedFor
<1>2. ASSUME NEW l, NEW t, Elected(l, t) PROVE Elected(l, t)'
  <2>1. PICK Q \in SUBSET Server : has_quorum(l, Q) /\ \A q \in Q : VotedFor(q, t, l)
    BY Zenon, <1>2 DEF Elected
  <2>2. \A q \in Q : VotedFor(q, t, l)'
    BY Zenon, <1>1, <2>1
  <2> QED BY Zenon, <2>1, <2>2 DEF Elected, has_quorum
<1> QED BY Zenon, <1>1, <1>2

LEMMA RPCsStay == [RaftNext]_raft_vars => rpcs \subseteq rpcs'
<1> SUFFICES ASSUME [RaftNext]_raft_vars PROVE rpcs \subseteq rpcs'
  BY Zenon
<1>1. CASE UNCHANGED raft_vars
  BY Zenon, <1>1 DEF raft_vars
<1>2. ASSUME NEW n \in Server, start_election(n) PROVE rpcs \subseteq rpcs'
  BY Zenon, <1>2 DEF start_election
<1>3. ASSUME NEW n \in Server, send_heartbeats(n) PROVE rpcs \subseteq rpcs'
  BY Zenon, <1>3 DEF send_heartbeats
<1>4. ASSUME NEW n \in Server, NEW m \in rpcs, handle_rpc(n, m) PROVE rpcs \subseteq rpcs'
  <2>1. CASE handle_request_vote(n, m)
    BY Zenon, <2>1 DEF handle_request_vote
  <2>2. CASE handle_append_entries(n, m)
    BY Zenon, <2>2 DEF handle_append_entries
  <2>3. CASE handle_vote_response(n, m) \/ handle_append_response(n, m)
    BY Zenon, <2>3 DEF handle_vote_response, handle_append_response
  <2> QED BY Zenon, <1>4, <2>1, <2>2, <2>3 DEF handle_rpc
<1>5. ASSUME NEW n \in Server, Worker(n) \/ Restart(n) \/ \E data \in Command : propose(n, data)
      PROVE  rpcs \subseteq rpcs'
  BY Zenon, <1>5 DEF Worker, Restart, propose
<1> QED BY Zenon, <1>1, <1>2, <1>3, <1>4, <1>5 DEF RaftNext

LEMMA LeaderElected ==
  ASSUME RaftTypeOK, Campaigns, NEW n \in Server, state[n] = "Leader"
  PROVE  Elected(n, current_term[n])
<1>1. votes_received[n] \in SUBSET Server /\ has_quorum(n, votes_received[n])
      /\ \A v \in votes_received[n] : VotedFor(v, current_term[n], n)
  BY Zenon DEF Campaigns, RaftTypeOK
<1> QED BY Zenon, <1>1 DEF Elected

\* Two elections of a term have a voter in common, so one winner.
LEMMA OneElected ==
  ASSUME VotesAgree, NEW k \in Server, NEW l \in Server, NEW t \in Nat, Elected(k, t), Elected(l, t)
  PROVE  k = l
<1>1. PICK P \in SUBSET Server : has_quorum(k, P) /\ \A q \in P : VotedFor(q, t, k)
  BY Zenon DEF Elected
<1>2. PICK Q \in SUBSET Server : has_quorum(l, Q) /\ \A q \in Q : VotedFor(q, t, l)
  BY Zenon DEF Elected
<1>3. /\ IsFiniteSet(Server) /\ IsFiniteSet(P) /\ IsFiniteSet(Q)
      /\ Cardinality(Server) \in Nat /\ Cardinality(P) \in Nat /\ Cardinality(Q) \in Nat
  BY Zenon, RaftAssumption, FS_Subset, FS_CardinalityType
<1>4. Cardinality(Server \ {k}) = Cardinality(Server) - 1 /\ Cardinality(Server \ {l}) = Cardinality(Server) - 1
  BY Zenon, <1>3, FS_RemoveElement
<1>5. Cardinality(P) + Cardinality(Q) > Cardinality(Server)
  <2>1. \A a, b, c \in Nat : a > c \div 2 /\ b > c \div 2 => a + b > c
    OBVIOUS
  <2>2. Cardinality(P) > Cardinality(Server) \div 2 /\ Cardinality(Q) > Cardinality(Server) \div 2
    BY <1>1, <1>2, <1>3, <1>4 DEF has_quorum
  <2> QED BY Zenon, <1>3, <2>1, <2>2
<1>6. PICK q \in Server : q \in P /\ q \in Q
  BY Zenon, <1>3, <1>5, FS_MajoritiesIntersect
<1> QED BY Zenon, <1>1, <1>2, <1>6 DEF VotesAgree

\* A server that keeps its campaign or gives it up.
LEMMA CampaignKept ==
  ASSUME RaftTypeOK, Campaigns, rpcs \subseteq rpcs', NEW n \in Server,
         \A s \in Server \ {n} : /\ state'[s] = state[s] /\ current_term'[s] = current_term[s]
                                /\ votes_received'[s] = votes_received[s],
         \/ state'[n] = "Follower"
         \/ /\ state'[n] = state[n] /\ current_term'[n] = current_term[n]
            /\ votes_received'[n] = votes_received[n]
  PROVE  Campaigns'
<1> SUFFICES ASSUME NEW s \in Server, state'[s] # "Follower"
             PROVE  /\ \A v \in votes_received'[s] : VotedFor(v, current_term[s], s)'
                    /\ state'[s] = "Leader" => has_quorum(s, votes_received'[s])
  BY Zenon DEF Campaigns, has_quorum
<1>1. state'[s] = state[s] /\ current_term'[s] = current_term[s] /\ votes_received'[s] = votes_received[s]
  BY Zenon
<1>2. \A v \in votes_received[s] : VotedFor(v, current_term[s], s)
  BY Zenon, <1>1 DEF Campaigns
<1>3. ASSUME NEW v \in votes_received'[s] PROVE VotedFor(v, current_term[s], s)'
  <2>1. VotedFor(v, current_term[s], s)
    BY Zenon, <1>1, <1>2, <1>3
  <2>2. PICK m \in rpcs :
          /\ m.from = v /\ m.term = current_term'[s]
          /\ \/ m.type = "VOTE_RESPONSE" /\ m.vote_granted /\ m.to = s
             \/ m.type = "REQUEST_VOTE" /\ v = s
    BY Zenon, <1>1, <2>1 DEF VotedFor
  <2>3. m \in rpcs'
    BY Zenon
  <2> QED BY Zenon, <2>2, <2>3 DEF VotedFor
<1> QED BY Zenon, <1>1, <1>3 DEF Campaigns

LEMMA CampaignsStep ==
  ASSUME RaftTypeOK, Campaigns, RaftNext
  PROVE  Campaigns'
<1>0. rpcs \subseteq rpcs'
  BY Zenon, RPCsStay
<1>1. ASSUME NEW n \in Server, start_election(n) PROVE Campaigns'
  <2>1. /\ state'[n] = "Candidate" /\ votes_received'[n] = {n}
        /\ \A s \in Server \ {n} : /\ state'[s] = state[s] /\ current_term'[s] = current_term[s]
                                  /\ votes_received'[s] = votes_received[s]
    BY Zenon, <1>1 DEF start_election, RaftTypeOK
  <2>2. VotedFor(n, current_term[n], n)'
    BY Zenon, <1>1, VoteStepElection
  <2>3. ASSUME NEW s \in Server \ {n}, NEW v \in votes_received[s], VotedFor(v, current_term[s], s)
        PROVE  VotedFor(v, current_term[s], s)'
    BY Zenon, <1>0, <2>1, <2>3 DEF VotedFor
  <2> QED BY Zenon, <2>1, <2>2, <2>3 DEF Campaigns, has_quorum
<1>2. ASSUME NEW n \in Server, \/ send_heartbeats(n) \/ Worker(n) \/ Restart(n)
                               \/ \E data \in Command : propose(n, data)
      PROVE  Campaigns'
  <2>1. CASE Restart(n)
    BY Zenon, <1>0, <2>1, CampaignKept DEF Restart, RaftTypeOK
  <2>2. CASE \/ send_heartbeats(n) \/ Worker(n) \/ \E data \in Command : propose(n, data)
    <3>1. state' = state /\ current_term' = current_term /\ votes_received' = votes_received
      BY Zenon, <2>2 DEF send_heartbeats, Worker, propose, engine
    <3> QED BY Zenon, <1>0, <3>1, CampaignKept
  <2> QED BY Zenon, <1>2, <2>1, <2>2
<1>3. ASSUME NEW n \in Server, NEW m \in rpcs, handle_rpc(n, m) PROVE Campaigns'
  <2>0. m.term \in Nat /\ m.from \in Server /\ current_term[n] \in Nat
    BY Zenon, RPCTypes DEF RaftTypeOK
  <2>1. CASE handle_vote_response(n, m) /\ Counts(n, m)
    <3>1. ~Later(n, m) /\ m.term = current_term[n] /\ state[n] = "Candidate" /\ m.vote_granted
          /\ m.type = "VOTE_RESPONSE" /\ m.to = n
      BY Zenon, <2>0, <2>1 DEF handle_vote_response, Counts, StateAfter, TermAfter, Later
    <3>2. /\ votes_received'[n] = votes_received[n] \cup {m.from}
          /\ state'[n] = "Leader" => has_quorum(n, votes_received'[n])
          /\ current_term'[n] = current_term[n]
          /\ \A s \in Server \ {n} : /\ state'[s] = state[s] /\ current_term'[s] = current_term[s]
                                    /\ votes_received'[s] = votes_received[s]
      BY Zenon, <2>1, <3>1 DEF handle_vote_response, TermAfter, StateAfter, RaftTypeOK
    <3>3. VotedFor(m.from, current_term[n], n)
      BY Zenon, <3>1 DEF VotedFor
    <3>4. \A s \in Server : state'[s] # "Follower" =>
            \A v \in votes_received'[s] : VotedFor(v, current_term'[s], s)
      <4>1. ASSUME NEW v \in votes_received'[n] PROVE VotedFor(v, current_term'[n], n)
        <5>1. v \in votes_received[n] \/ v = m.from
          BY Zenon, <3>2, <4>1
        <5>2. state[n] # "Follower"
          BY ONLY <3>1
        <5>3. ASSUME v \in votes_received[n] PROVE VotedFor(v, current_term[n], n)
          BY Zenon, <5>2, <5>3 DEF Campaigns
        <5> QED BY Zenon, <3>2, <3>3, <5>1, <5>3
      <4>2. ASSUME NEW s \in Server \ {n}, state'[s] # "Follower", NEW v \in votes_received'[s]
            PROVE VotedFor(v, current_term'[s], s)
        BY Zenon, <3>2, <4>2 DEF Campaigns
      <4> QED BY Zenon, <4>1, <4>2
    <3>5. \A s \in Server : state'[s] # "Follower" =>
            \A v \in votes_received'[s] : VotedFor(v, current_term[s], s)'
      BY <1>0, <3>4 DEF VotedFor
    <3> QED BY Zenon, <3>2, <3>5 DEF Campaigns, has_quorum
  <2>2. CASE ~(handle_vote_response(n, m) /\ Counts(n, m))
    <3>1. \A s \in Server \ {n} : /\ state'[s] = state[s] /\ current_term'[s] = current_term[s]
                                 /\ votes_received'[s] = votes_received[s]
      BY Zenon, <1>3 DEF handle_rpc, handle_request_vote, handle_vote_response, handle_append_entries,
                  handle_append_response, RaftTypeOK
    <3>2. votes_received'[n] = votes_received[n] /\ current_term'[n] = TermAfter(n, m)
      BY Zenon, <1>3, <2>2 DEF handle_rpc, handle_request_vote, handle_vote_response, handle_append_entries,
                        handle_append_response, RaftTypeOK
    <3>3. \/ state'[n] = StateAfter(n, m)
          \/ state'[n] = "Follower"
          \/ state'[n] = state[n] /\ ~(m.term >= current_term[n])
      BY Zenon, <1>3, <2>2 DEF handle_rpc, handle_request_vote, handle_vote_response, handle_append_entries,
                        handle_append_response, RaftTypeOK
    <3>4. \/ state'[n] = "Follower"
          \/ state'[n] = state[n] /\ current_term'[n] = current_term[n]
      BY <2>0, <3>2, <3>3 DEF StateAfter, TermAfter, Later
    <3> QED BY Zenon, <1>0, <3>1, <3>2, <3>4, CampaignKept
  <2> QED BY Zenon, <2>1, <2>2
<1> QED BY Zenon, <1>1, <1>2, <1>3 DEF RaftNext

\* Elections and answers are no APPEND_ENTRIES.
LEMMA NoEntriesSent ==
  ASSUME NEW n \in Server,
         start_election(n) \/ \E m \in rpcs : handle_request_vote(n, m) \/ handle_append_entries(n, m)
  PROVE  \A x \in rpcs' : x.type = "APPEND_ENTRIES" => x \in rpcs
<1>1. PICK r : rpcs' = rpcs \cup {r} /\ r.type \in {"REQUEST_VOTE", "VOTE_RESPONSE", "APPEND_RESPONSE"}
  <2>1. CASE start_election(n)
    <3> DEFINE r == [type |-> "REQUEST_VOTE", term |-> current_term[n] + 1, from |-> n,
                     last_log_index |-> Len(log[n]), last_log_term |-> last_log_term(log[n])]
    <3>1. rpcs' = rpcs \cup {r}
      BY Zenon, <2>1 DEF start_election
    <3>2. r.type = "REQUEST_VOTE"
      BY Zenon
    <3> HIDE DEF r
    <3> QED BY Zenon, <3>1, <3>2
  <2>2. CASE \E m \in rpcs : handle_request_vote(n, m)
    <3>1. PICK m \in rpcs : handle_request_vote(n, m)
      BY Zenon, <2>2
    <3>2. PICK g : rpcs' = rpcs \cup {[type |-> "VOTE_RESPONSE", term |-> TermAfter(n, m), from |-> n,
                                      to |-> m.from, vote_granted |-> g]}
      BY Zenon, <3>1 DEF handle_request_vote
    <3> DEFINE r == [type |-> "VOTE_RESPONSE", term |-> TermAfter(n, m), from |-> n, to |-> m.from,
                     vote_granted |-> g]
    <3>3. r.type = "VOTE_RESPONSE" /\ rpcs' = rpcs \cup {r}
      BY Zenon, <3>2
    <3> HIDE DEF r
    <3> QED BY Zenon, <3>3
  <2>3. CASE \E m \in rpcs : handle_append_entries(n, m)
    <3>1. PICK m \in rpcs : handle_append_entries(n, m)
      BY Zenon, <2>3
    <3>2. PICK ok, i : rpcs' = rpcs \cup {[type |-> "APPEND_RESPONSE", term |-> TermAfter(n, m), from |-> n,
                                          to |-> m.from, success |-> ok, last_log_index |-> i]}
      BY Zenon, <3>1 DEF handle_append_entries
    <3> DEFINE r == [type |-> "APPEND_RESPONSE", term |-> TermAfter(n, m), from |-> n, to |-> m.from,
                     success |-> ok, last_log_index |-> i]
    <3>3. r.type = "APPEND_RESPONSE" /\ rpcs' = rpcs \cup {r}
      BY Zenon, <3>2
    <3> HIDE DEF r
    <3> QED BY Zenon, <3>3
  <2> QED BY Zenon, <2>1, <2>2, <2>3
<1> QED BY Zenon, <1>1

LEMMA SendersStep ==
  ASSUME RaftTypeOK, Campaigns, SendersElected, RaftNext
  PROVE  SendersElected'
<1>0. \A l, t : Elected(l, t) => Elected(l, t)'
  BY Zenon, RPCsStay, VotesStay
<1>1. ASSUME NEW n \in Server, send_heartbeats(n) PROVE SendersElected'
  <2>1. PICK M : /\ rpcs' = rpcs \cup M
                 /\ \A m \in M : /\ m.type = "APPEND_ENTRIES" /\ m.term = current_term[n] /\ m.from = n
                                 /\ m.prev \o m.entries = log[n]
    BY Zenon, <1>1, HeartbeatMessages
  <2>2. Elected(n, current_term[n])
    BY Zenon, <1>1, LeaderElected DEF send_heartbeats
  <2>3. \A m \in rpcs' : m.type = "APPEND_ENTRIES" => Elected(m.from, m.term)
    BY Zenon, <2>1, <2>2 DEF SendersElected
  <2> QED BY Zenon, <1>0, <2>3 DEF SendersElected
<1>2. CASE \A m \in rpcs' : m.type = "APPEND_ENTRIES" => m \in rpcs
  BY Zenon, <1>0, <1>2 DEF SendersElected
<1>3. ASSUME NEW n \in Server, \/ Worker(n) \/ Restart(n) \/ \E data \in Command : propose(n, data)
                               \/ \E m \in rpcs : handle_vote_response(n, m) \/ handle_append_response(n, m)
      PROVE  rpcs' = rpcs
  BY Zenon, <1>3 DEF Worker, Restart, propose, handle_vote_response, handle_append_response
<1> QED BY Zenon, <1>1, <1>2, <1>3, NoEntriesSent DEF RaftNext, handle_rpc

\* The inductive invariant of the elections.
Elections == /\ RaftTypeOK /\ Applied /\ MemoryIsSaved
             /\ VotesRemembered /\ VotesAgree /\ Campaigns /\ SendersElected

LEMMA ElectionsStep ==
  ASSUME DrainedRestarts
  PROVE  Elections /\ [RaftNext]_raft_vars => Elections'
<1> SUFFICES ASSUME Elections, [RaftNext]_raft_vars PROVE Elections'
  BY Zenon
<1>1. RaftTypeOK' /\ Applied' /\ MemoryIsSaved'
  BY Zenon, TypesStep, SavedStep DEF Elections
<1>2. CASE RaftNext
  <2>1. VotesRemembered' /\ VotesAgree'
    BY Zenon, <1>1, <1>2, VoteSteps, VoteStepKeepsVotes DEF Elections
  <2> QED BY Zenon, <1>1, <1>2, <2>1, CampaignsStep, SendersStep DEF Elections
<1>3. CASE UNCHANGED raft_vars
  <2>1. UNCHANGED <<rpcs, current_term, voted_for, state, votes_received>>
    BY Zenon, <1>3 DEF raft_vars, engine
  <2>2. VotesRemembered' /\ VotesAgree'
    <3>1. \A q, t, c : VotedFor(q, t, c)' => VotedFor(q, t, c)
      BY Zenon, <2>1 DEF VotedFor
    <3>2. VotesRemembered'
      BY <2>1, <3>1, Zenon DEF Elections, VotesRemembered
    <3>3. VotesAgree'
      BY <3>1, Zenon DEF Elections, VotesAgree
    <3> QED BY Zenon, <3>2, <3>3
  <2>3. Campaigns'
    <3>1. \A q, t, c : VotedFor(q, t, c) => VotedFor(q, t, c)'
      BY Zenon, <2>1 DEF VotedFor
    <3>2. \A n, Q : has_quorum(n, Q) => has_quorum(n, Q)'
      BY Zenon DEF has_quorum
    <3> QED BY <2>1, <3>1, <3>2, Zenon DEF Elections, Campaigns
  <2>4. SendersElected'
    <3>1. \A l, t : Elected(l, t) => Elected(l, t)'
      BY Zenon, <2>1, VotesStay
    <3> QED BY Zenon, <2>1, <3>1 DEF Elections, SendersElected
  <2> QED BY Zenon, <1>1, <2>2, <2>3, <2>4 DEF Elections
<1> QED BY Zenon, <1>2, <1>3

LEMMA ElectionsInit == RaftInit => Elections
<1> SUFFICES ASSUME RaftInit PROVE Elections
  BY Zenon
<1>1. RaftTypeOK /\ Applied
  BY InitTypes, RaftAssumption DEF RaftInit, Applied
<1>2. MemoryIsSaved
  BY RaftAssumption DEF RaftInit, MemoryIsSaved, Ends, Quiet, InMemory
<1>3. \A q, t, c : ~VotedFor(q, t, c)
  BY Zenon DEF RaftInit, VotedFor
<1> QED BY Zenon, <1>1, <1>2, <1>3 DEF Elections, VotesRemembered, VotesAgree, Campaigns, SendersElected, RaftInit

LEMMA ElectionsSafe ==
  ASSUME Elections
  PROVE  VotesOncePerTerm /\ OneLeaderPerTerm
<1>1. VotesOncePerTerm
  <2> SUFFICES ASSUME NEW m1 \in Votes, NEW m2 \in Votes, m1.from = m2.from, m1.term = m2.term
               PROVE  m1.to = m2.to
    BY Zenon DEF VotesOncePerTerm
  <2>1. /\ VotedFor(m1.from, m1.term, m1.to) /\ VotedFor(m1.from, m1.term, m2.to)
        /\ m1 \in RaftRPC /\ m2 \in RaftRPC /\ m1.type = "VOTE_RESPONSE" /\ m2.type = "VOTE_RESPONSE"
    BY Zenon DEF Votes, VotedFor, Elections, RaftTypeOK
  <2>2. m1.from \in Server /\ m1.to \in Server /\ m2.to \in Server /\ m1.term \in Nat
    BY Zenon, <2>1, RPCTypes
  <2> QED BY Zenon, <2>1, <2>2 DEF VotesAgree, Elections
<1>2. OneLeaderPerTerm
  <2>1. ASSUME NEW l \in Leads
        PROVE  l[1] \in Nat /\ l[2] \in Server /\ Elected(l[2], l[1])
    <3>1. CASE \E m \in rpcs : m.type = "APPEND_ENTRIES" /\ l = <<m.term, m.from>>
      <4>1. PICK m \in rpcs : m.type = "APPEND_ENTRIES" /\ l = <<m.term, m.from>>
        BY Zenon, <3>1
      <4>2. Elected(m.from, m.term) /\ m.term \in Nat /\ m.from \in Server
        BY Zenon, <4>1, RPCTypes DEF Elections, SendersElected, RaftTypeOK
      <4> QED BY Zenon, <4>1, <4>2
    <3>2. CASE \E n \in Server : state[n] = "Leader" /\ l = <<current_term[n], n>>
      <4>1. PICK n \in Server : state[n] = "Leader" /\ l = <<current_term[n], n>>
        BY Zenon, <3>2
      <4>2. Elected(n, current_term[n]) /\ current_term[n] \in Nat
        BY Zenon, <4>1, LeaderElected DEF Elections, RaftTypeOK
      <4> QED BY Zenon, <4>1, <4>2
    <3> QED BY Zenon, <3>1, <3>2 DEF Leads
  <2>2. ASSUME NEW l1 \in Leads, NEW l2 \in Leads, l1[1] = l2[1] PROVE l1[2] = l2[2]
    BY Zenon, <2>1, <2>2, OneElected DEF Elections
  <2> QED BY Zenon, <2>2 DEF OneLeaderPerTerm
<1> QED BY Zenon, <1>1, <1>2

\* The invariant of the elections holds in every behaviour.
LEMMA ElectionsHold ==
  ASSUME DrainedRestarts
  PROVE  RaftSpec => []Elections
<1>1. RaftInit => Elections
  BY Zenon, ElectionsInit
<1>2. Elections /\ [RaftNext]_raft_vars => Elections'
  BY Zenon, ElectionsStep
<1> QED BY <1>1, <1>2, PTL DEF RaftSpec

\* A server gives its vote to one candidate per term, whatever the host loses,
\* repeats or reorders, if a process ends only with an idle storage thread.
THEOREM VotesOnce ==
  ASSUME DrainedRestarts
  PROVE  RaftSpec => []VotesOncePerTerm
<1>1. RaftSpec => []Elections
  BY Zenon, ElectionsHold
<1>2. Elections => VotesOncePerTerm
  BY Zenon, ElectionsSafe
<1> QED BY <1>1, <1>2, PTL

\* Under the same condition a term has one leader.
THEOREM ElectionSafety ==
  ASSUME DrainedRestarts
  PROVE  RaftSpec => []OneLeaderPerTerm
<1>1. RaftSpec => []Elections
  BY Zenon, ElectionsHold
<1>2. Elections => OneLeaderPerTerm
  BY Zenon, ElectionsSafe
<1> QED BY <1>1, <1>2, PTL

\* What a message does to the term of the server that handles it, and to others.
LEMMA TermHandled ==
  ASSUME RaftTypeOK, NEW n \in Server, NEW m \in rpcs, handle_rpc(n, m), NEW s \in Server
  PROVE  current_term'[s] = IF s = n THEN TermAfter(n, m) ELSE current_term[s]
<1>1. current_term' = [current_term EXCEPT ![n] = TermAfter(n, m)]
  BY Zenon DEF handle_rpc, handle_request_vote, handle_vote_response, handle_append_entries,
               handle_append_response
<1> QED BY Zenon, <1>1 DEF RaftTypeOK

LEMMA TermsStep ==
  ASSUME DrainedRestarts, Elections, [RaftNext]_raft_vars, NEW s \in Server
  PROVE  current_term'[s] >= current_term[s]
<1>0. RaftTypeOK /\ MemoryIsSaved /\ current_term[s] \in Nat
  BY Zenon DEF Elections, RaftTypeOK
<1>1. ASSUME current_term'[s] = current_term[s] PROVE current_term'[s] >= current_term[s]
  BY ONLY <1>0, <1>1
<1>2. CASE UNCHANGED raft_vars
  BY Zenon, <1>1, <1>2 DEF raft_vars, engine
<1>3. ASSUME NEW n \in Server, start_election(n) PROVE current_term'[s] >= current_term[s]
  <2>1. current_term' = [current_term EXCEPT ![n] = current_term[n] + 1]
    BY Zenon, <1>3 DEF start_election
  <2>2. current_term'[s] = IF s = n THEN current_term[s] + 1 ELSE current_term[s]
    BY Zenon, <1>0, <2>1 DEF RaftTypeOK
  <2> QED BY ONLY <1>0, <2>2
<1>4. ASSUME NEW n \in Server, NEW m \in rpcs, handle_rpc(n, m) PROVE current_term'[s] >= current_term[s]
  <2>1. m.term \in Nat
    BY Zenon, <1>0, RPCTypes DEF RaftTypeOK
  <2>2. current_term'[s] = current_term[s] \/ (current_term'[s] = m.term /\ m.term > current_term[s])
    BY Zenon, <1>0, <1>4, TermHandled DEF TermAfter, Later
  <2> QED BY ONLY <1>0, <2>1, <2>2
<1>5. ASSUME NEW n \in Server, send_heartbeats(n) \/ Worker(n) \/ \E data \in Command : propose(n, data)
      PROVE  current_term'[s] >= current_term[s]
  BY Zenon, <1>1, <1>5 DEF send_heartbeats, Worker, propose, engine
<1>6. ASSUME NEW n \in Server, Restart(n) PROVE current_term'[s] >= current_term[s]
  <2>1. n \in Stored /\ queue[n] = <<>> /\ current_term' = [current_term EXCEPT ![n] = meta[n].term]
    BY Zenon, <1>6 DEF Restart
  <2>2. meta[n] = InMemory(n)
    BY Zenon, <1>0, <2>1, DrainedFile
  <2>3. InMemory(n).term = current_term[n]
    BY Zenon DEF InMemory
  <2>4. meta[n].term = current_term[n]
    BY ONLY Zenon, <2>2, <2>3
  <2>5. current_term'[s] = current_term[s]
    BY Zenon, <1>0, <2>1, <2>4 DEF RaftTypeOK
  <2> QED BY Zenon, <1>1, <2>5
<1> QED BY Zenon, <1>2, <1>3, <1>4, <1>5, <1>6 DEF RaftNext

\* No server's term goes back, also not by a restart that finds its files complete.
THEOREM TermsGrow ==
  ASSUME DrainedRestarts
  PROVE  RaftSpec => TermsOnlyGrow
<1>1. RaftSpec => []Elections
  BY Zenon, ElectionsHold
<1>2. Elections /\ [RaftNext]_raft_vars => [\A n \in Server : current_term'[n] >= current_term[n]]_raft_vars
  BY Zenon, TermsStep
<1> QED BY <1>1, <1>2, PTL DEF RaftSpec, TermsOnlyGrow

\* l is kept at the start of k.
Keeps(l, k) == Len(l) <= Len(k) /\ SubSeq(k, 1, Len(l)) = l

LEMMA KeepsSame ==
  ASSUME NEW l \in Seq(Entry)
  PROVE  Keeps(l, l)
<1>1. Len(l) \in Nat /\ Len(l) \in 0..Len(l)
  OBVIOUS
<1>2. SubSeq(l, 1, Len(l)) = l
  BY DEF Entry
<1> QED BY ONLY <1>1, <1>2 DEF Keeps

LEMMA KeepsAppended ==
  ASSUME NEW l \in Seq(Entry), NEW e \in Entry
  PROVE  Keeps(l, Append(l, e))
<1> DEFINE k == Append(l, e)
<1>1. k \in Seq(Entry) /\ Len(k) = Len(l) + 1 /\ Len(l) \in Nat /\ \A j \in 1..Len(l) : k[j] = l[j]
  OBVIOUS
<1> HIDE DEF k
<1>2. Len(l) \in 0..Len(k) /\ Len(l) <= Len(k)
  BY ONLY <1>1
<1>3. /\ SubSeq(k, 1, Len(l)) \in Seq(Entry) /\ Len(SubSeq(k, 1, Len(l))) = Len(l)
      /\ \A j \in 1..Len(l) : SubSeq(k, 1, Len(l))[j] = k[j]
  BY Zenon, <1>1, <1>2, Prefix
<1>4. SubSeq(k, 1, Len(l)) = l
  BY Zenon, <1>1, <1>3, SeqEqual
<1> QED BY Zenon, <1>2, <1>4 DEF Keeps, k

\* A leader's step without a restart.  Only it sends entries in its term, and a
\* server does not receive its own messages.
LEMMA LeaderStep ==
  ASSUME Elections, [RaftNext]_raft_vars, restarts' = restarts, NEW s \in Server, state[s] = "Leader"
  PROVE  \/ current_term'[s] > current_term[s]
         \/ state'[s] = "Leader" /\ current_term'[s] = current_term[s] /\ Keeps(log[s], log'[s])
<1> DEFINE Goal == \/ current_term'[s] > current_term[s]
                   \/ state'[s] = "Leader" /\ current_term'[s] = current_term[s] /\ Keeps(log[s], log'[s])
<1>0. RaftTypeOK /\ current_term[s] \in Nat /\ log[s] \in Seq(Entry) /\ restarts \in Nat
  BY Zenon DEF Elections, RaftTypeOK
<1>1. ASSUME state'[s] = state[s], current_term'[s] = current_term[s], log'[s] = log[s] PROVE Goal
  BY Zenon, <1>0, <1>1, KeepsSame
<1>2. CASE UNCHANGED raft_vars
  BY Zenon, <1>1, <1>2 DEF raft_vars, engine
<1>3. ASSUME NEW n \in Server, start_election(n) PROVE Goal
  <2>1. n # s /\ state'[s] = state[s] /\ current_term'[s] = current_term[s] /\ log' = log
    BY Zenon, <1>0, <1>3 DEF start_election, RaftTypeOK
  <2> QED BY Zenon, <1>1, <2>1
<1>4. ASSUME NEW n \in Server, send_heartbeats(n) \/ Worker(n) PROVE Goal
  BY Zenon, <1>1, <1>4 DEF send_heartbeats, Worker, engine
<1>5. ASSUME NEW n \in Server, NEW data \in Command, propose(n, data) PROVE Goal
  <2> DEFINE e == [term |-> current_term[n], data |-> data]
  <2>1. state' = state /\ current_term' = current_term /\ log' = [log EXCEPT ![n] = Append(log[n], e)]
    BY Zenon, <1>5 DEF propose
  <2>2. e \in Entry
    BY <1>0 DEF Entry, RaftTypeOK
  <2> HIDE DEF e
  <2>3. CASE n = s
    <3>1. log'[s] = Append(log[s], e)
      BY Zenon, <1>0, <2>1, <2>3 DEF RaftTypeOK
    <3>2. Keeps(log[s], Append(log[s], e))
      BY Zenon, <1>0, <2>2, KeepsAppended
    <3> QED BY Zenon, <2>1, <3>1, <3>2
  <2>4. CASE n # s
    BY Zenon, <1>0, <1>1, <2>1, <2>4 DEF RaftTypeOK
  <2> QED BY Zenon, <2>3, <2>4
<1>6. ASSUME NEW n \in Server, NEW m \in rpcs, handle_rpc(n, m) PROVE Goal
  <2>0. m.term \in Nat /\ m.from \in Server /\ m.from # n
    BY Zenon, <1>0, <1>6, RPCTypes DEF RaftTypeOK, handle_rpc
  <2>1. CASE n # s
    <3>1. state'[s] = state[s] /\ log'[s] = log[s]
      BY Zenon, <1>0, <1>6, <2>1 DEF handle_rpc, handle_request_vote, handle_vote_response,
           handle_append_entries, handle_append_response, RaftTypeOK
    <3>2. current_term'[s] = current_term[s]
      BY Zenon, <1>0, <1>6, <2>1, TermHandled
    <3> QED BY Zenon, <1>1, <3>1, <3>2
  <2>2. CASE n = s /\ Later(n, m)
    <3>1. current_term'[s] = m.term /\ m.term > current_term[s]
      BY Zenon, <1>0, <1>6, <2>2, TermHandled DEF TermAfter, Later
    <3> QED BY Zenon, <3>1
  <2>3. CASE n = s /\ ~Later(n, m)
    <3>1. current_term'[s] = current_term[s]
      BY Zenon, <1>0, <1>6, <2>3, TermHandled DEF TermAfter
    <3>2. CASE handle_append_entries(s, m)
      <4>1. m.term # current_term[s]
        <5> SUFFICES ASSUME m.term = current_term[s] PROVE FALSE
          BY Zenon
        <5>1. Elected(m.from, current_term[s])
          BY Zenon, <3>2 DEF handle_append_entries, Elections, SendersElected
        <5>2. Elected(s, current_term[s])
          BY Zenon, <1>0, LeaderElected DEF Elections
        <5>3. m.from = s
          BY Zenon, <1>0, <2>0, <5>1, <5>2, OneElected DEF Elections
        <5> QED BY Zenon, <2>0, <2>3, <5>3
      <4>2. ~(m.term > current_term[s])
        BY Zenon, <2>3 DEF Later
      <4>3. ~(m.term >= current_term[s])
        BY ONLY <1>0, <2>0, <4>1, <4>2
      <4>4. state'[s] = state[s] /\ log'[s] = log[s]
        BY Zenon, <1>0, <3>2, <4>3 DEF handle_append_entries, RaftTypeOK
      <4> QED BY Zenon, <1>1, <3>1, <4>4
    <3>3. CASE ~handle_append_entries(s, m)
      <4>1. log' = log /\ (state'[s] = StateAfter(s, m) \/ state'[s] = "Leader")
        BY Zenon, <1>0, <1>6, <2>3, <3>3 DEF handle_rpc, handle_request_vote, handle_vote_response,
             handle_append_response, RaftTypeOK
      <4>2. state'[s] = state[s]
        BY Zenon, <2>3, <4>1 DEF StateAfter
      <4> QED BY Zenon, <1>1, <3>1, <4>1, <4>2
    <3> QED BY Zenon, <3>2, <3>3
  <2> QED BY Zenon, <2>1, <2>2, <2>3
<1>7. ASSUME NEW n \in Server, Restart(n) PROVE Goal
  <2>1. restarts' = restarts + 1
    BY Zenon, <1>7 DEF Restart
  <2>2. restarts + 1 # restarts
    BY ONLY <1>0
  <2> QED BY Zenon, <2>1, <2>2
<1> QED BY Zenon, <1>2, <1>3, <1>4, <1>5, <1>6, <1>7 DEF RaftNext

\* While it runs, a leader steps down for a later term only and until then only
\* adds to its log: nobody else sends entries in its term.
THEOREM LeadersStay ==
  ASSUME DrainedRestarts
  PROVE  RaftSpec => LeaderStays
<1> DEFINE Step == restarts' = restarts =>
       \A n \in Server : state[n] = "Leader" =>
         \/ current_term'[n] > current_term[n]
         \/ /\ state'[n] = "Leader" /\ current_term'[n] = current_term[n]
            /\ Len(log[n]) <= Len(log'[n]) /\ SubSeq(log'[n], 1, Len(log[n])) = log[n]
<1>1. RaftSpec => []Elections
  BY Zenon, ElectionsHold
<1>2. Elections /\ [RaftNext]_raft_vars => [Step]_raft_vars
  BY Zenon, LeaderStep DEF Keeps
<1>3. LeaderStays <=> [][Step]_raft_vars
  BY DEF LeaderStays
<1> HIDE DEF Step
<1> QED BY <1>1, <1>2, <1>3, PTL DEF RaftSpec
=============================================================================
