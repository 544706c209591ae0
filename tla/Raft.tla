-------------------------------- MODULE Raft --------------------------------
(***************************************************************************)
(* The Raft engine (rust_core/src/consensus/raft.rs) of a fixed set of     *)
(* servers, with the write-ahead log and the storage thread that keep its  *)
(* state across restarts (consensus/storage.rs).                           *)
(*                                                                         *)
(* Log positions count from 1 and lengths stand for last indices: 0 is the *)
(* code's -1.  An entry's cumulative hash covers its term, its index, its  *)
(* data and the hash before it, so it is modelled by the sequence of all   *)
(* entries up to and including this one.  The host hands an RPC without a  *)
(* target to every peer, and may lose, repeat or reorder what it carries.  *)
(* Snapshots and CONF entries are left out.                                *)
(***************************************************************************)
EXTENDS Integers, Sequences, FiniteSets

CONSTANTS
  Server,          \* the node ids; each engine's peers are all the others
  Stored,          \* the servers created with a storage directory
  Command,         \* the mission commands hosts propose
  Recovery,        \* the data of a REC-RECOVERY entry
  Nobody,          \* voted_for = None
  DrainedRestarts, \* TRUE: a process ends only when its storage thread is idle
  MaxTerm, MaxLog, MaxRPCs, MaxRecords, MaxRestarts    \* bounds of the model

ASSUME RaftAssumption ==
  /\ IsFiniteSet(Server) /\ Cardinality(Server) > 1
  /\ Stored \subseteq Server
  /\ Nobody \notin Server
  /\ Recovery \notin Command
  /\ DrainedRestarts \in BOOLEAN

VARIABLES
  current_term, voted_for, log,                  \* persistent state
  state, votes_received, next_index, match_index,
  commit_index,
  applied,  \* the data the state machine was given; its length is last_applied
  queue,    \* commands sent to the storage thread
  meta,     \* meta.bin
  wal,      \* the readable records of wal.bin, each with its hash
  hole,     \* the thread's offset lies behind the readable records
  rpcs,     \* every RPC ever handed to the host
  restarts

engine == <<current_term, voted_for, log, state, votes_received, next_index, match_index, commit_index,
            applied>>
disk == <<queue, meta, wal, hole>>
raft_vars == <<engine, disk, rpcs, restarts>>

Entry == [term : Nat, data : Command \cup {Recovery}]

RaftRPC ==
  [type : {"REQUEST_VOTE"}, term : Nat, from : Server, last_log_index : Nat, last_log_term : Nat]
  \cup [type : {"VOTE_RESPONSE"}, term : Nat, from : Server, to : Server, vote_granted : BOOLEAN]
  \cup [type : {"APPEND_ENTRIES"}, term : Nat, from : Server,
        prev : Seq(Entry), entries : Seq(Entry), leader_commit : Nat]
  \cup [type : {"APPEND_RESPONSE"}, term : Nat, from : Server, to : Server,
        success : BOOLEAN, last_log_index : Nat]

Metadata == [term : Nat, vote : Server \cup {Nobody}]

StorageCommand ==
  [kind : {"Meta"}, term : Nat, vote : Server \cup {Nobody}] \cup [kind : {"Append"}, chain : Seq(Entry)]

RaftInit ==
  /\ current_term = [n \in Server |-> 0]
  /\ voted_for = [n \in Server |-> Nobody]
  /\ log = [n \in Server |-> <<>>]
  /\ state = [n \in Server |-> "Follower"]
  /\ votes_received = [n \in Server |-> {}]
  /\ next_index = [n \in Server |-> [p \in Server |-> 0]]
  /\ match_index = [n \in Server |-> [p \in Server |-> 0]]
  /\ commit_index = [n \in Server |-> 0]
  /\ applied = [n \in Server |-> <<>>]
  /\ queue = [n \in Server |-> <<>>]
  /\ meta = [n \in Server |-> [term |-> 0, vote |-> Nobody]]
  /\ wal = [n \in Server |-> <<>>]
  /\ hole = [n \in Server |-> FALSE]
  /\ rpcs = {}
  /\ restarts = 0
-----------------------------------------------------------------------------
last_log_term(l) == IF l = <<>> THEN 0 ELSE l[Len(l)].term

\* persist_metadata and append_log only send a command to the storage thread.
Meta(term, vote) == [kind |-> "Meta", term |-> term, vote |-> vote]
Appends(l, from) == [i \in 1..(Len(l) - from) |-> [kind |-> "Append", chain |-> SubSeq(l, 1, from + i)]]
Send(n, commands) ==
  queue' = IF n \in Stored THEN [queue EXCEPT ![n] = @ \o commands] ELSE queue

\* More votes than half of the peers, rounded up; the server's own vote counts.
has_quorum(n, votes) == Cardinality(votes) > (Cardinality(Server \ {n}) + 1) \div 2

has_committed_at(n, i, matched) == has_quorum(n, {n} \cup {p \in Server \ {n} : matched[p] >= i})
-----------------------------------------------------------------------------
\* handle_tick of a follower or candidate whose election timeout has passed.
start_election(n) ==
  LET term == current_term[n] + 1 IN
  /\ state[n] # "Leader" /\ term <= MaxTerm
  /\ state' = [state EXCEPT ![n] = "Candidate"]
  /\ current_term' = [current_term EXCEPT ![n] = term]
  /\ voted_for' = [voted_for EXCEPT ![n] = n]
  /\ votes_received' = [votes_received EXCEPT ![n] = {n}]
  /\ Send(n, <<Meta(term, n)>>)
  /\ rpcs' = rpcs \cup {[type |-> "REQUEST_VOTE", term |-> term, from |-> n,
                         last_log_index |-> Len(log[n]), last_log_term |-> last_log_term(log[n])]}
  /\ UNCHANGED <<log, next_index, match_index, commit_index, applied, meta, wal, hole, restarts>>

\* handle_tick of a leader.  One index beyond the log makes the whole call
\* panic, and nothing is sent.
send_heartbeats(n) ==
  /\ state[n] = "Leader"
  /\ \A p \in Server \ {n} : next_index[n][p] <= Len(log[n])
  /\ rpcs' = rpcs \cup
       {[type |-> "APPEND_ENTRIES", term |-> current_term[n], from |-> n,
         prev |-> SubSeq(log[n], 1, next_index[n][p]),
         entries |-> SubSeq(log[n], next_index[n][p] + 1, Len(log[n])),
         leader_commit |-> commit_index[n]] : p \in Server \ {n}}
  /\ UNCHANGED <<engine, disk, restarts>>

propose(n, data) ==
  /\ state[n] = "Leader" /\ Len(log[n]) < MaxLog
  /\ log' = [log EXCEPT ![n] = Append(@, [term |-> current_term[n], data |-> data])]
  /\ Send(n, Appends(log'[n], Len(log[n])))
  /\ UNCHANGED <<current_term, voted_for, state, votes_received, next_index, match_index, commit_index,
                 applied, meta, wal, hole, rpcs, restarts>>
-----------------------------------------------------------------------------
\* handle_rpc first adopts a later term, as a follower without a vote.
Later(n, m) == m.term > current_term[n]
TermAfter(n, m) == IF Later(n, m) THEN m.term ELSE current_term[n]
\* Mutant: the vote of the current term is forgotten too.
VoteForgotten(n, m) == IF m.term >= current_term[n] THEN Nobody ELSE voted_for[n]
VoteAfter(n, m) == IF Later(n, m) THEN Nobody ELSE voted_for[n]
StateAfter(n, m) == IF Later(n, m) THEN "Follower" ELSE state[n]
PersistTerm(n, m) == IF Later(n, m) THEN <<Meta(m.term, Nobody)>> ELSE <<>>

UpToDate(n, m) ==
  \/ m.last_log_term > last_log_term(log[n])
  \/ m.last_log_term = last_log_term(log[n]) /\ m.last_log_index >= Len(log[n])

handle_request_vote(n, m) ==
  LET granted == /\ m.term >= current_term[n]
                 /\ VoteAfter(n, m) \in {Nobody, m.from}
                 /\ UpToDate(n, m)
  IN
  /\ m.type = "REQUEST_VOTE"
  /\ current_term' = [current_term EXCEPT ![n] = TermAfter(n, m)]
  /\ state' = [state EXCEPT ![n] = StateAfter(n, m)]
  /\ voted_for' = [voted_for EXCEPT ![n] = IF granted THEN m.from ELSE VoteAfter(n, m)]
  /\ Send(n, PersistTerm(n, m) \o (IF granted THEN <<Meta(m.term, m.from)>> ELSE <<>>))
  /\ rpcs' = rpcs \cup {[type |-> "VOTE_RESPONSE", term |-> TermAfter(n, m), from |-> n, to |-> m.from,
                         vote_granted |-> granted]}
  /\ UNCHANGED <<log, votes_received, next_index, match_index, commit_index, applied, meta, wal, hole, restarts>>

\* Mutant: a vote of an earlier term counts.
CountsAnyTerm(n, m) == StateAfter(n, m) = "Candidate" /\ m.vote_granted
Counts(n, m) == StateAfter(n, m) = "Candidate" /\ m.term = TermAfter(n, m) /\ m.vote_granted

handle_vote_response(n, m) ==
  LET counted == Counts(n, m)
      votes == votes_received[n] \cup {m.from}
      elected == counted /\ has_quorum(n, votes)
  IN
  /\ m.type = "VOTE_RESPONSE" /\ m.to = n
  /\ current_term' = [current_term EXCEPT ![n] = TermAfter(n, m)]
  /\ voted_for' = [voted_for EXCEPT ![n] = VoteAfter(n, m)]
  /\ state' = [state EXCEPT ![n] = IF elected THEN "Leader" ELSE StateAfter(n, m)]
  /\ votes_received' = [votes_received EXCEPT ![n] = IF counted THEN votes ELSE @]
  /\ next_index' = [next_index EXCEPT ![n] = IF elected THEN [p \in Server |-> Len(log[n])] ELSE @]
  /\ match_index' = [match_index EXCEPT ![n] = IF elected THEN [p \in Server |-> 0] ELSE @]
  /\ Send(n, PersistTerm(n, m))
  /\ UNCHANGED <<log, commit_index, applied, meta, wal, hole, rpcs, restarts>>
-----------------------------------------------------------------------------
\* advance_applied_index, up to commit index c of log l.
Advanced(n, l, c) ==
  applied[n] \o [i \in 1..(c - Len(applied[n])) |-> l[Len(applied[n]) + i].data]

\* The entry before the new ones has the leader's term, and the new ones carry
\* hashes that continue the follower's own chain.
PrevMatches(n, m) ==
  \/ m.prev = <<>>
  \/ Len(m.prev) <= Len(log[n]) /\ log[n][Len(m.prev)].term = last_log_term(m.prev)
ChainMatches(n, m) == m.entries = <<>> \/ SubSeq(log[n], 1, Len(m.prev)) = m.prev

\* Mutant: entries in conflict with the leader's stay.
Lengthened(n, m) == log[n] \o m.entries
\* The leader's entries replace whatever followed the previous one.
Extended(n, m) == SubSeq(log[n], 1, Len(m.prev)) \o m.entries

\* truncate_log_suffix rewrites the file in the caller's thread.  The storage
\* thread keeps its offset, so what it writes next lies behind a hole, where
\* nothing reads it.
truncate_log_suffix(n, keep) ==
  LET shorter == n \in Stored /\ keep < Len(wal[n]) IN
  /\ wal' = IF shorter THEN [wal EXCEPT ![n] = SubSeq(@, 1, keep)] ELSE wal
  /\ hole' = IF shorter THEN [hole EXCEPT ![n] = TRUE] ELSE hole

handle_append_entries(n, m) ==
  LET current == m.term >= current_term[n]
      success == current /\ PrevMatches(n, m) /\ ChainMatches(n, m)
      extended == success /\ m.entries # <<>>
      new == IF extended THEN Extended(n, m) ELSE log[n]
      commit == IF success /\ m.leader_commit > commit_index[n]
                THEN IF m.leader_commit <= Len(new) THEN m.leader_commit ELSE Len(new)
                ELSE commit_index[n]
  IN
  /\ m.type = "APPEND_ENTRIES"
  /\ current_term' = [current_term EXCEPT ![n] = TermAfter(n, m)]
  /\ voted_for' = [voted_for EXCEPT ![n] = VoteAfter(n, m)]
  /\ state' = [state EXCEPT ![n] = IF current THEN "Follower" ELSE @]
  /\ log' = [log EXCEPT ![n] = new]
  /\ commit_index' = [commit_index EXCEPT ![n] = commit]
  /\ applied' = [applied EXCEPT ![n] = IF success THEN Advanced(n, new, commit) ELSE @]
  /\ IF extended /\ Len(log[n]) > Len(m.prev) THEN truncate_log_suffix(n, Len(m.prev))
     ELSE UNCHANGED <<wal, hole>>
  /\ Send(n, PersistTerm(n, m) \o (IF extended THEN Appends(new, Len(m.prev)) ELSE <<>>))
  /\ rpcs' = rpcs \cup {[type |-> "APPEND_RESPONSE", term |-> TermAfter(n, m), from |-> n, to |-> m.from,
                         success |-> success, last_log_index |-> Len(new)]}
  /\ UNCHANGED <<votes_received, next_index, match_index, meta, restarts>>

\* update_commit_index: the last entry of this term that a quorum matches.
Committable(n, matched) ==
  {i \in (commit_index[n] + 1)..Len(log[n]) :
     log[n][i].term = current_term[n] /\ has_committed_at(n, i, matched)}
update_commit_index(n, matched) ==
  LET c == Committable(n, matched) IN
  IF c = {} THEN commit_index[n] ELSE CHOOSE i \in c : \A j \in c : j <= i

handle_append_response(n, m) ==
  LET counted == state[n] = "Leader" /\ m.term = current_term[n]
      matched == [match_index[n] EXCEPT ![m.from] = m.last_log_index]
      commit == update_commit_index(n, matched)
      next == next_index[n][m.from]
  IN
  /\ m.type = "APPEND_RESPONSE" /\ m.to = n
  /\ current_term' = [current_term EXCEPT ![n] = TermAfter(n, m)]
  /\ voted_for' = [voted_for EXCEPT ![n] = VoteAfter(n, m)]
  /\ state' = [state EXCEPT ![n] = StateAfter(n, m)]
  /\ IF counted /\ m.success
     THEN /\ next_index' = [next_index EXCEPT ![n][m.from] = m.last_log_index]
          /\ match_index' = [match_index EXCEPT ![n] = matched]
          /\ commit_index' = [commit_index EXCEPT ![n] = commit]
          /\ applied' = [applied EXCEPT ![n] = Advanced(n, log[n], commit)]
     ELSE /\ next_index' = IF counted THEN [next_index EXCEPT ![n][m.from] = IF next > 0 THEN next - 1 ELSE 0]
                           ELSE next_index
          /\ UNCHANGED <<match_index, commit_index, applied>>
  /\ Send(n, PersistTerm(n, m))
  /\ UNCHANGED <<log, votes_received, meta, wal, hole, rpcs, restarts>>

handle_rpc(n, m) ==
  /\ m.from # n
  /\ \/ handle_request_vote(n, m)
     \/ handle_vote_response(n, m)
     \/ handle_append_entries(n, m)
     \/ handle_append_response(n, m)
-----------------------------------------------------------------------------
\* The storage thread carries out one command.
Worker(n) ==
  LET cmd == Head(queue[n]) IN
  /\ queue[n] # <<>>
  /\ queue' = [queue EXCEPT ![n] = Tail(@)]
  /\ IF cmd.kind = "Meta"
     THEN meta' = [meta EXCEPT ![n] = [term |-> cmd.term, vote |-> cmd.vote]] /\ UNCHANGED wal
     ELSE wal' = [wal EXCEPT ![n] = IF hole[n] THEN @ ELSE Append(@, cmd.chain)] /\ UNCHANGED meta
  /\ UNCHANGED <<engine, hole, rpcs, restarts>>

\* verify_wal_integrity: how many records form one chain from the start.
Chained(w, k) ==
  \A i \in 1..k : Len(w[i]) = i /\ (i > 1 => SubSeq(w[i], 1, i - 1) = w[i - 1])
verify_wal_integrity(w) ==
  CHOOSE k \in 0..Len(w) : Chained(w, k) /\ (k < Len(w) => ~Chained(w, k + 1))

\* The process ends and RaftEngine::new starts it again from its files.  After
\* a broken chain the file is cut and a recovery entry appended, by a thread
\* whose offset was taken before the cut.
Restart(n) ==
  LET k == verify_wal_integrity(wal[n])
      kept == IF k = 0 THEN <<>> ELSE wal[n][k]
      broken == k < Len(wal[n])
      loaded == IF broken THEN Append(kept, [term |-> meta[n].term, data |-> Recovery]) ELSE kept
  IN
  /\ n \in Stored /\ restarts < MaxRestarts
  /\ DrainedRestarts => queue[n] = <<>>
  /\ restarts' = restarts + 1
  /\ current_term' = [current_term EXCEPT ![n] = meta[n].term]
  /\ voted_for' = [voted_for EXCEPT ![n] = meta[n].vote]
  /\ log' = [log EXCEPT ![n] = loaded]
  /\ state' = [state EXCEPT ![n] = "Follower"]
  /\ votes_received' = [votes_received EXCEPT ![n] = {}]
  /\ next_index' = [next_index EXCEPT ![n] = [p \in Server |-> 0]]
  /\ match_index' = [match_index EXCEPT ![n] = [p \in Server |-> 0]]
  /\ commit_index' = [commit_index EXCEPT ![n] = 0]
  /\ applied' = [applied EXCEPT ![n] = <<>>]
  /\ queue' = [queue EXCEPT ![n] = IF broken THEN Appends(loaded, k) ELSE <<>>]
  /\ wal' = [wal EXCEPT ![n] = SubSeq(@, 1, k)]
  /\ hole' = [hole EXCEPT ![n] = broken]
  /\ UNCHANGED <<meta, rpcs>>

RaftNext ==
  /\ \E n \in Server :
       \/ start_election(n)
       \/ send_heartbeats(n)
       \/ \E data \in Command : propose(n, data)
       \/ \E m \in rpcs : handle_rpc(n, m)
       \/ Worker(n)
       \/ Restart(n)
  /\ Cardinality(rpcs') <= MaxRPCs
  /\ \A n \in Stored : Len(queue'[n]) + Len(wal'[n]) <= MaxRecords

RaftSpec == RaftInit /\ [][RaftNext]_raft_vars
-----------------------------------------------------------------------------
RaftTypeOK ==
  /\ current_term \in [Server -> Nat]
  /\ voted_for \in [Server -> Server \cup {Nobody}]
  /\ log \in [Server -> Seq(Entry)]
  /\ state \in [Server -> {"Follower", "Candidate", "Leader"}]
  /\ votes_received \in [Server -> SUBSET Server]
  /\ next_index \in [Server -> [Server -> Nat]]
  /\ match_index \in [Server -> [Server -> Nat]]
  /\ commit_index \in [Server -> Nat]
  /\ applied \in [Server -> Seq(Command \cup {Recovery})]
  /\ queue \in [Server -> Seq(StorageCommand)]
  /\ meta \in [Server -> Metadata]
  /\ wal \in [Server -> Seq(Seq(Entry))]
  /\ hole \in [Server -> BOOLEAN]
  /\ rpcs \subseteq RaftRPC
  /\ restarts \in Nat

\* A server grants its vote to one candidate of a term only, restarts included.
Votes == {m \in rpcs : m.type = "VOTE_RESPONSE" /\ m.vote_granted}
VotesOncePerTerm ==
  \A m1, m2 \in Votes : m1.from = m2.from /\ m1.term = m2.term => m1.to = m2.to

\* A term has at most one leader: two APPEND_ENTRIES of a term have one sender,
\* and no other server leads in that term.
Leads == {<<m.term, m.from>> : m \in {a \in rpcs : a.type = "APPEND_ENTRIES"}}
         \cup {<<current_term[n], n>> : n \in {s \in Server : state[s] = "Leader"}}
OneLeaderPerTerm == \A l1, l2 \in Leads : l1[1] = l2[1] => l1[2] = l2[2]

\* A server's term never goes back, restarts included.
TermsOnlyGrow == [][\A n \in Server : current_term'[n] >= current_term[n]]_raft_vars

\* While it runs, a leader gives up its role for a later term only, and until
\* then it only adds to its log.
LeaderStays ==
  [][restarts' = restarts =>
       \A n \in Server : state[n] = "Leader" =>
         \/ current_term'[n] > current_term[n]
         \/ /\ state'[n] = "Leader" /\ current_term'[n] = current_term[n]
            /\ Len(log[n]) <= Len(log'[n]) /\ SubSeq(log'[n], 1, Len(log[n])) = log[n]]_raft_vars

\* Logs that hold an entry of the same term at the same index agree up to it,
\* unless a recovery put it there.
LogsMatch ==
  \A a, b \in Server : \A i \in 1..Len(log[a]) :
    i <= Len(log[b]) /\ log[a][i].term = log[b][i].term
    /\ Recovery \notin {log[a][i].data, log[b][i].data}
      => SubSeq(log[a], 1, i) = SubSeq(log[b], 1, i)

\* What a server takes for committed is in the logs of a quorum, as a leader
\* elected later needs to find it: no two servers commit differently.
CommittedOnQuorum ==
  \A n \in Server : \A i \in 1..commit_index[n] : \E Q \in SUBSET Server :
    /\ has_quorum(n, Q)
    /\ \A q \in Q : Len(log[q]) >= i /\ SubSeq(log[q], 1, i) = SubSeq(log[n], 1, i)
=============================================================================
