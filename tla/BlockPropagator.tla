--------------------------- MODULE BlockPropagator ---------------------------
(***************************************************************************)
(* The block propagation engines of a cluster                              *)
(* (rust_core/src/net/block_propagator.rs): the leader of a view proposes  *)
(* blocks, validators vote, whoever collects a quorum of votes commits and *)
(* announces the commit, and view changes move the leadership on.          *)
(*                                                                         *)
(* A message that a method queues in outbound_messages goes to the set     *)
(* `sent': the host drains the queue and gossips it.  From there every     *)
(* other node may receive it at any later time, any number of times, or    *)
(* never.  With DeliverOnce the network hands a message to a node at most  *)
(* once (`delivered' remembers it).  A node does not receive its own       *)
(* messages.                                                               *)
(*                                                                         *)
(* All nodes are honest, so signatures, hash and size checks always        *)
(* succeed and are left out.  The block hash covers view, round and data;  *)
(* a block is that triple, with the previous hash and the timestamp part   *)
(* of its data.  state_root chains hashes; it is the sequence of the       *)
(* blocks chained.  Timestamps of view changes are only reported.          *)
(***************************************************************************)
EXTENDS Naturals, Sequences, FiniteSets

CONSTANTS
    Validators,    \* the validator list, the same at every node
    Observers,     \* nodes outside the list
    Data,          \* what a host may put in a block
    NotPrepared,   \* last_prepared_* = None
    NoTracker,     \* view_change = None
    ProposeOnce,   \* hosts propose at most one block for a view and round
    DeliverOnce,   \* the network never repeats a delivery
    MaxView, MaxRound, MaxRoot

ASSUME ValidatorsAssumption ==
    /\ Validators \in Seq({Validators[i] : i \in 1..Len(Validators)})
    /\ Len(Validators) > 0

VARIABLES
    view, round,       \* where each node is
    pending_blocks,    \* blocks each node collects votes for, one per view and round
    committed_blocks,  \* blocks each node takes as committed, one per view and round
    view_change,       \* the tracker of each node's view change
    state_root,
    voters_seen,
    sent, delivered

place == <<view, round>>
blocks == <<pending_blocks, committed_blocks, state_root>>
vars == <<place, blocks, view_change, voters_seen, sent, delivered>>

-----------------------------------------------------------------------------
Validator == {Validators[i] : i \in 1..Len(Validators)}

Node == Validator \cup Observers

get_leader(v) == Validators[(v % Len(Validators)) + 1]

quorum_threshold(total) == 2 * ((total - 1) \div 3) + 1

quorum == quorum_threshold(Len(Validators))

Block == [view : Nat, round : Nat, data : Data]

BlockState == {"Proposed", "Prepared", "Committed", "Rejected"}

PendingBlock == [block : Block, votes : SUBSET Validator, state : BlockState]

CommittedBlock == [view : Nat, round : Nat, block : Block]

BlockProposal == [type : {"Proposal"}, from : Node, block : Block]

BlockVote == [type : {"Vote"}, from : Node, block : Block]

BlockCommit == [type : {"Commit"}, from : Node, block : Block,
                vote_signatures : SUBSET Validator, state_root : Seq(Block)]

Prepared == [round : Nat, block : Block]

P2PViewChange == [type : {"ViewChange"}, from : Node, new_view : Nat,
                  last_prepared : Prepared \cup {NotPrepared}]

P2PNewView == [type : {"NewView"}, from : Node, view : Nat,
               view_change_proofs : SUBSET P2PViewChange, starting_round : Nat,
               prepared_block : Block \cup {NotPrepared}]

Message == BlockProposal \cup BlockVote \cup BlockCommit \cup P2PViewChange \cup P2PNewView

ViewChangeTracker == [target_view : Nat, messages : SUBSET P2PViewChange,
                      state : {"Collecting", "WaitingNewView"}]

\* Every propagator field and every queued message is a value of its type.
TypeOK ==
    /\ view \in [Node -> Nat]
    /\ round \in [Node -> Nat]
    /\ pending_blocks \in [Node -> SUBSET PendingBlock]
    /\ committed_blocks \in [Node -> SUBSET CommittedBlock]
    /\ view_change \in [Node -> ViewChangeTracker \cup {NoTracker}]
    /\ state_root \in [Node -> Seq(Block)]
    /\ voters_seen \in [Node -> SUBSET Validator]
    /\ sent \subseteq Message
    /\ delivered \in [Node -> SUBSET Message]

Init ==
    /\ view = [n \in Node |-> 0]
    /\ round = [n \in Node |-> 0]
    /\ pending_blocks = [n \in Node |-> {}]
    /\ committed_blocks = [n \in Node |-> {}]
    /\ view_change = [n \in Node |-> NoTracker]
    /\ state_root = [n \in Node |-> << >>]
    /\ voters_seen = [n \in Node |-> {}]
    /\ sent = {}
    /\ delivered = [n \in Node |-> {}]

\* The host hands message m of the given type to node n.
Receive(n, m, type) ==
    /\ m.type = type
    /\ m.from # n
    /\ m \notin delivered[n]
    /\ delivered' = IF DeliverOnce THEN [delivered EXCEPT ![n] = @ \cup {m}] ELSE delivered

-----------------------------------------------------------------------------
\* Position (v, r) is later than the position of node n.
Ahead(v, r, n) == v > view[n] \/ (v = view[n] /\ r > round[n])

\* HashMap::insert under the block's view and round.
InsertPending(pending, p) ==
    {q \in pending : q.block.view # p.block.view \/ q.block.round # p.block.round} \cup {p}

NewPending(b) == [block |-> b, votes |-> {}, state |-> "Proposed"]

\* The host of the leader asks for a block; nothing in propose_block looks
\* for an earlier proposal of the same round.
propose_block(n) ==
    /\ n = get_leader(view[n])
    /\ round[n] < MaxRound
    /\ \E d \in Data :
        LET b == [view |-> view[n], round |-> round[n], data |-> d]
        IN  /\ ProposeOnce => \A m \in sent : m.type = "Proposal" =>
                   m.block.view # b.view \/ m.block.round # b.round
            /\ pending_blocks' = [pending_blocks EXCEPT ![n] = InsertPending(@, NewPending(b))]
            /\ sent' = sent \cup {[type |-> "Proposal", from |-> n, block |-> b]}
    /\ UNCHANGED <<place, committed_blocks, state_root, view_change, voters_seen, delivered>>

\* Mutant: a proposal for the node's own round counts as old.
AcceptsLaterProposal(n, m) ==
    /\ m.from = get_leader(m.block.view)
    /\ m.block.view >= view[n]
    /\ m.block.view = view[n] => m.block.round > round[n]

AcceptsProposal(n, m) ==
    /\ m.from = get_leader(m.block.view)
    /\ m.block.view >= view[n]
    /\ m.block.view = view[n] => m.block.round >= round[n]

\* The proposal moves the node to its view and round, replaces what was
\* pending there, and is voted for, on every delivery.
process_proposal(n) ==
    \E m \in sent :
        /\ Receive(n, m, "Proposal")
        /\ AcceptsProposal(n, m)
        /\ LET b == m.block
           IN  /\ view' = [view EXCEPT ![n] = b.view]
               /\ round' = [round EXCEPT ![n] = b.round]
               /\ voters_seen' = [voters_seen EXCEPT ![n] =
                                     IF Ahead(b.view, b.round, n) THEN {} ELSE @]
               /\ pending_blocks' =
                     [pending_blocks EXCEPT ![n] = InsertPending(@, NewPending(b))]
               /\ sent' = IF n \in Validator
                             THEN sent \cup {[type |-> "Vote", from |-> n, block |-> b]}
                             ELSE sent
        /\ UNCHANGED <<committed_blocks, state_root, view_change>>

AcceptsVote(n, m) ==
    /\ m.from \in Validator
    /\ m.from \notin voters_seen[n]
    /\ \E p \in pending_blocks[n] : p.block = m.block

\* Mutant: the collector counts itself without having voted.
add_vote_counting_itself(p, voter) ==
    LET votes == p.votes \cup {voter}
        full == voter \notin p.votes /\ Cardinality(votes) + 1 >= quorum /\ p.state = "Proposed"
    IN  [block |-> p.block, votes |-> votes, state |-> IF full THEN "Prepared" ELSE p.state]

\* PendingBlock::add_vote; the hash comparison covers view and round.
add_vote(p, voter) ==
    LET votes == p.votes \cup {voter}
        full == voter \notin p.votes /\ Cardinality(votes) >= quorum /\ p.state = "Proposed"
    IN  [block |-> p.block, votes |-> votes, state |-> IF full THEN "Prepared" ELSE p.state]

\* Mutant: the map is keyed by the round alone.
InsertCommittedByRound(committed, v, r, b) ==
    {c \in committed : c.round # r} \cup {[view |-> 0, round |-> r, block |-> b]}

\* Mutant: only the last committed block is kept.
InsertCommittedLast(committed, v, r, b) == {[view |-> v, round |-> r, block |-> b]}

\* HashMap::insert of a hash under a view and round.
InsertCommitted(committed, v, r, b) ==
    {c \in committed : c.view # v \/ c.round # r} \cup {[view |-> v, round |-> r, block |-> b]}

\* The round that advances is the node's own, whatever round p is of.
commit_block(n, p) ==
    LET root == Append(state_root[n], p.block)
        committed == [block |-> p.block, votes |-> p.votes, state |-> "Committed"]
    IN  /\ pending_blocks' = [pending_blocks EXCEPT ![n] = InsertPending(@, committed)]
        /\ state_root' = [state_root EXCEPT ![n] = root]
        /\ committed_blocks' = [committed_blocks EXCEPT ![n] =
                                  InsertCommitted(@, p.block.view, p.block.round, p.block)]
        /\ sent' = sent \cup {[type |-> "Commit", from |-> n, block |-> p.block,
                               vote_signatures |-> p.votes, state_root |-> root]}
        /\ round' = [round EXCEPT ![n] = @ + 1]
        /\ voters_seen' = [voters_seen EXCEPT ![n] = {}]

process_vote(n) ==
    \E m \in sent :
        /\ Len(state_root[n]) < MaxRoot
        /\ Receive(n, m, "Vote")
        /\ AcceptsVote(n, m)
        /\ \E p \in pending_blocks[n] :
            /\ p.block = m.block
            /\ LET q == add_vote(p, m.from)
               IN  IF p.state = "Proposed" /\ q.state = "Prepared"
                   THEN commit_block(n, q)
                   ELSE /\ pending_blocks' = [pending_blocks EXCEPT ![n] = InsertPending(@, q)]
                        /\ voters_seen' = [voters_seen EXCEPT ![n] = @ \cup {m.from}]
                        /\ UNCHANGED <<round, committed_blocks, state_root, sent>>
        /\ UNCHANGED <<view, view_change>>

AcceptsCommit(m) == Cardinality(m.vote_signatures) >= quorum

\* Where a commit of (v, r) leaves node n.
AtOrAfter(v, r, n) == v > view[n] \/ (v = view[n] /\ r >= round[n])

process_commit(n) ==
    \E m \in sent :
        /\ Receive(n, m, "Commit")
        /\ AcceptsCommit(m)
        /\ LET b == m.block
               behind == AtOrAfter(b.view, b.round, n)
           IN  /\ committed_blocks' =
                     [committed_blocks EXCEPT ![n] = InsertCommitted(@, b.view, b.round, b)]
               /\ state_root' = [state_root EXCEPT ![n] = m.state_root]
               /\ view' = [view EXCEPT ![n] = IF behind THEN b.view ELSE @]
               /\ round' = [round EXCEPT ![n] = IF behind THEN b.round + 1 ELSE @]
               /\ voters_seen' = [voters_seen EXCEPT ![n] = IF behind THEN {} ELSE @]
               /\ pending_blocks' = [pending_blocks EXCEPT ![n] =
                     {p \in @ : p.block.view # b.view \/ p.block.round # b.round}]
        /\ UNCHANGED <<view_change, sent>>

-----------------------------------------------------------------------------
\* The block of the current view with the highest round among those that
\* are in state Prepared.
LastPrepared(n) ==
    LET prepared == {p \in pending_blocks[n] : p.block.view = view[n] /\ p.state = "Prepared"}
    IN  IF prepared = {} THEN NotPrepared
        ELSE LET p == CHOOSE p \in prepared : \A q \in prepared : q.block.round <= p.block.round
             IN  [round |-> p.block.round, block |-> p.block]

\* The host gives up on the leader.  The tracker starts again with this
\* node's own message.
initiate_view_change(n) ==
    /\ view[n] < MaxView
    /\ LET msg == [type |-> "ViewChange", from |-> n, new_view |-> view[n] + 1,
                   last_prepared |-> LastPrepared(n)]
       IN  /\ view_change' = [view_change EXCEPT ![n] =
                 [target_view |-> msg.new_view, messages |-> {msg}, state |-> "Collecting"]]
           /\ sent' = sent \cup {msg}
    /\ UNCHANGED <<place, blocks, voters_seen, delivered>>

NewTracker(target) == [target_view |-> target, messages |-> {}, state |-> "Collecting"]

\* get_or_insert_with: the tracker that counts message m at node n.
Tracker(n, m) ==
    IF view_change[n] = NoTracker THEN NewTracker(m.new_view) ELSE view_change[n]

AcceptsViewChange(n, m) ==
    /\ m.from \in Validator
    /\ m.new_view = Tracker(n, m).target_view
    /\ \A other \in Tracker(n, m).messages : other.from # m.from

add_message(tracker, m) ==
    LET messages == tracker.messages \cup {m}
    IN  [target_view |-> tracker.target_view, messages |-> messages,
         state |-> IF Cardinality(messages) >= quorum THEN "WaitingNewView" ELSE tracker.state]

process_view_change(n) ==
    \E m \in sent :
        /\ Receive(n, m, "ViewChange")
        /\ AcceptsViewChange(n, m)
        /\ view_change' = [view_change EXCEPT ![n] = add_message(Tracker(n, m), m)]
        /\ UNCHANGED <<place, blocks, voters_seen, sent>>

\* What a new view continues from: the highest prepared block reported.
HighestPrepared(messages) ==
    LET prepared == {m.last_prepared : m \in messages} \ {NotPrepared}
    IN  IF prepared = {} THEN [starting_round |-> 0, prepared_block |-> NotPrepared]
        ELSE LET p == CHOOSE p \in prepared : \A q \in prepared : q.round <= p.round
             IN  [starting_round |-> p.round + 1, prepared_block |-> p.block]

\* Both ends of a view change enter the view the same way.
EnterView(n, v, r) ==
    /\ view' = [view EXCEPT ![n] = v]
    /\ round' = [round EXCEPT ![n] = r]
    /\ view_change' = [view_change EXCEPT ![n] = NoTracker]
    /\ voters_seen' = [voters_seen EXCEPT ![n] = {}]
    /\ UNCHANGED blocks

\* Mutant: any node that has the quorum starts the view.
CanCompleteAnywhere(n) ==
    /\ view_change[n] # NoTracker
    /\ view_change[n].state = "WaitingNewView"

CanComplete(n) ==
    /\ view_change[n] # NoTracker
    /\ view_change[n].state = "WaitingNewView"
    /\ n = get_leader(view_change[n].target_view)

complete_view_change(n) ==
    /\ CanComplete(n)
    /\ LET v == view_change[n].target_view
           from == HighestPrepared(view_change[n].messages)
       IN  /\ sent' = sent \cup {[type |-> "NewView", from |-> n, view |-> v,
                                  view_change_proofs |-> view_change[n].messages,
                                  starting_round |-> from.starting_round,
                                  prepared_block |-> from.prepared_block]}
           /\ EnterView(n, v, from.starting_round)
    /\ UNCHANGED delivered

AcceptsNewView(m) ==
    /\ m.from = get_leader(m.view)
    /\ Cardinality(m.view_change_proofs) >= quorum

\* The node's own view is not compared with the message's.
process_new_view(n) ==
    \E m \in sent :
        /\ Receive(n, m, "NewView")
        /\ AcceptsNewView(m)
        /\ EnterView(n, m.view, m.starting_round)
        /\ UNCHANGED sent

\* process_message returns an error and the message is gone.
Accepts(n, m) ==
    CASE m.type = "Proposal" -> AcceptsProposal(n, m)
      [] m.type = "Vote" -> AcceptsVote(n, m)
      [] m.type = "Commit" -> AcceptsCommit(m)
      [] m.type = "ViewChange" -> AcceptsViewChange(n, m)
      [] m.type = "NewView" -> AcceptsNewView(m)

reject_message(n) ==
    \E m \in sent :
        /\ DeliverOnce
        /\ Receive(n, m, m.type)
        /\ ~Accepts(n, m)
        /\ UNCHANGED <<place, blocks, view_change, voters_seen, sent>>

process_message(n) ==
    \/ process_proposal(n)
    \/ process_vote(n)
    \/ process_commit(n)
    \/ process_view_change(n)
    \/ process_new_view(n)
    \/ reject_message(n)

Next ==
    \E n \in Node :
        \/ propose_block(n)
        \/ initiate_view_change(n)
        \/ complete_view_change(n)
        \/ process_message(n)

Spec == Init /\ [][Next]_vars

\* The host keeps handing received messages to its propagator.
FairSpec == Spec /\ \A n \in Node : WF_vars(process_message(n))

-----------------------------------------------------------------------------
Voted(voter, b) == [type |-> "Vote", from |-> voter, block |-> b] \in sent

Proposed(b) == [type |-> "Proposal", from |-> get_leader(b.view), block |-> b] \in sent

\* A commit announcement carries votes of a quorum of distinct validators,
\* each really cast for that block, and the block was proposed by the
\* leader of its view; what a node takes as committed, from its own votes
\* or from an announcement, rests on such votes.
CommitHasQuorum ==
    /\ \A m \in sent : m.type = "Commit" =>
          /\ Cardinality(m.vote_signatures) >= quorum
          /\ \A voter \in m.vote_signatures : Voted(voter, m.block)
          /\ Proposed(m.block)
    /\ \A n \in Node : \A c \in committed_blocks[n] :
          \E m \in sent : m.type = "Commit" /\ m.block = c.block

\* A new view is announced by its leader, on the word of a quorum of
\* distinct nodes that each asked for that very view.
NewViewHasQuorum ==
    \A m \in sent : m.type = "NewView" =>
        /\ m.from = get_leader(m.view)
        /\ Cardinality({vc.from : vc \in m.view_change_proofs}) >= quorum
        /\ \A vc \in m.view_change_proofs : vc \in sent /\ vc.new_view = m.view

\* No two nodes take different blocks as committed for a view and round.
CommittedBlocksAgree ==
    \A n1, n2 \in Node :
        \A c1 \in committed_blocks[n1], c2 \in committed_blocks[n2] :
            c1.view = c2.view /\ c1.round = c2.round => c1.block = c2.block

\* What a node has committed for a view and round is never replaced.
CommittedIsFinal ==
    [][\A n \in Node : committed_blocks[n] \subseteq committed_blocks'[n]]_vars

\* When every message is delivered once, a block that is proposed is
\* committed by every node.
ProposedIsCommitted ==
    \A v \in 0..MaxView, r \in 0..MaxRound :
        (\E m \in sent : m.type = "Proposal" /\ m.block.view = v /\ m.block.round = r)
        ~> \A n \in Node : \E c \in committed_blocks[n] : c.view = v /\ c.round = r

=============================================================================
