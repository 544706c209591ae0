------------------------ MODULE BlockPropagatorProofs ------------------------
(***************************************************************************)
(* Machine-checked proofs about BlockPropagator, for every list of         *)
(* validators, set of observers and of block data, every bound, and a      *)
(* network that loses, repeats and reorders messages.                      *)
(***************************************************************************)
EXTENDS BlockPropagator, TLAPS, FiniteSetTheorems, FunctionTheorems

\* The rotation of get_leader always names a validator.
LEMMA LeaderIsValidator == \A v \in Nat : get_leader(v) \in Validator
  BY ValidatorsAssumption DEF get_leader, Validator

\* The type field of a message tells which record it is.
LEMMA MessageKinds ==
    ASSUME NEW m \in Message
    PROVE  /\ m.type = "Proposal" => m \in BlockProposal
           /\ m.type = "Vote" => m \in BlockVote
           /\ m.type = "Commit" => m \in BlockCommit
           /\ m.type = "ViewChange" => m \in P2PViewChange
           /\ m.type = "NewView" => m \in P2PNewView
<1>1. /\ \A k \in BlockProposal : k.type = "Proposal"
      /\ \A k \in BlockVote : k.type = "Vote"
      /\ \A k \in BlockCommit : k.type = "Commit"
      /\ \A k \in P2PViewChange : k.type = "ViewChange"
      /\ \A k \in P2PNewView : k.type = "NewView"
  BY Zenon DEF BlockProposal, BlockVote, BlockCommit, P2PViewChange, P2PNewView
<1>2. \/ m \in BlockProposal \/ m \in BlockVote \/ m \in BlockCommit
      \/ m \in P2PViewChange \/ m \in P2PNewView
  BY Zenon DEF Message
<1> QED BY Zenon, <1>1, <1>2

-----------------------------------------------------------------------------
(* Types.  The round a new view starts at is a number because no block is  *)
(* ever found in state Prepared: a quorum commits within the same call.    *)

\* No propagator is ever seen with a block in state Prepared, no request for
\* a view reports one, and a tracker holds only requests that were sent.
NeverPrepared ==
    /\ \A n \in Node : \A p \in pending_blocks[n] : p.state # "Prepared"
    /\ \A m \in sent : m.type = "ViewChange" => m.last_prepared = NotPrepared
    /\ \A n \in Node : view_change[n] # NoTracker =>
          \A vc \in view_change[n].messages : vc \in sent

TypeInv == TypeOK /\ NeverPrepared

\* The initial state of BlockPropagator::new has its type.
LEMMA InitTypeInv == Init => TypeInv
  BY DEF Init, TypeInv, TypeOK, NeverPrepared

\* add_vote keeps the type of a pending block and leaves it Prepared only
\* when it has just reached the quorum.
LEMMA AddVote ==
    ASSUME NEW p \in PendingBlock, NEW voter \in Validator, p.state # "Prepared"
    PROVE  /\ add_vote(p, voter) \in PendingBlock
           /\ add_vote(p, voter).block = p.block
           /\ add_vote(p, voter).votes = p.votes \cup {voter}
           /\ add_vote(p, voter).state = "Prepared" =>
                p.state = "Proposed" /\ Cardinality(p.votes \cup {voter}) >= quorum
  BY Zenon DEF add_vote, PendingBlock, BlockState

\* Receiving a message keeps the record of deliveries typed.
LEMMA ReceiveType ==
    ASSUME TypeOK, NEW n \in Node, NEW m \in sent, NEW t, Receive(n, m, t)
    PROVE  delivered' \in [Node -> SUBSET Message] /\ m \in Message /\ m.type = t
  BY Zenon DEF TypeOK, Receive

\* Every step of a propagator keeps the types and leaves nothing Prepared.
LEMMA NextTypeInv == TypeInv /\ [Next]_vars => TypeInv'
<1> SUFFICES ASSUME TypeInv, [Next]_vars PROVE TypeInv'
  BY Zenon
<1> USE DEF TypeInv
<1>1. ASSUME NEW n \in Node, propose_block(n) PROVE TypeInv'
  <2>1. PICK d \in Data :
          LET b == [view |-> view[n], round |-> round[n], data |-> d]
          IN  /\ pending_blocks' =
                    [pending_blocks EXCEPT ![n] = InsertPending(@, NewPending(b))]
              /\ sent' = sent \cup {[type |-> "Proposal", from |-> n, block |-> b]}
    BY Zenon, <1>1 DEF propose_block
  <2> DEFINE b == [view |-> view[n], round |-> round[n], data |-> d]
             m == [type |-> "Proposal", from |-> n, block |-> b]
  <2>2. b \in Block
    BY Zenon DEF TypeOK, Block
  <2>3. m \in Message /\ m.type # "ViewChange"
    BY Zenon, <2>2 DEF Message, BlockProposal
  <2>4. NewPending(b) \in PendingBlock /\ NewPending(b).state # "Prepared"
    BY Zenon, <2>2 DEF NewPending, PendingBlock, BlockState
  <2> HIDE DEF b, m
  <2>5. UNCHANGED <<view, round, committed_blocks, state_root, view_change, voters_seen, delivered>>
    BY Zenon, <1>1 DEF propose_block, place
  <2>6. /\ pending_blocks' = [pending_blocks EXCEPT ![n] = InsertPending(@, NewPending(b))]
        /\ sent' = sent \cup {m}
    BY Zenon, <2>1 DEF b, m
  <2>7. TypeOK'
    BY Zenon, <2>3, <2>4, <2>5, <2>6 DEF TypeOK, InsertPending
  <2>8. NeverPrepared'
    BY Zenon, <2>3, <2>4, <2>5, <2>6 DEF TypeOK, NeverPrepared, InsertPending
  <2> QED BY Zenon, <2>7, <2>8
<1>2. ASSUME NEW n \in Node, process_proposal(n) PROVE TypeInv'
  <2>1. PICK m \in sent :
          /\ Receive(n, m, "Proposal")
          /\ view' = [view EXCEPT ![n] = m.block.view]
          /\ round' = [round EXCEPT ![n] = m.block.round]
          /\ voters_seen' = [voters_seen EXCEPT ![n] =
                                IF Ahead(m.block.view, m.block.round, n) THEN {} ELSE @]
          /\ pending_blocks' =
                [pending_blocks EXCEPT ![n] = InsertPending(@, NewPending(m.block))]
          /\ sent' = IF n \in Validator
                        THEN sent \cup {[type |-> "Vote", from |-> n, block |-> m.block]}
                        ELSE sent
          /\ UNCHANGED <<committed_blocks, state_root, view_change>>
    BY Zenon, <1>2 DEF process_proposal
  <2>2. m \in BlockProposal /\ delivered' \in [Node -> SUBSET Message]
    BY Zenon, <2>1, ReceiveType, MessageKinds
  <2>3. m.block \in Block /\ m.block.view \in Nat /\ m.block.round \in Nat
    BY Zenon, <2>2 DEF BlockProposal, Block
  <2> DEFINE vote == [type |-> "Vote", from |-> n, block |-> m.block]
  <2>4. vote \in Message /\ vote.type # "ViewChange"
    BY Zenon, <2>3 DEF Message, BlockVote
  <2>5. NewPending(m.block) \in PendingBlock /\ NewPending(m.block).state # "Prepared"
    BY Zenon, <2>3 DEF NewPending, PendingBlock, BlockState
  <2> HIDE DEF vote
  <2>6. sent' = sent \/ sent' = sent \cup {vote}
    BY Zenon, <2>1 DEF vote
  <2>7. TypeOK'
    BY Zenon, <2>1, <2>2, <2>3, <2>4, <2>5, <2>6 DEF TypeOK, InsertPending
  <2>8. NeverPrepared'
    BY Zenon, <2>1, <2>4, <2>5, <2>6 DEF TypeOK, NeverPrepared, InsertPending
  <2> QED BY Zenon, <2>7, <2>8
<1>3. ASSUME NEW n \in Node, process_vote(n) PROVE TypeInv'
  <2>1. PICK m \in sent, p \in pending_blocks[n] :
          /\ Receive(n, m, "Vote")
          /\ m.from \in Validator
          /\ p.block = m.block
          /\ LET q == add_vote(p, m.from)
             IN  IF p.state = "Proposed" /\ q.state = "Prepared"
                 THEN commit_block(n, q)
                 ELSE /\ pending_blocks' = [pending_blocks EXCEPT ![n] = InsertPending(@, q)]
                      /\ voters_seen' = [voters_seen EXCEPT ![n] = @ \cup {m.from}]
                      /\ UNCHANGED <<round, committed_blocks, state_root, sent>>
          /\ UNCHANGED <<view, view_change>>
    BY Zenon, <1>3 DEF process_vote, AcceptsVote
  <2>2. delivered' \in [Node -> SUBSET Message]
    BY Zenon, <2>1, ReceiveType
  <2>3. p \in PendingBlock /\ p.state # "Prepared"
    BY Zenon DEF TypeOK, NeverPrepared
  <2> DEFINE q == add_vote(p, m.from)
  <2>4. q \in PendingBlock /\ q.block = p.block /\ (q.state = "Prepared" => p.state = "Proposed")
    BY Zenon, <2>1, <2>3, AddVote
  <2> HIDE DEF q
  <2>5. CASE p.state = "Proposed" /\ q.state = "Prepared"
    <3> DEFINE root == Append(state_root[n], q.block)
               done == [block |-> q.block, votes |-> q.votes, state |-> "Committed"]
               msg == [type |-> "Commit", from |-> n, block |-> q.block,
                       vote_signatures |-> q.votes, state_root |-> root]
               entry == [view |-> q.block.view, round |-> q.block.round, block |-> q.block]
    <3>1. /\ pending_blocks' = [pending_blocks EXCEPT ![n] = InsertPending(@, done)]
          /\ state_root' = [state_root EXCEPT ![n] = root]
          /\ committed_blocks' = [committed_blocks EXCEPT ![n] =
                                    InsertCommitted(@, q.block.view, q.block.round, q.block)]
          /\ sent' = sent \cup {msg}
          /\ round' = [round EXCEPT ![n] = @ + 1]
          /\ voters_seen' = [voters_seen EXCEPT ![n] = {}]
      BY Zenon, <2>1, <2>5 DEF commit_block, q
    <3>2. q.block \in Block /\ q.votes \in SUBSET Validator
      BY Zenon, <2>4 DEF PendingBlock
    <3>3. root \in Seq(Block)
      BY <3>2 DEF TypeOK
    <3>4. done \in PendingBlock /\ done.state # "Prepared"
      BY Zenon, <3>2 DEF PendingBlock, BlockState
    <3>5. entry \in CommittedBlock
      BY Zenon, <3>2 DEF CommittedBlock, Block
    <3> HIDE DEF root
    <3>6. msg \in Message /\ msg.type # "ViewChange"
      BY Zenon, <3>2, <3>3 DEF Message, BlockCommit
    <3>7. InsertCommitted(committed_blocks[n], q.block.view, q.block.round, q.block)
            \in SUBSET CommittedBlock
      BY Zenon, <3>5 DEF InsertCommitted, TypeOK
    <3> HIDE DEF done, msg, entry
    <3>8. TypeOK'
      BY <2>1, <2>2, <3>1, <3>3, <3>4, <3>6, <3>7 DEF TypeOK, InsertPending
    <3>9. NeverPrepared'
      BY Zenon, <2>1, <3>1, <3>4, <3>6 DEF TypeOK, NeverPrepared, InsertPending
    <3> QED BY Zenon, <3>8, <3>9
  <2>6. CASE ~(p.state = "Proposed" /\ q.state = "Prepared")
    <3>1. /\ pending_blocks' = [pending_blocks EXCEPT ![n] = InsertPending(@, q)]
          /\ voters_seen' = [voters_seen EXCEPT ![n] = @ \cup {m.from}]
          /\ UNCHANGED <<round, committed_blocks, state_root, sent>>
      BY Zenon, <2>1, <2>6 DEF q
    <3>2. q.state # "Prepared"
      BY Zenon, <2>4, <2>6
    <3>3. TypeOK'
      BY Zenon, <2>1, <2>2, <2>4, <3>1 DEF TypeOK, InsertPending
    <3>4. NeverPrepared'
      BY Zenon, <2>1, <3>1, <3>2 DEF TypeOK, NeverPrepared, InsertPending
    <3> QED BY Zenon, <3>3, <3>4
  <2> QED BY Zenon, <2>5, <2>6
<1>4. ASSUME NEW n \in Node, process_commit(n) PROVE TypeInv'
  <2>1. PICK m \in sent :
          LET b == m.block
              behind == AtOrAfter(b.view, b.round, n)
          IN  /\ Receive(n, m, "Commit")
              /\ committed_blocks' =
                    [committed_blocks EXCEPT ![n] = InsertCommitted(@, b.view, b.round, b)]
              /\ state_root' = [state_root EXCEPT ![n] = m.state_root]
              /\ view' = [view EXCEPT ![n] = IF behind THEN b.view ELSE @]
              /\ round' = [round EXCEPT ![n] = IF behind THEN b.round + 1 ELSE @]
              /\ voters_seen' = [voters_seen EXCEPT ![n] = IF behind THEN {} ELSE @]
              /\ pending_blocks' = [pending_blocks EXCEPT ![n] =
                    {p \in @ : p.block.view # b.view \/ p.block.round # b.round}]
              /\ UNCHANGED <<view_change, sent>>
    BY Zenon, <1>4 DEF process_commit
  <2>2. m \in BlockCommit /\ delivered' \in [Node -> SUBSET Message]
    BY Zenon, <2>1, ReceiveType, MessageKinds
  <2>3. /\ m.block \in Block /\ m.block.view \in Nat /\ m.block.round \in Nat
        /\ m.state_root \in Seq(Block)
    BY Zenon, <2>2 DEF BlockCommit, Block
  <2>4. InsertCommitted(committed_blocks[n], m.block.view, m.block.round, m.block)
          \in SUBSET CommittedBlock
    BY <2>3 DEF InsertCommitted, CommittedBlock, TypeOK
  <2>5. view' \in [Node -> Nat] /\ round' \in [Node -> Nat]
    BY <2>1, <2>3 DEF TypeOK
  <2>6. pending_blocks' \in [Node -> SUBSET PendingBlock] /\ voters_seen' \in [Node -> SUBSET Validator]
    BY Zenon, <2>1 DEF TypeOK
  <2>7. committed_blocks' \in [Node -> SUBSET CommittedBlock] /\ state_root' \in [Node -> Seq(Block)]
    BY Zenon, <2>1, <2>3, <2>4 DEF TypeOK
  <2>8. TypeOK'
    BY Zenon, <2>1, <2>2, <2>5, <2>6, <2>7 DEF TypeOK
  <2>9. NeverPrepared'
    BY Zenon, <2>1 DEF TypeOK, NeverPrepared
  <2> QED BY Zenon, <2>8, <2>9
<1>5. ASSUME NEW n \in Node, initiate_view_change(n) PROVE TypeInv'
  <2>1. LastPrepared(n) = NotPrepared
    BY Zenon DEF LastPrepared, NeverPrepared
  <2> DEFINE msg == [type |-> "ViewChange", from |-> n, new_view |-> view[n] + 1,
                     last_prepared |-> NotPrepared]
             tracker == [target_view |-> msg.new_view, messages |-> {msg},
                         state |-> "Collecting"]
  <2>2. msg \in P2PViewChange /\ msg.last_prepared = NotPrepared
    BY DEF TypeOK, P2PViewChange
  <2>3. tracker \in ViewChangeTracker /\ tracker.messages = {msg}
    BY Zenon, <2>2 DEF ViewChangeTracker, P2PViewChange
  <2>4. /\ view_change' = [view_change EXCEPT ![n] = tracker]
        /\ sent' = sent \cup {msg}
        /\ UNCHANGED <<view, round, pending_blocks, committed_blocks, state_root,
                       voters_seen, delivered>>
    BY Zenon, <1>5, <2>1 DEF initiate_view_change, place, blocks
  <2> HIDE DEF msg, tracker
  <2>5. TypeOK'
    BY Zenon, <2>2, <2>3, <2>4 DEF TypeOK, Message
  <2>6. NeverPrepared'
    BY Zenon, <2>2, <2>3, <2>4 DEF TypeOK, NeverPrepared
  <2> QED BY Zenon, <2>5, <2>6
<1>6. ASSUME NEW n \in Node, process_view_change(n) PROVE TypeInv'
  <2>1. PICK m \in sent :
          /\ Receive(n, m, "ViewChange")
          /\ view_change' = [view_change EXCEPT ![n] = add_message(Tracker(n, m), m)]
          /\ UNCHANGED <<view, round, pending_blocks, committed_blocks, state_root,
                         voters_seen, sent>>
    BY Zenon, <1>6 DEF process_view_change, place, blocks
  <2>2. m \in P2PViewChange /\ delivered' \in [Node -> SUBSET Message]
    BY Zenon, <2>1, ReceiveType, MessageKinds
  <2>3. Tracker(n, m) \in ViewChangeTracker /\ Tracker(n, m).messages \subseteq sent
    BY Zenon, <2>2 DEF Tracker, NewTracker, ViewChangeTracker, P2PViewChange, TypeOK, NeverPrepared
  <2> DEFINE tracker == add_message(Tracker(n, m), m)
  <2>4. tracker \in ViewChangeTracker /\ tracker.messages \subseteq sent
    BY Zenon, <2>2, <2>3 DEF add_message, ViewChangeTracker
  <2> HIDE DEF tracker
  <2>5. view_change' = [view_change EXCEPT ![n] = tracker]
    BY Zenon, <2>1 DEF tracker
  <2>6. TypeOK'
    BY Zenon, <2>1, <2>2, <2>4, <2>5 DEF TypeOK
  <2>7. NeverPrepared'
    BY Zenon, <2>1, <2>4, <2>5 DEF TypeOK, NeverPrepared
  <2> QED BY Zenon, <2>6, <2>7
<1>7. ASSUME NEW n \in Node, NEW v \in Nat, NEW r \in Nat, EnterView(n, v, r),
             sent \subseteq sent', sent' \in SUBSET Message,
             \A m \in sent' \ sent : m.type # "ViewChange",
             delivered' \in [Node -> SUBSET Message]
      PROVE  TypeInv'
  <2>1. /\ view' = [view EXCEPT ![n] = v]
        /\ round' = [round EXCEPT ![n] = r]
        /\ view_change' = [view_change EXCEPT ![n] = NoTracker]
        /\ voters_seen' = [voters_seen EXCEPT ![n] = {}]
        /\ UNCHANGED <<pending_blocks, committed_blocks, state_root>>
    BY Zenon, <1>7 DEF EnterView, blocks
  <2>2. TypeOK'
    BY Zenon, <1>7, <2>1 DEF TypeOK
  <2>3. NeverPrepared'
    BY Zenon, <1>7, <2>1 DEF TypeOK, NeverPrepared
  <2> QED BY Zenon, <2>2, <2>3
<1>8. ASSUME NEW n \in Node, complete_view_change(n) PROVE TypeInv'
  <2> DEFINE tracker == view_change[n]
             msg == [type |-> "NewView", from |-> n, view |-> tracker.target_view,
                     view_change_proofs |-> tracker.messages,
                     starting_round |-> 0, prepared_block |-> NotPrepared]
  <2>1. tracker \in ViewChangeTracker
    BY Zenon, <1>8 DEF TypeOK, complete_view_change, CanComplete
  <2>2. \A vc \in tracker.messages : vc.last_prepared = NotPrepared
    <3>1. \A vc \in tracker.messages : vc \in sent /\ vc \in P2PViewChange
      BY Zenon, <1>8, <2>1 DEF NeverPrepared, complete_view_change, CanComplete, ViewChangeTracker
    <3> QED BY Zenon, <3>1 DEF NeverPrepared, P2PViewChange
  <2>3. HighestPrepared(tracker.messages) = [starting_round |-> 0, prepared_block |-> NotPrepared]
    BY <2>2 DEF HighestPrepared
  <2>4. /\ sent' = sent \cup {msg}
        /\ EnterView(n, tracker.target_view, 0)
        /\ UNCHANGED delivered
    BY <1>8, <2>3 DEF complete_view_change
  <2>5. msg \in Message /\ msg.type # "ViewChange" /\ tracker.target_view \in Nat
    BY Zenon, <2>1 DEF Message, P2PNewView, ViewChangeTracker
  <2> HIDE DEF msg
  <2> QED BY Zenon, <1>7, <2>4, <2>5 DEF TypeOK
<1>9. ASSUME NEW n \in Node, process_new_view(n) PROVE TypeInv'
  <2>1. PICK m \in sent :
          /\ Receive(n, m, "NewView")
          /\ EnterView(n, m.view, m.starting_round)
          /\ UNCHANGED sent
    BY Zenon, <1>9 DEF process_new_view
  <2>2. m \in P2PNewView /\ delivered' \in [Node -> SUBSET Message]
    BY Zenon, <2>1, ReceiveType, MessageKinds
  <2>3. m.view \in Nat /\ m.starting_round \in Nat
    BY Zenon, <2>2 DEF P2PNewView
  <2> QED BY Zenon, <1>7, <2>1, <2>2, <2>3 DEF TypeOK
<1>10. ASSUME NEW n \in Node, reject_message(n) PROVE TypeInv'
  <2>1. PICK m \in sent : Receive(n, m, m.type)
    BY Zenon, <1>10 DEF reject_message
  <2>2. delivered' \in [Node -> SUBSET Message]
    BY Zenon, <2>1, ReceiveType
  <2>3. UNCHANGED <<view, round, pending_blocks, committed_blocks, state_root, view_change,
                    voters_seen, sent>>
    BY Zenon, <1>10 DEF reject_message, place, blocks
  <2> QED BY Zenon, <2>2, <2>3 DEF TypeOK, NeverPrepared
<1>11. ASSUME UNCHANGED vars PROVE TypeInv'
  BY Zenon, <1>11 DEF vars, place, blocks, TypeOK, NeverPrepared
<1> QED
  BY Zenon, <1>1, <1>2, <1>3, <1>4, <1>5, <1>6, <1>8, <1>9, <1>10, <1>11 DEF Next, process_message

\* The fields and queued messages of every propagator keep their types.
THEOREM TypeCorrect == Spec => []TypeOK
<1>1. TypeInv => TypeOK
  BY Zenon DEF TypeInv
<1> QED BY <1>1, InitTypeInv, NextTypeInv, PTL DEF Spec

-----------------------------------------------------------------------------
(* Blocks.  What is pending rests on sent proposals and votes, so what is  *)
(* committed does.                                                         *)

PendingBacked ==
    \A n \in Node : \A p \in pending_blocks[n] :
        Proposed(p.block) /\ \A voter \in p.votes : Voted(voter, p.block)

CommittedInPlace ==
    \A n \in Node : \A c \in committed_blocks[n] :
        c.view = c.block.view /\ c.round = c.block.round

OneProposal ==
    ProposeOnce => \A m1, m2 \in sent :
        /\ m1.type = "Proposal" /\ m2.type = "Proposal"
        /\ m1.block.view = m2.block.view /\ m1.block.round = m2.block.round
        => m1.block = m2.block

BlockInv == PendingBacked /\ CommitHasQuorum /\ CommittedInPlace /\ OneProposal

\* A step that leaves the blocks alone and sends neither proposals nor
\* commits keeps the invariant.
LEMMA BlocksAlone ==
    ASSUME BlockInv, UNCHANGED <<pending_blocks, committed_blocks>>, sent \subseteq sent',
           \A m \in sent' \ sent : m.type # "Proposal" /\ m.type # "Commit"
    PROVE  BlockInv'
<1>1. PendingBacked'
  BY Zenon DEF BlockInv, PendingBacked, Proposed, Voted
<1>2. CommitHasQuorum'
  BY Zenon DEF BlockInv, CommitHasQuorum, Proposed, Voted
<1>3. CommittedInPlace' /\ OneProposal'
  BY Zenon DEF BlockInv, CommittedInPlace, OneProposal
<1> QED BY Zenon, <1>1, <1>2, <1>3 DEF BlockInv

\* Every step keeps the invariant on blocks.
LEMMA NextBlockInv == TypeInv /\ BlockInv /\ [Next]_vars => BlockInv'
<1> SUFFICES ASSUME TypeInv, BlockInv, [Next]_vars PROVE BlockInv'
  BY Zenon
<1>0. TypeOK
  BY Zenon DEF TypeInv
<1>1. ASSUME NEW n \in Node, propose_block(n) PROVE BlockInv'
  <2>1. PICK b :
          /\ n = get_leader(b.view)
          /\ ProposeOnce => \A m \in sent : m.type = "Proposal" =>
                m.block.view # b.view \/ m.block.round # b.round
          /\ pending_blocks' = [pending_blocks EXCEPT ![n] = InsertPending(@, NewPending(b))]
          /\ sent' = sent \cup {[type |-> "Proposal", from |-> n, block |-> b]}
          /\ UNCHANGED committed_blocks
    BY Zenon, <1>1 DEF propose_block
  <2> DEFINE m == [type |-> "Proposal", from |-> n, block |-> b]
  <2>2. m.type = "Proposal" /\ m.block = b
    BY Zenon
  <2>3. NewPending(b).block = b /\ NewPending(b).votes = {}
    BY Zenon DEF NewPending
  <2>4. Proposed(b)'
    BY Zenon, <2>1 DEF Proposed
  <2> HIDE DEF m
  <2>5. sent' = sent \cup {m}
    BY Zenon, <2>1 DEF m
  <2>6. PendingBacked'
    <3>1. \A k \in Node : \A p \in pending_blocks'[k] :
            p \in pending_blocks[k] \/ p = NewPending(b)
      BY Zenon, <1>0, <2>1 DEF InsertPending, TypeOK
    <3> QED BY Zenon, <2>3, <2>4, <2>5, <3>1 DEF BlockInv, PendingBacked, Proposed, Voted
  <2>7. CommitHasQuorum'
    BY Zenon, <2>1, <2>2, <2>5 DEF BlockInv, CommitHasQuorum, Proposed, Voted
  <2>8. CommittedInPlace' /\ OneProposal'
    BY Zenon, <2>1, <2>2, <2>5 DEF BlockInv, CommittedInPlace, OneProposal
  <2> QED BY Zenon, <2>6, <2>7, <2>8 DEF BlockInv
<1>2. ASSUME NEW n \in Node, process_proposal(n) PROVE BlockInv'
  <2>1. PICK m \in sent :
          /\ Receive(n, m, "Proposal")
          /\ m.from = get_leader(m.block.view)
          /\ pending_blocks' =
                [pending_blocks EXCEPT ![n] = InsertPending(@, NewPending(m.block))]
          /\ sent' = IF n \in Validator
                        THEN sent \cup {[type |-> "Vote", from |-> n, block |-> m.block]}
                        ELSE sent
          /\ UNCHANGED committed_blocks
    BY Zenon, <1>2 DEF process_proposal, AcceptsProposal
  <2>2. m \in BlockProposal
    BY Zenon, <1>0, <2>1, ReceiveType, MessageKinds
  <2>3. Proposed(m.block)
    BY Zenon, <2>1, <2>2 DEF Proposed, BlockProposal
  <2> DEFINE vote == [type |-> "Vote", from |-> n, block |-> m.block]
  <2>4. vote.type # "Proposal" /\ vote.type # "Commit"
    BY Zenon
  <2>5. NewPending(m.block).block = m.block /\ NewPending(m.block).votes = {}
    BY Zenon DEF NewPending
  <2> HIDE DEF vote
  <2>6. sent \subseteq sent' /\ sent' \subseteq sent \cup {vote}
    BY Zenon, <2>1 DEF vote
  <2>7. PendingBacked'
    <3>1. \A k \in Node : \A p \in pending_blocks'[k] :
            p \in pending_blocks[k] \/ p = NewPending(m.block)
      BY Zenon, <1>0, <2>1 DEF InsertPending, TypeOK
    <3> QED BY Zenon, <2>3, <2>5, <2>6, <3>1 DEF BlockInv, PendingBacked, Proposed, Voted
  <2>8. CommitHasQuorum'
    BY Zenon, <2>1, <2>4, <2>6 DEF BlockInv, CommitHasQuorum, Proposed, Voted
  <2>9. CommittedInPlace' /\ OneProposal'
    BY Zenon, <2>1, <2>4, <2>6 DEF BlockInv, CommittedInPlace, OneProposal
  <2> QED BY Zenon, <2>7, <2>8, <2>9 DEF BlockInv
<1>3. ASSUME NEW n \in Node, process_vote(n) PROVE BlockInv'
  <2>1. PICK m \in sent, p \in pending_blocks[n] :
          /\ Receive(n, m, "Vote")
          /\ m.from \in Validator
          /\ p.block = m.block
          /\ LET q == add_vote(p, m.from)
             IN  IF p.state = "Proposed" /\ q.state = "Prepared"
                 THEN commit_block(n, q)
                 ELSE /\ pending_blocks' = [pending_blocks EXCEPT ![n] = InsertPending(@, q)]
                      /\ UNCHANGED <<committed_blocks, sent>>
    BY Zenon, <1>3 DEF process_vote, AcceptsVote
  <2>2. m \in BlockVote
    BY Zenon, <1>0, <2>1, ReceiveType, MessageKinds
  <2>3. Voted(m.from, p.block)
    BY Zenon, <2>1, <2>2 DEF Voted, BlockVote
  <2>4. p \in PendingBlock /\ p.state # "Prepared"
    BY Zenon DEF TypeInv, TypeOK, NeverPrepared
  <2> DEFINE q == add_vote(p, m.from)
  <2>5. /\ q.block = p.block /\ q.votes = p.votes \cup {m.from}
        /\ q.state = "Prepared" => Cardinality(q.votes) >= quorum
    BY Zenon, <2>1, <2>4, AddVote
  <2> HIDE DEF q
  <2>6. Proposed(q.block) /\ \A voter \in q.votes : Voted(voter, q.block)
    BY Zenon, <2>3, <2>5 DEF BlockInv, PendingBacked
  <2>7. CASE p.state = "Proposed" /\ q.state = "Prepared"
    <3> DEFINE done == [block |-> q.block, votes |-> q.votes, state |-> "Committed"]
               msg == [type |-> "Commit", from |-> n, block |-> q.block,
                       vote_signatures |-> q.votes,
                       state_root |-> Append(state_root[n], q.block)]
               entry == [view |-> q.block.view, round |-> q.block.round, block |-> q.block]
    <3>1. /\ pending_blocks' = [pending_blocks EXCEPT ![n] = InsertPending(@, done)]
          /\ committed_blocks' = [committed_blocks EXCEPT ![n] =
                                    InsertCommitted(@, q.block.view, q.block.round, q.block)]
          /\ sent' = sent \cup {msg}
      BY Zenon, <2>1, <2>7 DEF commit_block, q
    <3>2. done.block = q.block /\ done.votes = q.votes
      BY Zenon
    <3>3. msg.type = "Commit" /\ msg.block = q.block /\ msg.vote_signatures = q.votes
      BY Zenon
    <3>4. entry.block = q.block /\ entry.view = entry.block.view /\ entry.round = entry.block.round
      BY Zenon
    <3>5. \A k \in Node : \A c \in committed_blocks'[k] : c \in committed_blocks[k] \/ c = entry
      BY Zenon, <1>0, <3>1 DEF InsertCommitted, TypeOK
    <3> HIDE DEF done, msg, entry
    <3>6. \A k \in Node : \A o \in pending_blocks'[k] : o \in pending_blocks[k] \/ o = done
      BY Zenon, <1>0, <3>1 DEF InsertPending, TypeOK
    <3>7. PendingBacked'
      BY Zenon, <2>6, <3>1, <3>2, <3>6 DEF BlockInv, PendingBacked, Proposed, Voted
    <3>8. CommitHasQuorum'
      BY Zenon, <2>5, <2>6, <2>7, <3>1, <3>3, <3>4, <3>5 DEF BlockInv, CommitHasQuorum, Proposed, Voted
    <3>9. CommittedInPlace' /\ OneProposal'
      BY Zenon, <3>1, <3>3, <3>4, <3>5 DEF BlockInv, CommittedInPlace, OneProposal
    <3> QED BY Zenon, <3>7, <3>8, <3>9 DEF BlockInv
  <2>8. CASE ~(p.state = "Proposed" /\ q.state = "Prepared")
    <3>1. /\ pending_blocks' = [pending_blocks EXCEPT ![n] = InsertPending(@, q)]
          /\ UNCHANGED <<committed_blocks, sent>>
      BY Zenon, <2>1, <2>8 DEF q
    <3>2. \A k \in Node : \A o \in pending_blocks'[k] : o \in pending_blocks[k] \/ o = q
      BY Zenon, <1>0, <3>1 DEF InsertPending, TypeOK
    <3>3. PendingBacked'
      BY Zenon, <2>6, <3>1, <3>2 DEF BlockInv, PendingBacked, Proposed, Voted
    <3>4. CommitHasQuorum' /\ CommittedInPlace' /\ OneProposal'
      BY Zenon, <3>1 DEF BlockInv, CommitHasQuorum, CommittedInPlace, OneProposal, Proposed, Voted
    <3> QED BY Zenon, <3>3, <3>4 DEF BlockInv
  <2> QED BY Zenon, <2>7, <2>8
<1>4. ASSUME NEW n \in Node, process_commit(n) PROVE BlockInv'
  <2>1. PICK m \in sent :
          /\ Receive(n, m, "Commit")
          /\ committed_blocks' = [committed_blocks EXCEPT ![n] =
                InsertCommitted(@, m.block.view, m.block.round, m.block)]
          /\ pending_blocks' = [pending_blocks EXCEPT ![n] =
                {p \in @ : p.block.view # m.block.view \/ p.block.round # m.block.round}]
          /\ UNCHANGED sent
    BY Zenon, <1>4 DEF process_commit
  <2>2. m.type = "Commit"
    BY Zenon, <2>1 DEF Receive
  <2> DEFINE entry == [view |-> m.block.view, round |-> m.block.round, block |-> m.block]
  <2>3. entry.block = m.block /\ entry.view = entry.block.view /\ entry.round = entry.block.round
    BY Zenon
  <2>4. \A k \in Node : \A c \in committed_blocks'[k] : c \in committed_blocks[k] \/ c = entry
    BY Zenon, <1>0, <2>1 DEF InsertCommitted, TypeOK
  <2> HIDE DEF entry
  <2>5. \A k \in Node : \A p \in pending_blocks'[k] : p \in pending_blocks[k]
    BY Zenon, <1>0, <2>1 DEF TypeOK
  <2>6. PendingBacked'
    BY Zenon, <2>1, <2>5 DEF BlockInv, PendingBacked, Proposed, Voted
  <2>7. CommitHasQuorum'
    BY Zenon, <2>1, <2>2, <2>3, <2>4 DEF BlockInv, CommitHasQuorum, Proposed, Voted
  <2>8. CommittedInPlace' /\ OneProposal'
    BY Zenon, <2>1, <2>3, <2>4 DEF BlockInv, CommittedInPlace, OneProposal
  <2> QED BY Zenon, <2>6, <2>7, <2>8 DEF BlockInv
<1>5. ASSUME NEW n \in Node,
             initiate_view_change(n) \/ process_view_change(n) \/ complete_view_change(n)
               \/ process_new_view(n) \/ reject_message(n)
      PROVE  BlockInv'
  <2>1. UNCHANGED <<pending_blocks, committed_blocks>>
    BY Zenon, <1>5 DEF initiate_view_change, process_view_change, complete_view_change,
         process_new_view, reject_message, EnterView, blocks
  <2>2. ASSUME initiate_view_change(n)
        PROVE  \E m : m.type = "ViewChange" /\ sent' = sent \cup {m}
    BY Zenon, <2>2 DEF initiate_view_change
  <2>3. ASSUME complete_view_change(n)
        PROVE  \E m : m.type = "NewView" /\ sent' = sent \cup {m}
    BY Zenon, <2>3 DEF complete_view_change
  <2>4. ASSUME process_view_change(n) \/ process_new_view(n) \/ reject_message(n)
        PROVE  sent' = sent
    BY Zenon, <2>4 DEF process_view_change, process_new_view, reject_message
  <2>5. sent \subseteq sent' /\ \A m \in sent' \ sent : m.type \in {"ViewChange", "NewView"}
    BY Zenon, <1>5, <2>2, <2>3, <2>4
  <2> QED BY Zenon, <2>1, <2>5, BlocksAlone
<1>6. ASSUME UNCHANGED vars PROVE BlockInv'
  BY Zenon, <1>6, BlocksAlone DEF vars, blocks
<1> QED BY Zenon, <1>1, <1>2, <1>3, <1>4, <1>5, <1>6 DEF Next, process_message

\* Whatever is committed rests on a quorum of distinct votes really cast for
\* a proposal of the leader of its view.
THEOREM CommitsHaveQuorum == Spec => []CommitHasQuorum
<1>1. Init => BlockInv
  BY Zenon DEF Init, BlockInv, PendingBacked, CommitHasQuorum, CommittedInPlace, OneProposal
<1>2. BlockInv => CommitHasQuorum
  BY Zenon DEF BlockInv
<1> QED BY <1>1, <1>2, InitTypeInv, NextTypeInv, NextBlockInv, PTL DEF Spec

\* If hosts never propose two blocks for a view and round, what is proposed
\* for them is one block.
LEMMA ProposedIsUnique ==
    ASSUME OneProposal, ProposeOnce, NEW b1, NEW b2, Proposed(b1), Proposed(b2),
           b1.view = b2.view, b1.round = b2.round
    PROVE  b1 = b2
  BY Zenon DEF OneProposal, Proposed

\* Then all nodes agree on what is committed, whatever the network repeats
\* and however often the view changes.
THEOREM Agreement == ASSUME ProposeOnce PROVE Spec => []CommittedBlocksAgree
<1>1. Init => BlockInv
  BY Zenon DEF Init, BlockInv, PendingBacked, CommitHasQuorum, CommittedInPlace, OneProposal
<1>2. BlockInv => CommittedBlocksAgree
  <2> SUFFICES ASSUME BlockInv, NEW n1 \in Node, NEW n2 \in Node,
                      NEW c1 \in committed_blocks[n1], NEW c2 \in committed_blocks[n2],
                      c1.view = c2.view, c1.round = c2.round
               PROVE  c1.block = c2.block
    BY DEF CommittedBlocksAgree
  <2>1. Proposed(c1.block) /\ Proposed(c2.block)
    BY Zenon DEF BlockInv, CommitHasQuorum
  <2>2. c1.block.view = c2.block.view /\ c1.block.round = c2.block.round
    BY Zenon DEF BlockInv, CommittedInPlace
  <2> QED BY Zenon, <2>1, <2>2, ProposedIsUnique DEF BlockInv
<1> QED BY <1>1, <1>2, InitTypeInv, NextTypeInv, NextBlockInv, PTL DEF Spec

\* Inserting what is already the only proposal of its view and round
\* replaces nothing.
LEMMA InsertKeeps ==
    ASSUME TypeInv, BlockInv, ProposeOnce, NEW n \in Node, NEW b, Proposed(b)
    PROVE  committed_blocks[n] \subseteq InsertCommitted(committed_blocks[n], b.view, b.round, b)
<1> SUFFICES ASSUME NEW c \in committed_blocks[n], c.view = b.view, c.round = b.round
             PROVE  c = [view |-> b.view, round |-> b.round, block |-> b]
  BY Zenon DEF InsertCommitted
<1>1. Proposed(c.block) /\ c.block.view = c.view /\ c.block.round = c.round
  BY Zenon DEF BlockInv, CommitHasQuorum, CommittedInPlace
<1>2. c.block = b
  BY Zenon, <1>1, ProposedIsUnique DEF BlockInv
<1>3. c \in CommittedBlock
  BY Zenon DEF TypeInv, TypeOK
<1> QED BY Zenon, <1>2, <1>3 DEF CommittedBlock

\* Under the same condition a commit is never replaced.
THEOREM Finality == ASSUME ProposeOnce PROVE Spec => CommittedIsFinal
<1>1. Init => BlockInv
  BY Zenon DEF Init, BlockInv, PendingBacked, CommitHasQuorum, CommittedInPlace, OneProposal
<1>2. TypeInv /\ BlockInv /\ [Next]_vars =>
        [\A n \in Node : committed_blocks[n] \subseteq committed_blocks'[n]]_vars
  <2> SUFFICES ASSUME TypeInv, BlockInv, Next, NEW k \in Node
               PROVE  committed_blocks[k] \subseteq committed_blocks'[k]
    BY Zenon
  <2>0. TypeOK
    BY Zenon DEF TypeInv
  <2>1. ASSUME NEW n \in Node, NEW b, Proposed(b),
               committed_blocks' = [committed_blocks EXCEPT ![n] =
                                      InsertCommitted(@, b.view, b.round, b)]
        PROVE  committed_blocks[k] \subseteq committed_blocks'[k]
    <3>1. k # n => committed_blocks'[k] = committed_blocks[k]
      BY Zenon, <2>0, <2>1 DEF TypeOK
    <3>2. k = n => committed_blocks'[k] = InsertCommitted(committed_blocks[n], b.view, b.round, b)
      BY Zenon, <2>0, <2>1 DEF TypeOK
    <3>3. committed_blocks[n] \subseteq InsertCommitted(committed_blocks[n], b.view, b.round, b)
      BY Zenon, <2>1, InsertKeeps
    <3> QED BY Zenon, <3>1, <3>2, <3>3
  <2>2. ASSUME NEW n \in Node, process_vote(n)
        PROVE  committed_blocks[k] \subseteq committed_blocks'[k]
    <3>1. PICK m \in sent, p \in pending_blocks[n] :
            /\ m.from \in Validator
            /\ LET q == add_vote(p, m.from)
               IN  IF p.state = "Proposed" /\ q.state = "Prepared"
                   THEN commit_block(n, q) ELSE UNCHANGED committed_blocks
      BY Zenon, <2>2 DEF process_vote, AcceptsVote
    <3>2. p \in PendingBlock /\ p.state # "Prepared" /\ Proposed(p.block)
      BY Zenon DEF TypeInv, TypeOK, NeverPrepared, BlockInv, PendingBacked
    <3>3. add_vote(p, m.from).block = p.block
      BY Zenon, <3>1, <3>2, AddVote
    <3>4. \/ UNCHANGED committed_blocks
          \/ committed_blocks' = [committed_blocks EXCEPT ![n] =
                InsertCommitted(@, p.block.view, p.block.round, p.block)]
      BY Zenon, <3>1, <3>3 DEF commit_block
    <3> QED BY Zenon, <2>1, <3>2, <3>4
  <2>3. ASSUME NEW n \in Node, process_commit(n)
        PROVE  committed_blocks[k] \subseteq committed_blocks'[k]
    <3>1. PICK m \in sent :
            /\ m.type = "Commit"
            /\ committed_blocks' = [committed_blocks EXCEPT ![n] =
                  InsertCommitted(@, m.block.view, m.block.round, m.block)]
      BY Zenon, <2>3 DEF process_commit, Receive
    <3>2. Proposed(m.block)
      BY Zenon, <3>1 DEF BlockInv, CommitHasQuorum
    <3> QED BY Zenon, <2>1, <3>1, <3>2
  <2>4. ASSUME NEW n \in Node,
               propose_block(n) \/ process_proposal(n) \/ initiate_view_change(n)
                 \/ process_view_change(n) \/ complete_view_change(n)
                 \/ process_new_view(n) \/ reject_message(n)
        PROVE  UNCHANGED committed_blocks
    BY Zenon, <2>4 DEF propose_block, process_proposal, initiate_view_change, process_view_change,
         complete_view_change, process_new_view, reject_message, EnterView, blocks
  <2> QED BY Zenon, <2>2, <2>3, <2>4 DEF Next, process_message
<1> QED
  BY <1>1, <1>2, InitTypeInv, NextTypeInv, NextBlockInv, PTL DEF Spec, CommittedIsFinal

-----------------------------------------------------------------------------
(* View changes.                                                           *)

Requests(messages, target) ==
    /\ IsFiniteSet(messages)
    /\ \A vc \in messages : vc.new_view = target
    /\ \A u, w \in messages : u.from = w.from => u = w

ViewInv ==
    /\ \A n \in Node : view_change[n] # NoTracker =>
          /\ Requests(view_change[n].messages, view_change[n].target_view)
          /\ view_change[n].state = "WaitingNewView" =>
                Cardinality(view_change[n].messages) >= quorum
    /\ NewViewHasQuorum

\* Requests of distinct senders are as many as their senders.
LEMMA DistinctSenders ==
    ASSUME NEW messages, NEW target, Requests(messages, target)
    PROVE  Cardinality({vc.from : vc \in messages}) = Cardinality(messages)
<1> DEFINE T == {vc.from : vc \in messages}
           f == [vc \in messages |-> vc.from]
<1>1. f \in Bijection(messages, T)
  <2>1. f \in [messages -> T] /\ \A u, w \in messages : f[u] = f[w] => u = w
    BY Zenon DEF Requests
  <2>2. \A t \in T : \E vc \in messages : f[vc] = t
    BY Zenon
  <2> HIDE DEF f, T
  <2> QED BY Zenon, <2>1, <2>2, Fun_IsBij
<1>2. ExistsBijection(messages, T)
  BY <1>1, Zenon DEF ExistsBijection
<1> HIDE DEF T
<1>3. Cardinality(T) = Cardinality(messages)
  BY Zenon, <1>2, FS_Bijection DEF Requests
<1> QED BY Zenon, <1>3 DEF T

\* The requests behind a tracker stay valid as messages arrive.
LEMMA NextViewInv == TypeInv /\ ViewInv /\ [Next]_vars => ViewInv'
<1> SUFFICES ASSUME TypeInv, ViewInv, [Next]_vars PROVE ViewInv'
  BY Zenon
<1>0. TypeOK
  BY Zenon DEF TypeInv
<1>1. ASSUME UNCHANGED view_change, sent \subseteq sent',
             \A m \in sent' \ sent : m.type # "NewView"
      PROVE  ViewInv'
  BY Zenon, <1>1 DEF ViewInv, NewViewHasQuorum
<1>2. ASSUME NEW n \in Node, NEW t, view_change' = [view_change EXCEPT ![n] = t],
             t # NoTracker => Requests(t.messages, t.target_view),
             t # NoTracker /\ t.state = "WaitingNewView" => Cardinality(t.messages) >= quorum,
             NewViewHasQuorum'
      PROVE  ViewInv'
  BY Zenon, <1>0, <1>2 DEF ViewInv, TypeOK
<1>3. ASSUME NEW n \in Node, propose_block(n) PROVE ViewInv'
  <2>1. \E m : m.type = "Proposal" /\ sent' = sent \cup {m}
    BY Zenon, <1>3 DEF propose_block
  <2> QED BY Zenon, <1>1, <1>3, <2>1 DEF propose_block
<1>4. ASSUME NEW n \in Node, process_proposal(n) PROVE ViewInv'
  <2>1. sent' = sent \/ \E m : m.type = "Vote" /\ sent' = sent \cup {m}
    BY Zenon, <1>4 DEF process_proposal
  <2> QED BY Zenon, <1>1, <1>4, <2>1 DEF process_proposal
<1>5. ASSUME NEW n \in Node, process_vote(n) PROVE ViewInv'
  <2>1. sent' = sent \/ \E m : m.type = "Commit" /\ sent' = sent \cup {m}
    <3>1. PICK q : commit_block(n, q) \/ UNCHANGED sent
      BY Zenon, <1>5 DEF process_vote
    <3> QED BY Zenon, <3>1 DEF commit_block
  <2> QED BY Zenon, <1>1, <1>5, <2>1 DEF process_vote
<1>6. ASSUME NEW n \in Node, process_commit(n) \/ reject_message(n) PROVE ViewInv'
  BY Zenon, <1>1, <1>6 DEF process_commit, reject_message
<1>7. ASSUME NEW n \in Node, initiate_view_change(n) PROVE ViewInv'
  <2>1. PICK m : /\ m.type = "ViewChange"
                 /\ view_change' = [view_change EXCEPT ![n] =
                       [target_view |-> m.new_view, messages |-> {m}, state |-> "Collecting"]]
                 /\ sent' = sent \cup {m}
    BY Zenon, <1>7 DEF initiate_view_change
  <2>2. Requests({m}, m.new_view)
    BY Zenon, FS_Singleton DEF Requests
  <2>3. NewViewHasQuorum'
    BY Zenon, <2>1 DEF ViewInv, NewViewHasQuorum
  <2> DEFINE t == [target_view |-> m.new_view, messages |-> {m}, state |-> "Collecting"]
  <2>4. t.messages = {m} /\ t.target_view = m.new_view /\ t.state # "WaitingNewView"
    BY Zenon
  <2>5. view_change' = [view_change EXCEPT ![n] = t]
    BY Zenon, <2>1
  <2> HIDE DEF t
  <2> QED BY Zenon, <1>2, <2>2, <2>3, <2>4, <2>5
<1>8. ASSUME NEW n \in Node, process_view_change(n) PROVE ViewInv'
  <2>1. PICK m \in sent :
          /\ AcceptsViewChange(n, m)
          /\ view_change' = [view_change EXCEPT ![n] = add_message(Tracker(n, m), m)]
          /\ UNCHANGED sent
    BY Zenon, <1>8 DEF process_view_change
  <2>2. PICK t : t = Tracker(n, m)
    BY Zenon
  <2>3. /\ Requests(t.messages, t.target_view)
        /\ t.state = "WaitingNewView" => Cardinality(t.messages) >= quorum
    <3>1. CASE view_change[n] = NoTracker
      <4>1. t.messages = {} /\ t.state = "Collecting"
        BY Zenon, <2>2, <3>1 DEF Tracker, NewTracker
      <4> QED BY Zenon, <4>1, FS_EmptySet DEF Requests
    <3>2. CASE view_change[n] # NoTracker
      BY Zenon, <2>2, <3>2 DEF Tracker, ViewInv
    <3> QED BY Zenon, <3>1, <3>2
  <2>4. m.new_view = t.target_view /\ \A other \in t.messages : other.from # m.from
    BY Zenon, <2>1, <2>2 DEF AcceptsViewChange
  <2>5. Requests(t.messages \cup {m}, t.target_view)
    <3>1. IsFiniteSet(t.messages \cup {m})
      BY Zenon, <2>3, FS_AddElement DEF Requests
    <3> QED BY Zenon, <2>3, <2>4, <3>1 DEF Requests
  <2>6. /\ Cardinality(t.messages) \in Nat /\ Cardinality(t.messages \cup {m}) \in Nat
        /\ Cardinality(t.messages) <= Cardinality(t.messages \cup {m})
    <3>1. IsFiniteSet(t.messages)
      BY Zenon, <2>3 DEF Requests
    <3>2. Cardinality(t.messages) \in Nat
      BY Zenon, <3>1, FS_CardinalityType
    <3>3. \/ Cardinality(t.messages \cup {m}) = Cardinality(t.messages)
          \/ Cardinality(t.messages \cup {m}) = Cardinality(t.messages) + 1
      BY Zenon, <3>1, FS_AddElement
    <3> QED BY <3>2, <3>3
  <2>7. quorum \in Int
    BY ValidatorsAssumption DEF quorum, quorum_threshold
  <2> DEFINE u == add_message(t, m)
  <2>8. /\ u.messages = t.messages \cup {m} /\ u.target_view = t.target_view
        /\ u.state = "WaitingNewView" =>
              t.state = "WaitingNewView" \/ Cardinality(t.messages \cup {m}) >= quorum
    BY Zenon DEF add_message
  <2>9. view_change' = [view_change EXCEPT ![n] = u] /\ NewViewHasQuorum'
    BY Zenon, <2>1, <2>2 DEF ViewInv, NewViewHasQuorum
  <2> HIDE DEF u
  <2>10. u.state = "WaitingNewView" => Cardinality(u.messages) >= quorum
    BY <2>3, <2>6, <2>7, <2>8
  <2> QED BY Zenon, <1>2, <2>5, <2>8, <2>9, <2>10
<1>9. ASSUME NEW n \in Node, complete_view_change(n) PROVE ViewInv'
  <2>1. PICK m :
          /\ m.type = "NewView" /\ m.from = n /\ m.view = view_change[n].target_view
          /\ m.view_change_proofs = view_change[n].messages
          /\ sent' = sent \cup {m}
          /\ view_change' = [view_change EXCEPT ![n] = NoTracker]
    BY Zenon, <1>9 DEF complete_view_change, EnterView
  <2>2. /\ view_change[n] # NoTracker /\ view_change[n].state = "WaitingNewView"
        /\ n = get_leader(view_change[n].target_view)
    BY Zenon, <1>9 DEF complete_view_change, CanComplete
  <2>3. /\ Requests(m.view_change_proofs, m.view)
        /\ Cardinality(m.view_change_proofs) >= quorum
        /\ m.view_change_proofs \subseteq sent
    BY Zenon, <2>1, <2>2 DEF ViewInv, TypeInv, NeverPrepared
  <2>4. Cardinality({vc.from : vc \in m.view_change_proofs}) >= quorum
    BY Zenon, <2>3, DistinctSenders
  <2>5. NewViewHasQuorum'
    BY Zenon, <2>1, <2>2, <2>3, <2>4 DEF ViewInv, NewViewHasQuorum, Requests
  <2> QED BY Zenon, <1>2, <2>1, <2>5
<1>10. ASSUME NEW n \in Node, process_new_view(n) PROVE ViewInv'
  <2>1. view_change' = [view_change EXCEPT ![n] = NoTracker] /\ UNCHANGED sent
    BY Zenon, <1>10 DEF process_new_view, EnterView
  <2>2. NewViewHasQuorum'
    BY Zenon, <2>1 DEF ViewInv, NewViewHasQuorum
  <2> QED BY Zenon, <1>2, <2>1, <2>2
<1>11. ASSUME UNCHANGED vars PROVE ViewInv'
  BY Zenon, <1>1, <1>11 DEF vars
<1> QED
  BY Zenon, <1>3, <1>4, <1>5, <1>6, <1>7, <1>8, <1>9, <1>10, <1>11 DEF Next, process_message

\* A new view always has its leader and a quorum of distinct requests behind
\* it, each for that very view.
THEOREM NewViewsHaveQuorum == Spec => []NewViewHasQuorum
<1>1. Init => ViewInv
  BY Zenon DEF Init, ViewInv, NewViewHasQuorum
<1>2. ViewInv => NewViewHasQuorum
  BY Zenon DEF ViewInv
<1> QED BY <1>1, <1>2, InitTypeInv, NextTypeInv, NextViewInv, PTL DEF Spec
=============================================================================
