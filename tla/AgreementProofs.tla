--------------------------- MODULE AgreementProofs ---------------------------
(***************************************************************************)
(* Two ways in which nodes agree.  The BFT cluster, for every list of      *)
(* validators, quorum size, set of blocks, voters and nullifiers.  The     *)
(* regions of the state synchronizer, which agree under the default        *)
(* resolution strategy when they have nothing left to exchange, for any    *)
(* regions, decisions and digests.  And for every bound of the models.     *)
(***************************************************************************)
EXTENDS BFTCluster, StateSync, TLAPS, WellFoundedInduction, SequenceTheorems

-----------------------------------------------------------------------------
(* The BFT cluster.                                                        *)

Listed == [at : Nat, msg : ViewChange]

-----------------------------------------------------------------------------
(* Arithmetic and data.                                                    *)

\* A non-empty set of naturals has a least element.  It stands in for the
\* induction principle in the proofs below.
LEMMA LeastNat ==
    ASSUME NEW T \in SUBSET Nat, T # {}
    PROVE  \E x \in T : \A y \in T : x <= y
<1> DEFINE R == OpToRel(<, Nat)
<1>1. \E x \in T : \A y \in T : ~ (<<y, x>> \in R)
  <2>1. IsWellFoundedOn(R, Nat)
    BY Zenon, NatLessThanWellFounded
  <2> HIDE DEF R
  <2> QED BY Zenon, <2>1, WFMin
<1>2. \A x, y \in Nat : y < x => <<y, x>> \in R
  BY Zenon DEF OpToRel
<1> HIDE DEF R
<1>3. PICK x \in T : \A y \in T : ~ (<<y, x>> \in R)
  BY Zenon, <1>1
<1>4. \A y \in T : ~ (y < x)
  BY <1>2, <1>3, Zenon
<1>5. x \in Nat /\ \A y \in T : y \in Nat
  BY Zenon
<1>6. \A y \in T : x <= y
  BY <1>4, <1>5
<1> QED BY Zenon, <1>6

\* The rotation of get_leader_for_view always names a validator.
LEMMA LeaderIsNode == \A view \in Nat : get_leader_for_view(view) \in Node
<1>1. Len(Validators) \in Nat /\ Len(Validators) > 0
  BY ONLY ValidatorsAssumption
<1>2. \A view, n \in Nat : n > 0 => (view % n) + 1 \in 1..n
  BY ONLY SMT
<1> QED BY Zenon, <1>1, <1>2 DEF get_leader_for_view, Node

\* get_current_timeout is a multiple of the default, at most five minutes, and
\* grows with the number of consecutive view changes.
LEMMA BackoffMonotone ==
    /\ \A c \in Nat : get_current_timeout(c) \in 1..60
    /\ \A c, d \in Nat : c <= d => get_current_timeout(c) <= get_current_timeout(d)
<1>1. \A c \in Nat : get_current_timeout(c) =
        IF c = 0 THEN 1 ELSE IF c = 1 THEN 2 ELSE IF c = 2 THEN 4 ELSE
        IF c = 3 THEN 8 ELSE IF c = 4 THEN 16 ELSE IF c = 5 THEN 32 ELSE 60
  BY DEF get_current_timeout
<1> QED BY <1>1

\* p is the element that Iterator::max_by_key returns for the list U.
IsLastHighest(p, U) ==
    \A q \in U :
        \/ q.msg.last_prepared_round < p.msg.last_prepared_round
        \/ /\ q.msg.last_prepared_round = p.msg.last_prepared_round
           /\ q.at <= p.at

\* A list of messages at distinct positions has a last highest element, so
\* the choice complete_view_change makes is well defined.
LEMMA LastHighestExists ==
    ASSUME NEW S \in SUBSET Listed, S # {}, NEW k \in Nat,
           \A p \in S : p.at <= k,
           \A p, q \in S : p.at = q.at => p = q
    PROVE  LastHighest(S) \in S
<1> DEFINE Claim(m) == \A U \in SUBSET S :
               U # {} /\ (\A p \in U : p.at <= m) => \E p \in U : IsLastHighest(p, U)
           T == {m \in Nat : ~Claim(m)}
<1>1. T = {}
  <2>1. SUFFICES ASSUME T # {} PROVE FALSE
    BY Zenon
  <2>2. PICK m \in T : \A y \in T : m <= y
    <3>1. T \in SUBSET Nat
      BY Zenon
    <3> HIDE DEF T
    <3> QED BY Zenon, <2>1, <3>1, LeastNat
  <2>3. PICK U \in SUBSET S : /\ U # {}
                              /\ \A p \in U : p.at <= m
                              /\ ~ \E p \in U : IsLastHighest(p, U)
    BY Zenon
  <2>4. \A p \in U : p.at \in Nat /\ p.msg.last_prepared_round \in Nat
    BY Zenon DEF Listed, ViewChange
  <2>5. PICK x \in U : x.at = m
    <3>1. SUFFICES ASSUME \A p \in U : p.at # m PROVE FALSE
      BY Zenon
    <3>2. m # 0 /\ m - 1 \in Nat /\ \A p \in U : p.at <= m - 1
      BY <2>3, <2>4, <3>1
    <3>3. m - 1 \in T
      BY Zenon, <2>3, <3>2
    <3> QED BY <2>2, <3>2, <3>3
  <2> DEFINE V == U \ {x}
  <2>6. \A q \in V : q.at < m
    BY <2>3, <2>4, <2>5
  <2>7. CASE V = {}
    <3>1. \A q \in U : q = x
      BY Zenon, <2>7
    <3>2. IsLastHighest(x, U)
      BY <2>4, <3>1 DEF IsLastHighest
    <3> QED BY Zenon, <2>3, <3>2
  <2>8. CASE V # {}
    <3>1. m # 0 /\ m - 1 \in Nat /\ \A p \in V : p.at <= m - 1
      BY <2>4, <2>6, <2>8
    <3>2. m - 1 \notin T
      BY <2>2, <3>1
    <3>3. PICK y \in V : IsLastHighest(y, V)
      BY Zenon, <2>8, <3>1, <3>2
    <3>4. CASE x.msg.last_prepared_round >= y.msg.last_prepared_round
      <4>1. ASSUME NEW q \in V
            PROVE  \/ q.msg.last_prepared_round < x.msg.last_prepared_round
                   \/ /\ q.msg.last_prepared_round = x.msg.last_prepared_round
                      /\ q.at <= x.at
        <5>1. q.msg.last_prepared_round <= y.msg.last_prepared_round
          BY <2>4, <3>3 DEF IsLastHighest
        <5>2. q.at < x.at
          BY Zenon, <2>5, <2>6
        <5> QED BY <2>4, <3>4, <5>1, <5>2
      <4>2. x.at <= x.at
        BY <2>4
      <4>3. IsLastHighest(x, U)
        BY <4>1, <4>2, Zenon DEF IsLastHighest
      <4> QED BY Zenon, <2>3, <4>3
    <3>5. CASE x.msg.last_prepared_round < y.msg.last_prepared_round
      <4>1. IsLastHighest(y, U)
        BY Zenon, <2>4, <3>3, <3>5 DEF IsLastHighest
      <4> QED BY Zenon, <2>3, <4>1
    <3> QED BY <2>4, <3>3, <3>4, <3>5
  <2> QED BY Zenon, <2>7, <2>8
<1>2. \E p \in S : IsLastHighest(p, S)
  <2>1. Claim(k)
    BY Zenon, <1>1
  <2> QED BY Zenon, <2>1
<1> QED BY Zenon, <1>2 DEF LastHighest, IsLastHighest

-----------------------------------------------------------------------------
(* Each method maps a well-typed engine to a well-typed engine.            *)

\* The methods on the round keep its type.
LEMMA RoundMethodsType ==
    ASSUME NEW r \in RoundState
    PROVE  /\ \A round \in Nat : start_round(r, round) \in RoundState
           /\ \A b \in Blocks, judged \in BOOLEAN :
                propose(r, b, judged) \in RoundState
           /\ \A w \in Vote : /\ cast_vote(r, w) \in RoundState
                             /\ cast_vote_verified(r, w) \in RoundState
           /\ \A w \in AnonymousVote :
                cast_anonymous_vote_verified(r, w) \in RoundState
           /\ \A m \in NewView : enter_round(r, m) \in RoundState
<1>1. \A round \in Nat : start_round(r, round) \in RoundState
  BY Zenon DEF RoundState, start_round, BlockOrNone
<1>2. \A b \in Blocks, judged \in BOOLEAN : propose(r, b, judged) \in RoundState
  BY Zenon DEF RoundState, propose, BlockOrNone
<1>3. \A w \in Vote : StoreVote(r, w) \in RoundState
  BY Zenon DEF RoundState, StoreVote
<1>4. \A w \in Vote : /\ cast_vote(r, w) \in RoundState
                     /\ cast_vote_verified(r, w) \in RoundState
  BY Zenon, <1>3 DEF cast_vote, cast_vote_verified
<1>5. \A w \in AnonymousVote : cast_anonymous_vote_verified(r, w) \in RoundState
  BY Zenon DEF RoundState, cast_anonymous_vote_verified, AnonymousVote
<1>6. \A m \in NewView : enter_round(r, m) \in RoundState
  BY Zenon DEF RoundState, enter_round, NewView
<1> QED BY Zenon, <1>1, <1>2, <1>4, <1>5, <1>6

\* The methods on the view keep its type.
LEMMA ViewMethodsType ==
    ASSUME NEW v \in ViewState
    PROVE  /\ \A m \in ViewChange : /\ trigger_view_change(v, m) \in ViewState
                                   /\ process_view_change(v, m) \in ViewState
           /\ \A m \in NewView : apply_new_view(v, m) \in ViewState
           /\ \A round \in Nat, b \in Blocks : record_commit(v, round, b) \in ViewState
           /\ \A t \in Nat : update_activity(v, t) \in ViewState
           /\ apply_exponential_backoff(v) \in ViewState
           /\ \A n \in Node, t \in Nat : ViewChangeMessage(v, n, t) \in ViewChange
<1>0. \A m \in ViewChange : Append(v.messages, m) \in Seq(ViewChange)
  BY Zenon, AppendProperties DEF ViewState
<1>1. \A m \in ViewChange : trigger_view_change(v, m) \in ViewState
  BY Zenon, <1>0 DEF ViewState, Status, trigger_view_change
<1>2. \A m \in ViewChange : process_view_change(v, m) \in ViewState
  <2> SUFFICES ASSUME NEW m \in ViewChange, AcceptsViewChange(v, m)
               PROVE  process_view_change(v, m) \in ViewState
    BY Zenon DEF process_view_change
  <2>1. m.timestamp \in Nat
    BY Zenon DEF ViewChange
  <2> QED BY Zenon, <1>0, <2>1 DEF ViewState, Status, process_view_change
<1>3. \A m \in NewView : apply_new_view(v, m) \in ViewState
  <2> SUFFICES ASSUME NEW m \in NewView PROVE apply_new_view(v, m) \in ViewState
    BY Zenon
  <2> DEFINE status == IF TooManyViewChanges(v) THEN "Failed" ELSE "Completed"
  <2>1. m.view \in Nat /\ m.leader_id \in Node
    BY Zenon DEF NewView
  <2>2. status \in Status
    BY Zenon DEF Status
  <2>3. v.consecutive + 1 \in Nat /\ <<>> \in Seq(ViewChange)
    BY DEF ViewState
  <2>4. apply_new_view(v, m) =
          [v EXCEPT !.view = m.view, !.leader_id = m.leader_id, !.status = status,
                    !.messages = <<>>, !.consecutive = v.consecutive + 1]
    BY Zenon DEF apply_new_view
  <2> HIDE DEF status
  <2> QED BY Zenon, <2>1, <2>2, <2>3, <2>4 DEF ViewState
<1>4. \A round \in Nat, b \in Blocks : record_commit(v, round, b) \in ViewState
  <2>1. \A u \in ViewState : reset_timeout(u) \in ViewState
    <3>1. 1 \in 1..60
      OBVIOUS
    <3> QED BY Zenon, <3>1 DEF ViewState, reset_timeout
  <2>2. \A u \in ViewState : reset_view_change_counter(u) \in ViewState
    <3>1. "Normal" \in Status
      BY Zenon DEF Status
    <3> QED BY Zenon, <3>1 DEF ViewState, reset_view_change_counter
  <2>3. \A round \in Nat, b \in BlockOrNone :
          [v EXCEPT !.last_committed_round = round,
                    !.last_committed_block = b] \in ViewState
    BY Zenon DEF ViewState
  <2> QED BY Zenon, <2>1, <2>2, <2>3 DEF record_commit, BlockOrNone
<1>5. \A t \in Nat : update_activity(v, t) \in ViewState
  BY Zenon DEF ViewState, update_activity
<1>6. apply_exponential_backoff(v) \in ViewState
  <2>1. /\ v.consecutive + 1 \in Nat
        /\ get_current_timeout(v.consecutive + 1) \in 1..60
    <3>1. v.consecutive \in Nat
      BY Zenon DEF ViewState
    <3>2. v.consecutive + 1 \in Nat
      BY <3>1
    <3> QED BY Zenon, <3>2, BackoffMonotone
  <2> QED BY Zenon, <2>1 DEF ViewState, apply_exponential_backoff
<1>7. \A n \in Node, t \in Nat : ViewChangeMessage(v, n, t) \in ViewChange
  BY DEF ViewState, ViewChangeMessage, ViewChange
<1> QED BY Zenon, <1>1, <1>2, <1>3, <1>4, <1>5, <1>6, <1>7

\* complete_view_change builds a well-typed NEW_VIEW message.
LEMMA NewViewMessageType ==
    ASSUME NEW r \in RoundState, NEW v \in ViewState, NEW n \in Node
    PROVE  NewViewMessage(r, v, n) \in NewView
<1> DEFINE list == ForNextView(v)
           prepared == {p \in list : p.msg.last_prepared_round > 0}
<1>1. /\ v.messages \in Seq(ViewChange)
      /\ Len(v.messages) \in Nat
      /\ \A i \in 1..Len(v.messages) : v.messages[i] \in ViewChange
  BY DEF ViewState
<1>2. /\ list \in SUBSET Listed
      /\ \A p \in list : p.at <= Len(v.messages)
      /\ \A p, q \in list : p.at = q.at => p = q
  BY <1>1 DEF ForNextView, Listed
<1>3. TakeQuorum(list) \in SUBSET Listed
  BY Zenon, <1>2 DEF TakeQuorum
<1>4. prepared # {} => LastHighest(prepared) \in Listed
  <2> HIDE DEF list
  <2> SUFFICES ASSUME prepared # {} PROVE LastHighest(prepared) \in prepared
    BY Zenon, <1>2
  <2>1. /\ prepared \in SUBSET Listed
        /\ \A p \in prepared : p.at <= Len(v.messages)
        /\ \A p, q \in prepared : p.at = q.at => p = q
    BY Zenon, <1>2
  <2> HIDE DEF prepared
  <2> QED BY Zenon, <1>1, <2>1, LastHighestExists
<1>5. prepared # {} =>
        /\ LastHighest(prepared).msg.last_prepared_block \in BlockOrNone
        /\ LastHighest(prepared).msg.last_prepared_round \in Nat
  BY Zenon, <1>4 DEF Listed, ViewChange
<1>6. v.view + 1 \in Nat /\ r.round \in Nat /\ NoBlock \in BlockOrNone
  BY DEF ViewState, RoundState, BlockOrNone
<1> HIDE DEF list, prepared
<1>7. NewViewMessage(r, v, n) =
        [view |-> v.view + 1, leader_id |-> n,
         view_change_proofs |-> TakeQuorum(list),
         prepared_block |->
            IF prepared = {} THEN NoBlock
            ELSE LastHighest(prepared).msg.last_prepared_block,
         starting_round |->
            IF prepared = {} THEN r.round
            ELSE LastHighest(prepared).msg.last_prepared_round]
  BY Zenon DEF NewViewMessage, list, prepared
<1> QED BY <1>3, <1>5, <1>6, <1>7 DEF NewView, Listed

-----------------------------------------------------------------------------
(* Type correctness.                                                       *)

\* The initial engines are well typed.
LEMMA InitType == Init => TypeOK
<1> SUFFICES ASSUME Init PROVE TypeOK
  BY Zenon
<1>1. NewRoundState \in RoundState
  BY Zenon DEF NewRoundState, RoundState, BlockOrNone
<1>2. NewViewState \in ViewState
  <2>1. Validators[1] \in Node
    BY ValidatorsAssumption DEF Node
  <2>2. "Normal" \in Status /\ NoBlock \in BlockOrNone
    BY Zenon DEF Status, BlockOrNone
  <2> QED BY <2>1, <2>2 DEF NewViewState, ViewState
<1> QED BY Zenon, <1>1, <1>2 DEF Init, TypeOK

\* Every step of a host keeps the cluster well typed.
LEMMA NextType == TypeOK /\ [Next]_vars => TypeOK'
<1> SUFFICES ASSUME TypeOK, [Next]_vars PROVE TypeOK'
  BY Zenon
<1>1. CASE UNCHANGED vars
  BY Zenon, <1>1 DEF vars, TypeOK
<1>2. CASE Tick
  BY <1>2 DEF Tick, TypeOK
<1> SUFFICES ASSUME NEW n \in Node,
                    \/ StartRound(n) \/ Propose(n) \/ CastVote(n)
                    \/ CastVoteVerified(n) \/ CastAnonymousVoteVerified(n)
                    \/ UpdateActivity(n) \/ TriggerViewChange(n)
                    \/ CheckAndTriggerTimeout(n) \/ ProcessViewChange(n)
                    \/ CompleteViewChange(n) \/ ApplyNewView(n)
                    \/ RecordCommit(n)
             PROVE  TypeOK'
  BY Zenon, <1>1, <1>2 DEF Next
<1>3. rs[n] \in RoundState /\ vs[n] \in ViewState /\ now \in Nat
  BY Zenon DEF TypeOK
<1>4. rs[n].round \in Nat
  BY Zenon, <1>3 DEF RoundState
<1>5. \A r \in RoundState : UpdateRound(n, r) => TypeOK'
  BY Zenon DEF UpdateRound, TypeOK
<1>6. \A v \in ViewState : UpdateView(n, v) => TypeOK'
  BY Zenon DEF UpdateView, TypeOK
<1>7. IncomingVote \subseteq Vote /\ IncomingAnonymousVote \subseteq AnonymousVote
  BY DEF IncomingVote, Vote, IncomingAnonymousVote, AnonymousVote
<1>8. CASE StartRound(n)
  BY <1>3, <1>4, <1>5, <1>8, RoundMethodsType DEF StartRound
<1>9. CASE Propose(n)
  BY Zenon, <1>3, <1>5, <1>9, RoundMethodsType DEF Propose
<1>10. CASE CastVote(n)
  BY Zenon, <1>3, <1>5, <1>7, <1>10, RoundMethodsType DEF CastVote
<1>11. CASE CastVoteVerified(n)
  BY Zenon, <1>3, <1>5, <1>7, <1>11, RoundMethodsType DEF CastVoteVerified
<1>12. CASE CastAnonymousVoteVerified(n)
  BY Zenon, <1>3, <1>5, <1>7, <1>12, RoundMethodsType DEF CastAnonymousVoteVerified
<1>13. CASE UpdateActivity(n)
  BY Zenon, <1>3, <1>6, <1>13, ViewMethodsType DEF UpdateActivity
<1>14. CASE TriggerViewChange(n)
  <2>1. /\ ViewChangeMessage(vs[n], n, now) \in ViewChange
        /\ trigger_view_change(vs[n], ViewChangeMessage(vs[n], n, now)) \in ViewState
    BY Zenon, <1>3, ViewMethodsType
  <2> QED BY Zenon, <1>14, <2>1 DEF TriggerViewChange, TypeOK
<1>15. CASE CheckAndTriggerTimeout(n)
  <2> DEFINE msg == ViewChangeMessage(vs[n], n, now)
  <2>1. msg \in ViewChange
    BY Zenon, <1>3, ViewMethodsType
  <2>2. trigger_view_change(vs[n], msg) \in ViewState
    BY Zenon, <1>3, <2>1, ViewMethodsType
  <2>3. apply_exponential_backoff(trigger_view_change(vs[n], msg)) \in ViewState
    BY Zenon, <2>2, ViewMethodsType
  <2> QED BY Zenon, <1>15, <2>1, <2>3 DEF CheckAndTriggerTimeout, TypeOK
<1>16. CASE ProcessViewChange(n)
  BY Zenon, <1>3, <1>6, <1>16, ViewMethodsType DEF ProcessViewChange, TypeOK
<1>17. CASE CompleteViewChange(n)
  <2> DEFINE msg == NewViewMessage(rs[n], vs[n], n)
  <2>1. msg \in NewView
    BY Zenon, <1>3, NewViewMessageType
  <2>2. apply_new_view(vs[n], msg) \in ViewState /\ enter_round(rs[n], msg) \in RoundState
    BY Zenon, <1>3, <2>1, ViewMethodsType, RoundMethodsType
  <2> QED BY Zenon, <1>17, <2>1, <2>2 DEF CompleteViewChange, TypeOK
<1>18. CASE ApplyNewView(n)
  <2>1. PICK msg \in nvs :
          /\ vs' = [vs EXCEPT ![n] = apply_new_view(vs[n], msg)]
          /\ rs' = [rs EXCEPT ![n] = enter_round(rs[n], msg)]
          /\ UNCHANGED <<vcs, nvs, now>>
    BY Zenon, <1>18 DEF ApplyNewView
  <2>2. apply_new_view(vs[n], msg) \in ViewState /\ enter_round(rs[n], msg) \in RoundState
    BY Zenon, <1>3, ViewMethodsType, RoundMethodsType DEF TypeOK
  <2> QED BY Zenon, <2>1, <2>2 DEF TypeOK
<1>19. CASE RecordCommit(n)
  <2>1. rs[n].current_proposal \in Blocks
    BY Zenon, <1>3, <1>19 DEF RecordCommit, RoundState, BlockOrNone
  <2> QED BY Zenon, <1>3, <1>4, <1>6, <1>19, <2>1, ViewMethodsType DEF RecordCommit
<1> QED BY Zenon, <1>8, <1>9, <1>10, <1>11, <1>12, <1>13, <1>14, <1>15, <1>16, <1>17,
           <1>18, <1>19

\* Type correctness of the whole cluster: engines, messages and the clock.
THEOREM TypeCorrect == Spec => []TypeOK
  BY InitType, NextType, PTL DEF Spec

-----------------------------------------------------------------------------
(* Views, leaders and timeouts.                                            *)

\* What a step may do to the view, leader, counter and timeout of an engine:
\* nothing, back off, commit, or enter the view of an acceptable message.
SameView(v, w) == w.view = v.view /\ w.leader_id = v.leader_id

Keeps(v, w) == SameView(v, w) /\ w.consecutive = v.consecutive /\ w.timeout = v.timeout

BacksOff(v, w) ==
    /\ SameView(v, w)
    /\ w.consecutive = v.consecutive + 1
    /\ w.timeout = get_current_timeout(v.consecutive + 1)

Commits(v, w) == SameView(v, w) /\ w.consecutive = 0 /\ w.timeout = 1

Enters(v, w) ==
    /\ w.view > v.view
    /\ w.leader_id = get_leader_for_view(w.view)
    /\ w.consecutive = v.consecutive + 1
    /\ w.timeout = v.timeout

\* What a step may do to the broadcast NEW_VIEW messages: nothing, or add the
\* message with which the leader of the next view of its own engine enters it.
Announces(n, m) ==
    /\ m.view = vs[n].view + 1
    /\ m.leader_id = n
    /\ m.leader_id = get_leader_for_view(m.view)
    /\ vs'[n].view = m.view

\* Each method has exactly one of the effects above on the view state.
LEMMA MethodEffects ==
    ASSUME NEW v \in ViewState
    PROVE  /\ \A m : Keeps(v, trigger_view_change(v, m))
           /\ \A m : Keeps(v, process_view_change(v, m))
           /\ \A t : Keeps(v, update_activity(v, t))
           /\ \A m : BacksOff(v, apply_exponential_backoff(trigger_view_change(v, m)))
           /\ \A round, b : Commits(v, record_commit(v, round, b))
           /\ \A m : AcceptsNewView(v, m) => Enters(v, apply_new_view(v, m))
<1>1. \A m : Keeps(v, trigger_view_change(v, m))
  BY Zenon DEF Keeps, SameView, trigger_view_change, ViewState
<1>2. \A m : Keeps(v, process_view_change(v, m))
  BY Zenon DEF Keeps, SameView, process_view_change, ViewState
<1>3. \A t : Keeps(v, update_activity(v, t))
  BY Zenon DEF Keeps, SameView, update_activity, ViewState
<1>4. \A m : BacksOff(v, apply_exponential_backoff(trigger_view_change(v, m)))
  BY Zenon DEF BacksOff, SameView, apply_exponential_backoff, trigger_view_change, ViewState
<1>5. \A round, b : Commits(v, record_commit(v, round, b))
  BY Zenon DEF Commits, SameView, record_commit, reset_timeout,
         reset_view_change_counter, ViewState
<1>6. \A m : AcceptsNewView(v, m) => Enters(v, apply_new_view(v, m))
  BY Zenon DEF Enters, AcceptsNewView, apply_new_view, ViewState
<1> QED BY Zenon, <1>1, <1>2, <1>3, <1>4, <1>5, <1>6

\* Every step of the cluster has one of the effects above on every engine.
LEMMA StepEffects ==
    ASSUME TypeOK, [Next]_vars
    PROVE  /\ \A k \in Node : \/ Keeps(vs[k], vs'[k])
                             \/ BacksOff(vs[k], vs'[k])
                             \/ Commits(vs[k], vs'[k])
                             \/ Enters(vs[k], vs'[k])
           /\ \/ nvs' = nvs
              \/ \E n \in Node : \E m : nvs' = nvs \cup {m} /\ Announces(n, m)
<1> DEFINE Effect(v, w) == Keeps(v, w) \/ BacksOff(v, w) \/ Commits(v, w) \/ Enters(v, w)
           Goal == /\ \A k \in Node : Effect(vs[k], vs'[k])
                   /\ \/ nvs' = nvs
                      \/ \E n \in Node : \E m : nvs' = nvs \cup {m} /\ Announces(n, m)
<1> SUFFICES Goal
  BY Zenon
<1>1. \A v : Keeps(v, v)
  BY Zenon DEF Keeps, SameView
<1>2. ASSUME vs' = vs, nvs' = nvs PROVE Goal
  BY Zenon, <1>1, <1>2
<1>3. CASE UNCHANGED vars
  BY Zenon, <1>2, <1>3 DEF vars
<1>4. CASE Tick
  BY Zenon, <1>2, <1>4 DEF Tick
<1> HIDE DEF Goal
<1> SUFFICES ASSUME NEW n \in Node,
                    \/ StartRound(n) \/ Propose(n) \/ CastVote(n)
                    \/ CastVoteVerified(n) \/ CastAnonymousVoteVerified(n)
                    \/ UpdateActivity(n) \/ TriggerViewChange(n)
                    \/ CheckAndTriggerTimeout(n) \/ ProcessViewChange(n)
                    \/ CompleteViewChange(n) \/ ApplyNewView(n)
                    \/ RecordCommit(n)
             PROVE  Goal
  BY Zenon, <1>3, <1>4 DEF Next
<1> USE DEF Goal
<1>5. CASE StartRound(n) \/ Propose(n) \/ CastVote(n) \/ CastVoteVerified(n)
           \/ CastAnonymousVoteVerified(n)
  BY Zenon, <1>2, <1>5 DEF StartRound, Propose, CastVote, CastVoteVerified,
                    CastAnonymousVoteVerified, UpdateRound
<1>6. vs \in [Node -> ViewState] /\ vs[n] \in ViewState
  BY Zenon DEF TypeOK
<1>7. ASSUME NEW w, vs' = [vs EXCEPT ![n] = w], Effect(vs[n], w)
      PROVE  vs'[n] = w /\ \A k \in Node : Effect(vs[k], vs'[k])
  <2>1. vs'[n] = w /\ \A k \in Node \ {n} : vs'[k] = vs[k]
    BY Zenon, <1>6, <1>7
  <2> HIDE DEF Effect
  <2>2. \A k \in Node \ {n} : Effect(vs[k], vs[k])
    BY Zenon, <1>1 DEF Effect
  <2> QED BY Zenon, <1>7, <2>1, <2>2
<1> HIDE DEF Effect
<1>8. \A v, w : Keeps(v, w) \/ BacksOff(v, w) \/ Commits(v, w) \/ Enters(v, w)
                => Effect(v, w)
  BY Zenon DEF Effect
<1>9. CASE UpdateActivity(n)
  BY Zenon, <1>6, <1>7, <1>8, <1>9, MethodEffects DEF UpdateActivity, UpdateView
<1>10. CASE TriggerViewChange(n)
  BY Zenon, <1>6, <1>7, <1>8, <1>10, MethodEffects DEF TriggerViewChange
<1>11. CASE CheckAndTriggerTimeout(n)
  BY Zenon, <1>6, <1>7, <1>8, <1>11, MethodEffects DEF CheckAndTriggerTimeout
<1>12. CASE ProcessViewChange(n)
  BY Zenon, <1>6, <1>7, <1>8, <1>12, MethodEffects DEF ProcessViewChange, UpdateView
<1>13. CASE RecordCommit(n)
  BY Zenon, <1>6, <1>7, <1>8, <1>13, MethodEffects DEF RecordCommit, UpdateView
<1>14. CASE ApplyNewView(n)
  BY Zenon, <1>6, <1>7, <1>8, <1>14, MethodEffects DEF ApplyNewView
<1>15. CASE CompleteViewChange(n)
  <2> DEFINE msg == NewViewMessage(rs[n], vs[n], n)
  <2>1. msg.view = vs[n].view + 1 /\ msg.leader_id = n
    BY Zenon DEF NewViewMessage
  <2>2. /\ AcceptsNewView(vs[n], msg)
        /\ vs' = [vs EXCEPT ![n] = apply_new_view(vs[n], msg)]
        /\ nvs' = nvs \/ nvs' = nvs \cup {msg}
        /\ get_leader_for_view(vs[n].view + 1) = n
    BY Zenon, <1>15 DEF CompleteViewChange, CanComplete
  <2> HIDE DEF msg
  <2>3. Enters(vs[n], apply_new_view(vs[n], msg))
    BY Zenon, <1>6, <2>2, MethodEffects
  <2>4. apply_new_view(vs[n], msg).view = msg.view
    BY Zenon, <1>6 DEF apply_new_view, ViewState
  <2>5. /\ \A k \in Node : Effect(vs[k], vs'[k])
        /\ vs'[n].view = msg.view
    BY Zenon, <1>7, <1>8, <2>2, <2>3, <2>4
  <2>6. Announces(n, msg)
    BY Zenon, <2>1, <2>2, <2>5 DEF Announces
  <2> QED BY Zenon, <2>2, <2>5, <2>6
<1> QED BY Zenon, <1>5, <1>9, <1>10, <1>11, <1>12, <1>13, <1>14, <1>15

\* The inductive invariant.  OneNewViewPerView is not inductive by itself: a
\* second message for a view is excluded because the only validator that may
\* announce it has already left the view before it.
NewViewBehindLeader ==
    \A m \in nvs : vs[m.leader_id].view >= m.view

\* The timeout in use never exceeds the one the counter calls for; it may lag
\* behind, because apply_new_view raises the counter alone.
TimeoutWithinBackoff ==
    \A n \in Node : vs[n].timeout <= get_current_timeout(vs[n].consecutive)

ViewInv ==
    /\ TypeOK
    /\ LeaderMatchesView
    /\ NewViewBehindLeader
    /\ OneNewViewPerView
    /\ TimeoutWithinBackoff

\* The invariant holds initially.
LEMMA InitViewInv == Init => ViewInv
<1> SUFFICES ASSUME Init PROVE ViewInv
  BY Zenon
<1>1. TypeOK
  BY Zenon, InitType
<1>2. Len(Validators) \in Nat /\ 0 % Len(Validators) = 0
  <2>1. Len(Validators) \in Nat /\ Len(Validators) > 0
    BY ONLY ValidatorsAssumption
  <2>2. \A n \in Nat : n > 0 => 0 % n = 0
    BY ONLY SMT
  <2> QED BY Zenon, <2>1, <2>2
<1>3. LeaderMatchesView
  BY <1>2 DEF Init, LeaderMatchesView, NewViewState, get_leader_for_view
<1>4. NewViewBehindLeader /\ OneNewViewPerView
  BY Zenon DEF Init, NewViewBehindLeader, OneNewViewPerView
<1>5. TimeoutWithinBackoff
  BY DEF Init, TimeoutWithinBackoff, NewViewState, get_current_timeout
<1> QED BY Zenon, <1>1, <1>3, <1>4, <1>5 DEF ViewInv

\* Every step keeps the invariant.
LEMMA NextViewInv == ViewInv /\ [Next]_vars => ViewInv'
<1> SUFFICES ASSUME ViewInv, [Next]_vars PROVE ViewInv'
  BY Zenon
<1> USE DEF ViewInv
<1>1. TypeOK'
  BY Zenon, NextType
<1>2. \A k \in Node : \/ Keeps(vs[k], vs'[k]) \/ BacksOff(vs[k], vs'[k])
                      \/ Commits(vs[k], vs'[k]) \/ Enters(vs[k], vs'[k])
  BY Zenon, StepEffects
<1>3. \/ nvs' = nvs
      \/ \E n \in Node : \E m : nvs' = nvs \cup {m} /\ Announces(n, m)
  BY Zenon, StepEffects
<1>4. \A k \in Node : /\ vs[k].view \in Nat /\ vs'[k].view \in Nat
                      /\ vs[k].consecutive \in Nat /\ vs'[k].consecutive \in Nat
                      /\ vs[k].timeout \in Nat
  <2>1. \A k \in Node : vs[k] \in ViewState /\ vs'[k] \in ViewState
    BY Zenon, <1>1 DEF TypeOK
  <2>2. \A v \in ViewState : /\ v.view \in Nat /\ v.consecutive \in Nat
                             /\ v.timeout \in 1..60
    BY Zenon DEF ViewState
  <2> QED BY <2>1, <2>2
<1>5. \A k \in Node : vs'[k].view >= vs[k].view
  BY <1>2, <1>4 DEF Keeps, BacksOff, Commits, Enters, SameView
<1>6. \A m \in nvs : m.leader_id \in Node /\ m.view \in Nat
  BY Zenon DEF TypeOK, NewView
<1>7. LeaderMatchesView'
  <2>1. \A k \in Node : vs'[k].leader_id = get_leader_for_view(vs'[k].view)
    BY Zenon, <1>2 DEF LeaderMatchesView, Keeps, BacksOff, Commits, Enters, SameView
  <2>2. \A m \in nvs' : m.leader_id = get_leader_for_view(m.view)
    BY Zenon, <1>3 DEF LeaderMatchesView, Announces
  <2> QED BY Zenon, <2>1, <2>2 DEF LeaderMatchesView, get_leader_for_view
<1>8. NewViewBehindLeader'
  <2>1. \A m \in nvs : vs'[m.leader_id].view >= m.view
    BY <1>4, <1>5, <1>6 DEF NewViewBehindLeader
  <2>2. \A n \in Node : \A m : Announces(n, m) => vs'[m.leader_id].view >= m.view
    BY <1>4 DEF Announces
  <2> QED BY Zenon, <1>3, <2>1, <2>2 DEF NewViewBehindLeader
<1>9. OneNewViewPerView'
  <2>1. CASE nvs' = nvs
    BY Zenon, <2>1 DEF OneNewViewPerView
  <2>2. ASSUME NEW n \in Node, NEW m, nvs' = nvs \cup {m}, Announces(n, m)
        PROVE  OneNewViewPerView'
    <3>1. ASSUME NEW old \in nvs, old.view = m.view PROVE FALSE
      <4>1. old.leader_id = n
        BY Zenon, <2>2, <3>1 DEF LeaderMatchesView, Announces
      <4>2. vs[n].view >= m.view
        BY Zenon, <3>1, <4>1 DEF NewViewBehindLeader
      <4> QED BY <1>4, <2>2, <4>2 DEF Announces
    <3> QED BY Zenon, <2>2, <3>1 DEF OneNewViewPerView
  <2> QED BY Zenon, <1>3, <2>1, <2>2
<1>10. TimeoutWithinBackoff'
  <2> SUFFICES ASSUME NEW k \in Node
               PROVE  vs'[k].timeout <= get_current_timeout(vs'[k].consecutive)
    BY Zenon DEF TimeoutWithinBackoff, get_current_timeout
  <2>1. vs[k].timeout <= get_current_timeout(vs[k].consecutive)
    BY Zenon DEF TimeoutWithinBackoff
  <2>2. CASE Keeps(vs[k], vs'[k])
    BY Zenon, <2>1, <2>2 DEF Keeps
  <2>3. CASE BacksOff(vs[k], vs'[k])
    BY <1>4, <2>3, BackoffMonotone DEF BacksOff
  <2>4. CASE Commits(vs[k], vs'[k])
    BY <2>4, BackoffMonotone DEF Commits
  <2>5. CASE Enters(vs[k], vs'[k])
    <3>1. /\ get_current_timeout(vs[k].consecutive) \in 1..60
          /\ get_current_timeout(vs'[k].consecutive) \in 1..60
          /\ get_current_timeout(vs[k].consecutive)
                <= get_current_timeout(vs'[k].consecutive)
      BY <1>4, <2>5, BackoffMonotone DEF Enters
    <3> QED BY <1>4, <2>1, <2>5, <3>1 DEF Enters
  <2> QED BY Zenon, <1>2, <2>2, <2>3, <2>4, <2>5
<1> QED BY Zenon, <1>1, <1>7, <1>8, <1>9, <1>10

\* At most one NEW_VIEW message exists per view: complete_view_change starts a
\* view once, under any loss, duplication or reordering of messages.
THEOREM OneNewView == Spec => []OneNewViewPerView
<1>1. ViewInv => OneNewViewPerView
  BY Zenon DEF ViewInv
<1> QED BY <1>1, InitViewInv, NextViewInv, PTL DEF Spec

\* The cached leader_id, and the leader a NEW_VIEW message names, are always
\* those of get_leader_for_view.
THEOREM LeaderAgreement == Spec => []LeaderMatchesView
<1>1. ViewInv => LeaderMatchesView
  BY Zenon DEF ViewInv
<1> QED BY <1>1, InitViewInv, NextViewInv, PTL DEF Spec

\* No engine ever returns to an earlier view.
THEOREM ViewMonotone == Spec => ViewNeverRewinds
<1>1. ViewInv /\ [Next]_vars => [\A n \in Node : vs'[n].view >= vs[n].view]_vars
  <2> SUFFICES ASSUME ViewInv, [Next]_vars
               PROVE  \A n \in Node : vs'[n].view >= vs[n].view
    BY Zenon
  <2>1. TypeOK /\ TypeOK'
    BY Zenon, NextType DEF ViewInv
  <2>2. \A k \in Node : vs[k].view \in Nat /\ vs'[k].view \in Nat
    BY Zenon, <2>1 DEF TypeOK, ViewState
  <2>3. \A k \in Node : \/ Keeps(vs[k], vs'[k]) \/ BacksOff(vs[k], vs'[k])
                        \/ Commits(vs[k], vs'[k]) \/ Enters(vs[k], vs'[k])
    BY Zenon, <2>1, StepEffects
  <2> QED BY <2>2, <2>3 DEF Keeps, BacksOff, Commits, Enters, SameView
<1> QED BY <1>1, InitViewInv, NextViewInv, PTL DEF Spec, ViewNeverRewinds

\* The timeout shrinks only when a commit resets the counter.
THEOREM BackoffHolds == Spec => BackoffUntilCommit
<1>1. ViewInv /\ [Next]_vars =>
        [\A n \in Node :
            vs'[n].timeout < vs[n].timeout => vs'[n].consecutive = 0]_vars
  <2> SUFFICES ASSUME ViewInv, [Next]_vars, NEW n \in Node
               PROVE  vs'[n].timeout < vs[n].timeout => vs'[n].consecutive = 0
    BY Zenon
  <2>1. vs[n].timeout \in Nat /\ vs[n].consecutive \in Nat
    <3>1. vs[n] \in ViewState
      BY Zenon DEF ViewInv, TypeOK
    <3>2. vs[n].timeout \in 1..60 /\ vs[n].consecutive \in Nat
      BY Zenon, <3>1 DEF ViewState
    <3> QED BY <3>2
  <2>2. vs[n].timeout <= get_current_timeout(vs[n].consecutive)
    BY Zenon DEF ViewInv, TimeoutWithinBackoff
  <2>3. /\ get_current_timeout(vs[n].consecutive) \in 1..60
        /\ get_current_timeout(vs[n].consecutive + 1) \in 1..60
        /\ get_current_timeout(vs[n].consecutive)
              <= get_current_timeout(vs[n].consecutive + 1)
    BY <2>1, BackoffMonotone
  <2>4. \/ Keeps(vs[n], vs'[n]) \/ BacksOff(vs[n], vs'[n])
        \/ Commits(vs[n], vs'[n]) \/ Enters(vs[n], vs'[n])
    BY Zenon, StepEffects DEF ViewInv
  <2> QED BY <2>1, <2>2, <2>3, <2>4 DEF Keeps, BacksOff, Commits, Enters
<1> QED BY <1>1, InitViewInv, NextViewInv, PTL DEF Spec, BackoffUntilCommit

-----------------------------------------------------------------------------
(* The tally of a round.                                                   *)

\* The methods on the round keep its tally consistent.
LEMMA RoundMethodsTally ==
    ASSUME NEW r \in RoundState, TallyOf(r)
    PROVE  /\ \A round : TallyOf(start_round(r, round))
           /\ \A b, judged : TallyOf(propose(r, b, judged))
           /\ \A w \in Vote : TallyOf(cast_vote(r, w)) /\ TallyOf(cast_vote_verified(r, w))
           /\ \A w \in AnonymousVote : TallyOf(cast_anonymous_vote_verified(r, w))
           /\ \A m : TallyOf(enter_round(r, m))
<1>1. \A round : TallyOf(start_round(r, round))
  BY Zenon DEF TallyOf, start_round, RoundState
<1>2. \A b, judged : TallyOf(propose(r, b, judged))
  BY DEF TallyOf, propose, RoundState
<1>3. ASSUME NEW w \in Vote, MatchesRound(r, w) PROVE TallyOf(StoreVote(r, w))
  BY Zenon, <1>3 DEF TallyOf, StoreVote, MatchesRound, RoundState
<1>4. \A w \in Vote : TallyOf(cast_vote(r, w)) /\ TallyOf(cast_vote_verified(r, w))
  BY Zenon, <1>3 DEF cast_vote, cast_vote_verified
<1>5. \A w \in AnonymousVote : TallyOf(cast_anonymous_vote_verified(r, w))
  BY DEF TallyOf, cast_anonymous_vote_verified, MatchesRound, RoundState
<1>6. \A m : TallyOf(enter_round(r, m))
  BY Zenon DEF TallyOf, enter_round, RoundState
<1> QED BY Zenon, <1>1, <1>2, <1>4, <1>5, <1>6

\* Votes are counted once, for the round they were cast in, in every engine.
THEOREM TallyHolds == Spec => []TallyOfThisRound
<1>1. Init => TallyOfThisRound
  BY DEF Init, TallyOfThisRound, TallyOf, NewRoundState
<1>2. TypeOK /\ TallyOfThisRound /\ [Next]_vars => TallyOfThisRound'
  <2> SUFFICES ASSUME TypeOK, TallyOfThisRound, [Next]_vars PROVE TallyOfThisRound'
    BY Zenon
  <2>1. ASSUME rs' = rs PROVE TallyOfThisRound'
    BY Zenon, <2>1 DEF TallyOfThisRound
  <2>2. CASE UNCHANGED vars
    BY Zenon, <2>1, <2>2 DEF vars
  <2>3. CASE Tick
    BY Zenon, <2>1, <2>3 DEF Tick
  <2> SUFFICES ASSUME NEW n \in Node,
                      \/ StartRound(n) \/ Propose(n) \/ CastVote(n)
                      \/ CastVoteVerified(n) \/ CastAnonymousVoteVerified(n)
                      \/ UpdateActivity(n) \/ TriggerViewChange(n)
                      \/ CheckAndTriggerTimeout(n) \/ ProcessViewChange(n)
                      \/ CompleteViewChange(n) \/ ApplyNewView(n)
                      \/ RecordCommit(n)
               PROVE  TallyOfThisRound'
    BY Zenon, <2>2, <2>3 DEF Next
  <2>4. CASE UpdateActivity(n) \/ TriggerViewChange(n) \/ CheckAndTriggerTimeout(n)
             \/ ProcessViewChange(n) \/ RecordCommit(n)
    BY Zenon, <2>1, <2>4 DEF UpdateActivity, TriggerViewChange, CheckAndTriggerTimeout,
                      ProcessViewChange, RecordCommit, UpdateView
  <2>5. rs \in [Node -> RoundState] /\ rs[n] \in RoundState /\ TallyOf(rs[n])
    BY Zenon DEF TypeOK, TallyOfThisRound
  <2>6. ASSUME NEW r, rs' = [rs EXCEPT ![n] = r], TallyOf(r) PROVE TallyOfThisRound'
    <3>1. \A k \in Node : rs'[k] = IF k = n THEN r ELSE rs[k]
      BY Zenon, <2>5, <2>6
    <3>2. \A k \in Node : TallyOf(rs'[k])
      BY Zenon, <2>6, <3>1 DEF TallyOfThisRound
    <3> QED BY Zenon, <3>2 DEF TallyOfThisRound, TallyOf
  <2>7. CASE StartRound(n) \/ Propose(n)
    BY Zenon, <2>5, <2>6, <2>7, RoundMethodsTally DEF StartRound, Propose, UpdateRound
  <2>8. CASE CastVote(n) \/ CastVoteVerified(n) \/ CastAnonymousVoteVerified(n)
    <3>1. IncomingVote \subseteq Vote /\ IncomingAnonymousVote \subseteq AnonymousVote
      BY DEF IncomingVote, Vote, IncomingAnonymousVote, AnonymousVote
    <3> QED BY Zenon, <2>5, <2>6, <2>8, <3>1, RoundMethodsTally
            DEF CastVote, CastVoteVerified, CastAnonymousVoteVerified, UpdateRound
  <2>9. CASE CompleteViewChange(n) \/ ApplyNewView(n)
    BY Zenon, <2>5, <2>6, <2>9, RoundMethodsTally DEF CompleteViewChange, ApplyNewView
  <2> QED BY Zenon, <2>4, <2>7, <2>8, <2>9
<1> QED BY <1>1, <1>2, TypeCorrect, PTL DEF Spec

-----------------------------------------------------------------------------
(* The synchronizer of regions.                                            *)
(*                                                                         *)
(* Agreement could only fail for two concurrent versions that neither      *)
(* timestamp nor region tells apart.  That they do not exist is the        *)
(* invariant OneLine: the versions of one region form a single line in the *)
(* order of their vector clocks, because the region's clock dominates all  *)
(* of them when it makes the next (Dominated).                             *)

(* A bounded set of numbers has a maximum, and Max is it.                  *)
LEMMA MaxOfBounded ==
  ASSUME NEW S \in SUBSET Nat, S # {}, NEW b \in Nat, \A n \in S : n <= b
  PROVE  Max(S) \in S /\ \A n \in S : n <= Max(S)
<1> DEFINE R == OpToRel(<, Nat)
           T == {n \in Nat : \E m \in S : n = b - m}
<1>1. \E x \in T : \A y \in T : ~(<<y, x>> \in R)
  <2>1. IsWellFoundedOn(R, Nat)
    BY Zenon, NatLessThanWellFounded
  <2>2. T \subseteq Nat /\ T # {}
    <3>1. PICK m \in S : TRUE
      BY Zenon
    <3>2. b - m \in T
      BY <3>1
    <3> QED BY Zenon, <3>2
  <2> HIDE DEF R, T
  <2> QED BY Zenon, <2>1, <2>2, WFMin
<1>2. \A x, y \in Nat : y < x => <<y, x>> \in R
  BY Zenon DEF OpToRel
<1> HIDE DEF R
<1>3. PICK x \in T : \A y \in T : ~(<<y, x>> \in R)
  BY Zenon, <1>1
<1>4. PICK m \in S : x = b - m
  BY Zenon
<1>5. \A n \in S : m >= n
  <2> SUFFICES ASSUME NEW n \in S, n > m PROVE FALSE
    OBVIOUS
  <2>1. b - n \in T /\ b - n < b - m
    OBVIOUS
  <2> QED BY Zenon, <1>2, <1>3, <1>4, <2>1
<1> QED BY Zenon, <1>5 DEF Max

(* A region's clock dominates the versions it has made.                    *)
Dominated ==
  \A v \in written : \A q \in Region : v.vector_clock[q] <= clock[v.region][q]

(* The versions of one region are ordered by their vector clocks.          *)
OneLine ==
  \A v, w \in written : v.region = w.region => v = w \/ Newer(v, w) \/ Newer(w, v)

(* No clock is ahead of a region on that region's own count.               *)
OwnCountIsHighest == \A r, q \in Region : clock[r][q] <= clock[q][q]

(* What a region holds was made somewhere, under the same identifier.      *)
HeldIsWritten ==
  \A r \in Region, id \in Id :
    decisions[r][id] # NoVersion => decisions[r][id] \in written /\ decisions[r][id].id = id

SyncInv == SyncTypeOK /\ Dominated /\ OneLine /\ OwnCountIsHighest /\ HeldIsWritten

LEMMA SyncStarts == SyncInit => SyncInv
BY RegionAssumption DEF SyncInit, SyncInv, SyncTypeOK, Dominated, OneLine, OwnCountIsHighest,
   HeldIsWritten, VectorClock

(* A decision made at a region.                                            *)
LEMMA AddInv ==
  ASSUME SyncInv, NEW r \in Region, NEW id \in Id, NEW h \in Hash, NEW t \in Nat,
         add_local_decision(r, id, h, t)
  PROVE  SyncInv'
<1> DEFINE ticked == increment(clock[r], r)
           v == [id |-> id, region |-> r, timestamp |-> t, vector_clock |-> ticked,
                 decision_hash |-> h]
<1>1. /\ ticked \in VectorClock
      /\ \A q \in Region : clock[r][q] <= ticked[q]
      /\ clock[r][r] < ticked[r]
      /\ \A q \in Region \ {r} : ticked[q] = clock[r][q]
  BY DEF SyncInv, SyncTypeOK, VectorClock, increment
<1>2. /\ clock' = [clock EXCEPT ![r] = ticked]
      /\ decisions' = [decisions EXCEPT ![r][id] = v]
      /\ written' = written \cup {v}
      /\ last_read' = [last_read EXCEPT ![r] = t]
      /\ UNCHANGED <<conflicts, late>>
  BY Zenon DEF add_local_decision
<1>3. v \in Version
  BY Zenon, <1>1 DEF Version
<1> HIDE DEF ticked
<1>4. SyncTypeOK'
  BY Zenon, <1>1, <1>2, <1>3 DEF SyncInv, SyncTypeOK
<1>5. Dominated'
  BY <1>1, <1>2 DEF SyncInv, SyncTypeOK, Dominated, Version, VectorClock
<1>6. OneLine'
  <2>1. \A w \in written : w.region = r => Newer(w, v)
    BY <1>1 DEF SyncInv, SyncTypeOK, Dominated, Version, VectorClock, Newer, happens_before
  <2> QED BY <1>2, <2>1 DEF SyncInv, OneLine
<1>7. OwnCountIsHighest'
  BY <1>1, <1>2 DEF SyncInv, SyncTypeOK, OwnCountIsHighest, VectorClock
<1>8. HeldIsWritten'
  BY <1>2, NoVersionAssumption DEF SyncInv, SyncTypeOK, HeldIsWritten
<1> QED BY Zenon, <1>4, <1>5, <1>6, <1>7, <1>8 DEF SyncInv

(* A batch that arrives.                                                   *)
LEMMA ReceiveInv ==
  ASSUME SyncInv, NEW r \in Region, NEW batch \in SUBSET written,
         receive_sync_batch(r, batch)
  PROVE  SyncInv'
<1> DEFINE followed == {v \in batch : Follows(decisions[r][v.id], v)}
           accepted == {v \in batch : Accepts(decisions[r][v.id], v)}
           known(q) == {clock[r][q]} \cup {v.vector_clock[q] : v \in followed}
           merged == [q \in Region |-> Max(known(q))]
           chosen == [id \in Id |-> IF \E v \in accepted : v.id = id
                                    THEN CHOOSE v \in accepted : v.id = id
                                    ELSE decisions[r][id]]
<1>1. /\ clock' = [clock EXCEPT ![r] = merged]
      /\ decisions' = [decisions EXCEPT ![r] = chosen]
      /\ \E more \in SUBSET Id : conflicts' = [conflicts EXCEPT ![r] = @ \cup more]
      /\ UNCHANGED <<written, late, last_read>>
  <2>1. {v.id : v \in {w \in batch : Concurrent(decisions[r][w.id], w)}} \in SUBSET Id
    BY DEF SyncInv, SyncTypeOK, Version
  <2>2. clock[r] \in [Region -> Nat] /\ decisions[r] \in [Id -> Version \cup {NoVersion}]
    BY Zenon DEF SyncInv, SyncTypeOK, VectorClock
  <2> QED BY Zenon, <2>1, <2>2 DEF receive_sync_batch, SyncInv, SyncTypeOK
<1>2. ASSUME NEW q \in Region
      PROVE  /\ Max(known(q)) \in known(q)
             /\ \A n \in known(q) : n <= Max(known(q))
             /\ known(q) \in SUBSET Nat
             /\ \A n \in known(q) : n <= clock[q][q]
  <2>1. known(q) \in SUBSET Nat /\ known(q) # {} /\ clock[q][q] \in Nat
    <3>1. \A v \in followed : v.vector_clock[q] \in Nat
      BY DEF SyncInv, SyncTypeOK, Version, VectorClock
    <3>2. clock[r][q] \in Nat /\ clock[q][q] \in Nat
      BY Zenon DEF SyncInv, SyncTypeOK, VectorClock
    <3> QED BY Zenon, <3>1, <3>2
  <2>2. \A n \in known(q) : n <= clock[q][q]
    BY DEF SyncInv, SyncTypeOK, Version, VectorClock, Dominated, OwnCountIsHighest
  <2> HIDE DEF known
  <2> QED BY Zenon, <2>1, <2>2, MaxOfBounded
<1>3. /\ merged \in VectorClock
      /\ \A q \in Region : clock[r][q] <= merged[q] /\ merged[q] <= clock[q][q]
  <2>1. \A q \in Region : clock[r][q] \in known(q)
    BY Zenon
  <2> HIDE DEF known
  <2> QED BY Zenon, <1>2, <2>1 DEF VectorClock
<1>4. /\ chosen \in [Id -> Version \cup {NoVersion}]
      /\ \A id \in Id : chosen[id] # NoVersion => chosen[id] \in written /\ chosen[id].id = id
  <2>1. \A id \in Id : (\E v \in accepted : v.id = id)
          => \E v \in accepted : chosen[id] = v /\ v.id = id
    BY Zenon
  <2>2. accepted \subseteq written /\ written \subseteq Version
    BY Zenon DEF SyncInv, SyncTypeOK
  <2>3. \A id \in Id : ~(\E v \in accepted : v.id = id) => chosen[id] = decisions[r][id]
    BY Zenon
  <2> HIDE DEF accepted
  <2> QED BY <2>1, <2>2, <2>3 DEF SyncInv, SyncTypeOK, HeldIsWritten
<1> HIDE DEF merged, chosen
<1>5. SyncTypeOK'
  BY Zenon, <1>1, <1>3, <1>4 DEF SyncInv, SyncTypeOK
<1>10. \A p, q \in Region :
         /\ clock[p][q] \in Nat /\ clock'[p][q] \in Nat
         /\ clock[p][q] <= clock'[p][q]
         /\ clock'[p][q] <= clock[p][q] \/ clock'[p][q] <= clock[q][q]
  <2>1. clock \in [Region -> [Region -> Nat]] /\ merged \in [Region -> Nat]
    BY Zenon, <1>3 DEF SyncInv, SyncTypeOK, VectorClock
  <2>2. \A q \in Region : clock'[r][q] = merged[q]
    BY Zenon, <1>1, <2>1
  <2>3. \A p \in Region \ {r} : clock'[p] = clock[p]
    BY Zenon, <1>1, <2>1
  <2>4. \A q \in Region : clock[r][q] \in Nat /\ merged[q] \in Nat
    BY Zenon, <2>1
  <2>5. \A p, q \in Region : clock[p][q] \in Nat
    BY Zenon, <2>1
  <2> SUFFICES ASSUME NEW p \in Region, NEW q \in Region
               PROVE  /\ clock'[p][q] \in Nat
                      /\ clock[p][q] <= clock'[p][q]
                      /\ clock'[p][q] <= clock[p][q] \/ clock'[p][q] <= clock[q][q]
    BY Zenon, <2>5
  <2>6. CASE p = r
    BY Zenon, <1>3, <2>2, <2>4, <2>6
  <2>7. CASE p # r
    BY <2>3, <2>5, <2>7
  <2> QED BY Zenon, <2>6, <2>7
<1>6. Dominated'
  <2>1. \A v \in written : v.region \in Region /\ v.vector_clock \in [Region -> Nat]
    BY Zenon DEF SyncInv, SyncTypeOK, Version, VectorClock
  <2>2. written' = written
    BY Zenon, <1>1
  <2> SUFFICES ASSUME NEW v \in written, NEW q \in Region
               PROVE  v.vector_clock[q] <= clock'[v.region][q]
    BY Zenon, <2>2 DEF Dominated
  <2>3. v.vector_clock[q] \in Nat /\ v.vector_clock[q] <= clock[v.region][q]
    BY Zenon, <2>1 DEF SyncInv, Dominated
  <2> QED BY <1>10, <2>1, <2>3
<1>7. OneLine'
  BY Zenon, <1>1 DEF SyncInv, OneLine
<1>8. OwnCountIsHighest'
  <2> SUFFICES ASSUME NEW p \in Region, NEW q \in Region
               PROVE  clock'[p][q] <= clock'[q][q]
    BY Zenon DEF OwnCountIsHighest
  <2>1. clock[p][q] <= clock[q][q]
    BY Zenon DEF SyncInv, OwnCountIsHighest
  <2> QED BY <1>10, <2>1
<1>9. HeldIsWritten'
  BY Zenon, <1>1, <1>4 DEF SyncInv, SyncTypeOK, HeldIsWritten
<1> QED BY Zenon, <1>5, <1>6, <1>7, <1>8, <1>9 DEF SyncInv

LEMMA SyncStep == SyncInv /\ [SyncNext]_sync_vars => SyncInv'
<1> SUFFICES ASSUME SyncInv, [SyncNext]_sync_vars PROVE SyncInv'
  BY Zenon
<1>1. ASSUME NEW r \in Region, NEW id \in Id, NEW h \in Hash, NEW t \in last_read[r] .. MaxRead,
             add_local_decision(r, id, h, t)
      PROVE  SyncInv'
  <2>1. t \in Nat
    BY DEF SyncInv, SyncTypeOK
  <2> QED BY Zenon, <1>1, <2>1, AddInv
<1>2. ASSUME NEW r \in Region, NEW v \in written, ReceiveOne(r, v) PROVE SyncInv'
  BY Zenon, <1>2, ReceiveInv DEF ReceiveOne
<1>3. ASSUME NEW r \in Region, NEW s \in Region \ {r}, ReceiveAll(r, s) PROVE SyncInv'
  <2>1. Held(s) \in SUBSET written
    BY Zenon DEF Held, SyncInv, HeldIsWritten
  <2> QED BY Zenon, <1>3, <2>1, ReceiveInv DEF ReceiveAll
<1>4. ASSUME NoneLate \/ UNCHANGED sync_vars PROVE SyncInv'
  BY Zenon, <1>4 DEF NoneLate, sync_vars, SyncInv, SyncTypeOK, Dominated, OneLine, OwnCountIsHighest,
     HeldIsWritten
<1> QED BY Zenon, <1>1, <1>2, <1>3, <1>4 DEF SyncNext

(* Under the default strategy, of two different versions of a decision one *)
(* is accepted where the other is held.                                    *)
LEMMA OneGivesWay ==
  ASSUME SyncInv, Strategy = "lww", NEW v \in written, NEW w \in written,
         ~Same(v, w)
  PROVE  Accepts(v, w) \/ Accepts(w, v)
<1>1. v \in Version /\ w \in Version /\ v # NoVersion /\ w # NoVersion
  BY Zenon, NoVersionAssumption DEF SyncInv, SyncTypeOK
<1>2. CASE Newer(v, w)
  <2>1. ~Newer(w, v)
    BY <1>1, <1>2 DEF Newer, happens_before, Version, VectorClock
  <2> QED BY Zenon, <1>2, <2>1 DEF Accepts, Follows
<1>3. CASE Newer(w, v)
  <2>1. ~Newer(v, w)
    BY <1>1, <1>3 DEF Newer, happens_before, Version, VectorClock
  <2>2. ~Same(w, v)
    BY Zenon DEF Same
  <2> QED BY Zenon, <1>3, <2>1, <2>2 DEF Accepts, Follows
<1>4. CASE ~Newer(v, w) /\ ~Newer(w, v)
  <2>1. v.region # w.region
    BY Zenon, <1>4 DEF SyncInv, OneLine, Same
  <2>2. WinsConflict(v, w) \/ WinsConflict(w, v)
    <3>1. /\ v.region \in Nat /\ w.region \in Nat
          /\ v.timestamp \in Nat /\ w.timestamp \in Nat
      BY Zenon, <1>1, RegionAssumption DEF Version
    <3> QED BY <2>1, <3>1 DEF WinsConflict
  <2>3. Concurrent(v, w) /\ Concurrent(w, v)
    BY Zenon, <1>1, <1>4 DEF Concurrent, Unknown, Same
  <2> QED BY Zenon, <2>2, <2>3 DEF Accepts
<1> QED BY Zenon, <1>2, <1>3, <1>4

LEMMA InvSettled ==
  ASSUME SyncInv, Strategy = "lww"
  PROVE  SettledAgree
<1> SUFFICES ASSUME NEW r \in Region, NEW s \in Region, Settled(r, s), NEW id \in Id
             PROVE  HashAt(r, id) = HashAt(s, id)
  BY Zenon DEF SettledAgree, Agree
<1> DEFINE v == decisions[r][id]
           w == decisions[s][id]
<1>1. CASE v = NoVersion /\ w = NoVersion
  BY Zenon, <1>1 DEF HashAt
<1>2. CASE v # NoVersion /\ w # NoVersion
  <2>1. v \in written /\ w \in written
    BY Zenon, <1>2 DEF SyncInv, HeldIsWritten
  <2>2. Same(v, w)
    BY Zenon, <1>2, <2>1, OneGivesWay DEF Settled
  <2> QED BY Zenon, <1>2, <2>2 DEF HashAt, Same
<1>3. CASE v = NoVersion /\ w # NoVersion
  BY Zenon, <1>3 DEF Settled, Accepts, Follows, Unknown
<1>4. CASE v # NoVersion /\ w = NoVersion
  BY Zenon, <1>4 DEF Settled, Accepts, Follows, Unknown
<1> QED BY Zenon, <1>1, <1>2, <1>3, <1>4

(* The synchronizer's state stays well-formed, whatever arrives when.      *)
THEOREM SyncTypes == SyncSpec => []SyncTypeOK
<1>1. SyncSpec => []SyncInv
  BY SyncStarts, SyncStep, PTL DEF SyncSpec
<1>2. SyncInv => SyncTypeOK
  BY Zenon DEF SyncInv
<1> QED BY <1>1, <1>2, PTL

(* With the default strategy, two regions between which no exchange would  *)
(* change anything hold the same decisions.                                *)
THEOREM RegionsAgree ==
  ASSUME Strategy = "lww"
  PROVE  SyncSpec => []SettledAgree
<1>1. SyncSpec => []SyncInv
  BY SyncStarts, SyncStep, PTL DEF SyncSpec
<1>2. SyncInv => SettledAgree
  BY Zenon, InvSettled
<1> QED BY <1>1, <1>2, PTL

(* What a region may hold after a step in the place of a version it held.  *)
Replaces(old, new) == old \notin {NoVersion, new} => new # NoVersion /\ ~Newer(new, old)

(* The version a region makes counts one more of its own decisions than    *)
(* any version that exists, so none of them follows it.                    *)
LEMMA AddForward ==
  ASSUME SyncInv, NEW r \in Region, NEW id \in Id, NEW h \in Hash, NEW t \in Nat,
         add_local_decision(r, id, h, t), NEW q \in Region, NEW i \in Id
  PROVE  Replaces(decisions[q][i], decisions'[q][i])
<1> DEFINE v == [id |-> id, region |-> r, timestamp |-> t,
                 vector_clock |-> increment(clock[r], r), decision_hash |-> h]
<1>1. decisions' = [decisions EXCEPT ![r][id] = v]
  BY Zenon DEF add_local_decision
<1>2. /\ decisions \in [Region -> [Id -> Version \cup {NoVersion}]]
      /\ clock \in [Region -> [Region -> Nat]]
  BY Zenon DEF SyncInv, SyncTypeOK, VectorClock
<1>3. CASE q = r /\ i = id
  <2>1. decisions'[q][i] = v
    BY ONLY Zenon, <1>1, <1>2, <1>3, q \in Region, i \in Id
  <2>2. increment(clock[r], r) \in VectorClock /\ v.vector_clock[r] = clock[r][r] + 1
    BY ONLY <1>2, r \in Region DEF increment, VectorClock
  <2>3. v # NoVersion
    <3>1. v \in Version
      BY Zenon, <2>2 DEF Version
    <3> HIDE DEF v
    <3> QED BY Zenon, <3>1, NoVersionAssumption
  <2>4. ASSUME NEW w \in written PROVE ~Newer(v, w)
    <3>1. /\ w.vector_clock[r] <= clock[w.region][r] /\ clock[w.region][r] <= clock[r][r]
          /\ w.region \in Region /\ w.vector_clock \in [Region -> Nat]
      BY Zenon DEF SyncInv, SyncTypeOK, Dominated, OwnCountIsHighest, Version, VectorClock
    <3>2. ~(v.vector_clock[r] <= w.vector_clock[r])
      BY ONLY <1>2, <2>2, <3>1, r \in Region
    <3> HIDE DEF v
    <3> QED BY Zenon, <3>2 DEF Newer, happens_before
  <2>5. decisions[q][i] # NoVersion => decisions[q][i] \in written
    BY Zenon DEF SyncInv, HeldIsWritten
  <2> HIDE DEF v
  <2> QED BY ONLY Zenon, <2>1, <2>3, <2>4, <2>5 DEF Replaces
<1>4. CASE ~(q = r /\ i = id)
  <2>1. decisions'[q][i] = decisions[q][i]
    BY ONLY Zenon, <1>1, <1>2, <1>4, q \in Region, i \in Id
  <2> QED BY ONLY Zenon, <2>1 DEF Replaces
<1> QED BY ONLY Zenon, <1>3, <1>4

(* A version that arrives takes a place only if it follows the one there   *)
(* or is concurrent with it.                                               *)
LEMMA ReceiveForward ==
  ASSUME SyncInv, NEW r \in Region, NEW batch \in SUBSET written,
         receive_sync_batch(r, batch), NEW q \in Region, NEW i \in Id
  PROVE  Replaces(decisions[q][i], decisions'[q][i])
<1> DEFINE accepted == {v \in batch : Accepts(decisions[r][v.id], v)}
           chosen == [id \in Id |-> IF \E v \in accepted : v.id = id
                                    THEN CHOOSE v \in accepted : v.id = id
                                    ELSE decisions[r][id]]
<1>1. decisions' = [decisions EXCEPT ![r] = chosen]
  <2>1. decisions[r] \in [Id -> Version \cup {NoVersion}]
    BY Zenon DEF SyncInv, SyncTypeOK
  <2> QED BY Zenon, <2>1 DEF receive_sync_batch, SyncInv, SyncTypeOK
<1>2. chosen[i] = decisions[r][i] \/ \E v \in accepted : chosen[i] = v /\ v.id = i
  BY Zenon
<1>3. ASSUME NEW v \in accepted, v.id = i PROVE Replaces(decisions[r][i], v)
  <2>1. v \in Version /\ v # NoVersion /\ Accepts(decisions[r][i], v)
    BY Zenon, <1>3, NoVersionAssumption DEF SyncInv, SyncTypeOK
  <2>2. decisions[r][i] # NoVersion => decisions[r][i] \in Version
    <3>1. decisions \in [Region -> [Id -> Version \cup {NoVersion}]]
      BY Zenon DEF SyncInv, SyncTypeOK
    <3> QED BY ONLY Zenon, <3>1, r \in Region, i \in Id
  <2>3. ASSUME decisions[r][i] # NoVersion, Newer(decisions[r][i], v)
        PROVE  ~Newer(v, decisions[r][i])
    BY ONLY <2>1, <2>2, <2>3 DEF Newer, happens_before, Version, VectorClock
  <2> HIDE DEF accepted
  <2> QED BY ONLY Zenon, <2>1, <2>3 DEF Replaces, Accepts, Follows, Concurrent, Unknown
<1>4. Replaces(decisions[r][i], decisions[r][i])
  BY Zenon DEF Replaces
<1> HIDE DEF chosen, accepted
<1>5. decisions'[q][i] = decisions[q][i] \/ (q = r /\ decisions'[q][i] = chosen[i])
  BY Zenon, <1>1 DEF SyncInv, SyncTypeOK
<1> QED BY Zenon, <1>2, <1>3, <1>4, <1>5 DEF Replaces

(* A region's version of a decision only moves to versions that the one    *)
(* before does not follow, under every strategy, whatever is lost,         *)
(* repeated or reordered.                                                  *)
THEOREM OrderIsKept == SyncSpec => NeverBackInTime
<1>1. SyncInv /\ [SyncNext]_sync_vars
        => [\A r \in Region, id \in Id : Replaces(decisions[r][id], decisions'[r][id])]_sync_vars
  <2> SUFFICES ASSUME SyncInv, SyncNext, NEW q \in Region, NEW i \in Id
               PROVE  Replaces(decisions[q][i], decisions'[q][i])
    BY Zenon
  <2>1. ASSUME NEW r \in Region, NEW id \in Id, NEW h \in Hash, NEW t \in last_read[r] .. MaxRead,
               add_local_decision(r, id, h, t)
        PROVE  Replaces(decisions[q][i], decisions'[q][i])
    <3>1. t \in Nat
      BY DEF SyncInv, SyncTypeOK
    <3> QED BY Zenon, <2>1, <3>1, AddForward
  <2>2. ASSUME NEW r \in Region, NEW v \in written, ReceiveOne(r, v)
        PROVE  Replaces(decisions[q][i], decisions'[q][i])
    BY Zenon, <2>2, ReceiveForward DEF ReceiveOne
  <2>3. ASSUME NEW r \in Region, NEW s \in Region \ {r}, ReceiveAll(r, s)
        PROVE  Replaces(decisions[q][i], decisions'[q][i])
    <3>1. Held(s) \in SUBSET written
      BY Zenon DEF Held, SyncInv, HeldIsWritten
    <3> QED BY Zenon, <2>3, <3>1, ReceiveForward DEF ReceiveAll
  <2>4. CASE NoneLate
    BY Zenon, <2>4 DEF NoneLate, Replaces
  <2> QED BY Zenon, <2>1, <2>2, <2>3, <2>4 DEF SyncNext
<1>2. SyncSpec => []SyncInv
  BY SyncStarts, SyncStep, PTL DEF SyncSpec
<1> QED BY <1>1, <1>2, PTL DEF SyncSpec, NeverBackInTime, Replaces
=============================================================================
