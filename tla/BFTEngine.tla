------------------------------ MODULE BFTEngine ------------------------------
(***************************************************************************)
(* The consensus engine of rust_core/src/consensus/bft.rs as a value: an   *)
(* engine is a pair of records, and every method is an operator from the   *)
(* engine's state (and the method's arguments) to its next state.  The     *)
(* modules that own engines (BFTCluster is the first) hold such records    *)
(* in variables and apply the operators in their actions, so a handler     *)
(* that calls several methods composes them.                               *)
(*                                                                         *)
(*   round state  r : round, votes, anonymous_votes, nullifiers,           *)
(*                    current_proposal, current_decision                   *)
(*   view state   v : view, leader_id, status, messages, consecutive,      *)
(*                    last_committed_round/_block, timeout, last_activity, *)
(*                    last_timestamp                                       *)
(*                                                                         *)
(* Abstractions.  Block hashes are elements of Blocks.  A signature or a   *)
(* zero-knowledge proof is the Boolean that its verification returns.  The *)
(* ethical verdict of a proposal is the block it was computed for.  Time   *)
(* is counted in units of DEFAULT_VIEW_CHANGE_TIMEOUT_MS (5000 ms).        *)
(* last_prepared_round is 0 for the code's None: the code never sends      *)
(* Some(0).                                                                *)
(***************************************************************************)
EXTENDS Naturals, Sequences, FiniteSets

CONSTANTS
    Validators,                   \* the validators list, a sequence of ids
    Blocks,                       \* block hashes
    NoBlock,                      \* Option::None for a block hash
    quorum_size,
    MAX_VOTES_PER_ROUND,          \* 100 in the code
    MAX_CONSECUTIVE_VIEW_CHANGES  \* 10 in the code

ASSUME ValidatorsAssumption ==
    /\ Validators \in Seq({Validators[i] : i \in 1..Len(Validators)})
    /\ Len(Validators) > 0

ASSUME LimitsAssumption ==
    /\ quorum_size \in Nat
    /\ MAX_VOTES_PER_ROUND \in Nat
    /\ MAX_CONSECUTIVE_VIEW_CHANGES \in Nat
    /\ NoBlock \notin Blocks

Node == {Validators[i] : i \in 1..Len(Validators)}
BlockOrNone == Blocks \cup {NoBlock}

-----------------------------------------------------------------------------
(* The round: proposal, votes, anonymous votes.                            *)

NewRoundState ==
    [round |-> 0, votes |-> {}, anonymous_votes |-> {}, nullifiers |-> {},
     current_proposal |-> NoBlock, current_decision |-> NoBlock]

\* current_decision is deliberately untouched, as in the code.
start_round(r, round) ==
    [r EXCEPT !.round = round, !.votes = {}, !.anonymous_votes = {},
              !.nullifiers = {}, !.current_proposal = NoBlock]

\* The verdict is absent when the host registers a bare proposal.
propose(r, block, judged) ==
    [r EXCEPT !.current_proposal = block,
              !.current_decision = IF judged THEN block ELSE NoBlock]

MatchesRound(r, vote) ==
    /\ vote.round = r.round
    /\ r.current_proposal # NoBlock => vote.block_hash = r.current_proposal

\* A second vote of a voter replaces the first; a new voter needs room.
StoreVote(r, vote) ==
    LET others == {w \in r.votes : w.voter_id # vote.voter_id}
    IN  IF others = r.votes /\ Cardinality(r.votes) >= MAX_VOTES_PER_ROUND
        THEN r
        ELSE [r EXCEPT !.votes = others \cup {vote}]

cast_vote(r, vote) ==
    IF MatchesRound(r, vote) THEN StoreVote(r, vote) ELSE r

cast_vote_verified(r, vote) ==
    IF vote.signed /\ MatchesRound(r, vote) THEN StoreVote(r, vote) ELSE r

cast_anonymous_vote_verified(r, vote) ==
    IF /\ MatchesRound(r, vote)
       /\ vote.nullifier \notin r.nullifiers
       /\ vote.proved
    THEN [r EXCEPT !.nullifiers = @ \cup {vote.nullifier},
                   !.anonymous_votes = @ \cup {vote}]
    ELSE r

has_quorum(r) ==
    Cardinality(r.votes) + Cardinality(r.anonymous_votes) >= quorum_size

-----------------------------------------------------------------------------
(* The view: leader rotation, view change, timeout.                        *)

get_leader_for_view(view) == Validators[(view % Len(Validators)) + 1]

NewViewState ==
    [view |-> 0, leader_id |-> Validators[1], status |-> "Normal",
     messages |-> <<>>, consecutive |-> 0, last_committed_round |-> 0,
     last_committed_block |-> NoBlock, timeout |-> 1, last_activity |-> 0,
     last_timestamp |-> 0]

ViewChangeMessage(v, sender, now) ==
    [new_view |-> v.view + 1, sender_id |-> sender,
     last_prepared_round |-> v.last_committed_round,
     last_prepared_block |-> v.last_committed_block,
     timestamp |-> now]

trigger_view_change(v, msg) ==
    [v EXCEPT !.status = "Pending", !.messages = Append(@, msg)]

\* The checks of process_view_change that end in an Err or in the early Ok.
AcceptsViewChange(v, msg) ==
    /\ msg.new_view > v.view
    /\ msg.timestamp >= v.last_timestamp
    /\ \A i \in 1..Len(v.messages) :
          \/ v.messages[i].sender_id # msg.sender_id
          \/ v.messages[i].new_view # msg.new_view
    /\ Len(v.messages) < MAX_VOTES_PER_ROUND

process_view_change(v, msg) ==
    IF AcceptsViewChange(v, msg)
    THEN [v EXCEPT !.last_timestamp = msg.timestamp,
                   !.messages = Append(@, msg), !.status = "Pending"]
    ELSE v

\* The collected messages that ask for the next view, each with its position
\* in the list: two copies of a message are two elements.
ForNextView(v) ==
    {[at |-> i, msg |-> v.messages[i]] :
        i \in {k \in 1..Len(v.messages) : v.messages[k].new_view = v.view + 1}}

has_view_change_quorum(v) == Cardinality(ForNextView(v)) >= quorum_size

\* The first quorum_size messages of a list.
TakeQuorum(list) ==
    {p \in list : Cardinality({q \in list : q.at <= p.at}) <= quorum_size}

\* Iterator::max_by_key returns the last of several maximal elements.
LastHighest(list) ==
    CHOOSE p \in list : \A q \in list :
        \/ q.msg.last_prepared_round < p.msg.last_prepared_round
        \/ /\ q.msg.last_prepared_round = p.msg.last_prepared_round
           /\ q.at <= p.at

\* The NEW_VIEW message that complete_view_change builds.
NewViewMessage(r, v, leader) ==
    LET prepared == {p \in ForNextView(v) : p.msg.last_prepared_round > 0}
        best     == LastHighest(prepared).msg
    IN  [view |-> v.view + 1, leader_id |-> leader,
         view_change_proofs |-> TakeQuorum(ForNextView(v)),
         prepared_block |->
            IF prepared = {} THEN NoBlock ELSE best.last_prepared_block,
         starting_round |->
            IF prepared = {} THEN r.round ELSE best.last_prepared_round]

\* complete_view_change gets past its two checks.
CanComplete(v, leader) ==
    /\ get_leader_for_view(v.view + 1) = leader
    /\ has_view_change_quorum(v)

\* Mutant: the stale-view check is missing.
AcceptsStaleNewView(v, msg) ==
    /\ get_leader_for_view(msg.view) = msg.leader_id
    /\ Cardinality(msg.view_change_proofs) >= quorum_size

\* apply_new_view gets past its three checks.
AcceptsNewView(v, msg) ==
    /\ msg.view > v.view
    /\ get_leader_for_view(msg.view) = msg.leader_id
    /\ Cardinality(msg.view_change_proofs) >= quorum_size

\* One view change too many: apply_new_view has moved, and returns an Err.
TooManyViewChanges(v) == v.consecutive + 1 > MAX_CONSECUTIVE_VIEW_CHANGES

\* Mutants: the view is not advanced; leader_id is not updated; the timeout
\* falls back to its default.
apply_new_view_keeping_view(v, msg) ==
    [v EXCEPT !.leader_id = msg.leader_id,
              !.status = IF TooManyViewChanges(v) THEN "Failed" ELSE "Completed",
              !.messages = <<>>, !.consecutive = @ + 1]

apply_new_view_keeping_leader(v, msg) ==
    [v EXCEPT !.view = msg.view,
              !.status = IF TooManyViewChanges(v) THEN "Failed" ELSE "Completed",
              !.messages = <<>>, !.consecutive = @ + 1]

apply_new_view_resetting_timeout(v, msg) ==
    [v EXCEPT !.view = msg.view, !.leader_id = msg.leader_id,
              !.status = IF TooManyViewChanges(v) THEN "Failed" ELSE "Completed",
              !.messages = <<>>, !.consecutive = @ + 1, !.timeout = 1]

\* What apply_new_view does to the view state and to the round state.
apply_new_view(v, msg) ==
    [v EXCEPT !.view = msg.view, !.leader_id = msg.leader_id,
              !.status = IF TooManyViewChanges(v) THEN "Failed" ELSE "Completed",
              !.messages = <<>>, !.consecutive = @ + 1]

\* Mutant: the anonymous votes survive into the new view.
enter_round_keeping_anonymous(r, msg) ==
    [r EXCEPT !.round = msg.starting_round,
              !.current_proposal = msg.prepared_block,
              !.votes = {}, !.nullifiers = {}]

enter_round(r, msg) ==
    [r EXCEPT !.round = msg.starting_round,
              !.current_proposal = msg.prepared_block,
              !.votes = {}, !.anonymous_votes = {}, !.nullifiers = {}]

reset_view_change_counter(v) ==
    [v EXCEPT !.consecutive = 0, !.status = "Normal"]

\* Mutant: the timeout is cleared instead of set to its default.
reset_timeout_to_zero(v) == [v EXCEPT !.timeout = 0]

reset_timeout(v) == [v EXCEPT !.timeout = 1]

record_commit(v, round, block) ==
    reset_timeout(reset_view_change_counter(
        [v EXCEPT !.last_committed_round = round,
                  !.last_committed_block = block]))

update_activity(v, now) == [v EXCEPT !.last_activity = now]

check_timeout(v, now) ==
    /\ v.status # "Failed"
    /\ v.last_activity # 0
    /\ now >= v.last_activity + v.timeout

\* 5000 ms doubled up to six times and capped at 300000 ms, in 5000 ms units.
get_current_timeout(consecutive) ==
    IF consecutive >= 6 THEN 60 ELSE <<1, 2, 4, 8, 16, 32>>[consecutive + 1]

apply_exponential_backoff(v) ==
    [v EXCEPT !.consecutive = @ + 1,
              !.timeout = get_current_timeout(v.consecutive + 1)]
=============================================================================
