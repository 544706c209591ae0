----------------------------- MODULE BFTCluster -----------------------------
(***************************************************************************)
(* A cluster of BFT engines (rust_core/src/consensus/bft.rs), one for each *)
(* validator, driven by their hosts through the public methods.  The hosts *)
(* broadcast the VIEW_CHANGE and NEW_VIEW messages that the methods        *)
(* return.  A sent message stays in its set and may be delivered to any    *)
(* other node at any later time, any number of times or never, so loss,    *)
(* duplication and reordering are all behaviours of the specification.     *)
(*                                                                         *)
(* Bounds: MaxView, MaxRound, MaxTime and MaxMessages stop the unbounded   *)
(* counters and lists; they are guards of the host's steps, never of the   *)
(* engine's methods.                                                       *)
(***************************************************************************)
EXTENDS BFTEngine

CONSTANTS
    Voters,        \* ids that named votes may carry
    Nullifiers,    \* nullifiers that anonymous votes may carry
    MaxView, MaxRound, MaxTime, MaxMessages

VARIABLES
    rs,    \* rs[n]: the round state of n's engine
    vs,    \* vs[n]: the view state of n's engine
    vcs,   \* VIEW_CHANGE messages broadcast so far
    nvs,   \* NEW_VIEW messages broadcast so far
    now    \* wall-clock time

vars == <<rs, vs, vcs, nvs, now>>

Vote == [voter_id : Voters, block_hash : Blocks, round : Nat, signed : BOOLEAN]

AnonymousVote ==
    [nullifier : Nullifiers, block_hash : Blocks, round : Nat, proved : BOOLEAN]

ViewChange ==
    [new_view : Nat, sender_id : Node, last_prepared_round : Nat,
     last_prepared_block : BlockOrNone, timestamp : Nat]

NewView ==
    [view : Nat, leader_id : Node, view_change_proofs : SUBSET [at : Nat, msg : ViewChange],
     prepared_block : BlockOrNone, starting_round : Nat]

RoundState ==
    [round : Nat, votes : SUBSET Vote, anonymous_votes : SUBSET AnonymousVote,
     nullifiers : SUBSET Nullifiers, current_proposal : BlockOrNone,
     current_decision : BlockOrNone]

Status == {"Normal", "Pending", "Completed", "Failed"}

ViewState ==
    [view : Nat, leader_id : Node, status : Status,
     messages : Seq(ViewChange), consecutive : Nat,
     last_committed_round : Nat, last_committed_block : BlockOrNone,
     timeout : 1..60, last_activity : Nat, last_timestamp : Nat]

\* Every engine, broadcast message and clock reading is a value of its type.
TypeOK ==
    /\ rs \in [Node -> RoundState]
    /\ vs \in [Node -> ViewState]
    /\ vcs \subseteq ViewChange
    /\ nvs \subseteq NewView
    /\ now \in Nat

-----------------------------------------------------------------------------
Init ==
    /\ rs = [n \in Node |-> NewRoundState]
    /\ vs = [n \in Node |-> NewViewState]
    /\ vcs = {}
    /\ nvs = {}
    /\ now = 1

Tick ==
    /\ now < MaxTime
    /\ now' = now + 1
    /\ UNCHANGED <<rs, vs, vcs, nvs>>

UpdateRound(n, r) ==
    /\ rs' = [rs EXCEPT ![n] = r]
    /\ UNCHANGED <<vs, vcs, nvs, now>>

UpdateView(n, v) ==
    /\ vs' = [vs EXCEPT ![n] = v]
    /\ UNCHANGED <<rs, vcs, nvs, now>>

\* Hosts number rounds consecutively.
StartRound(n) ==
    /\ rs[n].round < MaxRound
    /\ UpdateRound(n, start_round(rs[n], rs[n].round + 1))

Propose(n) ==
    \E b \in Blocks, judged \in BOOLEAN :
        UpdateRound(n, propose(rs[n], b, judged))

\* Votes arrive from the network with any contents, for any round.
IncomingVote ==
    [voter_id : Voters, block_hash : Blocks, round : 0..MaxRound,
     signed : BOOLEAN]

IncomingAnonymousVote ==
    [nullifier : Nullifiers, block_hash : Blocks, round : 0..MaxRound,
     proved : BOOLEAN]

CastVote(n) ==
    \E vote \in IncomingVote : UpdateRound(n, cast_vote(rs[n], vote))

CastVoteVerified(n) ==
    \E vote \in IncomingVote : UpdateRound(n, cast_vote_verified(rs[n], vote))

CastAnonymousVoteVerified(n) ==
    \E vote \in IncomingAnonymousVote :
        UpdateRound(n, cast_anonymous_vote_verified(rs[n], vote))

-----------------------------------------------------------------------------
UpdateActivity(n) == UpdateView(n, update_activity(vs[n], now))

HasRoom(n) ==
    /\ vs[n].view < MaxView
    /\ Len(vs[n].messages) < MaxMessages

\* The host asks for a view change itself.
TriggerViewChange(n) ==
    /\ HasRoom(n)
    /\ LET msg == ViewChangeMessage(vs[n], n, now)
       IN  /\ vs' = [vs EXCEPT ![n] = trigger_view_change(vs[n], msg)]
           /\ vcs' = vcs \cup {msg}
    /\ UNCHANGED <<rs, nvs, now>>

\* The host polls the timeout; the engine triggers and backs off.
CheckAndTriggerTimeout(n) ==
    /\ HasRoom(n)
    /\ check_timeout(vs[n], now)
    /\ LET msg == ViewChangeMessage(vs[n], n, now)
       IN  /\ vs' = [vs EXCEPT ![n] =
                        apply_exponential_backoff(trigger_view_change(vs[n], msg))]
           /\ vcs' = vcs \cup {msg}
    /\ UNCHANGED <<rs, nvs, now>>

ProcessViewChange(n) ==
    \E msg \in vcs :
        /\ msg.sender_id # n
        /\ UpdateView(n, process_view_change(vs[n], msg))

\* When apply_new_view fails at its end the engine has moved to the new
\* view, but complete_view_change returns no message to broadcast.
CompleteViewChange(n) ==
    LET msg == NewViewMessage(rs[n], vs[n], n)
    IN  /\ CanComplete(vs[n], n)
        /\ AcceptsNewView(vs[n], msg)
        /\ vs' = [vs EXCEPT ![n] = apply_new_view(vs[n], msg)]
        /\ rs' = [rs EXCEPT ![n] = enter_round(rs[n], msg)]
        /\ nvs' = IF TooManyViewChanges(vs[n]) THEN nvs ELSE nvs \cup {msg}
        /\ UNCHANGED <<vcs, now>>

ApplyNewView(n) ==
    \E msg \in nvs :
        /\ AcceptsNewView(vs[n], msg)
        /\ vs' = [vs EXCEPT ![n] = apply_new_view(vs[n], msg)]
        /\ rs' = [rs EXCEPT ![n] = enter_round(rs[n], msg)]
        /\ UNCHANGED <<vcs, nvs, now>>

\* The host records the proposal that reached quorum in the current round.
RecordCommit(n) ==
    /\ has_quorum(rs[n])
    /\ rs[n].current_proposal # NoBlock
    /\ UpdateView(n, record_commit(vs[n], rs[n].round, rs[n].current_proposal))

Next ==
    \/ Tick
    \/ \E n \in Node :
        \/ StartRound(n)
        \/ Propose(n)
        \/ CastVote(n)
        \/ CastVoteVerified(n)
        \/ CastAnonymousVoteVerified(n)
        \/ UpdateActivity(n)
        \/ TriggerViewChange(n)
        \/ CheckAndTriggerTimeout(n)
        \/ ProcessViewChange(n)
        \/ CompleteViewChange(n)
        \/ ApplyNewView(n)
        \/ RecordCommit(n)

Spec == Init /\ [][Next]_vars

-----------------------------------------------------------------------------
TallyOf(r) ==
    /\ \A w \in r.votes : w.round = r.round
    /\ \A w, x \in r.votes : w.voter_id = x.voter_id => w = x
    /\ \A w \in r.anonymous_votes : w.round = r.round
    /\ \A w, x \in r.anonymous_votes : w.nullifier = x.nullifier => w = x
    /\ r.nullifiers = {w.nullifier : w \in r.anonymous_votes}

\* A round's tally is about that round only: every stored vote, named or
\* anonymous, was cast for the engine's current round, no voter is counted
\* twice among the named votes, and the nullifiers remembered against double
\* voting are exactly those of the anonymous votes that are counted, whatever
\* interleaving of start_round, apply_new_view and casts came before.
TallyOfThisRound == \A n \in Node : TallyOf(rs[n])

\* At most one NEW_VIEW message ever exists for a view, whatever is lost,
\* duplicated or delivered late: complete_view_change can start a view once.
OneNewViewPerView ==
    \A m1, m2 \in nvs : m1.view = m2.view => m1 = m2

\* Nodes in the same view agree on who leads it, and so does the message
\* that started it: the cached leader_id never disagrees with the rotation.
LeaderMatchesView ==
    /\ \A n \in Node : vs[n].leader_id = get_leader_for_view(vs[n].view)
    /\ \A m \in nvs : m.leader_id = get_leader_for_view(m.view)

\* The engine never goes back to an earlier view, although process_view_change
\* and apply_new_view accept messages in any order, late or twice.
ViewNeverRewinds ==
    [][\A n \in Node : vs'[n].view >= vs[n].view]_vars

\* The view-change timeout never shrinks while leaders keep failing: only a
\* recorded commit, which resets the consecutive counter, shortens it, although
\* apply_new_view raises the counter without recomputing the timeout.
BackoffUntilCommit ==
    [][\A n \in Node :
        vs'[n].timeout < vs[n].timeout => vs'[n].consecutive = 0]_vars

-----------------------------------------------------------------------------
(* What comments of bft.rs say and its methods do not do.                  *)

\* bft.rs:158 calls the proofs of a NEW_VIEW message the "VIEW_CHANGE messages
\* that formed the quorum": they come from quorum_size different validators.
ProofsFromDistinctValidators ==
    \A m \in nvs :
        Cardinality({p.msg.sender_id : p \in m.view_change_proofs}) >= quorum_size

\* bft.rs:909 says that a vote stored before the proposal arrives "counts only
\* if matches proposal later": the votes that match are a quorum by themselves
\* whenever the engine reports one.
QuorumMatchesProposal ==
    \A n \in Node :
        LET Matching(S) == {w \in S : w.block_hash = rs[n].current_proposal}
        IN  rs[n].current_proposal # NoBlock /\ has_quorum(rs[n]) =>
                Cardinality(Matching(rs[n].votes))
                    + Cardinality(Matching(rs[n].anonymous_votes)) >= quorum_size
=============================================================================
