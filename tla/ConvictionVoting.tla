-------------------------- MODULE ConvictionVoting --------------------------
(***************************************************************************)
(* The conviction voting engine (rust_core/src/voting.rs): proposals are   *)
(* submitted, seconded, voted on and finalized; votes lock stake;          *)
(* accounts delegate to each other; epochs pass.  One action per method of *)
(* ConvictionVotingEngine; a call that returns an error changes nothing    *)
(* and is no step.                                                         *)
(*                                                                         *)
(* Abstractions.  The hash that names a proposal covers proposer, title    *)
(* and epoch; it is that triple.  Voting power is counted in tenths and    *)
(* ratios are compared as fractions.  Only finalize changes state with a   *)
(* tally, at or after the end of voting, where the early voting bonus of   *)
(* voting_power is 1.  Of a delegation, only the delegate and the expiry   *)
(* are ever read; of an account's locks, only the stake that one epoch     *)
(* unlocks: they are a function from unlock epochs to stakes.              *)
(*                                                                         *)
(* Bounds: MaxEpoch and MaxProposals.                                      *)
(***************************************************************************)
EXTENDS Naturals, Sequences, FiniteSets, FiniteSetsExt

CONSTANTS
    Account,
    Proposer, Voter, Delegator,  \* the accounts that call each method
    Title,
    Type,                        \* the proposal types in use
    Stake,                       \* stakes a vote may carry
    TotalStake,                  \* values the host registers as total stake
    Conviction,                  \* conviction levels in use, within 0..6
    Expiry,                      \* expiry epochs of delegations, 0 for none
    MaxEpoch, MaxProposals

ASSUME AccountsAssumption ==
    /\ Proposer \subseteq Account
    /\ Voter \subseteq Account
    /\ Delegator \subseteq Account

ASSUME NumbersAssumption ==
    /\ Stake \subseteq Nat
    /\ TotalStake \subseteq Nat
    /\ Conviction \subseteq 0..6
    /\ Expiry \subseteq Nat
    /\ Type \subseteq {"ParameterChange", "PolicyUpdate", "Emergency",
                       "Constitutional", "Spending"}

VARIABLES proposals, delegations, locked_stakes, current_epoch, total_stake

voting_vars == <<proposals, delegations, locked_stakes, current_epoch, total_stake>>

-----------------------------------------------------------------------------
\* In tenths: 0.1, then 1 to 6.
multiplier(conviction) == IF conviction = 0 THEN 1 ELSE 10 * conviction

lock_period(conviction) == <<0, 1, 2, 4, 8, 16, 32>>[conviction + 1]

\* In percent.
approval_threshold(type) ==
    CASE type = "PolicyUpdate" -> 60
      [] type = "Emergency" -> 67
      [] type = "Constitutional" -> 75
      [] OTHER -> 50

quorum_threshold(type) ==
    CASE type = "PolicyUpdate" -> 15
      [] type = "Emergency" -> 20
      [] type = "Constitutional" -> 25
      [] OTHER -> 10

voting_period(type) ==
    CASE type = "Emergency" -> 3
      [] type = "PolicyUpdate" -> 14
      [] type = "Constitutional" -> 28
      [] OTHER -> 7

seconds_required(type) ==
    CASE type = "Emergency" -> 1
      [] type = "Constitutional" -> 5
      [] OTHER -> 2

Direction == {"Aye", "Nay", "Abstain"}

\* HashMap::insert
Put(map, key, value) ==
    [k \in DOMAIN map \cup {key} |-> IF k = key THEN value ELSE map[k]]

VotingInit ==
    /\ proposals = << >>
    /\ delegations = << >>
    /\ locked_stakes = [a \in Account |-> << >>]
    /\ current_epoch = 0
    /\ total_stake = 0

set_total_stake ==
    /\ total_stake' \in TotalStake
    /\ UNCHANGED <<proposals, delegations, locked_stakes, current_epoch>>

Unexpired(d, epoch) == d.expires_epoch = 0 \/ d.expires_epoch > epoch

\* The locks that outlast an epoch.
After(locks, epoch) == [u \in {k \in DOMAIN locks : k > epoch} |-> locks[u]]

advance_epoch ==
    /\ current_epoch < MaxEpoch
    /\ current_epoch' = current_epoch + 1
    /\ locked_stakes' = [a \in Account |-> After(locked_stakes[a], current_epoch + 1)]
    /\ delegations' =
          [a \in {k \in DOMAIN delegations : Unexpired(delegations[k], current_epoch + 1)} |->
              delegations[a]]
    /\ UNCHANGED <<proposals, total_stake>>

-----------------------------------------------------------------------------
\* Mutant: the name of a proposal does not cover its epoch.
id_without_epoch(proposer, title, epoch) == [proposer |-> proposer, title |-> title, epoch |-> 0]

proposal_id(proposer, title, epoch) == [proposer |-> proposer, title |-> title, epoch |-> epoch]

new_proposal(type, eligible) ==
    [type |-> type, status |-> "Pending", voting_start_epoch |-> 0,
     seconds |-> {}, votes |-> {}, total_eligible_stake |-> eligible]

\* Submitting the same title again in the same epoch starts the proposal over.
submit_proposal(proposer, title, type) ==
    LET id == proposal_id(proposer, title, current_epoch)
    IN  /\ id \in DOMAIN proposals \/ Cardinality(DOMAIN proposals) < MaxProposals
        /\ proposals' = Put(proposals, id, new_proposal(type, total_stake))
        /\ UNCHANGED <<delegations, locked_stakes, current_epoch, total_stake>>

CanSecond(p, proposer, seconder) ==
    /\ p.status = "Pending"
    /\ seconder # proposer
    /\ seconder \notin p.seconds

\* The last second needed opens the vote.
add_second(p, seconder) ==
    LET seconds == p.seconds \cup {seconder}
    IN  [type |-> p.type,
         status |-> IF Cardinality(seconds) >= seconds_required(p.type)
                       THEN "Voting" ELSE "Pending",
         voting_start_epoch |-> p.voting_start_epoch, seconds |-> seconds,
         votes |-> p.votes, total_eligible_stake |-> p.total_eligible_stake]

\* The engine sets the epoch in which voting starts.
second_proposal(id, seconder) ==
    LET p == add_second(proposals[id], seconder)
        starts == p.status = "Voting" /\ p.voting_start_epoch = 0
    IN  /\ CanSecond(proposals[id], id.proposer, seconder)
        /\ proposals' = Put(proposals, id,
              [type |-> p.type, status |-> p.status,
               voting_start_epoch |-> IF starts THEN current_epoch ELSE p.voting_start_epoch,
               seconds |-> p.seconds, votes |-> p.votes,
               total_eligible_stake |-> p.total_eligible_stake])
        /\ UNCHANGED <<delegations, locked_stakes, current_epoch, total_stake>>

voting_end(p) == p.voting_start_epoch + voting_period(p.type)

get_locked_stake(a) == SumFunction(After(locked_stakes[a], current_epoch))

add_lock(locks, u, stake) == Put(locks, u, stake + IF u \in DOMAIN locks THEN locks[u] ELSE 0)

\* Mutant: the lock runs from the start of voting.
unlock_epoch_from_start(p, conviction) == p.voting_start_epoch + lock_period(conviction)

unlock_epoch(p, conviction) == voting_end(p) + lock_period(conviction)

\* Proposal::cast_vote takes votes in the last epoch of the period too.
accepts_vote(p, voter) ==
    /\ p.status = "Voting"
    /\ current_epoch <= voting_end(p)
    /\ \A v \in p.votes : v.voter_id # voter

\* The stake is compared with the total stake of the system, less what this
\* voter has locked (a saturating subtraction).
vote(id, voter, direction, stake, conviction) ==
    LET p == proposals[id]
        v == [voter_id |-> voter, direction |-> direction, stake |-> stake,
              conviction |-> conviction]
    IN  /\ stake = 0 \/ stake + get_locked_stake(voter) <= total_stake
        /\ accepts_vote(p, voter)
        /\ proposals' = Put(proposals, id,
              [type |-> p.type, status |-> p.status,
               voting_start_epoch |-> p.voting_start_epoch,
               seconds |-> p.seconds, votes |-> p.votes \cup {v},
               total_eligible_stake |-> p.total_eligible_stake])
        /\ locked_stakes' = [locked_stakes EXCEPT ![voter] =
              add_lock(@, unlock_epoch(p, conviction), stake)]
        /\ UNCHANGED <<delegations, current_epoch, total_stake>>

power(votes) == MapThenSumSet(LAMBDA v : v.stake * multiplier(v.conviction), votes)

\* Without an Aye or a Nay the approval ratio is 0 or not a number, and
\* meets no threshold.
passed(p) ==
    LET aye == power({v \in p.votes : v.direction = "Aye"})
        nay == power({v \in p.votes : v.direction = "Nay"})
        turnout == MapThenSumSet(LAMBDA v : v.stake, p.votes)
    IN  /\ p.total_eligible_stake > 0
        /\ 100 * turnout >= quorum_threshold(p.type) * p.total_eligible_stake
        /\ aye + nay > 0
        /\ 100 * aye >= approval_threshold(p.type) * (aye + nay)

CanFinalize(p) == p.status = "Voting" /\ current_epoch >= voting_end(p)

finalize(p) ==
    [type |-> p.type, status |-> IF passed(p) THEN "Passed" ELSE "Rejected",
     voting_start_epoch |-> p.voting_start_epoch, seconds |-> p.seconds,
     votes |-> p.votes, total_eligible_stake |-> p.total_eligible_stake]

finalize_proposal(id) ==
    /\ CanFinalize(proposals[id])
    /\ proposals' = Put(proposals, id, finalize(proposals[id]))
    /\ UNCHANGED <<delegations, locked_stakes, current_epoch, total_stake>>

-----------------------------------------------------------------------------
\* Mutant: only the delegate's own delegation is looked at.
would_create_cycle_direct(from, to) ==
    to \in DOMAIN delegations /\ delegations[to].delegate = from

\* The loop follows the delegations from `to'.  It finds no cycle exactly if
\* some walk leads to an account without a delegation, meets no account twice
\* and never comes to `from'.
EndingWalk(walk, from, to) ==
    /\ walk[1] = to
    /\ walk[Len(walk)] \notin DOMAIN delegations
    /\ \A i \in 1 .. Len(walk) - 1 :
          /\ walk[i] \in DOMAIN delegations
          /\ walk[i + 1] = delegations[walk[i]].delegate
          /\ walk[i + 1] # from
          /\ \A j \in 1 .. i : walk[i + 1] # walk[j]

would_create_cycle(from, to) ==
    ~ \E n \in 1 .. Cardinality(Account) : \E walk \in [1 .. n -> Account] :
          EndingWalk(walk, from, to)

delegate(a, to, expires) ==
    /\ a # to
    /\ ~would_create_cycle(a, to)
    /\ delegations' = Put(delegations, a, [delegate |-> to, expires_epoch |-> expires])
    /\ UNCHANGED <<proposals, locked_stakes, current_epoch, total_stake>>

undelegate(a) ==
    /\ a \in DOMAIN delegations
    /\ delegations' = [k \in DOMAIN delegations \ {a} |-> delegations[k]]
    /\ UNCHANGED <<proposals, locked_stakes, current_epoch, total_stake>>

VotingNext ==
    \/ set_total_stake
    \/ advance_epoch
    \/ \E a \in Proposer, t \in Title, type \in Type : submit_proposal(a, t, type)
    \/ \E id \in DOMAIN proposals :
        \/ \E a \in Account : second_proposal(id, a)
        \/ \E a \in Voter, d \in Direction, s \in Stake, c \in Conviction : vote(id, a, d, s, c)
        \/ finalize_proposal(id)
    \/ \E a \in Delegator :
        \/ \E to \in Account, e \in Expiry : delegate(a, to, e)
        \/ undelegate(a)

VotingSpec == VotingInit /\ [][VotingNext]_voting_vars

-----------------------------------------------------------------------------
\* Delegations never form a cycle, in whatever order accounts delegate,
\* change their delegate, undelegate and let delegations expire: in any set
\* of accounts some account delegates to nobody in the set.
DelegationsAcyclic ==
    \A S \in (SUBSET Account) \ {{}} :
        \E a \in S : a \in DOMAIN delegations => delegations[a].delegate \notin S

Finalized(p) == p.status \in {"Passed", "Rejected"}

\* A verdict and the votes it rests on never change, although a proposal may
\* be submitted again under its name and hosts finalize at any later time.
FinalizedIsFinal ==
    [][\A id \in DOMAIN proposals :
          Finalized(proposals[id]) =>
              id \in DOMAIN proposals' /\ proposals'[id] = proposals[id]]_voting_vars

\* The votes of an account on proposals whose period runs beyond an epoch.
Counted(a, epoch) ==
    UNION {{id} \X {v \in proposals[id].votes : v.voter_id = a} :
              id \in {k \in DOMAIN proposals :
                        /\ proposals[k].status = "Voting"
                        /\ epoch < voting_end(proposals[k])}}

Stakes(votes) == [x \in votes |-> x[2].stake]

\* The stake that an account has in votes of proposals whose period still
\* runs is locked, so it cannot be voted with elsewhere: over all proposals
\* together, also when one is submitted over and voted on again.
CountedStakeIsLocked ==
    \A a \in Account : SumFunction(Stakes(Counted(a, current_epoch))) <= get_locked_stake(a)
=============================================================================
