----------------------------- MODULE MCRecords ------------------------------
(***************************************************************************)
(* Three parts that keep records and share no state, in one run: focus is  *)
(* the one that moves, chosen at the start.  Proposals and delegations     *)
(* share only the clock of the voting engine and move separately too.      *)
(***************************************************************************)
EXTENDS ConvictionVoting, TransactionManager, StateSync

VARIABLE focus

recordVars == <<voting_vars, vars, sync_vars, focus>>

MCInit ==
  /\ VotingInit /\ Init /\ SyncInit
  /\ focus \in {"proposals", "delegations", "transactions", "regions"}

ProposalSteps ==
  /\ focus = "proposals"
  /\ \/ set_total_stake
     \/ advance_epoch
     \/ \E a \in Proposer, t \in Title, type \in Type : submit_proposal(a, t, type)
     \/ \E id \in DOMAIN proposals :
          \/ \E a \in Voter : second_proposal(id, a)
          \/ \E a \in Voter, d \in Direction, s \in Stake, c \in Conviction : vote(id, a, d, s, c)
          \/ finalize_proposal(id)
  /\ UNCHANGED <<vars, sync_vars, focus>>

DelegationSteps ==
  /\ focus = "delegations"
  /\ \/ advance_epoch
     \/ \E a \in Delegator :
          \/ \E to \in Account, e \in Expiry : delegate(a, to, e)
          \/ undelegate(a)
  /\ UNCHANGED <<vars, sync_vars, focus>>

TransactionSteps == focus = "transactions" /\ Next /\ UNCHANGED <<voting_vars, sync_vars, focus>>

RegionSteps == focus = "regions" /\ SyncNext /\ UNCHANGED <<voting_vars, vars, focus>>

(* Hosts keep exchanging full batches: any two regions do so again and     *)
(* again.                                                                  *)
Exchanges ==
  \A r, s \in Region : WF_sync_vars(focus = "regions" /\ r # s /\ ReceiveAll(r, s))

MCSpec ==
  /\ MCInit
  /\ [][ProposalSteps \/ DelegationSteps \/ TransactionSteps \/ RegionSteps]_recordVars
  /\ Exchanges
=============================================================================
