----------------------------- MODULE StateSync -----------------------------
(***************************************************************************)
(* The cross-region synchronizer of the federation: every region keeps one *)
(* version of each decision, orders versions by vector clock and settles   *)
(* concurrent ones by its resolution strategy.                             *)
(*                                                                         *)
(* A version is put into a batch for every other region when it is made,   *)
(* and batches may be lost, repeated, delayed and reordered: written holds *)
(* the versions that can arrive anywhere at any later time.  Regions run   *)
(* one node each.  Their names are numbers, for names are compared.        *)
(***************************************************************************)
EXTENDS Naturals, FiniteSets, FiniteSetsExt

CONSTANTS Region,     \* a set of numbers
          Id,         \* decision identifiers
          Hash,       \* digests of the payloads
          NoVersion,  \* no version
          Strategy,   \* resolution_strategy: "lww", "vc" or "manual"
          MaxRead,    \* bound on the clocks
          MaxWrites   \* bound on the decisions made

ASSUME RegionAssumption == Region \subseteq Nat
ASSUME StrategyAssumption == Strategy \in {"lww", "vc", "manual"}

VARIABLES decisions,  \* per region and identifier, the version held
          clock,      \* per region, its vector clock
          conflicts,  \* per region, the decisions it saw a conflict for
          written,    \* every version made, with its identifier
          late,       \* whether batches made earlier may still arrive
          last_read   \* per region, the time.time() it last read

sync_vars == <<decisions, clock, conflicts, written, late, last_read>>

VectorClock == [Region -> Nat]

Version == [id : Id, region : Region, timestamp : Nat, vector_clock : VectorClock,
            decision_hash : Hash]

ASSUME NoVersionAssumption == NoVersion \notin Version

increment(c, r) == [c EXCEPT ![r] = @ + 1]

happens_before(c, d) ==
  /\ \A r \in Region : c[r] <= d[r]
  /\ \E r \in Region : c[r] < d[r]

SyncInit ==
  /\ decisions = [r \in Region |-> [id \in Id |-> NoVersion]]
  /\ clock = [r \in Region |-> [q \in Region |-> 0]]
  /\ conflicts = [r \in Region |-> {}]
  /\ written = {}
  /\ late = TRUE
  /\ last_read = [r \in Region |-> 0]

(* From here on the batches of one decision are lost.                      *)
NoneLate ==
  /\ late
  /\ late' = FALSE
  /\ UNCHANGED <<decisions, clock, conflicts, written, last_read>>

(* Clocks of different hosts need not agree, and t is what this host's     *)
(* clock shows.                                                            *)
add_local_decision(r, id, h, t) ==
  LET ticked == increment(clock[r], r)
      version == [id |-> id, region |-> r, timestamp |-> t, vector_clock |-> ticked,
                  decision_hash |-> h]
  IN  /\ Cardinality(written) < MaxWrites
      /\ clock' = [clock EXCEPT ![r] = ticked]
      /\ decisions' = [decisions EXCEPT ![r][id] = version]
      /\ written' = written \cup {version}
      /\ last_read' = [last_read EXCEPT ![r] = t]
      /\ UNCHANGED <<conflicts, late>>

(* _apply_remote_decision, case by case: what a version meets at a region. *)
Unknown(local) == local = NoVersion

Same(local, remote) == local.decision_hash = remote.decision_hash

Newer(local, remote) == happens_before(local.vector_clock, remote.vector_clock)

Concurrent(local, remote) ==
  /\ ~Unknown(local)
  /\ ~Same(local, remote)
  /\ ~Newer(remote, local)
  /\ ~Newer(local, remote)

(* Mutant: no fallback to the region's name.                               *)
WinsIfLater(local, remote) == remote.timestamp > local.timestamp

(* Mutant: of two decisions made at once, the one that arrives wins.       *)
WinsUnlessEarlier(local, remote) == remote.timestamp >= local.timestamp

WinsConflict(local, remote) ==
  \/ Strategy \in {"lww", "vc"} /\ remote.timestamp > local.timestamp
  \/ /\ Strategy = "lww"
     /\ remote.timestamp = local.timestamp
     /\ remote.region > local.region

(* The cases in which the vector clocks are merged as well.                *)
Follows(local, remote) ==
  \/ Unknown(local)
  \/ ~Same(local, remote) /\ ~Newer(remote, local) /\ Newer(local, remote)

Accepts(local, remote) ==
  \/ Follows(local, remote)
  \/ Concurrent(local, remote) /\ WinsConflict(local, remote)

(* One batch at a region: no two of its versions have the same identifier. *)
receive_sync_batch(r, batch) ==
  LET followed == {v \in batch : Follows(decisions[r][v.id], v)}
      accepted == {v \in batch : Accepts(decisions[r][v.id], v)}
      Holds(id) == \E v \in accepted : v.id = id
  IN  /\ decisions' = [decisions EXCEPT ![r] =
           [id \in Id |-> IF Holds(id) THEN CHOOSE v \in accepted : v.id = id ELSE @[id]]]
      /\ clock' = [clock EXCEPT ![r] =
           [q \in Region |-> Max({@[q]} \cup {v.vector_clock[q] : v \in followed})]]
      /\ conflicts' = [conflicts EXCEPT ![r] =
           @ \cup {v.id : v \in {w \in batch : Concurrent(decisions[r][w.id], w)}}]
      /\ UNCHANGED <<written, late, last_read>>

Held(r) == {decisions[r][id] : id \in Id} \ {NoVersion}

(* A batch of one decision, as it is scheduled when the decision is made.  *)
ReceiveOne(r, v) == late /\ v.region # r /\ receive_sync_batch(r, {v})

(* A batch of everything the other region holds.                           *)
ReceiveAll(r, s) == Held(s) # {} /\ receive_sync_batch(r, Held(s))

SyncNext ==
  \/ \E r \in Region, id \in Id, h \in Hash :
       \E t \in last_read[r] .. MaxRead : add_local_decision(r, id, h, t)
  \/ NoneLate
  \/ \E r \in Region : \E v \in written : ReceiveOne(r, v)
  \/ \E r \in Region : \E s \in Region \ {r} : ReceiveAll(r, s)

SyncSpec == SyncInit /\ [][SyncNext]_sync_vars


-----------------------------------------------------------------------------
SyncTypeOK ==
  /\ decisions \in [Region -> [Id -> Version \cup {NoVersion}]]
  /\ clock \in [Region -> VectorClock]
  /\ conflicts \in [Region -> SUBSET Id]
  /\ written \subseteq Version
  /\ late \in BOOLEAN
  /\ last_read \in [Region -> Nat]

(* A full exchange between the two regions would change neither.           *)
Settled(r, s) ==
  \A id \in Id : /\ decisions[s][id] # NoVersion => ~Accepts(decisions[r][id], decisions[s][id])
                 /\ decisions[r][id] # NoVersion => ~Accepts(decisions[s][id], decisions[r][id])

HashAt(r, id) == IF decisions[r][id] = NoVersion THEN NoVersion ELSE decisions[r][id].decision_hash

Agree(r, s) == \A id \in Id : HashAt(r, id) = HashAt(s, id)

(* Two regions for which synchronization has nothing left to do hold the   *)
(* same decisions: the resolution of conflicts never leaves two regions    *)
(* each content with its own version, whatever was lost or reordered.      *)
SettledAgree == \A r, s \in Region : Settled(r, s) => Agree(r, s)

(* Once no decision is made any more and no late batch is left, regions    *)
(* that keep exchanging all they hold come to hold the same decisions and  *)
(* stay so: conflicts are settled for good, never round and round.         *)
Convergence == <>~late => <>[](\A r, s \in Region : Agree(r, s))

(* A region never replaces a version by one that the replaced version      *)
(* already follows, and never drops one: not when batches arrive late, and *)
(* not when it decides again after a conflict it settled without merging   *)
(* the vector clocks.                                                      *)
NeverBackInTime ==
  [][\A r \in Region, id \in Id :
       decisions[r][id] \notin {NoVersion, decisions'[r][id]}
         => decisions'[r][id] # NoVersion /\ ~Newer(decisions'[r][id], decisions[r][id])]_sync_vars
=============================================================================
