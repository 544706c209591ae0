---------------------------- MODULE DurableState ----------------------------
(***************************************************************************)
(* What the transaction manager of the kernel promises: one state that     *)
(* survives crashes and moves forward one linked commit at a time.         *)
(***************************************************************************)
EXTENDS Naturals, Sequences

CONSTANTS Data,    \* the payloads a transaction can carry
          Empty    \* the payload of the genesis state

VARIABLES base,     \* the last state handed to the kernel
          durable,  \* the state the next start will load
          up,       \* whether the kernel holds a loaded state
          intact    \* whether the media kept every byte it was given

vars == <<base, durable, up, intact>>

Genesis == [tick |-> 0, data |-> Empty, hash |-> << >>]

(* A digest determines the payloads it was computed from, so a hash is the *)
(* list of those payloads.                                                 *)
Linked(s, d) == [tick |-> s.tick + 1, data |-> d, hash |-> Append(s.hash, d)]

Successors(s) == {Linked(s, d) : d \in Data}

Init ==
  /\ base = Genesis
  /\ durable = Genesis
  /\ up = FALSE
  /\ intact = TRUE

(* While a commit is under way, or after it failed, the durable state is   *)
(* the acknowledged one or one successor of it.                            *)
Drift ==
  /\ durable' \in {base} \cup Successors(base)
  /\ UNCHANGED <<base, up>>

Ack ==
  /\ up
  /\ durable \in Successors(base)
  /\ base' = durable
  /\ UNCHANGED <<durable, up>>

Start ==
  /\ ~up
  /\ up' = TRUE
  /\ base' = durable
  /\ UNCHANGED durable

Stop ==
  /\ up
  /\ up' = FALSE
  /\ durable' \in {base} \cup Successors(base)
  /\ UNCHANGED base

(* Nothing is promised once the media has lost data.                       *)
Decay == intact' = FALSE

Next == (intact' = intact /\ (Drift \/ Ack \/ Start \/ Stop)) \/ Decay

Spec == Init /\ [][Next]_vars
=============================================================================
