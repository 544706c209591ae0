------------------------------ MODULE AuditLog ------------------------------
(***************************************************************************)
(* The hash-chained audit log: events appended to a file of lines, each    *)
(* carrying the hash of the one before, by a process that is killed and    *)
(* started again and whose writes may fail or be cut short.                *)
(*                                                                         *)
(* An event's hash is its number in the order of writing, 0 is GENESIS.    *)
(* The end of the file is a line without newline when a write was cut      *)
(* short; the next event is then written onto that line, and neither can   *)
(* be read any more.                                                       *)
(***************************************************************************)
EXTENDS Naturals, Sequences, FiniteSets

CONSTANTS Garbled,     \* a line that is not the JSON of one event
          MaxLogged,   \* bound on the events written
          MaxTorn      \* bound on the writes cut short

VARIABLES lines,           \* audit.jsonl
          cut,             \* its last line has no newline
          previous_hash,   \* _previous_hash
          counter,         \* _counter
          alive,           \* the process runs
          logged,          \* events whose log() has returned
          written,         \* events hashed so far
          torn             \* writes cut short so far

auditVars == <<lines, cut, previous_hash, counter, alive, logged, written, torn>>

Event == [event_hash : Nat, previous_hash : Nat, id : Nat]

ASSUME GarbledAssumption == Garbled \notin Event

AuditInit ==
  /\ lines = <<>> /\ cut = FALSE
  /\ previous_hash = 0 /\ counter = 0
  /\ alive = TRUE
  /\ logged = {} /\ written = 0 /\ torn = 0

(* Mutant: the chain starts anew.                                          *)
StartAnew ==
  /\ ~alive
  /\ alive' = TRUE
  /\ previous_hash' = 0 /\ counter' = 0
  /\ UNCHANGED <<lines, cut, logged, written, torn>>

(* A start: the chain goes on from the last line, or anew if that cannot   *)
(* be read.                                                                *)
_load_chain_state ==
  LET last == lines[Len(lines)]
      unknown == lines = <<>> \/ last = Garbled
  IN  /\ ~alive
      /\ alive' = TRUE
      /\ previous_hash' = IF unknown THEN 0 ELSE last.event_hash
      /\ counter' = IF unknown THEN 0 ELSE last.id
      /\ UNCHANGED <<lines, cut, logged, written, torn>>

NewEvent ==
  [event_hash |-> written + 1, previous_hash |-> previous_hash, id |-> counter + 1]

(* Mutant: the file is opened for writing instead of appending.            *)
Overwritten(line) == <<line>>

(* What the file becomes when a text is appended to it.                    *)
Appended(line) ==
  IF cut THEN [lines EXCEPT ![Len(lines)] = Garbled] ELSE Append(lines, line)

log ==
  /\ alive /\ written < MaxLogged
  /\ lines' = Appended(NewEvent) /\ cut' = FALSE
  /\ previous_hash' = NewEvent.event_hash
  /\ counter' = counter + 1
  /\ logged' = logged \cup {NewEvent.event_hash}
  /\ written' = written + 1
  /\ UNCHANGED <<alive, torn>>

(* The file cannot be opened or nothing is written: log() raises, with the *)
(* event's number used up.                                                 *)
WriteFails ==
  /\ alive /\ written < MaxLogged /\ counter < MaxLogged
  /\ counter' = counter + 1
  /\ written' = written + 1
  /\ UNCHANGED <<lines, cut, previous_hash, alive, logged, torn>>

(* The line is written in part, perhaps without its newline only, as the   *)
(* process dies or the disk fills.                                         *)
WriteTorn ==
  /\ alive /\ written < MaxLogged /\ torn < MaxTorn
  /\ lines' \in {Appended(Garbled), Appended(NewEvent)} /\ cut' = TRUE
  /\ counter' = counter + 1
  /\ written' = written + 1
  /\ torn' = torn + 1
  /\ alive' \in BOOLEAN
  /\ UNCHANGED <<previous_hash, logged>>

Kill ==
  /\ alive
  /\ alive' = FALSE
  /\ UNCHANGED <<lines, cut, previous_hash, counter, logged, written, torn>>

AuditNext == _load_chain_state \/ log \/ WriteFails \/ WriteTorn \/ Kill

AuditSpec == AuditInit /\ [][AuditNext]_auditVars

-----------------------------------------------------------------------------
(* verify_chain: a line that cannot be read is reported and does not move  *)
(* the expected hash on.                                                   *)
Readable == {i \in 1 .. Len(lines) : lines[i] # Garbled}

expected_prev(i) ==
  LET before == {j \in Readable : j < i}
  IN  IF before = {} THEN 0
      ELSE lines[CHOOSE j \in before : \A k \in before : k <= j].event_hash

BrokenChain == {i \in Readable : lines[i].previous_hash # expected_prev(i)}

(* The hashes of the events that can be read.                              *)
Recorded == {lines[i].event_hash : i \in Readable}

verify_chain == Readable = 1 .. Len(lines) /\ BrokenChain = {}

(* Over any restarts and failed writes the chain verifies and holds every  *)
(* event whose log() returned, in order, as long as no write was cut short.*)
ChainVerifies ==
  torn = 0 => /\ verify_chain
              /\ Recorded = logged
              /\ \A i, j \in Readable : i < j => lines[i].event_hash < lines[j].event_hash

(* A write cut short costs at most the one event logged next: never more   *)
(* acknowledged events are unreadable than writes were cut short.          *)
TearCostsOneEvent ==
  Cardinality(logged \ Recorded) <= torn
=============================================================================
