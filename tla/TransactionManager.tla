------------------------ MODULE TransactionManager ------------------------
(***************************************************************************)
(* The transaction manager of the kernel: a state file replaced by rename, *)
(* a write-ahead log, a backup copy, and the recovery of the three after a *)
(* crash.  Every file operation is a step of its own, so that the process  *)
(* can be killed or the power can fail between any two of them.            *)
(*                                                                         *)
(* fs is what the running program reads.  images are the directory         *)
(* contents a power failure may leave: metadata reaches the disk in the    *)
(* order it was issued, an fsync makes its file and every earlier          *)
(* operation durable, and nothing else does (the directory itself is never *)
(* synced).  The backup is never synced, so a power failure may tear it.   *)
(***************************************************************************)
EXTENDS Naturals, Sequences

CONSTANTS Data,     \* payloads of transactions
          Empty,    \* payload of the genesis state
          Absent,   \* no such file; no state loaded
          Torn,     \* a file whose content does not parse
          MaxTick   \* bound on the ticks the kernel commits

VARIABLES fs,       \* wal, tmp, state, bak: what the program sees
          images,   \* what a power failure may leave of fs
          pc,       \* the next file operation, "idle" or "down"
          target,   \* the state being written
          mem,      \* current_state
          acked,    \* the last state handed to the kernel
          intact    \* whether the state file was never damaged on the media

vars == <<fs, images, pc, target, mem, acked, intact>>

Promise == INSTANCE DurableState WITH
  base <- acked,
  durable <- IF fs.wal \notin {Absent, Torn} THEN fs.wal
             ELSE IF fs.state \notin {Absent, Torn} THEN fs.state
             ELSE [tick |-> 0, data |-> Empty, hash |-> << >>],
  up <- mem # Absent

Genesis == Promise!Genesis

State == [tick : Nat, data : Data \cup {Empty}, hash : Seq(Data)]

ASSUME Distinct == Absent \notin State /\ Torn \notin State /\ Absent # Torn

Whole(content) == content \notin {Absent, Torn}

Writing == {"wal", "backup", "copy", "tmp", "sync", "rename", "unlink"}

Init ==
  /\ fs = [wal |-> Absent, tmp |-> Absent, state |-> Absent, bak |-> Absent]
  /\ images = {fs}
  /\ pc = "down"
  /\ target = Genesis
  /\ mem = Absent
  /\ acked = Genesis
  /\ intact = TRUE

(* The directory now reads new; the disk may still hold an earlier image.  *)
Change(new) ==
  /\ fs' = new
  /\ images' = images \cup {new}

(* An fsync: everything issued so far is on the disk.                      *)
Sync(new) ==
  /\ fs' = new
  /\ images' = {new}

Hand(state) ==
  /\ pc' = "idle"
  /\ mem' = state
  /\ acked' = state

(* A whole log is a transaction to roll forward.                           *)
FindLog ==
  /\ pc = "down"
  /\ Whole(fs.wal)
  /\ target' = fs.wal
  /\ pc' = "backup"
  /\ UNCHANGED <<fs, images, mem, acked, intact>>

(* A log that does not parse is discarded.                                 *)
DiscardLog ==
  /\ pc = "down"
  /\ ~Whole(fs.wal)
  /\ IF fs.wal = Torn THEN Change([fs EXCEPT !.wal = Absent])
                      ELSE UNCHANGED <<fs, images>>
  /\ pc' = "load"
  /\ UNCHANGED <<target, mem, acked, intact>>

LoadState ==
  /\ pc = "load"
  /\ fs.state # Torn \/ fs.bak = Absent
  /\ Hand(IF Whole(fs.state) THEN fs.state ELSE Genesis)
  /\ UNCHANGED <<fs, images, target, intact>>

(* A damaged state file is replaced by the backup; a backup that does not  *)
(* parse either ends the start with an exception.                          *)
RestoreBackup ==
  /\ pc = "load"
  /\ fs.state = Torn
  /\ fs.bak # Absent
  /\ Change([fs EXCEPT !.state = fs.bak])
  /\ IF Whole(fs.bak) THEN Hand(fs.bak)
                      ELSE pc' = "down" /\ UNCHANGED <<mem, acked>>
  /\ UNCHANGED <<target, intact>>

Commit(d) ==
  /\ pc = "idle"
  /\ mem.tick < MaxTick
  /\ target' = Promise!Linked(mem, d)
  /\ Change([fs EXCEPT !.wal = Torn])
  /\ pc' = "wal"
  /\ UNCHANGED <<mem, acked, intact>>

SyncLog ==
  /\ pc = "wal"
  /\ Sync([fs EXCEPT !.wal = target])
  /\ pc' = "backup"
  /\ UNCHANGED <<target, mem, acked, intact>>

\* Mutant: an existing backup is kept.
OpenFirstBackup ==
  /\ pc = "backup"
  /\ IF fs.state = Absent \/ fs.bak # Absent
     THEN pc' = "tmp" /\ UNCHANGED <<fs, images>>
     ELSE pc' = "copy" /\ Change([fs EXCEPT !.bak = Torn])
  /\ UNCHANGED <<target, mem, acked, intact>>

(* _atomic_write, from here to Rename.                                     *)
OpenBackup ==
  /\ pc = "backup"
  /\ IF fs.state = Absent
     THEN pc' = "tmp" /\ UNCHANGED <<fs, images>>
     ELSE pc' = "copy" /\ Change([fs EXCEPT !.bak = Torn])
  /\ UNCHANGED <<target, mem, acked, intact>>

CopyBackup ==
  /\ pc = "copy"
  /\ Change([fs EXCEPT !.bak = fs.state])
  /\ pc' = "tmp"
  /\ UNCHANGED <<target, mem, acked, intact>>

OpenTmp ==
  /\ pc = "tmp"
  /\ Change([fs EXCEPT !.tmp = Torn])
  /\ pc' = "sync"
  /\ UNCHANGED <<target, mem, acked, intact>>

\* Mutant: the log is removed before the rename.
SyncTmpDropLog ==
  /\ pc = "sync"
  /\ Sync([fs EXCEPT !.tmp = target, !.wal = Absent])
  /\ pc' = "rename"
  /\ UNCHANGED <<target, mem, acked, intact>>

SyncTmp ==
  /\ pc = "sync"
  /\ Sync([fs EXCEPT !.tmp = target])
  /\ pc' = "rename"
  /\ UNCHANGED <<target, mem, acked, intact>>

Rename ==
  /\ pc = "rename"
  /\ Change([fs EXCEPT !.state = fs.tmp, !.tmp = Absent])
  /\ pc' = "unlink"
  /\ UNCHANGED <<target, mem, acked, intact>>

(* The log goes last; then commit or recovery hands the state over.        *)
Unlink ==
  /\ pc = "unlink"
  /\ Change([fs EXCEPT !.wal = Absent])
  /\ Hand(target)
  /\ UNCHANGED <<target, intact>>

(* A file operation fails: a commit is skipped by the kernel loop, which   *)
(* goes on with the state it has; a start is given up.  A write that       *)
(* reports an error may have left its file torn or whole.                  *)
Fail ==
  /\ pc \in Writing \ {"unlink"}
  /\ \/ UNCHANGED <<fs, images>>
     \/ pc = "wal" /\ Change([fs EXCEPT !.wal = target])
     \/ pc = "copy" /\ Change([fs EXCEPT !.bak = fs.state])
  /\ pc' = IF mem = Absent THEN "down" ELSE "idle"
  /\ UNCHANGED <<target, mem, acked, intact>>

Kill ==
  /\ pc # "down"
  /\ pc' = "down"
  /\ mem' = Absent
  /\ UNCHANGED <<fs, images, target, acked, intact>>

PowerFail ==
  /\ \E image \in images :
       \/ fs' = image
       \/ image.bak # Absent /\ fs' = [image EXCEPT !.bak = Torn]
  /\ images' = {fs'}
  /\ pc' = "down"
  /\ mem' = Absent
  /\ UNCHANGED <<target, acked, intact>>

(* The media damages the state file, once, while the kernel is down.       *)
Decay ==
  /\ pc = "down"
  /\ intact
  /\ Whole(fs.state)
  /\ Sync([fs EXCEPT !.state = Torn])
  /\ intact' = FALSE
  /\ UNCHANGED <<pc, target, mem, acked>>

Next ==
  \/ FindLog \/ DiscardLog \/ LoadState \/ RestoreBackup
  \/ \E d \in Data : Commit(d)
  \/ SyncLog \/ OpenBackup \/ CopyBackup \/ OpenTmp \/ SyncTmp \/ Rename \/ Unlink
  \/ Fail \/ Kill \/ PowerFail \/ Decay

Spec == Init /\ [][Next]_vars

-----------------------------------------------------------------------------
Content == State \cup {Absent, Torn}

(* Every file is absent, torn or holds a state; what is written or loaded  *)
(* is a state.                                                             *)
TypeOK ==
  /\ fs \in [wal : Content, tmp : Content, state : Content, bak : Content]
  /\ images \subseteq [wal : Content, tmp : Content, state : Content, bak : Content]
  /\ pc \in Writing \cup {"down", "load", "idle"}
  /\ target \in State
  /\ mem \in State \cup {Absent}
  /\ acked \in State
  /\ intact \in BOOLEAN

(* The manager is atomic and durable: as long as the media keeps what was  *)
(* synced, every start loads the last acknowledged state or one linked     *)
(* successor of it whose commit was cut short, whichever file operation a  *)
(* kill, a power failure or an I/O error interrupts, recovery included.    *)
AtomicAndDurable == Promise!Spec

(* What the kernel was given is never taken back while the media keeps its *)
(* bytes: from one state handed over to the next, and through any kills,   *)
(* power failures and restarts between, the history stays as it is or      *)
(* gains one commit.                                                       *)
HistoryOnlyGrows ==
  [][intact' => acked' = acked \/ \E d \in Data : acked' = Promise!Linked(acked, d)]_vars

(* Damage to the state file costs at most one commit: what a start loads   *)
(* in its place, from the backup or from nothing, is at most one tick      *)
(* behind the last acknowledged state.                                     *)
LosesAtMostOneCommit ==
  [][mem = Absent /\ mem' # Absent => mem'.tick + 1 >= acked.tick]_vars
=============================================================================
