------------------------------ MODULE NodeProofs ------------------------------
(***************************************************************************)
(* What one node keeps, for every value of the constants.  The transaction *)
(* manager is type correct, implements DurableState, and loses at most one *)
(* commit to a damaged state file.  A connection listed by the federation  *)
(* transport is one that is served, and its pending dials are under way.   *)
(***************************************************************************)
EXTENDS TransactionManager, FederationTransport, TLAPS

-----------------------------------------------------------------------------
(* The transaction manager.                                                *)

File == [wal : Content, tmp : Content, state : Content, bak : Content]

StateOf(image) == IF Whole(image.state) THEN image.state ELSE Genesis

Near == {acked} \cup Promise!Successors(acked)

(* What holds while the media is intact.  A disk image without a usable    *)
(* log holds the acknowledged state; a usable log holds that state or a    *)
(* successor of it.  From the sync of the temporary file on, every image   *)
(* has the log, so the rename may or may not have reached the disk.        *)
Safe ==
  /\ fs \in images
  /\ mem # Absent => mem = acked
  /\ pc \in {"down", "load"} => mem = Absent
  /\ pc \in {"idle", "wal"} => mem # Absent
  /\ \A i \in images : /\ i.state # Torn
                       /\ Whole(i.wal) => i.wal \in Near
                       /\ ~Whole(i.wal) => StateOf(i) = acked
  /\ mem # Absent /\ pc # "unlink" => StateOf(fs) = acked
  /\ pc = "load" => ~Whole(fs.wal)
  /\ pc \in Writing => target \in Near
  /\ pc \in Writing /\ mem # Absent => target \in Promise!Successors(acked)
  /\ pc \in Writing \ {"wal"} => fs.wal = target
  /\ pc \in {"rename", "unlink"} => \A i \in images : i.wal = target
  /\ pc = "rename" => fs.tmp = target
  /\ pc = "unlink" => fs.state = target

StoreInv == TypeOK /\ (pc \in {"idle", "wal"} => mem # Absent) /\ (intact => Safe)

(* The genesis state and every linked successor of a state are states.     *)
LEMMA StatesAreStates ==
  /\ Genesis \in State
  /\ \A s \in State : \A d \in Data : Promise!Linked(s, d) \in State
BY DEF Genesis, Promise!Genesis, Promise!Linked, State

(* A state is neither of the two marks for a file without one.             *)
LEMMA StatesAreWhole == \A s \in State : Whole(s)
BY Zenon, Distinct DEF Whole

LEMMA StoreInit == Init => StoreInv
BY StatesAreStates, Distinct
   DEF Init, StoreInv, Safe, TypeOK, Content, Near, StateOf, Whole, Writing

(* Every step keeps the types; an idle manager has a state in memory.      *)
LEMMA NextType ==
  TypeOK /\ (pc \in {"idle", "wal"} => mem # Absent) /\ [Next]_vars
    => TypeOK' /\ (pc \in {"idle", "wal"} => mem # Absent)'
<1> SUFFICES ASSUME TypeOK, pc \in {"idle", "wal"} => mem # Absent, [Next]_vars
             PROVE  TypeOK' /\ (pc \in {"idle", "wal"} => mem # Absent)'
  BY Zenon
<1> USE StatesAreStates, StatesAreWhole, Distinct
    DEF TypeOK, Content, Writing, Whole, Change, Sync, Hand
<1>1. CASE FindLog BY Zenon, <1>1 DEF FindLog
<1>2. CASE DiscardLog BY <1>2 DEF DiscardLog
<1>3. CASE LoadState BY Zenon, <1>3 DEF LoadState
<1>4. CASE RestoreBackup BY Zenon, <1>4 DEF RestoreBackup
<1>5. ASSUME NEW d \in Data, Commit(d)
      PROVE  TypeOK' /\ (pc \in {"idle", "wal"} => mem # Absent)'
  BY Zenon, <1>5 DEF Commit
<1>6. CASE SyncLog BY Zenon, <1>6 DEF SyncLog
<1>7. CASE OpenBackup BY <1>7 DEF OpenBackup
<1>8. CASE CopyBackup BY Zenon, <1>8 DEF CopyBackup
<1>9. CASE OpenTmp BY Zenon, <1>9 DEF OpenTmp
<1>10. CASE SyncTmp BY Zenon, <1>10 DEF SyncTmp
<1>11. CASE Rename BY Zenon, <1>11 DEF Rename
<1>12. CASE Unlink BY Zenon, <1>12 DEF Unlink
<1>13. CASE Fail BY Zenon, <1>13 DEF Fail
<1>14. CASE Kill BY Zenon, <1>14 DEF Kill
<1>15. CASE PowerFail BY <1>15 DEF PowerFail
<1>16. CASE Decay BY Zenon, <1>16 DEF Decay
<1>17. CASE UNCHANGED vars BY <1>17 DEF vars
<1> QED
  BY Zenon, <1>1, <1>2, <1>3, <1>4, <1>5, <1>6, <1>7, <1>8, <1>9, <1>10, <1>11, <1>12,
     <1>13, <1>14, <1>15, <1>16, <1>17 DEF Next

(* While the media is intact, every step keeps the disk images safe.       *)
LEMMA NextSafe == StoreInv /\ [Next]_vars => (intact => Safe)'
<1> SUFFICES ASSUME StoreInv, [Next]_vars, intact'
             PROVE  Safe'
  BY Zenon
<1> USE StatesAreStates, StatesAreWhole, Distinct
    DEF StoreInv, TypeOK, Content, Writing, Whole, Near, StateOf, Safe, Change, Sync, Hand
<1>1. CASE FindLog BY Zenon, <1>1 DEF FindLog
<1>2. CASE DiscardLog BY <1>2 DEF DiscardLog
<1>3. CASE LoadState BY Zenon, <1>3 DEF LoadState
<1>4. CASE RestoreBackup BY Zenon, <1>4 DEF RestoreBackup
<1>5. ASSUME NEW d \in Data, Commit(d)
      PROVE  Safe'
  BY <1>5 DEF Commit, Promise!Successors
<1>6. CASE SyncLog BY Zenon, <1>6 DEF SyncLog
<1>7. CASE OpenBackup BY <1>7 DEF OpenBackup
<1>8. CASE CopyBackup BY Zenon, <1>8 DEF CopyBackup
<1>9. CASE OpenTmp BY Zenon, <1>9 DEF OpenTmp
<1>10. CASE SyncTmp BY Zenon, <1>10 DEF SyncTmp
<1>11. CASE Rename BY Zenon, <1>11 DEF Rename
<1>12. CASE Unlink BY Zenon, <1>12 DEF Unlink
<1>13. CASE Fail BY <1>13 DEF Fail
<1>14. CASE Kill BY Zenon, <1>14 DEF Kill
<1>15. CASE PowerFail BY <1>15 DEF PowerFail
<1>16. CASE Decay BY Zenon, <1>16 DEF Decay
<1>17. CASE UNCHANGED vars BY Zenon, <1>17 DEF vars
<1> QED
  BY Zenon, <1>1, <1>2, <1>3, <1>4, <1>5, <1>6, <1>7, <1>8, <1>9, <1>10, <1>11, <1>12,
     <1>13, <1>14, <1>15, <1>16, <1>17 DEF Next

LEMMA StoreStep == Spec => []StoreInv
<1>1. StoreInv /\ [Next]_vars => StoreInv'
  BY Zenon, NextType, NextSafe DEF StoreInv
<1> QED BY StoreInit, <1>1, PTL DEF Spec

(* Every file, the state in memory and the state being written are always  *)
(* what the program can parse: a torn file is never handed to the kernel.  *)
THEOREM StoreTypes == Spec => []TypeOK
<1>1. StoreInv => TypeOK BY Zenon DEF StoreInv
<1> QED BY StoreStep, <1>1, PTL

(* Every step of the manager is a step of DurableState or leaves it alone. *)
LEMMA StepRefines == StoreInv /\ [Next]_vars => [Promise!Next]_(Promise!vars)
<1> SUFFICES ASSUME StoreInv, [Next]_vars
             PROVE  Promise!Next \/ UNCHANGED Promise!vars
  BY Zenon
<1> USE StatesAreStates, StatesAreWhole, Distinct
    DEF StoreInv, TypeOK, Content, Writing, Whole, Near, StateOf, Safe, Change, Sync, Hand,
        Promise!Next, Promise!vars, Promise!Drift, Promise!Ack, Promise!Start,
        Promise!Stop, Promise!Decay
<1>0. CASE intact' = FALSE BY Zenon, <1>0
<1> SUFFICES ASSUME intact' # FALSE
             PROVE  Promise!Next \/ UNCHANGED Promise!vars
  BY Zenon, <1>0
<1>1. CASE FindLog BY Zenon, <1>1 DEF FindLog
<1>2. CASE DiscardLog BY Zenon, <1>2 DEF DiscardLog
<1>3. CASE LoadState BY Zenon, <1>3 DEF Genesis, Promise!Genesis, LoadState
<1>4. CASE RestoreBackup BY Zenon, <1>4 DEF RestoreBackup
<1>5. ASSUME NEW d \in Data, Commit(d)
      PROVE  Promise!Next \/ UNCHANGED Promise!vars
  BY Zenon, <1>5 DEF Genesis, Promise!Genesis, Commit, Promise!Successors
<1>6. CASE SyncLog BY Zenon, <1>6 DEF SyncLog
<1>7. CASE OpenBackup BY Zenon, <1>7 DEF OpenBackup
<1>8. CASE CopyBackup BY Zenon, <1>8 DEF CopyBackup
<1>9. CASE OpenTmp BY Zenon, <1>9 DEF OpenTmp
<1>10. CASE SyncTmp BY Zenon, <1>10 DEF SyncTmp
<1>11. CASE Rename BY Zenon, <1>11 DEF Rename
<1>12. CASE Unlink BY Zenon, <1>12 DEF Unlink
<1>13. CASE Fail BY Zenon, <1>13 DEF Fail
<1>14. CASE Kill BY Zenon, <1>14 DEF Genesis, Promise!Genesis, Kill
<1>15. CASE PowerFail BY Zenon, <1>15 DEF Genesis, Promise!Genesis, PowerFail
<1>16. CASE Decay BY Zenon, <1>16 DEF Decay
<1>17. CASE UNCHANGED vars BY Zenon, <1>17 DEF vars
<1> QED
  BY Zenon, <1>1, <1>2, <1>3, <1>4, <1>5, <1>6, <1>7, <1>8, <1>9, <1>10, <1>11, <1>12,
     <1>13, <1>14, <1>15, <1>16, <1>17 DEF Next

(* The manager implements DurableState: commits are atomic, linked and     *)
(* survive kills, power failures and I/O errors at any file operation.     *)
THEOREM Implements == Spec => AtomicAndDurable
<1>1. Init => Promise!Init
  BY Distinct DEF Init, Promise!Init, Genesis, Promise!Genesis
<1>2. StoreInv /\ [Next]_vars => [Promise!Next]_(Promise!vars)
  BY Zenon, StepRefines
<1> QED BY StoreStep, <1>1, <1>2, PTL DEF Spec, AtomicAndDurable, Promise!Spec

(* No start and no commit takes back what the kernel was given before,     *)
(* however often recovery itself was interrupted.                          *)
THEOREM HistoryGrows == Spec => HistoryOnlyGrows
<1>1. StoreInv /\ [Next]_vars => [intact' => acked' \in Near]_vars
  <2> SUFFICES ASSUME StoreInv, Next, intact', ~(UNCHANGED acked) PROVE acked' \in Near
    BY Zenon DEF Near
  <2>1. Safe
    <3>1. intact
      BY Zenon DEF Next, FindLog, DiscardLog, LoadState, RestoreBackup, Commit, SyncLog, OpenBackup,
         CopyBackup, OpenTmp, SyncTmp, Rename, Unlink, Fail, Kill, PowerFail, Decay
    <3> QED
      BY Zenon, <3>1 DEF StoreInv
  <2>2. CASE LoadState
    BY Zenon, <2>1, <2>2 DEF LoadState, Hand, Safe, StateOf, Near
  <2>3. CASE RestoreBackup
    BY Zenon, <2>1, <2>3 DEF RestoreBackup, Safe
  <2>4. CASE Unlink
    BY Zenon, <2>1, <2>4 DEF Unlink, Hand, Safe, Writing
  <2> QED
    BY Zenon, <2>2, <2>3, <2>4 DEF Next, FindLog, DiscardLog, Commit, SyncLog, OpenBackup, CopyBackup,
       OpenTmp, SyncTmp, Rename, Fail, Kill, PowerFail, Decay
<1>2. acked' \in Near => acked' = acked \/ \E d \in Data : acked' = Promise!Linked(acked, d)
  BY Zenon DEF Near, Promise!Successors
<1> QED
  BY StoreStep, <1>1, <1>2, PTL DEF Spec, HistoryOnlyGrows

-----------------------------------------------------------------------------
(* What damage to the state file costs.  The backup is at most one commit  *)
(* behind, on every disk image a power failure may leave (Spare), unless   *)
(* the image has a log that is rolled forward instead.                     *)

Recent(s, tick) == s.tick = tick \/ s.tick + 1 = tick

BackedUp(image, tick) ==
  /\ image.bak = Absent => tick <= 1
  /\ Whole(image.bak) => Recent(image.bak, tick)

Spare(image) ==
  /\ image.state = Absent => image.bak = Absent
  /\ Whole(image.wal) =>
       /\ image.wal.tick = acked.tick \/ image.wal.tick = acked.tick + 1
       /\ Whole(image.state) => Recent(image.state, image.wal.tick)
       /\ image.state = Absent => image.wal.tick <= 1
  /\ ~Whole(image.wal) =>
       /\ Whole(image.state) => image.state.tick = acked.tick
       /\ image.state = Absent => acked.tick = 0
       /\ BackedUp(image, acked.tick)

(* A start that finds only the backup, or nothing, finds it on every       *)
(* image: the state it goes back to is the only one left.                  *)
NothingElse ==
  mem = Absent /\ fs.state = Torn /\ ~Whole(fs.wal) /\ (Whole(fs.bak) \/ acked.tick # 0)
    => \A i \in images : i.state = Torn /\ ~Whole(i.wal) /\ i.bak = fs.bak

LossInv ==
  /\ TypeOK
  /\ pc \in {"idle", "wal"} => mem # Absent
  /\ pc \in {"down", "load"} => mem = Absent
  /\ mem # Absent => mem = acked
  /\ fs \in images
  /\ \A i \in images : Spare(i)
  /\ NothingElse
  /\ mem # Absent => BackedUp(fs, acked.tick)
  /\ mem # Absent /\ fs.state = Torn => acked.tick = 0 /\ ~Whole(fs.bak)
  /\ mem # Absent /\ pc # "unlink" =>
       /\ Whole(fs.state) => fs.state.tick = acked.tick
       /\ fs.state = Absent => acked.tick = 0
  /\ pc \in Writing => target.tick = acked.tick + 1 \/ (target.tick = acked.tick /\ mem = Absent)
  /\ pc \in Writing \ {"wal"} => fs.wal = target
  /\ pc \in {"tmp", "sync", "rename", "unlink"} => BackedUp(fs, target.tick)
  /\ pc \in {"rename", "unlink"} => \A i \in images : i.wal = target
  /\ pc = "copy" => fs.state # Absent
  /\ pc = "load" => ~Whole(fs.wal)
  /\ pc = "rename" => fs.tmp = target
  /\ pc = "unlink" => fs.state = target

LEMMA TicksAreNumbers ==
  ASSUME TypeOK
  PROVE  /\ acked.tick \in Nat /\ target.tick \in Nat /\ (mem # Absent => mem.tick \in Nat)
         /\ fs \in File /\ images \subseteq File
         /\ \A i \in File : /\ Whole(i.wal) => i.wal.tick \in Nat
                            /\ Whole(i.state) => i.state.tick \in Nat
                            /\ Whole(i.bak) => i.bak.tick \in Nat
BY Zenon DEF TypeOK, File, Content, State, Whole

LEMMA LossInit == Init => LossInv
<1> SUFFICES ASSUME Init PROVE LossInv
  BY Zenon
<1>1. TypeOK
  BY Zenon, StoreInit DEF StoreInv
<1>2. acked.tick = 0
  BY Zenon DEF Init, Genesis, Promise!Genesis
<1> QED
  BY <1>1, <1>2, Distinct DEF Init, LossInv, Spare, NothingElse, BackedUp, Whole, Writing

LEMMA LossStep == LossInv /\ [Next]_vars => LossInv'
<1> SUFFICES ASSUME LossInv, [Next]_vars PROVE LossInv'
  BY Zenon
<1>0. TypeOK' /\ (pc \in {"idle", "wal"} => mem # Absent)'
  BY Zenon, NextType DEF LossInv
<1> USE <1>0, TicksAreNumbers, StatesAreStates, StatesAreWhole, Distinct
    DEF LossInv, Writing, Whole, Spare, NothingElse, BackedUp, Recent, Change, Sync, Hand, File
<1>1. CASE FindLog BY Zenon, <1>1 DEF FindLog
<1>2. CASE DiscardLog BY <1>2 DEF DiscardLog
<1>3. CASE LoadState BY <1>3 DEF LoadState, Genesis, Promise!Genesis
<1>4. CASE RestoreBackup BY <1>4 DEF RestoreBackup
<1>5. ASSUME NEW d \in Data, Commit(d) PROVE LossInv'
  BY Zenon, <1>5 DEF Commit, Promise!Linked
<1>6. CASE SyncLog
  <2>1. /\ fs' = [fs EXCEPT !.wal = target] /\ images' = {fs'} /\ pc = "wal" /\ pc' = "backup"
        /\ UNCHANGED <<target, mem, acked>>
    BY ONLY Zenon, <1>6 DEF SyncLog, Sync
  <2>2. fs'.wal = target /\ fs'.state = fs.state /\ fs'.bak = fs.bak
    BY Zenon, <2>1
  <2>3. mem # Absent /\ target.tick = acked.tick + 1 /\ acked.tick \in Nat /\ Spare(fs)
    BY Zenon, <2>1
  <2>4. /\ Whole(fs.state) => fs.state.tick = acked.tick
        /\ fs.state = Absent => acked.tick = 0
    BY Zenon, <2>1, <2>3
  <2>5. Spare(fs)'
    <3>1. target \notin {Absent, Torn}
      BY Zenon DEF TypeOK
    <3> QED
      BY ONLY <2>1, <2>2, <2>3, <2>4, <3>1 DEF Spare, Whole, Recent, BackedUp
  <2>6. \A i \in images' : Spare(i)'
    BY ONLY Zenon, <2>1, <2>5
  <2>7. NothingElse'
    BY ONLY Zenon, <2>1, <2>3 DEF NothingElse
  <2>8. BackedUp(fs, acked.tick)'
    <3>1. BackedUp(fs, acked.tick)
      BY Zenon, <2>3
    <3> QED
      BY ONLY Zenon, <2>1, <2>2, <3>1 DEF BackedUp, Whole, Recent
  <2> QED
    BY Zenon, <2>1, <2>2, <2>3, <2>4, <2>6, <2>7, <2>8
<1>7. CASE OpenBackup
  <2>1. CASE fs.state = Absent
    BY <1>7, <2>1 DEF OpenBackup
  <2>2. CASE fs.state # Absent
    <3>1. /\ fs' = [fs EXCEPT !.bak = Torn] /\ images' = images \cup {fs'} /\ pc = "backup" /\ pc' = "copy"
          /\ UNCHANGED <<target, mem, acked>>
      BY Zenon, <1>7, <2>2 DEF OpenBackup
    <3>2. fs'.wal = fs.wal /\ fs'.state = fs.state /\ fs'.tmp = fs.tmp /\ fs'.bak = Torn
      BY Zenon, <3>1
    <3>3. \A i \in images' : Spare(i)'
      BY <2>2, <3>1, <3>2
    <3>4. Whole(fs.wal)'
      BY Zenon, <3>1, <3>2 DEF TypeOK
    <3>5. NothingElse' /\ BackedUp(fs, acked.tick)'
      BY ONLY Zenon, <3>2, <3>4, Distinct DEF NothingElse, BackedUp, Whole
    <3> QED
      BY Zenon, <2>2, <3>1, <3>2, <3>3, <3>5
  <2> QED BY Zenon, <2>1, <2>2
<1>8. CASE CopyBackup
  <2>1. /\ fs' = [fs EXCEPT !.bak = fs.state] /\ images' = images \cup {fs'} /\ pc = "copy" /\ pc' = "tmp"
        /\ UNCHANGED <<target, mem, acked>>
    BY Zenon, <1>8 DEF CopyBackup
  <2>2. fs'.wal = fs.wal /\ fs'.state = fs.state /\ fs'.tmp = fs.tmp /\ fs'.bak = fs.state
    BY Zenon, <2>1
  <2>3. \A i \in images' : Spare(i)'
    BY <2>1, <2>2
  <2>4. Whole(fs.wal)'
    BY Zenon, <2>1, <2>2 DEF TypeOK
  <2>5. NothingElse'
    BY ONLY Zenon, <2>4 DEF NothingElse
  <2>6. (mem # Absent => BackedUp(fs, acked.tick))'
    BY Zenon, <2>1, <2>2
  <2>7. BackedUp(fs, target.tick)'
    BY Zenon, <2>1, <2>2
  <2> QED
    BY Zenon, <2>1, <2>2, <2>3, <2>5, <2>6, <2>7
<1>9. CASE OpenTmp BY <1>9 DEF OpenTmp
<1>10. CASE SyncTmp BY <1>10 DEF SyncTmp
<1>11. CASE Rename
  <2>1. /\ fs' = [fs EXCEPT !.state = fs.tmp, !.tmp = Absent] /\ images' = images \cup {fs'}
        /\ pc = "rename" /\ pc' = "unlink" /\ UNCHANGED <<target, mem, acked>>
    BY Zenon, <1>11 DEF Rename
  <2>2. fs'.wal = target /\ fs'.state = target /\ fs'.bak = fs.bak
    BY Zenon, <2>1
  <2>3. \A i \in images : Spare(i)' /\ i.wal = target
    BY Zenon, <2>1
  <2>4. target \in State /\ Whole(target)
    BY Zenon DEF TypeOK
  <2>5. Spare(fs)'
    BY Zenon, <2>1, <2>2, <2>4
  <2>6. NothingElse'
    BY ONLY Zenon, <2>2, <2>4 DEF NothingElse, Whole
  <2>7. (mem # Absent => BackedUp(fs, acked.tick))' /\ BackedUp(fs, target.tick)'
    <3>1. BackedUp(fs, target.tick) /\ (mem # Absent => BackedUp(fs, acked.tick))
      BY Zenon, <2>1
    <3> QED
      BY ONLY Zenon, <2>1, <2>2, <3>1 DEF BackedUp
  <2>8. (mem # Absent /\ fs.state = Torn => acked.tick = 0 /\ ~Whole(fs.bak))'
    BY ONLY Zenon, <2>2, <2>4 DEF Whole
  <2>9. /\ (fs \in images)' /\ (mem # Absent => mem = acked)'
        /\ \A i \in images' : Spare(i)' /\ i.wal = target'
    <3>1. (fs \in images)' /\ \A i \in images' : i \in images \/ i = fs'
      BY ONLY Zenon, <2>1
    <3>2. mem # Absent => mem = acked
      BY Zenon
    <3>3. target' = target /\ mem' = mem /\ acked' = acked /\ fs'.wal = target
      BY ONLY Zenon, <2>1, <2>2
    <3>4. ASSUME NEW i \in images' PROVE Spare(i)' /\ i.wal = target'
      <4>1. CASE i \in images
        BY ONLY Zenon, <2>3, <3>3, <4>1
      <4>2. CASE i = fs'
        BY ONLY Zenon, <2>5, <3>3, <4>2
      <4> QED
        BY ONLY Zenon, <3>1, <4>1, <4>2, i \in images'
    <3> QED
      BY ONLY Zenon, <3>1, <3>2, <3>3, <3>4
  <2>10. pc' \in Writing => target'.tick = acked'.tick + 1 \/ (target'.tick = acked'.tick /\ mem' = Absent)
    BY Zenon, <2>1 DEF Writing
  <2> QED
    BY ONLY Zenon, <2>1, <2>2, <2>6, <2>7, <2>8, <2>9, <2>10, TypeOK' DEF LossInv
<1>12. CASE Unlink
  <2>1. /\ fs' = [fs EXCEPT !.wal = Absent] /\ images' = images \cup {fs'} /\ pc = "unlink" /\ pc' = "idle"
        /\ target' = target /\ mem' = target /\ acked' = target
    BY Zenon, <1>12 DEF Unlink
  <2>2. fs'.wal = Absent /\ fs'.state = target /\ fs'.bak = fs.bak
    BY Zenon, <2>1
  <2>3. target \in State /\ Whole(target)
    BY Zenon DEF TypeOK
  <2>4. \A i \in images : Spare(i)'
    BY Zenon, <2>1, <2>3
  <2>5. BackedUp(fs, acked.tick)'
    <3>1. BackedUp(fs, target.tick)
      BY Zenon, <2>1
    <3> QED
      BY ONLY Zenon, <2>1, <2>2, <3>1 DEF BackedUp
  <2>6. Spare(fs)'
    BY ONLY Zenon, <2>1, <2>2, <2>3, <2>5 DEF Spare, Whole
  <2>7. NothingElse'
    BY ONLY Zenon, <2>1, <2>2, <2>3 DEF NothingElse, Whole
  <2>8. (mem # Absent /\ fs.state = Torn => acked.tick = 0 /\ ~Whole(fs.bak))'
    BY ONLY Zenon, <2>2, <2>3 DEF Whole
  <2> QED
    BY Zenon, <2>1, <2>2, <2>3, <2>4, <2>5, <2>6, <2>7, <2>8
<1>13. CASE Fail
  <2>1. /\ pc \in Writing \ {"unlink"} /\ pc' = (IF mem = Absent THEN "down" ELSE "idle")
        /\ UNCHANGED <<target, mem, acked>>
    BY Zenon, <1>13 DEF Fail
  <2>2. CASE UNCHANGED <<fs, images>>
    BY <2>1, <2>2
  <2>3. CASE pc = "wal" /\ Change([fs EXCEPT !.wal = target])
    <3>1. fs'.wal = target /\ fs'.state = fs.state /\ fs'.bak = fs.bak /\ images' = images \cup {fs'}
      BY Zenon, <2>3
    <3>2. \A i \in images' : Spare(i)'
      BY <2>1, <2>3, <3>1
    <3> QED
      BY Zenon, <2>1, <2>3, <3>1, <3>2
  <2>4. CASE pc = "copy" /\ Change([fs EXCEPT !.bak = fs.state])
    <3>1. fs'.wal = fs.wal /\ fs'.state = fs.state /\ fs'.bak = fs.state /\ images' = images \cup {fs'}
      BY Zenon, <2>4
    <3>2. \A i \in images' : Spare(i)'
      BY <2>1, <2>4, <3>1
    <3>3. Whole(fs.wal)'
      BY Zenon, <2>1, <2>4, <3>1 DEF TypeOK
    <3>4. NothingElse'
      BY ONLY Zenon, <3>3 DEF NothingElse
    <3>5. (mem # Absent => BackedUp(fs, acked.tick))'
      BY Zenon, <2>1, <2>4, <3>1
    <3> QED
      BY Zenon, <2>1, <2>4, <3>1, <3>2, <3>4, <3>5
  <2> QED BY Zenon, <1>13, <2>2, <2>3, <2>4 DEF Fail
<1>14. CASE Kill BY Zenon, <1>14 DEF Kill
<1>15. CASE PowerFail
  <2>1. PICK image \in images :
          fs' = image \/ (image.bak # Absent /\ fs' = [image EXCEPT !.bak = Torn])
    BY ONLY Zenon, <1>15 DEF PowerFail
  <2>2. images' = {fs'} /\ pc' = "down" /\ mem' = Absent /\ UNCHANGED <<target, acked>>
    BY ONLY Zenon, <1>15 DEF PowerFail
  <2>3. image \in File /\ Spare(image)
    BY Zenon, <2>1
  <2>4. /\ fs'.wal = image.wal /\ fs'.state = image.state
        /\ fs'.bak = image.bak \/ (fs'.bak = Torn /\ image.bak # Absent)
    BY ONLY Zenon, <2>1, <2>3 DEF File
  <2>5. Spare(fs)'
    BY ONLY <2>2, <2>3, <2>4, Distinct DEF Spare, BackedUp, Whole, Recent
  <2>6. fs' \in images' /\ (\A i \in images' : Spare(i)') /\ NothingElse'
    BY ONLY Zenon, <2>2, <2>5 DEF NothingElse
  <2> QED
    BY ONLY Zenon, <1>0, <2>2, <2>6 DEF LossInv, Writing
<1>16. CASE Decay
  <2>1. /\ pc = "down" /\ pc' = "down" /\ fs' = [fs EXCEPT !.state = Torn]
        /\ Whole(fs.state) /\ images' = {fs'} /\ UNCHANGED <<target, mem, acked>>
    BY ONLY Zenon, <1>16 DEF Decay, Sync
  <2>2. mem = Absent /\ fs \in File /\ Spare(fs)
    BY Zenon, <2>1
  <2>3. fs'.wal = fs.wal /\ fs'.state = Torn /\ fs'.bak = fs.bak /\ fs.state # Absent
    BY ONLY Zenon, <2>1, <2>2, Distinct DEF File, Whole
  <2>4. Spare(fs)'
    BY ONLY Zenon, <2>1, <2>2, <2>3, Distinct DEF Spare, Whole, BackedUp
  <2>5. fs' \in images' /\ (\A i \in images' : Spare(i)') /\ NothingElse'
    BY ONLY Zenon, <2>1, <2>3, <2>4 DEF NothingElse
  <2>6. pc' = "down" /\ mem' = Absent
    BY ONLY Zenon, <2>1, <2>2
  <2> QED
    BY ONLY Zenon, <1>0, <2>5, <2>6 DEF LossInv, Writing
<1>17. CASE UNCHANGED vars
  <2>1. UNCHANGED <<fs, images, pc, target, mem, acked>>
    BY ONLY Zenon, <1>17 DEF vars
  <2>2. \A i : Spare(i)' <=> Spare(i)
    BY ONLY <2>1 DEF Spare, BackedUp, Whole, Recent
  <2>3. NothingElse' <=> NothingElse
    BY ONLY Zenon, <2>1 DEF NothingElse, Whole
  <2>4. /\ BackedUp(fs, acked.tick)' <=> BackedUp(fs, acked.tick)
        /\ BackedUp(fs, target.tick)' <=> BackedUp(fs, target.tick)
    BY ONLY Zenon, <2>1 DEF BackedUp, Whole, Recent
  <2> QED
    BY ONLY LossInv, TypeOK', <2>1, <2>2, <2>3, <2>4 DEF LossInv, Whole
<1> QED
  BY Zenon, <1>1, <1>2, <1>3, <1>4, <1>5, <1>6, <1>7, <1>8, <1>9, <1>10, <1>11, <1>12,
     <1>13, <1>14, <1>15, <1>16, <1>17 DEF Next

(* A start that mends a damaged state file falls back by one commit at     *)
(* most, whatever had interrupted earlier commits and recoveries.          *)
THEOREM OneCommitLost == Spec => LosesAtMostOneCommit
<1>1. LossInv /\ [Next]_vars => [mem = Absent /\ mem' # Absent => mem'.tick + 1 >= acked.tick]_vars
  <2> SUFFICES ASSUME LossInv, Next, mem = Absent, mem' # Absent
               PROVE  mem'.tick + 1 >= acked.tick
    BY Zenon DEF vars
  <2>1. CASE LoadState
    BY <2>1, TicksAreNumbers DEF LossInv, LoadState, Genesis, Promise!Genesis, Hand, Spare, BackedUp, Whole
  <2>2. CASE RestoreBackup
    BY <2>2, TicksAreNumbers DEF LossInv, RestoreBackup, Hand, Spare, BackedUp, Recent, Whole
  <2>3. CASE Unlink
    BY <2>3, TicksAreNumbers DEF LossInv, Unlink, Hand, Writing
  <2> QED
    BY Zenon, <2>1, <2>2, <2>3 DEF Next, FindLog, DiscardLog, Commit, SyncLog, OpenBackup, CopyBackup,
       OpenTmp, SyncTmp, Rename, Fail, Kill, PowerFail, Decay
<1> QED
  BY <1>1, LossInit, LossStep, PTL DEF Spec, LosesAtMostOneCommit

-----------------------------------------------------------------------------
(* The federation transport.                                               *)

Shaking == {"dial", "hello", "key"}

Dialling(c, n, m) == client[c] = n /\ server[c] = m /\ stage[c][n] \in Shaking

(* What ListedIsServed says of a connection listed at n for m.             *)
Served(c, n, m) ==
  /\ {client[c], server[c]} = {n, m} /\ n # m
  /\ stage[c][n] = "loop"
  /\ n \in established[c] /\ n \in is_open[c]

(* The two ends of a connection are different nodes, nothing has happened  *)
(* on one that was not dialled, and only its ends have coroutines.         *)
EndsDiffer ==
  \A c \in Connection :
    /\ client[c] # None => server[c] \in Host /\ client[c] # server[c]
    /\ client[c] = None => \A n \in Host : stage[c][n] = "none"
    /\ \A n \in Host \ {client[c], server[c]} : stage[c][n] = "none"

(* While a client dials, the server's coroutine has not started.           *)
DialFirst ==
  \A c \in Connection :
    client[c] # None /\ stage[c][client[c]] = "dial" => stage[c][server[c]] = "none"

(* No end is closed before its handshake is over.                          *)
OpenWhileShaking ==
  \A c \in Connection, n \in Host : stage[c][n] \in {"hello", "key"} => n \in is_open[c]

(* A node has at most one dial to another under way.                       *)
OneDial ==
  \A c, d \in Connection, n, m \in Host : Dialling(c, n, m) /\ Dialling(d, n, m) => c = d

(* ListedIsServed alone is not inductive: a connection must be open when   *)
(* its handshake ends, and an acceptance must find the server's end new.   *)
TransportInv ==
  /\ TransportTypeOK
  /\ EndsDiffer /\ DialFirst /\ OpenWhileShaking /\ OneDial
  /\ ListedIsServed /\ PendingIsDialling

-----------------------------------------------------------------------------
LEMMA TransportStarts == TransportInit => TransportInv
<1> SUFFICES ASSUME TransportInit PROVE TransportInv
  BY Zenon
<1> USE TransportAssumption DEF TransportInit
<1>1. TransportTypeOK
  BY Zenon DEF TransportTypeOK, Stage
<1>2. EndsDiffer /\ DialFirst /\ OpenWhileShaking
  BY Zenon DEF EndsDiffer, DialFirst, OpenWhileShaking
<1>3. OneDial /\ PendingIsDialling
  BY Zenon DEF OneDial, PendingIsDialling, Dialling, Shaking
<1>4. ListedIsServed
  BY Zenon DEF ListedIsServed
<1>5. QED
  BY Zenon, <1>1, <1>2, <1>3, <1>4 DEF TransportInv

(* Dialling a node.                                                        *)
LEMMA ConnectKeeps ==
  ASSUME NEW n \in Host, NEW m \in Host, NEW c \in Connection,
         TransportInv, connect_to_peer(n, m, c)
  PROVE  TransportInv'
<1> USE TransportAssumption DEF TransportInv
<1>1. TransportTypeOK'
  BY Zenon DEF TransportTypeOK, connect_to_peer, Stage
<1>2. \A d \in Connection, k \in Host :
         stage'[d][k] = IF d = c /\ k = n THEN "dial" ELSE stage[d][k]
  BY Zenon DEF TransportTypeOK, connect_to_peer
<1>3. \A d \in Connection : /\ client'[d] = IF d = c THEN n ELSE client[d]
                            /\ server'[d] = IF d = c THEN m ELSE server[d]
  BY Zenon DEF TransportTypeOK, connect_to_peer
<1>4. n # m /\ client[c] = None /\ m \notin pending_connections[n]
  BY Zenon DEF connect_to_peer
<1>5. UNCHANGED <<is_open, established, peers>>
  BY Zenon DEF connect_to_peer
<1>6. \A k, l \in Host : l \in pending_connections'[k] <=> l \in pending_connections[k] \/ (k = n /\ l = m)
  BY Zenon DEF TransportTypeOK, connect_to_peer
<1>7. EndsDiffer'
  <2> SUFFICES ASSUME NEW d \in Connection
               PROVE  /\ client'[d] # None => server'[d] \in Host /\ client'[d] # server'[d]
                      /\ client'[d] = None => \A k \in Host : stage'[d][k] = "none"
                      /\ \A k \in Host \ {client'[d], server'[d]} : stage'[d][k] = "none"
    BY Zenon DEF EndsDiffer
  <2>1. CASE d = c
    BY <2>1, <1>2, <1>3, <1>4 DEF EndsDiffer
  <2>2. CASE d # c
    BY <2>2, <1>2, <1>3 DEF EndsDiffer
  <2>3. QED
    BY Zenon, <2>1, <2>2
<1>8. DialFirst'
  <2> SUFFICES ASSUME NEW d \in Connection, client'[d] # None, stage'[d][client'[d]] = "dial"
               PROVE  stage'[d][server'[d]] = "none"
    BY Zenon DEF DialFirst
  <2>1. CASE d = c
    BY <2>1, <1>2, <1>3, <1>4 DEF EndsDiffer
  <2>2. CASE d # c
    <3>1. client[d] # None /\ client[d] \in Host /\ server[d] \in Host
      BY <2>2, <1>3 DEF EndsDiffer, TransportTypeOK
    <3>2. QED
      BY <3>1, <2>2, <1>2, <1>3 DEF DialFirst
  <2>3. QED
    BY Zenon, <2>1, <2>2
<1>9. OpenWhileShaking'
  BY Zenon, <1>2, <1>5 DEF OpenWhileShaking
<1>10. OneDial'
  <2>1. \A d \in Connection, k, l \in Host :
           Dialling(d, k, l)' => Dialling(d, k, l) \/ (d = c /\ k = n /\ l = m)
    BY Zenon, <1>2, <1>3, <1>4 DEF Dialling
  <2>2. \A d \in Connection : ~Dialling(d, n, m)
    BY Zenon, <1>4 DEF PendingIsDialling, Dialling, Shaking
  <2>3. QED
    BY <2>1, <2>2 DEF OneDial
<1>11. ListedIsServed'
  <2> SUFFICES ASSUME NEW k \in Host, NEW l \in Host, peers'[k][l] # None
               PROVE  Served(peers[k][l], k, l)'
    BY Zenon DEF ListedIsServed, Served
  <2>1. peers[k][l] \in Connection /\ peers'[k][l] = peers[k][l]
    BY <1>5 DEF TransportTypeOK
  <2>2. Served(peers[k][l], k, l)
    BY Zenon, <1>5, <2>1 DEF ListedIsServed, Served
  <2>3. peers[k][l] # c
    BY Zenon, <2>2, <1>4 DEF Served
  <2>4. QED
    BY Zenon, <2>1, <2>2, <2>3, <1>2, <1>3, <1>5 DEF Served
<1>12. PendingIsDialling'
  <2> SUFFICES ASSUME NEW k \in Host, NEW l \in Host
               PROVE  (l \in pending_connections'[k]) <=>
                        \E d \in Connection : client'[d] = k /\ server'[d] = l
                                              /\ stage'[d][k] \in {"dial", "hello", "key"}
    BY Zenon DEF PendingIsDialling
  <2>1. CASE k = n /\ l = m
    BY Zenon, <2>1, <1>2, <1>3, <1>6
  <2>2. CASE ~(k = n /\ l = m)
    BY <2>2, <1>2, <1>3, <1>4, <1>6 DEF PendingIsDialling, EndsDiffer
  <2>3. QED
    BY Zenon, <2>1, <2>2
<1>13. QED
  BY Zenon, <1>1, <1>7, <1>8, <1>9, <1>10, <1>11, <1>12

-----------------------------------------------------------------------------
(* The coroutine of n on c moves on to y, and what that means per end.     *)
Moves(c, n, y) ==
  /\ stage[c][n] # "none"
  /\ y = "key" => stage[c][n] \in Shaking
  /\ stage' = [stage EXCEPT ![c][n] = y]
  /\ UNCHANGED <<client, server>>

Moved(c, n, y) ==
  \A d \in Connection, k \in Host : stage'[d][k] = IF d = c /\ k = n THEN y ELSE stage[d][k]

(* The dials under way after it.                                           *)
DialsLeft(c, n, y) ==
  \A d \in Connection, k, l \in Host :
    Dialling(d, k, l)' <=> Dialling(d, k, l) /\ ~(d = c /\ n = client[c] /\ y # "key")

LEMMA StageMoves ==
  ASSUME NEW c \in Connection, NEW n \in Host, NEW y \in {"key", "loop", "over"},
         TransportTypeOK, EndsDiffer, DialFirst, OneDial, Moves(c, n, y)
  PROVE  /\ stage' \in [Connection -> [Host -> Stage]]
         /\ Moved(c, n, y) /\ DialsLeft(c, n, y)
         /\ EndsDiffer' /\ DialFirst' /\ OneDial'
<1> USE TransportAssumption DEF Moves
<1>1. stage' \in [Connection -> [Host -> Stage]]
  BY Zenon DEF TransportTypeOK, Stage
<1>2. Moved(c, n, y)
  BY Zenon DEF TransportTypeOK, Moved
<1>3. EndsDiffer'
  BY <1>2 DEF EndsDiffer, Moved
<1>4. DialFirst'
  <2> SUFFICES ASSUME NEW d \in Connection, client[d] # None, stage'[d][client[d]] = "dial"
               PROVE  stage'[d][server[d]] = "none"
    BY Zenon DEF DialFirst
  <2>1. client[d] \in Host /\ server[d] \in Host
    BY DEF EndsDiffer, TransportTypeOK
  <2>2. stage[d][client[d]] = "dial"
    BY <2>1, <1>2 DEF Moved
  <2>3. stage[d][server[d]] = "none"
    BY Zenon, <2>2 DEF DialFirst
  <2>4. QED
    BY Zenon, <2>1, <2>3, <1>2 DEF Moved
<1>5. DialsLeft(c, n, y)
  <2> SUFFICES ASSUME NEW d \in Connection, NEW k \in Host, NEW l \in Host
               PROVE  Dialling(d, k, l)' <=> Dialling(d, k, l) /\ ~(d = c /\ n = client[c] /\ y # "key")
    BY Zenon DEF DialsLeft
  <2>1. CASE d = c /\ k = n
    BY Zenon, <2>1, <1>2 DEF Dialling, Shaking, Moved
  <2>2. CASE ~(d = c /\ k = n)
    BY Zenon, <2>2, <1>2 DEF Dialling, Moved
  <2>3. QED
    BY Zenon, <2>1, <2>2
<1>6. OneDial'
  BY Zenon, <1>5 DEF OneDial, DialsLeft
<1>7. QED
  BY Zenon, <1>1, <1>2, <1>3, <1>4, <1>5, <1>6

(* An end in its handshake is not listed, so its moves touch no listing.   *)
OthersStayOpen(c, n) ==
  \A d \in Connection, k \in Host : ~(d = c /\ k = n) /\ k \in is_open[d] => k \in is_open'[d]

LEMMA ShakingIsUnlisted ==
  ASSUME NEW c \in Connection, NEW n \in Host, NEW y,
         TransportTypeOK, ListedIsServed,
         stage[c][n] \in Shaking, Moved(c, n, y), OthersStayOpen(c, n),
         UNCHANGED <<client, server, established, peers>>
  PROVE  ListedIsServed'
<1> SUFFICES ASSUME NEW k \in Host, NEW l \in Host, peers[k][l] # None
             PROVE  Served(peers[k][l], k, l)'
  BY Zenon DEF ListedIsServed, Served
<1>1. peers[k][l] \in Connection
  BY DEF TransportTypeOK
<1>2. Served(peers[k][l], k, l)
  BY Zenon DEF ListedIsServed, Served
<1>3. ~(peers[k][l] = c /\ k = n)
  BY Zenon, <1>2 DEF Served, Shaking
<1>4. QED
  BY Zenon, <1>1, <1>2, <1>3 DEF Served, Moved, OthersStayOpen

(* The first messages of the handshake.                                    *)
LEMMA HelloKeeps ==
  ASSUME NEW c \in Connection, TransportInv, ServerReadsHello(c) \/ ClientReadsHelloAck(c)
  PROVE  TransportInv'
<1> USE TransportAssumption DEF TransportInv
<1>1. PICK n \in Host : stage[c][n] = "hello" /\ stage' = [stage EXCEPT ![c][n] = "key"]
  <2>1. client[c] \in Host \cup {None} /\ (server[c] # None => server[c] \in Host)
    BY Zenon DEF TransportTypeOK
  <2>2. CASE ServerReadsHello(c)
    BY Zenon, <2>1, <2>2 DEF ServerReadsHello
  <2>3. CASE ClientReadsHelloAck(c)
    BY Zenon, <2>1, <2>3 DEF ClientReadsHelloAck
  <2>4. QED
    BY Zenon, <2>2, <2>3
<1>2. UNCHANGED <<client, server, is_open, established, peers, pending_connections, running, stopping>>
  BY Zenon DEF ServerReadsHello, ClientReadsHelloAck
<1>3. stage[c][n] \in Shaking /\ Moves(c, n, "key")
  BY Zenon, <1>1, <1>2 DEF Shaking, Moves
<1>4. /\ stage' \in [Connection -> [Host -> Stage]]
      /\ Moved(c, n, "key") /\ DialsLeft(c, n, "key")
      /\ EndsDiffer' /\ DialFirst' /\ OneDial'
  BY Zenon, <1>3, StageMoves
<1>5. TransportTypeOK'
  BY Zenon, <1>2, <1>4 DEF TransportTypeOK
<1>6. OpenWhileShaking'
  BY Zenon, <1>1, <1>2, <1>4 DEF OpenWhileShaking, Moved
<1>7. ListedIsServed'
  <2>1. OthersStayOpen(c, n)
    BY Zenon, <1>2 DEF OthersStayOpen
  <2>2. QED
    BY Zenon, <1>2, <1>3, <1>4, <2>1, ShakingIsUnlisted
<1>8. PendingIsDialling'
  BY <1>2, <1>4 DEF PendingIsDialling, DialsLeft, Dialling, Shaking
<1>9. QED
  BY Zenon, <1>4, <1>5, <1>6, <1>7, <1>8

(* The server's coroutine starts: its end was new, by DialFirst.           *)
LEMMA AcceptedKeeps ==
  ASSUME NEW c \in Connection, TransportInv, Accepted(c)
  PROVE  TransportInv'
<1> USE TransportAssumption DEF TransportInv
<1> DEFINE n == client[c]
           m == server[c]
<1>1. n \in Host /\ m \in Host /\ n # m /\ stage[c][n] = "dial" /\ stage[c][m] = "none"
  BY DEF Accepted, TransportTypeOK, EndsDiffer, DialFirst
<1>2. UNCHANGED <<client, server, established, peers, pending_connections, running, stopping>>
  BY Zenon DEF Accepted
<1>3. \A d \in Connection, k \in Host :
         stage'[d][k] = IF d = c /\ k \in {n, m} THEN "hello" ELSE stage[d][k]
  BY Zenon, <1>1 DEF Accepted, TransportTypeOK
<1>4. \A d \in Connection : is_open'[d] = IF d = c THEN {n, m} ELSE is_open[d]
  BY Zenon DEF Accepted, TransportTypeOK
<1> HIDE DEF n, m
<1>5. TransportTypeOK'
  <2>1. stage' \in [Connection -> [Host -> Stage]]
    BY Zenon, <1>1 DEF Accepted, TransportTypeOK, Stage, n, m
  <2>2. is_open' \in [Connection -> SUBSET Host]
    BY Zenon, <1>1 DEF Accepted, TransportTypeOK, n, m
  <2>3. QED
    BY Zenon, <1>2, <2>1, <2>2 DEF TransportTypeOK
<1>6. EndsDiffer'
  BY <1>1, <1>2, <1>3 DEF EndsDiffer, n, m
<1>7. DialFirst'
  <2> SUFFICES ASSUME NEW d \in Connection, client[d] # None, stage'[d][client[d]] = "dial"
               PROVE  stage'[d][server[d]] = "none"
    BY Zenon, <1>2 DEF DialFirst
  <2>1. client[d] \in Host /\ server[d] \in Host
    BY DEF EndsDiffer, TransportTypeOK
  <2>2. d # c
    BY Zenon, <2>1, <1>3 DEF n
  <2>3. QED
    BY Zenon, <2>1, <2>2, <1>3 DEF DialFirst
<1>8. OpenWhileShaking'
  <2> SUFFICES ASSUME NEW d \in Connection, NEW k \in Host, stage'[d][k] \in {"hello", "key"}
               PROVE  k \in is_open'[d]
    BY Zenon DEF OpenWhileShaking
  <2>1. CASE d = c /\ k \in {n, m}
    BY Zenon, <2>1, <1>4
  <2>2. CASE d = c /\ k \notin {n, m}
    BY Zenon, <2>2, <1>3 DEF EndsDiffer, n, m
  <2>3. CASE d # c
    BY Zenon, <2>3, <1>3, <1>4 DEF OpenWhileShaking
  <2>4. QED
    BY Zenon, <2>1, <2>2, <2>3
<1>9. \A d \in Connection, k, l \in Host : Dialling(d, k, l)' <=> Dialling(d, k, l)
  BY Zenon, <1>1, <1>2, <1>3 DEF Dialling, Shaking, n
<1>10. OneDial'
  BY Zenon, <1>9 DEF OneDial
<1>11. ListedIsServed'
  <2> SUFFICES ASSUME NEW k \in Host, NEW l \in Host, peers[k][l] # None
               PROVE  Served(peers[k][l], k, l)'
    BY Zenon, <1>2 DEF ListedIsServed, Served
  <2>1. peers[k][l] \in Connection
    BY DEF TransportTypeOK
  <2>2. Served(peers[k][l], k, l)
    BY Zenon DEF ListedIsServed, Served
  <2>3. peers[k][l] # c
    BY Zenon, <2>2, <1>1 DEF Served, n, m
  <2>4. QED
    BY Zenon, <2>1, <2>2, <2>3, <1>2, <1>3, <1>4 DEF Served
<1>12. PendingIsDialling'
  BY <1>2, <1>9 DEF PendingIsDialling, Dialling, Shaking
<1>13. QED
  BY Zenon, <1>5, <1>6, <1>7, <1>8, <1>10, <1>11, <1>12

-----------------------------------------------------------------------------
(* A handshake ends, well or badly: if it was the client's, the one dial   *)
(* to that server is no longer under way.                                  *)
PendingLeft(c, n) ==
  \A k, l \in Host :
    l \in pending_connections'[k] <=>
      l \in pending_connections[k] /\ ~(n = client[c] /\ k = n /\ l = server[c])

LEMMA PendingFollows ==
  ASSUME NEW c \in Connection, NEW n \in Host, NEW y \in {"loop", "over"},
         TransportTypeOK, EndsDiffer, OneDial, PendingIsDialling,
         n \in {client[c], server[c]}, stage[c][n] \in Shaking,
         DialsLeft(c, n, y), PendingLeft(c, n)
  PROVE  PendingIsDialling'
<1> USE TransportAssumption
<1> SUFFICES ASSUME NEW k \in Host, NEW l \in Host
             PROVE  (l \in pending_connections'[k]) <=> \E d \in Connection : Dialling(d, k, l)'
  BY Zenon DEF PendingIsDialling, Dialling, Shaking
<1>1. (l \in pending_connections[k]) <=> \E d \in Connection : Dialling(d, k, l)
  BY DEF PendingIsDialling, Dialling, Shaking
<1>2. \A d \in Connection : Dialling(d, k, l)' <=> Dialling(d, k, l) /\ ~(d = c /\ n = client[c])
  BY Zenon DEF DialsLeft
<1>3. CASE n = client[c] /\ k = n /\ l = server[c]
  <2>1. Dialling(c, k, l)
    BY Zenon, <1>3 DEF Dialling
  <2>2. \A d \in Connection : ~Dialling(d, k, l)'
    BY Zenon, <1>2, <1>3, <2>1 DEF OneDial
  <2>3. QED
    BY Zenon, <1>3, <2>2 DEF PendingLeft
<1>4. CASE ~(n = client[c] /\ k = n /\ l = server[c])
  <2>1. \A d \in Connection : Dialling(d, k, l)' <=> Dialling(d, k, l)
    BY Zenon, <1>2, <1>4 DEF Dialling
  <2>2. QED
    BY Zenon, <1>1, <1>4, <2>1 DEF PendingLeft
<1>5. QED
  BY Zenon, <1>3, <1>4

(* The last message of the handshake at an end: the connection is open, by *)
(* OpenWhileShaking, and listed.                                           *)
LEMMA KeyKeeps ==
  ASSUME NEW c \in Connection, TransportInv, ServerReadsKey(c) \/ ClientReadsKeyAck(c)
  PROVE  TransportInv'
<1> USE TransportAssumption DEF TransportInv
<1>1. PICK n \in Host : /\ n \in {client[c], server[c]} /\ stage[c][n] = "key" /\ Establish(c, n)
                        /\ PendingLeft(c, n)
  <2>1. client[c] \in Host \cup {None} /\ (server[c] # None => server[c] \in Host)
    BY Zenon DEF TransportTypeOK
  <2>2. CASE ServerReadsKey(c)
    <3>1. server[c] \in Host /\ stage[c][server[c]] = "key" /\ Establish(c, server[c])
          /\ pending_connections' = pending_connections
      BY Zenon, <2>1, <2>2 DEF ServerReadsKey
    <3>2. server[c] # client[c]
      BY Zenon, <3>1 DEF EndsDiffer
    <3>3. PendingLeft(c, server[c])
      BY Zenon, <3>1, <3>2 DEF PendingLeft
    <3>4. QED
      BY Zenon, <3>1, <3>3
  <2>3. CASE ClientReadsKeyAck(c)
    <3>1. client[c] \in Host /\ stage[c][client[c]] = "key" /\ Establish(c, client[c])
      BY Zenon, <2>1, <2>3 DEF ClientReadsKeyAck
    <3>2. PendingLeft(c, client[c])
      BY Zenon, <2>3, <3>1 DEF ClientReadsKeyAck, PendingLeft, TransportTypeOK
    <3>3. QED
      BY Zenon, <3>1, <3>2
  <2>4. QED
    BY Zenon, <2>2, <2>3
<1> DEFINE m == Other(c, n)
<1>2. UNCHANGED <<client, server, is_open, running, stopping>>
  BY Zenon DEF ServerReadsKey, ClientReadsKeyAck
<1>3. m \in Host /\ n # m /\ {client[c], server[c]} = {n, m}
  BY <1>1 DEF Other, EndsDiffer, TransportTypeOK
<1>4. stage[c][n] \in Shaking /\ Moves(c, n, "loop")
  BY Zenon, <1>1, <1>2 DEF Shaking, Moves, Establish
<1>5. /\ stage' \in [Connection -> [Host -> Stage]]
      /\ Moved(c, n, "loop") /\ DialsLeft(c, n, "loop")
      /\ EndsDiffer' /\ DialFirst' /\ OneDial'
  BY Zenon, <1>4, StageMoves
<1>6. \A k, l \in Host : peers'[k][l] = IF k = n /\ l = m THEN c ELSE peers[k][l]
  BY Zenon, <1>1, <1>3 DEF Establish, TransportTypeOK
<1>7. \A d \in Connection : established'[d] = IF d = c THEN established[c] \cup {n} ELSE established[d]
  BY Zenon, <1>1 DEF Establish, TransportTypeOK
<1>8. TransportTypeOK'
  <2>1. established' \in [Connection -> SUBSET Host]
    BY Zenon, <1>1 DEF Establish, TransportTypeOK
  <2>2. peers' \in [Host -> [Host -> Connection \cup {None}]]
    BY Zenon, <1>1, <1>3 DEF Establish, TransportTypeOK
  <2>3. pending_connections' \in [Host -> SUBSET Host]
    <3>1. CASE ServerReadsKey(c)
      BY Zenon, <3>1 DEF ServerReadsKey, TransportTypeOK
    <3>2. CASE ClientReadsKeyAck(c)
      BY Zenon, <3>2 DEF ClientReadsKeyAck, TransportTypeOK
    <3>3. QED
      BY Zenon, <3>1, <3>2
  <2>4. QED
    BY Zenon, <1>2, <1>5, <2>1, <2>2, <2>3 DEF TransportTypeOK
<1> HIDE DEF m
<1>9. OpenWhileShaking'
  BY Zenon, <1>2, <1>5 DEF OpenWhileShaking, Moved
<1>10. ListedIsServed'
  <2>0. \A k, l \in Host : peers'[k][l] \in Connection \cup {None}
    BY <1>8 DEF TransportTypeOK
  <2> SUFFICES ASSUME NEW k \in Host, NEW l \in Host, NEW e \in Connection, peers'[k][l] = e
               PROVE  Served(e, k, l)'
    BY Zenon, <2>0 DEF ListedIsServed, Served
  <2>1. CASE k = n /\ l = m
    <3>1. n \in is_open[c] /\ e = c
      BY Zenon, <1>1, <1>6, <2>1 DEF OpenWhileShaking
    <3>2. QED
      BY Zenon, <2>1, <3>1, <1>2, <1>3, <1>5, <1>7 DEF Served, Moved
  <2>2. CASE ~(k = n /\ l = m)
    <3>1. Served(e, k, l)
      BY <2>2, <1>6 DEF ListedIsServed, Served
    <3>2. QED
      BY Zenon, <3>1, <1>2, <1>5, <1>7 DEF Served, Moved
  <2>3. QED
    BY Zenon, <2>1, <2>2
<1>11. PendingIsDialling'
  BY Zenon, <1>1, <1>4, <1>5, PendingFollows
<1>12. QED
  BY Zenon, <1>5, <1>8, <1>9, <1>10, <1>11

(* A handshake, or a dialling, that fails.                                 *)
LEMMA HandshakeFailsKeeps ==
  ASSUME NEW c \in Connection, NEW n \in Host, TransportInv, HandshakeFails(c, n)
  PROVE  TransportInv'
<1> USE TransportAssumption DEF TransportInv
<1>1. n \in {client[c], server[c]} /\ stage[c][n] \in Shaking
  BY Zenon DEF HandshakeFails, Shaking
<1>2. UNCHANGED <<client, server, established, peers, running, stopping>>
  BY Zenon DEF HandshakeFails
<1>3. Moves(c, n, "over")
  BY Zenon, <1>1 DEF HandshakeFails, Moves, Shaking
<1>4. /\ stage' \in [Connection -> [Host -> Stage]]
      /\ Moved(c, n, "over") /\ DialsLeft(c, n, "over")
      /\ EndsDiffer' /\ DialFirst' /\ OneDial'
  BY Zenon, <1>3, StageMoves
<1>5. \A d \in Connection : is_open'[d] = IF d = c THEN is_open[c] \ {n} ELSE is_open[d]
  BY Zenon DEF HandshakeFails, TransportTypeOK
<1>6. TransportTypeOK'
  <2>1. is_open' \in [Connection -> SUBSET Host]
    BY Zenon DEF HandshakeFails, TransportTypeOK
  <2>2. pending_connections' \in [Host -> SUBSET Host]
    BY Zenon DEF HandshakeFails, TransportTypeOK
  <2>3. QED
    BY Zenon, <1>2, <1>4, <2>1, <2>2 DEF TransportTypeOK
<1>7. OpenWhileShaking'
  BY Zenon, <1>4, <1>5 DEF OpenWhileShaking, Moved
<1>8. ListedIsServed'
  <2>1. OthersStayOpen(c, n)
    BY Zenon, <1>5 DEF OthersStayOpen
  <2>2. QED
    BY Zenon, <1>1, <1>2, <1>4, <2>1, ShakingIsUnlisted
<1>9. PendingIsDialling'
  <2>1. PendingLeft(c, n)
    BY Zenon DEF HandshakeFails, PendingLeft, TransportTypeOK
  <2>2. QED
    BY Zenon, <1>1, <1>4, <2>1, PendingFollows
<1>10. QED
  BY Zenon, <1>4, <1>6, <1>7, <1>8, <1>9

-----------------------------------------------------------------------------
(* Host n drops what it lists for ms, and closes its end of cs as well.    *)
Drops(n, ms, cs) ==
  /\ peers' = Unlisted(n, ms)
  /\ established' = NotEstablished(n, Listed(n, ms))
  /\ is_open' = Closed(n, Listed(n, ms) \cup cs)

(* Every coroutine stays as it is, except that those of n on es end.       *)
OnlyEnds(n, es) ==
  \A d \in Connection, k \in Host :
    stage'[d][k] = IF k = n /\ d \in es THEN "over" ELSE stage[d][k]

(* None of es is listed for a peer outside ms.                             *)
ListedWithin(n, ms, es) == \A d \in es, l \in Host \ ms : peers[n][l] # d

(* A connection is listed for one peer only, so that dropping what is      *)
(* listed for some peers closes nothing that is still listed for others.   *)
LEMMA DropsKeep ==
  ASSUME NEW n \in Host, NEW ms \in SUBSET Host,
         NEW es \in SUBSET Connection, NEW cs \in SUBSET es,
         TransportTypeOK, ListedIsServed, OpenWhileShaking,
         Drops(n, ms, cs), OnlyEnds(n, es), UNCHANGED <<client, server>>,
         ListedWithin(n, ms, es)
  PROVE  /\ peers' \in [Host -> [Host -> Connection \cup {None}]]
         /\ established' \in [Connection -> SUBSET Host]
         /\ is_open' \in [Connection -> SUBSET Host]
         /\ ListedIsServed' /\ OpenWhileShaking'
<1> USE TransportAssumption
<1>1. /\ peers' \in [Host -> [Host -> Connection \cup {None}]]
      /\ established' \in [Connection -> SUBSET Host]
      /\ is_open' \in [Connection -> SUBSET Host]
  BY DEF Drops, Unlisted, NotEstablished, Closed, TransportTypeOK
<1>2. \A k, l \in Host : peers'[k][l] = IF k = n /\ l \in ms THEN None ELSE peers[k][l]
  BY Zenon DEF Drops, Unlisted, TransportTypeOK
<1>3. \A d \in Connection, k \in Host :
         /\ (d \in Listed(n, ms) => k # n) /\ k \in established[d] => k \in established'[d]
         /\ (d \in Listed(n, ms) \cup cs => k # n) /\ k \in is_open[d] => k \in is_open'[d]
  BY Zenon DEF Drops, NotEstablished, Closed
<1>4. \A d \in Listed(n, ms) : d \in Connection /\ \E l \in ms : Served(d, n, l)
  <2> SUFFICES ASSUME NEW d \in Listed(n, ms)
               PROVE  d \in Connection /\ \E l \in ms : Served(d, n, l)
    BY Zenon
  <2>1. PICK l \in ms : d = peers[n][l] /\ d # None
    BY Zenon DEF Listed
  <2>2. l \in Host /\ d \in Connection
    BY <2>1 DEF TransportTypeOK
  <2>3. Served(d, n, l)
    BY Zenon, <2>1, <2>2 DEF ListedIsServed, Served
  <2>4. QED
    BY Zenon, <2>2, <2>3
<1>5. OpenWhileShaking'
  <2> SUFFICES ASSUME NEW d \in Connection, NEW k \in Host, stage'[d][k] \in {"hello", "key"}
               PROVE  k \in is_open'[d]
    BY Zenon DEF OpenWhileShaking
  <2>1. stage'[d][k] = stage[d][k] /\ ~(k = n /\ d \in es)
    BY Zenon DEF OnlyEnds
  <2>2. ~(k = n /\ d \in Listed(n, ms))
    BY Zenon, <1>4, <2>1 DEF Served
  <2>3. QED
    BY Zenon, <1>3, <2>1, <2>2 DEF OpenWhileShaking
<1>6. ListedIsServed'
  <2>1. \A k, l \in Host : peers'[k][l] \in Connection \cup {None}
    BY <1>1
  <2> SUFFICES ASSUME NEW k \in Host, NEW l \in Host, NEW e \in Connection, peers'[k][l] = e
               PROVE  Served(e, k, l)'
    BY Zenon, <2>1 DEF ListedIsServed, Served
  <2>2. peers[k][l] = e /\ ~(k = n /\ l \in ms)
    BY Zenon, <1>2
  <2>3. Served(e, k, l)
    BY Zenon, <2>2 DEF ListedIsServed, Served
  <2>4. ~(k = n /\ e \in es)
    BY Zenon, <2>2 DEF ListedWithin
  <2>5. ~(k = n /\ e \in Listed(n, ms))
    BY <2>2, <2>3, <1>4 DEF Served
  <2>6. stage'[e][k] = stage[e][k]
    BY Zenon, <2>4 DEF OnlyEnds
  <2>7. k \in established'[e] /\ k \in is_open'[e]
    BY Zenon, <1>3, <2>3, <2>4, <2>5 DEF Served
  <2>8. QED
    BY Zenon, <2>3, <2>6, <2>7 DEF Served
<1>7. QED
  BY Zenon, <1>1, <1>5, <1>6

(* disconnect_peer, the end of stop_server, and what start_server and the  *)
(* beginning of stop_server leave alone.                                   *)
LEMMA DisconnectsKeep ==
  ASSUME NEW n \in Host, TransportInv,
         \/ \E m \in Host : disconnect_peer(n, m)
         \/ stop_server(n) \/ DisconnectAll(n) \/ start_server(n)
  PROVE  TransportInv'
<1> USE TransportAssumption DEF TransportInv
<1>1. UNCHANGED <<client, server, stage, pending_connections>>
  BY Zenon DEF disconnect_peer, stop_server, DisconnectAll, start_server
<1>2. EndsDiffer' /\ DialFirst' /\ OneDial' /\ PendingIsDialling'
  <2>1. EndsDiffer /\ DialFirst /\ OneDial /\ PendingIsDialling
    BY Zenon
  <2>2. EndsDiffer' /\ DialFirst'
    BY ONLY Zenon, <1>1, <2>1 DEF EndsDiffer, DialFirst
  <2>3. OneDial' /\ PendingIsDialling'
    BY ONLY <1>1, <2>1 DEF OneDial, Dialling, PendingIsDialling
  <2>4. QED
    BY ONLY Zenon, <2>2, <2>3
<1>3. running' \in [Host -> BOOLEAN] /\ stopping' \subseteq Host
  BY Zenon DEF disconnect_peer, stop_server, DisconnectAll, start_server, TransportTypeOK
<1>4. CASE stop_server(n) \/ start_server(n)
  <2>1. UNCHANGED <<is_open, established, peers>>
    BY Zenon, <1>4 DEF stop_server, start_server
  <2>2. QED
    BY Zenon, <1>1, <1>2, <1>3, <2>1 DEF TransportTypeOK, OpenWhileShaking, ListedIsServed
<1>5. CASE ~(stop_server(n) \/ start_server(n))
  <2>1. PICK ms \in SUBSET Host : Drops(n, ms, {})
    <3>1. CASE DisconnectAll(n)
      <4>1. Drops(n, Host, {})
        BY Zenon, <3>1 DEF DisconnectAll, Drops
      <4>2. QED
        BY Zenon, <4>1
    <3>2. CASE \E m \in Host : disconnect_peer(n, m)
      <4>1. PICK m \in Host : disconnect_peer(n, m)
        BY Zenon, <3>2
      <4>2. Drops(n, {m}, {})
        BY Zenon, <4>1 DEF disconnect_peer, Drops
      <4>3. QED
        BY Zenon, <4>2
    <3>3. QED
      BY Zenon, <1>5, <3>1, <3>2
  <2>2. OnlyEnds(n, {})
    BY Zenon, <1>1 DEF OnlyEnds
  <2>3. /\ peers' \in [Host -> [Host -> Connection \cup {None}]]
        /\ established' \in [Connection -> SUBSET Host]
        /\ is_open' \in [Connection -> SUBSET Host]
        /\ ListedIsServed' /\ OpenWhileShaking'
    <3>1. ListedWithin(n, ms, {})
      BY Zenon DEF ListedWithin
    <3>2. {} \in SUBSET Connection /\ {} \in SUBSET {} /\ UNCHANGED <<client, server>>
      BY Zenon, <1>1
    <3>3. QED
      BY Zenon, <2>1, <2>2, <3>1, <3>2, DropsKeep
  <2>4. QED
    BY Zenon, <1>1, <1>2, <1>3, <2>3 DEF TransportTypeOK
<1>6. QED
  BY Zenon, <1>4, <1>5

(* A message loop ends: what it closes besides the listed connection is    *)
(* its own, which is listed for no other peer.                             *)
LEMMA LoopEndsKeeps ==
  ASSUME NEW c \in Connection, NEW n \in Host, TransportInv, LoopEnds(c, n)
  PROVE  TransportInv'
<1> USE TransportAssumption DEF TransportInv
<1> DEFINE m == Other(c, n)
<1>1. UNCHANGED <<client, server, pending_connections, running, stopping>>
  BY Zenon DEF LoopEnds
<1>2. Moves(c, n, "over")
  BY Zenon DEF LoopEnds, Moves
<1>3. /\ stage' \in [Connection -> [Host -> Stage]]
      /\ Moved(c, n, "over") /\ DialsLeft(c, n, "over")
      /\ EndsDiffer' /\ DialFirst' /\ OneDial'
  BY Zenon, <1>2, StageMoves
<1>4. stage[c][n] = "loop"
  BY Zenon DEF LoopEnds
<1>5. n \in {client[c], server[c]} /\ m \in Host /\ {client[c], server[c]} = {n, m} /\ n # m
  BY <1>4 DEF EndsDiffer, Other, TransportTypeOK
<1>6. \A d \in Connection, k, l \in Host : Dialling(d, k, l)' <=> Dialling(d, k, l)
  <2>1. \A d \in Connection, k, l \in Host :
          Dialling(d, k, l) => ~(d = c /\ n = client[c])
    BY ONLY Zenon, <1>4 DEF Dialling, Shaking
  <2>2. DialsLeft(c, n, "over")
    BY ONLY Zenon, <1>3
  <2>3. QED
    BY ONLY Zenon, <2>1, <2>2 DEF DialsLeft
<1>7. PendingIsDialling'
  <2>1. PendingIsDialling
    BY Zenon
  <2>2. QED
    BY ONLY <1>1, <1>6, <2>1 DEF PendingIsDialling, Dialling, Shaking
<1>8. \A l \in Host \ {m} : peers[n][l] # c
  <2>1. ListedIsServed /\ n \in Host /\ c # None
    BY Zenon, TransportAssumption
  <2>2. QED
    BY ONLY <1>5, <2>1 DEF ListedIsServed
<1> HIDE DEF m
<1>9. PICK cs \in SUBSET {c} : Drops(n, {m}, cs)
  <2> DEFINE cs == IF n = server[c] THEN {c} ELSE {}
  <2>1. Drops(n, {m}, cs)
    BY Zenon DEF LoopEnds, Drops, m
  <2>2. cs \in SUBSET {c}
    BY Zenon
  <2> HIDE DEF cs
  <2>3. QED
    BY Zenon, <2>1, <2>2
<1>10. OnlyEnds(n, {c})
  BY Zenon, <1>3 DEF OnlyEnds, Moved
<1>11. /\ peers' \in [Host -> [Host -> Connection \cup {None}]]
       /\ established' \in [Connection -> SUBSET Host]
       /\ is_open' \in [Connection -> SUBSET Host]
       /\ ListedIsServed' /\ OpenWhileShaking'
  <2>1. ListedWithin(n, {m}, {c})
    BY Zenon, <1>8 DEF ListedWithin
  <2>2. {m} \in SUBSET Host /\ {c} \in SUBSET Connection /\ UNCHANGED <<client, server>>
    BY Zenon, <1>1, <1>5
  <2>3. QED
    BY Zenon, <1>9, <1>10, <2>1, <2>2, DropsKeep
<1>12. TransportTypeOK'
  BY Zenon, <1>1, <1>3, <1>11 DEF TransportTypeOK
<1>13. QED
  BY Zenon, <1>3, <1>7, <1>11, <1>12

-----------------------------------------------------------------------------
LEMMA TransportStep == TransportInv /\ [TransportNext]_transportVars => TransportInv'
<1> SUFFICES ASSUME TransportInv, [TransportNext]_transportVars PROVE TransportInv'
  BY Zenon
<1>1. CASE UNCHANGED transportVars
  <2>1. UNCHANGED <<client, server, stage, peers, established, is_open,
                    pending_connections, running, stopping>>
    BY ONLY Zenon, <1>1 DEF transportVars
  <2>2. TransportInv
    BY Zenon
  <2>3. TransportTypeOK' /\ EndsDiffer' /\ DialFirst'
    BY ONLY Zenon, <2>1, <2>2 DEF TransportInv, TransportTypeOK, EndsDiffer, DialFirst
  <2>4. OpenWhileShaking' /\ ListedIsServed'
    BY ONLY Zenon, <2>1, <2>2 DEF TransportInv, OpenWhileShaking, ListedIsServed
  <2>5. OneDial' /\ PendingIsDialling'
    BY ONLY <2>1, <2>2 DEF TransportInv, OneDial, Dialling, PendingIsDialling
  <2>6. QED
    BY ONLY Zenon, <2>3, <2>4, <2>5 DEF TransportInv
<1>2. ASSUME NEW c \in Connection,
             \/ \E n, m \in Host : connect_to_peer(n, m, c)
             \/ Accepted(c)
             \/ ServerReadsHello(c) \/ ClientReadsHelloAck(c)
             \/ ServerReadsKey(c) \/ ClientReadsKeyAck(c)
             \/ \E n \in Host : HandshakeFails(c, n) \/ LoopEnds(c, n)
      PROVE  TransportInv'
  BY Zenon, <1>2, ConnectKeeps, AcceptedKeeps, HelloKeeps, KeyKeeps, HandshakeFailsKeeps, LoopEndsKeeps
<1>3. ASSUME NEW n \in Host,
             \/ \E m \in Host : disconnect_peer(n, m)
             \/ stop_server(n) \/ DisconnectAll(n) \/ start_server(n)
      PROVE  TransportInv'
  BY Zenon, <1>3, DisconnectsKeep
<1>4. QED
  BY Zenon, <1>1, <1>2, <1>3 DEF TransportNext

(* A connection listed for a peer is one with that peer, established and   *)
(* open at this end, with its message loop running, for any number of      *)
(* nodes, connections and stops (network_transport.py, peers).             *)
THEOREM ListingsServed == TransportSpec => []ListedIsServed
<1>1. TransportInv => ListedIsServed
  BY Zenon DEF TransportInv
<1>2. QED
  BY TransportStarts, TransportStep, <1>1, PTL DEF TransportSpec

(* pending_connections holds a node exactly while a dial to it is under    *)
(* way, for any number of nodes and connections.                           *)
THEOREM PendingDials == TransportSpec => []PendingIsDialling
<1>1. TransportInv => PendingIsDialling
  BY Zenon DEF TransportInv
<1>2. QED
  BY TransportStarts, TransportStep, <1>1, PTL DEF TransportSpec

(* The type invariant of the transport.                                    *)
THEOREM TransportTypes == TransportSpec => []TransportTypeOK
<1>1. TransportInv => TransportTypeOK
  BY Zenon DEF TransportInv
<1>2. QED
  BY TransportStarts, TransportStep, <1>1, PTL DEF TransportSpec
=============================================================================
