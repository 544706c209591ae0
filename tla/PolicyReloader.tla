--------------------------- MODULE PolicyReloader ---------------------------
(***************************************************************************)
(* The policy hot-reloader: a thread watches the policy file's time of     *)
(* modification and reloads it, others reload by hand, roll back or read   *)
(* the thresholds.  A policy file is abstracted to its content, and a      *)
(* version to the content it was made from.  The file changes between any  *)
(* two steps, each time with a later time of modification.                 *)
(***************************************************************************)
EXTENDS Naturals, Sequences

CONSTANTS Valid,        \* contents that pass _validate_policy
          Invalid,      \* contents that do not
          Default,      \* the built-in thresholds
          Unparsable,   \* what cannot be loaded: a file half written
          Missing,      \* no file
          NoPolicy,
          MaxEdits,     \* bound on the changes of the file
          MaxVersions   \* bound on the versions made

ASSUME PolicyAssumption ==
  /\ NoPolicy \notin Valid \cup Invalid \cup {Default}
  /\ Missing \notin Valid \cup Invalid

VARIABLES policy_file,      \* the content of _watch_path
          mtime,            \* its time of modification
          last_mtime,       \* _last_mtime
          watching,         \* the watch thread is about to reload
          current_policy,   \* _current_policy
          policy_history,   \* _policy_history
          rolled_back       \* a rollback since the file changed

policyVars == <<policy_file, mtime, last_mtime, watching, current_policy, policy_history, rolled_back>>

Content == Valid \cup Invalid

PolicyInit ==
  /\ policy_file \in Content
  /\ mtime = 1 /\ last_mtime = 0
  /\ watching = FALSE
  /\ current_policy = NoPolicy
  /\ policy_history = <<>>
  /\ rolled_back = FALSE

EditFile ==
  /\ mtime <= MaxEdits
  /\ policy_file' \in Content \cup {Unparsable, Missing}
  /\ mtime' = mtime + 1
  /\ rolled_back' = FALSE
  /\ UNCHANGED <<last_mtime, watching, current_policy, policy_history>>

Swap(content) ==
  /\ Len(policy_history) < MaxVersions
  /\ current_policy' = content
  /\ policy_history' = Append(policy_history, content)

(* load_initial, from get_thresholds: a content that can be loaded becomes *)
(* the policy without validation, the built-in one if there is no file.    *)
get_thresholds ==
  /\ current_policy = NoPolicy
  /\ policy_file # Unparsable
  /\ Swap(IF policy_file = Missing THEN Default ELSE policy_file)
  /\ UNCHANGED <<policy_file, mtime, last_mtime, watching, rolled_back>>

(* Mutant: the content is compared with the version made last.             *)
ReloadComparingLast(force) ==
  LET same == policy_history # <<>> /\ policy_file = policy_history[Len(policy_history)]
  IN  \/ /\ policy_file \in Valid
         /\ force \/ ~same
         /\ Swap(policy_file)
      \/ /\ policy_file \notin Valid \/ (~force /\ same)
         /\ UNCHANGED <<current_policy, policy_history>>

(* The part of reload() inside the lock.                                   *)
Reload(force) ==
  \/ /\ policy_file \in Valid
     /\ force \/ policy_file # current_policy
     /\ Swap(policy_file)
  \/ /\ policy_file \notin Valid \/ (~force /\ policy_file = current_policy)
     /\ UNCHANGED <<current_policy, policy_history>>

reload(force) ==
  /\ Reload(force)
  /\ UNCHANGED <<policy_file, mtime, last_mtime, watching, rolled_back>>

rollback(steps) ==
  /\ Len(policy_history) > steps
  /\ current_policy' = policy_history[Len(policy_history) - steps]
  /\ rolled_back' = TRUE
  /\ UNCHANGED <<policy_file, mtime, last_mtime, watching, policy_history>>

(* The watch thread: a later time of modification is noted first ...       *)
WatchFile ==
  /\ ~watching
  /\ policy_file # Missing
  /\ mtime > last_mtime
  /\ last_mtime' = mtime
  /\ watching' = TRUE
  /\ UNCHANGED <<policy_file, mtime, current_policy, policy_history, rolled_back>>

(* ... and then the file is read, as it is by now.                         *)
WatchReload ==
  /\ watching
  /\ watching' = FALSE
  /\ Reload(FALSE)
  /\ UNCHANGED <<policy_file, mtime, last_mtime, rolled_back>>

PolicyNext ==
  \/ EditFile \/ get_thresholds
  \/ \E force \in BOOLEAN : reload(force)
  \/ \E steps \in 1 .. MaxVersions : rollback(steps)
  \/ WatchFile \/ WatchReload

PolicySpec == PolicyInit /\ [][PolicyNext]_policyVars

-----------------------------------------------------------------------------
(* A valid policy put into the file becomes the active one, unless the     *)
(* file changes again or somebody rolls back: no interleaving of the check *)
(* of the time, the reading of the file, edits, half-written files and     *)
(* reloads by hand makes the watcher miss the last edit.                   *)
LastEditApplied ==
  \A m \in 1 .. MaxEdits + 1, v \in Valid :
    (mtime = m /\ policy_file = v)
      ~> (mtime # m \/ rolled_back \/ current_policy = v \/ Len(policy_history) = MaxVersions)

(* The watch thread never rests on a stale policy: when it has noted the   *)
(* file's time of modification and finished its reload, a valid file is    *)
(* the active policy, unless somebody rolled back since the file changed.  *)
NoEditMissed ==
  ~watching /\ last_mtime = mtime /\ policy_file \in Valid /\ ~rolled_back
    => current_policy = policy_file

(* What is active is a version on record, and every version on record but  *)
(* the first, which load_initial does not validate, passed validation.     *)
OnlyFirstUnchecked ==
  /\ current_policy # NoPolicy => \E i \in 1 .. Len(policy_history) : current_policy = policy_history[i]
  /\ \A i \in 2 .. Len(policy_history) : policy_history[i] \in Valid
=============================================================================
