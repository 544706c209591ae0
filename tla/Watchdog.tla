------------------------------ MODULE Watchdog ------------------------------
(***************************************************************************)
(* The watchdog process: a loop that samples one target process and kills  *)
(* it for using too much memory, for using too much CPU longer than the    *)
(* patience allows, or when it cannot be sampled several times running.    *)
(* The target ends, and its use of memory and CPU and the telemetry change *)
(* between any two iterations.                                             *)
(***************************************************************************)
EXTENDS Naturals

CONSTANTS Patience,    \* patience_seconds
          MaxErrors,   \* max_monitor_errors
          NotHot       \* violation_start_time is None

ASSUME WatchdogAssumption ==
  Patience \in Nat /\ MaxErrors \in Nat \ {0} /\ NotHot \notin Nat

VARIABLES target,                \* "up", "gone" or "killed"
          cpu_hot, mem_high,     \* the target's use is over the limits
          telemetry,             \* whether sampling works
          monitor_error_count,
          hot_for,               \* seconds since violation_start_time, or NotHot
          dog,                   \* the watchdog is "watching" or has "ended"
          kill_failed

dogVars == <<target, cpu_hot, mem_high, telemetry, monitor_error_count, hot_for, dog, kill_failed>>

DogInit ==
  /\ target = "up"
  /\ cpu_hot = FALSE /\ mem_high = FALSE /\ telemetry = TRUE
  /\ monitor_error_count = 0
  /\ hot_for = NotHot
  /\ dog = "watching"
  /\ kill_failed = FALSE

(* The kill goes through, or raises and is only logged.                    *)
execute_kill ==
  /\ \/ target' = (IF target = "up" THEN "killed" ELSE target) /\ UNCHANGED kill_failed
     \/ kill_failed' = TRUE /\ UNCHANGED target
  /\ dog' = "ended"

(* Iterations of monitor(), by how they end.                               *)
TargetEnded ==
  /\ dog = "watching" /\ target # "up"
  /\ dog' = "ended"
  /\ UNCHANGED <<target, cpu_hot, mem_high, telemetry, monitor_error_count, hot_for, kill_failed>>

Sampled ==
  /\ dog = "watching" /\ target = "up" /\ telemetry
  /\ monitor_error_count' = 0
  /\ UNCHANGED <<cpu_hot, mem_high, telemetry>>

MemoryViolation ==
  /\ Sampled /\ mem_high
  /\ execute_kill
  /\ UNCHANGED hot_for

HotSince == IF hot_for = NotHot THEN 0 ELSE hot_for

CpuViolation ==
  /\ Sampled /\ ~mem_high /\ cpu_hot /\ HotSince > Patience
  /\ hot_for' = HotSince
  /\ execute_kill

CpuSpike ==
  /\ Sampled /\ ~mem_high /\ cpu_hot /\ HotSince <= Patience
  /\ hot_for' = HotSince
  /\ UNCHANGED <<target, dog, kill_failed>>

CpuNormal ==
  /\ Sampled /\ ~mem_high /\ ~cpu_hot
  /\ hot_for' = NotHot
  /\ UNCHANGED <<target, dog, kill_failed>>

(* Mutant: an error makes the watchdog forget the spike.                   *)
ErrorForgettingSpike ==
  /\ dog = "watching" /\ (target = "up" => ~telemetry)
  /\ monitor_error_count' = monitor_error_count + 1
  /\ hot_for' = NotHot
  /\ IF monitor_error_count' >= MaxErrors THEN execute_kill ELSE UNCHANGED <<target, dog, kill_failed>>
  /\ UNCHANGED <<cpu_hot, mem_high, telemetry>>

(* Mutant: the watchdog gives up after the last error.                     *)
ErrorGivingUp ==
  /\ dog = "watching" /\ (target = "up" => ~telemetry)
  /\ monitor_error_count' = monitor_error_count + 1
  /\ dog' = IF monitor_error_count' >= MaxErrors THEN "ended" ELSE dog
  /\ UNCHANGED <<target, cpu_hot, mem_high, telemetry, hot_for, kill_failed>>

(* Sampling raises, also because the target has ended since it was seen to *)
(* run.                                                                    *)
MonitorError ==
  /\ dog = "watching" /\ (target = "up" => ~telemetry)
  /\ monitor_error_count' = monitor_error_count + 1
  /\ IF monitor_error_count' >= MaxErrors THEN execute_kill ELSE UNCHANGED <<target, dog, kill_failed>>
  /\ UNCHANGED <<cpu_hot, mem_high, telemetry, hot_for>>

Second ==
  /\ dog = "watching" /\ hot_for # NotHot /\ hot_for <= Patience
  /\ hot_for' = hot_for + 1
  /\ UNCHANGED <<target, cpu_hot, mem_high, telemetry, monitor_error_count, dog, kill_failed>>

TargetChanges ==
  /\ dog = "watching" /\ target = "up"
  /\ target' \in {"up", "gone"}
  /\ cpu_hot' \in BOOLEAN /\ mem_high' \in BOOLEAN /\ telemetry' \in BOOLEAN
  /\ UNCHANGED <<monitor_error_count, hot_for, dog, kill_failed>>

Iteration ==
  TargetEnded \/ MemoryViolation \/ CpuViolation \/ CpuSpike \/ CpuNormal \/ MonitorError

DogNext == Iteration \/ Second \/ TargetChanges

DogSpec == DogInit /\ [][DogNext]_dogVars

-----------------------------------------------------------------------------
(* The watchdog ends only with its target: it leaves one running only when *)
(* the kill itself failed, never for want of telemetry.                    *)
FailClosed == dog = "ended" => target # "up" \/ kill_failed

(* A target that stays hot is ended, however often sampling fails in       *)
(* between: errors too few to kill do not start the patience anew.         *)
HogsEnd == <>[]cpu_hot => <>(dog = "ended")
=============================================================================
