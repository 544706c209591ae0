---------------------------- MODULE SIEMExporter ----------------------------
(***************************************************************************)
(* An exporter of audit events: threads put events into a queue, one       *)
(* worker thread collects them into batches and sends each with retries.   *)
(* Events are numbered in the order in which they are exported.  A request *)
(* may fail before or after the SIEM has taken it.                         *)
(***************************************************************************)
EXTENDS Naturals, Sequences

CONSTANTS BatchSize,    \* batch_size
          MaxRetries,   \* max_retries
          MaxEvents     \* bound on the events exported

ASSUME ExporterAssumption == BatchSize \in Nat \ {0} /\ MaxRetries \in Nat \ {0}

VARIABLES event_queue,
          batch,          \* the worker's batch
          worker,         \* where the worker thread is
          attempt,        \* attempts made to send the batch
          shut_down,       \* _shutdown is set
          exported,       \* how many events were exported
          accounted,      \* the events counted as sent or as failed, in that order
          events_sent, events_failed,
          received        \* the events the SIEM has taken, with repetitions

exporterVars == <<event_queue, batch, worker, attempt, shut_down, exported, accounted,
                  events_sent, events_failed, received>>

ExporterInit ==
  /\ event_queue = <<>>
  /\ batch = <<>>
  /\ worker = "collect"
  /\ attempt = 0
  /\ shut_down = FALSE
  /\ exported = 0
  /\ accounted = <<>>
  /\ events_sent = 0 /\ events_failed = 0
  /\ received = <<>>

export ==
  /\ exported < MaxEvents
  /\ exported' = exported + 1
  /\ event_queue' = Append(event_queue, exported')
  /\ UNCHANGED <<batch, worker, attempt, shut_down, accounted, events_sent, events_failed, received>>

shutdown ==
  /\ ~shut_down
  /\ shut_down' = TRUE
  /\ UNCHANGED <<event_queue, batch, worker, attempt, exported, accounted, events_sent,
                 events_failed, received>>

(* The loop's test, and one event taken from the queue or a wait in vain.  *)
Collect ==
  /\ worker = "collect" /\ ~shut_down
  /\ worker' = "decide"
  /\ \/ /\ event_queue # <<>>
        /\ batch' = Append(batch, Head(event_queue))
        /\ event_queue' = Tail(event_queue)
     \/ /\ event_queue = <<>>
        /\ UNCHANGED <<batch, event_queue>>
  /\ UNCHANGED <<attempt, shut_down, exported, accounted, events_sent, events_failed, received>>

(* Mutant: only a full batch is sent.                                      *)
DecideWhenFull ==
  /\ worker = "decide"
  /\ attempt' = 0
  /\ worker' = IF Len(batch) >= BatchSize THEN "send" ELSE "collect"
  /\ UNCHANGED <<event_queue, batch, shut_down, exported, accounted, events_sent, events_failed,
                 received>>

(* Whether flush_interval_seconds have passed is either way.               *)
Decide ==
  /\ worker = "decide"
  /\ attempt' = 0
  /\ \/ /\ batch # <<>>
        /\ worker' = "send"
     \/ /\ Len(batch) < BatchSize
        /\ worker' = "collect"
  /\ UNCHANGED <<event_queue, batch, shut_down, exported, accounted, events_sent, events_failed,
                 received>>

(* The loop ends: what was collected is flushed, what is queued is left.   *)
Leave ==
  /\ worker = "collect" /\ shut_down
  /\ worker' = IF batch = <<>> THEN "stopped" ELSE "send"
  /\ attempt' = 0
  /\ UNCHANGED <<event_queue, batch, shut_down, exported, accounted, events_sent, events_failed,
                 received>>

CountBatch ==
  /\ accounted' = accounted \o batch
  /\ batch' = <<>>
  /\ worker' = "collect"

(* Mutant: a batch that was sent is not emptied.                           *)
SendAndKeep ==
  /\ worker = "send" /\ attempt < MaxRetries
  /\ received' = received \o batch
  /\ events_sent' = events_sent + Len(batch)
  /\ accounted' = accounted \o batch
  /\ worker' = "collect"
  /\ UNCHANGED <<event_queue, batch, attempt, shut_down, exported, events_failed>>

Send ==
  /\ worker = "send" /\ attempt < MaxRetries
  /\ received' = received \o batch
  /\ events_sent' = events_sent + Len(batch)
  /\ CountBatch
  /\ UNCHANGED <<event_queue, attempt, shut_down, exported, events_failed>>

(* Mutant: a batch that could not be sent goes back to the queue's end.    *)
FailAndRequeue ==
  /\ worker = "send" /\ attempt < MaxRetries
  /\ received' \in {received, received \o batch}
  /\ event_queue' = event_queue \o batch
  /\ batch' = <<>>
  /\ worker' = "collect"
  /\ UNCHANGED <<attempt, shut_down, exported, accounted, events_sent, events_failed>>

SendFails ==
  /\ worker = "send" /\ attempt < MaxRetries
  /\ attempt' = attempt + 1
  /\ received' \in {received, received \o batch}
  /\ UNCHANGED <<event_queue, batch, worker, shut_down, exported, accounted, events_sent,
                 events_failed>>

GiveUp ==
  /\ worker = "send" /\ attempt = MaxRetries
  /\ events_failed' = events_failed + Len(batch)
  /\ CountBatch
  /\ UNCHANGED <<event_queue, attempt, shut_down, exported, events_sent, received>>

ExporterNext ==
  \/ export \/ shutdown
  \/ Collect \/ Decide \/ Leave \/ Send \/ SendFails \/ GiveUp

ExporterSpec == ExporterInit /\ [][ExporterNext]_exporterVars

-----------------------------------------------------------------------------
UpTo(n) == [i \in 1 .. n |-> i]

(* Every event is in exactly one place, in order: counted, in the worker's *)
(* hands or queued.  None is lost, counted twice or overtaken, and the two *)
(* counters add up to the events counted.                                  *)
EventsAccounted ==
  /\ accounted \o batch \o event_queue = UpTo(exported)
  /\ events_sent + events_failed = Len(accounted)

(* The SIEM first sees events in the order of their export: repetitions    *)
(* aside, a batch never overtakes an earlier one.                          *)
ReceivedInOrder ==
  \A i, j \in 1 .. Len(received) :
    i < j /\ received[i] > received[j] => \E k \in 1 .. i : received[k] = received[j]

(* Until shutdown every exported event is in the end counted as sent or as *)
(* failed.                                                                 *)
EventsLeave == \A n \in 1 .. MaxEvents : exported = n ~> Len(accounted) >= n \/ shut_down
=============================================================================
