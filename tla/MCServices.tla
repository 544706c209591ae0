----------------------------- MODULE MCServices -----------------------------
(***************************************************************************)
(* The services that keep their state to themselves, in one run: focus is  *)
(* the one that moves, chosen at the start, so that their state spaces add *)
(* up instead of multiplying.                                              *)
(***************************************************************************)
EXTENDS CircuitBreaker, SIEMExporter, AuditLog, PolicyReloader, RoutingTable,
        FederationTransport, ComputeMarket, Watchdog, SocialMesh

VARIABLE focus

serviceVars == <<breakerVars, exporterVars, auditVars, policyVars, tableVars, transportVars,
                 marketVars, dogVars, meshVars, focus>>

At(id, address) == [id |-> id, address |-> address]

MCVerified == {At(1, "a"), At(5, "a"), At(6, "a"), At(6, "b"), At(7, "a")}
MCContact == MCVerified \cup {At(4, "a")}

MCInit ==
  /\ BreakerInit /\ ExporterInit /\ AuditInit /\ PolicyInit /\ TableInit /\ TransportInit
  /\ MarketInit /\ DogInit /\ MeshInit
  /\ focus \in {"breaker", "exporter", "audit", "policy", "table", "transport",
               "market", "dog", "mesh"}
  /\ focus # "policy" => policy_file \in Invalid

BreakerSteps ==
  /\ focus = "breaker" /\ BreakerNext
  /\ UNCHANGED <<exporterVars, auditVars, policyVars, tableVars, transportVars, marketVars, dogVars, meshVars, focus>>

ExporterSteps ==
  /\ focus = "exporter" /\ ExporterNext
  /\ UNCHANGED <<breakerVars, auditVars, policyVars, tableVars, transportVars, marketVars, dogVars, meshVars, focus>>

AuditSteps ==
  /\ focus = "audit" /\ AuditNext
  /\ UNCHANGED <<breakerVars, exporterVars, policyVars, tableVars, transportVars, marketVars, dogVars, meshVars, focus>>

PolicySteps ==
  /\ focus = "policy" /\ PolicyNext
  /\ UNCHANGED <<breakerVars, exporterVars, auditVars, tableVars, transportVars, marketVars, dogVars, meshVars, focus>>

TableSteps ==
  /\ focus = "table" /\ TableNext
  /\ UNCHANGED <<breakerVars, exporterVars, auditVars, policyVars, transportVars, marketVars, dogVars, meshVars, focus>>

TransportSteps ==
  /\ focus = "transport" /\ TransportNext
  /\ UNCHANGED <<breakerVars, exporterVars, auditVars, policyVars, tableVars, marketVars, dogVars, meshVars, focus>>

MarketSteps ==
  /\ focus = "market" /\ MarketNext
  /\ UNCHANGED <<breakerVars, exporterVars, auditVars, policyVars, tableVars, transportVars, dogVars, meshVars, focus>>

DogSteps ==
  /\ focus = "dog" /\ DogNext
  /\ UNCHANGED <<breakerVars, exporterVars, auditVars, policyVars, tableVars, transportVars, marketVars, meshVars, focus>>

MeshSteps ==
  /\ focus = "mesh" /\ MeshNext
  /\ UNCHANGED <<breakerVars, exporterVars, auditVars, policyVars, tableVars, transportVars, marketVars, dogVars, focus>>

MCNext ==
  \/ BreakerSteps \/ ExporterSteps \/ AuditSteps \/ PolicySteps \/ TableSteps \/ TransportSteps
  \/ MarketSteps \/ DogSteps \/ MeshSteps

(* Each service's fairness holds while it is the one that moves.           *)
(* Callers keep calling, the calls of a working service return, and the    *)
(* recovery timeout passes.                                                *)
BreakerFairness ==
  /\ \A c \in Caller : /\ WF_breakerVars(focus = "breaker" /\ CheckState(c))
                       /\ WF_breakerVars(focus = "breaker" /\ AskForTrial(c))
                       /\ WF_breakerVars(focus = "breaker" /\ record_success(c))
  /\ WF_breakerVars(focus = "breaker" /\ RecoveryTimeout)

(* The worker thread runs on, and the flush interval passes in the end.    *)
ExporterFairness ==
  /\ WF_exporterVars(focus = "exporter" /\ (Collect \/ Decide \/ Leave \/ Send \/ SendFails \/ GiveUp))
  /\ SF_exporterVars(focus = "exporter" /\ Decide /\ worker' = "send")

(* The watch thread runs on.                                               *)
PolicyFairness == WF_policyVars(focus = "policy" /\ (WatchFile \/ WatchReload))

(* A ping is answered or times out.                                        *)
TableFairness == WF_tableVars(focus = "table" /\ (PingAnswered \/ PingTimesOut \/ OldestGone))

(* Every read of a connection ends, with a message or not.                 *)
TransportFairness ==
  \A c \in Connection, n \in Host :
    /\ WF_transportVars(focus = "transport" /\ (ClientReadsKeyAck(c) \/ HandshakeFails(c, n)))
    /\ WF_transportVars(focus = "transport" /\ LoopEnds(c, n) /\ Ending(c, n))

(* The watchdog's loop runs on, and time passes.                           *)
DogFairness == WF_dogVars(focus = "dog" /\ Iteration) /\ WF_dogVars(focus = "dog" /\ Second)

(* Beacons get through, the agent runs on, a response is worked off, and a *)
(* peer without beacons expires.  With two nodes the agent's random choice *)
(* of a peer is forced.                                                    *)
MeshFairness ==
  /\ \A n, m \in Member : /\ WF_meshVars(focus = "mesh" /\ register_peer(n, m))
                          /\ WF_meshVars(focus = "mesh" /\ n \notin up /\ Expire(n, m))
  /\ \A m \in Member : WF_meshVars(focus = "mesh" /\ (_sync_from_peer(m) \/ \E n \in Member : Fetch(n, m)))

MCSpec ==
  /\ MCInit /\ [][MCNext]_serviceVars
  /\ BreakerFairness /\ ExporterFairness /\ PolicyFairness /\ TableFairness
  /\ TransportFairness /\ DogFairness /\ MeshFairness
=============================================================================
