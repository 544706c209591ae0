------------------------- MODULE FederationTransport -------------------------
(***************************************************************************)
(* The connections between federation nodes: every node dials others and   *)
(* is dialled, each connection goes through the same handshake, and each   *)
(* end is a coroutine that waits only in its reads, which end with a       *)
(* message, at the end of the stream or after connection_timeout.          *)
(*                                                                         *)
(* The stream is TCP: in order and without loss while it is open.  What is *)
(* in flight to an end is one message of the handshake at most, and the    *)
(* messages of an established connection change nothing modelled here.     *)
(* A send does not wait: a handshake never fills the socket's buffer.      *)
(***************************************************************************)
EXTENDS Naturals

CONSTANTS Host,
          Connection,   \* the connections that can be made: a bound
          None,
          MaxStops      \* bound on the stops of a server

ASSUME TransportAssumption == None \notin Connection \cup Host

VARIABLES client, server,   \* the two nodes of a connection, or None
          stage,            \* per connection and node, how far its coroutine is
          is_open,          \* the nodes whose end of the connection is not closed
          inbox,            \* what is in flight to a node on a connection
          established,      \* the nodes whose PeerConnection is ESTABLISHED
          peers,            \* per node, the connection listed for each node
          pending_connections,
          running,          \* _running
          stopping,         \* the nodes within stop_server
          stops

transportVars == <<client, server, stage, is_open, inbox, established, peers,
                   pending_connections, running, stopping, stops>>

(* A client dials, reads HELLO_ACK and KEY_EXCHANGE_ACK, a server reads    *)
(* HELLO and KEY_EXCHANGE; then both are in their message loops.           *)
Stage == {"none", "dial", "hello", "key", "loop", "over"}

Other(c, n) == IF n = client[c] THEN server[c] ELSE client[c]

TransportInit ==
  /\ client = [c \in Connection |-> None]
  /\ server = [c \in Connection |-> None]
  /\ stage = [c \in Connection |-> [n \in Host |-> "none"]]
  /\ is_open = [c \in Connection |-> {}]
  /\ inbox = [c \in Connection |-> [n \in Host |-> None]]
  /\ established = [c \in Connection |-> {}]
  /\ peers = [n \in Host |-> [m \in Host |-> None]]
  /\ pending_connections = [n \in Host |-> {}]
  /\ running = [n \in Host |-> FALSE]
  /\ stopping = {}
  /\ stops = 0

-----------------------------------------------------------------------------
connect_to_peer(n, m, c) ==
  /\ n # m
  /\ m \notin pending_connections[n]
  /\ client[c] = None
  /\ client' = [client EXCEPT ![c] = n]
  /\ server' = [server EXCEPT ![c] = m]
  /\ stage' = [stage EXCEPT ![c][n] = "dial"]
  /\ pending_connections' = [pending_connections EXCEPT ![n] = @ \cup {m}]
  /\ UNCHANGED <<is_open, inbox, established, peers, running, stopping, stops>>

(* open_connection returns: HELLO is sent, and the other node's server     *)
(* starts its coroutine.                                                   *)
Accepted(c) ==
  LET n == client[c]
      m == server[c]
  IN  /\ n # None
      /\ stage[c][n] = "dial" /\ running[m]
      /\ stage' = [stage EXCEPT ![c] = [@ EXCEPT ![n] = "hello", ![m] = "hello"]]
      /\ is_open' = [is_open EXCEPT ![c] = {n, m}]
      /\ inbox' = [inbox EXCEPT ![c][m] = "HELLO"]
      /\ UNCHANGED <<client, server, established, peers, pending_connections, running, stopping, stops>>

(* What is sent on a connection the other end has closed is lost.          *)
Sent(c, n, m, msg) ==
  [inbox EXCEPT ![c] = [@ EXCEPT ![n] = None, ![m] = IF m \in is_open[c] THEN msg ELSE None]]

ServerReadsHello(c) ==
  LET n == server[c]
  IN  /\ n # None
      /\ stage[c][n] = "hello" /\ inbox[c][n] = "HELLO"
      /\ stage' = [stage EXCEPT ![c][n] = "key"]
      /\ inbox' = Sent(c, n, client[c], "HELLO_ACK")
      /\ UNCHANGED <<client, server, is_open, established, peers, pending_connections, running, stopping, stops>>

ClientReadsHelloAck(c) ==
  LET n == client[c]
  IN  /\ n # None
      /\ stage[c][n] = "hello" /\ inbox[c][n] = "HELLO_ACK"
      /\ stage' = [stage EXCEPT ![c][n] = "key"]
      /\ inbox' = Sent(c, n, server[c], "KEY_EXCHANGE")
      /\ UNCHANGED <<client, server, is_open, established, peers, pending_connections, running, stopping, stops>>

(* The end of the handshake at an end: the connection is listed in place   *)
(* of any other with the same node.                                        *)
Establish(c, n) ==
  /\ stage' = [stage EXCEPT ![c][n] = "loop"]
  /\ established' = [established EXCEPT ![c] = @ \cup {n}]
  /\ peers' = [peers EXCEPT ![n][Other(c, n)] = c]

ServerReadsKey(c) ==
  LET n == server[c]
  IN  /\ n # None
      /\ stage[c][n] = "key" /\ inbox[c][n] = "KEY_EXCHANGE"
      /\ inbox' = Sent(c, n, client[c], "KEY_EXCHANGE_ACK")
      /\ Establish(c, n)
      /\ UNCHANGED <<client, server, is_open, pending_connections, running, stopping, stops>>

ClientReadsKeyAck(c) ==
  LET n == client[c]
  IN  /\ n # None
      /\ stage[c][n] = "key" /\ inbox[c][n] = "KEY_EXCHANGE_ACK"
      /\ inbox' = [inbox EXCEPT ![c][n] = None]
      /\ Establish(c, n)
      /\ pending_connections' = [pending_connections EXCEPT ![n] = @ \ {server[c]}]
      /\ UNCHANGED <<client, server, is_open, running, stopping, stops>>

(* Mutant: a client whose handshake fails stays pending.                   *)
FailStayingPending(c, n) ==
  /\ n \in {client[c], server[c]}
  /\ stage[c][n] \in {"dial", "hello", "key"}
  /\ stage' = [stage EXCEPT ![c][n] = "over"]
  /\ is_open' = [is_open EXCEPT ![c] = @ \ {n}]
  /\ inbox' = [inbox EXCEPT ![c][n] = None]
  /\ pending_connections' = [pending_connections EXCEPT ![n] =
       IF stage[c][n] = "dial" THEN @ \ {server[c]} ELSE @]
  /\ UNCHANGED <<client, server, established, peers, running, stopping, stops>>

(* The dialling, or a read of the handshake, fails or times out.           *)
HandshakeFails(c, n) ==
  /\ n \in {client[c], server[c]}
  /\ stage[c][n] \in {"dial", "hello", "key"}
  /\ stage' = [stage EXCEPT ![c][n] = "over"]
  /\ is_open' = [is_open EXCEPT ![c] = @ \ {n}]
  /\ inbox' = [inbox EXCEPT ![c][n] = None]
  /\ pending_connections' = [pending_connections EXCEPT ![n] =
       IF n = client[c] THEN @ \ {server[c]} ELSE @]
  /\ UNCHANGED <<client, server, established, peers, running, stopping, stops>>

-----------------------------------------------------------------------------
(* disconnect_peer: whatever connection is listed is dropped and closed.   *)
Listed(n, ms) == {peers[n][m] : m \in ms} \ {None}

Unlisted(n, ms) == [peers EXCEPT ![n] = [m \in Host |-> IF m \in ms THEN None ELSE @[m]]]

NotEstablished(n, cs) == [c \in Connection |-> IF c \in cs THEN established[c] \ {n} ELSE established[c]]

Closed(n, cs) == [c \in Connection |-> IF c \in cs THEN is_open[c] \ {n} ELSE is_open[c]]

disconnect_peer(n, m) ==
  /\ peers[n][m] # None
  /\ peers' = Unlisted(n, {m})
  /\ established' = NotEstablished(n, Listed(n, {m}))
  /\ is_open' = Closed(n, Listed(n, {m}))
  /\ UNCHANGED <<client, server, stage, inbox, pending_connections, running, stopping, stops>>

(* Mutant: a message loop ends without disconnecting the peer.             *)
EndSilently(c, n) ==
  /\ stage[c][n] = "loop"
  /\ stage' = [stage EXCEPT ![c][n] = "over"]
  /\ is_open' = Closed(n, IF n = server[c] THEN {c} ELSE {})
  /\ UNCHANGED <<client, server, inbox, established, peers, pending_connections, running, stopping, stops>>

(* A message loop ends, for whatever reason: the peer is disconnected, by  *)
(* name, so that a connection made since is dropped in its stead.  A       *)
(* server's end is closed in any case, a client's only with its listing.   *)
LoopEnds(c, n) ==
  LET m == Other(c, n)
  IN  /\ stage[c][n] = "loop"
      /\ stage' = [stage EXCEPT ![c][n] = "over"]
      /\ peers' = Unlisted(n, {m})
      /\ established' = NotEstablished(n, Listed(n, {m}))
      /\ is_open' = Closed(n, Listed(n, {m}) \cup IF n = server[c] THEN {c} ELSE {})
      /\ UNCHANGED <<client, server, inbox, pending_connections, running, stopping, stops>>

(* stop_server waits for the listening socket to close before it           *)
(* disconnects the peers listed by then.                                   *)
stop_server(n) ==
  /\ running[n] /\ stops < MaxStops
  /\ running' = [running EXCEPT ![n] = FALSE]
  /\ stopping' = stopping \cup {n}
  /\ stops' = stops + 1
  /\ UNCHANGED <<client, server, stage, is_open, inbox, established, peers, pending_connections>>

DisconnectAll(n) ==
  /\ n \in stopping
  /\ stopping' = stopping \ {n}
  /\ peers' = Unlisted(n, Host)
  /\ established' = NotEstablished(n, Listed(n, Host))
  /\ is_open' = Closed(n, Listed(n, Host))
  /\ UNCHANGED <<client, server, stage, inbox, pending_connections, running, stops>>

start_server(n) ==
  /\ ~running[n] /\ n \notin stopping
  /\ running' = [running EXCEPT ![n] = TRUE]
  /\ UNCHANGED <<client, server, stage, is_open, inbox, established, peers, pending_connections,
                 stopping, stops>>

TransportNext ==
  \/ \E c \in Connection :
       \/ \E n, m \in Host : connect_to_peer(n, m, c)
       \/ Accepted(c)
       \/ ServerReadsHello(c) \/ ClientReadsHelloAck(c)
       \/ ServerReadsKey(c) \/ ClientReadsKeyAck(c)
       \/ \E n \in Host : HandshakeFails(c, n) \/ LoopEnds(c, n)
  \/ \E n, m \in Host : disconnect_peer(n, m)
  \/ \E n \in Host : stop_server(n) \/ DisconnectAll(n) \/ start_server(n)

(* A message loop ends when its stream has ended at either end, when its   *)
(* connection is no longer established or its server is stopped, and when  *)
(* no heartbeat can arrive: they are only sent on listed connections.      *)
Ending(c, n) ==
  \/ is_open[c] # {client[c], server[c]}
  \/ n \notin established[c]
  \/ ~running[n]
  \/ peers[Other(c, n)][n] # c

-----------------------------------------------------------------------------
TransportSpec == TransportInit /\ [][TransportNext]_transportVars

TransportTypeOK ==
  /\ client \in [Connection -> Host \cup {None}]
  /\ server \in [Connection -> Host \cup {None}]
  /\ stage \in [Connection -> [Host -> Stage]]
  /\ is_open \in [Connection -> SUBSET Host]
  /\ established \in [Connection -> SUBSET Host]
  /\ peers \in [Host -> [Host -> Connection \cup {None}]]
  /\ pending_connections \in [Host -> SUBSET Host]
  /\ running \in [Host -> BOOLEAN]
  /\ stopping \subseteq Host

(* A connection listed for a peer can be used: it is one with that peer,   *)
(* established and open at this end, and its message loop runs to notice   *)
(* its end.  Replaced connections, stops and late handshakes included.     *)
ListedIsServed ==
  \A n, m \in Host :
    LET c == peers[n][m]
    IN  c # None => /\ {client[c], server[c]} = {n, m} /\ n # m
                    /\ stage[c][n] = "loop"
                    /\ n \in established[c] /\ n \in is_open[c]

(* A node counts a connection as pending exactly while one dial to that    *)
(* node is under way, so no failure bars later attempts.                   *)
PendingIsDialling ==
  \A n, m \in Host :
    (m \in pending_connections[n]) <=>
      \E c \in Connection : client[c] = n /\ server[c] = m /\ stage[c][n] \in {"dial", "hello", "key"}

(* The two ends of a connection come to agree whether it is the one they   *)
(* use: what only one of them lists is dropped there or listed by both.    *)
EndsAgree ==
  \A n \in Host : \A m \in Host \ {n}, c \in Connection :
    (peers[n][m] = c /\ peers[m][n] # c) ~> ~(peers[n][m] = c /\ peers[m][n] # c)
=============================================================================
