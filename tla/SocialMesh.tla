----------------------------- MODULE SocialMesh -----------------------------
(***************************************************************************)
(* The social feed of the nodes of a local network: beacons by which they  *)
(* find each other, the registry of peers that expire without them, the    *)
(* agent that fetches the feed of one peer at a time, and the store behind *)
(* it.  Nodes are stopped and started again.                               *)
(*                                                                         *)
(* A message is its timestamp, which its sender's clock gave it: messages  *)
(* may be posted in any order of timestamps.  All signatures verify.       *)
(***************************************************************************)
EXTENDS Naturals, FiniteSets

CONSTANTS Member,        \* the nodes
          MaxMessages,   \* bound on the messages posted
          FeedLimit,     \* the limit of get_feed
          MaxCrashes,
          MaxLapses      \* bound on the expiries of a running peer

ASSUME MeshAssumption == FeedLimit \in Nat /\ MaxMessages \in Nat

VARIABLES up,            \* the nodes that run
          posted,        \* the messages posted so far
          messages,      \* _messages, and with it _seen_signatures
          metadata,      \* the values of the metadata table, as stored
          active_peers,  \* the peers that have not expired
          fetched,       \* the messages of a response not looked at yet
          crashes, lapses

meshVars == <<up, posted, messages, metadata, active_peers, fetched, crashes, lapses>>

Message == 1 .. MaxMessages

(* A message as text, so many times turned into JSON.                      *)
Text(m, times) == [message |-> m, dumped |-> times]

MeshInit ==
  /\ up = Member
  /\ posted = {}
  /\ messages = [n \in Member |-> {}]
  /\ metadata = [n \in Member |-> {}]
  /\ active_peers = [n \in Member |-> {}]
  /\ fetched = [n \in Member |-> {}]
  /\ crashes = 0 /\ lapses = 0

-----------------------------------------------------------------------------
(* A beacon of n that m receives.                                          *)
register_peer(n, m) ==
  /\ n # m /\ n \in up /\ m \in up
  /\ active_peers' = [active_peers EXCEPT ![m] = @ \cup {n}]
  /\ UNCHANGED <<up, posted, messages, metadata, fetched, crashes, lapses>>

(* Mutant: a peer never expires.                                           *)
ExpireNever(n, m) == FALSE /\ UNCHANGED meshVars

(* No beacon of n for ttl_seconds: it is gone, or its beacons were lost.   *)
Expire(n, m) ==
  /\ n \in active_peers[m]
  /\ active_peers' = [active_peers EXCEPT ![m] = @ \ {n}]
  /\ \/ n \notin up /\ UNCHANGED lapses
     \/ n \in up /\ lapses < MaxLapses /\ lapses' = lapses + 1
  /\ UNCHANGED <<up, posted, messages, metadata, fetched, crashes>>

(* The store's set_meta dumps the text it is given, which is JSON already. *)
Added(n, m) ==
  /\ messages' = [messages EXCEPT ![n] = @ \cup {m}]
  /\ metadata' = [metadata EXCEPT ![n] = @ \cup {Text(m, 2)}]

post_to_social(n, m) ==
  /\ n \in up
  /\ m \notin posted
  /\ posted' = posted \cup {m}
  /\ Added(n, m)
  /\ UNCHANGED <<up, active_peers, fetched, crashes, lapses>>

(* The newest messages, FeedLimit at most.                                 *)
get_feed(n) == {m \in messages[n] : Cardinality({k \in messages[n] : k > m}) < FeedLimit}

(* A response of peer n; requests may fail or time out at any time.        *)
Fetch(n, m) ==
  /\ m \in up /\ n \in up
  /\ n \in active_peers[m]
  /\ fetched[m] = {}
  /\ fetched' = [fetched EXCEPT ![m] = get_feed(n)]
  /\ UNCHANGED <<up, posted, messages, metadata, active_peers, crashes, lapses>>

Newest(ms) == CHOOSE m \in ms : \A k \in ms : k <= m

(* Mutant: the limit of a response bounds the store too.                   *)
MergeUpToLimit(n) ==
  LET m == Newest(fetched[n])
  IN  /\ n \in up
      /\ fetched[n] # {}
      /\ fetched' = [fetched EXCEPT ![n] = @ \ {m}]
      /\ IF m \in messages[n] \/ Cardinality(messages[n]) >= FeedLimit
         THEN UNCHANGED <<messages, metadata>> ELSE Added(n, m)
      /\ UNCHANGED <<up, posted, active_peers, crashes, lapses>>

(* The next message of the response is added unless it was seen before.    *)
_sync_from_peer(n) ==
  LET m == Newest(fetched[n])
  IN  /\ n \in up
      /\ fetched[n] # {}
      /\ fetched' = [fetched EXCEPT ![n] = @ \ {m}]
      /\ IF m \in messages[n] THEN UNCHANGED <<messages, metadata>> ELSE Added(n, m)
      /\ UNCHANGED <<up, posted, active_peers, crashes, lapses>>

Crash(n) ==
  /\ n \in up /\ crashes < MaxCrashes
  /\ crashes' = crashes + 1
  /\ up' = up \ {n}
  /\ messages' = [messages EXCEPT ![n] = {}]
  /\ active_peers' = [active_peers EXCEPT ![n] = {}]
  /\ fetched' = [fetched EXCEPT ![n] = {}]
  /\ UNCHANGED <<posted, metadata, lapses>>

(* from_json parses once: a text dumped twice gives a string, no message,  *)
(* and is left out.                                                        *)
_recover_messages(n) ==
  /\ n \notin up
  /\ up' = up \cup {n}
  /\ messages' = [messages EXCEPT ![n] = {t.message : t \in {u \in metadata[n] : u.dumped = 1}}]
  /\ UNCHANGED <<posted, metadata, active_peers, fetched, crashes, lapses>>

MeshNext ==
  \/ \E n, m \in Member : register_peer(n, m) \/ Expire(n, m) \/ Fetch(n, m)
  \/ \E n \in Member : \/ \E m \in Message : post_to_social(n, m)
                       \/ _sync_from_peer(n) \/ Crash(n) \/ _recover_messages(n)

MeshSpec == MeshInit /\ [][MeshNext]_meshVars

-----------------------------------------------------------------------------
(* A message that stays among those a running node's feed shows reaches    *)
(* every node that keeps running: whatever order messages, beacons and     *)
(* fetches come in, a message fetched late is not taken for one seen.      *)
FeedsConverge ==
  \A n \in Member : \A m \in Member \ {n}, msg \in Message :
    <>[]({n, m} \subseteq up /\ msg \in get_feed(n)) => <>[](msg \in messages[m])

(* A node that is gone is dropped by all that keep running.                *)
GoneIsDropped ==
  \A n \in Member : <>[](n \notin up) => <>[](\A m \in up : n \notin active_peers[m])

(* A running node has stored every message it shows.                       *)
ShownIsStored == \A n \in up : \A m \in messages[n] : Text(m, 2) \in metadata[n]

(* And yet a node that starts again shows none of them until its peers     *)
(* have sent them: the recovery finds no message in what it stored.        *)
RestartsEmpty == [][\A n \in up' \ up : messages'[n] = {}]_meshVars
=============================================================================
